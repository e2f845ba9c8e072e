----------------------------- MODULE MCRegistry -----------------------------
(* Instances of Registry: two calls that may be released, one that is not, *)
(* and a dry run.                                                          *)
EXTENDS Registry

MCCost == [c \in Calls |-> IF c = "b" THEN 2 ELSE 1]
=============================================================================
