------------------------------ MODULE MCEngine ------------------------------
(***************************************************************************)
(* Instances of Engine.  The constants a cfg chooses between are given     *)
(* here; each cfg names the calls of its scenario.                         *)
(***************************************************************************)
EXTENDS Engine, TLC

(* Every counter admits two units. *)
MCLimit == "leaf" :> 2 @@ "root" :> 2

One(chain, cost) == <<[chain |-> chain, cost |-> cost]>>

(* Reservations: two that compete for a chain of two counters, a commit    *)
(* and a cancellation of the first.                                        *)
RsvCalls  == {"r1", "r2", "commit", "cancel"}
RsvKind   == "r1" :> "reserve" @@ "r2" :> "reserve" @@ "commit" :> "commit"
             @@ "cancel" :> "cancel"
RsvItems  == "r1" :> One(<<"leaf", "root">>, 1) @@ "r2" :> One(<<"leaf", "root">>, 2)
             @@ "commit" :> <<>> @@ "cancel" :> <<>>
RsvConsume == [c \in RsvCalls |-> TRUE]
RsvTTL    == [c \in RsvCalls |-> IF c = "r2" THEN 0 ELSE 1]
RsvTarget == [c \in RsvCalls |-> "r1"]

(* Decisions: a batch and a reservation that meet on the root counter, and *)
(* a dry run whose first request no definition matches.                    *)
DecCalls  == {"batch", "reserve", "dry"}
DecKind   == "batch" :> "check" @@ "reserve" :> "reserve" @@ "dry" :> "check"
DecItems  == "batch" :> <<[chain |-> <<"leaf", "root">>, cost |-> 1],
                          [chain |-> <<"root">>, cost |-> 1],
                          [chain |-> <<"root">>, cost |-> 0]>>
             @@ "reserve" :> One(<<"leaf", "root">>, 2)
             @@ "dry" :> <<[chain |-> <<>>, cost |-> 1],
                           [chain |-> <<"root", "leaf">>, cost |-> 2]>>
DecConsume == [c \in DecCalls |-> c # "dry"]
DecTTL    == [c \in DecCalls |-> 1]
DecTarget == [c \in DecCalls |-> "reserve"]
=============================================================================
