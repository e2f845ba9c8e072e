-------------------------- MODULE MCConfiguration --------------------------
(* Instances of Configuration: drafts of every kind of conflict, two       *)
(* publications, a rollback and a shadow version.                          *)
EXTENDS Configuration, TLC

MCDims == {"service", "method"}
MCPatterns == {"", "*", "pay", "POST"}

Def(id, parent, service, method) ==
  [id |-> id, parent |-> parent, target |-> "api",
   dims |-> [service |-> service, method |-> method],
   enabled |-> TRUE, wellFormed |-> TRUE, version |-> 1]

Disabled(d) == [d EXCEPT !.enabled = FALSE]

CONSTANTS d1, d2, p1, p2, back, shade  \* the calls, as model values

MCCalls == {d1, d2, p1, p2, back, shade}
MCKind == [c \in MCCalls |->
             CASE c \in {d1, d2} -> "draft"
               [] c \in {p1, p2} -> "publish"
               [] c = back       -> "rollback"
               [] c = shade      -> "shadow"]

(* Calls of one kind are interchangeable. *)
MCSymmetry == Permutations({d1, d2}) \cup Permutations({p1, p2})

MCBootstrap == <<Def(2, 1, "pay", "POST"), Def(1, 0, "*", "*")>>

(* A chain of three through a disabled parent; a cycle of two; a missing   *)
(* parent; one ID twice; one scope twice; a definition that is not         *)
(* well-formed; a copy.                                                    *)
MCContents ==
  {<<Def(3, 2, "pay", "*"), Disabled(Def(2, 1, "*", "POST")), Def(1, 0, "*", "*")>>,
   <<Def(1, 2, "pay", "*"), Def(2, 1, "*", "*")>>,
   <<Def(1, 3, "*", "*")>>,
   <<Def(1, 0, "pay", "*"), Def(1, 0, "*", "*")>>,
   <<Def(1, 0, "pay", "*"), Def(2, 0, "pay", "*")>>,
   <<[Def(1, 0, "*", "*") EXCEPT !.wellFormed = FALSE]>>,
   <<>>}

(* Two ways to write "any service". *)
ScopeContents == {<<Def(1, 0, "*", "*"), Def(2, 0, "", "*")>>}
=============================================================================
