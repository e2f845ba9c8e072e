------------------------------- MODULE Matcher -------------------------------
(***************************************************************************)
(* Definitions of quotas, the matcher (quota/application/matcher.go) and   *)
(* the conflict detection of the configuration service                     *)
(* (configuration/application/service.go, ValidateDefinitions).            *)
(*                                                                         *)
(* A definition is a record: its id and its parent's, 0 for none, numbered *)
(* in the order of their names; target, its tenant and resource; dims, a   *)
(* pattern for each dimension; enabled; wellFormed, the verdict of         *)
(* Definition.Validate on its other fields; and version.  Names and        *)
(* patterns are normalised.  Definitions come as a sequence.               *)
(***************************************************************************)
EXTENDS Integers, Sequences, FiniteSets

Elements(defs) == {defs[i] : i \in DOMAIN defs}
Ids(defs) == {d.id : d \in Elements(defs)}

(* The map by ID: the last definition of a name wins. *)
ById(defs, id) ==
  defs[CHOOSE i \in DOMAIN defs :
         /\ defs[i].id = id
         /\ \A j \in DOMAIN defs : defs[j].id = id => j <= i]

(***************************************************************************)
(* Match and Chain.                                                        *)
(***************************************************************************)

Wildcard == {"", "*"}

Specificity(d) == Cardinality({x \in DOMAIN d.dims : d.dims[x] \notin Wildcard})

Matches(d, r) == \A x \in DOMAIN d.dims : d.dims[x] \in Wildcard \cup {r.dims[x]}

Applies(d, r) == d.enabled /\ d.target = r.target /\ Matches(d, r)

(* SortDefinitions. *)
Before(d, e) ==
  \/ Specificity(d) > Specificity(e)
  \/ Specificity(d) = Specificity(e) /\ d.id < e.id

Candidates(defs, r) == {i \in DOMAIN defs : Applies(defs[i], r)}

(* The first candidate in the stable order; there must be one. *)
Match(defs, r) ==
  defs[CHOOSE i \in Candidates(defs, r) :
         \A j \in Candidates(defs, r) :
           Before(defs[i], defs[j]) \/ (i <= j /\ ~Before(defs[j], defs[i]))]

(* One round of the walk from a definition to its root; empty stands for   *)
(* the errors, a cycle and a parent that is not there.                     *)
Climb(defs, path) ==
  LET current == path[Len(path)]
      seen    == {path[i].id : i \in 1..(Len(path) - 1)}
  IN IF path = <<>> THEN <<>>
     ELSE IF current.parent = 0 THEN path
     ELSE IF current.id \in seen \/ current.parent \notin Ids(defs) THEN <<>>
     ELSE Append(path, ById(defs, current.parent))

(* The walk comes to each definition at most once, before it ends or is    *)
(* found to come back.                                                     *)
Chain(defs, leaf) ==
  LET climbed[n \in 0..(Len(defs) + 1)] ==
        IF n = 0 THEN <<leaf>> ELSE Climb(defs, climbed[n - 1])
  IN climbed[Len(defs) + 1]

(***************************************************************************)
(* ValidateDefinitions.                                                    *)
(***************************************************************************)

DuplicateId(defs) ==
  \E i, j \in DOMAIN defs : i # j /\ defs[i].id = defs[j].id

MissingParent(defs) ==
  \E d \in Elements(defs) : d.parent # 0 /\ d.parent \notin Ids(defs)

AmbiguousScope(defs) ==
  \E i, j \in DOMAIN defs :
    /\ i # j
    /\ defs[i].target = defs[j].target
    /\ defs[i].dims = defs[j].dims
    /\ defs[i].enabled /\ defs[j].enabled

(* The walk from some definition comes to an ID twice: it goes up as many  *)
(* levels as there are definitions.                                        *)
ParentCycleSelf(defs) ==  \* mutant: a definition that is its own parent, only
  \E d \in Elements(defs) : d.parent = d.id
ParentCycle(defs) ==
  \E d \in Elements(defs) :
    LET up[n \in 0..Len(defs)] ==
          IF n = 0 THEN {d}
          ELSE {ById(defs, e.parent) : e \in {x \in up[n - 1] : x.parent \in Ids(defs)}}
    IN up[Len(defs)] # {}

Valid(defs) ==
  /\ \A d \in Elements(defs) : d.wellFormed
  /\ ~DuplicateId(defs)
  /\ ~MissingParent(defs)
  /\ ~AmbiguousScope(defs)
  /\ ~ParentCycle(defs)
=============================================================================
