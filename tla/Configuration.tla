---------------------------- MODULE Configuration ----------------------------
(***************************************************************************)
(* The configuration service (configuration/application/service.go) over   *)
(* its memory repository (configuration/infrastructure/memory.go): drafts, *)
(* publication, rollback and the shadow version.                           *)
(*                                                                         *)
(* Calls run concurrently, each an HTTP request whose context can end      *)
(* between any two of its steps.  CreateDraft, Publish and Rollback hold   *)
(* the service's mutex.  What they read is written under it only, so that  *)
(* the reads of one call are a single step; its writes can be seen one by  *)
(* one, because SetShadow and the decisions read without the mutex.        *)
(* Validate and Versions only read.                                        *)
(***************************************************************************)
EXTENDS Matcher

CONSTANTS
  Targets,   \* tenants with their resources
  Dims,      \* the dimensions of a request
  Patterns,  \* what a definition may ask of a dimension
  Calls,     \* invocations of the service
  Kind,      \* Kind[c]: "draft", "publish", "rollback" or "shadow"
  Bootstrap, \* the definitions the process starts with
  Contents,  \* what a client may put in a draft; <<>> copies the base version
  MaxGoal,   \* bound on the versions that clients name
  None

Definitions ==
  [id : Nat \ {0}, parent : Nat, target : Targets, dims : [Dims -> Patterns],
   enabled : BOOLEAN, wellFormed : BOOLEAN, version : Int]

(* The bootstrap definitions are those of runtime.go: of version 1.        *)
ASSUME ConfigurationAssumption ==
  /\ IsFiniteSet(Dims)
  /\ Kind \in [Calls -> {"draft", "publish", "rollback", "shadow"}]
  /\ Bootstrap \in Seq(Definitions) /\ Contents \subseteq Seq(Definitions)
  /\ Valid(Bootstrap) /\ \A d \in Elements(Bootstrap) : d.version = 1
  /\ MaxGoal \in Nat
  /\ None \notin Calls \cup {"ok", "error"}

VARIABLES
  draft,     \* the definitions of the draft, or None
  versions,  \* versions[n]
  active,    \* the number of the active version
  shadow,    \* number and definitions of the shadow version, or None
  mu,        \* who is inside the service, or None
  pc,        \* pc[c]: the next step of call c
  number,    \* number[c]: the version that c makes or has read
  work,      \* work[c]: its definitions
  result,    \* result[c]: "ok" or "error" once c has returned
  ctxDone    \* calls whose context is cancelled

storeVars == <<draft, versions, active, shadow>>
cfgVars == <<storeVars, mu, pc, number, work, result, ctxDone>>

(* Every definition carries the number of its version. *)
Numbered(defs, n) == [i \in DOMAIN defs |-> [defs[i] EXCEPT !.version = n]]

(* NewRuntime and Bootstrap. *)
Init ==
  /\ draft = None
  /\ versions = <<Bootstrap>>
  /\ active = 1
  /\ shadow = None
  /\ mu = None
  /\ pc = [c \in Calls |-> "idle"]
  /\ number = [c \in Calls |-> 0]
  /\ work = [c \in Calls |-> <<>>]
  /\ result = [c \in Calls |-> None]
  /\ ctxDone = {}

FreeAlways == TRUE  \* mutant: no mutex
Free == mu = None

Goto(c, from, to) ==
  /\ pc[c] = from
  /\ pc' = [pc EXCEPT ![c] = to]

Return(c, from, res) ==
  /\ Goto(c, from, "done")
  /\ result' = [result EXCEPT ![c] = res]

(* The next version: one more than the last in the sorted list. *)
NextAfterActive == active + 1  \* mutant: one more than the active version
NextNumber == 1 + CHOOSE n \in DOMAIN versions : \A m \in DOMAIN versions : m <= n

(***************************************************************************)
(* CreateDraft.                                                            *)
(***************************************************************************)

(* Base version 0 stands for the active one. *)
BaseOf(base) == IF base = 0 THEN active ELSE base

CreateDraft(c) ==
  /\ Kind[c] = "draft"
  /\ Free
  /\ c \notin ctxDone
  /\ \E defs \in Contents, base \in 0..MaxGoal :
       /\ defs = <<>> => BaseOf(base) \in DOMAIN versions
       /\ draft' = IF defs = <<>> THEN versions[BaseOf(base)] ELSE defs
  /\ Return(c, "idle", "ok")
  /\ UNCHANGED <<versions, active, shadow, mu, number, work, ctxDone>>

(* The context has ended, or the base version is not there. *)
CreateDraftFails(c) ==
  /\ Kind[c] = "draft"
  /\ Free
  /\ c \in ctxDone \/ (<<>> \in Contents /\ \E base \in 1..MaxGoal : base \notin DOMAIN versions)
  /\ Return(c, "idle", "error")
  /\ UNCHANGED <<storeVars, mu, number, work, ctxDone>>

(***************************************************************************)
(* Publish and Rollback: read, save the version, activate it.              *)
(***************************************************************************)

(* The definitions of the new version: a draft that is valid, or those of  *)
(* an earlier version.                                                     *)
Sources(c) ==
  IF Kind[c] = "publish" THEN {defs \in {draft} \ {None} : Valid(defs)}
                         ELSE {versions[n] : n \in (1..MaxGoal) \cap DOMAIN versions}

Prepare(c) ==
  /\ Kind[c] \in {"publish", "rollback"}
  /\ Free
  /\ c \notin ctxDone
  /\ \E defs \in Sources(c) : work' = [work EXCEPT ![c] = Numbered(defs, NextNumber)]
  /\ number' = [number EXCEPT ![c] = NextNumber]
  /\ mu' = c
  /\ Goto(c, "idle", "store")
  /\ UNCHANGED <<storeVars, result, ctxDone>>

(* The context has ended, there is no draft or it has conflicts, or there  *)
(* is no such version.                                                     *)
PrepareFails(c) ==
  /\ Kind[c] \in {"publish", "rollback"}
  /\ Free
  /\ \/ c \in ctxDone
     \/ Kind[c] = "publish" /\ Sources(c) = {}
     \/ Kind[c] = "rollback" /\ ~((1..MaxGoal) \subseteq DOMAIN versions)
  /\ Return(c, "idle", "error")
  /\ UNCHANGED <<storeVars, mu, number, work, ctxDone>>

SaveVersion(c) ==
  /\ Goto(c, "store", "activate")
  /\ c \notin ctxDone
  /\ versions' = [n \in DOMAIN versions \cup {number[c]} |->
                    IF n = number[c] THEN work[c] ELSE versions[n]]
  /\ UNCHANGED <<draft, active, shadow, mu, number, work, result, ctxDone>>

SetActive(c) ==
  /\ pc[c] = "activate"
  /\ c \notin ctxDone
  /\ number[c] \in DOMAIN versions
  /\ active' = number[c]
  /\ IF Kind[c] = "publish"
     THEN Goto(c, "activate", "discard") /\ UNCHANGED <<mu, result>>
     ELSE Return(c, "activate", "ok") /\ mu' = None
  /\ UNCHANGED <<draft, versions, shadow, number, work, ctxDone>>

(* SaveVersion or SetActive refuses a context that has ended; in the first *)
(* case no version has been made.                                          *)
SaveFails(c) ==
  /\ c \in ctxDone
  /\ Return(c, "store", "error")
  /\ number' = [number EXCEPT ![c] = 0]
  /\ mu' = None
  /\ UNCHANGED <<storeVars, work, ctxDone>>

SetActiveFails(c) ==
  /\ c \in ctxDone
  /\ Return(c, "activate", "error")
  /\ mu' = None
  /\ UNCHANGED <<storeVars, number, work, ctxDone>>

(* DeleteDraft, whose error Publish ignores. *)
DeleteDraft(c) ==
  /\ Return(c, "discard", "ok")
  /\ draft' = IF c \in ctxDone THEN draft ELSE None
  /\ mu' = None
  /\ UNCHANGED <<versions, active, shadow, number, work, ctxDone>>

(***************************************************************************)
(* SetShadow: the version is read before the mutex is taken.               *)
(***************************************************************************)

GetShadow(c) ==
  /\ Kind[c] = "shadow"
  /\ c \notin ctxDone
  /\ \E n \in (1..MaxGoal) \cap DOMAIN versions :
       /\ number' = [number EXCEPT ![c] = n]
       /\ work' = [work EXCEPT ![c] = versions[n]]
  /\ Goto(c, "idle", "shade")
  /\ UNCHANGED <<storeVars, mu, result, ctxDone>>

GetShadowFails(c) ==
  /\ Kind[c] = "shadow"
  /\ c \in ctxDone \/ ~((1..MaxGoal) \subseteq DOMAIN versions)
  /\ Return(c, "idle", "error")
  /\ UNCHANGED <<storeVars, mu, number, work, ctxDone>>

SetShadow(c) ==
  /\ Free
  /\ Return(c, "shade", "ok")
  /\ shadow' = [version |-> number[c], definitions |-> work[c]]
  /\ UNCHANGED <<draft, versions, active, mu, number, work, ctxDone>>

(* The timeout middleware fires or the client goes away. *)
Timeout(c) ==
  /\ pc[c] # "done"
  /\ c \notin ctxDone
  /\ ctxDone' = ctxDone \cup {c}
  /\ UNCHANGED <<storeVars, mu, pc, number, work, result>>

Next ==
  \E c \in Calls :
    \/ CreateDraft(c) \/ CreateDraftFails(c)
    \/ Prepare(c) \/ PrepareFails(c)
    \/ SaveVersion(c) \/ SaveFails(c)
    \/ SetActive(c) \/ SetActiveFails(c) \/ DeleteDraft(c)
    \/ GetShadow(c) \/ GetShadowFails(c) \/ SetShadow(c)
    \/ Timeout(c)

Spec == Init /\ [][Next]_cfgVars

(***************************************************************************)
(* Properties.                                                             *)
(***************************************************************************)

(* The versions are numbered from 1 without gaps, each definition with its *)
(* version's number; the active one exists; the mutex is held by the call  *)
(* that is between its first write and its return.                         *)
TypeOK ==
  /\ DOMAIN versions = 1..Cardinality(DOMAIN versions)
  /\ \A n \in DOMAIN versions : \A d \in Elements(versions[n]) : d.version = n
  /\ active \in DOMAIN versions
  /\ mu \in Calls \cup {None}
  /\ \A c \in Calls : pc[c] \in {"store", "activate", "discard"} <=> mu = c
  /\ pc \in [Calls -> {"idle", "store", "activate", "discard", "shade", "done"}]
  /\ result \in [Calls -> {None, "ok", "error"}]

(* The requests that the definitions of a list tell apart: those that name *)
(* a value of each dimension that occurs in it, or another one.            *)
RequestsOf(defs) ==
  {[target |-> d.target,
    dims |-> [x \in DOMAIN d.dims |-> LET e == pick[x] IN
                IF e.dims[x] \in Wildcard THEN "other" ELSE e.dims[x]]] :
     d \in Elements(defs),
     pick \in [UNION {DOMAIN e.dims : e \in Elements(defs)} -> Elements(defs)]}

(* Whatever is published, rolled back or taken as the shadow, every        *)
(* request that a version matches has a chain in it: from the match to a   *)
(* root, without meeting a definition twice.  The engine's second error    *)
(* return (engine.go, Chain) is never taken.                               *)
Resolves(defs) ==
  \A r \in RequestsOf(defs) :
    Candidates(defs, r) # {} =>
      LET chain == Chain(defs, Match(defs, r)) IN
      /\ chain # <<>>
      /\ \A i, j \in DOMAIN chain : i # j => chain[i].id # chain[j].id
      /\ chain[Len(chain)].parent = 0

VersionsResolve ==
  /\ \A n \in DOMAIN versions : Resolves(versions[n])
  /\ shadow # None => shadow.definitions = versions[shadow.version]

(* A version that was saved and not activated, whose publisher was told of *)
(* an error, never becomes active; a call that succeeded made a version of *)
(* its own, with the definitions it returned, for good.                    *)
Publishes(c) == Kind[c] \in {"publish", "rollback"} /\ number[c] # 0

OutcomeHonest ==
  \A c \in {d \in Calls : Publishes(d)} :
    /\ result[c] = "error" => active # number[c]
    /\ result[c] = "ok" =>
         /\ versions[number[c]] = work[c]
         /\ \A d \in Calls \ {c} : Publishes(d) => number[c] # number[d]

(* The versions are an append-only log, and the active version is switched *)
(* to the newest one only.                                                 *)
Log == INSTANCE VersionLog WITH history <- versions, current <- active
ImplementsLog == Log!LogSpec

(* README: a draft is checked for conflicts of matching scope.  No two     *)
(* enabled definitions of a version match exactly the same requests, so    *)
(* that each of them can be the match of one.                              *)
DistinctScopes ==
  \A n \in DOMAIN versions : \A d, e \in Elements(versions[n]) :
    /\ d.enabled /\ e.enabled
    /\ \A r \in RequestsOf(versions[n]) : Applies(d, r) <=> Applies(e, r)
    => d = e
=============================================================================
