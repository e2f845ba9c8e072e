------------------------ MODULE ConfigurationProofs ------------------------
(***************************************************************************)
(* Proofs about module Configuration, for any calls, drafts and bounds:    *)
(* the versions are an append-only log, what a publisher is told of its    *)
(* version is true, and in every version what matches has a chain.         *)
(*                                                                         *)
(* The mutex makes the numbers come out: whoever is inside has read the    *)
(* length of the log, and nobody else writes before it is done.            *)
(***************************************************************************)
EXTENDS Configuration, UnitLemmas, SequenceTheorems

Inside == {"store", "activate", "discard"}
Labels == Inside \cup {"idle", "shade", "done"}

(* The versions are a sequence, and the active one is in it. *)
IsLog ==
  /\ Len(versions) \in Nat \ {0}
  /\ versions = [n \in 1..Len(versions) |-> versions[n]]
  /\ active \in 1..Len(versions)

Shape ==
  /\ pc \in [Calls -> Labels]
  /\ number \in [Calls -> Nat]
  /\ result \in [Calls -> {None, "ok", "error"}]
  /\ work = [c \in Calls |-> work[c]]
  /\ \A c \in Calls : pc[c] \in Inside <=> mu = c
  /\ \A c \in Calls : pc[c] \in Inside => Kind[c] \in {"publish", "rollback"}
  /\ \A c \in Calls : pc[c] = "shade" => Kind[c] = "shadow"

(* Whoever is inside is about to add the next version, or has added the    *)
(* last one, which is not active before it is made so.                     *)
AtTheEnd ==
  \A c \in Calls :
    /\ pc[c] = "store" => number[c] = Len(versions) + 1
    /\ pc[c] \in {"activate", "discard"} => number[c] = Len(versions)
    /\ pc[c] = "activate" => active # number[c]

(* Every publisher that has a number and is past the store has a version   *)
(* of its own, which holds what it made.                                   *)
Stored(c) == Publishes(c) /\ pc[c] # "store"
OwnVersion ==
  \A c \in Calls : Stored(c) =>
    /\ number[c] \in 1..Len(versions)
    /\ versions[number[c]] = work[c]
    /\ \A d \in Calls \ {c} : Stored(d) => number[c] # number[d]

(* A publisher has a number from the moment it is inside; only what has    *)
(* returned has a result, and a publisher that failed is not the active.   *)
Told ==
  \A c \in Calls :
    /\ result[c] # None => pc[c] = "done"
    /\ Kind[c] # "shadow" /\ pc[c] = "idle" => number[c] = 0
    /\ Publishes(c) /\ result[c] = "error" => active # number[c]

CInv == IsLog /\ Shape /\ AtTheEnd /\ OwnVersion /\ Told

LEMMA LengthOf ==
  ASSUME NEW n \in Nat, NEW f, f = [i \in 1..n |-> f[i]]
  PROVE  Len(f) = n /\ DOMAIN f = 1..n
  <1>1. DOMAIN f = 1..n
    OBVIOUS
  <1>2. f \in Seq({f[i] : i \in 1..n})
    OBVIOUS
  <1>3. Len(f) \in Nat /\ DOMAIN f = 1..Len(f)
    BY <1>2
  <1> QED
    BY <1>1, <1>3

LEMMA InitLog == Init => CInv
  <1> SUFFICES ASSUME Init PROVE CInv
    OBVIOUS
  <1>1. IsLog
    BY DEF Init, IsLog
  <1>2. Shape
    BY ConfigurationAssumption DEF Init, Shape, Inside, Labels
  <1>3. AtTheEnd /\ OwnVersion /\ Told
    BY ConfigurationAssumption DEF Init, AtTheEnd, OwnVersion, Told, Stored, Publishes
  <1> QED
    BY <1>1, <1>2, <1>3 DEF CInv

LEMMA NextIsLast == IsLog => NextNumber = Len(versions) + 1 /\ DOMAIN versions = 1..Len(versions)
  <1> SUFFICES ASSUME IsLog PROVE NextNumber = Len(versions) + 1 /\ DOMAIN versions = 1..Len(versions)
    OBVIOUS
  <1>1. DOMAIN versions = 1..Len(versions) /\ Len(versions) \in Nat \ {0}
    BY DEF IsLog
  <1>2. \A m \in DOMAIN versions : m <= Len(versions)
    BY <1>1
  <1>3. \A n \in DOMAIN versions : (\A m \in DOMAIN versions : m <= n) => n = Len(versions)
    BY <1>1
  <1>4. (CHOOSE n \in DOMAIN versions : \A m \in DOMAIN versions : m <= n) = Len(versions)
    BY <1>1, <1>2, <1>3
  <1> QED
    BY <1>1, <1>4 DEF NextNumber

(* What a step of c that returns leaves behind. *)
LEMMA ReturnFacts ==
  ASSUME Shape, NEW c \in Calls, NEW from, NEW res, Return(c, from, res)
  PROVE  /\ pc[c] = from
         /\ \A d \in Calls : pc'[d] = IF d = c THEN "done" ELSE pc[d]
         /\ \A d \in Calls : result'[d] = IF d = c THEN res ELSE result[d]
         /\ pc' \in [Calls -> Labels]
         /\ res \in {"ok", "error"} => result' \in [Calls -> {None, "ok", "error"}]
  BY DEF Return, Goto, Shape, Labels

LEMMA GotoFacts ==
  ASSUME Shape, NEW c \in Calls, NEW from, NEW to \in Labels, Goto(c, from, to)
  PROVE  /\ pc[c] = from
         /\ \A d \in Calls : pc'[d] = IF d = c THEN to ELSE pc[d]
         /\ pc' \in [Calls -> Labels]
  BY DEF Goto, Shape

(* A call returns without a version of its own, or keeps the one it has    *)
(* stored.                                                                 *)
LEMMA ReturnKeeps ==
  ASSUME CInv, NEW c \in Calls, NEW from, NEW res \in {"ok", "error"}, Return(c, from, res),
         UNCHANGED <<versions, active, number, work>>,
         \/ from \in {"idle", "shade"} /\ mu' = mu
         \/ from \in {"activate", "discard"} /\ mu' = None,
         from = "discard" => res = "ok",
         from = "activate" => res = "error"
  PROVE  CInv'
  <1> USE ConfigurationAssumption DEF CInv
  <1>1. /\ pc[c] = from
        /\ \A d \in Calls : pc'[d] = IF d = c THEN "done" ELSE pc[d]
        /\ \A d \in Calls : result'[d] = IF d = c THEN res ELSE result[d]
        /\ pc' \in [Calls -> Labels]
        /\ result' \in [Calls -> {None, "ok", "error"}]
    BY ReturnFacts
  <1>2. IsLog'
    BY DEF IsLog
  <1>3. Shape'
    BY <1>1 DEF Shape, Inside
  <1>4. AtTheEnd'
    BY <1>1 DEF AtTheEnd
  <1>5. OwnVersion'
    <2>1. \A d \in Calls : Stored(d)' => Stored(d)
      BY <1>1 DEF Stored, Publishes
    <2> QED
      BY <2>1 DEF OwnVersion
  <1>6. Told'
    <2>1. Publishes(c) /\ res = "error" => active # number[c]
      BY <1>1 DEF Publishes, Told, AtTheEnd, Shape
    <2> QED
      BY <1>1, <2>1 DEF Told, Publishes
  <1> QED
    BY <1>2, <1>3, <1>4, <1>5, <1>6

LEMMA PrepareKeeps ==
  ASSUME CInv, NEW c \in Calls, Prepare(c)
  PROVE  CInv'
  <1> USE ConfigurationAssumption DEF CInv
  <1>1. /\ pc[c] = "idle" /\ pc' \in [Calls -> Labels]
        /\ \A d \in Calls : pc'[d] = IF d = c THEN "store" ELSE pc[d]
    BY GotoFacts DEF Prepare, Labels, Inside
  <1>2. /\ UNCHANGED <<versions, active, result>>
        /\ mu = None /\ mu' = c /\ Kind[c] \in {"publish", "rollback"}
        /\ number' = [number EXCEPT ![c] = Len(versions) + 1]
        /\ \E defs : work' = [work EXCEPT ![c] = defs]
    BY NextIsLast DEF Prepare, Free, storeVars
  <1>3. Len(versions) \in Nat
    BY DEF IsLog
  <1>4. \A d \in Calls : d # c => number'[d] = number[d] /\ work'[d] = work[d]
    BY <1>2 DEF Shape
  <1>5. number'[c] = Len(versions) + 1 /\ number' \in [Calls -> Nat]
    BY <1>2, <1>3 DEF Shape
  <1>6. IsLog'
    BY <1>2 DEF IsLog
  <1>7. Shape'
    <2>1. work' = [d \in Calls |-> work'[d]]
      BY <1>2 DEF Shape
    <2> QED
      BY <1>1, <1>2, <1>5, <2>1 DEF Shape, Inside
  <1>8. \A d \in Calls : pc[d] \notin Inside
    BY <1>2 DEF Shape
  <1>9. AtTheEnd'
    BY <1>1, <1>2, <1>5, <1>8 DEF AtTheEnd, Inside
  <1>10. OwnVersion'
    <2>1. \A d \in Calls : Stored(d)' => d # c /\ Stored(d)
      BY <1>1, <1>4 DEF Stored, Publishes
    <2> QED
      BY <1>2, <1>4, <2>1 DEF OwnVersion
  <1>11. Told'
    BY <1>1, <1>2, <1>4 DEF Told, Publishes
  <1> QED
    BY <1>6, <1>7, <1>9, <1>10, <1>11

LEMMA SaveKeeps ==
  ASSUME CInv, NEW c \in Calls, SaveVersion(c)
  PROVE  CInv' /\ Log!Extend
  <1> USE ConfigurationAssumption DEF CInv
  <1>1. /\ pc[c] = "store" /\ pc' \in [Calls -> Labels]
        /\ \A d \in Calls : pc'[d] = IF d = c THEN "activate" ELSE pc[d]
    BY GotoFacts DEF SaveVersion, Labels, Inside
  <1>2. PICK n \in Nat \ {0} : n = Len(versions)
    BY DEF IsLog
  <1>3. number[c] = n + 1 /\ DOMAIN versions = 1..n
    BY <1>1, <1>2 DEF AtTheEnd, IsLog
  <1>4. UNCHANGED <<active, mu, number, work, result>>
    BY DEF SaveVersion
  <1>5. versions' = [m \in 1..(n + 1) |-> IF m = n + 1 THEN work[c] ELSE versions[m]]
    <2>1. (1..n) \cup {n + 1} = 1..(n + 1)
      OBVIOUS
    <2> QED
      BY <1>3, <2>1 DEF SaveVersion
  <1>6. Len(versions') = n + 1 /\ \A m \in 1..(n + 1) : versions'[m] = IF m = n + 1 THEN work[c] ELSE versions[m]
    BY <1>5, LengthOf
  <1>7. IsLog'
    <2>1. versions' = [m \in 1..(n + 1) |-> versions'[m]]
      BY <1>5
    <2>2. active \in 1..(n + 1)
      BY <1>2 DEF IsLog
    <2> QED
      BY <1>4, <1>6, <2>1, <2>2 DEF IsLog
  <1>8. Shape'
    BY <1>1, <1>4 DEF Shape, Inside
  <1>9. \A d \in Calls : d # c => pc[d] \notin Inside
    BY <1>1 DEF Shape, Inside
  <1>10. AtTheEnd'
    <2>1. active # n + 1
      BY <1>2 DEF IsLog
    <2> QED
      BY <1>1, <1>3, <1>4, <1>6, <1>9, <2>1 DEF AtTheEnd, Inside
  <1>11. OwnVersion'
    <2>1. \A d \in Calls : d # c /\ Stored(d)' => Stored(d) /\ number[d] \in 1..n
      BY <1>1, <1>2, <1>4 DEF Stored, Publishes, OwnVersion
    <2>2. \A d \in Calls : d # c /\ Stored(d)' => number'[d] \in 1..(n + 1) /\ versions'[number[d]] = work[d] /\ number'[d] # n + 1
      BY <1>2, <1>4, <1>6, <2>1 DEF OwnVersion
    <2>3. number'[c] = n + 1 /\ versions'[n + 1] = work[c] /\ n + 1 \in 1..(n + 1)
      BY <1>3, <1>4, <1>6
    <2>4. ASSUME NEW d \in Calls, NEW e \in Calls, d # e, Stored(d)', Stored(e)'
          PROVE  number'[d] # number'[e]
      BY <1>4, <2>1, <2>2, <2>3, <2>4 DEF OwnVersion
    <2> QED
      BY <1>4, <1>6, <2>2, <2>3, <2>4 DEF OwnVersion
  <1>12. Told'
    BY <1>1, <1>4 DEF Told, Publishes
  <1>13. Log!Extend
    BY <1>2, <1>4, <1>6 DEF Log!Extend
  <1> QED
    BY <1>7, <1>8, <1>10, <1>11, <1>12, <1>13

LEMMA SetActiveKeeps ==
  ASSUME CInv, NEW c \in Calls, SetActive(c)
  PROVE  CInv' /\ Log!Switch
  <1> USE ConfigurationAssumption DEF CInv
  <1>1. /\ pc[c] = "activate" /\ active' = number[c] /\ number[c] = Len(versions)
        /\ UNCHANGED <<versions, number, work>>
    BY DEF SetActive, AtTheEnd
  <1>2. PICK to \in {"discard", "done"} :
          /\ Goto(c, "activate", to)
          /\ to = "discard" => UNCHANGED <<mu, result>>
          /\ to = "done" => mu' = None /\ result' = [result EXCEPT ![c] = "ok"]
    BY DEF SetActive, Return
  <1>3. /\ pc' \in [Calls -> Labels]
        /\ \A d \in Calls : pc'[d] = IF d = c THEN to ELSE pc[d]
    BY <1>2, GotoFacts DEF Labels, Inside
  <1>4. /\ result' \in [Calls -> {None, "ok", "error"}]
        /\ \A d \in Calls : d # c => result'[d] = result[d]
        /\ result'[c] # None => to = "done" /\ result'[c] = "ok"
    <2>1. result[c] = None
      BY <1>1 DEF Told
    <2> QED
      BY <1>2, <2>1 DEF Shape
  <1>5. IsLog'
    BY <1>1 DEF IsLog
  <1>6. \A d \in Calls : d # c => pc[d] \notin Inside
    BY <1>1 DEF Shape, Inside
  <1>7. mu = c /\ Kind[c] \in {"publish", "rollback"}
    BY <1>1 DEF Shape, Inside
  <1>8. Shape'
    <2>1. \A d \in Calls : pc'[d] \in Inside <=> mu' = d
      BY <1>2, <1>3, <1>6, <1>7 DEF Inside
    <2>2. \A d \in Calls : /\ pc'[d] \in Inside => Kind[d] \in {"publish", "rollback"}
                           /\ pc'[d] = "shade" => Kind[d] = "shadow"
      BY <1>3, <1>6, <1>7 DEF Shape
    <2> QED
      BY <1>1, <1>3, <1>4, <2>1, <2>2 DEF Shape
  <1>9. AtTheEnd'
    BY <1>1, <1>3, <1>6 DEF AtTheEnd, Inside
  <1>10. \A d \in Calls : Stored(d)' => Stored(d)
    BY <1>1, <1>3 DEF Stored, Publishes
  <1>11. OwnVersion'
    BY <1>1, <1>10 DEF OwnVersion
  <1>12. Told'
    <2> SUFFICES ASSUME NEW d \in Calls
                 PROVE  /\ result'[d] # None => pc'[d] = "done"
                        /\ Kind[d] # "shadow" /\ pc'[d] = "idle" => number'[d] = 0
                        /\ Publishes(d)' /\ result'[d] = "error" => active' # number'[d]
      BY DEF Told
    <2>1. CASE d = c
      BY <1>2, <1>3, <1>4, <2>1
    <2>2. CASE d # c
      <3>1. result'[d] = result[d] /\ pc'[d] = pc[d]
        BY <1>3, <1>4, <2>2
      <3>2. ASSUME Publishes(d), result[d] = "error" PROVE number[d] # number[c]
        <4>1. Stored(d) /\ Stored(c)
          <5>1. pc[d] # "store"
            BY <1>6, <2>2 DEF Inside
          <5>2. number[c] # 0
            BY <1>1 DEF IsLog
          <5> QED
            BY <1>1, <1>7, <3>2, <5>1, <5>2 DEF Stored, Publishes
        <4> QED
          BY <2>2, <4>1 DEF OwnVersion
      <3> QED
        BY <1>1, <3>1, <3>2 DEF Told, Publishes
    <2> QED
      BY <2>1, <2>2
  <1>13. Log!Switch
    BY <1>1 DEF Log!Switch
  <1> QED
    BY <1>5, <1>8, <1>9, <1>11, <1>12, <1>13

(* A version that was not saved gives its number back. *)
LEMMA SaveFailsKeeps ==
  ASSUME CInv, NEW c \in Calls, SaveFails(c)
  PROVE  CInv'
  <1> USE ConfigurationAssumption DEF CInv
  <1>1. /\ pc[c] = "store"
        /\ \A d \in Calls : pc'[d] = IF d = c THEN "done" ELSE pc[d]
        /\ \A d \in Calls : result'[d] = IF d = c THEN "error" ELSE result[d]
        /\ pc' \in [Calls -> Labels]
        /\ result' \in [Calls -> {None, "ok", "error"}]
    BY ReturnFacts DEF SaveFails
  <1>2. /\ UNCHANGED <<versions, active, work>> /\ mu' = None
        /\ number' = [number EXCEPT ![c] = 0]
    BY DEF SaveFails, storeVars
  <1>3. number' \in [Calls -> Nat] /\ \A d \in Calls : number'[d] = IF d = c THEN 0 ELSE number[d]
    BY <1>2 DEF Shape
  <1>4. IsLog'
    BY <1>2 DEF IsLog
  <1>5. Shape'
    BY <1>1, <1>2, <1>3 DEF Shape, Inside
  <1>6. AtTheEnd'
    BY <1>1, <1>2, <1>3 DEF AtTheEnd
  <1>7. \A d \in Calls : Stored(d)' => Stored(d) /\ d # c
    BY <1>1, <1>3 DEF Stored, Publishes
  <1>8. OwnVersion'
    BY <1>2, <1>3, <1>7 DEF OwnVersion
  <1>9. Told'
    BY <1>1, <1>2, <1>3 DEF Told, Publishes
  <1> QED
    BY <1>4, <1>5, <1>6, <1>8, <1>9

LEMMA GetShadowKeeps ==
  ASSUME CInv, NEW c \in Calls, GetShadow(c)
  PROVE  CInv'
  <1> USE ConfigurationAssumption DEF CInv
  <1>1. /\ pc[c] = "idle" /\ pc' \in [Calls -> Labels]
        /\ \A d \in Calls : pc'[d] = IF d = c THEN "shade" ELSE pc[d]
    BY GotoFacts DEF GetShadow, Labels
  <1>2. /\ UNCHANGED <<versions, active, mu, result>> /\ Kind[c] = "shadow"
        /\ \E n \in Nat : number' = [number EXCEPT ![c] = n]
        /\ \E defs : work' = [work EXCEPT ![c] = defs]
    <2>1. UNCHANGED <<versions, active, mu, result>> /\ Kind[c] = "shadow"
      BY DEF GetShadow, storeVars
    <2>2. PICK n \in (1..MaxGoal) \cap DOMAIN versions :
            /\ number' = [number EXCEPT ![c] = n]
            /\ work' = [work EXCEPT ![c] = versions[n]]
      BY DEF GetShadow
    <2>3. n \in Nat
      OBVIOUS
    <2> QED
      BY <2>1, <2>2, <2>3
  <1>3. /\ number' \in [Calls -> Nat]
        /\ \A d \in Calls : d # c => number'[d] = number[d] /\ work'[d] = work[d]
        /\ work' = [d \in Calls |-> work'[d]]
    BY <1>2 DEF Shape
  <1>4. IsLog'
    BY <1>2 DEF IsLog
  <1>5. Shape'
    BY <1>1, <1>2, <1>3 DEF Shape, Inside
  <1>6. AtTheEnd'
    BY <1>1, <1>2, <1>3 DEF AtTheEnd
  <1>7. \A d \in Calls : Stored(d)' => Stored(d) /\ d # c
    BY <1>1, <1>2, <1>3 DEF Stored, Publishes
  <1>8. OwnVersion'
    BY <1>2, <1>3, <1>7 DEF OwnVersion
  <1>9. Told'
    BY <1>1, <1>2, <1>3 DEF Told, Publishes
  <1> QED
    BY <1>4, <1>5, <1>6, <1>8, <1>9

LEMMA SameKeeps ==
  ASSUME CInv, UNCHANGED <<versions, active, mu, pc, number, work, result>>
  PROVE  CInv'
  BY DEF CInv, IsLog, Shape, AtTheEnd, OwnVersion, Stored, Publishes, Told

LEMMA CallMoves ==
  ASSUME CInv, NEW c \in Calls,
         \/ CreateDraft(c) \/ CreateDraftFails(c) \/ Prepare(c) \/ PrepareFails(c)
         \/ SaveVersion(c) \/ SaveFails(c) \/ SetActive(c) \/ SetActiveFails(c) \/ DeleteDraft(c)
         \/ GetShadow(c) \/ GetShadowFails(c) \/ SetShadow(c) \/ Timeout(c)
  PROVE  CInv' /\ (Log!Extend \/ Log!Switch \/ UNCHANGED Log!logVars)
  <1>1. CASE CreateDraft(c) \/ CreateDraftFails(c) \/ PrepareFails(c) \/ GetShadowFails(c)
    <2>1. \E res \in {"ok", "error"} : Return(c, "idle", res)
      BY <1>1 DEF CreateDraft, CreateDraftFails, PrepareFails, GetShadowFails
    <2>2. UNCHANGED <<versions, active, number, work, mu>>
      BY <1>1 DEF CreateDraft, CreateDraftFails, PrepareFails, GetShadowFails, storeVars
    <2> QED
      BY <2>1, <2>2, ReturnKeeps DEF Log!logVars
  <1>2. CASE SetShadow(c)
    <2>1. Return(c, "shade", "ok") /\ UNCHANGED <<versions, active, number, work, mu>>
      BY <1>2 DEF SetShadow
    <2> QED
      BY <2>1, ReturnKeeps DEF Log!logVars
  <1>3. CASE SetActiveFails(c)
    <2>1. Return(c, "activate", "error") /\ UNCHANGED <<versions, active, number, work>> /\ mu' = None
      BY <1>3 DEF SetActiveFails, storeVars
    <2> QED
      BY <2>1, ReturnKeeps DEF Log!logVars
  <1>4. CASE DeleteDraft(c)
    <2>1. Return(c, "discard", "ok") /\ UNCHANGED <<versions, active, number, work>> /\ mu' = None
      BY <1>4 DEF DeleteDraft
    <2> QED
      BY <2>1, ReturnKeeps DEF Log!logVars
  <1>5. CASE Prepare(c)
    BY <1>5, PrepareKeeps DEF Prepare, storeVars, Log!logVars
  <1>6. CASE SaveVersion(c)
    BY <1>6, SaveKeeps
  <1>7. CASE SetActive(c)
    BY <1>7, SetActiveKeeps
  <1>8. CASE SaveFails(c)
    BY <1>8, SaveFailsKeeps DEF SaveFails, storeVars, Log!logVars
  <1>9. CASE GetShadow(c)
    BY <1>9, GetShadowKeeps DEF GetShadow, storeVars, Log!logVars
  <1>10. CASE Timeout(c)
    BY <1>10, SameKeeps DEF Timeout, storeVars, Log!logVars
  <1> QED
    BY <1>1, <1>2, <1>3, <1>4, <1>5, <1>6, <1>7, <1>8, <1>9, <1>10

LEMMA StepLog ==
  CInv /\ [Next]_cfgVars => CInv' /\ [Log!Extend \/ Log!Switch]_(Log!logVars)
  <1> SUFFICES ASSUME CInv, [Next]_cfgVars
               PROVE  CInv' /\ [Log!Extend \/ Log!Switch]_(Log!logVars)
    OBVIOUS
  <1>1. CASE UNCHANGED cfgVars
    BY <1>1, SameKeeps DEF cfgVars, storeVars, Log!logVars
  <1>2. CASE Next
    BY <1>2, CallMoves DEF Next
  <1> QED
    BY <1>1, <1>2

LEMMA AlwaysCInv == Spec => []CInv
  <1> QED
    BY InitLog, StepLog, PTL DEF Spec

(* configuration/application/service.go, Publish and Rollback, with        *)
(* SaveVersion and SetActive of the repository: no version is changed or   *)
(* overwritten, and the active one is switched to the newest only, however *)
(* calls overlap and whichever of their steps fail.                        *)
THEOREM VersionsAreLog == Spec => ImplementsLog
  <1>1. Init => Log!LogInit
    <2> SUFFICES ASSUME Init PROVE Log!LogInit
      OBVIOUS
    <2> QED
      BY DEF Init, Log!LogInit
  <1> QED
    BY <1>1, AlwaysCInv, StepLog, PTL DEF Spec, ImplementsLog, Log!LogSpec

(* The same calls: a publisher that was told of an error has not switched  *)
(* the active version, and one that succeeded has a version of its own     *)
(* with what it was told, for good.                                        *)
THEOREM OutcomesHonest == Spec => []OutcomeHonest
  <1>1. CInv => OutcomeHonest
    <2> SUFFICES ASSUME CInv, NEW c \in Calls, Publishes(c)
                 PROVE  /\ result[c] = "error" => active # number[c]
                        /\ result[c] = "ok" =>
                             /\ versions[number[c]] = work[c]
                             /\ \A d \in Calls \ {c} : Publishes(d) => number[c] # number[d]
      BY DEF OutcomeHonest
    <2>1. result[c] = "error" => active # number[c]
      BY DEF CInv, Told
    <2>2. ASSUME result[c] = "ok", result[c] # None
          PROVE  /\ versions[number[c]] = work[c]
                 /\ \A d \in Calls \ {c} : Publishes(d) => number[c] # number[d]
      <3>1. Stored(c)
        BY <2>2 DEF CInv, Told, Stored
      <3>2. \A d \in Calls : pc[d] = "store" => number[d] = Len(versions) + 1
        BY DEF CInv, AtTheEnd
      <3>3. number[c] # Len(versions) + 1
        BY <3>1 DEF CInv, IsLog, OwnVersion
      <3> QED
        BY <3>1, <3>2, <3>3 DEF CInv, OwnVersion, Stored
    <2> QED
      BY <2>1, <2>2, ConfigurationAssumption
  <1> QED
    BY <1>1, AlwaysCInv, PTL

(***************************************************************************)
(* Definitions: what a valid list of them gives every request.             *)
(***************************************************************************)

Lists == Seq(Definitions)

LEMMA ListFacts ==
  ASSUME NEW defs \in Lists
  PROVE  /\ Len(defs) \in Nat /\ DOMAIN defs = 1..Len(defs)
         /\ Elements(defs) \subseteq Definitions
         /\ \A i \in 1..Len(defs) : defs[i] \in Elements(defs) /\ defs[i] \in Definitions
         /\ \A d \in Elements(defs) : d.id \in Ids(defs)
  BY DEF Lists, Elements, Ids

(* The parents of the definitions of S. *)
Parents(defs, S) == {ById(defs, e.parent) : e \in {x \in S : x.parent \in Ids(defs)}}

(* up[m]: what is m levels above d. *)
Levels(up, defs, d) ==
  /\ up[0] = {d}
  /\ \A m \in 1..Len(defs) : up[m] = Parents(defs, up[m - 1])

LEMMA ByIdFound ==
  ASSUME NEW defs \in Lists, NEW id \in Ids(defs)
  PROVE  ById(defs, id) \in Elements(defs) /\ ById(defs, id).id = id
  <1> DEFINE T == {Len(defs) - i : i \in {j \in 1..Len(defs) : defs[j].id = id}}
  <1>1. Len(defs) \in Nat /\ DOMAIN defs = 1..Len(defs)
    BY ListFacts
  <1>2. PICK i \in 1..Len(defs) : defs[i].id = id
    BY <1>1 DEF Ids, Elements
  <1>3. T # {} /\ T \subseteq Nat
    BY <1>1, <1>2
  <1>4. PICK m \in T : \A k \in T : m <= k
    <2> HIDE DEF T
    <2> QED
      BY <1>3, LeastElement
  <1>5. PICK j \in 1..Len(defs) : m = Len(defs) - j /\ defs[j].id = id
    OBVIOUS
  <1>6. \A k \in 1..Len(defs) : defs[k].id = id => k <= j
    <2> SUFFICES ASSUME NEW k \in 1..Len(defs), defs[k].id = id PROVE k <= j
      OBVIOUS
    <2>1. m <= Len(defs) - k
      BY <1>4
    <2> QED
      BY <1>1, <1>5, <2>1
  <1> DEFINE Last(i_) == defs[i_].id = id /\ \A k \in DOMAIN defs : defs[k].id = id => k <= i_
  <1>7. \E i_ \in DOMAIN defs : Last(i_)
    BY <1>1, <1>5, <1>6
  <1>8. PICK c : c = CHOOSE i_ \in DOMAIN defs : Last(i_)
    OBVIOUS
  <1>9. c \in DOMAIN defs /\ Last(c)
    BY Zenon, <1>7, <1>8
  <1>10. ById(defs, id) = defs[c]
    BY Zenon, <1>8 DEF ById
  <1> QED
    BY <1>9, <1>10 DEF Elements

(* What the walk of ParentCycle comes to. *)
Top(defs, d) ==
  LET up[n \in 0..Len(defs)] ==
        IF n = 0 THEN {d}
        ELSE {ById(defs, e.parent) : e \in {x \in up[n - 1] : x.parent \in Ids(defs)}}
  IN up[Len(defs)]

LEMMA CycleIsTop ==
  ASSUME NEW defs
  PROVE  ParentCycle(defs) <=> \E d \in Elements(defs) : Top(defs, d) # {}
  BY Zenon DEF ParentCycle, Top

LEMMA LevelsExist ==
  ASSUME NEW defs \in Lists, NEW d \in Elements(defs)
  PROVE  \E up : /\ Levels(up, defs, d) /\ up[Len(defs)] = Top(defs, d)
                 /\ \A m \in 0..Len(defs) : up[m] \in SUBSET Elements(defs)
  <1> DEFINE n == Len(defs)
             V == SUBSET Elements(defs)
             h == [m \in 1..n |-> [S \in V |-> Parents(defs, S)]]
             Loop(f) == f = [m \in 0..n |->
                               IF m = 0 THEN {d}
                               ELSE {ById(defs, e.parent) : e \in {x \in f[m - 1] : x.parent \in Ids(defs)}}]
             up == CHOOSE f : Loop(f)
  <1>0. n \in Nat
    BY ListFacts
  <1>1. up[n] = Top(defs, d)
    BY Zenon DEF Top
  <1>2. \A S \in V : Parents(defs, S) \in V
    BY ByIdFound DEF Parents
  <1>3. h \in [1..n -> [V -> V]]
    <2> HIDE DEF V
    <2> QED
      BY <1>2
  <1>4. PICK f : f \in [0..n -> V] /\ f[0] = {d} /\ \A m \in 1..n : f[m] = h[m][f[m - 1]]
    <2>1. {d} \in V
      OBVIOUS
    <2> HIDE DEF h, n, V
    <2>2. \E f : Rounds(f, n, {d}, h, V)
      BY <1>0, <1>3, <2>1, LoopExists
    <2> QED
      BY Zenon, <2>2 DEF Rounds
  <1>5. ASSUME NEW m \in 1..n
        PROVE  f[m] = Parents(defs, f[m - 1])
    <2>1. m - 1 \in 0..n
      BY <1>0
    <2>2. PICK S \in V : S = f[m - 1]
      BY <1>4, <2>1
    <2>3. h[m][S] = Parents(defs, S)
      BY Zenon
    <2> HIDE DEF h
    <2> QED
      BY <1>4, <2>2, <2>3
  <1>6. Loop(f)
    <2>1. \A m \in 0..n : m # 0 => m \in 1..n
      BY <1>0
    <2>2. \A m \in 0..n : f[m] = IF m = 0 THEN {d} ELSE Parents(defs, f[m - 1])
      BY Zenon, <1>4, <1>5, <2>1
    <2> QED
      BY Zenon, <1>4, <2>2 DEF Parents
  <1>7. Loop(up)
    BY Zenon, <1>6
  <1> HIDE DEF up, h
  <1>8. up[0] = {d} /\ \A m \in 1..n : up[m] = Parents(defs, up[m - 1])
    <2>1. 0 \in 0..n /\ \A m \in 1..n : m \in 0..n /\ m # 0
      BY <1>0
    <2> QED
      BY Zenon, <1>7, <2>1 DEF Parents
  <1> DEFINE Odd == {m \in 0..n : up[m] \notin V}
  <1>9. ASSUME Odd # {} PROVE FALSE
    <2>1. PICK k \in Odd : \A m \in Odd : k <= m
      <3>1. Odd \subseteq Nat
        OBVIOUS
      <3> HIDE DEF Odd
      <3> QED
        BY <1>9, <3>1, LeastElement
    <2>2. k \in 0..n /\ up[k] \notin V
      BY <2>1
    <2>3. k # 0
      BY <1>8, <2>2
    <2>4. k \in 1..n /\ k - 1 \in 0..n /\ ~(k <= k - 1)
      BY <1>0, <2>2, <2>3
    <2>5. up[k - 1] \in V
      BY <2>1, <2>4
    <2> HIDE DEF V
    <2> QED
      BY <1>2, <1>8, <2>2, <2>4, <2>5
  <1> QED
    BY <1>1, <1>8, <1>9 DEF Levels

LEMMA StaysEmpty ==
  ASSUME NEW defs \in Lists, NEW d, NEW up, Levels(up, defs, d),
         NEW i \in 0..Len(defs), up[i] = {}, NEW j \in i..Len(defs)
  PROVE  up[j] = {}
  <1> DEFINE Full == {m \in i..Len(defs) : up[m] # {}}
  <1>0. Len(defs) \in Nat /\ i \in Nat
    BY ListFacts
  <1>1. ASSUME Full # {} PROVE FALSE
    <2>1. PICK k \in Full : \A m \in Full : k <= m
      <3>1. Full \subseteq Nat
        BY <1>0
      <3> HIDE DEF Full
      <3> QED
        BY <1>1, <3>1, LeastElement
    <2>2. k \in i..Len(defs) /\ up[k] # {} /\ k # i
      BY <2>1
    <2>3. k \in 1..Len(defs) /\ k - 1 \in i..Len(defs) /\ ~(k <= k - 1)
      BY <1>0, <2>2
    <2>4. up[k - 1] = {}
      BY <2>1, <2>3
    <2>5. up[k] = Parents(defs, up[k - 1])
      BY Zenon, <2>3 DEF Levels
    <2> QED
      BY <2>2, <2>4, <2>5 DEF Parents
  <1> QED
    BY <1>1

(* What comes back comes back for ever.                                    *)
LEMMA NoReturn ==
  ASSUME NEW defs \in Lists, NEW d, NEW up, Levels(up, defs, d), up[Len(defs)] = {},
         NEW i \in 0..Len(defs), NEW j \in 0..Len(defs), i < j, up[i] = up[j]
  PROVE  up[i] = {}
  <1> DEFINE n == Len(defs)
             p == j - i
             Off == {k \in j..n : up[k] # up[k - p]}
             Gone == {k \in i..n : up[k] = {}}
  <1>0. n \in Nat /\ i \in Nat /\ j \in Nat /\ j <= n /\ p \in Nat /\ p > 0 /\ j - p = i
    BY ListFacts
  <1>1. ASSUME Off # {} PROVE FALSE
    <2>1. PICK k \in Off : \A m \in Off : k <= m
      <3>1. Off \subseteq Nat
        BY <1>0
      <3> HIDE DEF Off
      <3> QED
        BY <1>1, <3>1, LeastElement
    <2>2. k \in j..n /\ k # j
      BY <1>0, <2>1
    <2>3. k \in 1..n /\ k - p \in 1..n /\ k - 1 \in j..n /\ ~(k <= k - 1) /\ (k - p) - 1 = (k - 1) - p
      BY <1>0, <2>2
    <2>4. up[k - 1] = up[(k - 1) - p]
      BY <2>1, <2>3
    <2>5. up[k] = Parents(defs, up[k - 1]) /\ up[k - p] = Parents(defs, up[(k - p) - 1])
      BY Zenon, <2>3 DEF Levels
    <2> QED
      BY Zenon, <2>1, <2>3, <2>4, <2>5
  <1>2. ASSUME up[i] # {} PROVE FALSE
    <2>1. Gone \subseteq Nat /\ n \in Gone
      BY <1>0
    <2>2. PICK k \in Gone : \A m \in Gone : k <= m
      <3> HIDE DEF Gone
      <3> QED
        BY <2>1, LeastElement
    <2>3. k \in i..n /\ up[k] = {}
      BY <2>2
    <2>4. CASE k \in j..n
      <3>1. k - p \in i..n /\ ~(k <= k - p)
        BY <1>0, <2>4
      <3>2. up[k] = up[k - p]
        BY <1>1, <2>4
      <3> QED
        BY <2>2, <2>3, <3>1, <3>2
    <2>5. CASE k < j
      <3>1. k \in 0..n /\ j \in k..n
        BY <1>0, <2>3, <2>5
      <3> QED
        BY <1>2, <2>3, <3>1, StaysEmpty
    <2> QED
      BY <1>0, <2>3, <2>4, <2>5
  <1> QED
    BY <1>2

LEMMA OneOfEach ==
  ASSUME NEW defs \in Lists, ~DuplicateId(defs), NEW d \in Elements(defs), NEW e \in Elements(defs),
         d.id = e.id
  PROVE  d = e
  BY DEF DuplicateId, Elements

(* The path of m rounds: it has ended, or has a definition for each round. *)
Walked(path, up, defs, m) ==
  /\ path \in Seq(Elements(defs)) /\ Len(path) \in 1..(m + 1)
  /\ \A i \in 1..Len(path) : up[i - 1] = {path[i]}
  /\ path[Len(path)].parent = 0 \/ Len(path) = m + 1

LEMMA WalkedOnce ==
  ASSUME NEW defs \in Lists, Valid(defs), NEW d, NEW up, Levels(up, defs, d), up[Len(defs)] = {},
         NEW m \in 0..Len(defs), NEW path, Walked(path, up, defs, m),
         NEW i \in 1..Len(path), NEW j \in 1..Len(path), i < j
  PROVE  path[i].id # path[j].id
  <1> SUFFICES ASSUME path[i].id = path[j].id PROVE FALSE
    OBVIOUS
  <1>0. Len(defs) \in Nat /\ Len(path) \in Nat /\ Len(path) <= m + 1
    BY ListFacts DEF Walked
  <1>1. path[i] \in Elements(defs) /\ path[j] \in Elements(defs)
    BY <1>0 DEF Walked
  <1>2. path[i] = path[j]
    BY <1>1, OneOfEach DEF Valid
  <1>3. up[i - 1] = {path[i]} /\ up[j - 1] = {path[j]}
    BY DEF Walked
  <1>4. i - 1 \in 0..Len(defs) /\ j - 1 \in 0..Len(defs) /\ i - 1 < j - 1
    BY <1>0
  <1>5. PICK a \in 0..Len(defs), b \in 0..Len(defs) : a = i - 1 /\ b = j - 1 /\ a < b
    BY <1>4
  <1>6. up[a] = up[b] /\ up[a] # {}
    BY Zenon, <1>2, <1>3, <1>5
  <1> QED
    BY <1>5, <1>6, NoReturn

LEMMA ClimbTypes ==
  ASSUME NEW defs \in Lists, NEW path \in Seq(Elements(defs))
  PROVE  Climb(defs, path) \in Seq(Elements(defs))
  <1>1. CASE path # <<>> /\ path[Len(path)].parent \in Ids(defs)
    <2>1. PICK e \in Elements(defs) : e = ById(defs, path[Len(path)].parent)
      BY <1>1, ByIdFound
    <2>2. Append(path, e) \in Seq(Elements(defs))
      BY AppendProperties
    <2>3. <<>> \in Seq(Elements(defs))
      BY EmptySeq
    <2> QED
      BY Zenon, <2>1, <2>2, <2>3 DEF Climb
  <1>2. CASE ~(path # <<>> /\ path[Len(path)].parent \in Ids(defs))
    <2>1. <<>> \in Seq(Elements(defs))
      BY EmptySeq
    <2> QED
      BY Zenon, <1>2, <2>1 DEF Climb
  <1> QED
    BY <1>1, <1>2

LEMMA ClimbMore ==
  ASSUME NEW defs \in Lists, Valid(defs), NEW d, NEW up, Levels(up, defs, d), up[Len(defs)] = {},
         NEW m \in 0..Len(defs), NEW path, Walked(path, up, defs, m)
  PROVE  /\ path[Len(path)].parent = 0 => Climb(defs, path) = path
         /\ m < Len(defs) => Walked(Climb(defs, path), up, defs, m + 1)
         /\ m = Len(defs) => path[Len(path)].parent = 0
  <1> DEFINE last == path[Len(path)]
  <1>0. Len(defs) \in Nat /\ Len(path) \in Nat /\ Len(path) \in 1..Len(path) /\ Len(path) <= m + 1
    BY ListFacts DEF Walked
  <1>1. last \in Elements(defs) /\ path # <<>> /\ path \in Seq(Elements(defs))
    BY <1>0 DEF Walked
  <1>2. CASE last.parent = 0
    <2>1. Climb(defs, path) = path
      BY Zenon, <1>1, <1>2 DEF Climb
    <2>2. Walked(path, up, defs, m + 1)
      BY <1>0, <1>2 DEF Walked
    <2> QED
      BY <1>2, <2>1, <2>2
  <1>3. CASE last.parent # 0
    <2>1. Len(path) = m + 1
      BY <1>3 DEF Walked
    <2>2. last.parent \in Ids(defs)
      BY <1>1, <1>3 DEF Valid, MissingParent
    <2>3. last.id \notin {path[i].id : i \in 1..(Len(path) - 1)}
      <3> SUFFICES ASSUME NEW i \in 1..(Len(path) - 1), path[i].id = last.id PROVE FALSE
        OBVIOUS
      <3>1. i \in 1..Len(path) /\ i < Len(path)
        BY <1>0
      <3> QED
        BY <1>0, <3>1, WalkedOnce
    <2>4. PICK e \in Elements(defs) : e = ById(defs, last.parent)
      BY <2>2, ByIdFound
    <2>5. PICK longer : longer = Append(path, e)
      OBVIOUS
    <2>6. Climb(defs, path) = longer
      BY Zenon, <1>1, <1>3, <2>2, <2>3, <2>4, <2>5 DEF Climb
    <2>7. up[m] = {last}
      BY <1>0, <2>1 DEF Walked
    <2>8. m # Len(defs)
      BY <2>7
    <2>9. m + 1 \in 1..Len(defs) /\ (m + 1) - 1 = m
      BY <1>0, <2>8
    <2>10. up[m + 1] = {e}
      <3>1. up[m + 1] = Parents(defs, up[m])
        BY Zenon, <2>9 DEF Levels
      <3> HIDE DEF last
      <3> QED
        BY <2>2, <2>4, <2>7, <3>1 DEF Parents
    <2>11. /\ longer \in Seq(Elements(defs)) /\ Len(longer) = m + 2
           /\ longer[m + 2] = e /\ \A i \in 1..(m + 1) : longer[i] = path[i]
      BY <1>1, <2>1, <2>5, AppendProperties
    <2>12. \A i \in 1..(m + 2) : up[i - 1] = {longer[i]}
      <3> SUFFICES ASSUME NEW i \in 1..(m + 2) PROVE up[i - 1] = {longer[i]}
        OBVIOUS
      <3>1. CASE i = m + 2
        BY <2>10, <2>11, <3>1
      <3>2. CASE i # m + 2
        <4>1. i \in 1..(m + 1)
          BY <3>2
        <4> QED
          BY <2>1, <2>11, <4>1 DEF Walked
      <3> QED
        BY <3>1, <3>2
    <2>13. Walked(longer, up, defs, m + 1)
      BY <2>11, <2>12 DEF Walked
    <2> QED
      BY <1>3, <2>6, <2>8, <2>13
  <1> QED
    BY <1>2, <1>3

LEMMA ChainFacts ==
  ASSUME NEW defs \in Lists, Valid(defs), NEW leaf \in Elements(defs)
  PROVE  LET chain == Chain(defs, leaf) IN
         /\ chain # <<>>
         /\ \A i, j \in DOMAIN chain : i # j => chain[i].id # chain[j].id
         /\ chain[Len(chain)].parent = 0
  <1> DEFINE n == Len(defs)
             V == Seq(Elements(defs))
             h == [m \in 1..(n + 1) |-> [path \in V |-> Climb(defs, path)]]
             Loop(f) == f = [m \in 0..(n + 1) |-> IF m = 0 THEN <<leaf>> ELSE Climb(defs, f[m - 1])]
             climbed == CHOOSE f : Loop(f)
  <1>0. n \in Nat /\ n + 1 \in Nat
    BY ListFacts
  <1>1. Chain(defs, leaf) = climbed[n + 1]
    BY Zenon DEF Chain
  <1>2. h \in [1..(n + 1) -> [V -> V]]
    <2>1. \A path \in V : Climb(defs, path) \in V
      BY ClimbTypes
    <2> HIDE DEF V
    <2> QED
      BY <2>1
  <1>3. <<leaf>> \in V
    OBVIOUS
  <1>4. PICK f : f \in [0..(n + 1) -> V] /\ f[0] = <<leaf>> /\ \A m \in 1..(n + 1) : f[m] = h[m][f[m - 1]]
    <2> HIDE DEF h, n, V
    <2>2. \E f : Rounds(f, n + 1, <<leaf>>, h, V)
      BY <1>0, <1>2, <1>3, LoopExists
    <2> QED
      BY Zenon, <2>2 DEF Rounds
  <1>5. ASSUME NEW m \in 1..(n + 1)
        PROVE  f[m] = Climb(defs, f[m - 1])
    <2>1. m - 1 \in 0..(n + 1)
      BY <1>0
    <2>2. PICK path \in V : path = f[m - 1]
      BY <1>4, <2>1
    <2>3. h[m][path] = Climb(defs, path)
      BY Zenon
    <2> HIDE DEF h
    <2> QED
      BY <1>4, <2>2, <2>3
  <1>6. Loop(f)
    <2>1. \A m \in 0..(n + 1) : m # 0 => m \in 1..(n + 1)
      BY <1>0
    <2>2. \A m \in 0..(n + 1) : f[m] = IF m = 0 THEN <<leaf>> ELSE Climb(defs, f[m - 1])
      BY Zenon, <1>4, <1>5, <2>1
    <2> QED
      BY Zenon, <1>4, <2>2
  <1>7. Loop(climbed)
    BY Zenon, <1>6
  <1> HIDE DEF climbed, h
  <1>8. climbed[0] = <<leaf>> /\ \A m \in 1..(n + 1) : climbed[m] = Climb(defs, climbed[m - 1])
    <2>1. 0 \in 0..(n + 1) /\ \A m \in 1..(n + 1) : m \in 0..(n + 1) /\ m # 0
      BY <1>0
    <2> QED
      BY Zenon, <1>7, <2>1
  <1>9. PICK up : Levels(up, defs, leaf) /\ up[n] = {}
    <2>1. Top(defs, leaf) = {}
      BY CycleIsTop DEF Valid
    <2> QED
      BY <2>1, LevelsExist
  <1> DEFINE Lost == {m \in 0..n : ~Walked(climbed[m], up, defs, m)}
  <1>10. ASSUME Lost # {} PROVE FALSE
    <2>1. PICK m \in Lost : \A k \in Lost : m <= k
      <3>1. Lost \subseteq Nat
        OBVIOUS
      <3> HIDE DEF Lost
      <3> QED
        BY <1>10, <3>1, LeastElement
    <2>2. m \in 0..n /\ ~Walked(climbed[m], up, defs, m)
      BY <2>1
    <2>3. CASE m = 0
      <3>1. PICK p : p = <<leaf>>
        OBVIOUS
      <3>2. p \in V /\ Len(p) = 1 /\ p[1] = leaf
        BY <3>1
      <3>3. up[0] = {leaf}
        BY <1>9 DEF Levels
      <3>4. \A i \in 1..1 : i = 1
        OBVIOUS
      <3>5. Walked(p, up, defs, 0)
        BY <3>2, <3>3, <3>4 DEF Walked
      <3> QED
        BY Zenon, <1>8, <2>2, <2>3, <3>1, <3>5
    <2>4. CASE m # 0
      <3>1. m \in 1..(n + 1) /\ m - 1 \in 0..n /\ m - 1 < n /\ ~(m <= m - 1) /\ (m - 1) + 1 = m
        BY <1>0, <2>2, <2>4
      <3>2. Walked(climbed[m - 1], up, defs, m - 1)
        BY <2>1, <3>1
      <3>3. Walked(Climb(defs, climbed[m - 1]), up, defs, (m - 1) + 1)
        BY <1>9, <3>1, <3>2, ClimbMore
      <3> QED
        BY Zenon, <1>8, <2>2, <3>1, <3>3
    <2> QED
      BY <2>3, <2>4
  <1>11. n \in 0..n /\ n + 1 \in 1..(n + 1) /\ (n + 1) - 1 = n
    BY <1>0
  <1>12. PICK path : path = climbed[n]
    OBVIOUS
  <1>13. Walked(path, up, defs, n)
    BY <1>10, <1>11, <1>12
  <1>14. path[Len(path)].parent = 0 /\ Climb(defs, path) = path
    BY <1>9, <1>11, <1>13, ClimbMore
  <1>15. Chain(defs, leaf) = path
    BY Zenon, <1>1, <1>8, <1>11, <1>12, <1>14
  <1>16. path # <<>> /\ DOMAIN path = 1..Len(path) /\ Len(path) \in Nat
    BY <1>13 DEF Walked
  <1>17. \A i, j \in 1..Len(path) : i < j => path[i].id # path[j].id
    BY <1>9, <1>11, <1>13, WalkedOnce
  <1>18. \A i, j \in 1..Len(path) : i # j => i < j \/ j < i
    BY <1>16
  <1> QED
    BY Zenon, <1>14, <1>15, <1>16, <1>17, <1>18

LEMMA SpecificityBound ==
  ASSUME NEW d \in Definitions
  PROVE  Cardinality(Dims) \in Nat /\ Specificity(d) \in Nat /\ Specificity(d) <= Cardinality(Dims)
  <1> DEFINE S == {x \in DOMAIN d.dims : d.dims[x] \notin Wildcard}
  <1>1. S \subseteq Dims
    BY DEF Definitions
  <1>2. IsFiniteSet(Dims)
    BY ConfigurationAssumption
  <1>3. IsFiniteSet(S) /\ Cardinality(S) <= Cardinality(Dims)
    BY <1>1, <1>2, FS_Subset
  <1>4. Cardinality(S) \in Nat /\ Cardinality(Dims) \in Nat
    BY <1>2, <1>3, FS_CardinalityType
  <1> QED
    BY Zenon, <1>3, <1>4 DEF Specificity

(* Of the most specific candidates the one of the least ID comes first.    *)
LEMMA MatchFacts ==
  ASSUME NEW defs \in Lists, ~DuplicateId(defs), NEW r, Candidates(defs, r) # {}
  PROVE  Match(defs, r) \in Elements(defs)
  <1> DEFINE C == Candidates(defs, r)
             most == Cardinality(Dims)
             Rank(i) == Specificity(defs[i])
             T == {most - Rank(i) : i \in C}
             First(i) == \A j \in C : Before(defs[i], defs[j]) \/ (i <= j /\ ~Before(defs[j], defs[i]))
  <1>1. DOMAIN defs = 1..Len(defs) /\ Len(defs) \in Nat
    BY ListFacts
  <1>2. C \subseteq 1..Len(defs)
    BY <1>1 DEF Candidates
  <1>3. \A i \in C : /\ defs[i] \in Definitions /\ defs[i].id \in Nat
                     /\ Rank(i) \in Nat /\ Rank(i) <= most /\ most \in Nat
    <2> SUFFICES ASSUME NEW i \in C
                 PROVE  /\ defs[i] \in Definitions /\ defs[i].id \in Nat
                        /\ Rank(i) \in Nat /\ Rank(i) <= most /\ most \in Nat
      OBVIOUS
    <2>1. defs[i] \in Definitions
      BY <1>2, ListFacts
    <2> QED
      BY <2>1, SpecificityBound DEF Definitions
  <1> HIDE DEF C, Rank, most
  <1>4. PICK i \in C : \A j \in C : Rank(j) <= Rank(i)
    <2>1. T # {} /\ T \subseteq Nat
      BY <1>3 DEF C
    <2>2. PICK m \in T : \A k \in T : m <= k
      <3> HIDE DEF T
      <3> QED
        BY <2>1, LeastElement
    <2>3. PICK i \in C : m = most - Rank(i)
      OBVIOUS
    <2>4. ASSUME NEW j \in C PROVE Rank(j) <= Rank(i)
      <3>1. most - Rank(i) <= most - Rank(j)
        BY <2>2, <2>3
      <3> QED
        BY <1>3, <3>1
    <2> QED
      BY <2>4
  <1> DEFINE U == {defs[j].id : j \in {x \in C : Rank(x) = Rank(i)}}
  <1>5. PICK k \in C : Rank(k) = Rank(i) /\ \A j \in C : Rank(j) = Rank(i) => defs[k].id <= defs[j].id
    <2>1. U # {} /\ U \subseteq Nat
      BY <1>3
    <2>2. PICK m \in U : \A u \in U : m <= u
      <3> HIDE DEF U
      <3> QED
        BY <2>1, LeastElement
    <2> QED
      BY <2>2
  <1>6. First(k)
    <2> SUFFICES ASSUME NEW j \in C
                 PROVE  Before(defs[k], defs[j]) \/ (k <= j /\ ~Before(defs[j], defs[k]))
      OBVIOUS
    <2>1. CASE j = k
      <3>1. ~Before(defs[k], defs[k]) /\ k <= k
        BY <1>2, <1>3 DEF Before, Rank
      <3> QED
        BY <2>1, <3>1
    <2>2. CASE j # k /\ Rank(j) = Rank(i)
      <3>1. defs[k].id # defs[j].id
        BY <1>1, <1>2, <2>2 DEF DuplicateId
      <3>2. defs[k].id <= defs[j].id /\ defs[k].id \in Nat /\ defs[j].id \in Nat
        BY <1>3, <1>5, <2>2
      <3>3. defs[k].id < defs[j].id
        BY <3>1, <3>2
      <3> QED
        BY <1>5, <2>2, <3>3 DEF Before, Rank
    <2>3. CASE Rank(j) # Rank(i)
      <3>1. Rank(k) > Rank(j)
        BY <1>3, <1>4, <1>5, <2>3
      <3> QED
        BY <3>1 DEF Before, Rank
    <2> QED
      BY <2>1, <2>2, <2>3
  <1>7. PICK f : f = CHOOSE x \in C : First(x)
    OBVIOUS
  <1>8. f \in C
    BY Zenon, <1>6, <1>7
  <1>9. Match(defs, r) = defs[f]
    BY Zenon, <1>7 DEF Match, C
  <1>10. f \in 1..Len(defs)
    BY <1>2, <1>8
  <1> QED
    BY <1>9, <1>10, ListFacts

LEMMA ValidResolves ==
  ASSUME NEW defs \in Lists, Valid(defs)
  PROVE  Resolves(defs)
  <1> SUFFICES ASSUME NEW r \in RequestsOf(defs), Candidates(defs, r) # {}
               PROVE  LET chain == Chain(defs, Match(defs, r)) IN
                      /\ chain # <<>>
                      /\ \A i, j \in DOMAIN chain : i # j => chain[i].id # chain[j].id
                      /\ chain[Len(chain)].parent = 0
    BY Zenon DEF Resolves
  <1>1. Match(defs, r) \in Elements(defs)
    BY MatchFacts DEF Valid
  <1> QED
    BY Zenon, <1>1, ChainFacts

(***************************************************************************)
(* A version is valid if what it was made of is.                           *)
(***************************************************************************)

Renumbered(d, n) == [d EXCEPT !.version = n]

LEMMA RenumberedFacts ==
  ASSUME NEW d \in Definitions, NEW n \in Int
  PROVE  /\ Renumbered(d, n) \in Definitions
         /\ Renumbered(d, n).id = d.id /\ Renumbered(d, n).parent = d.parent
         /\ Renumbered(d, n).target = d.target /\ Renumbered(d, n).dims = d.dims
         /\ Renumbered(d, n).enabled = d.enabled /\ Renumbered(d, n).wellFormed = d.wellFormed
         /\ Renumbered(d, n).version = n
  BY DEF Renumbered, Definitions

LEMMA NumberedFacts ==
  ASSUME NEW defs \in Lists, NEW n \in Int
  PROVE  /\ Numbered(defs, n) \in Lists
         /\ Len(Numbered(defs, n)) = Len(defs)
         /\ \A i \in 1..Len(defs) : Numbered(defs, n)[i] = Renumbered(defs[i], n)
         /\ Elements(Numbered(defs, n)) = {Renumbered(d, n) : d \in Elements(defs)}
         /\ Ids(Numbered(defs, n)) = Ids(defs)
  <1>1. Len(defs) \in Nat /\ DOMAIN defs = 1..Len(defs) /\ \A i \in 1..Len(defs) : defs[i] \in Definitions
    BY ListFacts
  <1>2. PICK new : new = Numbered(defs, n)
    OBVIOUS
  <1>3. new = [i \in 1..Len(defs) |-> Renumbered(defs[i], n)]
    BY Zenon, <1>1, <1>2 DEF Numbered, Renumbered
  <1>4. \A i \in 1..Len(defs) : Renumbered(defs[i], n) \in Definitions
    BY <1>1, RenumberedFacts
  <1>5. new \in Seq(Definitions) /\ DOMAIN new = 1..Len(defs)
    BY <1>1, <1>3, <1>4
  <1>6. Len(new) = Len(defs)
    BY <1>1, <1>3, LengthOf
  <1>7. \A i \in 1..Len(defs) : new[i] = Renumbered(defs[i], n)
    BY <1>3
  <1>8. Elements(new) = {Renumbered(d, n) : d \in Elements(defs)}
    BY <1>1, <1>5, <1>7 DEF Elements
  <1>9. Ids(new) = Ids(defs)
    <2>1. \A d \in Elements(defs) : Renumbered(d, n).id = d.id
      BY ListFacts, RenumberedFacts
    <2> QED
      BY <1>8, <2>1 DEF Ids
  <1> QED
    BY Zenon, <1>2, <1>5, <1>6, <1>7, <1>8, <1>9 DEF Lists

LEMMA ParentsOnce ==
  ASSUME NEW defs \in Lists, ~DuplicateId(defs), NEW S
  PROVE  Parents(defs, S) = {x \in Elements(defs) : \E e \in S : e.parent = x.id}
  <1>1. ASSUME NEW x \in Elements(defs), NEW e \in S, e.parent = x.id
        PROVE  e.parent \in Ids(defs) /\ ById(defs, e.parent) = x
    <2>1. x.id \in Ids(defs)
      BY ListFacts
    <2> QED
      BY <1>1, <2>1, ByIdFound, OneOfEach
  <1>2. ASSUME NEW e \in S, e.parent \in Ids(defs)
        PROVE  ById(defs, e.parent) \in Elements(defs) /\ ById(defs, e.parent).id = e.parent
    BY <1>2, ByIdFound
  <1> QED
    BY <1>1, <1>2 DEF Parents

LEMMA NumberedUp ==
  ASSUME NEW defs \in Lists, ~DuplicateId(defs), NEW n \in Int, ~DuplicateId(Numbered(defs, n)),
         NEW S \in SUBSET Elements(defs)
  PROVE  Parents(Numbered(defs, n), {Renumbered(x, n) : x \in S})
           = {Renumbered(x, n) : x \in Parents(defs, S)}
  <1>1. PICK new \in Lists : new = Numbered(defs, n)
    BY NumberedFacts
  <1>2. Elements(new) = {Renumbered(d, n) : d \in Elements(defs)}
    BY <1>1, NumberedFacts
  <1>3. \A x \in Elements(defs) : Renumbered(x, n).id = x.id /\ Renumbered(x, n).parent = x.parent
    BY ListFacts, RenumberedFacts
  <1>4. PICK R : R = {Renumbered(x, n) : x \in S}
    OBVIOUS
  <1>5. Parents(new, R) = {x \in Elements(new) : \E e \in R : e.parent = x.id}
    BY <1>1, ParentsOnce
  <1>6. Parents(defs, S) = {x \in Elements(defs) : \E e \in S : e.parent = x.id}
    BY ParentsOnce
  <1>7. Parents(new, R) = {Renumbered(x, n) : x \in Parents(defs, S)}
    BY <1>2, <1>3, <1>4, <1>5, <1>6
  <1> QED
    BY Zenon, <1>1, <1>4, <1>7

LEMMA NumberedLevels ==
  ASSUME NEW defs \in Lists, ~DuplicateId(defs), NEW n \in Int, NEW new \in Lists,
         new = Numbered(defs, n), ~DuplicateId(new), NEW d \in Elements(defs),
         NEW up, Levels(up, defs, d), \A m \in 0..Len(defs) : up[m] \in SUBSET Elements(defs),
         NEW vp, Levels(vp, new, Renumbered(d, n))
  PROVE  \A m \in 0..Len(defs) : vp[m] = {Renumbered(x, n) : x \in up[m]}
  <1> DEFINE Odd == {m \in 0..Len(defs) : vp[m] # {Renumbered(x, n) : x \in up[m]}}
  <1>0. Len(defs) \in Nat /\ Len(new) = Len(defs)
    BY ListFacts, NumberedFacts
  <1> SUFFICES ASSUME Odd # {} PROVE FALSE
    OBVIOUS
  <1>1. PICK m \in Odd : \A k \in Odd : m <= k
    <2>1. Odd \subseteq Nat
      OBVIOUS
    <2> HIDE DEF Odd
    <2> QED
      BY <2>1, LeastElement
  <1>2. m \in 0..Len(defs) /\ vp[m] # {Renumbered(x, n) : x \in up[m]}
    BY <1>1
  <1>3. m # 0
    <2>1. up[0] = {d} /\ vp[0] = {Renumbered(d, n)}
      BY DEF Levels
    <2> QED
      BY <1>2, <2>1
  <1>4. m \in 1..Len(defs) /\ m - 1 \in 0..Len(defs) /\ ~(m <= m - 1)
    BY <1>0, <1>2, <1>3
  <1>5. PICK S \in SUBSET Elements(defs) : S = up[m - 1]
    BY <1>4
  <1>6. vp[m - 1] = {Renumbered(x, n) : x \in S}
    BY <1>1, <1>4, <1>5
  <1>7. up[m] = Parents(defs, up[m - 1]) /\ vp[m] = Parents(new, vp[m - 1])
    BY Zenon, <1>0, <1>4 DEF Levels
  <1>8. Parents(new, {Renumbered(x, n) : x \in S}) = {Renumbered(x, n) : x \in Parents(defs, S)}
    BY NumberedUp
  <1> QED
    BY Zenon, <1>2, <1>5, <1>6, <1>7, <1>8

LEMMA NumberedValid ==
  ASSUME NEW defs \in Lists, Valid(defs), NEW n \in Int
  PROVE  Valid(Numbered(defs, n))
  <1>1. PICK new \in Lists : new = Numbered(defs, n)
    BY NumberedFacts
  <1>2. /\ Len(new) = Len(defs) /\ Len(defs) \in Nat
        /\ DOMAIN new = 1..Len(defs) /\ DOMAIN defs = 1..Len(defs)
        /\ \A i \in 1..Len(defs) : new[i] = Renumbered(defs[i], n)
        /\ Elements(new) = {Renumbered(d, n) : d \in Elements(defs)}
        /\ Ids(new) = Ids(defs)
    BY <1>1, NumberedFacts, ListFacts
  <1>3. \A d \in Elements(defs) :
          /\ Renumbered(d, n).id = d.id /\ Renumbered(d, n).parent = d.parent
          /\ Renumbered(d, n).target = d.target /\ Renumbered(d, n).dims = d.dims
          /\ Renumbered(d, n).enabled = d.enabled /\ Renumbered(d, n).wellFormed = d.wellFormed
    BY ListFacts, RenumberedFacts
  <1>4. \A i \in 1..Len(defs) :
          /\ new[i].id = defs[i].id /\ new[i].target = defs[i].target
          /\ new[i].dims = defs[i].dims /\ new[i].enabled = defs[i].enabled
    BY <1>2, <1>3, ListFacts
  <1>5. \A d \in Elements(new) : d.wellFormed
    BY <1>2, <1>3 DEF Valid
  <1>6. ~DuplicateId(new)
    BY <1>2, <1>4 DEF Valid, DuplicateId
  <1>7. ~MissingParent(new)
    BY <1>2, <1>3 DEF Valid, MissingParent
  <1>8. ~AmbiguousScope(new)
    BY <1>2, <1>4 DEF Valid, AmbiguousScope
  <1>9. ~ParentCycle(new)
    <2> SUFFICES ASSUME NEW e \in Elements(new) PROVE Top(new, e) = {}
      BY CycleIsTop
    <2>1. PICK d \in Elements(defs) : e = Renumbered(d, n)
      BY <1>2
    <2>2. PICK up : /\ Levels(up, defs, d) /\ up[Len(defs)] = Top(defs, d)
                    /\ \A m \in 0..Len(defs) : up[m] \in SUBSET Elements(defs)
      BY LevelsExist
    <2>3. PICK vp : Levels(vp, new, e) /\ vp[Len(new)] = Top(new, e)
      BY LevelsExist
    <2>4. Top(defs, d) = {}
      BY CycleIsTop DEF Valid
    <2>5. Len(defs) \in 0..Len(defs)
      BY <1>2
    <2>6. vp[Len(defs)] = {Renumbered(x, n) : x \in up[Len(defs)]}
      BY <1>1, <1>6, <2>1, <2>2, <2>3, <2>5, NumberedLevels DEF Valid
    <2> QED
      BY <1>2, <2>2, <2>3, <2>4, <2>6
  <1> QED
    BY Zenon, <1>1, <1>5, <1>6, <1>7, <1>8, <1>9 DEF Valid

(***************************************************************************)
(* What the versions, the draft and the shadow hold.                       *)
(***************************************************************************)

IsVersion(defs, n) ==
  defs \in Lists /\ Valid(defs) /\ \A d \in Elements(defs) : d.version = n

LEMMA NumberedIsVersion ==
  ASSUME NEW defs \in Lists, Valid(defs), NEW n \in Int
  PROVE  IsVersion(Numbered(defs, n), n)
  <1>1. \A d \in Elements(defs) : Renumbered(d, n).version = n
    BY ListFacts, RenumberedFacts
  <1>2. \A e \in Elements(Numbered(defs, n)) : e.version = n
    BY <1>1, NumberedFacts
  <1> QED
    BY <1>2, NumberedFacts, NumberedValid DEF IsVersion

DInv ==
  /\ draft # None => draft \in Lists
  /\ \A n \in DOMAIN versions : IsVersion(versions[n], n)
  /\ \A c \in Calls : pc[c] = "store" => IsVersion(work[c], number[c])
  /\ \A c \in Calls : pc[c] = "shade" => number[c] \in DOMAIN versions /\ work[c] = versions[number[c]]
  /\ shadow # None =>
       shadow.version \in DOMAIN versions /\ shadow.definitions = versions[shadow.version]

LEMMA InitDefinitions == Init => DInv
  <1> SUFFICES ASSUME Init PROVE DInv
    OBVIOUS
  <1>1. IsVersion(Bootstrap, 1)
    BY ConfigurationAssumption DEF IsVersion, Lists
  <1>2. DOMAIN versions = {1} /\ versions[1] = Bootstrap
    BY DEF Init
  <1> QED
    BY <1>1, <1>2 DEF Init, DInv

(* A step of c leaves the versions that are there, and those of others.    *)
LEMMA DefinitionsKeep ==
  ASSUME DInv, NEW c \in Calls,
         \A d \in Calls : d # c => pc'[d] = pc[d] /\ work'[d] = work[d] /\ number'[d] = number[d],
         draft' # None => draft' \in Lists,
         DOMAIN versions \subseteq DOMAIN versions',
         \A n \in DOMAIN versions : versions'[n] = versions[n],
         \A n \in DOMAIN versions' : IsVersion(versions'[n], n),
         pc'[c] = "store" => IsVersion(work'[c], number'[c]),
         pc'[c] = "shade" => number'[c] \in DOMAIN versions' /\ work'[c] = versions'[number'[c]],
         \/ shadow' = shadow
         \/ shadow'.version \in DOMAIN versions' /\ shadow'.definitions = versions'[shadow'.version]
  PROVE  DInv'
  <1>1. \A d \in Calls : pc'[d] = "store" => IsVersion(work'[d], number'[d])
    BY DEF DInv
  <1>2. \A d \in Calls : pc'[d] = "shade" =>
          number'[d] \in DOMAIN versions' /\ work'[d] = versions'[number'[d]]
    BY DEF DInv
  <1>3. shadow' # None =>
          shadow'.version \in DOMAIN versions' /\ shadow'.definitions = versions'[shadow'.version]
    BY DEF DInv
  <1> QED
    BY <1>1, <1>2, <1>3 DEF DInv

LEMMA DefinitionsMove ==
  ASSUME CInv, DInv, NEW c \in Calls,
         \/ CreateDraft(c) \/ CreateDraftFails(c) \/ Prepare(c) \/ PrepareFails(c)
         \/ SaveVersion(c) \/ SaveFails(c) \/ SetActive(c) \/ SetActiveFails(c) \/ DeleteDraft(c)
         \/ GetShadow(c) \/ GetShadowFails(c) \/ SetShadow(c) \/ Timeout(c)
  PROVE  DInv'
  <1>0. /\ Shape /\ IsLog
        /\ draft # None => draft \in Lists
        /\ \A n \in DOMAIN versions : IsVersion(versions[n], n)
        /\ DOMAIN versions = 1..Len(versions) /\ active \in DOMAIN versions
    BY DEF CInv, DInv, IsLog
  (* Nothing but the draft and the progress of c.                          *)
  <1>1. ASSUME UNCHANGED <<versions, shadow, work>>, draft' # None => draft' \in Lists,
               \A d \in Calls : d # c => pc'[d] = pc[d] /\ number'[d] = number[d],
               pc'[c] \notin {"store", "shade"}
        PROVE  DInv'
    BY <1>0, <1>1, DefinitionsKeep
  <1>2. CASE CreateDraft(c)
    <2>1. UNCHANGED <<versions, shadow, work, number>> /\ Return(c, "idle", "ok")
      BY <1>2 DEF CreateDraft
    <2>2. draft' \in Lists
      <3>1. PICK defs \in Contents, base \in 0..MaxGoal :
              /\ defs = <<>> => BaseOf(base) \in DOMAIN versions
              /\ draft' = IF defs = <<>> THEN versions[BaseOf(base)] ELSE defs
        BY <1>2 DEF CreateDraft
      <3>2. defs \in Lists
        BY ConfigurationAssumption DEF Lists
      <3>3. defs = <<>> => versions[BaseOf(base)] \in Lists
        BY <1>0, <3>1 DEF IsVersion
      <3> QED
        BY <3>1, <3>2, <3>3
    <2>3. \A d \in Calls : pc'[d] = IF d = c THEN "done" ELSE pc[d]
      BY <1>0, <2>1, ReturnFacts
    <2> QED
      BY <1>1, <2>1, <2>2, <2>3
  <1>3. CASE CreateDraftFails(c) \/ PrepareFails(c) \/ GetShadowFails(c) \/ SetActiveFails(c) \/ DeleteDraft(c)
    <2>1. PICK from, res : Return(c, from, res)
      BY <1>3 DEF CreateDraftFails, PrepareFails, GetShadowFails, SetActiveFails, DeleteDraft
    <2>2. UNCHANGED <<versions, shadow, work, number>> /\ draft' \in {draft, None}
      BY <1>3 DEF CreateDraftFails, PrepareFails, GetShadowFails, SetActiveFails, DeleteDraft, storeVars
    <2>3. \A d \in Calls : pc'[d] = IF d = c THEN "done" ELSE pc[d]
      BY <1>0, <2>1, ReturnFacts
    <2> QED
      BY <1>0, <1>1, <2>2, <2>3
  <1>4. CASE SaveFails(c)
    <2>1. Return(c, "store", "error") /\ UNCHANGED storeVars /\ UNCHANGED work
      BY <1>4 DEF SaveFails
    <2>2. \A d \in Calls : d # c => number'[d] = number[d]
      BY <1>0, <1>4 DEF SaveFails, Shape
    <2>3. \A d \in Calls : pc'[d] = IF d = c THEN "done" ELSE pc[d]
      BY <1>0, <2>1, ReturnFacts
    <2> QED
      BY <1>0, <1>1, <2>1, <2>2, <2>3 DEF storeVars
  <1>5. CASE SetActive(c)
    <2>1. PICK to \in {"discard", "done"} : Goto(c, "activate", to)
      BY <1>5 DEF SetActive, Return
    <2>2. \A d \in Calls : pc'[d] = IF d = c THEN to ELSE pc[d]
      BY <1>0, <2>1, GotoFacts DEF Labels, Inside
    <2>3. UNCHANGED <<versions, shadow, work, number, draft>>
      BY <1>5 DEF SetActive
    <2> QED
      BY <1>0, <1>1, <2>2, <2>3
  <1>6. CASE Timeout(c)
    <2>1. UNCHANGED <<versions, shadow, work, number, draft, pc>>
      BY <1>6 DEF Timeout, storeVars
    <2> QED
      BY <2>1 DEF DInv
  <1>7. CASE Prepare(c)
    <2>1. \A d \in Calls : pc'[d] = IF d = c THEN "store" ELSE pc[d]
      BY <1>0, <1>7, GotoFacts DEF Prepare, Labels, Inside
    <2>2. PICK n \in Int : n = NextNumber
      BY <1>0, NextIsLast DEF IsLog
    <2>3. PICK defs : defs \in Sources(c) /\ work' = [work EXCEPT ![c] = Numbered(defs, n)]
      BY Zenon, <1>7, <2>2 DEF Prepare
    <2>4. number' = [number EXCEPT ![c] = n] /\ UNCHANGED <<versions, shadow, draft>>
      BY <1>7, <2>2 DEF Prepare, storeVars
    <2>5. defs \in Lists /\ Valid(defs)
      <3>1. CASE Kind[c] = "publish"
        BY <1>0, <2>3, <3>1 DEF Sources
      <3>2. CASE Kind[c] # "publish"
        <4>1. PICK m \in DOMAIN versions : defs = versions[m]
          BY <2>3, <3>2 DEF Sources
        <4> QED
          BY <1>0, <4>1 DEF IsVersion
      <3> QED
        BY <3>1, <3>2
    <2>6. IsVersion(Numbered(defs, n), n)
      BY <2>5, NumberedIsVersion
    <2>7. /\ \A d \in Calls : d # c => work'[d] = work[d] /\ number'[d] = number[d]
          /\ work'[c] = Numbered(defs, n) /\ number'[c] = n
      BY <1>0, <2>3, <2>4 DEF Shape
    <2> QED
      BY <1>0, <2>1, <2>4, <2>6, <2>7, DefinitionsKeep
  <1>8. CASE SaveVersion(c)
    <2>1. \A d \in Calls : pc'[d] = IF d = c THEN "activate" ELSE pc[d]
      BY <1>0, <1>8, GotoFacts DEF SaveVersion, Labels, Inside
    <2>2. pc[c] = "store" /\ UNCHANGED <<draft, shadow, number, work>>
      BY <1>8 DEF SaveVersion, Goto
    <2>3. number[c] \notin DOMAIN versions
      BY <1>0, <2>2 DEF CInv, AtTheEnd, IsLog
    <2>4. IsVersion(work[c], number[c])
      BY <2>2 DEF DInv
    <2>5. PICK m : m = number[c]
      OBVIOUS
    <2>6. versions' = [n \in DOMAIN versions \cup {m} |-> IF n = m THEN work[c] ELSE versions[n]]
      BY <1>8, <2>5 DEF SaveVersion
    <2>7. \A n \in DOMAIN versions : versions'[n] = versions[n]
      BY <2>3, <2>5, <2>6
    <2>8. \A n \in DOMAIN versions' : IsVersion(versions'[n], n)
      BY <1>0, <2>4, <2>5, <2>6
    <2>9. DOMAIN versions \subseteq DOMAIN versions'
      BY <2>6
    <2> QED
      BY <1>0, <2>1, <2>2, <2>7, <2>8, <2>9, DefinitionsKeep
  <1>9. CASE GetShadow(c)
    <2>1. \A d \in Calls : pc'[d] = IF d = c THEN "shade" ELSE pc[d]
      BY <1>0, <1>9, GotoFacts DEF GetShadow, Labels
    <2>2. PICK n \in DOMAIN versions :
            /\ number' = [number EXCEPT ![c] = n]
            /\ work' = [work EXCEPT ![c] = versions[n]]
      BY <1>9 DEF GetShadow
    <2>3. UNCHANGED <<versions, shadow, draft>>
      BY <1>9 DEF GetShadow, storeVars
    <2>4. /\ \A d \in Calls : d # c => work'[d] = work[d] /\ number'[d] = number[d]
          /\ work'[c] = versions[n] /\ number'[c] = n
      BY <1>0, <2>2 DEF Shape
    <2> QED
      BY <1>0, <2>1, <2>3, <2>4, DefinitionsKeep
  <1>10. CASE SetShadow(c)
    <2>1. \A d \in Calls : pc'[d] = IF d = c THEN "done" ELSE pc[d]
      BY <1>0, <1>10, ReturnFacts DEF SetShadow
    <2>2. pc[c] = "shade" /\ UNCHANGED <<draft, versions, number, work>>
      BY <1>10 DEF SetShadow, Return, Goto
    <2>3. number[c] \in DOMAIN versions /\ work[c] = versions[number[c]]
      BY <2>2 DEF DInv
    <2>4. shadow'.version = number[c] /\ shadow'.definitions = work[c]
      BY <1>10 DEF SetShadow
    <2> QED
      BY <1>0, <2>1, <2>2, <2>3, <2>4, DefinitionsKeep
  <1> QED
    BY <1>2, <1>3, <1>4, <1>5, <1>6, <1>7, <1>8, <1>9, <1>10

LEMMA AlwaysDInv == Spec => []DInv
  <1>1. CInv /\ DInv /\ [Next]_cfgVars => DInv'
    <2> SUFFICES ASSUME CInv, DInv, [Next]_cfgVars PROVE DInv'
      OBVIOUS
    <2>1. CASE UNCHANGED cfgVars
      BY <2>1 DEF cfgVars, storeVars, DInv
    <2>2. CASE Next
      BY <2>2, DefinitionsMove DEF Next
    <2> QED
      BY <2>1, <2>2
  <1> QED
    BY <1>1, InitDefinitions, AlwaysCInv, PTL DEF Spec

Held == mu \in Calls \cup {None}

LEMMA AlwaysHeld == Spec => []Held
  <1>1. Init => Held
    BY DEF Init, Held
  <1>2. Held /\ [Next]_cfgVars => Held'
    <2> SUFFICES ASSUME Held, [Next]_cfgVars PROVE mu' \in {mu, None} \cup Calls
      BY DEF Held
    <2> QED
      BY DEF Next, cfgVars, CreateDraft, CreateDraftFails, Prepare, PrepareFails, SaveVersion,
             SaveFails, SetActive, SetActiveFails, DeleteDraft, GetShadow, GetShadowFails,
             SetShadow, Timeout
  <1> QED
    BY <1>1, <1>2, PTL DEF Spec

(* configuration/application/service.go and the memory repository: the     *)
(* versions have consecutive numbers, which their definitions carry, and   *)
(* the mutex is held by whoever is between its first write and its return. *)
THEOREM ConfigurationTypes == Spec => []TypeOK
  <1>1. Held /\ CInv /\ DInv => TypeOK
    <2> SUFFICES ASSUME mu \in Calls \cup {None}, CInv, DInv PROVE TypeOK
      BY DEF Held
    <2>1. Len(versions) \in Nat /\ DOMAIN versions = 1..Len(versions) /\ active \in DOMAIN versions
      BY DEF CInv, IsLog
    <2>2. Cardinality(1..Len(versions)) = Len(versions)
      <3>1. PICK k \in Nat : k = Len(versions)
        BY <2>1
      <3>2. Cardinality(1..k) = IF 1 > k THEN 0 ELSE k - 1 + 1
        BY FS_Interval
      <3> QED
        BY <3>1, <3>2
    <2>3. \A n \in DOMAIN versions : \A d \in Elements(versions[n]) : d.version = n
      BY DEF DInv, IsVersion
    <2> QED
      BY <2>1, <2>2, <2>3 DEF CInv, Shape, Inside, Labels, TypeOK
  <1> QED
    BY <1>1, AlwaysHeld, AlwaysCInv, AlwaysDInv, PTL

(* ValidateDefinitions, Publish, Rollback and SetShadow, with Match and    *)
(* Chain of the matcher: whatever drafts are published, in every version   *)
(* and in the shadow a request that matches has a chain to a root in which *)
(* no quota comes twice, for lists of any length.                          *)
THEOREM VersionsAllResolve == Spec => []VersionsResolve
  <1>1. DInv => VersionsResolve
    <2> SUFFICES ASSUME DInv PROVE VersionsResolve
      OBVIOUS
    <2>1. \A n \in DOMAIN versions : Resolves(versions[n])
      BY ValidResolves DEF DInv, IsVersion
    <2>2. shadow # None => shadow.definitions = versions[shadow.version]
      BY DEF DInv
    <2> QED
      BY Zenon, <2>1, <2>2 DEF VersionsResolve
  <1> QED
    BY <1>1, AlwaysDInv, PTL
=============================================================================
