------------------------------ MODULE ApiProofs ------------------------------
(***************************************************************************)
(* Proofs about module Api, for any requests, keys and lifetimes: the      *)
(* engine behind the write endpoints is used as it may be, so that all     *)
(* that is proved of it holds there, and the idempotency records keep      *)
(* their promises until they expire.                                       *)
(***************************************************************************)
EXTENDS Api, EngineProofs

(***************************************************************************)
(* The engine behind the endpoints.                                        *)
(***************************************************************************)

LEMMA ApiStepsEngine == [ApiNext]_allVars => [Next]_vars
  <1> SUFFICES ASSUME [ApiNext]_allVars PROVE [Next]_vars
    OBVIOUS
  <1>1. ASSUME NEW c \in Calls, Send(c) \/ Replay(c) \/ AnswerError(c) \/ Save(c)
        PROVE  UNCHANGED vars
    BY <1>1 DEF Send, Replay, AnswerError, Save
  <1>2. ASSUME NEW c \in Calls, Execute(c) PROVE Next
    BY <1>2 DEF Execute, Next
  <1>3. ASSUME NEW c \in Calls, Serve(c) \/ Lose(c) PROVE Next
    BY <1>3 DEF Serve, Lose, Next
  <1>4. CASE Background
    BY <1>4 DEF Background, Next
  <1>5. CASE UNCHANGED allVars
    BY <1>5 DEF allVars
  <1> QED
    BY <1>1, <1>2, <1>3, <1>4, <1>5 DEF ApiNext, Handle

LEMMA ApiKeepsEngine == ApiSpec => Spec
  <1>1. ApiInit => Init
    BY DEF ApiInit
  <1> QED
    BY <1>1, ApiStepsEngine, PTL DEF ApiSpec, Spec

(***************************************************************************)
(* The idempotency records.                                                *)
(***************************************************************************)

(* A record is the one that its call saved.                                *)
RecordsSaved ==
  \A s \in Scopes : records[s] # None =>
    LET x == records[s].from IN
    Scope[x] = s /\ Body[x] = records[s].body /\ savedAt[x] = records[s].createdAt

(* A call that saved its answer was told that, and the record is there     *)
(* unless it has expired.                                                  *)
SavedKept ==
  \A c \in Calls : savedAt[c] # None =>
    /\ request[c] = "answered" /\ answer[c] = c
    /\ Lapsed(c) \/ (records[Scope[c]] # None /\ records[Scope[c]].from = c)

(* The outcome that a client is told was saved, under its key and body.    *)
ToldSaved ==
  \A c \in Calls : answer[c] \in Calls =>
    LET x == answer[c] IN savedAt[x] # None /\ Scope[x] = Scope[c] /\ Body[x] = Body[c]

(* While a call runs there is no live record for its key.                  *)
RunsFresh == \A c \in Calls : request[c] = "running" => ~Live(Scope[c])

(* The engine has begun c only if c runs, failed or was saved.             *)
Begun ==
  \A c \in Calls : pc[c] # "idle" =>
    \/ request[c] = "running"
    \/ request[c] = "answered" /\ (answer[c] = "error" \/ savedAt[c] # None)

AInv == ApiTypeOK /\ RecordsSaved /\ SavedKept /\ ToldSaved /\ RunsFresh /\ Begun

(* What the invariant of the engine says here.                             *)
LEMMA ClockFact == Inv1 => now \in Nat
  BY EngineAssumption DEF Inv1, TypeOK

LEMMA RecordFacts ==
  ASSUME ApiTypeOK, NEW s \in Scopes, records[s] # None
  PROVE  records[s] \in Records /\ records[s].from \in Calls /\ records[s].createdAt \in Nat
  BY DEF ApiTypeOK, Records

LEMMA ScopeFact == \A c \in Calls : Scope[c] \in Scopes
  BY DEF Scopes

LEMMA ApiInitInv == ApiInit => AInv
  <1> SUFFICES ASSUME ApiInit PROVE AInv
    OBVIOUS
  <1> USE ApiAssumption, EngineAssumption
  <1>1. ApiTypeOK
    BY DEF ApiInit, ApiTypeOK
  <1>2. RecordsSaved /\ RunsFresh
    BY DEF ApiInit, RecordsSaved, RunsFresh
  <1>3. SavedKept /\ ToldSaved
    BY DEF ApiInit, SavedKept, ToldSaved
  <1>4. Begun
    BY DEF ApiInit, Init, Begun
  <1> QED
    BY <1>1, <1>2, <1>3, <1>4 DEF AInv

(* Time expires records and brings none back.                              *)
LEMMA Expiry ==
  ASSUME ApiTypeOK, now \in Nat, now' \in Nat, now <= now'
  PROVE  /\ \A c \in Calls : savedAt'[c] = savedAt[c] /\ Lapsed(c) => Lapsed(c)'
         /\ \A s \in Scopes : records'[s] = records[s] /\ ~Live(s) => ~Live(s)'
  <1>1. ASSUME NEW c \in Calls, savedAt'[c] = savedAt[c], Lapsed(c) PROVE Lapsed(c)'
    BY <1>1, ApiAssumption DEF Lapsed, ApiTypeOK
  <1>2. ASSUME NEW s \in Scopes, records'[s] = records[s], ~Live(s) PROVE ~Live(s)'
    <2>1. CASE records[s] = None
      BY <1>2, <2>1 DEF Live
    <2>2. CASE records[s] # None
      BY <1>2, <2>2, RecordFacts, ApiAssumption DEF Live
    <2> QED
      BY <2>1, <2>2
  <1> QED
    BY <1>1, <1>2

(* A step that leaves the endpoints alone and begins no call.              *)
LEMMA EngineStepKeeps ==
  ASSUME AInv, now \in Nat, now' \in Nat, now <= now', UNCHANGED apiVars,
         \A c \in Calls : pc[c] = "idle" => pc'[c] = "idle"
  PROVE  AInv'
  <1> USE DEF AInv
  <1>1. ApiTypeOK' /\ RecordsSaved' /\ ToldSaved'
    BY DEF apiVars, ApiTypeOK, RecordsSaved, ToldSaved
  <1>2. SavedKept'
    BY Expiry DEF apiVars, SavedKept
  <1>3. RunsFresh'
    BY Expiry, ScopeFact DEF apiVars, RunsFresh
  <1>4. Begun'
    BY DEF apiVars, Begun
  <1> QED
    BY <1>1, <1>2, <1>3, <1>4

LEMMA SendKeeps ==
  ASSUME AInv, NEW c \in Calls, Send(c)
  PROVE  AInv'
  <1>1. /\ request[c] = "unsent" /\ request' = [request EXCEPT ![c] = "waiting"]
        /\ UNCHANGED <<now, pc, idemMu, records, answer, savedAt>>
    BY DEF Send, vars, callVars
  <1> USE DEF AInv
  <1>2. ApiTypeOK'
    BY <1>1 DEF ApiTypeOK
  <1>3. \A d \in Calls : request'[d] = IF d = c THEN "waiting" ELSE request[d]
    BY <1>1 DEF ApiTypeOK
  <1>4. RecordsSaved' /\ ToldSaved'
    BY <1>1 DEF RecordsSaved, ToldSaved
  <1>5. SavedKept' /\ RunsFresh' /\ Begun'
    BY <1>1, <1>3 DEF SavedKept, RunsFresh, Begun, Lapsed, Live
  <1> QED
    BY <1>2, <1>4, <1>5

LEMMA ReplayKeeps ==
  ASSUME AInv, NEW c \in Calls, Replay(c)
  PROVE  AInv'
  <1> USE DEF AInv
  <1>1. PICK a : Reply(c, a) /\ (a \in {"error", "conflict"} \/
                   (Live(Scope[c]) /\ SameBody(c) /\ a = records[Scope[c]].from))
    BY DEF Replay
  <1>2. /\ request[c] = "waiting"
        /\ request' = [request EXCEPT ![c] = "answered"]
        /\ answer' = [answer EXCEPT ![c] = a]
        /\ UNCHANGED <<now, pc, idemMu, records, savedAt>>
    BY <1>1 DEF Replay, Reply, vars, callVars
  <1>3. a \in Calls => /\ a = records[Scope[c]].from /\ records[Scope[c]] # None
                       /\ SameBody(c)
    BY <1>1, ApiAssumption DEF Live
  <1>4. a \in Calls \cup {"error", "conflict"}
    BY <1>1, ScopeFact, RecordFacts DEF Live
  <1>5. pc[c] = "idle" /\ savedAt[c] = None
    BY <1>2 DEF Begun, SavedKept
  <1>6. ApiTypeOK'
    BY <1>2, <1>4 DEF ApiTypeOK
  <1>7. RecordsSaved'
    BY <1>2 DEF RecordsSaved
  <1>8. \A d \in Calls : /\ request'[d] = IF d = c THEN "answered" ELSE request[d]
                         /\ answer'[d] = IF d = c THEN a ELSE answer[d]
    BY <1>2 DEF ApiTypeOK
  <1>9. SavedKept' /\ RunsFresh' /\ Begun'
    BY <1>2, <1>5, <1>8 DEF SavedKept, RunsFresh, Begun, Lapsed, Live
  <1>10. ToldSaved'
    <2>1. ASSUME a \in Calls
          PROVE  savedAt[a] # None /\ Scope[a] = Scope[c] /\ Body[a] = Body[c]
      <3>1. records[Scope[c]].createdAt \in Nat
        BY <1>3, <2>1, ScopeFact, RecordFacts
      <3> QED
        BY <1>3, <2>1, <3>1, ScopeFact, ApiAssumption DEF RecordsSaved, SameBody
    <2> QED
      BY <1>2, <1>8, <2>1 DEF ToldSaved
  <1> QED
    BY <1>6, <1>7, <1>9, <1>10

LEMMA ExecuteKeeps ==
  ASSUME AInv, NEW c \in Calls, Execute(c)
  PROVE  AInv'
  <1> USE DEF AInv
  <1>1. /\ request[c] = "waiting" /\ idemMu = None /\ ~Live(Scope[c])
        /\ request' = [request EXCEPT ![c] = "running"]
        /\ idemMu' = c
        /\ UNCHANGED <<now, records, answer, savedAt>>
    BY DEF Execute, MayEnter, Begin
  <1>2. \A d \in Calls : d # c => pc'[d] = pc[d]
    BY DEF Execute, Begin, Goto
  <1>3. \A d \in Calls : request'[d] = IF d = c THEN "running" ELSE request[d]
    BY <1>1 DEF ApiTypeOK
  <1>4. ApiTypeOK'
    BY <1>1, <1>3, EngineAssumption DEF ApiTypeOK
  <1>5. RecordsSaved' /\ ToldSaved'
    BY <1>1 DEF RecordsSaved, ToldSaved
  <1>6. SavedKept' /\ RunsFresh'
    BY <1>1, <1>3 DEF SavedKept, RunsFresh, Lapsed, Live
  <1>7. Begun'
    BY <1>1, <1>2, <1>3 DEF Begun
  <1> QED
    BY <1>4, <1>5, <1>6, <1>7

(* The client is told of an error, and nothing is recorded.                *)
LEMMA ErrorKeeps ==
  ASSUME AInv, NEW c \in Calls, request[c] = "running", Reply(c, "error"), idemMu' = None,
         UNCHANGED <<vars, records, savedAt>>
  PROVE  AInv'
  <1> USE DEF AInv
  <1>1. /\ request' = [request EXCEPT ![c] = "answered"]
        /\ answer' = [answer EXCEPT ![c] = "error"]
        /\ UNCHANGED <<now, pc>>
    BY DEF Reply, vars, callVars
  <1>2. \A d \in Calls : /\ request'[d] = IF d = c THEN "answered" ELSE request[d]
                         /\ answer'[d] = IF d = c THEN "error" ELSE answer[d]
    BY <1>1 DEF ApiTypeOK
  <1>3. savedAt[c] = None
    BY DEF SavedKept
  <1>4. \A d \in Calls : request[d] = "running" => d = c
    BY DEF ApiTypeOK
  <1>5. ApiTypeOK'
    BY <1>1, <1>2, <1>4, EngineAssumption DEF ApiTypeOK
  <1>6. RecordsSaved' /\ SavedKept' /\ RunsFresh' /\ Begun'
    BY <1>1, <1>2, <1>3 DEF RecordsSaved, SavedKept, RunsFresh, Begun, Lapsed, Live
  <1>7. ToldSaved'
    BY <1>2, ApiAssumption DEF ToldSaved
  <1> QED
    BY <1>5, <1>6, <1>7

(* The answer is recorded: whatever had been, under this key, has expired. *)
LEMMA RecordKeeps ==
  ASSUME AInv, now \in Nat, NEW c \in Calls, request[c] = "running", Reply(c, c), idemMu' = None,
         records' = [records EXCEPT ![Scope[c]] = RecordOf(c)],
         savedAt' = [savedAt EXCEPT ![c] = now], UNCHANGED vars
  PROVE  AInv'
  <1> USE DEF AInv
  <1>0. /\ request' = [request EXCEPT ![c] = "answered"]
        /\ answer' = [answer EXCEPT ![c] = c]
        /\ UNCHANGED <<now, pc>>
    BY DEF Reply, vars, callVars
  <1>1. RecordOf(c) \in Records /\ RecordOf(c) # None
    BY ApiAssumption DEF RecordOf, Records
  <1>2. \A d \in Calls : /\ request'[d] = IF d = c THEN "answered" ELSE request[d]
                         /\ answer'[d] = IF d = c THEN c ELSE answer[d]
                         /\ savedAt'[d] = IF d = c THEN now ELSE savedAt[d]
    BY <1>0 DEF ApiTypeOK
  <1>3. \A s \in Scopes : records'[s] = IF s = Scope[c] THEN RecordOf(c) ELSE records[s]
    BY DEF ApiTypeOK
  <1>4. now # None /\ savedAt[c] = None
    BY ApiAssumption DEF SavedKept
  <1>5. \A d \in Calls : request[d] = "running" => d = c
    BY DEF ApiTypeOK
  <1>6. ApiTypeOK'
    <2>1. /\ request' \in [Calls -> {"unsent", "waiting", "running", "answered"}]
          /\ idemMu' \in Calls \cup {None}
          /\ \A d \in Calls : request'[d] = "running" <=> idemMu' = d
      BY <1>0, <1>2, <1>5, EngineAssumption DEF ApiTypeOK
    <2>2. records' \in [Scopes -> Records \cup {None}]
      BY <1>1 DEF ApiTypeOK
    <2>3. answer' \in [Calls -> Calls \cup {None, "error", "conflict"}]
      BY <1>0 DEF ApiTypeOK
    <2>4. savedAt' \in [Calls -> Nat \cup {None}]
      BY DEF ApiTypeOK
    <2> QED
      BY <2>1, <2>2, <2>3, <2>4 DEF ApiTypeOK
  <1>7. RecordsSaved'
    <2> SUFFICES ASSUME NEW s \in Scopes, records'[s] # None
                 PROVE  LET x == records'[s].from IN
                        Scope[x] = s /\ Body[x] = records'[s].body /\ savedAt'[x] = records'[s].createdAt
      BY DEF RecordsSaved
    <2>1. CASE s = Scope[c]
      BY <1>2, <1>3, <2>1 DEF RecordOf
    <2>2. CASE s # Scope[c]
      <3>1. records'[s] = records[s] /\ records[s].from \in Calls
        BY <1>3, <2>2, RecordFacts
      <3>2. Scope[records[s].from] = s
        BY <3>1 DEF RecordsSaved
      <3> QED
        BY <1>2, <2>2, <3>1, <3>2 DEF RecordsSaved
    <2> QED
      BY <2>1, <2>2
  <1>8. SavedKept'
    <2> SUFFICES ASSUME NEW d \in Calls, savedAt'[d] # None
                 PROVE  /\ request'[d] = "answered" /\ answer'[d] = d
                        /\ Lapsed(d)' \/ (records'[Scope[d]] # None /\ records'[Scope[d]].from = d)
      BY DEF SavedKept
    <2>1. CASE d = c
      BY <1>1, <1>2, <1>3, <2>1, ScopeFact DEF RecordOf
    <2>2. CASE d # c
      <3>1. savedAt[d] # None /\ savedAt'[d] = savedAt[d]
        BY <1>2, <2>2
      <3>2. request'[d] = "answered" /\ answer'[d] = d
        BY <1>2, <2>2, <3>1 DEF SavedKept
      <3>3. Lapsed(d) => Lapsed(d)'
        BY <1>0, <3>1 DEF Lapsed
      <3>4. CASE Scope[d] # Scope[c]
        BY <1>3, <3>1, <3>2, <3>3, <3>4, ScopeFact DEF SavedKept
      <3>5. CASE Scope[d] = Scope[c]
        <4>1. ~Live(Scope[d])
          BY <3>5 DEF RunsFresh
        <4>2. Lapsed(d)
          <5> SUFFICES ASSUME ~Lapsed(d) PROVE FALSE
            OBVIOUS
          <5>1. records[Scope[d]] # None /\ records[Scope[d]].from = d
            BY <3>1 DEF SavedKept
          <5>2. records[Scope[d]].createdAt = savedAt[d]
            BY <5>1, ScopeFact DEF RecordsSaved
          <5>3. savedAt[d] \in Nat
            BY <3>1 DEF ApiTypeOK
          <5> QED
            BY <3>1, <4>1, <5>1, <5>2, <5>3, ApiAssumption DEF Live, Lapsed
        <4> QED
          BY <3>2, <3>3, <4>2
      <3> QED
        BY <3>4, <3>5
    <2> QED
      BY <2>1, <2>2
  <1>9. ToldSaved'
    BY <1>2, <1>4 DEF ToldSaved
  <1>10. RunsFresh'
    BY <1>2, <1>5 DEF RunsFresh
  <1>11. Begun'
    BY <1>0, <1>2, <1>4 DEF Begun
  <1> QED
    BY <1>6, <1>7, <1>8, <1>9, <1>10, <1>11

(* A step of a call belongs to one that has begun, and to no other.        *)
LEMMA CallStepFacts ==
  ASSUME Inv1, NEW c \in Calls, CallStep(c)
  PROVE  now' = now /\ pc[c] # "idle" /\ \A d \in Calls : d # c => pc'[d] = pc[d]
  <1>1. now' = now /\ pc[c] # "idle"
    BY DEF CallStep, Check, CheckFails, Admit, Deny, Grant, GrantReserve, GiveBack, Reject, Decided,
           Stamp, Create, CreateFails, FailReserve, Commit, CommitNothing, Cancel, CancelNothing,
           FinishCancel, Goto, Return
  <1>2. pc' = pc \/ \E to \in Labels : pc' = [pc EXCEPT ![c] = to]
    <2>1. \/ Check(c) \/ CheckFails(c) \/ Admit(c) \/ Deny(c) \/ GrantReserve(c) \/ GiveBack(c)
          \/ Stamp(c) \/ Create(c) \/ CreateFails(c) \/ FailReserve(c)
          => pc' = pc \/ \E to \in Labels : pc' = [pc EXCEPT ![c] = to]
      BY DEF Check, CheckFails, Admit, Deny, GrantReserve, GiveBack, Stamp, Create, CreateFails,
             FailReserve, Goto, Return, Labels
    <2>2. Grant(c) \/ Reject(c) => \E to \in Labels : pc' = [pc EXCEPT ![c] = to]
      BY DEF Grant, Reject, Decided, Goto, Return, Labels
    <2>3. Commit(c) \/ CommitNothing(c) \/ Cancel(c) \/ CancelNothing(c) \/ FinishCancel(c)
          => \E to \in Labels : pc' = [pc EXCEPT ![c] = to]
      BY DEF Commit, CommitNothing, Cancel, CancelNothing, FinishCancel, Goto, Return, Labels
    <2> QED
      BY <2>1, <2>2, <2>3 DEF CallStep
  <1>3. \A d \in Calls : d # c => pc'[d] = pc[d]
    BY <1>2 DEF Inv1, TypeOK
  <1> QED
    BY <1>1, <1>3

LEMMA ApiStepInv == Inv1 /\ Inv1' /\ AInv /\ [ApiNext]_allVars => AInv'
  <1> SUFFICES ASSUME Inv1, Inv1', AInv, [ApiNext]_allVars PROVE AInv'
    OBVIOUS
  <1>0. now \in Nat /\ now' \in Nat
    BY EngineAssumption DEF Inv1, TypeOK
  <1>1. ASSUME NEW c \in Calls, Send(c) PROVE AInv'
    BY <1>1, SendKeeps
  <1>2. ASSUME NEW c \in Calls, Replay(c) PROVE AInv'
    BY <1>2, ReplayKeeps
  <1>3. ASSUME NEW c \in Calls, Execute(c) PROVE AInv'
    BY <1>3, ExecuteKeeps
  <1>4. ASSUME NEW c \in Calls, AnswerError(c) PROVE AInv'
    BY <1>4, ErrorKeeps DEF AnswerError
  <1>5. ASSUME NEW c \in Calls, Save(c) PROVE AInv'
    <2>1. CASE c \in ctxDone
      BY <1>5, <2>1, ErrorKeeps DEF Save
    <2>2. CASE c \notin ctxDone
      BY <1>0, <1>5, <2>2, RecordKeeps DEF Save
    <2> QED
      BY <2>1, <2>2
  <1>6. ASSUME NEW c \in Calls, Serve(c) PROVE AInv'
    <2>1. CallStep(c) /\ UNCHANGED apiVars
      BY <1>6 DEF Serve
    <2>2. now' = now /\ \A d \in Calls : pc[d] = "idle" => pc'[d] = "idle"
      BY <2>1, CallStepFacts
    <2> QED
      BY <1>0, <2>1, <2>2, EngineStepKeeps
  <1>7. ASSUME NEW c \in Calls, Lose(c) PROVE AInv'
    BY <1>0, <1>7, EngineStepKeeps DEF Lose, Timeout, callVars
  <1>8. CASE Background
    <2>1. UNCHANGED apiVars /\ pc' = pc /\ now <= now'
      BY <1>0, <1>8 DEF Background, Refund, ReaperStep, ReapStart, ReapItem, ReapNext, ReapEnd,
                        Tick, Stop, callVars
    <2> QED
      BY <1>0, <2>1, EngineStepKeeps
  <1>9. CASE UNCHANGED allVars
    BY <1>0, <1>9, EngineStepKeeps DEF allVars, vars, callVars
  <1> QED
    BY <1>1, <1>2, <1>3, <1>4, <1>5, <1>6, <1>7, <1>8, <1>9 DEF ApiNext, Handle

LEMMA AlwaysAInv == ApiSpec => [](Inv1 /\ AInv)
  <1>1. ApiSpec => []Inv1
    BY ApiKeepsEngine, AlwaysInv1, PTL
  <1> QED
    BY <1>1, ApiInitInv, ApiStepInv, PTL DEF ApiSpec

(* Of two calls with one key that have both saved their answers, one's     *)
(* record has expired.                                                     *)
LEMMA SavedOnce ==
  ASSUME AInv, NEW x \in Calls, NEW y \in Calls, x # y, Scope[x] = Scope[y],
         savedAt[x] # None, savedAt[y] # None
  PROVE  Lapsed(x) \/ Lapsed(y)
  BY DEF AInv, SavedKept

(* Quota is charged only for a call that has begun.                        *)
LEMMA ChargesBegun ==
  ASSUME Inv1, NEW c \in Calls, Charges(c)
  PROVE  pc[c] # "idle"
  <1> SUFFICES ASSUME pc[c] = "idle" PROVE FALSE
    OBVIOUS
  <1>1. PICK x \in Held : x[1][1] = c
    BY DEF Charges
  <1>2. Charged(c, x[1][2], x[2])
    BY <1>1 DEF Held
  <1>3. granted[c] = {} /\ status[c] = "none"
    BY EngineAssumption DEF Inv1, Shape, CallShape, ReservationShape
  <1>4. refunding # c
    BY <1>3, EngineAssumption DEF Inv1, Shape, LockShape
  <1> QED
    BY <1>2, <1>3, <1>4 DEF Charged, InLoop, InReservation

(* httpapi.go, API.idempotent: the idempotency records are well formed and *)
(* exactly the request that runs holds the mutex.                          *)
THEOREM ApiTypeCorrect == ApiSpec => []ApiTypeOK
  <1>1. AInv => ApiTypeOK
    BY DEF AInv
  <1> QED
    BY <1>1, AlwaysAInv, PTL

(* httpapi.go, API.idempotent, and idempotency/application/service.go,     *)
(* Replay and Save: clients that use one key are told of one execution     *)
(* until its record expires.                                               *)
THEOREM AnswersCorrect == ApiSpec => []AnswersAgree
  <1>1. AInv => AnswersAgree
    <2> SUFFICES ASSUME AInv, NEW c \in Calls, NEW d \in Calls, Scope[c] = Scope[d],
                        answer[c] \in Calls, answer[d] \in Calls
                 PROVE  \/ answer[c] = answer[d] /\ Body[c] = Body[d]
                        \/ Lapsed(answer[c]) \/ Lapsed(answer[d])
      BY DEF AnswersAgree
    <2>1. \A e \in {c, d} : savedAt[answer[e]] # None /\ Scope[answer[e]] = Scope[e]
                              /\ Body[answer[e]] = Body[e]
      BY DEF AInv, ToldSaved
    <2>2. PICK x \in Calls, y \in Calls : x = answer[c] /\ y = answer[d]
      OBVIOUS
    <2> QED
      BY <2>1, <2>2, SavedOnce
  <1> QED
    BY <1>1, AlwaysAInv, PTL

(* httpapi.go, API.idempotent, with Check and Reserve of engine.go: one    *)
(* key is charged by one execution, unless a client was told of an error   *)
(* or the record has expired.                                              *)
THEOREM ChargedOnceCorrect == ApiSpec => []ChargedOnce
  <1>1. Inv1 /\ AInv => ChargedOnce
    <2> SUFFICES ASSUME Inv1, AInv, NEW c \in Calls, NEW d \in Calls, c # d, Scope[c] = Scope[d],
                        Charges(c), Charges(d), answer[c] # "error", answer[d] # "error"
                 PROVE  Lapsed(c) \/ Lapsed(d)
      BY DEF ChargedOnce
    <2>1. pc[c] # "idle" /\ pc[d] # "idle"
      BY ChargesBegun
    <2>2. \A e \in {c, d} : request[e] = "running" \/ savedAt[e] # None
      BY <2>1 DEF AInv, Begun
    <2>3. ~(request[c] = "running" /\ request[d] = "running")
      BY DEF AInv, ApiTypeOK
    <2>4. ASSUME NEW x \in Calls, NEW y \in Calls, Scope[x] = Scope[y],
                 request[x] = "running", savedAt[y] # None
          PROVE  Lapsed(y)
      <3> SUFFICES ASSUME ~Lapsed(y) PROVE FALSE
        OBVIOUS
      <3>1. records[Scope[y]] # None /\ records[Scope[y]].from = y
        BY <2>4 DEF AInv, SavedKept
      <3>2. records[Scope[y]].createdAt = savedAt[y]
        BY <3>1, ScopeFact DEF AInv, RecordsSaved
      <3>3. now \in Nat /\ savedAt[y] \in Nat /\ ~Live(Scope[y])
        BY <2>4, ClockFact DEF AInv, ApiTypeOK, RunsFresh
      <3> QED
        BY <2>4, <3>1, <3>2, <3>3, ApiAssumption DEF Live, Lapsed
    <2> QED
      BY <2>2, <2>3, <2>4, SavedOnce
  <1> QED
    BY <1>1, AlwaysAInv, PTL

(* The same engine behind the endpoints: no counter is charged beyond its  *)
(* limit, whatever requests are retried, lost or replayed.                 *)
THEOREM ApiWithinLimit == ApiSpec => []WithinLimit
  BY ApiKeepsEngine, LimitRespected, PTL

(* And every execution takes its chain whole or gives it all back.         *)
THEOREM ApiImplementsLedger == ApiSpec => ImplementsLedger
  BY ApiKeepsEngine, EngineImplementsLedger, PTL
=============================================================================
