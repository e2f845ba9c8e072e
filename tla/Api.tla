--------------------------------- MODULE Api ---------------------------------
(***************************************************************************)
(* The write endpoints (platform/adapter/httpapi.go): every one of them    *)
(* runs the engine inside API.idempotent, which holds one mutex from       *)
(* before the lookup of the idempotency record until the answer is         *)
(* written.  Composes module Engine with the idempotency service and its   *)
(* memory store.                                                           *)
(*                                                                         *)
(* Of an answer only its origin is kept: the call whose execution produced *)
(* it.  Two requests with equal Scope carry the same key to the same route.*)
(***************************************************************************)
EXTENDS Engine

CONSTANTS
  Scope,    \* Scope[c]: route and idempotency key
  Body,     \* Body[c]: digest of the request's body
  IdemTTL   \* lifetime of a record

Records == [body : {Body[c] : c \in Calls}, from : Calls, createdAt : Nat]

ASSUME ApiAssumption ==
  /\ IdemTTL \in Nat
  /\ None \notin Nat /\ None \notin Records
  /\ "error" \notin Calls /\ "conflict" \notin Calls
  /\ \A c, d \in Calls : Scope[c] = Scope[d] /\ Body[c] = Body[d] =>
       /\ Kind[c] = Kind[d] /\ Items[c] = Items[d] /\ Consume[c] = Consume[d]
       /\ TTL[c] = TTL[d] /\ Target[c] = Target[d]

VARIABLES
  request,  \* request[c]: "unsent", "waiting", "running" or "answered"
  idemMu,   \* the request inside idempotent, or None
  records,  \* records[s]: the stored answer for scope s, or None
  answer,   \* answer[c]: the call whose execution c was told, or a failure
  savedAt   \* history, savedAt[c]: when the answer of c was recorded, or None

apiVars == <<request, idemMu, records, answer, savedAt>>
allVars == <<vars, apiVars>>

Scopes == {Scope[c] : c \in Calls}

ApiInit ==
  /\ Init
  /\ request = [c \in Calls |-> "unsent"]
  /\ idemMu = None
  /\ records = [s \in Scopes |-> None]
  /\ answer = [c \in Calls |-> None]
  /\ savedAt = [c \in Calls |-> None]

(* Memory.Get: a record past its expiry is not there. *)
LiveAtStart(s) ==  \* mutant: dead from the first moment
  records[s] # None /\ now < records[s].createdAt
Live(s) == records[s] # None /\ now <= records[s].createdAt + IdemTTL

Reply(c, a) ==
  /\ request' = [request EXCEPT ![c] = "answered"]
  /\ answer' = [answer EXCEPT ![c] = a]

(* The client sends the request; commits and cancellations name a          *)
(* reservation the client was told of.                                     *)
Send(c) ==
  /\ request[c] = "unsent"
  /\ Kind[c] \in {"commit", "cancel"} => status[Target[c]] # "none"
  /\ request' = [request EXCEPT ![c] = "waiting"]
  /\ UNCHANGED <<vars, idemMu, records, answer, savedAt>>

MayEnterAny == TRUE  \* mutant: idempotent without its mutex
MayEnter == idemMu = None

(* record.Digest is the digest of this request's body. *)
SameBodyAny(c) == TRUE  \* mutant: the digest is not compared
SameBody(c) == records[Scope[c]].body = Body[c]

(* Replay fails on a cancelled context, returns the record of the same     *)
(* body, or reports a conflict; the mutex is free again at once.           *)
Replay(c) ==
  /\ request[c] = "waiting"
  /\ MayEnter
  /\ \/ /\ c \in ctxDone
        /\ Reply(c, "error")
     \/ /\ c \notin ctxDone
        /\ Live(Scope[c])
        /\ Reply(c, IF SameBody(c) THEN records[Scope[c]].from ELSE "conflict")
  /\ UNCHANGED <<vars, idemMu, records, savedAt>>

(* No record: the engine is called, with the mutex held. *)
Execute(c) ==
  /\ request[c] = "waiting"
  /\ MayEnter
  /\ c \notin ctxDone
  /\ ~Live(Scope[c])
  /\ idemMu' = c
  /\ request' = [request EXCEPT ![c] = "running"]
  /\ Begin(c)
  /\ UNCHANGED <<records, answer, savedAt>>

(* The engine returned an error: it is written and nothing is recorded. *)
AnswerError(c) ==
  /\ request[c] = "running"
  /\ pc[c] = "done"
  /\ result[c] = "error"
  /\ Reply(c, "error")
  /\ idemMu' = None
  /\ UNCHANGED <<vars, records, savedAt>>

RecordOf(c) == [body |-> Body[c], from |-> c, createdAt |-> now]

(* The answer is recorded, then written.  Put refuses a cancelled context: *)
(* then the client is told of a failure and no record is kept.             *)
Save(c) ==
  /\ request[c] = "running"
  /\ pc[c] = "done"
  /\ result[c] = "ok"
  /\ IF c \in ctxDone
     THEN Reply(c, "error") /\ UNCHANGED <<records, savedAt>>
     ELSE /\ Reply(c, c)
          /\ records' = [records EXCEPT ![Scope[c]] = RecordOf(c)]
          /\ savedAt' = [savedAt EXCEPT ![c] = now]
  /\ idemMu' = None
  /\ UNCHANGED vars

Handle(c) == Replay(c) \/ Execute(c) \/ AnswerError(c) \/ Save(c)

(* The engine runs for c; it may be refunding for it. *)
Serve(c) ==
  /\ CallStep(c)
  /\ UNCHANGED apiVars

Lose(c) ==
  /\ request[c] \in {"waiting", "running"}
  /\ Timeout(c)
  /\ UNCHANGED apiVars

Background ==
  /\ Refund \/ ReaperStep \/ Tick \/ Stop
  /\ UNCHANGED apiVars

ApiNext ==
  \/ \E c \in Calls : Send(c) \/ Handle(c) \/ Serve(c) \/ Lose(c)
  \/ Background

ApiSpec == ApiInit /\ [][ApiNext]_allVars

(* A goroutine that can run does; Go's mutexes are starvation-free, so a   *)
(* goroutine that waits for idemMu or resMu while it keeps becoming free   *)
(* gets it; the ticker keeps starting Reap; the clock goes on.  Nothing    *)
(* makes a client send a request, a context end or the process stop.       *)
ApiFairness ==
  /\ \A c \in Calls : SF_allVars(Handle(c)) /\ SF_allVars(Serve(c))
  /\ WF_allVars(Refund /\ UNCHANGED apiVars)
  /\ SF_allVars(ReapStart /\ UNCHANGED apiVars)
  /\ WF_allVars((\E r \in Calls : ReapItem(r)) /\ UNCHANGED apiVars)
  /\ WF_allVars((ReapNext \/ ReapEnd) /\ UNCHANGED apiVars)
  /\ WF_allVars(Tick /\ UNCHANGED apiVars)

ApiFairSpec == ApiSpec /\ ApiFairness

(***************************************************************************)
(* Properties.                                                             *)
(***************************************************************************)

ApiTypeOK ==
  /\ request \in [Calls -> {"unsent", "waiting", "running", "answered"}]
  /\ idemMu \in Calls \cup {None}
  /\ \A c \in Calls : request[c] = "running" <=> idemMu = c
  /\ records \in [Scopes -> Records \cup {None}]
  /\ answer \in [Calls -> Calls \cup {None, "error", "conflict"}]
  /\ savedAt \in [Calls -> Nat \cup {None}]

(* Quota is charged for a request of call c. *)
Charges(c) == \E x \in Held : x[1][1] = c

(* The record of c's answer has been saved and has expired since. *)
Lapsed(c) == savedAt[c] # None /\ now > savedAt[c] + IdemTTL

(* Two requests with one key that are both answered are told the outcome   *)
(* of one execution and had the same body, until the record of one outcome *)
(* has expired (README: the same key and body get the cached answer, a     *)
(* changed body gets a conflict).                                          *)
AnswersAgree ==
  \A c, d \in Calls :
    Scope[c] = Scope[d] /\ answer[c] \in Calls /\ answer[d] \in Calls =>
      \/ answer[c] = answer[d] /\ Body[c] = Body[d]
      \/ Lapsed(answer[c]) \/ Lapsed(answer[d])

(* A key is charged by a second execution only when the client of the      *)
(* first one was told of an error, or when its record has expired.         *)
ChargedOnce ==
  \A c, d \in Calls :
    c # d /\ Scope[c] = Scope[d] /\ Charges(c) /\ Charges(d) =>
      \/ answer[c] = "error" \/ answer[d] = "error"
      \/ Lapsed(c) \/ Lapsed(d)

(* A request that is sent is answered: neither of the two mutexes, taken   *)
(* in this order by the requests and the second one by the reaper, leaves  *)
(* one waiting for ever.                                                   *)
RequestsAnswered ==
  \A c \in Calls : request[c] = "waiting" ~> request[c] = "answered"

(* README: replaying an idempotent request must not consume quota again.   *)
RetryNeverRecharges ==
  \A c, d \in Calls :
    c # d /\ Scope[c] = Scope[d] /\ Body[c] = Body[d] => ~(Charges(c) /\ Charges(d))
=============================================================================
