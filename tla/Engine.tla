------------------------------- MODULE Engine -------------------------------
(***************************************************************************)
(* The decision engine (quota/application/engine.go) together with the     *)
(* reservation service it charges and refunds for                          *)
(* (reservation/application/service.go).                                   *)
(*                                                                         *)
(* A call is one invocation of Check, BatchCheck, Reserve, Commit or       *)
(* Cancel.  Calls run concurrently.  What is atomic is what the code puts  *)
(* under one mutex: one Evaluate or Release of a counter (the evaluator's  *)
(* mutex) and one critical section of the reservation service (resMu).     *)
(* Cancel and Reap keep resMu while they refund a chain counter by         *)
(* counter, so their refunds are steps of their own.  (The write endpoints *)
(* call the engine one at a time, see module Api; its own locks are there  *)
(* for callers that do not.)                                               *)
(*                                                                         *)
(* A counter is what Evaluate and Release make of a semaphore, or of a     *)
(* fixed window that does not turn while the calls run: cost is added if   *)
(* it fits and subtracted, never below zero.  Turning windows and the      *)
(* other algorithms are the subject of module Metering and those that      *)
(* extend it.                                                              *)
(*                                                                         *)
(* What the configuration makes of a request is a constant: the chain of   *)
(* counters from the matched definition to its root, empty when no         *)
(* definition matches.                                                     *)
(***************************************************************************)
EXTENDS Integers, Sequences, FiniteSets

CONSTANTS
  Calls,       \* invocations of the engine
  Counters,    \* counter keys: definition ID and scope key
  Limit,       \* Limit[k]: what k admits: limit, and burst for a window
  Kind,        \* Kind[c]: "check", "reserve", "commit" or "cancel"
  Items,       \* Items[c]: the requests of c, each a chain and a cost
  Consume,     \* Consume[c]: FALSE for a dry run
  TTL,         \* TTL[c]: ttl_ms of the request, 0 when it is absent
  DefaultTTL,  \* the lifetime of a reservation that asks for none
  Target,      \* Target[c]: the reservation c commits or cancels
  MaxTime,     \* bound on the clock
  Reaper,      \* the goroutine that runs Reap
  None

ASSUME EngineAssumption ==
  /\ Reaper \notin Calls
  /\ None \notin Calls \cup {Reaper}
  /\ Limit \in [Counters -> Nat]
  /\ Kind \in [Calls -> {"check", "reserve", "commit", "cancel"}]
  /\ Items \in [Calls -> Seq([chain : Seq(Counters), cost : Int])]
  /\ Consume \in [Calls -> BOOLEAN]
  /\ TTL \in [Calls -> Nat]
  /\ DefaultTTL \in Nat \ {0}
  /\ Target \in [Calls -> Calls]
  /\ MaxTime \in Nat
  /\ \A c \in Calls :
        /\ Kind[c] \in {"check", "reserve"} => Len(Items[c]) > 0
        /\ Kind[c] = "reserve" => Consume[c] /\ Len(Items[c]) = 1

VARIABLES
  now,        \* the clock
  used,       \* used[k]: the amount evaluator state holds for counter k
  status,     \* status[c]: of the reservation that call c created
  expiresAt,  \* expiresAt[c]: its expiry
  resMu,      \* who is inside the reservation service, or None
  refunding,  \* the reservation the holder of resMu refunds, or None
  refundPos,  \* the position of its chain that is refunded next
  reapAt,     \* the time Reap read
  stopped,    \* the context of the background goroutines is cancelled
  pc,         \* pc[c]: the next step of call c
  item,       \* item[c]: the request of a batch that c works on
  accepted,   \* accepted[c]: how many counters of its chain allowed it
  undone,     \* undone[c]: how many of these were released again
  granted,    \* granted[c]: the requests that a Check allowed
  result,     \* result[c]: "ok" or "error" once c has returned
  ctxDone     \* calls whose context is cancelled: timeout or lost client

rsvVars  == <<status, expiresAt>>
lockVars == <<resMu, refunding, refundPos, reapAt>>
loopVars == <<item, accepted, undone, granted>>
callVars == <<pc, loopVars, result>>

vars == <<now, used, rsvVars, lockVars, stopped, callVars, ctxDone>>

Statuses == {"none", "pending", "committed", "cancelled", "expired"}

Labels == {"idle", "check", "eval", "undo", "stamp", "create", "release",
           "commit", "cancel", "refund", "done"}

Chain(c, j) == Items[c][j].chain
Cost(c, j)  == Items[c][j].cost

(* The request that call c is working on. *)
ChainOf(c) == Chain(c, item[c])
CostOf(c)  == Cost(c, item[c])

(* time.Duration(request.TTLMillis), or 30 seconds when that is zero *)
Lifetime(c) == IF TTL[c] = 0 THEN DefaultTTL ELSE TTL[c]

(* Evaluate's verdict and Release's subtraction on one counter. *)
FitsBefore(k, n) == used[k] <= Limit[k]  \* mutant: the cost is not counted
Fits(k, n) == used[k] + n <= Limit[k]
Less(u, n) == IF u < n THEN 0 ELSE u - n

Init ==
  /\ now = 0
  /\ used = [k \in Counters |-> 0]
  /\ status = [c \in Calls |-> "none"]
  /\ expiresAt = [c \in Calls |-> 0]
  /\ resMu = None
  /\ refunding = None
  /\ refundPos = 1
  /\ reapAt = 0
  /\ stopped = FALSE
  /\ pc = [c \in Calls |-> "idle"]
  /\ item = [c \in Calls |-> 1]
  /\ accepted = [c \in Calls |-> 0]
  /\ undone = [c \in Calls |-> 0]
  /\ granted = [c \in Calls |-> {}]
  /\ result = [c \in Calls |-> None]
  /\ ctxDone = {}

(* Call c goes from one step to the next, or returns. *)
Goto(c, from, to) ==
  /\ pc[c] = from
  /\ pc' = [pc EXCEPT ![c] = to]

Return(c, from, res) ==
  /\ Goto(c, from, "done")
  /\ result' = [result EXCEPT ![c] = res]

(***************************************************************************)
(* Check and BatchCheck.                                                   *)
(***************************************************************************)

Settling(c) == Kind[c] \in {"commit", "cancel"}

(* Entry.  Only the client that was given a reservation's random ID can    *)
(* commit or cancel it.                                                    *)
Begin(c) ==
  /\ Settling(c) => status[Target[c]] # "none"
  /\ Goto(c, "idle", IF Settling(c) THEN Kind[c] ELSE "check")
  /\ UNCHANGED <<now, used, rsvVars, lockVars, stopped, loopVars, result, ctxDone>>

(* ctx.Err and request.Validate. *)
Refused(c) == c \in ctxDone \/ CostOf(c) <= 0

CheckFails(c) ==
  /\ Return(c, "check", "error")
  /\ Refused(c)
  /\ UNCHANGED <<now, used, rsvVars, lockVars, stopped, loopVars, ctxDone>>

(* The loop over the chain starts; a request that no definition matches is *)
(* denied without touching a counter.                                      *)
Check(c) ==
  /\ Goto(c, "check", IF ChainOf(c) = <<>> THEN "undo" ELSE "eval")
  /\ ~Refused(c)
  /\ accepted' = [accepted EXCEPT ![c] = 0]
  /\ undone' = [undone EXCEPT ![c] = 0]
  /\ UNCHANGED <<now, used, rsvVars, lockVars, stopped, item, granted, result, ctxDone>>

NextCounter(c) == ChainOf(c)[accepted[c] + 1]

(* One allowed evaluation. *)
Admit(c) ==
  /\ pc[c] = "eval"
  /\ accepted[c] < Len(ChainOf(c))
  /\ Fits(NextCounter(c), CostOf(c))
  /\ used' = IF Consume[c] THEN [used EXCEPT ![NextCounter(c)] = @ + CostOf(c)]
                           ELSE used
  /\ accepted' = [accepted EXCEPT ![c] = @ + 1]
  /\ UNCHANGED <<now, rsvVars, lockVars, stopped, pc, item, undone, granted, result, ctxDone>>

(* How much of the accepted prefix a denial need not release: in a dry run *)
(* none of it was charged.                                                 *)
UndoFromDry(c) == 0  \* mutant: a dry run releases too
UndoFrom(c) == IF Consume[c] THEN 0 ELSE accepted[c]

(* A denied evaluation: with consume, what the loop accepted is released. *)
Deny(c) ==
  /\ Goto(c, "eval", "undo")
  /\ accepted[c] < Len(ChainOf(c))
  /\ ~Fits(NextCounter(c), CostOf(c))
  /\ undone' = [undone EXCEPT ![c] = UndoFrom(c)]
  /\ UNCHANGED <<now, used, rsvVars, lockVars, stopped, item, accepted, granted, result, ctxDone>>

(* The current request is decided: on to the next one of the batch, or     *)
(* return.                                                                 *)
Decided(c, from) ==
  IF item[c] < Len(Items[c])
  THEN /\ Goto(c, from, "check")
       /\ item' = [item EXCEPT ![c] = @ + 1]
       /\ UNCHANGED result
  ELSE /\ Return(c, from, "ok")
       /\ UNCHANGED item

(* Every counter of the chain allowed the request of a Check. *)
Grant(c) ==
  /\ Kind[c] = "check"
  /\ Decided(c, "eval")
  /\ accepted[c] = Len(ChainOf(c))
  /\ granted' = [granted EXCEPT ![c] = @ \cup {item[c]}]
  /\ UNCHANGED <<now, used, rsvVars, lockVars, stopped, accepted, undone, ctxDone>>

(* The same for Reserve, which goes on. *)
GrantReserve(c) ==
  /\ Kind[c] = "reserve"
  /\ accepted[c] = Len(ChainOf(c))
  /\ Goto(c, "eval", "stamp")
  /\ UNCHANGED <<now, used, rsvVars, lockVars, stopped, loopVars, result, ctxDone>>

(* The undo loop has counters left. *)
MoreToUndoDenied(c) == undone[c] <= accepted[c]  \* mutant: one too many
MoreToUndo(c) == undone[c] < accepted[c]

(* Release of one accepted counter, by Check after a denial or by Reserve  *)
(* after a failed Create.                                                  *)
GiveBack(c) ==
  /\ pc[c] \in {"undo", "release"}
  /\ MoreToUndo(c)
  /\ used' = [used EXCEPT ![ChainOf(c)[undone[c] + 1]] = Less(@, CostOf(c))]
  /\ undone' = [undone EXCEPT ![c] = @ + 1]
  /\ UNCHANGED <<now, rsvVars, lockVars, stopped, pc, item, accepted, granted, result, ctxDone>>

(* The denial is the decision on this request. *)
Reject(c) ==
  /\ undone[c] = accepted[c]
  /\ Decided(c, "undo")
  /\ UNCHANGED <<now, used, rsvVars, lockVars, stopped, accepted, undone, granted, ctxDone>>

(***************************************************************************)
(* Reserve, after its Check allowed the request.                           *)
(***************************************************************************)

(* The item is built, with its expiry, before the service's lock. *)
Stamp(c) ==
  /\ Goto(c, "stamp", "create")
  /\ expiresAt' = [expiresAt EXCEPT ![c] = now + Lifetime(c)]
  /\ UNCHANGED <<now, used, status, lockVars, stopped, loopVars, result, ctxDone>>

CanCreate(c) == now < expiresAt[c] /\ c \notin ctxDone

Create(c) ==
  /\ resMu = None
  /\ CanCreate(c)
  /\ Return(c, "create", "ok")
  /\ status' = [status EXCEPT ![c] = "pending"]
  /\ UNCHANGED <<now, used, expiresAt, lockVars, stopped, loopVars, ctxDone>>

(* The expiry has passed or the context is cancelled: Reserve releases     *)
(* what Check charged and returns the error.                               *)
CreateFails(c) ==
  /\ resMu = None
  /\ ~CanCreate(c)
  /\ Goto(c, "create", "release")
  /\ UNCHANGED <<now, used, rsvVars, lockVars, stopped, loopVars, result, ctxDone>>

FailReserve(c) ==
  /\ undone[c] = accepted[c]
  /\ Return(c, "release", "error")
  /\ UNCHANGED <<now, used, rsvVars, lockVars, stopped, loopVars, ctxDone>>

(***************************************************************************)
(* Commit and Cancel.                                                      *)
(***************************************************************************)

CanCommitLate(r) == status[r] = "pending"  \* mutant: the expiry is not checked
CanCommit(r) == status[r] = "pending" /\ now < expiresAt[r]

Commit(c) ==
  /\ resMu = None
  /\ c \notin ctxDone
  /\ CanCommit(Target[c])
  /\ Return(c, "commit", "ok")
  /\ status' = [status EXCEPT ![Target[c]] = "committed"]
  /\ UNCHANGED <<now, used, expiresAt, lockVars, stopped, loopVars, ctxDone>>

(* Committed before: answered again.  Otherwise an error. *)
CommitNothing(c) ==
  /\ resMu = None
  /\ c \in ctxDone \/ ~CanCommit(Target[c])
  /\ Return(c, "commit",
            IF c \notin ctxDone /\ status[Target[c]] = "committed" THEN "ok" ELSE "error")
  /\ UNCHANGED <<now, used, rsvVars, lockVars, stopped, loopVars, ctxDone>>

(* A pending reservation is cancelled and its refund starts, under resMu. *)
Cancel(c) ==
  /\ resMu = None
  /\ c \notin ctxDone
  /\ status[Target[c]] = "pending"
  /\ Goto(c, "cancel", "refund")
  /\ status' = [status EXCEPT ![Target[c]] = "cancelled"]
  /\ resMu' = c
  /\ refunding' = Target[c]
  /\ refundPos' = 1
  /\ UNCHANGED <<now, used, expiresAt, reapAt, stopped, loopVars, result, ctxDone>>

CancelNothing(c) ==
  /\ resMu = None
  /\ c \in ctxDone \/ status[Target[c]] # "pending"
  /\ Return(c, "cancel",
            IF c \notin ctxDone /\ status[Target[c]] = "cancelled" THEN "ok" ELSE "error")
  /\ UNCHANGED <<now, used, rsvVars, lockVars, stopped, loopVars, ctxDone>>

(* The chain of the reservation being refunded has counters left. *)
MoreToRefundLocked ==  \* mutant: the callback needs the service's own lock
  refunding # None /\ refundPos <= Len(Chain(refunding, 1)) /\ resMu = None
MoreToRefundButLast ==  \* mutant: the loop ends one counter early
  refunding # None /\ refundPos < Len(Chain(refunding, 1))
MoreToRefund == refunding # None /\ refundPos <= Len(Chain(refunding, 1))

(* One counter of the chain that the holder of resMu refunds. *)
Refund ==
  /\ MoreToRefund
  /\ used' = [used EXCEPT ![Chain(refunding, 1)[refundPos]] = Less(@, Cost(refunding, 1))]
  /\ refundPos' = refundPos + 1
  /\ UNCHANGED <<now, rsvVars, resMu, refunding, reapAt, stopped, callVars, ctxDone>>

RefundDone ==
  /\ refunding # None
  /\ refundPos > Len(Chain(refunding, 1))
  /\ refunding' = None
  /\ refundPos' = 1

FinishCancel(c) ==
  /\ RefundDone
  /\ resMu' = None
  /\ Return(c, "refund", "ok")
  /\ UNCHANGED <<now, used, rsvVars, reapAt, stopped, loopVars, ctxDone>>

(***************************************************************************)
(* Reap, run by the reaper goroutine at every tick of its interval.        *)
(***************************************************************************)

DueStale(r) ==  \* mutant: the status is the one of an older listing
  status[r] \in {"pending", "cancelled"} /\ expiresAt[r] <= reapAt
DueEarly(r) ==  \* mutant: the comparison is the wrong way round
  status[r] = "pending" /\ expiresAt[r] > reapAt
Due(r) == status[r] = "pending" /\ expiresAt[r] <= reapAt

ReapStart ==
  /\ resMu = None
  /\ ~stopped
  /\ resMu' = Reaper
  /\ reapAt' = now
  /\ UNCHANGED <<now, used, rsvVars, refunding, refundPos, stopped, callVars, ctxDone>>

ReapItem(r) ==
  /\ resMu = Reaper
  /\ refunding = None
  /\ ~stopped
  /\ Due(r)
  /\ status' = [status EXCEPT ![r] = "expired"]
  /\ refunding' = r
  /\ UNCHANGED <<now, used, expiresAt, resMu, refundPos, reapAt, stopped, callVars, ctxDone>>

ReapNext ==
  /\ resMu = Reaper
  /\ RefundDone
  /\ UNCHANGED <<now, used, rsvVars, resMu, reapAt, stopped, callVars, ctxDone>>

(* The list is exhausted, or Update failed because the context is done. *)
ReapEnd ==
  /\ resMu = Reaper
  /\ refunding = None
  /\ stopped \/ \A r \in Calls : ~Due(r)
  /\ resMu' = None
  /\ reapAt' = 0
  /\ UNCHANGED <<now, used, rsvVars, refunding, refundPos, stopped, callVars, ctxDone>>

(***************************************************************************)
(* The environment.                                                        *)
(***************************************************************************)

Tick ==
  /\ now < MaxTime
  /\ now' = now + 1
  /\ UNCHANGED <<used, rsvVars, lockVars, stopped, callVars, ctxDone>>

(* The timeout middleware fires or the client goes away. *)
Timeout(c) ==
  /\ c \notin ctxDone
  /\ ctxDone' = ctxDone \cup {c}
  /\ UNCHANGED <<now, used, rsvVars, lockVars, stopped, callVars>>

(* The process is told to stop: the reaper's context is cancelled. *)
Stop ==
  /\ ~stopped
  /\ stopped' = TRUE
  /\ UNCHANGED <<now, used, rsvVars, lockVars, callVars, ctxDone>>

(***************************************************************************)
(* Specification.                                                          *)
(***************************************************************************)

CallStep(c) ==
  \/ Check(c) \/ CheckFails(c) \/ Admit(c) \/ Deny(c)
  \/ Grant(c) \/ GrantReserve(c) \/ GiveBack(c) \/ Reject(c)
  \/ Stamp(c) \/ Create(c) \/ CreateFails(c) \/ FailReserve(c)
  \/ Commit(c) \/ CommitNothing(c)
  \/ Cancel(c) \/ CancelNothing(c) \/ FinishCancel(c)

ReaperStep ==
  \/ ReapStart
  \/ \E r \in Calls : ReapItem(r)
  \/ ReapNext
  \/ ReapEnd

Next ==
  \/ \E c \in Calls : Begin(c) \/ CallStep(c) \/ Timeout(c)
  \/ Refund
  \/ ReaperStep
  \/ Tick
  \/ Stop

Spec == Init /\ [][Next]_vars

(***************************************************************************)
(* Properties.                                                             *)
(*                                                                         *)
(* A request <<c, j>> is the j-th request of call c; a position <<q, p>>   *)
(* is the p-th counter of the chain of request q.  Whether its cost is     *)
(* charged at the moment follows from where the call, its reservation and  *)
(* the refund in progress are.                                             *)
(***************************************************************************)

(* The requests that are to be charged. *)
Requests ==
  UNION {{<<c, j>> : j \in 1..Len(Items[c])} : c \in {d \in Calls : Consume[d]}}

Positions ==
  UNION {{<<q, p>> : p \in 1..Len(Chain(q[1], q[2]))} : q \in Requests}

CounterOf(x) == Chain(x[1][1], x[1][2])[x[2]]
CostAt(x)    == Cost(x[1][1], x[1][2])

(* Accepted by the loop that is still running, or not yet given back. *)
InLoop(c, j, p) ==
  /\ pc[c] \in {"eval", "undo", "stamp", "create", "release"}
  /\ item[c] = j
  /\ undone[c] < p
  /\ p <= accepted[c]

(* The reservation of c holds its chain until it is refunded. *)
InReservation(c, p) ==
  \/ status[c] \in {"pending", "committed"}
  \/ refunding = c /\ refundPos <= p

Charged(c, j, p) ==
  \/ InLoop(c, j, p)
  \/ j \in granted[c]
  \/ InReservation(c, p)

Held == {x \in Positions : Charged(x[1][1], x[1][2], x[2])}

(* The units charged on counter k: as many for a position as its cost. *)
UnitsOf(x)      == {<<x, n>> : n \in 1..CostAt(x)}
UnitsOver(H, k) == UNION {UnitsOf(x) : x \in {y \in H : CounterOf(y) = k}}
Units(k)        == UnitsOver(Held, k)

(* How far a request is, as the ledger that the engine implements sees it: *)
(* from its call until there is a reservation, then from that.             *)
Phase(label) ==
  CASE label \in {"idle", "check"}   -> "new"
    [] label = "eval"                -> "taking"
    [] label \in {"stamp", "create"} -> "granted"
    [] label \in {"undo", "release"} -> "returning"
    [] OTHER                         -> "gone"

CallPhase(c, j) ==
  CASE j \in granted[c]                    -> "kept"
    [] j \notin granted[c] /\ j < item[c]  -> "gone"
    [] j \notin granted[c] /\ j = item[c]  -> Phase(pc[c])
    [] j \notin granted[c] /\ j > item[c]  -> "new"

RequestState(q) ==
  LET c == q[1] IN
  CASE status[c] = "none"                   -> CallPhase(c, q[2])
    [] status[c] = "pending"                -> "granted"
    [] status[c] = "committed"              -> "kept"
    [] status[c] \in {"cancelled", "expired"} ->
         IF refunding = c THEN "returning" ELSE "gone"

Ledger == INSTANCE QuotaLedger WITH
  Path  <- [q \in Requests |-> Chain(q[1], q[2])],
  Price <- [q \in Requests |-> Cost(q[1], q[2])],
  state <- [q \in Requests |-> RequestState(q)],
  held  <- Held

(* Types, and the bound of the undo loop. *)
TypeOK ==
  /\ now \in 0..MaxTime
  /\ used \in [Counters -> Nat]
  /\ status \in [Calls -> Statuses]
  /\ expiresAt \in [Calls -> Nat]
  /\ resMu \in Calls \cup {Reaper, None}
  /\ refunding \in Calls \cup {None}
  /\ refundPos \in Nat \ {0}
  /\ reapAt \in 0..MaxTime
  /\ stopped \in BOOLEAN
  /\ pc \in [Calls -> Labels]
  /\ item \in [Calls -> Nat \ {0}]
  /\ accepted \in [Calls -> Nat]
  /\ undone \in [Calls -> Nat]
  /\ \A c \in Calls : undone[c] <= accepted[c]
  /\ granted \in [Calls -> SUBSET Nat]
  /\ result \in [Calls -> {None, "ok", "error"}]
  /\ ctxDone \subseteq Calls

(* What evaluator state holds for a counter is exactly the cost of what is *)
(* charged on it at that moment: no interleaving of decisions, rollbacks,  *)
(* failed reservations, commits, cancellations and expiries charges a      *)
(* request twice, refunds one twice or forgets to (README: a cancelled or  *)
(* expired reservation gives back the whole chain).                        *)
ExactCharge == \A k \in Counters : used[k] = Cardinality(Units(k))

(* The cost charged on a counter never exceeds its limit, also while       *)
(* requests are half-way down their chains and refunds half-way through.   *)
WithinLimit == \A k \in Counters : Cardinality(Units(k)) <= Limit[k]

(* A reservation leaves "none" once and "pending" once: committed,         *)
(* cancelled and expired are final, a commit happens before the expiry and *)
(* the reaper takes no reservation before it.                              *)
Lifecycle ==
  [][\A r \in Calls :
       LET old == status[r]
           new == status'[r]
       IN old # new =>
            \/ old = "none" /\ new = "pending" /\ now < expiresAt[r]
            \/ old = "pending" /\ new = "committed" /\ now < expiresAt[r]
            \/ old = "pending" /\ new = "cancelled"
            \/ old = "pending" /\ new = "expired" /\ now >= expiresAt[r]]_vars

(* The engine implements the ledger: however calls, refunds and expiries   *)
(* interleave, a request holds its whole chain or gives all of it back, a  *)
(* kept request is never refunded and a refunded one never comes back.     *)
ImplementsLedger == Ledger!LSpec

(* While the process runs, a reservation that reaches its expiry is        *)
(* settled: nothing stays pending, and its quota held, for ever.           *)
PendingSettles ==
  \A r \in Calls :
    status[r] = "pending" /\ expiresAt[r] <= MaxTime
      ~> status[r] # "pending" \/ stopped

(* Once a reservation is cancelled or expired its whole chain is refunded. *)
RefundCompletes ==
  \A r \in Calls :
    status[r] \in {"cancelled", "expired"} ~> \A x \in Held : x[1][1] # r
=============================================================================
