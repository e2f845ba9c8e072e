--------------------------- MODULE AuditBusProofs ---------------------------
(***************************************************************************)
(* Proofs about module AuditBus, for any handlers and any capacities.      *)
(*                                                                         *)
(* The inductive invariant has three parts: TypeOK with the types of the   *)
(* histories; Books, which says that the places an event can be in are     *)
(* disjoint and hold just the events of the handlers that are done; and    *)
(* Closing, which follows Close through main, the flag, the stop channel   *)
(* and Run.                                                                *)
(***************************************************************************)
EXTENDS AuditBus, SequenceTheorems, FiniteSetTheorems, TLAPS

Types ==
  /\ TypeOK
  /\ queue \in Seq(Handlers)
  /\ appended \in Seq(Handlers)
  /\ lost \subseteq Handlers
  /\ dropped \subseteq Handlers

Queued == ToSet(queue)
Taken  == ToSet(appended)
Done   == {h \in Handlers : handler[h] = "done"}

Books ==
  /\ IsInjective(queue)
  /\ IsInjective(appended)
  /\ Queued \cup Taken \cup lost \cup dropped \cup ({inHand} \ {None}) = Done
  /\ inHand \notin Queued \cup Taken \cup lost \cup dropped
  /\ Queued \cap (Taken \cup lost \cup dropped) = {}
  /\ Taken \cap (lost \cup dropped) = {}
  /\ lost \cap dropped = {}

(* Once the flag is set, only detached handlers are still about to         *)
(* publish; once Run has ended, only theirs are in the queue.              *)
Closing ==
  /\ closing => main # "serving" /\ Watched = {}
  /\ stop => closing
  /\ main \in {"closing", "stopped"} => stop
  /\ run \in {"drain", "flush", "done"} => stop
  /\ run = "done" => Queued \subseteq detached
  /\ main = "stopped" => run = "done"

AInv == Types /\ Books /\ Closing

(***************************************************************************)
(* Queues as sets.                                                         *)
(***************************************************************************)

(* A new element of a sequence joins its set and is not there twice.       *)
LEMMA AppendedSet ==
  ASSUME NEW S, NEW q \in Seq(S), NEW x \in S
  PROVE  /\ Append(q, x) \in Seq(S)
         /\ Len(Append(q, x)) = Len(q) + 1
         /\ ToSet(Append(q, x)) = ToSet(q) \cup {x}
         /\ IsInjective(q) /\ x \notin ToSet(q) => IsInjective(Append(q, x))
<1> DEFINE r == Append(q, x)
<1>1. /\ Len(q) \in Nat
      /\ DOMAIN q = 1..Len(q)
      /\ r \in Seq(S)
      /\ Len(r) = Len(q) + 1
      /\ DOMAIN r = 1..(Len(q) + 1)
      /\ \A i \in 1..Len(q) : r[i] = q[i]
      /\ r[Len(q) + 1] = x
  BY AppendProperties, LenProperties
<1> HIDE DEF r
<1>2. \A i \in DOMAIN r : i \in DOMAIN q \/ i = Len(q) + 1
  BY <1>1
<1>3. \A i \in DOMAIN q : i \in DOMAIN r /\ r[i] = q[i]
  BY <1>1
<1>4. Len(q) + 1 \in DOMAIN r
  BY <1>1
<1>5. ToSet(r) = ToSet(q) \cup {x}
  BY <1>1, <1>2, <1>3, <1>4, Zenon DEF ToSet
<1>6. ASSUME IsInjective(q), x \notin ToSet(q)
      PROVE  IsInjective(r)
  BY <1>1, <1>2, <1>3, <1>6, Zenon DEF ToSet, IsInjective
<1> QED
  BY <1>1, <1>5, <1>6 DEF r

(* The head of a sequence without repetitions leaves its set.              *)
LEMMA TailSet ==
  ASSUME NEW S, NEW q \in Seq(S), q # <<>>, IsInjective(q)
  PROVE  /\ Head(q) \in ToSet(q)
         /\ Head(q) \in S
         /\ Tail(q) \in Seq(S)
         /\ Len(Tail(q)) = Len(q) - 1
         /\ ToSet(Tail(q)) = ToSet(q) \ {Head(q)}
         /\ IsInjective(Tail(q))
<1> DEFINE t == Tail(q)
<1>1. /\ Len(q) \in Nat \ {0}
      /\ DOMAIN q = 1..Len(q)
      /\ Head(q) = q[1]
      /\ Head(q) \in S
      /\ t \in Seq(S)
      /\ Len(t) = Len(q) - 1
      /\ DOMAIN t = 1..(Len(q) - 1)
      /\ \A i \in 1..(Len(q) - 1) : t[i] = q[i + 1]
  BY EmptySeq, HeadTailProperties, LenProperties
<1> HIDE DEF t
<1>2. \A i, j \in DOMAIN q : q[i] = q[j] => i = j
  BY DEF IsInjective
<1>3. IsInjective(t)
  <2> SUFFICES ASSUME NEW i \in DOMAIN t, NEW j \in DOMAIN t, t[i] = t[j]
               PROVE  i = j
    BY DEF IsInjective
  <2>1. i + 1 \in DOMAIN q /\ j + 1 \in DOMAIN q /\ q[i + 1] = q[j + 1]
    BY <1>1
  <2>2. i + 1 = j + 1
    BY <2>1, <1>2
  <2> QED
    BY <2>2, <1>1
<1>4. \A i \in DOMAIN t : t[i] \in ToSet(q) /\ t[i] # q[1]
  <2> SUFFICES ASSUME NEW i \in DOMAIN t
               PROVE  t[i] \in ToSet(q) /\ t[i] # q[1]
    OBVIOUS
  <2>1. i + 1 \in DOMAIN q /\ t[i] = q[i + 1] /\ 1 \in DOMAIN q /\ i + 1 # 1
    BY <1>1
  <2> QED
    BY <2>1, <1>2 DEF ToSet
<1>5. \A i \in DOMAIN q : q[i] # q[1] => \E j \in DOMAIN t : t[j] = q[i]
  <2> SUFFICES ASSUME NEW i \in DOMAIN q, q[i] # q[1]
               PROVE  \E j \in DOMAIN t : t[j] = q[i]
    OBVIOUS
  <2>1. i # 1
    OBVIOUS
  <2>2. i - 1 \in DOMAIN t /\ t[i - 1] = q[i]
    BY <2>1, <1>1
  <2> QED
    BY <2>2
<1>6. ToSet(t) = ToSet(q) \ {Head(q)}
  <2>1. ToSet(t) \subseteq ToSet(q) \ {Head(q)}
    BY <1>1, <1>4, Zenon DEF ToSet
  <2>2. ToSet(q) \ {Head(q)} \subseteq ToSet(t)
    <3> SUFFICES ASSUME NEW x \in ToSet(q), x # q[1]
                 PROVE  x \in ToSet(t)
      BY <1>1
    <3>1. PICK i \in DOMAIN q : x = q[i]
      BY DEF ToSet
    <3> QED
      BY <3>1, <1>5 DEF ToSet
  <2> QED
    BY <2>1, <2>2
<1>7. 1 \in DOMAIN q
  BY <1>1
<1> QED
  BY <1>1, <1>3, <1>6, <1>7 DEF ToSet, t

LEMMA EmptyQueue == <<>> \in Seq(Handlers) /\ ToSet(<<>>) = {} /\ IsInjective(<<>>) /\ Len(<<>>) = 0
<1>1. <<>> \in Seq(Handlers) /\ Len(<<>>) = 0 /\ \A i \in DOMAIN <<>> : FALSE
  OBVIOUS
<1> QED
  BY <1>1, Zenon DEF ToSet, IsInjective

(***************************************************************************)
(* The inductive invariant.                                                *)
(***************************************************************************)

LEMMA InitAInv == Init => AInv
<1> SUFFICES ASSUME Init
             PROVE  AInv
  OBVIOUS
<1> USE EmptyQueue, AuditAssumption
<1>1. Types
  <2>1. Len(queue) <= QueueSize /\ ToSet(queue) \subseteq Handlers
    BY DEF Init
  <2>2. handler \in [Handlers -> {"idle", "publishing", "sending", "done"}]
    BY DEF Init
  <2> QED
    BY <2>1, <2>2 DEF Init, Types, TypeOK
<1>2. Books
  BY DEF Init, Books, Queued, Taken, Done
<1>3. Closing
  BY DEF Init, Closing, Watched
<1> QED
  BY <1>1, <1>2, <1>3 DEF AInv

LEMMA PublishKeeps ==
  ASSUME AInv, NEW h \in Handlers,
         Request(h) \/ CheckClosing(h) \/ SendOrDrop(h) \/ Detach(h)
  PROVE  AInv'
<1> USE AuditAssumption DEF AInv
<1>1. CASE Request(h)
  <2>1. Types'
    BY <1>1 DEF Types, TypeOK, Request, busVars, sinkVars
  <2>2. Done' = Done
    BY <1>1 DEF Done, Request, Types, TypeOK
  <2>3. Books'
    BY <1>1, <2>2 DEF Books, Queued, Taken, Request, busVars, sinkVars
  <2>4. Closing'
    BY <1>1 DEF Closing, Queued, Watched, Request, busVars, sinkVars
  <2> QED
    BY <2>1, <2>3, <2>4
<1>2. CASE CheckClosing(h)
  <2>1. Types'
    BY <1>2 DEF Types, TypeOK, CheckClosing, sinkVars
  <2>2. /\ Done' = IF closing THEN Done \cup {h} ELSE Done
        /\ h \notin Done
    BY <1>2 DEF Done, CheckClosing, Types, TypeOK
  <2>3. Books'
    BY <1>2, <2>2 DEF Books, Queued, Taken, CheckClosing, sinkVars
  <2>4. Watched' \subseteq Watched
    BY <1>2 DEF Watched, CheckClosing, Types, TypeOK
  <2>5. Closing'
    BY <1>2, <2>4 DEF Closing, Queued, CheckClosing, sinkVars
  <2> QED
    BY <2>1, <2>3, <2>5
<1>3. CASE SendOrDrop(h)
  <2>1. /\ Done' = Done \cup {h}
        /\ h \notin Done
        /\ Watched' \subseteq Watched
        /\ h \notin Watched => h \in detached
    BY <1>3 DEF Done, SendOrDrop, Types, TypeOK, Watched
  <2>2. h \notin Queued \cup Taken \cup lost \cup dropped \cup {inHand}
    BY <2>1 DEF Books, Types, TypeOK
  <2>3. CASE Room
    <3>1. queue' = Append(queue, h) /\ UNCHANGED <<closing, stop, run, inHand, dropped, sinkVars, ctxDone, main, detached>>
      BY <1>3, <2>3 DEF SendOrDrop
    <3>2. /\ queue' \in Seq(Handlers)
          /\ Len(queue') = Len(queue) + 1
          /\ Queued' = Queued \cup {h}
          /\ IsInjective(queue')
      BY <3>1, <2>2, AppendedSet DEF Types, Books, Queued
    <3>3. Len(queue') <= QueueSize
      BY <3>2, <2>3, LenProperties DEF Room, Types
    <3>4. Types'
      BY <1>3, <3>1, <3>2, <3>3 DEF SendOrDrop, Types, TypeOK, sinkVars, Queued
    <3>5. Books'
      BY <2>1, <2>2, <3>1, <3>2 DEF Books, Taken, sinkVars
    <3>6. Closing'
      BY <2>1, <3>1, <3>2 DEF Closing, sinkVars
    <3> QED
      BY <3>4, <3>5, <3>6
  <2>4. CASE ~Room
    <3>1. dropped' = dropped \cup {h} /\ UNCHANGED <<queue, closing, stop, run, inHand, sinkVars, ctxDone, main, detached>>
      BY <1>3, <2>4 DEF SendOrDrop, CountedDrop
    <3>2. Types'
      BY <1>3, <3>1 DEF SendOrDrop, Types, TypeOK, sinkVars
    <3>3. Books'
      BY <2>1, <2>2, <3>1 DEF Books, Queued, Taken, sinkVars
    <3>4. Closing'
      BY <2>1, <3>1 DEF Closing, Queued, sinkVars
    <3> QED
      BY <3>2, <3>3, <3>4
  <2> QED
    BY <2>3, <2>4
<1>4. CASE Detach(h)
  <2>1. Types'
    BY <1>4 DEF Types, TypeOK, Detach, busVars, sinkVars
  <2>2. Books'
    BY <1>4 DEF Books, Queued, Taken, Done, Detach, busVars, sinkVars
  <2>3. Closing'
    BY <1>4 DEF Closing, Queued, Watched, Detach, busVars, sinkVars
  <2> QED
    BY <2>1, <2>2, <2>3
<1> QED
  BY <1>1, <1>2, <1>3, <1>4

(* Run receives an event.                                                  *)
LEMMA ReceiveKeeps ==
  ASSUME AInv, TakeEvent \/ DrainEvent
  PROVE  AInv'
<1> USE AuditAssumption DEF AInv
<1>1. /\ ~Exited
      /\ queue # <<>>
      /\ inHand' = Head(queue)
      /\ queue' = Tail(queue)
      /\ \/ run = "select" /\ run' = "append"
         \/ run = "drain" /\ run' = "flush"
      /\ UNCHANGED <<handler, detached, closing, stop, sinkVars, ctxDone, main, dropped>>
  BY DEF TakeEvent, DrainEvent, Receive
<1>2. /\ Head(queue) \in Queued
      /\ Head(queue) \in Handlers
      /\ queue' \in Seq(Handlers)
      /\ Len(queue') = Len(queue) - 1
      /\ Queued' = Queued \ {Head(queue)}
      /\ IsInjective(queue')
  BY <1>1, TailSet DEF Types, Books, Queued
<1>3. Len(queue') <= QueueSize
  BY <1>2, LenProperties DEF Types, TypeOK
<1>4. Types'
  BY <1>1, <1>2, <1>3 DEF Types, TypeOK, sinkVars, Queued
<1>5. inHand = None
  BY <1>1 DEF Types, TypeOK
<1>6. Books'
  BY <1>1, <1>2, <1>5 DEF Books, Taken, Done, sinkVars
<1>7. Closing'
  BY <1>1, <1>2 DEF Closing, Watched, Exited, sinkVars
<1> QED
  BY <1>4, <1>6, <1>7

(* Run ends with an event: the sink takes it or refuses it.                *)
LEMMA FinishKeeps ==
  ASSUME AInv, AppendEvent \/ FlushEvent
  PROVE  AInv'
<1> USE AuditAssumption DEF AInv
<1>1. /\ ~Exited
      /\ inHand' = None
      /\ \/ run = "append" /\ run' = "select"
         \/ run = "flush" /\ run' = "drain"
      /\ UNCHANGED <<handler, detached, queue, closing, stop, ctxDone, main, dropped>>
      /\ AppendToSink(TRUE) \/ AppendToSink(FALSE)
  BY DEF AppendEvent, FlushEvent, Finish, Types, TypeOK
<1>2. inHand \in Handlers /\ inHand # None
  BY <1>1 DEF Types, TypeOK
<1>3. Closing'
  BY <1>1 DEF Closing, Queued, Watched, Exited
<1>4. CASE AppendToSink(TRUE)
  <2>1. lost' = lost \cup {inHand} /\ appended' = appended
    BY <1>4 DEF AppendToSink
  <2>2. Types'
    BY <1>1, <1>2, <2>1 DEF Types, TypeOK
  <2>3. Books'
    BY <1>1, <1>2, <2>1 DEF Books, Queued, Taken, Done
  <2> QED
    BY <1>3, <2>2, <2>3
<1>5. CASE AppendToSink(FALSE)
  <2>1. lost' = lost /\ appended' = Append(appended, inHand)
    BY <1>5 DEF AppendToSink
  <2>2. /\ appended' \in Seq(Handlers)
        /\ Taken' = Taken \cup {inHand}
        /\ IsInjective(appended')
    BY <1>2, <2>1, AppendedSet DEF Types, Books, Taken
  <2>3. Types'
    BY <1>1, <1>2, <2>1, <2>2 DEF Types, TypeOK
  <2>4. Books'
    BY <1>1, <1>2, <2>1, <2>2 DEF Books, Queued, Done
  <2> QED
    BY <1>3, <2>3, <2>4
<1> QED
  BY <1>1, <1>4, <1>5

(* Run sees that the bus is stopped, or the drain ends.                    *)
LEMMA StopKeeps ==
  ASSUME AInv, SeeStop \/ DrainEnds
  PROVE  AInv'
<1> USE AuditAssumption, EmptyQueue DEF AInv
<1>1. /\ inHand' = None
      /\ \/ stop /\ run = "select" /\ run' = "drain"
         \/ queue = <<>> /\ run = "drain" /\ run' = "done"
      /\ UNCHANGED <<handler, detached, queue, closing, stop, ctxDone, main, dropped, sinkVars>>
  BY DEF SeeStop, DrainEnds, Finish, StopTarget
<1>2. inHand = None
  BY <1>1 DEF Types, TypeOK
<1>3. Types'
  BY <1>1 DEF Types, TypeOK, sinkVars
<1>4. Books'
  BY <1>1, <1>2 DEF Books, Queued, Taken, Done, sinkVars
<1>5. Closing'
  BY <1>1 DEF Closing, Queued, Watched
<1> QED
  BY <1>3, <1>4, <1>5

LEMMA MainKeeps ==
  ASSUME AInv, Signal \/ BeginClose \/ CloseStop \/ Stopped \/ Deadline
  PROVE  AInv'
<1> USE AuditAssumption DEF AInv
<1>1. UNCHANGED <<handler, detached, queue, run, inHand, dropped, sinkVars>>
  BY DEF Signal, BeginClose, CloseStop, Stopped, Deadline, busVars
<1>2. /\ closing' \in BOOLEAN /\ stop' \in BOOLEAN /\ ctxDone' \in BOOLEAN
      /\ main' \in {"serving", "stopping", "closing", "stopped", "failed"}
  BY DEF Signal, BeginClose, CloseStop, Stopped, Deadline, busVars, Stops, Types, TypeOK
<1>3. Types'
  BY <1>1, <1>2 DEF Types, TypeOK, sinkVars
<1>4. Books'
  BY <1>1 DEF Books, Queued, Taken, Done, sinkVars
<1>5. Watched' = Watched /\ Queued' = Queued
  BY <1>1 DEF Watched, Queued
<1>6. Closing'
  <2>1. CASE Signal
    BY <1>5, <2>1 DEF Closing, Signal, busVars
  <2>2. CASE BeginClose
    BY <1>5, <2>2 DEF Closing, BeginClose
  <2>3. CASE CloseStop
    BY <1>5, <2>3 DEF Closing, CloseStop, Stops
  <2>4. CASE Stopped
    BY <1>5, <2>4 DEF Closing, Stopped, CanStop, busVars
  <2>5. CASE Deadline
    BY <1>5, <2>5 DEF Closing, Deadline, busVars
  <2> QED
    BY <2>1, <2>2, <2>3, <2>4, <2>5
<1> QED
  BY <1>3, <1>4, <1>6

LEMMA StepAInv == AInv /\ [Next]_vars => AInv'
<1> SUFFICES ASSUME AInv, [Next]_vars
             PROVE  AInv'
  OBVIOUS
<1>1. CASE \E h \in Handlers : Request(h) \/ CheckClosing(h) \/ SendOrDrop(h) \/ Detach(h)
  BY <1>1, PublishKeeps
<1>2. CASE RunStep
  BY <1>2, ReceiveKeeps, FinishKeeps, StopKeeps DEF RunStep
<1>3. CASE Signal \/ BeginClose \/ CloseStop \/ Stopped \/ Deadline
  BY <1>3, MainKeeps
<1>4. CASE UNCHANGED vars
  <2>1. UNCHANGED <<handler, detached, queue, closing, stop, run, inHand, appended, lost, dropped, ctxDone, main>>
    BY <1>4 DEF vars, busVars, sinkVars
  <2>2. Types' /\ Books'
    BY <2>1 DEF AInv, Types, TypeOK, Books, Queued, Taken, Done
  <2>3. Closing'
    BY <2>1 DEF AInv, Closing, Queued, Watched
  <2> QED
    BY <2>2, <2>3 DEF AInv
<1> QED
  BY <1>1, <1>2, <1>3, <1>4 DEF Next

LEMMA AlwaysAInv == Spec => []AInv
  BY InitAInv, StepAInv, PTL DEF Spec

(***************************************************************************)
(* The theorems.                                                           *)
(***************************************************************************)

(* Types of the bus, the sink and the shutdown: the queue stays within its *)
(* capacity and Run holds an event exactly while it appends.               *)
THEOREM BusTypeCorrect == Spec => []TypeOK
<1>1. AInv => TypeOK
  BY DEF AInv, Types
<1> QED
  BY <1>1, AlwaysAInv, PTL

(* Each event published is in one place and in no two: queued, with Run,   *)
(* in the sink, refused by it or counted as dropped.                       *)
THEOREM BusAccounts == Spec => []Accounted
<1>1. ASSUME AInv
      PROVE  Accounted
  <2>1. /\ IsInjective(queue)
        /\ IsInjective(appended)
    BY <1>1 DEF AInv, Books
  <2>2. ASSUME NEW h \in Handlers
        PROVE  Cardinality({p \in DOMAIN Places(h) : Places(h)[p]})
                 = IF handler[h] = "done" THEN 1 ELSE 0
    <3> DEFINE P == {p \in DOMAIN Places(h) : Places(h)[p]}
    <3>1. P = (IF h \in Queued THEN {"queue"} ELSE {})
              \cup (IF inHand = h THEN {"hand"} ELSE {})
              \cup (IF h \in Taken THEN {"sink"} ELSE {})
              \cup (IF h \in lost THEN {"lost"} ELSE {})
              \cup (IF h \in dropped THEN {"dropped"} ELSE {})
      <4>1. DOMAIN Places(h) = {"queue", "hand", "sink", "lost", "dropped"}
        BY DEF Places
      <4>2. /\ Places(h)["queue"] <=> h \in Queued
            /\ Places(h)["hand"] <=> inHand = h
            /\ Places(h)["sink"] <=> h \in Taken
            /\ Places(h)["lost"] <=> h \in lost
            /\ Places(h)["dropped"] <=> h \in dropped
        BY DEF Places, Queued, Taken
      <4> QED
        BY <4>1, <4>2
    <3>2. handler[h] = "done" <=> h \in Done
      BY DEF Done
    <3>3. h # None
      BY AuditAssumption
    <3> HIDE DEF P
    <3>4. CASE handler[h] = "done"
      <4>1. \E x \in {"queue", "hand", "sink", "lost", "dropped"} : P = {x}
        BY <1>1, <3>1, <3>2, <3>3, <3>4 DEF AInv, Books
      <4>2. Cardinality(P) = 1
        BY <4>1, FS_Singleton
      <4> QED
        BY <3>4, <4>2 DEF P
    <3>5. CASE handler[h] # "done"
      <4>1. P = {}
        BY <1>1, <3>1, <3>2, <3>3, <3>5 DEF AInv, Books
      <4>2. Cardinality(P) = 0
        BY <4>1, FS_EmptySet
      <4> QED
        BY <3>5, <4>2 DEF P
    <3> QED
      BY <3>4, <3>5
  <2> QED
    BY <2>1, <2>2 DEF Accounted
<1> QED
  BY <1>1, AlwaysAInv, PTL

(* When the shutdown ends without an error, the drain has missed no event  *)
(* of a handler that the server waited for.                                *)
THEOREM BusDrains == Spec => []CloseDrains
<1>1. AInv => CloseDrains
  BY DEF AInv, Types, TypeOK, Closing, CloseDrains, InFlight, Queued
<1> QED
  BY <1>1, AlwaysAInv, PTL
=============================================================================
