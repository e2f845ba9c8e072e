------------------------------ MODULE AuditBus ------------------------------
(***************************************************************************)
(* The audit bus (audit/application/bus.go), its memory sink               *)
(* (audit/infrastructure/memory.go) and the shutdown that closes it        *)
(* (Runtime.Shutdown, main).                                               *)
(*                                                                         *)
(* A handler publishes one event.  The timeout middleware answers for a    *)
(* handler that takes too long and leaves its goroutine running, so the    *)
(* HTTP server, which waits for its connections when it shuts down, does   *)
(* not wait for that one.  The bus is closed by one caller, main.          *)
(***************************************************************************)
EXTENDS Integers, Sequences, FiniteSets, SequencesExt

CONSTANTS
  Handlers,   \* request handlers; the event of a handler is named for it
  QueueSize,  \* capacity of the queue channel
  SinkMax,    \* how many events the sink keeps
  None

ASSUME AuditAssumption ==
  /\ QueueSize \in Nat \ {0}
  /\ SinkMax \in Nat \ {0}
  /\ None \notin Handlers

VARIABLES
  handler,   \* handler[h]: "idle", "publishing", "sending" or "done"
  detached,  \* handlers that the timeout middleware has answered for
  queue,     \* the queue channel
  closing,   \* the flag that gates Publish
  stop,      \* the stop channel is closed
  run,       \* Run: "select", "append", "drain", "flush" or "done"
  inHand,    \* the event that Run appends, or None
  sink,      \* the events the sink keeps
  ctxDone,   \* the signal context is cancelled
  main,      \* "serving", "stopping", "closing", "stopped" or "failed"
  dropped,   \* history: the events counted as dropped
  appended,  \* history: the events the sink has taken, in order
  lost       \* history: the events whose Append failed

sinkVars == <<sink, appended, lost>>
busVars  == <<queue, closing, stop, run, inHand, dropped>>
vars     == <<handler, detached, busVars, sinkVars, ctxDone, main>>

Exited == main \in {"stopped", "failed"}

Init ==
  /\ handler = [h \in Handlers |-> "idle"]
  /\ detached = {}
  /\ queue = <<>>
  /\ closing = FALSE
  /\ stop = FALSE
  /\ run = "select"
  /\ inHand = None
  /\ sink = <<>>
  /\ ctxDone = FALSE
  /\ main = "serving"
  /\ dropped = {}
  /\ appended = <<>>
  /\ lost = {}

(***************************************************************************)
(* Publish.                                                                *)
(***************************************************************************)

(* Server.Shutdown closes the listeners: no request begins after it. *)
Request(h) ==
  /\ main = "serving"
  /\ handler[h] = "idle"
  /\ handler' = [handler EXCEPT ![h] = "publishing"]
  /\ UNCHANGED <<detached, busVars, sinkVars, ctxDone, main>>

(* The test of the closing flag; the send is a later step. *)
CheckClosing(h) ==
  /\ ~Exited
  /\ handler[h] = "publishing"
  /\ handler' = [handler EXCEPT ![h] = IF closing THEN "done" ELSE "sending"]
  /\ dropped' = IF closing THEN dropped \cup {h} ELSE dropped
  /\ UNCHANGED <<detached, queue, closing, stop, run, inHand, sinkVars, ctxDone, main>>

RoomOneOver == Len(queue) <= QueueSize  \* mutant: off by one
Room == Len(queue) < QueueSize

UncountedDrop(h) == dropped  \* mutant: a full queue is not counted
CountedDrop(h) == dropped \cup {h}

(* select with a default: a full queue drops the event at once. *)
SendOrDrop(h) ==
  /\ ~Exited
  /\ handler[h] = "sending"
  /\ handler' = [handler EXCEPT ![h] = "done"]
  /\ IF Room
     THEN queue' = Append(queue, h) /\ UNCHANGED dropped
     ELSE dropped' = CountedDrop(h) /\ UNCHANGED queue
  /\ UNCHANGED <<detached, closing, stop, run, inHand, sinkVars, ctxDone, main>>

(* http.TimeoutHandler answers 503; the handler goes on unwatched. *)
Detach(h) ==
  /\ ~Exited
  /\ handler[h] \in {"publishing", "sending"}
  /\ detached' = detached \cup {h}
  /\ UNCHANGED <<handler, busVars, sinkVars, ctxDone, main>>

(***************************************************************************)
(* Run.                                                                    *)
(***************************************************************************)

Receive(from, to) ==
  /\ ~Exited
  /\ run = from
  /\ queue # <<>>
  /\ inHand' = Head(queue)
  /\ queue' = Tail(queue)
  /\ run' = to
  /\ UNCHANGED <<handler, detached, closing, stop, sinkVars, ctxDone, main, dropped>>

(* MemorySink.Append refuses a cancelled context, and Run ignores the      *)
(* error; otherwise the oldest events make room.                           *)
AppendToSink(cancelled) ==
  IF cancelled
  THEN lost' = lost \cup {inHand} /\ UNCHANGED <<sink, appended>>
  ELSE /\ appended' = Append(appended, inHand)
       /\ sink' = LET s == Append(sink, inHand) IN
                  SubSeq(s, (IF Len(s) > SinkMax THEN Len(s) - SinkMax ELSE 0) + 1, Len(s))
       /\ UNCHANGED lost

Finish(from, to) ==
  /\ ~Exited
  /\ run = from
  /\ run' = to
  /\ inHand' = None
  /\ UNCHANGED <<handler, detached, queue, closing, stop, ctxDone, main, dropped>>

(* The two cases of the select: either may be taken when both are ready. *)
TakeEvent == Receive("select", "append")
AppendEvent == Finish("append", "select") /\ AppendToSink(ctxDone)

StopTargetDone == "done"  \* mutant: Run returns without draining
StopTarget == "drain"

SeeStop == stop /\ Finish("select", StopTarget) /\ UNCHANGED sinkVars

(* drain, which appends with a context of its own. *)
DrainEvent == Receive("drain", "flush")
FlushEvent == Finish("flush", "drain") /\ AppendToSink(FALSE)
DrainEnds == queue = <<>> /\ Finish("drain", "done") /\ UNCHANGED sinkVars

RunStep ==
  TakeEvent \/ AppendEvent \/ SeeStop \/ DrainEvent \/ FlushEvent \/ DrainEnds

(***************************************************************************)
(* main and Runtime.Shutdown.                                              *)
(***************************************************************************)

Signal ==
  /\ main = "serving"
  /\ main' = "stopping"
  /\ ctxDone' = TRUE
  /\ UNCHANGED <<handler, detached, busVars, sinkVars>>

(* The handlers that Server.Shutdown still waits for. *)
Watched == {h \in Handlers : handler[h] \in {"publishing", "sending"}} \ detached

StopsQuietly == stop  \* mutant: Close sets the flag only
Stops == TRUE

(* Server.Shutdown has returned: Close sets the flag, then closes stop. *)
BeginClose ==
  /\ main = "stopping"
  /\ Watched = {}
  /\ ~closing
  /\ closing' = TRUE
  /\ UNCHANGED <<handler, detached, queue, stop, run, inHand, dropped, sinkVars, ctxDone, main>>

CloseStop ==
  /\ main = "stopping"
  /\ closing
  /\ stop' = Stops
  /\ main' = "closing"
  /\ UNCHANGED <<handler, detached, queue, closing, run, inHand, dropped, sinkVars, ctxDone>>

(* Close waits for done. *)
CanStop == run = "done"

Stopped ==
  /\ main = "closing"
  /\ CanStop
  /\ main' = "stopped"
  /\ UNCHANGED <<handler, detached, busVars, sinkVars, ctxDone>>

(* The deadline of the shutdown expires in Server.Shutdown or in Close. *)
Deadline ==
  /\ (main = "stopping" /\ ~closing) \/ main = "closing"
  /\ main' = "failed"
  /\ UNCHANGED <<handler, detached, busVars, sinkVars, ctxDone>>

Next ==
  \/ \E h \in Handlers : Request(h) \/ CheckClosing(h) \/ SendOrDrop(h) \/ Detach(h)
  \/ RunStep
  \/ Signal \/ BeginClose \/ CloseStop \/ Stopped \/ Deadline

Spec == Init /\ [][Next]_vars

(* Publish never blocks; Run and main are goroutines that go on when they  *)
(* can.  Nothing makes a request, a signal or the deadline come.           *)
Fairness ==
  /\ \A h \in Handlers : WF_vars(CheckClosing(h) \/ SendOrDrop(h))
  /\ WF_vars(RunStep)
  /\ WF_vars(BeginClose \/ CloseStop \/ Stopped)

FairSpec == Spec /\ Fairness

(***************************************************************************)
(* Properties.                                                             *)
(***************************************************************************)

InFlight == ToSet(queue) \cup ({inHand} \ {None})

(* The queue stays within its capacity, and Run holds an event exactly     *)
(* while it appends.                                                       *)
TypeOK ==
  /\ handler \in [Handlers -> {"idle", "publishing", "sending", "done"}]
  /\ detached \subseteq Handlers
  /\ Len(queue) <= QueueSize /\ ToSet(queue) \subseteq Handlers
  /\ closing \in BOOLEAN /\ stop \in BOOLEAN /\ ctxDone \in BOOLEAN
  /\ run \in {"select", "append", "drain", "flush", "done"}
  /\ inHand \in Handlers \cup {None}
  /\ inHand # None <=> run \in {"append", "flush"}
  /\ main \in {"serving", "stopping", "closing", "stopped", "failed"}

(* A handler's event is never in two places, and once it is published it   *)
(* is in one: queued, being appended, appended, refused by the sink or     *)
(* counted as dropped (README: the drops are exposed as a metric).         *)
Places(h) ==
  [queue |-> h \in ToSet(queue), hand |-> inHand = h, sink |-> h \in ToSet(appended),
   lost |-> h \in lost, dropped |-> h \in dropped]

Accounted ==
  /\ IsInjective(queue) /\ IsInjective(appended)
  /\ \A h \in Handlers :
       Cardinality({p \in DOMAIN Places(h) : Places(h)[p]})
         = IF handler[h] = "done" THEN 1 ELSE 0

(* When Close has returned without an error, every event published by a    *)
(* handler that the server waited for has been offered to the sink or      *)
(* counted as dropped: the drain misses none.                              *)
CloseDrains ==
  main = "stopped" => InFlight \subseteq detached

(* Once a signal has come the process ends without the help of the         *)
(* deadline, whatever the handlers still publish.                          *)
ShutdownEnds == main = "stopping" ~> Exited

(* bus.go: the audit drain must run to completion during shutdown.  An     *)
(* event that was queued is appended, also while the process shuts down.   *)
NothingLost == lost = {}
=============================================================================
