------------------------------ MODULE Metering ------------------------------
(***************************************************************************)
(* The callers of one counter of a rate algorithm: the engine evaluates a  *)
(* request for it (engine.go, evaluate) and may release the cost again,    *)
(* because the decision is rolled back or the reservation is cancelled or  *)
(* expires.  The clock is read when the input is built, before the         *)
(* evaluator's mutex is taken, so two calls can be evaluated in another    *)
(* order than they read the clock; without Overlap they are called one at  *)
(* a time, as the write endpoints do.                                      *)
(*                                                                         *)
(* The program's clock is time.Now, whose values also carry a monotonic    *)
(* reading.  Sub and Before use it, so that a wall clock that is set back  *)
(* is seen only by Truncate, in the fixed window; elsewhere StepsBack      *)
(* stands for a clock that is injected.                                    *)
(*                                                                         *)
(* The algorithms (modules FixedWindow, SlidingWindow, TokenBucket and     *)
(* LeakyBucket) add the counter's state and the action that evaluates.     *)
(***************************************************************************)
EXTENDS Integers, Sequences, FiniteSets

CONSTANTS
  Calls,     \* requests, one evaluation each
  Cost,      \* Cost[c]
  Dry,       \* the calls that do not consume
  Refunded,  \* the calls whose cost may be released later
  Limit,     \* units per window
  Burst,     \* units on top
  Window,    \* length of the window, in ticks of the clock
  MaxTime,   \* bound on the clock
  Overlap,   \* calls run concurrently
  StepsBack, \* the clock may be set back
  None

ASSUME MeteringAssumption ==
  /\ Cost \in [Calls -> Nat \ {0}]
  /\ Dry \subseteq Calls
  /\ Refunded \subseteq Calls
  /\ Limit \in Nat \ {0}
  /\ Burst \in Nat
  /\ Window \in Nat \ {0}
  /\ MaxTime \in Nat
  /\ Overlap \in BOOLEAN
  /\ StepsBack \in BOOLEAN
  /\ None \notin Int

VARIABLES
  now,  \* the clock
  pc,   \* pc[c]: "idle", "read", "allowed", "denied" or "released"
  at,   \* at[c]: the time that c read
  log   \* history: what was charged and released so far, in this order

callerVars == <<now, pc, at, log>>

Capacity == Limit + Burst

CallersInit ==
  /\ now = 0
  /\ pc = [c \in Calls |-> "idle"]
  /\ at = [c \in Calls |-> 0]
  /\ log = <<>>

(* Net cost charged after the first i entries of the log. *)
NetAfter(i) == IF i = 0 THEN 0 ELSE log[i].net

Entry(c, n) == [call |-> c, net |-> NetAfter(Len(log)) + n]

(* The input of an evaluation is built: Now is read. *)
ReadClock(c) ==
  /\ pc[c] = "idle"
  /\ Overlap \/ \A d \in Calls : pc[d] # "read"
  /\ pc' = [pc EXCEPT ![c] = "read"]
  /\ at' = [at EXCEPT ![c] = now]
  /\ UNCHANGED <<now, log>>

(* The verdict of an evaluation is known. *)
Answer(c, allowed) ==
  /\ pc[c] = "read"
  /\ pc' = [pc EXCEPT ![c] = IF allowed THEN "allowed" ELSE "denied"]
  /\ log' = IF allowed /\ c \notin Dry THEN Append(log, Entry(c, Cost[c])) ELSE log
  /\ UNCHANGED <<now, at>>

(* The cost of an allowed call is released. *)
TakeBack(c) ==
  /\ pc[c] = "allowed"
  /\ c \in Refunded \ Dry
  /\ pc' = [pc EXCEPT ![c] = "released"]
  /\ log' = Append(log, Entry(c, 0 - Cost[c]))
  /\ UNCHANGED <<now, at>>

(* Time passes; without Overlap, not during a call. *)
SetClock ==
  /\ Overlap \/ \A d \in Calls : pc[d] # "read"
  /\ \/ now < MaxTime /\ now' = now + 1
     \/ StepsBack /\ now > 0 /\ now' = now - 1
  /\ UNCHANGED <<pc, at, log>>

CallersTypeOK ==
  /\ now \in 0..MaxTime
  /\ pc \in [Calls -> {"idle", "read", "allowed", "denied", "released"}]
  /\ at \in [Calls -> 0..MaxTime]
  /\ \A i \in DOMAIN log : log[i].call \in Calls /\ log[i].net \in Int

(* The entries of the log that charge, and the net amount charged from one *)
(* of them up to and including a later one.                                *)
Charges == {i \in DOMAIN log : NetAfter(i) > NetAfter(i - 1)}
Flow(i, j) == NetAfter(j) - NetAfter(i - 1)
TimeOf(i) == at[log[i].call]

(* The calls whose cost was charged and has not been released. *)
Kept == {c \in Calls \ Dry : pc[c] = "allowed"}
=============================================================================
