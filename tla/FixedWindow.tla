----------------------------- MODULE FixedWindow -----------------------------
(* The fixed window (algorithm/application/evaluators.go, FixedWindow),     *)
(* which also serves hierarchical definitions.                             *)
EXTENDS Metering, Functions

VARIABLES
  start,  \* the window the counter belongs to, or None
  used    \* what was charged in it

vars == <<callerVars, start, used>>

(* Time.Truncate *)
Truncate(t) == t - (t % Window)

(* What the counter holds for a call that read t: a new window is empty. *)
UsedFresh(t) == IF start = t THEN used ELSE 0  \* mutant: the times are compared, not the windows
UsedAt(t) == IF start = Truncate(t) THEN used ELSE 0

Allows(t, n) == UsedAt(t) + n <= Capacity

(* RetryAfter of a denial: the rest of the window. *)
RetryShort(t) == Window - (t % Window) - 1  \* mutant: rounded down
RetryAfter(t) == Truncate(t) + Window - t

Init == CallersInit /\ start = None /\ used = 0

Evaluate(c) ==
  /\ Answer(c, Allows(at[c], Cost[c]))
  /\ IF Allows(at[c], Cost[c]) /\ c \notin Dry
     THEN start' = Truncate(at[c]) /\ used' = UsedAt(at[c]) + Cost[c]
     ELSE UNCHANGED <<start, used>>

LessFree(n) == used - n  \* mutant: not floored
LessUsed(n) == IF used < n THEN 0 ELSE used - n

(* Release looks at no window. *)
Release(c) ==
  /\ TakeBack(c)
  /\ used' = LessUsed(Cost[c])
  /\ UNCHANGED start

Next ==
  \/ \E c \in Calls : ReadClock(c) /\ UNCHANGED <<start, used>>
  \/ \E c \in Calls : Evaluate(c) \/ Release(c)
  \/ SetClock /\ UNCHANGED <<start, used>>

Spec == Init /\ [][Next]_vars

TypeOK ==
  /\ CallersTypeOK
  /\ start \in Int \cup {None}
  /\ used \in 0..Capacity

(* What is charged in one window, from any charge on up to any later one,  *)
(* and less what is released in between, is within the limit: windows that *)
(* turn, dry runs and releases never make the counter forget a charge.     *)
WindowBound ==
  \A i, j \in Charges :
    i <= j /\ Truncate(TimeOf(i)) = Truncate(TimeOf(j)) => Flow(i, j) <= Capacity

(* RetryAfter is the earliest time at which a request that is denied now   *)
(* and could fit would be allowed: no earlier, and no later.               *)
RetryExact ==
  \A n \in 1..Capacity :
    ~Allows(now, n) =>
      /\ Allows(now + RetryAfter(now), n)
      /\ \A d \in 0..(RetryAfter(now) - 1) : ~Allows(now + d, n)

(* README: Check denies once the limit is reached.  What has been charged  *)
(* in a window and not been refunded stays within the limit.               *)
KeptWithinLimit ==
  \A w \in {Truncate(at[c]) : c \in Kept} :
    SumFunctionOnSet(Cost, {c \in Kept : Truncate(at[c]) = w}) <= Capacity
=============================================================================
