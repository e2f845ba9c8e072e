----------------------------- MODULE LeakyBucket -----------------------------
(* The leaky bucket (algorithm/application/evaluators.go, LeakyBucket), in  *)
(* the units of module TokenBucket.                                        *)
EXTENDS Metering

VARIABLES
  level,   \* what has not leaked yet, in parts of 1/Window
  updated  \* the time of the last evaluation, or None

vars == <<callerVars, level, updated>>

Full == Capacity * Window
Parts(n) == n * Window

Drained(n) == IF n < 0 THEN 0 ELSE n

(* The level as a call that read t finds it. *)
LeakedFree(t) ==  \* mutant: an empty bucket goes on leaking
  IF updated = None THEN level ELSE level - (t - updated) * Limit
Leaked(t) == Drained(IF updated = None THEN level ELSE level - (t - updated) * Limit)

Allows(t, n) == Leaked(t) + Parts(n) <= Full

(* RetryAfter of a denial, rounded down to a tick. *)
RetryEarly(t, n) == (Leaked(t) + Parts(n) - Full) \div Limit - 1  \* mutant: one tick less
RetryAfter(t, n) == (Leaked(t) + Parts(n) - Full) \div Limit

Init == CallersInit /\ level = 0 /\ updated = None

Evaluate(c) ==
  /\ Answer(c, Allows(at[c], Cost[c]))
  /\ IF c \in Dry
     THEN UNCHANGED <<level, updated>>
     ELSE /\ updated' = at[c]
          /\ level' = IF Allows(at[c], Cost[c])
                      THEN Leaked(at[c]) + Parts(Cost[c])
                      ELSE Leaked(at[c])

Release(c) ==
  /\ TakeBack(c)
  /\ level' = Drained(level - Parts(Cost[c]))
  /\ UNCHANGED updated

Next ==
  \/ \E c \in Calls : ReadClock(c) /\ UNCHANGED <<level, updated>>
  \/ \E c \in Calls : Evaluate(c) \/ Release(c)
  \/ SetClock /\ UNCHANGED <<level, updated>>

Spec == Init /\ [][Next]_vars

TypeOK == CallersTypeOK /\ level \in Nat /\ updated \in 0..MaxTime \cup {None}

(* The net amount charged from one charge to a later one is at most a full *)
(* bucket and what leaks between the times they read, also when the clock  *)
(* is set back and when calls are evaluated out of order.                  *)
RateBound ==
  \A i, j \in Charges :
    i <= j => Parts(Flow(i, j)) <= Full + (TimeOf(j) - TimeOf(i)) * Limit

(* After RetryAfter a denied request that could fit is over the brim by    *)
(* less than one tick leaks, the part that rounding down cuts off; before, *)
(* it is denied.                                                           *)
RetryExact ==
  \A n \in 1..Capacity :
    ~Allows(now, n) =>
      /\ Leaked(now + RetryAfter(now, n)) + Parts(n) - Full < Limit
      /\ \A d \in 0..(RetryAfter(now, n) - 1) : ~Allows(now + d, n)
=============================================================================
