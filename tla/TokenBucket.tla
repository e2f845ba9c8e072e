----------------------------- MODULE TokenBucket -----------------------------
(* The token bucket (algorithm/application/evaluators.go, TokenBucket).     *)
(* Amounts are counted in parts of 1/Window, so that the tokens that one   *)
(* tick brings, Limit/Window, are a whole number of them.  The code's      *)
(* float64 rounding is not modelled.                                       *)
EXTENDS Metering

VARIABLES
  tokens,  \* what is in the bucket, in parts
  updated  \* the time of the last evaluation, or None

vars == <<callerVars, tokens, updated>>

Full == Capacity * Window
Parts(n) == n * Window

(* The bucket as a call that read t finds it.  Time that has run backwards *)
(* counts as negative.                                                     *)
RefilledUncapped(t) == IF updated = None THEN Full ELSE tokens + (t - updated) * Limit  \* mutant
Refilled(t) ==
  LET grown == tokens + (t - updated) * Limit IN
  IF updated = None THEN Full ELSE IF grown > Full THEN Full ELSE grown

Allows(t, n) == Refilled(t) >= Parts(n)

(* RetryAfter of a denial, rounded down to a tick. *)
RetryEarly(t, n) == (Parts(n) - Refilled(t)) \div Limit - 1  \* mutant: one tick less
RetryAfter(t, n) == (Parts(n) - Refilled(t)) \div Limit

Init == CallersInit /\ tokens = 0 /\ updated = None

Evaluate(c) ==
  /\ Answer(c, Allows(at[c], Cost[c]))
  /\ IF c \in Dry
     THEN UNCHANGED <<tokens, updated>>
     ELSE /\ updated' = at[c]
          /\ tokens' = IF Allows(at[c], Cost[c])
                       THEN Refilled(at[c]) - Parts(Cost[c])
                       ELSE Refilled(at[c])

(* Release fills beyond the brim; the next evaluation caps it. *)
Release(c) ==
  /\ TakeBack(c)
  /\ tokens' = tokens + Parts(Cost[c])
  /\ UNCHANGED updated

Next ==
  \/ \E c \in Calls : ReadClock(c) /\ UNCHANGED <<tokens, updated>>
  \/ \E c \in Calls : Evaluate(c) \/ Release(c)
  \/ SetClock /\ UNCHANGED <<tokens, updated>>

Spec == Init /\ [][Next]_vars

TypeOK == CallersTypeOK /\ tokens \in Int /\ updated \in 0..MaxTime \cup {None}

(* The net amount charged from one charge to a later one is at most a full *)
(* bucket and what flows in between the times they read, also when the     *)
(* clock is set back and when calls are evaluated out of order (README:    *)
(* setting the clock back must not add quota).                             *)
RateBound ==
  \A i, j \in Charges :
    i <= j => Parts(Flow(i, j)) <= Full + (TimeOf(j) - TimeOf(i)) * Limit

(* After RetryAfter a denied request that could fit lacks less than one    *)
(* tick brings, the part that rounding down cuts off; before, it is denied.*)
RetryExact ==
  \A n \in 1..Capacity :
    ~Allows(now, n) =>
      /\ Parts(n) - Refilled(now + RetryAfter(now, n)) < Limit
      /\ \A d \in 0..(RetryAfter(now, n) - 1) : ~Allows(now + d, n)
=============================================================================
