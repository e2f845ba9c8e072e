---------------------------- MODULE SlidingWindow ----------------------------
(* The sliding window (algorithm/application/evaluators.go, SlidingWindow): *)
(* a log of events, trimmed by binary search and released from the newest  *)
(* event on.                                                               *)
EXTENDS Metering, Functions

VARIABLE events  \* the charges, in the order they were made

vars == <<callerVars, events>>

(* The first event that is not before the cutoff. *)
InWindowStrict(e, t) == e.at > t - Window  \* mutant: the boundary is left out
InWindow(e, t) == e.at >= t - Window

(* sort.Search over the events, which assumes that they are in order: how  *)
(* many are cut off at the front.                                          *)
Search(t) ==
  LET n == Len(events)
      search[range \in (0..n) \X (0..n)] ==
        LET i == range[1]
            j == range[2]
            mid == (i + j) \div 2
        IN  IF i >= j THEN i
            ELSE IF InWindow(events[mid + 1], t) THEN search[<<i, mid>>]
            ELSE search[<<mid + 1, j>>]
  IN search[<<0, n>>]

Trimmed(t) == SubSeq(events, Search(t) + 1, Len(events))

Total(s) ==
  LET total[i \in 0..Len(s)] == IF i = 0 THEN 0 ELSE total[i - 1] + s[i].cost
  IN  total[Len(s)]

Allows(t, n) == Total(Trimmed(t)) + n <= Capacity

(* RetryAfter of a denial: until the oldest event leaves the window. *)
RetryNewest(t) ==  \* mutant: until the newest one does
  LET s == Trimmed(t) IN IF s = <<>> THEN 0 ELSE s[Len(s)].at + Window - t
RetryAfter(t) == LET s == Trimmed(t) IN IF s = <<>> THEN 0 ELSE s[1].at + Window - t

Init == CallersInit /\ events = <<>>

Evaluate(c) ==
  /\ Answer(c, Allows(at[c], Cost[c]))
  /\ events' = IF Allows(at[c], Cost[c]) /\ c \notin Dry
               THEN Append(Trimmed(at[c]), [at |-> at[c], cost |-> Cost[c]])
               ELSE events

(* What is left of event i when n units are taken from the newest on. *)
LeftOver(i, n) ==
  LET newer == Total(SubSeq(events, i + 1, Len(events)))
      take  == IF n > newer THEN n - newer ELSE 0
  IN IF take < events[i].cost THEN events[i].cost - take ELSE 0

Drawn(n) == [i \in DOMAIN events |-> [events[i] EXCEPT !.cost = LeftOver(i, n)]]

(* Events of which nothing is left are filtered out: they are the newest.  *)
Deducted(n) == SubSeq(Drawn(n), 1, Cardinality({i \in DOMAIN events : LeftOver(i, n) > 0}))

Release(c) ==
  /\ TakeBack(c)
  /\ events' = Deducted(Cost[c])

Next ==
  \/ \E c \in Calls : ReadClock(c) /\ UNCHANGED events
  \/ \E c \in Calls : Evaluate(c) \/ Release(c)
  \/ SetClock /\ UNCHANGED events

Spec == Init /\ [][Next]_vars

TypeOK ==
  /\ CallersTypeOK
  /\ \A i \in DOMAIN events : events[i].at \in 0..MaxTime /\ events[i].cost \in Nat \ {0}

(* Between two charges that are not more than a window apart, the net      *)
(* amount charged is within the limit, wherever the window is laid.        *)
WindowBound ==
  \A i, j \in Charges :
    i <= j /\ TimeOf(j) - TimeOf(i) <= Window => Flow(i, j) <= Capacity

(* No request that is denied would be allowed before RetryAfter.           *)
RetryNotLate ==
  \A n \in 1..Capacity :
    ~Allows(now, n) => \A d \in 0..(RetryAfter(now) - 1) : ~Allows(now + d, n)

(* README: Check denies once the limit is reached.  What was charged in    *)
(* any window and not refunded stays within the limit.                     *)
KeptWithinLimit ==
  \A t \in 0..MaxTime :
    SumFunctionOnSet(Cost, {c \in Kept : t <= at[c] /\ at[c] <= t + Window}) <= Capacity
=============================================================================
