--------------------------- MODULE RegistryProofs ---------------------------
(***************************************************************************)
(* Proofs about module Registry: the rate algorithms, for any calls, costs *)
(* and limits and any clock.                                               *)
(***************************************************************************)
EXTENDS Registry, UnitLemmas, SequenceTheorems

(***************************************************************************)
(* Arithmetic.                                                             *)
(***************************************************************************)

LEMMA Division ==
  ASSUME NEW x \in Int, NEW L \in Int, L > 0
  PROVE  /\ x \div L \in Int
         /\ (x \div L) * L <= x
         /\ x < (x \div L) * L + L
  OBVIOUS

LEMMA Remainder ==
  ASSUME NEW x \in Int, NEW L \in Int, L > 0
  PROVE  x - (x % L) = (x \div L) * L
  OBVIOUS

LEMMA Multiples ==
  ASSUME NEW p \in Int, NEW q \in Int, NEW L \in Int, L > 0
  PROVE  /\ p <= q => p * L <= q * L
         /\ p < q => p * L + L <= q * L
<1>1. ASSUME NEW r \in Int, r <= q
      PROVE  r * L <= q * L
  BY <1>1
<1>2. (p + 1) * L = p * L + L
  OBVIOUS
<1> QED
  BY <1>1, <1>2

(***************************************************************************)
(* The log of the callers.                                                 *)
(***************************************************************************)

(* Only calls that have been allowed are in the log.                       *)
LogInv ==
  /\ CallersTypeOK
  /\ log \in Seq([call : Calls, net : Int])
  /\ \A i \in DOMAIN log : pc[log[i].call] \in {"allowed", "released"}

(* What a step does to the log: one entry more, of a call that was reading *)
(* or allowed, or none.                                                    *)
Enters(c, n) ==
  /\ pc[c] \in {"read", "allowed"}
  /\ \E label \in {"allowed", "released"} : pc' = [pc EXCEPT ![c] = label]
  /\ log' = Append(log, Entry(c, n))
  /\ UNCHANGED <<now, at>>

Reads(c) ==
  /\ pc[c] = "idle"
  /\ pc' = [pc EXCEPT ![c] = "read"]
  /\ at' = [at EXCEPT ![c] = now]
  /\ UNCHANGED <<now, log>>

Settles(c) ==
  /\ pc[c] = "read"
  /\ \E label \in {"allowed", "denied"} : pc' = [pc EXCEPT ![c] = label]
  /\ UNCHANGED <<now, at, log>>

Ticks == now' \in 0..MaxTime /\ UNCHANGED <<pc, at, log>>

Quiet == (\E c \in Calls : Reads(c) \/ Settles(c)) \/ Ticks \/ UNCHANGED callerVars

LEMMA LogFacts ==
  ASSUME LogInv
  PROVE  /\ Len(log) \in Nat
         /\ DOMAIN log = 1..Len(log)
         /\ \A i \in DOMAIN log : log[i].call \in Calls /\ log[i].net \in Int /\ TimeOf(i) \in Int
         /\ \A i \in 0..Len(log) : NetAfter(i) \in Int
         /\ Charges \subseteq 1..Len(log)
<1>1. /\ Len(log) \in Nat
      /\ DOMAIN log = 1..Len(log)
      /\ \A i \in DOMAIN log : log[i] \in [call : Calls, net : Int]
  BY LenProperties, ElementOfSeq DEF LogInv
<1>2. \A i \in DOMAIN log : log[i].call \in Calls /\ log[i].net \in Int /\ TimeOf(i) \in Int
  BY <1>1 DEF TimeOf, LogInv, CallersTypeOK
<1> QED
  BY <1>1, <1>2 DEF NetAfter, Charges

LEMMA TypeFacts ==
  ASSUME CallersTypeOK
  PROVE  /\ Window \in Int /\ Window > 0
         /\ Limit \in Int /\ Limit > 0
         /\ now \in Int
         /\ \A c \in Calls : at[c] \in Int /\ at[c] \in 0..MaxTime /\ Cost[c] \in Int /\ Cost[c] > 0
<1>1. Cost \in [Calls -> Nat \ {0}] /\ Limit \in Nat \ {0} /\ Window \in Nat \ {0} /\ MaxTime \in Nat
  BY MeteringAssumption
<1>2. now \in 0..MaxTime /\ at \in [Calls -> 0..MaxTime]
  BY DEF CallersTypeOK
<1> QED
  BY <1>1, <1>2

(* A new entry leaves what the log says of the others.                     *)
LEMMA EntersFacts ==
  ASSUME LogInv, NEW c \in Calls, NEW n \in Int, Enters(c, n),
         NEW m, m = Len(log) + 1
  PROVE  /\ LogInv'
         /\ Len(log') = m
         /\ \A i \in 0..Len(log) : NetAfter(i)' = NetAfter(i)
         /\ NetAfter(m)' = NetAfter(Len(log)) + n
         /\ \A i \in DOMAIN log : TimeOf(i)' = TimeOf(i)
         /\ TimeOf(m)' = at[c]
         /\ Charges' = IF n > 0 THEN Charges \cup {m} ELSE Charges
<1>1. /\ Len(log) \in Nat
      /\ DOMAIN log = 1..Len(log)
      /\ \A i \in 0..Len(log) : NetAfter(i) \in Int
      /\ m \in Nat \ {0}
  BY LogFacts
<1>2. PICK e \in [call : Calls, net : Int] :
        e.call = c /\ e.net = NetAfter(Len(log)) + n /\ log' = Append(log, e)
  BY <1>1 DEF Entry, Enters
<1>3. /\ log' \in Seq([call : Calls, net : Int])
      /\ Len(log') = m
      /\ \A i \in 1..Len(log) : log'[i] = log[i]
      /\ log'[m] = e
  BY <1>2, AppendProperties DEF LogInv
<1>4. DOMAIN log' = 1..m
  BY <1>3, LenProperties
<1>5. \A i \in DOMAIN log' : i \in DOMAIN log \/ i = m
  BY <1>1, <1>4
<1>6. \A i \in 0..Len(log) : NetAfter(i)' = NetAfter(i)
  BY <1>1, <1>3 DEF NetAfter
<1>7. NetAfter(m)' = NetAfter(Len(log)) + n
  BY <1>1, <1>2, <1>3 DEF NetAfter
<1>8. \A i \in DOMAIN log : TimeOf(i)' = TimeOf(i)
  BY <1>1, <1>3 DEF TimeOf, Enters
<1>9. TimeOf(m)' = at[c]
  BY <1>2, <1>3 DEF TimeOf, Enters
<1>10. LogInv'
  <2>1. pc' \in [Calls -> {"idle", "read", "allowed", "denied", "released"}]
    BY DEF Enters, LogInv, CallersTypeOK
  <2>2. \A i \in DOMAIN log' : log'[i].call \in Calls /\ log'[i].net \in Int
    <3>1. \A i \in DOMAIN log' : log'[i] \in [call : Calls, net : Int]
      BY <1>3, <1>4, ElementOfSeq
    <3> QED
      BY <3>1
  <2>3. \A d \in Calls : pc[d] \in {"allowed", "released"} \/ d = c => pc'[d] \in {"allowed", "released"}
    BY DEF Enters, LogInv, CallersTypeOK
  <2>4. ASSUME NEW i \in DOMAIN log'
        PROVE  pc'[log'[i].call] \in {"allowed", "released"}
    <3>1. CASE i \in DOMAIN log
      <4>1. log'[i] = log[i] /\ log[i].call \in Calls /\ pc[log[i].call] \in {"allowed", "released"}
        BY <1>1, <1>3, <3>1 DEF LogInv, CallersTypeOK
      <4> QED
        BY <4>1, <2>3
    <3>2. CASE i = m
      BY <1>2, <1>3, <3>2, <2>3
    <3> QED
      BY <1>5, <3>1, <3>2
  <2> QED
    BY <1>3, <2>1, <2>2, <2>4 DEF Enters, LogInv, CallersTypeOK
<1>11. Charges' = IF n > 0 THEN Charges \cup {m} ELSE Charges
  <2>1. \A i \in DOMAIN log : i \in Charges' <=> i \in Charges
    BY <1>1, <1>4, <1>6 DEF Charges
  <2>2. m \in Charges' <=> n > 0
    <3>1. NetAfter(m - 1)' = NetAfter(Len(log))
      BY <1>1, <1>6
    <3> QED
      BY <1>1, <1>4, <1>7, <3>1 DEF Charges
  <2>3. Charges \subseteq DOMAIN log /\ Charges' \subseteq DOMAIN log'
    BY DEF Charges
  <2> QED
    BY <1>5, <2>1, <2>2, <2>3
<1> QED
  BY <1>3, <1>6, <1>7, <1>8, <1>9, <1>10, <1>11

LEMMA QuietFacts ==
  ASSUME LogInv, Quiet
  PROVE  /\ LogInv'
         /\ log' = log
         /\ \A i \in 0..Len(log) : NetAfter(i)' = NetAfter(i)
         /\ \A i \in DOMAIN log : TimeOf(i)' = TimeOf(i)
         /\ Charges' = Charges
<1>1. log' = log
  BY DEF Quiet, Reads, Settles, Ticks, callerVars
<1>2. \A i \in DOMAIN log : log[i].call \in Calls /\ pc[log[i].call] \in {"allowed", "released"}
  BY DEF LogInv, CallersTypeOK
<1>3. \A d \in Calls : pc[d] \in {"allowed", "released"} => pc'[d] = pc[d] /\ at'[d] = at[d]
  BY DEF Quiet, Reads, Settles, Ticks, callerVars, LogInv, CallersTypeOK
<1>4. CallersTypeOK'
  BY <1>1 DEF Quiet, Reads, Settles, Ticks, callerVars, LogInv, CallersTypeOK
<1>5. LogInv'
  BY <1>1, <1>2, <1>3, <1>4 DEF LogInv
<1>6. \A i : NetAfter(i)' = NetAfter(i)
  BY <1>1 DEF NetAfter
<1>7. Charges' = Charges
  BY <1>1, <1>6 DEF Charges
<1>8. \A i \in DOMAIN log : TimeOf(i)' = TimeOf(i)
  BY <1>1, <1>2, <1>3 DEF TimeOf
<1> QED
  BY <1>1, <1>5, <1>6, <1>7, <1>8

(***************************************************************************)
(* A bucket.  What is free in it, together with what has been charged      *)
(* since some charge, is at most a full bucket and what has flowed in the  *)
(* meantime.                                                               *)
(***************************************************************************)

Potential(free, full) ==
  \A i \in Charges :
    Flow(i, Len(log)) * Window + free <= full + (updated - TimeOf(i)) * Limit

Bound(full) ==
  \A i, j \in Charges :
    i <= j => Flow(i, j) * Window <= full + (TimeOf(j) - TimeOf(i)) * Limit

(* The arithmetic of the invariant: f units have been charged, n more are, *)
(* and the time goes from u to t.                                          *)
LEMMA Carry ==
  ASSUME NEW W \in Int, NEW L \in Int, NEW f \in Int, NEW n \in Int,
         NEW free \in Int, NEW left \in Int, NEW full \in Int,
         NEW s \in Int, NEW u \in Int, NEW t \in Int,
         f * W + free <= full + (u - s) * L,
         left + n * W <= free + (t - u) * L
  PROVE  (f + n) * W + left <= full + (t - s) * L
<1>1. (f + n) * W = f * W + n * W
  OBVIOUS
<1>2. (t - s) * L = (u - s) * L + (t - u) * L
  OBVIOUS
<1>3. f * W \in Int /\ n * W \in Int /\ (u - s) * L \in Int /\ (t - u) * L \in Int
  OBVIOUS
<1> QED
  BY <1>1, <1>2, <1>3

(* A charge of n leaves at least nothing of what its call finds.           *)
ChargesBucket(c, n, free, left, full) ==
  /\ Enters(c, n)
  /\ n > 0
  /\ left >= 0
  /\ left + n * Window <= full
  /\ Charges # {} => updated \in Int /\ left + n * Window <= free + (at[c] - updated) * Limit

LEMMA BucketCharge ==
  ASSUME LogInv, NEW c \in Calls, NEW n \in Int,
         NEW free \in Int, NEW left \in Int, NEW full \in Int,
         ChargesBucket(c, n, free, left, full),
         Potential(free, full), Bound(full)
  PROVE  /\ \A i \in Charges' :
              Flow(i, Len(log))' * Window + left <= full + (at[c] - TimeOf(i)') * Limit
         /\ Bound(full)'
<1>1. PICK m : m = Len(log) + 1
  OBVIOUS
<1>2. /\ Len(log) \in Nat
      /\ m \in Nat
      /\ Charges \subseteq 1..Len(log)
      /\ DOMAIN log = 1..Len(log)
      /\ \A i \in 0..Len(log) : NetAfter(i) \in Int
      /\ \A i \in DOMAIN log : TimeOf(i) \in Int
      /\ at[c] \in Int
      /\ Window \in Int /\ Limit \in Int
  <2>1. CallersTypeOK
    BY DEF LogInv
  <2>2. at[c] \in Int /\ Window \in Int /\ Limit \in Int
    BY <2>1, TypeFacts
  <2> QED
    BY <1>1, <2>2, LogFacts
<1>3. /\ Len(log') = m
      /\ \A i \in 0..Len(log) : NetAfter(i)' = NetAfter(i)
      /\ NetAfter(m)' = NetAfter(Len(log)) + n
      /\ \A i \in DOMAIN log : TimeOf(i)' = TimeOf(i)
      /\ TimeOf(m)' = at[c]
      /\ Charges' = Charges \cup {m}
  BY <1>1, EntersFacts DEF ChargesBucket
<1>0. ASSUME NEW i \in Charges
      PROVE  i \in 1..Len(log) /\ i - 1 \in 0..Len(log) /\ i \in 0..Len(log) /\ Len(log) \in 0..Len(log)
  BY <1>2
<1>4. ASSUME NEW i \in Charges
      PROVE  /\ Flow(i, m)' * Window + left <= full + (at[c] - TimeOf(i)) * Limit
             /\ TimeOf(i)' = TimeOf(i)
  <2>1. /\ Flow(i, m)' = Flow(i, Len(log)) + n
        /\ Flow(i, Len(log)) \in Int
        /\ TimeOf(i)' = TimeOf(i) /\ TimeOf(i) \in Int
    <3>1. NetAfter(i - 1)' = NetAfter(i - 1) /\ TimeOf(i)' = TimeOf(i) /\ TimeOf(i) \in Int
          /\ NetAfter(i - 1) \in Int /\ NetAfter(Len(log)) \in Int
      BY <1>2, <1>3, <1>0
    <3> QED
      BY <1>3, <3>1 DEF Flow
  <2>2. Flow(i, Len(log)) * Window + free <= full + (updated - TimeOf(i)) * Limit
    BY DEF Potential
  <2>3. updated \in Int /\ left + n * Window <= free + (at[c] - updated) * Limit
    BY DEF ChargesBucket
  <2>4. (Flow(i, Len(log)) + n) * Window + left <= full + (at[c] - TimeOf(i)) * Limit
    BY <1>2, <2>1, <2>2, <2>3, Carry
  <2> QED
    BY <2>1, <2>4
<1>5. Flow(m, m)' * Window + left <= full + (at[c] - TimeOf(m)') * Limit
  <2>1. Flow(m, m)' = n
    BY <1>1, <1>2, <1>3 DEF Flow
  <2>2. left + n * Window <= full /\ n * Window \in Int
    BY <1>2 DEF ChargesBucket
  <2>3. (at[c] - TimeOf(m)') * Limit = 0
    BY <1>2, <1>3
  <2> QED
    BY <2>1, <2>2, <2>3
<1>6. ASSUME NEW i \in Charges'
      PROVE  Flow(i, m)' * Window + left <= full + (at[c] - TimeOf(i)') * Limit
  BY <1>3, <1>4, <1>5
<1>7. ASSUME NEW i \in Charges', NEW j \in Charges', i <= j
      PROVE  Flow(i, j)' * Window <= full + (TimeOf(j)' - TimeOf(i)') * Limit
  <2>1. CASE j = m
    <3>1. left >= 0
      BY DEF ChargesBucket
    <3>2. Flow(i, m)' \in Int /\ TimeOf(i)' \in Int
      <4>1. CASE i = m
        <5>1. m - 1 = Len(log) /\ Len(log) \in 0..Len(log)
          BY <1>1, <1>2
        <5>2. NetAfter(m - 1)' = NetAfter(Len(log)) /\ NetAfter(Len(log)) \in Int
          BY <1>2, <1>3, <5>1
        <5> QED
          BY <1>2, <1>3, <4>1, <5>2 DEF Flow
      <4>2. CASE i \in Charges
        <5>1. NetAfter(i - 1)' = NetAfter(i - 1) /\ TimeOf(i)' = TimeOf(i) /\ TimeOf(i) \in Int
              /\ NetAfter(i - 1) \in Int /\ NetAfter(Len(log)) \in Int
          BY <1>2, <1>3, <4>2, <1>0
        <5> QED
          BY <1>3, <5>1 DEF Flow
      <4> QED
        BY <1>3, <4>1, <4>2
    <3>3. Flow(i, m)' * Window \in Int /\ (at[c] - TimeOf(i)') * Limit \in Int
      BY <1>2, <3>2
    <3>4. Flow(i, m)' * Window <= full + (at[c] - TimeOf(i)') * Limit
      BY <1>6, <3>1, <3>3
    <3> QED
      BY <1>3, <2>1, <3>4
  <2>2. CASE j # m
    <3>1. i \in Charges /\ j \in Charges
      BY <1>1, <1>2, <1>3, <1>7, <2>2
    <3>2. Flow(i, j)' = Flow(i, j) /\ TimeOf(i)' = TimeOf(i) /\ TimeOf(j)' = TimeOf(j)
      <4>1. NetAfter(i - 1)' = NetAfter(i - 1) /\ NetAfter(j)' = NetAfter(j)
        BY <1>3, <3>1, <1>0
      <4> QED
        BY <1>2, <1>3, <3>1, <4>1, <1>0 DEF Flow
    <3>3. Flow(i, j) * Window <= full + (TimeOf(j) - TimeOf(i)) * Limit
      BY <1>7, <3>1 DEF Bound
    <3> QED
      BY <3>2, <3>3
  <2> QED
    BY <2>1, <2>2
<1> QED
  BY <1>3, <1>6, <1>7, Zenon DEF Bound

(* A step that enters nothing, or takes n units back; in the meantime, at  *)
(* most as much becomes free as has flowed and been taken back.            *)
RestsBucket(n, t, free, left) ==
  /\ \/ Quiet /\ n = 0
     \/ n >= 0 /\ \E c \in Calls : Enters(c, 0 - n)
  /\ Charges # {} => updated \in Int /\ left + (0 - n) * Window <= free + (t - updated) * Limit

LEMMA BucketRest ==
  ASSUME LogInv, NEW n \in Int, NEW t \in Int,
         NEW free \in Int, NEW left \in Int, NEW full \in Int,
         RestsBucket(n, t, free, left),
         Potential(free, full), Bound(full)
  PROVE  /\ Charges' = Charges
         /\ \A i \in Charges' :
              Flow(i, Len(log))' * Window + left <= full + (t - TimeOf(i)') * Limit
         /\ Bound(full)'
<1>1. /\ Len(log) \in Nat
      /\ Charges \subseteq 1..Len(log)
      /\ DOMAIN log = 1..Len(log)
      /\ \A i \in 0..Len(log) : NetAfter(i) \in Int
      /\ \A i \in DOMAIN log : TimeOf(i) \in Int
      /\ Window \in Int /\ Limit \in Int
  BY LogFacts, TypeFacts DEF LogInv
<1>2. /\ \A i \in 0..Len(log) : NetAfter(i)' = NetAfter(i)
      /\ \A i \in DOMAIN log : TimeOf(i)' = TimeOf(i)
      /\ Charges' = Charges
      /\ \A i \in Charges : Flow(i, Len(log))' = Flow(i, Len(log)) + (0 - n)
  <2>1. CASE Quiet /\ n = 0
    BY <1>1, <2>1, QuietFacts DEF Flow
  <2>2. CASE n >= 0 /\ \E c \in Calls : Enters(c, 0 - n)
    <3>1. PICK m : m = Len(log) + 1
      OBVIOUS
    <3>2. 0 - n \in Int /\ ~(0 - n > 0)
      BY <2>2
    <3>3. /\ Len(log') = m
          /\ \A i \in 0..Len(log) : NetAfter(i)' = NetAfter(i)
          /\ NetAfter(m)' = NetAfter(Len(log)) + (0 - n)
          /\ \A i \in DOMAIN log : TimeOf(i)' = TimeOf(i)
          /\ Charges' = Charges
      BY <2>2, <3>1, <3>2, EntersFacts
    <3> QED
      BY <1>1, <3>1, <3>3 DEF Flow
  <2> QED
    BY <2>1, <2>2 DEF RestsBucket
<1>0. ASSUME NEW i \in Charges
      PROVE  i \in DOMAIN log /\ i - 1 \in 0..Len(log) /\ i \in 0..Len(log) /\ Len(log) \in 0..Len(log)
  BY <1>1
<1>3. ASSUME NEW i \in Charges
      PROVE  Flow(i, Len(log))' * Window + left <= full + (t - TimeOf(i)') * Limit
  <2>1. /\ Flow(i, Len(log)) \in Int
        /\ TimeOf(i)' = TimeOf(i) /\ TimeOf(i) \in Int
    <3>1. NetAfter(i - 1) \in Int /\ NetAfter(Len(log)) \in Int
      BY <1>1, <1>0
    <3>2. Flow(i, Len(log)) \in Int
      BY <3>1 DEF Flow
    <3>3. TimeOf(i)' = TimeOf(i) /\ TimeOf(i) \in Int
      BY <1>1, <1>2, <1>0
    <3> QED
      BY <3>2, <3>3
  <2>2. Flow(i, Len(log)) * Window + free <= full + (updated - TimeOf(i)) * Limit
    BY DEF Potential
  <2>3. updated \in Int /\ left + (0 - n) * Window <= free + (t - updated) * Limit
    BY DEF RestsBucket
  <2>4. (Flow(i, Len(log)) + (0 - n)) * Window + left <= full + (t - TimeOf(i)) * Limit
    <3>1. 0 - n \in Int
      OBVIOUS
    <3> QED
      BY <1>1, <2>1, <2>2, <2>3, <3>1, Carry
  <2>5. Flow(i, Len(log))' = Flow(i, Len(log)) + (0 - n)
    BY <1>2
  <2> QED
    BY <2>1, <2>4, <2>5
<1>4. ASSUME NEW i \in Charges, NEW j \in Charges, i <= j
      PROVE  Flow(i, j)' * Window <= full + (TimeOf(j)' - TimeOf(i)') * Limit
  <2>1. Flow(i, j)' = Flow(i, j) /\ TimeOf(i)' = TimeOf(i) /\ TimeOf(j)' = TimeOf(j)
    <3>1. NetAfter(i - 1)' = NetAfter(i - 1) /\ NetAfter(j)' = NetAfter(j)
      BY <1>2, <1>0
    <3> QED
      BY <1>2, <3>1, <1>0 DEF Flow
  <2>2. Flow(i, j) * Window <= full + (TimeOf(j) - TimeOf(i)) * Limit
    BY <1>4 DEF Bound
  <2> QED
    BY <2>1, <2>2
<1> QED
  BY <1>2, <1>3, <1>4, Zenon DEF Bound

LEMMA BucketQuiet ==
  ASSUME LogInv, Quiet, UNCHANGED updated, NEW free, NEW full, Potential(free, full), Bound(full)
  PROVE  /\ Charges' = Charges
         /\ \A i \in Charges' :
              Flow(i, Len(log))' * Window + free <= full + (updated' - TimeOf(i)') * Limit
         /\ Bound(full)'
<1>1. /\ log' = log
      /\ \A i \in 0..Len(log) : NetAfter(i)' = NetAfter(i)
      /\ \A i \in DOMAIN log : TimeOf(i)' = TimeOf(i)
      /\ Charges' = Charges
  BY QuietFacts
<1>2. Len(log) \in Nat /\ DOMAIN log = 1..Len(log) /\ Charges \subseteq 1..Len(log)
  BY LogFacts
<1>3. ASSUME NEW i \in Charges, NEW j \in 0..Len(log)
      PROVE  TimeOf(i)' = TimeOf(i) /\ Flow(i, j)' = Flow(i, j)
  <2>1. i \in DOMAIN log /\ i - 1 \in 0..Len(log)
    BY <1>2
  <2>2. NetAfter(i - 1)' = NetAfter(i - 1) /\ NetAfter(j)' = NetAfter(j)
    BY <1>1, <2>1
  <2> QED
    BY <1>1, <2>1, <2>2 DEF Flow
<1>4. \A i \in Charges : Flow(i, Len(log))' = Flow(i, Len(log))
  <2> TAKE i \in Charges
  <2>1. NetAfter(i - 1)' = NetAfter(i - 1) /\ NetAfter(Len(log))' = NetAfter(Len(log))
    BY <1>1 DEF NetAfter
  <2> QED
    BY <1>1, <2>1 DEF Flow
<1>5. \A j \in Charges : j \in 0..Len(log)
  BY <1>2
<1> QED
  BY <1>1, <1>3, <1>4, <1>5, Zenon DEF Potential, Bound

(***************************************************************************)
(* The token bucket.                                                       *)
(***************************************************************************)

TokenInv ==
  /\ LogInv
  /\ tokens \in Int
  /\ updated \in 0..MaxTime \cup {None}
  /\ Charges # {} => updated # None
  /\ Potential(tokens, Token!Full)
  /\ Bound(Token!Full)

(* What a call does: it changes nothing of the bucket; it is denied, and   *)
(* what has flowed in is accounted for; it takes its tokens, or brings     *)
(* them back.                                                              *)
LEMMA TokenSteps ==
  ASSUME CallersTypeOK, Token!Next
  PROVE  \/ Quiet /\ UNCHANGED <<tokens, updated>>
         \/ \E c \in Calls :
              /\ Settles(c)
              /\ tokens' = Token!Refilled(at[c]) /\ updated' = at[c]
         \/ \E c \in Calls :
              /\ Enters(c, Cost[c])
              /\ Token!Refilled(at[c]) >= Token!Parts(Cost[c])
              /\ tokens' = Token!Refilled(at[c]) - Token!Parts(Cost[c]) /\ updated' = at[c]
         \/ \E c \in Calls :
              /\ Enters(c, 0 - Cost[c])
              /\ tokens' = tokens + Token!Parts(Cost[c]) /\ updated' = updated
<1>1. CASE \E c \in Calls : Token!ReadClock(c) /\ UNCHANGED <<tokens, updated>>
  BY <1>1 DEF Token!ReadClock, Reads, Quiet
<1>2. ASSUME NEW c \in Calls, Token!Evaluate(c)
      PROVE  \/ Quiet /\ UNCHANGED <<tokens, updated>>
             \/ /\ Settles(c)
                /\ tokens' = Token!Refilled(at[c]) /\ updated' = at[c]
             \/ /\ Enters(c, Cost[c])
                /\ Token!Refilled(at[c]) >= Token!Parts(Cost[c])
                /\ tokens' = Token!Refilled(at[c]) - Token!Parts(Cost[c]) /\ updated' = at[c]
  <2>1. CASE c \in Dry
    BY <1>2, <2>1 DEF Token!Evaluate, Token!Answer, Settles, Quiet
  <2>2. CASE c \notin Dry /\ ~Token!Allows(at[c], Cost[c])
    BY <1>2, <2>2 DEF Token!Evaluate, Token!Answer, Settles
  <2>3. CASE c \notin Dry /\ Token!Allows(at[c], Cost[c])
    BY <1>2, <2>3 DEF Token!Evaluate, Token!Answer, Token!Allows, Enters,
                      Token!Entry, Token!NetAfter, Entry, NetAfter
  <2> QED
    BY <2>1, <2>2, <2>3
<1>3. ASSUME NEW c \in Calls, Token!Release(c)
      PROVE  /\ Enters(c, 0 - Cost[c])
             /\ tokens' = tokens + Token!Parts(Cost[c]) /\ updated' = updated
  BY <1>3 DEF Token!Release, Token!TakeBack, Enters, Token!Entry, Token!NetAfter, Entry, NetAfter
<1>4. CASE Token!SetClock /\ UNCHANGED <<tokens, updated>>
  <2>1. now \in 0..MaxTime /\ MaxTime \in Nat
    BY MeteringAssumption DEF CallersTypeOK
  <2> QED
    BY <1>4, <2>1 DEF Token!SetClock, Ticks, Quiet
<1> QED
  BY <1>1, <1>2, <1>3, <1>4 DEF Token!Next

(* What a call finds is no more than a full bucket, and no more than what  *)
(* was left and has flowed in.                                             *)
LEMMA TokenRefilled ==
  ASSUME NEW t \in Int, tokens \in Int, updated \in Int \cup {None}, Window \in Int, Limit \in Int, Burst \in Int
  PROVE  /\ Token!Full \in Int
         /\ Token!Refilled(t) \in Int
         /\ Token!Refilled(t) <= Token!Full
         /\ updated # None => Token!Refilled(t) <= tokens + (t - updated) * Limit
<1>1. Token!Full \in Int
  BY DEF Token!Full, Token!Capacity
<1>2. CASE updated = None
  BY <1>1, <1>2 DEF Token!Refilled
<1>3. CASE updated # None
  <2>1. tokens + (t - updated) * Limit \in Int
    BY <1>3
  <2> QED
    BY <1>1, <1>3, <2>1 DEF Token!Refilled
<1> QED
  BY <1>1, <1>2, <1>3

LEMMA TokenKeeps ==
  ASSUME TokenInv, Token!Next
  PROVE  TokenInv'
<1>1. /\ LogInv /\ CallersTypeOK
      /\ tokens \in Int /\ updated \in Int \cup {None}
      /\ Window \in Int /\ Limit \in Int /\ Limit > 0 /\ Window > 0 /\ Burst \in Int
      /\ None \notin Int
      /\ Token!Full \in Int
      /\ Potential(tokens, Token!Full) /\ Bound(Token!Full)
      /\ Charges # {} => updated \in Int
  <2>1. Burst \in Int /\ None \notin Int /\ MaxTime \in Nat
    BY MeteringAssumption
  <2> QED
    BY <2>1, TypeFacts, TokenRefilled DEF TokenInv, LogInv
<1>2. CASE Quiet /\ UNCHANGED <<tokens, updated>>
  <2>1. /\ Charges' = Charges
        /\ \A i \in Charges' :
             Flow(i, Len(log))' * Window + tokens <= Token!Full + (updated' - TimeOf(i)') * Limit
        /\ Bound(Token!Full)'
    BY <1>1, <1>2, BucketQuiet
  <2> QED
    BY <1>2, <2>1, QuietFacts DEF TokenInv, Potential
<1>3. ASSUME NEW c \in Calls, Settles(c),
             tokens' = Token!Refilled(at[c]), updated' = at[c]
      PROVE  TokenInv'
  <2>1. Quiet
    BY <1>3 DEF Quiet
  <2>2. /\ at[c] \in Int /\ at[c] \in 0..MaxTime
        /\ tokens' \in Int
        /\ updated # None => tokens' <= tokens + (at[c] - updated) * Limit
    BY <1>1, <1>3, TypeFacts, TokenRefilled
  <2>3. RestsBucket(0, at[c], tokens, tokens')
    <3>1. tokens' + (0 - 0) * Window = tokens'
      <4>1. (0 - 0) * Window = 0
        BY <1>1
      <4> QED
        BY <2>2, <4>1
    <3> QED
      BY <1>1, <2>1, <2>2, <3>1 DEF RestsBucket
  <2>4. /\ Charges' = Charges
        /\ \A i \in Charges' :
             Flow(i, Len(log))' * Window + tokens' <= Token!Full + (at[c] - TimeOf(i)') * Limit
        /\ Bound(Token!Full)'
    BY <1>1, <2>2, <2>3, BucketRest
  <2> QED
    BY <1>1, <1>3, <2>1, <2>2, <2>4, QuietFacts DEF TokenInv, Potential
<1>4. ASSUME NEW c \in Calls, Enters(c, Cost[c]), Token!Refilled(at[c]) >= Token!Parts(Cost[c]),
             tokens' = Token!Refilled(at[c]) - Token!Parts(Cost[c]), updated' = at[c]
      PROVE  TokenInv'
  <2>1. /\ at[c] \in Int /\ at[c] \in 0..MaxTime
        /\ Cost[c] \in Int /\ Cost[c] > 0
        /\ Token!Refilled(at[c]) \in Int
        /\ Token!Refilled(at[c]) <= Token!Full
        /\ updated # None => Token!Refilled(at[c]) <= tokens + (at[c] - updated) * Limit
    BY <1>1, TypeFacts, TokenRefilled
  <2>2. /\ Cost[c] * Window \in Int
        /\ tokens' \in Int
        /\ tokens' >= 0
        /\ tokens' + Cost[c] * Window = Token!Refilled(at[c])
    <3>1. Cost[c] * Window \in Int
      BY <1>1, <2>1
    <3>2. /\ tokens' = Token!Refilled(at[c]) - Cost[c] * Window
          /\ Token!Refilled(at[c]) >= Cost[c] * Window
      BY <1>4 DEF Token!Parts
    <3> QED
      BY <2>1, <3>1, <3>2
  <2>3. ChargesBucket(c, Cost[c], tokens, tokens', Token!Full)
    BY <1>1, <1>4, <2>1, <2>2 DEF ChargesBucket
  <2>4. /\ \A i \in Charges' :
             Flow(i, Len(log))' * Window + tokens' <= Token!Full + (at[c] - TimeOf(i)') * Limit
        /\ Bound(Token!Full)'
    BY <1>1, <2>1, <2>2, <2>3, BucketCharge
  <2>5. LogInv'
    BY <1>1, <1>4, <2>1, EntersFacts
  <2> QED
    BY <1>1, <1>4, <2>1, <2>2, <2>4, <2>5 DEF TokenInv, Potential
<1>5. ASSUME NEW c \in Calls, Enters(c, 0 - Cost[c]),
             tokens' = tokens + Token!Parts(Cost[c]), updated' = updated
      PROVE  TokenInv'
  <2>1. Cost[c] \in Int /\ Cost[c] > 0 /\ 0 - Cost[c] \in Int
    BY <1>1, TypeFacts
  <2>2. Cost[c] * Window \in Int /\ tokens' \in Int
    BY <1>1, <1>5, <2>1 DEF Token!Parts
  <2>3. LogInv' /\ Charges' = Charges
    <3>1. PICK m : m = Len(log) + 1
      OBVIOUS
    <3>2. ~(0 - Cost[c] > 0)
      BY <2>1
    <3> QED
      BY <1>1, <1>5, <2>1, <3>1, <3>2, EntersFacts
  <2>4. CASE Charges # {}
    <3>1. tokens' + (0 - Cost[c]) * Window <= tokens + (updated - updated) * Limit
      <4>1. (0 - Cost[c]) * Window = 0 - Cost[c] * Window
        BY <1>1, <2>1
      <4>2. (updated - updated) * Limit = 0
        BY <1>1, <2>4
      <4> QED
        BY <1>1, <1>5, <2>1, <2>2, <4>1, <4>2 DEF Token!Parts
    <3>2. RestsBucket(Cost[c], updated, tokens, tokens')
      BY <1>1, <1>5, <2>1, <3>1 DEF RestsBucket
    <3>3. /\ \A i \in Charges' :
               Flow(i, Len(log))' * Window + tokens' <= Token!Full + (updated - TimeOf(i)') * Limit
          /\ Bound(Token!Full)'
      BY <1>1, <2>1, <2>2, <2>4, <3>2, BucketRest
    <3> QED
      BY <1>1, <1>5, <2>2, <2>3, <3>3 DEF TokenInv, Potential
  <2>5. CASE Charges = {}
    BY <1>1, <1>5, <2>2, <2>3, <2>5 DEF TokenInv, Potential, Bound
  <2> QED
    BY <2>4, <2>5
<1> QED
  BY <1>1, <1>2, <1>3, <1>4, <1>5, TokenSteps

(***************************************************************************)
(* The leaky bucket: what is free in it is what the level leaves.          *)
(***************************************************************************)

LeakyInv ==
  /\ LogInv
  /\ level \in Nat
  /\ updated \in 0..MaxTime \cup {None}
  /\ updated = None => level = 0
  /\ Charges # {} => updated # None
  /\ Potential(Leaky!Full - level, Leaky!Full)
  /\ Bound(Leaky!Full)

LEMMA LeakySteps ==
  ASSUME CallersTypeOK, Leaky!Next
  PROVE  \/ Quiet /\ UNCHANGED <<level, updated>>
         \/ \E c \in Calls :
              /\ Settles(c)
              /\ level' = Leaky!Leaked(at[c]) /\ updated' = at[c]
         \/ \E c \in Calls :
              /\ Enters(c, Cost[c])
              /\ Leaky!Leaked(at[c]) + Leaky!Parts(Cost[c]) <= Leaky!Full
              /\ level' = Leaky!Leaked(at[c]) + Leaky!Parts(Cost[c]) /\ updated' = at[c]
         \/ \E c \in Calls :
              /\ Enters(c, 0 - Cost[c])
              /\ level' = Leaky!Drained(level - Leaky!Parts(Cost[c])) /\ updated' = updated
<1>1. CASE \E c \in Calls : Leaky!ReadClock(c) /\ UNCHANGED <<level, updated>>
  BY <1>1 DEF Leaky!ReadClock, Reads, Quiet
<1>2. ASSUME NEW c \in Calls, Leaky!Evaluate(c)
      PROVE  \/ Quiet /\ UNCHANGED <<level, updated>>
             \/ /\ Settles(c)
                /\ level' = Leaky!Leaked(at[c]) /\ updated' = at[c]
             \/ /\ Enters(c, Cost[c])
                /\ Leaky!Leaked(at[c]) + Leaky!Parts(Cost[c]) <= Leaky!Full
                /\ level' = Leaky!Leaked(at[c]) + Leaky!Parts(Cost[c]) /\ updated' = at[c]
  <2>1. CASE c \in Dry
    BY <1>2, <2>1 DEF Leaky!Evaluate, Leaky!Answer, Settles, Quiet
  <2>2. CASE c \notin Dry /\ ~Leaky!Allows(at[c], Cost[c])
    BY <1>2, <2>2 DEF Leaky!Evaluate, Leaky!Answer, Settles
  <2>3. CASE c \notin Dry /\ Leaky!Allows(at[c], Cost[c])
    BY <1>2, <2>3 DEF Leaky!Evaluate, Leaky!Answer, Leaky!Allows, Enters,
                      Leaky!Entry, Leaky!NetAfter, Entry, NetAfter
  <2> QED
    BY <2>1, <2>2, <2>3
<1>3. ASSUME NEW c \in Calls, Leaky!Release(c)
      PROVE  /\ Enters(c, 0 - Cost[c])
             /\ level' = Leaky!Drained(level - Leaky!Parts(Cost[c])) /\ updated' = updated
  BY <1>3 DEF Leaky!Release, Leaky!TakeBack, Enters, Leaky!Entry, Leaky!NetAfter, Entry, NetAfter
<1>4. CASE Leaky!SetClock /\ UNCHANGED <<level, updated>>
  <2>1. now \in 0..MaxTime /\ MaxTime \in Nat
    BY MeteringAssumption DEF CallersTypeOK
  <2> QED
    BY <1>4, <2>1 DEF Leaky!SetClock, Ticks, Quiet
<1> QED
  BY <1>1, <1>2, <1>3, <1>4 DEF Leaky!Next

(* The level that a call finds is no less than what was there and has not  *)
(* leaked.                                                                 *)
LEMMA LeakyLeaked ==
  ASSUME NEW t \in Int, level \in Nat, updated \in Int \cup {None}, Window \in Int, Limit \in Int, Burst \in Int
  PROVE  /\ Leaky!Full \in Int
         /\ Leaky!Leaked(t) \in Int /\ Leaky!Leaked(t) >= 0
         /\ updated # None => Leaky!Leaked(t) >= level - (t - updated) * Limit
         /\ updated # None =>
              Leaky!Leaked(t) = IF level - (t - updated) * Limit < 0 THEN 0 ELSE level - (t - updated) * Limit
<1>1. Leaky!Full \in Int
  BY DEF Leaky!Full, Leaky!Capacity
<1>2. CASE updated = None
  BY <1>1, <1>2 DEF Leaky!Leaked, Leaky!Drained
<1>3. CASE updated # None
  <2>1. level - (t - updated) * Limit \in Int
    BY <1>3
  <2> QED
    BY <1>1, <1>3, <2>1 DEF Leaky!Leaked, Leaky!Drained
<1> QED
  BY <1>1, <1>2, <1>3

LEMMA LeakyKeeps ==
  ASSUME LeakyInv, Leaky!Next
  PROVE  LeakyInv'
<1>1. /\ LogInv /\ CallersTypeOK
      /\ level \in Nat /\ updated \in Int \cup {None}
      /\ updated = None => level = 0
      /\ Window \in Int /\ Limit \in Int /\ Limit > 0 /\ Window > 0 /\ Burst \in Int
      /\ None \notin Int
      /\ Leaky!Full \in Int
      /\ Leaky!Full - level \in Int
      /\ Potential(Leaky!Full - level, Leaky!Full) /\ Bound(Leaky!Full)
      /\ Charges # {} => updated \in Int
  <2>1. Burst \in Int /\ None \notin Int /\ MaxTime \in Nat
    BY MeteringAssumption
  <2>2. CallersTypeOK
    BY DEF LeakyInv, LogInv
  <2>3. Leaky!Full \in Int
    BY <2>1, <2>2, TypeFacts DEF Leaky!Full, Leaky!Capacity
  <2> QED
    BY <2>1, <2>2, <2>3, TypeFacts DEF LeakyInv
<1>2. CASE Quiet /\ UNCHANGED <<level, updated>>
  <2>1. /\ Charges' = Charges
        /\ \A i \in Charges' :
             Flow(i, Len(log))' * Window + (Leaky!Full - level)
               <= Leaky!Full + (updated' - TimeOf(i)') * Limit
        /\ Bound(Leaky!Full)'
    BY <1>1, <1>2, BucketQuiet
  <2> QED
    BY <1>2, <2>1, QuietFacts DEF LeakyInv, Potential
<1>3. ASSUME NEW c \in Calls, Settles(c),
             level' = Leaky!Leaked(at[c]), updated' = at[c]
      PROVE  LeakyInv'
  <2>1. Quiet
    BY <1>3 DEF Quiet
  <2>2. /\ at[c] \in Int /\ at[c] \in 0..MaxTime
        /\ level' \in Nat /\ Leaky!Full - level' \in Int
        /\ updated # None => level' >= level - (at[c] - updated) * Limit
    BY <1>1, <1>3, TypeFacts, LeakyLeaked
  <2>3. RestsBucket(0, at[c], Leaky!Full - level, Leaky!Full - level')
    <3>1. (0 - 0) * Window = 0
      BY <1>1
    <3>2. Charges # {} => (at[c] - updated) * Limit \in Int
      BY <1>1, <2>2
    <3>3. Charges # {} => Leaky!Full - level' <= Leaky!Full - level + (at[c] - updated) * Limit
      BY <1>1, <2>2, <3>2
    <3> QED
      BY <1>1, <2>1, <2>2, <3>1, <3>3 DEF RestsBucket
  <2>4. /\ Charges' = Charges
        /\ \A i \in Charges' :
             Flow(i, Len(log))' * Window + (Leaky!Full - level')
               <= Leaky!Full + (at[c] - TimeOf(i)') * Limit
        /\ Bound(Leaky!Full)'
    BY <1>1, <2>2, <2>3, BucketRest
  <2> QED
    BY <1>1, <1>3, <2>1, <2>2, <2>4, QuietFacts DEF LeakyInv, Potential
<1>4. ASSUME NEW c \in Calls, Enters(c, Cost[c]),
             Leaky!Leaked(at[c]) + Leaky!Parts(Cost[c]) <= Leaky!Full,
             level' = Leaky!Leaked(at[c]) + Leaky!Parts(Cost[c]), updated' = at[c]
      PROVE  LeakyInv'
  <2>1. /\ at[c] \in Int /\ at[c] \in 0..MaxTime
        /\ Cost[c] \in Int /\ Cost[c] > 0
        /\ Leaky!Leaked(at[c]) \in Int /\ Leaky!Leaked(at[c]) >= 0
        /\ updated # None => Leaky!Leaked(at[c]) >= level - (at[c] - updated) * Limit
    BY <1>1, TypeFacts, LeakyLeaked
  <2>2. /\ Cost[c] * Window \in Int /\ Cost[c] * Window >= 0
        /\ level' = Leaky!Leaked(at[c]) + Cost[c] * Window
        /\ level' <= Leaky!Full
    BY <1>1, <1>4, <2>1 DEF Leaky!Parts
  <2>3. level' \in Nat /\ Leaky!Full - level' \in Int
    BY <1>1, <2>1, <2>2
  <2>4. ChargesBucket(c, Cost[c], Leaky!Full - level, Leaky!Full - level', Leaky!Full)
    <3>1. Charges # {} => (at[c] - updated) * Limit \in Int
      BY <1>1, <2>1
    <3>2. /\ Leaky!Full - level' >= 0
          /\ Leaky!Full - level' + Cost[c] * Window <= Leaky!Full
          /\ Charges # {} => Leaky!Full - level' + Cost[c] * Window
                              <= Leaky!Full - level + (at[c] - updated) * Limit
      BY <1>1, <2>1, <2>2, <2>3, <3>1
    <3> QED
      BY <1>1, <1>4, <2>1, <3>2 DEF ChargesBucket
  <2>5. /\ \A i \in Charges' :
             Flow(i, Len(log))' * Window + (Leaky!Full - level')
               <= Leaky!Full + (at[c] - TimeOf(i)') * Limit
        /\ Bound(Leaky!Full)'
    BY <1>1, <2>1, <2>3, <2>4, BucketCharge
  <2>6. LogInv'
    BY <1>1, <1>4, <2>1, EntersFacts
  <2> QED
    BY <1>1, <1>4, <2>1, <2>3, <2>5, <2>6 DEF LeakyInv, Potential
<1>5. ASSUME NEW c \in Calls, Enters(c, 0 - Cost[c]),
             level' = Leaky!Drained(level - Leaky!Parts(Cost[c])), updated' = updated
      PROVE  LeakyInv'
  <2>1. Cost[c] \in Int /\ Cost[c] > 0 /\ 0 - Cost[c] \in Int
    BY <1>1, TypeFacts
  <2>2. /\ Cost[c] * Window \in Int /\ Cost[c] * Window >= 0
        /\ level' \in Nat /\ Leaky!Full - level' \in Int
        /\ level' >= level - Cost[c] * Window
        /\ level = 0 => level' = 0
    BY <1>1, <1>5, <2>1 DEF Leaky!Parts, Leaky!Drained
  <2>3. LogInv' /\ Charges' = Charges
    <3>1. PICK m : m = Len(log) + 1
      OBVIOUS
    <3>2. ~(0 - Cost[c] > 0)
      BY <2>1
    <3> QED
      BY <1>1, <1>5, <2>1, <3>1, <3>2, EntersFacts
  <2>4. CASE Charges # {}
    <3>1. Leaky!Full - level' + (0 - Cost[c]) * Window <= Leaky!Full - level + (updated - updated) * Limit
      <4>1. (0 - Cost[c]) * Window = 0 - Cost[c] * Window
        BY <1>1, <2>1
      <4>2. (updated - updated) * Limit = 0
        BY <1>1, <2>4
      <4> QED
        BY <1>1, <2>2, <4>1, <4>2
    <3>2. RestsBucket(Cost[c], updated, Leaky!Full - level, Leaky!Full - level')
      BY <1>1, <1>5, <2>1, <3>1 DEF RestsBucket
    <3>3. /\ \A i \in Charges' :
               Flow(i, Len(log))' * Window + (Leaky!Full - level')
                 <= Leaky!Full + (updated - TimeOf(i)') * Limit
          /\ Bound(Leaky!Full)'
      BY <1>1, <2>1, <2>2, <2>4, <3>2, BucketRest
    <3> QED
      BY <1>1, <1>5, <2>2, <2>3, <3>3 DEF LeakyInv, Potential
  <2>5. CASE Charges = {}
    BY <1>1, <1>5, <2>2, <2>3, <2>5 DEF LeakyInv, Potential, Bound
  <2> QED
    BY <2>4, <2>5
<1> QED
  BY <1>1, <1>2, <1>3, <1>4, <1>5, LeakySteps

(***************************************************************************)
(* The middleware's bucket for a client: each request costs one token.     *)
(***************************************************************************)

VisitorInv ==
  /\ LogInv
  /\ tokens \in Int
  /\ tokens <= Visitor!Full
  /\ updated \in 0..MaxTime \cup {None}
  /\ Charges # {} => updated # None
  /\ Potential(tokens, Visitor!Full)
  /\ Bound(Visitor!Full)

(* What a request finds is no more than a second's worth, and no more than *)
(* what was left and has flowed in.                                        *)
LEMMA VisitorCounted ==
  ASSUME NEW t \in Int, tokens \in Int, updated \in Int \cup {None}, Window \in Int, Limit \in Int
  PROVE  /\ Visitor!Full \in Int
         /\ Visitor!Counted(t) \in Int
         /\ Visitor!Counted(t) <= Visitor!Full
         /\ updated # None => Visitor!Counted(t) <= tokens + (t - updated) * Limit
<1>1. Visitor!Full \in Int
  BY DEF Visitor!Full
<1>2. CASE updated = None
  BY <1>1, <1>2 DEF Visitor!Counted
<1>3. CASE updated # None
  <2>1. tokens + (t - updated) * Limit \in Int
    BY <1>3
  <2> QED
    BY <1>1, <1>3, <2>1 DEF Visitor!Counted
<1> QED
  BY <1>1, <1>2, <1>3

LEMMA VisitorTypes ==
  ASSUME VisitorInv
  PROVE  /\ LogInv /\ CallersTypeOK
         /\ tokens \in Int /\ updated \in Int \cup {None}
         /\ Window \in Int /\ Limit \in Int /\ Limit > 0 /\ Window > 0
         /\ None \notin Int
         /\ Visitor!Full \in Int
         /\ Potential(tokens, Visitor!Full) /\ Bound(Visitor!Full)
         /\ Charges # {} => updated \in Int
<1>1. None \notin Int /\ MaxTime \in Nat
  BY MeteringAssumption
<1> QED
  BY <1>1, TypeFacts, VisitorCounted DEF VisitorInv, LogInv

LEMMA VisitorSteps ==
  ASSUME VisitorInv, Visitor!Next
  PROVE  \/ Quiet /\ UNCHANGED <<tokens, updated>>
         \/ \E c \in Calls :
              /\ Settles(c)
              /\ tokens' = Visitor!Counted(at[c]) /\ updated' = at[c]
         \/ \E c \in Calls :
              /\ Enters(c, 1)
              /\ Visitor!Counted(at[c]) >= Window
              /\ tokens' = Visitor!Counted(at[c]) - Window /\ updated' = at[c]
<1>1. CASE \E c \in Calls : Visitor!ReadClock(c) /\ UNCHANGED <<tokens, updated>>
  BY <1>1 DEF Visitor!ReadClock, Reads, Quiet
<1>2. ASSUME NEW c \in Calls, Visitor!Request(c)
      PROVE  \/ /\ Settles(c)
                /\ tokens' = Visitor!Counted(at[c]) /\ updated' = at[c]
             \/ /\ Enters(c, 1)
                /\ Visitor!Counted(at[c]) >= Window
                /\ tokens' = Visitor!Counted(at[c]) - Window /\ updated' = at[c]
  <2>1. CASE ~Visitor!Admits(at[c])
    <3>1. tokens' = Visitor!Counted(at[c]) - 0
      BY <1>2, <2>1 DEF Visitor!Request
    <3>2. Settles(c) /\ updated' = at[c]
      BY <1>2, <2>1 DEF Visitor!Request, Visitor!Answer, Settles
    <3>3. Visitor!Counted(at[c]) \in Int
      BY VisitorTypes, VisitorCounted, TypeFacts
    <3> QED
      BY <3>1, <3>2, <3>3
  <2>2. CASE Visitor!Admits(at[c])
    BY <1>2, <2>2 DEF Visitor!Request, Visitor!Answer, Visitor!Admits, Enters,
                      Visitor!Entry, Visitor!NetAfter, Entry, NetAfter
  <2> QED
    BY <2>1, <2>2
<1>3. CASE Visitor!SetClock /\ UNCHANGED <<tokens, updated>>
  <2>1. now \in 0..MaxTime /\ MaxTime \in Nat
    BY MeteringAssumption, VisitorTypes DEF CallersTypeOK
  <2> QED
    BY <1>3, <2>1 DEF Visitor!SetClock, Ticks, Quiet
<1> QED
  BY <1>1, <1>2, <1>3 DEF Visitor!Next

LEMMA VisitorKeeps ==
  ASSUME VisitorInv, Visitor!Next
  PROVE  VisitorInv'
<1>1. /\ LogInv /\ CallersTypeOK
      /\ tokens \in Int /\ updated \in Int \cup {None}
      /\ Window \in Int /\ Limit \in Int /\ Limit > 0 /\ Window > 0
      /\ None \notin Int
      /\ Visitor!Full \in Int
      /\ Potential(tokens, Visitor!Full) /\ Bound(Visitor!Full)
      /\ Charges # {} => updated \in Int
  BY VisitorTypes
<1>2. CASE Quiet /\ UNCHANGED <<tokens, updated>>
  <2>1. /\ Charges' = Charges
        /\ \A i \in Charges' :
             Flow(i, Len(log))' * Window + tokens <= Visitor!Full + (updated' - TimeOf(i)') * Limit
        /\ Bound(Visitor!Full)'
    BY <1>1, <1>2, BucketQuiet
  <2> QED
    BY <1>2, <2>1, QuietFacts DEF VisitorInv, Potential, Visitor!Full
<1>3. ASSUME NEW c \in Calls, Settles(c),
             tokens' = Visitor!Counted(at[c]), updated' = at[c]
      PROVE  VisitorInv'
  <2>1. Quiet
    BY <1>3 DEF Quiet
  <2>2. /\ at[c] \in Int /\ at[c] \in 0..MaxTime
        /\ tokens' \in Int /\ tokens' <= Visitor!Full
        /\ updated # None => tokens' <= tokens + (at[c] - updated) * Limit
    BY <1>1, <1>3, TypeFacts, VisitorCounted
  <2>3. RestsBucket(0, at[c], tokens, tokens')
    <3>1. tokens' + (0 - 0) * Window = tokens'
      <4>1. (0 - 0) * Window = 0
        BY <1>1
      <4> QED
        BY <2>2, <4>1
    <3> QED
      BY <1>1, <2>1, <2>2, <3>1 DEF RestsBucket
  <2>4. /\ Charges' = Charges
        /\ \A i \in Charges' :
             Flow(i, Len(log))' * Window + tokens' <= Visitor!Full + (at[c] - TimeOf(i)') * Limit
        /\ Bound(Visitor!Full)'
    BY <1>1, <2>2, <2>3, BucketRest
  <2> QED
    BY <1>1, <1>3, <2>1, <2>2, <2>4, QuietFacts DEF VisitorInv, Potential, Visitor!Full
<1>4. ASSUME NEW c \in Calls, Enters(c, 1), Visitor!Counted(at[c]) >= Window,
             tokens' = Visitor!Counted(at[c]) - Window, updated' = at[c]
      PROVE  VisitorInv'
  <2>1. /\ at[c] \in Int /\ at[c] \in 0..MaxTime
        /\ Visitor!Counted(at[c]) \in Int
        /\ Visitor!Counted(at[c]) <= Visitor!Full
        /\ updated # None => Visitor!Counted(at[c]) <= tokens + (at[c] - updated) * Limit
    BY <1>1, TypeFacts, VisitorCounted
  <2>2. /\ tokens' \in Int
        /\ tokens' >= 0
        /\ tokens' <= Visitor!Full
        /\ tokens' + 1 * Window = Visitor!Counted(at[c])
    BY <1>1, <1>4, <2>1
  <2>3. ChargesBucket(c, 1, tokens, tokens', Visitor!Full)
    BY <1>1, <1>4, <2>1, <2>2 DEF ChargesBucket
  <2>4. /\ \A i \in Charges' :
             Flow(i, Len(log))' * Window + tokens' <= Visitor!Full + (at[c] - TimeOf(i)') * Limit
        /\ Bound(Visitor!Full)'
    BY <1>1, <2>1, <2>2, <2>3, BucketCharge
  <2>5. LogInv'
    BY <1>1, <1>4, EntersFacts
  <2> QED
    BY <1>1, <1>4, <2>1, <2>2, <2>4, <2>5 DEF VisitorInv, Potential, Visitor!Full
<1> QED
  BY <1>1, <1>2, <1>3, <1>4, VisitorSteps

(***************************************************************************)
(* When a request that a bucket denies would fit.                          *)
(***************************************************************************)

LEMMA TokenRetry ==
  ASSUME TokenInv
  PROVE  Token!RetryExact
<1>1. /\ now \in Int /\ tokens \in Int /\ updated \in Int \cup {None}
      /\ Window \in Int /\ Window > 0 /\ Limit \in Int /\ Limit > 0 /\ Burst \in Nat
  <2>1. Burst \in Nat /\ MaxTime \in Nat
    BY MeteringAssumption
  <2> QED
    BY <2>1, TypeFacts DEF TokenInv, LogInv
<1>2. Token!Capacity \in Nat /\ Token!Full \in Int
  BY <1>1 DEF Token!Capacity, Token!Full
<1> SUFFICES ASSUME NEW n \in 1..Token!Capacity, ~Token!Allows(now, n)
             PROVE  /\ Token!Parts(n) - Token!Refilled(now + Token!RetryAfter(now, n)) < Limit
                    /\ \A d \in 0..(Token!RetryAfter(now, n) - 1) : ~Token!Allows(now + d, n)
  BY DEF Token!RetryExact
<1>3. n \in Int /\ Token!Parts(n) \in Int /\ Token!Parts(n) <= Token!Full
  <2>1. n * Window <= Token!Capacity * Window
    BY <1>1, <1>2, Multiples
  <2> QED
    BY <1>1, <1>2, <2>1 DEF Token!Parts, Token!Full
<1>4. updated # None
  BY <1>1, <1>2, <1>3 DEF Token!Allows, Token!Refilled
<1>5. PICK g : g = tokens + (now - updated) * Limit
  OBVIOUS
<1>6. g \in Int
  BY <1>1, <1>4, <1>5
<1>7. ASSUME NEW d \in Int
      PROVE  /\ tokens + (now + d - updated) * Limit = g + d * Limit
             /\ d * Limit \in Int
             /\ Token!Refilled(now + d) = IF g + d * Limit > Token!Full THEN Token!Full ELSE g + d * Limit
  <2>1. (now + d - updated) * Limit = (now - updated) * Limit + d * Limit
    BY <1>1, <1>4
  <2>2. (now - updated) * Limit \in Int /\ d * Limit \in Int
    BY <1>1, <1>4
  <2> QED
    BY <1>1, <1>4, <1>5, <2>1, <2>2 DEF Token!Refilled
<1>8. Token!Refilled(now) = g /\ g < Token!Parts(n)
  <2>1. Token!Refilled(now) = IF g > Token!Full THEN Token!Full ELSE g
    BY <1>4, <1>5 DEF Token!Refilled
  <2>2. ~(Token!Refilled(now) >= Token!Parts(n))
    BY DEF Token!Allows
  <2> QED
    BY <1>2, <1>3, <1>6, <2>1, <2>2
<1>9. PICK q : q = (Token!Parts(n) - g) \div Limit
  OBVIOUS
<1>10. /\ q \in Int
       /\ Token!RetryAfter(now, n) = q
       /\ q * Limit \in Int
       /\ q * Limit <= Token!Parts(n) - g
       /\ Token!Parts(n) - g < q * Limit + Limit
  <2>1. Token!Parts(n) - g \in Int
    BY <1>3, <1>6
  <2>2. q \in Int /\ q * Limit <= Token!Parts(n) - g /\ Token!Parts(n) - g < q * Limit + Limit
    BY <1>1, <1>9, <2>1, Division
  <2> QED
    BY <1>1, <1>8, <1>9, <2>2 DEF Token!RetryAfter
<1>11. Token!Parts(n) - Token!Refilled(now + q) < Limit
  <2>1. Token!Refilled(now + q) = IF g + q * Limit > Token!Full THEN Token!Full ELSE g + q * Limit
    BY <1>7, <1>10
  <2> QED
    BY <1>1, <1>2, <1>3, <1>6, <1>10, <2>1
<1>12. ASSUME NEW d \in 0..(q - 1)
       PROVE  ~Token!Allows(now + d, n)
  <2>1. d * Limit + Limit <= q * Limit /\ d * Limit \in Int
    BY <1>1, <1>10, Multiples
  <2>2. Token!Refilled(now + d) = IF g + d * Limit > Token!Full THEN Token!Full ELSE g + d * Limit
    BY <1>7
  <2> QED
    BY <1>1, <1>2, <1>3, <1>6, <1>10, <2>1, <2>2 DEF Token!Allows
<1> QED
  BY <1>10, <1>11, <1>12

LEMMA LeakyRetry ==
  ASSUME LeakyInv
  PROVE  Leaky!RetryExact
<1>1. /\ now \in Int /\ level \in Nat /\ updated \in Int \cup {None}
      /\ updated = None => level = 0
      /\ Window \in Int /\ Window > 0 /\ Limit \in Int /\ Limit > 0 /\ Burst \in Nat
  <2>1. Burst \in Nat /\ MaxTime \in Nat
    BY MeteringAssumption
  <2> QED
    BY <2>1, TypeFacts DEF LeakyInv, LogInv
<1>2. Leaky!Capacity \in Nat /\ Leaky!Full \in Int
  BY <1>1 DEF Leaky!Capacity, Leaky!Full
<1> SUFFICES ASSUME NEW n \in 1..Leaky!Capacity, ~Leaky!Allows(now, n)
             PROVE  /\ Leaky!Leaked(now + Leaky!RetryAfter(now, n)) + Leaky!Parts(n) - Leaky!Full < Limit
                    /\ \A d \in 0..(Leaky!RetryAfter(now, n) - 1) : ~Leaky!Allows(now + d, n)
  BY DEF Leaky!RetryExact
<1>3. n \in Int /\ Leaky!Parts(n) \in Int /\ Leaky!Parts(n) <= Leaky!Full
  <2>1. n * Window <= Leaky!Capacity * Window
    BY <1>1, <1>2, Multiples
  <2> QED
    BY <1>1, <1>2, <2>1 DEF Leaky!Parts, Leaky!Full
<1>4. updated # None
  BY <1>1, <1>2, <1>3 DEF Leaky!Allows, Leaky!Leaked, Leaky!Drained
<1>5. PICK g : g = level - (now - updated) * Limit
  OBVIOUS
<1>6. g \in Int
  BY <1>1, <1>4, <1>5
<1>7. ASSUME NEW d \in Int
      PROVE  /\ d * Limit \in Int
             /\ Leaky!Leaked(now + d) = IF g - d * Limit < 0 THEN 0 ELSE g - d * Limit
  <2>1. (now + d - updated) * Limit = (now - updated) * Limit + d * Limit
    BY <1>1, <1>4
  <2>2. (now - updated) * Limit \in Int /\ d * Limit \in Int
    BY <1>1, <1>4
  <2>3. level - (now + d - updated) * Limit = g - d * Limit
    BY <1>1, <1>5, <2>1, <2>2
  <2>4. Leaky!Leaked(now + d) = IF level - (now + d - updated) * Limit < 0 THEN 0
                                ELSE level - (now + d - updated) * Limit
    <3>1. now + d \in Int /\ Burst \in Int
      BY <1>1
    <3> QED
      BY <1>1, <1>4, <3>1, LeakyLeaked
  <2> QED
    BY <2>2, <2>3, <2>4
<1>8. Leaky!Leaked(now) = g /\ g + Leaky!Parts(n) > Leaky!Full
  <2>1. Leaky!Leaked(now) = IF g < 0 THEN 0 ELSE g
    BY <1>4, <1>5 DEF Leaky!Leaked, Leaky!Drained
  <2>2. ~(Leaky!Leaked(now) + Leaky!Parts(n) <= Leaky!Full)
    BY DEF Leaky!Allows
  <2> QED
    BY <1>2, <1>3, <1>6, <2>1, <2>2
<1>9. PICK q : q = (g + Leaky!Parts(n) - Leaky!Full) \div Limit
  OBVIOUS
<1>10. /\ q \in Int
       /\ Leaky!RetryAfter(now, n) = q
       /\ q * Limit \in Int
       /\ q * Limit <= g + Leaky!Parts(n) - Leaky!Full
       /\ g + Leaky!Parts(n) - Leaky!Full < q * Limit + Limit
  <2>1. g + Leaky!Parts(n) - Leaky!Full \in Int
    BY <1>2, <1>3, <1>6
  <2>2. /\ q \in Int /\ q * Limit <= g + Leaky!Parts(n) - Leaky!Full
        /\ g + Leaky!Parts(n) - Leaky!Full < q * Limit + Limit
    BY <1>1, <1>9, <2>1, Division
  <2> QED
    BY <1>1, <1>8, <1>9, <2>2 DEF Leaky!RetryAfter
<1>11. Leaky!Leaked(now + q) + Leaky!Parts(n) - Leaky!Full < Limit
  <2>1. Leaky!Leaked(now + q) = IF g - q * Limit < 0 THEN 0 ELSE g - q * Limit
    BY <1>7, <1>10
  <2> QED
    BY <1>1, <1>2, <1>3, <1>6, <1>10, <2>1
<1>12. ASSUME NEW d \in 0..(q - 1)
       PROVE  ~Leaky!Allows(now + d, n)
  <2>1. d * Limit + Limit <= q * Limit /\ d * Limit \in Int
    BY <1>1, <1>10, Multiples
  <2>2. Leaky!Leaked(now + d) = IF g - d * Limit < 0 THEN 0 ELSE g - d * Limit
    BY <1>7
  <2> QED
    BY <1>1, <1>2, <1>3, <1>6, <1>10, <2>1, <2>2 DEF Leaky!Allows
<1> QED
  BY <1>10, <1>11, <1>12

(***************************************************************************)
(* Callers that come one at a time, in the order of their times.           *)
(***************************************************************************)

InOrder == ~Overlap /\ ~StepsBack

OrderInv == \A c \in Calls : at[c] <= now /\ (pc[c] = "read" => at[c] = now)

(* What a caller may do beside entering something in the log.              *)
Orderly ==
  /\ now <= now'
  /\ now' # now => at' = at /\ pc' = pc /\ \A c \in Calls : pc[c] # "read"
  /\ now' = now => (\E c \in Calls : Reads(c) \/ Settles(c)) \/ UNCHANGED callerVars

LEMMA OrderlyKeeps ==
  ASSUME CallersTypeOK, OrderInv, Orderly, Quiet
  PROVE  OrderInv'
<1>1. /\ now \in Int /\ now' \in Int
      /\ pc \in [Calls -> {"idle", "read", "allowed", "denied", "released"}]
      /\ at \in [Calls -> 0..MaxTime] /\ MaxTime \in Nat
  BY MeteringAssumption DEF Quiet, Reads, Settles, Ticks, callerVars, CallersTypeOK
<1>2. CASE now' # now
  BY <1>1, <1>2 DEF Orderly, OrderInv
<1>3. CASE now' = now
  BY <1>1, <1>3 DEF Orderly, OrderInv, Reads, Settles, callerVars
<1> QED
  BY <1>2, <1>3

LEMMA EntersKeepsOrder ==
  ASSUME CallersTypeOK, OrderInv, NEW c \in Calls, NEW n, Enters(c, n)
  PROVE  OrderInv'
  BY DEF CallersTypeOK, OrderInv, Enters

(***************************************************************************)
(* The grid of the fixed window.                                           *)
(***************************************************************************)

LEMMA GridFacts ==
  ASSUME NEW t \in Int, Window \in Int, Window > 0
  PROVE  /\ Fixed!Truncate(t) \in Int
         /\ Fixed!Truncate(t) = (t \div Window) * Window
         /\ t \div Window \in Int
         /\ Fixed!Truncate(t) <= t
         /\ t < Fixed!Truncate(t) + Window
<1>1. Fixed!Truncate(t) = (t \div Window) * Window
  BY Remainder DEF Fixed!Truncate
<1> QED
  BY <1>1, Division

(* Two times less than a window apart, the earlier one on the grid.        *)
LEMMA GridSame ==
  ASSUME NEW t \in Int, NEW u \in Int, Window \in Int, Window > 0,
         Fixed!Truncate(t) <= u, u < Fixed!Truncate(t) + Window
  PROVE  Fixed!Truncate(u) = Fixed!Truncate(t)
<1>1. PICK p \in Int, q \in Int : p = t \div Window /\ q = u \div Window
  BY GridFacts
<1>2. /\ Fixed!Truncate(t) = p * Window /\ Fixed!Truncate(u) = q * Window
      /\ p * Window \in Int /\ q * Window \in Int
      /\ q * Window <= u /\ u < q * Window + Window
  BY <1>1, GridFacts
<1>3. ~(p < q) /\ ~(q < p)
  BY <1>1, <1>2, Multiples
<1> QED
  BY <1>1, <1>2, <1>3

LEMMA GridMonotone ==
  ASSUME NEW t \in Int, NEW u \in Int, Window \in Int, Window > 0, t <= u
  PROVE  Fixed!Truncate(t) <= Fixed!Truncate(u)
<1>1. PICK p \in Int, q \in Int : p = t \div Window /\ q = u \div Window
  BY GridFacts
<1>2. /\ Fixed!Truncate(t) = p * Window /\ Fixed!Truncate(u) = q * Window
      /\ p * Window \in Int /\ q * Window \in Int
      /\ p * Window <= t
      /\ u < q * Window + Window
  BY <1>1, GridFacts
<1>3. p <= q
  BY <1>1, <1>2, Multiples
<1> QED
  BY <1>1, <1>2, <1>3, Multiples

(***************************************************************************)
(* The fixed window.                                                       *)
(***************************************************************************)

GridBound ==
  \A i, j \in Charges :
    i <= j /\ Fixed!Truncate(TimeOf(i)) = Fixed!Truncate(TimeOf(j)) => Flow(i, j) <= Fixed!Capacity

LEMMA FixedBound == Fixed!WindowBound <=> GridBound
  BY DEF Fixed!WindowBound, GridBound, Fixed!Charges, Charges, Fixed!TimeOf, TimeOf,
         Fixed!Flow, Flow, Fixed!NetAfter, NetAfter

(* A charge belongs to the counter's window or to an earlier one; of the   *)
(* counter's window nothing is forgotten.                                  *)
FixedInv ==
  /\ LogInv
  /\ start \in Int \cup {None}
  /\ used \in 0..Fixed!Capacity
  /\ InOrder =>
       /\ OrderInv
       /\ start # None => start <= Fixed!Truncate(now)
       /\ \A i \in Charges :
            /\ start # None
            /\ Fixed!Truncate(TimeOf(i)) <= start
            /\ Fixed!Truncate(TimeOf(i)) = start => Flow(i, Len(log)) <= used
       /\ GridBound

LEMMA FixedRetry ==
  ASSUME FixedInv
  PROVE  Fixed!RetryExact
<1>1. /\ now \in Int /\ Window \in Int /\ Window > 0
      /\ start \in Int \cup {None} /\ None \notin Int
      /\ Fixed!Capacity \in Nat
  <2>1. Limit \in Nat /\ Burst \in Nat /\ None \notin Int
    BY MeteringAssumption
  <2> QED
    BY <2>1, TypeFacts DEF FixedInv, LogInv, Fixed!Capacity
<1> SUFFICES ASSUME NEW n \in 1..Fixed!Capacity, ~Fixed!Allows(now, n)
             PROVE  /\ Fixed!Allows(now + Fixed!RetryAfter(now), n)
                    /\ \A d \in 0..(Fixed!RetryAfter(now) - 1) : ~Fixed!Allows(now + d, n)
  BY DEF Fixed!RetryExact
<1>2. PICK g \in Int : g = Fixed!Truncate(now) /\ g <= now /\ now < g + Window
  BY <1>1, GridFacts
<1>3. start = g
  <2>1. n <= Fixed!Capacity /\ 0 + n = n
    BY <1>1
  <2> QED
    BY <1>2, <2>1 DEF Fixed!Allows, Fixed!UsedAt
<1>4. Fixed!RetryAfter(now) \in Int /\ now + Fixed!RetryAfter(now) = g + Window
  BY <1>1, <1>2 DEF Fixed!RetryAfter
<1>5. Fixed!Allows(g + Window, n)
  <2>1. Fixed!Truncate(g + Window) # g
    BY <1>1, GridFacts
  <2>2. Fixed!UsedAt(g + Window) = 0
    BY <1>3, <2>1 DEF Fixed!UsedAt
  <2> QED
    BY <1>1, <2>2 DEF Fixed!Allows
<1>6. ASSUME NEW d \in 0..(Fixed!RetryAfter(now) - 1)
      PROVE  ~Fixed!Allows(now + d, n)
  <2>1. now + d \in Int /\ g <= now + d /\ now + d < g + Window
    BY <1>1, <1>2, <1>4
  <2>2. Fixed!Truncate(now + d) = g
    BY <1>1, <1>2, <2>1, GridSame
  <2>3. Fixed!UsedAt(now + d) = Fixed!UsedAt(now)
    BY <1>2, <2>2 DEF Fixed!UsedAt
  <2> QED
    BY <2>3 DEF Fixed!Allows
<1> QED
  BY <1>4, <1>5, <1>6

LEMMA FixedSteps ==
  ASSUME CallersTypeOK, Fixed!Next
  PROVE  \/ /\ Quiet /\ UNCHANGED <<start, used>>
            /\ InOrder => Orderly
         \/ \E c \in Calls :
              /\ pc[c] = "read" /\ Enters(c, Cost[c])
              /\ Fixed!UsedAt(at[c]) + Cost[c] <= Fixed!Capacity
              /\ start' = Fixed!Truncate(at[c]) /\ used' = Fixed!UsedAt(at[c]) + Cost[c]
         \/ \E c \in Calls :
              /\ Enters(c, 0 - Cost[c])
              /\ start' = start /\ used' = Fixed!LessUsed(Cost[c])
<1>0. now \in Int /\ now \in 0..MaxTime /\ MaxTime \in Nat
  BY MeteringAssumption DEF CallersTypeOK
<1>1. ASSUME NEW c \in Calls, Fixed!ReadClock(c), UNCHANGED <<start, used>>
      PROVE  Quiet /\ UNCHANGED <<start, used>> /\ Orderly
  <2>1. Reads(c) /\ UNCHANGED <<start, used>> /\ now' = now
    BY <1>1 DEF Fixed!ReadClock, Reads
  <2> QED
    BY <1>0, <2>1 DEF Quiet, Orderly
<1>2. ASSUME NEW c \in Calls, Fixed!Evaluate(c)
      PROVE  \/ Quiet /\ UNCHANGED <<start, used>> /\ Orderly
             \/ /\ pc[c] = "read" /\ Enters(c, Cost[c])
                /\ Fixed!UsedAt(at[c]) + Cost[c] <= Fixed!Capacity
                /\ start' = Fixed!Truncate(at[c]) /\ used' = Fixed!UsedAt(at[c]) + Cost[c]
  <2>1. CASE c \in Dry \/ ~Fixed!Allows(at[c], Cost[c])
    <3>1. Settles(c) /\ UNCHANGED <<start, used>> /\ now' = now
      BY <1>2, <2>1 DEF Fixed!Evaluate, Fixed!Answer, Settles
    <3> QED
      BY <1>0, <3>1 DEF Quiet, Orderly
  <2>2. CASE c \notin Dry /\ Fixed!Allows(at[c], Cost[c])
    BY <1>2, <2>2 DEF Fixed!Evaluate, Fixed!Answer, Fixed!Allows, Enters,
                      Fixed!Entry, Fixed!NetAfter, Entry, NetAfter
  <2> QED
    BY <2>1, <2>2
<1>3. ASSUME NEW c \in Calls, Fixed!Release(c)
      PROVE  /\ Enters(c, 0 - Cost[c])
             /\ start' = start /\ used' = Fixed!LessUsed(Cost[c])
  BY <1>3 DEF Fixed!Release, Fixed!TakeBack, Enters, Fixed!Entry, Fixed!NetAfter, Entry, NetAfter
<1>4. CASE Fixed!SetClock /\ UNCHANGED <<start, used>>
  <2>1. Quiet
    BY <1>0, <1>4 DEF Fixed!SetClock, Ticks, Quiet
  <2>2. InOrder => Orderly
    BY <1>0, <1>4 DEF Fixed!SetClock, InOrder, Orderly
  <2> QED
    BY <1>4, <2>1, <2>2
<1> QED
  BY <1>1, <1>2, <1>3, <1>4 DEF Fixed!Next

LEMMA FixedKeeps ==
  ASSUME FixedInv, Fixed!Next
  PROVE  FixedInv'
<1>1. /\ LogInv /\ CallersTypeOK /\ Len(log) \in Nat
      /\ now \in Int /\ now \in 0..MaxTime /\ MaxTime \in Nat
      /\ Window \in Int /\ Window > 0
      /\ start \in Int \cup {None} /\ None \notin Int
      /\ used \in Int /\ used \in 0..Fixed!Capacity
      /\ Fixed!Capacity \in Nat
      /\ Charges \subseteq 1..Len(log)
      /\ DOMAIN log = 1..Len(log)
      /\ \A i \in 0..Len(log) : NetAfter(i) \in Int
      /\ \A i \in DOMAIN log : TimeOf(i) \in Int
  <2>1. Limit \in Nat /\ Burst \in Nat /\ None \notin Int /\ MaxTime \in Nat
    BY MeteringAssumption
  <2>2. Fixed!Capacity \in Nat
    BY <2>1 DEF Fixed!Capacity
  <2>3. LogInv /\ CallersTypeOK /\ now \in 0..MaxTime
    BY DEF FixedInv, LogInv, CallersTypeOK
  <2> QED
    BY <2>1, <2>2, <2>3, TypeFacts, LogFacts DEF FixedInv
<1>0. ASSUME NEW i \in Charges
      PROVE  /\ i \in DOMAIN log /\ i - 1 \in 0..Len(log) /\ i \in 0..Len(log)
             /\ Flow(i, Len(log)) \in Int /\ TimeOf(i) \in Int
  <2>1. i \in DOMAIN log /\ i - 1 \in 0..Len(log) /\ i \in 0..Len(log) /\ Len(log) \in 0..Len(log)
    BY <1>1
  <2> QED
    BY <1>1, <2>1 DEF Flow
<1>2. CASE Quiet /\ UNCHANGED <<start, used>> /\ (InOrder => Orderly)
  <2>1. /\ LogInv' /\ log' = log
        /\ \A i \in 0..Len(log) : NetAfter(i)' = NetAfter(i)
        /\ \A i \in DOMAIN log : TimeOf(i)' = TimeOf(i)
        /\ Charges' = Charges
    BY <1>1, <1>2, QuietFacts
  <2>2. ASSUME NEW i \in Charges
        PROVE  /\ TimeOf(i)' = TimeOf(i)
               /\ Flow(i, Len(log))' = Flow(i, Len(log))
               /\ \A j \in Charges : Flow(i, j)' = Flow(i, j)
    <3>1. NetAfter(i - 1)' = NetAfter(i - 1) /\ NetAfter(Len(log))' = NetAfter(Len(log))
      BY <1>0, <1>1, <2>1 DEF NetAfter
    <3> QED
      BY <1>0, <2>1, <3>1 DEF Flow
  <2>3. start' \in Int \cup {None} /\ used' \in 0..Fixed!Capacity
    BY <1>1, <1>2
  <2>4. ASSUME InOrder
        PROVE  /\ OrderInv'
               /\ start' # None => start' <= Fixed!Truncate(now')
               /\ \A i \in Charges' :
                    /\ start' # None
                    /\ Fixed!Truncate(TimeOf(i)') <= start'
                    /\ Fixed!Truncate(TimeOf(i)') = start' => Flow(i, Len(log))' <= used'
               /\ GridBound'
    <3>1. OrderInv'
      BY <1>1, <1>2, <2>4, OrderlyKeeps DEF FixedInv
    <3>2. ASSUME start' # None
          PROVE  start' <= Fixed!Truncate(now')
      <4>1. now' \in Int /\ now <= now'
        BY <1>2, <2>1, <2>4, TypeFacts, MeteringAssumption DEF Orderly, LogInv, CallersTypeOK
      <4>2. Fixed!Truncate(now) <= Fixed!Truncate(now')
        BY <1>1, <4>1, GridMonotone
      <4>3. start <= Fixed!Truncate(now) /\ start \in Int
        BY <1>1, <1>2, <2>4, <3>2 DEF FixedInv
      <4>4. Fixed!Truncate(now) \in Int /\ Fixed!Truncate(now') \in Int
        BY <1>1, <4>1, GridFacts
      <4> QED
        BY <1>2, <4>2, <4>3, <4>4
    <3>3. ASSUME NEW i \in Charges'
          PROVE  /\ start' # None
                 /\ Fixed!Truncate(TimeOf(i)') <= start'
                 /\ Fixed!Truncate(TimeOf(i)') = start' => Flow(i, Len(log))' <= used'
      BY <1>2, <2>1, <2>2, <2>4 DEF FixedInv
    <3>4. GridBound'
      BY <2>1, <2>2, <2>4 DEF FixedInv, GridBound
    <3> QED
      BY <3>1, <3>2, <3>3, <3>4
  <2> QED
    BY <2>1, <2>3, <2>4 DEF FixedInv
<1>3. ASSUME NEW c \in Calls, pc[c] = "read", Enters(c, Cost[c]),
             Fixed!UsedAt(at[c]) + Cost[c] <= Fixed!Capacity,
             start' = Fixed!Truncate(at[c]), used' = Fixed!UsedAt(at[c]) + Cost[c]
      PROVE  FixedInv'
  <2>1. PICK m : m = Len(log) + 1
    OBVIOUS
  <2>2. /\ at[c] \in Int /\ at[c] \in 0..MaxTime
        /\ Cost[c] \in Int /\ Cost[c] > 0
        /\ m \in Int
    BY <1>1, <2>1, TypeFacts
  <2>3. /\ LogInv'
        /\ Len(log') = m
        /\ \A i \in 0..Len(log) : NetAfter(i)' = NetAfter(i)
        /\ NetAfter(m)' = NetAfter(Len(log)) + Cost[c]
        /\ \A i \in DOMAIN log : TimeOf(i)' = TimeOf(i)
        /\ TimeOf(m)' = at[c]
        /\ Charges' = Charges \cup {m}
    BY <1>1, <1>3, <2>1, <2>2, EntersFacts
  <2>4. /\ start' \in Int /\ start' # None
        /\ Fixed!UsedAt(at[c]) \in Nat
        /\ used' \in Int /\ used' \in 0..Fixed!Capacity
    <3>1. Fixed!Truncate(at[c]) \in Int
      BY <1>1, <2>2, GridFacts
    <3>2. Fixed!UsedAt(at[c]) \in Nat
      BY <1>1 DEF Fixed!UsedAt
    <3> QED
      BY <1>1, <1>3, <2>2, <3>1, <3>2
  <2>5. ASSUME InOrder
        PROVE  /\ OrderInv'
               /\ start' <= Fixed!Truncate(now')
               /\ \A i \in Charges' :
                    /\ Fixed!Truncate(TimeOf(i)') <= start'
                    /\ Fixed!Truncate(TimeOf(i)') = start' => Flow(i, Len(log))' <= used'
               /\ GridBound'
    <3>1. OrderInv'
      BY <1>1, <1>3, <2>5, EntersKeepsOrder DEF FixedInv
    <3>2. at[c] = now /\ now' = now
      BY <1>3, <2>5 DEF FixedInv, OrderInv, Enters
    <3>3. start' <= Fixed!Truncate(now')
      BY <1>3, <2>4, <3>2
    <3>4. ASSUME NEW i \in Charges
          PROVE  /\ TimeOf(i)' = TimeOf(i)
                 /\ Flow(i, m)' = Flow(i, Len(log)) + Cost[c]
                 /\ Fixed!Truncate(TimeOf(i)) <= start'
                 /\ Fixed!Truncate(TimeOf(i)) = start' => Flow(i, m)' <= used'
      <4>1. TimeOf(i)' = TimeOf(i) /\ NetAfter(i - 1)' = NetAfter(i - 1)
        BY <1>0, <2>3
      <4>2. Flow(i, m)' = Flow(i, Len(log)) + Cost[c]
        <5>1. NetAfter(i - 1) \in Int /\ NetAfter(Len(log)) \in Int
          BY <1>0, <1>1
        <5> QED
          BY <2>2, <2>3, <4>1, <5>1 DEF Flow
      <4>3. /\ start # None /\ start \in Int
            /\ Fixed!Truncate(TimeOf(i)) <= start
            /\ Fixed!Truncate(TimeOf(i)) = start => Flow(i, Len(log)) <= used
            /\ start <= Fixed!Truncate(now)
        BY <1>1, <2>5 DEF FixedInv
      <4>4. Fixed!Truncate(TimeOf(i)) \in Int /\ start' = Fixed!Truncate(now)
        BY <1>0, <1>1, <1>3, <3>2, GridFacts
      <4>5. Fixed!Truncate(TimeOf(i)) <= start'
        BY <2>4, <4>3, <4>4
      <4>6. ASSUME Fixed!Truncate(TimeOf(i)) = start'
            PROVE  Flow(i, m)' <= used'
        <5>1. start = start' /\ Fixed!Truncate(TimeOf(i)) = start
          BY <2>4, <4>3, <4>4, <4>6
        <5>2. used' = used + Cost[c]
          BY <1>3, <5>1 DEF Fixed!UsedAt
        <5> QED
          BY <1>0, <1>1, <2>2, <4>2, <4>3, <5>1, <5>2
      <4> QED
        BY <4>1, <4>2, <4>5, <4>6
    <3>5. /\ Fixed!Truncate(TimeOf(m)') = start'
          /\ Flow(m, m)' = Cost[c]
          /\ Flow(m, m)' <= used'
      <4>1. Flow(m, m)' = Cost[c]
        <5>1. m - 1 = Len(log) /\ Len(log) \in 0..Len(log)
          BY <1>1, <2>1
        <5>2. NetAfter(m - 1)' = NetAfter(Len(log)) /\ NetAfter(Len(log)) \in Int
          BY <1>1, <2>3, <5>1
        <5> QED
          BY <2>2, <2>3, <5>2 DEF Flow
      <4> QED
        BY <1>3, <2>2, <2>3, <2>4, <4>1
    <3>6. ASSUME NEW i \in Charges'
          PROVE  /\ Fixed!Truncate(TimeOf(i)') <= start'
                 /\ Fixed!Truncate(TimeOf(i)') = start' => Flow(i, m)' <= used'
                 /\ Flow(i, m)' \in Int
      BY <1>0, <2>2, <2>3, <2>4, <3>4, <3>5
    <3>7. ASSUME NEW i \in Charges', NEW j \in Charges', i <= j,
                 Fixed!Truncate(TimeOf(i)') = Fixed!Truncate(TimeOf(j)')
          PROVE  Flow(i, j)' <= Fixed!Capacity
      <4>1. CASE j = m
        <5>1. Flow(i, m)' <= used' /\ Flow(i, m)' \in Int
          BY <3>5, <3>6, <3>7, <4>1
        <5> QED
          BY <1>1, <2>4, <4>1, <5>1
      <4>2. CASE j # m
        <5>1. i \in Charges /\ j \in Charges
          BY <1>0, <1>1, <2>1, <2>3, <3>7, <4>2
        <5>2. /\ TimeOf(i)' = TimeOf(i) /\ TimeOf(j)' = TimeOf(j)
              /\ NetAfter(i - 1)' = NetAfter(i - 1) /\ NetAfter(j)' = NetAfter(j)
          BY <1>0, <2>3, <5>1
        <5>3. Flow(i, j)' = Flow(i, j)
          BY <5>2 DEF Flow
        <5> QED
          BY <2>5, <3>7, <5>1, <5>2, <5>3 DEF FixedInv, GridBound
      <4> QED
        BY <4>1, <4>2
    <3> QED
      BY <2>3, <3>1, <3>3, <3>6, <3>7 DEF GridBound
  <2> QED
    BY <2>3, <2>4, <2>5 DEF FixedInv
<1>4. ASSUME NEW c \in Calls, Enters(c, 0 - Cost[c]),
             start' = start, used' = Fixed!LessUsed(Cost[c])
      PROVE  FixedInv'
  <2>1. PICK m : m = Len(log) + 1
    OBVIOUS
  <2>2. /\ Cost[c] \in Int /\ Cost[c] > 0 /\ 0 - Cost[c] \in Int /\ ~(0 - Cost[c] > 0)
        /\ m \in Int
    BY <1>1, <2>1, TypeFacts
  <2>3. /\ LogInv'
        /\ Len(log') = m
        /\ \A i \in 0..Len(log) : NetAfter(i)' = NetAfter(i)
        /\ NetAfter(m)' = NetAfter(Len(log)) + (0 - Cost[c])
        /\ \A i \in DOMAIN log : TimeOf(i)' = TimeOf(i)
        /\ Charges' = Charges
    BY <1>1, <1>4, <2>1, <2>2, EntersFacts
  <2>4. used' \in Int /\ used' \in 0..Fixed!Capacity /\ used' >= used - Cost[c]
    BY <1>1, <1>4, <2>2 DEF Fixed!LessUsed
  <2>5. ASSUME NEW i \in Charges
        PROVE  /\ TimeOf(i)' = TimeOf(i)
               /\ Flow(i, m)' = Flow(i, Len(log)) - Cost[c]
               /\ \A j \in Charges : Flow(i, j)' = Flow(i, j)
    <3>1. TimeOf(i)' = TimeOf(i) /\ NetAfter(i - 1)' = NetAfter(i - 1)
      BY <1>0, <2>3
    <3>2. NetAfter(i - 1) \in Int /\ NetAfter(Len(log)) \in Int
      BY <1>0, <1>1
    <3>3. \A j \in Charges : NetAfter(j)' = NetAfter(j)
      BY <1>0, <2>3
    <3> QED
      BY <2>2, <2>3, <3>1, <3>2, <3>3 DEF Flow
  <2>6. ASSUME InOrder
        PROVE  /\ OrderInv'
               /\ start' # None => start' <= Fixed!Truncate(now')
               /\ \A i \in Charges' :
                    /\ start' # None
                    /\ Fixed!Truncate(TimeOf(i)') <= start'
                    /\ Fixed!Truncate(TimeOf(i)') = start' => Flow(i, Len(log))' <= used'
               /\ GridBound'
    <3>1. OrderInv'
      BY <1>1, <1>4, <2>6, EntersKeepsOrder DEF FixedInv
    <3>2. start' # None => start' <= Fixed!Truncate(now')
      BY <1>4, <2>6 DEF FixedInv, Enters
    <3>3. ASSUME NEW i \in Charges
          PROVE  /\ start' # None
                 /\ Fixed!Truncate(TimeOf(i)') <= start'
                 /\ Fixed!Truncate(TimeOf(i)') = start' => Flow(i, m)' <= used'
      <4>1. Flow(i, Len(log)) \in Int
        BY <1>0
      <4>2. Fixed!Truncate(TimeOf(i)) = start => Flow(i, Len(log)) <= used
        BY <2>6 DEF FixedInv
      <4>3. Fixed!Truncate(TimeOf(i)) = start => Flow(i, m)' <= used'
        BY <1>1, <2>2, <2>4, <2>5, <4>1, <4>2
      <4> QED
        BY <1>4, <2>5, <2>6, <4>3 DEF FixedInv
    <3>4. GridBound'
      BY <2>3, <2>5, <2>6 DEF FixedInv, GridBound
    <3> QED
      BY <2>3, <3>1, <3>2, <3>3, <3>4
  <2> QED
    BY <1>1, <1>4, <2>3, <2>4, <2>6 DEF FixedInv
<1> QED
  BY <1>1, <1>2, <1>3, <1>4, FixedSteps

(***************************************************************************)
(* Sums of costs.                                                          *)
(***************************************************************************)

Costs == Seq([at : Int, cost : Nat \ {0}])

(* f[i] is what the first i events cost.                                   *)
SumsOf(f, s) ==
  /\ f \in [0..Len(s) -> Int]
  /\ f[0] = 0
  /\ \A i \in 1..Len(s) : f[i] = f[i - 1] + s[i].cost

LEMMA CostsFacts ==
  ASSUME NEW s \in Costs
  PROVE  /\ Len(s) \in Nat
         /\ DOMAIN s = 1..Len(s)
         /\ \A i \in 1..Len(s) : s[i] \in [at : Int, cost : Nat \ {0}]
         /\ \A i \in 1..Len(s) : s[i].at \in Int /\ s[i].cost \in Int /\ s[i].cost > 0
<1>1. /\ Len(s) \in Nat
      /\ DOMAIN s = 1..Len(s)
      /\ \A i \in 1..Len(s) : s[i] \in [at : Int, cost : Nat \ {0}]
  BY LenProperties, ElementOfSeq DEF Costs
<1> QED
  BY <1>1

LEMMA SumsExist ==
  ASSUME NEW s \in Costs
  PROVE  \E f : SumsOf(f, s)
<1> DEFINE Partial(f, n) == /\ f \in [0..n -> Int]
                            /\ f[0] = 0
                            /\ \A i \in 1..n : f[i] = f[i - 1] + s[i].cost
           T == {n \in 0..Len(s) : ~\E f : Partial(f, n)}
<1>1. Len(s) \in Nat /\ \A i \in 1..Len(s) : s[i].cost \in Int
  BY CostsFacts
<1>2. SUFFICES ASSUME T # {} PROVE FALSE
  <2>1. Len(s) \in 0..Len(s)
    BY <1>1
  <2> QED
    BY <2>1 DEF SumsOf
<1>3. PICK m \in T : \A k \in T : m <= k
  <2>1. T \subseteq Nat
    OBVIOUS
  <2> QED
    BY <1>2, <2>1, LeastElement
<1>4. m # 0
  <2>1. Partial([i \in 0..0 |-> 0], 0)
    OBVIOUS
  <2> QED
    BY <2>1
<1>5. m \in 1..Len(s) /\ m - 1 \in 0..Len(s) /\ m - 1 \notin T
  <2> HIDE DEF Partial
  <2>1. m \in 0..Len(s)
    BY <1>3
  <2>2. m \in 1..Len(s) /\ m - 1 \in 0..Len(s) /\ ~(m <= m - 1)
    BY <1>1, <1>4, <2>1
  <2> QED
    BY <1>3, <2>2
<1>6. PICK f : Partial(f, m - 1)
  BY <1>5
<1>7. Partial([i \in 0..m |-> IF i = m THEN f[m - 1] + s[m].cost ELSE f[i]], m)
  <2> DEFINE g == [i \in 0..m |-> IF i = m THEN f[m - 1] + s[m].cost ELSE f[i]]
  <2>1. m \in Nat /\ m - 1 \in 0..(m - 1) /\ f \in [0..(m - 1) -> Int] /\ s[m].cost \in Int
    BY <1>1, <1>5, <1>6
  <2>2. \A i \in 0..m : i # m => i \in 0..(m - 1)
    BY <2>1
  <2>3. g \in [0..m -> Int]
    BY <2>1, <2>2
  <2>4. g[0] = 0
    BY <1>4, <1>6, <2>1
  <2>5. ASSUME NEW i \in 1..m
        PROVE  g[i] = g[i - 1] + s[i].cost
    <3>1. i \in 0..m /\ i - 1 \in 0..m /\ i - 1 # m
      BY <2>1
    <3>2. CASE i = m
      BY <3>1, <3>2
    <3>3. CASE i # m
      <4>1. i \in 1..(m - 1)
        BY <2>1, <3>3
      <4> QED
        BY <1>6, <3>1, <3>3, <4>1
    <3> QED
      BY <3>2, <3>3
  <2> QED
    BY <2>3, <2>4, <2>5
<1> QED
  BY <1>5, <1>7

Sums(s) == CHOOSE f : SumsOf(f, s)

LEMMA SumsFacts ==
  ASSUME NEW s \in Costs
  PROVE  SumsOf(Sums(s), s)
  BY SumsExist DEF Sums

(* Two functions that start alike and rise alike are the same.             *)
LEMMA SameSteps ==
  ASSUME NEW n \in Nat, NEW f \in [0..n -> Int], NEW g \in [0..n -> Int], f[0] = g[0],
         \A i \in 1..n : f[i] - f[i - 1] = g[i] - g[i - 1]
  PROVE  \A i \in 0..n : f[i] = g[i]
<1> DEFINE T == {i \in 0..n : f[i] # g[i]}
<1> SUFFICES ASSUME T # {} PROVE FALSE
  OBVIOUS
<1>1. PICK m \in T : \A k \in T : m <= k
  <2>1. T \subseteq Nat
    OBVIOUS
  <2> QED
    BY <2>1, LeastElement
<1>2. m \in 1..n /\ m - 1 \in 0..n /\ m - 1 \notin T
  BY <1>1
<1>3. f[m - 1] = g[m - 1] /\ f[m] - f[m - 1] = g[m] - g[m - 1]
  BY <1>2
<1>4. f[m - 1] \in Int /\ f[m] \in Int /\ g[m] \in Int
  BY <1>1, <1>2
<1> QED
  BY <1>1, <1>3, <1>4

(* The sum that the code's loop computes is the last one.                  *)
LEMMA TotalSums ==
  ASSUME NEW s \in Costs
  PROVE  Sliding!Total(s) = Sums(s)[Len(s)]
<1> DEFINE Loop(f) == f = [i \in 0..Len(s) |-> IF i = 0 THEN 0 ELSE f[i - 1] + s[i].cost]
           total == CHOOSE f : Loop(f)
<1>1. Len(s) \in Nat /\ \A i \in 1..Len(s) : s[i].cost \in Int
  BY CostsFacts
<1>2. Sliding!Total(s) = total[Len(s)]
  BY Zenon DEF Sliding!Total
<1>3. Loop(Sums(s))
  <2>1. \A i \in 0..Len(s) : i # 0 => i \in 1..Len(s)
    BY <1>1
  <2> QED
    BY <2>1, SumsFacts DEF SumsOf
<1>4. Loop(total)
  BY <1>3
<1> HIDE DEF total
<1>5. total \in [0..Len(s) -> Int]
  <2> SUFFICES ASSUME {i \in 0..Len(s) : total[i] \notin Int} # {} PROVE FALSE
    BY <1>4
  <2> DEFINE T == {i \in 0..Len(s) : total[i] \notin Int}
  <2>1. PICK m \in T : \A k \in T : m <= k
    <3>1. T \subseteq Nat
      OBVIOUS
    <3> QED
      BY <3>1, LeastElement
  <2>2. m # 0
    <3>1. 0 \in 0..Len(s)
      BY <1>1
    <3>2. total[0] = 0
      BY <1>4, <3>1
    <3> QED
      BY <2>1, <3>2
  <2>3. m \in 1..Len(s) /\ m - 1 \in 0..Len(s) /\ m - 1 \notin T
    BY <1>1, <2>1, <2>2
  <2>4. total[m] = total[m - 1] + s[m].cost
    BY <1>4, <2>2, <2>3
  <2> QED
    BY <1>1, <2>1, <2>3, <2>4
<1>6. total[0] = 0 /\ \A i \in 1..Len(s) : total[i] = total[i - 1] + s[i].cost
  <2>1. 0 \in 0..Len(s) /\ \A i \in 1..Len(s) : i \in 0..Len(s) /\ i # 0
    BY <1>1
  <2> QED
    BY <1>4, <2>1
<1>7. Sums(s) \in [0..Len(s) -> Int] /\ Sums(s)[0] = 0
      /\ \A i \in 1..Len(s) : Sums(s)[i] = Sums(s)[i - 1] + s[i].cost
  BY SumsFacts DEF SumsOf
<1>8. \A i \in 1..Len(s) : total[i] - total[i - 1] = Sums(s)[i] - Sums(s)[i - 1]
  <2> TAKE i \in 1..Len(s)
  <2>1. i \in 0..Len(s) /\ i - 1 \in 0..Len(s)
    BY <1>1
  <2>2. total[i - 1] \in Int /\ Sums(s)[i - 1] \in Int /\ s[i].cost \in Int
    BY <1>1, <1>5, <1>7, <2>1
  <2>3. total[i] = total[i - 1] + s[i].cost /\ Sums(s)[i] = Sums(s)[i - 1] + s[i].cost
    BY <1>6, <1>7
  <2> QED
    BY <2>2, <2>3
<1>9. total[Len(s)] = Sums(s)[Len(s)]
  <2>1. \A i \in 0..Len(s) : total[i] = Sums(s)[i]
    BY <1>1, <1>5, <1>6, <1>7, <1>8, SameSteps
  <2> QED
    BY <1>1, <2>1
<1> QED
  BY <1>2, <1>9

LEMMA SumsTypes ==
  ASSUME NEW s \in Costs
  PROVE  \A i \in 0..Len(s) : Sums(s)[i] \in Int
  BY SumsFacts DEF SumsOf

LEMMA SumsGrow ==
  ASSUME NEW s \in Costs, NEW i \in 0..Len(s), NEW j \in 0..Len(s), i <= j
  PROVE  Sums(s)[i] + (j - i) <= Sums(s)[j]
<1> DEFINE T == {k \in i..Len(s) : ~(Sums(s)[i] + (k - i) <= Sums(s)[k])}
<1>1. Len(s) \in Nat /\ \A k \in 1..Len(s) : s[k].cost \in Int /\ s[k].cost > 0
  BY CostsFacts
<1>2. \A k \in 1..Len(s) : Sums(s)[k] = Sums(s)[k - 1] + s[k].cost
  BY SumsFacts DEF SumsOf
<1>3. \A k \in 0..Len(s) : Sums(s)[k] \in Int
  BY SumsTypes
<1> SUFFICES ASSUME T # {} PROVE FALSE
  BY <1>1
<1>4. PICK m \in T : \A k \in T : m <= k
  <2>1. T \subseteq Nat
    BY <1>1
  <2> QED
    BY <2>1, LeastElement
<1>5. m \in Int /\ m \in i..Len(s) /\ m \in 0..Len(s) /\ m # i
  BY <1>1, <1>3, <1>4
<1>6. m \in 1..Len(s) /\ m - 1 \in 0..Len(s) /\ m - 1 \in i..Len(s) /\ ~(m <= m - 1)
  BY <1>1, <1>5
<1>7. m - 1 \notin T
  BY <1>4, <1>6
<1>8. Sums(s)[i] + (m - 1 - i) <= Sums(s)[m - 1]
  BY <1>6, <1>7
<1>9. Sums(s)[m] = Sums(s)[m - 1] + s[m].cost /\ s[m].cost \in Int /\ s[m].cost > 0
      /\ Sums(s)[m] \in Int /\ Sums(s)[m - 1] \in Int /\ Sums(s)[i] \in Int
  BY <1>1, <1>2, <1>3, <1>6, <1>5
<1>10. Sums(s)[i] + (m - i) <= Sums(s)[m]
  <2>1. i \in Int /\ (m - 1 - i) + 1 = m - i
    BY <1>1, <1>5
  <2>2. \A a, b, c, d, e \in Int : a + (e - 1 - d) <= b /\ c > 0 => a + (e - d) <= b + c
    OBVIOUS
  <2> QED
    BY <1>5, <1>8, <1>9, <2>1, <2>2
<1> QED
  BY <1>4, <1>10

LEMMA SumsAppend ==
  ASSUME NEW s \in Costs, NEW e \in [at : Int, cost : Nat \ {0}], NEW m, m = Len(s) + 1
  PROVE  /\ Append(s, e) \in Costs
         /\ Len(Append(s, e)) = m
         /\ Append(s, e)[m] = e
         /\ \A i \in 1..Len(s) : Append(s, e)[i] = s[i]
         /\ \A i \in 0..Len(s) : Sums(Append(s, e))[i] = Sums(s)[i]
         /\ Sums(Append(s, e))[m] = Sums(s)[Len(s)] + e.cost
<1>1. PICK u : u = Append(s, e)
  OBVIOUS
<1>2. /\ u \in Costs
      /\ Len(u) = m
      /\ u[m] = e
      /\ \A i \in 1..Len(s) : u[i] = s[i]
      /\ m \in Nat /\ Len(s) \in Nat
  BY <1>1, AppendProperties, LenProperties DEF Costs
<1> DEFINE f == [i \in 0..Len(s) |-> Sums(u)[i]]
           g == [i \in 0..Len(s) |-> Sums(s)[i]]
<1>3. /\ Sums(u)[0] = 0 /\ \A i \in 1..m : Sums(u)[i] = Sums(u)[i - 1] + u[i].cost
      /\ Sums(s)[0] = 0 /\ \A i \in 1..Len(s) : Sums(s)[i] = Sums(s)[i - 1] + s[i].cost
      /\ \A i \in 0..m : Sums(u)[i] \in Int
      /\ \A i \in 0..Len(s) : Sums(s)[i] \in Int
      /\ \A i \in 1..Len(s) : s[i].cost \in Int
  BY <1>2, SumsFacts, SumsTypes, CostsFacts DEF SumsOf
<1>4. \A i \in 0..Len(s) : f[i] = g[i]
  <2>1. f \in [0..Len(s) -> Int] /\ g \in [0..Len(s) -> Int] /\ f[0] = g[0]
    BY <1>2, <1>3
  <2>2. ASSUME NEW i \in 1..Len(s)
        PROVE  f[i] - f[i - 1] = g[i] - g[i - 1]
    <3>1. i \in 0..Len(s) /\ i - 1 \in 0..Len(s) /\ i \in 1..m /\ i \in 0..m /\ i - 1 \in 0..m
      BY <1>2
    <3>2. Sums(u)[i] = Sums(u)[i - 1] + s[i].cost /\ Sums(s)[i] = Sums(s)[i - 1] + s[i].cost
      BY <1>2, <1>3, <3>1
    <3>3. Sums(u)[i - 1] \in Int /\ Sums(s)[i - 1] \in Int /\ s[i].cost \in Int
      BY <1>3, <3>1
    <3> QED
      BY <3>1, <3>2, <3>3
  <2> HIDE DEF f, g
  <2> QED
    BY <1>2, <2>1, <2>2, SameSteps
<1>5. Sums(u)[m] = Sums(s)[Len(s)] + e.cost
  <2>1. m \in 1..m /\ m - 1 = Len(s) /\ Len(s) \in 0..Len(s)
    BY <1>2
  <2>2. Sums(u)[m] = Sums(u)[m - 1] + u[m].cost
    BY <1>3, <2>1
  <2> QED
    BY <1>2, <1>4, <2>1, <2>2
<1> QED
  BY <1>1, <1>2, <1>4, <1>5

(* What is left of the events when k are cut off at the front.             *)
From(s, k) == SubSeq(s, k + 1, Len(s))

LEMMA SumsSuffix ==
  ASSUME NEW s \in Costs, NEW k \in 0..Len(s), NEW u, u = From(s, k)
  PROVE  /\ u \in Costs
         /\ Len(u) = Len(s) - k
         /\ \A i \in 1..Len(u) : u[i] = s[k + i]
         /\ \A i \in 0..Len(u) : Sums(u)[i] = Sums(s)[k + i] - Sums(s)[k]
<1>1. Len(s) \in Nat /\ k \in Nat /\ Len(s) - k \in Nat
  BY CostsFacts
<1>2. /\ u \in Costs
      /\ Len(u) = Len(s) - k
      /\ \A i \in 1..Len(u) : u[i] = s[k + i]
  <2>1. /\ k + 1 \in Int /\ Len(s) \in Int
        /\ \A i \in (k + 1)..Len(s) : s[i] \in [at : Int, cost : Nat \ {0}]
    <3>1. \A i \in (k + 1)..Len(s) : i \in 1..Len(s)
      BY <1>1
    <3> QED
      BY <1>1, <3>1, CostsFacts
  <2>2. /\ u \in Seq([at : Int, cost : Nat \ {0}])
        /\ Len(u) = IF k + 1 <= Len(s) THEN Len(s) - (k + 1) + 1 ELSE 0
        /\ \A i \in 1..(Len(s) - (k + 1) + 1) : u[i] = s[(k + 1) + i - 1]
    BY <2>1, SubSeqProperties DEF From
  <2>3. Len(u) = Len(s) - k /\ Len(s) - (k + 1) + 1 = Len(s) - k
    BY <1>1, <2>2
  <2>4. ASSUME NEW i \in 1..Len(u)
        PROVE  (k + 1) + i - 1 = k + i
    <3>1. Len(s) - k \in Int
      BY <1>1
    <3>2. Len(u) \in Int
      BY <2>3, <3>1, Zenon
    <3> QED
      BY <1>1, <3>2
  <2> QED
    BY <2>2, <2>3, <2>4 DEF Costs
<1> DEFINE f == [i \in 0..Len(u) |-> Sums(u)[i]]
           g == [i \in 0..Len(u) |-> Sums(s)[k + i] - Sums(s)[k]]
<1>3. /\ Sums(u)[0] = 0 /\ \A i \in 1..Len(u) : Sums(u)[i] = Sums(u)[i - 1] + u[i].cost
      /\ \A i \in 1..Len(s) : Sums(s)[i] = Sums(s)[i - 1] + s[i].cost
      /\ \A i \in 0..Len(u) : Sums(u)[i] \in Int
      /\ \A i \in 0..Len(s) : Sums(s)[i] \in Int
      /\ \A i \in 1..Len(s) : s[i].cost \in Int
  BY <1>2, SumsFacts, SumsTypes, CostsFacts DEF SumsOf
<1>4. \A i \in 0..Len(u) : f[i] = g[i]
  <2>1. ASSUME NEW i \in 0..Len(u)
        PROVE  k + i \in 0..Len(s)
    BY <1>1, <1>2
  <2>2. f \in [0..Len(u) -> Int] /\ g \in [0..Len(u) -> Int] /\ f[0] = g[0]
    <3>1. k + 0 = k /\ k \in 0..Len(s) /\ 0 \in 0..Len(u)
      BY <1>1, <1>2
    <3> QED
      BY <1>3, <2>1, <3>1
  <2>3. ASSUME NEW i \in 1..Len(u)
        PROVE  f[i] - f[i - 1] = g[i] - g[i - 1]
    <3>1. /\ i \in 0..Len(u) /\ i - 1 \in 0..Len(u)
          /\ k + i \in 1..Len(s) /\ k + (i - 1) = (k + i) - 1 /\ k + (i - 1) \in 0..Len(s)
      BY <1>1, <1>2
    <3>2. /\ Sums(u)[i] = Sums(u)[i - 1] + s[k + i].cost
          /\ Sums(s)[k + i] = Sums(s)[k + (i - 1)] + s[k + i].cost
      BY <1>2, <1>3, <3>1
    <3>3. /\ Sums(u)[i - 1] \in Int /\ Sums(s)[k + (i - 1)] \in Int
          /\ s[k + i].cost \in Int /\ Sums(s)[k] \in Int
      BY <1>3, <3>1
    <3>4. f[i] = Sums(u)[i] /\ f[i - 1] = Sums(u)[i - 1]
          /\ g[i] = Sums(s)[k + i] - Sums(s)[k] /\ g[i - 1] = Sums(s)[k + (i - 1)] - Sums(s)[k]
      BY <3>1
    <3>5. \A a, b, c, d \in Int : (a + c) - a = ((b + c) - d) - (b - d)
      OBVIOUS
    <3>6. /\ f[i] - f[i - 1] = (Sums(u)[i - 1] + s[k + i].cost) - Sums(u)[i - 1]
          /\ g[i] - g[i - 1] = ((Sums(s)[k + (i - 1)] + s[k + i].cost) - Sums(s)[k])
                                - (Sums(s)[k + (i - 1)] - Sums(s)[k])
      BY <3>2, <3>4, Zenon
    <3> HIDE DEF f, g
    <3> QED
      BY <3>3, <3>5, <3>6
  <2> HIDE DEF f, g
  <2>4. Len(u) \in Nat
    BY <1>1, <1>2
  <2> QED
    BY <2>2, <2>3, <2>4, SameSteps
<1> QED
  BY <1>2, <1>4

(***************************************************************************)
(* Binary search, among n positions of which W are to be found.            *)
(***************************************************************************)

Half(f, W, i, j) ==
  IF i >= j THEN i
  ELSE IF (i + j) \div 2 + 1 \in W THEN f[<<i, (i + j) \div 2>>]
  ELSE f[<<(i + j) \div 2 + 1, j>>]

Searches(f, n, W) ==
  /\ f \in [(0..n) \X (0..n) -> Int]
  /\ \A i, j \in 0..n : f[<<i, j>>] = Half(f, W, i, j)

LEMMA Middle ==
  ASSUME NEW i \in Int, NEW j \in Int, i < j
  PROVE  /\ (i + j) \div 2 \in Int
         /\ i <= (i + j) \div 2
         /\ (i + j) \div 2 < j
  OBVIOUS

LEMMA SearchesExist ==
  ASSUME NEW n \in Nat, NEW W
  PROVE  \E f : Searches(f, n, W)
<1> DEFINE Partial(f, d) == /\ f \in [(0..n) \X (0..n) -> Int]
                            /\ \A i, j \in 0..n : j - i <= d => f[<<i, j>>] = Half(f, W, i, j)
           T == {d \in 0..n : ~\E f : Partial(f, d)}
<1>1. SUFFICES ASSUME T # {} PROVE FALSE
  <2>1. PICK f : Partial(f, n)
    <3> HIDE DEF Partial
    <3>1. n \in 0..n
      OBVIOUS
    <3> QED
      BY <1>1, <3>1
  <2>2. \A i, j \in 0..n : j - i <= n
    OBVIOUS
  <2> QED
    BY <2>1, <2>2 DEF Searches
<1>2. PICK m \in T : \A k \in T : m <= k
  <2>1. T \subseteq Nat
    OBVIOUS
  <2> QED
    BY <1>1, <2>1, LeastElement
<1>3. m # 0
  <2> DEFINE f == [r \in (0..n) \X (0..n) |-> r[1]]
  <2>1. f \in [(0..n) \X (0..n) -> Int]
    OBVIOUS
  <2>2. ASSUME NEW i \in 0..n, NEW j \in 0..n, j - i <= 0
        PROVE  f[<<i, j>>] = Half(f, W, i, j)
    <3>1. i >= j
      BY <2>2
    <3> QED
      BY <3>1 DEF Half
  <2>3. Partial(f, 0)
    BY <2>1, <2>2
  <2> QED
    BY <2>3
<1>4. m \in 1..n /\ m - 1 \in 0..n /\ m - 1 \notin T
  <2> HIDE DEF Partial
  <2>1. m \in 0..n
    BY <1>2
  <2>2. m \in 1..n /\ m - 1 \in 0..n /\ ~(m <= m - 1)
    BY <1>3, <2>1
  <2> QED
    BY <1>2, <2>2
<1>5. PICK f : Partial(f, m - 1)
  BY <1>4
<1> DEFINE g == [r \in (0..n) \X (0..n) |-> IF r[2] - r[1] = m THEN Half(f, W, r[1], r[2]) ELSE f[r]]
<1>6. ASSUME NEW i \in 0..n, NEW j \in 0..n
      PROVE  Half(f, W, i, j) \in Int /\ f[<<i, j>>] \in Int
  <2>1. f[<<i, j>>] \in Int
    BY <1>5
  <2>2. CASE i >= j
    BY <2>1, <2>2 DEF Half
  <2>3. CASE i < j
    <3>1. (i + j) \div 2 \in 0..n /\ (i + j) \div 2 + 1 \in 0..n
      BY <2>3, Middle
    <3>2. f[<<i, (i + j) \div 2>>] \in Int /\ f[<<(i + j) \div 2 + 1, j>>] \in Int
      BY <1>5, <3>1
    <3> QED
      BY <2>1, <2>3, <3>2 DEF Half
  <2> QED
    BY <2>2, <2>3
<1>7. g \in [(0..n) \X (0..n) -> Int]
  BY <1>6
<1>8. ASSUME NEW i \in 0..n, NEW j \in 0..n, j - i <= m
      PROVE  g[<<i, j>>] = Half(g, W, i, j)
  <2>0. m \in Int /\ m > 0
    BY <1>4
  <2>1. ASSUME NEW k \in 0..n, NEW l \in 0..n, l - k <= m - 1
        PROVE  g[<<k, l>>] = f[<<k, l>>]
    BY <2>0, <2>1
  <2>2. Half(g, W, i, j) = Half(f, W, i, j)
    <3>1. CASE i >= j
      BY <3>1 DEF Half
    <3>2. CASE i < j
      <4>1. /\ (i + j) \div 2 \in 0..n /\ (i + j) \div 2 + 1 \in 0..n
            /\ (i + j) \div 2 - i <= m - 1 /\ j - ((i + j) \div 2 + 1) <= m - 1
        BY <1>8, <2>0, <3>2, Middle
      <4>2. /\ g[<<i, (i + j) \div 2>>] = f[<<i, (i + j) \div 2>>]
            /\ g[<<(i + j) \div 2 + 1, j>>] = f[<<(i + j) \div 2 + 1, j>>]
        BY <2>1, <4>1
      <4> HIDE DEF g
      <4> QED
        BY <4>2 DEF Half
    <3> QED
      BY <3>1, <3>2
  <2>3. g[<<i, j>>] = Half(f, W, i, j)
    <3>1. CASE j - i = m
      BY <3>1
    <3>2. CASE j - i # m
      <4>1. j - i <= m - 1
        BY <1>8, <2>0, <3>2
      <4>2. f[<<i, j>>] = Half(f, W, i, j)
        BY <1>5, <4>1
      <4> QED
        BY <2>1, <4>1, <4>2
    <3> QED
      BY <3>1, <3>2
  <2> HIDE DEF g
  <2> QED
    BY <2>2, <2>3
<1>9. Partial(g, m)
  <2> HIDE DEF g
  <2> QED
    BY <1>7, <1>8
<1> QED
  <2> HIDE DEF g, Partial
  <2>1. m \in T
    BY <1>2
  <2> QED
    BY <1>9, <2>1

(* What is found is between the ends; if W is all from some position on,   *)
(* it is how many positions come before.                                   *)
Upwards(W, n) == \A k, l \in 1..n : k <= l /\ k \in W => l \in W

LEMMA SearchesFind ==
  ASSUME NEW n \in Nat, NEW W, NEW f, \A i, j \in 0..n : f[<<i, j>>] = Half(f, W, i, j)
  PROVE  \A i, j \in 0..n :
           i <= j =>
             /\ f[<<i, j>>] \in i..j
             /\ Upwards(W, n) => \A k \in (i + 1)..j : k \in W <=> k > f[<<i, j>>]
<1> DEFINE Found(i, j) == /\ f[<<i, j>>] \in i..j
                          /\ Upwards(W, n) => \A k \in (i + 1)..j : k \in W <=> k > f[<<i, j>>]
           T == {d \in 0..n : \E i, j \in 0..n : j - i = d /\ ~Found(i, j)}
<1>1. SUFFICES ASSUME T # {} PROVE FALSE
  <2> HIDE DEF Found
  <2>1. \A i, j \in 0..n : i <= j => j - i \in 0..n
    OBVIOUS
  <2>2. \A i, j \in 0..n : i <= j => Found(i, j)
    BY <1>1, <2>1
  <2> QED
    BY <2>2 DEF Found
<1>2. PICK m \in T : \A k \in T : m <= k
  <2>1. T \subseteq Nat
    OBVIOUS
  <2> QED
    BY <1>1, <2>1, LeastElement
<1>3. PICK i \in 0..n, j \in 0..n : j - i = m /\ ~Found(i, j)
  BY <1>2
<1>4. m \in Nat /\ i \in Int /\ j \in Int /\ i <= j
  BY <1>2, <1>3
<1>5. ASSUME NEW k \in 0..n, NEW l \in 0..n, k <= l, l - k < m
      PROVE  Found(k, l)
  <2> HIDE DEF Found
  <2>1. l - k \in 0..n /\ ~(m <= l - k)
    BY <1>4, <1>5
  <2> QED
    BY <1>2, <2>1
<1>6. f[<<i, j>>] = Half(f, W, i, j)
  OBVIOUS
<1>7. CASE i = j
  <2>1. f[<<i, j>>] = i
    BY <1>4, <1>6, <1>7 DEF Half
  <2>2. Found(i, j)
    BY <1>4, <1>7, <2>1
  <2> QED
    BY <1>3, <2>2
<1>8. CASE i < j
  <2>1. PICK mid : mid = (i + j) \div 2
    OBVIOUS
  <2>2. mid \in Int /\ i <= mid /\ mid < j /\ mid \in 0..n /\ mid + 1 \in 0..n /\ mid + 1 \in 1..n
    BY <1>4, <1>8, <2>1, Middle
  <2>3. Found(i, mid) /\ Found(mid + 1, j)
    <3>1. mid - i < m /\ j - (mid + 1) < m /\ mid + 1 <= j
      BY <1>3, <1>4, <2>2
    <3> HIDE DEF Found
    <3> QED
      BY <1>5, <2>2, <3>1
  <2>4. CASE mid + 1 \in W
    <3>1. f[<<i, j>>] = f[<<i, mid>>]
      BY <1>6, <1>4, <1>8, <2>1, <2>4 DEF Half
    <3>2. f[<<i, mid>>] \in i..mid
      BY <2>3
    <3>3. ASSUME Upwards(W, n), NEW k \in (i + 1)..j
          PROVE  k \in W <=> k > f[<<i, mid>>]
      <4>1. CASE k <= mid
        <5>1. k \in (i + 1)..mid
          BY <1>4, <2>2, <4>1
        <5> QED
          BY <2>3, <3>3, <5>1
      <4>2. CASE k > mid
        <5>1. k \in 1..n /\ mid + 1 <= k
          BY <1>4, <2>2, <4>2
        <5>2. k \in W
          BY <2>2, <2>4, <3>3, <5>1 DEF Upwards
        <5> QED
          BY <2>2, <3>2, <4>2, <5>1, <5>2
      <4> QED
        BY <1>4, <2>2, <4>1, <4>2
    <3>4. f[<<i, j>>] \in i..j
      BY <1>4, <2>2, <3>1, <3>2
    <3>5. Found(i, j)
      BY <3>1, <3>3, <3>4
    <3> QED
      BY <1>3, <3>5
  <2>5. CASE mid + 1 \notin W
    <3>1. f[<<i, j>>] = f[<<mid + 1, j>>]
      BY <1>6, <1>4, <1>8, <2>1, <2>5 DEF Half
    <3>2. f[<<mid + 1, j>>] \in (mid + 1)..j
      BY <2>3
    <3>3. ASSUME Upwards(W, n), NEW k \in (i + 1)..j
          PROVE  k \in W <=> k > f[<<mid + 1, j>>]
      <4>1. CASE k <= mid + 1
        <5>1. k \in 1..n
          BY <1>4, <2>2, <4>1
        <5>2. k \notin W
          BY <2>2, <2>5, <3>3, <4>1, <5>1 DEF Upwards
        <5> QED
          BY <2>2, <3>2, <4>1, <5>1, <5>2
      <4>2. CASE k > mid + 1
        <5>1. k \in ((mid + 1) + 1)..j
          BY <1>4, <2>2, <4>2
        <5> QED
          BY <2>3, <3>3, <5>1
      <4> QED
        BY <1>4, <2>2, <4>1, <4>2
    <3>4. f[<<i, j>>] \in i..j
      BY <1>4, <2>2, <3>1, <3>2
    <3>5. Found(i, j)
      BY <3>1, <3>3, <3>4
    <3> QED
      BY <1>3, <3>5
  <2> QED
    BY <2>4, <2>5
<1> QED
  BY <1>4, <1>7, <1>8

(* What the sliding window's search finds.                                 *)
LEMMA SearchFacts ==
  ASSUME Len(events) \in Nat, NEW t
  PROVE  /\ Sliding!Search(t) \in 0..Len(events)
         /\ (\A k, l \in 1..Len(events) :
               k <= l /\ Sliding!InWindow(events[k], t) => Sliding!InWindow(events[l], t))
            => \A k \in 1..Len(events) : Sliding!InWindow(events[k], t) <=> k > Sliding!Search(t)
<1> DEFINE n == Len(events)
           W == {k \in 1..n : Sliding!InWindow(events[k], t)}
           Narrow(f, i, j) == IF i >= j THEN i
                            ELSE IF Sliding!InWindow(events[(i + j) \div 2 + 1], t)
                            THEN f[<<i, (i + j) \div 2>>]
                            ELSE f[<<(i + j) \div 2 + 1, j>>]
           Solves(f) == f = [range \in (0..n) \X (0..n) |-> Narrow(f, range[1], range[2])]
           search == CHOOSE f : Solves(f)
<1>1. Sliding!Search(t) = search[<<0, n>>]
  BY Zenon DEF Sliding!Search
<1>2. PICK f : Searches(f, n, W)
  BY SearchesExist
<1>3. Solves(f)
  <2>1. ASSUME NEW i \in 0..n, NEW j \in 0..n
        PROVE  f[<<i, j>>] = IF i >= j THEN i
                         ELSE IF Sliding!InWindow(events[(i + j) \div 2 + 1], t) THEN f[<<i, (i + j) \div 2>>]
                         ELSE f[<<(i + j) \div 2 + 1, j>>]
    <3>1. f[<<i, j>>] = Half(f, W, i, j)
      BY <1>2 DEF Searches
    <3>2. CASE i >= j
      BY <3>1, <3>2 DEF Half
    <3>3. CASE i < j
      <4>1. (i + j) \div 2 + 1 \in 1..n
        BY <3>3, Middle
      <4>2. (i + j) \div 2 + 1 \in W <=> Sliding!InWindow(events[(i + j) \div 2 + 1], t)
        BY <4>1
      <4>3. ~(i >= j)
        BY <3>3
      <4> HIDE DEF W
      <4> QED
        BY <3>1, <4>2, <4>3, Zenon DEF Half
    <3> QED
      BY <3>2, <3>3
  <2>2. f \in [(0..n) \X (0..n) -> Int]
    BY <1>2 DEF Searches
  <2> QED
    BY <2>1, <2>2
<1>4. Solves(search)
  BY <1>3
<1> HIDE DEF search
<1>5. /\ search[<<0, n>>] \in 0..n
      /\ Upwards(W, n) => \A k \in 1..n : k \in W <=> k > search[<<0, n>>]
  <2>1. ASSUME NEW i \in 0..n, NEW j \in 0..n
        PROVE  search[<<i, j>>] = Half(search, W, i, j)
    <3>1. search[<<i, j>>] = Narrow(search, i, j)
      BY <1>4
    <3>2. CASE i >= j
      BY <3>1, <3>2 DEF Half
    <3>3. CASE i < j
      <4>1. (i + j) \div 2 + 1 \in 1..n
        BY <3>3, Middle
      <4>2. (i + j) \div 2 + 1 \in W <=> Sliding!InWindow(events[(i + j) \div 2 + 1], t)
        BY <4>1
      <4>3. ~(i >= j)
        BY <3>3
      <4> HIDE DEF W
      <4> QED
        BY <3>1, <4>2, <4>3, Zenon DEF Half
    <3> QED
      BY <3>2, <3>3
  <2>2. 0 \in 0..n /\ n \in 0..n /\ 0 <= n /\ 0 + 1 = 1
    OBVIOUS
  <2> HIDE DEF W
  <2>3. \A i, j \in 0..n :
          i <= j =>
            /\ search[<<i, j>>] \in i..j
            /\ Upwards(W, n) => \A k \in (i + 1)..j : k \in W <=> k > search[<<i, j>>]
    BY <2>1, SearchesFind
  <2> QED
    BY <2>2, <2>3
<1>6. ASSUME \A k, l \in 1..n : k <= l /\ Sliding!InWindow(events[k], t) => Sliding!InWindow(events[l], t)
      PROVE  Upwards(W, n)
  BY <1>6 DEF Upwards
<1>7. \A k \in 1..n : k \in W <=> Sliding!InWindow(events[k], t)
  OBVIOUS
<1> HIDE DEF W
<1>8. Sliding!Search(t) \in 0..n
  BY <1>1, <1>5
<1>9. ASSUME Upwards(W, n)
      PROVE  \A k \in 1..n : Sliding!InWindow(events[k], t) <=> k > Sliding!Search(t)
  BY <1>1, <1>5, <1>7, <1>9
<1> QED
  BY <1>6, <1>8, <1>9

(***************************************************************************)
(* The events of the sliding window.                                       *)
(***************************************************************************)

(* What the events after the first k cost.                                 *)
Rest(s, k) == Sums(s)[Len(s)] - Sums(s)[k]

LEMMA RestFacts ==
  ASSUME NEW s \in Costs
  PROVE  /\ \A k \in 0..Len(s) : Rest(s, k) \in Nat
         /\ Rest(s, Len(s)) = 0
         /\ \A k, l \in 0..Len(s) : k <= l => Rest(s, l) <= Rest(s, k)
         /\ \A k \in 1..Len(s) : Rest(s, k - 1) = Rest(s, k) + s[k].cost
<1>1. /\ Len(s) \in Nat /\ Len(s) \in 0..Len(s)
      /\ \A k \in 1..Len(s) : s[k].cost \in Int
      /\ \A k \in 0..Len(s) : Sums(s)[k] \in Int
      /\ \A k \in 1..Len(s) : Sums(s)[k] = Sums(s)[k - 1] + s[k].cost
  <2>1. Len(s) \in Nat /\ \A k \in 1..Len(s) : s[k].cost \in Int
    BY CostsFacts
  <2>2. \A k \in 0..Len(s) : Sums(s)[k] \in Int
    BY SumsTypes
  <2>3. \A k \in 1..Len(s) : Sums(s)[k] = Sums(s)[k - 1] + s[k].cost
    BY SumsFacts DEF SumsOf
  <2> QED
    BY <2>1, <2>2, <2>3
<1>2. ASSUME NEW k \in 0..Len(s), NEW l \in 0..Len(s), k <= l
      PROVE  Sums(s)[k] <= Sums(s)[l]
  <2>1. Sums(s)[k] + (l - k) <= Sums(s)[l] /\ l - k >= 0
    BY <1>1, <1>2, SumsGrow
  <2> QED
    BY <1>1, <2>1
<1>3. \A k \in 0..Len(s) : Rest(s, k) \in Nat
  BY <1>1, <1>2 DEF Rest
<1>4. \A k, l \in 0..Len(s) : k <= l => Rest(s, l) <= Rest(s, k)
  BY <1>1, <1>2 DEF Rest
<1>5. ASSUME NEW k \in 1..Len(s)
      PROVE  Rest(s, k - 1) = Rest(s, k) + s[k].cost
  <2>1. k \in 0..Len(s) /\ k - 1 \in 0..Len(s)
    BY <1>1
  <2> QED
    BY <1>1, <2>1 DEF Rest
<1>6. Rest(s, Len(s)) = 0
  BY <1>1 DEF Rest
<1> QED
  BY <1>3, <1>4, <1>5, <1>6

LEMMA RestSuffix ==
  ASSUME NEW s \in Costs, NEW k \in 0..Len(s)
  PROVE  /\ From(s, k) \in Costs
         /\ Sliding!Total(From(s, k)) = Rest(s, k)
         /\ \A l \in k..Len(s) : Rest(From(s, k), l - k) = Rest(s, l)
<1>1. PICK u : u = From(s, k)
  OBVIOUS
<1>2. /\ u \in Costs
      /\ Len(u) = Len(s) - k
      /\ \A i \in 0..Len(u) : Sums(u)[i] = Sums(s)[k + i] - Sums(s)[k]
  BY <1>1, SumsSuffix
<1>3. /\ Len(s) \in Nat /\ k \in Nat /\ Len(u) \in Nat
      /\ \A i \in 0..Len(s) : Sums(s)[i] \in Int
  <2>1. Len(s) \in Nat /\ Len(u) \in Nat
    BY <1>2, CostsFacts
  <2>2. \A i \in 0..Len(s) : Sums(s)[i] \in Int
    BY SumsTypes
  <2> QED
    BY <2>1, <2>2
<1>4. Sums(u)[Len(u)] = Sums(s)[Len(s)] - Sums(s)[k]
  <2>1. Len(u) \in 0..Len(u) /\ k + Len(u) = Len(s)
    BY <1>2, <1>3
  <2> QED
    BY <1>2, <2>1
<1>5. Sliding!Total(u) = Rest(s, k)
  BY <1>2, <1>4, TotalSums DEF Rest
<1>6. ASSUME NEW l \in k..Len(s)
      PROVE  Rest(u, l - k) = Rest(s, l)
  <2>1. l - k \in 0..Len(u) /\ k + (l - k) = l /\ l \in 0..Len(s) /\ Len(s) \in 0..Len(s)
    BY <1>2, <1>3
  <2>2. Sums(u)[l - k] = Sums(s)[l] - Sums(s)[k]
    BY <1>2, <2>1
  <2>3. Sums(s)[l] \in Int /\ Sums(s)[k] \in Int /\ Sums(s)[Len(s)] \in Int
    BY <1>3, <2>1
  <2> QED
    BY <1>4, <2>2, <2>3 DEF Rest
<1> QED
  BY <1>1, <1>2, <1>5, <1>6

LEMMA RestAppend ==
  ASSUME NEW s \in Costs, NEW e \in [at : Int, cost : Nat \ {0}]
  PROVE  \A k \in 0..Len(s) : Rest(Append(s, e), k) = Rest(s, k) + e.cost
<1>1. PICK m : m = Len(s) + 1
  OBVIOUS
<1>2. /\ Len(Append(s, e)) = m
      /\ \A i \in 0..Len(s) : Sums(Append(s, e))[i] = Sums(s)[i]
      /\ Sums(Append(s, e))[m] = Sums(s)[Len(s)] + e.cost
  BY <1>1, SumsAppend
<1>3. Len(s) \in 0..Len(s) /\ \A i \in 0..Len(s) : Sums(s)[i] \in Int
  BY CostsFacts, SumsTypes
<1> QED
  BY <1>2, <1>3 DEF Rest

(* What is left of an event when n units are taken from the newest on.     *)
Above(x, n) == IF x > n THEN x - n ELSE 0

LEMMA LeftOverFacts ==
  ASSUME events \in Costs, NEW n \in Nat, NEW i \in 1..Len(events)
  PROVE  /\ Sliding!LeftOver(i, n) = Above(Rest(events, i - 1), n) - Above(Rest(events, i), n)
         /\ Sliding!LeftOver(i, n) \in Nat
         /\ Sliding!LeftOver(i, n) > 0 <=> Rest(events, i - 1) > n
<1>1. /\ i \in 0..Len(events) /\ i - 1 \in 0..Len(events)
      /\ events[i].cost \in Int /\ events[i].cost > 0
  BY CostsFacts
<1>2. /\ Rest(events, i) \in Nat /\ Rest(events, i - 1) \in Nat
      /\ Rest(events, i - 1) = Rest(events, i) + events[i].cost
      /\ Sliding!Total(SubSeq(events, i + 1, Len(events))) = Rest(events, i)
  BY <1>1, RestFacts, RestSuffix DEF From
<1>3. PICK r, c : r = Rest(events, i) /\ c = events[i].cost
  OBVIOUS
<1>4. Sliding!LeftOver(i, n) = IF (IF n > r THEN n - r ELSE 0) < c
                               THEN c - (IF n > r THEN n - r ELSE 0) ELSE 0
  BY <1>2, <1>3, Zenon DEF Sliding!LeftOver
<1>5. CASE n > r
  <2>1. Sliding!LeftOver(i, n) = IF n - r < c THEN c - (n - r) ELSE 0
    BY <1>4, <1>5, Zenon
  <2> QED
    BY <1>1, <1>2, <1>3, <1>5, <2>1 DEF Above
<1>6. CASE ~(n > r)
  <2>1. Sliding!LeftOver(i, n) = IF 0 < c THEN c - 0 ELSE 0
    BY <1>4, <1>6, Zenon
  <2> QED
    BY <1>1, <1>2, <1>3, <1>6, <2>1 DEF Above
<1> QED
  BY <1>5, <1>6

(* Release leaves the oldest events, of the same times; what it takes from *)
(* the events after any one is no more than n.                             *)
LEMMA DeductedFacts ==
  ASSUME events \in Costs, NEW n \in Nat, NEW u, u = Sliding!Deducted(n)
  PROVE  \E K \in 0..Len(events) :
           /\ u \in Costs
           /\ Len(u) = K
           /\ \A i \in 1..K : u[i].at = events[i].at
           /\ \A k \in 0..K : Rest(events, k) - n <= Rest(u, k)
           /\ \A k \in K..Len(events) : Rest(events, k) <= n
<1> DEFINE N == Len(events)
           T == {k \in 0..N : Rest(events, k) <= n}
           left == Sliding!Drawn(n)
<1>1. /\ N \in Nat /\ DOMAIN events = 1..N
      /\ \A k \in 0..N : Rest(events, k) \in Nat
      /\ Rest(events, N) = 0
      /\ \A k, l \in 0..N : k <= l => Rest(events, l) <= Rest(events, k)
      /\ \A i \in 1..N : events[i] \in [at : Int, cost : Nat \ {0}]
  BY CostsFacts, RestFacts
<1> HIDE DEF N
<1>2. PICK K \in T : \A k \in T : K <= k
  <2>1. T \subseteq Nat
    OBVIOUS
  <2>2. N \in T
    BY <1>1
  <2> QED
    BY <2>1, <2>2, LeastElement
<1>3. K \in 0..N /\ K \in Nat /\ Rest(events, K) <= n
  BY <1>2
<1>4. \A k \in K..N : Rest(events, k) <= n
  <2> TAKE k \in K..N
  <2>1. k \in 0..N /\ K <= k
    BY <1>3, <1>1
  <2>2. Rest(events, k) <= Rest(events, K) /\ Rest(events, k) \in Nat /\ Rest(events, K) \in Nat
    BY <1>1, <1>3, <2>1
  <2> QED
    BY <1>3, <2>2
<1>5. ASSUME NEW i \in 1..N
      PROVE  Sliding!LeftOver(i, n) > 0 <=> i <= K
  <2>1. Sliding!LeftOver(i, n) > 0 <=> Rest(events, i - 1) > n
    BY <1>5, LeftOverFacts DEF N
  <2>2. i - 1 \in 0..N
    BY <1>1
  <2>3. CASE i <= K
    <3>1. i - 1 \notin T
      BY <1>2, <1>3, <2>2, <2>3
    <3>2. Rest(events, i - 1) > n
      BY <1>1, <2>2, <3>1
    <3> QED
      BY <2>1, <2>3, <3>2
  <2>4. CASE ~(i <= K)
    <3>1. i - 1 \in K..N
      BY <1>1, <1>3, <2>4
    <3>2. ~(Rest(events, i - 1) > n)
      BY <1>1, <1>4, <2>2, <3>1
    <3> QED
      BY <2>1, <2>4, <3>2
  <2> QED
    BY <2>3, <2>4
<1>6. Cardinality({i \in DOMAIN events : Sliding!LeftOver(i, n) > 0}) = K
  <2>1. {i \in DOMAIN events : Sliding!LeftOver(i, n) > 0} = 1..K
    BY <1>1, <1>3, <1>5
  <2>2. Cardinality(1..K) = K
    BY <1>3, FS_Interval
  <2> QED
    BY <2>1, <2>2
<1>7. u = SubSeq(left, 1, K)
  <2>1. \A S : Sliding!Cardinality(S) = Cardinality(S)
    BY Zenon DEF Sliding!Cardinality, Cardinality, Sliding!IsFiniteSet, IsFiniteSet
  <2> QED
    BY <1>6, <2>1, Zenon DEF Sliding!Deducted
<1>8. ASSUME NEW i \in 1..K
      PROVE  /\ left[i] \in [at : Int, cost : Nat \ {0}]
             /\ left[i].at = events[i].at
             /\ left[i].cost = Above(Rest(events, i - 1), n) - Above(Rest(events, i), n)
  <2>1. i \in 1..N
    BY <1>1, <1>3
  <2>2. /\ Sliding!LeftOver(i, n) = Above(Rest(events, i - 1), n) - Above(Rest(events, i), n)
        /\ Sliding!LeftOver(i, n) \in Nat \ {0}
    <3>1. Sliding!LeftOver(i, n) > 0
      BY <1>3, <1>5, <2>1
    <3> QED
      BY <2>1, <3>1, LeftOverFacts DEF N
  <2>3. left[i] = [events[i] EXCEPT !.cost = Sliding!LeftOver(i, n)]
    BY <1>1, <2>1 DEF Sliding!Drawn
  <2> HIDE DEF left
  <2> QED
    BY <1>1, <2>1, <2>2, <2>3
<1> HIDE DEF left
<1>9. /\ u \in Costs
      /\ Len(u) = K
      /\ \A i \in 1..K : u[i] = left[i]
  <2>1. /\ u \in Seq([at : Int, cost : Nat \ {0}])
        /\ Len(u) = IF 1 <= K THEN K - 1 + 1 ELSE 0
        /\ \A i \in 1..(K - 1 + 1) : u[i] = left[1 + i - 1]
    BY <1>3, <1>7, <1>8, SubSeqProperties
  <2>2. K - 1 + 1 = K /\ \A i \in 1..K : 1 + i - 1 = i
    BY <1>3
  <2>3. Len(u) = K
    BY <1>3, <2>1
  <2>4. \A i \in 1..K : u[i] = left[i]
    BY <2>1, <2>2
  <2> QED
    BY <2>1, <2>3, <2>4 DEF Costs
<1>10. \A k \in 0..N : Above(Rest(events, k), n) \in Nat
  BY <1>1 DEF Above
<1>11. ASSUME NEW k \in 0..K
       PROVE  Sums(u)[k] = Above(Rest(events, 0), n) - Above(Rest(events, k), n)
  <2> DEFINE f == Sums(u)
             g == [i \in 0..K |-> Above(Rest(events, 0), n) - Above(Rest(events, i), n)]
  <2>1. f \in [0..K -> Int] /\ f[0] = 0 /\ \A i \in 1..K : f[i] = f[i - 1] + left[i].cost
    BY <1>9, SumsFacts DEF SumsOf
  <2>2. \A i \in 0..K : i \in 0..N
    BY <1>1, <1>3
  <2>3. g \in [0..K -> Int] /\ g[0] = 0
    <3>1. 0 \in 0..K
      BY <1>3
    <3> QED
      BY <1>10, <2>2, <3>1
  <2>4. ASSUME NEW i \in 1..K
        PROVE  f[i] - f[i - 1] = g[i] - g[i - 1]
    <3>1. i \in 0..K /\ i - 1 \in 0..K /\ 0 \in 0..K
      BY <1>3
    <3>2. /\ g[i] = Above(Rest(events, 0), n) - Above(Rest(events, i), n)
          /\ g[i - 1] = Above(Rest(events, 0), n) - Above(Rest(events, i - 1), n)
      BY <3>1
    <3>3. /\ Above(Rest(events, 0), n) \in Nat /\ Above(Rest(events, i), n) \in Nat
          /\ Above(Rest(events, i - 1), n) \in Nat
      BY <1>10, <2>2, <3>1
    <3>4. f[i] = f[i - 1] + (Above(Rest(events, i - 1), n) - Above(Rest(events, i), n)) /\ f[i - 1] \in Int
      BY <1>8, <2>1, <3>1
    <3> HIDE DEF f, g
    <3> QED
      BY <3>2, <3>3, <3>4
  <2> HIDE DEF f, g
  <2>5. \A i \in 0..K : f[i] = g[i]
    BY <1>3, <2>1, <2>3, <2>4, SameSteps
  <2>6. f[k] = g[k]
    BY <2>5
  <2> QED
    BY <2>6 DEF f, g
<1>12. ASSUME NEW k \in 0..K
       PROVE  Rest(events, k) - n <= Rest(u, k)
  <2>1. K \in 0..K /\ K \in 0..N /\ k \in 0..N /\ 0 \in 0..N
    BY <1>1, <1>3
  <2>2. Rest(u, k) = (Above(Rest(events, 0), n) - Above(Rest(events, K), n))
                     - (Above(Rest(events, 0), n) - Above(Rest(events, k), n))
    BY <1>9, <1>11, <2>1 DEF Rest
  <2>3. Above(Rest(events, K), n) = 0
    BY <1>1, <1>3 DEF Above
  <2>4. Above(Rest(events, k), n) >= Rest(events, k) - n /\ Rest(events, k) \in Nat
    BY <1>1, <2>1 DEF Above
  <2>5. Above(Rest(events, 0), n) \in Nat /\ Above(Rest(events, k), n) \in Nat
    BY <1>10, <2>1
  <2> QED
    BY <2>2, <2>3, <2>4, <2>5
<1> QED
  BY <1>3, <1>4, <1>8, <1>9, <1>12 DEF N

(***************************************************************************)
(* The sliding window.                                                     *)
(***************************************************************************)

SpanBound ==
  \A i, j \in Charges : i <= j /\ TimeOf(j) - TimeOf(i) <= Window => Flow(i, j) <= Sliding!Capacity

LEMMA SlidingBound == Sliding!WindowBound <=> SpanBound
  BY DEF Sliding!WindowBound, SpanBound, Sliding!Charges, Charges, Sliding!TimeOf, TimeOf,
         Sliding!Flow, Flow, Sliding!NetAfter, NetAfter

(* What has been charged since charge i is on the last events, which are   *)
(* not older than i.                                                       *)
Covered(i) ==
  \E k \in 0..Len(events) :
    /\ \A l \in (k + 1)..Len(events) : TimeOf(i) <= events[l].at
    /\ Flow(i, Len(log)) <= Rest(events, k)

InSequence(s) == \A k, l \in 1..Len(s) : k <= l => s[k].at <= s[l].at

SlidingInv ==
  /\ LogInv
  /\ events \in Costs
  /\ \A k \in 1..Len(events) : events[k].at \in 0..MaxTime
  /\ InOrder =>
       /\ OrderInv
       /\ InSequence(events)
       /\ \A k \in 1..Len(events) : events[k].at <= now
       /\ \A i \in Charges : now - TimeOf(i) <= Window => Covered(i)
       /\ SpanBound

(* The search finds how many events are before the window.                 *)
LEMMA SearchOrdered ==
  ASSUME events \in Costs, InSequence(events), NEW t \in Int, Window \in Int
  PROVE  /\ Sliding!Search(t) \in 0..Len(events)
         /\ \A k \in 1..Len(events) : events[k].at >= t - Window <=> k > Sliding!Search(t)
<1>1. Len(events) \in Nat /\ \A k \in 1..Len(events) : events[k].at \in Int
  BY CostsFacts
<1>2. ASSUME NEW k \in 1..Len(events), NEW l \in 1..Len(events), k <= l, Sliding!InWindow(events[k], t)
      PROVE  Sliding!InWindow(events[l], t)
  BY <1>1, <1>2 DEF InSequence, Sliding!InWindow
<1>3. \A k \in 1..Len(events) : Sliding!InWindow(events[k], t) <=> events[k].at >= t - Window
  BY DEF Sliding!InWindow
<1> QED
  BY <1>1, <1>2, <1>3, SearchFacts

LEMMA TrimmedFacts ==
  ASSUME events \in Costs, NEW t, NEW q, q = Sliding!Search(t), NEW u, u = Sliding!Trimmed(t)
  PROVE  /\ q \in 0..Len(events)
         /\ u \in Costs
         /\ Len(u) = Len(events) - q
         /\ \A k \in 1..Len(u) : u[k] = events[q + k]
         /\ Sliding!Total(u) = Rest(events, q)
         /\ \A k \in q..Len(events) : Rest(u, k - q) = Rest(events, k)
<1>1. q \in 0..Len(events)
  BY CostsFacts, SearchFacts
<1>2. u = From(events, q)
  BY DEF Sliding!Trimmed, From
<1>3. /\ u \in Costs
      /\ Len(u) = Len(events) - q
      /\ \A k \in 1..Len(u) : u[k] = events[q + k]
  BY <1>1, <1>2, SumsSuffix
<1>4. /\ Sliding!Total(u) = Rest(events, q)
      /\ \A k \in q..Len(events) : Rest(u, k - q) = Rest(events, k)
  BY <1>1, <1>2, RestSuffix
<1> QED
  BY <1>1, <1>3, <1>4

LEMMA SlidingRetry ==
  ASSUME SlidingInv, InOrder
  PROVE  Sliding!RetryNotLate
<1>1. /\ now \in Int /\ Window \in Int /\ Window > 0
      /\ events \in Costs /\ InSequence(events)
      /\ Len(events) \in Nat
      /\ \A k \in 1..Len(events) : events[k].at \in Int
  BY TypeFacts, CostsFacts DEF SlidingInv, LogInv
<1> SUFFICES ASSUME NEW n \in 1..Sliding!Capacity, ~Sliding!Allows(now, n),
                    NEW d \in 0..(Sliding!RetryAfter(now) - 1)
             PROVE  ~Sliding!Allows(now + d, n)
  BY DEF Sliding!RetryNotLate
<1>2. PICK q, u : q = Sliding!Search(now) /\ u = Sliding!Trimmed(now)
  OBVIOUS
<1>3. /\ q \in 0..Len(events)
      /\ u \in Costs
      /\ Len(u) = Len(events) - q
      /\ \A k \in 1..Len(u) : u[k] = events[q + k]
      /\ \A k \in 1..Len(events) : events[k].at >= now - Window <=> k > q
  <2>1. /\ q \in 0..Len(events)
        /\ u \in Costs
        /\ Len(u) = Len(events) - q
        /\ \A k \in 1..Len(u) : u[k] = events[q + k]
    BY <1>1, <1>2, TrimmedFacts
  <2>2. \A k \in 1..Len(events) : events[k].at >= now - Window <=> k > q
    BY <1>1, <1>2, SearchOrdered
  <2> QED
    BY <2>1, <2>2
<1>4. u # <<>> /\ Sliding!RetryAfter(now) = u[1].at + Window - now
  <2>1. Sliding!RetryAfter(now) = IF u = <<>> THEN 0 ELSE u[1].at + Window - now
    BY <1>2, Zenon DEF Sliding!RetryAfter
  <2>2. u # <<>>
    <3>1. ~(0 \in 0..(0 - 1)) /\ \A x : x \notin 0..(0 - 1)
      OBVIOUS
    <3> QED
      BY <2>1, <3>1
  <2> QED
    BY <2>1, <2>2
<1>5. q + 1 \in 1..Len(events) /\ u[1] = events[q + 1]
  <2>1. Len(u) \in Nat \ {0}
    BY <1>3, <1>4, EmptySeq DEF Costs
  <2> QED
    BY <1>1, <1>3, <2>1
<1>6. d \in Int /\ d >= 0 /\ events[q + 1].at >= (now + d) - Window
  BY <1>1, <1>4, <1>5
<1>7. Sliding!Search(now + d) = q
  <2>1. PICK p : p = Sliding!Search(now + d)
    OBVIOUS
  <2>2. /\ now + d \in Int
        /\ p \in 0..Len(events)
        /\ \A k \in 1..Len(events) : events[k].at >= (now + d) - Window <=> k > p
    <3>1. now + d \in Int
      BY <1>1, <1>6
    <3> QED
      BY <1>1, <2>1, <3>1, SearchOrdered
  <2>3. q + 1 > p
    BY <1>5, <1>6, <2>2
  <2>4. ~(p < q)
    <3> SUFFICES ASSUME p < q PROVE FALSE
      OBVIOUS
    <3>1. p + 1 \in 1..Len(events) /\ p + 1 > p /\ ~(p + 1 > q)
      BY <1>1, <1>3, <2>2
    <3>2. events[p + 1].at >= (now + d) - Window /\ ~(events[p + 1].at >= now - Window)
      BY <1>3, <2>2, <3>1
    <3> QED
      BY <1>1, <1>6, <3>1, <3>2
  <2> QED
    BY <1>1, <1>3, <2>1, <2>2, <2>3, <2>4
<1>8. Sliding!Trimmed(now + d) = Sliding!Trimmed(now)
  BY <1>2, <1>7, Zenon DEF Sliding!Trimmed
<1> QED
  BY <1>8, Zenon DEF Sliding!Allows

LEMMA SlidingSteps ==
  ASSUME CallersTypeOK, Sliding!Next
  PROVE  \/ /\ Quiet /\ UNCHANGED events
            /\ InOrder => Orderly
         \/ \E c \in Calls :
              /\ pc[c] = "read" /\ Enters(c, Cost[c])
              /\ Sliding!Allows(at[c], Cost[c])
              /\ events' = Append(Sliding!Trimmed(at[c]), [at |-> at[c], cost |-> Cost[c]])
         \/ \E c \in Calls :
              /\ Enters(c, 0 - Cost[c])
              /\ events' = Sliding!Deducted(Cost[c])
<1>0. now \in Int /\ now \in 0..MaxTime /\ MaxTime \in Nat
  BY MeteringAssumption DEF CallersTypeOK
<1>1. ASSUME NEW c \in Calls, Sliding!ReadClock(c), UNCHANGED events
      PROVE  Quiet /\ UNCHANGED events /\ Orderly
  <2>1. Reads(c) /\ UNCHANGED events /\ now' = now
    BY <1>1 DEF Sliding!ReadClock, Reads
  <2> QED
    BY <1>0, <2>1 DEF Quiet, Orderly
<1>2. ASSUME NEW c \in Calls, Sliding!Evaluate(c)
      PROVE  \/ Quiet /\ UNCHANGED events /\ Orderly
             \/ /\ pc[c] = "read" /\ Enters(c, Cost[c])
                /\ Sliding!Allows(at[c], Cost[c])
                /\ events' = Append(Sliding!Trimmed(at[c]), [at |-> at[c], cost |-> Cost[c]])
  <2>1. CASE c \in Dry \/ ~Sliding!Allows(at[c], Cost[c])
    <3>1. Settles(c) /\ UNCHANGED events /\ now' = now
      BY <1>2, <2>1 DEF Sliding!Evaluate, Sliding!Answer, Settles
    <3> QED
      BY <1>0, <3>1 DEF Quiet, Orderly
  <2>2. CASE c \notin Dry /\ Sliding!Allows(at[c], Cost[c])
    BY <1>2, <2>2 DEF Sliding!Evaluate, Sliding!Answer, Enters,
                      Sliding!Entry, Sliding!NetAfter, Entry, NetAfter
  <2> QED
    BY <2>1, <2>2
<1>3. ASSUME NEW c \in Calls, Sliding!Release(c)
      PROVE  /\ Enters(c, 0 - Cost[c])
             /\ events' = Sliding!Deducted(Cost[c])
  BY <1>3 DEF Sliding!Release, Sliding!TakeBack, Enters, Sliding!Entry, Sliding!NetAfter, Entry, NetAfter
<1>4. CASE Sliding!SetClock /\ UNCHANGED events
  <2>1. Quiet
    BY <1>0, <1>4 DEF Sliding!SetClock, Ticks, Quiet
  <2>2. InOrder => Orderly
    BY <1>0, <1>4 DEF Sliding!SetClock, InOrder, Orderly
  <2> QED
    BY <1>4, <2>1, <2>2
<1> QED
  BY <1>1, <1>2, <1>3, <1>4 DEF Sliding!Next

(* A charge is added to what has been trimmed.                             *)
LEMMA SlidingCharges ==
  ASSUME SlidingInv, NEW c \in Calls, pc[c] = "read", Enters(c, Cost[c]),
         Sliding!Allows(at[c], Cost[c]),
         events' = Append(Sliding!Trimmed(at[c]), [at |-> at[c], cost |-> Cost[c]])
  PROVE  SlidingInv'
<1>1. PICK q, u, e, m : /\ q = Sliding!Search(at[c])
                        /\ u = Sliding!Trimmed(at[c])
                        /\ e = [at |-> at[c], cost |-> Cost[c]]
                        /\ m = Len(log) + 1
  OBVIOUS
<1>2. /\ LogInv /\ CallersTypeOK /\ events \in Costs
      /\ Len(log) \in Nat /\ m \in Int /\ m - 1 = Len(log) /\ Len(log) \in 0..Len(log)
      /\ Charges \subseteq 1..Len(log)
      /\ DOMAIN log = 1..Len(log)
      /\ \A i \in 0..Len(log) : NetAfter(i) \in Int
      /\ \A i \in DOMAIN log : TimeOf(i) \in Int
  BY <1>1, LogFacts DEF SlidingInv, LogInv
<1>3. /\ at[c] \in Int /\ at[c] \in 0..MaxTime
      /\ Cost[c] \in Int /\ Cost[c] > 0
      /\ Window \in Int /\ Window > 0
      /\ now \in Int
      /\ Sliding!Capacity \in Int
  <2>1. Limit \in Nat /\ Burst \in Nat
    BY MeteringAssumption
  <2> QED
    BY <1>2, <2>1, TypeFacts DEF Sliding!Capacity
<1>4. /\ LogInv'
      /\ Len(log') = m
      /\ \A i \in 0..Len(log) : NetAfter(i)' = NetAfter(i)
      /\ NetAfter(m)' = NetAfter(Len(log)) + Cost[c]
      /\ \A i \in DOMAIN log : TimeOf(i)' = TimeOf(i)
      /\ TimeOf(m)' = at[c]
      /\ Charges' = Charges \cup {m}
  BY <1>1, <1>2, <1>3, EntersFacts
<1>5. /\ Len(events) \in Nat
      /\ \A k \in 1..Len(events) : events[k].at \in Int
      /\ \A k \in 0..Len(events) : Rest(events, k) \in Nat
      /\ \A k, l \in 0..Len(events) : k <= l => Rest(events, l) <= Rest(events, k)
      /\ Rest(events, Len(events)) = 0
  BY <1>2, CostsFacts, RestFacts
<1>6. /\ q \in 0..Len(events) /\ q \in Nat
      /\ u \in Costs
      /\ Len(u) = Len(events) - q
      /\ \A k \in 1..Len(u) : u[k] = events[q + k]
      /\ Sliding!Total(u) = Rest(events, q)
      /\ \A k \in q..Len(events) : Rest(u, k - q) = Rest(events, k)
  BY <1>1, <1>2, <1>5, TrimmedFacts
<1>7. Rest(events, q) + Cost[c] <= Sliding!Capacity
  BY <1>1, <1>6, Zenon DEF Sliding!Allows
<1>8. PICK n : n = Len(u) + 1
  OBVIOUS
<1>9. /\ n \in Nat /\ Len(u) \in Nat /\ q + Len(u) = Len(events)
      /\ e \in [at : Int, cost : Nat \ {0}] /\ e.at = at[c] /\ e.cost = Cost[c]
  BY <1>1, <1>3, <1>5, <1>6, <1>8
<1>10. /\ events' \in Costs
       /\ Len(events') = n
       /\ events'[n] = e
       /\ \A k \in 1..Len(u) : events'[k] = events[q + k]
       /\ \A k \in 0..Len(u) : Rest(events', k) = Rest(u, k) + Cost[c]
  <2>1. events' = Append(u, e)
    BY <1>1
  <2>2. /\ Append(u, e) \in Costs
        /\ Len(Append(u, e)) = n
        /\ Append(u, e)[n] = e
        /\ \A k \in 1..Len(u) : Append(u, e)[k] = u[k]
    <3>1. u \in Costs /\ e \in [at : Int, cost : Nat \ {0}]
      BY <1>6, <1>9
    <3>2. PICK v : v = Append(u, e)
      OBVIOUS
    <3>3. /\ v \in Costs
          /\ Len(v) = n
          /\ v[n] = e
          /\ \A k \in 1..Len(u) : v[k] = u[k]
      BY <1>8, <3>1, <3>2, AppendProperties DEF Costs
    <3> QED
      BY <3>2, <3>3, Zenon
  <2>3. \A k \in 0..Len(u) : Rest(Append(u, e), k) = Rest(u, k) + e.cost
    BY <1>6, <1>9, RestAppend
  <2> QED
    BY <1>6, <1>9, <2>1, <2>2, <2>3
<1>11. ASSUME NEW k \in 1..n
       PROVE  \/ k = n
              \/ k \in 1..Len(u) /\ q + k \in 1..Len(events) /\ events'[k] = events[q + k]
  <2>1. CASE k # n
    <3>1. k \in 1..Len(u) /\ k \in Int
      BY <1>8, <1>9, <2>1
    <3>2. q + k \in 1..Len(events)
      BY <1>5, <1>6, <1>9, <3>1
    <3> QED
      BY <1>10, <3>1, <3>2
  <2> QED
    BY <2>1
<1>12. \A k \in 1..Len(events') : events'[k].at \in 0..MaxTime
  BY <1>3, <1>9, <1>10, <1>11 DEF SlidingInv
<1>13. ASSUME InOrder
       PROVE  /\ OrderInv'
              /\ InSequence(events')
              /\ \A k \in 1..Len(events') : events'[k].at <= now'
              /\ \A i \in Charges' : now' - TimeOf(i)' <= Window => Covered(i)'
              /\ SpanBound'
  <2>1. OrderInv' /\ at[c] = now /\ now' = now
    BY <1>2, <1>3, <1>13, EntersKeepsOrder DEF SlidingInv, OrderInv, Enters
  <2>2. InSequence(events) /\ \A k \in 1..Len(events) : events[k].at <= now
    BY <1>13 DEF SlidingInv
  <2>3. \A k \in 1..Len(events') : events'[k].at <= now'
    BY <1>3, <1>9, <1>10, <1>11, <2>1, <2>2
  <2>4. InSequence(events')
    <3> SUFFICES ASSUME NEW k \in 1..n, NEW l \in 1..n, k <= l
                 PROVE  events'[k].at <= events'[l].at
      BY <1>10 DEF InSequence
    <3>1. CASE l = n
      <4>1. events'[l].at = now
        BY <1>9, <1>10, <2>1, <3>1
      <4>2. events'[k].at <= now
        BY <1>10, <2>1, <2>3
      <4> QED
        BY <4>1, <4>2
    <3>2. CASE l # n
      <4>1. /\ l \in 1..Len(u) /\ q + l \in 1..Len(events) /\ events'[l] = events[q + l]
        BY <1>11, <3>2
      <4>2. k # n
        BY <1>8, <1>9, <4>1
      <4>3. /\ k \in 1..Len(u) /\ q + k \in 1..Len(events) /\ events'[k] = events[q + k]
            /\ q + k <= q + l
        <5>1. k \in Int /\ l \in Int /\ q \in Int
          BY <1>6, <1>9
        <5>2. q + k <= q + l
          BY <5>1
        <5> QED
          BY <1>11, <4>2, <5>2
      <4> QED
        BY <2>2, <4>1, <4>3 DEF InSequence
    <3> QED
      BY <3>1, <3>2
  <2>5. ASSUME NEW i \in Charges
        PROVE  /\ i \in DOMAIN log /\ i \in 0..Len(log) /\ i - 1 \in 0..Len(log)
               /\ TimeOf(i)' = TimeOf(i) /\ TimeOf(i) \in Int /\ TimeOf(i) <= now
               /\ Flow(i, Len(log)) \in Int
               /\ Flow(i, m)' = Flow(i, Len(log)) + Cost[c]
               /\ \A j \in Charges : Flow(i, j)' = Flow(i, j)
    <3>1. i \in DOMAIN log /\ i \in 0..Len(log) /\ i - 1 \in 0..Len(log)
      BY <1>2
    <3>2. NetAfter(i - 1)' = NetAfter(i - 1) /\ NetAfter(i - 1) \in Int /\ NetAfter(Len(log)) \in Int
      BY <1>2, <1>4, <3>1
    <3>3. \A j \in Charges : j \in 0..Len(log)
      BY <1>2
    <3>4. TimeOf(i) <= now
      <4>1. log[i].call \in Calls
        BY <1>2, <3>1, LogFacts
      <4> QED
        BY <1>13, <4>1 DEF SlidingInv, OrderInv, TimeOf
    <3> QED
      BY <1>2, <1>3, <1>4, <3>1, <3>2, <3>3, <3>4 DEF Flow
  <2>6. TimeOf(m)' = now /\ Flow(m, m)' = Cost[c]
    <3>1. NetAfter(m - 1)' = NetAfter(Len(log)) /\ NetAfter(Len(log)) \in Int
      BY <1>2, <1>4
    <3> QED
      BY <1>3, <1>4, <2>1, <3>1 DEF Flow
  <2>7. ASSUME NEW i \in Charges, now - TimeOf(i) <= Window
        PROVE  \E k \in q..Len(events) :
                 /\ \A l \in (k + 1)..Len(events) : TimeOf(i) <= events[l].at
                 /\ Flow(i, Len(log)) <= Rest(events, k)
    <3>1. Covered(i)
      BY <1>13, <2>7 DEF SlidingInv
    <3>2. PICK k \in 0..Len(events) :
                 /\ \A l \in (k + 1)..Len(events) : TimeOf(i) <= events[l].at
                 /\ Flow(i, Len(log)) <= Rest(events, k)
      BY <3>1 DEF Covered
    <3>3. ~(k < q)
      <4> SUFFICES ASSUME k < q PROVE FALSE
        OBVIOUS
      <4>1. q \in 1..Len(events) /\ q \in (k + 1)..Len(events)
        BY <1>5, <1>6
      <4>2. TimeOf(i) <= events[q].at /\ events[q].at \in Int
        BY <1>5, <3>2, <4>1
      <4>3. events[q].at >= now - Window
        <5>1. now \in Int /\ Window \in Int /\ TimeOf(i) \in Int
          BY <1>3, <2>5
        <5>2. now - TimeOf(i) <= Window
          BY <2>7
        <5> QED
          BY <4>2, <5>1, <5>2
      <4>4. \A l \in 1..Len(events) : events[l].at >= now - Window <=> l > q
        BY <1>1, <1>2, <1>3, <2>1, <2>2, SearchOrdered
      <4> QED
        BY <1>6, <4>1, <4>3, <4>4
    <3>4. k \in q..Len(events)
      BY <1>5, <1>6, <3>3
    <3> QED
      BY <3>2, <3>4
  <2>8. ASSUME NEW i \in Charges', now' - TimeOf(i)' <= Window
        PROVE  Covered(i)'
    <3>1. CASE i \in Charges
      <4>1. now - TimeOf(i) <= Window
        BY <2>1, <2>5, <2>8, <3>1
      <4>2. PICK k \in q..Len(events) :
                 /\ \A l \in (k + 1)..Len(events) : TimeOf(i) <= events[l].at
                 /\ Flow(i, Len(log)) <= Rest(events, k)
        BY <2>7, <3>1, <4>1
      <4>3. k - q \in 0..Len(u) /\ k - q \in 0..n /\ k \in 0..Len(events)
        BY <1>5, <1>6, <1>8, <1>9
      <4>4. Flow(i, m)' <= Rest(events', k - q)
        <5>1. Rest(events', k - q) = Rest(events, k) + Cost[c] /\ Rest(events, k) \in Int
          BY <1>5, <1>6, <1>10, <4>3
        <5> QED
          BY <1>3, <2>5, <3>1, <4>2, <5>1
      <4>5. ASSUME NEW l \in ((k - q) + 1)..n
            PROVE  TimeOf(i)' <= events'[l].at
        <5>1. l \in 1..n
          BY <1>9, <4>3
        <5>2. CASE l = n
          BY <1>9, <1>10, <2>1, <2>5, <3>1, <5>2
        <5>3. CASE l # n
          <6>1. events'[l] = events[q + l]
            BY <1>11, <5>1, <5>3
          <6>2. q + l \in (k + 1)..Len(events)
            <7>1. k \in Int /\ q \in Int /\ l \in Int /\ Len(events) \in Int
              BY <1>5, <1>6, <1>9, <4>3
            <7>2. (k - q) + 1 <= l
              OBVIOUS
            <7>3. q + l <= Len(events)
              BY <1>11, <5>1, <5>3
            <7> QED
              BY <7>1, <7>2, <7>3
          <6> QED
            BY <2>5, <3>1, <4>2, <6>1, <6>2
        <5> QED
          BY <5>2, <5>3
      <4> QED
        BY <1>4, <1>10, <4>3, <4>4, <4>5 DEF Covered
    <3>2. CASE i = m
      <4>1. Len(u) \in 0..n /\ Len(u) \in 0..Len(u) /\ Len(events) - q = Len(u) /\ Len(events) \in q..Len(events)
        BY <1>5, <1>6, <1>8, <1>9
      <4>2. Flow(m, m)' <= Rest(events', Len(u))
        <5>1. Rest(u, Len(u)) = 0
          BY <1>5, <1>6, <4>1
        <5>2. Rest(events', Len(u)) = 0 + Cost[c]
          BY <1>10, <4>1, <5>1
        <5> QED
          BY <1>3, <2>6, <5>2
      <4>3. ASSUME NEW l \in (Len(u) + 1)..n
            PROVE  TimeOf(m)' <= events'[l].at
        <5>1. l = n
          BY <1>8, <1>9
        <5> QED
          BY <1>3, <1>9, <1>10, <2>1, <2>6, <5>1
      <4> QED
        BY <1>4, <1>10, <3>2, <4>1, <4>2, <4>3 DEF Covered
    <3> QED
      BY <1>4, <3>1, <3>2
  <2>9. ASSUME NEW i \in Charges', NEW j \in Charges', i <= j, TimeOf(j)' - TimeOf(i)' <= Window
        PROVE  Flow(i, j)' <= Sliding!Capacity
    <3>1. CASE j = m /\ i = m
      <4>1. Rest(events, q) \in Nat
        BY <1>5, <1>6
      <4> QED
        BY <1>3, <1>7, <2>6, <3>1, <4>1
    <3>2. CASE j = m /\ i \in Charges
      <4>1. now - TimeOf(i) <= Window
        BY <2>5, <2>6, <2>9, <3>2
      <4>2. PICK k \in q..Len(events) : Flow(i, Len(log)) <= Rest(events, k)
        BY <2>7, <3>2, <4>1
      <4>3. k \in 0..Len(events) /\ q <= k
        BY <1>5, <1>6
      <4>4. Rest(events, k) <= Rest(events, q) /\ Rest(events, k) \in Int /\ Rest(events, q) \in Int
        BY <1>5, <1>6, <4>3
      <4> QED
        BY <1>3, <1>7, <2>5, <3>2, <4>2, <4>4
    <3>3. CASE i \in Charges /\ j \in Charges
      BY <1>13, <2>5, <2>9, <3>3 DEF SlidingInv, SpanBound
    <3>4. ~(i = m /\ j \in Charges)
      <4> SUFFICES ASSUME i = m, j \in Charges PROVE FALSE
        OBVIOUS
      <4>1. j \in 1..Len(log)
        BY <1>2
      <4> QED
        BY <1>2, <2>9, <4>1
    <3> QED
      BY <1>4, <3>1, <3>2, <3>3, <3>4
  <2> QED
    BY <2>1, <2>3, <2>4, <2>8, <2>9 DEF SpanBound
<1> QED
  BY <1>4, <1>10, <1>12, <1>13 DEF SlidingInv

(* A release takes from the newest events what it takes from the flow.     *)
LEMMA SlidingReleases ==
  ASSUME SlidingInv, NEW c \in Calls, Enters(c, 0 - Cost[c]), events' = Sliding!Deducted(Cost[c])
  PROVE  SlidingInv'
<1>1. PICK m, n : m = Len(log) + 1 /\ n = Cost[c]
  OBVIOUS
<1>2. /\ LogInv /\ CallersTypeOK /\ events \in Costs
      /\ Len(log) \in Nat /\ Len(log) \in 0..Len(log)
      /\ Charges \subseteq 1..Len(log)
      /\ DOMAIN log = 1..Len(log)
      /\ \A i \in 0..Len(log) : NetAfter(i) \in Int
      /\ \A i \in DOMAIN log : TimeOf(i) \in Int
      /\ Len(events) \in Nat
      /\ \A k \in 1..Len(events) : events[k].at \in Int
      /\ \A k \in 0..Len(events) : Rest(events, k) \in Nat
  <2>1. LogInv /\ CallersTypeOK /\ events \in Costs
    BY DEF SlidingInv, LogInv
  <2>2. /\ Len(events) \in Nat
        /\ \A k \in 1..Len(events) : events[k].at \in Int
        /\ \A k \in 0..Len(events) : Rest(events, k) \in Nat
    BY <2>1, CostsFacts, RestFacts
  <2> QED
    BY <2>1, <2>2, LogFacts
<1>3. /\ n \in Nat /\ 0 - n \in Int /\ ~(0 - n > 0)
  <2>1. Cost[c] \in Nat
    BY MeteringAssumption
  <2> QED
    BY <1>1, <2>1
<1>4. /\ LogInv'
      /\ Len(log') = m
      /\ \A i \in 0..Len(log) : NetAfter(i)' = NetAfter(i)
      /\ NetAfter(m)' = NetAfter(Len(log)) + (0 - n)
      /\ \A i \in DOMAIN log : TimeOf(i)' = TimeOf(i)
      /\ Charges' = Charges
  BY <1>1, <1>2, <1>3, EntersFacts
<1>5. PICK K \in 0..Len(events) :
           /\ events' \in Costs
           /\ Len(events') = K
           /\ \A i \in 1..K : events'[i].at = events[i].at
           /\ \A k \in 0..K : Rest(events, k) - n <= Rest(events', k)
           /\ \A k \in K..Len(events) : Rest(events, k) <= n
  BY <1>1, <1>2, <1>3, DeductedFacts
<1>6. \A i \in 1..K : i \in 1..Len(events)
  BY <1>2
<1>7. \A k \in 1..Len(events') : events'[k].at \in 0..MaxTime
  BY <1>5, <1>6 DEF SlidingInv
<1>8. ASSUME InOrder
      PROVE  /\ OrderInv'
             /\ InSequence(events')
             /\ \A k \in 1..Len(events') : events'[k].at <= now'
             /\ \A i \in Charges' : now' - TimeOf(i)' <= Window => Covered(i)'
             /\ SpanBound'
  <2>1. OrderInv' /\ now' = now
    BY <1>2, <1>8, EntersKeepsOrder DEF SlidingInv, Enters
  <2>2. InSequence(events')
    BY <1>5, <1>6, <1>8 DEF SlidingInv, InSequence
  <2>3. \A k \in 1..Len(events') : events'[k].at <= now'
    BY <1>5, <1>6, <1>8, <2>1 DEF SlidingInv
  <2>4. ASSUME NEW i \in Charges
        PROVE  /\ TimeOf(i)' = TimeOf(i)
               /\ Flow(i, Len(log)) \in Int
               /\ Flow(i, m)' = Flow(i, Len(log)) - n
               /\ \A j \in Charges : Flow(i, j)' = Flow(i, j)
    <3>1. i \in DOMAIN log /\ i \in 0..Len(log) /\ i - 1 \in 0..Len(log)
      BY <1>2
    <3>2. NetAfter(i - 1)' = NetAfter(i - 1) /\ NetAfter(i - 1) \in Int /\ NetAfter(Len(log)) \in Int
      BY <1>2, <1>4, <3>1
    <3>3. \A j \in Charges : j \in 0..Len(log)
      BY <1>2
    <3> QED
      BY <1>2, <1>3, <1>4, <3>1, <3>2, <3>3 DEF Flow
  <2>5. ASSUME NEW i \in Charges', now' - TimeOf(i)' <= Window
        PROVE  Covered(i)'
    <3>1. Covered(i) /\ i \in Charges
      BY <1>4, <1>8, <2>1, <2>4, <2>5 DEF SlidingInv
    <3>2. PICK k \in 0..Len(events) :
                 /\ \A l \in (k + 1)..Len(events) : TimeOf(i) <= events[l].at
                 /\ Flow(i, Len(log)) <= Rest(events, k)
      BY <3>1 DEF Covered
    <3>3. Rest(events, k) \in Int
      BY <1>2
    <3>4. CASE k <= K
      <4>1. k \in 0..K /\ k \in Int
        BY <1>2, <3>4
      <4>2. \A l \in (k + 1)..K : l \in 1..K /\ l \in (k + 1)..Len(events)
        BY <1>2, <4>1
      <4>3. \A l \in (k + 1)..K : TimeOf(i)' <= events'[l].at
        BY <1>5, <2>4, <3>1, <3>2, <4>2
      <4>4. Rest(events', k) \in Int
        BY <1>5, <4>1, RestFacts
      <4>5. Flow(i, m)' <= Rest(events', k)
        BY <1>3, <1>5, <2>4, <3>1, <3>2, <3>3, <4>1, <4>4
      <4> QED
        BY <1>4, <1>5, <4>1, <4>3, <4>5 DEF Covered
    <3>5. CASE ~(k <= K)
      <4>1. K \in 0..K /\ k \in K..Len(events) /\ \A l : l \notin (K + 1)..K
        BY <1>2, <3>5
      <4>2. Rest(events', K) = 0
        BY <1>5, RestFacts
      <4>3. Flow(i, m)' <= Rest(events', K)
        <5>1. Rest(events, k) <= n
          BY <1>5, <4>1
        <5> QED
          BY <1>3, <2>4, <3>1, <3>2, <3>3, <4>2, <5>1
      <4> QED
        BY <1>4, <1>5, <4>1, <4>3 DEF Covered
    <3> QED
      BY <3>4, <3>5
  <2>6. SpanBound'
    BY <1>4, <1>8, <2>4 DEF SlidingInv, SpanBound
  <2> QED
    BY <2>1, <2>2, <2>3, <2>5, <2>6
<1> QED
  BY <1>4, <1>5, <1>7, <1>8 DEF SlidingInv

LEMMA SlidingKeeps ==
  ASSUME SlidingInv, Sliding!Next
  PROVE  SlidingInv'
<1>1. /\ LogInv /\ CallersTypeOK /\ Len(log) \in Nat /\ Len(log) \in 0..Len(log)
      /\ Charges \subseteq 1..Len(log)
      /\ DOMAIN log = 1..Len(log)
      /\ Window \in Int
      /\ now \in Int
      /\ \A i \in DOMAIN log : TimeOf(i) \in Int
  BY LogFacts, TypeFacts DEF SlidingInv, LogInv
<1>2. CASE Quiet /\ UNCHANGED events /\ (InOrder => Orderly)
  <2>1. /\ LogInv' /\ log' = log
        /\ \A i \in 0..Len(log) : NetAfter(i)' = NetAfter(i)
        /\ \A i \in DOMAIN log : TimeOf(i)' = TimeOf(i)
        /\ Charges' = Charges
    BY <1>1, <1>2, QuietFacts
  <2>2. ASSUME NEW i \in Charges
        PROVE  /\ TimeOf(i)' = TimeOf(i) /\ TimeOf(i) \in Int
               /\ Flow(i, Len(log))' = Flow(i, Len(log))
               /\ \A j \in Charges : Flow(i, j)' = Flow(i, j)
    <3>1. i \in DOMAIN log /\ i - 1 \in 0..Len(log) /\ \A j \in Charges : j \in 0..Len(log)
      BY <1>1
    <3>2. NetAfter(i - 1)' = NetAfter(i - 1) /\ NetAfter(Len(log))' = NetAfter(Len(log))
      BY <1>1, <2>1, <3>1 DEF NetAfter
    <3> QED
      BY <1>1, <2>1, <3>1, <3>2 DEF Flow
  <2>3. ASSUME InOrder
        PROVE  /\ OrderInv'
               /\ InSequence(events')
               /\ \A k \in 1..Len(events') : events'[k].at <= now'
               /\ \A i \in Charges' : now' - TimeOf(i)' <= Window => Covered(i)'
               /\ SpanBound'
    <3>1. OrderInv'
      BY <1>1, <1>2, <2>3, OrderlyKeeps DEF SlidingInv
    <3>2. now <= now' /\ now' \in Int
      BY <1>2, <2>1, <2>3, TypeFacts, MeteringAssumption DEF Orderly, LogInv, CallersTypeOK
    <3>3. ASSUME NEW k \in 1..Len(events')
          PROVE  events'[k].at <= now'
      <4>1. events[k].at \in Int /\ events[k].at <= now
        BY <1>2, <2>3, CostsFacts DEF SlidingInv
      <4> QED
        BY <1>1, <1>2, <3>2, <4>1
    <3>4. ASSUME NEW i \in Charges', now' - TimeOf(i)' <= Window
          PROVE  Covered(i)'
      <4>1. i \in Charges /\ now - TimeOf(i) <= Window
        BY <1>1, <2>1, <2>2, <3>2, <3>4
      <4>2. Covered(i)
        BY <2>3, <4>1 DEF SlidingInv
      <4> QED
        BY <1>2, <2>1, <2>2, <4>1, <4>2 DEF Covered
    <3>5. SpanBound'
      BY <2>1, <2>2, <2>3 DEF SlidingInv, SpanBound
    <3> QED
      BY <1>2, <2>3, <3>1, <3>3, <3>4, <3>5 DEF SlidingInv
  <2> QED
    BY <1>2, <2>1, <2>3 DEF SlidingInv
<1>3. ASSUME NEW c \in Calls, pc[c] = "read", Enters(c, Cost[c]), Sliding!Allows(at[c], Cost[c]),
             events' = Append(Sliding!Trimmed(at[c]), [at |-> at[c], cost |-> Cost[c]])
      PROVE  SlidingInv'
  BY <1>3, SlidingCharges
<1>4. ASSUME NEW c \in Calls, Enters(c, 0 - Cost[c]), events' = Sliding!Deducted(Cost[c])
      PROVE  SlidingInv'
  BY <1>4, SlidingReleases
<1> QED
  BY <1>1, <1>2, <1>3, <1>4, SlidingSteps

(***************************************************************************)
(* The registry.                                                           *)
(***************************************************************************)

(* The invariant of the algorithm that the definition names.               *)
RegistryInv ==
  /\ algorithm = "fixed_window"   => FixedInv
  /\ algorithm = "sliding_window" => SlidingInv
  /\ algorithm = "token_bucket"   => TokenInv
  /\ algorithm = "leaky_bucket"   => LeakyInv
  /\ algorithm = "visitor"        => VisitorInv

LEMMA InitLog ==
  ASSUME CallersInit
  PROVE  /\ LogInv
         /\ Charges = {}
         /\ OrderInv
         /\ now = 0
<1>1. MaxTime \in Nat
  BY MeteringAssumption
<1>2. log = <<>> /\ log \in Seq([call : Calls, net : Int]) /\ DOMAIN log = {}
  BY DEF CallersInit
<1>3. CallersTypeOK
  BY <1>1, <1>2 DEF CallersInit, CallersTypeOK
<1> QED
  BY <1>1, <1>2, <1>3 DEF CallersInit, LogInv, Charges, OrderInv

LEMMA InitHolds ==
  ASSUME Init
  PROVE  RegistryInv
<1>1. LogInv /\ Charges = {} /\ OrderInv /\ now = 0
  <2>1. CallersInit
    BY DEF Init, Fixed!Init, Fixed!CallersInit, CallersInit
  <2> QED
    BY <2>1, InitLog
<1>2. /\ start = None /\ used = 0 /\ events = <<>>
      /\ tokens = 0 /\ updated = None /\ level = 0
  BY DEF Init, Fixed!Init, Sliding!Init, Token!Init
<1>3. /\ Limit \in Nat \ {0} /\ Burst \in Nat /\ Window \in Nat \ {0} /\ MaxTime \in Nat
  BY MeteringAssumption
<1>4. FixedInv
  <2>1. Fixed!Capacity \in Nat
    BY <1>3 DEF Fixed!Capacity
  <2> QED
    BY <1>1, <1>2, <2>1 DEF FixedInv, GridBound
<1>5. SlidingInv
  <2>1. events \in Costs /\ Len(events) = 0
    BY <1>2, EmptySeq DEF Costs
  <2> QED
    BY <1>1, <2>1 DEF SlidingInv, SpanBound, InSequence
<1>6. TokenInv
  BY <1>1, <1>2 DEF TokenInv, Potential, Bound
<1>7. LeakyInv
  BY <1>1, <1>2 DEF LeakyInv, Potential, Bound
<1>8. VisitorInv
  <2>1. 0 <= Visitor!Full
    BY <1>3 DEF Visitor!Full
  <2> QED
    BY <1>1, <1>2, <2>1 DEF VisitorInv, Potential, Bound
<1> QED
  BY <1>4, <1>5, <1>6, <1>7, <1>8 DEF RegistryInv

LEMMA RegistryKeeps ==
  ASSUME RegistryInv, [Next]_vars
  PROVE  RegistryInv'
<1>1. CASE FixedNext /\ UNCHANGED algorithm
  <2>1. FixedInv'
    BY <1>1, FixedKeeps DEF RegistryInv, FixedNext
  <2> QED
    BY <1>1, <2>1 DEF RegistryInv, FixedNext
<1>2. CASE SlidingNext /\ UNCHANGED algorithm
  <2>1. SlidingInv'
    BY <1>2, SlidingKeeps DEF RegistryInv, SlidingNext
  <2> QED
    BY <1>2, <2>1 DEF RegistryInv, SlidingNext
<1>3. CASE TokenNext /\ UNCHANGED algorithm
  <2>1. TokenInv'
    BY <1>3, TokenKeeps DEF RegistryInv, TokenNext
  <2> QED
    BY <1>3, <2>1 DEF RegistryInv, TokenNext
<1>4. CASE LeakyNext /\ UNCHANGED algorithm
  <2>1. LeakyInv'
    BY <1>4, LeakyKeeps DEF RegistryInv, LeakyNext
  <2> QED
    BY <1>4, <2>1 DEF RegistryInv, LeakyNext
<1>5. CASE VisitorNext /\ UNCHANGED algorithm
  <2>1. VisitorInv'
    BY <1>5, VisitorKeeps DEF RegistryInv, VisitorNext
  <2> QED
    BY <1>5, <2>1 DEF RegistryInv, VisitorNext
<1>6. CASE UNCHANGED vars
  <2>1. UNCHANGED <<callerVars, start, used, events, tokens, updated, level, algorithm>>
    BY <1>6 DEF vars, stateVars
  <2>2. UNCHANGED LogInv /\ UNCHANGED Charges
    BY <2>1 DEF callerVars, LogInv, CallersTypeOK, Charges, NetAfter
  <2>3. FixedInv => FixedInv'
    BY <2>1, <2>2 DEF FixedInv, OrderInv, GridBound, callerVars, TimeOf, Flow, NetAfter
  <2>4. SlidingInv => SlidingInv'
    BY <2>1, <2>2 DEF SlidingInv, OrderInv, SpanBound, Covered, callerVars, TimeOf, Flow, NetAfter
  <2>5. TokenInv => TokenInv'
    BY <2>1, <2>2 DEF TokenInv, Potential, Bound, callerVars, TimeOf, Flow, NetAfter
  <2>6. LeakyInv => LeakyInv'
    BY <2>1, <2>2 DEF LeakyInv, Potential, Bound, callerVars, TimeOf, Flow, NetAfter
  <2>7. VisitorInv => VisitorInv'
    BY <2>1, <2>2 DEF VisitorInv, Potential, Bound, callerVars, TimeOf, Flow, NetAfter
  <2> QED
    BY <2>1, <2>3, <2>4, <2>5, <2>6, <2>7 DEF RegistryInv
<1> QED
  BY <1>1, <1>2, <1>3, <1>4, <1>5, <1>6 DEF Next

LEMMA RegistryAlways == Spec => []RegistryInv
<1>1. Init => RegistryInv
  BY InitHolds
<1>2. RegistryInv /\ [Next]_vars => RegistryInv'
  BY RegistryKeeps
<1> QED
  BY <1>1, <1>2, PTL DEF Spec

(* The states of the algorithms: of the fixed window no release leaves the *)
(* counter below zero and no charge leaves it over the limit, of the       *)
(* sliding window no event is empty, whatever the clock and the callers do.*)
THEOREM AlgorithmTypes == Spec => []TypeOK
<1>1. ASSUME RegistryInv
      PROVE  TypeOK
  <2>1. ASSUME CallersTypeOK
        PROVE  Fixed!CallersTypeOK /\ Sliding!CallersTypeOK /\ Token!CallersTypeOK
               /\ Leaky!CallersTypeOK /\ Visitor!CallersTypeOK
    BY <2>1 DEF CallersTypeOK, Fixed!CallersTypeOK, Sliding!CallersTypeOK, Token!CallersTypeOK,
                Leaky!CallersTypeOK, Visitor!CallersTypeOK
  <2>2. FixedInv => Fixed!TypeOK
    BY <2>1 DEF FixedInv, LogInv, Fixed!TypeOK
  <2>3. ASSUME SlidingInv
        PROVE  Sliding!TypeOK
    <3>1. events \in Costs
      BY <2>3 DEF SlidingInv
    <3>2. /\ DOMAIN events = 1..Len(events)
          /\ \A k \in 1..Len(events) : events[k].cost \in Nat \ {0}
      BY <3>1, CostsFacts
    <3> QED
      BY <2>1, <2>3, <3>2 DEF SlidingInv, LogInv, Sliding!TypeOK
  <2>4. TokenInv => Token!TypeOK
    BY <2>1 DEF TokenInv, LogInv, Token!TypeOK
  <2>5. LeakyInv => Leaky!TypeOK
    BY <2>1 DEF LeakyInv, LogInv, Leaky!TypeOK
  <2>6. VisitorInv => Visitor!TypeOK
    BY <2>1 DEF VisitorInv, LogInv, Visitor!TypeOK
  <2> QED
    BY <1>1, <2>2, <2>3, <2>4, <2>5, <2>6 DEF RegistryInv, TypeOK
<1> QED
  BY <1>1, RegistryAlways, PTL

(* A bucket never lets more through than one bucketful and what flows in   *)
(* the meantime, net of releases: for any costs, limits and windows,       *)
(* however the calls overlap and however the clock is set back.            *)
THEOREM RatesBounded == Spec => []RateBound
<1>1. Bound(Token!Full) => Token!RateBound
  BY DEF Bound, Token!RateBound, Token!Parts, Token!Charges, Charges, Token!TimeOf, TimeOf,
         Token!Flow, Flow, Token!NetAfter, NetAfter
<1>2. Bound(Leaky!Full) => Leaky!RateBound
  BY DEF Bound, Leaky!RateBound, Leaky!Parts, Leaky!Charges, Charges, Leaky!TimeOf, TimeOf,
         Leaky!Flow, Flow, Leaky!NetAfter, NetAfter
<1>3. Bound(Visitor!Full) => Visitor!RateBound
  BY DEF Bound, Visitor!RateBound, Visitor!Charges, Charges, Visitor!TimeOf, TimeOf,
         Visitor!Flow, Flow, Visitor!NetAfter, NetAfter
<1>4. RegistryInv => RateBound
  BY <1>1, <1>2, <1>3 DEF RegistryInv, TokenInv, LeakyInv, VisitorInv, RateBound
<1> QED
  BY <1>4, RegistryAlways, PTL

(* A window never lets more through than its limit, net of releases: in a  *)
(* window of the grid, and in a sliding window laid anywhere, for calls    *)
(* that come in the order of their times.                                  *)
THEOREM WindowsBounded ==
  ASSUME ~Overlap, ~StepsBack
  PROVE  Spec => []WindowBound
<1>1. RegistryInv => WindowBound
  BY FixedBound, SlidingBound DEF InOrder, RegistryInv, FixedInv, SlidingInv, WindowBound
<1> QED
  BY <1>1, RegistryAlways, PTL

(* retry_after of a denial is the time at which the request fits, to a     *)
(* tick; in the sliding window it is never later than that.                *)
THEOREM RetriesExact ==
  ASSUME ~Overlap, ~StepsBack
  PROVE  Spec => []RetryExact
<1>1. RegistryInv => RetryExact
  BY FixedRetry, SlidingRetry, TokenRetry, LeakyRetry DEF InOrder, RegistryInv, RetryExact
<1> QED
  BY <1>1, RegistryAlways, PTL

(* Of all algorithms but the sliding window, retry_after is exact also     *)
(* when calls overlap and when the clock is set back.                      *)
THEOREM RetriesExactUnordered == Spec => [](algorithm # "sliding_window" => RetryExact)
<1>1. RegistryInv => (algorithm # "sliding_window" => RetryExact)
  BY FixedRetry, TokenRetry, LeakyRetry DEF RegistryInv, RetryExact
<1> QED
  BY <1>1, RegistryAlways, PTL
=============================================================================
