---------------------------- MODULE EngineProofs ----------------------------
(***************************************************************************)
(* Proofs about module Engine, for every value of its constants, in three  *)
(* parts.                                                                  *)
(*                                                                         *)
(* The bookkeeping of the calls: TypeOK and Shape, which says what each    *)
(* label implies about a call, its reservation and the lock.               *)
(*                                                                         *)
(* The counters: each holds exactly what is charged on it, within its      *)
(* limit.  A step changes the set Held by at most one position, and the    *)
(* counter of that position by its cost.                                   *)
(*                                                                         *)
(* The refinement: each step of a call, of a refund or of the reaper moves *)
(* one request of the ledger, charges one position or gives one back, or   *)
(* changes nothing that the ledger sees.                                   *)
(***************************************************************************)
EXTENDS Engine, UnitLemmas

(***************************************************************************)
(* The bookkeeping of the calls.                                           *)
(***************************************************************************)

Deciding == {"check", "eval", "undo", "stamp", "create", "release"}
Looping  == {"eval", "undo", "stamp", "create", "release"}

(* The bookkeeping of a call at each label. *)
CallShape(c) ==
  /\ granted[c] \subseteq 1..Len(Items[c])
  /\ Kind[c] # "check" => item[c] = 1 /\ granted[c] = {}
  /\ pc[c] = "idle" => item[c] = 1 /\ granted[c] = {}
  /\ pc[c] \in Deciding =>
       /\ Kind[c] \in {"check", "reserve"}
       /\ item[c] \in 1..Len(Items[c])
       /\ \A j \in granted[c] : j < item[c]
  /\ pc[c] \in Looping => CostOf(c) > 0 /\ accepted[c] <= Len(ChainOf(c))
  /\ pc[c] \in {"eval", "stamp", "create"} => undone[c] = 0
  /\ pc[c] = "undo" /\ ~Consume[c] => undone[c] = accepted[c]
  /\ pc[c] \in {"stamp", "create", "release"} =>
       Kind[c] = "reserve" /\ accepted[c] = Len(ChainOf(c))
  /\ pc[c] \in {"commit", "cancel", "refund"} => Kind[c] \in {"commit", "cancel"}

(* A reservation exists once its call is over. *)
ReservationShape(c) ==
  status[c] # "none" => Kind[c] = "reserve" /\ pc[c] = "done" /\ Cost(c, 1) > 0

(* A refund belongs to the holder of the lock. *)
LockShape ==
  /\ \A c \in Calls : pc[c] = "refund" <=> resMu = c
  /\ resMu \in Calls => refunding # None
  /\ refunding = None => refundPos = 1
  /\ refunding # None =>
       /\ resMu # None
       /\ status[refunding] \in {"cancelled", "expired"}
       /\ refundPos <= Len(Chain(refunding, 1)) + 1

Shape ==
  /\ reapAt <= now
  /\ \A c \in Calls : CallShape(c)
  /\ \A c \in Calls : ReservationShape(c)
  /\ LockShape

Inv1 == TypeOK /\ Shape

(* The constants of one request. *)
LEMMA ItemFacts ==
  ASSUME NEW c \in Calls, NEW j \in 1..Len(Items[c])
  PROVE  /\ Chain(c, j) \in Seq(Counters)
         /\ Cost(c, j) \in Int
         /\ Len(Chain(c, j)) \in Nat
         /\ \A p \in 1..Len(Chain(c, j)) : Chain(c, j)[p] \in Counters
<1> DEFINE Item == [chain : Seq(Counters), cost : Int]
<1>1. Items \in [Calls -> Seq(Item)]
  BY EngineAssumption
<1>2. Items[c] \in Seq(Item)
  BY <1>1
<1>3. Items[c][j] \in Item
  <2> HIDE DEF Item
  <2> QED
    BY <1>2
<1>4. Chain(c, j) \in Seq(Counters) /\ Cost(c, j) \in Int
  BY <1>3 DEF Chain, Cost
<1> QED
  BY <1>4

LEMMA KindFacts ==
  ASSUME NEW c \in Calls
  PROVE  /\ Len(Items[c]) \in Nat
         /\ Kind[c] \in {"check", "reserve", "commit", "cancel"}
         /\ Kind[c] \in {"check", "reserve"} => Len(Items[c]) > 0
         /\ Kind[c] = "reserve" => Consume[c] /\ Len(Items[c]) = 1
         /\ Target[c] \in Calls
         /\ Consume[c] \in BOOLEAN
         /\ Lifetime(c) \in Nat
<1> DEFINE Item == [chain : Seq(Counters), cost : Int]
<1>1. Items \in [Calls -> Seq(Item)]
  BY EngineAssumption
<1>2. Len(Items[c]) \in Nat
  <2> HIDE DEF Item
  <2> QED
    BY <1>1
<1>3. TTL \in [Calls -> Nat] /\ DefaultTTL \in Nat
  BY EngineAssumption
<1> QED
  BY <1>2, <1>3, EngineAssumption DEF Lifetime

LEMMA ConstantFacts ==
  /\ MaxTime \in Nat
  /\ None \notin Calls
  /\ Reaper \notin Calls
  /\ None # Reaper
  BY EngineAssumption

(* What a call inside the loop works on. *)
LEMMA LoopFacts ==
  ASSUME Inv1, NEW c \in Calls, pc[c] \in Looping
  PROVE  /\ item[c] \in 1..Len(Items[c])
         /\ ChainOf(c) \in Seq(Counters)
         /\ Len(ChainOf(c)) \in Nat
         /\ CostOf(c) \in Nat \ {0}
         /\ accepted[c] \in 0..Len(ChainOf(c))
         /\ undone[c] \in 0..accepted[c]
         /\ \A p \in 1..Len(ChainOf(c)) : ChainOf(c)[p] \in Counters
<1>1. CallShape(c) /\ accepted[c] \in Nat /\ undone[c] \in Nat /\ undone[c] <= accepted[c]
  BY DEF Inv1, TypeOK, Shape
<1>2. item[c] \in 1..Len(Items[c]) /\ CostOf(c) > 0 /\ accepted[c] <= Len(ChainOf(c))
  BY <1>1 DEF CallShape, Looping, Deciding
<1>3. /\ ChainOf(c) \in Seq(Counters)
      /\ CostOf(c) \in Int
      /\ Len(ChainOf(c)) \in Nat
      /\ \A p \in 1..Len(ChainOf(c)) : ChainOf(c)[p] \in Counters
  BY <1>2, ItemFacts DEF ChainOf, CostOf
<1> QED
  BY <1>1, <1>2, <1>3

(* What the holder of resMu refunds. *)
LEMMA RefundFacts ==
  ASSUME Inv1, refunding # None
  PROVE  /\ refunding \in Calls
         /\ Kind[refunding] = "reserve"
         /\ pc[refunding] = "done"
         /\ 1 \in 1..Len(Items[refunding])
         /\ Len(Chain(refunding, 1)) \in Nat
         /\ Cost(refunding, 1) \in Nat \ {0}
         /\ refundPos \in 1..(Len(Chain(refunding, 1)) + 1)
         /\ \A p \in 1..Len(Chain(refunding, 1)) : Chain(refunding, 1)[p] \in Counters
<1>1. refunding \in Calls
  BY DEF Inv1, TypeOK
<1>2. /\ status[refunding] # "none"
      /\ refundPos <= Len(Chain(refunding, 1)) + 1
      /\ refundPos \in Nat \ {0}
  BY DEF Inv1, TypeOK, Shape, LockShape
<1>3. Kind[refunding] = "reserve" /\ pc[refunding] = "done" /\ Cost(refunding, 1) > 0
  BY <1>1, <1>2 DEF Inv1, Shape, ReservationShape
<1>4. 1 \in 1..Len(Items[refunding])
  BY <1>1, <1>3, KindFacts
<1>5. /\ Cost(refunding, 1) \in Int
      /\ Len(Chain(refunding, 1)) \in Nat
      /\ \A p \in 1..Len(Chain(refunding, 1)) : Chain(refunding, 1)[p] \in Counters
  BY <1>1, <1>4, ItemFacts
<1> QED
  BY <1>1, <1>2, <1>3, <1>4, <1>5

LEMMA InitInv1 == Init => Inv1
<1> SUFFICES ASSUME Init PROVE Inv1
  OBVIOUS
<1> USE ConstantFacts DEF Init
<1>1. TypeOK
  <2>1. now \in 0..MaxTime /\ reapAt \in 0..MaxTime
    OBVIOUS
  <2>2. used \in [Counters -> Nat]
    OBVIOUS
  <2>3. /\ status \in [Calls -> Statuses]
        /\ expiresAt \in [Calls -> Nat]
    BY DEF Statuses
  <2>4. /\ pc \in [Calls -> Labels]
        /\ result \in [Calls -> {None, "ok", "error"}]
    BY DEF Labels
  <2>5. /\ item \in [Calls -> Nat \ {0}]
        /\ accepted \in [Calls -> Nat]
        /\ undone \in [Calls -> Nat]
        /\ \A c \in Calls : undone[c] <= accepted[c]
    OBVIOUS
  <2>6. granted \in [Calls -> SUBSET Nat]
    OBVIOUS
  <2>7. /\ resMu \in Calls \cup {Reaper, None}
        /\ refunding \in Calls \cup {None}
        /\ refundPos \in Nat \ {0}
    OBVIOUS
  <2>8. stopped \in BOOLEAN /\ ctxDone \subseteq Calls
    OBVIOUS
  <2> HIDE DEF Init
  <2> QED
    BY <2>1, <2>2, <2>3, <2>4, <2>5, <2>6, <2>7, <2>8 DEF TypeOK
<1>2. Shape
  BY DEF Shape, CallShape, ReservationShape, LockShape, Deciding, Looping
<1> QED
  BY <1>1, <1>2 DEF Inv1

(* A call that a step leaves alone keeps its shape. *)
LEMMA SameCall ==
  ASSUME NEW d \in Calls, CallShape(d),
         pc'[d] = pc[d], item'[d] = item[d], granted'[d] = granted[d],
         accepted'[d] = accepted[d], undone'[d] = undone[d]
  PROVE  CallShape(d)'
  BY DEF CallShape, ChainOf, CostOf

LEMMA StepInv1 == Inv1 /\ [Next]_vars => Inv1'
<1> SUFFICES ASSUME Inv1, [Next]_vars PROVE Inv1'
  OBVIOUS
<1> USE KindFacts, ItemFacts, ConstantFacts
    DEF Inv1, rsvVars, lockVars, loopVars, callVars, Goto, Return, CostOf, ChainOf
<1>1. ASSUME NEW c \in Calls, Begin(c) PROVE Inv1'
  <2>1. TypeOK'
    BY <1>1 DEF Begin, TypeOK, Labels, Settling
  <2>2. Shape'
    <3>1. \A d \in Calls : CallShape(d)'
      <4>1. ASSUME NEW d \in Calls, d # c PROVE CallShape(d)'
        BY <1>1, <4>1, SameCall DEF Begin, TypeOK, Shape, Settling
      <4>2. CallShape(c)'
        <5>1. CallShape(c) /\ pc[c] = "idle" /\ item[c] = 1 /\ granted[c] = {}
          BY <1>1 DEF Begin, Shape, CallShape
        <5>2. pc'[c] = IF Kind[c] \in {"commit", "cancel"} THEN Kind[c] ELSE "check"
          BY <1>1 DEF Begin, TypeOK, Settling
        <5>3. item'[c] = 1 /\ granted'[c] = {}
          BY <1>1, <5>1 DEF Begin
        <5> HIDE DEF Inv1
        <5> QED
          BY <5>2, <5>3 DEF CallShape, Deciding, Looping
      <4> QED
        BY <4>1, <4>2
    <3>2. \A d \in Calls : ReservationShape(d)'
      BY <1>1 DEF Begin, TypeOK, Shape, CallShape, ReservationShape, Deciding, Looping, Settling
    <3>3. LockShape'
      BY <1>1 DEF Begin, TypeOK, Shape, ReservationShape, LockShape, Settling
    <3>4. reapAt' <= now'
      BY <1>1 DEF Begin, Shape
    <3> QED
      BY <3>1, <3>2, <3>3, <3>4 DEF Shape
  <2> QED
    BY <2>1, <2>2
<1>2. ASSUME NEW c \in Calls, Check(c) PROVE Inv1'
  <2>1. TypeOK'
    BY <1>2 DEF Check, TypeOK, Labels
  <2>2. Shape'
    BY <1>2 DEF Check, TypeOK, Shape, CallShape, ReservationShape, LockShape, Deciding, Looping, Refused
  <2> QED
    BY <2>1, <2>2
<1>3. ASSUME NEW c \in Calls, CheckFails(c) PROVE Inv1'
  <2>1. TypeOK'
    BY <1>3 DEF CheckFails, TypeOK, Labels
  <2>2. Shape'
    BY <1>3 DEF CheckFails, TypeOK, Shape, CallShape, ReservationShape, LockShape, Deciding, Looping
  <2> QED
    BY <2>1, <2>2
<1>4. ASSUME NEW c \in Calls, Admit(c) PROVE Inv1'
  <2>1. TypeOK'
    <3>1. /\ NextCounter(c) \in Counters
          /\ CostOf(c) \in Nat
          /\ accepted[c] + 1 \in Nat
      BY <1>4, LoopFacts DEF Admit, NextCounter, Looping
    <3>2. used' \in [Counters -> Nat]
      <4>1. used \in [Counters -> Nat]
        BY DEF TypeOK
      <4>2. used[NextCounter(c)] + CostOf(c) \in Nat
        BY <3>1, <4>1
      <4>3. \/ used' = [used EXCEPT ![NextCounter(c)] = used[NextCounter(c)] + CostOf(c)]
            \/ used' = used
        BY <1>4 DEF Admit
      <4> HIDE DEF CostOf
      <4> QED
        BY <4>1, <4>2, <4>3
    <3>3. accepted' \in [Calls -> Nat]
      BY <1>4, <3>1 DEF Admit, TypeOK
    <3>4. \A d \in Calls : undone'[d] <= accepted'[d]
      BY <1>4, <3>1 DEF Admit, TypeOK
    <3> QED
      BY <1>4, <3>2, <3>3, <3>4 DEF Admit, TypeOK
  <2>2. Shape'
    BY <1>4 DEF Admit, TypeOK, Shape, CallShape, ReservationShape, LockShape, Deciding, Looping, NextCounter
  <2> QED
    BY <2>1, <2>2
<1>5. ASSUME NEW c \in Calls, Deny(c) PROVE Inv1'
  <2>1. TypeOK'
    BY <1>5 DEF Deny, TypeOK, Labels, UndoFrom
  <2>2. Shape'
    BY <1>5 DEF Deny, TypeOK, Shape, CallShape, ReservationShape, LockShape, Deciding, Looping, UndoFrom
  <2> QED
    BY <2>1, <2>2
<1>6. ASSUME NEW c \in Calls, Grant(c) PROVE Inv1'
  <2>1. TypeOK'
    <3>1. pc' \in [Calls -> Labels] /\ result' \in [Calls -> {None, "ok", "error"}]
      BY <1>6 DEF Grant, Decided, TypeOK, Labels
    <3>2. item' \in [Calls -> Nat \ {0}]
      <4>1. item \in [Calls -> Nat \ {0}]
        BY DEF TypeOK
      <4>2. \/ item' = item
            \/ item' = [item EXCEPT ![c] = item[c] + 1]
        BY <1>6 DEF Grant, Decided
      <4>3. item[c] + 1 \in Nat \ {0}
        BY <4>1
      <4> QED
        BY <4>1, <4>2, <4>3
    <3>3. granted' \in [Calls -> SUBSET Nat]
      BY <1>6 DEF Grant, TypeOK
    <3> QED
      BY <1>6, <3>1, <3>2, <3>3 DEF Grant, TypeOK
  <2>2. Shape'
    <3>1. \A d \in Calls : CallShape(d)'
      <4>1. ASSUME NEW d \in Calls, d # c PROVE CallShape(d)'
        BY <1>6, <4>1, SameCall DEF Grant, TypeOK, Shape, Decided
      <4>2. CallShape(c)'
        <5> HIDE DEF Inv1
        <5>1. Inv1 /\ pc[c] = "eval" /\ Kind[c] = "check"
          BY <1>6 DEF Grant, Decided
        <5>2. CallShape(c) /\ Len(Items[c]) \in Nat /\ item[c] \in 1..Len(Items[c])
          BY <5>1, LoopFacts DEF Inv1, Shape, Looping
        <5>3. granted'[c] = granted[c] \cup {item[c]}
          BY <1>6 DEF Grant, TypeOK, Inv1
        <5>4. \A j \in granted'[c] : j \in 1..item[c] /\ j <= Len(Items[c])
          BY <5>1, <5>2, <5>3 DEF CallShape, Deciding
        <5>5. \/ pc'[c] = "check" /\ item[c] < Len(Items[c]) /\ item'[c] = item[c] + 1
              \/ pc'[c] = "done"
          BY <1>6 DEF Grant, Decided, TypeOK, Inv1
        <5> QED
          BY SMTT(30), <5>1, <5>2, <5>4, <5>5 DEF CallShape, Deciding, Looping
      <4> QED
        BY <4>1, <4>2
    <3>2. \A d \in Calls : ReservationShape(d)'
      BY <1>6 DEF Grant, TypeOK, Shape, CallShape, ReservationShape, Deciding, Looping, Decided
    <3>3. LockShape'
      BY <1>6 DEF Grant, TypeOK, Shape, ReservationShape, LockShape, Decided
    <3>4. reapAt' <= now'
      BY <1>6 DEF Grant, Shape
    <3> QED
      BY <3>1, <3>2, <3>3, <3>4 DEF Shape
  <2> QED
    BY <2>1, <2>2
<1>7. ASSUME NEW c \in Calls, GrantReserve(c) PROVE Inv1'
  <2>1. TypeOK'
    BY <1>7 DEF GrantReserve, TypeOK, Labels
  <2>2. Shape'
    BY <1>7 DEF GrantReserve, TypeOK, Shape, CallShape, ReservationShape, LockShape, Deciding, Looping
  <2> QED
    BY <2>1, <2>2
<1>8. ASSUME NEW c \in Calls, GiveBack(c) PROVE Inv1'
  <2>1. TypeOK'
    <3>1. /\ ChainOf(c)[undone[c] + 1] \in Counters
          /\ CostOf(c) \in Nat
      <4>1. pc[c] \in Looping /\ undone[c] < accepted[c]
        BY <1>8 DEF GiveBack, MoreToUndo, Looping
      <4>2. undone[c] + 1 \in 1..Len(ChainOf(c))
        BY <4>1, LoopFacts
      <4> QED
        BY <4>1, <4>2, LoopFacts
    <3>2. used' \in [Counters -> Nat]
      BY <1>8, <3>1 DEF GiveBack, Less, TypeOK
    <3>3. /\ undone' \in [Calls -> Nat]
          /\ \A d \in Calls : undone'[d] <= accepted'[d]
      BY <1>8 DEF GiveBack, MoreToUndo, TypeOK
    <3> QED
      BY <1>8, <3>2, <3>3 DEF GiveBack, TypeOK
  <2>2. Shape'
    BY <1>8 DEF GiveBack, TypeOK, Shape, CallShape, ReservationShape, LockShape, Deciding, Looping, MoreToUndo
  <2> QED
    BY <2>1, <2>2
<1>9. ASSUME NEW c \in Calls, Reject(c) PROVE Inv1'
  <2>1. TypeOK'
    <3>1. pc' \in [Calls -> Labels] /\ result' \in [Calls -> {None, "ok", "error"}]
      BY <1>9 DEF Reject, Decided, TypeOK, Labels
    <3>2. item' \in [Calls -> Nat \ {0}]
      <4>1. item \in [Calls -> Nat \ {0}]
        BY DEF TypeOK
      <4>2. \/ item' = item
            \/ item' = [item EXCEPT ![c] = item[c] + 1]
        BY <1>9 DEF Reject, Decided
      <4>3. item[c] + 1 \in Nat \ {0}
        BY <4>1
      <4> QED
        BY <4>1, <4>2, <4>3
    <3> QED
      BY <1>9, <3>1, <3>2 DEF Reject, TypeOK
  <2>2. Shape'
    <3>1. \A d \in Calls : CallShape(d)'
      <4> TAKE d \in Calls
      <4>1. CallShape(d) /\ CallShape(c) /\ pc[c] = "undo"
        BY <1>9 DEF Reject, Decided, Shape
      <4>2. CASE d # c
        <5>1. pc'[d] = pc[d] /\ item'[d] = item[d]
          BY <1>9, <4>2 DEF Reject, Decided, TypeOK
        <5> QED
          BY <1>9, <4>1, <5>1 DEF Reject, CallShape
      <4>3. CASE d = c /\ item[c] < Len(Items[c])
        <5>1. pc'[c] = "check" /\ item'[c] = item[c] + 1
          BY <1>9, <4>3 DEF Reject, Decided, TypeOK
        <5>2. item[c] \in Nat \ {0} /\ granted[c] \subseteq 1..Len(Items[c])
          BY <4>1 DEF TypeOK, CallShape
        <5>3. Kind[c] = "check"
          <6>1. SUFFICES ASSUME Kind[c] # "check" PROVE FALSE
            OBVIOUS
          <6>2. item[c] = 1 /\ Kind[c] = "reserve"
            BY <4>1, <6>1 DEF CallShape, Deciding
          <6>3. Len(Items[c]) = 1
            BY <6>2
          <6>4. 1 < 1
            BY <4>3, <6>2, <6>3
          <6> QED
            BY <6>4
        <5> QED
          BY <1>9, <4>1, <4>3, <5>1, <5>2, <5>3 DEF Reject, CallShape, Deciding, Looping
      <4>4. CASE d = c /\ ~(item[c] < Len(Items[c]))
        <5>1. pc'[c] = "done" /\ item'[c] = item[c]
          BY <1>9, <4>4 DEF Reject, Decided, TypeOK
        <5> QED
          BY <1>9, <4>1, <4>4, <5>1 DEF Reject, CallShape, Deciding, Looping
      <4> QED
        BY <4>2, <4>3, <4>4
    <3>2. \A d \in Calls : ReservationShape(d)'
      BY <1>9 DEF Reject, TypeOK, Shape, CallShape, ReservationShape, Deciding, Looping, Decided
    <3>3. LockShape'
      BY <1>9 DEF Reject, TypeOK, Shape, ReservationShape, LockShape, Decided
    <3> QED
      BY <1>9, <3>1, <3>2, <3>3 DEF Reject, Shape
  <2> QED
    BY <2>1, <2>2
<1>10. ASSUME NEW c \in Calls, Stamp(c) PROVE Inv1'
  <2>1. TypeOK'
    <3>1. now + Lifetime(c) \in Nat
      BY DEF TypeOK
    <3>2. expiresAt' \in [Calls -> Nat]
      BY <1>10, <3>1 DEF Stamp, TypeOK
    <3> QED
      BY <1>10, <3>2 DEF Stamp, TypeOK, Labels
  <2>2. Shape'
    BY <1>10 DEF Stamp, TypeOK, Shape, CallShape, ReservationShape, LockShape, Deciding, Looping
  <2> QED
    BY <2>1, <2>2
<1>11. ASSUME NEW c \in Calls, Create(c) PROVE Inv1'
  <2>1. TypeOK'
    BY <1>11 DEF Create, TypeOK, Labels, Statuses
  <2>2. Shape'
    <3>1. \A d \in Calls : CallShape(d)'
      BY <1>11 DEF Create, TypeOK, Shape, CallShape, Deciding, Looping
    <3>2. \A d \in Calls : ReservationShape(d)'
      <4>1. Kind[c] = "reserve" /\ Cost(c, 1) > 0
        BY <1>11 DEF Create, Shape, CallShape, Deciding, Looping
      <4> QED
        BY <1>11, <4>1 DEF Create, TypeOK, Shape, ReservationShape
    <3>3. LockShape'
      BY <1>11 DEF Create, TypeOK, Shape, ReservationShape, LockShape
    <3> QED
      BY <1>11, <3>1, <3>2, <3>3 DEF Create, Shape
  <2> QED
    BY <2>1, <2>2
<1>12. ASSUME NEW c \in Calls, CreateFails(c) PROVE Inv1'
  <2>1. TypeOK'
    BY <1>12 DEF CreateFails, TypeOK, Labels
  <2>2. Shape'
    BY <1>12 DEF CreateFails, TypeOK, Shape, CallShape, ReservationShape, LockShape, Deciding, Looping
  <2> QED
    BY <2>1, <2>2
<1>13. ASSUME NEW c \in Calls, FailReserve(c) PROVE Inv1'
  <2>1. TypeOK'
    BY <1>13 DEF FailReserve, TypeOK, Labels
  <2>2. Shape'
    BY <1>13 DEF FailReserve, TypeOK, Shape, CallShape, ReservationShape, LockShape, Deciding, Looping
  <2> QED
    BY <2>1, <2>2
<1>14. ASSUME NEW c \in Calls, Commit(c) PROVE Inv1'
  <2>1. TypeOK'
    BY <1>14 DEF Commit, TypeOK, Labels, Statuses
  <2>2. Shape'
    BY SMTT(30), <1>14 DEF Commit, TypeOK, Shape, CallShape, ReservationShape, LockShape, Deciding, Looping, CanCommit
  <2> QED
    BY <2>1, <2>2
<1>15. ASSUME NEW c \in Calls, CommitNothing(c) PROVE Inv1'
  <2>1. TypeOK'
    BY <1>15 DEF CommitNothing, TypeOK, Labels
  <2>2. Shape'
    BY <1>15 DEF CommitNothing, TypeOK, Shape, CallShape, ReservationShape, LockShape, Deciding, Looping
  <2> QED
    BY <2>1, <2>2
<1>16. ASSUME NEW c \in Calls, Cancel(c) PROVE Inv1'
  <2>1. TypeOK'
    <3>1. status' \in [Calls -> Statuses] /\ pc' \in [Calls -> Labels]
      BY <1>16 DEF Cancel, TypeOK, Labels, Statuses
    <3>2. refunding' \in Calls \cup {None} /\ refundPos' \in Nat \ {0}
      BY <1>16 DEF Cancel, TypeOK
    <3>3. resMu' \in Calls \cup {Reaper, None}
      BY <1>16 DEF Cancel, TypeOK
    <3> QED
      BY <1>16, <3>1, <3>2, <3>3 DEF Cancel, TypeOK
  <2>2. Shape'
    <3>1. \A d \in Calls : CallShape(d)'
      BY SMTT(30), <1>16 DEF Cancel, TypeOK, Shape, CallShape, Deciding, Looping
    <3>2. \A d \in Calls : ReservationShape(d)'
      BY <1>16 DEF Cancel, TypeOK, Shape, CallShape, ReservationShape, Deciding, Looping
    <3>3. LockShape'
      BY <1>16 DEF Cancel, TypeOK, Shape, ReservationShape, LockShape
    <3> QED
      BY <1>16, <3>1, <3>2, <3>3 DEF Cancel, Shape
  <2> QED
    BY <2>1, <2>2
<1>17. ASSUME NEW c \in Calls, CancelNothing(c) PROVE Inv1'
  <2>1. TypeOK'
    BY <1>17 DEF CancelNothing, TypeOK, Labels
  <2>2. Shape'
    BY <1>17 DEF CancelNothing, TypeOK, Shape, CallShape, ReservationShape, LockShape, Deciding, Looping
  <2> QED
    BY <2>1, <2>2
<1>18. ASSUME NEW c \in Calls, FinishCancel(c) PROVE Inv1'
  <2>1. TypeOK'
    BY SMTT(30), <1>18 DEF FinishCancel, TypeOK, Labels, RefundDone
  <2>2. Shape'
    BY SMTT(30), <1>18 DEF FinishCancel, TypeOK, Shape, CallShape, ReservationShape, LockShape, Deciding, Looping, RefundDone
  <2> QED
    BY <2>1, <2>2
<1>19. ASSUME NEW c \in Calls, Timeout(c) PROVE Inv1'
  <2>1. TypeOK'
    BY <1>19 DEF Timeout, TypeOK
  <2>2. Shape'
    BY <1>19 DEF Timeout, TypeOK, Shape, CallShape, ReservationShape, LockShape, Deciding, Looping
  <2> QED
    BY <2>1, <2>2
<1>20. ASSUME Refund PROVE Inv1'
  <2>1. TypeOK'
    <3>1. refunding \in Calls /\ Cost(refunding, 1) \in Nat
      BY <1>20, RefundFacts DEF Refund, MoreToRefund
    <3>2. Chain(refunding, 1)[refundPos] \in Counters
      BY <1>20, RefundFacts DEF Refund, MoreToRefund
    <3>3. used' \in [Counters -> Nat]
      BY <1>20, <3>1, <3>2 DEF Refund, Less, TypeOK
    <3> QED
      BY SMTT(30), <1>20, <3>3 DEF Refund, TypeOK
  <2>2. Shape'
    BY SMTT(30), <1>20 DEF Refund, TypeOK, Shape, CallShape, ReservationShape, LockShape, Deciding, Looping, MoreToRefund
  <2> QED
    BY <2>1, <2>2
<1>21. ASSUME ReapStart PROVE Inv1'
  <2>1. TypeOK'
    BY <1>21 DEF ReapStart, TypeOK
  <2>2. Shape'
    BY <1>21 DEF ReapStart, TypeOK, Shape, CallShape, ReservationShape, LockShape, Deciding, Looping
  <2> QED
    BY <2>1, <2>2
<1>22. ASSUME NEW r \in Calls, ReapItem(r) PROVE Inv1'
  <2>1. TypeOK'
    BY <1>22 DEF ReapItem, TypeOK, Statuses
  <2>2. Shape'
    BY <1>22 DEF ReapItem, TypeOK, Shape, CallShape, ReservationShape, LockShape, Deciding, Looping, Due
  <2> QED
    BY <2>1, <2>2
<1>23. ASSUME ReapNext PROVE Inv1'
  <2>1. TypeOK'
    BY <1>23 DEF ReapNext, TypeOK, RefundDone
  <2>2. Shape'
    BY <1>23 DEF ReapNext, TypeOK, Shape, CallShape, ReservationShape, LockShape, Deciding, Looping, RefundDone
  <2> QED
    BY <2>1, <2>2
<1>24. ASSUME ReapEnd PROVE Inv1'
  <2>1. TypeOK'
    BY <1>24 DEF ReapEnd, TypeOK
  <2>2. Shape'
    BY <1>24 DEF ReapEnd, TypeOK, Shape, CallShape, ReservationShape, LockShape, Deciding, Looping
  <2> QED
    BY <2>1, <2>2
<1>25. ASSUME Tick PROVE Inv1'
  <2>1. TypeOK'
    BY <1>25 DEF Tick, TypeOK
  <2>2. Shape'
    BY <1>25 DEF Tick, TypeOK, Shape, CallShape, ReservationShape, LockShape, Deciding, Looping
  <2> QED
    BY <2>1, <2>2
<1>26. ASSUME Stop PROVE Inv1'
  <2>1. TypeOK'
    BY <1>26 DEF Stop, TypeOK
  <2>2. Shape'
    BY <1>26 DEF Stop, TypeOK, Shape, CallShape, ReservationShape, LockShape, Deciding, Looping
  <2> QED
    BY <2>1, <2>2
<1>27. CASE UNCHANGED vars
  BY <1>27 DEF vars, TypeOK, Shape, CallShape, ReservationShape, LockShape, Deciding, Looping
<1> QED
  BY <1>1, <1>2, <1>3, <1>4, <1>5, <1>6, <1>7, <1>8, <1>9, <1>10, <1>11, <1>12, <1>13, <1>14, <1>15, <1>16, <1>17, <1>18, <1>19, <1>20, <1>21, <1>22, <1>23, <1>24, <1>25, <1>26, <1>27 DEF Next, CallStep, ReaperStep

LEMMA AlwaysInv1 == Spec => []Inv1
<1>1. Init => Inv1
  BY InitInv1
<1>2. Inv1 /\ [Next]_vars => Inv1'
  BY StepInv1
<1> QED
  BY <1>1, <1>2, PTL DEF Spec

(* Every variable keeps its type: in particular no counter of the          *)
(* evaluators goes below zero, and the undo loop releases no more counters *)
(* than the decision loop of Check (engine.go) accepted.                   *)
THEOREM TypeCorrect == Spec => []TypeOK
<1>1. Inv1 => TypeOK
  BY DEF Inv1
<1> QED
  BY <1>1, AlwaysInv1, PTL

(* Committed, cancelled and expired are final; a reservation is committed  *)
(* before its expiry only and expired from then on only, although Reap     *)
(* compares with a time it read before (reservation/application/service.go *)
(* and Reserve in engine.go).                                              *)
THEOREM LifecycleCorrect == Spec => Lifecycle
<1> DEFINE Moves(r) ==
      LET old == status[r]
          new == status'[r]
      IN old # new =>
           \/ old = "none" /\ new = "pending" /\ now < expiresAt[r]
           \/ old = "pending" /\ new = "committed" /\ now < expiresAt[r]
           \/ old = "pending" /\ new = "cancelled"
           \/ old = "pending" /\ new = "expired" /\ now >= expiresAt[r]
<1>1. Inv1 /\ [Next]_vars => \A r \in Calls : Moves(r)
  <2> SUFFICES ASSUME Inv1, [Next]_vars, NEW r \in Calls, status'[r] # status[r]
               PROVE  Moves(r)
    OBVIOUS
  <2> USE DEF Inv1, TypeOK, rsvVars, Goto, Return
  <2>1. ASSUME NEW c \in Calls, Create(c) PROVE Moves(r)
    <3>1. status[c] = "none"
      BY <2>1 DEF Create, Shape, ReservationShape
    <3> QED
      BY <2>1, <3>1 DEF Create, CanCreate
  <2>2. ASSUME NEW c \in Calls, Commit(c) PROVE Moves(r)
    BY <2>2, KindFacts DEF Commit, CanCommit
  <2>3. ASSUME NEW c \in Calls, Cancel(c) PROVE Moves(r)
    BY <2>3, KindFacts DEF Cancel
  <2>4. ASSUME NEW d \in Calls, ReapItem(d) PROVE Moves(r)
    <3>1. status[d] = "pending" /\ now >= expiresAt[d]
      BY <2>4, ConstantFacts DEF ReapItem, Due, Shape
    <3> QED
      BY <2>4, <3>1 DEF ReapItem
  <2>5. ASSUME NEW c \in Calls,
               \/ Begin(c) \/ CheckFails(c) \/ Check(c) \/ Admit(c) \/ Deny(c) \/ Grant(c)
               \/ GrantReserve(c) \/ GiveBack(c) \/ Reject(c) \/ Stamp(c) \/ CreateFails(c)
               \/ FailReserve(c) \/ CommitNothing(c) \/ CancelNothing(c)
               \/ FinishCancel(c) \/ Timeout(c)
        PROVE  status' = status
    BY <2>5 DEF Begin, CheckFails, Check, Admit, Deny, Grant, GrantReserve, GiveBack, Reject,
                Stamp, CreateFails, FailReserve, CommitNothing, CancelNothing,
                FinishCancel, Timeout
  <2>6. ASSUME Refund \/ ReapStart \/ ReapNext \/ ReapEnd \/ Tick \/ Stop \/ UNCHANGED vars
        PROVE  status' = status
    BY <2>6 DEF Refund, ReapStart, ReapNext, ReapEnd, Tick, Stop, vars
  <2> QED
    BY <2>1, <2>2, <2>3, <2>4, <2>5, <2>6 DEF Next, CallStep, ReaperStep
<1>2. Inv1 /\ [Next]_vars => [\A r \in Calls : Moves(r)]_vars
  BY <1>1
<1> HIDE DEF Moves
<1>3. Spec => [][\A r \in Calls : Moves(r)]_vars
  BY <1>2, AlwaysInv1, PTL DEF Spec
<1> QED
  BY <1>3 DEF Moves, Lifecycle

(***************************************************************************)
(* The counters.                                                           *)
(***************************************************************************)

Exact(k) ==
  /\ IsFiniteSet(Units(k))
  /\ used[k] = Cardinality(Units(k))
  /\ used[k] <= Limit[k]

Inv2 == \A k \in Counters : Exact(k)

(* Position x becomes charged; position x is given back; neither. *)
Adds(x) ==
  /\ x \in Positions \ Held
  /\ CostAt(x) \in Nat
  /\ Held' = Held \cup {x}
  /\ used' = [used EXCEPT ![CounterOf(x)] = @ + CostAt(x)]
  /\ used[CounterOf(x)] + CostAt(x) <= Limit[CounterOf(x)]

Removes(x) ==
  /\ x \in Held
  /\ CostAt(x) \in Nat
  /\ Held' = Held \ {x}
  /\ used' = [used EXCEPT ![CounterOf(x)] = Less(@, CostAt(x))]

Keeps == Held' = Held /\ used' = used

LEMMA LimitFacts == \A k \in Counters : Limit[k] \in Nat
  BY EngineAssumption

(* A position names a request that is to be charged and one counter of its *)
(* chain.                                                                  *)
LEMMA PositionFacts ==
  ASSUME NEW x \in Positions
  PROVE  /\ x[1][1] \in Calls
         /\ Consume[x[1][1]]
         /\ x[1][2] \in 1..Len(Items[x[1][1]])
         /\ x[2] \in 1..Len(Chain(x[1][1], x[1][2]))
         /\ x = <<<<x[1][1], x[1][2]>>, x[2]>>
         /\ CounterOf(x) \in Counters
<1>1. PICK q \in Requests : \E p \in 1..Len(Chain(q[1], q[2])) : x = <<q, p>>
  BY DEF Positions
<1>2. PICK p \in 1..Len(Chain(q[1], q[2])) : x = <<q, p>>
  BY <1>1
<1>3. PICK c \in Calls : Consume[c] /\ \E j \in 1..Len(Items[c]) : q = <<c, j>>
  BY DEF Requests
<1>4. PICK j \in 1..Len(Items[c]) : q = <<c, j>>
  BY <1>3
<1>5. x = <<<<c, j>>, p>> /\ q[1] = c /\ q[2] = j
  BY <1>2, <1>4
<1>6. Chain(c, j)[p] \in Counters
  BY <1>5, ItemFacts
<1> QED
  BY <1>3, <1>5, <1>6 DEF CounterOf

LEMMA PositionIntro ==
  ASSUME NEW c \in Calls, Consume[c], NEW j \in 1..Len(Items[c]),
         NEW p \in 1..Len(Chain(c, j))
  PROVE  /\ <<<<c, j>>, p>> \in Positions
         /\ CounterOf(<<<<c, j>>, p>>) = Chain(c, j)[p]
         /\ CostAt(<<<<c, j>>, p>>) = Cost(c, j)
<1>1. <<c, j>> \in Requests
  BY DEF Requests
<1> QED
  BY <1>1 DEF Positions, CounterOf, CostAt

(* The units of a set of positions on one counter. *)
LEMMA UnitsAdd ==
  ASSUME NEW H, NEW x, x \notin H, NEW k
  PROVE  /\ CounterOf(x) # k => UnitsOver(H \cup {x}, k) = UnitsOver(H, k)
         /\ CounterOf(x) = k =>
              UnitsOver(H \cup {x}, k) = UnitsOver(H, k) \cup Block(x, CostAt(x))
         /\ UnitsOver(H, k) \cap Block(x, CostAt(x)) = {}
  BY DEF UnitsOver, UnitsOf, Block

LEMMA UnitsRemove ==
  ASSUME NEW H, NEW x \in H, NEW k
  PROVE  /\ CounterOf(x) # k => UnitsOver(H \ {x}, k) = UnitsOver(H, k)
         /\ CounterOf(x) = k =>
              /\ UnitsOver(H \ {x}, k) = UnitsOver(H, k) \ Block(x, CostAt(x))
              /\ Block(x, CostAt(x)) \subseteq UnitsOver(H, k)
  BY DEF UnitsOver, UnitsOf, Block

LEMMA AddsOne ==
  ASSUME TypeOK, Inv2, NEW x, Adds(x)
  PROVE  Inv2'
<1> SUFFICES ASSUME NEW k \in Counters PROVE Exact(k)'
  BY DEF Inv2
<1>1. Exact(k)
  BY DEF Inv2
<1>2. x \notin Held /\ Held' = Held \cup {x}
  BY DEF Adds
<1>3. Units(k)' = UnitsOver(Held \cup {x}, k)
  BY <1>2 DEF Units, UnitsOver, UnitsOf, CounterOf, CostAt, Chain, Cost
<1>4. CASE CounterOf(x) # k
  <2>1. Units(k)' = Units(k)
    <3>1. UnitsOver(Held \cup {x}, k) = UnitsOver(Held, k)
      BY <1>4 DEF UnitsOver
    <3>2. Units(k) = UnitsOver(Held, k)
      BY DEF Units
    <3> QED
      BY <1>3, <3>1, <3>2
  <2>2. used'[k] = used[k]
    BY <1>4 DEF Adds, TypeOK
  <2> QED
    BY <1>1, <2>1, <2>2 DEF Exact
<1>5. CASE CounterOf(x) = k
  <2>1. /\ Units(k)' = Units(k) \cup Block(x, CostAt(x))
        /\ Units(k) \cap Block(x, CostAt(x)) = {}
    BY <1>2, <1>3, <1>5, UnitsAdd DEF Units
  <2>2. /\ IsFiniteSet(Units(k)')
        /\ Cardinality(Units(k)') = Cardinality(Units(k)) + CostAt(x)
    BY <1>1, <2>1, AddBlock DEF Exact, Adds
  <2>3. used'[k] = used[k] + CostAt(x) /\ used[k] + CostAt(x) <= Limit[k]
    BY <1>5 DEF Adds, TypeOK
  <2> QED
    BY <1>1, <2>2, <2>3 DEF Exact, Adds
<1> QED
  BY <1>4, <1>5

LEMMA RemovesOne ==
  ASSUME TypeOK, Inv2, NEW x, Removes(x)
  PROVE  Inv2'
<1> SUFFICES ASSUME NEW k \in Counters PROVE Exact(k)'
  BY DEF Inv2
<1>1. Exact(k)
  BY DEF Inv2
<1>2. x \in Held /\ Held' = Held \ {x}
  BY DEF Removes
<1>3. Units(k)' = UnitsOver(Held \ {x}, k)
  BY <1>2 DEF Units, UnitsOver, UnitsOf, CounterOf, CostAt, Chain, Cost
<1>4. CASE CounterOf(x) # k
  <2>1. Units(k)' = Units(k)
    BY <1>2, <1>3, <1>4, UnitsRemove DEF Units
  <2>2. used'[k] = used[k]
    BY <1>4 DEF Removes, TypeOK
  <2> QED
    BY <1>1, <2>1, <2>2 DEF Exact
<1>5. CASE CounterOf(x) = k
  <2>1. /\ Units(k)' = Units(k) \ Block(x, CostAt(x))
        /\ Block(x, CostAt(x)) \subseteq Units(k)
    BY ZenonT(30), <1>2, <1>3, <1>5, UnitsRemove DEF Units
  <2>2. /\ IsFiniteSet(Units(k)')
        /\ Cardinality(Units(k)') = Cardinality(Units(k)) - CostAt(x)
        /\ CostAt(x) <= Cardinality(Units(k))
    BY <1>1, <2>1, RemoveBlock DEF Exact, Removes
  <2>3. used'[k] = Less(used[k], CostAt(x)) /\ used[k] \in Nat
    BY <1>5 DEF Removes, TypeOK
  <2>4. used'[k] = used[k] - CostAt(x)
    BY <1>1, <2>2, <2>3 DEF Less, Exact, Removes
  <2> QED
    BY <1>1, <2>2, <2>3, <2>4, LimitFacts DEF Exact, Removes
<1> QED
  BY <1>4, <1>5

LEMMA KeepsAll ==
  ASSUME Inv2, Keeps
  PROVE  Inv2'
<1> SUFFICES ASSUME NEW k \in Counters PROVE Exact(k)'
  BY DEF Inv2
<1>1. Units(k)' = Units(k)
  BY DEF Keeps, Units, UnitsOver, UnitsOf, CounterOf, CostAt, Chain, Cost
<1> QED
  BY <1>1 DEF Inv2, Exact, Keeps

(***************************************************************************)
(* What the steps do to Held.                                              *)
(***************************************************************************)

Same(c, j, p) == Charged(c, j, p)' <=> Charged(c, j, p)

(* The positions of call c, when c is to be charged. *)
SameFor(c) ==
  Consume[c] =>
    \A j \in 1..Len(Items[c]) : \A p \in 1..Len(Chain(c, j)) : Same(c, j, p)

LEMMA HeldSame ==
  ASSUME \A c \in Calls : SameFor(c)
  PROVE  Held' = Held
<1>1. ASSUME NEW x \in Positions
      PROVE  Charged(x[1][1], x[1][2], x[2])' <=> Charged(x[1][1], x[1][2], x[2])
  BY PositionFacts DEF SameFor, Same
<1>2. Positions' = Positions
  BY DEF Positions, Requests, Chain
<1> QED
  BY <1>1, <1>2 DEF Held

LEMMA HeldPlus ==
  ASSUME NEW d \in Calls, Consume[d], NEW i \in 1..Len(Items[d]),
         NEW q \in 1..Len(Chain(d, i)),
         ~Charged(d, i, q),
         Charged(d, i, q)',
         \A c \in Calls : c # d => SameFor(c),
         \A j \in 1..Len(Items[d]) : \A p \in 1..Len(Chain(d, j)) :
           <<j, p>> # <<i, q>> => Same(d, j, p)
  PROVE  LET x == <<<<d, i>>, q>> IN x \in Positions \ Held /\ Held' = Held \cup {x}
<1> DEFINE x == <<<<d, i>>, q>>
<1>1. x \in Positions /\ x \notin Held
  BY PositionIntro DEF Held
<1>2. ASSUME NEW y \in Positions, y # x
      PROVE  Charged(y[1][1], y[1][2], y[2])' <=> Charged(y[1][1], y[1][2], y[2])
  BY <1>2, PositionFacts DEF SameFor, Same
<1>3. Positions' = Positions
  BY DEF Positions, Requests, Chain
<1>4. x \in Held'
  BY <1>1, <1>3 DEF Held
<1>5. Held' = Held \cup {x}
  <2> HIDE DEF x
  <2> QED
    BY <1>1, <1>2, <1>3, <1>4 DEF Held
<1> QED
  BY <1>1, <1>5

LEMMA HeldMinus ==
  ASSUME NEW d \in Calls, Consume[d], NEW i \in 1..Len(Items[d]),
         NEW q \in 1..Len(Chain(d, i)),
         Charged(d, i, q),
         ~Charged(d, i, q)',
         \A c \in Calls : c # d => SameFor(c),
         \A j \in 1..Len(Items[d]) : \A p \in 1..Len(Chain(d, j)) :
           <<j, p>> # <<i, q>> => Same(d, j, p)
  PROVE  LET x == <<<<d, i>>, q>> IN x \in Held /\ Held' = Held \ {x}
<1> DEFINE x == <<<<d, i>>, q>>
<1>1. x \in Held
  BY PositionIntro DEF Held
<1>2. ASSUME NEW y \in Positions, y # x
      PROVE  Charged(y[1][1], y[1][2], y[2])' <=> Charged(y[1][1], y[1][2], y[2])
  BY <1>2, PositionFacts DEF SameFor, Same
<1>3. Positions' = Positions
  BY DEF Positions, Requests, Chain
<1>4. x \notin Held'
  BY DEF Held
<1>5. Held' = Held \ {x}
  <2> HIDE DEF x
  <2> QED
    BY <1>1, <1>2, <1>3, <1>4 DEF Held
<1> QED
  BY <1>1, <1>5

(* The steps that leave Held and the counters alone. *)
LEMMA CallKeeps ==
  ASSUME Inv1, NEW c \in Calls,
         \/ Begin(c) \/ Check(c) \/ CheckFails(c) \/ Deny(c) \/ Grant(c)
         \/ GrantReserve(c) \/ Reject(c) \/ Stamp(c) \/ Create(c)
         \/ CreateFails(c) \/ FailReserve(c) \/ Commit(c) \/ CommitNothing(c)
         \/ Cancel(c) \/ CancelNothing(c) \/ FinishCancel(c) \/ Timeout(c)
  PROVE  Keeps
<1> SUFFICES ASSUME NEW d \in Calls, Consume[d], NEW j \in 1..Len(Items[d]),
                    NEW p \in 1..Len(Chain(d, j))
             PROVE  Same(d, j, p)
  <2>1. used' = used
    BY DEF Begin, Check, CheckFails, Deny, Grant, GrantReserve, Reject, Stamp, Create,
           CreateFails, FailReserve, Commit, CommitNothing, Cancel, CancelNothing,
           FinishCancel, Timeout
  <2> QED
    BY <2>1, HeldSame DEF SameFor, Keeps
<1> USE DEF rsvVars, lockVars, loopVars, callVars, Goto, Return, CostOf, ChainOf,
            Same, Charged, InLoop, InReservation
<1>1. /\ TypeOK /\ CallShape(c) /\ CallShape(d)
      /\ ReservationShape(c) /\ ReservationShape(d) /\ LockShape
  BY DEF Inv1, Shape
<1>2. CASE Begin(c)
  BY <1>1, <1>2 DEF Begin, Settling, TypeOK, CallShape, ReservationShape, LockShape, Deciding, Looping
<1>3. CASE Check(c)
  BY <1>1, <1>3 DEF Check, TypeOK, CallShape, ReservationShape, LockShape, Deciding, Looping
<1>4. CASE CheckFails(c)
  BY <1>1, <1>4 DEF CheckFails, TypeOK, CallShape, ReservationShape, LockShape, Deciding, Looping
<1>5. CASE Deny(c)
  BY <1>1, <1>5 DEF Deny, TypeOK, UndoFrom, CallShape, ReservationShape, LockShape, Deciding, Looping
<1>6. CASE Grant(c)
  BY SMTT(30), <1>1, <1>6 DEF Grant, TypeOK, Decided, CallShape, ReservationShape, LockShape, Deciding, Looping
<1>7. CASE GrantReserve(c)
  BY <1>1, <1>7 DEF GrantReserve, TypeOK, CallShape, ReservationShape, LockShape, Deciding, Looping
<1>8. CASE Reject(c)
  BY SMTT(30), <1>1, <1>8 DEF Reject, TypeOK, Decided, CallShape, ReservationShape, LockShape, Deciding, Looping
<1>9. CASE Stamp(c)
  BY <1>1, <1>9 DEF Stamp, TypeOK, CallShape, ReservationShape, LockShape, Deciding, Looping
<1>10. CASE Create(c)
  <2>1. CASE d # c
    BY <1>1, <1>10, <2>1 DEF Create, TypeOK
  <2>2. CASE d = c
    <3>1. /\ Kind[c] = "reserve"
          /\ accepted[c] = Len(Chain(c, item[c]))
          /\ undone[c] = 0
          /\ item[c] = 1
      BY <1>1, <1>10 DEF Create, CallShape
    <3>2. j = 1
      <4>1. Len(Items[d]) = 1
        BY <2>2, <3>1, KindFacts
      <4> QED
        BY <4>1
    <3>3. InLoop(c, j, p)
      BY <1>10, <2>2, <3>1, <3>2 DEF Create
    <3>4. InReservation(c, p)'
      BY <1>1, <1>10 DEF Create, TypeOK
    <3> QED
      BY <2>2, <3>3, <3>4
  <2> QED
    BY <2>1, <2>2
<1>11. CASE CreateFails(c)
  BY <1>1, <1>11 DEF CreateFails, TypeOK, CallShape, ReservationShape, LockShape, Deciding, Looping
<1>12. CASE FailReserve(c)
  BY <1>1, <1>12 DEF FailReserve, TypeOK, CallShape, ReservationShape, LockShape, Deciding, Looping
<1>13. CASE Commit(c)
  BY <1>1, <1>13 DEF Commit, TypeOK, CanCommit, CallShape, ReservationShape, LockShape, Deciding, Looping
<1>14. CASE CommitNothing(c)
  BY <1>1, <1>14 DEF CommitNothing, TypeOK, CallShape, ReservationShape, LockShape, Deciding, Looping
<1>15. CASE Cancel(c)
  BY <1>1, <1>15 DEF Cancel, TypeOK, CallShape, ReservationShape, LockShape, Deciding, Looping
<1>16. CASE CancelNothing(c)
  BY <1>1, <1>16 DEF CancelNothing, TypeOK, CallShape, ReservationShape, LockShape, Deciding, Looping
<1>17. CASE FinishCancel(c)
  <2>1. ~(refunding = d /\ refundPos <= p)
    <3>1. SUFFICES ASSUME refunding = d PROVE ~(refundPos <= p)
      OBVIOUS
    <3>2. /\ refunding # None
          /\ refundPos > Len(Chain(d, 1))
      BY <1>17, <3>1 DEF FinishCancel, RefundDone
    <3>3. /\ Kind[d] = "reserve"
          /\ Len(Chain(d, 1)) \in Nat
          /\ refundPos \in 1..(Len(Chain(d, 1)) + 1)
      BY <3>1, <3>2, RefundFacts
    <3>4. Len(Items[d]) = 1
      BY <3>3, KindFacts
    <3>5. p \in 1..Len(Chain(d, 1))
      BY <3>4
    <3> QED
      BY <3>2, <3>3, <3>5
  <2>2. refunding' # d
    BY <1>17, ConstantFacts DEF FinishCancel, RefundDone
  <2> QED
    BY <1>1, <1>17, <2>1, <2>2 DEF FinishCancel, TypeOK
<1>18. CASE Timeout(c)
  BY <1>1, <1>18 DEF Timeout, TypeOK, CallShape, ReservationShape, LockShape, Deciding, Looping
<1> QED
  BY <1>2, <1>3, <1>4, <1>5, <1>6, <1>7, <1>8, <1>9, <1>10, <1>11, <1>12, <1>13, <1>14, <1>15, <1>16, <1>17, <1>18

(* The steps of the reaper and of the environment that do so too. *)
LEMMA OtherKeeps ==
  ASSUME Inv1,
         \/ ReapStart \/ (\E r \in Calls : ReapItem(r)) \/ ReapNext \/ ReapEnd
         \/ Tick \/ Stop \/ UNCHANGED vars
  PROVE  Keeps
<1> SUFFICES ASSUME NEW d \in Calls, Consume[d], NEW j \in 1..Len(Items[d]),
                    NEW p \in 1..Len(Chain(d, j))
             PROVE  Same(d, j, p)
  <2>1. used' = used
    BY DEF ReapStart, ReapItem, ReapNext, ReapEnd, Tick, Stop, vars
  <2> QED
    BY <2>1, HeldSame DEF SameFor, Keeps
<1> USE DEF rsvVars, lockVars, loopVars, callVars, Same, Charged, InLoop, InReservation
<1>1. CASE ReapStart \/ ReapEnd \/ Tick \/ Stop \/ UNCHANGED vars
  BY <1>1 DEF ReapStart, ReapEnd, Tick, Stop, vars
<1>2. ASSUME NEW r \in Calls, ReapItem(r) PROVE Same(d, j, p)
  <2>1. refundPos = 1 /\ refunding = None /\ status[r] = "pending"
    BY <1>2 DEF ReapItem, Due, Inv1, Shape, LockShape
  <2>2. refundPos <= p
    BY <2>1
  <2> QED
    BY <1>2, <2>1, <2>2, ConstantFacts DEF ReapItem, Inv1, TypeOK
<1>3. CASE ReapNext
  <2>1. ~(refunding = d /\ refundPos <= p)
    <3>1. SUFFICES ASSUME refunding = d PROVE ~(refundPos <= p)
      OBVIOUS
    <3>2. /\ refunding # None
          /\ refundPos > Len(Chain(d, 1))
      BY <1>3, <3>1 DEF ReapNext, RefundDone
    <3>3. /\ Kind[d] = "reserve"
          /\ Len(Chain(d, 1)) \in Nat
          /\ refundPos \in 1..(Len(Chain(d, 1)) + 1)
      BY <3>1, <3>2, RefundFacts
    <3>4. Len(Items[d]) = 1
      BY <3>3, KindFacts
    <3>5. p \in 1..Len(Chain(d, 1))
      BY <3>4
    <3> QED
      BY <3>2, <3>3, <3>5
  <2>2. refunding' # d
    BY <1>3, ConstantFacts DEF ReapNext, RefundDone
  <2> QED
    BY <1>3, <2>1, <2>2 DEF ReapNext
<1> QED
  BY <1>1, <1>2, <1>3

LEMMA AdmitCharges ==
  ASSUME Inv1, NEW c \in Calls, Admit(c)
  PROVE  Keeps \/ \E x \in Positions : Adds(x)
<1>1. pc[c] \in Looping /\ pc[c] = "eval" /\ accepted[c] < Len(ChainOf(c))
  BY DEF Admit, Looping
<1>2. PICK i \in 1..Len(Items[c]) : i = item[c]
  BY <1>1, LoopFacts
<1>3. PICK p \in 1..Len(Chain(c, i)) : p = accepted[c] + 1
  BY <1>1, <1>2, LoopFacts DEF ChainOf
<1>4. Cost(c, i) \in Nat /\ undone[c] < p /\ accepted[c] \in Nat /\ accepted[c] < p
  BY <1>1, <1>2, <1>3, LoopFacts DEF CostOf
<1> DEFINE x == <<<<c, i>>, p>>
<1>5. ASSUME NEW d \in Calls, d # c PROVE SameFor(d)
  BY <1>5 DEF Admit, Inv1, TypeOK, SameFor, Same, Charged, InLoop, InReservation,
              rsvVars, lockVars
<1>6. CASE ~Consume[c]
  <2>1. used' = used
    BY <1>6 DEF Admit
  <2> QED
    BY <1>5, <1>6, <2>1, HeldSame DEF Keeps, SameFor
<1>7. CASE Consume[c]
  <2>1. CallShape(c) /\ ReservationShape(c)
    BY DEF Inv1, Shape
  <2>2. i \notin granted[c]
    <3>1. \A j \in granted[c] : j < i
      BY <1>1, <1>2, <2>1 DEF CallShape, Deciding
    <3> QED
      BY <3>1
  <2>3. status[c] = "none"
    BY <1>1, <2>1 DEF ReservationShape
  <2>4. refunding # c
    BY <2>3, ConstantFacts DEF Inv1, Shape, LockShape
  <2>5. /\ pc' = pc /\ item' = item /\ undone' = undone /\ granted' = granted
        /\ status' = status /\ refunding' = refunding /\ refundPos' = refundPos
        /\ accepted'[c] = accepted[c] + 1
    BY DEF Admit, Inv1, TypeOK, rsvVars, lockVars
  <2>6. ~Charged(c, i, p)
    <3>1. ~InLoop(c, i, p)
      BY <1>4 DEF InLoop
    <3> QED
      BY <2>2, <2>3, <2>4, <3>1 DEF Charged, InReservation
  <2>7. Charged(c, i, p)'
    BY <1>1, <1>2, <1>3, <1>4, <2>5 DEF Charged, InLoop
  <2>8. ASSUME NEW j \in 1..Len(Items[c]), NEW q \in 1..Len(Chain(c, j)),
               <<j, q>> # <<i, p>>
        PROVE  Same(c, j, q)
    <3>1. i = j => q # p
      BY <2>8
    <3>2. InLoop(c, j, q)' <=> InLoop(c, j, q)
      BY <1>2, <1>3, <1>4, <2>5, <3>1 DEF InLoop
    <3> QED
      BY <2>5, <3>2 DEF Same, Charged, InReservation
  <2>9. x \in Positions \ Held /\ Held' = Held \cup {x}
    BY <1>5, <1>7, <2>6, <2>7, <2>8, HeldPlus
  <2>10. CounterOf(x) = NextCounter(c) /\ CostAt(x) = CostOf(c)
    BY <1>2, <1>3 DEF CounterOf, CostAt, NextCounter, ChainOf, CostOf
  <2>11. Adds(x)
    BY <1>2, <1>4, <1>7, <2>9, <2>10 DEF Adds, Admit, Fits, CostOf
  <2> QED
    BY <2>9, <2>11
<1> QED
  BY <1>6, <1>7

LEMMA GiveBackReleases ==
  ASSUME Inv1, NEW c \in Calls, GiveBack(c)
  PROVE  \E x \in Positions : Removes(x)
<1>1. pc[c] \in Looping /\ pc[c] \in {"undo", "release"} /\ undone[c] < accepted[c]
  BY DEF GiveBack, MoreToUndo, Looping
<1>2. PICK i \in 1..Len(Items[c]) : i = item[c]
  BY <1>1, LoopFacts
<1>3. PICK p \in 1..Len(Chain(c, i)) : p = undone[c] + 1
  BY <1>1, <1>2, LoopFacts DEF ChainOf
<1>4. Cost(c, i) \in Nat /\ undone[c] < p /\ undone[c] \in Nat /\ p <= accepted[c]
  BY <1>1, <1>2, <1>3, LoopFacts DEF CostOf
<1> DEFINE x == <<<<c, i>>, p>>
<1>5. CallShape(c) /\ ReservationShape(c)
  BY DEF Inv1, Shape
<1>6. Consume[c]
  <2>1. pc[c] = "undo" => Consume[c]
    <3>1. pc[c] = "undo" /\ ~Consume[c] => undone[c] = accepted[c]
      BY <1>5 DEF CallShape
    <3>2. undone[c] # accepted[c]
      BY <1>3, <1>4
    <3> QED
      BY <3>1, <3>2
  <2>2. pc[c] = "release" => Consume[c]
    BY <1>5, KindFacts DEF CallShape
  <2> QED
    BY <1>1, <2>1, <2>2
<1>7. i \notin granted[c]
  <2>1. \A j \in granted[c] : j < i
    BY <1>1, <1>2, <1>5 DEF CallShape, Deciding
  <2> QED
    BY <2>1
<1>8. status[c] = "none"
  BY <1>1, <1>5 DEF ReservationShape
<1>9. refunding # c
  BY <1>8, ConstantFacts DEF Inv1, Shape, LockShape
<1>10. /\ pc' = pc /\ item' = item /\ accepted' = accepted /\ granted' = granted
       /\ status' = status /\ refunding' = refunding /\ refundPos' = refundPos
       /\ undone'[c] = undone[c] + 1
  BY DEF GiveBack, Inv1, TypeOK, rsvVars, lockVars
<1>11. Charged(c, i, p)
  BY <1>1, <1>2, <1>4 DEF Charged, InLoop
<1>12. ~Charged(c, i, p)'
  <2>1. ~InLoop(c, i, p)'
    BY <1>3, <1>4, <1>10 DEF InLoop
  <2> QED
    BY <1>7, <1>8, <1>9, <1>10, <2>1 DEF Charged, InReservation
<1>13. ASSUME NEW j \in 1..Len(Items[c]), NEW q \in 1..Len(Chain(c, j)),
              <<j, q>> # <<i, p>>
       PROVE  Same(c, j, q)
  <2>1. i = j => q # p
    BY <1>13
  <2>2. InLoop(c, j, q)' <=> InLoop(c, j, q)
    BY <1>2, <1>3, <1>4, <1>10, <2>1 DEF InLoop
  <2> QED
    BY <1>10, <2>2 DEF Same, Charged, InReservation
<1>14. ASSUME NEW d \in Calls, d # c PROVE SameFor(d)
  BY <1>14 DEF GiveBack, Inv1, TypeOK, SameFor, Same, Charged, InLoop, InReservation,
               rsvVars, lockVars
<1>15. x \in Held /\ Held' = Held \ {x}
  BY <1>6, <1>11, <1>12, <1>13, <1>14, HeldMinus
<1>16. CounterOf(x) = ChainOf(c)[undone[c] + 1] /\ CostAt(x) = CostOf(c)
  BY <1>2, <1>3 DEF CounterOf, CostAt, ChainOf, CostOf
<1>17. x \in Positions
  BY <1>15 DEF Held
<1>18. Removes(x)
  BY <1>2, <1>4, <1>15, <1>16 DEF Removes, GiveBack, CostOf
<1> QED
  BY <1>17, <1>18

LEMMA RefundReleases ==
  ASSUME Inv1, Refund
  PROVE  \E x \in Positions : Removes(x)
<1>1. refunding # None /\ refundPos <= Len(Chain(refunding, 1))
  BY DEF Refund, MoreToRefund
<1>2. PICK c \in Calls : c = refunding
  BY <1>1, RefundFacts
<1>3. /\ Kind[c] = "reserve"
      /\ pc[c] = "done"
      /\ 1 \in 1..Len(Items[c])
      /\ Len(Chain(c, 1)) \in Nat
      /\ Cost(c, 1) \in Nat
      /\ refundPos \in 1..(Len(Chain(c, 1)) + 1)
  BY <1>1, <1>2, RefundFacts
<1>4. PICK p \in 1..Len(Chain(c, 1)) : p = refundPos
  BY <1>1, <1>2, <1>3
<1>5. Consume[c] /\ Len(Items[c]) = 1
  BY <1>3, KindFacts
<1> DEFINE x == <<<<c, 1>>, p>>
<1>6. granted[c] = {}
  BY <1>3 DEF Inv1, Shape, CallShape
<1>7. status[c] \in {"cancelled", "expired"}
  BY <1>1, <1>2 DEF Inv1, Shape, LockShape
<1>8. /\ pc' = pc /\ item' = item /\ accepted' = accepted /\ undone' = undone
      /\ granted' = granted /\ status' = status /\ refunding' = refunding
      /\ refundPos' = refundPos + 1
  BY DEF Refund, rsvVars, callVars, loopVars
<1>9. Charged(c, 1, p)
  BY <1>2, <1>4 DEF Charged, InReservation
<1>10. ~Charged(c, 1, p)'
  <2>1. ~(refundPos' <= p)
    BY <1>3, <1>4, <1>8
  <2> QED
    BY <1>3, <1>6, <1>7, <1>8, <2>1 DEF Charged, InLoop, InReservation
<1>11. ASSUME NEW j \in 1..Len(Items[c]), NEW q \in 1..Len(Chain(c, j)),
              <<j, q>> # <<1, p>>
       PROVE  Same(c, j, q)
  <2>1. j = 1
    BY <1>5
  <2>2. q # p /\ q \in Int
    BY <1>11, <2>1
  <2>3. refundPos' <= q <=> refundPos <= q
    BY <1>3, <1>4, <1>8, <2>2
  <2> QED
    BY <1>8, <2>3 DEF Same, Charged, InLoop, InReservation
<1>12. ASSUME NEW d \in Calls, d # c PROVE SameFor(d)
  BY <1>2, <1>8, <1>12 DEF SameFor, Same, Charged, InLoop, InReservation
<1>13. x \in Held /\ Held' = Held \ {x}
  BY <1>3, <1>5, <1>9, <1>10, <1>11, <1>12, HeldMinus
<1>14. CounterOf(x) = Chain(refunding, 1)[refundPos] /\ CostAt(x) = Cost(refunding, 1)
  BY <1>2, <1>4 DEF CounterOf, CostAt
<1>15. x \in Positions
  BY <1>13 DEF Held
<1>16. Removes(x)
  BY <1>2, <1>3, <1>13, <1>14 DEF Removes, Refund
<1> QED
  BY <1>15, <1>16

LEMMA InitInv2 == Init => Inv2
<1> SUFFICES ASSUME Init, NEW k \in Counters PROVE Exact(k)
  BY DEF Inv2
<1>1. ASSUME NEW x \in Positions PROVE ~Charged(x[1][1], x[1][2], x[2])
  BY PositionFacts, ConstantFacts DEF Init, Charged, InLoop, InReservation
<1>2. Held = {}
  BY <1>1 DEF Held
<1>3. Units(k) = {}
  BY <1>2 DEF Units, UnitsOver
<1> QED
  BY <1>3, FS_EmptySet, LimitFacts DEF Exact, Init

LEMMA StepInv2 == Inv1 /\ Inv2 /\ [Next]_vars => Inv2'
<1> SUFFICES ASSUME Inv1, Inv2, [Next]_vars PROVE Inv2'
  OBVIOUS
<1>1. TypeOK
  BY DEF Inv1
<1>2. CASE Keeps
  BY <1>2, KeepsAll
<1>3. ASSUME NEW x \in Positions, Adds(x) PROVE Inv2'
  BY <1>1, <1>3, AddsOne
<1>4. ASSUME NEW x \in Positions, Removes(x) PROVE Inv2'
  BY <1>1, <1>4, RemovesOne
<1>5. Keeps \/ \E x \in Positions : Adds(x) \/ Removes(x)
  BY CallKeeps, OtherKeeps, AdmitCharges, GiveBackReleases, RefundReleases
     DEF Next, CallStep, ReaperStep
<1> QED
  BY <1>2, <1>3, <1>4, <1>5

LEMMA AlwaysExact == Spec => [](\A k \in Counters : Exact(k))
<1>1. Init => Inv1 /\ Inv2
  BY InitInv1, InitInv2
<1>2. (Inv1 /\ Inv2) /\ [Next]_vars => (Inv1 /\ Inv2)'
  BY StepInv1, StepInv2
<1>3. Inv1 /\ Inv2 => \A k \in Counters : Exact(k)
  BY DEF Inv2
<1> QED
  BY <1>1, <1>2, <1>3, PTL DEF Spec

(* However Check, BatchCheck, Reserve, Commit, Cancel and Reap interleave, *)
(* what Evaluate and Release have made of a counter is exactly the cost of *)
(* what is charged on it: no refund is lost, none happens twice            *)
(* (engine.go and reservation/application/service.go).                     *)
THEOREM ChargeCorrect == Spec => []ExactCharge
<1>1. (\A k \in Counters : Exact(k)) => ExactCharge
  BY DEF Exact, ExactCharge
<1> QED
  BY <1>1, AlwaysExact, PTL

(* The cost charged on a counter never exceeds its limit, whatever the     *)
(* chains share and however many calls are half-way down theirs.           *)
THEOREM LimitRespected == Spec => []WithinLimit
<1>1. (\A k \in Counters : Exact(k)) => WithinLimit
  BY DEF Exact, WithinLimit
<1> QED
  BY <1>1, AlwaysExact, PTL

(***************************************************************************)
(* The refinement.                                                         *)
(***************************************************************************)

Simulates == Ledger!LNext \/ UNCHANGED Ledger!lvars

LEMMA RequestFacts ==
  ASSUME NEW q \in Requests
  PROVE  /\ q[1] \in Calls
         /\ Consume[q[1]]
         /\ q[2] \in 1..Len(Items[q[1]])
         /\ q = <<q[1], q[2]>>
  BY DEF Requests

LEMMA RequestIntro ==
  ASSUME NEW c \in Calls, Consume[c], NEW j \in 1..Len(Items[c])
  PROVE  <<c, j>> \in Requests
  BY DEF Requests

(* What the ledger sees of call d stays as it is. *)
Untouched(d) ==
  /\ granted'[d] = granted[d] /\ item'[d] = item[d] /\ status'[d] = status[d]
  /\ Phase(pc'[d]) = Phase(pc[d])
  /\ (refunding' = d) <=> (refunding = d)

LEMMA UntouchedState ==
  ASSUME NEW q \in Requests, Untouched(q[1])
  PROVE  RequestState(q)' = RequestState(q)
<1>1. Phase(pc[q[1]])' = Phase(pc[q[1]])
  BY DEF Untouched, Phase
<1>2. CallPhase(q[1], q[2])' = CallPhase(q[1], q[2])
  BY <1>1 DEF Untouched, CallPhase
<1> QED
  BY <1>2 DEF Untouched, RequestState

(* One request of the ledger moves. *)
LEMMA MoveOne ==
  ASSUME NEW q \in Requests, NEW from, NEW to,
         Held' = Held,
         RequestState(q) \in from, RequestState(q)' = to,
         \A r \in Requests : r # q => RequestState(r)' = RequestState(r)
  PROVE  Ledger!Move(q, from, to)
  BY DEF Ledger!Move

LEMMA NoneMoves ==
  ASSUME Held' = Held,
         \A r \in Requests : RequestState(r)' = RequestState(r)
  PROVE  UNCHANGED Ledger!lvars
  BY DEF Ledger!lvars

(* The bookkeeping of a call that has no reservation. *)
LEMMA EarlyFacts ==
  ASSUME Inv1, NEW c \in Calls, pc[c] # "done"
  PROVE  /\ status[c] = "none" /\ refunding # c
         /\ CallShape(c) /\ TypeOK
         /\ granted[c] \subseteq Int /\ item[c] \in Nat \ {0}
         /\ pc[c] \in Deciding \cup {"idle"} => item[c] \notin granted[c]
<1>1. CallShape(c) /\ ReservationShape(c) /\ LockShape /\ TypeOK
  BY DEF Inv1, Shape
<1>2. status[c] = "none"
  BY <1>1 DEF ReservationShape
<1>3. refunding # c
  BY <1>1, <1>2, ConstantFacts DEF LockShape
<1>4. granted[c] \subseteq Int /\ item[c] \in Nat \ {0}
  BY <1>1 DEF TypeOK
<1>5. pc[c] \in Deciding \cup {"idle"} => item[c] \notin granted[c]
  BY <1>1, <1>4 DEF CallShape
<1> QED
  BY <1>1, <1>2, <1>3, <1>4, <1>5

(* Call c moves the request it works on. *)
LEMMA CallMoves ==
  ASSUME Inv1, Held' = Held, NEW c \in Calls, NEW i, i = item[c], NEW to,
         pc[c] \in Deciding \cup {"idle"}, status'[c] = status[c],
         \A d \in Calls : d # c => Untouched(d),
         CallPhase(c, i)' = to,
         \A j \in 1..Len(Items[c]) : j # i => CallPhase(c, j)' = CallPhase(c, j)
  PROVE  /\ ~(Consume[c] /\ i \in 1..Len(Items[c])) => UNCHANGED Ledger!lvars
         /\ Phase(pc[c]) = to => UNCHANGED Ledger!lvars
         /\ Consume[c] /\ i \in 1..Len(Items[c]) =>
              /\ <<c, i>> \in Requests
              /\ Ledger!Move(<<c, i>>, {Phase(pc[c])}, to)
<1>1. status[c] = "none" /\ status'[c] = "none" /\ i \notin granted[c] /\ i \in Nat
  BY EarlyFacts DEF Deciding
<1>2. ASSUME NEW r \in Requests, r[1] = c
      PROVE  RequestState(r) = CallPhase(c, r[2]) /\ RequestState(r)' = CallPhase(c, r[2])'
  BY <1>1, <1>2 DEF RequestState
<1>3. ASSUME NEW r \in Requests, r # <<c, i>>
      PROVE  RequestState(r)' = RequestState(r)
  <2>1. CASE r[1] # c
    BY <2>1, RequestFacts, UntouchedState
  <2>2. CASE r[1] = c
    <3>1. r[2] # i /\ r[2] \in 1..Len(Items[c])
      BY <1>3, <2>2, RequestFacts
    <3> QED
      BY <1>2, <2>2, <3>1
  <2> QED
    BY <2>1, <2>2
<1>4. CallPhase(c, i) = Phase(pc[c])
  BY <1>1 DEF CallPhase
<1>5. CASE ~(Consume[c] /\ i \in 1..Len(Items[c]))
  <2>1. <<c, i>> \notin Requests
    BY <1>5, RequestFacts
  <2> QED
    BY <1>3, <1>5, <2>1, NoneMoves
<1>6. CASE Consume[c] /\ i \in 1..Len(Items[c])
  <2> DEFINE q == <<c, i>>
  <2>1. q \in Requests
    BY <1>6, RequestIntro
  <2>2. RequestState(q) = Phase(pc[c]) /\ RequestState(q)' = to
    BY <1>2, <1>4, <2>1
  <2>3. \A r \in Requests : r # q => RequestState(r)' = RequestState(r)
    BY <1>3
  <2> HIDE DEF q
  <2>4. Ledger!Move(q, {Phase(pc[c])}, to)
    BY <2>1, <2>2, <2>3, MoveOne
  <2>5. Phase(pc[c]) = to => UNCHANGED Ledger!lvars
    BY <2>1, <2>2, <2>3, NoneMoves
  <2> QED
    BY <1>6, <2>1, <2>4, <2>5 DEF q
<1> QED
  BY <1>5, <1>6

(* Call c goes to another label and stays with its request.                *)
StaysWith(c, label) ==
  /\ pc'[c] = label /\ item'[c] = item[c] /\ granted'[c] = granted[c]
  /\ status'[c] = status[c]
  /\ \A d \in Calls : d # c => Untouched(d)

LEMMA LabelMoves ==
  ASSUME Inv1, Held' = Held, NEW c \in Calls, NEW label, NEW i, i = item[c],
         pc[c] \in Deciding \cup {"idle"}, StaysWith(c, label)
  PROVE  /\ ~(Consume[c] /\ i \in 1..Len(Items[c])) => UNCHANGED Ledger!lvars
         /\ Phase(pc[c]) = Phase(label) => UNCHANGED Ledger!lvars
         /\ Consume[c] /\ i \in 1..Len(Items[c]) =>
              /\ <<c, i>> \in Requests
              /\ Ledger!Move(<<c, i>>, {Phase(pc[c])}, Phase(label))
<1>1. /\ i \notin granted[c] /\ i \in Nat
      /\ item'[c] = i /\ granted'[c] = granted[c] /\ pc'[c] = label
  BY EarlyFacts DEF Deciding, StaysWith
<1>2. CallPhase(c, i)' = Phase(pc[c])'
  BY <1>1 DEF CallPhase
<1>3. Phase(pc[c])' = Phase(label)
  BY <1>1 DEF Phase
<1>4. ASSUME NEW j \in 1..Len(Items[c]), j # i
      PROVE  CallPhase(c, j)' = CallPhase(c, j)
  BY <1>1, <1>4 DEF CallPhase
<1>5. status'[c] = status[c] /\ \A d \in Calls : d # c => Untouched(d)
  BY DEF StaysWith
<1> QED
  BY <1>2, <1>3, <1>4, <1>5, CallMoves

(* The positions of a request, as the ledger names them. *)
LEMMA LedgerPositions ==
  ASSUME NEW q \in Requests
  PROVE  Ledger!PositionsOf(q) = {<<q, p>> : p \in 1..Len(Chain(q[1], q[2]))}
  BY DEF Ledger!PositionsOf

LEMMA HeldPosition ==
  ASSUME NEW q \in Requests, NEW p \in 1..Len(Chain(q[1], q[2]))
  PROVE  <<q, p>> \in Held <=> Charged(q[1], q[2], p)
  BY DEF Held, Positions

(* A request that is nowhere charged holds nothing. *)
LEMMA HoldsNothing ==
  ASSUME NEW q \in Requests,
         \A p \in 1..Len(Chain(q[1], q[2])) : ~Charged(q[1], q[2], p)
  PROVE  Held \cap Ledger!PositionsOf(q) = {}
  BY LedgerPositions, HeldPosition

LEMMA HoldsAll ==
  ASSUME NEW q \in Requests,
         \A p \in 1..Len(Chain(q[1], q[2])) : Charged(q[1], q[2], p)
  PROVE  Ledger!PositionsOf(q) \subseteq Held
  BY LedgerPositions, HeldPosition

(***************************************************************************)
(* The steps of a call that move its request or nothing.                   *)
(***************************************************************************)

LEMMA SimulatesOne ==
  ASSUME NEW q \in Requests,
         \/ Ledger!Take(q) \/ Ledger!GrantAll(q) \/ Ledger!Keep(q)
         \/ Ledger!GiveUp(q) \/ Ledger!Leave(q)
  PROVE  Simulates
  BY DEF Simulates, Ledger!LNext

LEMMA NotHeldEarly ==
  ASSUME Inv1, NEW c \in Calls, NEW i, i = item[c],
         pc[c] \in {"idle", "check"} \/ (pc[c] \in {"undo", "release"} /\ undone[c] = accepted[c]),
         <<c, i>> \in Requests
  PROVE  Held \cap Ledger!PositionsOf(<<c, i>>) = {}
<1>1. status[c] = "none" /\ refunding # c /\ i \notin granted[c] /\ TypeOK
  BY EarlyFacts DEF Deciding
<1>2. ASSUME NEW p \in 1..Len(Chain(c, i)) PROVE ~Charged(c, i, p)
  BY <1>1 DEF Charged, InLoop, InReservation, TypeOK
<1> QED
  BY <1>2, HoldsNothing

LEMMA HeldWhole ==
  ASSUME Inv1, NEW c \in Calls, NEW i, i = item[c],
         pc[c] = "eval", accepted[c] = Len(ChainOf(c)),
         <<c, i>> \in Requests
  PROVE  Ledger!PositionsOf(<<c, i>>) \subseteq Held
<1>1. undone[c] = 0 /\ accepted[c] = Len(Chain(c, i)) /\ Len(Chain(c, i)) \in Nat
  BY LoopFacts DEF Inv1, Shape, CallShape, Looping, ChainOf
<1>2. ASSUME NEW p \in 1..Len(Chain(c, i)) PROVE Charged(c, i, p)
  BY <1>1 DEF Charged, InLoop
<1> QED
  BY <1>2, HoldsAll

LEMMA BeginMoves == ASSUME Inv1, NEW c \in Calls, Begin(c) PROVE Simulates
<1> DEFINE label == IF Settling(c) THEN Kind[c] ELSE "check"
<1>1. Held' = Held
  BY CallKeeps DEF Keeps
<1>2. TypeOK
  BY DEF Inv1
<1>3. pc[c] = "idle" /\ StaysWith(c, label)
  BY <1>2 DEF Begin, Goto, StaysWith, Untouched, TypeOK, rsvVars, lockVars, loopVars
<1>4. PICK i : i = item[c]
  OBVIOUS
<1>5. Phase(label) \in {"new", "gone"} /\ Phase(pc[c]) = "new"
  BY <1>3 DEF Phase, Settling
<1>6. ASSUME Consume[c], i \in 1..Len(Items[c])
      PROVE  /\ <<c, i>> \in Requests
             /\ Ledger!Move(<<c, i>>, {"new"}, Phase(label))
             /\ Held \cap Ledger!PositionsOf(<<c, i>>) = {}
  <2> HIDE DEF label
  <2> QED
    BY <1>1, <1>3, <1>4, <1>5, <1>6, LabelMoves, NotHeldEarly
<1>7. ASSUME ~(Consume[c] /\ i \in 1..Len(Items[c])) \/ Phase(label) = "new"
      PROVE  UNCHANGED Ledger!lvars
  <2> HIDE DEF label
  <2> QED
    BY <1>1, <1>3, <1>4, <1>5, <1>7, LabelMoves
<1>8. CASE Consume[c] /\ i \in 1..Len(Items[c]) /\ Phase(label) = "gone"
  <2> HIDE DEF label
  <2>1. <<c, i>> \in Requests /\ Ledger!Leave(<<c, i>>)
    BY <1>6, <1>8 DEF Ledger!Leave, Ledger!Move
  <2> QED
    BY <2>1, SimulatesOne
<1> QED
  BY <1>5, <1>7, <1>8 DEF Simulates

LEMMA CheckMoves ==
  ASSUME Inv1, NEW c \in Calls, Check(c) \/ CheckFails(c) PROVE Simulates
<1>1. Held' = Held /\ TypeOK
  BY CallKeeps DEF Keeps, Inv1
<1>2. PICK i : i = item[c]
  OBVIOUS
<1>3. PICK label \in {"undo", "eval", "done"} : StaysWith(c, label) /\ pc[c] = "check"
  BY <1>1 DEF Check, CheckFails, Goto, Return, StaysWith, Untouched, TypeOK, rsvVars, lockVars, loopVars
<1>4. Phase(pc[c]) = "new" /\ Phase(label) \in {"returning", "taking", "gone"}
  BY <1>3 DEF Phase
<1>5. CASE ~(Consume[c] /\ i \in 1..Len(Items[c]))
  BY <1>1, <1>2, <1>3, <1>5, LabelMoves DEF Deciding, Simulates
<1>6. CASE Consume[c] /\ i \in 1..Len(Items[c])
  <2>1. <<c, i>> \in Requests /\ Ledger!Move(<<c, i>>, {"new"}, Phase(label))
    BY <1>1, <1>2, <1>3, <1>4, <1>6, LabelMoves DEF Deciding
  <2>2. Held \cap Ledger!PositionsOf(<<c, i>>) = {}
    BY <1>2, <1>3, <2>1, NotHeldEarly
  <2>3. Ledger!Take(<<c, i>>) \/ Ledger!GiveUp(<<c, i>>) \/ Ledger!Leave(<<c, i>>)
    BY <1>4, <2>1, <2>2 DEF Ledger!Take, Ledger!GiveUp, Ledger!Leave, Ledger!Move
  <2> QED
    BY <2>1, <2>3, SimulatesOne
<1> QED
  BY <1>5, <1>6

LEMMA DenyMoves ==
  ASSUME Inv1, NEW c \in Calls, Deny(c) \/ CreateFails(c) PROVE Simulates
<1>1. Held' = Held /\ TypeOK
  BY CallKeeps DEF Keeps, Inv1
<1>2. PICK i : i = item[c]
  OBVIOUS
<1>3. PICK label \in {"undo", "release"} :
        StaysWith(c, label) /\ pc[c] \in {"eval", "create"}
  BY <1>1 DEF Deny, CreateFails, Goto, StaysWith, Untouched, TypeOK, rsvVars, lockVars, loopVars
<1>4. Phase(pc[c]) \in {"taking", "granted"} /\ Phase(label) = "returning"
  BY <1>3 DEF Phase
<1>5. CASE ~(Consume[c] /\ i \in 1..Len(Items[c]))
  BY <1>1, <1>2, <1>3, <1>5, LabelMoves DEF Deciding, Simulates
<1>6. CASE Consume[c] /\ i \in 1..Len(Items[c])
  <2>1. <<c, i>> \in Requests /\ Ledger!Move(<<c, i>>, {Phase(pc[c])}, "returning")
    BY <1>1, <1>2, <1>3, <1>4, <1>6, LabelMoves DEF Deciding
  <2>2. Ledger!GiveUp(<<c, i>>)
    BY <1>4, <2>1 DEF Ledger!GiveUp, Ledger!Move
  <2> QED
    BY <2>1, <2>2, SimulatesOne
<1> QED
  BY <1>5, <1>6

LEMMA StampMoves ==
  ASSUME Inv1, NEW c \in Calls, Stamp(c) PROVE Simulates
<1>1. Held' = Held /\ TypeOK
  BY CallKeeps DEF Keeps, Inv1
<1>2. StaysWith(c, "create") /\ pc[c] = "stamp"
  BY <1>1 DEF Stamp, Goto, StaysWith, Untouched, TypeOK, lockVars, loopVars
<1>3. Phase("stamp") = Phase("create")
  BY DEF Phase
<1> QED
  BY <1>1, <1>2, <1>3, LabelMoves DEF Deciding, Simulates

LEMMA FailReserveMoves ==
  ASSUME Inv1, NEW c \in Calls, FailReserve(c) PROVE Simulates
<1>1. Held' = Held /\ TypeOK
  BY CallKeeps DEF Keeps, Inv1
<1>2. PICK i : i = item[c]
  OBVIOUS
<1>3. StaysWith(c, "done") /\ pc[c] = "release" /\ undone[c] = accepted[c]
  BY <1>1 DEF FailReserve, Goto, Return, StaysWith, Untouched, TypeOK, rsvVars, lockVars, loopVars
<1>4. Phase("release") = "returning" /\ Phase("done") = "gone"
  BY DEF Phase
<1>5. CASE ~(Consume[c] /\ i \in 1..Len(Items[c]))
  BY <1>1, <1>2, <1>3, <1>5, LabelMoves DEF Deciding, Simulates
<1>6. CASE Consume[c] /\ i \in 1..Len(Items[c])
  <2>1. <<c, i>> \in Requests /\ Ledger!Move(<<c, i>>, {"returning"}, "gone")
    BY <1>1, <1>2, <1>3, <1>4, <1>6, LabelMoves DEF Deciding
  <2>2. Held \cap Ledger!PositionsOf(<<c, i>>) = {}
    BY <1>2, <1>3, <2>1, NotHeldEarly
  <2>3. Ledger!Leave(<<c, i>>)
    BY <2>1, <2>2 DEF Ledger!Leave, Ledger!Move
  <2> QED
    BY <2>1, <2>3, SimulatesOne
<1> QED
  BY <1>5, <1>6

LEMMA GrantReserveMoves ==
  ASSUME Inv1, NEW c \in Calls, GrantReserve(c) PROVE Simulates
<1>1. Held' = Held /\ TypeOK
  BY CallKeeps DEF Keeps, Inv1
<1>2. PICK i : i = item[c]
  OBVIOUS
<1>3. StaysWith(c, "stamp") /\ pc[c] = "eval" /\ accepted[c] = Len(ChainOf(c))
  BY <1>1 DEF GrantReserve, Goto, StaysWith, Untouched, TypeOK, rsvVars, lockVars, loopVars
<1>4. Phase("eval") = "taking" /\ Phase("stamp") = "granted"
  BY DEF Phase
<1>5. CASE ~(Consume[c] /\ i \in 1..Len(Items[c]))
  BY <1>1, <1>2, <1>3, <1>5, LabelMoves DEF Deciding, Simulates
<1>6. CASE Consume[c] /\ i \in 1..Len(Items[c])
  <2>1. <<c, i>> \in Requests /\ Ledger!Move(<<c, i>>, {"taking"}, "granted")
    BY <1>1, <1>2, <1>3, <1>4, <1>6, LabelMoves DEF Deciding
  <2>2. Ledger!PositionsOf(<<c, i>>) \subseteq Held
    BY <1>2, <1>3, <2>1, HeldWhole
  <2>3. Ledger!GrantAll(<<c, i>>)
    BY <2>1, <2>2 DEF Ledger!GrantAll
  <2> QED
    BY <2>1, <2>3, SimulatesOne
<1> QED
  BY <1>5, <1>6

(* The request is decided and the call goes on to the next of the batch.   *)
LEMMA DecidedMoves ==
  ASSUME Inv1, NEW c \in Calls, Grant(c) \/ Reject(c) PROVE Simulates
<1>1. Held' = Held /\ TypeOK
  BY CallKeeps DEF Keeps, Inv1
<1>2. PICK i : i = item[c]
  OBVIOUS
<1>3. pc[c] \in {"eval", "undo"}
  BY DEF Grant, Reject, Decided, Goto, Return
<1>4. /\ i \in 1..Len(Items[c]) /\ Len(Items[c]) \in Nat
      /\ i \notin granted[c] /\ granted[c] \subseteq Int
  BY <1>2, <1>3, LoopFacts, EarlyFacts, KindFacts DEF Looping, Deciding
<1>5. /\ status'[c] = status[c]
      /\ \A d \in Calls : d # c => Untouched(d)
      /\ \/ item'[c] = i /\ pc'[c] = "done"
         \/ item'[c] = i + 1 /\ pc'[c] = "check"
      /\ \/ Grant(c) /\ granted'[c] = granted[c] \cup {i}
         \/ Reject(c) /\ granted'[c] = granted[c]
  BY <1>1, <1>2 DEF Grant, Reject, Decided, Goto, Return, Untouched, TypeOK, rsvVars, lockVars
<1>6. ASSUME NEW j \in 1..Len(Items[c]), j # i
      PROVE  CallPhase(c, j)' = CallPhase(c, j)
  <2>1. j \in granted'[c] <=> j \in granted[c]
    BY <1>5, <1>6
  <2>2. CASE j < i
    <3>1. j < item'[c] /\ j < item[c] /\ item'[c] \in Int /\ item[c] \in Int
      BY <1>2, <1>4, <1>5, <2>2
    <3>2. CallPhase(c, j)' = IF j \in granted'[c] THEN "kept" ELSE "gone"
      BY <3>1 DEF CallPhase
    <3>3. CallPhase(c, j) = IF j \in granted[c] THEN "kept" ELSE "gone"
      BY <3>1 DEF CallPhase
    <3> QED
      BY <2>1, <3>2, <3>3
  <2>3. CASE j > i
    <3>1. \/ j > item'[c]
          \/ j = item'[c] /\ pc'[c] = "check"
      BY <1>4, <1>5, <2>3
    <3>2. CallPhase(c, j)' = IF j \in granted'[c] THEN "kept" ELSE "new"
      <4>1. CASE j > item'[c]
        BY <1>4, <1>5, <4>1 DEF CallPhase
      <4>2. CASE j = item'[c] /\ pc'[c] = "check"
        BY <4>2 DEF CallPhase, Phase
      <4> QED
        BY <3>1, <4>1, <4>2
    <3>3. CallPhase(c, j) = IF j \in granted[c] THEN "kept" ELSE "new"
      BY <1>2, <1>4, <2>3 DEF CallPhase
    <3> QED
      BY <2>1, <3>2, <3>3
  <2> QED
    BY <1>4, <1>6, <2>2, <2>3
<1>7. CASE Grant(c)
  <2>1. i \in granted'[c] /\ pc[c] = "eval" /\ accepted[c] = Len(ChainOf(c))
    BY <1>4, <1>5, <1>7 DEF Grant, Reject, Decided, Goto, Return
  <2>2. CallPhase(c, i)' = "kept"
    BY <2>1 DEF CallPhase
  <2>3. Phase(pc[c]) = "taking"
    BY <2>1 DEF Phase
  <2>4. CASE ~Consume[c]
    BY <1>1, <1>2, <1>3, <1>5, <1>6, <2>2, <2>4, CallMoves DEF Deciding, Simulates
  <2>5. CASE Consume[c]
    <3>1. <<c, i>> \in Requests /\ Ledger!Move(<<c, i>>, {"taking"}, "kept")
      BY <1>1, <1>2, <1>3, <1>4, <1>5, <1>6, <2>2, <2>3, <2>5, CallMoves DEF Deciding
    <3>2. Ledger!PositionsOf(<<c, i>>) \subseteq Held
      BY <1>2, <2>1, <3>1, HeldWhole
    <3>3. Ledger!GrantAll(<<c, i>>)
      BY <3>1, <3>2 DEF Ledger!GrantAll
    <3> QED
      BY <3>1, <3>3, SimulatesOne
  <2> QED
    BY <2>4, <2>5
<1>8. CASE Reject(c)
  <2>1. i \notin granted'[c] /\ pc[c] = "undo" /\ undone[c] = accepted[c]
    BY <1>3, <1>4, <1>5, <1>8 DEF Grant, Reject, Decided, Goto, Return
  <2>2. CallPhase(c, i)' = "gone"
    <3>1. CASE item'[c] = i /\ pc'[c] = "done"
      BY <1>4, <2>1, <3>1 DEF CallPhase, Phase
    <3>2. CASE item'[c] = i + 1
      BY <1>4, <2>1, <3>2 DEF CallPhase
    <3> QED
      BY <1>5, <3>1, <3>2
  <2>3. Phase(pc[c]) = "returning"
    BY <2>1 DEF Phase
  <2>4. CASE ~Consume[c]
    BY <1>1, <1>2, <1>3, <1>5, <1>6, <2>2, <2>4, CallMoves DEF Deciding, Simulates
  <2>5. CASE Consume[c]
    <3>1. <<c, i>> \in Requests /\ Ledger!Move(<<c, i>>, {"returning"}, "gone")
      BY <1>1, <1>2, <1>3, <1>4, <1>5, <1>6, <2>2, <2>3, <2>5, CallMoves DEF Deciding
    <3>2. Held \cap Ledger!PositionsOf(<<c, i>>) = {}
      BY <1>2, <2>1, <3>1, NotHeldEarly
    <3>3. Ledger!Leave(<<c, i>>)
      BY <3>1, <3>2 DEF Ledger!Leave, Ledger!Move
    <3> QED
      BY <3>1, <3>3, SimulatesOne
  <2> QED
    BY <2>4, <2>5
<1> QED
  BY <1>7, <1>8

(***************************************************************************)
(* The steps of reservations.                                              *)
(***************************************************************************)

(* A reservation is the one request of its call. *)
LEMMA OnlyRequest ==
  ASSUME Inv1, NEW r \in Calls, Kind[r] = "reserve"
  PROVE  /\ <<r, 1>> \in Requests
         /\ \A q \in Requests : q[1] = r => q = <<r, 1>>
<1>1. Consume[r] /\ Len(Items[r]) = 1
  BY KindFacts
<1>2. 1 \in 1..Len(Items[r])
  BY <1>1
<1>3. ASSUME NEW q \in Requests, q[1] = r PROVE q = <<r, 1>>
  <2>1. q[2] \in 1..1 /\ q = <<q[1], q[2]>>
    BY <1>1, <1>3, RequestFacts
  <2> QED
    BY <1>3, <2>1
<1> QED
  BY <1>1, <1>2, <1>3, RequestIntro

(* Nothing but the reservation of r moves. *)
LEMMA ReservationMoves ==
  ASSUME Inv1, Held' = Held, NEW r \in Calls, Kind[r] = "reserve",
         NEW from, NEW to,
         RequestState(<<r, 1>>) \in from, RequestState(<<r, 1>>)' = to,
         \A d \in Calls : d # r => Untouched(d)
  PROVE  /\ <<r, 1>> \in Requests
         /\ Ledger!Move(<<r, 1>>, from, to)
         /\ RequestState(<<r, 1>>) = to => UNCHANGED Ledger!lvars
<1> DEFINE q == <<r, 1>>
<1>1. q \in Requests
  BY OnlyRequest
<1>2. RequestState(q) \in from /\ RequestState(q)' = to
  OBVIOUS
<1>3. ASSUME NEW s \in Requests, s # q PROVE RequestState(s)' = RequestState(s)
  <2>1. s[1] # r /\ s[1] \in Calls
    BY <1>3, OnlyRequest, RequestFacts
  <2> QED
    BY <2>1, UntouchedState
<1> HIDE DEF q
<1>4. Ledger!Move(q, from, to)
  BY <1>1, <1>2, <1>3, MoveOne
<1>5. RequestState(q) = to => UNCHANGED Ledger!lvars
  BY <1>1, <1>2, <1>3, NoneMoves
<1> QED
  BY <1>1, <1>4, <1>5 DEF q

LEMMA CreateMoves ==
  ASSUME Inv1, NEW c \in Calls, Create(c) PROVE Simulates
<1>1. Held' = Held /\ TypeOK
  BY CallKeeps DEF Keeps, Inv1
<1>2. /\ pc[c] = "create" /\ status[c] = "none" /\ Kind[c] = "reserve" /\ item[c] = 1
      /\ 1 \notin granted[c]
  <2>1. pc[c] = "create"
    BY DEF Create, Goto, Return
  <2> QED
    BY <2>1, EarlyFacts DEF CallShape, Deciding
<1>3. status'[c] = "pending" /\ \A d \in Calls : d # c => Untouched(d)
  BY <1>1 DEF Create, Goto, Return, Untouched, TypeOK, lockVars, loopVars
<1>4. RequestState(<<c, 1>>) = "granted"
  BY <1>2 DEF RequestState, CallPhase, Phase
<1>5. RequestState(<<c, 1>>)' = "granted"
  BY <1>3 DEF RequestState
<1> QED
  BY <1>1, <1>2, <1>3, <1>4, <1>5, ReservationMoves DEF Simulates

LEMMA CommitMoves ==
  ASSUME Inv1, NEW c \in Calls, Commit(c) PROVE Simulates
<1>1. Held' = Held /\ TypeOK
  BY CallKeeps DEF Keeps, Inv1
<1>2. PICK r \in Calls : r = Target[c]
  BY KindFacts
<1>3. status[r] = "pending" /\ pc[c] = "commit"
  BY <1>2 DEF Commit, CanCommit, Goto, Return
<1>4. Kind[r] = "reserve" /\ pc[r] = "done"
  BY <1>3 DEF Inv1, Shape, ReservationShape
<1>5. Phase("commit") = Phase("done")
  BY DEF Phase
<1>6. status'[r] = "committed" /\ \A d \in Calls : d # r => Untouched(d)
  BY <1>1, <1>2, <1>3, <1>5 DEF Commit, Goto, Return, Untouched, TypeOK, lockVars, loopVars
<1>7. RequestState(<<r, 1>>) = "granted" /\ RequestState(<<r, 1>>)' = "kept"
  BY <1>3, <1>6 DEF RequestState
<1>8. <<r, 1>> \in Requests /\ Ledger!Keep(<<r, 1>>)
  BY <1>1, <1>4, <1>6, <1>7, ReservationMoves DEF Ledger!Keep
<1> QED
  BY <1>8, SimulatesOne

LEMMA CancelMoves ==
  ASSUME Inv1, NEW c \in Calls, Cancel(c) PROVE Simulates
<1>1. Held' = Held /\ TypeOK /\ LockShape
  BY CallKeeps DEF Keeps, Inv1, Shape
<1>2. PICK r \in Calls : r = Target[c]
  BY KindFacts
<1>3. status[r] = "pending" /\ pc[c] = "cancel" /\ resMu = None /\ refunding = None
  BY <1>1, <1>2 DEF Cancel, Goto, LockShape
<1>4. Kind[r] = "reserve" /\ pc[r] = "done" /\ r # None
  BY <1>3, ConstantFacts DEF Inv1, Shape, ReservationShape
<1>5. Phase("cancel") = Phase("refund")
  BY DEF Phase
<1>6. /\ status'[r] = "cancelled" /\ refunding' = r
      /\ \A d \in Calls : d # r => Untouched(d)
  BY <1>1, <1>2, <1>3, <1>5, ConstantFacts DEF Cancel, Goto, Untouched, TypeOK, loopVars
<1>7. RequestState(<<r, 1>>) = "granted" /\ RequestState(<<r, 1>>)' = "returning"
  BY <1>3, <1>6 DEF RequestState
<1>8. <<r, 1>> \in Requests /\ Ledger!GiveUp(<<r, 1>>)
  <2>1. RequestState(<<r, 1>>) \in {"new", "taking", "granted"}
    BY <1>7
  <2> QED
    BY <1>1, <1>4, <1>6, <1>7, <2>1, ReservationMoves DEF Ledger!GiveUp
<1> QED
  BY <1>8, SimulatesOne

LEMMA ReapItemMoves ==
  ASSUME Inv1, NEW r \in Calls, ReapItem(r) PROVE Simulates
<1>1. Held' = Held /\ TypeOK
  BY OtherKeeps DEF Keeps, Inv1
<1>2. status[r] = "pending" /\ refunding = None
  BY DEF ReapItem, Due
<1>3. Kind[r] = "reserve"
  BY <1>2 DEF Inv1, Shape, ReservationShape
<1>4. /\ status'[r] = "expired" /\ refunding' = r
      /\ \A d \in Calls : d # r => Untouched(d)
  BY <1>1, <1>2, ConstantFacts DEF ReapItem, Untouched, TypeOK, callVars, loopVars
<1>5. RequestState(<<r, 1>>) = "granted" /\ RequestState(<<r, 1>>)' = "returning"
  BY <1>2, <1>4 DEF RequestState
<1>6. <<r, 1>> \in Requests /\ Ledger!GiveUp(<<r, 1>>)
  <2>1. RequestState(<<r, 1>>) \in {"new", "taking", "granted"}
    BY <1>5
  <2> QED
    BY <1>1, <1>3, <1>4, <1>5, <2>1, ReservationMoves DEF Ledger!GiveUp
<1> QED
  BY <1>6, SimulatesOne

(* A refund is over. *)
LEMMA RefundDoneMoves ==
  ASSUME Inv1, (\E c \in Calls : FinishCancel(c)) \/ ReapNext PROVE Simulates
<1>1. Held' = Held /\ TypeOK /\ LockShape
  BY CallKeeps, OtherKeeps DEF Keeps, Inv1, Shape
<1>2. RefundDone
  BY DEF FinishCancel, ReapNext
<1>3. PICK r \in Calls : r = refunding
  BY <1>1, <1>2 DEF RefundDone, TypeOK
<1>4. /\ Kind[r] = "reserve" /\ pc[r] = "done"
      /\ status[r] \in {"cancelled", "expired"}
      /\ refundPos > Len(Chain(r, 1)) /\ refundPos \in Nat /\ Len(Chain(r, 1)) \in Nat
      /\ refunding' = None /\ r # None
  BY <1>1, <1>2, <1>3, RefundFacts, ConstantFacts DEF RefundDone, LockShape
<1>5. Phase("refund") = Phase("done")
  BY DEF Phase
<1>6. status'[r] = status[r] /\ \A d \in Calls : d # r => Untouched(d)
  BY <1>1, <1>3, <1>4, <1>5, ConstantFacts
     DEF FinishCancel, ReapNext, Goto, Return, Untouched, TypeOK, rsvVars, callVars, loopVars
<1>7. RequestState(<<r, 1>>) = "returning" /\ RequestState(<<r, 1>>)' = "gone"
  BY <1>3, <1>4, <1>6 DEF RequestState
<1>8. <<r, 1>> \in Requests /\ Ledger!Move(<<r, 1>>, {"new", "returning"}, "gone")
  <2>1. RequestState(<<r, 1>>) \in {"new", "returning"}
    BY <1>7
  <2> QED
    BY <1>1, <1>4, <1>6, <1>7, <2>1, ReservationMoves
<1>9. Held \cap Ledger!PositionsOf(<<r, 1>>) = {}
  <2>1. granted[r] = {}
    BY <1>4 DEF Inv1, Shape, CallShape
  <2>2. ASSUME NEW p \in 1..Len(Chain(r, 1)) PROVE ~Charged(r, 1, p)
    BY <1>3, <1>4, <2>1 DEF Charged, InLoop, InReservation
  <2> QED
    BY <1>8, <2>2, HoldsNothing
<1> QED
  BY <1>8, <1>9, SimulatesOne DEF Ledger!Leave

(* The steps that move nothing. *)
LEMMA OthersMove ==
  ASSUME Inv1,
         \/ \E c \in Calls : CommitNothing(c) \/ CancelNothing(c) \/ Timeout(c)
         \/ ReapStart \/ ReapEnd \/ Tick \/ Stop \/ UNCHANGED vars
  PROVE  UNCHANGED Ledger!lvars
<1>1. Held' = Held /\ TypeOK
  BY CallKeeps, OtherKeeps DEF Keeps, Inv1
<1>2. Phase("commit") = Phase("done") /\ Phase("cancel") = Phase("done")
  BY DEF Phase
<1>3. ASSUME NEW d \in Calls PROVE Untouched(d)
  BY <1>1, <1>2 DEF CommitNothing, CancelNothing, Timeout, ReapStart, ReapEnd, Tick, Stop,
     Goto, Return, Untouched, TypeOK, vars, rsvVars, lockVars, callVars, loopVars
<1> QED
  BY <1>1, <1>3, RequestFacts, UntouchedState, NoneMoves

(***************************************************************************)
(* The steps that charge a position or give one back.                      *)
(***************************************************************************)

LEMMA HeldPositions ==
  ASSUME NEW x \in Positions
  PROVE  /\ x[1] \in Requests
         /\ x \in Ledger!PositionsOf(x[1])
         /\ x \in Held <=> Charged(x[1][1], x[1][2], x[2])
         /\ Ledger!CounterAt(x) = CounterOf(x)
<1>1. PICK q \in Requests : \E p \in 1..Len(Chain(q[1], q[2])) : x = <<q, p>>
  BY DEF Positions
<1>2. x[1] \in Requests /\ x[2] \in 1..Len(Chain(x[1][1], x[1][2])) /\ x = <<x[1], x[2]>>
  BY <1>1
<1>3. x \in Ledger!PositionsOf(x[1])
  BY <1>2, LedgerPositions
<1> QED
  BY <1>2, <1>3 DEF Held, Ledger!CounterAt, CounterOf

(* The units that the ledger counts are the engine's. *)
LEMMA SameUnits ==
  ASSUME NEW k
  PROVE  Ledger!HeldUnits(k) = Units(k)
<1>1. ASSUME NEW y \in Held
      PROVE  /\ Ledger!CounterAt(y) = CounterOf(y)
             /\ [q \in Requests |-> Cost(q[1], q[2])][y[1]] = CostAt(y)
  <2>1. y \in Positions
    BY DEF Held
  <2> QED
    BY <2>1, HeldPositions DEF CostAt
<1>2. {y \in Held : Ledger!CounterAt(y) = k} = {y \in Held : CounterOf(y) = k}
  BY <1>1
<1>3. \A x \in {y \in Held : CounterOf(y) = k} :
        [q \in Requests |-> Cost(q[1], q[2])][x[1]] = CostAt(x)
  BY <1>1
<1> DEFINE Here == {y \in Held : CounterOf(y) = k}
           Cells(x) == {<<x, n>> : n \in 1..[q \in Requests |-> Cost(q[1], q[2])][x[1]]}
<1>4. \A x \in Here : Cells(x) = UnitsOf(x)
  BY <1>3 DEF UnitsOf
<1>5. Ledger!HeldUnits(k) = UNION {Cells(x) : x \in Here}
  BY <1>2 DEF Ledger!HeldUnits
<1>6. Units(k) = UNION {UnitsOf(x) : x \in Here}
  BY DEF Units, UnitsOver
<1> HIDE DEF Here, Cells
<1> QED
  BY <1>4, <1>5, <1>6

(* The ledger's Cardinality is that of this module. *)
LEMMA SameCardinality ==
  ASSUME NEW S
  PROVE  Ledger!Cardinality(S) = Cardinality(S)
  BY DEF Ledger!Cardinality, Cardinality

LEMMA HoldsOne ==
  ASSUME Inv2, NEW x \in Positions, Adds(x),
         \A r \in Requests : RequestState(r)' = RequestState(r),
         RequestState(x[1]) = "taking"
  PROVE  Ledger!LNext
<1>1. PICK q \in Requests : q = x[1]
  BY HeldPositions
<1>2. x \in Ledger!PositionsOf(q)
  BY <1>1, HeldPositions
<1>3. Ledger!Room(x)
  <2>1. CounterOf(x) \in Counters
    BY PositionFacts
  <2>2. used[CounterOf(x)] = Cardinality(Units(CounterOf(x)))
    BY <2>1 DEF Inv2, Exact
  <2>3. Cardinality(Units(CounterOf(x))) + CostAt(x) <= Limit[CounterOf(x)]
    BY <2>2 DEF Adds
  <2>4. [s \in Requests |-> Cost(s[1], s[2])][x[1]] = CostAt(x)
    BY <1>1 DEF CostAt
  <2>5. Ledger!CounterAt(x) = CounterOf(x)
    BY HeldPositions
  <2>6. Ledger!HeldUnits(CounterOf(x)) = Units(CounterOf(x))
    BY SameUnits
  <2> QED
    BY <2>3, <2>4, <2>5, <2>6, SameCardinality DEF Ledger!Room
<1>4. Ledger!Hold(x)
  BY <1>1, <1>3 DEF Ledger!Hold, Adds
<1> QED
  BY <1>2, <1>4 DEF Ledger!LNext

LEMMA ReturnsOne ==
  ASSUME NEW x \in Positions, Removes(x),
         \A r \in Requests : RequestState(r)' = RequestState(r),
         RequestState(x[1]) = "returning"
  PROVE  Ledger!LNext
<1>1. PICK q \in Requests : q = x[1]
  BY HeldPositions
<1>2. x \in Ledger!PositionsOf(q)
  BY <1>1, HeldPositions
<1>3. Ledger!Return(x)
  BY <1>1 DEF Ledger!Return, Ledger!Returns, Removes
<1> QED
  BY <1>2, <1>3 DEF Ledger!LNext

(* The step of a call that is charging changes its own positions only. *)
LEMMA OwnPosition ==
  ASSUME Inv1, NEW c \in Calls, Admit(c) \/ GiveBack(c), NEW x \in Positions,
         ~(x \in Held <=> x \in Held')
  PROVE  x[1] = <<c, item[c]>>
<1> DEFINE d == x[1][1]
           j == x[1][2]
           p == x[2]
<1>1. ~(Charged(d, j, p)' <=> Charged(d, j, p)) /\ d \in Calls /\ x[1] = <<d, j>>
  <2>1. Positions' = Positions
    BY DEF Positions, Requests, Chain
  <2>2. x = <<<<d, j>>, p>> /\ d \in Calls
    BY PositionFacts
  <2>3. x[1] = <<d, j>>
    BY <2>2
  <2> HIDE DEF d, j, p
  <2>4. x \in Held <=> Charged(d, j, p)
    BY DEF Held, d, j, p
  <2>5. x \in Held' <=> Charged(d, j, p)'
    BY <2>1 DEF Held, d, j, p
  <2> QED
    BY <2>2, <2>3, <2>4, <2>5
<1> HIDE DEF d, j, p
<1>2. TypeOK
  BY DEF Inv1
<1>3. /\ pc' = pc /\ item' = item /\ granted' = granted /\ status' = status
      /\ refunding' = refunding /\ refundPos' = refundPos
      /\ d # c => undone'[d] = undone[d] /\ accepted'[d] = accepted[d]
  BY <1>1, <1>2 DEF Admit, GiveBack, TypeOK, rsvVars, lockVars
<1>4. ~(InLoop(d, j, p)' <=> InLoop(d, j, p))
  BY <1>1, <1>3 DEF Charged, InReservation
<1>5. d = c /\ item[d] = j
  BY <1>3, <1>4 DEF InLoop
<1> QED
  BY <1>1, <1>5

LEMMA ChargeSteps ==
  ASSUME Inv1, Inv2, NEW c \in Calls, Admit(c) \/ GiveBack(c)
  PROVE  Simulates
<1>1. \A d \in Calls : Untouched(d)
  BY DEF Admit, GiveBack, Untouched, rsvVars, lockVars
<1>2. \A r \in Requests : RequestState(r)' = RequestState(r)
  BY <1>1, RequestFacts, UntouchedState
<1>3. ASSUME NEW x \in Positions, ~(x \in Held <=> x \in Held')
      PROVE  RequestState(x[1]) = Phase(pc[c])
  <2>1. x[1] = <<c, item[c]>>
    BY <1>3, OwnPosition
  <2>2. pc[c] \in {"eval", "undo", "release"}
    BY DEF Admit, GiveBack
  <2>3. status[c] = "none" /\ item[c] \notin granted[c] /\ item[c] \in Nat
    BY <2>2, EarlyFacts DEF Deciding
  <2>4. PICK i : i = item[c]
    OBVIOUS
  <2>5. x[1][1] = c /\ x[1][2] = i
    BY <2>1, <2>4
  <2>6. RequestState(x[1]) = CallPhase(c, i)
    BY <2>3, <2>5 DEF RequestState
  <2>7. CallPhase(c, i) = Phase(pc[c])
    BY <2>3, <2>4 DEF CallPhase
  <2> QED
    BY <2>6, <2>7
<1>4. CASE Admit(c)
  <2>1. Keeps \/ \E x \in Positions : Adds(x)
    BY <1>4, AdmitCharges
  <2>2. CASE Keeps
    BY <1>2, <2>2, NoneMoves DEF Keeps, Simulates
  <2>3. ASSUME NEW x \in Positions, Adds(x) PROVE Ledger!LNext
    <3>1. x \notin Held /\ x \in Held'
      BY <2>3 DEF Adds
    <3>2. Phase(pc[c]) = "taking"
      BY <1>4 DEF Admit, Phase
    <3>3. RequestState(x[1]) = "taking"
      BY <1>3, <3>1, <3>2
    <3> QED
      BY <1>2, <2>3, <3>3, HoldsOne
  <2> QED
    BY <2>1, <2>2, <2>3 DEF Simulates
<1>5. CASE GiveBack(c)
  <2>1. PICK x \in Positions : Removes(x)
    BY <1>5, GiveBackReleases
  <2>2. x \in Held /\ x \notin Held'
    BY <2>1 DEF Removes
  <2>3. Phase(pc[c]) = "returning"
    BY <1>5 DEF GiveBack, Phase
  <2>4. RequestState(x[1]) = "returning"
    BY <1>3, <2>2, <2>3
  <2> QED
    BY <1>2, <2>1, <2>4, ReturnsOne DEF Simulates
<1> QED
  BY <1>4, <1>5

LEMMA RefundStep ==
  ASSUME Inv1, Refund
  PROVE  Simulates
<1>1. PICK x \in Positions : Removes(x)
  BY RefundReleases
<1>2. \A d \in Calls : Untouched(d)
  BY DEF Refund, Untouched, rsvVars, callVars, loopVars
<1>3. \A r \in Requests : RequestState(r)' = RequestState(r)
  BY <1>2, RequestFacts, UntouchedState
<1>4. Charged(x[1][1], x[1][2], x[2]) /\ ~Charged(x[1][1], x[1][2], x[2])'
  <2>1. Positions' = Positions
    BY DEF Positions, Requests, Chain
  <2> QED
    BY <1>1, <2>1 DEF Removes, Held
<1>5. x[1][1] = refunding
  BY <1>4 DEF Charged, InLoop, InReservation, Refund, rsvVars, callVars, loopVars
<1>6. refunding # None /\ status[refunding] \in {"cancelled", "expired"}
  BY DEF Inv1, Shape, LockShape, Refund, MoreToRefund
<1>7. RequestState(x[1]) = "returning"
  BY <1>5, <1>6 DEF RequestState
<1> QED
  BY <1>1, <1>3, <1>7, ReturnsOne DEF Simulates

(***************************************************************************)
(* The refinement.                                                         *)
(***************************************************************************)

LEMMA InitMaps == Init => Ledger!LInit
<1> SUFFICES ASSUME Init PROVE Ledger!LInit
  OBVIOUS
<1>1. ASSUME NEW x \in Positions PROVE ~Charged(x[1][1], x[1][2], x[2])
  BY PositionFacts, ConstantFacts DEF Init, Charged, InLoop, InReservation
<1>2. Held = {}
  BY <1>1 DEF Held
<1>3. ASSUME NEW q \in Requests PROVE RequestState(q) = "new"
  <2>1. q[1] \in Calls /\ q[2] \in Nat /\ q[2] >= 1
    BY RequestFacts, KindFacts
  <2>2. CallPhase(q[1], q[2]) = "new"
    BY <2>1 DEF Init, CallPhase, Phase
  <2> QED
    BY <2>1, <2>2 DEF Init, RequestState
<1> QED
  BY <1>2, <1>3 DEF Ledger!LInit

LEMMA StepMaps == Inv1 /\ Inv2 /\ [Next]_vars => [Ledger!LNext]_(Ledger!lvars)
<1> SUFFICES ASSUME Inv1, Inv2, [Next]_vars PROVE Simulates
  BY DEF Simulates
<1>1. ASSUME NEW c \in Calls, Begin(c) \/ CallStep(c) \/ Timeout(c)
      PROVE  Simulates
  <2>1. CASE Begin(c)
    BY <2>1, BeginMoves
  <2>2. CASE Check(c) \/ CheckFails(c)
    BY <2>2, CheckMoves
  <2>3. CASE Admit(c) \/ GiveBack(c)
    BY <2>3, ChargeSteps
  <2>4. CASE Deny(c) \/ CreateFails(c)
    BY <2>4, DenyMoves
  <2>5. CASE Grant(c) \/ Reject(c)
    BY <2>5, DecidedMoves
  <2>6. CASE GrantReserve(c)
    BY <2>6, GrantReserveMoves
  <2>7. CASE Stamp(c)
    BY <2>7, StampMoves
  <2>8. CASE Create(c)
    BY <2>8, CreateMoves
  <2>9. CASE FailReserve(c)
    BY <2>9, FailReserveMoves
  <2>10. CASE Commit(c)
    BY <2>10, CommitMoves
  <2>11. CASE Cancel(c)
    BY <2>11, CancelMoves
  <2>12. CASE FinishCancel(c)
    BY <2>12, RefundDoneMoves
  <2>13. CASE CommitNothing(c) \/ CancelNothing(c) \/ Timeout(c)
    BY <2>13, OthersMove DEF Simulates
  <2> QED
    BY <1>1, <2>1, <2>2, <2>3, <2>4, <2>5, <2>6, <2>7, <2>8, <2>9, <2>10, <2>11, <2>12, <2>13
       DEF CallStep
<1>2. CASE Refund
  BY <1>2, RefundStep
<1>3. CASE \E r \in Calls : ReapItem(r)
  BY <1>3, ReapItemMoves
<1>4. CASE ReapNext
  BY <1>4, RefundDoneMoves
<1>5. CASE ReapStart \/ ReapEnd \/ Tick \/ Stop \/ UNCHANGED vars
  BY <1>5, OthersMove DEF Simulates
<1> QED
  BY <1>1, <1>2, <1>3, <1>4, <1>5 DEF Next, ReaperStep

(* However decisions, rollbacks, commits, cancellations and expiries       *)
(* interleave, a request holds its whole chain or gives all of it back, a  *)
(* kept request is never refunded and a refunded one never comes back:     *)
(* engine.go and service.go implement the ledger.                          *)
THEOREM EngineImplementsLedger == Spec => ImplementsLedger
<1>1. Init => Inv1 /\ Inv2
  BY InitInv1, InitInv2
<1>2. (Inv1 /\ Inv2) /\ [Next]_vars => (Inv1 /\ Inv2)'
  BY StepInv1, StepInv2
<1> QED
  BY <1>1, <1>2, InitMaps, StepMaps, PTL DEF Spec, ImplementsLedger, Ledger!LSpec
=============================================================================
