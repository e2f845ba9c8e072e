---------------------------- MODULE LedgerProofs ----------------------------
(***************************************************************************)
(* What the ledger promises holds of every ledger: for all requests,       *)
(* chains, prices and limits.                                              *)
(***************************************************************************)
EXTENDS QuotaLedger, UnitLemmas

(* The units held on every counter are finitely many, within its limit. *)
Bounded(k) == IsFiniteSet(HeldUnits(k)) /\ Cardinality(HeldUnits(k)) <= Limit[k]

LInv == LTypeOK /\ AllOrNothing /\ \A k \in Counters : Bounded(k)

(* A position belongs to one request. *)
LEMMA PositionOf ==
  ASSUME NEW q, NEW x \in PositionsOf(q)
  PROVE  x[1] = q
  BY DEF PositionsOf

LEMMA LedgerInit ==
  ASSUME LedgerAssumption, LInit
  PROVE  LInv
<1>1. LTypeOK
  BY DEF LInit, LTypeOK, States
<1>2. AllOrNothing
  BY DEF LInit, AllOrNothing
<1>3. ASSUME NEW k \in Counters PROVE Bounded(k)
  <2>1. HeldUnits(k) = {}
    BY DEF LInit, HeldUnits
  <2>2. Limit[k] \in Nat
    BY DEF LedgerAssumption
  <2> QED
    BY <2>1, <2>2, FS_EmptySet DEF Bounded
<1> QED
  BY <1>1, <1>2, <1>3 DEF LInv

(* A step that only moves a request on charges and returns nothing. *)
LEMMA MoveKeeps ==
  ASSUME LInv, NEW q \in Requests, NEW from, NEW to \in States, Move(q, from, to),
         to \in {"granted", "kept"} => PositionsOf(q) \subseteq held,
         to \in {"new", "gone"} => held \cap PositionsOf(q) = {}
  PROVE  LInv'
<1>1. /\ held' = held
      /\ state' = [state EXCEPT ![q] = to]
      /\ state \in [Requests -> States]
  BY DEF Move, LInv, LTypeOK
<1>2. LTypeOK'
  BY <1>1 DEF LInv, LTypeOK, PositionsOf
<1>3. AllOrNothing'
  <2> SUFFICES ASSUME NEW r \in Requests
               PROVE  /\ state'[r] \in {"granted", "kept"} => PositionsOf(r) \subseteq held
                      /\ state'[r] \in {"new", "gone"} => held \cap PositionsOf(r) = {}
    BY <1>1 DEF AllOrNothing, PositionsOf
  <2>1. CASE r = q
    BY <1>1, <2>1
  <2>2. CASE r # q
    BY <1>1, <2>2 DEF LInv, AllOrNothing
  <2> QED
    BY <2>1, <2>2
<1>4. ASSUME NEW k \in Counters PROVE Bounded(k)'
  BY <1>1 DEF LInv, Bounded, HeldUnits, CounterAt
<1> QED
  BY <1>2, <1>3, <1>4 DEF LInv

(* A position that is taken has room on its counter. *)
LEMMA HoldKeeps ==
  ASSUME LedgerAssumption, LInv, NEW q \in Requests, NEW x \in PositionsOf(q), Hold(x)
  PROVE  LInv'
<1>1. x[1] = q
  BY PositionOf
<1>2. /\ held' = held \cup {x}
      /\ state' = state
      /\ state[q] = "taking"
      /\ x \notin held
      /\ Room(x)
  BY <1>1 DEF Hold
<1>3. LTypeOK'
  BY <1>2 DEF LInv, LTypeOK, PositionsOf
<1>4. AllOrNothing'
  <2>1. ASSUME NEW r \in Requests, r # q PROVE x \notin PositionsOf(r)
    BY <1>1, <2>1, PositionOf
  <2> QED
    BY <1>2, <2>1 DEF LInv, AllOrNothing, PositionsOf
<1>5. ASSUME NEW k \in Counters PROVE Bounded(k)'
  <2>1. Bounded(k)
    BY DEF LInv
  <2>2. CounterAt(x) # k => HeldUnits(k)' = HeldUnits(k)
    BY <1>2 DEF HeldUnits, CounterAt
  <2>3. CASE CounterAt(x) # k
    BY <2>1, <2>2, <2>3 DEF Bounded
  <2>4. CASE CounterAt(x) = k
    <3>1. /\ HeldUnits(k)' = HeldUnits(k) \cup Block(x, Price[q])
          /\ HeldUnits(k) \cap Block(x, Price[q]) = {}
      BY <1>1, <1>2, <2>4 DEF HeldUnits, CounterAt, Block
    <3>2. Price[q] \in Int
      BY DEF LedgerAssumption
    <3>3. CASE Price[q] \in Nat
      BY <1>1, <1>2, <2>1, <2>4, <3>1, <3>3, AddBlock DEF Bounded, Room
    <3>4. CASE Price[q] \notin Nat
      <4>1. Block(x, Price[q]) = {}
        BY <3>2, <3>4 DEF Block
      <4> QED
        BY <2>1, <3>1, <4>1 DEF Bounded
    <3> QED
      BY <3>3, <3>4
  <2> QED
    BY <2>3, <2>4
<1> QED
  BY <1>3, <1>4, <1>5 DEF LInv

(* Only a request that is on its way out returns a position. *)
LEMMA ReturnKeeps ==
  ASSUME LedgerAssumption, LInv, NEW q \in Requests, NEW x \in PositionsOf(q), Return(x)
  PROVE  LInv'
<1>1. x[1] = q
  BY PositionOf
<1>2. /\ held' = held \ {x}
      /\ state' = state
      /\ state[q] = "returning"
  BY <1>1 DEF Return, Returns
<1>3. LTypeOK'
  BY <1>2 DEF LInv, LTypeOK, PositionsOf
<1>4. AllOrNothing'
  <2>1. ASSUME NEW r \in Requests, r # q PROVE x \notin PositionsOf(r)
    BY <1>1, <2>1, PositionOf
  <2> QED
    BY <1>2, <2>1 DEF LInv, AllOrNothing, PositionsOf
<1>5. ASSUME NEW k \in Counters PROVE Bounded(k)'
  <2>1. IsFiniteSet(HeldUnits(k)) /\ Cardinality(HeldUnits(k)) <= Limit[k]
    BY DEF LInv, Bounded
  <2>2. HeldUnits(k)' \subseteq HeldUnits(k)
    BY <1>2 DEF HeldUnits, CounterAt
  <2>3. Cardinality(HeldUnits(k)) \in Nat /\ Limit[k] \in Nat
    BY <2>1, FS_CardinalityType DEF LedgerAssumption
  <2>4. IsFiniteSet(HeldUnits(k)') /\ Cardinality(HeldUnits(k)') <= Cardinality(HeldUnits(k))
    BY <2>1, <2>2, FS_Subset
  <2>5. Cardinality(HeldUnits(k)') \in Nat
    BY <2>4, FS_CardinalityType
  <2> QED
    BY <2>1, <2>3, <2>4, <2>5 DEF Bounded
<1> QED
  BY <1>3, <1>4, <1>5 DEF LInv

LEMMA LedgerStep ==
  ASSUME LedgerAssumption, LInv, [LNext]_lvars
  PROVE  LInv'
<1>1. ASSUME NEW q \in Requests,
             Take(q) \/ GrantAll(q) \/ Keep(q) \/ GiveUp(q) \/ Leave(q)
      PROVE  LInv'
  <2>1. CASE Take(q)
    BY <2>1, MoveKeeps DEF Take, States
  <2>2. CASE GrantAll(q)
    BY <2>2, MoveKeeps DEF GrantAll, States
  <2>3. CASE Keep(q)
    <3>1. PositionsOf(q) \subseteq held
      BY <2>3 DEF Keep, Move, LInv, AllOrNothing
    <3> QED
      BY <2>3, <3>1, MoveKeeps DEF Keep, States
  <2>4. CASE GiveUp(q)
    BY <2>4, MoveKeeps DEF GiveUp, States
  <2>5. CASE Leave(q)
    BY <2>5, MoveKeeps DEF Leave, States
  <2> QED
    BY <1>1, <2>1, <2>2, <2>3, <2>4, <2>5
<1>2. ASSUME NEW q \in Requests, NEW x \in PositionsOf(q), Hold(x) \/ Return(x)
      PROVE  LInv'
  BY <1>2, HoldKeeps, ReturnKeeps
<1>3. CASE UNCHANGED lvars
  BY <1>3 DEF lvars, LInv, LTypeOK, AllOrNothing, Bounded, HeldUnits, CounterAt, PositionsOf
<1> QED
  BY <1>1, <1>2, <1>3 DEF LNext

LEMMA LedgerInvariant ==
  ASSUME LedgerAssumption
  PROVE  LSpec => []LInv
<1>1. LInit => LInv
  BY LedgerInit
<1>2. LInv /\ [LNext]_lvars => LInv'
  BY LedgerStep
<1> QED
  BY <1>1, <1>2, PTL DEF LSpec

(* No counter of a ledger is charged beyond its limit, what is on its way  *)
(* in or out included (engine.go, Check and Release).                      *)
THEOREM LedgerLimit ==
  ASSUME LedgerAssumption
  PROVE  LSpec => []LWithinLimit
<1>1. LInv => LWithinLimit
  BY DEF LInv, LWithinLimit, Bounded
<1> QED
  BY <1>1, LedgerInvariant, PTL

(* A granted or kept request holds its whole chain and one that is gone    *)
(* nothing of it (engine.go, Check: the accepted prefix is released).      *)
THEOREM LedgerAllOrNothing ==
  ASSUME LedgerAssumption
  PROVE  LSpec => []AllOrNothing
<1>1. LInv => AllOrNothing
  BY DEF LInv
<1> QED
  BY <1>1, LedgerInvariant, PTL
=============================================================================
