----------------------------- MODULE PlaneProofs -----------------------------
(***************************************************************************)
(* Proofs about the parts of module Plane, for any nodes, lifetimes and    *)
(* bounds: the leases are fenced and implement the fenced lock, whatever   *)
(* the guards, the ring and the other callers do, the guards' answers are  *)
(* fenced, the ring names the nearest nodes and keeps the keys of nodes    *)
(* that do not change, lent tokens are not overspent, swaps keep to their  *)
(* ceiling, the books of the usage ledgers balance with their events in    *)
(* order, and the partitions of a key follow its rate.                     *)
(***************************************************************************)
EXTENDS Plane, UnitLemmas, SequenceTheorems

(***************************************************************************)
(* The lease manager.                                                      *)
(***************************************************************************)

Handle(l) == [owner |-> l.owner, epoch |-> l.epoch]

(* The lease that is there is the newest and has been handed to its owner. *)
Newest == lease # None => lease.epoch = epoch /\ Handle(lease) \in handed

(* Epochs count from 1, none has been handed out that is yet to come, and  *)
(* none to two nodes.                                                      *)
OnePerEpoch ==
  \A g, h \in handed :
    0 < g.epoch /\ g.epoch <= epoch /\ (g.epoch = h.epoch => g.owner = h.owner)

(* Renew has a lease in hand. *)
InHand == renewing # None => lease # None

(* A node that goes by what it was told is right. *)
Truthful == \A n \in Nodes : Believes(n) => lease = told[n] /\ lease.owner = n

LInv == LeaseTypeOK /\ Newest /\ OnePerEpoch /\ InHand /\ Truthful

LEMMA LeaseInitInv == LeaseInit => LInv
  <1> SUFFICES ASSUME LeaseInit PROVE LInv
    OBVIOUS
  <1>1. LeaseTypeOK
    BY DEF LeaseInit, LeaseTypeOK
  <1>2. Newest /\ OnePerEpoch /\ InHand
    BY DEF LeaseInit, Newest, OnePerEpoch, InHand
  <1>3. Truthful
    BY DEF LeaseInit, Truthful, Believes
  <1> QED
    BY <1>1, <1>2, <1>3 DEF LInv

(* Handing a lease to its owner keeps the invariant if it is of the newest *)
(* epoch, the owner has been handed this epoch before or nobody has, and   *)
(* no other node goes by a lease of its own.                               *)
LEMMA HandKeeps ==
  ASSUME LInv, NEW n \in Nodes, NEW l \in Leases, l.owner = n, l.epoch = epoch',
         Hand(n, l), now' = now, epoch' \in {epoch, epoch + 1},
         epoch' = epoch => [owner |-> n, epoch |-> epoch] \in handed,
         \A m \in Nodes \ {n} : ~Believes(m),
         renewing' = None
  PROVE  LInv'
  <1> DEFINE h == [owner |-> n, epoch |-> epoch']
  <1> USE DEF LInv
  <1>0. epoch \in Nat /\ epoch' \in Nat /\ handed \subseteq Handles
    BY DEF LeaseTypeOK
  <1>1. lease' = l /\ told' = [told EXCEPT ![n] = l] /\ handed' = handed \cup {h}
    BY DEF Hand
  <1>2. h \in Handles /\ Handle(l) = h
    BY <1>0 DEF Handles, Handle, Leases
  <1>3. LeaseTypeOK'
    BY <1>0, <1>1, <1>2 DEF LeaseTypeOK
  <1>4. Newest'
    BY <1>1, <1>2 DEF Newest, Handle
  <1>5. OnePerEpoch'
    <2> SUFFICES ASSUME NEW f \in handed', NEW g \in handed'
                 PROVE  /\ 0 < f.epoch /\ f.epoch <= epoch'
                        /\ f.epoch = g.epoch => f.owner = g.owner
      BY DEF OnePerEpoch
    <2>1. \A x \in handed : x.epoch \in Nat /\ 0 < x.epoch /\ x.epoch <= epoch
      BY <1>0 DEF OnePerEpoch, Handles
    <2>2. h.epoch = epoch' /\ h.owner = n /\ 0 < epoch'
      BY <1>0, <2>1
    <2>3. \A x \in handed : x.epoch <= epoch' /\ (x.epoch = epoch' => x.owner = n)
      <3> TAKE x \in handed
      <3>1. x.epoch <= epoch'
        BY <1>0, <2>1
      <3>2. ASSUME x.epoch = epoch' PROVE x.owner = n
        <4>1. epoch' = epoch
          BY <1>0, <2>1, <3>2
        <4>2. [owner |-> n, epoch |-> epoch] \in handed
          BY <4>1
        <4> QED
          BY <3>2, <4>1, <4>2 DEF OnePerEpoch
      <3> QED
        BY <3>1, <3>2
    <2>4. CASE f \in handed /\ g \in handed
      BY <2>1, <2>3, <2>4 DEF OnePerEpoch
    <2>5. CASE f = h \/ g = h
      BY <1>0, <1>1, <2>1, <2>2, <2>3, <2>5
    <2> QED
      BY <1>1, <2>4, <2>5
  <1>6. InHand'
    BY DEF InHand
  <1>7. Truthful'
    <2> SUFFICES ASSUME NEW m \in Nodes, Believes(m)'
                 PROVE  lease' = told'[m] /\ lease'.owner = m
      BY DEF Truthful
    <2>1. CASE m = n
      BY <1>1, <2>1 DEF LeaseTypeOK
    <2>2. CASE m # n
      <3>1. told'[m] = told[m]
        BY <1>1, <2>2 DEF LeaseTypeOK
      <3>2. Believes(m)
        BY <3>1 DEF Believes
      <3> QED
        BY <2>2, <3>2
    <2> QED
      BY <2>1, <2>2
  <1> QED
    BY <1>3, <1>4, <1>5, <1>6, <1>7

LEMMA AcquireKeeps ==
  ASSUME LInv, NEW n \in Nodes, NEW ttl \in TTLs, Acquire(n, ttl)
  PROVE  LInv'
  <1> DEFINE l == [owner |-> n, epoch |-> EpochFor(n), expiresAt |-> now + ttl]
  <1>1. EpochFor(n) \in {epoch, epoch + 1} /\ EpochFor(n) \in Nat
    BY DEF EpochFor, LInv, LeaseTypeOK
  <1>2. l \in Leases
    BY <1>1, LeaseAssumption DEF Leases, LInv, LeaseTypeOK
  <1>3. EpochFor(n) = epoch => [owner |-> n, epoch |-> epoch] \in handed
    <2> SUFFICES ASSUME EpochFor(n) = epoch PROVE [owner |-> n, epoch |-> epoch] \in handed
      OBVIOUS
    <2>1. lease # None /\ lease.owner = n
      BY DEF EpochFor, Running, LInv, LeaseTypeOK
    <2> QED
      BY <2>1 DEF LInv, Newest, Handle
  <1>4. \A m \in Nodes \ {n} : ~Believes(m)
    BY LeaseAssumption DEF Acquire, HeldByOther, Running, LInv, Truthful, Believes
  <1>5. renewing' = None
    BY DEF Acquire, Free
  <1> QED
    BY <1>1, <1>2, <1>3, <1>4, <1>5, HandKeeps DEF Acquire

LEMMA RenewEndKeeps ==
  ASSUME LInv, RenewEnd
  PROVE  LInv'
  <1> DEFINE l == [owner |-> lease.owner, epoch |-> lease.epoch, expiresAt |-> now + renewing]
  <1>1. renewing \in TTLs /\ lease \in Leases /\ lease # None
    BY DEF RenewEnd, Free, LInv, LeaseTypeOK, InHand
  <1>2. l \in Leases /\ l.owner = lease.owner /\ l.epoch = lease.epoch /\ lease.owner \in Nodes
    BY <1>1, LeaseAssumption DEF Leases, LInv, LeaseTypeOK
  <1>3. lease.epoch = epoch /\ [owner |-> lease.owner, epoch |-> epoch] \in handed
    BY <1>1 DEF LInv, Newest, Handle
  <1>4. \A m \in Nodes \ {lease.owner} : ~Believes(m)
    BY DEF LInv, Truthful
  <1> QED
    BY <1>1, <1>2, <1>3, <1>4, HandKeeps DEF RenewEnd

LEMMA ReleaseKeeps ==
  ASSUME LInv, NEW h \in handed, Release(h)
  PROVE  LInv'
  <1> USE DEF LInv
  <1>1. h.owner \in Nodes
    BY DEF LeaseTypeOK, Handles
  <1>2. LeaseTypeOK'
    BY <1>1 DEF Release, LeaseTypeOK
  <1>3. Newest' /\ OnePerEpoch' /\ InHand'
    BY DEF Release, Newest, OnePerEpoch, InHand, Free
  <1>4. Truthful'
    <2> SUFFICES ASSUME NEW m \in Nodes, Believes(m)' PROVE FALSE
      BY DEF Truthful
    <2>1. m # h.owner
      BY <1>1 DEF Believes, Release, LeaseTypeOK
    <2>2. Believes(m)
      BY <1>1, <2>1 DEF Believes, Release, LeaseTypeOK
    <2> QED
      BY <2>1, <2>2 DEF Truthful, Release
  <1> QED
    BY <1>2, <1>3, <1>4

LEMMA TickKeeps ==
  ASSUME LInv, LeaseTick
  PROVE  LInv'
  <1> USE DEF LInv
  <1>1. now \in Nat /\ now' = now + 1 /\ UNCHANGED <<lease, epoch, renewing, told, handed>>
    BY DEF LeaseTick, Tick, LeaseTypeOK
  <1>2. LeaseTypeOK' /\ Newest' /\ OnePerEpoch' /\ InHand'
    BY <1>1 DEF LeaseTypeOK, Newest, OnePerEpoch, InHand
  <1>3. \A m \in Nodes : Believes(m)' => Believes(m)
    <2> SUFFICES ASSUME NEW m \in Nodes, Believes(m)' PROVE Believes(m)
      OBVIOUS
    <2>1. told[m] \in Leases
      BY <1>1 DEF Believes, LeaseTypeOK
    <2> QED
      BY <1>1, <2>1 DEF Believes, Leases
  <1>4. Truthful'
    BY <1>1, <1>3 DEF Truthful
  <1> QED
    BY <1>2, <1>4

LEMMA LeaseStepInv == LInv /\ [LeaseNext]_leaseVars => LInv'
  <1> SUFFICES ASSUME LInv, [LeaseNext]_leaseVars PROVE LInv'
    OBVIOUS
  <1>1. ASSUME NEW n \in Nodes, NEW ttl \in TTLs, Acquire(n, ttl) PROVE LInv'
    BY <1>1, AcquireKeeps
  <1>2. ASSUME NEW h \in handed, NEW ttl \in TTLs, RenewBegin(h, ttl) PROVE LInv'
    BY <1>2 DEF RenewBegin, Accepts, LInv, LeaseTypeOK, Newest, OnePerEpoch, InHand, Truthful, Believes
  <1>3. CASE RenewEnd
    BY <1>3, RenewEndKeeps
  <1>4. ASSUME NEW h \in handed, Release(h) PROVE LInv'
    BY <1>4, ReleaseKeeps
  <1>5. CASE LeaseTick
    BY <1>5, TickKeeps
  <1>6. CASE UNCHANGED leaseVars
    BY <1>6 DEF leaseVars, LInv, LeaseTypeOK, Newest, OnePerEpoch, InHand, Truthful, Believes
  <1> QED
    BY <1>1, <1>2, <1>3, <1>4, <1>5, <1>6 DEF LeaseNext

LEMMA AlwaysLInv == LeaseSpec => []LInv
  <1> QED
    BY LeaseInitInv, LeaseStepInv, PTL DEF LeaseSpec

LEMMA LeasesFence == LeaseSpec => []FencedOut
  <1>1. LInv => FencedOut
    BY DEF LInv, FencedOut, Accepts, Newest, OnePerEpoch
  <1> QED
    BY <1>1, AlwaysLInv, PTL

LEMMA LeasesExclude == LeaseSpec => []Exclusive
  <1>1. LInv => Exclusive
    BY DEF LInv, Exclusive, Truthful
  <1> QED
    BY <1>1, AlwaysLInv, PTL

LEMMA LeaseRefinesInit == LeaseInit => Lock!FInit
  BY DEF LeaseInit, Lock!FInit, Running

(* Each method of the lease manager is a step of the lock, or none: Renew  *)
(* brings a lapsed lease back only while it is still there.                *)
LEMMA LeaseRefinesStep == LInv /\ [LeaseNext]_leaseVars => [Lock!FNext]_(Lock!fvars)
  <1> SUFFICES ASSUME LInv, [LeaseNext]_leaseVars PROVE [Lock!FNext]_(Lock!fvars)
    OBVIOUS
  <1> USE DEF LInv
  <1>0. None \notin Nodes /\ None \notin Leases /\ now \in Nat /\ lease \in Leases \cup {None}
    BY LeaseAssumption DEF LeaseTypeOK
  <1>1. ASSUME NEW n \in Nodes, NEW ttl \in TTLs, Acquire(n, ttl)
        PROVE  Lock!FNext \/ UNCHANGED Lock!fvars
    <2>1. lease' = [owner |-> n, epoch |-> EpochFor(n), expiresAt |-> now + ttl]
          /\ epoch' = EpochFor(n) /\ now' = now
      BY <1>1 DEF Acquire, Hand
    <2>2. lease' \in Leases
      BY <1>1, AcquireKeeps, <2>1, LeaseAssumption DEF LeaseTypeOK, EpochFor, Leases
    <2>3. lease' # None /\ Running' /\ lease'.owner = n
      BY <1>0, <2>1, <2>2, LeaseAssumption DEF Running
    <2>4. CASE Running
      <3>1. lease.owner = n /\ epoch' = epoch
        BY <1>1, <2>1, <2>4 DEF Acquire, HeldByOther, EpochFor
      <3> QED
        BY <2>3, <2>4, <3>1 DEF Lock!fvars, Running
    <2>5. CASE ~Running
      <3>1. epoch' = epoch + 1
        BY <2>1, <2>5 DEF EpochFor
      <3>2. Lock!Take(n)
        BY <2>3, <2>5, <3>1 DEF Lock!Take
      <3> QED
        BY <3>2 DEF Lock!FNext
    <2> QED
      BY <2>4, <2>5
  <1>2. ASSUME NEW h \in handed, NEW ttl \in TTLs, RenewBegin(h, ttl)
        PROVE  UNCHANGED Lock!fvars
    BY <1>2 DEF RenewBegin, Lock!fvars, Running
  <1>3. CASE RenewEnd
    <2>1. lease \in Leases /\ lease # None /\ renewing \in TTLs /\ lease.owner \in Nodes
      BY <1>0, <1>3 DEF RenewEnd, Free, LeaseTypeOK, InHand, Leases
    <2>2. lease' = [owner |-> lease.owner, epoch |-> lease.epoch, expiresAt |-> now + renewing] /\ now' = now /\ epoch' = epoch
      BY <1>3 DEF RenewEnd, Hand
    <2>3. lease' # None /\ Running' /\ lease'.owner = lease.owner
      <3>1. lease' \in Leases /\ lease'.owner = lease.owner /\ lease'.expiresAt = now + renewing
        BY <1>0, <2>1, <2>2, LeaseAssumption DEF Leases
      <3> QED
        BY <1>0, <2>1, <2>2, <3>1, LeaseAssumption DEF Running
    <2>4. CASE Running
      BY <2>1, <2>2, <2>3, <2>4 DEF Lock!fvars, Running
    <2>5. CASE ~Running
      <3>1. Lock!Resume(lease.owner)
        BY <2>1, <2>2, <2>3, <2>5 DEF Lock!Resume
      <3> QED
        BY <2>1, <3>1 DEF Lock!FNext
    <2> QED
      BY <2>4, <2>5
  <1>4. ASSUME NEW h \in handed, Release(h)
        PROVE  Lock!FNext
    BY <1>4 DEF Release, Lock!FNext, Lock!Drop, Running
  <1>5. CASE LeaseTick
    <2>1. UNCHANGED <<lease, epoch>> /\ now' = now + 1
      BY <1>5 DEF LeaseTick, Tick
    <2>2. Running' => Running
      BY <1>0, <2>1 DEF Running, Leases
    <2>3. CASE Running'
      BY <2>1, <2>2, <2>3 DEF Lock!fvars, Running
    <2>4. CASE ~Running'
      BY <2>1, <2>4 DEF Lock!FNext, Lock!Lapse
    <2> QED
      BY <2>3, <2>4
  <1>6. CASE UNCHANGED leaseVars
    BY <1>6 DEF leaseVars, Lock!fvars, Running
  <1> QED
    BY <1>1, <1>2, <1>3, <1>4, <1>5, <1>6 DEF LeaseNext

LEMMA LeasesImplementLock == LeaseSpec => ImplementsFencing
  <1> QED
    BY AlwaysLInv, LeaseRefinesInit, LeaseRefinesStep, PTL
       DEF LeaseSpec, ImplementsFencing, Lock!FSpec

(***************************************************************************)
(* The guard.                                                              *)
(***************************************************************************)

(* What a guard does to the leases is what the lease manager allows.       *)
LEMMA GuardStepsLease == [GuardNext]_guardVars => [LeaseNext]_leaseVars
  <1> SUFFICES ASSUME [GuardNext]_guardVars PROVE [LeaseNext]_leaseVars
    OBVIOUS
  <1>1. ASSUME NEW n \in Nodes, LocateKey(n) PROVE UNCHANGED leaseVars
    BY <1>1 DEF LocateKey
  <1>2. ASSUME NEW n \in Nodes, Decide(n) PROVE LeaseNext \/ UNCHANGED leaseVars
    BY <1>2, GuardAssumption DEF Decide, LeaseNext
  <1>3. CASE Rebuild
    BY <1>3 DEF Rebuild
  <1>4. CASE LeaseOnly
    BY <1>4 DEF LeaseOnly
  <1>5. CASE UNCHANGED guardVars
    BY <1>5 DEF guardVars
  <1> QED
    BY <1>1, <1>2, <1>3, <1>4, <1>5 DEF GuardNext

(* What has been observed under a lease was handed out.                    *)
ObservedHanded ==
  /\ observed.epoch \in Nat
  /\ observed.epoch <= epoch
  /\ observed.epoch > 0 => [owner |-> observed.node, epoch |-> observed.epoch] \in handed

GInv == LInv /\ ObservedHanded /\ AnswersFenced

(* A lease that is acquired is of the newest epoch, and what was observed  *)
(* under that epoch was observed of the same node.                         *)
LEMMA DecideKeeps ==
  ASSUME GInv, LInv', NEW n \in Nodes, Decide(n)
  PROVE  (ObservedHanded /\ AnswersFenced)'
  <1> DEFINE a == [node |-> n, epoch |-> epoch', leased |-> TRUE]
  <1>1. CASE Acquire(n, GuardTTL) /\ Give(n, epoch', TRUE)
    <2>1. epoch \in Nat /\ epoch' \in Nat /\ epoch <= epoch'
      BY <1>1 DEF GInv, LInv, LeaseTypeOK, Acquire, EpochFor
    <2>2. [owner |-> n, epoch |-> epoch'] \in handed' /\ handed \subseteq handed'
      BY <1>1 DEF Acquire, Hand
    <2>3. epoch' > 0
      BY <2>1, <2>2 DEF LInv, OnePerEpoch
    <2>4. answer' = a /\ observed' = IF epoch' > observed.epoch THEN a ELSE observed
      BY <1>1 DEF Give
    <2>5. CASE epoch' > observed.epoch
      <3>1. answer' = a /\ observed' = a
        BY <2>4, <2>5
      <3> QED
        BY <2>1, <2>2, <3>1 DEF ObservedHanded, AnswersFenced
    <2>6. CASE ~(epoch' > observed.epoch)
      <3>1. observed' = observed /\ observed.epoch = epoch'
        BY <2>1, <2>4, <2>6 DEF GInv, ObservedHanded
      <3>2. [owner |-> observed.node, epoch |-> epoch'] \in handed'
        BY <2>2, <2>3, <3>1 DEF GInv, ObservedHanded
      <3>3. observed.node = n
        BY <2>2, <3>2 DEF LInv, OnePerEpoch
      <3> QED
        BY <2>1, <2>3, <2>4, <3>1, <3>2, <3>3 DEF ObservedHanded, AnswersFenced
    <2> QED
      BY <2>5, <2>6
  <1>2. CASE Free /\ HeldByOther(n) /\ Give(n, asked[n], FALSE) /\ UNCHANGED leaseVars
    BY <1>2 DEF Give, leaseVars, GInv, ObservedHanded, AnswersFenced
  <1> QED
    BY <1>1, <1>2 DEF Decide

(* The lease manager never counts back and forgets no handle. *)
LEMMA LeaseGrows ==
  ASSUME LInv, [LeaseNext]_leaseVars
  PROVE  epoch \in Nat /\ epoch' \in Nat /\ epoch <= epoch' /\ handed \subseteq handed'
  <1>0. epoch \in Nat
    BY DEF LInv, LeaseTypeOK
  <1>1. ASSUME NEW n \in Nodes, NEW ttl \in TTLs, Acquire(n, ttl)
        PROVE  epoch' \in {epoch, epoch + 1} /\ handed \subseteq handed'
    BY <1>1 DEF Acquire, EpochFor, Hand
  <1>2. ASSUME \/ \E h \in handed, ttl \in TTLs : RenewBegin(h, ttl)
               \/ RenewEnd
               \/ \E h \in handed : Release(h)
               \/ LeaseTick
               \/ UNCHANGED leaseVars
        PROVE  epoch' = epoch /\ handed \subseteq handed'
    BY <1>2 DEF RenewBegin, RenewEnd, Hand, Release, LeaseTick, leaseVars
  <1> QED
    BY <1>0, <1>1, <1>2 DEF LeaseNext

LEMMA GuardStepInv == GInv /\ [GuardNext]_guardVars => GInv'
  <1> SUFFICES ASSUME GInv, [GuardNext]_guardVars PROVE GInv'
    OBVIOUS
  <1>1. LInv'
    BY GuardStepsLease, LeaseStepInv DEF GInv
  <1>2. epoch \in Nat /\ epoch' \in Nat /\ epoch <= epoch' /\ handed \subseteq handed'
    BY GuardStepsLease, LeaseGrows DEF GInv
  <1>3. CASE UNCHANGED <<answer, observed>>
    BY <1>1, <1>2, <1>3 DEF GInv, ObservedHanded, AnswersFenced
  <1>4. ASSUME NEW n \in Nodes, LocateKey(n) PROVE GInv'
    <2>1. CASE Locatable
      BY <1>3, <1>4, <2>1 DEF LocateKey
    <2>2. CASE ~Locatable
      <3>1. Give(n, 0, FALSE)
        BY <1>4, <2>2 DEF LocateKey
      <3>2. observed' = observed /\ ~answer'.leased
        BY <3>1 DEF Give
      <3> QED
        BY <1>1, <1>2, <3>2 DEF GInv, ObservedHanded, AnswersFenced
    <2> QED
      BY <2>1, <2>2
  <1>5. ASSUME NEW n \in Nodes, Decide(n) PROVE GInv'
    BY <1>1, <1>5, DecideKeeps DEF GInv
  <1>6. CASE Rebuild \/ LeaseOnly \/ UNCHANGED guardVars
    BY <1>3, <1>6 DEF Rebuild, LeaseOnly, guardVars
  <1> QED
    BY <1>4, <1>5, <1>6 DEF GuardNext

(***************************************************************************)
(* The tokens that are lent.                                               *)
(***************************************************************************)

TokenRecords == [granted : Int, consumed : Int, epoch : Epochs, expiresAt : Nat]

TokenShape ==
  /\ now \in Nat
  /\ tokenLease \in [TokenIds -> TokenRecords \cup {Untaken}]
  /\ given \in [TokenIds -> [Epochs -> Int]]
  /\ spent \in [TokenIds -> [Epochs -> Int]]

(* What is left of a lease has been granted under its epoch and not been   *)
(* spent.                                                                  *)
RestCovered ==
  \A id \in TokenIds : tokenLease[id] # Untaken =>
    LET l == tokenLease[id] IN
    l.consumed <= l.granted /\ spent[id][l.epoch] + l.granted - l.consumed <= given[id][l.epoch]

TInv == TokenShape /\ RestCovered /\ SpentWithinGrants

LEMMA TokenInitInv == TokenInit => TInv
  BY DEF TokenInit, TInv, TokenShape, RestCovered, SpentWithinGrants

LEMMA GrantKeeps ==
  ASSUME TInv, NEW id \in TokenIds, NEW n \in Amounts, NEW e \in Epochs, Grant(id, n, e)
  PROVE  TInv'
  <1> DEFINE l == [granted |-> n, consumed |-> 0, epoch |-> e, expiresAt |-> now + TokenTTL]
  <1> USE DEF TInv
  <1>1. n \in Int /\ n > 0 /\ TokenTTL \in Nat
    BY TokenAssumption DEF Grant
  <1>2. l \in TokenRecords
    BY <1>1 DEF TokenShape, TokenRecords
  <1>3. /\ tokenLease' = [tokenLease EXCEPT ![id] = l]
        /\ given' = [given EXCEPT ![id][e] = @ + n]
        /\ spent' = spent /\ now' = now
    BY DEF Grant
  <1>4. TokenShape'
    BY <1>1, <1>2, <1>3 DEF TokenShape
  <1>5. \A j \in TokenIds, f \in Epochs :
          given'[j][f] = IF j = id /\ f = e THEN given[j][f] + n ELSE given[j][f]
    BY <1>3 DEF TokenShape
  <1>6. SpentWithinGrants'
    BY <1>1, <1>3, <1>5 DEF TokenShape, SpentWithinGrants
  <1>7. RestCovered'
    <2> SUFFICES ASSUME NEW j \in TokenIds, tokenLease'[j] # Untaken
                 PROVE  /\ tokenLease'[j].consumed <= tokenLease'[j].granted
                        /\ spent'[j][tokenLease'[j].epoch] + tokenLease'[j].granted
                             - tokenLease'[j].consumed <= given'[j][tokenLease'[j].epoch]
      BY DEF RestCovered
    <2>1. CASE j = id
      <3>1. tokenLease'[j] = l
        BY <1>3, <2>1 DEF TokenShape
      <3>2. spent[id][e] <= given[id][e] /\ spent[id][e] \in Int /\ given[id][e] \in Int
        BY DEF SpentWithinGrants, TokenShape
      <3> QED
        BY <1>1, <1>3, <1>5, <2>1, <3>1, <3>2
    <2>2. CASE j # id
      BY <1>3, <1>5, <2>2 DEF TokenShape, TokenRecords, RestCovered
    <2> QED
      BY <2>1, <2>2
  <1> QED
    BY <1>4, <1>6, <1>7

LEMMA ConsumeKeeps ==
  ASSUME TInv, NEW id \in TokenIds, NEW n \in Costs, NEW e \in Epochs, Consume(id, n, e)
  PROVE  TInv'
  <1> USE DEF TInv
  <1>1. n \in Int
    BY TokenAssumption
  <1>2. tokenLease[id] \in TokenRecords /\ tokenLease[id].epoch = e /\ tokenLease[id] # Untaken
    BY DEF Consume, Serves, TokenShape
  <1>3. PICK c \in Int, g \in Int :
          c = tokenLease[id].consumed /\ g = tokenLease[id].granted /\ c + n <= g
    BY <1>2 DEF Consume, TokenRecords
  <1>4. PICK s \in Int, a \in Int : s = spent[id][e] /\ a = given[id][e] /\ s + g - c <= a
    BY <1>2, <1>3 DEF TokenShape, RestCovered
  <1>5. /\ tokenLease' = [tokenLease EXCEPT ![id] = [tokenLease[id] EXCEPT !.consumed = c + n]]
        /\ spent' = [spent EXCEPT ![id][e] = s + n]
        /\ given' = given /\ now' = now
    BY <1>3, <1>4 DEF Consume
  <1>6. [tokenLease[id] EXCEPT !.consumed = c + n] \in TokenRecords
    BY <1>1, <1>2 DEF TokenRecords
  <1>7. TokenShape'
    BY <1>1, <1>5, <1>6 DEF TokenShape
  <1>8. s + n <= a
    BY <1>1, <1>3, <1>4
  <1>9. \A j \in TokenIds, f \in Epochs :
          spent'[j][f] = IF j = id /\ f = e THEN s + n ELSE spent[j][f]
    BY <1>5 DEF TokenShape
  <1>10. SpentWithinGrants'
    BY <1>4, <1>5, <1>8, <1>9 DEF SpentWithinGrants
  <1>11. RestCovered'
    <2> SUFFICES ASSUME NEW j \in TokenIds, tokenLease'[j] # Untaken
                 PROVE  /\ tokenLease'[j].consumed <= tokenLease'[j].granted
                        /\ spent'[j][tokenLease'[j].epoch] + tokenLease'[j].granted
                             - tokenLease'[j].consumed <= given'[j][tokenLease'[j].epoch]
      BY DEF RestCovered
    <2>1. CASE j = id
      <3>1. tokenLease'[j].consumed = c + n /\ tokenLease'[j].granted = g /\ tokenLease'[j].epoch = e
        BY <1>2, <1>3, <1>5, <2>1 DEF TokenShape, TokenRecords
      <3>2. spent'[j][e] = s + n /\ given'[j][e] = a
        BY <1>4, <1>5, <1>9, <2>1
      <3> QED
        BY <1>1, <1>3, <1>4, <3>1, <3>2
    <2>2. CASE j # id
      BY <1>5, <1>9, <2>2 DEF TokenShape, TokenRecords, RestCovered
    <2> QED
      BY <2>1, <2>2
  <1> QED
    BY <1>7, <1>10, <1>11

LEMMA TokenStepInv == TInv /\ [TokenNext]_tokenVars => TInv'
  <1> SUFFICES ASSUME TInv, [TokenNext]_tokenVars PROVE TInv'
    OBVIOUS
  <1>1. ASSUME NEW id \in TokenIds, NEW n \in Amounts, NEW e \in Epochs, Grant(id, n, e)
        PROVE  TInv'
    BY <1>1, GrantKeeps
  <1>2. ASSUME NEW id \in TokenIds, NEW n \in Costs, NEW e \in Epochs, Consume(id, n, e)
        PROVE  TInv'
    BY <1>2, ConsumeKeeps
  <1>3. ASSUME NEW central \in {0, 1}, NEW reported \in {0, 1}, Reconcile(central, reported)
        PROVE  TInv'
    BY <1>3 DEF Reconcile, TInv, TokenShape, RestCovered, SpentWithinGrants
  <1>4. CASE TokenTick
    BY <1>4 DEF TokenTick, Tick, TInv, TokenShape, RestCovered, SpentWithinGrants
  <1>5. CASE UNCHANGED tokenVars
    BY <1>5 DEF tokenVars, TInv, TokenShape, RestCovered, SpentWithinGrants
  <1> QED
    BY <1>1, <1>2, <1>3, <1>4, <1>5 DEF TokenNext

(***************************************************************************)
(* The usage ledgers.                                                      *)
(***************************************************************************)

Entries == [used : Nat, version : Nat, updatedAt : Nat]

WriteShape ==
  /\ now \in Nat
  /\ entry \in [Counters -> Entries]
  /\ stage \in [Writers -> {"new", "read", "timed", "stored", "done", "refused"}]
  /\ seen \in [Writers -> Entries]
  /\ began \in [Writers -> Nat]

(* What a writer has seen is the counter as it was at that version.        *)
SeenIsPast ==
  \A w \in Writers :
    /\ seen[w].version <= entry[Counter[w]].version
    /\ seen[w].version = entry[Counter[w]].version => seen[w].used = entry[Counter[w]].used

(* Whoever is about to swap has looked whether its delta fits.             *)
Checked == \A w \in Writers : Method[w] = "swap" /\ stage[w] = "timed" => Fits(w)

SwapInv == WriteShape /\ SeenIsPast /\ Checked /\ SwapsKeepCeiling

(* A part that does not run sees only the clock move.                      *)
UsageStep == UsageNext \/ (Tick /\ UNCHANGED ledgerVars)

LEMMA SwapInit == UsageInit => SwapInv
  <1> SUFFICES ASSUME UsageInit PROVE SwapInv
    OBVIOUS
  <1>1. Unwritten \in Entries
    BY DEF Unwritten, Entries
  <1>2. WriteShape
    BY <1>1 DEF UsageInit, WriteShape
  <1>3. SeenIsPast /\ Checked
    BY DEF UsageInit, SeenIsPast, Checked, Unwritten, Counters
  <1>4. SwapsKeepCeiling
    BY UsageAssumption DEF UsageInit, SwapsKeepCeiling, Unwritten
  <1> QED
    BY <1>2, <1>3, <1>4 DEF SwapInv

(* Steps that write nothing to the store and look at nothing.              *)
LEMMA QuietKeeps ==
  ASSUME SwapInv, UNCHANGED <<entry, seen>>, now' \in Nat, began' \in [Writers -> Nat],
         NEW w \in Writers, NEW to, stage' = [stage EXCEPT ![w] = to],
         to \in {"timed", "done", "refused"},
         to = "timed" => Method[w] # "swap" \/ Fits(w)
  PROVE  SwapInv'
  <1>1. WriteShape'
    BY DEF SwapInv, WriteShape
  <1>2. SeenIsPast' /\ SwapsKeepCeiling'
    BY DEF SwapInv, SeenIsPast, SwapsKeepCeiling
  <1>3. Checked'
    BY DEF SwapInv, WriteShape, Checked, Fits
  <1> QED
    BY <1>1, <1>2, <1>3 DEF SwapInv

(* The store's write: a version that somebody has seen is never there      *)
(* again, and a sum that was checked against the version it is added to    *)
(* keeps the ceiling.                                                      *)
LEMMA WriteKeeps ==
  ASSUME SwapInv, NEW w \in Writers, Write(w),
         Method[w] = "swap" => seen[w].version = entry[Counter[w]].version
  PROVE  SwapInv'
  <1> DEFINE k == Counter[w]
  <1>0. k \in Counters /\ Delta[w] \in Int
    BY UsageAssumption DEF Counters
  <1>1. entry[k] \in Entries /\ now' = now /\ seen' = seen /\ began' = began
    BY <1>0 DEF SwapInv, WriteShape, Write
  <1>2. PICK u \in Nat, v \in Nat : u = entry[k].used /\ v = entry[k].version
    BY <1>1 DEF Entries
  <1>3. PICK x \in Nat : /\ x = IF u + Delta[w] < 0 THEN 0 ELSE u + Delta[w]
                         /\ entry' = [entry EXCEPT ![k] = [used |-> x, version |-> v + 1, updatedAt |-> began[w]]]
    <2> DEFINE sum == u + Delta[w]
               low == IF sum < 0 THEN 0 - sum ELSE 0
    <2>1. entry' = [entry EXCEPT ![k] = [used |-> sum + low, version |-> v + 1, updatedAt |-> began[w]]]
      BY <1>2 DEF Write
    <2>2. sum + low \in Nat /\ sum + low = IF u + Delta[w] < 0 THEN 0 ELSE u + Delta[w]
      BY <1>0, <1>2
    <2> HIDE DEF sum, low
    <2> QED
      BY <2>1, <2>2
  <1>4. stage' = [stage EXCEPT ![w] = "stored"] /\ stage[w] = "timed"
    BY DEF Write, Advance
  <1>5. WriteShape'
    <2>1. [used |-> x, version |-> v + 1, updatedAt |-> began[w]] \in Entries
      BY <1>2, <1>3 DEF SwapInv, WriteShape, Entries
    <2> QED
      BY <1>1, <1>3, <1>4, <2>1 DEF SwapInv, WriteShape
  <1>6. \A j \in Counters : j # k => entry'[j] = entry[j]
    BY <1>3 DEF SwapInv, WriteShape
  <1>7. entry'[k].used = x /\ entry'[k].version = v + 1
    BY <1>0, <1>3 DEF SwapInv, WriteShape
  <1>8. SeenIsPast'
    <2> SUFFICES ASSUME NEW y \in Writers
                 PROVE  /\ seen[y].version <= entry'[Counter[y]].version
                        /\ seen[y].version = entry'[Counter[y]].version => seen[y].used = entry'[Counter[y]].used
      BY <1>1 DEF SeenIsPast
    <2>1. seen[y].version \in Nat /\ seen[y].version <= entry[Counter[y]].version
      BY DEF SwapInv, WriteShape, SeenIsPast, Entries
    <2>2. CASE Counter[y] = k
      BY <1>2, <1>7, <2>1, <2>2
    <2>3. CASE Counter[y] # k
      BY <1>6, <2>3 DEF SwapInv, SeenIsPast, Counters
    <2> QED
      BY <2>2, <2>3
  <1>9. Checked'
    BY <1>1, <1>4 DEF SwapInv, WriteShape, Checked, Fits
  <1>10. SwapsKeepCeiling'
    <2> SUFFICES ASSUME NEW j \in Counters,
                        \A y \in Writers : Counter[y] = j /\ Delta[y] > 0 => Method[y] = "swap"
                 PROVE  entry'[j].used <= Ceiling
      BY DEF SwapsKeepCeiling
    <2>1. entry[j].used <= Ceiling
      BY DEF SwapInv, SwapsKeepCeiling
    <2>2. CASE j # k
      BY <1>6, <2>1, <2>2
    <2>3. CASE j = k /\ Delta[w] > 0
      <3>1. seen[w].used = u
        BY <1>2, <2>3 DEF SwapInv, SeenIsPast
      <3>2. u + Delta[w] <= Ceiling
        BY <1>4, <2>3, <3>1 DEF SwapInv, Checked, Fits
      <3> QED
        BY <1>0, <1>2, <1>3, <1>7, <2>3, <3>2
    <2>4. CASE j = k /\ ~(Delta[w] > 0)
      BY <1>0, <1>2, <1>3, <1>7, <2>1, <2>4, UsageAssumption
    <2> QED
      BY <2>2, <2>3, <2>4
  <1> QED
    BY <1>5, <1>8, <1>9, <1>10 DEF SwapInv

(* A writer looks at the counter: for the first time, or because a swap    *)
(* finds another version and hands it back.                                *)
LEMMA LookKeeps ==
  ASSUME SwapInv, NEW w \in Writers, NEW from, Advance(w, from, "read"),
         seen' = [seen EXCEPT ![w] = entry[Counter[w]]], UNCHANGED <<now, entry, began>>
  PROVE  SwapInv'
  <1>2. stage' = [stage EXCEPT ![w] = "read"]
    BY DEF Advance
  <1>3. entry[Counter[w]] \in Entries
    BY DEF SwapInv, WriteShape, Counters
  <1>4. WriteShape'
    BY <1>2, <1>3 DEF SwapInv, WriteShape
  <1>5. SeenIsPast'
    <2> SUFFICES ASSUME NEW v \in Writers
                 PROVE  /\ seen'[v].version <= entry[Counter[v]].version
                        /\ seen'[v].version = entry[Counter[v]].version => seen'[v].used = entry[Counter[v]].used
      BY DEF SeenIsPast
    <2>1. CASE v = w
      <3>1. seen'[v] = entry[Counter[v]]
        BY <2>1 DEF SwapInv, WriteShape
      <3> QED
        BY <1>3, <2>1, <3>1 DEF Entries
    <2>2. CASE v # w
      BY <2>2 DEF SwapInv, WriteShape, SeenIsPast
    <2> QED
      BY <2>1, <2>2
  <1>6. Checked'
    BY <1>2 DEF SwapInv, WriteShape, Checked, Fits
  <1>7. SwapsKeepCeiling'
    BY DEF SwapInv, SwapsKeepCeiling
  <1> QED
    BY <1>4, <1>5, <1>6, <1>7 DEF SwapInv

LEMMA UsageStepKeeps == SwapInv /\ [UsageStep]_usageVars => SwapInv'
  <1> SUFFICES ASSUME SwapInv, [UsageStep]_usageVars PROVE SwapInv'
    OBVIOUS
  <1>0. now \in Nat /\ began \in [Writers -> Nat]
    BY DEF SwapInv, WriteShape
  <1>1. ASSUME NEW w \in Writers, Get(w) PROVE SwapInv'
    BY <1>1, LookKeeps DEF Get
  <1>2. ASSUME NEW w \in Writers, GiveUpWrite(w) PROVE SwapInv'
    BY <1>0, <1>2, QuietKeeps DEF GiveUpWrite, Advance
  <1>3. ASSUME NEW w \in Writers, ReadTime(w) PROVE SwapInv'
    <2>1. began' \in [Writers -> Nat]
      BY <1>0, <1>3 DEF ReadTime
    <2> QED
      BY <1>0, <1>3, <2>1, QuietKeeps DEF ReadTime, Advance
  <1>4. ASSUME NEW w \in Writers, StoreAdjust(w) PROVE SwapInv'
    BY <1>4, WriteKeeps DEF StoreAdjust
  <1>5. ASSUME NEW w \in Writers, Swap(w) PROVE SwapInv'
    BY <1>5, WriteKeeps, LookKeeps DEF Swap
  <1>6. ASSUME NEW w \in Writers, Record(w) PROVE SwapInv'
    BY <1>0, <1>6, QuietKeeps DEF Record, Advance
  <1>7. ASSUME UNCHANGED <<entry, stage, seen, began>>, now' \in Nat PROVE SwapInv'
    BY <1>7 DEF SwapInv, WriteShape, SeenIsPast, Checked, Fits, SwapsKeepCeiling
  <1>8. ASSUME NEW l \in Ledgers, NEW before \in 0..MaxLedgerTime, Compact(l, before) PROVE SwapInv'
    BY <1>0, <1>7, <1>8 DEF Compact
  <1>9. CASE UsageTick \/ (Tick /\ UNCHANGED ledgerVars)
    BY <1>0, <1>7, <1>9 DEF UsageTick, Tick, ledgerVars
  <1>10. CASE UNCHANGED usageVars
    BY <1>0, <1>7, <1>10 DEF usageVars
  <1> QED
    BY <1>1, <1>2, <1>3, <1>4, <1>5, <1>6, <1>8, <1>9, <1>10 DEF UsageStep, UsageNext

(* What happens to a key's events: their sums, and those that a compaction *)
(* takes.                                                                  *)
Events == [key : Counters, delta : Int, at : Nat]

LEMMA EventFacts ==
  ASSUME NEW s \in Seq(Events)
  PROVE  /\ Len(s) \in Nat
         /\ DOMAIN s = 1..Len(s)
         /\ IsFiniteSet(1..Len(s))
         /\ \A i \in 1..Len(s) : s[i] \in Events /\ s[i].delta \in Int /\ s[i].at \in Nat
         /\ \A k : \A i \in 1..Len(s) :
              /\ Added(s, k)[i] = IF s[i].key = k THEN s[i].delta ELSE 0
              /\ Added(s, k)[i] \in Int
  <1>1. Len(s) \in Nat /\ DOMAIN s = 1..Len(s) /\ \A i \in 1..Len(s) : s[i] \in Events
    BY LenProperties, ElementOfSeq
  <1>2. IsFiniteSet(1..Len(s))
    BY <1>1, FS_Interval
  <1>3. \A i \in 1..Len(s) : s[i].delta \in Int /\ s[i].at \in Nat
    BY <1>1 DEF Events
  <1>4. \A k : \A i \in 1..Len(s) : Added(s, k)[i] = IF s[i].key = k THEN s[i].delta ELSE 0
    BY <1>1 DEF Added
  <1> QED
    BY <1>1, <1>2, <1>3, <1>4

(* What the first n events have added.                                     *)
FirstOf(s, k, n) == SumFunctionOnSet(Added(s, k), 1..n)

LEMMA FirstOfFacts ==
  ASSUME NEW s \in Seq(Events), NEW k
  PROVE  /\ \A n \in 0..Len(s) : FirstOf(s, k, n) \in Int
         /\ FirstOf(s, k, 0) = 0
         /\ \A n \in 1..Len(s) : FirstOf(s, k, n) = FirstOf(s, k, n - 1) + Added(s, k)[n]
         /\ Total(s, k) = FirstOf(s, k, Len(s))
  <1>1. Len(s) \in Nat /\ DOMAIN s = 1..Len(s) /\ \A i \in 1..Len(s) : Added(s, k)[i] \in Int
    BY EventFacts
  <1>2. ASSUME NEW n \in 0..Len(s)
        PROVE  FirstOf(s, k, n) \in Int
    <2>1. IsFiniteSet(1..n) /\ \A i \in 1..n : Added(s, k)[i] \in Int
      BY <1>1, FS_Interval
    <2> QED
      BY <2>1, SumFacts DEF FirstOf
  <1>3. FirstOf(s, k, 0) = 0
    <2>1. 1..0 = {}
      OBVIOUS
    <2> QED
      BY <2>1, SumEmpty DEF FirstOf
  <1>4. ASSUME NEW n \in 1..Len(s)
        PROVE  FirstOf(s, k, n) = FirstOf(s, k, n - 1) + Added(s, k)[n]
    <2>1. IsFiniteSet(1..n) /\ (\A i \in 1..n : Added(s, k)[i] \in Int) /\ n \in 1..n
      BY <1>1, FS_Interval
    <2>2. (1..n) \ {n} = 1..(n - 1) /\ n - 1 \in 0..Len(s)
      BY <1>1
    <2>3. FirstOf(s, k, n) = Added(s, k)[n] + SumFunctionOnSet(Added(s, k), (1..n) \ {n})
      BY <2>1, SumFacts DEF FirstOf
    <2>4. FirstOf(s, k, n) = Added(s, k)[n] + FirstOf(s, k, n - 1)
      BY <2>2, <2>3 DEF FirstOf
    <2>5. FirstOf(s, k, n - 1) \in Int /\ Added(s, k)[n] \in Int
      BY <1>2, <2>1, <2>2
    <2> QED
      BY <2>4, <2>5
  <1>5. Total(s, k) = FirstOf(s, k, Len(s))
    BY <1>1 DEF Total, FirstOf
  <1> QED
    BY <1>2, <1>3, <1>4, <1>5

LEMMA TotalType ==
  ASSUME NEW s \in Seq(Events), NEW k
  PROVE  Total(s, k) \in Int
  <1>1. Len(s) \in 0..Len(s)
    BY EventFacts
  <1> QED
    BY <1>1, FirstOfFacts

LEMMA TotalEmpty ==
  ASSUME NEW k
  PROVE  <<>> \in Seq(Events) /\ Len(<<>>) = 0 /\ Total(<<>>, k) = 0
  <1>1. <<>> \in Seq(Events) /\ Len(<<>>) = 0
    BY EmptySeq
  <1> QED
    BY <1>1, FirstOfFacts

(* Sequences that begin alike have added the same up to there.             *)
LEMMA FirstOfSame ==
  ASSUME NEW s \in Seq(Events), NEW u \in Seq(Events), NEW n \in Nat, n <= Len(s), n <= Len(u),
         \A i \in 1..n : u[i] = s[i], NEW k
  PROVE  FirstOf(s, k, n) = FirstOf(u, k, n)
  <1>1. IsFiniteSet(1..n)
    BY FS_Interval
  <1>2. \A i \in 1..n : Added(s, k)[i] \in Int /\ Added(u, k)[i] = Added(s, k)[i]
    <2> TAKE i \in 1..n
    <2>1. i \in 1..Len(s) /\ i \in 1..Len(u)
      BY EventFacts
    <2>2. Added(s, k)[i] = (IF s[i].key = k THEN s[i].delta ELSE 0) /\ Added(s, k)[i] \in Int
      BY <2>1, EventFacts
    <2>3. Added(u, k)[i] = IF u[i].key = k THEN u[i].delta ELSE 0
      BY <2>1, EventFacts
    <2> QED
      BY <2>2, <2>3
  <1> QED
    BY <1>1, <1>2, SumSame DEF FirstOf

LEMMA TotalLonger ==
  ASSUME NEW s \in Seq(Events), NEW u \in Seq(Events), NEW k,
         Len(u) = Len(s) + 1, \A i \in 1..Len(s) : u[i] = s[i]
  PROVE  Total(u, k) = Total(s, k) + (IF u[Len(u)].key = k THEN u[Len(u)].delta ELSE 0)
  <1>1. PICK n \in Nat : n = Len(s) /\ Len(u) = n + 1
    BY EventFacts
  <1>2. FirstOf(s, k, n) = FirstOf(u, k, n)
    BY <1>1, FirstOfSame
  <1>3. n + 1 \in 1..Len(u) /\ (n + 1) - 1 = n
    BY <1>1
  <1>4. FirstOf(u, k, n + 1) = FirstOf(u, k, n) + Added(u, k)[n + 1]
    BY <1>3, FirstOfFacts
  <1>5. Added(u, k)[n + 1] = IF u[n + 1].key = k THEN u[n + 1].delta ELSE 0
    BY <1>3, EventFacts
  <1>6. Total(u, k) = FirstOf(u, k, n + 1) /\ Total(s, k) = FirstOf(s, k, n)
    BY <1>1, FirstOfFacts
  <1> QED
    BY <1>1, <1>2, <1>4, <1>5, <1>6

LEMMA TotalAppend ==
  ASSUME NEW s \in Seq(Events), NEW e \in Events
  PROVE  /\ Append(s, e) \in Seq(Events)
         /\ Len(Append(s, e)) = Len(s) + 1
         /\ Append(s, e)[Len(s) + 1] = e
         /\ \A i \in 1..Len(s) : Append(s, e)[i] = s[i]
         /\ \A k : Total(Append(s, e), k) = Total(s, k) + (IF e.key = k THEN e.delta ELSE 0)
  <1>1. PICK u : u = Append(s, e)
    OBVIOUS
  <1>2. u \in Seq(Events) /\ Len(u) = Len(s) + 1 /\ u[Len(s) + 1] = e /\ \A i \in 1..Len(s) : u[i] = s[i]
    BY <1>1, AppendProperties
  <1>3. \A k : Total(u, k) = Total(s, k) + (IF e.key = k THEN e.delta ELSE 0)
    BY <1>2, TotalLonger
  <1> QED
    BY <1>1, <1>2, <1>3

(* What is cut off at the front and what is left add up.                   *)
LEMMA TotalSplit ==
  ASSUME NEW s \in Seq(Events), NEW n \in 0..Len(s), NEW k
  PROVE  /\ SubSeq(s, 1, n) \in Seq(Events)
         /\ SubSeq(s, n + 1, Len(s)) \in Seq(Events)
         /\ Total(s, k) = Total(SubSeq(s, 1, n), k) + Total(SubSeq(s, n + 1, Len(s)), k)
  <1>0. Len(s) \in Nat /\ n \in Nat /\ n <= Len(s)
    BY EventFacts
  <1>1. PICK p : p = SubSeq(s, 1, n)
    OBVIOUS
  <1>2. PICK q : q = SubSeq(s, n + 1, Len(s))
    OBVIOUS
  <1>3. p \in Seq(Events) /\ Len(p) = n /\ \A i \in 1..n : p[i] = s[i]
    <2>1. \A i \in 1..n : i \in 1..Len(s)
      BY <1>0
    <2>2. \A i \in 1..n : s[i] \in Events
      BY <2>1, EventFacts
    <2> QED
      BY <1>0, <1>1, <2>2, SubSeqProperties
  <1>4. q \in Seq(Events) /\ Len(q) = Len(s) - n /\ \A i \in 1..(Len(s) - n) : q[i] = s[n + i]
    <2>1. \A i \in (n + 1)..Len(s) : s[i] \in Events
      BY <1>0, EventFacts
    <2> QED
      BY <1>0, <1>2, <2>1, SubSeqProperties
  <1>5. FirstOf(s, k, n) = FirstOf(p, k, n)
    BY <1>0, <1>3, FirstOfSame
  <1> DEFINE T == {m \in 0..(Len(s) - n) : FirstOf(s, k, n + m) # FirstOf(s, k, n) + FirstOf(q, k, m)}
  <1>6. ASSUME T # {} PROVE FALSE
    <2>1. PICK m \in T : \A j \in T : m <= j
      <3>1. T \subseteq Nat
        OBVIOUS
      <3> HIDE DEF T
      <3> QED
        BY <1>6, <3>1, LeastElement
    <2>2. m \in 0..(Len(s) - n) /\ FirstOf(s, k, n + m) # FirstOf(s, k, n) + FirstOf(q, k, m)
      OBVIOUS
    <2>3. m # 0
      <3>0. FirstOf(q, k, 0) = 0 /\ FirstOf(s, k, n) \in Int
        BY <1>4, FirstOfFacts
      <3>1. n + 0 = n /\ FirstOf(q, k, 0) = 0 /\ FirstOf(s, k, n) \in Int
        BY <1>0, <3>0
      <3> QED
        BY <2>2, <3>1
    <2>4. m - 1 \in 0..(Len(s) - n) /\ ~(m <= m - 1) /\ m \in 1..(Len(s) - n)
      BY <1>0, <2>2, <2>3
    <2>5. FirstOf(s, k, n + (m - 1)) = FirstOf(s, k, n) + FirstOf(q, k, m - 1)
      BY <2>1, <2>4
    <2>6. FirstOf(q, k, m) = FirstOf(q, k, m - 1) + Added(q, k)[m]
      BY <1>4, <2>4, FirstOfFacts
    <2>7. n + m \in 1..Len(s) /\ (n + m) - 1 = n + (m - 1)
      BY <1>0, <2>4
    <2>8. FirstOf(s, k, n + m) = FirstOf(s, k, n + (m - 1)) + Added(s, k)[n + m]
      BY <2>7, FirstOfFacts
    <2>9. Added(q, k)[m] = Added(s, k)[n + m] /\ Added(q, k)[m] \in Int
      <3>1. Added(q, k)[m] = (IF q[m].key = k THEN q[m].delta ELSE 0) /\ Added(q, k)[m] \in Int
        BY <1>4, <2>4, EventFacts
      <3>2. Added(s, k)[n + m] = IF s[n + m].key = k THEN s[n + m].delta ELSE 0
        BY <2>7, EventFacts
      <3>3. q[m] = s[n + m]
        BY <1>4, <2>4
      <3> QED
        BY <3>1, <3>2, <3>3
    <2>10. FirstOf(s, k, n) \in Int /\ FirstOf(q, k, m - 1) \in Int
      BY <1>4, <2>4, FirstOfFacts
    <2> QED
      BY <2>2, <2>5, <2>6, <2>8, <2>9, <2>10
  <1>7. n + (Len(s) - n) = Len(s) /\ Len(s) - n \in 0..(Len(s) - n)
    BY <1>0
  <1>8. FirstOf(s, k, Len(s)) = FirstOf(s, k, n) + FirstOf(q, k, Len(s) - n)
    BY <1>6, <1>7
  <1>9. Total(s, k) = Total(p, k) + Total(q, k)
    BY <1>3, <1>4, <1>5, <1>8, FirstOfFacts
  <1> QED
    BY <1>1, <1>2, <1>3, <1>4, <1>9

InTimeOrder(s) == \A i, j \in DOMAIN s : i < j => s[i].at <= s[j].at

(* The events among the first i that a compaction reports, and what it has *)
(* kept of them.                                                           *)
Old(s, t, i) == {j \in 1..i : s[j].at <= t}
KeptOf(p, s, t, i) ==
  /\ p \in Seq(Events)
  /\ \A a \in 1..Len(p) : \E j \in 1..i : p[a] = s[j]
  /\ InTimeOrder(s) => InTimeOrder(p)
  /\ \A k : Total(p, k) + SumFunctionOnSet(Added(s, k), Old(s, t, i)) = FirstOf(s, k, i)

LEMMA OldFacts ==
  ASSUME NEW s \in Seq(Events), NEW t \in Int, NEW i \in 1..Len(s), NEW k
  PROVE  /\ SumFunctionOnSet(Added(s, k), Old(s, t, i - 1)) \in Int
         /\ SumFunctionOnSet(Added(s, k), Old(s, t, i))
              = SumFunctionOnSet(Added(s, k), Old(s, t, i - 1))
                  + (IF s[i].at <= t THEN Added(s, k)[i] ELSE 0)
  <1>1. \A j \in 1..i : j \in 1..Len(s) /\ Added(s, k)[j] \in Int /\ (j # i => j \in 1..(i - 1))
    BY EventFacts
  <1>2. i \in 1..i /\ i \in Nat /\ \A j \in 1..(i - 1) : j \in 1..i /\ j # i
    BY EventFacts
  <1>3. IsFiniteSet(1..(i - 1))
    BY <1>2, FS_Interval
  <1>4. IsFiniteSet(Old(s, t, i - 1))
    BY <1>3, FS_Subset DEF Old
  <1>5. \A j \in Old(s, t, i - 1) : Added(s, k)[j] \in Int
    BY <1>1, <1>2 DEF Old
  <1>6. SumFunctionOnSet(Added(s, k), Old(s, t, i - 1)) \in Int
    BY <1>4, <1>5, SumFacts
  <1>7. CASE s[i].at <= t
    <2>1. Old(s, t, i) = Old(s, t, i - 1) \cup {i} /\ i \notin Old(s, t, i - 1)
      BY <1>1, <1>2, <1>7 DEF Old
    <2>2. SumFunctionOnSet(Added(s, k), Old(s, t, i))
            = Added(s, k)[i] + SumFunctionOnSet(Added(s, k), Old(s, t, i - 1))
      BY <1>1, <1>2, <1>4, <1>5, <2>1, SumMore
    <2> QED
      BY <1>1, <1>2, <1>6, <1>7, <2>2
  <1>8. CASE ~(s[i].at <= t)
    <2>1. Old(s, t, i) = Old(s, t, i - 1)
      BY <1>1, <1>2, <1>8 DEF Old
    <2> QED
      BY <1>6, <1>8, <2>1
  <1> QED
    BY <1>6, <1>7, <1>8

LEMMA KeptMore ==
  ASSUME NEW s \in Seq(Events), NEW t \in Int, NEW i \in 1..Len(s), NEW p, KeptOf(p, s, t, i - 1)
  PROVE  KeptOf(IF s[i].at > t THEN Append(p, s[i]) ELSE p, s, t, i)
  <1>0. s[i] \in Events /\ s[i].at \in Nat /\ i \in Nat /\ p \in Seq(Events)
    BY EventFacts DEF KeptOf
  <1>1. \A j \in 1..(i - 1) : j \in 1..i /\ j \in DOMAIN s /\ j < i
    BY EventFacts
  <1>2. i \in 1..i /\ i \in DOMAIN s /\ i \in 1..Len(s) /\ i \in 0..Len(s) /\ i - 1 \in 0..Len(s)
    BY EventFacts
  <1>3. \A k : /\ FirstOf(s, k, i) = FirstOf(s, k, i - 1) + Added(s, k)[i]
               /\ Added(s, k)[i] = (IF s[i].key = k THEN s[i].delta ELSE 0)
               /\ Added(s, k)[i] \in Int
    BY <1>2, FirstOfFacts, EventFacts
  <1>4. \A k : Total(p, k) \in Int
    BY <1>0, TotalType
  <1>5. CASE s[i].at > t
    <2>1. PICK q : q = Append(p, s[i])
      OBVIOUS
    <2>2. /\ q \in Seq(Events)
          /\ Len(q) = Len(p) + 1
          /\ q[Len(p) + 1] = s[i]
          /\ \A a \in 1..Len(p) : q[a] = p[a]
          /\ \A k : Total(q, k) = Total(p, k) + (IF s[i].key = k THEN s[i].delta ELSE 0)
      BY <1>0, <2>1, TotalAppend
    <2>3. PICK n \in Nat : n = Len(p) /\ Len(q) = n + 1 /\ DOMAIN p = 1..n /\ DOMAIN q = 1..(n + 1)
      BY <1>0, <2>2, EventFacts
    <2>4. \A a \in 1..(n + 1) : a \in 1..n \/ a = n + 1
      OBVIOUS
    <2>5. \A a \in 1..Len(q) : \E j \in 1..i : q[a] = s[j]
      BY <1>1, <1>2, <2>2, <2>3, <2>4 DEF KeptOf
    <2>6. ASSUME InTimeOrder(s) PROVE InTimeOrder(q)
      <3> SUFFICES ASSUME NEW a \in 1..(n + 1), NEW b \in 1..(n + 1), a < b
                   PROVE  q[a].at <= q[b].at
        BY <2>3 DEF InTimeOrder
      <3>1. a \in 1..n
        OBVIOUS
      <3>2. CASE b \in 1..n
        BY <2>2, <2>3, <2>6, <3>1, <3>2 DEF KeptOf, InTimeOrder
      <3>3. CASE b = n + 1
        <4>1. PICK j \in 1..(i - 1) : p[a] = s[j]
          BY <2>3, <3>1 DEF KeptOf
        <4>2. s[j].at <= s[i].at
          BY <1>1, <1>2, <2>6 DEF InTimeOrder
        <4> QED
          BY <2>2, <2>3, <3>1, <3>3, <4>1, <4>2
      <3> QED
        BY <2>4, <3>2, <3>3
    <2>7. ASSUME NEW k
          PROVE  Total(q, k) + SumFunctionOnSet(Added(s, k), Old(s, t, i)) = FirstOf(s, k, i)
      <3>1. PICK x \in Int : x = SumFunctionOnSet(Added(s, k), Old(s, t, i - 1))
        BY OldFacts
      <3>2. SumFunctionOnSet(Added(s, k), Old(s, t, i)) = x
        <4>1. ~(s[i].at <= t)
          BY <1>0, <1>5
        <4>2. SumFunctionOnSet(Added(s, k), Old(s, t, i)) = x + (IF s[i].at <= t THEN Added(s, k)[i] ELSE 0)
          BY <3>1, OldFacts
        <4> QED
          BY <3>1, <4>1, <4>2
      <3>3. Total(p, k) + x = FirstOf(s, k, i - 1)
        BY <3>1 DEF KeptOf
      <3>4. Total(q, k) = Total(p, k) + Added(s, k)[i]
        BY <1>3, <2>2
      <3> QED
        BY <1>3, <1>4, <3>2, <3>3, <3>4
    <2>8. KeptOf(q, s, t, i)
      BY <2>2, <2>5, <2>6, <2>7 DEF KeptOf
    <2> QED
      BY <1>5, <2>1, <2>8
  <1>6. CASE ~(s[i].at > t)
    <2>1. \A a \in 1..Len(p) : \E j \in 1..i : p[a] = s[j]
      BY <1>1 DEF KeptOf
    <2>2. ASSUME NEW k
          PROVE  Total(p, k) + SumFunctionOnSet(Added(s, k), Old(s, t, i)) = FirstOf(s, k, i)
      <3>1. PICK x \in Int : x = SumFunctionOnSet(Added(s, k), Old(s, t, i - 1))
        BY OldFacts
      <3>2. SumFunctionOnSet(Added(s, k), Old(s, t, i)) = x + Added(s, k)[i]
        <4>1. s[i].at <= t
          BY <1>0, <1>6
        <4> QED
          BY <3>1, <4>1, OldFacts
      <3>3. Total(p, k) + x = FirstOf(s, k, i - 1)
        BY <3>1 DEF KeptOf
      <3> QED
        BY <1>3, <1>4, <3>1, <3>2, <3>3
    <2>3. KeptOf(p, s, t, i)
      BY <2>1, <2>2 DEF KeptOf
    <2> QED
      BY <1>6, <2>3
  <1> QED
    BY <1>5, <1>6

(* A compaction keeps events of the buffer in their order, and what it     *)
(* reports and what it keeps add up.                                       *)
LEMMA RemainingFacts ==
  ASSUME NEW s \in Seq(Events), NEW t \in Int
  PROVE  KeptOf(Remaining(s, t), s, t, Len(s))
  <1> DEFINE n == Len(s)
             Loop(f) == f = [i \in 0..n |-> IF i = 0 THEN <<>>
                                             ELSE IF s[i].at > t THEN Append(f[i - 1], s[i])
                                             ELSE f[i - 1]]
             kept == CHOOSE f : Loop(f)
             h == [i \in 1..n |-> [p \in Seq(Events) |->
                     IF s[i].at > t THEN Append(p, s[i]) ELSE p]]
  <1>1. n \in Nat /\ \A i \in 1..n : s[i] \in Events
    BY EventFacts
  <1>2. Remaining(s, t) = kept[n]
    BY Zenon DEF Remaining
  <1>3. h \in [1..n -> [Seq(Events) -> Seq(Events)]]
    <2> SUFFICES ASSUME NEW i \in 1..n, NEW p \in Seq(Events)
                 PROVE  Append(p, s[i]) \in Seq(Events)
      OBVIOUS
    <2> QED
      BY <1>1, AppendProperties
  <1>4. PICK f : f \in [0..n -> Seq(Events)] /\ f[0] = <<>> /\ \A i \in 1..n : f[i] = h[i][f[i - 1]]
    <2>1. <<>> \in Seq(Events)
      BY EmptySeq
    <2> HIDE DEF h, n
    <2>2. \E f : Rounds(f, n, <<>>, h, Seq(Events))
      BY <1>1, <1>3, <2>1, LoopExists
    <2> QED
      BY Zenon, <2>2 DEF Rounds
  <1>5. ASSUME NEW i \in 1..n
        PROVE  f[i] = IF s[i].at > t THEN Append(f[i - 1], s[i]) ELSE f[i - 1]
    <2>1. i - 1 \in 0..n
      BY <1>1
    <2>2. PICK p \in Seq(Events) : p = f[i - 1]
      BY <1>4, <2>1
    <2>3. h[i][p] = IF s[i].at > t THEN Append(p, s[i]) ELSE p
      OBVIOUS
    <2> HIDE DEF h
    <2> QED
      BY <1>4, <2>2, <2>3
  <1>6. Loop(f)
    <2>1. \A i \in 0..n : i # 0 => i \in 1..n
      BY <1>1
    <2>2. \A i \in 0..n : f[i] = IF i = 0 THEN <<>> ELSE IF s[i].at > t THEN Append(f[i - 1], s[i]) ELSE f[i - 1]
      BY Zenon, <1>4, <1>5, <2>1
    <2> QED
      BY Zenon, <1>4, <2>2
  <1>7. Loop(kept)
    BY Zenon, <1>6
  <1> HIDE DEF kept, h
  <1>8. kept[0] = <<>> /\ \A i \in 1..n : kept[i] = IF s[i].at > t THEN Append(kept[i - 1], s[i]) ELSE kept[i - 1]
    <2>1. 0 \in 0..n /\ \A i \in 1..n : i \in 0..n /\ i # 0
      BY <1>1
    <2> QED
      BY Zenon, <1>7, <2>1
  <1> DEFINE T == {i \in 0..n : ~KeptOf(kept[i], s, t, i)}
  <1>9. KeptOf(kept[0], s, t, 0)
    <2>1. kept[0] \in Seq(Events) /\ Len(kept[0]) = 0 /\ DOMAIN kept[0] = {} /\ \A k : Total(kept[0], k) = 0
      BY <1>8, TotalEmpty
    <2>2. Old(s, t, 0) = {}
      BY DEF Old
    <2>3. \A k : SumFunctionOnSet(Added(s, k), Old(s, t, 0)) = 0 /\ FirstOf(s, k, 0) = 0
      BY <2>2, SumEmpty, FirstOfFacts
    <2> QED
      BY <2>1, <2>3 DEF KeptOf, InTimeOrder
  <1>10. ASSUME T # {} PROVE FALSE
    <2>1. PICK m \in T : \A j \in T : m <= j
      <3>1. T \subseteq Nat
        OBVIOUS
      <3> HIDE DEF T
      <3> QED
        BY <1>10, <3>1, LeastElement
    <2>2. m \in 0..n /\ m # 0 /\ ~KeptOf(kept[m], s, t, m)
      BY <1>9
    <2>3. m \in 1..n /\ m - 1 \in 0..n /\ ~(m <= m - 1)
      BY <1>1, <2>2
    <2>4. KeptOf(kept[m - 1], s, t, m - 1)
      BY <2>1, <2>3
    <2>5. KeptOf(IF s[m].at > t THEN Append(kept[m - 1], s[m]) ELSE kept[m - 1], s, t, m)
      BY <2>3, <2>4, KeptMore
    <2>6. kept[m] = IF s[m].at > t THEN Append(kept[m - 1], s[m]) ELSE kept[m - 1]
      BY <1>8, <2>3
    <2> QED
      BY Zenon, <2>2, <2>5, <2>6
  <1>11. n \in 0..n
    BY <1>1
  <1> QED
    BY <1>2, <1>10, <1>11

BookShape ==
  /\ buffer \in [Ledgers -> Seq(Events)]
  /\ compacted \in [Counters -> Int]
  /\ spilled \in [Counters -> Int]
  /\ floored \in [Counters -> Int]

(* No event is of a time to come.                                          *)
NotAhead == \A l \in Ledgers : \A i \in DOMAIN buffer[l] : buffer[l][i].at <= now

UsageInv == SwapInv /\ BookShape /\ NotAhead /\ EventsOrdered /\ BooksBalance

Buffered(k) == SumFunctionOnSet([l \in Ledgers |-> Total(buffer[l], k)], Ledgers)
Waiting(k) == {w \in Writers : stage[w] = "stored" /\ Counter[w] = k}

LEMMA WaitingFacts ==
  ASSUME NEW k
  PROVE  /\ IsFiniteSet(Waiting(k))
         /\ \A w \in Writers : Delta[w] \in Int
         /\ UnderWay(k) = SumFunctionOnSet(Delta, Waiting(k))
         /\ UnderWay(k) \in Int
  <1>1. IsFiniteSet(Waiting(k))
    BY UsageAssumption, FS_Subset DEF Waiting
  <1>2. \A w \in Writers : Delta[w] \in Int
    BY UsageAssumption
  <1>3. UnderWay(k) = SumFunctionOnSet(Delta, Waiting(k))
    BY Zenon DEF UnderWay, Waiting
  <1>4. \A w \in Waiting(k) : Delta[w] \in Int
    BY <1>2 DEF Waiting
  <1> QED
    BY <1>1, <1>2, <1>3, <1>4, SumFacts

LEMMA WaitingJoins ==
  ASSUME NEW k, NEW w \in Writers, stage \in [Writers -> {"new", "read", "timed", "stored", "done", "refused"}],
         stage[w] # "stored", stage' = [stage EXCEPT ![w] = "stored"]
  PROVE  UnderWay(k)' = UnderWay(k) + (IF Counter[w] = k THEN Delta[w] ELSE 0)
  <1>1. IsFiniteSet(Waiting(k)) /\ UnderWay(k) = SumFunctionOnSet(Delta, Waiting(k)) /\ UnderWay(k) \in Int
    BY WaitingFacts
  <1>2. \A v \in Writers : Delta[v] \in Int
    BY WaitingFacts
  <1>3. UnderWay(k)' = SumFunctionOnSet(Delta, Waiting(k)')
    BY Zenon DEF UnderWay, Waiting
  <1>4. CASE Counter[w] = k
    <2>1. Waiting(k)' = Waiting(k) \cup {w} /\ w \notin Waiting(k)
      BY <1>4 DEF Waiting
    <2>2. \A x \in Waiting(k) \cup {w} : Delta[x] \in Int
      BY <1>2 DEF Waiting
    <2>3. SumFunctionOnSet(Delta, Waiting(k) \cup {w}) = Delta[w] + SumFunctionOnSet(Delta, Waiting(k))
      BY <1>1, <2>1, <2>2, SumMore
    <2> QED
      BY <1>1, <1>2, <1>3, <1>4, <2>1, <2>3
  <1>5. CASE Counter[w] # k
    <2>1. Waiting(k)' = Waiting(k)
      BY <1>5 DEF Waiting
    <2> QED
      BY <1>1, <1>3, <1>5, <2>1
  <1> QED
    BY <1>4, <1>5

LEMMA WaitingLeaves ==
  ASSUME NEW k, NEW w \in Writers, stage \in [Writers -> {"new", "read", "timed", "stored", "done", "refused"}],
         stage[w] = "stored", stage' = [stage EXCEPT ![w] = "done"]
  PROVE  UnderWay(k) = UnderWay(k)' + (IF Counter[w] = k THEN Delta[w] ELSE 0) /\ UnderWay(k)' \in Int
  <1>1. IsFiniteSet(Waiting(k)) /\ UnderWay(k) = SumFunctionOnSet(Delta, Waiting(k)) /\ UnderWay(k) \in Int
    BY WaitingFacts
  <1>2. \A v \in Writers : Delta[v] \in Int
    BY WaitingFacts
  <1>3. UnderWay(k)' = SumFunctionOnSet(Delta, Waiting(k)')
    BY Zenon DEF UnderWay, Waiting
  <1>4. CASE Counter[w] = k
    <2>1. Waiting(k)' = Waiting(k) \ {w} /\ w \in Waiting(k)
      BY <1>4 DEF Waiting
    <2>2. \A x \in Waiting(k) : Delta[x] \in Int
      BY <1>2 DEF Waiting
    <2>3. SumFunctionOnSet(Delta, Waiting(k)) = Delta[w] + SumFunctionOnSet(Delta, Waiting(k) \ {w})
      BY <1>1, <2>1, <2>2, SumFacts
    <2>4. IsFiniteSet(Waiting(k) \ {w})
      BY <1>1, FS_RemoveElement
    <2>5. SumFunctionOnSet(Delta, Waiting(k) \ {w}) \in Int
      BY <2>2, <2>4, SumFacts
    <2> QED
      BY <1>1, <1>2, <1>3, <1>4, <2>1, <2>3, <2>5
  <1>5. CASE Counter[w] # k
    <2>1. Waiting(k)' = Waiting(k)
      BY <1>5 DEF Waiting
    <2> QED
      BY <1>1, <1>3, <1>5, <2>1
  <1> QED
    BY <1>4, <1>5

LEMMA BufferedFacts ==
  ASSUME NEW k, BookShape
  PROVE  Buffered(k) \in Int
  <1>1. \A l \in Ledgers : buffer[l] \in Seq(Events)
    BY DEF BookShape
  <1>2. \A l \in Ledgers : [m \in Ledgers |-> Total(buffer[m], k)][l] \in Int
    BY <1>1, TotalType
  <1>3. IsFiniteSet(Ledgers)
    BY UsageAssumption
  <1> DEFINE f == [m \in Ledgers |-> Total(buffer[m], k)]
  <1> HIDE DEF f
  <1>4. SumFunctionOnSet(f, Ledgers) \in Int
    BY <1>2, <1>3, SumFacts DEF f
  <1> QED
    BY <1>4 DEF Buffered, f

LEMMA BufferedChanges ==
  ASSUME NEW k, NEW l \in Ledgers, NEW b, b \in Seq(Events), BookShape,
         buffer' = [buffer EXCEPT ![l] = b]
  PROVE  Buffered(k)' = Buffered(k) + Total(b, k) - Total(buffer[l], k)
  <1>1. PICK f : f = [m \in Ledgers |-> Total(buffer[m], k)]
    OBVIOUS
  <1>2. PICK g : g = [m \in Ledgers |-> Total(buffer'[m], k)]
    OBVIOUS
  <1>3. \A m \in Ledgers : buffer[m] \in Seq(Events)
    BY DEF BookShape
  <1>4. buffer'[l] = b /\ \A m \in Ledgers \ {l} : buffer'[m] = buffer[m]
    BY DEF BookShape
  <1>5. \A m \in Ledgers : f[m] = Total(buffer[m], k) /\ g[m] = Total(buffer'[m], k)
    BY Zenon, <1>1, <1>2
  <1>6. \A m \in Ledgers : f[m] \in Int
    BY <1>3, <1>5, TotalType
  <1>7. g[l] = Total(b, k) /\ g[l] \in Int
    BY <1>4, <1>5, TotalType
  <1>8. \A m \in Ledgers \ {l} : g[m] = f[m]
    BY <1>4, <1>5
  <1>9. \A m \in Ledgers : g[m] \in Int
    BY <1>6, <1>7, <1>8
  <1>10. SumFunctionOnSet(g, Ledgers) = SumFunctionOnSet(f, Ledgers) + g[l] - f[l]
    <2>1. IsFiniteSet(Ledgers)
      BY UsageAssumption
    <2>2. SumFunctionOnSet(f, Ledgers) = f[l] + SumFunctionOnSet(f, Ledgers \ {l})
      BY <1>6, <2>1, SumFacts
    <2>3. SumFunctionOnSet(g, Ledgers) = g[l] + SumFunctionOnSet(g, Ledgers \ {l})
      BY <1>9, <2>1, SumFacts
    <2>4. /\ SumFunctionOnSet(f, Ledgers \ {l}) = SumFunctionOnSet(g, Ledgers \ {l})
          /\ SumFunctionOnSet(f, Ledgers \ {l}) \in Int
      BY <1>6, <1>8, <2>1, SumOthers
    <2> QED
      BY <1>6, <1>7, <2>2, <2>3, <2>4
  <1>11. Buffered(k) = SumFunctionOnSet(f, Ledgers) /\ Buffered(k)' = SumFunctionOnSet(g, Ledgers)
    BY Zenon, <1>1, <1>2 DEF Buffered
  <1> QED
    BY <1>5, <1>7, <1>10, <1>11

LEMMA BalanceOf ==
  BooksBalance <=>
    \A k \in Counters :
      entry[k].used = compacted[k] + spilled[k] + floored[k] + UnderWay(k) + Buffered(k)
  BY Zenon DEF BooksBalance, Buffered

LEMMA BalanceOfNext ==
  BooksBalance' <=>
    \A k \in Counters :
      entry'[k].used = compacted'[k] + spilled'[k] + floored'[k] + UnderWay(k)' + Buffered(k)'
  BY Zenon DEF BooksBalance, Buffered

LEMMA UsageInitInv == UsageInit => UsageInv
  <1> SUFFICES ASSUME UsageInit PROVE UsageInv
    OBVIOUS
  <1>1. SwapInv
    BY SwapInit
  <1>2. \A l \in Ledgers : buffer[l] = <<>>
    BY DEF UsageInit
  <1>3. <<>> \in Seq(Events) /\ DOMAIN <<>> = {} /\ \A k : Total(<<>>, k) = 0
    BY TotalEmpty
  <1>4. BookShape
    BY <1>3 DEF UsageInit, BookShape, Nothing
  <1>5. NotAhead /\ EventsOrdered
    BY <1>2, <1>3 DEF NotAhead, EventsOrdered
  <1>6. ASSUME NEW k \in Counters
        PROVE  /\ entry[k].used = 0 /\ compacted[k] = 0 /\ spilled[k] = 0 /\ floored[k] = 0
               /\ UnderWay(k) = 0 /\ Buffered(k) = 0
    <2>1. entry[k].used = 0 /\ compacted[k] = 0 /\ spilled[k] = 0 /\ floored[k] = 0
      BY DEF UsageInit, Unwritten, Nothing
    <2>2. Waiting(k) = {}
      BY DEF UsageInit, Waiting
    <2>3. UnderWay(k) = 0
      BY <2>2, WaitingFacts, SumEmpty
    <2>4. PICK f : f = [l \in Ledgers |-> Total(buffer[l], k)]
      OBVIOUS
    <2>5. \A l \in Ledgers : f[l] = 0
      BY <1>2, <1>3, <2>4
    <2>6. Buffered(k) = SumFunctionOnSet(f, Ledgers)
      BY Zenon, <2>4 DEF Buffered
    <2>7. SumFunctionOnSet(f, Ledgers) = 0
      BY <2>5, UsageAssumption, SumZero
    <2> QED
      BY <2>1, <2>3, <2>6, <2>7
  <1>7. BooksBalance
    BY <1>6, BalanceOf
  <1> QED
    BY <1>1, <1>4, <1>5, <1>7 DEF UsageInv

(* Steps that touch neither the store nor the buffers.                     *)
LEMMA QuietBooks ==
  ASSUME UsageInv, SwapInv', UNCHANGED <<entry, buffer, books>>, now <= now',
         \A v \in Writers : stage'[v] = "stored" <=> stage[v] = "stored"
  PROVE  UsageInv'
  <1>1. BookShape'
    BY DEF UsageInv, BookShape, books
  <1>2. NotAhead'
    <2> SUFFICES ASSUME NEW l \in Ledgers, NEW i \in DOMAIN buffer[l] PROVE buffer[l][i].at <= now'
      BY DEF NotAhead
    <2>1. buffer[l][i].at <= now /\ buffer[l] \in Seq(Events)
      BY DEF UsageInv, NotAhead, BookShape
    <2>2. buffer[l][i].at \in Nat
      BY <2>1, EventFacts
    <2>3. now \in Nat /\ now' \in Nat
      BY DEF UsageInv, SwapInv, WriteShape
    <2> QED
      BY <2>1, <2>2, <2>3
  <1>3. EventsOrdered'
    BY DEF UsageInv, EventsOrdered
  <1>4. ASSUME NEW k \in Counters
        PROVE  UnderWay(k)' = UnderWay(k) /\ Buffered(k)' = Buffered(k)
    <2>1. Waiting(k)' = Waiting(k)
      BY DEF Waiting
    <2>2. UnderWay(k)' = SumFunctionOnSet(Delta, Waiting(k)') /\ UnderWay(k) = SumFunctionOnSet(Delta, Waiting(k))
      BY Zenon DEF UnderWay, Waiting
    <2>3. Buffered(k)' = Buffered(k)
      BY Zenon DEF Buffered
    <2> QED
      BY <2>1, <2>2, <2>3
  <1>5. BooksBalance'
    BY <1>4, BalanceOf, BalanceOfNext DEF UsageInv, books
  <1> QED
    BY <1>1, <1>2, <1>3, <1>5 DEF UsageInv

(* The write that is under way accounts for what the store has more.       *)
LEMMA WriteBooks ==
  ASSUME UsageInv, SwapInv', NEW w \in Writers, Write(w)
  PROVE  UsageInv'
  <1> DEFINE c == Counter[w]
  <1>0. c \in Counters /\ Delta[w] \in Int
    BY UsageAssumption DEF Counters
  <1>1. entry[c] \in Entries /\ stage[w] = "timed" /\ stage' = [stage EXCEPT ![w] = "stored"]
        /\ stage \in [Writers -> {"new", "read", "timed", "stored", "done", "refused"}]
    BY <1>0 DEF UsageInv, SwapInv, WriteShape, Write, Advance
  <1>2. PICK u \in Nat, x \in Int : u = entry[c].used /\ x = IF u + Delta[w] < 0 THEN 0 - (u + Delta[w]) ELSE 0
    BY <1>0, <1>1 DEF Entries
  <1>3. /\ entry' = [entry EXCEPT ![c] = [used |-> u + Delta[w] + x, version |-> @.version + 1, updatedAt |-> began[w]]]
        /\ floored' = [floored EXCEPT ![c] = @ + x]
        /\ UNCHANGED <<now, buffer, compacted, spilled>>
    BY <1>2 DEF Write
  <1>4. entry \in [Counters -> Entries] /\ floored \in [Counters -> Int]
        /\ compacted \in [Counters -> Int] /\ spilled \in [Counters -> Int]
    BY DEF UsageInv, SwapInv, WriteShape, BookShape
  <1>5. floored[c] \in Int /\ floored[c] + x \in Int
    BY <1>0, <1>2, <1>4
  <1>6. BookShape'
    BY <1>3, <1>4, <1>5 DEF UsageInv, BookShape
  <1>7. NotAhead' /\ EventsOrdered'
    BY <1>3 DEF UsageInv, NotAhead, EventsOrdered
  <1>8. ASSUME NEW k \in Counters
        PROVE  entry'[k].used = compacted'[k] + spilled'[k] + floored'[k] + UnderWay(k)' + Buffered(k)'
    <2>1. entry[k].used = compacted[k] + spilled[k] + floored[k] + UnderWay(k) + Buffered(k)
      BY BalanceOf DEF UsageInv
    <2>2. UnderWay(k)' = UnderWay(k) + (IF c = k THEN Delta[w] ELSE 0)
      BY <1>1, WaitingJoins
    <2>3. Buffered(k)' = Buffered(k)
      BY Zenon, <1>3 DEF Buffered
    <2>4. PICK a \in Int, b \in Int, f \in Int, g \in Int, h \in Int :
            a = compacted[k] /\ b = spilled[k] /\ f = floored[k] /\ g = UnderWay(k) /\ h = Buffered(k)
      BY <1>4, WaitingFacts, BufferedFacts DEF UsageInv
    <2>5. CASE k = c
      <3>1. entry'[k].used = u + Delta[w] + x /\ floored'[k] = f + x
        BY <1>0, <1>3, <1>4, <2>4, <2>5
      <3>2. u = a + b + f + g + h
        BY <1>2, <2>1, <2>4, <2>5
      <3>3. UnderWay(k)' = g + Delta[w]
        BY <2>2, <2>4, <2>5
      <3>4. u + Delta[w] + x = a + b + (f + x) + (g + Delta[w]) + h
        BY <1>0, <1>2, <2>4, <3>2
      <3>5. compacted'[k] = a /\ spilled'[k] = b /\ Buffered(k)' = h
        BY <1>3, <2>3, <2>4
      <3> QED
        BY <3>1, <3>3, <3>4, <3>5
    <2>6. CASE k # c
      <3>1. entry'[k] = entry[k] /\ floored'[k] = floored[k] /\ compacted'[k] = compacted[k] /\ spilled'[k] = spilled[k]
        BY <1>3, <1>4, <2>6
      <3>2. UnderWay(k)' = UnderWay(k)
        BY <2>2, <2>4, <2>6
      <3> QED
        BY <2>1, <2>3, <3>1, <3>2
    <2> QED
      BY <2>5, <2>6
  <1>9. BooksBalance'
    BY <1>8, BalanceOfNext
  <1> QED
    BY <1>6, <1>7, <1>9 DEF UsageInv

(* A ledger's buffer is replaced by one that is in order.                  *)
LEMMA BufferKeeps ==
  ASSUME UsageInv, NEW l \in Ledgers, NEW q, q \in Seq(Events), buffer' = [buffer EXCEPT ![l] = q],
         now' = now, InTimeOrder(q), \A i \in DOMAIN q : q[i].at <= now
  PROVE  buffer' \in [Ledgers -> Seq(Events)] /\ NotAhead' /\ EventsOrdered'
  <1>1. buffer \in [Ledgers -> Seq(Events)]
    BY DEF UsageInv, BookShape
  <1>2. buffer' \in [Ledgers -> Seq(Events)]
    BY <1>1
  <1>3. \A m \in Ledgers : buffer'[m] = IF m = l THEN q ELSE buffer[m]
    BY <1>1
  <1>4. NotAhead'
    BY <1>3 DEF UsageInv, NotAhead
  <1>5. EventsOrdered'
    BY <1>3 DEF UsageInv, EventsOrdered, InTimeOrder
  <1> QED
    BY <1>2, <1>4, <1>5

LEMMA SegmentOrdered ==
  ASSUME NEW s \in Seq(Events), InTimeOrder(s), NEW n \in 0..Len(s), NEW t, \A i \in DOMAIN s : s[i].at <= t
  PROVE  /\ InTimeOrder(SubSeq(s, n + 1, Len(s)))
         /\ \A i \in DOMAIN SubSeq(s, n + 1, Len(s)) : SubSeq(s, n + 1, Len(s))[i].at <= t
  <1>0. Len(s) \in Nat /\ n \in Nat /\ n <= Len(s) /\ DOMAIN s = 1..Len(s)
    BY EventFacts
  <1>1. PICK q : q = SubSeq(s, n + 1, Len(s))
    OBVIOUS
  <1>2. q \in Seq(Events) /\ Len(q) = Len(s) - n /\ \A i \in 1..(Len(s) - n) : q[i] = s[n + i]
    <2>1. \A i \in (n + 1)..Len(s) : s[i] \in Events
      BY <1>0, EventFacts
    <2> QED
      BY <1>0, <1>1, <2>1, SubSeqProperties
  <1>3. DOMAIN q = 1..(Len(s) - n)
    BY <1>2, EventFacts
  <1>4. \A i \in 1..(Len(s) - n) : n + i \in DOMAIN s
    BY <1>0
  <1>5. \A i \in DOMAIN q : q[i].at <= t
    BY <1>2, <1>3, <1>4
  <1>6. InTimeOrder(q)
    <2> SUFFICES ASSUME NEW i \in 1..(Len(s) - n), NEW j \in 1..(Len(s) - n), i < j PROVE q[i].at <= q[j].at
      BY <1>3 DEF InTimeOrder
    <2>1. n + i \in DOMAIN s /\ n + j \in DOMAIN s /\ n + i < n + j
      BY <1>0, <1>4
    <2>2. s[n + i].at <= s[n + j].at
      BY <2>1 DEF InTimeOrder
    <2> QED
      BY <1>2, <2>2
  <1> QED
    BY <1>1, <1>5, <1>6

(* An event goes from those under way into the buffer, and what falls out  *)
(* of the buffer is spilled.                                               *)
LEMMA RecordBooks ==
  ASSUME UsageInv, SwapInv', NEW w \in Writers, Record(w)
  PROVE  UsageInv'
  <1> DEFINE l == Through[w]
             c == Counter[w]
             e == [key |-> c, delta |-> Delta[w], at |-> now]
             old == buffer[l]
  <1>0. l \in Ledgers /\ c \in Counters /\ Delta[w] \in Int /\ MaxBuffer \in Nat
    BY UsageAssumption DEF Counters
  <1>1. now \in Nat /\ e \in Events /\ old \in Seq(Events)
    BY <1>0 DEF UsageInv, SwapInv, WriteShape, BookShape, Events
  <1>2. PICK all : all = Append(old, e)
    OBVIOUS
  <1>3. /\ all \in Seq(Events)
        /\ Len(all) = Len(old) + 1
        /\ all[Len(old) + 1] = e
        /\ \A i \in 1..Len(old) : all[i] = old[i]
        /\ \A k : Total(all, k) = Total(old, k) + (IF c = k THEN Delta[w] ELSE 0)
    <2> HIDE DEF e
    <2>1. e.key = c /\ e.delta = Delta[w]
      BY DEF e
    <2> QED
      BY <1>1, <1>2, <2>1, TotalAppend
  <1>4. PICK cut \in 0..Len(all) :
          cut = IF Method[w] = "adjust" /\ Len(all) > MaxBuffer THEN Len(all) - MaxBuffer ELSE 0
    <2>1. Len(all) \in Nat
      BY <1>3, EventFacts
    <2> QED
      BY <1>0, <2>1
  <1>5. PICK p : p = SubSeq(all, 1, cut)
    OBVIOUS
  <1>6. PICK q : q = SubSeq(all, cut + 1, Len(all))
    OBVIOUS
  <1>7. /\ buffer' = [buffer EXCEPT ![l] = q]
        /\ spilled' = [k \in Counters |-> spilled[k] + Total(p, k)]
        /\ Advance(w, "stored", "done")
        /\ UNCHANGED <<now, entry, seen, began, compacted, floored>>
    BY Zenon, <1>2, <1>4, <1>5, <1>6 DEF Record
  <1>8. p \in Seq(Events) /\ q \in Seq(Events) /\ \A k : Total(all, k) = Total(p, k) + Total(q, k)
    BY <1>3, <1>4, <1>5, <1>6, TotalSplit
  <1>9. InTimeOrder(q) /\ \A i \in DOMAIN q : q[i].at <= now
    <2>1. PICK n \in Nat : n = Len(old) /\ DOMAIN old = 1..n /\ DOMAIN all = 1..(n + 1)
      BY <1>1, <1>3, EventFacts
    <2>2. \A i \in 1..(n + 1) : i \in 1..n \/ i = n + 1
      OBVIOUS
    <2>3. (\A i \in 1..n : all[i] = old[i]) /\ all[n + 1].at = now
      BY <1>3, <2>1
    <2>4. \A i \in 1..n : old[i].at <= now
      BY <1>0, <2>1 DEF UsageInv, NotAhead
    <2>5. \A i \in DOMAIN all : all[i].at <= now
      BY <1>1, <2>1, <2>2, <2>3, <2>4
    <2>6. InTimeOrder(all)
      <3> SUFFICES ASSUME NEW i \in 1..(n + 1), NEW j \in 1..(n + 1), i < j PROVE all[i].at <= all[j].at
        BY <2>1 DEF InTimeOrder
      <3>1. i \in 1..n
        OBVIOUS
      <3>2. CASE j \in 1..n
        <4>1. old[i].at <= old[j].at
          BY <1>0, <2>1, <3>1, <3>2 DEF UsageInv, EventsOrdered
        <4> QED
          BY <2>3, <3>1, <3>2, <4>1
      <3>3. CASE j = n + 1
        BY <2>3, <2>4, <3>1, <3>3
      <3> QED
        BY <2>2, <3>2, <3>3
    <2> QED
      BY <1>3, <1>4, <1>6, <2>5, <2>6, SegmentOrdered
  <1>10. buffer' \in [Ledgers -> Seq(Events)] /\ NotAhead' /\ EventsOrdered'
    BY <1>0, <1>7, <1>8, <1>9, BufferKeeps
  <1>11. compacted \in [Counters -> Int] /\ spilled \in [Counters -> Int] /\ floored \in [Counters -> Int]
    BY DEF UsageInv, BookShape
  <1>12. \A k : Total(p, k) \in Int /\ Total(q, k) \in Int /\ Total(old, k) \in Int
    BY <1>1, <1>8, TotalType
  <1>13. BookShape'
    BY <1>7, <1>10, <1>11, <1>12 DEF BookShape
  <1>14. stage[w] = "stored" /\ stage' = [stage EXCEPT ![w] = "done"]
         /\ stage \in [Writers -> {"new", "read", "timed", "stored", "done", "refused"}]
    BY <1>7 DEF Advance, UsageInv, SwapInv, WriteShape
  <1>15. ASSUME NEW k \in Counters
         PROVE  entry'[k].used = compacted'[k] + spilled'[k] + floored'[k] + UnderWay(k)' + Buffered(k)'
    <2>1. PICK d \in Int : d = IF c = k THEN Delta[w] ELSE 0
      BY <1>0
    <2>2. PICK u \in Int : u = UnderWay(k)' /\ UnderWay(k) = u + d
      BY <1>14, <2>1, WaitingLeaves
    <2>3. PICK x \in Int, y \in Int, z \in Int : x = Total(p, k) /\ y = Total(q, k) /\ z = Total(old, k)
      BY <1>12
    <2>4. x + y = z + d
      BY <1>3, <1>8, <2>1, <2>3
    <2>5. PICK h \in Int : h = Buffered(k)
      BY BufferedFacts DEF UsageInv
    <2>6. Buffered(k)' = h + y - z
      BY <1>0, <1>7, <1>8, <2>3, <2>5, BufferedChanges DEF UsageInv
    <2>7. PICK a \in Int, b \in Int, f \in Int : a = compacted[k] /\ b = spilled[k] /\ f = floored[k]
      BY <1>11
    <2>8. entry[k].used = a + b + f + (u + d) + h
      BY <2>2, <2>5, <2>7, BalanceOf DEF UsageInv
    <2>9. compacted'[k] = a /\ spilled'[k] = b + x /\ floored'[k] = f /\ entry'[k] = entry[k]
      BY <1>7, <2>3, <2>7
    <2>10. a + b + f + (u + d) + h = a + (b + x) + f + u + (h + y - z)
      BY <2>4
    <2> QED
      BY <2>2, <2>6, <2>8, <2>9, <2>10
  <1>16. BooksBalance'
    BY <1>15, BalanceOfNext
  <1> QED
    BY <1>10, <1>13, <1>16 DEF UsageInv

(* What a compaction reports leaves the buffer.                            *)
LEMMA CompactBooks ==
  ASSUME UsageInv, SwapInv', NEW l \in Ledgers, NEW t \in 0..MaxLedgerTime, Compact(l, t)
  PROVE  UsageInv'
  <1>1. PICK old \in Seq(Events) : old = buffer[l]
    BY DEF UsageInv, BookShape
  <1>2. t \in Int /\ DOMAIN old = 1..Len(old) /\ Len(old) \in 0..Len(old)
    BY EventFacts, UsageAssumption
  <1>3. PICK q : q = Remaining(old, t)
    OBVIOUS
  <1>4. KeptOf(q, old, t, Len(old))
    BY <1>2, <1>3, RemainingFacts
  <1>5. /\ buffer' = [buffer EXCEPT ![l] = q]
        /\ compacted' = [k \in Counters |-> compacted[k] + SumFunctionOnSet(Added(old, k), Old(old, t, Len(old)))]
        /\ UNCHANGED <<now, entry, stage, seen, began, spilled, floored>>
    <2>1. Old(old, t, Len(old)) = {i \in DOMAIN old : old[i].at <= t}
      BY <1>2 DEF Old
    <2> QED
      BY Zenon, <1>1, <1>3, <2>1 DEF Compact
  <1>6. q \in Seq(Events) /\ DOMAIN q = 1..Len(q)
    BY <1>4, EventFacts DEF KeptOf
  <1>7. InTimeOrder(q)
    <2>1. InTimeOrder(old)
      BY <1>1 DEF UsageInv, EventsOrdered, InTimeOrder
    <2> QED
      BY <1>4, <2>1 DEF KeptOf
  <1>8. \A i \in DOMAIN q : q[i].at <= now
    <2>1. \A j \in 1..Len(old) : old[j].at <= now
      BY <1>1, <1>2 DEF UsageInv, NotAhead
    <2> QED
      BY <1>4, <1>6, <2>1 DEF KeptOf
  <1>9. buffer' \in [Ledgers -> Seq(Events)] /\ NotAhead' /\ EventsOrdered'
    BY <1>5, <1>6, <1>7, <1>8, BufferKeeps
  <1>10. compacted \in [Counters -> Int] /\ spilled \in [Counters -> Int] /\ floored \in [Counters -> Int]
    BY DEF UsageInv, BookShape
  <1>11. ASSUME NEW k
         PROVE  \E r \in Int : /\ r = SumFunctionOnSet(Added(old, k), Old(old, t, Len(old)))
                               /\ Total(q, k) + r = Total(old, k)
    <2>1. IsFiniteSet(Old(old, t, Len(old))) /\ \A i \in Old(old, t, Len(old)) : Added(old, k)[i] \in Int
      BY EventFacts, FS_Subset DEF Old
    <2>2. SumFunctionOnSet(Added(old, k), Old(old, t, Len(old))) \in Int
      BY <2>1, SumFacts
    <2>3. Total(q, k) + SumFunctionOnSet(Added(old, k), Old(old, t, Len(old))) = Total(old, k)
      BY <1>4, FirstOfFacts DEF KeptOf
    <2> QED
      BY <2>2, <2>3
  <1>12. BookShape'
    BY <1>5, <1>9, <1>10, <1>11 DEF BookShape
  <1>13. ASSUME NEW k \in Counters
         PROVE  entry'[k].used = compacted'[k] + spilled'[k] + floored'[k] + UnderWay(k)' + Buffered(k)'
    <2>1. PICK r \in Int : r = SumFunctionOnSet(Added(old, k), Old(old, t, Len(old))) /\ Total(q, k) + r = Total(old, k)
      BY <1>11
    <2>2. PICK y \in Int, z \in Int : y = Total(q, k) /\ z = Total(old, k)
      BY <1>6, TotalType
    <2>3. PICK h \in Int, u \in Int : h = Buffered(k) /\ u = UnderWay(k)
      BY BufferedFacts, WaitingFacts DEF UsageInv
    <2>4. Buffered(k)' = h + y - z
      BY <1>1, <1>5, <1>6, <2>2, <2>3, BufferedChanges DEF UsageInv
    <2>5. UnderWay(k)' = u
      BY Zenon, <1>5, <2>3 DEF UnderWay
    <2>6. PICK a \in Int, b \in Int, f \in Int : a = compacted[k] /\ b = spilled[k] /\ f = floored[k]
      BY <1>10
    <2>7. entry[k].used = a + b + f + u + h
      BY <2>3, <2>6, BalanceOf DEF UsageInv
    <2>8. compacted'[k] = a + r /\ spilled'[k] = b /\ floored'[k] = f /\ entry'[k] = entry[k]
      BY <1>5, <2>1, <2>6
    <2>9. a + b + f + u + h = (a + r) + b + f + u + (h + y - z)
      <3>1. y + r = z
        BY <2>1, <2>2
      <3> QED
        BY <3>1
    <2> QED
      BY <2>4, <2>5, <2>7, <2>8, <2>9
  <1>14. BooksBalance'
    BY <1>13, BalanceOfNext
  <1> QED
    BY <1>9, <1>12, <1>14 DEF UsageInv

LEMMA UsageStepInv == UsageInv /\ [UsageStep]_usageVars => UsageInv'
  <1> SUFFICES ASSUME UsageInv, [UsageStep]_usageVars PROVE UsageInv'
    OBVIOUS
  <1>0. SwapInv' /\ now \in Nat
    BY UsageStepKeeps DEF UsageInv, SwapInv, WriteShape
  <1>1. \A w \in Writers : \A from, to :
          Advance(w, from, to) /\ from # "stored" /\ to # "stored"
            => \A v \in Writers : stage'[v] = "stored" <=> stage[v] = "stored"
    BY DEF Advance, UsageInv, SwapInv, WriteShape
  <1>2. ASSUME NEW w \in Writers, Get(w) \/ GiveUpWrite(w) \/ ReadTime(w)
        PROVE  UsageInv'
    <2>1. \A v \in Writers : stage'[v] = "stored" <=> stage[v] = "stored"
      BY <1>1, <1>2 DEF Get, GiveUpWrite, ReadTime
    <2>2. UNCHANGED <<now, entry, buffer, books>>
      BY <1>2 DEF Get, GiveUpWrite, ReadTime
    <2> QED
      BY <1>0, <2>1, <2>2, QuietBooks
  <1>3. ASSUME NEW w \in Writers, StoreAdjust(w) PROVE UsageInv'
    BY <1>0, <1>3, WriteBooks DEF StoreAdjust
  <1>4. ASSUME NEW w \in Writers, Swap(w) PROVE UsageInv'
    <2>1. CASE Write(w)
      BY <1>0, <2>1, WriteBooks
    <2>2. CASE Advance(w, "timed", "read") /\ UNCHANGED <<now, entry, buffer, books>>
      <3>1. \A v \in Writers : stage'[v] = "stored" <=> stage[v] = "stored"
        BY <1>1, <2>2
      <3> QED
        BY <1>0, <2>2, <3>1, QuietBooks
    <2> QED
      BY <1>4, <2>1, <2>2 DEF Swap
  <1>5. ASSUME NEW w \in Writers, Record(w) PROVE UsageInv'
    BY <1>0, <1>5, RecordBooks
  <1>6. ASSUME NEW l \in Ledgers, NEW before \in 0..MaxLedgerTime, Compact(l, before) PROVE UsageInv'
    BY <1>0, <1>6, CompactBooks
  <1>7. CASE UsageTick \/ (Tick /\ UNCHANGED ledgerVars) \/ UNCHANGED usageVars
    <2>1. UNCHANGED <<entry, buffer, stage, books>> /\ now <= now'
      BY <1>0, <1>7 DEF UsageTick, Tick, ledgerVars, usageVars
    <2> QED
      BY <1>0, <2>1, QuietBooks
  <1> QED
    BY <1>2, <1>3, <1>4, <1>5, <1>6, <1>7 DEF UsageStep, UsageNext

LEMMA UsageTypes == UsageInv => UsageTypeOK
  <1> SUFFICES ASSUME UsageInv PROVE UsageTypeOK
    OBVIOUS
  <1>1. \A k \in Counters : entry[k].used \in Nat /\ entry[k].version \in Nat
    BY DEF UsageInv, SwapInv, WriteShape, Entries
  <1>2. stage \in [Writers -> {"new", "read", "timed", "stored", "done", "refused"}]
    BY DEF UsageInv, SwapInv, WriteShape
  <1>3. ASSUME NEW l \in Ledgers, NEW i \in DOMAIN buffer[l]
        PROVE  buffer[l][i].at \in 0..now
    <2>1. buffer[l] \in Seq(Events) /\ buffer[l][i].at <= now /\ now \in Nat
      BY DEF UsageInv, BookShape, NotAhead, SwapInv, WriteShape
    <2>2. buffer[l][i].at \in Nat
      BY <2>1, EventFacts
    <2> QED
      BY <2>1, <2>2
  <1> QED
    BY <1>1, <1>2, <1>3 DEF UsageTypeOK

(***************************************************************************)
(* The hotspots.                                                           *)
(***************************************************************************)

Short(parts, count, elapsed) == parts * Threshold * elapsed < count

(* What the loop of Split has reached after i rounds. *)
Sized(v, i, parts, count, elapsed) ==
  /\ v \in Nat /\ parts <= v
  /\ v >= i + 1 \/ v >= MaxPartitions \/ ~Short(v, count, elapsed)

LEMMA SplitFacts ==
  ASSUME NEW parts \in Nat, 1 <= parts, parts <= MaxPartitions, NEW count, NEW elapsed
  PROVE  /\ Split(parts, count, elapsed) \in parts..MaxPartitions
         /\ \/ Split(parts, count, elapsed) = MaxPartitions
            \/ ~Short(Split(parts, count, elapsed), count, elapsed)
  <1> DEFINE n == MaxPartitions
             Next(v) == IF Short(v, count, elapsed) /\ v < n THEN 2 * v ELSE v
             Loop(f) == f = [i \in 0..n |-> IF i = 0 THEN parts
                                             ELSE IF Short(f[i - 1], count, elapsed) /\ f[i - 1] < n
                                                  THEN 2 * f[i - 1]
                                             ELSE f[i - 1]]
             doubled == CHOOSE f : Loop(f)
             h == [i \in 1..n |-> [v \in Nat |-> Next(v)]]
  <1>1. n \in Nat /\ n >= 2
    BY HotspotAssumption
  <1>2. Split(parts, count, elapsed) = IF doubled[n] > n THEN n ELSE doubled[n]
    BY Zenon DEF Split, Short
  <1>3. h \in [1..n -> [Nat -> Nat]]
    <2>1. \A v \in Nat : Next(v) \in Nat
      OBVIOUS
    <2> HIDE DEF Next
    <2> QED
      BY <2>1
  <1>4. PICK f : f \in [0..n -> Nat] /\ f[0] = parts /\ \A i \in 1..n : f[i] = h[i][f[i - 1]]
    <2> HIDE DEF h, n
    <2>2. \E f : Rounds(f, n, parts, h, Nat)
      BY <1>1, <1>3, LoopExists
    <2> QED
      BY Zenon, <2>2 DEF Rounds
  <1>5. ASSUME NEW i \in 1..n
        PROVE  f[i] = Next(f[i - 1])
    <2>1. i - 1 \in 0..n
      BY <1>1
    <2>2. PICK v \in Nat : v = f[i - 1]
      BY <1>4, <2>1
    <2>3. h[i][v] = Next(v)
      BY Zenon
    <2> HIDE DEF h, Next
    <2> QED
      BY <1>4, <2>2, <2>3
  <1>6. Loop(f)
    <2>1. \A i \in 0..n : i # 0 => i \in 1..n
      BY <1>1
    <2>2. \A i \in 0..n : f[i] = IF i = 0 THEN parts ELSE Next(f[i - 1])
      <3> HIDE DEF Next
      <3> QED
        BY Zenon, <1>4, <1>5, <2>1
    <2> QED
      BY Zenon, <1>4, <2>2
  <1>7. Loop(doubled)
    BY Zenon, <1>6
  <1> HIDE DEF doubled, h
  <1>8. doubled[0] = parts /\ \A i \in 1..n : doubled[i] = Next(doubled[i - 1])
    <2>1. 0 \in 0..n /\ \A i \in 1..n : i \in 0..n /\ i # 0
      BY <1>1
    <2> QED
      BY Zenon, <1>7, <2>1
  <1> DEFINE T == {i \in 0..n : ~Sized(doubled[i], i, parts, count, elapsed)}
  <1>9. Sized(doubled[0], 0, parts, count, elapsed)
    BY <1>8 DEF Sized
  <1>10. ASSUME T # {} PROVE FALSE
    <2>1. PICK m \in T : \A j \in T : m <= j
      <3>1. T \subseteq Nat
        OBVIOUS
      <3> HIDE DEF T
      <3> QED
        BY <1>10, <3>1, LeastElement
    <2>2. m \in 0..n /\ m # 0 /\ ~Sized(doubled[m], m, parts, count, elapsed)
      BY <1>9
    <2>3. m \in 1..n /\ m - 1 \in 0..n /\ ~(m <= m - 1)
      BY <1>1, <2>2
    <2>4. PICK v : v = doubled[m - 1]
      OBVIOUS
    <2>5. Sized(v, m - 1, parts, count, elapsed)
      BY <2>1, <2>3, <2>4
    <2>6. doubled[m] = Next(v)
      BY <1>8, <2>3, <2>4
    <2>7. v \in Nat /\ (v >= m \/ v >= n \/ ~Short(v, count, elapsed)) /\ parts <= v
      BY <2>3, <2>5 DEF Sized
    <2>8. Sized(Next(v), m, parts, count, elapsed)
      <3>1. CASE Short(v, count, elapsed) /\ v < n
        BY <1>1, <2>3, <2>7, <3>1 DEF Sized
      <3>2. CASE ~(Short(v, count, elapsed) /\ v < n)
        BY <1>1, <2>3, <2>7, <3>2 DEF Sized
      <3> QED
        BY <3>1, <3>2
    <2> HIDE DEF Next
    <2> QED
      BY <2>2, <2>6, <2>8
  <1>11. n \in 0..n
    BY <1>1
  <1>12. Sized(doubled[n], n, parts, count, elapsed)
    BY <1>10, <1>11
  <1>13. PICK v : v = doubled[n]
    OBVIOUS
  <1>14. v \in Nat /\ parts <= v /\ (v >= n \/ ~Short(v, count, elapsed))
    BY <1>1, <1>12, <1>13 DEF Sized
  <1>15. CASE v > n
    BY <1>1, <1>2, <1>13, <1>14, <1>15
  <1>16. CASE ~(v > n)
    BY <1>1, <1>2, <1>13, <1>14, <1>16
  <1> QED
    BY <1>15, <1>16

(* A rate below a quarter of the threshold is below a quarter of one that  *)
(* was not below the threshold.                                            *)
LEMMA QuarterOf ==
  ASSUME NEW c \in Nat, NEW e \in Nat, NEW gc \in Nat, NEW ge \in Nat \ {0}, NEW t \in Nat,
         4 * c < t * e, gc >= t * ge, e > 0
  PROVE  4 * c * ge < gc * e
  <1>1. 4 * c * ge < t * e * ge
    OBVIOUS
  <1>2. t * ge * e <= gc * e
    OBVIOUS
  <1> QED
    BY <1>1, <1>2

(* The clock and the counts are what they should be, and a key that has    *)
(* more than one partition was split up for a rate above the threshold.    *)
HInv ==
  /\ now \in Nat /\ since \in Nat /\ since <= now
  /\ HotTypeOK
  /\ grownFor \in [HotKeys -> [count : Nat, elapsed : Nat \ {0}]]
  /\ \A k \in HotKeys :
       partitions[k] > 1 => Hot(grownFor[k].count, grownFor[k].elapsed)

LEMMA HotInitInv == HotInit => HInv
  <1> SUFFICES ASSUME HotInit PROVE HInv
    OBVIOUS
  <1>1. [count |-> 0, elapsed |-> 1] \in [count : Nat, elapsed : Nat \ {0}]
    OBVIOUS
  <1> QED
    BY <1>1, HotspotAssumption DEF HotInit, HInv, HotTypeOK

LEMMA ResizeFacts ==
  ASSUME NEW parts \in 1..MaxPartitions, NEW count \in Nat, NEW elapsed \in Nat \ {0}
  PROVE  LET r == Resize(parts, count, elapsed)
         IN /\ r \in 1..MaxPartitions
            /\ r = MaxPartitions \/ ~Short(r, count, elapsed)
            /\ r > parts => Hot(count, elapsed)
            /\ r < parts => Cold(count, elapsed) /\ parts > 1
  <1>0. /\ MaxPartitions \in Nat /\ parts \in Nat /\ 1 <= parts /\ parts <= MaxPartitions
        /\ Threshold \in Nat
    BY HotspotAssumption
  <1>1. CASE Hot(count, elapsed) /\ parts < MaxPartitions
    <2>1. Resize(parts, count, elapsed) = Split(parts, count, elapsed)
      BY <1>1 DEF Resize
    <2>2. PICK r : r = Split(parts, count, elapsed)
      OBVIOUS
    <2>3. r \in parts..MaxPartitions /\ (r = MaxPartitions \/ ~Short(r, count, elapsed))
      BY Zenon, <1>0, <2>2, SplitFacts
    <2> QED
      BY <1>0, <1>1, <2>1, <2>2, <2>3
  <1>2. CASE ~(Hot(count, elapsed) /\ parts < MaxPartitions)
    <2>1. PICK r : r = IF Cold(count, elapsed) /\ parts > 1 THEN parts \div 2 ELSE parts
      OBVIOUS
    <2>2. Resize(parts, count, elapsed) = r
      BY <1>2, <2>1 DEF Resize
    <2>3. r \in 1..MaxPartitions /\ r <= parts
      BY <1>0, <2>1
    <2>4. r < parts => Cold(count, elapsed) /\ parts > 1
      BY <1>0, <2>1
    <2>5. r # MaxPartitions => ~Short(r, count, elapsed)
      <3> SUFFICES ASSUME r # MaxPartitions PROVE ~Short(r, count, elapsed)
        OBVIOUS
      <3>1. PICK one \in Nat : one = Threshold * elapsed
        BY <1>0
      <3>2. count < one
        <4>1. CASE Hot(count, elapsed)
          <5>1. parts = MaxPartitions /\ Cold(count, elapsed)
            BY <1>0, <1>2, <2>1, <4>1
          <5>2. 4 * count < one
            BY <3>1, <5>1 DEF Cold
          <5> QED
            BY <5>2
        <4>2. CASE ~Hot(count, elapsed)
          BY <3>1, <4>2 DEF Hot
        <4> QED
          BY <4>1, <4>2
      <3>3. r * one >= one
        BY <2>3
      <3>4. r * Threshold * elapsed = r * one
        BY <1>0, <2>3, <3>1
      <3>5. r * one \in Nat
        BY <2>3
      <3> QED
        BY <3>2, <3>3, <3>4, <3>5 DEF Short
    <2> QED
      BY <1>0, <2>2, <2>3, <2>4, <2>5
  <1> QED
    BY <1>1, <1>2

LEMMA EvaluateKeeps ==
  ASSUME HInv, EvaluateRates
  PROVE  HInv' /\ EnoughAndSteady
  <1> DEFINE elapsed == now - since
             visited == {k \in HotKeys : counts[k] > 0}
             resized == [k \in visited |-> Resize(Partitions(k), counts[k], elapsed)]
  <1>0. MaxPartitions \in Nat /\ MaxPartitions >= 2 /\ Threshold \in Nat /\ MaxCount \in Nat
    BY HotspotAssumption
  <1>1. elapsed \in Nat \ {0}
    BY DEF HInv, EvaluateRates
  <1>2. ASSUME NEW k \in HotKeys
        PROVE  /\ counts[k] \in Nat /\ counts[k] \in 0..MaxCount
               /\ partitions[k] \in 0..MaxPartitions
               /\ Partitions(k) \in 1..MaxPartitions
               /\ grownFor[k] \in [count : Nat, elapsed : Nat \ {0}]
               /\ partitions[k] > 1 => Hot(grownFor[k].count, grownFor[k].elapsed)
    BY <1>0 DEF HInv, HotTypeOK, Partitions
  <1>3. /\ partitions' = [k \in HotKeys |-> IF k \in visited THEN resized[k] ELSE partitions[k]]
        /\ grownFor' = [k \in HotKeys |->
             IF k \in visited /\ resized[k] > Partitions(k)
             THEN [count |-> counts[k], elapsed |-> elapsed] ELSE grownFor[k]]
        /\ counts' = [k \in HotKeys |-> 0]
        /\ since' = now /\ now' = now
    BY DEF EvaluateRates
  <1>4. ASSUME NEW k \in visited
        PROVE  /\ resized[k] \in 1..MaxPartitions
               /\ resized[k] = MaxPartitions \/ ~Short(resized[k], counts[k], elapsed)
               /\ resized[k] > Partitions(k) => Hot(counts[k], elapsed)
               /\ resized[k] < Partitions(k) => Cold(counts[k], elapsed) /\ Partitions(k) > 1
    <2>1. PICK p \in 1..MaxPartitions, c \in Nat : p = Partitions(k) /\ c = counts[k]
      BY <1>2
    <2>2. PICK e \in Nat \ {0} : e = elapsed
      BY <1>1
    <2>3. PICK r : r = Resize(p, c, e)
      OBVIOUS
    <2>4. /\ r \in 1..MaxPartitions
          /\ r = MaxPartitions \/ ~Short(r, c, e)
          /\ r > p => Hot(c, e)
          /\ r < p => Cold(c, e) /\ p > 1
      BY <2>3, ResizeFacts
    <2>5. resized[k] = r
      BY Zenon, <2>1, <2>2, <2>3
    <2> QED
      BY Zenon, <2>1, <2>2, <2>4, <2>5
  <1>5. \A k \in HotKeys : partitions'[k] \in 0..MaxPartitions
    <2> HIDE DEF resized
    <2> QED
      BY <1>0, <1>2, <1>3, <1>4
  <1>6. \A k \in HotKeys : grownFor'[k] \in [count : Nat, elapsed : Nat \ {0}]
    <2> HIDE DEF elapsed, resized
    <2> QED
      BY <1>1, <1>2, <1>3
  <1>7. ASSUME NEW k \in HotKeys, partitions'[k] > 1
        PROVE  Hot(grownFor'[k].count, grownFor'[k].elapsed)
    <2> HIDE DEF elapsed, resized
    <2>1. CASE k \in visited
      <3>0. PICK r \in 1..MaxPartitions : r = resized[k]
        BY <1>4, <2>1
      <3>1. CASE r > Partitions(k)
        <4>1. grownFor'[k] = [count |-> counts[k], elapsed |-> elapsed]
          BY <1>3, <2>1, <3>0, <3>1
        <4>2. grownFor'[k].count = counts[k] /\ grownFor'[k].elapsed = elapsed
          BY <4>1
        <4> QED
          BY Zenon, <1>4, <2>1, <3>0, <3>1, <4>2
      <3>2. CASE ~(r > Partitions(k))
        <4>1. partitions'[k] = r /\ grownFor'[k] = grownFor[k]
          BY <1>3, <2>1, <3>0, <3>2
        <4>2. Partitions(k) > 1
          BY <1>0, <1>2, <1>7, <3>0, <3>2, <4>1
        <4>3. partitions[k] > 1
          BY <4>2 DEF Partitions
        <4> QED
          BY Zenon, <1>2, <4>1, <4>3
      <3> QED
        BY <3>1, <3>2
    <2>2. CASE k \notin visited
      <3>1. partitions'[k] = partitions[k] /\ grownFor'[k] = grownFor[k]
        BY <1>3, <2>2
      <3> QED
        BY Zenon, <1>2, <1>7, <3>1
    <2> QED
      BY <2>1, <2>2
  <1>8. HInv'
    <2>1. counts' \in [HotKeys -> 0..MaxCount] /\ partitions' \in [HotKeys -> 0..MaxPartitions]
      <3> HIDE DEF resized
      <3> QED
        BY <1>0, <1>3, <1>5
    <2>2. grownFor' \in [HotKeys -> [count : Nat, elapsed : Nat \ {0}]]
      <3> HIDE DEF resized
      <3> QED
        BY <1>3, <1>6
    <2>3. now' \in Nat /\ since' \in Nat /\ since' <= now'
      BY <1>3 DEF HInv
    <2>4. \A k \in HotKeys :
            partitions'[k] > 1 => Hot(grownFor'[k].count, grownFor'[k].elapsed)
      BY Zenon, <1>7
    <2>5. \A k \in HotKeys :
            (partitions[k] > 1 => Hot(grownFor[k].count, grownFor[k].elapsed))'
      BY Zenon, <2>4 DEF Hot
    <2> QED
      BY Zenon, <2>1, <2>2, <2>3, <2>5 DEF HInv, HotTypeOK
  <1>9. ASSUME NEW k \in HotKeys, counts[k] > 0
        PROVE  /\ Partitions(k)' = MaxPartitions \/ Partitions(k)' * Threshold * elapsed >= counts[k]
               /\ Partitions(k)' < Partitions(k) =>
                    4 * counts[k] * grownFor[k].elapsed < grownFor[k].count * elapsed
    <2> HIDE DEF resized
    <2>0. PICK r \in 1..MaxPartitions : r = resized[k]
      BY <1>4, <1>9
    <2>1. Partitions(k)' = r
      <3>1. partitions'[k] = r
        BY <1>3, <1>9, <2>0
      <3> QED
        BY <2>0, <3>1 DEF Partitions
    <2>2. PICK p \in 1..MaxPartitions, c \in Nat, e \in Nat \ {0} :
            p = Partitions(k) /\ c = counts[k] /\ e = elapsed
      BY <1>1, <1>2
    <2>3. /\ r = MaxPartitions \/ ~Short(r, c, e)
          /\ r < p => Cold(c, e) /\ p > 1
      <3> HIDE DEF elapsed
      <3> QED
        BY Zenon, <1>4, <1>9, <2>0, <2>2
    <2>4. ~Short(r, c, e) => r * Threshold * e >= c
      <3>1. PICK x \in Nat : x = r * Threshold * e
        BY <1>0
      <3> QED
        BY <3>1 DEF Short
    <2>5. ASSUME r < p
          PROVE  4 * c * grownFor[k].elapsed < grownFor[k].count * e
      <3>1. PICK gc \in Nat, ge \in Nat \ {0} : gc = grownFor[k].count /\ ge = grownFor[k].elapsed
        BY <1>2
      <3>2. p > 1 /\ 4 * c < Threshold * e
        BY <2>3, <2>5 DEF Cold
      <3>3. partitions[k] > 1
        BY <2>2, <3>2 DEF Partitions
      <3>4. Hot(gc, ge)
        BY Zenon, <1>2, <3>1, <3>3
      <3>5. gc >= Threshold * ge
        BY <3>4 DEF Hot
      <3>6. 4 * c * ge < gc * e
        BY <1>0, <3>2, <3>5, QuarterOf
      <3> QED
        BY Zenon, <3>1, <3>6
    <2> HIDE DEF elapsed
    <2> QED
      BY Zenon, <2>1, <2>2, <2>3, <2>4, <2>5
  <1>10. EnoughAndSteady
    BY Zenon, <1>9 DEF EnoughAndSteady
  <1> QED
    BY <1>8, <1>10

(* A part that does not run sees only the clock move. *)
HotStep == HotNext \/ (Tick /\ UNCHANGED splitVars)

LEMMA HotStepInv == HInv /\ [HotStep]_hotVars => HInv' /\ [EnoughAndSteady]_hotVars
  <1> SUFFICES ASSUME HInv, [HotStep]_hotVars PROVE HInv' /\ [EnoughAndSteady]_hotVars
    OBVIOUS
  <1>1. CASE EvaluateRates
    BY <1>1, EvaluateKeeps
  <1>2. ASSUME UNCHANGED <<since, partitions, grownFor>>, now' \in Nat, now <= now',
               counts' \in [HotKeys -> 0..MaxCount]
        PROVE  HInv' /\ EnoughAndSteady
    <2>1. HInv'
      BY <1>2 DEF HInv, HotTypeOK
    <2>2. EnoughAndSteady
      BY <1>2 DEF EnoughAndSteady
    <2> QED
      BY <2>1, <2>2
  <1>3. ASSUME NEW k \in HotKeys, NEW n \in Observations, Observe(k, n)
        PROVE  HInv' /\ EnoughAndSteady
    <2>1. n \in Int /\ MaxCount \in Nat
      BY HotspotAssumption
    <2>2. counts[k] \in 0..MaxCount
      BY DEF HInv, HotTypeOK
    <2>3. counts[k] + n \in 0..MaxCount
      BY <1>3, <2>1, <2>2 DEF Observe
    <2>4. counts' \in [HotKeys -> 0..MaxCount]
      BY <1>3, <2>3 DEF Observe, HInv, HotTypeOK
    <2> QED
      BY <1>2, <1>3, <2>4 DEF Observe, HInv
  <1>4. CASE HotTick \/ (Tick /\ UNCHANGED splitVars)
    <2>1. UNCHANGED <<since, partitions, grownFor, counts>> /\ now' = now + 1
      BY <1>4 DEF HotTick, Tick, splitVars
    <2> QED
      BY <1>2, <2>1 DEF HInv, HotTypeOK
  <1>5. CASE UNCHANGED hotVars
    <2>1. HInv'
      BY <1>5 DEF hotVars, HInv, HotTypeOK
    <2> QED
      BY <1>5, <2>1
  <1> QED
    BY <1>1, <1>3, <1>4, <1>5 DEF HotStep, HotNext

(***************************************************************************)
(* The plane: a part that does not run leaves the others alone, but for    *)
(* the clock.                                                              *)
(***************************************************************************)

LEMMA OneClock == PlaneNext => Tick \/ now' = now
  <1> SUFFICES ASSUME PlaneNext PROVE Tick \/ now' = now
    OBVIOUS
  <1>1. CASE RunRing
    BY <1>1 DEF RunRing
  <1>2. CASE RunUsage
    BY <1>2 DEF RunUsage, UsageNext, Get, GiveUpWrite, ReadTime, StoreAdjust, Swap, Write,
                Record, Compact, UsageTick
  <1>3. CASE RunTokens
    BY <1>3 DEF RunTokens, TokenNext, Grant, Consume, Reconcile, TokenTick
  <1>4. CASE RunHotspots
    BY <1>4 DEF RunHotspots, HotNext, Observe, EvaluateRates, HotTick
  <1>5. CASE RunGuard
    <2>1. LeaseNext => Tick \/ now' = now
      BY DEF LeaseNext, Acquire, RenewBegin, RenewEnd, Release, LeaseTick
    <2> QED
      BY <1>5, <2>1 DEF RunGuard, GuardNext, LocateKey, Decide, Acquire, Rebuild, LeaseOnly, leaseVars
  <1> QED
    BY <1>1, <1>2, <1>3, <1>4, <1>5 DEF PlaneNext

LEMMA PlaneStepsLease == [PlaneNext]_planeVars => [LeaseNext]_leaseVars
  <1> SUFFICES ASSUME [PlaneNext]_planeVars PROVE [LeaseNext]_leaseVars
    OBVIOUS
  <1>1. CASE RunGuard
    BY <1>1, GuardStepsLease DEF RunGuard
  <1>2. CASE PlaneNext /\ ~RunGuard
    <2>1. UNCHANGED leaseOnlyVars
      BY <1>2 DEF PlaneNext, RunRing, RunUsage, RunTokens, RunHotspots
    <2> QED
      BY <1>2, <2>1, OneClock DEF leaseOnlyVars, leaseVars, LeaseNext, LeaseTick
  <1>3. CASE UNCHANGED planeVars
    BY <1>3 DEF planeVars, leaseOnlyVars, leaseVars
  <1> QED
    BY <1>1, <1>2, <1>3

LEMMA PlaneStepsTokens == [PlaneNext]_planeVars => [TokenNext]_tokenVars
  <1> SUFFICES ASSUME [PlaneNext]_planeVars PROVE [TokenNext]_tokenVars
    OBVIOUS
  <1>1. CASE RunTokens
    BY <1>1 DEF RunTokens
  <1>2. CASE PlaneNext /\ ~RunTokens
    <2>1. UNCHANGED lentVars
      BY <1>2 DEF PlaneNext, RunGuard, RunRing, RunUsage, RunHotspots
    <2> QED
      BY <1>2, <2>1, OneClock DEF lentVars, tokenVars, TokenNext, TokenTick
  <1>3. CASE UNCHANGED planeVars
    BY <1>3 DEF planeVars, lentVars, tokenVars
  <1> QED
    BY <1>1, <1>2, <1>3

LEMMA PlaneStepsUsage == [PlaneNext]_planeVars => [UsageStep]_usageVars
  <1> SUFFICES ASSUME [PlaneNext]_planeVars PROVE [UsageStep]_usageVars
    OBVIOUS
  <1>1. CASE RunUsage
    BY <1>1 DEF RunUsage, UsageStep
  <1>2. CASE PlaneNext /\ ~RunUsage
    <2>1. UNCHANGED ledgerVars
      BY <1>2 DEF PlaneNext, RunGuard, RunRing, RunTokens, RunHotspots
    <2> QED
      BY <1>2, <2>1, OneClock DEF ledgerVars, usageVars, UsageStep
  <1>3. CASE UNCHANGED planeVars
    BY <1>3 DEF planeVars, ledgerVars, usageVars
  <1> QED
    BY <1>1, <1>2, <1>3

LEMMA PlaneStepsHot == [PlaneNext]_planeVars => [HotStep]_hotVars
  <1> SUFFICES ASSUME [PlaneNext]_planeVars PROVE [HotStep]_hotVars
    OBVIOUS
  <1>1. CASE RunHotspots
    BY <1>1 DEF RunHotspots, HotStep
  <1>2. CASE PlaneNext /\ ~RunHotspots
    <2>1. UNCHANGED splitVars
      BY <1>2 DEF PlaneNext, RunGuard, RunRing, RunTokens, RunUsage
    <2> QED
      BY <1>2, <2>1, OneClock DEF splitVars, hotVars, HotStep
  <1>3. CASE UNCHANGED planeVars
    BY <1>3 DEF planeVars, splitVars, hotVars
  <1> QED
    BY <1>1, <1>2, <1>3

LEMMA PlaneKeepsAnswers == GInv /\ [PlaneNext]_planeVars => GInv'
  <1> SUFFICES ASSUME GInv, [PlaneNext]_planeVars PROVE GInv'
    OBVIOUS
  <1>1. CASE RunGuard
    BY <1>1, GuardStepInv DEF RunGuard
  <1>2. CASE UNCHANGED askVars
    <2>1. LInv' /\ epoch \in Nat /\ epoch' \in Nat /\ epoch <= epoch' /\ handed \subseteq handed'
      BY PlaneStepsLease, LeaseStepInv, LeaseGrows DEF GInv
    <2> QED
      BY <1>2, <2>1 DEF askVars, GInv, ObservedHanded, AnswersFenced
  <1> QED
    BY <1>1, <1>2 DEF PlaneNext, RunRing, RunUsage, RunTokens, RunHotspots, planeVars

LEMMA PlaneKeepsLeases == PlaneSpec => LeaseSpec
  <1>1. PlaneInit => LeaseInit
    BY DEF PlaneInit, GuardInit
  <1> QED
    BY <1>1, PlaneStepsLease, PTL DEF PlaneSpec, LeaseSpec

(* lease/application/manager.go, all methods, by whoever they are called:  *)
(* a handle that Validate accepts is the newest that was handed out and    *)
(* belongs to one node only.                                               *)
THEOREM PlaneFenced == PlaneSpec => []FencedOut
  BY PlaneKeepsLeases, LeasesFence, PTL

(* Acquire, Renew and Release, and the passing of time: at most one node   *)
(* has been told of a lease that still runs.                               *)
THEOREM PlaneExclusive == PlaneSpec => []Exclusive
  BY PlaneKeepsLeases, LeasesExclude, PTL

(* The lease manager implements the fenced lock, for every number of nodes *)
(* and without the bounds of the run.                                      *)
THEOREM PlaneImplementsLock == PlaneSpec => ImplementsFencing
  BY PlaneKeepsLeases, LeasesImplementLock, PTL

(* runtime.go, the guard, and README.md:20: an answer that is given under  *)
(* a lease is never one that a caller who has seen the others must reject. *)
THEOREM PlaneAnswersFenced == PlaneSpec => []AnswersFenced
  <1>1. PlaneInit => GInv
    <2> SUFFICES ASSUME PlaneInit PROVE GInv
      OBVIOUS
    <2>1. LeaseInit /\ NothingAsked
      BY DEF PlaneInit, GuardInit
    <2>2. observed.epoch = 0 /\ epoch = 0 /\ ~answer.leased
      BY <2>1 DEF NothingAsked, NoAnswer, LeaseInit
    <2> QED
      BY <2>1, <2>2, LeaseInitInv DEF GInv, ObservedHanded, AnswersFenced
  <1>2. GInv => AnswersFenced
    BY DEF GInv
  <1> QED
    BY <1>1, <1>2, PlaneKeepsAnswers, PTL DEF PlaneSpec

(* distribution/application/coordinator.go, Grant and Consume: the callers *)
(* of an epoch do not consume more than was granted under it, for whatever *)
(* amounts and costs, negative ones too.                                   *)
THEOREM PlaneTokensCovered == PlaneSpec => []SpentWithinGrants
  <1>1. PlaneInit => TInv
    BY TokenInitInv DEF PlaneInit
  <1>2. TInv /\ [PlaneNext]_planeVars => TInv'
    BY PlaneStepsTokens, TokenStepInv
  <1>3. TInv => SpentWithinGrants
    BY DEF TInv
  <1> QED
    BY <1>1, <1>2, <1>3, PTL DEF PlaneSpec

(* counter/application/ledger.go, CompareAndAdjust: writers that swap the  *)
(* version they have read do not together exceed the limit that each of    *)
(* them has checked, for any writers, ledgers and deltas.                  *)
THEOREM PlaneSwapsBounded == PlaneSpec => []SwapsKeepCeiling
  <1>1. PlaneInit => SwapInv
    BY SwapInit DEF PlaneInit
  <1>2. SwapInv /\ [PlaneNext]_planeVars => SwapInv'
    BY PlaneStepsUsage, UsageStepKeeps
  <1>3. SwapInv => SwapsKeepCeiling
    BY DEF SwapInv
  <1> QED
    BY <1>1, <1>2, <1>3, PTL DEF PlaneSpec

LEMMA AlwaysUsageInv == PlaneSpec => []UsageInv
  <1>1. PlaneInit => UsageInv
    BY UsageInitInv DEF PlaneInit
  <1>2. UsageInv /\ [PlaneNext]_planeVars => UsageInv'
    BY PlaneStepsUsage, UsageStepInv
  <1> QED
    BY <1>1, <1>2, PTL DEF PlaneSpec

(* counter/application/ledger.go, Adjust, CompareAndAdjust and Compact,    *)
(* over the store's counters: every counter is what compactions have       *)
(* reported, what waits in the buffers and what is on its way into one,    *)
(* but for what a full buffer drops and for the floor at zero.             *)
THEOREM PlaneBooksBalance == PlaneSpec => []BooksBalance
  <1>1. UsageInv => BooksBalance
    BY DEF UsageInv
  <1> QED
    BY <1>1, AlwaysUsageInv, PTL

(* The same methods: the events of a buffer are in the order of their      *)
(* times, although the store's mutex is another than the buffer's, so that *)
(* FirstAt and LastAt are the first and the last.                          *)
THEOREM PlaneEventsOrdered == PlaneSpec => []EventsOrdered
  <1>1. UsageInv => EventsOrdered
    BY DEF UsageInv
  <1> QED
    BY <1>1, AlwaysUsageInv, PTL

LEMMA AlwaysHInv == PlaneSpec => []HInv
  <1>1. PlaneInit => HInv
    BY HotInitInv DEF PlaneInit
  <1>2. HInv /\ [PlaneNext]_planeVars => HInv'
    BY PlaneStepsHot, HotStepInv
  <1> QED
    BY <1>1, <1>2, PTL DEF PlaneSpec

(* shard/application/hotspot.go, Evaluate: whatever rates are observed, an *)
(* evaluation leaves a key with the partitions that its rate needs, and    *)
(* takes none back before the rate is below a quarter of the one they are  *)
(* there for.                                                              *)
THEOREM PlanePartitionsFollow == PlaneSpec => PartitionsFollow
  <1>1. HInv /\ [PlaneNext]_planeVars => [EnoughAndSteady]_hotVars
    BY PlaneStepsHot, HotStepInv
  <1> QED
    BY <1>1, AlwaysHInv, PTL DEF PlaneSpec, PartitionsFollow

(***************************************************************************)
(* Types.                                                                  *)
(***************************************************************************)

AskShape ==
  /\ ringEpoch \in Nat
  /\ asked \in [Nodes -> Nat \cup {None}]
  /\ answer \in Answers /\ observed \in Answers

LEMMA AskInit == PlaneInit => AskShape
  <1> SUFFICES ASSUME PlaneInit PROVE AskShape
    OBVIOUS
  <1>1. NothingAsked /\ ringEpoch \in Nat
    BY DEF PlaneInit, GuardInit, RingInit
  <1> QED
    BY <1>1 DEF NothingAsked, NoAnswer, Answers, AskShape

LEMMA GiveTypes ==
  ASSUME AskShape, NEW n \in Nodes, NEW e \in Nat, NEW leased \in BOOLEAN, Give(n, e, leased)
  PROVE  answer' \in Answers /\ observed' \in Answers
  BY DEF AskShape, Give, Answers

LEMMA AskStep == LInv /\ AskShape /\ [PlaneNext]_planeVars => AskShape'
  <1> SUFFICES ASSUME LInv, AskShape, [PlaneNext]_planeVars PROVE AskShape'
    OBVIOUS
  <1>0. epoch' \in Nat
    BY PlaneStepsLease, LeaseGrows
  <1>1. ASSUME NEW list, SetNodes(list) PROVE ringEpoch' \in Nat
    BY <1>1 DEF SetNodes, AskShape
  <1>2. CASE UNCHANGED askVars
    <2>1. ringEpoch' = ringEpoch \/ \E list : SetNodes(list)
      BY <1>2 DEF PlaneNext, RunGuard, RunRing, RunUsage, RunTokens, RunHotspots, planeVars,
                  RingNext, GuardNext, LocateKey, Decide, Rebuild, LeaseOnly, ringVars
    <2> QED
      BY <1>1, <1>2, <2>1 DEF AskShape, askVars
  <1>3. ASSUME NEW n \in Nodes, LocateKey(n) PROVE AskShape'
    <2>1. CASE Locatable
      BY <1>3, <2>1 DEF LocateKey, AskShape, Assignment, ringVars
    <2>2. CASE ~Locatable
      <3>1. Give(n, 0, FALSE) /\ UNCHANGED asked /\ UNCHANGED ringVars
        BY <1>3, <2>2 DEF LocateKey
      <3> QED
        BY <3>1, GiveTypes DEF AskShape, ringVars
    <2> QED
      BY <2>1, <2>2
  <1>4. ASSUME NEW n \in Nodes, Decide(n) PROVE AskShape'
    <2>1. asked' \in [Nodes -> Nat \cup {None}] /\ UNCHANGED ringVars
      BY <1>4 DEF Decide, AskShape
    <2>2. CASE Give(n, epoch', TRUE)
      BY <1>0, <2>1, <2>2, GiveTypes DEF AskShape, ringVars
    <2>3. CASE Give(n, asked[n], FALSE)
      <3>1. asked[n] \in Nat
        BY <1>4 DEF Decide, AskShape
      <3> QED
        BY <2>1, <2>3, <3>1, GiveTypes DEF AskShape, ringVars
    <2> QED
      BY <1>4, <2>2, <2>3 DEF Decide
  <1>5. CASE Rebuild
    BY <1>2, <1>5 DEF Rebuild, askVars
  <1>6. CASE LeaseOnly
    BY <1>2, <1>6 DEF LeaseOnly, askVars
  <1>7. CASE RunRing \/ RunUsage \/ RunTokens \/ RunHotspots \/ UNCHANGED planeVars
    <2>1. UNCHANGED askVars
      BY <1>7 DEF RunRing, RunUsage, RunTokens, RunHotspots, planeVars
    <2> QED
      BY <1>2, <2>1
  <1> QED
    BY <1>3, <1>4, <1>5, <1>6, <1>7 DEF PlaneNext, RunGuard, GuardNext

(* Only as many corrections are kept as may be.                            *)
CorrectionsShape == corrections \in Seq(Int) /\ Len(corrections) <= MaxCorrections

LEMMA LatestKept ==
  ASSUME NEW all \in Seq(Int), NEW n \in Nat, Len(all) <= n + 1,
         NEW cut, cut = IF Len(all) > n THEN Len(all) - n ELSE 0
  PROVE  SubSeq(all, cut + 1, Len(all)) \in Seq(Int) /\ Len(SubSeq(all, cut + 1, Len(all))) <= n
  <1>1. Len(all) \in Nat /\ cut \in 0..1 /\ cut + 1 \in 1..(Len(all) + 1) /\ Len(all) - cut <= n
    BY LenProperties
  <1>2. PICK m : m = Len(all)
    OBVIOUS
  <1>3. PICK a : a = cut + 1
    OBVIOUS
  <1>4. m \in Nat /\ a \in 1..(m + 1) /\ m - a + 1 <= n /\ m \in (a - 1)..Len(all)
    BY <1>1, <1>2, <1>3
  <1>5. /\ SubSeq(all, a, m) \in Seq(Int)
        /\ Len(SubSeq(all, a, m)) = IF a <= m THEN m - a + 1 ELSE 0
    BY <1>2, <1>4, SubSeqProperties
  <1>6. Len(SubSeq(all, a, m)) <= n
    BY <1>4, <1>5
  <1> QED
    BY <1>2, <1>3, <1>5, <1>6

LEMMA ReconcileKeeps ==
  ASSUME CorrectionsShape, NEW central \in {0, 1}, NEW reported \in {0, 1},
         Reconcile(central, reported)
  PROVE  CorrectionsShape'
  <1>1. PICK all : all = Append(corrections, reported - central)
    OBVIOUS
  <1>2. PICK d \in Int : d = reported - central
    OBVIOUS
  <1>3. all \in Seq(Int) /\ Len(all) <= MaxCorrections + 1
    <2>1. all = Append(corrections, d)
      BY <1>1, <1>2
    <2>2. all \in Seq(Int) /\ Len(all) = Len(corrections) + 1
      BY <2>1, AppendProperties DEF CorrectionsShape
    <2>3. Len(corrections) \in Nat /\ MaxCorrections \in Nat
      BY TokenAssumption, LenProperties DEF CorrectionsShape
    <2> QED
      BY <2>2, <2>3 DEF CorrectionsShape
  <1>4. PICK cut : cut = IF Len(all) > MaxCorrections THEN Len(all) - MaxCorrections ELSE 0
    OBVIOUS
  <1>5. corrections' = SubSeq(all, cut + 1, Len(all))
    BY Zenon, <1>1, <1>4 DEF Reconcile
  <1> QED
    BY <1>3, <1>4, <1>5, LatestKept, TokenAssumption DEF CorrectionsShape

LEMMA CorrectionsStep == CorrectionsShape /\ [TokenNext]_tokenVars => CorrectionsShape'
  <1> SUFFICES ASSUME CorrectionsShape, [TokenNext]_tokenVars PROVE CorrectionsShape'
    OBVIOUS
  <1>1. CASE \E central, reported \in {0, 1} : Reconcile(central, reported)
    BY <1>1, ReconcileKeeps
  <1>2. CASE UNCHANGED corrections
    BY <1>2 DEF CorrectionsShape
  <1> QED
    BY <1>1, <1>2 DEF TokenNext, Grant, Consume, TokenTick, tokenVars

LEMMA TokenTypes == TInv /\ CorrectionsShape => TokenTypeOK
  BY DEF TInv, RestCovered, CorrectionsShape, TokenTypeOK

(* The types of all parts, in whichever of them runs.                      *)
PlaneTypes == LInv /\ AskShape /\ UsageInv /\ TInv /\ CorrectionsShape /\ HInv

(* The guard, the leases, the ledgers, the lent tokens and the hot keys    *)
(* keep their types, also the parts that do not run.                       *)
THEOREM PlaneTypeCorrect == PlaneSpec => []PlaneTypeOK
  <1>1. PlaneInit => LInv /\ AskShape /\ TInv /\ CorrectionsShape
    <2> SUFFICES ASSUME PlaneInit PROVE LInv /\ AskShape /\ TInv /\ CorrectionsShape
      OBVIOUS
    <2>1. LeaseInit /\ TokenInit
      BY DEF PlaneInit, GuardInit
    <2>2. CorrectionsShape
      BY <2>1, TokenAssumption, EmptySeq DEF TokenInit, CorrectionsShape
    <2> QED
      BY <2>1, <2>2, LeaseInitInv, AskInit, TokenInitInv
  <1>2. LInv /\ AskShape /\ TInv /\ CorrectionsShape /\ [PlaneNext]_planeVars
        => (LInv /\ AskShape /\ TInv /\ CorrectionsShape)'
    <2> SUFFICES ASSUME LInv, AskShape, TInv, CorrectionsShape, [PlaneNext]_planeVars
                 PROVE  LInv' /\ AskShape' /\ TInv' /\ CorrectionsShape'
      OBVIOUS
    <2> QED
      BY PlaneStepsLease, LeaseStepInv, AskStep, PlaneStepsTokens, TokenStepInv, CorrectionsStep
  <1>3. PlaneTypes => PlaneTypeOK
    <2> SUFFICES ASSUME PlaneTypes PROVE PlaneTypeOK
      OBVIOUS
    <2>1. GuardTypeOK
      BY DEF PlaneTypes, LInv, AskShape, GuardTypeOK
    <2>2. UsageTypeOK /\ TokenTypeOK /\ HotTypeOK
      BY UsageTypes, TokenTypes DEF PlaneTypes, HInv
    <2> QED
      BY <2>1, <2>2 DEF PlaneTypeOK
  <1>4. LInv /\ AskShape /\ TInv /\ CorrectionsShape /\ UsageInv /\ HInv => PlaneTypes
    BY DEF PlaneTypes
  <1> QED
    BY <1>1, <1>2, <1>3, <1>4, AlwaysUsageInv, AlwaysHInv, PTL DEF PlaneSpec

(***************************************************************************)
(* The ring.                                                               *)
(***************************************************************************)

Points == [hash : Hashes, node : Members]

(* A sorted ring: no two points at one place.                              *)
Sorted(s) == \A i, j \in DOMAIN s : i < j => s[i].hash < s[j].hash

LEMMA HashFacts ==
  /\ HashSize \in Nat \ {0}
  /\ \A p \in Points : p.hash \in Nat /\ p.hash < HashSize /\ p.node \in Members
  /\ \A k \in Keys : KeyHash[k] \in Nat /\ KeyHash[k] < HashSize
  BY RingAssumption DEF Points, Hashes

LEMMA PointsFinite ==
  ASSUME NEW S \in SUBSET Points, \A p, q \in S : p.hash = q.hash => p = q
  PROVE  IsFiniteSet(S)
  <1> DEFINE f == [p \in S |-> p.hash]
  <1>1. f \in Injection(S, Hashes)
    BY DEF Points, Injection, IsInjective
  <1>2. IsFiniteSet(Hashes)
    <2>1. HashSize - 1 \in Int
      BY HashFacts
    <2> QED
      BY <2>1, FS_Interval DEF Hashes
  <1> QED
    BY <1>1, <1>2, FS_Injection

(* Counting the points before each puts them in order.                     *)
LEMMA InOrderFacts ==
  ASSUME NEW S \in SUBSET Points, \A p, q \in S : p.hash = q.hash => p = q
  PROVE  /\ InOrder(S) \in Seq(Points) /\ Sorted(InOrder(S))
         /\ {InOrder(S)[i] : i \in DOMAIN InOrder(S)} = S
  <1> DEFINE n == Cardinality(S)
             Below(p) == {q \in S : q.hash < p.hash}
             r(p) == Cardinality(Below(p))
  <1>1. IsFiniteSet(S) /\ n \in Nat
    BY PointsFinite, FS_CardinalityType
  <1>2. ASSUME NEW p \in S PROVE r(p) \in Nat /\ r(p) < n
    <2>1. Below(p) \subseteq S /\ Below(p) # S
      BY HashFacts
    <2>2. IsFiniteSet(Below(p)) /\ Cardinality(Below(p)) <= n /\ Cardinality(Below(p)) # n
      BY <1>1, <2>1, FS_Subset
    <2>3. Cardinality(Below(p)) \in Nat
      BY <2>2, FS_CardinalityType
    <2> HIDE DEF n
    <2> QED
      BY <1>1, <2>2, <2>3
  <1>3. ASSUME NEW p \in S, NEW q \in S, p.hash < q.hash PROVE r(p) < r(q)
    <2>1. Below(p) \subseteq Below(q) /\ Below(p) # Below(q)
      BY <1>3, HashFacts
    <2>2. IsFiniteSet(Below(q))
      BY <1>1, FS_Subset
    <2>3. Cardinality(Below(p)) <= Cardinality(Below(q)) /\ Cardinality(Below(p)) # Cardinality(Below(q))
      BY <2>1, <2>2, FS_Subset
    <2> HIDE DEF Below
    <2> QED
      BY <1>2, <2>3
  <1>4. ASSUME NEW p \in S, NEW q \in S, p # q PROVE r(p) # r(q)
    <2>1. p.hash < q.hash \/ q.hash < p.hash
      BY <1>4, HashFacts
    <2>2. r(p) < r(q) \/ r(q) < r(p)
      BY <1>3, <2>1
    <2> HIDE DEF r
    <2> QED
      BY <1>2, <2>2
  <1> HIDE DEF r, n
  <1>5. ASSUME NEW i \in 1..n PROVE \E p \in S : r(p) = i - 1
    <2> SUFFICES ASSUME \A p \in S : r(p) # i - 1 PROVE FALSE
      OBVIOUS
    <2> DEFINE T == (0..(n - 1)) \ {i - 1}
               g == [p \in S |-> r(p)]
    <2>1. IsFiniteSet(0..(n - 1)) /\ Cardinality(0..(n - 1)) = n
      <3>1. PICK b \in Int : b = n - 1
        BY <1>1
      <3>2. IsFiniteSet(0..b) /\ Cardinality(0..b) = IF 0 > b THEN 0 ELSE b - 0 + 1
        BY FS_Interval
      <3> QED
        BY <1>1, <3>1, <3>2
    <2>2. i - 1 \in 0..(n - 1)
      BY <1>1
    <2>3. IsFiniteSet(T) /\ Cardinality(T) = n - 1
      <3>1. PICK X, e : X = 0..(n - 1) /\ e = i - 1
        OBVIOUS
      <3>2. IsFiniteSet(X) /\ Cardinality(X) = n /\ e \in X
        BY Zenon, <2>1, <2>2, <3>1
      <3>3. /\ IsFiniteSet(X \ {e})
            /\ Cardinality(X \ {e}) = IF e \in X THEN Cardinality(X) - 1 ELSE Cardinality(X)
        BY Zenon, <3>2, FS_RemoveElement
      <3> QED
        BY Zenon, <3>1, <3>2, <3>3
    <2>4. g \in [S -> T]
      BY <1>1, <1>2
    <2>5. Cardinality(T) < Cardinality(S)
      BY <1>1, <2>3 DEF n
    <2>6. \E p, q \in S : p # q /\ g[p] = g[q]
      <3> HIDE DEF T, g
      <3> QED
        BY <1>1, <2>3, <2>4, <2>5, FS_PigeonHole
    <2> QED
      BY <1>4, <2>6
  <1> DEFINE s == InOrder(S)
             At(i) == CHOOSE p \in S : r(p) = i - 1
  <1>6. s = [i \in 1..n |-> At(i)]
    BY Zenon DEF InOrder, r, n
  <1>7. ASSUME NEW i \in 1..n PROVE s[i] \in S /\ r(s[i]) = i - 1
    <2>1. At(i) \in S /\ r(At(i)) = i - 1
      BY Zenon, <1>5
    <2> HIDE DEF At, s
    <2> QED
      BY <1>6, <2>1
  <1>8. DOMAIN s = 1..n
    BY <1>6
  <1> HIDE DEF s, At
  <1>9. s \in Seq(Points)
    <2>1. \A i \in 1..n : At(i) \in Points
      BY <1>6, <1>7
    <2> QED
      BY <1>1, <1>6, <2>1
  <1>10. Sorted(s)
    <2> SUFFICES ASSUME NEW i \in 1..n, NEW j \in 1..n, i < j PROVE s[i].hash < s[j].hash
      BY <1>8 DEF Sorted
    <2>1. r(s[i]) < r(s[j])
      BY <1>7
    <2>2. s[i] \in S /\ s[j] \in S
      BY <1>7
    <2>3. ~(s[j].hash < s[i].hash) /\ s[i] # s[j]
      <3>1. r(s[i]) \in Nat /\ r(s[j]) \in Nat
        BY <1>2, <2>2
      <3> QED
        BY <1>3, <2>1, <2>2, <3>1
    <2> QED
      BY <2>2, <2>3, HashFacts
  <1>11. {s[i] : i \in DOMAIN s} = S
    <2>1. ASSUME NEW p \in S PROVE \E i \in 1..n : s[i] = p
      <3>1. PICK i \in 1..n : i - 1 = r(p)
        <4>1. r(p) + 1 \in 1..n
          BY <1>1, <1>2
        <4> QED
          BY <1>2, <4>1
      <3> QED
        BY <1>4, <1>7, <3>1
    <2> QED
      BY <1>7, <1>8, <2>1
  <1> QED
    BY <1>9, <1>10, <1>11 DEF s

(* What SetNodes is called with, by whomever.                              *)
Listed(list) == \A m \in Members : list[m].weight \in Weights \cup {1}

LEMMA PointsOfFacts ==
  ASSUME NEW list, Listed(list)
  PROVE  PointsOf(list) \in Seq(Points) /\ Sorted(PointsOf(list))
  <1> DEFINE healthy == {m \in Members : list[m].healthy}
             S == UNION {{[hash |-> Position[m][i], node |-> m] : i \in VNodesOf(list[m].weight)} : m \in healthy}
  <1>1. ASSUME NEW m \in Members PROVE VNodesOf(list[m].weight) \subseteq DOMAIN Position[m]
    <2>1. PICK w \in Weights \cup {1} : w = list[m].weight
      BY DEF Listed
    <2> QED
      BY Zenon, <2>1, RingAssumption
  <1>2. \A p \in S : p \in Points /\ \E i \in DOMAIN Position[p.node] : p.hash = Position[p.node][i]
    BY <1>1, RingAssumption DEF Points
  <1>3. \A p, q \in S : p.hash = q.hash => p = q
    <2> SUFFICES ASSUME NEW p \in S, NEW q \in S, p.hash = q.hash PROVE p = q
      OBVIOUS
    <2>1. p \in Points /\ q \in Points
      BY <1>2
    <2>2. p.node = q.node
      BY <1>2, <2>1, RingAssumption DEF Points
    <2> QED
      BY <2>1, <2>2 DEF Points
  <1>4. PointsOf(list) = InOrder(S)
    BY Zenon DEF PointsOf
  <1>5. S \in SUBSET Points
    BY <1>2
  <1> HIDE DEF S
  <1> QED
    BY <1>3, <1>4, <1>5, InOrderFacts

LEMMA TurnOnce ==
  ASSUME NEW n \in Nat \ {0}, NEW a \in Nat, a < n + n
  PROVE  a % n = IF a < n THEN a ELSE a - n
  OBVIOUS

(* The search finds where the circle is entered.                           *)
Entered(s, k) ==
  /\ s \in DOMAIN points
  /\ \/ points[s].hash >= KeyHash[k] /\ \A i \in DOMAIN points : i < s => points[i].hash < KeyHash[k]
     \/ s = 1 /\ \A i \in DOMAIN points : points[i].hash < KeyHash[k]

LEMMA StartFacts ==
  ASSUME points \in Seq(Points), Sorted(points), points # <<>>, NEW k \in Keys
  PROVE  Entered(Start(k), k)
  <1> DEFINE I == {i \in 1..Len(points) : points[i].hash >= KeyHash[k]}
             found == IF I # {} THEN Min(I) ELSE 0
  <1>1. Start(k) = IF found = 0 THEN 1 ELSE found
    BY Zenon DEF Start, SelectInSeq
  <1>2. DOMAIN points = 1..Len(points) /\ Len(points) \in Nat /\ 1 \in DOMAIN points
    OBVIOUS
  <1>3. \A i \in DOMAIN points : points[i].hash \in Nat /\ KeyHash[k] \in Nat
    BY HashFacts
  <1>4. CASE I = {}
    <2>1. Start(k) = 1
      BY <1>1, <1>4
    <2> QED
      BY <1>2, <1>3, <1>4, <2>1 DEF Entered
  <1>5. CASE I # {}
    <2>1. PICK s \in I : \A i \in I : s <= i
      <3>1. I \subseteq Nat
        BY <1>2
      <3> HIDE DEF I
      <3> QED
        BY <1>5, <3>1, LeastElement
    <2>2. Min(I) \in I /\ \A i \in I : Min(I) <= i
      <3> HIDE DEF I
      <3> QED
        BY Zenon, <2>1 DEF Min
    <2>3. PICK m \in 1..Len(points) : m = Min(I)
      BY <2>2
    <2>4. points[m].hash >= KeyHash[k] /\ \A i \in I : m <= i
      BY <2>2, <2>3
    <2>5. Start(k) = m
      BY <1>1, <1>5, <2>3
    <2>6. \A i \in DOMAIN points : i < m => points[i].hash < KeyHash[k]
      BY <1>2, <1>3, <2>4
    <2> QED
      BY <1>2, <2>4, <2>5, <2>6 DEF Entered
  <1> QED
    BY <1>4, <1>5

(* How far a point lies from a key, clockwise.                             *)
Far(k, p) == (p.hash + HashSize - KeyHash[k]) % HashSize

LEMMA FarFacts ==
  ASSUME NEW k \in Keys, NEW p \in Points
  PROVE  /\ Far(k, p) \in Nat
         /\ Far(k, p) = IF p.hash >= KeyHash[k] THEN p.hash - KeyHash[k]
                        ELSE p.hash + HashSize - KeyHash[k]
  <1>1. PICK a \in Nat : a = p.hash + HashSize - KeyHash[k]
    BY HashFacts
  <1>2. a < HashSize + HashSize
    BY <1>1, HashFacts
  <1>3. a % HashSize = IF a < HashSize THEN a ELSE a - HashSize
    BY <1>2, TurnOnce, HashFacts
  <1>4. Far(k, p) = IF a < HashSize THEN a ELSE a - HashSize
    BY <1>1, <1>3 DEF Far
  <1> QED
    BY <1>1, <1>4, HashFacts

(* Which point an offset leads to.                                         *)
LEMMA OffsetFacts ==
  ASSUME points \in Seq(Points), Sorted(points), points # <<>>, NEW k \in Keys,
         NEW o \in 0..(Len(points) - 1)
  PROVE  /\ Start(k) + o <= Len(points) => Clockwise(k, o) = points[Start(k) + o]
         /\ Start(k) + o > Len(points)  => Clockwise(k, o) = points[Start(k) + o - Len(points)]
  <1>0. PICK n \in Nat \ {0} : n = Len(points)
    OBVIOUS
  <1>1. PICK s \in 1..n : n = Len(points) /\ s = Start(k)
    BY <1>0, StartFacts DEF Entered
  <1>2. PICK a \in Nat : a = s + o - 1
    BY <1>1
  <1>3. a < n + n
    BY <1>1, <1>2
  <1>4. a % n = IF a < n THEN a ELSE a - n
    BY <1>3, TurnOnce
  <1>5. Clockwise(k, o) = points[(a % n) + 1]
    BY <1>1, <1>2 DEF Clockwise
  <1>6. (a % n) + 1 = IF s + o <= n THEN s + o ELSE s + o - n
    <2>1. PICK r : r = a % n
      OBVIOUS
    <2>2. r = IF a < n THEN a ELSE a - n
      BY <1>4, <2>1
    <2>3. r + 1 = IF s + o <= n THEN s + o ELSE s + o - n
      BY <1>1, <1>2, <2>2
    <2> QED
      BY <2>1, <2>3
  <1>7. s + o <= n => Clockwise(k, o) = points[s + o]
    BY <1>5, <1>6
  <1>8. s + o > n => Clockwise(k, o) = points[s + o - n]
    <2>1. s + o > n => ~(s + o <= n)
      BY <1>1
    <2> QED
      BY <1>5, <1>6, <2>1
  <1> QED
    BY <1>1, <1>7, <1>8

LEMMA Farther ==
  ASSUME NEW t \in Nat, NEW a \in Nat, NEW b \in Nat, NEW H \in Nat, NEW x, NEW y,
         a < H, IF a >= t THEN b >= t => a < b ELSE b < t /\ a < b,
         x = IF a >= t THEN a - t ELSE a + H - t,
         y = IF b >= t THEN b - t ELSE b + H - t
  PROVE  x < y
  <1>1. CASE a >= t /\ b >= t
    BY <1>1
  <1>2. CASE a >= t /\ ~(b >= t)
    BY <1>2
  <1>3. CASE ~(a >= t)
    BY <1>3
  <1> QED
    BY <1>1, <1>2, <1>3

(* Every offset leads to a point, each point is led to, and the later it   *)
(* comes the farther it lies.                                              *)
LEMMA AroundFacts ==
  ASSUME points \in Seq(Points), Sorted(points), points # <<>>, NEW k \in Keys
  PROVE  /\ \A o \in 0..(Len(points) - 1) : Clockwise(k, o) \in Ranges
         /\ \A p \in Ranges : \E o \in 0..(Len(points) - 1) : Clockwise(k, o) = p
         /\ \A o, q \in 0..(Len(points) - 1) :
              o < q => Far(k, Clockwise(k, o)) < Far(k, Clockwise(k, q))
  <1>0. PICK n \in Nat \ {0} : n = Len(points)
    OBVIOUS
  <1>1. PICK s \in 1..n : n = Len(points) /\ s = Start(k)
    BY <1>0, StartFacts DEF Entered
  <1>2. DOMAIN points = 1..n
    BY <1>1
  <1>3. ASSUME NEW o \in 0..(n - 1)
        PROVE  /\ s + o <= n => Clockwise(k, o) = points[s + o]
               /\ s + o > n => Clockwise(k, o) = points[s + o - n]
    BY <1>1, OffsetFacts
  <1> DEFINE At(o) == IF s + o <= n THEN s + o ELSE s + o - n
  <1>4. ASSUME NEW o \in 0..(n - 1) PROVE At(o) \in 1..n /\ Clockwise(k, o) = points[At(o)]
    <2>1. At(o) \in 1..n
      BY <1>1
    <2>2. Clockwise(k, o) = points[At(o)]
      BY <1>1, <1>3
    <2> QED
      BY <2>1, <2>2
  <1>5. ASSUME NEW i \in 1..n PROVE \E o \in 0..(n - 1) : At(o) = i
    <2>1. CASE i >= s
      <3>1. i - s \in 0..(n - 1) /\ At(i - s) = i
        BY <1>1, <2>1
      <3> QED
        BY <3>1
    <2>2. CASE i < s
      <3>1. i - s + n \in 0..(n - 1) /\ At(i - s + n) = i
        BY <1>1, <2>2
      <3> QED
        BY <3>1
    <2> QED
      BY <1>1, <2>1, <2>2
  <1>6. ASSUME NEW o \in 0..(n - 1), NEW q \in 0..(n - 1), o < q
        PROVE  Far(k, Clockwise(k, o)) < Far(k, Clockwise(k, q))
    <2>1. PICK i \in 1..n, j \in 1..n : i = At(o) /\ j = At(q)
      BY <1>4
    <2>2. PICK a \in Points, b \in Points : a = points[i] /\ b = points[j]
      BY <1>2
    <2>3. Clockwise(k, o) = a /\ Clockwise(k, q) = b
      BY <1>4, <2>1, <2>2
    <2>4. PICK t \in Nat, ah \in Nat, bh \in Nat, H \in Nat :
            /\ t = KeyHash[k] /\ ah = a.hash /\ bh = b.hash /\ H = HashSize
            /\ t < H /\ ah < H /\ bh < H
      BY HashFacts
    <2>5. /\ Far(k, a) = IF ah >= t THEN ah - t ELSE ah + H - t
          /\ Far(k, b) = IF bh >= t THEN bh - t ELSE bh + H - t
      BY <2>4, FarFacts
    <2>6. (i < j => ah < bh) /\ (j < i => bh < ah)
      BY <1>2, <2>2, <2>4 DEF Sorted
    <2>7. Entered(s, k)
      BY <1>1, StartFacts
    <2>8. \/ /\ points[s].hash >= t
             /\ (i < s => ah < t) /\ (j < s => bh < t)
          \/ s = 1 /\ ah < t /\ bh < t
      BY <1>2, <2>2, <2>4, <2>7 DEF Entered
    <2>9. points[s].hash >= t => (i >= s => ah >= t) /\ (j >= s => bh >= t)
      <3>1. PICK c \in Points : c = points[s]
        BY <1>1, <1>2
      <3>2. i > s => c.hash < ah
        BY <1>1, <1>2, <2>2, <2>4, <3>1 DEF Sorted
      <3>3. j > s => c.hash < bh
        BY <1>1, <1>2, <2>2, <2>4, <3>1 DEF Sorted
      <3>4. (i = s => c = a) /\ (j = s => c = b)
        BY <2>2, <3>1
      <3>5. PICK ch \in Nat : ch = c.hash
        BY HashFacts
      <3>6. ch >= t => (i >= s => ah >= t)
        <4>1. i = s \/ i > s \/ ~(i >= s)
          BY <1>1
        <4>2. i = s => ch = ah
          BY <2>4, <3>4, <3>5
        <4>3. i > s => ch < ah
          BY <3>2, <3>5
        <4> QED
          BY <4>1, <4>2, <4>3
      <3>7. ch >= t => (j >= s => bh >= t)
        <4>1. j = s \/ j > s \/ ~(j >= s)
          BY <1>1
        <4>2. j = s => ch = bh
          BY <2>4, <3>4, <3>5
        <4>3. j > s => ch < bh
          BY <3>3, <3>5
        <4> QED
          BY <4>1, <4>2, <4>3
      <3> QED
        BY <3>1, <3>5, <3>6, <3>7
    <2>10. CASE s = 1 /\ ah < t /\ bh < t
      <3>1. i < j
        BY <1>1, <1>6, <2>1, <2>10
      <3> QED
        BY <2>3, <2>4, <2>5, <2>6, <2>10, <3>1
    <2>11. CASE points[s].hash >= t /\ (i < s => ah < t) /\ (j < s => bh < t)
      <3>1. (i >= s => ah >= t) /\ (j >= s => bh >= t)
        BY <2>9, <2>11
      <3>2. \/ i >= s /\ j >= s /\ i < j
            \/ i >= s /\ j < s
            \/ i < s /\ j < s /\ i < j
        BY <1>1, <1>6, <2>1
      <3>3. IF ah >= t THEN (i >= s /\ (bh >= t => ah < bh)) ELSE i < s /\ bh < t /\ ah < bh
        <4>1. i >= s \/ i < s
          BY <1>1
        <4>2. j >= s \/ j < s
          BY <1>1
        <4> QED
          BY <1>1, <2>4, <2>6, <2>11, <3>1, <3>2, <4>1, <4>2
      <3>4. Far(k, a) < Far(k, b)
        <4>1. PICK x, y : x = Far(k, a) /\ y = Far(k, b)
          OBVIOUS
        <4>2. /\ x = IF ah >= t THEN ah - t ELSE ah + H - t
              /\ y = IF bh >= t THEN bh - t ELSE bh + H - t
          BY Zenon, <2>5, <4>1
        <4>3. ah < H /\ IF ah >= t THEN bh >= t => ah < bh ELSE bh < t /\ ah < bh
          BY Zenon, <2>4, <3>3
        <4>4. x < y
          BY <4>2, <4>3, Farther
        <4> QED
          BY <4>1, <4>4
      <3> QED
        BY <2>3, <3>4
    <2> QED
      BY <2>8, <2>10, <2>11
  <1>7. \A o \in 0..(n - 1) : Clockwise(k, o) \in Ranges
    BY <1>2, <1>4 DEF Ranges
  <1>8. \A p \in Ranges : \E o \in 0..(n - 1) : Clockwise(k, o) = p
    <2> SUFFICES ASSUME NEW i \in 1..n PROVE \E o \in 0..(n - 1) : Clockwise(k, o) = points[i]
      BY <1>2 DEF Ranges
    <2> HIDE DEF At
    <2> QED
      BY <1>4, <1>5
  <1> QED
    BY <1>1, <1>6, <1>7, <1>8

(* The nodes met by o offsets of c have been taken down, each once, in the *)
(* order in which they came, as long as there was room.                    *)
NotedOnce(found) == \A i, j \in 1..Len(found) : i # j => found[i] # found[j]

NotedAll(found, c, o) == \A x \in 0..(o - 1) : \E i \in 1..Len(found) : found[i] = c[x]

MetAt(found, c, i, x) ==
  /\ c[x] = found[i]
  /\ \A y \in 0..(x - 1) : \E j \in 1..(i - 1) : found[j] = c[y]

NotedInTurn(found, c, o) ==
  \A i \in 1..Len(found) : \E x \in 0..(o - 1) : MetAt(found, c, i, x)

Noted(found, c, o) ==
  /\ found \in Seq(Members) /\ Len(found) <= Replicas
  /\ NotedOnce(found)
  /\ Len(found) < Replicas => NotedAll(found, c, o)
  /\ NotedInTurn(found, c, o)

LEMMA VisitNotes ==
  ASSUME NEW n \in Nat, NEW c \in [0..(n - 1) -> Members], NEW o \in 0..(n - 1),
         NEW found, Noted(found, c, o)
  PROVE  Noted(Visit(found, c[o]), c, o + 1)
  <1>1. /\ o \in Nat /\ o + 1 - 1 = o /\ o \in 0..o
        /\ \A x \in 0..o : x \in 0..(o - 1) \/ x = o
        /\ \A x \in 0..(o - 1) : x \in 0..o
    OBVIOUS
  <1>2. /\ found \in Seq(Members) /\ Len(found) <= Replicas /\ Replicas \in Nat
        /\ \A i, j \in 1..Len(found) : i # j => found[i] # found[j]
    BY RingAssumption DEF Noted, NotedOnce, NotedAll, NotedInTurn, MetAt
  <1>3. PICK m \in Members : m = c[o]
    OBVIOUS
  <1>4. PICK len \in Nat : len = Len(found)
    BY <1>2
  <1>5. \A i \in 1..len : \E x \in 0..(o - 1) :
       /\ c[x] = found[i]
       /\ \A y \in 0..(x - 1) : \E j \in 1..(i - 1) : found[j] = c[y]
    BY <1>4 DEF Noted, NotedOnce, NotedAll, NotedInTurn, MetAt
  <1>6. len < Replicas => \A x \in 0..(o - 1) : \E i \in 1..len : found[i] = c[x]
    BY <1>4 DEF Noted, NotedOnce, NotedAll, NotedInTurn, MetAt
  <1>7. CASE len < Replicas /\ ~Contains(found, m)
    <2>1. PICK more : more = Append(found, m)
      OBVIOUS
    <2>2. /\ more \in Seq(Members) /\ Len(more) = len + 1
          /\ \A i \in 1..len : more[i] = found[i]
          /\ more[len + 1] = m
      BY <1>2, <1>4, <2>1
    <2>3. \A i \in 1..len : found[i] # m
      BY <1>4, <1>7 DEF Contains
    <2>4. \A i \in 1..(len + 1) : i \in 1..len \/ i = len + 1
      OBVIOUS
    <2>5. \A i \in 1..len : i \in 1..(len + 1)
      OBVIOUS
    <2>6. Len(more) <= Replicas
      BY <1>2, <1>7, <2>2
    <2>7. \A i, j \in 1..(len + 1) : i # j => more[i] # more[j]
      BY <1>2, <1>4, <2>2, <2>3, <2>4
    <2>8. \A x \in 0..o : \E i \in 1..(len + 1) : more[i] = c[x]
      <3> SUFFICES ASSUME NEW x \in 0..o PROVE \E i \in 1..(len + 1) : more[i] = c[x]
        OBVIOUS
      <3>1. CASE x = o
        BY <1>3, <2>2, <3>1
      <3>2. CASE x \in 0..(o - 1)
        BY <1>6, <1>7, <2>2, <2>5, <3>2
      <3> QED
        BY <1>1, <3>1, <3>2
    <2>9. ASSUME NEW i \in 1..(len + 1)
          PROVE  \E x \in 0..o :
                   /\ c[x] = more[i]
                   /\ \A y \in 0..(x - 1) : \E j \in 1..(i - 1) : more[j] = c[y]
      <3>1. CASE i \in 1..len
        <4>1. PICK x \in 0..(o - 1) :
                /\ c[x] = found[i]
                /\ \A y \in 0..(x - 1) : \E j \in 1..(i - 1) : found[j] = c[y]
          BY <1>5, <3>1
        <4>2. \A j \in 1..(i - 1) : j \in 1..len
          BY <3>1
        <4>3. \A y \in 0..(x - 1) : \E j \in 1..(i - 1) : more[j] = c[y]
          BY <2>2, <4>1, <4>2
        <4> QED
          BY <1>1, <2>2, <3>1, <4>1, <4>3
      <3>2. CASE i = len + 1
        <4>1. i - 1 = len
          BY <3>2
        <4>2. \A y \in 0..(o - 1) : \E j \in 1..len : more[j] = c[y]
          BY <1>6, <1>7, <2>2
        <4>3. c[o] = more[i]
          BY <1>3, <2>2, <3>2
        <4> QED
          BY <1>1, <4>1, <4>2, <4>3
      <3> QED
        BY <2>4, <3>1, <3>2
    <2>10. Visit(found, c[o]) = more
      BY Zenon, <1>3, <1>4, <1>7, <2>1 DEF Visit
    <2>11. Noted(more, c, o + 1)
      <3>1. Len(more) = len + 1 /\ o + 1 - 1 = o
        BY <1>1, <2>2
      <3>2. NotedOnce(more)
        BY Zenon, <2>7, <3>1 DEF NotedOnce
      <3>3. NotedAll(more, c, o + 1)
        BY <2>8, <3>1 DEF NotedAll
      <3>4. NotedInTurn(more, c, o + 1)
        <4> SUFFICES ASSUME NEW i \in 1..Len(more)
                     PROVE  \E x \in 0..(o + 1 - 1) : MetAt(more, c, i, x)
          BY DEF NotedInTurn
        <4>1. i \in 1..(len + 1)
          BY <3>1
        <4>2. PICK x \in 0..o : MetAt(more, c, i, x)
          BY <2>9, <4>1 DEF MetAt
        <4>3. x \in 0..(o + 1 - 1)
          BY <3>1
        <4> QED
          BY Zenon, <4>2, <4>3
      <3>5. more \in Seq(Members)
        BY <2>2
      <3> QED
        BY Zenon, <2>6, <3>2, <3>3, <3>4, <3>5 DEF Noted
    <2> QED
      BY <2>10, <2>11
  <1>8. CASE ~(len < Replicas /\ ~Contains(found, m))
    <2>1. Visit(found, c[o]) = found
      BY Zenon, <1>3, <1>4, <1>8 DEF Visit
    <2>2. len < Replicas => \E i \in 1..len : found[i] = c[o]
      BY <1>3, <1>4, <1>8 DEF Contains
    <2>3. len < Replicas => \A x \in 0..o : \E i \in 1..len : found[i] = c[x]
      BY <1>1, <1>6, <2>2
    <2>4. \A i \in 1..len : \E x \in 0..o :
            /\ c[x] = found[i]
            /\ \A y \in 0..(x - 1) : \E j \in 1..(i - 1) : found[j] = c[y]
      BY <1>1, <1>5
    <2>5. Noted(found, c, o + 1)
      BY <1>1, <1>2, <1>4, <2>3, <2>4 DEF Noted, NotedOnce, NotedAll, NotedInTurn, MetAt
    <2> QED
      BY <2>1, <2>5
  <1> QED
    BY <1>7, <1>8

(* What Walk meets, offset by offset.                                      *)
Met(k) == [o \in 0..(Len(points) - 1) |-> Clockwise(k, o).node]

LEMMA MetTypes ==
  ASSUME points \in Seq(Points), Sorted(points), NEW k \in Keys
  PROVE  Met(k) \in [0..(Len(points) - 1) -> Members]
  <1>1. CASE points = <<>>
    <2>1. Len(points) = 0
      BY <1>1
    <2> QED
      BY <2>1 DEF Met
  <1>2. CASE points # <<>>
    <2>1. \A p \in Ranges : p.node \in Members
      BY HashFacts DEF Ranges
    <2>2. \A o \in 0..(Len(points) - 1) : Clockwise(k, o) \in Ranges
      BY <1>2, AroundFacts
    <2> QED
      BY <2>1, <2>2 DEF Met
  <1> QED
    BY <1>1, <1>2

LEMMA WalkNotes ==
  ASSUME points \in Seq(Points), Sorted(points), NEW k \in Keys
  PROVE  Noted(Walk(k), Met(k), Len(points))
  <1>1. PICK n \in Nat : n = Len(points)
    OBVIOUS
  <1>2. PICK c \in [0..(n - 1) -> Members] : c = Met(k)
    BY <1>1, MetTypes
  <1>3. \A o \in 0..(n - 1) : c[o] = Clockwise(k, o).node
    BY <1>1, <1>2 DEF Met
  <1> DEFINE V == Seq(Members)
             h == [m \in 1..n |-> [found \in V |-> Visit(found, c[m - 1])]]
             Loop(f) == f = [o \in 0..n |-> IF o = 0 THEN <<>> ELSE Visit(f[o - 1], Clockwise(k, o - 1).node)]
             walked == CHOOSE f : Loop(f)
  <1>4. Walk(k) = walked[n]
    BY Zenon, <1>1 DEF Walk
  <1>5. h \in [1..n -> [V -> V]]
    <2>1. ASSUME NEW m \in Members, NEW found \in V PROVE Visit(found, m) \in V
      BY DEF Visit
    <2>2. \A m \in 1..n : c[m - 1] \in Members
      <3>1. \A m \in 1..n : m - 1 \in 0..(n - 1)
        OBVIOUS
      <3> QED
        BY <3>1
    <2> HIDE DEF V
    <2> QED
      BY <2>1, <2>2
  <1>6. PICK f : f \in [0..n -> V] /\ f[0] = <<>> /\ \A m \in 1..n : f[m] = h[m][f[m - 1]]
    <2>1. <<>> \in V
      OBVIOUS
    <2> HIDE DEF h, V
    <2>2. \E f : Rounds(f, n, <<>>, h, V)
      BY <1>5, <2>1, LoopExists
    <2> QED
      BY Zenon, <2>2 DEF Rounds
  <1>7. ASSUME NEW m \in 1..n
        PROVE  f[m] = Visit(f[m - 1], c[m - 1])
    <2>1. m - 1 \in 0..n
      OBVIOUS
    <2>2. PICK found \in V : found = f[m - 1]
      BY <1>6, <2>1
    <2>3. h[m][found] = Visit(found, c[m - 1])
      BY Zenon
    <2> HIDE DEF h
    <2> QED
      BY <1>6, <2>2, <2>3
  <1>8. Loop(f)
    <2>1. \A m \in 0..n : m # 0 => m \in 1..n /\ m - 1 \in 0..(n - 1)
      OBVIOUS
    <2>2. \A m \in 0..n : f[m] = IF m = 0 THEN <<>> ELSE Visit(f[m - 1], Clockwise(k, m - 1).node)
      BY Zenon, <1>3, <1>6, <1>7, <2>1
    <2> QED
      BY Zenon, <1>6, <2>2
  <1>9. Loop(walked)
    BY Zenon, <1>8
  <1> HIDE DEF walked, h
  <1>10. walked[0] = <<>> /\ \A o \in 1..n : walked[o] = Visit(walked[o - 1], c[o - 1])
    <2>1. 0 \in 0..n /\ \A m \in 1..n : m \in 0..n /\ m # 0 /\ m - 1 \in 0..(n - 1)
      OBVIOUS
    <2> QED
      BY Zenon, <1>3, <1>9, <2>1
  <1> DEFINE Wrong == {o \in 0..n : ~Noted(walked[o], c, o)}
  <1>11. ASSUME Wrong # {} PROVE FALSE
    <2>1. PICK m \in Wrong : \A o \in Wrong : m <= o
      <3>1. Wrong \subseteq Nat
        OBVIOUS
      <3> HIDE DEF Wrong
      <3> QED
        BY <1>11, <3>1, LeastElement
    <2>2. m \in 0..n /\ ~Noted(walked[m], c, m)
      BY <2>1
    <2>3. CASE m = 0
      <3>1. PICK e : e = <<>>
        OBVIOUS
      <3>2. e \in Seq(Members) /\ Len(e) = 0 /\ 0 <= Replicas /\ 0..(0 - 1) = {} /\ 1..0 = {}
        BY <3>1, RingAssumption
      <3>3. Noted(e, c, 0)
        BY <3>2 DEF Noted, NotedOnce, NotedAll, NotedInTurn, MetAt
      <3> QED
        BY Zenon, <1>10, <2>2, <2>3, <3>1, <3>3
    <2>4. CASE m # 0
      <3>1. m \in 1..n /\ m - 1 \in 0..(n - 1) /\ m - 1 \in 0..n /\ ~(m <= m - 1) /\ (m - 1) + 1 = m
        BY <2>2, <2>4
      <3>2. Noted(walked[m - 1], c, m - 1)
        BY <2>1, <3>1
      <3>3. Noted(Visit(walked[m - 1], c[m - 1]), c, (m - 1) + 1)
        BY <3>1, <3>2, VisitNotes
      <3> QED
        BY Zenon, <1>10, <2>2, <3>1, <3>3
    <2> QED
      BY <2>3, <2>4
  <1>12. Noted(walked[n], c, n)
    <2>1. n \in 0..n
      OBVIOUS
    <2> QED
      BY <1>11, <2>1
  <1> QED
    BY Zenon, <1>1, <1>2, <1>4, <1>12

RingShape == points \in Seq(Points) /\ Sorted(points)

LEMMA PresentFinite ==
  ASSUME RingShape
  PROVE  /\ IsFiniteSet(Present) /\ Cardinality(Present) \in Nat
         /\ Present \subseteq Members /\ Ranges \subseteq Points
  <1>1. PICK n \in Nat : n = Len(points) /\ DOMAIN points = 1..n
    BY DEF RingShape
  <1>2. Ranges \subseteq Points
    BY DEF RingShape, Ranges
  <1>3. Present \subseteq Members
    BY <1>2, HashFacts DEF Present
  <1> DEFINE f == [i \in 1..n |-> points[i].node]
  <1>4. f \in Surjection(1..n, Present)
    BY <1>1 DEF Surjection, Present, Ranges
  <1>5. IsFiniteSet(1..n)
    BY FS_Interval
  <1>6. IsFiniteSet(Present)
    <2> HIDE DEF f
    <2> QED
      BY <1>4, <1>5, FS_Surjection
  <1> QED
    BY <1>2, <1>3, <1>6, FS_CardinalityType

(* A node lies as far as its nearest point.                                *)
LEMMA DistanceFacts ==
  ASSUME RingShape, NEW k \in Keys, NEW m \in Present
  PROVE  /\ \E p \in Ranges : p.node = m /\ Distance(k, m) = Far(k, p)
         /\ \A p \in Ranges : p.node = m => Distance(k, m) <= Far(k, p)
  <1> DEFINE D == {Far(k, p) : p \in {q \in Ranges : q.node = m}}
  <1>1. Distance(k, m) = Min(D)
    BY Zenon DEF Distance, Far
  <1>2. D \subseteq Nat
    BY PresentFinite, FarFacts
  <1>3. D # {}
    BY DEF Present
  <1>4. Min(D) \in D /\ \A d \in D : Min(D) <= d
    <2> HIDE DEF D
    <2>1. PICK d \in D : \A e \in D : d <= e
      BY <1>2, <1>3, LeastElement
    <2> QED
      BY Zenon, <2>1 DEF Min
  <1> QED
    BY Zenon, <1>1, <1>4

(* A walk meets every node on the ring and no other.                       *)
LEMMA MetAll ==
  ASSUME RingShape, NEW k \in Keys
  PROVE  {Met(k)[o] : o \in 0..(Len(points) - 1)} = Present
  <1>1. PICK n \in Nat : n = Len(points)
    BY DEF RingShape
  <1>2. \A o \in 0..(n - 1) : Met(k)[o] = Clockwise(k, o).node
    BY <1>1 DEF Met
  <1>3. CASE points = <<>>
    <2>1. n = 0 /\ DOMAIN points = {}
      BY <1>1, <1>3
    <2> QED
      BY <1>1, <2>1 DEF Present, Ranges
  <1>4. CASE points # <<>>
    <2>1. /\ \A o \in 0..(n - 1) : Clockwise(k, o) \in Ranges
          /\ \A p \in Ranges : \E o \in 0..(n - 1) : Clockwise(k, o) = p
      BY <1>1, <1>4, AroundFacts DEF RingShape
    <2> QED
      BY <1>1, <1>2, <2>1 DEF Present
  <1> QED
    BY <1>3, <1>4

(* Walk names as many nodes as there are, up to Replicas.                  *)
LEMMA WalkLength ==
  ASSUME RingShape, NEW k \in Keys
  PROVE  Len(Walk(k)) = Min({Replicas, Cardinality(Present)})
  <1>1. PICK n \in Nat : n = Len(points)
    BY DEF RingShape
  <1>2. PICK found : found = Walk(k)
    OBVIOUS
  <1>3. Noted(found, Met(k), n)
    BY <1>1, <1>2, WalkNotes DEF RingShape
  <1>4. {Met(k)[o] : o \in 0..(n - 1)} = Present
    BY <1>1, MetAll
  <1>5. PICK len \in Nat : len = Len(found)
    BY <1>3 DEF Noted, NotedOnce, NotedAll, NotedInTurn, MetAt
  <1>6. \A i \in 1..len : found[i] \in Present
    BY <1>3, <1>4, <1>5 DEF Noted, NotedOnce, NotedAll, NotedInTurn, MetAt
  <1>7. \A i, j \in 1..len : i # j => found[i] # found[j]
    BY <1>3, <1>5 DEF Noted, NotedOnce, NotedAll, NotedInTurn, MetAt
  <1>8. len < Replicas => \A m \in Present : \E i \in 1..len : found[i] = m
    BY <1>3, <1>4, <1>5 DEF Noted, NotedOnce, NotedAll, NotedInTurn, MetAt
  <1>9. len <= Replicas /\ Replicas \in Nat
    BY <1>3, <1>5, RingAssumption DEF Noted, NotedOnce, NotedAll, NotedInTurn, MetAt
  <1> DEFINE f == [i \in 1..len |-> found[i]]
  <1>10. f \in Injection(1..len, Present)
    BY <1>6, <1>7 DEF Injection, IsInjective
  <1>11. len < Replicas => f \in Surjection(1..len, Present)
    BY <1>6, <1>8 DEF Surjection
  <1> HIDE DEF f
  <1>12. IsFiniteSet(1..len) /\ Cardinality(1..len) = len
    BY FS_Interval
  <1>13. /\ Cardinality(1..len) <= Cardinality(Present)
         /\ Cardinality(1..len) = Cardinality(Present) <=> f \in Surjection(1..len, Present)
    BY <1>10, PresentFinite, FS_Injection
  <1>14. PICK c \in Nat : c = Cardinality(Present)
    BY PresentFinite
  <1>15. len <= c /\ (len < Replicas => len = c)
    BY <1>11, <1>12, <1>13, <1>14
  <1>16. len \in {Replicas, c} /\ \A y \in {Replicas, c} : len <= y
    BY <1>9, <1>15
  <1>17. ASSUME NEW x \in {Replicas, c}, \A y \in {Replicas, c} : x <= y PROVE x = len
    BY <1>9, <1>15, <1>17
  <1>18. Min({Replicas, c}) = len
    BY Zenon, <1>16, <1>17 DEF Min
  <1> QED
    BY Zenon, <1>2, <1>5, <1>14, <1>18

LEMMA WalkNearest ==
  ASSUME RingShape
  PROVE  NearestFirst
  <1> SUFFICES ASSUME NEW k \in Keys, NEW i \in DOMAIN Walk(k), NEW m \in Present,
                      Distance(k, m) < Distance(k, Walk(k)[i])
               PROVE  \E j \in 1..(i - 1) : Walk(k)[j] = m
    <2>1. \A k \in Keys : Len(Walk(k)) = Min({Replicas, Cardinality(Present)})
      BY WalkLength
    <2>2. ASSUME \A k \in Keys : \A i \in DOMAIN Walk(k) : \A m \in Present :
                   Distance(k, m) < Distance(k, Walk(k)[i]) => \E j \in 1..(i - 1) : Walk(k)[j] = m
          PROVE  NearestFirst
      BY Zenon, <2>1, <2>2 DEF NearestFirst
    <2> QED
      BY Zenon, <2>2
  <1>1. PICK n \in Nat : n = Len(points)
    BY DEF RingShape
  <1>2. PICK found : found = Walk(k)
    OBVIOUS
  <1>3. Noted(found, Met(k), n)
    BY <1>1, <1>2, WalkNotes DEF RingShape
  <1>4. i \in 1..Len(found)
    BY <1>2, <1>3 DEF Noted, NotedOnce, NotedAll, NotedInTurn, MetAt
  <1>5. PICK x \in 0..(n - 1) :
          /\ Met(k)[x] = found[i]
          /\ \A y \in 0..(x - 1) : \E j \in 1..(i - 1) : found[j] = Met(k)[y]
    BY <1>3, <1>4 DEF Noted, NotedOnce, NotedAll, NotedInTurn, MetAt
  <1>6. \A o \in 0..(n - 1) : Met(k)[o] = Clockwise(k, o).node
    BY <1>1 DEF Met
  <1>7. points # <<>>
    <2>1. n # 0
      BY <1>5
    <2> QED
      BY <1>1, <2>1
  <1>8. /\ \A o \in 0..(n - 1) : Clockwise(k, o) \in Ranges
        /\ \A p \in Ranges : \E o \in 0..(n - 1) : Clockwise(k, o) = p
        /\ \A o, q \in 0..(n - 1) : o < q => Far(k, Clockwise(k, o)) < Far(k, Clockwise(k, q))
    BY <1>1, <1>7, AroundFacts DEF RingShape
  <1>9. PICK y \in 0..(n - 1) : Clockwise(k, y).node = m /\ Distance(k, m) = Far(k, Clockwise(k, y))
    <2>1. PICK p \in Ranges : p.node = m /\ Distance(k, m) = Far(k, p)
      BY DistanceFacts
    <2> QED
      BY <1>8, <2>1
  <1>10. PICK a : a = found[i]
    OBVIOUS
  <1>11. a = Clockwise(k, x).node
    BY <1>5, <1>6, <1>10
  <1>12. a \in Present /\ Distance(k, a) <= Far(k, Clockwise(k, x))
    <2>1. Clockwise(k, x) \in Ranges
      BY <1>8
    <2>2. a \in Present
      BY <1>11, <2>1 DEF Present
    <2> QED
      BY <1>11, <2>1, <2>2, DistanceFacts
  <1>13. Far(k, Clockwise(k, y)) < Far(k, Clockwise(k, x))
    <2>1. \A p \in Ranges : Far(k, p) \in Nat
      BY PresentFinite, FarFacts
    <2>2. PICK d \in Nat, e \in Nat : d = Far(k, Clockwise(k, y)) /\ e = Far(k, Clockwise(k, x))
      BY <1>8, <2>1
    <2>3. PICK b \in Nat : b = Distance(k, a)
      <3>1. \E p \in Ranges : Distance(k, a) = Far(k, p)
        BY <1>12, DistanceFacts
      <3> QED
        BY <2>1, <3>1
    <2>4. d < b /\ b <= e
      BY <1>2, <1>9, <1>10, <1>12, <2>2, <2>3
    <2> QED
      BY <2>2, <2>4
  <1>14. y \in 0..(x - 1)
    <2>1. ~(x < y) /\ x # y
      <3>1. \A p \in Ranges : Far(k, p) \in Nat
        BY PresentFinite, FarFacts
      <3>2. PICK d \in Nat, e \in Nat : d = Far(k, Clockwise(k, y)) /\ e = Far(k, Clockwise(k, x))
        BY <1>8, <3>1
      <3>3. d < e
        BY <1>13, <3>2
      <3>4. x < y => e < d
        BY <1>8, <3>2
      <3>5. x = y => e = d
        BY <3>2
      <3> QED
        BY <3>3, <3>4, <3>5
    <2> QED
      BY <2>1
  <1>15. PICK j \in 1..(i - 1) : found[j] = Met(k)[y]
    BY <1>5, <1>14
  <1>16. found[j] = m
    BY <1>6, <1>9, <1>15
  <1> QED
    BY <1>2, <1>15, <1>16

(* The ring stays sorted whatever nodes it is rebuilt from.                *)
LEMMA RingShapeKept == RingShape /\ [PlaneNext]_planeVars => RingShape'
  <1> SUFFICES ASSUME RingShape, [PlaneNext]_planeVars PROVE RingShape'
    OBVIOUS
  <1>1. ASSUME NEW list, Listed(list), SetNodes(list) PROVE RingShape'
    <2>1. PointsOf(list) \in Seq(Points) /\ Sorted(PointsOf(list))
      BY <1>1, PointsOfFacts
    <2>2. PICK q : q = PointsOf(list)
      OBVIOUS
    <2>3. points' = q
      BY <1>1, <2>2 DEF SetNodes
    <2>4. q \in Seq(Points) /\ Sorted(q)
      BY <2>1, <2>2
    <2> QED
      BY Zenon, <2>3, <2>4 DEF RingShape, Sorted
  <1>2. CASE points' = points
    BY Zenon, <1>2 DEF RingShape, Sorted
  <1>3. CASE RingNext
    <2>1. PICK list \in NodeLists : SetNodes(list)
      BY <1>3 DEF RingNext
    <2>2. Listed(list)
      BY DEF NodeLists, Listed
    <2> QED
      BY <1>1, <2>1, <2>2
  <1>4. CASE Rebuild
    <2>1. PICK up \in SUBSET Nodes :
            SetNodes([m \in Members |-> [weight |-> 1, healthy |-> m \in up]])
      BY <1>4 DEF Rebuild
    <2>2. Listed([m \in Members |-> [weight |-> 1, healthy |-> m \in up]])
      BY DEF Listed
    <2> QED
      BY <1>1, <2>1, <2>2
  <1>5. ASSUME GuardNext PROVE RingShape'
    <2>1. Rebuild \/ points' = points
      BY <1>5 DEF GuardNext, LocateKey, Decide, LeaseOnly, ringVars
    <2> QED
      BY <1>2, <1>4, <2>1
  <1>6. CASE PlaneNext
    BY <1>2, <1>3, <1>5, <1>6 DEF PlaneNext, RunGuard, RunRing, RunUsage, RunTokens, RunHotspots, ringVars
  <1>7. CASE UNCHANGED planeVars
    BY <1>2, <1>7 DEF planeVars, ringVars
  <1> QED
    BY <1>6, <1>7

LEMMA RingShapeInit == PlaneInit => RingShape
  <1> SUFFICES ASSUME PlaneInit PROVE RingShape
    OBVIOUS
  <1>1. CASE RingInit
    <2>1. points = <<>>
      BY <1>1 DEF RingInit
    <2> QED
      BY <2>1 DEF RingShape, Sorted
  <1>2. CASE GuardInit
    <2> DEFINE list == [m \in Members |-> [weight |-> 1, healthy |-> TRUE]]
    <2>1. Listed(list)
      BY DEF Listed
    <2>2. points = PointsOf(list)
      BY <1>2 DEF GuardInit
    <2> QED
      BY Zenon, <2>1, <2>2, PointsOfFacts DEF RingShape
  <1> QED
    BY <1>1, <1>2 DEF PlaneInit

(* Locate names the nodes with the nearest virtual nodes, nearest first,   *)
(* and as many as there are up to Replicas, for every ring and key.        *)
THEOREM PlaneLocatesNearest == PlaneSpec => []LocateNearest
  <1>1. RingShape => LocateNearest
    BY WalkNearest DEF LocateNearest
  <1> QED
    BY <1>1, RingShapeInit, RingShapeKept, PTL DEF PlaneSpec

(* A walk s names, of the nodes P that lie as far as d says, the nearest,  *)
(* up to R of them.                                                        *)
Named(s, P, d, R) ==
  /\ s \in Seq(P) /\ Len(s) <= R
  /\ \A i, j \in 1..Len(s) : i # j => s[i] # s[j]
  /\ Len(s) < R => \A m \in P : \E i \in 1..Len(s) : s[i] = m
  /\ \A i \in 1..Len(s) : \A m \in P : d[m] < d[s[i]] => \E j \in 1..(i - 1) : s[j] = m
  /\ d \in [P -> Nat]
  /\ \A m, n \in P : m # n => d[m] # d[n]

(* The nodes ahead of one in a walk are those that are nearer.             *)
LEMMA NamedAhead ==
  ASSUME NEW s, NEW P, NEW d, NEW R \in Nat, Named(s, P, d, R), NEW i \in 1..Len(s)
  PROVE  {s[j] : j \in 1..(i - 1)} = {m \in P : d[m] < d[s[i]]}
  <1>1. Len(s) \in Nat /\ \A j \in 1..Len(s) : s[j] \in P
    BY DEF Named
  <1>2. \A j \in 1..(i - 1) : j \in 1..Len(s)
    BY <1>1
  <1>3. ASSUME NEW j \in 1..(i - 1) PROVE d[s[j]] < d[s[i]]
    <2>1. j \in 1..Len(s) /\ ~(i <= j - 1) /\ j # i
      BY <1>1
    <2>2. PICK a \in P, b \in P : a = s[j] /\ b = s[i]
      BY <1>1, <2>1
    <2>3. a # b
      BY <2>1, <2>2 DEF Named
    <2>4. ~(d[b] < d[a])
      <3> SUFFICES ASSUME d[b] < d[a] PROVE FALSE
        OBVIOUS
      <3>1. PICK x \in 1..(j - 1) : s[x] = b
        BY <2>1, <2>2 DEF Named
      <3>2. x \in 1..Len(s) /\ x # i
        BY <1>1, <2>1
      <3> QED
        BY <2>2, <3>1, <3>2 DEF Named
    <2>5. d[a] \in Nat /\ d[b] \in Nat /\ d[a] # d[b]
      BY <2>3 DEF Named
    <2> QED
      BY <2>2, <2>4, <2>5
  <1>4. \A m \in P : d[m] < d[s[i]] => \E j \in 1..(i - 1) : s[j] = m
    BY DEF Named
  <1> QED
    BY <1>1, <1>2, <1>3, <1>4

(* No node of Q, unless it is in G, is nearer than it is among P.          *)
NoNearer(P, d, Q, e, G) == \A m \in Q \ G : m \in P /\ d[m] <= e[m]

(* The first of a walk changes only when it is in L or the new one in G,   *)
(* and with an empty G the nodes that are not in L keep their order.       *)
Stays(s, t, L, G) ==
  /\ s # <<>> /\ t # <<>> /\ s[1] # t[1] => s[1] \in L \/ t[1] \in G
  /\ G = {} => \A i \in 1..Len(s) : s[i] \notin L =>
       \E j \in 1..Len(t) :
         /\ t[j] = s[i]
         /\ {t[x] : x \in 1..(j - 1)} \ L = {s[x] : x \in 1..(i - 1)} \ L

LEMMA NamedStay ==
  ASSUME NEW s, NEW P, NEW d, NEW t, NEW Q, NEW e, NEW R \in Nat,
         Named(s, P, d, R), Named(t, Q, e, R), NEW L, NEW G,
         NoNearer(P, d, Q, e, G), NoNearer(Q, e, P, d, L)
  PROVE  Stays(s, t, L, G)
  <1>0. /\ \A m \in Q \ G : m \in P /\ d[m] <= e[m]
        /\ \A m \in P \ L : m \in Q /\ e[m] <= d[m]
    BY DEF NoNearer
  <1>1. /\ Len(s) \in Nat /\ \A j \in 1..Len(s) : s[j] \in P
        /\ Len(t) \in Nat /\ \A j \in 1..Len(t) : t[j] \in Q
    BY DEF Named
  <1>2. d \in [P -> Nat] /\ e \in [Q -> Nat]
    BY DEF Named
  <1>3. ASSUME s # <<>>, t # <<>>, s[1] \notin L, t[1] \notin G PROVE s[1] = t[1]
    <2>1. 1 \in 1..Len(s) /\ 1 \in 1..Len(t)
      <3>1. Len(s) # 0 /\ Len(t) # 0
        BY <1>3 DEF Named
      <3> QED
        BY <1>1, <3>1
    <2>2. PICK a, b : a = s[1] /\ b = t[1]
      OBVIOUS
    <2>3. a \in P /\ a \in Q /\ b \in P /\ b \in Q /\ e[a] <= d[a] /\ d[b] <= e[b]
      BY <1>0, <1>1, <1>3, <2>1, <2>2
    <2>4. ~(d[b] < d[a])
      <3>1. {s[j] : j \in 1..(1 - 1)} = {m \in P : d[m] < d[a]}
        BY <2>1, <2>2, NamedAhead
      <3>2. 1..(1 - 1) = {}
        OBVIOUS
      <3> QED
        BY <2>3, <3>1, <3>2
    <2>5. ~(e[a] < e[b])
      <3>1. {t[j] : j \in 1..(1 - 1)} = {m \in Q : e[m] < e[b]}
        BY <2>1, <2>2, NamedAhead
      <3>2. 1..(1 - 1) = {}
        OBVIOUS
      <3> QED
        BY <2>3, <3>1, <3>2
    <2>6. d[a] \in Nat /\ d[b] \in Nat /\ e[a] \in Nat /\ e[b] \in Nat
      BY <1>2, <2>3
    <2>7. e[a] = e[b]
      BY <2>3, <2>4, <2>5, <2>6
    <2>8. a = b
      BY <2>3, <2>7 DEF Named
    <2> QED
      BY <2>2, <2>8
  <1>4. ASSUME G = {}, NEW i \in 1..Len(s), s[i] \notin L
        PROVE  \E j \in 1..Len(t) :
                /\ t[j] = s[i]
                /\ {t[x] : x \in 1..(j - 1)} \ L = {s[x] : x \in 1..(i - 1)} \ L
    <2>1. PICK a : a = s[i]
      OBVIOUS
    <2>2. \A m \in Q : m \in P /\ d[m] <= e[m]
      BY <1>0, <1>4
    <2>3. \A m \in P \ L : m \in Q /\ e[m] = d[m]
      <3> SUFFICES ASSUME NEW m \in P \ L PROVE m \in Q /\ e[m] = d[m]
        OBVIOUS
      <3>1. m \in Q /\ e[m] <= d[m] /\ d[m] <= e[m]
        BY <1>0, <2>2
      <3>2. e[m] \in Nat /\ d[m] \in Nat
        BY <1>2, <3>1
      <3> QED
        BY <3>1, <3>2
    <2>4. a \in P /\ a \notin L /\ a \in Q /\ e[a] = d[a]
      BY <1>1, <1>4, <2>1, <2>3
    <2>5. {s[x] : x \in 1..(i - 1)} = {m \in P : d[m] < d[a]}
      BY <2>1, NamedAhead
    <2>6. ASSUME \A j \in 1..Len(t) : t[j] # a PROVE FALSE
      <3>1. Len(t) = R
        <4>1. Len(t) <= R
          BY DEF Named
        <4>2. ~(Len(t) < R)
          BY Zenon, <2>4, <2>6 DEF Named
        <4> QED
          BY <1>1, <4>1, <4>2
      <3>2. ASSUME NEW j \in 1..Len(t) PROVE \E x \in 1..(i - 1) : s[x] = t[j]
        <4>1. PICK b \in Q : b = t[j]
          BY <1>1
        <4>2. ~(e[a] < e[b])
          <5> SUFFICES ASSUME e[a] < e[b] PROVE FALSE
            OBVIOUS
          <5>1. a \in {m \in Q : e[m] < e[b]}
            BY <2>4
          <5>2. {t[x] : x \in 1..(j - 1)} = {m \in Q : e[m] < e[b]}
            BY <4>1, NamedAhead
          <5>3. \A x \in 1..(j - 1) : x \in 1..Len(t)
            BY <1>1
          <5> QED
            BY <2>6, <5>1, <5>2, <5>3
        <4>3. a # b
          BY <2>6, <4>1
        <4>4. e[a] # e[b]
          BY <2>4, <4>3 DEF Named
        <4>5. b \in P /\ d[b] <= e[b]
          BY <2>2
        <4>6. d[a] \in Nat /\ d[b] \in Nat /\ e[a] \in Nat /\ e[b] \in Nat
          BY <1>2, <2>4, <4>5
        <4>7. d[b] < d[a]
          BY <2>4, <4>2, <4>4, <4>5, <4>6
        <4> QED
          BY <2>5, <4>1, <4>5, <4>7
      <3> DEFINE f == [j \in 1..Len(t) |-> CHOOSE x \in 1..(i - 1) : s[x] = t[j]]
      <3>3. \A j \in 1..Len(t) : f[j] \in 1..(i - 1) /\ s[f[j]] = t[j]
        BY <3>2
      <3>4. f \in [1..Len(t) -> 1..(i - 1)]
        BY <3>3
      <3>5. PICK p \in Int, r \in Nat : p = i - 1 /\ r = Len(t) /\ p < r /\ p \in Nat
        BY <1>1, <3>1 DEF Named
      <3>6. /\ IsFiniteSet(1..p) /\ Cardinality(1..p) = p
            /\ IsFiniteSet(1..r) /\ Cardinality(1..r) = r
        <4>1. IsFiniteSet(1..p) /\ Cardinality(1..p) = IF 1 > p THEN 0 ELSE p - 1 + 1
          BY FS_Interval
        <4>2. IsFiniteSet(1..r) /\ Cardinality(1..r) = IF 1 > r THEN 0 ELSE r - 1 + 1
          BY FS_Interval
        <4> QED
          BY <3>5, <4>1, <4>2
      <3>7. \E x, y \in 1..r : x # y /\ f[x] = f[y]
        <4>1. f \in [1..r -> 1..p]
          BY Zenon, <3>4, <3>5
        <4> HIDE DEF f
        <4>2. Cardinality(1..p) < Cardinality(1..r)
          BY <3>5, <3>6
        <4> QED
          BY <3>6, <4>1, <4>2, FS_PigeonHole
      <3> HIDE DEF f
      <3>8. PICK x \in 1..Len(t), y \in 1..Len(t) : x # y /\ f[x] = f[y]
        BY Zenon, <3>5, <3>7
      <3>9. t[x] = t[y]
        BY Zenon, <3>3, <3>8
      <3> QED
        BY Zenon, <3>8, <3>9 DEF Named
    <2>7. PICK j \in 1..Len(t) : t[j] = a
      BY <2>6
    <2>8. {t[x] : x \in 1..(j - 1)} = {m \in Q : e[m] < e[a]}
      BY <2>7, NamedAhead
    <2>9. {m \in Q : e[m] < e[a]} \ L = {m \in P : d[m] < d[a]} \ L
      BY <2>2, <2>3, <2>4
    <2> QED
      BY <2>1, <2>5, <2>7, <2>8, <2>9
  <1> QED
    BY <1>3, <1>4 DEF Stays

Away(k, h) == (h + HashSize - KeyHash[k]) % HashSize

(* Where a node's nearest point lies, by the places it has on the circle.  *)
Placed(k, m) ==
  /\ m \in Present <=> PointsHere(m) # {}
  /\ m \in Present =>
       /\ \E h \in PointsHere(m) : Distance(k, m) = Away(k, h)
       /\ \A h \in PointsHere(m) : Distance(k, m) <= Away(k, h)

RingNamed ==
  \A k \in Keys :
    /\ Named(Walk(k), Present, [m \in Present |-> Distance(k, m)], Replicas)
    /\ \A m \in Members : Placed(k, m)

LEMMA RingNames == RingShape => RingNamed
  <1> SUFFICES ASSUME RingShape, NEW k \in Keys
               PROVE  /\ Named(Walk(k), Present, [m \in Present |-> Distance(k, m)], Replicas)
                      /\ \A m \in Members : Placed(k, m)
    BY Zenon DEF RingNamed
  <1>1. ASSUME NEW m \in Members PROVE Placed(k, m)
    <2>1. m \in Present <=> PointsHere(m) # {}
      BY DEF Present, PointsHere
    <2>2. ASSUME m \in Present
          PROVE  /\ \E h \in PointsHere(m) : Distance(k, m) = Away(k, h)
                 /\ \A h \in PointsHere(m) : Distance(k, m) <= Away(k, h)
      <3>1. PICK p \in Ranges : p.node = m /\ Distance(k, m) = Far(k, p)
        BY <2>2, DistanceFacts
      <3>2. \A q \in Ranges : q.node = m => Distance(k, m) <= Far(k, q)
        BY <2>2, DistanceFacts
      <3>3. \A q \in Ranges : Far(k, q) = Away(k, q.hash)
        BY Zenon DEF Far, Away
      <3> QED
        BY Zenon, <3>1, <3>2, <3>3 DEF PointsHere
    <2> QED
      BY <2>1, <2>2 DEF Placed
  <1>2. PICK found : found = Walk(k)
    OBVIOUS
  <1>3. PICK n \in Nat : n = Len(points)
    BY DEF RingShape
  <1>4. Noted(found, Met(k), n)
    BY <1>2, <1>3, WalkNotes DEF RingShape
  <1> DEFINE d == [m \in Present |-> Distance(k, m)]
  <1>5. {Met(k)[o] : o \in 0..(n - 1)} = Present
    BY <1>3, MetAll
  <1>6. found \in Seq(Present) /\ Len(found) <= Replicas
    <2>1. found \in Seq(Members) /\ Len(found) <= Replicas
      BY <1>4 DEF Noted, NotedOnce, NotedAll, NotedInTurn, MetAt
    <2>2. \A i \in 1..Len(found) : found[i] \in Present
      BY <1>4, <1>5 DEF Noted, NotedOnce, NotedAll, NotedInTurn, MetAt
    <2> QED
      BY <2>1, <2>2
  <1>7. \A i, j \in 1..Len(found) : i # j => found[i] # found[j]
    BY <1>4 DEF Noted, NotedOnce, NotedAll, NotedInTurn, MetAt
  <1>8. Len(found) < Replicas => \A m \in Present : \E i \in 1..Len(found) : found[i] = m
    <2>1. Len(found) < Replicas => \A x \in 0..(n - 1) : \E i \in 1..Len(found) : found[i] = Met(k)[x]
      BY Zenon, <1>4 DEF Noted, NotedOnce, NotedAll, NotedInTurn, MetAt
    <2> QED
      BY Zenon, <1>5, <2>1
  <1>9. \A i \in 1..Len(found) : \A m \in Present :
          d[m] < d[found[i]] => \E j \in 1..(i - 1) : found[j] = m
    <2>1. NearestFirst
      BY WalkNearest
    <2>2. \A i \in DOMAIN found : \A m \in Present :
            Distance(k, m) < Distance(k, found[i]) => \E j \in 1..(i - 1) : found[j] = m
      BY Zenon, <1>2, <2>1 DEF NearestFirst
    <2>3. \A i \in 1..Len(found) : i \in DOMAIN found /\ found[i] \in Present
      BY <1>6
    <2> QED
      BY Zenon, <2>2, <2>3
  <1>10. d \in [Present -> Nat]
    <2>1. \A m \in Present : Distance(k, m) \in Nat
      BY DistanceFacts, PresentFinite, FarFacts
    <2> QED
      BY <2>1
  <1>11. ASSUME NEW a \in Present, NEW b \in Present, a # b PROVE d[a] # d[b]
    <2>1. PICK p \in Ranges : p.node = a /\ Distance(k, a) = Far(k, p)
      BY DistanceFacts
    <2>2. PICK q \in Ranges : q.node = b /\ Distance(k, b) = Far(k, q)
      BY DistanceFacts
    <2>3. p \in Points /\ q \in Points /\ p # q
      BY <1>11, <2>1, <2>2, PresentFinite
    <2>4. p.hash # q.hash
      <3>1. PICK i \in DOMAIN points, j \in DOMAIN points : p = points[i] /\ q = points[j]
        BY DEF Ranges
      <3>2. i < j \/ j < i
        BY <1>3, <2>3, <3>1 DEF RingShape
      <3>3. p.hash < q.hash \/ q.hash < p.hash
        BY <3>1, <3>2 DEF RingShape, Sorted
      <3> QED
        BY <2>3, <3>3, HashFacts
    <2>5. /\ Far(k, p) = IF p.hash >= KeyHash[k] THEN p.hash - KeyHash[k] ELSE p.hash + HashSize - KeyHash[k]
          /\ Far(k, q) = IF q.hash >= KeyHash[k] THEN q.hash - KeyHash[k] ELSE q.hash + HashSize - KeyHash[k]
      BY <2>3, FarFacts
    <2>6. PICK x, y : x = Far(k, p) /\ y = Far(k, q)
      OBVIOUS
    <2>7. x # y
      BY <2>3, <2>4, <2>5, <2>6, HashFacts
    <2> QED
      BY <2>1, <2>2, <2>6, <2>7
  <1> HIDE DEF d
  <1>12. Named(found, Present, d, Replicas)
    BY Zenon, <1>6, <1>7, <1>8, <1>9, <1>10, <1>11 DEF Named
  <1> QED
    BY Zenon, <1>1, <1>2, <1>12 DEF d

LEMMA PresentMembers == RingShape => Present \subseteq Members
  BY PresentFinite

LEMMA RingStays == RingShape /\ RingShape' => Stable
  <1> SUFFICES ASSUME RingShape, RingShape' PROVE Stable
    OBVIOUS
  <1>1. RingNamed
    BY RingNames
  <1>2. RingNamed'
    <2>1. RingShape' => RingNamed'
      BY RingNames, PTL
    <2> QED
      BY <2>1
  <1> SUFFICES ASSUME NEW k \in Keys
               PROVE  LET before == Walk(k)
                          after == Walk(k)'
                      IN before # <<>> /\ after # <<>> =>
         /\ Head(before) # Head(after) => Head(before) \in Lost \/ Head(after) \in Gained
         /\ Gained = {} => \A i \in DOMAIN before : before[i] \notin Lost =>
              \E j \in DOMAIN after :
                after[j] = before[i] /\ UnhurtBefore(after, j) = UnhurtBefore(before, i)
    BY Zenon DEF Stable
  <1>3. PICK s, t : s = Walk(k) /\ t = Walk(k)'
    OBVIOUS
  <1>4. PICK P, Q, L, G : P = Present /\ Q = Present' /\ L = Lost /\ G = Gained
    OBVIOUS
  <1>5. PICK d : d = [m \in P |-> Distance(k, m)]
    OBVIOUS
  <1>6. PICK e : e = [m \in Q |-> Distance(k, m)']
    OBVIOUS
  <1>7. Named(s, P, d, Replicas)
    BY Zenon, <1>1, <1>3, <1>4, <1>5 DEF RingNamed
  <1>8. Named(t, Q, e, Replicas)
    BY Zenon, <1>2, <1>3, <1>4, <1>6 DEF RingNamed
  <1>9. P \subseteq Members /\ Q \subseteq Members
    <2>1. RingShape' => (Present \subseteq Members)'
      BY PresentMembers, PTL
    <2> QED
      BY <1>4, <2>1, PresentMembers
  <1>10. ASSUME NEW m \in Members
         PROVE  /\ m \in P <=> PointsHere(m) # {}
                /\ m \in Q <=> PointsHere(m)' # {}
                /\ m \in P => /\ \E h \in PointsHere(m) : d[m] = Away(k, h)
                              /\ \A h \in PointsHere(m) : d[m] <= Away(k, h)
                /\ m \in Q => /\ \E h \in PointsHere(m)' : e[m] = Away(k, h)
                              /\ \A h \in PointsHere(m)' : e[m] <= Away(k, h)
    <2>1. Placed(k, m)
      BY Zenon, <1>1 DEF RingNamed
    <2>2. Placed(k, m)'
      BY Zenon, <1>2 DEF RingNamed
    <2>3. /\ m \in P => d[m] = Distance(k, m)
          /\ m \in Q => e[m] = Distance(k, m)'
      BY <1>5, <1>6
    <2>4. /\ m \in P <=> PointsHere(m) # {}
          /\ m \in P => /\ \E h \in PointsHere(m) : d[m] = Away(k, h)
                        /\ \A h \in PointsHere(m) : d[m] <= Away(k, h)
      BY Zenon, <1>4, <2>1, <2>3 DEF Placed
    <2>5. /\ m \in Q <=> PointsHere(m)' # {}
          /\ m \in Q => /\ \E h \in PointsHere(m)' : e[m] = Away(k, h)
                        /\ \A h \in PointsHere(m)' : e[m] <= Away(k, h)
      BY Zenon, <1>4, <2>2, <2>3 DEF Placed, Away
    <2> QED
      BY Zenon, <2>4, <2>5
  <1>11. \A m \in Q \ G : m \in P /\ d[m] <= e[m]
    <2> SUFFICES ASSUME NEW m \in Q \ G PROVE m \in P /\ d[m] <= e[m]
      OBVIOUS
    <2>1. m \in Members /\ PointsHere(m)' \subseteq PointsHere(m)
      BY Zenon, <1>4, <1>9 DEF Gained
    <2> QED
      BY <1>10, <2>1
  <1>12. \A m \in P \ L : m \in Q /\ e[m] <= d[m]
    <2> SUFFICES ASSUME NEW m \in P \ L PROVE m \in Q /\ e[m] <= d[m]
      OBVIOUS
    <2>1. m \in Members /\ PointsHere(m) \subseteq PointsHere(m)'
      BY Zenon, <1>4, <1>9 DEF Lost
    <2> QED
      BY <1>10, <2>1
  <1>13. Stays(s, t, L, G)
    <2>1. PICK R \in Nat : R = Replicas
      BY RingAssumption
    <2>2. Named(s, P, d, R) /\ Named(t, Q, e, R)
      BY Zenon, <1>7, <1>8, <2>1
    <2>3. NoNearer(P, d, Q, e, G) /\ NoNearer(Q, e, P, d, L)
      BY <1>11, <1>12 DEF NoNearer
    <2> QED
      BY <2>2, <2>3, NamedStay
  <1>14. /\ DOMAIN s = 1..Len(s) /\ DOMAIN t = 1..Len(t)
         /\ s # <<>> => Head(s) = s[1]
         /\ t # <<>> => Head(t) = t[1]
    BY <1>7, <1>8 DEF Named
  <1>15. /\ s # <<>> /\ t # <<>> /\ Head(s) # Head(t) => Head(s) \in L \/ Head(t) \in G
         /\ G = {} => \A i \in DOMAIN s : s[i] \notin L =>
              \E j \in DOMAIN t :
                /\ t[j] = s[i]
                /\ {t[x] : x \in 1..(j - 1)} \ L = {s[x] : x \in 1..(i - 1)} \ L
    BY Zenon, <1>13, <1>14 DEF Stays
  <1>16. /\ \A i : UnhurtBefore(s, i) = {s[x] : x \in 1..(i - 1)} \ L
         /\ \A j : UnhurtBefore(t, j) = {t[x] : x \in 1..(j - 1)} \ L
    BY Zenon, <1>4 DEF UnhurtBefore
  <1>17. s # <<>> /\ t # <<>> =>
         /\ Head(s) # Head(t) => Head(s) \in Lost \/ Head(t) \in Gained
         /\ Gained = {} => \A i \in DOMAIN s : s[i] \notin Lost =>
              \E j \in DOMAIN t : t[j] = s[i] /\ UnhurtBefore(t, j) = UnhurtBefore(s, i)
    BY Zenon, <1>4, <1>15, <1>16
  <1> QED
    BY Zenon, <1>3, <1>17

(* shard/application/ring.go, Locate after SetNodes: a key leaves its      *)
(* primary only when that loses virtual nodes or the new primary gains     *)
(* some, and the replicas that lose nothing move up in their order, for    *)
(* every ring, key and number of replicas.                                 *)
THEOREM PlaneKeysStay == PlaneSpec => KeysStay
  <1>1. RingShape /\ RingShape' => [part = "ring" => Stable]_ringVars
    BY RingStays
  <1> QED
    BY <1>1, RingShapeInit, RingShapeKept, PTL DEF PlaneSpec, KeysStay
=============================================================================
