---------------------------- MODULE LeaseManager ----------------------------
(***************************************************************************)
(* The leases of one shard (lease/application/manager.go), asked for by    *)
(* several nodes.  Each method holds the manager's mutex throughout, so    *)
(* each is one step, except that Renew reads the clock twice.  Different   *)
(* shards share nothing but that mutex.                                    *)
(*                                                                         *)
(* A node goes by what it was told: the owner and the epoch it presents    *)
(* are those of a lease that it was once handed, perhaps long ago.         *)
(***************************************************************************)
EXTENDS Clock

CONSTANTS
  Nodes,
  TTLs,      \* the lifetimes that are asked for
  MaxEpoch,  \* bound on the epoch
  None

Leases == [owner : Nodes, epoch : Nat, expiresAt : Nat]
Handles == [owner : Nodes, epoch : Nat]

ASSUME LeaseAssumption ==
  /\ TTLs \subseteq Nat \ {0}
  /\ MaxEpoch \in Nat
  /\ None \notin Nodes /\ None \notin TTLs /\ None \notin Leases

VARIABLES
  lease,     \* items[shard], or None
  epoch,     \* epochs[shard]
  renewing,  \* the ttl of the Renew between its two readings of the clock, or None
  told,      \* told[n]: the lease that n was told it has and has not released, or None
  handed     \* history: the handles of all leases that were handed out

leaseVars == <<now, lease, epoch, renewing, told, handed>>

LeaseInit ==
  /\ now = 0
  /\ lease = None
  /\ epoch = 0
  /\ renewing = None
  /\ told = [n \in Nodes |-> None]
  /\ handed = {}

(* m.mu is free. *)
Free == renewing = None

(* now.Before(ExpiresAt): Acquire leaves the lease to its owner. *)
Running == lease # None /\ now < lease.expiresAt

HeldByOther(n) == Running /\ lease.owner # n

(* Validate, and the test of Renew: a lease is good up to and including    *)
(* the instant at which it expires.                                        *)
Accepts(h) ==
  /\ lease # None /\ now <= lease.expiresAt
  /\ lease.owner = h.owner /\ lease.epoch = h.epoch

Hand(n, l) ==
  /\ lease' = l
  /\ told' = [told EXCEPT ![n] = l]
  /\ handed' = handed \cup {[owner |-> n, epoch |-> l.epoch]}

(* The epoch that Acquire gives n: a new one unless n's own lease runs. *)
EpochKeptWhenNew(n) == IF lease = None \/ (lease.owner = n /\ Running) THEN epoch ELSE epoch + 1  \* mutant
EpochFor(n) == IF Running /\ lease.owner = n THEN epoch ELSE epoch + 1

(* Acquire without the answer that another node holds the lease. *)
AcquireUnasked(n, ttl) ==  \* mutant: a running lease is not respected
  /\ Free /\ EpochFor(n) <= MaxEpoch
  /\ epoch' = EpochFor(n)
  /\ Hand(n, [owner |-> n, epoch |-> EpochFor(n), expiresAt |-> now + ttl])
  /\ UNCHANGED <<now, renewing>>
Acquire(n, ttl) ==
  /\ Free
  /\ ~HeldByOther(n)
  /\ EpochFor(n) <= MaxEpoch
  /\ epoch' = EpochFor(n)
  /\ Hand(n, [owner |-> n, epoch |-> EpochFor(n), expiresAt |-> now + ttl])
  /\ UNCHANGED <<now, renewing>>

(* Renew: the lease is looked at ... *)
RenewBegin(h, ttl) ==
  /\ Free
  /\ Accepts(h)
  /\ renewing' = ttl
  /\ UNCHANGED <<now, lease, epoch, told, handed>>

(* ... and extended from the time that is read then. *)
RenewEnd ==
  /\ ~Free
  /\ Hand(lease.owner, [owner |-> lease.owner, epoch |-> lease.epoch, expiresAt |-> now + renewing])
  /\ renewing' = None
  /\ UNCHANGED <<now, epoch>>

ReleaseForgets(h) ==  \* mutant: the epoch goes with the lease
  /\ Free /\ lease # None /\ lease.owner = h.owner /\ lease.epoch = h.epoch
  /\ lease' = None /\ epoch' = 0
  /\ told' = [told EXCEPT ![h.owner] = None]
  /\ UNCHANGED <<now, renewing, handed>>
Release(h) ==
  /\ Free
  /\ lease # None /\ lease.owner = h.owner /\ lease.epoch = h.epoch
  /\ lease' = None
  /\ told' = [told EXCEPT ![h.owner] = None]
  /\ UNCHANGED <<now, epoch, renewing, handed>>

LeaseTick == Tick /\ UNCHANGED <<lease, epoch, renewing, told, handed>>

LeaseNext ==
  \/ \E n \in Nodes, ttl \in TTLs : Acquire(n, ttl)
  \/ \E h \in handed, ttl \in TTLs : RenewBegin(h, ttl)
  \/ RenewEnd
  \/ \E h \in handed : Release(h)
  \/ LeaseTick

LeaseSpec == LeaseInit /\ [][LeaseNext]_leaseVars

LeaseTypeOK ==
  /\ now \in Nat
  /\ lease \in Leases \cup {None}
  /\ epoch \in Nat
  /\ renewing \in TTLs \cup {None}
  /\ told \in [Nodes -> Leases \cup {None}]
  /\ handed \subseteq Handles

(* README.md:20 and 109: the epoch fences.  A handle that Validate accepts *)
(* is the newest of all that were ever handed out, and no other node was   *)
(* handed one of the same epoch, however leases lapse, are renewed at the  *)
(* last instant, are released and taken again.                             *)
FencedOut ==
  \A h \in handed : Accepts(h) =>
    \A g \in handed : g.epoch <= h.epoch /\ (g.epoch = h.epoch => g.owner = h.owner)

(* A node that goes by the expiry it was told knows that it is alone: no   *)
(* two nodes have been told of leases that both still run.                 *)
Believes(n) == told[n] # None /\ now < told[n].expiresAt
Exclusive == \A m, n \in Nodes : Believes(m) /\ Believes(n) => m = n

(* The leases implement the fenced lock. *)
Lock == INSTANCE FencedLock WITH
  holder <- IF Running THEN lease.owner ELSE None,
  token  <- epoch,
  last   <- IF lease = None THEN None ELSE lease.owner

ImplementsFencing == Lock!FSpec
=============================================================================
