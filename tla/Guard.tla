------------------------------- MODULE Guard -------------------------------
(***************************************************************************)
(* The guard that the runtime gives to the engine                          *)
(* (platform/infrastructure/runtime.go): it locates the key on the ring,   *)
(* takes the lease of the key's shard, and the epoch of that lease goes    *)
(* into the decision.  The program has one node; README.md:20 and 109      *)
(* describe several, one of which takes over.  They share a lease manager  *)
(* and a ring here.                                                        *)
(***************************************************************************)
EXTENDS LeaseManager, Ring

CONSTANTS
  GuardTTL,  \* the lifetime that the guard asks for
  GuardKey   \* the key that is decided on, whose shard the leases are of

ASSUME GuardAssumption == GuardTTL \in TTLs /\ GuardKey \in Keys /\ Nodes \subseteq Members

VARIABLES
  asked,    \* asked[n]: the ring's epoch in the assignment n has located, or None
  answer,   \* the latest answer of a guard
  observed  \* history: the answer under a lease that had the highest epoch

guardVars == <<leaseVars, ringVars, asked, answer, observed>>

Answers == [node : Nodes \cup {None}, epoch : Nat, leased : BOOLEAN]
NoAnswer == [node |-> None, epoch |-> 0, leased |-> FALSE]

NothingAsked ==
  /\ asked = [n \in Nodes |-> None]
  /\ answer = NoAnswer
  /\ observed = NoAnswer

(* The runtime builds the ring before there is a guard, of nodes that are  *)
(* all healthy.  Their weights only move keys about: all are 1 here.       *)
GuardInit ==
  /\ LeaseInit
  /\ points = PointsOf([m \in Members |-> [weight |-> 1, healthy |-> TRUE]])
  /\ ringEpoch = 1
  /\ NothingAsked

Give(n, e, leased) ==
  /\ answer' = [node |-> n, epoch |-> e, leased |-> leased]
  /\ observed' = IF leased /\ e > observed.epoch THEN answer' ELSE observed

(* Locate; with no node on the ring the answer is 0. *)
LocateKey(n) ==
  /\ asked[n] = None
  /\ IF Locatable
     THEN /\ asked' = [asked EXCEPT ![n] = Assignment(GuardKey).epoch]
          /\ UNCHANGED <<answer, observed>>
     ELSE Give(n, 0, FALSE) /\ UNCHANGED asked
  /\ UNCHANGED <<leaseVars, ringVars>>

(* Acquire.  When the lease is another node's, the answer is the epoch of  *)
(* the ring and the decision is made all the same.                         *)
DecideErrIgnored(n) ==  \* mutant: the lease that comes with the error is used
  /\ asked[n] # None
  /\ asked' = [asked EXCEPT ![n] = None]
  /\ \/ Acquire(n, GuardTTL) /\ Give(n, epoch', TRUE)
     \/ Free /\ HeldByOther(n) /\ Give(n, lease.epoch, TRUE) /\ UNCHANGED leaseVars
  /\ UNCHANGED ringVars
Decide(n) ==
  /\ asked[n] # None
  /\ asked' = [asked EXCEPT ![n] = None]
  /\ \/ Acquire(n, GuardTTL) /\ Give(n, epoch', TRUE)
     \/ Free /\ HeldByOther(n) /\ Give(n, asked[n], FALSE) /\ UNCHANGED leaseVars
  /\ UNCHANGED ringVars

(* README.md:109: the ring is rebuilt with other nodes marked healthy. *)
Rebuild ==
  /\ \E up \in SUBSET Nodes :
       SetNodes([m \in Members |-> [weight |-> 1, healthy |-> m \in up]])
  /\ UNCHANGED <<leaseVars, asked, answer, observed>>

(* The other calls of the lease manager, and time. *)
LeaseOnly == LeaseNext /\ UNCHANGED <<ringVars, asked, answer, observed>>

GuardNext ==
  \/ \E n \in Nodes : LocateKey(n) \/ Decide(n)
  \/ Rebuild
  \/ LeaseOnly

GuardSpec == GuardInit /\ [][GuardNext]_guardVars

GuardTypeOK ==
  /\ LeaseTypeOK
  /\ asked \in [Nodes -> Nat \cup {None}]
  /\ answer \in Answers /\ observed \in Answers

(* README.md:20: callers must reject what has a lower epoch than they have *)
(* seen.  Of the answers that were given under a lease none has to be      *)
(* rejected when it is given, and no two nodes answer under one epoch,     *)
(* whatever becomes of the ring and of the lease in between.               *)
AnswersFenced ==
  answer.leased => answer.epoch = observed.epoch /\ answer.node = observed.node
=============================================================================
