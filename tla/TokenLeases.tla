---------------------------- MODULE TokenLeases ----------------------------
(***************************************************************************)
(* The distribution coordinator (distribution/application/coordinator.go): *)
(* amounts of a counter that are lent to nodes, which consume them         *)
(* locally, and corrections of the central counter.  Node and counter key  *)
(* of a lease are only carried along.                                      *)
(***************************************************************************)
EXTENDS Clock, Sequences

CONSTANTS
  TokenIds,
  Amounts,        \* what Grant may be asked for, also what it refuses
  Costs,          \* what Consume may be asked for; negative gives back
  Epochs,
  TokenTTL,
  MaxGiven,       \* bound on what is granted under one epoch
  MaxConsumed,    \* bound on what is given back beyond what was consumed
  MaxCorrections, \* maxCorrections
  Untaken         \* an ID that is not in the map

ASSUME TokenAssumption ==
  /\ \A n \in Amounts \cup Costs : n \in Int
  /\ Epochs \subseteq Nat /\ TokenTTL \in Nat
  /\ MaxGiven \in Nat /\ MaxConsumed \in Nat /\ MaxCorrections \in Nat \ {0}

VARIABLES
  tokenLease,  \* leases[id]
  corrections, \* the deltas of the latest corrections
  given,       \* history, given[id][e]: what was granted under epoch e
  spent        \* history, spent[id][e]: what was consumed by callers of epoch e, net

tokenVars == <<now, tokenLease, corrections, given, spent>>

TokenInit ==
  /\ now = 0
  /\ tokenLease = [id \in TokenIds |-> Untaken]
  /\ corrections = <<>>
  /\ given = [id \in TokenIds |-> [e \in Epochs |-> 0]]
  /\ spent = [id \in TokenIds |-> [e \in Epochs |-> 0]]

(* A grant replaces the lease of its ID and what was consumed of it. *)
Grant(id, amount, e) ==
  /\ amount > 0
  /\ given[id][e] + amount <= MaxGiven
  /\ tokenLease' = [tokenLease EXCEPT ![id] =
       [granted |-> amount, consumed |-> 0, epoch |-> e, expiresAt |-> now + TokenTTL]]
  /\ given' = [given EXCEPT ![id][e] = @ + amount]
  /\ UNCHANGED <<now, corrections, spent>>

(* The lease serves a caller of epoch e. *)
ServesAny(id, e) == tokenLease[id] # Untaken /\ now <= tokenLease[id].expiresAt  \* mutant: any epoch
Serves(id, e) ==
  /\ tokenLease[id] # Untaken
  /\ now <= tokenLease[id].expiresAt
  /\ tokenLease[id].epoch = e

Consume(id, cost, e) ==
  LET l == tokenLease[id] IN
  /\ Serves(id, e)
  /\ l.consumed + cost <= l.granted
  /\ l.consumed + cost >= 0 - MaxConsumed
  /\ tokenLease' = [tokenLease EXCEPT ![id].consumed = @ + cost]
  /\ spent' = [spent EXCEPT ![id][e] = @ + cost]
  /\ UNCHANGED <<now, corrections, given>>

(* Only the latest corrections are kept. *)
ReconcileAll(central, reported) ==  \* mutant: all of them are
  /\ corrections' = Append(corrections, reported - central)
  /\ UNCHANGED <<now, tokenLease, given, spent>>
Reconcile(central, reported) ==
  LET all == Append(corrections, reported - central)
      cut == IF Len(all) > MaxCorrections THEN Len(all) - MaxCorrections ELSE 0
  IN /\ corrections' = SubSeq(all, cut + 1, Len(all))
     /\ UNCHANGED <<now, tokenLease, given, spent>>

TokenTick == Tick /\ UNCHANGED <<tokenLease, corrections, given, spent>>

TokenNext ==
  \/ \E id \in TokenIds, n \in Amounts, e \in Epochs : Grant(id, n, e)
  \/ \E id \in TokenIds, n \in Costs, e \in Epochs : Consume(id, n, e)
  \/ \E central, reported \in {0, 1} : Reconcile(central, reported)
  \/ TokenTick

TokenSpec == TokenInit /\ [][TokenNext]_tokenVars

TokenTypeOK ==
  /\ \A id \in TokenIds : tokenLease[id] # Untaken => tokenLease[id].consumed <= tokenLease[id].granted
  /\ Len(corrections) <= MaxCorrections

(* README.md:13: what is overspent is bounded.  The callers of one epoch   *)
(* do not consume more, net, than was granted under that epoch, although   *)
(* each grant begins to count anew, amounts are given back, and callers of *)
(* other epochs go on calling.                                             *)
SpentWithinGrants ==
  \A id \in TokenIds, e \in Epochs : spent[id][e] <= given[id][e]
=============================================================================
