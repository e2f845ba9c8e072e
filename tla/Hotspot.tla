------------------------------ MODULE Hotspot ------------------------------
(***************************************************************************)
(* The hotspot splitter (shard/application/hotspot.go): the counts of an   *)
(* interval make the rate of a key, and the rate its number of partitions. *)
(* Rates are compared as counts: rate >= t is count >= t * elapsed.        *)
(***************************************************************************)
EXTENDS Clock

CONSTANTS
  HotKeys,
  Observations,   \* the counts that are observed at once, also what is ignored
  MaxCount,       \* bound on the counts
  Threshold,      \* requests per tick that one partition takes
  MaxPartitions

ASSUME HotspotAssumption ==
  /\ Observations \subseteq Int /\ MaxCount \in Nat
  /\ Threshold \in Nat \ {0} /\ MaxPartitions \in Nat /\ MaxPartitions >= 2

VARIABLES
  counts,     \* counts[k]; 0 for a key that is not in the map
  since,      \* last: the time of the latest evaluation
  partitions, \* partitions[k]; 0 for a key that is not in the map
  grownFor    \* history, grownFor[k]: count and elapsed time for which k was last split up

hotVars == <<now, counts, since, partitions, grownFor>>

HotInit ==
  /\ now = 0 /\ since = 0
  /\ counts = [k \in HotKeys |-> 0]
  /\ partitions = [k \in HotKeys |-> 0]
  /\ grownFor = [k \in HotKeys |-> [count |-> 0, elapsed |-> 1]]

Observe(k, n) ==
  /\ n > 0 /\ counts[k] + n <= MaxCount
  /\ counts' = [counts EXCEPT ![k] = @ + n]
  /\ UNCHANGED <<now, since, partitions, grownFor>>

Partitions(k) == IF partitions[k] = 0 THEN 1 ELSE partitions[k]

(* Doubled until each takes no more than the threshold, up to the bound,   *)
(* which is reached in as many rounds at most.                             *)
Split(parts, count, elapsed) ==
  LET doubled[i \in 0..MaxPartitions] ==
        IF i = 0 THEN parts
        ELSE IF doubled[i - 1] * Threshold * elapsed < count /\ doubled[i - 1] < MaxPartitions
             THEN 2 * doubled[i - 1]
        ELSE doubled[i - 1]
      enough == doubled[MaxPartitions]
  IN IF enough > MaxPartitions THEN MaxPartitions ELSE enough

Hot(count, elapsed) == count >= Threshold * elapsed
ColdBelowHalf(count, elapsed) == 2 * count < Threshold * elapsed  \* mutant
Cold(count, elapsed) == 4 * count < Threshold * elapsed

Resize(parts, count, elapsed) ==
  IF Hot(count, elapsed) /\ parts < MaxPartitions THEN Split(parts, count, elapsed)
  ELSE IF Cold(count, elapsed) /\ parts > 1 THEN parts \div 2
  ELSE parts

(* Evaluate: the keys that were observed in the interval. *)
EvaluateRates ==
  LET elapsed == now - since
      visited == {k \in HotKeys : counts[k] > 0}
      resized == [k \in visited |-> Resize(Partitions(k), counts[k], elapsed)]
  IN /\ elapsed > 0
     /\ partitions' = [k \in HotKeys |-> IF k \in visited THEN resized[k] ELSE partitions[k]]
     /\ grownFor' = [k \in HotKeys |->
          IF k \in visited /\ resized[k] > Partitions(k)
          THEN [count |-> counts[k], elapsed |-> elapsed] ELSE grownFor[k]]
     /\ counts' = [k \in HotKeys |-> 0]
     /\ since' = now
     /\ UNCHANGED now

HotTick == Tick /\ UNCHANGED <<counts, since, partitions, grownFor>>

HotNext ==
  \/ \E k \in HotKeys, n \in Observations : Observe(k, n)
  \/ EvaluateRates
  \/ HotTick

HotTypeOK ==
  /\ counts \in [HotKeys -> 0..MaxCount]
  /\ partitions \in [HotKeys -> 0..MaxPartitions]

(* An evaluation leaves each key that was observed with enough partitions  *)
(* for the rate at which it was, or with as many as there may be, however  *)
(* many it had: odd numbers that halving the bound has left, too.  And     *)
(* partitions are not taken back until the rate has fallen below a quarter *)
(* of the one that they were split up for: a steady rate does not make     *)
(* them come and go.                                                       *)
EnoughAndSteady ==
  \A k \in HotKeys :
    LET elapsed == now - since
        parts   == Partitions(k)'
    IN since' # since /\ counts[k] > 0 =>
         /\ parts = MaxPartitions \/ parts * Threshold * elapsed >= counts[k]
         /\ parts < Partitions(k) =>
              4 * counts[k] * grownFor[k].elapsed < grownFor[k].count * elapsed
PartitionsFollow == [][EnoughAndSteady]_hotVars
=============================================================================
