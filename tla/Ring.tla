-------------------------------- MODULE Ring --------------------------------
(***************************************************************************)
(* The consistent hash ring (shard/application/ring.go).  A hash is a      *)
(* position on a circle of HashSize; Position gives that of each virtual   *)
(* node, "ID#i", and of each key.                                          *)
(***************************************************************************)
EXTENDS Integers, Sequences, SequencesExt

CONSTANTS
  Members,    \* IDs of nodes
  Weights,    \* the weights that a node may be given
  VNodes,     \* virtual nodes for each unit of weight
  Position,   \* Position[m][i]: the hash of virtual node i of m
  HashSize,   \* number of hashes
  Keys,
  KeyHash,    \* KeyHash[k]: the hash of a key
  Replicas,   \* how many nodes Locate names
  MaxRebuilds \* bound on the ring's epoch

Hashes == 0..(HashSize - 1)

(* A weight below 1 counts as 1. *)
VNodesOf(w) == 1..(VNodes * (IF w < 1 THEN 1 ELSE w))

(* No two virtual nodes have one hash, as is so for those of the program's *)
(* two nodes; sort.Slice would put them in either order.                   *)
ASSUME RingAssumption ==
  /\ VNodes \in Nat \ {0} /\ Replicas \in Nat \ {0} /\ MaxRebuilds \in Nat
  /\ HashSize \in Nat \ {0}
  /\ \A w \in Weights : w \in Nat
  /\ \A m \in Members, w \in Weights \cup {1} : VNodesOf(w) \subseteq DOMAIN Position[m]
  /\ KeyHash \in [Keys -> Hashes]
  /\ \A m, n \in Members : \A i \in DOMAIN Position[m], j \in DOMAIN Position[n] :
       /\ Position[m][i] \in Hashes
       /\ Position[m][i] = Position[n][j] => m = n /\ i = j

VARIABLES
  points,     \* the virtual nodes of the healthy nodes, by hash
  ringEpoch   \* how often the ring was rebuilt

ringVars == <<points, ringEpoch>>

RingInit == points = <<>> /\ ringEpoch = 0

InOrder(S) == [i \in 1..Cardinality(S) |->
  CHOOSE p \in S : Cardinality({q \in S : q.hash < p.hash}) = i - 1]

(* The virtual nodes of the healthy nodes of a list, sorted. *)
PointsOf(list) ==
  LET healthy == {m \in Members : list[m].healthy} IN
  InOrder(UNION {{[hash |-> Position[m][i], node |-> m] : i \in VNodesOf(list[m].weight)} :
                 m \in healthy})

(* What SetNodes may be called with; a node that is not listed counts for  *)
(* as little as one that is not healthy.                                   *)
NodeLists == [Members -> [weight : Weights, healthy : BOOLEAN]]

SetNodes(list) ==
  /\ ringEpoch < MaxRebuilds
  /\ points' = PointsOf(list)
  /\ ringEpoch' = ringEpoch + 1

RingNext == \E list \in NodeLists : SetNodes(list)

(* The point at which the search of Locate ends up: the first at or after  *)
(* the key, round the circle.                                              *)
StartLast(k) ==  \* mutant: no way round
  LET found == SelectInSeq(points, LAMBDA p : p.hash >= KeyHash[k]) IN
  IF found = 0 THEN Len(points) ELSE found
StartModulo(k) == (KeyHash[k] % Len(points)) + 1  \* mutant: no circle
Start(k) ==
  LET found == SelectInSeq(points, LAMBDA p : p.hash >= KeyHash[k]) IN
  IF found = 0 THEN 1 ELSE found

(* The nodes of the points from there on, round the circle, each once, up  *)
(* to Replicas.                                                            *)
Clockwise(k, offset) == points[((Start(k) + offset - 1) % Len(points)) + 1]

Visit(found, m) ==
  IF Len(found) < Replicas /\ ~Contains(found, m) THEN Append(found, m) ELSE found

Walk(k) ==
  LET walked[o \in 0..Len(points)] ==
        IF o = 0 THEN <<>> ELSE Visit(walked[o - 1], Clockwise(k, o - 1).node)
  IN walked[Len(points)]

(* Locate: none when the ring is empty. *)
Locatable == points # <<>>
Assignment(k) ==
  [shard |-> KeyHash[k], primary |-> Head(Walk(k)), replicas |-> Tail(Walk(k)), epoch |-> ringEpoch]

Ranges == {points[i] : i \in DOMAIN points}
Present == {p.node : p \in Ranges}

(* How far m's nearest virtual node lies from k, clockwise. *)
Distance(k, m) ==
  Min({(p.hash + HashSize - KeyHash[k]) % HashSize : p \in {q \in Ranges : q.node = m}})

(* Locate names the nodes with the nearest virtual nodes, nearest first,   *)
(* and as many of them as there are up to Replicas: whatever is searched   *)
(* and wrapped around, it is the clockwise order of the circle.            *)
NearestFirst ==
  \A k \in Keys :
    LET found == Walk(k) IN
    /\ Len(found) = Min({Replicas, Cardinality(Present)})
    /\ \A i \in DOMAIN found : \A m \in Present :
         Distance(k, m) < Distance(k, found[i]) => \E j \in 1..(i - 1) : found[j] = m

(* README.md:12 and 130: when the ring is rebuilt, a key leaves its        *)
(* primary only if that lost virtual nodes or if the new primary gained    *)
(* some, and of the nodes named before, those that lost nothing are still  *)
(* named in their order unless a node gained: the first replica takes over.*)
PointsHere(m) == {p.hash : p \in {q \in Ranges : q.node = m}}
Lost == {m \in Members : ~(PointsHere(m) \subseteq PointsHere(m)')}
Gained == {m \in Members : ~(PointsHere(m)' \subseteq PointsHere(m))}
UnhurtBefore(walk, i) == {walk[j] : j \in 1..(i - 1)} \ Lost
Stable ==
  \A k \in Keys :
    LET before == Walk(k)
        after  == Walk(k)'
    IN before # <<>> /\ after # <<>> =>
         /\ Head(before) # Head(after) => Head(before) \in Lost \/ Head(after) \in Gained
         /\ Gained = {} => \A i \in DOMAIN before : before[i] \notin Lost =>
              \E j \in DOMAIN after :
                after[j] = before[i] /\ UnhurtBefore(after, j) = UnhurtBefore(before, i)
=============================================================================
