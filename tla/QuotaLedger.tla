----------------------------- MODULE QuotaLedger -----------------------------
(***************************************************************************)
(* What the decision engine promises, with neither calls nor locks.        *)
(*                                                                         *)
(* A request asks for its cost on every counter of its chain.  It takes    *)
(* the counters one at a time and is granted only when it holds them all;  *)
(* otherwise, or when it is given up later, it returns what it took.  Once *)
(* kept it is never returned, once gone it holds nothing and never comes   *)
(* back, and at no time is more held on a counter than its limit.          *)
(***************************************************************************)
EXTENDS Integers, Sequences, FiniteSets

CONSTANTS
  Requests,
  Counters,
  Path,      \* Path[q]: the counters request q asks for
  Price,     \* Price[q]: what it asks for on each
  Limit      \* Limit[k]: what counter k admits

(* What is assumed of the constants. *)
LedgerAssumption ==
  /\ Path \in [Requests -> Seq(Counters)]
  /\ Price \in [Requests -> Int]
  /\ Limit \in [Counters -> Nat]

VARIABLES
  state,     \* state[q]: how far request q is
  held       \* the positions <<q, p>> charged: the p-th counter of q's chain

lvars == <<state, held>>

States == {"new", "taking", "granted", "kept", "returning", "gone"}

PositionsOf(q) == {<<q, p>> : p \in 1..Len(Path[q])}

CounterAt(x) == Path[x[1]][x[2]]

(* As many units on counter k as the positions held on it cost. *)
HeldUnits(k) ==
  UNION {{<<x, n>> : n \in 1..Price[x[1]]} : x \in {y \in held : CounterAt(y) = k}}

LInit ==
  /\ state = [q \in Requests |-> "new"]
  /\ held = {}

Move(q, from, to) ==
  /\ state[q] \in from
  /\ state' = [state EXCEPT ![q] = to]
  /\ UNCHANGED held

Take(q) == Move(q, {"new"}, "taking")

Room(x) == Cardinality(HeldUnits(CounterAt(x))) + Price[x[1]] <= Limit[CounterAt(x)]

Hold(x) ==
  /\ state[x[1]] = "taking"
  /\ x \notin held
  /\ Room(x)
  /\ held' = held \cup {x}
  /\ UNCHANGED state

(* Granted until it is settled, or for good. *)
GrantAll(q) ==
  /\ PositionsOf(q) \subseteq held
  /\ Move(q, {"taking"}, "granted") \/ Move(q, {"taking"}, "kept")

Keep(q) == Move(q, {"granted"}, "kept")

GiveUp(q) == Move(q, {"new", "taking", "granted"}, "returning")

Returns(x) == state[x[1]] = "returning"

Return(x) ==
  /\ Returns(x)
  /\ x \in held
  /\ held' = held \ {x}
  /\ UNCHANGED state

Leave(q) ==
  /\ held \cap PositionsOf(q) = {}
  /\ Move(q, {"new", "returning"}, "gone")

LNext ==
  \E q \in Requests :
    \/ Take(q) \/ GrantAll(q) \/ Keep(q) \/ GiveUp(q) \/ Leave(q)
    \/ \E x \in PositionsOf(q) : Hold(x) \/ Return(x)

LSpec == LInit /\ [][LNext]_lvars

LTypeOK ==
  /\ state \in [Requests -> States]
  /\ held \subseteq UNION {PositionsOf(q) : q \in Requests}

(* No counter is charged beyond its limit. *)
LWithinLimit == \A k \in Counters : Cardinality(HeldUnits(k)) <= Limit[k]

(* A granted or kept request holds its whole chain, a new or gone one      *)
(* nothing: what README promises of the parent chain.                      *)
AllOrNothing ==
  \A q \in Requests :
    /\ state[q] \in {"granted", "kept"} => PositionsOf(q) \subseteq held
    /\ state[q] \in {"new", "gone"} => held \cap PositionsOf(q) = {}
=============================================================================
