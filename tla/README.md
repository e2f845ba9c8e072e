# Verification of the quota decision plane

TLA+ models of the Go service in `src/` (a quota and rate decision server with
`Check`, `Reserve`, `Commit`, `Cancel` and `BatchCheck`), the TLC runs that
check them on small instances, and TLAPS proofs of what matters most for every
value of the constants.

- [The system](#the-system)
- [The modules](#the-modules)
- [The runs](#the-runs)
- [Fairness](#fairness)
- [What is proved](#what-is-proved)
- [What the checks found in the code](#what-the-checks-found-in-the-code)
- [What is not modelled](#what-is-not-modelled)
- [Plan](#plan)

## The system

One process. HTTP handlers, one goroutine per request, run a write request
through the middleware (`platform/adapter/middleware.go`) into a handler
(`platform/adapter/httpapi.go`); two more goroutines are started by
`Runtime.RunBackground`: the reaper of reservations and the audit bus. All
state is in memory and guarded by mutexes.

| Component | State | Operations | Called by / calls |
| --- | --- | --- | --- |
| Decision engine `quota/application/engine.go` | none of its own | `Check`, `BatchCheck`, `Reserve`, `Commit`, `Cancel`, `Release` | called by the write endpoints; calls the matcher, the algorithms, the reservation service, the lease manager, the audit bus |
| Algorithms `algorithm/application/evaluators.go` | one map of counters per algorithm, one mutex each | `Evaluate`, `Release` | called by the engine |
| Reservation service `reservation/` | map of reservations; `resMu` | `Create`, `Commit`, `Cancel`, `Reap` | called by the engine and by the reaper goroutine; `Cancel` and `Reap` call back `Engine.Release` with `resMu` held |
| Idempotency `idempotency/`, `API.idempotent` | map of records; `idemMu` | `Replay`, `Save` | wraps every write endpoint, holds `idemMu` over the whole engine call |
| Audit bus and sink `audit/` | bounded channel, `closing` flag, `stop` and `done` channels; a bounded list of events | `Publish`, `Run`, `drain`, `Close`, `Append` | published to by the engine; closed by `Runtime.Shutdown` |
| Configuration `configuration/` | drafts, versions, active and shadow pointer | `CreateDraft`, `Validate`, `Publish`, `Rollback`, `SetShadow` | read by the matcher at each decision |
| Matcher and definitions `quota/application/matcher.go`, `quota/domain/model.go` | none | `Match`, `Chain`, `ValidateDefinitions` | called by the engine and by the configuration service |
| Lease manager `lease/` | leases and their epochs | `Acquire`, `Renew`, `Validate`, `Release` | asked by the engine's guard for the epoch of a decision, after its evaluation (`engine.go:51-56`) |
| Shard ring `shard/application/ring.go` | points, epoch | `SetNodes`, `Locate` | called by the guard before the lease manager, and by an endpoint |
| Counter ledger `counter/` | a store of versioned counters; a bounded buffer of events | `Adjust`, `CompareAndAdjust`, `Compact` | called by nothing in the program |
| Distribution coordinator `distribution/` | lent tokens, latest corrections | `Grant`, `Consume`, `Reconcile` | called by nothing in the program |
| Hotspot splitter `shard/application/hotspot.go` | counts and partitions of keys | `Observe`, `Evaluate`, `Partition` | called by nothing in the program |
| Middleware, metrics, runtime, `main` | per-client windows, counters | timeout, rate limit, auth, shutdown | wrap and own the rest |

What is hard, and what therefore has to be shown:

- **A chain is charged counter by counter, with no lock over it.** Other
  calls, rollbacks, cancellations and the reaper change the same counters in
  between. Each counter must hold exactly what is charged on it, and no more
  than its limit; a request must hold its whole chain or nothing.
- **A reservation can be committed, cancelled and expired at the same moment.**
  Exactly one may win, a committed one is never refunded, a refund happens once
  and is complete, even if the process is told to stop in the middle of a reap.
- **A client that got no answer retries.** Two executions under one key must
  not both count, unless the first client was told of a failure.
- **Windows, buckets and time.** Boundaries, dry runs, releases that arrive
  later than the window they belong to, callers that are evaluated in another
  order than they read the clock, a clock that is set back.
- **Publication in three writes.** A version is saved, activated and its draft
  deleted, and the client's context may end between any two; readers do not
  take the mutex. No version may change or be numbered twice, the active one
  must be whole, and every request that it matches must have a chain.
- **Shutdown.** Handlers whose request was answered by the timeout still run,
  and publish, while the bus drains. The drain must miss nothing that the
  server waited for, and the shutdown must end.
- **Two mutexes, a callback and a bounded queue.** Nobody may wait for ever.
- **Leases that pass from node to node.** The program runs one node, but
  its leases, its ring and the components without a caller are written for
  several (src/README.md:12-13, 20, 109). A lease runs out, is renewed at the
  last instant, released and taken by another node while its old owner still
  presents what it was once handed; the ring is rebuilt between the look at it
  and the lease. An epoch must fence, and a key must stay where it is.
- **Books kept in two places.** The ledger writes the store and its buffer in
  two steps; lent tokens are consumed by callers that have missed a new grant.

`PROJECT.json` lists these hazards one by one, at their lines, with the
properties that cover them.

## The modules

```text
 QuotaLedger  <--implements--  Engine  <--EXTENDS--  Api          (MCEngine, MCApi)
      ^                          ^                    ^
 LedgerProofs               EngineProofs  <-----  ApiProofs

 Metering <--EXTENDS-- FixedWindow, SlidingWindow, TokenBucket, LeakyBucket, VisitorLimit
      ^                     ^ INSTANCE
      +------ Registry -----+                                     (MCRegistry)
                 ^
          RegistryProofs

 VersionLog <--implements-- Configuration --EXTENDS--> Matcher    (MCConfiguration)
                                ^
                       ConfigurationProofs

 FencedLock <--implements-- LeaseManager <--EXTENDS-- Guard --EXTENDS--> Ring
                                                        ^
 Clock <- UsageLedger, TokenLeases, Hotspot  <------- Plane <- PlaneProofs  (MCPlane)

 AuditBus <- AuditBusProofs

 UnitLemmas (loops, least elements, sums, units) <- all but LedgerProofs, AuditBusProofs
```

**Engine** models the engine together with the reservation service, because
neither has an invariant without the other. A constant set `Calls` holds the
invocations; `pc[c]` is where call `c` stands. What is atomic is what the code
puts under one mutex: one `Evaluate` or `Release` of one counter (`Admit`,
`Deny`, `GiveBack`, `Refund`), one critical section of the reservation service
(`Create`, `Commit`). `Cancel` and `Reap` keep `resMu` while they refund, so
for them it is a variable and their refunds are steps of their own. The list
that `Reap` works through is read under the mutex: `reapAt` is the time it
read, and as nothing changes a status while the mutex is held, "due" is a
question to the current status. `Timeout` cancels the context of a call at any
moment; `Stop` that of the background goroutines. Which definitions a request
matches is a constant, the chain of each request, from the matched definition
to its root; an empty chain is a request that nothing matches. A counter is
what `Evaluate` and `Release` make of a semaphore or of a fixed window that
does not turn meanwhile.

The variable `used` is the code's state. What *should* be in it is not a
variable but derived: `Charged(c, j, p)` says from `pc`, the reservation and
the refund in progress whether the `p`-th counter of request `j` of call `c`
is charged at this moment.

**QuotaLedger** is what the engine promises, with neither calls nor locks: a
request takes the counters of its chain one at a time, each only if there is
room, is granted when it holds all, is kept or returned, and never comes back.
`Engine!ImplementsLedger` maps the calls, reservations and refunds to it.

**Api** puts every call of the engine inside `API.idempotent`: `idemMu` from the
lookup to the answer, `Replay`, the engine's work (`Serve`), `Save`, records
that expire. An answer is the name of the call whose execution produced it;
the history variable `savedAt` remembers when the answer of a call was recorded,
so that the properties can tell a record that has lapsed from one that is lost.
The write endpoints therefore call the engine one at a time; the reaper and
the refunds still interleave with them. `Engine` on its own has concurrent
callers, which is what its own locks are for.

**Metering** is the callers of one counter: each reads the clock, is evaluated
later, and may be released later still; `log` records what was charged net.
**FixedWindow**, **SlidingWindow**, **TokenBucket** and **LeakyBucket** add the
algorithm's state, `Evaluate` and `Release`. The sliding window's binary search
is modelled as a search, because the order it assumes is not always there. The
buckets count in parts of `1/Window`, which makes `float64` amounts whole
numbers. **Registry** composes them as the code's `Registry` does: a behaviour
picks the algorithm of the definition. The windows are checked for callers in
the order of their times, as the write endpoints make them come. The buckets
promise more and are instantiated with overlapping callers and with a clock
that may be set back. (`time.Now` carries a monotonic reading, so `Sub` and
`Before` do not see a wall clock step; `Truncate` does.)

**VisitorLimit** is the bucket that the middleware keeps for each client: one
token a request, refilled at each, with `time.Now` read before the mutex is
taken. Its callers are those of Metering too, so it is composed in Registry.

**Matcher** holds the definitions and what is computed from them: `Match`,
`Chain`, the order of `SortDefinitions` and `Valid`, the verdict of
`ValidateDefinitions`. A definition list is a sequence of records; names are
numbers in their order, tenant and resource are one field, and the field
checks of `Definition.Validate` are one flag. `Chain` walks up as the matcher
does; `ParentCycle` is stated independently of it, so that `VersionsResolve`
says something of the two together. The walk is written as the values of the
loop's variables after each round, a function of the round's number.

**Configuration** models the service over its repository. What a call reads
under the mutex is one step (`Prepare`), each write is a step of its own
(`SaveVersion`, `SetActive`, `DeleteDraft`), and a context may end anywhere.
`SetShadow` reads its version before it takes the mutex. **VersionLog** is the
promise: an append-only log whose active entry is switched to the newest only.
A decision reads the active version once and uses it throughout
(`engine.go:67-88`), which is why `Engine` may take the chains as constants.
What a draft may hold is a constant of its own: sequences over `Definitions`,
the records that `Targets`, `Dims` and `Patterns` span.

**AuditBus** models `Publish`, `Run`, `drain`, `Close`, the memory sink,
`Runtime.Shutdown` and the end of `main`. The test of `closing` and the send are
two steps; taking an event and appending it are two steps. `detached` holds the
handlers whose request `http.TimeoutHandler` has answered: `Server.Shutdown`
does not wait for these.

**LeaseManager** models the leases of one shard, asked for by several nodes.
Each method runs under the manager's mutex and is one step, except `Renew`,
which reads the clock twice. A node presents what it was handed, now or long
ago: the history `handed`; `told` is what it believes it has. **FencedLock** is
the promise: one holder at most, a token that grows whenever it is taken, and a
lapsed holder that may come back only under its own token and only while nobody
has taken the lock since.

**Ring** is `SetNodes` and `Locate` over hashes that are constants, numbers
below `HashSize`; the walk of `Locate` is a loop over the offsets from the
first point at or behind the key. **Guard**
composes the two as the closure in `runtime.go:57-67` does: `LocateKey`, then
`Decide`, with everything else in between. It has several nodes share a manager
and a ring, as src/README.md:20 and 109 describe it; with one node it is the
program.

**UsageLedger** is the ledger and its store: the clock is read, the store is
written, the event is appended, as three steps. A writer either adjusts or
reads, checks a limit and swaps; the check is its own (external). The histories
`compacted`, `spilled` and `floored` keep what leaves the books.
**TokenLeases** is the coordinator, with what was granted and consumed under
each epoch as history. **Hotspot** is the splitter; its rates are compared as
counts, which makes them whole numbers.

**Plane** runs one of these five in each behaviour, since the program lets none
of them call another except in the guard; they share its clock.

`PROJECT.json` gives the source lines of every definition that stands for code.
Operators commented `mutant:` are the wrong variants with which each property
has been shown to be violable; no specification uses them.

## The runs

| Run | Module | What it asks |
| --- | --- | --- |
| `EngineReservations` | MCEngine | Two reservations on one chain `leaf, root` (limit 2), a commit and a cancellation of the first, the reaper, timeouts, stop; time 0..2. `TypeOK`, `ExactCharge`, `Lifecycle`, `ImplementsLedger` |
| `EngineDecisions` | MCEngine | A batch of three (the last invalid), a reservation and a dry run that visits the two counters in the other order. `ExactCharge`, `WithinLimit`, `ImplementsLedger` |
| `ApiRetries` | MCApi | A reservation, its retry, another body under the same key, a commit; records expire after 1 in time 0..2. `ApiTypeOK`, `AnswersAgree`, `ChargedOnce` |
| `ApiLiveness` | MCApi | A reservation, its retry and a cancellation under fairness. `RequestsAnswered`, `PendingSettles`, `RefundCompletes` |
| `RateFlow` | MCRegistry | The four algorithms and the middleware's bucket. Costs 1, 2 and 1 and a dry run, two of them releasable, window 3, limit 2, time 0..4. `TypeOK`, `WindowBound`, `RateBound`, `RetryExact` |
| `AuditShutdown` | AuditBus | Three handlers, a queue of 2, a sink of 2, under fairness. `TypeOK`, `Accounted`, `CloseDrains`, `ShutdownEnds` |
| `Publication` | MCConfiguration | Two clients write the draft (a chain through a disabled parent, a cycle, a missing parent, a doubled ID, a doubled scope, an ill-formed definition, a copy), two publish it, one rolls back, one sets the shadow; symmetric in the two drafts and in the two publications, which the model does not tell apart. `TypeOK`, `VersionsResolve`, `OutcomeHonest`, `ImplementsLog` |
| `Plane` | MCPlane | One of five parts. Guard: two nodes and a third on the ring, lifetimes 1 and 2, time 0..3, epochs to 3, two rebuilds. Ring: three nodes with up to two virtual nodes, four keys, one behind the last point. Ledgers: two, four writes on two counters, two of which swap, a buffer of 1. Tokens: two epochs, grants of 2, costs 1, 2 and -1. Hotspots: threshold 8, counts of 1, 8 and 33 that add up to 34 at most, up to 6 partitions. `PlaneTypeOK`, `FencedOut`, `Exclusive`, `ImplementsFencing`, `AnswersFenced`, `LocateNearest`, `KeysStay`, `BooksBalance`, `SwapsKeepCeiling`, `EventsOrdered`, `SpentWithinGrants`, `PartitionsFollow` |
| `ScopeConflict` | MCConfiguration | violation of `DistinctScopes` |
| `ApiTimeoutRetry` | MCApi | violation of `RetryNeverRecharges` |
| `LateRefund` | MCRegistry | violation of `KeptWithinLimit` |
| `AuditSignal` | AuditBus | violation of `NothingLost` |

Why the bounds are enough. Two counters are the shortest chain on which a
denial has something to roll back, and a limit of 2 with costs 1 and 2 makes
requests fit together, exclude one another, and fail on the second counter
after the first. Time 0..2 with lifetimes 1 and 2 has moments before, at and
after each expiry. Commit, cancellation and reaper of one reservation are all
its rivals. Two requests of one key and one of another body are all that a
record tells apart. The window of 3 within 0..4 has one boundary in its
middle, an event that is exactly one window old, and times on both sides; the
limit of 2 lets two charges fit and a third fail. Three handlers overflow a
queue of 2 and a sink of 2. Two publishers and a rollback are needed for a
version that is saved, fails, and is followed by another; the
draft contents are one for each kind of conflict that the validation knows and
two without. Two nodes are an owner and its rival; three epochs are a lease
that is lost, taken and won back; lifetimes 1 and 2 in time 0..3 let a lease run
out, be renewed at its last instant and at a later time than it was looked at.
Three nodes on the ring are a primary, a replica and one that gains or loses;
two virtual nodes make a node meet itself on the walk. Two swaps of 2 under a
limit of 3 exclude one another, a write of -3 meets the floor at zero, and a
buffer of 1 overflows. Six partitions are what doubling does not reach and what
halving makes odd; with a threshold of 8 one request in a tick is below a
quarter of it and two are just at the quarter, so that in time 0..3 a key that
was split into 6 is halved to 3 and then split again, held or halved once more.
`MaxTime` and the number of calls bound everything else; no constraint cuts behaviours off. Deadlock is not checked where all
calls have returned, the clock is at its bound or the process has ended.

The proofs have none of these bounds.

## Fairness

Used in `ApiLiveness` and `AuditShutdown` only, and only for what the program
does by itself:

- a goroutine that can go on does (weak fairness of each step of a request, of
  `Refund`, of the reaper's loop, of `Run`, of `main`);
- Go's `sync.Mutex` hands itself over to a waiter that has starved for 1 ms,
  so a goroutine that waits for `idemMu` or `resMu`, which others keep taking
  and releasing, gets it (strong fairness of the steps of a call, and of
  `ReapStart`, which the ticker keeps enabling);
- the clock goes on (weak fairness of `Tick`).

Nothing is fair about the environment: no request, timeout, signal, stop or
shutdown deadline has to come. That `ShutdownEnds` holds without the deadline's
fairness is the point of it.

## What is proved

By TLAPS, for all values of the constants that satisfy the assumptions of the
modules (`EngineAssumption`, `ApiAssumption`, `LedgerAssumption`,
`MeteringAssumption`, `AuditAssumption`, `ConfigurationAssumption`,
`LeaseAssumption`, `GuardAssumption`, `RingAssumption`, `UsageAssumption`,
`TokenAssumption`, `HotspotAssumption`, `ClockAssumption`), which the runs
evaluate, too:

| Theorem | Module | Statement |
| --- | --- | --- |
| `TypeCorrect` | EngineProofs | `Spec => []TypeOK` |
| `LifecycleCorrect` | EngineProofs | `Spec => Lifecycle` |
| `ChargeCorrect` | EngineProofs | `Spec => []ExactCharge` |
| `LimitRespected` | EngineProofs | `Spec => []WithinLimit` |
| `EngineImplementsLedger` | EngineProofs | `Spec => ImplementsLedger` |
| `LedgerLimit` | LedgerProofs | `LSpec => []LWithinLimit` |
| `LedgerAllOrNothing` | LedgerProofs | `LSpec => []AllOrNothing` |
| `ApiTypeCorrect` | ApiProofs | `ApiSpec => []ApiTypeOK` |
| `AnswersCorrect` | ApiProofs | `ApiSpec => []AnswersAgree` |
| `ChargedOnceCorrect` | ApiProofs | `ApiSpec => []ChargedOnce` |
| `ApiWithinLimit` | ApiProofs | `ApiSpec => []WithinLimit` |
| `ApiImplementsLedger` | ApiProofs | `ApiSpec => ImplementsLedger` |
| `AlgorithmTypes` | RegistryProofs | `Spec => []TypeOK` |
| `RatesBounded` | RegistryProofs | `Spec => []RateBound` |
| `WindowsBounded` | RegistryProofs | `Spec => []WindowBound`, if `~Overlap` and `~StepsBack` |
| `RetriesExact` | RegistryProofs | `Spec => []RetryExact`, if `~Overlap` and `~StepsBack` |
| `RetriesExactUnordered` | RegistryProofs | `Spec => [](algorithm # "sliding_window" => RetryExact)` |
| `BusTypeCorrect` | AuditBusProofs | `Spec => []TypeOK` |
| `BusAccounts` | AuditBusProofs | `Spec => []Accounted` |
| `BusDrains` | AuditBusProofs | `Spec => []CloseDrains` |
| `ConfigurationTypes` | ConfigurationProofs | `Spec => []TypeOK` |
| `VersionsAllResolve` | ConfigurationProofs | `Spec => []VersionsResolve` |
| `VersionsAreLog` | ConfigurationProofs | `Spec => ImplementsLog` |
| `OutcomesHonest` | ConfigurationProofs | `Spec => []OutcomeHonest` |
| `PlaneTypeCorrect` | PlaneProofs | `PlaneSpec => []PlaneTypeOK` |
| `PlaneFenced` | PlaneProofs | `PlaneSpec => []FencedOut` |
| `PlaneExclusive` | PlaneProofs | `PlaneSpec => []Exclusive` |
| `PlaneImplementsLock` | PlaneProofs | `PlaneSpec => ImplementsFencing` |
| `PlaneAnswersFenced` | PlaneProofs | `PlaneSpec => []AnswersFenced` |
| `PlaneLocatesNearest` | PlaneProofs | `PlaneSpec => []LocateNearest` |
| `PlaneKeysStay` | PlaneProofs | `PlaneSpec => KeysStay` |
| `PlaneBooksBalance` | PlaneProofs | `PlaneSpec => []BooksBalance` |
| `PlaneSwapsBounded` | PlaneProofs | `PlaneSpec => []SwapsKeepCeiling` |
| `PlaneEventsOrdered` | PlaneProofs | `PlaneSpec => []EventsOrdered` |
| `PlaneTokensCovered` | PlaneProofs | `PlaneSpec => []SpentWithinGrants` |
| `PlanePartitionsFollow` | PlaneProofs | `PlaneSpec => PartitionsFollow` |

`WindowsBounded` and the sliding window's part of `RetriesExact` ask for calls
in the order of their times, which is how the write endpoints make them come
(`idemMu` is held over the evaluation) and how `RateFlow` checks them. Without
that order they are false: a late event lies in front of the list and the
search for the window's edge looks past it.

*Data.* The theorems of the library that stand for induction cannot be
instantiated, so proofs about loops, sums and sequences rest on two lemmas of
UnitLemmas: a set of naturals that is not empty has a least element
(`LeastElement`), of which a least counterexample is the use, and a loop has a
function of its values, round by round (`LoopExists`). From them come the sums
over a finite set: they do not depend on the order, a change of one
summand changes the sum by as much, and a set of blocks of units has the sum of
their costs.

*The engine.* `ExactCharge` (what a counter holds is the cost of what is
charged on it) is not inductive: a step of a call changes one variable of it
and the derived set `Held` follows from several. `Inv1` (EngineProofs) is
`TypeOK` and `Shape`: a call that loops works on an item it has; positions
accepted and undone are positions of its chain; a call has a reservation only
if it is a `Reserve` that has returned; whoever refunds is the holder of
`resMu`, and what is refunded is cancelled or expired. With it, each action is
shown to do one of three things to `Held`: leave it as it is
(`Keeps`), add one position and its cost (`Adds`; only `Admit`), or remove one
position and its cost (`Removes`; `GiveBack` and `Refund`). From these three
facts alone `Inv2` follows for every counter: what is charged on it is finite,
equals `used`, and is at most the limit. That is where the floor of `Less`
matters: the invariant shows that the subtraction never meets it, so that it
hides no double refund. Costs are counted by sets: a position of cost `n`
stands for `n` units (`UnitLemmas`: adding a block of units adds its cost,
removing one subtracts it), which keeps sums out of these proofs.

*The engine and the ledger.* Under the same two invariants every action of the
engine is a step of the ledger or none, one lemma for each
action: what a request holds and where it stands in the ledger follow from
`pc`, `status` and the refund, `Admit` has the room that `Take` asks for because
`used` is exact, and the two counters that a refund and a decision touch are
apart because a request is in one of the two phases only.

*The write endpoints.* Every step of `Api` is a step of the engine or leaves it
alone (`ApiKeepsEngine`), so what is proved of the engine holds here. `AInv`
adds: a call that runs holds `idemMu`, whatever was told as an outcome was
saved, what was saved was of the body of its call, a saved record is kept until
it has lapsed, and a request that runs found no live record when it began. The
last is what makes `ChargedOnce` inductive: a second execution begins only after
the first has been answered with an error or its record has lapsed.

*The rate algorithms.* `RegistryInv` has a part for each algorithm, since a
behaviour picks one. Every step is one of three for the log: a call enters it, a
call leaves or only reads, or the clock moves. For the buckets `RateBound`
speaks of two charges, the invariant of each charge and the present: what was
let through since it, with what is free now, is at most a full bucket and what
has flowed in between the two stamps (`Potential`). What flows in is never more
than the difference of two stamps times the rate, also when that is negative,
which is why neither overlapping calls nor a clock that is set back can add to
it. For the fixed window no charge belongs to a later window than the counter,
and what was charged since one of the same window is on the counter
(`FixedInv`); that is where the order of calls is needed. For the sliding window
the list is in the order of time and what was charged since a charge within the
window is on events that are no older (`Covered`); the binary search
(`Searches`, its loop) finds the edge of the window in a list that is in order,
and `Release` takes from the newest events no more than its cost
(`DeductedFacts`). `RetryExact` is a consequence of what a denial has read,
without an invariant of its own.

*The audit bus.* `AInv`: queue and sink have no event twice, the five places of
an event are disjoint and together the events of the handlers that are done
(`Books`); and `Closing` follows the shutdown: once `closing` is set only
detached handlers are still to publish, `Run` leaves its loop only after `stop`,
and once it has ended the queue has events of detached handlers only.

*The configuration.* `CInv`: versions are numbered without a gap, whoever is
between the save and the activation has the mutex and its version is the last,
each publication has a number of its own, and what it told its client fits.
`DInv` says that each version, and each on its way into the store, is a list
that `ValidateDefinitions` accepts, with its number written into it.
`VersionsResolve` then is about such lists: the levels above a definition are
sets, one parent each at most (`Levels`); in a list without a cycle no level
returns to an earlier one (`NoReturn`), so a walk of more rounds than there are
definitions would need more than there are, and the last definition that it
found has no parent (`ChainFacts`). Writing the number into the definitions
changes neither parents nor verdict (`NumberedValid`).

*The leases.* `LInv`: the epoch of the lease is the highest of all handed out
(`Newest`), one epoch was handed to one node (`OnePerEpoch`), a renewal has a
lease to renew (`InHand`), and what a node was told is true as long as it runs
(`Truthful`). `GInv` adds that the guard's best answer was handed out, from
which `AnswersFenced` follows, and `TInv` that what is left of a lent amount is
covered by what its epoch was granted and has not spent (`RestCovered`):
`SpentWithinGrants` on its own does not survive a grant that resets what was
consumed. Each step of Plane is shown to be a step of the leases or of the
tokens, a tick of their clock, or none of theirs.

*The ring.* `SetNodes` puts the points in order of their hashes (`RingShape`,
which is all that is needed of a ring). The start of the walk is the first
point at or behind the key, or the first of all, so that the distance clockwise
from the key grows with the offset (`Farther`) and no point is left out
(`AroundFacts`). The invariant of the walk (`Noted`) says of its first `o`
rounds that the nodes found are those met, each once and in the order in which
they were first met; as the walk ends with enough nodes or after all points,
`LocateNearest` follows. `KeysStay` compares two rings by these distances: a
node that neither ring has dropped has the same virtual nodes as before, and
the nodes that one walk names before it are, by counting, those that the other
must name, too (`NamedStay`).

*The usage ledgers.* A counter's version goes up with each write, so what a
writer has seen is the counter as it was at that version (`SeenIsPast`), and who
is about to swap has checked this sum (`Checked`): `SwapsKeepCeiling`.
`BooksBalance` is a sum over the buffers, over their events and over the writers
that have stored and not recorded: each step moves one summand from one place to
another (`WriteBooks`, `RecordBooks`, `CompactBooks`), and what a compaction
reports and keeps add up to what there was (`RemainingFacts`). `EventsOrdered`
needs that no event is of a time to come.

*The hotspots.* `HInv`: counts and partitions are what they should be, and a
key that has more than one partition was split for a rate above the threshold.
`Split` ends with enough partitions or at the bound (`SplitFacts`, the values of
its loop); a rate below a quarter of the threshold is below a quarter of any
rate that a key was split for (`QuarterOf`).

Only model-checked: liveness, which is out of the prover's reach
(`RequestsAnswered`, `PendingSettles`, `RefundCompletes`, `ShutdownEnds`). Every
invariant and every action property that a run checks and finds to hold is a
theorem above; the four violations are counterexamples of TLC.

## What the checks found in the code

Each has a run that shows it and an entry in `PROJECT.json`.

- `ApiTimeoutRetry`: a context that ends after the engine has charged and
  before `Save` stores the record leaves the charge without a record; the
  retry is charged again. `ChargedOnce` states what does hold.
- `LateRefund`: the fixed window's `Release` does not look at the window; a
  refund after the window has turned frees capacity of the new one.
- `ScopeConflict`: `*` and the empty string are different strings to the
  conflict check and the same pattern to the matcher, so two definitions with
  one scope are published, one of them never to be matched.
- `AuditSignal`: `Run` appends with the signal context, so an event taken
  between the signal and `stop` is refused by the sink and nobody counts it.

Seen on the way with the same modules, without a run of their own: a batch that
fails at a later item keeps the charges of the earlier ones and is charged
again by its retry (`RetryNeverRecharges`); the sliding window's `Release` takes
the cost from the newest events, so refunding an old reservation forgets newer
charges (`KeptWithinLimit`); a wall clock that is set back over a boundary
empties a fixed window (`StepsBack`), which README.md:22 excludes; with an
injected clock that is set back the token bucket drains (negative elapsed
time), although README.md:22 speaks of non-negative time; a detached handler
can send after the drain, into a queue nobody reads, although `bus.go:75-76`
excludes it (`CloseDrains` is about the others); `Publish` does not look at a
draft's base version, so the later of two drafts of one base undoes the
earlier; `Chain` does not look at `enabled`, so a disabled parent still counts.
`src/README.md` also names a `cmd/load-simulator` that is not in the repository.

While modelling the distributed parts and the definitions:

- The guard drops the error of `Acquire` (`runtime.go:62-65`): when another node
  holds the lease, the decision is made all the same and carries the ring's
  epoch, a number of another counter, which a caller that follows
  src/README.md:20 may take for newer than the holder's. `AnswersFenced` is
  therefore about the answers under a lease.
- The guard does not look whether its node is the primary of the assignment
  either, and it runs after the charge (`engine.go:51-56`): a node that has lost
  its lease has charged by the time it learns that.
- A replay of an idempotent request returns the epoch of its first answer,
  which may be lower than one the client has seen since.
- Leases and epochs are not kept across a restart.
- A full ledger buffer drops its oldest events without a trace and
  `CompareAndAdjust` does not look at the bound; where the store stops at zero
  the event still reports the whole delta. `BooksBalance` has a term for each.
- A key that is no longer observed keeps its partitions: `Evaluate` visits only
  the keys of the interval, so nothing ever merges a key that has gone silent.
- A parent's counter key is built from the request's own scope
  (`engine.go:46`), so the budget that the default definitions describe as
  global is one for each combination of dimensions.
- A `hierarchical` definition needs no window (`model.go:111`); with none, each
  instant is a fixed window of its own and only a cost above the limit is denied. Its mode may
  be empty, which counts as `strong` but may have a `max_overage`.
- `reservation_reap_interval` is not checked to be positive (`config.go:115`); zero makes
  `time.NewTicker` in `RunReaper` panic.

## What is not modelled

- `float64` rounding in the buckets and in the hotspots' rates, and int64 width:
  amounts, `used+cost` and `ttl_ms` in nanoseconds are numbers that fit. With a
  cost near 2^63 the sum of `evaluators.go:30` wraps around and fits; with a
  large `ttl_ms` the lifetime of `engine.go:138` does.
- `unsupported_algorithm` and the error of `Chain`: `ValidateDefinitions` lets
  no such definition become active.
- The shadow decision (a dry run on one more counter), and inside `Engine` the
  audit events and the guard: they change no counter and no verdict, and have
  modules of their own.
- The charges of several nodes: the algorithms' counters are one process's, so
  what a fenced epoch would have to protect does not exist in the program.
- Two virtual nodes with one hash: `sort.Slice` is not stable and leaves their
  order open. `RingAssumption` excludes it, as is so for the program's two nodes.
- Expired idempotency records stay in the map (`DeleteExpired` has no caller);
  in `Api` they are merely dead.
- `Close` for a second caller: the program has one.
- Random IDs (assumed unique), formatting, metrics, parsing of requests.
- `Validate` and the other reads of the configuration service.
- The reads of the other components: `List`, `Epoch`, `Snapshot`,
  `PendingEvents`, `Corrections`, `Partition`; `ConservativeAllowance` compares.
- The middleware's authentication, body limit, panic recovery and request IDs,
  which keep no state; that its map of clients never shrinks.
- The configuration file: a parser that runs once. Descriptions (`api/`), the
  SQL schema, the container files and the smoke script contain no behaviour of
  the program.

## Plan

Done: the ledger and the engine, the write endpoints, the rate algorithms and
the middleware's bucket, the audit bus, the configuration service, the leases,
the ring, the guard and the three components without a caller; the refinements
of the ledger, of the version log and of the fenced lock; the proofs of these and
of every safety property that a run checks.

Left, the most important first:

1. The composition of the definitions with the counters: the counter key that a
   parent gets from the request's scope, a hierarchical definition without a
   window.
2. Width: `used+cost` and `ttl_ms` modulo `2^w`.
3. Sharper theorems where the code allows them: what the sliding window lets
   through when calls overlap, by how much a late `Release` of the fixed window
   can exceed a limit.
