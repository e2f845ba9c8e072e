---------------------------- MODULE UsageLedger ----------------------------
(***************************************************************************)
(* The usage ledgers of several nodes (counter/application/ledger.go) over *)
(* one central store of counters (counter/infrastructure/memory.go).  A    *)
(* write changes the store under the store's mutex and appends an event to *)
(* the ledger's buffer under the ledger's: two steps, between which others *)
(* write and compact.  A writer that swaps keeps a limit: it reads the     *)
(* counter, sees that its delta fits, and swaps the version it read.       *)
(***************************************************************************)
EXTENDS Clock, Sequences, SequencesExt

CONSTANTS
  Ledgers,
  Writers,    \* writes, one each
  Method,     \* Method[w]: "adjust" or "swap"
  Through,    \* Through[w]: the ledger
  Counter,    \* Counter[w]: the counter key
  Delta,      \* Delta[w]
  Ceiling,    \* what a writer that swaps does not exceed
  MaxBuffer,  \* maxBuffer
  MaxLedgerTime  \* bound on the clock while there are writes

ASSUME UsageAssumption ==
  /\ IsFiniteSet(Ledgers) /\ IsFiniteSet(Writers)
  /\ Method \in [Writers -> {"adjust", "swap"}]
  /\ Through \in [Writers -> Ledgers]
  /\ Delta \in [Writers -> Int \ {0}]
  /\ Ceiling \in Nat /\ MaxBuffer \in Nat \ {0} /\ MaxLedgerTime \in Nat

Counters == {Counter[w] : w \in Writers}

VARIABLES
  entry,      \* entry[k]: items[k] of the store
  buffer,     \* buffer[l]: the events of a ledger
  stage,      \* stage[w]: "new", "read", "timed", "stored", "done" or "refused"
  seen,       \* seen[w]: the entry that w got from the store
  began,      \* began[w]: the time that w passes to the store
  compacted,  \* history, compacted[k]: what compactions have reported
  spilled,    \* history, spilled[k]: the events that the full buffer dropped
  floored     \* history, floored[k]: what the floor at zero added

books == <<compacted, spilled, floored>>
usageVars == <<now, entry, buffer, stage, seen, began, books>>

Unwritten == [used |-> 0, version |-> 0, updatedAt |-> 0]
Nothing == [k \in Counters |-> 0]

UsageInit ==
  /\ now = 0
  /\ entry = [k \in Counters |-> Unwritten]
  /\ buffer = [l \in Ledgers |-> <<>>]
  /\ stage = [w \in Writers |-> "new"]
  /\ seen = [w \in Writers |-> Unwritten]
  /\ began = [w \in Writers |-> 0]
  /\ compacted = Nothing /\ spilled = Nothing /\ floored = Nothing

Advance(w, from, to) == stage[w] = from /\ stage' = [stage EXCEPT ![w] = to]

(* A writer that swaps looks at the counter: it goes on if its delta fits. *)
Get(w) ==
  /\ Method[w] = "swap"
  /\ seen' = [seen EXCEPT ![w] = entry[Counter[w]]]
  /\ Advance(w, "new", "read")
  /\ UNCHANGED <<now, entry, buffer, began, books>>

Fits(w) == seen[w].used + Delta[w] <= Ceiling

(* It does not fit, or the context has ended when the store looks at it. *)
GiveUpWrite(w) ==
  /\ \/ ~Fits(w) /\ Advance(w, "read", "refused")
     \/ Advance(w, "timed", "refused")
  /\ UNCHANGED <<now, entry, buffer, seen, began, books>>

(* The arguments of the store's method are built: the clock is read. *)
ReadTime(w) ==
  /\ IF Method[w] = "swap" THEN Fits(w) /\ Advance(w, "read", "timed")
                           ELSE Advance(w, "new", "timed")
  /\ began' = [began EXCEPT ![w] = now]
  /\ UNCHANGED <<now, entry, buffer, seen, books>>

(* The store adds the delta, not below zero, and counts the version up. *)
Write(w) ==
  LET k   == Counter[w]
      sum == entry[k].used + Delta[w]
      low == IF sum < 0 THEN 0 - sum ELSE 0
  IN /\ entry' = [entry EXCEPT ![k] =
                    [used |-> sum + low, version |-> @.version + 1, updatedAt |-> began[w]]]
     /\ floored' = [floored EXCEPT ![k] = @ + low]
     /\ Advance(w, "timed", "stored")
     /\ UNCHANGED <<now, buffer, seen, began, compacted, spilled>>

StoreAdjust(w) == Method[w] = "adjust" /\ Write(w)

(* CompareAndSwap: another version is handed back instead. *)
SwapUnchecked(w) == Method[w] = "swap" /\ Write(w)  \* mutant: the version is not compared
Swap(w) ==
  /\ Method[w] = "swap"
  /\ \/ entry[Counter[w]].version = seen[w].version /\ Write(w)
     \/ /\ entry[Counter[w]].version # seen[w].version
        /\ seen' = [seen EXCEPT ![w] = entry[Counter[w]]]
        /\ Advance(w, "timed", "read")
        /\ UNCHANGED <<now, entry, buffer, began, books>>

(* What each event has added to a key, and what all of them have.          *)
Added(events, k) == [i \in DOMAIN events |-> IF events[i].key = k THEN events[i].delta ELSE 0]
Total(events, k) == SumFunctionOnSet(Added(events, k), DOMAIN events)

(* The event is appended with the time of the append.  Adjust drops the    *)
(* oldest events when there are too many; CompareAndAdjust does not look.  *)
RecordTimed(w) ==  \* mutant: the event gets the time that the store got
  LET l   == Through[w]
      all == Append(buffer[l], [key |-> Counter[w], delta |-> Delta[w], at |-> began[w]])
      cut == IF Method[w] = "adjust" /\ Len(all) > MaxBuffer THEN Len(all) - MaxBuffer ELSE 0
  IN /\ buffer' = [buffer EXCEPT ![l] = SubSeq(all, cut + 1, Len(all))]
     /\ spilled' = [k \in Counters |-> spilled[k] + Total(SubSeq(all, 1, cut), k)]
     /\ Advance(w, "stored", "done")
     /\ UNCHANGED <<now, entry, seen, began, compacted, floored>>
Record(w) ==
  LET l   == Through[w]
      all == Append(buffer[l], [key |-> Counter[w], delta |-> Delta[w], at |-> now])
      cut == IF Method[w] = "adjust" /\ Len(all) > MaxBuffer THEN Len(all) - MaxBuffer ELSE 0
  IN /\ buffer' = [buffer EXCEPT ![l] = SubSeq(all, cut + 1, Len(all))]
     /\ spilled' = [k \in Counters |-> spilled[k] + Total(SubSeq(all, 1, cut), k)]
     /\ Advance(w, "stored", "done")
     /\ UNCHANGED <<now, entry, seen, began, compacted, floored>>

(* Compact goes through the events: it keeps those that are after a time   *)
(* and reports the sum of the others for each key.                         *)
Remaining(events, before) ==
  LET kept[i \in 0..Len(events)] ==
        IF i = 0 THEN <<>>
        ELSE IF events[i].at > before THEN Append(kept[i - 1], events[i])
        ELSE kept[i - 1]
  IN kept[Len(events)]

CompactBefore(l, before) ==  \* mutant: the events of that very time are lost
  LET taken == {i \in DOMAIN buffer[l] : buffer[l][i].at < before}
  IN /\ compacted' = [k \in Counters |-> compacted[k] + SumFunctionOnSet(Added(buffer[l], k), taken)]
     /\ buffer' = [buffer EXCEPT ![l] = Remaining(@, before)]
     /\ UNCHANGED <<now, entry, stage, seen, began, spilled, floored>>
Compact(l, before) ==
  LET taken == {i \in DOMAIN buffer[l] : buffer[l][i].at <= before}
  IN /\ compacted' = [k \in Counters |-> compacted[k] + SumFunctionOnSet(Added(buffer[l], k), taken)]
     /\ buffer' = [buffer EXCEPT ![l] = Remaining(@, before)]
     /\ UNCHANGED <<now, entry, stage, seen, began, spilled, floored>>

UsageTick == now < MaxLedgerTime /\ Tick /\ UNCHANGED <<entry, buffer, stage, seen, began, books>>

UsageNext ==
  \/ \E w \in Writers :
       Get(w) \/ GiveUpWrite(w) \/ ReadTime(w) \/ StoreAdjust(w) \/ Swap(w) \/ Record(w)
  \/ \E l \in Ledgers, before \in 0..MaxLedgerTime : Compact(l, before)
  \/ UsageTick

UsageTypeOK ==
  /\ \A k \in Counters : entry[k].used \in Nat /\ entry[k].version \in Nat
  /\ stage \in [Writers -> {"new", "read", "timed", "stored", "done", "refused"}]
  /\ \A l \in Ledgers : \A i \in DOMAIN buffer[l] : buffer[l][i].at \in 0..now

(* A counter is what compactions have reported, what is in the buffers and *)
(* what is on its way into one, up to the two losses: events that a full   *)
(* buffer dropped, and amounts below zero, which are reported in full.     *)
UnderWay(k) ==
  SumFunctionOnSet(Delta, {w \in Writers : stage[w] = "stored" /\ Counter[w] = k})
BooksBalance ==
  \A k \in Counters :
    entry[k].used = compacted[k] + spilled[k] + floored[k] + UnderWay(k)
                      + SumFunctionOnSet([l \in Ledgers |-> Total(buffer[l], k)], Ledgers)

(* Writers that swap what they have read do not together exceed the limit  *)
(* that each of them has checked, as long as all that add swap.            *)
SwapsKeepCeiling ==
  \A k \in Counters :
    (\A w \in Writers : Counter[w] = k /\ Delta[w] > 0 => Method[w] = "swap")
      => entry[k].used <= Ceiling

(* The events of a ledger are in the order of their times, although writes *)
(* reach the store in another: a compaction takes a prefix of the buffer,  *)
(* and its FirstAt and LastAt are the first and the last time.             *)
EventsOrdered ==
  \A l \in Ledgers : \A i, j \in DOMAIN buffer[l] : i < j => buffer[l][i].at <= buffer[l][j].at
=============================================================================
