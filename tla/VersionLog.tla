----------------------------- MODULE VersionLog -----------------------------
(***************************************************************************)
(* What the configuration service promises of its versions: they are a log *)
(* that only grows, and the active one is only ever switched to the newest *)
(* (README: publishing switches the active version atomically, a rollback  *)
(* makes a new version, and no version changes).                           *)
(***************************************************************************)
EXTENDS Integers, Sequences

VARIABLES
  history,  \* the versions, in the order of their numbers
  current   \* the number of the active one

logVars == <<history, current>>

LogInit == Len(history) = 1 /\ current = 1

Extend ==
  /\ Len(history') = Len(history) + 1
  /\ \A n \in 1..Len(history) : history'[n] = history[n]
  /\ UNCHANGED current

Switch ==
  /\ current' = Len(history)
  /\ UNCHANGED history

LogSpec == LogInit /\ [][Extend \/ Switch]_logVars
=============================================================================
