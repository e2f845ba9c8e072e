----------------------------- MODULE FencedLock -----------------------------
(***************************************************************************)
(* What the leases of one shard promise: a lock with at most one holder,   *)
(* whose token grows whenever it is taken.  A holder that has lapsed may   *)
(* come back under its old token, but only while nobody else has taken the *)
(* lock and only if it has not dropped it.                                 *)
(***************************************************************************)
EXTENDS Integers

CONSTANTS Nodes, None

VARIABLES
  holder,  \* who holds the lock, or None
  token,   \* the token it was last taken with
  last     \* who may hold it under that token: None when it was dropped

fvars == <<holder, token, last>>

FInit == holder = None /\ token = 0 /\ last = None

Take(n) ==
  /\ holder = None
  /\ holder' = n /\ last' = n
  /\ token' = token + 1

Resume(n) ==
  /\ holder = None /\ last = n
  /\ holder' = n
  /\ UNCHANGED <<token, last>>

Lapse ==
  /\ holder' = None
  /\ UNCHANGED <<token, last>>

Drop ==
  /\ holder' = None /\ last' = None
  /\ UNCHANGED token

FNext == Lapse \/ Drop \/ \E n \in Nodes : Take(n) \/ Resume(n)

FSpec == FInit /\ [][FNext]_fvars
=============================================================================
