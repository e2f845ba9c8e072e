-------------------------------- MODULE Plane --------------------------------
(***************************************************************************)
(* The distributed parts of the plane: the guard with its leases and its   *)
(* ring, the ring on its own, the usage ledgers, the lent tokens and the   *)
(* hotspots.  The program gives them one clock and lets none of them call  *)
(* another except in the guard, so a behaviour runs one of them.           *)
(***************************************************************************)
EXTENDS Guard, UsageLedger, TokenLeases, Hotspot

VARIABLE part  \* the part that runs

ledgerVars == <<entry, buffer, stage, seen, began, books>>
lentVars   == <<tokenLease, corrections, given, spent>>
splitVars  == <<counts, since, partitions, grownFor>>
leaseOnlyVars == <<lease, epoch, renewing, told, handed>>
askVars    == <<asked, answer, observed>>

planeVars == <<now, part, leaseOnlyVars, ringVars, askVars, ledgerVars, lentVars, splitVars>>

PlaneInit ==
  /\ \/ part = "guard" /\ GuardInit
     \/ /\ part \in {"ring", "usage", "tokens", "hotspots"}
        /\ LeaseInit /\ RingInit /\ NothingAsked
  /\ UsageInit /\ TokenInit /\ HotInit

RunGuard ==
  /\ part = "guard" /\ GuardNext
  /\ UNCHANGED <<ledgerVars, lentVars, splitVars>>

RunRing ==
  /\ part = "ring" /\ RingNext
  /\ UNCHANGED <<now, leaseOnlyVars, askVars, ledgerVars, lentVars, splitVars>>

RunUsage ==
  /\ part = "usage" /\ UsageNext
  /\ UNCHANGED <<leaseOnlyVars, ringVars, askVars, lentVars, splitVars>>

RunTokens ==
  /\ part = "tokens" /\ TokenNext
  /\ UNCHANGED <<leaseOnlyVars, ringVars, askVars, ledgerVars, splitVars>>

RunHotspots ==
  /\ part = "hotspots" /\ HotNext
  /\ UNCHANGED <<leaseOnlyVars, ringVars, askVars, ledgerVars, lentVars>>

PlaneNext ==
  /\ RunGuard \/ RunRing \/ RunUsage \/ RunTokens \/ RunHotspots
  /\ UNCHANGED part

PlaneSpec == PlaneInit /\ [][PlaneNext]_planeVars

(* The states of the part that runs. *)
PlaneTypeOK ==
  /\ part = "guard"    => GuardTypeOK
  /\ part = "usage"    => UsageTypeOK
  /\ part = "tokens"   => TokenTypeOK
  /\ part = "hotspots" => HotTypeOK

(* Locate names the nodes with the nearest virtual nodes, in the order of  *)
(* their distance, on a ring that is rebuilt in every way.                 *)
LocateNearest == part = "ring" => NearestFirst

(* A key leaves its primary only when that loses virtual nodes or the new  *)
(* one gains some, and the first replica takes over from a primary that    *)
(* falls out.                                                              *)
KeysStay == [][part = "ring" => Stable]_ringVars
=============================================================================
