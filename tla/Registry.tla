------------------------------ MODULE Registry ------------------------------
(***************************************************************************)
(* The registry of algorithms (algorithm/application/evaluators.go,        *)
(* Registry): a definition's counter is handed to the algorithm that the   *)
(* definition names.  The four rate algorithms answer the callers of       *)
(* module Metering, one algorithm per behaviour; so does the bucket that   *)
(* the middleware keeps for a client, which is not in the registry.        *)
(*                                                                         *)
(* The windows are written for callers that come in the order of their     *)
(* times, as the write endpoints let them.  Of the buckets more is asked:  *)
(* their callers overlap, and the clock may be set back.                   *)
(***************************************************************************)
EXTENDS Metering

VARIABLES
  algorithm,  \* the algorithm of the definition
  start, used,      \* of the fixed window
  events,           \* of the sliding window
  tokens, updated,  \* of the token bucket, and of the visitor
  level             \* of the leaky bucket, which shares updated

stateVars == <<start, used, events, tokens, updated, level>>
vars == <<callerVars, algorithm, stateVars>>

Fixed   == INSTANCE FixedWindow
Sliding == INSTANCE SlidingWindow
Token   == INSTANCE TokenBucket WITH Overlap <- TRUE, StepsBack <- TRUE
Leaky   == INSTANCE LeakyBucket WITH Overlap <- TRUE, StepsBack <- TRUE
Visitor == INSTANCE VisitorLimit WITH
  Cost <- [c \in Calls |-> 1], Dry <- {}, Refunded <- {}, Overlap <- TRUE

(* Registry.For: a hierarchical quota is a fixed window. *)
For(name) ==
  CASE name \in {"fixed_window", "hierarchical"} -> "fixed_window"
    [] OTHER                                     -> name

Names == {"fixed_window", "hierarchical", "sliding_window", "token_bucket", "leaky_bucket"}

Init ==
  /\ algorithm \in {For(name) : name \in Names} \cup {"visitor"}
  /\ Fixed!Init /\ Sliding!Init /\ Token!Init /\ level = 0

FixedNext ==
  /\ algorithm = "fixed_window"
  /\ Fixed!Next
  /\ UNCHANGED <<events, tokens, updated, level>>

SlidingNext ==
  /\ algorithm = "sliding_window"
  /\ Sliding!Next
  /\ UNCHANGED <<start, used, tokens, updated, level>>

TokenNext ==
  /\ algorithm = "token_bucket"
  /\ Token!Next
  /\ UNCHANGED <<start, used, events, level>>

LeakyNext ==
  /\ algorithm = "leaky_bucket"
  /\ Leaky!Next
  /\ UNCHANGED <<start, used, events, tokens>>

VisitorNext ==
  /\ algorithm = "visitor"
  /\ Visitor!Next
  /\ UNCHANGED <<start, used, events, level>>

Next ==
  /\ FixedNext \/ SlidingNext \/ TokenNext \/ LeakyNext \/ VisitorNext
  /\ UNCHANGED algorithm

Spec == Init /\ [][Next]_vars

(* The states of the algorithms; in the fixed window no release            *)
(* leaves the counter below zero and no charge leaves it over the limit.   *)
TypeOK ==
  /\ algorithm = "fixed_window"   => Fixed!TypeOK
  /\ algorithm = "sliding_window" => Sliding!TypeOK
  /\ algorithm = "token_bucket"   => Token!TypeOK
  /\ algorithm = "leaky_bucket"   => Leaky!TypeOK
  /\ algorithm = "visitor"        => Visitor!TypeOK

(* A window never lets more through than its limit, net of releases: in    *)
(* the same window of the grid, or in a window laid anywhere.              *)
WindowBound ==
  /\ algorithm = "fixed_window"   => Fixed!WindowBound
  /\ algorithm = "sliding_window" => Sliding!WindowBound

(* A bucket never lets more through than one bucketful and what flows in   *)
(* the meantime, net of releases, whatever the clock and the callers do.   *)
RateBound ==
  /\ algorithm = "token_bucket" => Token!RateBound
  /\ algorithm = "leaky_bucket" => Leaky!RateBound
  /\ algorithm = "visitor"      => Visitor!RateBound

(* retry_after of a denial is the time at which the request fits, to a     *)
(* tick; in the sliding window it is never later than that.                *)
RetryExact ==
  /\ algorithm = "fixed_window"   => Fixed!RetryExact
  /\ algorithm = "sliding_window" => Sliding!RetryNotLate
  /\ algorithm = "token_bucket"   => Token!RetryExact
  /\ algorithm = "leaky_bucket"   => Leaky!RetryExact

(* README: Check denies once the limit is reached.  What has been charged  *)
(* in a window and not been refunded stays within the limit.               *)
KeptWithinLimit ==
  /\ algorithm = "fixed_window"   => Fixed!KeptWithinLimit
  /\ algorithm = "sliding_window" => Sliding!KeptWithinLimit
=============================================================================
