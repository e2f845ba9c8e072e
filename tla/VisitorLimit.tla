---------------------------- MODULE VisitorLimit ----------------------------
(* The middleware's limit on one client (platform/adapter/middleware.go,    *)
(* rateLimit): Limit requests in a Window, which is a second, and as many  *)
(* at once.  Each request costs one token; a request that is turned away   *)
(* costs none, but what has flowed in until then is accounted for.         *)
(* time.Now is read before the mutex is taken.  Tokens are counted in      *)
(* parts of 1/Window, as in module TokenBucket.                            *)
EXTENDS Metering

VARIABLES
  tokens,  \* the visitor's tokens, in parts
  updated  \* when they were counted, or None before the first request

vars == <<callerVars, tokens, updated>>

Full == Limit * Window

Counted(t) ==
  LET grown == tokens + (t - updated) * Limit IN
  IF updated = None \/ grown > Full THEN Full ELSE grown

Admits(t) == Counted(t) >= Window

Init == CallersInit /\ tokens = 0 /\ updated = None

Request(c) ==
  /\ Answer(c, Admits(at[c]))
  /\ updated' = at[c]
  /\ tokens' = Counted(at[c]) - (IF Admits(at[c]) THEN Window ELSE 0)

Next ==
  \/ \E c \in Calls : ReadClock(c) /\ UNCHANGED <<tokens, updated>>
  \/ \E c \in Calls : Request(c)
  \/ SetClock /\ UNCHANGED <<tokens, updated>>

Spec == Init /\ [][Next]_vars

TypeOK == CallersTypeOK /\ tokens \in Int /\ tokens <= Full /\ updated \in 0..MaxTime \cup {None}

(* From one request that is let through to a later one, no more than a     *)
(* second's worth and what flows in between the times that they read,      *)
(* although requests take the mutex in another order than they read them.  *)
RateBound ==
  \A i, j \in Charges :
    i <= j => Flow(i, j) * Window <= Full + (TimeOf(j) - TimeOf(i)) * Limit
=============================================================================
