-------------------------------- MODULE MCApi --------------------------------
(* Instances of Api: a client that retries under one idempotency key.      *)
EXTENDS Api, TLC

One(chain, cost) == <<[chain |-> chain, cost |-> cost]>>

MCLimit == "leaf" :> 2 @@ "root" :> 2

(* A reservation, its retry, a different body under the same key, and a    *)
(* commit of the first reservation.                                        *)
RetryCalls   == {"first", "retry", "changed", "commit"}
RetryKind    == [c \in RetryCalls |-> IF c = "commit" THEN "commit" ELSE "reserve"]
RetryItems   == "first" :> One(<<"leaf", "root">>, 1) @@ "retry" :> One(<<"leaf", "root">>, 1)
                @@ "changed" :> One(<<"leaf">>, 1) @@ "commit" :> <<>>
RetryConsume == [c \in RetryCalls |-> TRUE]
RetryTTL     == [c \in RetryCalls |-> 1]
RetryTarget  == [c \in RetryCalls |-> "first"]
RetryScope   == [c \in RetryCalls |-> IF c = "commit" THEN "commit:k2" ELSE "reserve:k1"]
RetryBody    == [c \in RetryCalls |-> IF c = "changed" THEN "b2" ELSE "b1"]

(* A reservation, its retry and the cancellation of the first.             *)
LiveCalls   == {"first", "retry", "cancel"}
LiveKind    == [c \in LiveCalls |-> IF c = "cancel" THEN "cancel" ELSE "reserve"]
LiveItems   == [c \in LiveCalls |-> IF c = "cancel" THEN <<>> ELSE One(<<"leaf", "root">>, 1)]
LiveConsume == [c \in LiveCalls |-> TRUE]
LiveTTL     == [c \in LiveCalls |-> 1]
LiveTarget  == [c \in LiveCalls |-> "first"]
LiveScope   == [c \in LiveCalls |-> IF c = "cancel" THEN "cancel:k2" ELSE "reserve:k1"]
LiveBody    == [c \in LiveCalls |-> "b1"]
=============================================================================
