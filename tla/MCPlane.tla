------------------------------- MODULE MCPlane -------------------------------
EXTENDS Plane

(* Two nodes ask for leases, a third is only on the ring. *)
MCPosition == [n \in Members |-> IF n = CHOOSE m \in Nodes : TRUE THEN <<1, 6>>
                                 ELSE IF n \in Nodes THEN <<0, 4>> ELSE <<8, 2>>]
MCKeyHash == [k \in Keys |-> k]

MCMethod  == "w1" :> "swap" @@ "w2" :> "swap" @@ "w3" :> "adjust" @@ "w4" :> "adjust"
MCThrough == "w1" :> "la" @@ "w2" :> "lb" @@ "w3" :> "la" @@ "w4" :> "la"
MCCounter == "w1" :> "k" @@ "w2" :> "k" @@ "w3" :> "k" @@ "w4" :> "m"
MCDelta   == "w1" :> 2 @@ "w2" :> 2 @@ "w3" :> 0 - 3 @@ "w4" :> 1

MCCosts == {1, 2, 0 - 1}
=============================================================================
