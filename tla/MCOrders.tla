------------------------------ MODULE MCOrders ------------------------------
(* Instances of Orders for TLC.                                            *)
EXTENDS Orders, TLC

CONSTANTS r1, r2, r3, ann, bob, shirt, mug, sale

\* r1 and r2 want both skus in opposite orders, so that each can hold what the
\* other misses; r3 wants one mug without a code.
MCLines == (r1 :> <<[sku |-> shirt, qty |-> 1], [sku |-> mug, qty |-> 2]>>)
        @@ (r2 :> <<[sku |-> mug, qty |-> 1], [sku |-> shirt, qty |-> 1]>>)
        @@ (r3 :> <<[sku |-> mug, qty |-> 1]>>)

MCUsers == (r1 :> ann) @@ (r2 :> bob) @@ (r3 :> ann)
MCCodes == (r1 :> sale) @@ (r2 :> sale) @@ (r3 :> NoCode)
TwoLines == [r \in {r1, r2} |-> MCLines[r]]
TwoUsers == [r \in {r1, r2} |-> MCUsers[r]]
TwoCodes == [r \in {r1, r2} |-> MCCodes[r]]
OneLines == [r \in {r1} |-> MCLines[r]]
OneUsers == [r \in {r1} |-> MCUsers[r]]
OneCodes == [r \in {r1} |-> MCCodes[r]]

\* The arrows of the order workflow that staff take (all but cancelling).
ForwardMoves == {<<"pending", "confirmed">>, <<"confirmed", "processing">>,
                 <<"processing", "shipping">>, <<"shipping", "delivered">>,
                 <<"shipping", "returned">>}

LimitOne == (sale :> 1)
NoFaults == {}
AllFaults == {"reserve", "movement", "slot", "number", "insert", "usage",
              "release", "revoke", "crash"}
Up == {1}
=============================================================================
