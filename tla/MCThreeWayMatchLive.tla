------------------------ MODULE MCThreeWayMatchLive ------------------------
(* Two lines of two items, the second received by hand, and the requests   *)
(* that make transactions wait for each other: two bills that name the two *)
(* items in opposite orders, a bill match that names its lines against id  *)
(* order, and a return that never fits before something was received.      *)
EXTENDS ThreeWayMatch, TLC

CONSTANTS a, b

MCLine == 1 .. 2
MCItem == {a, b}
MCItemOf == 1 :> a @@ 2 :> b
MCQuantity == 1 :> 1 @@ 2 :> 1
MCRecvMethod == 1 :> "stock_moves" @@ 2 :> "manual"
MCBillMethod == 1 :> "on_received" @@ 2 :> "purchase"

P(t, n) == [target |-> t, amount |-> n]
R(k, ps) == [kind |-> k, parts |-> ps]

MCRequests ==
    {R(Received, <<P(a, 1)>>),
     R(Billed, <<P(a, 1), P(b, 1)>>), R(Billed, <<P(b, 1), P(a, 1)>>),
     R(Returned, <<P(a, 1)>>),
     R(Matched, <<P(2, 1), P(1, 1)>>)}
=============================================================================
