-------------------------- MODULE MCThreeWayMatch --------------------------
(* Three lines of two items: line 1 is received by the seam and billed on  *)
(* receipt, line 2 is received by hand, line 3 repeats the item of line 1  *)
(* and is billed on order.  The part of a receipt that names item b finds  *)
(* no line it may fill.                                                    *)
EXTENDS ThreeWayMatch, TLC

CONSTANTS a, b

MCLine == 1 .. 3
MCItem == {a, b}
MCItemOf == 1 :> a @@ 2 :> b @@ 3 :> a
MCQuantity == 1 :> 1 @@ 2 :> 1 @@ 3 :> 2
MCRecvMethod == 1 :> "stock_moves" @@ 2 :> "manual" @@ 3 :> "stock_moves"
MCBillMethod == 1 :> "on_received" @@ 2 :> "on_received" @@ 3 :> "purchase"

P(t, n) == [target |-> t, amount |-> n]
R(k, ps) == [kind |-> k, parts |-> ps]

\* Partial and whole quantities, both item orders, an item named twice, a
\* quantity past every cap, a zero quantity, and bill matches that name the
\* lines against id order.
MCRequests ==
    {R(Received, <<P(a, 2)>>), R(Received, <<P(a, 1), P(a, 2)>>), R(Received, <<P(a, 1), P(b, 1)>>),
     R(Billed, <<P(a, 1), P(b, 1)>>), R(Billed, <<P(b, 1), P(a, 2)>>),
     R(Returned, <<P(b, 1), P(a, 1)>>), R(Credited, <<P(b, 0), P(a, 2)>>),
     R(Matched, <<P(3, 1), P(1, 1)>>), R(Matched, <<P(2, 1)>>)}

Symmetry == Permutations(Client)
=============================================================================
