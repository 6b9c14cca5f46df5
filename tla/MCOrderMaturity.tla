-------------------------- MODULE MCOrderMaturity --------------------------
(* Two lines: line 1 is received by the seam and billed on receipt, line 2 *)
(* is received by hand and billed on order.  The recompute tells three kinds *)
(* of header states apart: purchase, one in which lines may be deleted, and  *)
(* any other; the moves are those between one state of each kind.            *)
EXTENDS OrderMaturity, TLC

CONSTANTS a, b

MCLine == 1 .. 2
MCItem == {a, b}
MCItemOf == 1 :> a @@ 2 :> b
MCQuantity == 1 :> 1 @@ 2 :> 1
MCRecvMethod == 1 :> "stock_moves" @@ 2 :> "manual"
MCBillMethod == 1 :> "on_received" @@ 2 :> "purchase"

MCMoves == {m \in DeclaredMoves : {m[1], m[2]} \subseteq {"draft", "purchase", "cancelled"}}
NoMoves == {}

Symmetry == Permutations(Client)
=============================================================================
