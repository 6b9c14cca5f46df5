------------------------- MODULE MCBlanketAgreement -------------------------
(* Lines of blanket quantity 2; a call-off draws 1 or 2, or 1 on each of   *)
(* two draws that may name the same line or two lines in either order.     *)
EXTENDS BlanketAgreement, TLC

MCBlanket == [l \in Line |-> 2]

D(l, q) == [line |-> l, quantity |-> q]
MCRequests ==
    {<<D(l, 2)>> : l \in Line} \union {<<D(l, 1), D(k, 1)>> : l \in Line, k \in Line}

Symmetry == Permutations(Client) \union Permutations(Line) \union Permutations(Order)
             \union Permutations(Rates)
=============================================================================
