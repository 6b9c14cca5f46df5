-------------------------- MODULE MCSourcingFunnel --------------------------
(* Two callers, one request of two lines that is converted over and over.  *)
(* A rate of 0.125 has a digit more than its column; 0.50 and 1.50 of       *)
(* something at 0.05 both end in half of the smallest amount, so the sum of *)
(* the rounded amounts is not the rounded sum.                             *)
EXTENDS SourcingFunnel, TLC

Line(q, r, m) == [item |-> "i", quantity |-> q, rate |-> r, method |-> m]

MCWants == {<<[item |-> "i", quantity |-> 50], [item |-> "i", quantity |-> 150]>>}
Offered(cur) ==
    [supplier |-> "s", currency |-> cur,
     lines |-> <<Line(300, 125, "none"), Line(50, 50, "none")>>]
MCOffers == {Offered("none")}
MCQuotes == {[i \in {"i"} |-> 50]}
MCInvitations == {<<"s">>, <<"s", "s">>}
MCBound == [request |-> 1, rfq |-> 1, quotation |-> 1, order |-> 2, deleted |-> 1]

\* Two orders may have two numbers or dispute one; of the other kinds there is
\* one document, so two callers dispute its number.
MCNumberOf == [request |-> {1}, rfq |-> {1}, quotation |-> {1}, order |-> {1, 2}]

Symmetry == Permutations(Client)
=============================================================================
