--------------------------- MODULE SourcingChain ---------------------------
(***************************************************************************)
(* What the sourcing funnel promises, without callers, transactions or     *)
(* numbers: documents only accumulate; each one copies its lines from the  *)
(* document it was converted from; a source is advanced to `ordered` only  *)
(* when its successor exists.  A request advances together with its RFQ, a *)
(* quotation at some later moment than its order, or never.                *)
(*                                                                         *)
(* Documents are identified by their position.  0 stands for no source.    *)
(***************************************************************************)
EXTENDS Integers, Sequences

VARIABLES
    request,     \* request[m]   : [lines, ordered]
    rfq,         \* rfq[r]       : [request, lines]
    quotation,   \* quotation[q] : [rfq, supplier, currency, lines, ordered]
    order        \* order[o]     : [quotation, supplier, currency, lines]

chainVars == <<request, rfq, quotation, order>>

\* new is old with one more document at its end.
Grows(old, new) ==
    /\ Len(new) = Len(old) + 1
    /\ \A i \in DOMAIN old : new[i] = old[i]

LastOf(s) == s[Len(s)]

\* What the priced lines ask for, without their rates.
WantedOf(lines) ==
    [i \in DOMAIN lines |-> [item |-> lines[i].item, quantity |-> lines[i].quantity]]

ChainInit == request = <<>> /\ rfq = <<>> /\ quotation = <<>> /\ order = <<>>

RaiseRequest ==
    /\ Grows(request, request') /\ ~LastOf(request').ordered
    /\ UNCHANGED <<rfq, quotation, order>>

\* Suppliers are asked for what a request wants; it is ordered from then on.
AskFor(m) ==
    /\ rfq' = Append(rfq, [request |-> m, lines |-> request[m].lines])
    /\ request' = [request EXCEPT ![m].ordered = TRUE]
    /\ UNCHANGED <<quotation, order>>

\* A quotation answers all lines of an RFQ, or is entered by hand for anything.
Quote ==
    /\ Grows(quotation, quotation')
    /\ LET new == LastOf(quotation') IN
          /\ ~new.ordered
          /\ \/ new.rfq = 0
             \/ new.rfq \in DOMAIN rfq /\ WantedOf(new.lines) = rfq[new.rfq].lines
    /\ UNCHANGED <<request, rfq, order>>

\* An order has the supplier, currency and lines of its quotation, or is
\* entered by hand.
PlaceOrder ==
    /\ Grows(order, order')
    /\ LET new == LastOf(order') IN
          \/ new.quotation = 0
          \/ /\ new.quotation \in DOMAIN quotation
             /\ LET q == quotation[new.quotation] IN
                   /\ new.supplier = q.supplier /\ new.currency = q.currency
                   /\ new.lines = q.lines
    /\ UNCHANGED <<request, rfq, quotation>>

\* A quotation that has an order is recorded as ordered.
Settle(q) ==
    /\ \E o \in DOMAIN order : order[o].quotation = q
    /\ quotation' = [quotation EXCEPT ![q].ordered = TRUE]
    /\ UNCHANGED <<request, rfq, order>>

ChainNext ==
    \/ RaiseRequest \/ Quote \/ PlaceOrder
    \/ \E m \in DOMAIN request : AskFor(m)
    \/ \E q \in DOMAIN quotation : Settle(q)

ChainSpec == ChainInit /\ [][ChainNext]_chainVars
=============================================================================
