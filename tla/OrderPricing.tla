---------------------------- MODULE OrderPricing ----------------------------
(***************************************************************************)
(* What a document is worth, and the rate it is worth it at: the pure part *)
(* of order and quotation creation, and what the columns keep of it.       *)
(*                                                                         *)
(* Numbers are whole: quantities and tax percentages in hundredths, rates  *)
(* in thousandths (a caller may send more digits than the cents a rate     *)
(* column keeps), amounts in hundredths.                                   *)
(***************************************************************************)
EXTENDS Integers, Sequences

\* What a caller may say of a line's two methods; "none" is an absent one.
LineMethod == {"none", "stock_moves", "manual"}

\* Plausible bug: the digits beyond the unit are cut off.
Truncated(v, unit) == IF v < 0 THEN -((-v) \div unit) ELSE v \div unit

\* v in multiples of unit, to the nearest, a half away from zero.
Rounded(v, unit) ==
    IF v < 0 THEN -((unit - 2 * v) \div (2 * unit)) ELSE (2 * v + unit) \div (2 * unit)

\* money(quantity * rate) of one line.
LineAmount(line) == Rounded(line.quantity * line.rate, 1000)

\* The amounts of the lines, added up.
Subtotal(lines) ==
    LET sum[n \in 0 .. Len(lines)] ==
            IF n = 0 THEN 0 ELSE sum[n - 1] + LineAmount(lines[n])
    IN  sum[Len(lines)]

\* money(subtotal * tax_rate / 100).
TaxAmount(subtotal, taxRate) == Rounded(subtotal * taxRate, 10000)

\* A document has lines, and none has a negative quantity or rate.
Priceable(lines) ==
    /\ lines # <<>>
    /\ \A i \in DOMAIN lines : lines[i].quantity >= 0 /\ lines[i].rate >= 0

MethodsKnown(lines) == \A i \in DOMAIN lines : lines[i].method \in LineMethod

\* Plausible bug: a foreign currency without a rate falls back to the default.
ResolvesByDefault(currency, supplied, home) == supplied >= 0

\* An order in the home currency has the rate one, whatever was supplied; any
\* other needs a positive rate from its caller.
One == 100
RateResolves(currency, supplied, home) == currency = home \/ supplied > 0
ResolveRate(currency, supplied, home) == IF currency = home THEN One ELSE supplied

\* What the rows keep: the rate columns have two decimals.
StoredLines(lines) ==
    [i \in DOMAIN lines |-> [lines[i] EXCEPT !.rate = 10 * Rounded(@, 10)]]
=============================================================================
