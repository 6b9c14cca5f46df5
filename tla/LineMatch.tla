----------------------------- MODULE LineMatch -----------------------------
(***************************************************************************)
(* The lines of one purchase order and the arithmetic of the 3-way match:  *)
(* the per-line caps, the CHECK constraint of the lines table, and the     *)
(* fill-in-order spread of a quantity over the lines of an item.  There is *)
(* no state here; the modules that hold the watermarks extend this one.    *)
(*                                                                         *)
(* A line is identified by its position in `ORDER BY id`, so a set of      *)
(* natural numbers is enough.  What the verbs never change (item, ordered  *)
(* quantity, the two method columns) is constant.                          *)
(***************************************************************************)
EXTENDS Integers, Functions, FiniteSets

CONSTANTS
    Line,          \* the ids of the order's lines, in id order
    Item,          \* the items they order
    item,          \* item[l]         : column item_id
    quantity,      \* quantity[l]     : column quantity
    recvMethod,    \* recvMethod[l]   : column qty_received_method
    billMethod     \* billMethod[l]   : column purchase_method

ASSUME LineAssumption ==
    /\ Line \subseteq Nat /\ IsFiniteSet(Line)
    /\ item \in [Line -> Item]
    /\ quantity \in [Line -> Nat]
    /\ recvMethod \in [Line -> {"stock_moves", "manual"}]
    /\ billMethod \in [Line -> {"on_received", "purchase"}]

\* The columns a watermark transaction moves, and the direction.
Received == "received"
Billed   == "billed"
Returned == "returned"
Credited == "credited"
WatermarkKind == {Received, Billed, Returned, Credited}

OnReceivedColumn(k) == k \in {Received, Returned}

\* What a watermark can be: no line holds more than it ordered.
Quantities == UNION {0 .. quantity[l] : l \in Line}

AtLeastZero(n) == IF n > 0 THEN n ELSE 0

\* The two-formula billing bound: the ordered quantity for a line billed on
\* order, the received quantity r for a line billed on receipt.
BillingCap(l, r) == IF billMethod[l] = "purchase" THEN quantity[l] ELSE r

\* The CHECK constraint po_items_three_way_match and the non-negativity
\* checks of the two columns, for a line with watermarks r and b.
LineCheck(l, r, b) ==
    /\ 0 <= r /\ r <= quantity[l]
    /\ 0 <= b /\ b <= BillingCap(l, r)

\* Plausible bug: the seam's locking read without its stock_moves filter.
RowsOfAnyMethod(k, i, live) == {l \in live : item[l] = i}

\* The rows a transaction of kind k locks for item i: a seam receipt skips
\* the lines an operator receives by hand, every other kind takes them all.
RowsOf(k, i, live) ==
    {l \in live : item[l] = i /\ (k = Received => recvMethod[l] = "stock_moves")}

\* Plausible bug: a credit note bounded by the other watermark.
CapacityOfWrongColumn(k, l, r, b) ==
    CASE k = Received -> quantity[l] - r
      [] k = Billed   -> BillingCap(l, r) - b
      [] k = Returned -> AtLeastZero(r - b)
      [] k = Credited -> r

\* How far a transaction of kind k may still move line l.
Capacity(k, l, r, b) ==
    CASE k = Received -> quantity[l] - r
      [] k = Billed   -> BillingCap(l, r) - b
      [] k = Returned -> AtLeastZero(r - b)
      [] k = Credited -> b

Total(f, S) == SumFunctionOnSet(f, S)

\* Plausible bug: the loop over the rows that never counts the rest down.
SpreadWithoutCountingDown(cap, rows, qty) ==
    {[l \in Line |-> IF l \notin rows \/ cap[l] <= 0 \/ qty <= 0 THEN 0
                     ELSE IF cap[l] < qty THEN cap[l] ELSE qty]}

\* Fill in order, the loop over the rows in id order: a row sees the part of
\* qty that the rows before it left, and takes that much or what it has room
\* for, whichever is less.  The loop takes nothing once nothing is left, and
\* nothing from a row without room.
Spread(cap, rows, qty) ==
    {take \in [Line -> 0 .. AtLeastZero(qty)] :
        \A l \in Line :
            LET left == qty - Total(take, {k \in rows : k < l}) IN
            take[l] = IF l \notin rows \/ left <= 0 \/ cap[l] <= 0 THEN 0
                      ELSE IF left < cap[l] THEN left ELSE cap[l]}
=============================================================================
