---------------------------- MODULE MatchLedger ----------------------------
(***************************************************************************)
(* What the 3-way match promises, without transactions, locks or requests: *)
(* each committed change moves ONE watermark column in ONE direction, only *)
(* on live lines, and stays inside the bounds of the lines it moves.  Goods *)
(* billed on receipt are never taken back under the bill, and a line that  *)
(* an operator receives by hand is never advanced by the inventory seam.   *)
(***************************************************************************)
EXTENDS LineMatch

VARIABLES
    received,      \* received[l] : committed received_qty
    billed,        \* billed[l]   : committed billed_qty
    deleted        \* lines whose metadata carries deleted_at

ledgerVars == <<received, billed, deleted>>

Live == Line \ deleted

LedgerInit ==
    /\ received = [l \in Line |-> 0]
    /\ billed = [l \in Line |-> 0]
    /\ deleted = {}

\* A seam receipt: some live seam lines grow, none past its ordered quantity.
Receive ==
    /\ received' \in [Line -> Quantities]
    /\ \A l \in Line : received'[l] # received[l] =>
          /\ l \in Live /\ recvMethod[l] = "stock_moves"
          /\ received[l] < received'[l] /\ received'[l] <= quantity[l]
    /\ UNCHANGED <<billed, deleted>>

\* A bill: some live lines are billed further, none past its billing cap.
Bill ==
    /\ billed' \in [Line -> Quantities]
    /\ \A l \in Line : billed'[l] # billed[l] =>
          /\ l \in Live
          /\ billed[l] < billed'[l] /\ billed'[l] <= BillingCap(l, received[l])
    /\ UNCHANGED <<received, deleted>>

\* Plausible bug: a return that looks at the received goods only.
ReturnOfBilled ==
    /\ received' \in [Line -> Quantities]
    /\ \A l \in Line : received'[l] # received[l] => l \in Live /\ received'[l] < received[l]
    /\ UNCHANGED <<billed, deleted>>

\* A return takes back received goods, but never goods already billed.
Return ==
    /\ received' \in [Line -> Quantities]
    /\ \A l \in Line : received'[l] # received[l] =>
          /\ l \in Live
          /\ billed[l] <= received'[l] /\ received'[l] < received[l]
    /\ UNCHANGED <<billed, deleted>>

\* A credit note takes back billed quantity.
Credit ==
    /\ billed' \in [Line -> Quantities]
    /\ \A l \in Line : billed'[l] # billed[l] => l \in Live /\ billed'[l] < billed[l]
    /\ UNCHANGED <<received, deleted>>

\* The operator sets the received quantity of one hand-received line to n.
SetReceived(l, n) ==
    /\ l \in Live /\ recvMethod[l] = "manual"
    /\ LineCheck(l, n, billed[l])
    /\ received' = [received EXCEPT ![l] = n]
    /\ UNCHANGED <<billed, deleted>>

DropLine(l) ==
    /\ l \in Live
    /\ deleted' = deleted \union {l}
    /\ UNCHANGED <<received, billed>>

LedgerNext ==
    \/ Receive \/ Bill \/ Return \/ Credit
    \/ \E l \in Line : DropLine(l) \/ \E n \in 0 .. quantity[l] : SetReceived(l, n)

LedgerSpec == LedgerInit /\ [][LedgerNext]_ledgerVars

\* Every line satisfies the CHECK constraint of its table.
LedgerMatches == \A l \in Line : LineCheck(l, received[l], billed[l])
=============================================================================
