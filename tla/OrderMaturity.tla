--------------------------- MODULE OrderMaturity ---------------------------
(***************************************************************************)
(* What follows the commit of a watermark transaction: the receipt handler *)
(* stamps acknowledged, recompute_order_maturity reads the lines, writes    *)
(* the two stored projections of the header and publishes the milestones,  *)
(* and the handler publishes its own event.  Each is a statement of its    *)
(* own, so another call may commit between any two of them, and the stored *)
(* projections may be left behind the lines; the history variable trusted  *)
(* says when they are not.                                                  *)
(*                                                                         *)
(* The transactions themselves are the atomic steps of MatchLedger, which   *)
(* ThreeWayMatch implements.                                               *)
(***************************************************************************)
EXTENDS MatchLedger, OrderBand

CONSTANTS
    Client,        \* concurrent callers
    StartStatus,   \* the header status at the start
    Moves,         \* the header moves that happen meanwhile
    MayBreak       \* whether a call may die, or a statement of it fail

ASSUME MaturityAssumption ==
    /\ StartStatus \in Status
    /\ Moves \subseteq DeclaredMoves
    /\ MayBreak \in BOOLEAN

VARIABLES
    status,          \* column status of the order
    acknowledged,    \* column acknowledged
    receiptStatus,   \* column receipt_status
    invoiceStatus,   \* column invoice_status
    job,             \* job[c] : the call of client c after its commit, or NoJob
    trusted          \* history: the last recompute wrote, undisturbed, and no
                     \* call ended without one, nor did a line go, since then

maturity == <<receiptStatus, invoiceStatus>>
vars == <<ledgerVars, status, acknowledged, maturity, job, trusted>>

ReceiptStatuses == {"pending", "partial", "full"}
InvoiceStatuses == {"no", "to_invoice", "invoiced"}

\* at      : the next statement of the call
\* call    : a seam receipt, a manual receipt, or any other watermark call
\* receipt, invoice : what was computed from the lines, to be written
\* milestone : PurchaseOrderFullyReceived is due
\* fresh   : history; no line has changed since they were read
Job == [at : {"none", "acknowledge", "read", "write", "publish"},
        call : {"receipt", "manual", "other"},
        receipt : ReceiptStatuses, invoice : InvoiceStatuses,
        milestone : BOOLEAN, fresh : BOOLEAN]

NoJob == [at |-> "none", call |-> "other", receipt |-> "pending", invoice |-> "no",
          milestone |-> FALSE, fresh |-> FALSE]

TypeOK ==
    /\ received \in [Line -> Quantities] /\ billed \in [Line -> Quantities]
    /\ deleted \subseteq Line
    /\ status \in Status
    /\ acknowledged \in BOOLEAN
    /\ receiptStatus \in ReceiptStatuses /\ invoiceStatus \in InvoiceStatuses
    /\ job \in [Client -> Job]
    /\ trusted \in BOOLEAN

Init ==
    /\ LedgerInit
    /\ status = StartStatus
    /\ acknowledged = FALSE
    /\ receiptStatus = "pending" /\ invoiceStatus = "no"
    /\ job = [c \in Client |-> NoJob]
    /\ trusted = FALSE

-----------------------------------------------------------------------------
(* The projections, as functions of the live lines.                        *)

ReceiptStatusOfLines ==
    IF \A l \in Live : received[l] >= quantity[l] THEN "full"
    ELSE IF \E l \in Live : received[l] > 0 THEN "partial"
    ELSE "pending"

\* Plausible bug: a word of the other ladder, which the column's type lacks.
InvoiceStatusOfOtherLadder ==
    IF \E l \in Live : BillingCap(l, received[l]) # billed[l] THEN "to_invoice"
    ELSE IF \E l \in Live : billed[l] > 0 THEN "full"
    ELSE "no"

InvoiceStatusOfLines ==
    IF \E l \in Live : BillingCap(l, received[l]) # billed[l] THEN "to_invoice"
    ELSE IF \E l \in Live : billed[l] > 0 THEN "invoiced"
    ELSE "no"

-----------------------------------------------------------------------------
(* The calls.                                                              *)

\* The calls after a change of the lines: nothing that was read is fresh.
Overtaken == [c \in Client |-> [job[c] EXCEPT !.fresh = FALSE]]

Begin(c, at, call) ==
    /\ job[c].at = "none"
    /\ job' = [Overtaken EXCEPT ![c] = [NoJob EXCEPT !.at = at, !.call = call]]
    /\ UNCHANGED <<status, acknowledged, maturity, trusted>>

\* mark_received: its event carries what each line took.
MarkReceived(c) == Receive /\ Begin(c, "acknowledge", "receipt")

\* Plausible bug: the credit note forgets the recompute.
MarkCreditedOnly(c) == Credit /\ Begin(c, "publish", "other")

\* mark_billed and match_bill_lines, mark_returned, mark_credited.
MarkBilled(c) == Bill /\ Begin(c, "read", "other")
MarkReturned(c) == Return /\ Begin(c, "read", "other")
MarkCredited(c) == Credit /\ Begin(c, "read", "other")

\* set_manual_line_receipt: its event carries n, the value set.
SetManualLineReceipt(c, l, n) == SetReceived(l, n) /\ Begin(c, "read", "manual")

\* set_acknowledged, which finds its row only in purchase.
Acknowledge(c) ==
    /\ job[c].at = "acknowledge"
    /\ acknowledged' = (acknowledged \/ status = "purchase")
    /\ job' = [job EXCEPT ![c].at = "read"]
    /\ UNCHANGED <<ledgerVars, status, maturity, trusted>>

\* fetch_maturity: the aggregates over the live lines and the stored status of
\* before.  Without a live line there is no row, and the call fails here.
ReadMaturity(c) ==
    /\ job[c].at = "read"
    /\ job' = [job EXCEPT ![c] =
          IF Live = {} THEN NoJob
          ELSE [@ EXCEPT !.at = "write", !.fresh = TRUE,
                         !.receipt = ReceiptStatusOfLines,
                         !.invoice = InvoiceStatusOfLines,
                         !.milestone = ReceiptStatusOfLines = "full" /\ receiptStatus # "full"]]
    /\ trusted' = (trusted /\ Live # {})
    /\ UNCHANGED <<ledgerVars, status, acknowledged, maturity>>

\* The call after its UPDATE: what it computed is no longer needed.
Written(j) ==
    [j EXCEPT !.at = "publish", !.fresh = FALSE,
              !.receipt = NoJob.receipt, !.invoice = NoJob.invoice]

\* Plausible bug: the receipt status is not moved back by a return.
WriteMaturityForwardOnly(c) ==
    /\ job[c].at = "write"
    /\ receiptStatus' = IF status = "purchase" /\ receiptStatus # "full"
                        THEN job[c].receipt ELSE receiptStatus
    /\ invoiceStatus' = IF status = "purchase" THEN job[c].invoice ELSE invoiceStatus
    /\ job' = [job EXCEPT ![c] = Written(@)]
    /\ trusted' = (status = "purchase" /\ job[c].fresh)
    /\ UNCHANGED <<ledgerVars, status, acknowledged>>

\* update_maturity: writes what was computed, in purchase only.
WriteMaturity(c) ==
    /\ job[c].at = "write"
    /\ IF status = "purchase"
       THEN receiptStatus' = job[c].receipt /\ invoiceStatus' = job[c].invoice
       ELSE UNCHANGED maturity
    /\ job' = [job EXCEPT ![c] = Written(@)]
    /\ trusted' = (status = "purchase" /\ job[c].fresh)
    /\ UNCHANGED <<ledgerVars, status, acknowledged>>

\* The milestones and the call's own event.
Publish(c) ==
    /\ job[c].at = "publish"
    /\ job' = [job EXCEPT ![c] = NoJob]
    /\ UNCHANGED <<ledgerVars, status, acknowledged, maturity, trusted>>

\* The process dies, or a statement after the commit fails.
Break(c) ==
    /\ MayBreak
    /\ job[c].at # "none"
    /\ job' = [job EXCEPT ![c] = NoJob]
    /\ trusted' = (trusted /\ job[c].at = "publish")
    /\ UNCHANGED <<ledgerVars, status, acknowledged, maturity>>

\* The lifecycle verbs move the header and leave the projections alone.
HeaderMoves ==
    /\ \E s \in Status : <<status, s>> \in Moves /\ status' = s
    /\ UNCHANGED <<ledgerVars, acknowledged, maturity, job, trusted>>

SoftDeleteLine(l) ==
    /\ status \in Editable
    /\ DropLine(l)
    /\ job' = Overtaken
    /\ trusted' = FALSE
    /\ UNCHANGED <<status, acknowledged, maturity>>

Next ==
    \/ \E c \in Client :
          \/ MarkReceived(c) \/ MarkBilled(c) \/ MarkReturned(c) \/ MarkCredited(c)
          \/ \E l \in Line : \E n \in 0 .. quantity[l] : SetManualLineReceipt(c, l, n)
          \/ Acknowledge(c) \/ ReadMaturity(c) \/ WriteMaturity(c) \/ Publish(c)
          \/ Break(c)
    \/ HeaderMoves
    \/ \E l \in Line : SoftDeleteLine(l)

Spec == Init /\ [][Next]_vars

-----------------------------------------------------------------------------
(* Properties.                                                             *)

Quiet == \A c \in Client : job[c].at = "none"

\* The stored statuses are what the live lines make them.
Projected ==
    receiptStatus = ReceiptStatusOfLines /\ invoiceStatus = InvoiceStatusOfLines

\* When no call is under way, the stored statuses of an order in purchase are
\* the projections of its lines that the schema says they are (receipt_status and
\* invoice_status of the hook file), once a watermark moved.  Does not hold when
\* recomputes overlap.
StatusesSettle ==
    Quiet /\ status = "purchase" /\ (\E l \in Live : received[l] + billed[l] > 0) => Projected

\* The stored statuses can be at rest and wrong for four reasons only: the last
\* write came from lines that had changed since they were read, or it found the
\* order out of purchase; a call ended before its write; or a line was deleted.
\* Nothing else that happens after an undisturbed recompute makes them wrong for
\* good, because every verb that moves a watermark recomputes after its commit.
StatusesTrusted == trusted /\ Quiet => Projected

\* A recompute whose lines did not change between its read and its write leaves
\* the stored statuses true of the lines, whatever crashes, races and resets went
\* before: recompute_order_maturity depends on nothing that is stored, so every
\* undisturbed recompute of an order in purchase repairs the two columns.
FreshRecomputeRepairs ==
    [][\A c \in Client :
          job[c].at = "write" /\ job'[c].at = "publish" /\ job[c].fresh /\ status = "purchase"
          => Projected']_vars

\* PurchaseOrderFullyReceived is published "on the FIRST transition" into full
\* receipt: by a call whose own write made that transition.  Does not hold, and
\* no run checks it: of two overlapping calls both may have read the order not
\* full, and out of purchase the event is published without the write.
MilestoneOnTransition ==
    [][\A c \in Client :
          job[c].at = "write" /\ job'[c].at = "publish" /\ job[c].milestone
          => receiptStatus # "full" /\ receiptStatus' = "full"]_vars

\* Every receipt that is committed is reported: its call ends by publishing
\* PurchaseReceiptRecorded ("this fires on EVERY receipt") and in no other way.
\* Does not hold, and no run checks it: a statement after the commit may fail,
\* and the recompute fails when no line is left.
EveryReceiptRecorded ==
    [][\A c \in Client : job[c].call # "other" /\ job'[c] = NoJob
           => job[c].at = "publish"]_vars

\* A line of PurchaseReceiptRecorded is "exactly the quantity THIS receipt
\* applied [...], not a cumulative watermark".  Does not hold, and no run checks
\* it: a manual receipt reports the absolute quantity that it set.
EventCarriesWhatWasApplied ==
    [][\A c \in Client, l \in Line :
          job[c].at = "none" /\ job'[c].call = "manual" /\ received'[l] # received[l]
          => received'[l] - received[l] = received'[l]]_vars
=============================================================================
