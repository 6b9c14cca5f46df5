--------------------------- MODULE OrderLifecycle ---------------------------
(***************************************************************************)
(* The lifecycle verbs of one purchase order, called concurrently.         *)
(*                                                                         *)
(* send, reset, lock, unlock, acknowledge and delete are one UPDATE each.  *)
(* confirm, approve and cancel are not: they read the header (the "gate    *)
(* row"), confirm and approve read the company settings, and only then the *)
(* status is written, each statement in a database transaction of its own. *)
(* What was read may be stale when it is used.  The UPDATE of a cancel is  *)
(* two steps, because its trigger reads the lines, which the lock of the   *)
(* header does not hold still.  The events of a call are published after   *)
(* its write, so a crash in between loses them.                            *)
(***************************************************************************)
EXTENDS OrderBand, Integers, FiniteSets

CONSTANTS
    Client,        \* concurrent callers
    Total,         \* the order's total, in its own currency
    Rate,          \* its currency_rate snapshot
    Amounts,       \* double_validation_amount values, in company currency
    MaxEntries     \* bound: an order is not reset after this many entries

ASSUME LifecycleAssumption ==
    /\ IsFiniteSet(Client)
    /\ Total \in Nat /\ Rate \in Nat \ {0}
    /\ Amounts \subseteq Nat
    /\ MaxEntries \in Nat

VARIABLES
    status,        \* column status
    locked,        \* column locked
    acknowledged,  \* column acknowledged
    deleted,       \* metadata carries deleted_at
    approved,      \* column date_approve is set
    settings,      \* the settings row, or NoSettings
    billedLive,    \* some live line has billed_qty > 0
    call,          \* call[c] : the verb client c is executing, or Idle
    entered,       \* history: how often the status became purchase
    announced      \* history: PurchaseOrderConfirmed events published

header == <<status, locked, acknowledged, deleted, approved>>
history == <<entered, announced>>
vars == <<header, settings, billedLive, call, history>>

NoSettings == [mode |-> "absent", amount |-> 0]
Settings == [mode : {"one_step", "two_step"}, amount : Amounts] \union {NoSettings}

\* The two-step gate: at or above the threshold, converted into company
\* currency, an order takes a manager.
OverThreshold(s) == s.mode = "two_step" /\ Total * Rate >= s.amount

Idle == [verb |-> "none", manager |-> FALSE, at |-> "done", lax |-> FALSE]

\* at  : the next statement of the call
\* lax : history; at some moment since the call began the settings in force
\*       let the order through without a manager
Call == [verb : {"none", "confirm", "approve", "cancel"}, manager : BOOLEAN,
         at : {"done", "settings", "park", "enter", "cancel", "commit", "announce", "notify"},
         lax : BOOLEAN]

TypeOK ==
    /\ status \in Status
    /\ locked \in BOOLEAN /\ acknowledged \in BOOLEAN /\ deleted \in BOOLEAN
    /\ approved \in BOOLEAN /\ billedLive \in BOOLEAN
    /\ settings \in Settings
    /\ call \in [Client -> Call]
    /\ entered \in Nat /\ announced \in Nat

Init ==
    /\ status = "draft" /\ locked = FALSE /\ acknowledged = FALSE
    /\ deleted = FALSE /\ approved = FALSE
    /\ settings \in Settings
    /\ billedLive = FALSE
    /\ call = [c \in Client |-> Idle]
    /\ entered = 0 /\ announced = 0

-----------------------------------------------------------------------------
(* Confirm, approve and cancel, one statement per step.                    *)

Start(c, verb, mgr, at) ==
    /\ call[c] = Idle
    /\ call' = [call EXCEPT ![c] = [verb |-> verb, manager |-> mgr, at |-> at,
                                    lax |-> ~OverThreshold(settings)]]

Go(c, at) == call' = [call EXCEPT ![c].at = at]
Return(c) == call' = [call EXCEPT ![c] = Idle]

\* No UPDATE holds the row lock of the header; every other UPDATE waits for it.
HeaderFree == \A c \in Client : call[c].at # "commit"

\* fetch_gate_row of a confirm; any other state refuses, which changes nothing.
ConfirmReadsGate(c, mgr) ==
    /\ ~deleted /\ status \in Editable
    /\ Start(c, "confirm", mgr, "settings")
    /\ UNCHANGED <<header, settings, billedLive, history>>

ApproveReadsGate(c, mgr) ==
    /\ ~deleted /\ status = "to_approve"
    /\ Start(c, "approve", mgr, "settings")
    /\ UNCHANGED <<header, settings, billedLive, history>>

\* Plausible bug: whoever calls approve is taken for a manager.
ApproveSkipsGate(c) ==
    /\ call[c].at = "settings"
    /\ IF call[c].verb = "approve" \/ call[c].manager \/ ~OverThreshold(settings)
       THEN Go(c, "enter")
       ELSE Go(c, "park")
    /\ UNCHANGED <<header, settings, billedLive, history>>

\* fetch_settings, and the decision on it: a caller whom the gate stops parks
\* the order on confirm and is refused on approve.
ReadSettings(c) ==
    /\ call[c].at = "settings"
    /\ IF call[c].manager \/ ~OverThreshold(settings) THEN Go(c, "enter")
       ELSE IF call[c].verb = "confirm" THEN Go(c, "park")
       ELSE Return(c)
    /\ UNCHANGED <<header, settings, billedLive, history>>

\* park_for_approval: guarded on draft and sent, else the call is refused.
Park(c) ==
    /\ call[c].at = "park" /\ HeaderFree
    /\ IF status \in Editable /\ ~deleted
       THEN status' = "to_approve" /\ Go(c, "notify")
       ELSE Return(c) /\ UNCHANGED status
    /\ UNCHANGED <<locked, acknowledged, deleted, approved, settings, billedLive, history>>

\* The states enter_purchase accepts: the caller's own source states.
EntryStates(verb) == IF verb = "confirm" THEN Editable ELSE {"to_approve"}

\* Plausible bug: the UPDATE trusts the status read earlier.
EnterUnguarded(c) ==
    /\ call[c].at = "enter" /\ HeaderFree
    /\ status' = "purchase" /\ approved' = TRUE
    /\ entered' = IF status = "purchase" THEN entered ELSE entered + 1
    /\ Go(c, "announce")
    /\ UNCHANGED <<locked, acknowledged, deleted, settings, billedLive, announced>>

\* enter_purchase: the guarded UPDATE, which stamps date_approve.
EnterPurchase(c) ==
    /\ call[c].at = "enter" /\ HeaderFree
    /\ IF status \in EntryStates(call[c].verb) /\ ~deleted
       THEN /\ status' = "purchase" /\ approved' = TRUE
            /\ entered' = entered + 1
            /\ Go(c, "announce")
       ELSE Return(c) /\ UNCHANGED <<status, approved, entered>>
    /\ UNCHANGED <<locked, acknowledged, deleted, settings, billedLive, announced>>

\* The event of the write: PurchaseOrderConfirmed, or ...PendingApproval.
Publish(c) ==
    /\ call[c].at \in {"announce", "notify"}
    /\ announced' = IF call[c].at = "announce" THEN announced + 1 ELSE announced
    /\ Return(c)
    /\ UNCHANGED <<header, settings, billedLive, entered>>

\* The pre-checks of a cancel, on the gate row.
CancelReadsGate(c) ==
    /\ ~deleted /\ ~locked /\ ~billedLive /\ status # "cancelled"
    /\ Start(c, "cancel", FALSE, "cancel")
    /\ UNCHANGED <<header, settings, billedLive, history>>

\* Plausible bug: no trigger, the pre-checks alone decide.
CancelWithoutTrigger(c) ==
    /\ call[c].at = "cancel" /\ HeaderFree
    /\ IF status # "cancelled" /\ ~deleted THEN Go(c, "commit") ELSE Return(c)
    /\ UNCHANGED <<header, settings, billedLive, history>>

\* The guarded UPDATE locks the row and fires the trigger po_write_guards, which
\* re-reads the lock flag of the row and the lines; if it raises, the call fails.
CancelChecks(c) ==
    /\ call[c].at = "cancel" /\ HeaderFree
    /\ IF status # "cancelled" /\ ~deleted /\ ~locked /\ ~billedLive
       THEN Go(c, "commit")
       ELSE Return(c)
    /\ UNCHANGED <<header, settings, billedLive, history>>

\* The UPDATE commits.  A bill may have committed since the trigger's read: it
\* locks lines, not the header.
CancelCommits(c) ==
    /\ call[c].at = "commit"
    /\ status' = "cancelled"
    /\ Return(c)
    /\ UNCHANGED <<locked, acknowledged, deleted, approved, settings, billedLive, history>>

\* The process dies between two statements of the call, or in the UPDATE of a
\* cancel, which is rolled back.
Crash(c) ==
    /\ call[c] # Idle
    /\ Return(c)
    /\ UNCHANGED <<header, settings, billedLive, history>>

-----------------------------------------------------------------------------
(* The verbs that are one UPDATE.                                          *)

Send ==
    /\ status = "draft" /\ ~deleted
    /\ status' = "sent"
    /\ UNCHANGED <<locked, acknowledged, deleted, approved>>

\* Plausible bug: the UPDATE also finds rows in the trash.
ResetDeleted ==
    /\ status # "draft"
    /\ status' = "draft"
    /\ UNCHANGED <<locked, acknowledged, deleted, approved>>

\* Back to draft from anywhere; date_approve and acknowledged stay.
Reset ==
    /\ status # "draft" /\ ~deleted
    /\ entered < MaxEntries
    /\ status' = "draft"
    /\ UNCHANGED <<locked, acknowledged, deleted, approved>>

SetLocked ==
    /\ ~deleted
    /\ locked' = ~locked
    /\ UNCHANGED <<status, acknowledged, deleted, approved>>

\* Also what the receipt seam runs after a receipt.
Acknowledge ==
    /\ status = "purchase" /\ ~deleted
    /\ acknowledged' = TRUE
    /\ UNCHANGED <<status, locked, deleted, approved>>

Delete ==
    /\ status = "cancelled" /\ ~deleted
    /\ deleted' = TRUE
    /\ UNCHANGED <<status, locked, acknowledged, approved>>

OneStatement ==
    /\ HeaderFree
    /\ Send \/ Reset \/ SetLocked \/ Acknowledge \/ Delete
    /\ UNCHANGED <<settings, billedLive, call, history>>

-----------------------------------------------------------------------------
(* What changes around the order.                                          *)

\* Plausible bug: the mode is stored without being validated.
UpsertUnvalidated ==
    /\ settings' \in [mode : {"one_step", "two_step", "three_step"}, amount : Amounts] \ {settings}
    /\ UNCHANGED <<header, billedLive, call, history>>

\* upsert_settings; a running call may now be let through.
UpsertSettings ==
    /\ settings' \in Settings \ {settings, NoSettings}
    /\ call' = [c \in Client |-> IF call[c] = Idle THEN Idle
                                ELSE [call[c] EXCEPT !.lax = @ \/ ~OverThreshold(settings')]]
    /\ UNCHANGED <<header, billedLive, history>>

\* Bills and credit notes reach the lines in every state of the header.
BillingMoves ==
    /\ billedLive' = ~billedLive
    /\ UNCHANGED <<header, settings, call, history>>

Proceed(c) ==
    ReadSettings(c) \/ Park(c) \/ EnterPurchase(c) \/ Publish(c)
    \/ CancelChecks(c) \/ CancelCommits(c)

Next ==
    \/ \E c \in Client :
          \/ \E mgr \in BOOLEAN : ConfirmReadsGate(c, mgr) \/ ApproveReadsGate(c, mgr)
          \/ CancelReadsGate(c)
          \/ Proceed(c)
          \/ Crash(c)
    \/ OneStatement \/ UpsertSettings \/ BillingMoves

Spec == Init /\ [][Next]_vars

-----------------------------------------------------------------------------
(* Properties.                                                             *)

\* A soft-deleted order was cancelled and stays so: no verb that read the
\* header before the delete revives it (G8, and the deleted_at filters of the
\* UPDATEs).
DeletedOrdersStayCancelled == deleted => status = "cancelled"

\* No order is cancelled while it is locked: it may be locked after the
\* pre-checks, but from the trigger's check to the commit of the cancel the row
\* lock keeps the verbs away that would lock it (G4).
LockedNeverCancelled ==
    [][status' = "cancelled" /\ status # "cancelled" => ~locked]_vars

\* "Any live billed line refuses" (G5): no order is cancelled while a line of it
\* is billed.  Does not hold: see CancelCommits.
BilledNeverCancelled ==
    [][status' = "cancelled" /\ status # "cancelled" => ~billedLive]_vars

\* The guards of the UPDATEs let through declared moves only, whatever the
\* callers had read: the transition trigger, which is not modelled, never fires.
DeclaredMovesOnly ==
    [][status' # status => <<status, status'>> \in DeclaredMoves]_vars

\* PurchaseOrderConfirmed is published at most once for every entry into
\* purchase, also when two confirms or a confirm and an approve race: the
\* events published and those still owed never outnumber the entries.
Owed == {c \in Client : call[c].at = "announce"}
NoEventWithoutEntry == announced + Cardinality(Owed) <= entered

\* A caller who is no manager takes the order into purchase only if at some
\* moment of the call the settings let him (the gate of confirm, and the
\* re-check of approve).
OverThresholdNeedsManager ==
    [][\A c \in Client : call[c].at = "enter" /\ call'[c].at = "announce"
           => call[c].manager \/ call[c].lax]_vars
=============================================================================
