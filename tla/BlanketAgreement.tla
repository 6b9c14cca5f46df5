-------------------------- MODULE BlanketAgreement --------------------------
(***************************************************************************)
(* One blanket agreement, its lines, the supplier prices minted from them  *)
(* and the call-off orders drawn on it, under concurrent callers.          *)
(*                                                                         *)
(* Every verb checks on the pool first and writes in a transaction later.  *)
(* A transaction shows nothing before its commit, so it is one step where  *)
(* no statement of it can see or wait for another in the middle; where one *)
(* can (the share lock and the draws of a call-off, the exclusive lock of  *)
(* a close, the row lock of a re-price, the snapshot of a resequence) it   *)
(* is a step per such statement.                                           *)
(***************************************************************************)
EXTENDS OrderBand, Integers, Sequences, FiniteSets, Functions

CONSTANTS
    Client,     \* concurrent callers
    Line,       \* the lines this agreement may ever get
    Blanket,    \* Blanket[l] : column quantity of line l; no verb changes it
    Rates,      \* negotiated rates
    NoRate,     \* not a rate: the line was never inserted
    Order,      \* the call-off orders it may ever get (a bound)
    Requests    \* call-off requests: sequences of draws

Draw == [line : Line, quantity : Nat \ {0}]

ASSUME BlanketAssumption ==
    /\ Blanket \in [Line -> Nat \ {0}]
    /\ NoRate \notin Rates
    /\ Requests \subseteq Seq(Draw) \ {<<>>}
    /\ IsFiniteSet(Order) /\ IsFiniteSet(Client)

VARIABLES
    status,     \* column status of the agreement
    live,       \* its lines that are not soft-deleted
    rate,       \* rate[l] : column rate
    drawn,      \* drawn[l] : column qty_ordered
    price,      \* price[l] : the live supplier_prices rows of line l, oldest first
    order,      \* order[o] : a call-off order
    call        \* call[c] : the verb client c is executing, or Idle

book == <<live, rate>>
vars == <<status, book, drawn, price, order, call>>

AgreementStatus == {"draft", "open", "done", "cancelled"}
NoOrder == [status |-> "none", draws |-> [l \in Line |-> 0], reopened |-> FALSE]
RateBook == [Line -> Rates \union {NoRate}]
Named(rates) == {l \in Line : rates[l] # NoRate}

Idle == [at |-> "idle", rates |-> [l \in Line |-> NoRate], seen |-> {},
         draws |-> <<>>, taken |-> [l \in Line |-> 0], verb |-> "none"]

\* at    : the next statement of the call
\* rates : the lines it works on, with the rate it read or will write
\* seen  : the lines whose row the last statement's snapshot selected
\* draws : the draws still to make;  taken : written, not committed
Call == [at : {"idle", "open", "lock_line", "find", "price", "clear", "replace",
               "lock", "retire", "share", "draw"},
         rates : RateBook, seen : SUBSET Line,
         draws : Seq(Draw), taken : [Line -> Nat], verb : {"none", "close", "cancel"}]

TypeOK ==
    /\ status \in AgreementStatus
    /\ live \subseteq Line
    /\ rate \in RateBook
    /\ drawn \in [Line -> Nat]
    /\ price \in [Line -> Seq(Rates)]
    /\ order \in [Order -> [status : Status \union {"none"}, draws : [Line -> Nat],
                            reopened : BOOLEAN]]
    /\ call \in [Client -> Call]

\* create_purchase_agreement: a draft with its first lines, no price yet.
Init ==
    /\ status = "draft"
    /\ rate \in RateBook /\ Named(rate) # {}
    /\ live = Named(rate)
    /\ drawn = [l \in Line |-> 0]
    /\ price = [l \in Line |-> <<>>]
    /\ order = [o \in Order |-> NoOrder]
    /\ call = [c \in Client |-> Idle]

Start(c, k) == call[c] = Idle /\ call' = [call EXCEPT ![c] = k]
Go(c, at) == call' = [call EXCEPT ![c].at = at]
Return(c) == call' = [call EXCEPT ![c] = Idle]

-----------------------------------------------------------------------------
(* Row locks: of the agreement and of its lines.                           *)

\* Plausible bug: the call-off reads the status without FOR SHARE.
ShareNotHeld(c) == FALSE

HoldsShare(c) == call[c].at = "draw"
HoldsAgreement(c) == call[c].at = "retire"

\* Plausible bug: nothing orders two writers of a line.
LineNotHeld(c, l) == FALSE

\* The UPDATE of a line locks it until the commit.
HoldsLine(c, l) ==
    \/ call[c].at \in {"find", "price"} /\ l \in Named(call[c].rates)
    \/ call[c].taken[l] > 0

MayShare(c) == \A d \in Client \ {c} : ~HoldsAgreement(d)
MayLock(c) == \A d \in Client \ {c} : ~HoldsAgreement(d) /\ ~HoldsShare(d)
LineFree(c, l) == \A d \in Client \ {c} : ~HoldsLine(d, l)

-----------------------------------------------------------------------------
(* Supplier prices.                                                        *)

\* The UPDATE finds the oldest row again: a row that was unlinked since the
\* statement chose it is updated in the trash.
Refreshed(rows, r) == IF rows = <<>> THEN rows ELSE [rows EXCEPT ![1] = r]

\* Plausible bug: every write mints a row.
MintAlways(rates, found) ==
    [l \in Line |-> IF l \in Named(rates) THEN Append(price[l], rates[l]) ELSE price[l]]

\* upsert_for_agreement_line: refreshes the row found, mints one if none was.
Upsert(rates, found) ==
    [l \in Line |-> IF l \notin Named(rates) THEN price[l]
                    ELSE IF l \in found THEN Refreshed(price[l], rates[l])
                    ELSE Append(price[l], rates[l])]

Priced == {l \in Line : price[l] # <<>>}

-----------------------------------------------------------------------------
(* Confirm: the state and the lines are read before the transaction.       *)

ConfirmReads(c) ==
    /\ status = "draft" /\ live # {}
    /\ Start(c, [Idle EXCEPT !.at = "open",
                     !.rates = [l \in Line |-> IF l \in live THEN rate[l] ELSE NoRate]])
    /\ UNCHANGED <<status, book, drawn, price, order>>

\* The guarded transition, a price per line read, the commit.
ConfirmCommits(c) ==
    /\ call[c].at = "open" /\ MayLock(c)
    /\ IF status = "draft"
       THEN status' = "open" /\ price' = Upsert(call[c].rates, Priced)
       ELSE UNCHANGED <<status, price>>
    /\ Return(c)
    /\ UNCHANGED <<book, drawn, order>>

-----------------------------------------------------------------------------
(* Re-price one line.                                                      *)

RepriceReads(c, l, r) ==
    /\ status = "open" /\ l \in live
    /\ Start(c, [Idle EXCEPT !.at = "lock_line", !.rates[l] = r])
    /\ UNCHANGED <<status, book, drawn, price, order>>

\* set_line_rate: no guard but the id; it waits for the row.
RepriceLocksLine(c) ==
    /\ call[c].at = "lock_line"
    /\ \A l \in Named(call[c].rates) : LineFree(c, l)
    /\ Go(c, "find")
    /\ UNCHANGED <<status, book, drawn, price, order>>

\* The snapshot of the upsert.
RepriceFinds(c) ==
    /\ call[c].at = "find"
    /\ call' = [call EXCEPT ![c].at = "price", ![c].seen = Priced \intersect Named(call[c].rates)]
    /\ UNCHANGED <<status, book, drawn, price, order>>

\* Plausible bug: the line keeps its old rate.
RepriceCommitsPriceOnly(c) ==
    /\ call[c].at = "price"
    /\ price' = Upsert(call[c].rates, call[c].seen)
    /\ Return(c)
    /\ UNCHANGED <<status, book, drawn, order>>

RepriceCommits(c) ==
    /\ call[c].at = "price"
    /\ rate' = [l \in Line |-> IF l \in Named(call[c].rates) THEN call[c].rates[l] ELSE rate[l]]
    /\ price' = Upsert(call[c].rates, call[c].seen)
    /\ Return(c)
    /\ UNCHANGED <<status, live, drawn, order>>

-----------------------------------------------------------------------------
(* Resequence: replaces the lines of a draft.  Its row locks only order it *)
(* with writers of other columns of the same rows, and are left out.       *)

ResequenceReads(c) ==
    /\ status = "draft"
    /\ Start(c, [Idle EXCEPT !.at = "clear"])
    /\ UNCHANGED <<status, book, drawn, price, order>>

\* The rows the soft delete selects; of these, one that another resequence
\* deletes first is skipped, which comes to the same.
ResequenceClears(c) ==
    /\ call[c].at = "clear"
    /\ call' = [call EXCEPT ![c].at = "replace", ![c].seen = live]
    /\ UNCHANGED <<status, book, drawn, price, order>>

\* The inserts and the commit.
ResequenceCommits(c, new) ==
    /\ call[c].at = "replace"
    /\ Named(new) # {} /\ Named(new) \intersect Named(rate) = {}
    /\ live' = (live \ call[c].seen) \union Named(new)
    /\ rate' = [l \in Line |-> IF l \in Named(new) THEN new[l] ELSE rate[l]]
    /\ Return(c)
    /\ UNCHANGED <<status, drawn, price, order>>

-----------------------------------------------------------------------------
(* Close and cancel.                                                       *)

OpenCallOffs == {o \in Order : order[o].status \in {"draft", "sent", "to_approve"}}

From(verb) == IF verb = "close" THEN {"open"} ELSE {"draft", "open"}

\* Plausible bug: a status the enum does not have.
TargetMisspelt(verb) == IF verb = "close" THEN "closed" ELSE "cancelled"

Target(verb) == IF verb = "close" THEN "done" ELSE "cancelled"

RetireReads(c, verb) ==
    /\ OpenCallOffs = {} /\ status \in From(verb)
    /\ Start(c, [Idle EXCEPT !.at = "lock", !.verb = verb])
    /\ UNCHANGED <<status, book, drawn, price, order>>

\* lock_status_on ... FOR UPDATE.
RetireLocks(c) ==
    /\ call[c].at = "lock" /\ MayLock(c)
    /\ Go(c, "retire")
    /\ UNCHANGED <<status, book, drawn, price, order>>

\* The count and the status read under the lock, the transition (whose trigger
\* counts once more), the unlink, the commit.
RetireCommits(c) ==
    /\ call[c].at = "retire"
    /\ IF OpenCallOffs = {} /\ status \in From(call[c].verb)
       THEN /\ status' = Target(call[c].verb)
            /\ price' = [l \in Line |-> <<>>]
       ELSE UNCHANGED <<status, price>>
    /\ Return(c)
    /\ UNCHANGED <<book, drawn, order>>

-----------------------------------------------------------------------------
(* The call-off: lines, state and caps are read before the transaction.    *)

\* Bound: there is an order left for every call-off under way.
OrderLeft ==
    Cardinality({d \in Client : call[d].at \in {"share", "draw"}})
        < Cardinality({o \in Order : order[o].status = "none"})

CallOffReads(c, draws) ==
    /\ status = "open" /\ OrderLeft
    /\ \A i \in DOMAIN draws :
          draws[i].line \in live
          /\ drawn[draws[i].line] + draws[i].quantity <= Blanket[draws[i].line]
    /\ Start(c, [Idle EXCEPT !.at = "share", !.draws = draws])
    /\ UNCHANGED <<status, book, drawn, price, order>>

\* lock_status_on ... FOR SHARE, and the status it returns.
CallOffLocks(c) ==
    /\ call[c].at = "share" /\ MayShare(c)
    /\ IF status = "open" THEN Go(c, "draw") ELSE Return(c)
    /\ UNCHANGED <<status, book, drawn, price, order>>

\* Plausible bug: the increment trusts the cap that was checked before.
FitsUnchecked(c, d) == TRUE

\* The condition of increment_qty_ordered, on the row as the transaction sees it.
Fits(c, d) == drawn[d.line] + call[c].taken[d.line] + d.quantity <= Blanket[d.line]

\* increment_qty_ordered of the next draw: it waits for the row; no row updated
\* means the cap is reached, and the transaction is rolled back.
CallOffDraws(c) ==
    /\ call[c].at = "draw" /\ call[c].draws # <<>>
    /\ LET d == Head(call[c].draws) IN
          /\ LineFree(c, d.line)
          /\ IF Fits(c, d)
             THEN call' = [call EXCEPT ![c].draws = Tail(@), ![c].taken[d.line] = @ + d.quantity]
             ELSE Return(c)
    /\ UNCHANGED <<status, book, drawn, price, order>>

\* Plausible bug: the consumption is written back from the line read earlier.
CallOffOverwrites(c) ==
    /\ call[c].at = "draw" /\ call[c].draws = <<>>
    /\ \E o \in Order :
          /\ order[o].status = "none"
          /\ order' = [order EXCEPT ![o] = [NoOrder EXCEPT !.status = "draft", !.draws = call[c].taken]]
    /\ drawn' = [l \in Line |-> IF call[c].taken[l] > 0 THEN call[c].taken[l] ELSE drawn[l]]
    /\ Return(c)
    /\ UNCHANGED <<status, book, price>>

\* The order, its items and its draws appear together.
CallOffCommits(c) ==
    /\ call[c].at = "draw" /\ call[c].draws = <<>>
    /\ \E o \in Order :
          /\ order[o].status = "none"
          /\ order' = [order EXCEPT ![o] = [NoOrder EXCEPT !.status = "draft", !.draws = call[c].taken]]
    /\ drawn' = [l \in Line |-> drawn[l] + call[c].taken[l]]
    /\ Return(c)
    /\ UNCHANGED <<status, book, price>>

\* The lifecycle verbs of the call-off orders know no agreement; they give no
\* quantity back.  A reset may reopen a confirmed or cancelled order (reopened
\* is history).
OrderMoves(o) ==
    /\ order[o].status # "none"
    /\ \E to \in Status :
          /\ <<order[o].status, to>> \in DeclaredMoves
          /\ order' = [order EXCEPT ![o].status = to,
                                        ![o].reopened = @ \/ (to = "draft" /\ o \notin OpenCallOffs)]
    /\ UNCHANGED <<status, book, drawn, price, call>>

-----------------------------------------------------------------------------
(* A rollback that no verb asks for.                                       *)

\* The process dies, the connection drops, or the database picks the call as the
\* victim of a deadlock: two call-offs may lock lines in opposite orders.
Crash(c) ==
    /\ call[c] # Idle
    /\ Return(c)
    /\ UNCHANGED <<status, book, drawn, price, order>>

-----------------------------------------------------------------------------
Begin(c) ==
    \/ ConfirmReads(c) \/ ResequenceReads(c)
    \/ \E l \in Line, r \in Rates : RepriceReads(c, l, r)
    \/ \E verb \in {"close", "cancel"} : RetireReads(c, verb)
    \/ \E draws \in Requests : CallOffReads(c, draws)

\* The steps of a call-off and of a re-price.
Trade(c) ==
    \/ RepriceLocksLine(c) \/ RepriceFinds(c) \/ RepriceCommits(c)
    \/ CallOffLocks(c) \/ CallOffDraws(c) \/ CallOffCommits(c)

\* The steps of the verbs that move or edit the agreement.
Manage(c) ==
    \/ ConfirmCommits(c)
    \/ ResequenceClears(c) \/ \E new \in RateBook : ResequenceCommits(c, new)
    \/ RetireLocks(c) \/ RetireCommits(c)

Next ==
    \/ \E c \in Client : Begin(c) \/ Trade(c) \/ Manage(c) \/ Crash(c)
    \/ \E o \in Order : OrderMoves(o)

Spec == Init /\ [][Next]_vars

-----------------------------------------------------------------------------
(* Properties.                                                             *)

\* The call-offs of a line, also cancelled ones, add up to its qty_ordered:
\* no order exists with its draw uncounted, and no draw without its order.
CalledOff(l) == SumFunction([o \in Order |-> order[o].draws[l]])
DrawsCounted == \A l \in Line : drawn[l] = CalledOff(l)

\* No line is drawn past its blanket quantity, however the draws are split
\* over concurrent call-offs or within one (rule G-call-off-cap).
WithinBlanket == \A l \in Line : drawn[l] <= Blanket[l]

\* A close and a call-off take turns: an agreement is never retired with a
\* call-off open on it, other than one that a reset reopened.
NoCallOffStranded ==
    status \in {"done", "cancelled"} => \A o \in OpenCallOffs : order[o].reopened

\* A line has at most one live price, although no unique index says so: two
\* re-prices of a line that has none take turns on the row of the line.
OneLivePricePerLine == \A l \in Line : Len(price[l]) <= 1

\* Line and price move together: a live price shows the rate of its line.
PriceIsTheRate == \A l \in Line : \A i \in DOMAIN price[l] : price[l][i] = rate[l]

\* "a closed blanket no longer prices new call-offs": no live price outlives
\* the agreement.  A re-price that read the status before the close breaks it.
NoPriceOutlivesAgreement == status \in {"done", "cancelled"} => Priced = {}

\* "one buying.supplier_prices row per agreement line": the live lines of an
\* open agreement are the priced ones.  Does not hold, and no run checks it: a
\* resequence that read the status before the confirm breaks it.
OpenLinesPriced == status = "open" => Priced = live
=============================================================================
