--------------------------- MODULE ThreeWayMatch ---------------------------
(***************************************************************************)
(* The watermark transactions on the lines of one purchase order, as they  *)
(* interleave: mark_received, mark_billed, mark_returned, mark_credited    *)
(* and match_bill_lines each run ONE database transaction that locks rows  *)
(* with SELECT ... FOR UPDATE, one request part after the other, decides    *)
(* from what it reads under the locks, and commits or rolls back.  Beside  *)
(* them run the single-statement writers of the same rows: the operator's  *)
(* manual receipt and the line delete.  The header of the order enters      *)
(* only through the band of statuses those verbs distinguish.              *)
(*                                                                         *)
(* Uncommitted writes are private to their transaction: tx[c].delta is     *)
(* what client c has written and not committed.  Everybody else reads the  *)
(* committed columns (READ COMMITTED).                                     *)
(***************************************************************************)
EXTENDS MatchLedger, Sequences

CONSTANTS
    Client,        \* concurrent callers, one transaction each at a time
    Requests       \* the calls they make: see Request below

Matched == "matched"      \* match_bill_lines: names lines instead of items

Kind == WatermarkKind \union {Matched}

\* One (item, quantity) pair of a mark_* call, or one proposal of a bill match,
\* whose target is then a line.
Part == [target : Item \union Line, amount : Int]

Request == [kind : Kind, parts : Seq(Part)]

ASSUME RequestAssumption == Requests \subseteq Request

\* The header's status, as far as the line verbs look at it: draft or sent,
\* purchase, and the rest (to_approve, cancelled).
Band == {"editable", "purchase", "closed"}

VARIABLES
    band,          \* the band the committed header status is in
    tx             \* tx[c] : the open transaction of client c, or NoTx

vars == <<received, billed, deleted, band, tx>>

\* A transaction that has locked and written nothing yet.
NewTx(kind, parts) == [kind |-> kind, parts |-> parts, next |-> 1, held |-> {},
                       delta |-> [l \in Line |-> 0]]

\* No transaction is open.
NoTx == NewTx("none", <<>>)

Tx == [kind : Kind \union {"none"}, parts : Seq(Part), next : Nat \ {0},
       held : SUBSET Line, delta : [Line -> Int]]

TypeOK ==
    /\ received \in [Line -> Nat]
    /\ billed \in [Line -> Nat]
    /\ deleted \in SUBSET Line
    /\ band \in Band
    /\ tx \in [Client -> Tx]

Init ==
    /\ LedgerInit
    /\ band = "editable"
    /\ tx = [c \in Client |-> NoTx]

-----------------------------------------------------------------------------
(* What a transaction sees and wants.                                      *)

Running(c) == tx[c].kind # "none"

\* The watermarks as client c reads them: committed, plus its own writes.
SeenReceived(c, l) ==
    received[l] + (IF OnReceivedColumn(tx[c].kind) THEN tx[c].delta[l] ELSE 0)
SeenBilled(c, l) ==
    billed[l] + (IF OnReceivedColumn(tx[c].kind) THEN 0 ELSE tx[c].delta[l])

MoreParts(c) == Running(c) /\ tx[c].next <= Len(tx[c].parts)
CurrentPart(c) == tx[c].parts[tx[c].next]

\* The rows the locking read of the current part selects: the named line for
\* a bill match, the live rows of the item for the other kinds.
WantedRows(c) ==
    LET p == CurrentPart(c) IN
    IF tx[c].kind = Matched THEN Live \intersect {p.target}
                            ELSE RowsOf(tx[c].kind, p.target, Live)

\* Rows are locked in id order; the next one is the lowest not yet held.
NextRow(c, l) ==
    /\ MoreParts(c)
    /\ l \in WantedRows(c) \ tx[c].held
    /\ \A k \in WantedRows(c) \ tx[c].held : l <= k

\* Plausible bug: the capacity is read without FOR UPDATE.
RowNeverLocked(c, l) == TRUE

\* Nobody else holds the row's lock.
RowFree(c, l) == \A d \in Client \ {c} : l \notin tx[d].held

PartLocked(c) == MoreParts(c) /\ WantedRows(c) \subseteq tx[c].held

\* Remaining capacity of a locked row, read after its lock was granted.
CapacityKind(k) == IF k = Matched THEN Billed ELSE k
SeenCapacity(c, l) ==
    Capacity(CapacityKind(tx[c].kind), l, SeenReceived(c, l), SeenBilled(c, l))

\* The part is accepted: it does not exceed the rows' total capacity, and a
\* bill match finds its line.
PartFits(c) ==
    LET cap == [l \in Line |-> IF l \in WantedRows(c) THEN SeenCapacity(c, l) ELSE 0] IN
    /\ CurrentPart(c).amount <= Total(cap, Line)
    /\ tx[c].kind = Matched => WantedRows(c) # {}

EndTx(c) == tx' = [tx EXCEPT ![c] = NoTx]

-----------------------------------------------------------------------------
(* The transaction, one statement per step.                                *)

\* A call arrives.  A bill match first reads the header outside of the
\* transaction and goes on only for an order in purchase, with at least one
\* proposal, each of a positive quantity; the mark_* handlers check nothing.
Begin(c, req) ==
    /\ ~Running(c)
    /\ req.kind = Matched =>
          /\ band = "purchase"
          /\ req.parts # <<>>
          /\ \A i \in DOMAIN req.parts : req.parts[i].amount > 0
    /\ tx' = [tx EXCEPT ![c] = NewTx(req.kind, req.parts)]
    /\ UNCHANGED <<received, billed, deleted, band>>

\* The locking read obtains one more row.
LockRow(c, l) ==
    /\ NextRow(c, l) /\ RowFree(c, l)
    /\ tx' = [tx EXCEPT ![c].held = @ \union {l}]
    /\ UNCHANGED <<received, billed, deleted, band>>

\* All rows of the part are locked and it fits: spread it, write, go on.
ApplyPart(c) ==
    /\ PartLocked(c) /\ PartFits(c)
    /\ \E take \in Spread([l \in Line |-> SeenCapacity(c, l)], WantedRows(c),
                          CurrentPart(c).amount) :
          LET sign == IF tx[c].kind \in {Returned, Credited} THEN -1 ELSE 1 IN
          tx' = [tx EXCEPT ![c].next = @ + 1,
                           ![c].delta = [l \in Line |-> @[l] + sign * take[l]]]
    /\ UNCHANGED <<received, billed, deleted, band>>

\* Plausible bug: the error path returns and leaves its transaction open.
RejectLeavesTxOpen(c) == PartLocked(c) /\ ~PartFits(c) /\ UNCHANGED vars

\* The part does not fit: the whole transaction is dropped.
Reject(c) ==
    /\ PartLocked(c) /\ ~PartFits(c)
    /\ EndTx(c)
    /\ UNCHANGED <<received, billed, deleted, band>>

Commit(c) ==
    /\ Running(c) /\ ~MoreParts(c)
    /\ received' = [l \in Line |-> SeenReceived(c, l)]
    /\ billed' = [l \in Line |-> SeenBilled(c, l)]
    /\ EndTx(c)
    /\ UNCHANGED <<deleted, band>>

\* d owns the row c is waiting for.
WaitsFor(c, d) == \E l \in Line : NextRow(c, l) /\ d # c /\ l \in tx[d].held

\* c is on a cycle of waiting transactions.
Deadlocked(c) ==
    \E S \in SUBSET Client :
        /\ c \in S
        /\ \A d \in S : (\E e \in S : WaitsFor(d, e)) /\ (\E e \in S : WaitsFor(e, d))

\* The database's deadlock detector picks c as its victim.
DeadlockAbort(c) ==
    /\ Deadlocked(c)
    /\ EndTx(c)
    /\ UNCHANGED <<received, billed, deleted, band>>

\* The caller dies or loses its connection before the commit.
ConnectionLost(c) ==
    /\ Running(c)
    /\ EndTx(c)
    /\ UNCHANGED <<received, billed, deleted, band>>

-----------------------------------------------------------------------------
(* The other writers of the rows: one statement each, which waits for the  *)
(* row's lock.                                                             *)

Unlocked(l) == \A c \in Client : l \notin tx[c].held

\* The operator sets what a manual line received.  The only cap is the CHECK
\* constraint: a value it refuses changes nothing.
SetManualLineReceipt(l, n) ==
    /\ Unlocked(l)
    /\ SetReceived(l, n)
    /\ UNCHANGED <<band, tx>>

\* A line is dropped while its order is editable, whatever its watermarks are.
SoftDeleteLine(l) ==
    /\ Unlocked(l)
    /\ band = "editable"
    /\ DropLine(l)
    /\ UNCHANGED <<band, tx>>

\* The header moves.  Every change of band is an edge of the status machine.
HeaderMoves ==
    /\ band' \in Band \ {band}
    /\ UNCHANGED <<received, billed, deleted, tx>>

Step(c) ==
    \/ \E l \in Line : LockRow(c, l)
    \/ ApplyPart(c) \/ Reject(c) \/ Commit(c)

Next ==
    \/ \E c \in Client :
          \/ \E req \in Requests : Begin(c, req)
          \/ Step(c)
          \/ DeadlockAbort(c)
          \/ ConnectionLost(c)
    \/ \E l \in Line :
          \/ \E n \in 0 .. quantity[l] : SetManualLineReceipt(l, n)
          \/ SoftDeleteLine(l)
    \/ HeaderMoves

Spec == Init /\ [][Next]_vars

\* A running transaction keeps executing its statements, a freed row is handed
\* to the waiters in turn, and the detector breaks every deadlock.  Nothing
\* forces a call to be made, a connection to drop, or the header to move.
Fairness ==
    \A c \in Client :
        /\ WF_vars(Step(c))
        /\ \A l \in Line : SF_vars(LockRow(c, l))
        /\ WF_vars(DeadlockAbort(c))

FairSpec == Spec /\ Fairness

-----------------------------------------------------------------------------
(* Properties.                                                             *)

\* The 3-way match holds of the committed watermarks and of what every open
\* transaction has written so far, although no UPDATE of the transactions is
\* guarded by the CHECK constraint in this model: the caps computed under the
\* row locks are enough on their own (allocate, deallocate, match_bill_lines).
ThreeWayMatchHolds ==
    /\ LedgerMatches
    /\ \A c \in Client, l \in Line : LineCheck(l, SeenReceived(c, l), SeenBilled(c, l))

\* The whole of a request or none of it: when a transaction has applied its
\* last part, each item (each line, for a bill match) has moved by exactly the
\* sum of the quantities the request named for it, also when the request names
\* the same item twice.
AppliedInFull ==
    \A c \in Client : Running(c) /\ ~MoreParts(c) =>
        LET parts == tx[c].parts
            amounts == [i \in DOMAIN parts |-> AtLeastZero(parts[i].amount)]
            moved == [l \in Line |-> IF tx[c].delta[l] < 0 THEN -tx[c].delta[l]
                                                            ELSE tx[c].delta[l]]
            covers(l, t) == IF tx[c].kind = Matched THEN l = t ELSE item[l] = t
        IN \A i \in DOMAIN parts :
              Total(moved, {l \in Line : covers(l, parts[i].target)}) =
              Total(amounts, {j \in DOMAIN parts : parts[j].target = parts[i].target})

\* Every committed step is one of the ledger's: the interleaved, locking
\* transactions implement the atomic one-column changes of MatchLedger.
ImplementsLedger == LedgerSpec

\* A bill match is applied to an order in purchase only: match_bill_lines says
\* that it refuses "a PO not in the operational state".  It reads the status
\* before its transaction and never again, so an order that is cancelled or
\* reset in between is billed all the same.
BillMatchOnOperationalOrder ==
    [][\A c \in Client : tx[c].kind = Matched /\ Commit(c) => band = "purchase"]_vars

\* Every watermark transaction ends, even when several of them lock the same
\* rows in opposite orders.
EveryTransactionEnds == \A c \in Client : Running(c) ~> ~Running(c)
=============================================================================
