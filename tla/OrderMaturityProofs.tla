------------------------ MODULE OrderMaturityProofs ------------------------
(***************************************************************************)
(* What a recompute may be trusted with, for every order, every number of  *)
(* overlapping callers and every set of header moves, although any call    *)
(* may die between its statements: it repairs what it finds, and at rest   *)
(* the stored statuses are wrong only for one of the reasons that the      *)
(* history variable trusted records.                                       *)
(***************************************************************************)
EXTENDS OrderMaturity, TLAPS

-----------------------------------------------------------------------------
(* The ledger keeps the 3-way match, for every order.                      *)

LedgerTypes ==
    /\ received \in [Line -> Quantities]
    /\ billed \in [Line -> Quantities]
    /\ deleted \subseteq Line

LedgerInv == LedgerTypes /\ LedgerMatches

\* Watermarks are natural numbers, and so are the caps.
LEMMA QuantitiesAreNaturals ==
    /\ Quantities \subseteq Nat
    /\ \A l \in Line : quantity[l] \in Nat /\ 0 .. quantity[l] \subseteq Quantities
BY LineAssumption DEF Quantities

\* An order starts with nothing received and nothing billed.
LEMMA LedgerStarts == LedgerInit => LedgerInv
<1> SUFFICES ASSUME LedgerInit PROVE LedgerInv
    OBVIOUS
<1>1. LedgerTypes
    BY LineAssumption, QuantitiesAreNaturals DEF LedgerInit, LedgerTypes
<1>2. ASSUME NEW l \in Line PROVE LineCheck(l, received[l], billed[l])
    BY LineAssumption DEF LedgerInit, LineCheck, BillingCap
<1> QED BY <1>1, <1>2 DEF LedgerInv, LedgerMatches

\* Every change of the ledger keeps the match (the mark_* verbs, match_bill_lines,
\* the manual receipt and the line delete).
LEMMA LedgerStepKeepsMatch == LedgerInv /\ [LedgerNext]_ledgerVars => LedgerInv'
<1> SUFFICES ASSUME LedgerInv, [LedgerNext]_ledgerVars PROVE LedgerInv'
    OBVIOUS
<1> USE QuantitiesAreNaturals DEF LedgerInv, LedgerTypes, LedgerMatches
<1>0. ASSUME NEW l \in Line, NEW r \in Nat, NEW b \in Nat,
             b <= BillingCap(l, received[l]), r <= quantity[l],
             received[l] <= r \/ b <= r
      PROVE  LineCheck(l, r, b)
  <2>1. received[l] \in Nat /\ quantity[l] \in Nat /\ received[l] <= quantity[l]
      BY DEF LineCheck
  <2>2. b <= BillingCap(l, r)
    <3>1. CASE billMethod[l] = "purchase"
        BY <1>0, <2>1, <3>1 DEF BillingCap
    <3>2. CASE billMethod[l] # "purchase"
        BY <1>0, <2>1, <3>2 DEF BillingCap
    <3> QED BY <3>1, <3>2
  <2> QED BY <1>0, <2>2 DEF LineCheck
<1>9. ASSUME NEW l \in Line
      PROVE  /\ received[l] \in Nat /\ billed[l] \in Nat /\ quantity[l] \in Nat
             /\ received[l] <= quantity[l] /\ billed[l] <= BillingCap(l, received[l])
    BY DEF LineCheck
<1>1. CASE Receive
  <2>1. LedgerTypes'
      BY <1>1 DEF Receive
  <2>2. ASSUME NEW l \in Line PROVE LineCheck(l, received'[l], billed'[l])
    <3>0. received'[l] \in Nat
        BY <2>1
    <3>1. received'[l] \in Nat /\ received[l] <= received'[l] /\ received'[l] <= quantity[l]
      <4>1. CASE received'[l] = received[l]
          BY <1>9, <4>1
      <4>2. CASE received'[l] # received[l]
          BY <1>1, <1>9, <3>0, <4>2 DEF Receive
      <4> QED BY <4>1, <4>2
    <3> QED BY <1>0, <1>1, <1>9, <3>1 DEF Receive
  <2> QED BY <2>1, <2>2
<1>2. CASE Bill
  <2>1. LedgerTypes'
      BY <1>2 DEF Bill
  <2>2. ASSUME NEW l \in Line PROVE LineCheck(l, received'[l], billed'[l])
    <3>1. billed'[l] \in Nat /\ billed'[l] <= BillingCap(l, received[l])
        BY <1>2, <1>9, <2>1 DEF Bill
    <3> QED BY <1>2, <1>9, <3>1 DEF Bill, LineCheck
  <2> QED BY <2>1, <2>2
<1>3. CASE Return
  <2>1. LedgerTypes'
      BY <1>3 DEF Return
  <2>2. ASSUME NEW l \in Line PROVE LineCheck(l, received'[l], billed'[l])
    <3>1. /\ received'[l] \in Nat /\ received'[l] <= quantity[l]
          /\ received[l] <= received'[l] \/ billed[l] <= received'[l]
      <4>0. received'[l] \in Nat
          BY <2>1
      <4>1. CASE received'[l] = received[l]
          BY <1>9, <4>1
      <4>2. CASE received'[l] # received[l]
          BY <1>3, <1>9, <4>0, <4>2 DEF Return
      <4> QED BY <4>1, <4>2
    <3> QED BY <1>0, <1>3, <1>9, <3>1 DEF Return
  <2> QED BY <2>1, <2>2
<1>4. CASE Credit
  <2>1. LedgerTypes'
      BY <1>4 DEF Credit
  <2>2. ASSUME NEW l \in Line PROVE LineCheck(l, received'[l], billed'[l])
    <3>1. billed'[l] \in Nat /\ billed'[l] <= billed[l]
      <4>0. billed'[l] \in Nat
          BY <2>1
      <4>1. CASE billed'[l] = billed[l]
          BY <1>9, <4>1
      <4>2. CASE billed'[l] # billed[l]
          BY <1>4, <1>9, <4>0, <4>2 DEF Credit
      <4> QED BY <4>1, <4>2
    <3>2. billed'[l] <= BillingCap(l, received[l])
        BY <1>9, <3>1, LineAssumption DEF BillingCap
    <3> QED BY <1>0, <1>4, <1>9, <3>1, <3>2 DEF Credit
  <2> QED BY <2>1, <2>2
<1>5. ASSUME NEW k \in Line, NEW n \in 0 .. quantity[k], SetReceived(k, n) PROVE LedgerInv'
  <2>1. LedgerTypes'
      BY <1>5 DEF SetReceived
  <2>2. ASSUME NEW l \in Line PROVE LineCheck(l, received'[l], billed'[l])
      BY <1>5 DEF SetReceived
  <2> QED BY <2>1, <2>2
<1>6. ASSUME NEW k \in Line, DropLine(k) PROVE LedgerInv'
    BY <1>6 DEF DropLine, Live
<1>7. CASE UNCHANGED ledgerVars
    BY <1>7 DEF ledgerVars
<1> QED BY <1>1, <1>2, <1>3, <1>4, <1>5, <1>6, <1>7 DEF LedgerNext

\* The abstract specification keeps every line inside its CHECK constraint, for
\* every set of lines: received within what was ordered, billed within the cap.
THEOREM LedgerKeepsMatch == LedgerSpec => []LedgerMatches
<1>1. LedgerInv => LedgerMatches
    BY DEF LedgerInv
<1> QED BY LedgerStarts, LedgerStepKeepsMatch, <1>1, PTL DEF LedgerSpec

-----------------------------------------------------------------------------
(* The recompute beside it.                                                *)

\* What a call that is fresh will write is what the lines say now.
FreshIsTrue ==
    \A c \in Client : job[c].at = "write" /\ job[c].fresh =>
        job[c].receipt = ReceiptStatusOfLines /\ job[c].invoice = InvoiceStatusOfLines

IInv == TypeOK /\ LedgerMatches /\ FreshIsTrue

LEMMA ProjectionTypes ==
    ReceiptStatusOfLines \in ReceiptStatuses /\ InvoiceStatusOfLines \in InvoiceStatuses
BY DEF ReceiptStatusOfLines, InvoiceStatusOfLines, ReceiptStatuses, InvoiceStatuses

LEMMA NoJobIsJob == NoJob \in Job
BY DEF NoJob, Job, ReceiptStatuses, InvoiceStatuses

\* The header part of the types.
HeaderTypes ==
    /\ status \in Status
    /\ acknowledged \in BOOLEAN
    /\ receiptStatus \in ReceiptStatuses /\ invoiceStatus \in InvoiceStatuses
    /\ trusted \in BOOLEAN

LEMMA TypeParts == TypeOK <=> LedgerTypes /\ HeaderTypes /\ job \in [Client -> Job]
BY DEF TypeOK, LedgerTypes, HeaderTypes

LEMMA InitEstablishesIInv == Init => IInv
<1> SUFFICES ASSUME Init PROVE IInv
    OBVIOUS
<1>1. LedgerTypes /\ LedgerMatches
    BY LedgerStarts DEF Init, LedgerInv
<1>2. HeaderTypes
    BY MaturityAssumption DEF Init, HeaderTypes, ReceiptStatuses, InvoiceStatuses
<1>3. job \in [Client -> Job]
    BY NoJobIsJob DEF Init
<1>4. FreshIsTrue
    BY DEF Init, FreshIsTrue, NoJob
<1> QED BY <1>1, <1>2, <1>3, <1>4, TypeParts DEF IInv

\* A change of the lines leaves nothing fresh, so that only the ledger's own
\* invariant is at stake (the commits of the watermark calls, the line delete).
LEMMA LedgerStepKeepsIInv ==
    ASSUME IInv, LedgerNext, HeaderTypes', job' \in [Client -> Job],
           \A c \in Client : ~job'[c].fresh
    PROVE  IInv'
<1>1. LedgerInv'
    BY LedgerStepKeepsMatch, TypeParts DEF IInv, LedgerInv
<1>2. FreshIsTrue'
    BY DEF FreshIsTrue
<1>3. TypeOK'
    BY <1>1 DEF LedgerInv, LedgerTypes, HeaderTypes, TypeOK
<1> QED BY <1>1, <1>2, <1>3 DEF IInv, LedgerInv

\* A call enters with its commit.
LEMMA CallKeepsIInv ==
    ASSUME IInv, LedgerNext, NEW c \in Client, NEW at \in {"acknowledge", "read"},
           NEW call \in {"receipt", "manual", "other"}, Begin(c, at, call)
    PROVE  IInv'
<1> DEFINE j == [NoJob EXCEPT !.at = at, !.call = call]
<1>1. job \in [Client -> Job]
    BY TypeParts DEF IInv
<1>2. j \in Job /\ ~j.fresh
    BY NoJobIsJob DEF Job, NoJob
<1>3. Overtaken \in [Client -> Job] /\ \A d \in Client : ~Overtaken[d].fresh
    BY <1>1 DEF Overtaken, Job
<1>4. job' = [Overtaken EXCEPT ![c] = j]
    BY DEF Begin
<1>5. job' \in [Client -> Job] /\ \A d \in Client : ~job'[d].fresh
    BY <1>2, <1>3, <1>4
<1>6. HeaderTypes'
    BY TypeParts DEF IInv, Begin, HeaderTypes, maturity
<1> QED BY <1>5, <1>6, LedgerStepKeepsIInv

\* A step that leaves the lines alone and hands client c the job j, which is
\* not fresh unless it holds what the lines say.
LEMMA JobStepKeepsIInv ==
    ASSUME IInv, UNCHANGED ledgerVars, HeaderTypes',
           NEW c \in Client, NEW j \in Job, job' = [job EXCEPT ![c] = j],
           j.at = "write" /\ j.fresh =>
               j.receipt = ReceiptStatusOfLines /\ j.invoice = InvoiceStatusOfLines
    PROVE  IInv'
<1>1. job \in [Client -> Job] /\ LedgerTypes
    BY TypeParts DEF IInv
<1>2. /\ ReceiptStatusOfLines' = ReceiptStatusOfLines
      /\ InvoiceStatusOfLines' = InvoiceStatusOfLines
    BY DEF ledgerVars, ReceiptStatusOfLines, InvoiceStatusOfLines, Live
<1>3. job' \in [Client -> Job]
    BY <1>1
<1>4. FreshIsTrue'
  <2> SUFFICES ASSUME NEW d \in Client, job'[d].at = "write", job'[d].fresh
               PROVE  /\ job'[d].receipt = ReceiptStatusOfLines
                      /\ job'[d].invoice = InvoiceStatusOfLines
      BY <1>2 DEF FreshIsTrue
  <2>1. CASE d = c
      BY <2>1, <1>1
  <2>2. CASE d # c
      BY <2>2, <1>1 DEF IInv, FreshIsTrue
  <2> QED BY <2>1, <2>2
<1>5. LedgerTypes' /\ LedgerMatches'
    BY <1>1 DEF IInv, ledgerVars, LedgerTypes, LedgerMatches
<1>6. TypeOK'
    BY <1>3, <1>5 DEF LedgerTypes, HeaderTypes, TypeOK
<1> QED BY <1>4, <1>5, <1>6 DEF IInv

\* The calls' own statements leave the lines alone.
LEMMA CallStepsKeepIInv ==
    ASSUME IInv, NEW c \in Client,
           Acknowledge(c) \/ ReadMaturity(c) \/ WriteMaturity(c) \/ Publish(c) \/ Break(c)
    PROVE  IInv'
<1> USE TypeParts DEF IInv
<1>0. job[c] \in Job
    OBVIOUS
<1>1. CASE Acknowledge(c)
  <2> DEFINE j == [job[c] EXCEPT !.at = "read"]
  <2>1. j \in Job /\ j.at # "write" /\ job' = [job EXCEPT ![c] = j]
      BY <1>0, <1>1 DEF Acknowledge, Job
  <2>2. UNCHANGED ledgerVars /\ HeaderTypes'
      BY <1>1 DEF Acknowledge, HeaderTypes, maturity
  <2> QED BY <2>1, <2>2, JobStepKeepsIInv
<1>2. CASE ReadMaturity(c)
  <2> DEFINE j == IF Live = {} THEN NoJob
                  ELSE [job[c] EXCEPT !.at = "write", !.fresh = TRUE,
                          !.receipt = ReceiptStatusOfLines,
                          !.invoice = InvoiceStatusOfLines,
                          !.milestone = ReceiptStatusOfLines = "full" /\ receiptStatus # "full"]
  <2>1. job' = [job EXCEPT ![c] = j]
      BY <1>2 DEF ReadMaturity
  <2>2. j \in Job
      BY <1>0, NoJobIsJob, ProjectionTypes DEF Job
  <2>3. j.at = "write" /\ j.fresh =>
            j.receipt = ReceiptStatusOfLines /\ j.invoice = InvoiceStatusOfLines
      BY <1>0 DEF Job, NoJob
  <2>4. UNCHANGED ledgerVars /\ HeaderTypes'
      BY <1>2 DEF ReadMaturity, HeaderTypes, maturity
  <2> QED BY <2>1, <2>2, <2>3, <2>4, JobStepKeepsIInv
<1>3. CASE WriteMaturity(c)
  <2> DEFINE j == Written(job[c])
  <2>1. job' = [job EXCEPT ![c] = j]
      BY <1>3 DEF WriteMaturity
  <2>2. j \in Job /\ j.at # "write"
      BY <1>0 DEF Job, Written, NoJob, ReceiptStatuses, InvoiceStatuses
  <2>3. UNCHANGED ledgerVars /\ HeaderTypes'
      BY <1>0, <1>3 DEF WriteMaturity, HeaderTypes, maturity, Job
  <2> QED BY <2>1, <2>2, <2>3, JobStepKeepsIInv
<1>4. CASE Publish(c) \/ Break(c)
  <2>1. job' = [job EXCEPT ![c] = NoJob] /\ UNCHANGED ledgerVars
      BY <1>4 DEF Publish, Break
  <2>2. HeaderTypes'
      BY <1>4 DEF Publish, Break, HeaderTypes, maturity
  <2>3. NoJob.at # "write"
      BY DEF NoJob
  <2> QED BY <2>1, <2>2, <2>3, NoJobIsJob, JobStepKeepsIInv
<1> QED BY <1>1, <1>2, <1>3, <1>4

\* The header moves, or nothing does.
LEMMA HeaderMovesKeepIInv ==
    ASSUME IInv, UNCHANGED <<ledgerVars, maturity, acknowledged, job, trusted>>, status' \in Status
    PROVE  IInv'
<1>1. TypeOK' /\ LedgerMatches'
    BY DEF IInv, TypeOK, LedgerMatches, ledgerVars, maturity
<1>2. FreshIsTrue'
    BY DEF IInv, FreshIsTrue, ledgerVars, ReceiptStatusOfLines, InvoiceStatusOfLines, Live
<1> QED BY <1>1, <1>2 DEF IInv

LEMMA StepKeepsIInv == IInv /\ [Next]_vars => IInv'
<1> SUFFICES ASSUME IInv, [Next]_vars PROVE IInv'
    OBVIOUS
<1>1. ASSUME NEW c \in Client,
             MarkReceived(c) \/ MarkBilled(c) \/ MarkReturned(c) \/ MarkCredited(c)
      PROVE  IInv'
    BY <1>1, CallKeepsIInv DEF MarkReceived, MarkBilled, MarkReturned, MarkCredited, LedgerNext
<1>2. ASSUME NEW c \in Client, NEW l \in Line, NEW n \in 0 .. quantity[l],
             SetManualLineReceipt(c, l, n)
      PROVE  IInv'
  <2>1. LedgerNext
      BY <1>2 DEF SetManualLineReceipt, LedgerNext
  <2> QED BY <1>2, <2>1, CallKeepsIInv DEF SetManualLineReceipt
<1>3. ASSUME NEW c \in Client,
             Acknowledge(c) \/ ReadMaturity(c) \/ WriteMaturity(c) \/ Publish(c) \/ Break(c)
      PROVE  IInv'
    BY <1>3, CallStepsKeepIInv
<1>4. CASE HeaderMoves
    BY <1>4, HeaderMovesKeepIInv DEF HeaderMoves
<1>5. ASSUME NEW l \in Line, SoftDeleteLine(l) PROVE IInv'
  <2>1. LedgerNext
      BY <1>5 DEF SoftDeleteLine, LedgerNext
  <2>2. job \in [Client -> Job] /\ HeaderTypes
      BY TypeParts DEF IInv
  <2>3. job' \in [Client -> Job] /\ \A c \in Client : ~job'[c].fresh
      BY <1>5, <2>2 DEF SoftDeleteLine, Overtaken, Job
  <2>4. HeaderTypes'
      BY <1>5, <2>2 DEF SoftDeleteLine, HeaderTypes, maturity
  <2> QED BY <2>1, <2>3, <2>4, LedgerStepKeepsIInv
<1>6. CASE UNCHANGED vars
    BY <1>6, HeaderMovesKeepIInv, TypeParts DEF vars, IInv, HeaderTypes
<1> QED BY <1>1, <1>2, <1>3, <1>4, <1>5, <1>6 DEF Next

THEOREM InductiveInvariant == Spec => []IInv
<1> QED BY InitEstablishesIInv, StepKeepsIInv, PTL DEF Spec

\* The state of the recompute keeps its types.
THEOREM TypeCorrect == Spec => []TypeOK
<1>1. IInv => TypeOK
    BY DEF IInv
<1> QED BY InductiveInvariant, <1>1, PTL

\* The ledger's match holds under the recompute, too.
THEOREM MatchHolds == Spec => []LedgerMatches
<1>1. IInv => LedgerMatches
    BY DEF IInv
<1> QED BY InductiveInvariant, <1>1, PTL

\* Every undisturbed recompute of an order in purchase leaves its two stored
\* statuses true of its lines, whatever happened before
\* (recompute_order_maturity, fetch_maturity, update_maturity).
THEOREM RecomputeRepairs == Spec => FreshRecomputeRepairs
<1>1. ASSUME IInv, [Next]_vars, NEW c \in Client,
             job[c].at = "write", job'[c].at = "publish", job[c].fresh, status = "purchase"
      PROVE  Projected'
  <2>0. job \in [Client -> Job]
      BY <1>1, TypeParts DEF IInv
  <2>1. job[c].receipt = ReceiptStatusOfLines /\ job[c].invoice = InvoiceStatusOfLines
      BY <1>1 DEF IInv, FreshIsTrue
  <2>2. WriteMaturity(c)
    <3>1. ASSUME NEW d \in Client, NEW at \in {"acknowledge", "read"}, NEW call,
                 Begin(d, at, call)
          PROVE  FALSE
      <4>1. job'[c] = IF c = d THEN [NoJob EXCEPT !.at = at, !.call = call]
                      ELSE [job[c] EXCEPT !.fresh = FALSE]
          BY <2>0, <3>1 DEF Begin, Overtaken
      <4>2. job'[c].at \in {at, job[c].at}
          BY <2>0, <4>1 DEF NoJob, Job
      <4> QED BY <1>1, <4>2
    <3>2. ASSUME NEW d \in Client, Acknowledge(d) \/ ReadMaturity(d) \/ Publish(d) \/ Break(d)
          PROVE  FALSE
      <4>1. job'[c].at \in {"none", "read", "write"}
          BY <1>1, <2>0, <3>2 DEF Acknowledge, ReadMaturity, Publish, Break, NoJob, Job
      <4> QED BY <1>1, <4>1
    <3>3. ASSUME NEW d \in Client, WriteMaturity(d) PROVE d = c
        BY <1>1, <2>0, <3>3 DEF WriteMaturity
    <3>4. ASSUME NEW l \in Line, SoftDeleteLine(l) PROVE FALSE
        BY <1>1, <2>0, <3>4 DEF SoftDeleteLine, Overtaken, Job
    <3>5. ~HeaderMoves /\ ~UNCHANGED vars
        BY <1>1 DEF HeaderMoves, vars
    <3> QED BY <1>1, <3>1, <3>2, <3>3, <3>4, <3>5 DEF Next, MarkReceived, MarkBilled,
              MarkReturned, MarkCredited, SetManualLineReceipt
  <2>3. /\ ReceiptStatusOfLines' = ReceiptStatusOfLines
        /\ InvoiceStatusOfLines' = InvoiceStatusOfLines
      BY <2>2 DEF WriteMaturity, ledgerVars, ReceiptStatusOfLines, InvoiceStatusOfLines, Live
  <2> QED BY <1>1, <2>1, <2>2, <2>3 DEF WriteMaturity, Projected
<1>2. IInv /\ [Next]_vars =>
          [\A c \in Client :
              job[c].at = "write" /\ job'[c].at = "publish" /\ job[c].fresh /\ status = "purchase"
              => Projected']_vars
    BY <1>1
<1> QED BY InductiveInvariant, <1>2, PTL DEF Spec, FreshRecomputeRepairs

-----------------------------------------------------------------------------
(* When the stored statuses may be trusted.                                *)

\* When every call under way has written, or none is under way.
AllWritten == \A c \in Client : job[c].at \in {"none", "publish"}

SettledWhenTrusted == trusted /\ AllWritten => Projected

\* A call enters after its commit and has its recompute before it.
LEMMA CallEnters ==
    ASSUME job \in [Client -> Job], NEW c \in Client,
           \/ MarkReceived(c) \/ MarkBilled(c) \/ MarkReturned(c) \/ MarkCredited(c)
           \/ \E l \in Line : \E n \in 0 .. quantity[l] : SetManualLineReceipt(c, l, n)
    PROVE  job'[c].at \in {"acknowledge", "read"}
<1>1. ASSUME NEW at, NEW call, Begin(c, at, call) PROVE job'[c].at = at
    BY <1>1 DEF Begin, Overtaken, NoJob
<1>2. \E at \in {"acknowledge", "read"} : \E call \in {"receipt", "other", "manual"} :
          Begin(c, at, call)
    BY DEF MarkReceived, MarkBilled, MarkReturned, MarkCredited, SetManualLineReceipt
<1> QED BY <1>1, <1>2

\* The projections depend on the lines alone.
LEMMA ProjectedKept ==
    ASSUME Projected, UNCHANGED <<ledgerVars, maturity>> PROVE Projected'
BY DEF Projected, ledgerVars, maturity, ReceiptStatusOfLines, InvoiceStatusOfLines, Live

LEMMA StepKeepsSettled ==
    IInv /\ SettledWhenTrusted /\ [Next]_vars => SettledWhenTrusted'
<1> SUFFICES ASSUME IInv, SettledWhenTrusted, [Next]_vars, trusted', AllWritten'
             PROVE  Projected'
    BY DEF SettledWhenTrusted
<1>0. job \in [Client -> Job]
    BY TypeParts DEF IInv
<1>1. ASSUME NEW c \in Client,
             \/ MarkReceived(c) \/ MarkBilled(c) \/ MarkReturned(c) \/ MarkCredited(c)
             \/ \E l \in Line : \E n \in 0 .. quantity[l] : SetManualLineReceipt(c, l, n)
      PROVE  FALSE
  <2>1. job'[c].at \in {"acknowledge", "read"}
      BY <1>0, <1>1, CallEnters
  <2> QED BY <2>1 DEF AllWritten
<1>2. ASSUME NEW c \in Client, Acknowledge(c) PROVE FALSE
  <2>1. job'[c].at = "read"
      BY <1>0, <1>2 DEF Acknowledge
  <2> QED BY <2>1 DEF AllWritten
<1>3. ASSUME NEW c \in Client, ReadMaturity(c) PROVE FALSE
  <2>1. Live # {}
      BY <1>3 DEF ReadMaturity
  <2>2. job'[c].at = "write"
      BY <1>0, <1>3, <2>1 DEF ReadMaturity, Job
  <2> QED BY <2>2 DEF AllWritten
<1>4. ASSUME NEW c \in Client, WriteMaturity(c) PROVE Projected'
  <2>1. job[c].at = "write" /\ job[c].fresh /\ status = "purchase"
      BY <1>4 DEF WriteMaturity
  <2>2. job[c].receipt = ReceiptStatusOfLines /\ job[c].invoice = InvoiceStatusOfLines
      BY <2>1 DEF IInv, FreshIsTrue
  <2>3. /\ receiptStatus' = ReceiptStatusOfLines /\ invoiceStatus' = InvoiceStatusOfLines
        /\ UNCHANGED ledgerVars
      BY <1>4, <2>1, <2>2 DEF WriteMaturity
  <2> QED BY <2>3 DEF Projected, ledgerVars, ReceiptStatusOfLines, InvoiceStatusOfLines, Live
<1>5. ASSUME NEW c \in Client, Publish(c) \/ Break(c) PROVE Projected'
  <2>1. /\ trusted /\ job[c].at \in {"none", "publish"}
        /\ job' = [job EXCEPT ![c] = NoJob]
        /\ UNCHANGED <<ledgerVars, maturity>>
      BY <1>5 DEF Publish, Break
  <2>2. AllWritten
      BY <1>0, <2>1 DEF AllWritten
  <2> QED BY <2>1, <2>2, ProjectedKept DEF SettledWhenTrusted
<1>6. ASSUME NEW l \in Line, SoftDeleteLine(l) PROVE FALSE
    BY <1>6 DEF SoftDeleteLine
<1>7. CASE HeaderMoves \/ UNCHANGED vars
  <2>1. UNCHANGED <<ledgerVars, maturity, job, trusted>>
      BY <1>7 DEF HeaderMoves, vars
  <2> QED BY <2>1, ProjectedKept DEF SettledWhenTrusted, AllWritten
<1> QED BY <1>1, <1>2, <1>3, <1>4, <1>5, <1>6, <1>7 DEF Next

\* At rest the stored statuses are those of the lines, unless the last write was
\* overtaken or found the order out of purchase, a call ended before its write,
\* or a line was deleted, with any number of overlapping calls and whatever dies.
THEOREM StatusesMayBeTrusted == Spec => []StatusesTrusted
<1>1. Init => SettledWhenTrusted
    BY DEF Init, SettledWhenTrusted
<1>2. SettledWhenTrusted => StatusesTrusted
    BY DEF SettledWhenTrusted, StatusesTrusted, AllWritten, Quiet
<1> QED BY <1>1, <1>2, StepKeepsSettled, InductiveInvariant, PTL DEF Spec
=============================================================================
