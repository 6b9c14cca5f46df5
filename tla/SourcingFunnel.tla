--------------------------- MODULE SourcingFunnel ---------------------------
(***************************************************************************)
(* The sourcing funnel: a material request is converted into an RFQ, an    *)
(* RFQ into a supplier's quotation, a quotation into a purchase order, by  *)
(* concurrent callers, statement by statement.  Every conversion reads its *)
(* source on the pool and writes in a transaction of its own afterwards.   *)
(* A request is marked inside of that transaction, a quotation in one more *)
(* after it.                                                               *)
(*                                                                         *)
(* A document is identified by its position in the sequence of its kind;   *)
(* 0 is no document.  Lines never change once their document is written    *)
(* (no verb edits them), so they are read together with their header.      *)
(***************************************************************************)
EXTENDS OrderPricing, Functions, FiniteSets

CONSTANTS
    Client,        \* concurrent callers
    Number,        \* document numbers
    NumberOf,      \* NumberOf[kind] : those the documents of a kind are given
    Supplier, Currency, Item,
    Method,        \* the words callers send for the methods of a line, known or not
    Wants,         \* the lines of requests: [item, quantity]
    Offers,        \* quotations and orders entered by hand: [supplier, currency, lines]
    Quotes,        \* quoted_rates of a conversion: a rate for every item, or 0
    Invitations,   \* the suppliers an RFQ goes to, as a list
    Supplied,      \* the currency rates callers supply, 0 for none
    TaxRates,
    Bound          \* bound: documents of each kind, and how many are deleted

Idr == "IDR"
NoCurrency == "none"

WantedLines == Seq([item : Item, quantity : Int])
PricedLines == Seq([item : Item, quantity : Int, rate : Int, method : Method])
Offer == [supplier : Supplier, currency : Currency \union {NoCurrency}, lines : PricedLines]
Kind == {"request", "rfq", "quotation", "order"}

ASSUME FunnelAssumption ==
    /\ Idr \in Currency /\ NoCurrency \notin Currency
    /\ NumberOf \in [Kind -> SUBSET Number]
    /\ LineMethod \subseteq Method
    /\ Wants \subseteq WantedLines /\ Offers \subseteq Offer
    /\ Quotes \subseteq [Item -> Int]
    /\ Invitations \subseteq Seq(Supplier)
    /\ Supplied \subseteq Int /\ TaxRates \subseteq Nat
    /\ Bound \in [Kind \union {"deleted"} -> Nat]

VARIABLES
    requests, rfqs, quotations, orders,   \* the rows, in commit order
    home,          \* company_currency of the settings row; Idr without one
    call,          \* call[c] : what caller c is in the middle of
    announced      \* events published: [kind, id, source]

vars == <<requests, rfqs, quotations, orders, home, call, announced>>
rows == <<requests, rfqs, quotations, orders>>

Event == [kind : Kind, id : Nat, source : Nat]

\* An order about to be created; its rate is 0 until it is settled.  homes is
\* history: the home currencies there were while the call ran.
NewOrder == [number : Number, quotation : Nat, converted : BOOLEAN, supplier : Supplier,
             currency : Currency \union {NoCurrency}, supplied : Int, rate : Int,
             lines : PricedLines, taxRate : Nat, homes : SUBSET Currency]

Idle == [at |-> "idle"]

Call ==
    {Idle}
    \union [at : {"issue"}, source : Nat, number : Number, invited : Seq(Supplier)]
    \union [at : {"quote"}, source : Nat, number : Number, supplier : Supplier,
            rates : [Item -> Int]]
    \union [at : {"resolve", "insert"}, order : NewOrder]
    \union [at : {"mark"}, source : Nat]

RequestRow == [number : Number, status : {"draft", "ordered"}, lines : WantedLines,
               deleted : BOOLEAN]
RfqRow == [number : Number, status : {"submitted", "cancelled"}, request : Nat,
           lines : WantedLines, invited : SUBSET Supplier, deleted : BOOLEAN]
\* answers is history: the quotation was converted from its RFQ.
QuotationRow == [number : Number, status : {"draft", "submitted", "ordered"}, rfq : Nat,
                 answers : BOOLEAN, supplier : Supplier, currency : Currency,
                 lines : PricedLines, deleted : BOOLEAN]
\* converted is history.
OrderRow == [number : Number, quotation : Nat, converted : BOOLEAN, supplier : Supplier,
             currency : Currency, rate : Int,
             lines : PricedLines, amounts : Seq(Int), subtotal : Int, taxRate : Nat,
             taxAmount : Int, total : Int, deleted : BOOLEAN]

TypeOK ==
    /\ requests \in Seq(RequestRow) /\ rfqs \in Seq(RfqRow)
    /\ quotations \in Seq(QuotationRow) /\ orders \in Seq(OrderRow)
    /\ home \in Currency
    /\ call \in [Client -> Call]
    /\ announced \subseteq Event

Init ==
    /\ requests = <<>> /\ rfqs = <<>> /\ quotations = <<>> /\ orders = <<>>
    /\ home = Idr
    /\ call = [c \in Client |-> Idle]
    /\ announced = {}

-----------------------------------------------------------------------------
(* What the statements test.                                               *)

Free(c) == call[c] = Idle
At(c, place) == call[c].at = place
Goto(c, next) == call' = [call EXCEPT ![c] = next]

\* The event of a document is published after its commit.  A process that dies in
\* between leaves the same rows and one event fewer, of which nothing is asked.
Publishes(kind, id, source) ==
    announced' = announced \union {[kind |-> kind, id |-> id, source |-> source]}

\* The unique index of a table lets the number in: no live row has it.
NumberFree(table, n) == \A i \in DOMAIN table : table[i].deleted \/ table[i].number # n

\* fetch_source finds the row: it exists and is not deleted.
Found(table, i) == i \in DOMAIN table /\ ~table[i].deleted

\* The same supplier twice on one RFQ breaks a unique index.
Invitable(suppliers) ==
    \A i, j \in DOMAIN suppliers : suppliers[i] = suppliers[j] => i = j

\* The items of an RFQ at the rates a supplier quotes for them; an item nobody
\* quoted gets the rate 0.
AtRates(lines, rates) ==
    [i \in DOMAIN lines |-> [item |-> lines[i].item, quantity |-> lines[i].quantity,
                             rate |-> rates[lines[i].item], method |-> "none"]]

\* A quotation line has no method columns.
WithoutMethods(lines) == [i \in DOMAIN lines |-> [lines[i] EXCEPT !.method = "none"]]

-----------------------------------------------------------------------------
(* Material request and RFQ.                                               *)

\* create_material_request: header and lines in one transaction.
CreateRequest(n, lines) ==
    /\ Len(requests) < Bound["request"]
    /\ lines # <<>> /\ \A i \in DOMAIN lines : lines[i].quantity >= 0
    /\ NumberFree(requests, n)
    /\ requests' = Append(requests, [number |-> n, status |-> "draft", lines |-> lines,
                                     deleted |-> FALSE])
    /\ Publishes("request", Len(requests) + 1, 0)
    /\ UNCHANGED <<rfqs, quotations, orders, home, call>>

\* convert_material_request_to_rfq reads its source.  Requests are never
\* cancelled, and one that is ordered already may be converted again.
ReadRequest(c, m, n, suppliers) ==
    /\ Free(c) /\ Found(requests, m) /\ Len(rfqs) < Bound["rfq"]
    /\ Goto(c, [at |-> "issue", source |-> m, number |-> n, invited |-> suppliers])
    /\ UNCHANGED <<rows, home, announced>>

MayIssue(c) == NumberFree(rfqs, call[c].number) /\ Invitable(call[c].invited)

RfqOf(c) ==
    [number |-> call[c].number, status |-> "submitted", request |-> call[c].source,
     lines |-> requests[call[c].source].lines,
     invited |-> {call[c].invited[i] : i \in DOMAIN call[c].invited}, deleted |-> FALSE]

\* Plausible bug: the request is marked on the pool, before the RFQ is written.
IssueMarksFirst(c) ==
    /\ At(c, "issue") /\ Len(rfqs) < Bound["rfq"]
    /\ requests' = [requests EXCEPT ![call[c].source].status = "ordered"]
    /\ IF MayIssue(c)
       THEN /\ rfqs' = Append(rfqs, RfqOf(c))
            /\ Publishes("rfq", Len(rfqs) + 1, call[c].source)
       ELSE UNCHANGED <<rfqs, announced>>
    /\ Goto(c, Idle)
    /\ UNCHANGED <<quotations, orders, home>>

\* Plausible bug: the event is published before the commit, which may fail.
IssueAnnouncesFirst(c) ==
    /\ At(c, "issue") /\ Len(rfqs) < Bound["rfq"]
    /\ Publishes("rfq", Len(rfqs) + 1, call[c].source)
    /\ IF MayIssue(c)
       THEN /\ rfqs' = Append(rfqs, RfqOf(c))
            /\ requests' = [requests EXCEPT ![call[c].source].status = "ordered"]
       ELSE UNCHANGED <<rfqs, requests>>
    /\ Goto(c, Idle)
    /\ UNCHANGED <<quotations, orders, home>>

\* ... and writes RFQ, lines, suppliers and the mark in one transaction.
IssueRfq(c) ==
    /\ At(c, "issue") /\ Len(rfqs) < Bound["rfq"]
    /\ MayIssue(c)
    /\ rfqs' = Append(rfqs, RfqOf(c))
    /\ requests' = [requests EXCEPT ![call[c].source].status = "ordered"]
    /\ Goto(c, Idle)
    /\ Publishes("rfq", Len(rfqs) + 1, call[c].source)
    /\ UNCHANGED <<quotations, orders, home>>

-----------------------------------------------------------------------------
(* Supplier quotation.                                                     *)

\* An absent currency is the given one.
CurrencyOr(o, cur) == IF o.currency = NoCurrency THEN cur ELSE o.currency

\* Plausible bug: the status is a word of another document's.
QuotationMisspelt(n, r, answers, s, cur, lines) ==
    [number |-> n, status |-> "sent", rfq |-> r, answers |-> answers, supplier |-> s,
     currency |-> cur, lines |-> StoredLines(lines), deleted |-> FALSE]

SubmittedQuotation(n, r, answers, s, cur, lines) ==
    [number |-> n, status |-> "submitted", rfq |-> r, answers |-> answers, supplier |-> s,
     currency |-> cur, lines |-> StoredLines(lines), deleted |-> FALSE]

\* create_supplier_quotation: one transaction, for any RFQ or none, any supplier.
CreateQuotation(n, r, offer) ==
    /\ Len(quotations) < Bound["quotation"]
    /\ Priceable(offer.lines)
    /\ r \in DOMAIN rfqs \union {0}
    /\ NumberFree(quotations, n)
    /\ quotations' = Append(quotations,
           SubmittedQuotation(n, r, FALSE, offer.supplier, CurrencyOr(offer, Idr),
                              WithoutMethods(offer.lines)))
    /\ UNCHANGED <<requests, rfqs, orders, home, call, announced>>

\* convert_rfq_to_supplier_quotation reads its source.
ReadRfq(c, r, n, s, rates) ==
    /\ Free(c) /\ Found(rfqs, r) /\ Len(quotations) < Bound["quotation"]
    /\ rfqs[r].status # "cancelled"
    /\ Goto(c, [at |-> "quote", source |-> r, number |-> n, supplier |-> s, rates |-> rates])
    /\ UNCHANGED <<rows, home, announced>>

QuotedLines(c) == AtRates(rfqs[call[c].source].lines, call[c].rates)
MayQuote(c) ==
    /\ NumberFree(quotations, call[c].number)
    /\ \A i \in DOMAIN QuotedLines(c) : QuotedLines(c)[i].rate >= 0

\* ... and writes the quotation, in rupiah, without looking at the RFQ again
\* and without marking it.
CommitQuotation(c) ==
    /\ At(c, "quote") /\ Len(quotations) < Bound["quotation"]
    /\ MayQuote(c)
    /\ quotations' = Append(quotations,
           SubmittedQuotation(call[c].number, call[c].source, TRUE, call[c].supplier, Idr,
                              QuotedLines(c)))
    /\ Goto(c, Idle)
    /\ Publishes("quotation", Len(quotations) + 1, call[c].source)
    /\ UNCHANGED <<requests, rfqs, orders, home>>

-----------------------------------------------------------------------------
(* Purchase order.                                                         *)

\* create_purchase_order by a caller of its own, who may name any quotation.
CreateOrder(c, n, q, offer, rate, taxRate) ==
    /\ Free(c) /\ Priceable(offer.lines) /\ Len(orders) < Bound["order"]
    /\ q \in DOMAIN quotations \union {0}
    /\ Goto(c, [at |-> "resolve",
                order |-> [number |-> n, quotation |-> q, converted |-> FALSE,
                           supplier |-> offer.supplier, currency |-> offer.currency,
                           supplied |-> rate, rate |-> 0, lines |-> offer.lines,
                           taxRate |-> taxRate, homes |-> {home}]])
    /\ UNCHANGED <<rows, home, announced>>

\* convert_supplier_quotation_to_po reads its source and calls the same
\* creation, with the quotation's currency and without a rate.
ReadQuotation(c, q, n, taxRate) ==
    /\ Free(c) /\ Found(quotations, q) /\ Len(orders) < Bound["order"]
    /\ quotations[q].status = "submitted"
    /\ Priceable(quotations[q].lines)
    /\ Goto(c, [at |-> "resolve",
                order |-> [number |-> n, quotation |-> q, converted |-> TRUE,
                           supplier |-> quotations[q].supplier,
                           currency |-> quotations[q].currency, supplied |-> 0, rate |-> 0,
                           lines |-> quotations[q].lines, taxRate |-> taxRate,
                           homes |-> {home}]])
    /\ UNCHANGED <<rows, home, announced>>

Resolves(o) == RateResolves(CurrencyOr(o, home), o.supplied, home)

\* The home currency is read on the pool, and the rate settled by it.
ResolveCurrency(c) ==
    LET o == call[c].order IN
    /\ At(c, "resolve") /\ Resolves(o)
    /\ Goto(c, [at |-> "insert",
                order |-> [o EXCEPT !.currency = CurrencyOr(o, home),
                                    !.rate = ResolveRate(CurrencyOr(o, home), o.supplied, home)]])
    /\ UNCHANGED <<rows, home, announced>>

MayInsert(o) == NumberFree(orders, o.number) /\ MethodsKnown(o.lines)

OrderRowOf(o) ==
    LET subtotal == Subtotal(o.lines)
        tax == TaxAmount(subtotal, o.taxRate)
    IN  [number |-> o.number, quotation |-> o.quotation, converted |-> o.converted,
         supplier |-> o.supplier, currency |-> o.currency, rate |-> o.rate,
         lines |-> StoredLines(o.lines),
         amounts |-> [i \in DOMAIN o.lines |-> LineAmount(o.lines[i])],
         subtotal |-> subtotal, taxRate |-> o.taxRate, taxAmount |-> tax,
         total |-> subtotal + tax, deleted |-> FALSE]

\* Header and lines are written in one transaction.
InsertOrder(c) ==
    LET o == call[c].order IN
    /\ At(c, "insert") /\ Len(orders) < Bound["order"]
    /\ MayInsert(o)
    /\ orders' = Append(orders, OrderRowOf(o))
    /\ Goto(c, IF o.converted THEN [at |-> "mark", source |-> o.quotation] ELSE Idle)
    /\ UNCHANGED <<requests, rfqs, quotations, home, announced>>

\* The quotation is marked by a statement of its own, whatever became of it.
MarkQuotation(c) ==
    /\ At(c, "mark")
    /\ quotations' = [quotations EXCEPT ![call[c].source].status = "ordered"]
    /\ Goto(c, Idle)
    /\ UNCHANGED <<requests, rfqs, orders, home, announced>>

-----------------------------------------------------------------------------
(* How calls end early, and who else writes.                               *)

\* A number in use, a supplier invited twice, a negative or missing rate, an
\* unknown method: the transaction is dropped and the caller gets an error.
Refuse(c) ==
    /\ \/ At(c, "issue") /\ ~MayIssue(c)
       \/ At(c, "quote") /\ ~MayQuote(c)
       \/ At(c, "resolve") /\ ~Resolves(call[c].order)
       \/ At(c, "insert") /\ ~MayInsert(call[c].order)
    /\ Goto(c, Idle)
    /\ UNCHANGED <<rows, home, announced>>

\* The process dies, or its caller goes away, between two statements.
Crash(c) ==
    /\ ~Free(c)
    /\ Goto(c, Idle)
    /\ UNCHANGED <<rows, home, announced>>

\* The settings are changed.  The calls under way live through it.
SetHome(cur) ==
    /\ cur # home
    /\ home' = cur
    /\ call' = [c \in Client |->
                   IF call[c].at \in {"resolve", "insert"}
                   THEN [call[c] EXCEPT !.order.homes = @ \union {cur}] ELSE call[c]]
    /\ UNCHANGED <<rows, announced>>

\* An administrator enters a quotation through the generated CRUD: a draft.
DraftQuotation(n, offer) ==
    /\ Len(quotations) < Bound["quotation"]
    /\ NumberFree(quotations, n) /\ Priceable(offer.lines)
    /\ quotations' = Append(quotations,
           [SubmittedQuotation(n, 0, FALSE, offer.supplier, CurrencyOr(offer, Idr),
                               WithoutMethods(offer.lines))
                EXCEPT !.status = "draft"])
    /\ UNCHANGED <<requests, rfqs, orders, home, call, announced>>

\* ... or cancels an RFQ, whose status is an ordinary column.
CancelRfq(r) ==
    /\ Found(rfqs, r)
    /\ rfqs' = [rfqs EXCEPT ![r].status = "cancelled"]
    /\ UNCHANGED <<requests, quotations, orders, home, call, announced>>

\* ... or deletes a source.  An order is deleted by its own verbs.
Gone(table) == Cardinality({i \in DOMAIN table : table[i].deleted})
Delete(i) ==
    /\ Gone(requests) + Gone(rfqs) + Gone(quotations) + Gone(orders) < Bound["deleted"]
    /\ \/ /\ Found(requests, i) /\ requests' = [requests EXCEPT ![i].deleted = TRUE]
          /\ UNCHANGED <<rfqs, quotations, orders>>
       \/ /\ Found(rfqs, i) /\ rfqs' = [rfqs EXCEPT ![i].deleted = TRUE]
          /\ UNCHANGED <<requests, quotations, orders>>
       \/ /\ Found(quotations, i) /\ quotations' = [quotations EXCEPT ![i].deleted = TRUE]
          /\ UNCHANGED <<requests, rfqs, orders>>
       \/ /\ Found(orders, i) /\ orders' = [orders EXCEPT ![i].deleted = TRUE]
          /\ UNCHANGED <<requests, rfqs, quotations>>
    /\ UNCHANGED <<home, call, announced>>

Begin(c) ==
    \/ \E m \in DOMAIN requests, suppliers \in Invitations, n \in NumberOf["rfq"] :
          ReadRequest(c, m, n, suppliers)
    \/ \E r \in DOMAIN rfqs, s \in Supplier, rates \in Quotes, n \in NumberOf["quotation"] :
          ReadRfq(c, r, n, s, rates)
    \/ \E n \in NumberOf["order"], t \in TaxRates :
          \/ \E q \in DOMAIN quotations : ReadQuotation(c, q, n, t)
          \/ \E q \in 0 .. Len(quotations), offer \in Offers, rate \in Supplied :
                CreateOrder(c, n, q, offer, rate, t)

Step(c) ==
    \/ IssueRfq(c) \/ CommitQuotation(c) \/ ResolveCurrency(c) \/ InsertOrder(c)
    \/ MarkQuotation(c) \/ Refuse(c)

Next ==
    \/ \E c \in Client : Begin(c) \/ Step(c) \/ Crash(c)
    \/ \E cur \in Currency : SetHome(cur)
    \/ \E n \in NumberOf["request"], lines \in Wants : CreateRequest(n, lines)
    \/ \E n \in NumberOf["quotation"], offer \in Offers :
          DraftQuotation(n, offer) \/ \E r \in 0 .. Len(rfqs) : CreateQuotation(n, r, offer)
    \/ \E r \in DOMAIN rfqs : CancelRfq(r)
    \/ \E i \in UNION {DOMAIN requests, DOMAIN rfqs, DOMAIN quotations, DOMAIN orders} :
          Delete(i)

Spec == Init /\ [][Next]_vars

-----------------------------------------------------------------------------
(* Properties.                                                             *)

\* n is v in multiples of unit, to the nearest, and a half went up.
Nearest(n, v, unit) == 2 * unit * n - unit <= 2 * v /\ 2 * v < 2 * unit * n + unit

\* What an order row says of money follows from what it says of its lines.
AddsUp(row) ==
    /\ \A i \in DOMAIN row.lines :
          Nearest(row.amounts[i], row.lines[i].quantity * row.lines[i].rate, 1000)
    /\ row.subtotal = SumFunction(row.amounts)
    /\ Nearest(row.taxAmount, row.subtotal * row.taxRate, 10000)
    /\ row.total = row.subtotal + row.taxAmount

\* An order converted from a quotation is an order of a quotation that was
\* submitted, never of a draft, has its supplier and lines, and adds up: each
\* amount is its line to the nearest cent, a half rounded away from zero
\* (convert_supplier_quotation_to_po, price_document).
ConvertedOrdersAgree ==
    \A o \in DOMAIN orders : orders[o].converted =>
        LET q == quotations[orders[o].quotation] IN
        /\ q.status # "draft"
        /\ orders[o].supplier = q.supplier /\ orders[o].lines = q.lines
        /\ AddsUp(orders[o])

\* Every order adds up, also one that was entered by hand (the guarded routes
\* keep a caller from writing an order with inconsistent totals).  Does not
\* hold, and no run checks it: a rate below a cent is priced before it is stored.
OrdersAddUp == \A o \in DOMAIN orders : AddsUp(orders[o])

\* The rate one is never a silent default: an order about to be written has the
\* positive rate its caller supplied, or rate one in a currency that was the home
\* currency while it was created, however the settings changed meanwhile (the
\* create gate, resolve_rate).
RateNeverSilent ==
    \A c \in Client : At(c, "insert") =>
        LET o == call[c].order IN
        \/ o.rate = o.supplied /\ o.rate > 0
        \/ o.rate = One /\ o.currency \in o.homes

\* The rows an event of a kind names.
TableOf(kind) ==
    CASE kind = "request" -> requests [] kind = "rfq" -> rfqs
      [] kind = "quotation" -> quotations [] kind = "order" -> orders

\* The source a row was converted from.
SourceOf(e) ==
    CASE e.kind = "rfq" -> rfqs[e.id].request [] e.kind = "quotation" -> quotations[e.id].rfq
      [] OTHER -> 0

\* An event names a document that is committed and the source it came from, and
\* a conversion whose source is a request leaves the request ordered, whatever
\* raced, was refused or crashed in between (the publish after the commit).
EventsFollowCommits ==
    \A e \in announced :
        /\ e.id \in DOMAIN TableOf(e.kind)
        /\ e.source = SourceOf(e)
        /\ e.kind = "rfq" => requests[e.source].status = "ordered"

\* Once nobody is about to mark it, a quotation that was converted into an
\* order is ordered (the second statement of the conversion).  Does not hold, and
\* no run checks it: the process may die between the two statements.
ConvertedIsOrdered ==
    \A o \in DOMAIN orders :
        orders[o].converted =>
            LET q == orders[o].quotation IN
            \/ quotations[q].status = "ordered"
            \/ \E c \in Client : At(c, "mark") /\ call[c].source = q

\* The documents, as the abstract funnel knows them.
Chain == INSTANCE SourcingChain WITH
    request <- [m \in DOMAIN requests |->
                   [lines |-> requests[m].lines, ordered |-> requests[m].status = "ordered"]],
    rfq <- [r \in DOMAIN rfqs |-> [request |-> rfqs[r].request, lines |-> rfqs[r].lines]],
    quotation <- [q \in DOMAIN quotations |->
                   [rfq |-> IF quotations[q].answers THEN quotations[q].rfq ELSE 0,
                    supplier |-> quotations[q].supplier, currency |-> quotations[q].currency,
                    lines |-> quotations[q].lines,
                    ordered |-> quotations[q].status = "ordered"]],
    order <- [o \in DOMAIN orders |->
                   [quotation |-> IF orders[o].converted THEN orders[o].quotation ELSE 0,
                    supplier |-> orders[o].supplier, currency |-> orders[o].currency,
                    lines |-> orders[o].lines]]

\* The funnel implements the chain of documents: every hop copies the lines of
\* its source and a source is advanced only behind its successor, although
\* reads, writes and marks are separate statements of racing callers.
ImplementsChain == Chain!ChainSpec
=============================================================================
