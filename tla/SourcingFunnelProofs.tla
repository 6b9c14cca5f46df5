------------------------ MODULE SourcingFunnelProofs ------------------------
(***************************************************************************)
(* The funnel for every number of callers, documents, lines, currencies    *)
(* and rates: its types, what an order says of the quotation it came from, *)
(* its rates and its events, and that the statement by statement           *)
(* conversions implement the chain of documents.                           *)
(*                                                                         *)
(* TypeOK is not inductive alone: nothing in it says that the source a     *)
(* call has read is still a row when it writes.  The rows are, because     *)
(* documents are never removed and never lose what was copied from them,   *)
(* and what a call carries it has from its source.                         *)
(***************************************************************************)
EXTENDS SourcingFunnel, SumFacts, SequenceTheorems

\* What a call has read exists, and an order about to be written has a currency.
NamesRow(k) ==
  /\ k.at = "issue" => k.source \in DOMAIN requests
  /\ k.at = "quote" => k.source \in DOMAIN rfqs
  /\ k.at = "mark" => k.source \in DOMAIN quotations
  /\ k.at = "insert" => k.order.currency \in Currency
  /\ k.at \in {"resolve", "insert"} /\ k.order.converted => k.order.quotation \in DOMAIN quotations

CallsNameRows == \A c \in Client : NamesRow(call[c])

\* An order under way knows every home currency since it began.
HomesSeen ==
  \A c \in Client : call[c].at \in {"resolve", "insert"} => home \in call[c].order.homes

\* What the rows of a quotation keep, they keep on the next reading too.
RatesStored ==
  \A q \in DOMAIN quotations : StoredLines(quotations[q].lines) = quotations[q].lines

\* An order that is converted has what its quotation has.
HasFrom(o) ==
  /\ o.quotation \in DOMAIN quotations
  /\ quotations[o.quotation].status # "draft"
  /\ o.supplier = quotations[o.quotation].supplier
  /\ o.currency = quotations[o.quotation].currency
  /\ o.lines = quotations[o.quotation].lines

ConversionsFaithful ==
  \A c \in Client :
    /\ call[c].at \in {"resolve", "insert"} /\ call[c].order.converted =>
          HasFrom(call[c].order) /\ Priceable(call[c].order.lines)
    /\ At(c, "mark") => \E o \in DOMAIN orders :
                            orders[o].converted /\ orders[o].quotation = call[c].source

RowsFaithful ==
  /\ \A r \in DOMAIN rfqs : rfqs[r].request \in DOMAIN requests
  /\ \A o \in DOMAIN orders : orders[o].converted => HasFrom(orders[o]) /\ AddsUp(orders[o])

\* The types, in the parts that different actions disturb.
RowTypes ==
  /\ requests \in Seq(RequestRow) /\ rfqs \in Seq(RfqRow)
  /\ quotations \in Seq(QuotationRow) /\ orders \in Seq(OrderRow)
CallTypes == call \in [Client -> Call] /\ CallsNameRows

TInv == RowTypes /\ CallTypes /\ home \in Currency /\ announced \subseteq Event
IInv == TInv /\ HomesSeen /\ RateNeverSilent /\ RatesStored /\ ConversionsFaithful
        /\ RowsFaithful /\ EventsFollowCommits

-----------------------------------------------------------------------------
(* Pricing.                                                                *)

\* Rounding yields a whole number; of an amount that is not negative, one that
\* is not negative either and the nearest, a half going up (money, the rate columns).
LEMMA RoundedIsInt ==
  ASSUME NEW v \in Int
  PROVE  Rounded(v, 10) \in Int /\ Rounded(v, 1000) \in Int /\ Rounded(v, 10000) \in Int
BY DEF Rounded

LEMMA RoundedIsNearest ==
  ASSUME NEW v \in Nat
  PROVE  /\ Rounded(v, 1000) \in Nat /\ Nearest(Rounded(v, 1000), v, 1000)
         /\ Rounded(v, 10000) \in Nat /\ Nearest(Rounded(v, 10000), v, 10000)
BY DEF Rounded, Nearest

\* A rate that is stored already is stored as it is.
LEMMA RoundingSettles ==
  ASSUME NEW v \in Int
  PROVE  10 * Rounded(10 * Rounded(v, 10), 10) = 10 * Rounded(v, 10)
<1>1. PICK n \in Int : n = Rounded(v, 10)
  BY RoundedIsInt
<1>2. Rounded(10 * n, 10) = n
  BY DEF Rounded
<1> QED
  BY <1>1, <1>2

PricedLine == [item : Item, quantity : Int, rate : Int, method : Method]

\* The lines of a document have the types of lines.
LEMMA LineTypes ==
  ASSUME NEW lines \in PricedLines
  PROVE  /\ Len(lines) \in Nat /\ DOMAIN lines = 1 .. Len(lines)
         /\ \A i \in DOMAIN lines :
               /\ lines[i] \in PricedLine /\ lines[i].item \in Item
               /\ lines[i].quantity \in Int /\ lines[i].rate \in Int
<1>1. lines \in Seq(PricedLine)
  BY DEF PricedLines, PricedLine
<1>2. Len(lines) \in Nat /\ DOMAIN lines = 1 .. Len(lines) /\ lines \in [1 .. Len(lines) -> PricedLine]
  BY <1>1, LenProperties
<1> QED
  BY <1>2 DEF PricedLine

\* A sequence is a function on an interval.
LEMMA FunctionIsSeq ==
  ASSUME NEW S, NEW n \in Nat, NEW f \in [1 .. n -> S]
  PROVE  f \in Seq(S) /\ Len(f) = n
<1>1. f \in Seq(S)
  BY SeqDef
<1>2. Len(f) \in Nat /\ DOMAIN f = 1 .. Len(f) /\ DOMAIN f = 1 .. n
  BY <1>1, LenProperties
<1>3. Len(f) = n
  <2>1. CASE Len(f) < n
    <3>1. n \in 1 .. n /\ n \notin 1 .. Len(f)
      BY <1>2, <2>1
    <3> QED
      BY <1>2, <3>1
  <2>2. CASE n < Len(f)
    <3>1. Len(f) \in 1 .. Len(f) /\ Len(f) \notin 1 .. n
      BY <1>2, <2>2
    <3> QED
      BY <1>2, <3>1
  <2> QED
    BY <1>2, <2>1, <2>2
<1> QED
  BY <1>1, <1>3

\* The lines that are stored are priced lines, one for each, with the item, the
\* quantity and the method unchanged.
LEMMA StoredLinesType ==
  ASSUME NEW lines \in PricedLines
  PROVE  /\ StoredLines(lines) \in PricedLines
         /\ DOMAIN StoredLines(lines) = DOMAIN lines
         /\ \A i \in DOMAIN lines :
               /\ StoredLines(lines)[i].item = lines[i].item
               /\ StoredLines(lines)[i].quantity = lines[i].quantity
               /\ StoredLines(lines)[i].rate = 10 * Rounded(lines[i].rate, 10)
<1>1. ASSUME NEW i \in DOMAIN lines
      PROVE  /\ StoredLines(lines)[i] \in PricedLine
             /\ StoredLines(lines)[i].item = lines[i].item
             /\ StoredLines(lines)[i].quantity = lines[i].quantity
             /\ StoredLines(lines)[i].rate = 10 * Rounded(lines[i].rate, 10)
  <2>1. lines[i] \in PricedLine
    BY LineTypes
  <2>2. 10 * Rounded(lines[i].rate, 10) \in Int
    <3>1. lines[i].rate \in Int
      BY LineTypes
    <3>2. Rounded(lines[i].rate, 10) \in Int
      BY <3>1, RoundedIsInt
    <3> QED
      BY <3>2
  <2>3. StoredLines(lines)[i] = [lines[i] EXCEPT !.rate = 10 * Rounded(lines[i].rate, 10)]
    BY DEF StoredLines
  <2> QED
    BY <2>1, <2>2, <2>3 DEF PricedLine
<1>2. DOMAIN StoredLines(lines) = DOMAIN lines
  BY DEF StoredLines
<1>3. StoredLines(lines) \in [1 .. Len(lines) -> PricedLine]
  BY <1>1, LineTypes DEF StoredLines
<1>4. StoredLines(lines) \in PricedLines
  BY <1>3, LineTypes, FunctionIsSeq DEF PricedLines, PricedLine
<1> QED
  BY <1>1, <1>2, <1>4

LEMMA StoredLinesSettle ==
  ASSUME NEW lines \in PricedLines
  PROVE  StoredLines(StoredLines(lines)) = StoredLines(lines)
<1> DEFINE once == StoredLines(lines)
           twice == StoredLines(once)
<1>1. /\ once \in PricedLines /\ twice \in PricedLines
      /\ DOMAIN once = DOMAIN lines /\ DOMAIN twice = DOMAIN once
  BY StoredLinesType
<1>2. ASSUME NEW i \in DOMAIN once PROVE twice[i] = once[i]
  <2>0. i \in DOMAIN lines
    BY <1>1
  <2>1. lines[i].rate \in Int /\ once[i].rate = 10 * Rounded(lines[i].rate, 10)
    BY <2>0, LineTypes, StoredLinesType
  <2>5. once[i] \in PricedLine
    <3> HIDE DEF once
    <3> QED
      BY <1>1, LineTypes
  <2>2. twice[i] = [once[i] EXCEPT !.rate = 10 * Rounded(once[i].rate, 10)]
    BY DEF StoredLines
  <2> HIDE DEF once, twice
  <2>3. 10 * Rounded(once[i].rate, 10) = once[i].rate
    BY <2>1, RoundingSettles
  <2>4. twice[i] = [once[i] EXCEPT !.rate = once[i].rate]
    BY <2>2, <2>3
  <2> QED
    BY <2>5, <2>4 DEF PricedLine
<1> HIDE DEF once, twice
<1>3. twice = once
  BY <1>1, <1>2, LenProperties, SeqEqual DEF PricedLines
<1> QED
  BY <1>3 DEF once, twice

\* The sum over the first n indices grows by the value of the next.
LEMMA SumOfNext ==
  ASSUME NEW n \in Nat, NEW f, \A i \in 1 .. n + 1 : f[i] \in Int
  PROVE  SumFunctionOnSet(f, 1 .. n + 1) = f[n + 1] + SumFunctionOnSet(f, 1 .. n)
<1>1. 1 .. n + 1 = (1 .. n) \union {n + 1} /\ n + 1 \notin 1 .. n
  OBVIOUS
<1>2. IsFiniteSet(1 .. n)
  BY FS_Interval
<1> QED
  BY <1>1, <1>2, SumAdd

AmountsOf(lines) == [i \in DOMAIN lines |-> LineAmount(lines[i])]

LEMMA AmountsType ==
  ASSUME NEW lines \in PricedLines
  PROVE  /\ AmountsOf(lines) \in Seq(Int) /\ DOMAIN AmountsOf(lines) = 1 .. Len(lines)
         /\ \A i \in 1 .. Len(lines) :
               /\ AmountsOf(lines)[i] = LineAmount(lines[i])
               /\ LineAmount(lines[i]) \in Int
<1>1. ASSUME NEW i \in DOMAIN lines PROVE LineAmount(lines[i]) \in Int
  <2>1. lines[i].quantity \in Int /\ lines[i].rate \in Int
    BY LineTypes
  <2>2. lines[i].quantity * lines[i].rate \in Int
    BY <2>1
  <2> QED
    BY <2>2, RoundedIsInt DEF LineAmount
<1>2. Len(lines) \in Nat /\ DOMAIN lines = 1 .. Len(lines)
  BY LineTypes
<1>3. AmountsOf(lines) \in [1 .. Len(lines) -> Int]
  BY <1>1, <1>2 DEF AmountsOf
<1> QED
  BY <1>1, <1>2, <1>3, FunctionIsSeq DEF AmountsOf

\* The loop that adds up the amounts, line by line, yields their sum.
LEMMA SubtotalIsSum ==
  ASSUME NEW lines \in PricedLines
  PROVE  Subtotal(lines) = SumFunction(AmountsOf(lines)) /\ Subtotal(lines) \in Int
<1> DEFINE f == AmountsOf(lines)
           Adds(sum) == sum = [n \in 0 .. Len(lines) |->
                                  IF n = 0 THEN 0 ELSE sum[n - 1] + LineAmount(lines[n])]
           Sum(n) == SumFunctionOnSet(f, 1 .. n)
<1>1. /\ Len(lines) \in Nat /\ DOMAIN f = 1 .. Len(lines)
      /\ \A i \in 1 .. Len(lines) : f[i] = LineAmount(lines[i]) /\ f[i] \in Int
  BY LineTypes, AmountsType
<1> HIDE DEF f
<1>2. Sum(0) = 0
  BY SumEmpty, 1 .. 0 = {}
<1>3. ASSUME NEW n \in Nat, n + 1 <= Len(lines)
      PROVE  /\ Sum(n + 1) = Sum(n) + LineAmount(lines[n + 1])
             /\ Sum(n) \in Int /\ Sum(n + 1) \in Int
  <2>1. \A i \in 1 .. n + 1 : f[i] \in Int
    BY <1>1, <1>3
  <2>2. IsFiniteSet(1 .. n) /\ IsFiniteSet(1 .. n + 1)
    BY FS_Interval
  <2>3. Sum(n) \in Int /\ Sum(n + 1) \in Int
    BY <2>1, <2>2, SumIsInt
  <2>4. Sum(n + 1) = f[n + 1] + Sum(n)
    BY <2>1, SumOfNext
  <2>5. f[n + 1] \in Int /\ f[n + 1] = LineAmount(lines[n + 1])
    BY <1>1, <1>3
  <2> QED
    BY <2>3, <2>4, <2>5
<1>4. \E sum : Adds(sum)
  <2> DEFINE sum == [n \in 0 .. Len(lines) |-> Sum(n)]
  <2>1. ASSUME NEW n \in 0 .. Len(lines), n # 0
        PROVE  Sum(n) = sum[n - 1] + LineAmount(lines[n])
    <3>1. n - 1 \in Nat /\ n - 1 \in 0 .. Len(lines) /\ (n - 1) + 1 = n /\ n <= Len(lines)
      BY <1>1, <2>1
    <3>2. sum[n - 1] = Sum(n - 1)
      BY <3>1
    <3> HIDE DEF sum, Sum
    <3>3. Sum((n - 1) + 1) = Sum(n - 1) + LineAmount(lines[(n - 1) + 1])
      BY <1>3, <3>1
    <3> QED
      BY <3>1, <3>2, <3>3
  <2>2. Adds(sum)
    BY <1>2, <2>1
  <2> QED
    BY <2>2
<1>5. PICK sum : Adds(sum) /\ Subtotal(lines) = sum[Len(lines)]
  BY <1>4 DEF Subtotal
<1> DEFINE G == {n \in Nat : n <= Len(lines) => sum[n] = Sum(n)}
<1>6. 0 \in G
  BY <1>1, <1>2, <1>5
<1>7. ASSUME NEW n \in Nat, n \in G PROVE n + 1 \in G
  <2> SUFFICES ASSUME n + 1 <= Len(lines) PROVE sum[n + 1] = Sum(n + 1)
    OBVIOUS
  <2>1. n + 1 \in 0 .. Len(lines) /\ n + 1 # 0 /\ (n + 1) - 1 = n
    BY <1>1
  <2>2. sum[n + 1] = sum[n] + LineAmount(lines[n + 1])
    BY <1>5, <2>1
  <2>3. sum[n] = Sum(n)
    BY <1>1, <1>7
  <2> HIDE DEF Sum
  <2> QED
    BY <1>3, <2>2, <2>3
<1>8. Len(lines) \in G
  <2> HIDE DEF G
  <2> QED
    BY <1>1, <1>6, <1>7, NaturalInduction
<1>9. Subtotal(lines) = SumFunction(f)
  BY <1>1, <1>5, <1>8 DEF SumFunction
<1>10. SumFunction(f) \in Int
  BY <1>1, FS_Interval, SumIsInt DEF SumFunction
<1> QED
  BY <1>9, <1>10 DEF f

\* The row of an order is a row.
LEMMA OrderRowType ==
  ASSUME NEW o \in NewOrder, o.currency \in Currency
  PROVE  OrderRowOf(o) \in OrderRow
<1> DEFINE subtotal == Subtotal(o.lines)
           tax == TaxAmount(subtotal, o.taxRate)
<1>1. o.lines \in PricedLines /\ o.taxRate \in Nat
  BY DEF NewOrder
<1>2. StoredLines(o.lines) \in PricedLines /\ AmountsOf(o.lines) \in Seq(Int) /\ subtotal \in Int
  BY <1>1, StoredLinesType, AmountsType, SubtotalIsSum
<1>3. tax \in Int
  <2>1. subtotal * o.taxRate \in Int
    BY <1>1, <1>2
  <2> QED
    BY <2>1, RoundedIsInt DEF TaxAmount
<1>4. subtotal + tax \in Int
  BY <1>2, <1>3
<1> HIDE DEF subtotal, tax
<1>5. OrderRowOf(o) =
        [number |-> o.number, quotation |-> o.quotation, converted |-> o.converted,
         supplier |-> o.supplier, currency |-> o.currency, rate |-> o.rate,
         lines |-> StoredLines(o.lines), amounts |-> AmountsOf(o.lines),
         subtotal |-> subtotal, taxRate |-> o.taxRate, taxAmount |-> tax,
         total |-> subtotal + tax, deleted |-> FALSE]
  BY DEF OrderRowOf, AmountsOf, subtotal, tax
<1>6. /\ o.number \in Number /\ o.quotation \in Nat /\ o.converted \in BOOLEAN
      /\ o.supplier \in Supplier /\ o.rate \in Int
  BY DEF NewOrder
<1> QED
  BY <1>1, <1>2, <1>3, <1>4, <1>5, <1>6 DEF OrderRow

\* An order whose lines were stored before adds up: what is priced is what is kept.
LEMMA OrderRowAddsUp ==
  ASSUME NEW o \in NewOrder, Priceable(o.lines), StoredLines(o.lines) = o.lines
  PROVE  AddsUp(OrderRowOf(o))
<1>1. o.lines \in PricedLines /\ o.taxRate \in Nat
  BY DEF NewOrder
<1> DEFINE row == OrderRowOf(o)
           subtotal == Subtotal(o.lines)
<1>2. /\ row.lines = o.lines /\ row.amounts = AmountsOf(o.lines)
      /\ row.subtotal = subtotal /\ row.taxRate = o.taxRate
      /\ row.taxAmount = TaxAmount(subtotal, o.taxRate)
      /\ row.total = row.subtotal + row.taxAmount
  BY DEF OrderRowOf, AmountsOf
<1>3. Len(o.lines) \in Nat /\ DOMAIN o.lines = 1 .. Len(o.lines)
  BY <1>1, LineTypes
<1>4. ASSUME NEW i \in DOMAIN o.lines
      PROVE  /\ LineAmount(o.lines[i]) \in Nat
             /\ Nearest(LineAmount(o.lines[i]), o.lines[i].quantity * o.lines[i].rate, 1000)
  <2>1. o.lines[i].quantity \in Nat /\ o.lines[i].rate \in Nat
    BY <1>1, LineTypes DEF Priceable
  <2>2. o.lines[i].quantity * o.lines[i].rate \in Nat
    BY <2>1
  <2> QED
    BY <2>2, RoundedIsNearest DEF LineAmount
<1>5. DOMAIN AmountsOf(o.lines) = 1 .. Len(o.lines)
      /\ \A i \in 1 .. Len(o.lines) : AmountsOf(o.lines)[i] = LineAmount(o.lines[i])
  BY <1>1, AmountsType
<1>6. subtotal = SumFunction(AmountsOf(o.lines)) /\ subtotal \in Nat
  <2>1. \A i \in 1 .. Len(o.lines) : AmountsOf(o.lines)[i] \in Nat
    BY <1>3, <1>4, <1>5
  <2>2. IsFiniteSet(1 .. Len(o.lines))
    BY <1>3, FS_Interval
  <2>3. SumFunctionOnSet(AmountsOf(o.lines), 1 .. Len(o.lines)) \in Nat
    BY <2>1, <2>2, SumIsNat
  <2> QED
    BY <1>1, <1>5, <2>3, SubtotalIsSum DEF SumFunction
<1> HIDE DEF subtotal
<1>7. Nearest(TaxAmount(subtotal, o.taxRate), subtotal * o.taxRate, 10000)
  <2>1. subtotal * o.taxRate \in Nat
    BY <1>1, <1>6
  <2> QED
    BY <2>1, RoundedIsNearest DEF TaxAmount
<1> HIDE DEF row
<1>8. \A i \in DOMAIN row.lines :
          Nearest(row.amounts[i], row.lines[i].quantity * row.lines[i].rate, 1000)
  BY <1>2, <1>3, <1>4, <1>5
<1>9. AddsUp(row)
  BY <1>2, <1>6, <1>7, <1>8 DEF AddsUp
<1> QED
  BY <1>9 DEF row

-----------------------------------------------------------------------------
(* Types.                                                                  *)

\* A row is appended to a table, or updated in place.
LEMMA AppendRow ==
  ASSUME NEW S, NEW s \in Seq(S), NEW row \in S
  PROVE  /\ Append(s, row) \in Seq(S)
         /\ Len(Append(s, row)) = Len(s) + 1 /\ Len(s) + 1 \in Nat /\ Len(s) + 1 \notin DOMAIN s
         /\ DOMAIN Append(s, row) = DOMAIN s \union {Len(s) + 1}
         /\ Append(s, row)[Len(s) + 1] = row
         /\ \A i \in DOMAIN s : Append(s, row)[i] = s[i]
<1>1. Len(s) \in Nat /\ DOMAIN s = 1 .. Len(s)
  BY LenProperties
<1>2. /\ Append(s, row) \in Seq(S) /\ Len(Append(s, row)) = Len(s) + 1
      /\ \A i \in 1 .. Len(s) : Append(s, row)[i] = s[i]
      /\ Append(s, row)[Len(s) + 1] = row
  BY AppendProperties
<1>3. DOMAIN Append(s, row) = 1 .. Len(s) + 1
  BY <1>2, LenProperties
<1> QED
  BY <1>1, <1>2, <1>3

LEMMA UpdateRow ==
  ASSUME NEW S, NEW s \in Seq(S), NEW i \in DOMAIN s, NEW row \in S
  PROVE  /\ [s EXCEPT ![i] = row] \in Seq(S)
         /\ DOMAIN [s EXCEPT ![i] = row] = DOMAIN s
         /\ Len([s EXCEPT ![i] = row]) = Len(s)
         /\ [s EXCEPT ![i] = row][i] = row
         /\ \A j \in DOMAIN s \ {i} : [s EXCEPT ![i] = row][j] = s[j]
<1>1. DOMAIN s = 1 .. Len(s)
  BY LenProperties
<1> QED
  BY <1>1, ExceptSeq

\* The rows and positions of a table.
LEMMA TableRow ==
  ASSUME NEW S, NEW s \in Seq(S)
  PROVE  /\ Len(s) \in Nat /\ DOMAIN s = 1 .. Len(s)
         /\ \A i \in DOMAIN s : s[i] \in S /\ i \in Nat /\ i # 0
BY LenProperties

\* What a call is made of, by its place.
LEMMA CallShape ==
  ASSUME NEW k \in Call
  PROVE  /\ k.at = "issue" => /\ k.source \in Nat /\ k.number \in Number
                               /\ k.invited \in Seq(Supplier)
         /\ k.at = "quote" => /\ k.source \in Nat /\ k.number \in Number
                               /\ k.supplier \in Supplier /\ k.rates \in [Item -> Int]
         /\ k.at \in {"resolve", "insert"} => k = [at |-> k.at, order |-> k.order] /\ k.order \in NewOrder
         /\ k.at = "mark" => k.source \in Nat
         /\ k.at \in {"idle", "issue", "quote", "resolve", "insert", "mark"}
<1>1. CASE k = Idle
  BY <1>1 DEF Idle
<1>2. CASE k \in [at : {"issue"}, source : Nat, number : Number, invited : Seq(Supplier)]
  BY <1>2
<1>3. CASE k \in [at : {"quote"}, source : Nat, number : Number, supplier : Supplier,
                   rates : [Item -> Int]]
  BY <1>3
<1>4. CASE k \in [at : {"resolve", "insert"}, order : NewOrder]
  BY <1>4
<1>5. CASE k \in [at : {"mark"}, source : Nat]
  BY <1>5
<1> QED
  BY <1>1, <1>2, <1>3, <1>4, <1>5 DEF Call

LEMMA CallsAreCalls ==
  /\ Idle \in Call
  /\ \A i \in Nat, n \in Number, s \in Seq(Supplier) :
        [at |-> "issue", source |-> i, number |-> n, invited |-> s] \in Call
  /\ \A i \in Nat, n \in Number, s \in Supplier, rates \in [Item -> Int] :
        [at |-> "quote", source |-> i, number |-> n, supplier |-> s, rates |-> rates] \in Call
  /\ \A at \in {"resolve", "insert"}, o \in NewOrder : [at |-> at, order |-> o] \in Call
  /\ \A i \in Nat : [at |-> "mark", source |-> i] \in Call
BY DEF Call

\* A caller goes on to a call that names rows, while no row disappears.
LEMMA GotoKeepsCalls ==
  ASSUME CallTypes, NEW c \in Client, NEW k \in Call, Goto(c, k), NamesRow(k)',
         DOMAIN requests \subseteq DOMAIN requests', DOMAIN rfqs \subseteq DOMAIN rfqs',
         DOMAIN quotations \subseteq DOMAIN quotations'
  PROVE  CallTypes'
<1>1. /\ call' \in [Client -> Call] /\ call'[c] = k
      /\ \A d \in Client \ {c} : call'[d] = call[d]
  BY DEF CallTypes, Goto
<1>2. NamesRow(call[c])'
  BY <1>1
<1>3. ASSUME NEW d \in Client \ {c} PROVE NamesRow(call[d])'
  BY <1>1 DEF CallTypes, CallsNameRows, NamesRow
<1> QED
  BY <1>1, <1>2, <1>3 DEF CallTypes, CallsNameRows

LEMMA NumbersAreNumbers == \A kind \in Kind : NumberOf[kind] \subseteq Number
BY FunnelAssumption

LEMMA EventType ==
  ASSUME announced \subseteq Event, NEW kind \in Kind, NEW id \in Nat, NEW source \in Nat,
         Publishes(kind, id, source)
  PROVE  announced' \subseteq Event
BY DEF Publishes, Event

\* A quotation is a row: its lines as they are stored, its currency a currency.
LEMMA QuotationType ==
  ASSUME NEW n \in Number, NEW r \in Nat, NEW answers \in BOOLEAN, NEW sup \in Supplier,
         NEW cur \in Currency, NEW lines \in PricedLines
  PROVE  /\ SubmittedQuotation(n, r, answers, sup, cur, lines) \in QuotationRow
         /\ [SubmittedQuotation(n, r, answers, sup, cur, lines) EXCEPT !.status = "draft"]
               \in QuotationRow
<1>1. StoredLines(lines) \in PricedLines
  BY StoredLinesType
<1> QED
  BY <1>1 DEF SubmittedQuotation, QuotationRow

LEMMA NoneIsMethod == "none" \in Method
BY FunnelAssumption DEF LineMethod

LEMMA WithoutMethodsType ==
  ASSUME NEW lines \in PricedLines
  PROVE  WithoutMethods(lines) \in PricedLines
<1>1. ASSUME NEW i \in DOMAIN lines PROVE [lines[i] EXCEPT !.method = "none"] \in PricedLine
  <2>1. lines[i] \in PricedLine
    BY LineTypes
  <2> QED
    BY <2>1, NoneIsMethod DEF PricedLine
<1>2. WithoutMethods(lines) \in [1 .. Len(lines) -> PricedLine]
  BY <1>1, LineTypes DEF WithoutMethods
<1> QED
  BY <1>2, LineTypes, FunctionIsSeq DEF PricedLines, PricedLine

\* The lines of an RFQ at a supplier's rates are priced lines.
LEMMA AtRatesType ==
  ASSUME NEW lines \in WantedLines, NEW rates \in [Item -> Int]
  PROVE  /\ AtRates(lines, rates) \in PricedLines
         /\ DOMAIN AtRates(lines, rates) = DOMAIN lines
<1>1. Len(lines) \in Nat /\ DOMAIN lines = 1 .. Len(lines)
      /\ \A i \in DOMAIN lines : lines[i] \in [item : Item, quantity : Int]
  BY TableRow DEF WantedLines
<1>2. AtRates(lines, rates) \in [1 .. Len(lines) -> PricedLine]
  <2>1. ASSUME NEW i \in DOMAIN lines
        PROVE  [item |-> lines[i].item, quantity |-> lines[i].quantity,
                rate |-> rates[lines[i].item], method |-> "none"] \in PricedLine
    <3>1. lines[i] \in [item : Item, quantity : Int]
      BY <1>1
    <3>2. lines[i].item \in Item /\ lines[i].quantity \in Int /\ rates[lines[i].item] \in Int
      BY <3>1
    <3> QED
      BY <3>2, NoneIsMethod DEF PricedLine
  <2> QED
    BY <1>1, <2>1 DEF AtRates
<1> QED
  BY <1>1, <1>2, FunctionIsSeq DEF PricedLines, PricedLine, AtRates

\* Whoever calls nothing keeps every call as it was.
LEMMA IdleKeepsCalls ==
  ASSUME CallTypes, UNCHANGED call,
         DOMAIN requests \subseteq DOMAIN requests', DOMAIN rfqs \subseteq DOMAIN rfqs',
         DOMAIN quotations \subseteq DOMAIN quotations'
  PROVE  CallTypes'
BY DEF CallTypes, CallsNameRows, NamesRow

LEMMA TypeInit == Init => TInv
<1> SUFFICES ASSUME Init PROVE TInv
  OBVIOUS
<1>1. RowTypes
  BY EmptySeq DEF Init, RowTypes
<1>2. CallTypes
  BY CallsAreCalls DEF Init, CallTypes, CallsNameRows, NamesRow, Idle
<1> QED
  BY <1>1, <1>2, FunnelAssumption DEF Init, TInv

\* Requests and RFQs.
LEMMA TypeOfRequests ==
  ASSUME TInv, \/ \E n \in NumberOf["request"], lines \in Wants : CreateRequest(n, lines)
               \/ \E c \in Client : IssueRfq(c)
               \/ \E r \in DOMAIN rfqs : CancelRfq(r)
  PROVE  TInv'
<1> USE DEF TInv
<1>0. RowTypes /\ CallTypes /\ home \in Currency /\ announced \subseteq Event
  OBVIOUS
<1>1. ASSUME NEW n \in NumberOf["request"], NEW lines \in Wants, CreateRequest(n, lines)
      PROVE  TInv'
  <2> DEFINE row == [number |-> n, status |-> "draft", lines |-> lines, deleted |-> FALSE]
  <2>1. row \in RequestRow
    BY NumbersAreNumbers, FunnelAssumption DEF RequestRow, Kind
  <2>2. requests' = Append(requests, row) /\ UNCHANGED <<rfqs, quotations, orders, home, call>>
    BY <1>1 DEF CreateRequest
  <2> HIDE DEF row
  <2>3. requests' \in Seq(RequestRow) /\ DOMAIN requests \subseteq DOMAIN requests'
        /\ Len(requests) + 1 \in Nat
    BY <1>0, <2>1, <2>2, AppendRow DEF RowTypes
  <2>4. RowTypes' /\ CallTypes'
    BY <1>0, <2>2, <2>3, IdleKeepsCalls DEF RowTypes
  <2>5. announced' \subseteq Event
    BY <1>0, <1>1, <2>3, EventType DEF CreateRequest, Kind
  <2> QED
    BY <1>0, <2>2, <2>4, <2>5
<1>2. ASSUME NEW c \in Client, IssueRfq(c) PROVE TInv'
  <2>1. /\ rfqs' = Append(rfqs, RfqOf(c)) /\ Goto(c, Idle)
        /\ requests' = [requests EXCEPT ![call[c].source].status = "ordered"]
        /\ UNCHANGED <<quotations, orders, home>>
    BY <1>2 DEF IssueRfq
  <2>2. /\ call[c].source \in DOMAIN requests /\ call[c].source \in Nat
        /\ call[c].number \in Number /\ call[c].invited \in Seq(Supplier)
    BY <1>0, <1>2, CallShape DEF IssueRfq, At, CallTypes, CallsNameRows, NamesRow
  <2>3. requests[call[c].source] \in RequestRow
    BY <1>0, <2>2, TableRow DEF RowTypes
  <2>4. RfqOf(c) \in RfqRow
    <3>1. {call[c].invited[i] : i \in DOMAIN call[c].invited} \subseteq Supplier
      BY <2>2, TableRow
    <3> QED
      BY <2>2, <2>3, <3>1 DEF RfqOf, RfqRow, RequestRow
  <2>5. [requests[call[c].source] EXCEPT !.status = "ordered"] \in RequestRow
    BY <2>3 DEF RequestRow
  <2>6. requests' \in Seq(RequestRow) /\ DOMAIN requests' = DOMAIN requests
    BY <1>0, <2>1, <2>2, <2>5, UpdateRow DEF RowTypes
  <2>7. rfqs' \in Seq(RfqRow) /\ DOMAIN rfqs \subseteq DOMAIN rfqs' /\ Len(rfqs) + 1 \in Nat
    BY <1>0, <2>1, <2>4, AppendRow DEF RowTypes
  <2>8. NamesRow(Idle)' /\ Idle \in Call
    BY CallsAreCalls DEF NamesRow, Idle
  <2>9. CallTypes'
    BY <1>0, <2>1, <2>6, <2>7, <2>8, GotoKeepsCalls
  <2>10. announced' \subseteq Event
    BY <1>0, <1>2, <2>2, <2>7, EventType DEF IssueRfq, Kind
  <2> QED
    BY <1>0, <2>1, <2>6, <2>7, <2>9, <2>10 DEF RowTypes
<1>3. ASSUME NEW r \in DOMAIN rfqs, CancelRfq(r) PROVE TInv'
  <2>1. rfqs' = [rfqs EXCEPT ![r].status = "cancelled"]
        /\ UNCHANGED <<requests, quotations, orders, home, call, announced>>
    BY <1>3 DEF CancelRfq
  <2>2. [rfqs[r] EXCEPT !.status = "cancelled"] \in RfqRow
    <3>1. rfqs[r] \in RfqRow
      BY <1>0, TableRow DEF RowTypes
    <3> QED
      BY <3>1 DEF RfqRow
  <2>3. rfqs' \in Seq(RfqRow) /\ DOMAIN rfqs' = DOMAIN rfqs
    BY <1>0, <2>1, <2>2, UpdateRow DEF RowTypes
  <2> QED
    BY <1>0, <2>1, <2>3, IdleKeepsCalls DEF RowTypes
<1> QED
  BY <1>1, <1>2, <1>3

\* Quotations.
LEMMA OfferTypes ==
  ASSUME NEW offer \in Offers, NEW cur \in Currency
  PROVE  /\ offer.supplier \in Supplier /\ offer.lines \in PricedLines
         /\ offer.currency \in Currency \union {NoCurrency}
         /\ CurrencyOr(offer, cur) \in Currency
BY FunnelAssumption DEF Offer, CurrencyOr

LEMMA TypeOfQuotations ==
  ASSUME TInv,
         \/ \E n \in NumberOf["quotation"], offer \in Offers :
               DraftQuotation(n, offer) \/ \E r \in 0 .. Len(rfqs) : CreateQuotation(n, r, offer)
         \/ \E c \in Client : CommitQuotation(c) \/ MarkQuotation(c)
  PROVE  TInv'
<1> USE DEF TInv
<1>0. RowTypes /\ CallTypes /\ home \in Currency /\ announced \subseteq Event
  OBVIOUS
<1>1. ASSUME NEW n \in NumberOf["quotation"], NEW offer \in Offers, NEW row \in QuotationRow,
             quotations' = Append(quotations, row),
             UNCHANGED <<requests, rfqs, orders, home, call, announced>>
      PROVE  TInv'
  <2>1. quotations' \in Seq(QuotationRow) /\ DOMAIN quotations \subseteq DOMAIN quotations'
    BY <1>0, <1>1, AppendRow DEF RowTypes
  <2> QED
    BY <1>0, <1>1, <2>1, IdleKeepsCalls DEF RowTypes
<1>2. ASSUME NEW n \in NumberOf["quotation"], NEW offer \in Offers, NEW r \in 0 .. Len(rfqs)
      PROVE  /\ SubmittedQuotation(n, r, FALSE, offer.supplier, CurrencyOr(offer, Idr),
                                   WithoutMethods(offer.lines)) \in QuotationRow
             /\ [SubmittedQuotation(n, 0, FALSE, offer.supplier, CurrencyOr(offer, Idr),
                                    WithoutMethods(offer.lines)) EXCEPT !.status = "draft"]
                   \in QuotationRow
  <2>1. n \in Number /\ r \in Nat /\ 0 \in Nat
    BY <1>0, NumbersAreNumbers DEF Kind
  <2>2. /\ offer.supplier \in Supplier /\ CurrencyOr(offer, Idr) \in Currency
        /\ offer.lines \in PricedLines
    BY FunnelAssumption, OfferTypes
  <2>3. WithoutMethods(offer.lines) \in PricedLines
    BY <2>2, WithoutMethodsType
  <2> QED
    BY <2>1, <2>2, <2>3, QuotationType
<1>3. ASSUME NEW n \in NumberOf["quotation"], NEW offer \in Offers, DraftQuotation(n, offer)
      PROVE  TInv'
  <2>1. 0 \in 0 .. Len(rfqs)
    BY <1>0, TableRow DEF RowTypes
  <2> QED
    BY <1>1, <1>2, <1>3, <2>1 DEF DraftQuotation
<1>4. ASSUME NEW n \in NumberOf["quotation"], NEW offer \in Offers, NEW r \in 0 .. Len(rfqs),
             CreateQuotation(n, r, offer)
      PROVE  TInv'
  BY <1>1, <1>2, <1>4 DEF CreateQuotation
<1>5. ASSUME NEW c \in Client, CommitQuotation(c) PROVE TInv'
  <2> DEFINE row == SubmittedQuotation(call[c].number, call[c].source, TRUE, call[c].supplier,
                                       Idr, QuotedLines(c))
  <2>1. /\ quotations' = Append(quotations, row) /\ Goto(c, Idle)
        /\ Publishes("quotation", Len(quotations) + 1, call[c].source)
        /\ UNCHANGED <<requests, rfqs, orders, home>>
    BY <1>5 DEF CommitQuotation
  <2>2. /\ call[c].source \in DOMAIN rfqs /\ call[c].source \in Nat
        /\ call[c].number \in Number /\ call[c].supplier \in Supplier
        /\ call[c].rates \in [Item -> Int]
    BY <1>0, <1>5, CallShape DEF CommitQuotation, At, CallTypes, CallsNameRows, NamesRow
  <2>3. rfqs[call[c].source].lines \in WantedLines
    <3>1. rfqs[call[c].source] \in RfqRow
      BY <1>0, <2>2, TableRow DEF RowTypes
    <3> QED
      BY <3>1 DEF RfqRow
  <2>4. QuotedLines(c) \in PricedLines
    BY <2>2, <2>3, AtRatesType DEF QuotedLines
  <2>5. row \in QuotationRow
    BY <2>2, <2>4, FunnelAssumption, QuotationType
  <2> HIDE DEF row
  <2>6. quotations' \in Seq(QuotationRow) /\ DOMAIN quotations \subseteq DOMAIN quotations'
        /\ Len(quotations) + 1 \in Nat
    BY <1>0, <2>1, <2>5, AppendRow DEF RowTypes
  <2>7. NamesRow(Idle)' /\ Idle \in Call
    BY CallsAreCalls DEF NamesRow, Idle
  <2>8. CallTypes'
    BY <1>0, <2>1, <2>6, <2>7, GotoKeepsCalls
  <2>9. announced' \subseteq Event
    BY <1>0, <2>1, <2>2, <2>6, EventType DEF Kind
  <2> QED
    BY <1>0, <2>1, <2>6, <2>8, <2>9 DEF RowTypes
<1>6. ASSUME NEW c \in Client, MarkQuotation(c) PROVE TInv'
  <2>1. /\ quotations' = [quotations EXCEPT ![call[c].source].status = "ordered"]
        /\ Goto(c, Idle) /\ UNCHANGED <<requests, rfqs, orders, home, announced>>
    BY <1>6 DEF MarkQuotation
  <2>2. call[c].source \in DOMAIN quotations
    BY <1>0, <1>6 DEF MarkQuotation, At, CallTypes, CallsNameRows, NamesRow
  <2>3. quotations[call[c].source] \in QuotationRow
    BY <1>0, <2>2, TableRow DEF RowTypes
  <2>4. [quotations[call[c].source] EXCEPT !.status = "ordered"] \in QuotationRow
    BY <2>3 DEF QuotationRow
  <2>5. quotations' \in Seq(QuotationRow) /\ DOMAIN quotations' = DOMAIN quotations
    BY <1>0, <2>1, <2>2, <2>4, UpdateRow DEF RowTypes
  <2>6. NamesRow(Idle)' /\ Idle \in Call
    BY CallsAreCalls DEF NamesRow, Idle
  <2>7. CallTypes'
    BY <1>0, <2>1, <2>5, <2>6, GotoKeepsCalls
  <2> QED
    BY <1>0, <2>1, <2>5, <2>7 DEF RowTypes
<1> QED
  BY <1>3, <1>4, <1>5, <1>6

\* Calls that read, and the creation of orders.
LEMMA CallMoves ==
  ASSUME TInv, NEW c \in Client, NEW k \in Call, Goto(c, k), NamesRow(k),
         UNCHANGED <<requests, rfqs, quotations, orders, home, announced>>
  PROVE  TInv'
<1>1. NamesRow(k)'
  BY DEF NamesRow
<1>2. CallTypes'
  BY <1>1, GotoKeepsCalls DEF TInv
<1> QED
  BY <1>2 DEF TInv, RowTypes

LEMMA TypeOfReads ==
  ASSUME TInv, NEW c \in Client, Begin(c)
  PROVE  TInv'
<1>0. RowTypes /\ CallTypes /\ home \in Currency
  BY DEF TInv
<1>1. ASSUME NEW m \in DOMAIN requests, NEW suppliers \in Invitations, NEW n \in NumberOf["rfq"],
             ReadRequest(c, m, n, suppliers)
      PROVE  TInv'
  <2>1. m \in Nat /\ n \in Number /\ suppliers \in Seq(Supplier)
    BY <1>0, TableRow, NumbersAreNumbers, FunnelAssumption DEF RowTypes, Kind
  <2>2. PICK k : k = [at |-> "issue", source |-> m, number |-> n, invited |-> suppliers]
    OBVIOUS
  <2>3. k \in Call /\ NamesRow(k)
    BY <2>1, <2>2, CallsAreCalls DEF NamesRow
  <2> QED
    BY <1>1, <2>2, <2>3, CallMoves DEF ReadRequest, rows
<1>2. ASSUME NEW r \in DOMAIN rfqs, NEW sup \in Supplier, NEW rates \in Quotes,
             NEW n \in NumberOf["quotation"], ReadRfq(c, r, n, sup, rates)
      PROVE  TInv'
  <2>1. r \in Nat /\ n \in Number /\ rates \in [Item -> Int]
    BY <1>0, TableRow, NumbersAreNumbers, FunnelAssumption DEF RowTypes, Kind
  <2>2. PICK k : k = [at |-> "quote", source |-> r, number |-> n, supplier |-> sup, rates |-> rates]
    OBVIOUS
  <2>3. k \in Call /\ NamesRow(k)
    BY <2>1, <2>2, CallsAreCalls DEF NamesRow
  <2> QED
    BY <1>2, <2>2, <2>3, CallMoves DEF ReadRfq, rows
<1>3. ASSUME NEW n \in NumberOf["order"], NEW t \in TaxRates, NEW q \in DOMAIN quotations,
             ReadQuotation(c, q, n, t)
      PROVE  TInv'
  <2>1. q \in Nat /\ n \in Number /\ t \in Nat /\ quotations[q] \in QuotationRow
    BY <1>0, TableRow, NumbersAreNumbers, FunnelAssumption DEF RowTypes, Kind
  <2>2. /\ quotations[q].supplier \in Supplier /\ quotations[q].currency \in Currency
        /\ quotations[q].lines \in PricedLines
    BY <2>1 DEF QuotationRow
  <2>3. PICK o : o = [number |-> n, quotation |-> q, converted |-> TRUE,
                      supplier |-> quotations[q].supplier, currency |-> quotations[q].currency,
                      supplied |-> 0, rate |-> 0, lines |-> quotations[q].lines,
                      taxRate |-> t, homes |-> {home}]
    OBVIOUS
  <2>4. o \in NewOrder /\ o.quotation = q
    BY <1>0, <2>1, <2>2, <2>3 DEF NewOrder
  <2>5. PICK k : k = [at |-> "resolve", order |-> o]
    OBVIOUS
  <2>6. k \in Call /\ NamesRow(k)
    BY <2>4, <2>5, CallsAreCalls DEF NamesRow
  <2>7. Goto(c, k) /\ UNCHANGED <<requests, rfqs, quotations, orders, home, announced>>
    BY <1>3, <2>3, <2>5 DEF ReadQuotation, rows
  <2> QED
    BY <2>6, <2>7, CallMoves
<1>4. ASSUME NEW n \in NumberOf["order"], NEW t \in TaxRates, NEW q \in 0 .. Len(quotations),
             NEW offer \in Offers, NEW rate \in Supplied, CreateOrder(c, n, q, offer, rate, t)
      PROVE  TInv'
  <2>1. q \in Nat /\ n \in Number /\ t \in Nat /\ rate \in Int
    BY <1>0, TableRow, NumbersAreNumbers, FunnelAssumption DEF RowTypes, Kind
  <2>2. /\ offer.supplier \in Supplier /\ offer.currency \in Currency \union {NoCurrency}
        /\ offer.lines \in PricedLines
    BY <1>0, OfferTypes
  <2>3. PICK o : o = [number |-> n, quotation |-> q, converted |-> FALSE,
                      supplier |-> offer.supplier, currency |-> offer.currency,
                      supplied |-> rate, rate |-> 0, lines |-> offer.lines,
                      taxRate |-> t, homes |-> {home}]
    OBVIOUS
  <2>4. o \in NewOrder /\ o.converted = FALSE
    BY <1>0, <2>1, <2>2, <2>3 DEF NewOrder
  <2>5. PICK k : k = [at |-> "resolve", order |-> o]
    OBVIOUS
  <2>6. k \in Call /\ NamesRow(k)
    BY <2>4, <2>5, CallsAreCalls DEF NamesRow
  <2>7. Goto(c, k) /\ UNCHANGED <<requests, rfqs, quotations, orders, home, announced>>
    BY <1>4, <2>3, <2>5 DEF CreateOrder, rows
  <2> QED
    BY <2>6, <2>7, CallMoves
<1> QED
  BY <1>1, <1>2, <1>3, <1>4 DEF Begin

LEMMA TypeOfOrders ==
  ASSUME TInv, NEW c \in Client, ResolveCurrency(c) \/ InsertOrder(c)
  PROVE  TInv'
<1>0. RowTypes /\ CallTypes /\ home \in Currency /\ announced \subseteq Event
  BY DEF TInv
<1>1. PICK o : o = call[c].order
  OBVIOUS
<1>2. call[c] \in Call /\ call[c].at \in {"resolve", "insert"} /\ NamesRow(call[c])
  BY <1>0 DEF CallTypes, CallsNameRows, ResolveCurrency, InsertOrder, At
<1>3. o \in NewOrder
  BY <1>1, <1>2, CallShape
<1>4. o.converted => o.quotation \in DOMAIN quotations
  BY <1>1, <1>2 DEF NamesRow
<1>5. CASE ResolveCurrency(c)
  <2>1. PICK r : r = [o EXCEPT !.currency = CurrencyOr(o, home),
                               !.rate = ResolveRate(CurrencyOr(o, home), o.supplied, home)]
    OBVIOUS
  <2>2. CurrencyOr(o, home) \in Currency
    BY <1>0, <1>3 DEF CurrencyOr, NewOrder
  <2>3. ResolveRate(CurrencyOr(o, home), o.supplied, home) \in Int
    BY <1>3 DEF ResolveRate, NewOrder, One
  <2>4. r \in NewOrder /\ r.currency \in Currency
    BY <1>3, <2>1, <2>2, <2>3 DEF NewOrder
  <2>5. r.converted = o.converted /\ r.quotation = o.quotation
    BY <1>3, <2>1 DEF NewOrder
  <2>6. PICK k : k = [at |-> "insert", order |-> r]
    OBVIOUS
  <2>7. k \in Call
    BY <2>4, <2>6, CallsAreCalls
  <2>8. NamesRow(k)
    BY <1>4, <2>4, <2>5, <2>6 DEF NamesRow
  <2>9. Goto(c, k) /\ UNCHANGED <<requests, rfqs, quotations, orders, home, announced>>
    BY <1>1, <1>5, <2>1, <2>6 DEF ResolveCurrency, rows
  <2> QED
    BY <2>7, <2>8, <2>9, CallMoves
<1>6. CASE InsertOrder(c)
  <2>1. PICK k : k = IF o.converted THEN [at |-> "mark", source |-> o.quotation] ELSE Idle
    OBVIOUS
  <2>2. orders' = Append(orders, OrderRowOf(o)) /\ Goto(c, k)
        /\ UNCHANGED <<requests, rfqs, quotations, home, announced>>
    BY <1>1, <1>6, <2>1 DEF InsertOrder
  <2>3. o.currency \in Currency
    BY <1>1, <1>2, <1>6 DEF NamesRow, InsertOrder, At
  <2>4. orders' \in Seq(OrderRow)
    BY <1>0, <1>3, <2>2, <2>3, OrderRowType, AppendRow DEF RowTypes
  <2>5. k \in Call
    BY <1>3, <2>1, CallsAreCalls DEF NewOrder
  <2>6. NamesRow(k)'
    <3>1. CASE o.converted
      BY <1>4, <2>1, <2>2, <3>1 DEF NamesRow
    <3>2. CASE ~o.converted
      BY <2>1, <3>2 DEF NamesRow, Idle
    <3> QED
      BY <3>1, <3>2
  <2>7. CallTypes'
    BY <1>0, <2>2, <2>5, <2>6, GotoKeepsCalls
  <2> QED
    BY <1>0, <2>2, <2>4, <2>7 DEF TInv, RowTypes
<1> QED
  BY <1>5, <1>6

\* A change of the home currency reaches the orders under way, and nothing else.
LEMMA HomesWiden ==
  ASSUME CallTypes, NEW cur, SetHome(cur), NEW c \in Client
  PROVE  /\ call[c].at \notin {"resolve", "insert"} => call'[c] = call[c]
         /\ call[c].at \in {"resolve", "insert"} =>
               call'[c] = [at |-> call[c].at,
                           order |-> [call[c].order EXCEPT !.homes = @ \union {cur}]]
<1>1. PICK k : k = call[c]
  OBVIOUS
<1>2. k \in Call
  BY <1>1 DEF CallTypes
<1>3. call'[c] = IF k.at \in {"resolve", "insert"}
                 THEN [k EXCEPT !.order.homes = @ \union {cur}] ELSE k
  BY <1>1 DEF SetHome
<1>4. k.at \in {"resolve", "insert"} => k = [at |-> k.at, order |-> k.order]
  BY <1>2, CallShape
<1>5. k.at \in {"resolve", "insert"} =>
        [k EXCEPT !.order.homes = @ \union {cur}]
          = [at |-> k.at, order |-> [k.order EXCEPT !.homes = @ \union {cur}]]
  BY <1>4
<1> QED
  BY <1>1, <1>3, <1>5

\* The settings change under the calls, and an administrator deletes.
LEMMA TypeOfOthers ==
  ASSUME TInv,
         \/ \E c \in Client : Refuse(c) \/ Crash(c)
         \/ \E cur \in Currency : SetHome(cur)
         \/ \E i \in UNION {DOMAIN requests, DOMAIN rfqs, DOMAIN quotations, DOMAIN orders} :
               Delete(i)
  PROVE  TInv'
<1>0. RowTypes /\ CallTypes /\ home \in Currency /\ announced \subseteq Event
  BY DEF TInv
<1>1. ASSUME NEW c \in Client, Refuse(c) \/ Crash(c) PROVE TInv'
  <2>1. Goto(c, Idle) /\ UNCHANGED <<requests, rfqs, quotations, orders, home, announced>>
    BY <1>1 DEF Refuse, Crash, rows
  <2>2. Idle \in Call /\ NamesRow(Idle)
    BY CallsAreCalls DEF NamesRow, Idle
  <2> QED
    BY <2>1, <2>2, CallMoves
<1>2. ASSUME NEW cur \in Currency, SetHome(cur) PROVE TInv'
  <2>1. home' = cur /\ UNCHANGED <<requests, rfqs, quotations, orders, announced>>
        /\ call' = [c \in Client |-> call'[c]]
    BY <1>2 DEF SetHome, rows
  <2>2. ASSUME NEW c \in Client PROVE call'[c] \in Call /\ NamesRow(call[c])'
    <3>1. call[c] \in Call /\ NamesRow(call[c])
      BY <1>0 DEF CallTypes, CallsNameRows
    <3>2. CASE call[c].at \notin {"resolve", "insert"}
      <4>1. call'[c] = call[c]
        BY <1>0, <1>2, <3>2, HomesWiden
      <4> QED
        BY <2>1, <3>1, <4>1 DEF NamesRow
    <3>3. CASE call[c].at \in {"resolve", "insert"}
      <4>1. PICK o, at : o = call[c].order /\ at = call[c].at
        OBVIOUS
      <4>2. o \in NewOrder
        BY <3>1, <3>3, <4>1, CallShape
      <4>3. PICK r : r = [o EXCEPT !.homes = @ \union {cur}]
        OBVIOUS
      <4>4. /\ r \in NewOrder /\ r.currency = o.currency /\ r.converted = o.converted
            /\ r.quotation = o.quotation
        BY <4>2, <4>3 DEF NewOrder
      <4>5. call'[c] = [at |-> at, order |-> r]
        BY <1>0, <1>2, <3>3, <4>1, <4>3, HomesWiden
      <4>6. call'[c] \in Call
        BY <3>3, <4>1, <4>4, <4>5, CallsAreCalls
      <4> QED
        BY <2>1, <3>1, <3>3, <4>1, <4>4, <4>5, <4>6 DEF NamesRow
    <3> QED
      BY <3>2, <3>3
  <2>3. CallTypes'
    BY <2>1, <2>2 DEF CallTypes, CallsNameRows
  <2> QED
    BY <1>0, <2>1, <2>3 DEF TInv, RowTypes
<1>3. ASSUME NEW i \in UNION {DOMAIN requests, DOMAIN rfqs, DOMAIN quotations, DOMAIN orders},
             Delete(i)
      PROVE  TInv'
  <2>1. UNCHANGED <<home, call, announced>>
    BY <1>3 DEF Delete
  <2>2. RowTypes' /\ DOMAIN requests' = DOMAIN requests /\ DOMAIN rfqs' = DOMAIN rfqs
        /\ DOMAIN quotations' = DOMAIN quotations
    <3>1. CASE Found(requests, i) /\ requests' = [requests EXCEPT ![i].deleted = TRUE]
               /\ UNCHANGED <<rfqs, quotations, orders>>
      <4>1. requests[i] \in RequestRow
        BY <1>0, <3>1, TableRow DEF RowTypes, Found
      <4>2. [requests[i] EXCEPT !.deleted = TRUE] \in RequestRow
        BY <4>1 DEF RequestRow
      <4> QED
        BY <1>0, <3>1, <4>2, UpdateRow DEF RowTypes, Found
    <3>2. CASE Found(rfqs, i) /\ rfqs' = [rfqs EXCEPT ![i].deleted = TRUE]
               /\ UNCHANGED <<requests, quotations, orders>>
      <4>1. rfqs[i] \in RfqRow
        BY <1>0, <3>2, TableRow DEF RowTypes, Found
      <4>2. [rfqs[i] EXCEPT !.deleted = TRUE] \in RfqRow
        BY <4>1 DEF RfqRow
      <4> QED
        BY <1>0, <3>2, <4>2, UpdateRow DEF RowTypes, Found
    <3>3. CASE Found(quotations, i) /\ quotations' = [quotations EXCEPT ![i].deleted = TRUE]
               /\ UNCHANGED <<requests, rfqs, orders>>
      <4>1. quotations[i] \in QuotationRow
        BY <1>0, <3>3, TableRow DEF RowTypes, Found
      <4>2. [quotations[i] EXCEPT !.deleted = TRUE] \in QuotationRow
        BY <4>1 DEF QuotationRow
      <4> QED
        BY <1>0, <3>3, <4>2, UpdateRow DEF RowTypes, Found
    <3>4. CASE Found(orders, i) /\ orders' = [orders EXCEPT ![i].deleted = TRUE]
               /\ UNCHANGED <<requests, rfqs, quotations>>
      <4>1. orders[i] \in OrderRow
        BY <1>0, <3>4, TableRow DEF RowTypes, Found
      <4>2. [orders[i] EXCEPT !.deleted = TRUE] \in OrderRow
        BY <4>1 DEF OrderRow
      <4> QED
        BY <1>0, <3>4, <4>2, UpdateRow DEF RowTypes, Found
    <3> QED
      BY <1>3, <3>1, <3>2, <3>3, <3>4 DEF Delete
  <2>3. CallTypes'
    BY <1>0, <2>1, <2>2, IdleKeepsCalls
  <2> QED
    BY <1>0, <2>1, <2>2, <2>3 DEF TInv
<1> QED
  BY <1>1, <1>2, <1>3

LEMMA TypeStep == TInv /\ [Next]_vars => TInv'
<1> SUFFICES ASSUME TInv, [Next]_vars PROVE TInv'
  OBVIOUS
<1>1. CASE UNCHANGED vars
  <2>1. RowTypes /\ CallTypes /\ home \in Currency /\ announced \subseteq Event
    BY DEF TInv
  <2>2. RowTypes' /\ CallTypes'
    BY <1>1, <2>1, IdleKeepsCalls DEF vars, RowTypes
  <2> QED
    BY <1>1, <2>1, <2>2 DEF vars, TInv
<1>2. CASE \E c \in Client : Begin(c) \/ Step(c) \/ Crash(c)
  BY <1>2, TypeOfReads, TypeOfRequests, TypeOfQuotations, TypeOfOrders, TypeOfOthers DEF Step
<1>3. CASE \E cur \in Currency : SetHome(cur)
  BY <1>3, TypeOfOthers
<1>4. CASE \E n \in NumberOf["request"], lines \in Wants : CreateRequest(n, lines)
  BY <1>4, TypeOfRequests
<1>5. CASE \E n \in NumberOf["quotation"], offer \in Offers :
              DraftQuotation(n, offer) \/ \E r \in 0 .. Len(rfqs) : CreateQuotation(n, r, offer)
  BY <1>5, TypeOfQuotations
<1>6. CASE \E r \in DOMAIN rfqs : CancelRfq(r)
  BY <1>6, TypeOfRequests
<1>7. CASE \E i \in UNION {DOMAIN requests, DOMAIN rfqs, DOMAIN quotations, DOMAIN orders} :
              Delete(i)
  BY <1>7, TypeOfOthers
<1> QED
  BY <1>1, <1>2, <1>3, <1>4, <1>5, <1>6, <1>7 DEF Next

LEMMA TypesAlways == Spec => []TInv
<1>1. Init => TInv
  BY TypeInit
<1>2. TInv /\ [Next]_vars => TInv'
  BY TypeStep
<1> QED
  BY <1>1, <1>2, PTL DEF Spec

\* Every row and every call under way has its type: statuses are words the
\* columns know, numbers are numbers, whatever raced (the entities' columns).
THEOREM TypeCorrect == Spec => []TypeOK
<1>1. TInv => TypeOK
  BY DEF TInv, RowTypes, CallTypes, TypeOK
<1> QED
  BY <1>1, TypesAlways, PTL

-----------------------------------------------------------------------------
(* Documents are never removed, and keep what others copied from them.     *)

RequestsKept ==
  \A m \in DOMAIN requests :
    /\ m \in DOMAIN requests' /\ requests'[m].lines = requests[m].lines
    /\ requests[m].status = "ordered" => requests'[m].status = "ordered"
RfqsKept ==
  \A r \in DOMAIN rfqs :
    /\ r \in DOMAIN rfqs'
    /\ rfqs'[r].request = rfqs[r].request /\ rfqs'[r].lines = rfqs[r].lines
QuotationKept(old, new) ==
  /\ new.rfq = old.rfq /\ new.answers = old.answers /\ new.supplier = old.supplier
  /\ new.currency = old.currency /\ new.lines = old.lines
  /\ old.status # "draft" => new.status # "draft"
QuotationsKept ==
  \A q \in DOMAIN quotations : q \in DOMAIN quotations' /\ QuotationKept(quotations[q], quotations'[q])
OrdersKept ==
  \A o \in DOMAIN orders :
    o \in DOMAIN orders' /\ orders'[o] \in {orders[o], [orders[o] EXCEPT !.deleted = TRUE]}
DocumentsKept == RequestsKept /\ RfqsKept /\ QuotationsKept /\ OrdersKept

LEMMA UntouchedAreKept ==
  /\ UNCHANGED requests => RequestsKept
  /\ UNCHANGED rfqs => RfqsKept
  /\ UNCHANGED quotations => QuotationsKept
  /\ UNCHANGED orders => OrdersKept
BY DEF RequestsKept, RfqsKept, QuotationsKept, QuotationKept, OrdersKept

\* Whatever is appended, what was there stays.
LEMMA AppendAny ==
  ASSUME NEW S, NEW s \in Seq(S), NEW row
  PROVE  /\ Len(Append(s, row)) = Len(s) + 1 /\ Len(s) + 1 \notin DOMAIN s
         /\ DOMAIN Append(s, row) = DOMAIN s \union {Len(s) + 1}
         /\ Append(s, row)[Len(s) + 1] = row
         /\ \A i \in DOMAIN s : Append(s, row)[i] = s[i]
<1> DEFINE T == S \union {row}
<1>1. s \in [1 .. Len(s) -> T] /\ Len(s) \in Nat
  BY LenProperties
<1> HIDE DEF T
<1>2. s \in Seq(T)
  BY <1>1, FunctionIsSeq
<1>3. row \in T
  BY DEF T
<1> QED
  BY <1>2, <1>3, AppendRow

LEMMA AppendedAreKept ==
  ASSUME RowTypes, NEW row
  PROVE  /\ requests' = Append(requests, row) => RequestsKept
         /\ rfqs' = Append(rfqs, row) => RfqsKept
         /\ quotations' = Append(quotations, row) => QuotationsKept
         /\ orders' = Append(orders, row) => OrdersKept
<1>1. ASSUME requests' = Append(requests, row) PROVE RequestsKept
  BY <1>1, AppendAny DEF RowTypes, RequestsKept
<1>2. ASSUME rfqs' = Append(rfqs, row) PROVE RfqsKept
  BY <1>2, AppendAny DEF RowTypes, RfqsKept
<1>3. ASSUME quotations' = Append(quotations, row) PROVE QuotationsKept
  BY <1>3, AppendAny DEF RowTypes, QuotationsKept, QuotationKept
<1>4. ASSUME orders' = Append(orders, row) PROVE OrdersKept
  BY <1>4, AppendAny DEF RowTypes, OrdersKept
<1> QED
  BY <1>1, <1>2, <1>3, <1>4

LEMMA MarkedAreKept ==
  ASSUME RowTypes
  PROVE  /\ \A m \in DOMAIN requests :
               \/ requests' = [requests EXCEPT ![m].status = "ordered"]
               \/ requests' = [requests EXCEPT ![m].deleted = TRUE]
               => RequestsKept
         /\ \A r \in DOMAIN rfqs :
               \/ rfqs' = [rfqs EXCEPT ![r].status = "cancelled"]
               \/ rfqs' = [rfqs EXCEPT ![r].deleted = TRUE]
               => RfqsKept
         /\ \A q \in DOMAIN quotations :
               \/ quotations' = [quotations EXCEPT ![q].status = "ordered"]
               \/ quotations' = [quotations EXCEPT ![q].deleted = TRUE]
               => QuotationsKept
         /\ \A o \in DOMAIN orders : orders' = [orders EXCEPT ![o].deleted = TRUE] => OrdersKept
<1>1. ASSUME NEW m \in DOMAIN requests,
             \/ requests' = [requests EXCEPT ![m].status = "ordered"]
             \/ requests' = [requests EXCEPT ![m].deleted = TRUE]
      PROVE  RequestsKept
  <2>1. requests[m] \in RequestRow
    BY TableRow DEF RowTypes
  <2> QED
    BY <1>1, <2>1 DEF RequestsKept, RequestRow
<1>2. ASSUME NEW r \in DOMAIN rfqs,
             \/ rfqs' = [rfqs EXCEPT ![r].status = "cancelled"]
             \/ rfqs' = [rfqs EXCEPT ![r].deleted = TRUE]
      PROVE  RfqsKept
  <2>1. rfqs[r] \in RfqRow
    BY TableRow DEF RowTypes
  <2> QED
    BY <1>2, <2>1 DEF RfqsKept, RfqRow
<1>3. ASSUME NEW q \in DOMAIN quotations,
             \/ quotations' = [quotations EXCEPT ![q].status = "ordered"]
             \/ quotations' = [quotations EXCEPT ![q].deleted = TRUE]
      PROVE  QuotationsKept
  <2>1. quotations[q] \in QuotationRow
    BY TableRow DEF RowTypes
  <2>2. QuotationKept(quotations[q], quotations'[q])
    BY <1>3, <2>1 DEF QuotationKept, QuotationRow
  <2> QED
    BY <1>3, <2>2 DEF QuotationsKept, QuotationKept
<1>4. ASSUME NEW o \in DOMAIN orders, orders' = [orders EXCEPT ![o].deleted = TRUE]
      PROVE  OrdersKept
  BY <1>4 DEF OrdersKept
<1> QED
  BY <1>1, <1>2, <1>3, <1>4

\* No step loses a document or what is copied from it.
LEMMA KeptStep ==
  ASSUME TInv, [Next]_vars
  PROVE  DocumentsKept
<1> USE DEF DocumentsKept
<1>0. RowTypes /\ CallTypes
  BY DEF TInv
<1>1. ASSUME UNCHANGED rows PROVE DocumentsKept
  BY <1>1, UntouchedAreKept DEF rows
<1>2. CASE UNCHANGED vars
  BY <1>1, <1>2 DEF vars, rows
<1>3. ASSUME NEW c \in Client, Begin(c) \/ Step(c) \/ Crash(c) PROVE DocumentsKept
  <2>1. CASE Begin(c)
    BY <1>1, <2>1 DEF Begin, ReadRequest, ReadRfq, ReadQuotation, CreateOrder
  <2>2. CASE ResolveCurrency(c) \/ Refuse(c) \/ Crash(c)
    BY <1>1, <2>2 DEF ResolveCurrency, Refuse, Crash
  <2>3. CASE IssueRfq(c)
    <3>1. call[c].source \in DOMAIN requests
      BY <1>0, <2>3 DEF IssueRfq, At, CallTypes, CallsNameRows, NamesRow
    <3> QED
      BY <1>0, <2>3, <3>1, UntouchedAreKept, AppendedAreKept, MarkedAreKept DEF IssueRfq
  <2>4. CASE CommitQuotation(c)
    BY <1>0, <2>4, UntouchedAreKept, AppendedAreKept DEF CommitQuotation
  <2>5. CASE InsertOrder(c)
    BY <1>0, <2>5, UntouchedAreKept, AppendedAreKept DEF InsertOrder
  <2>6. CASE MarkQuotation(c)
    <3>1. call[c].source \in DOMAIN quotations
      BY <1>0, <2>6 DEF MarkQuotation, At, CallTypes, CallsNameRows, NamesRow
    <3> QED
      BY <1>0, <2>6, <3>1, UntouchedAreKept, MarkedAreKept DEF MarkQuotation
  <2> QED
    BY <1>3, <2>1, <2>2, <2>3, <2>4, <2>5, <2>6 DEF Step
<1>4. ASSUME NEW cur \in Currency, SetHome(cur) PROVE DocumentsKept
  BY <1>1, <1>4 DEF SetHome
<1>5. ASSUME NEW n \in NumberOf["request"], NEW lines \in Wants, CreateRequest(n, lines)
      PROVE  DocumentsKept
  BY <1>0, <1>5, UntouchedAreKept, AppendedAreKept DEF CreateRequest
<1>6. ASSUME NEW n \in NumberOf["quotation"], NEW offer \in Offers,
             DraftQuotation(n, offer) \/ \E r \in 0 .. Len(rfqs) : CreateQuotation(n, r, offer)
      PROVE  DocumentsKept
  <2>1. CASE DraftQuotation(n, offer)
    BY <1>0, <2>1, UntouchedAreKept, AppendedAreKept DEF DraftQuotation
  <2>2. ASSUME NEW r \in 0 .. Len(rfqs), CreateQuotation(n, r, offer) PROVE DocumentsKept
    BY <1>0, <2>2, UntouchedAreKept, AppendedAreKept DEF CreateQuotation
  <2> QED
    BY <1>6, <2>1, <2>2
<1>7. ASSUME NEW r \in DOMAIN rfqs, CancelRfq(r) PROVE DocumentsKept
  BY <1>0, <1>7, UntouchedAreKept, MarkedAreKept DEF CancelRfq
<1>8. ASSUME NEW i, Delete(i) PROVE DocumentsKept
  BY <1>0, <1>8, UntouchedAreKept, MarkedAreKept DEF Delete, Found
<1> QED
  BY <1>2, <1>3, <1>4, <1>5, <1>6, <1>7, <1>8 DEF Next

-----------------------------------------------------------------------------
(* What conversions carry over stays true of rows, calls and events.       *)

RateSettled(o) ==
  \/ o.rate = o.supplied /\ o.rate > 0
  \/ o.rate = One /\ o.currency \in o.homes
CallFaithful(k) ==
  /\ k.at \in {"resolve", "insert"} =>
        /\ home \in k.order.homes
        /\ k.order.converted => HasFrom(k.order) /\ Priceable(k.order.lines)
  /\ k.at = "insert" => RateSettled(k.order)
  /\ k.at = "mark" => \E o \in DOMAIN orders :
                         orders[o].converted /\ orders[o].quotation = k.source
CallsFaithful == \A c \in Client : CallFaithful(call[c])

OrderFaithful(o) == o.converted => HasFrom(o) /\ AddsUp(o)
EventTrue(e) ==
  /\ e.id \in DOMAIN TableOf(e.kind)
  /\ e.source = SourceOf(e)
  /\ e.kind = "rfq" => requests[e.source].status = "ordered"

\* The invariant, said of one call, one row and one event at a time.
LEMMA PointByPoint ==
  IInv <=> /\ TInv /\ CallsFaithful /\ RatesStored
           /\ \A r \in DOMAIN rfqs : rfqs[r].request \in DOMAIN requests
           /\ \A o \in DOMAIN orders : OrderFaithful(orders[o])
           /\ \A e \in announced : EventTrue(e)
BY DEF IInv, HomesSeen, RateNeverSilent, ConversionsFaithful, RowsFaithful, EventsFollowCommits,
       CallsFaithful, CallFaithful, OrderFaithful, EventTrue, RateSettled, At

LEMMA HasFromStays ==
  ASSUME DocumentsKept, NEW o, HasFrom(o)
  PROVE  HasFrom(o)'
BY DEF DocumentsKept, QuotationsKept, QuotationKept, HasFrom

LEMMA DeletedAddsUp ==
  ASSUME NEW row \in OrderRow
  PROVE  AddsUp([row EXCEPT !.deleted = TRUE]) <=> AddsUp(row)
BY DEF OrderRow, AddsUp

LEMMA OrderStays ==
  ASSUME RowTypes, DocumentsKept, NEW o \in DOMAIN orders
  PROVE  /\ orders'[o].converted = orders[o].converted
         /\ orders'[o].quotation = orders[o].quotation
         /\ OrderFaithful(orders[o]) => OrderFaithful(orders[o])'
<1>1. PICK old, new : old = orders[o] /\ new = orders'[o]
  OBVIOUS
<1>2. old \in OrderRow
  BY <1>1, TableRow DEF RowTypes
<1>3. new = old \/ new = [old EXCEPT !.deleted = TRUE]
  BY <1>1 DEF DocumentsKept, OrdersKept
<1>4. /\ new.converted = old.converted /\ new.quotation = old.quotation
      /\ new.supplier = old.supplier /\ new.currency = old.currency /\ new.lines = old.lines
  BY <1>2, <1>3 DEF OrderRow
<1>5. AddsUp(new) <=> AddsUp(old)
  BY <1>2, <1>3, DeletedAddsUp
<1>6. HasFrom(old) => HasFrom(old)'
  BY HasFromStays
<1>7. HasFrom(old)' => HasFrom(new)'
  BY <1>4 DEF HasFrom
<1>8. OrderFaithful(old) => OrderFaithful(new)'
  BY <1>4, <1>5, <1>6, <1>7 DEF OrderFaithful
<1>9. OrderFaithful(new)' <=> OrderFaithful(orders[o])'
  BY <1>1
<1> QED
  BY <1>1, <1>4, <1>8, <1>9

LEMMA CallStays ==
  ASSUME RowTypes, DocumentsKept, home' = home, NEW k, CallFaithful(k)
  PROVE  CallFaithful(k)'
<1>1. k.at \in {"resolve", "insert"} /\ k.order.converted => HasFrom(k.order)'
  BY HasFromStays DEF CallFaithful
<1>2. k.at = "mark" => (\E o \in DOMAIN orders :
                           orders[o].converted /\ orders[o].quotation = k.source)'
  <2> SUFFICES ASSUME k.at = "mark"
               PROVE  \E o \in DOMAIN orders' :
                          orders'[o].converted /\ orders'[o].quotation = k.source
    OBVIOUS
  <2>1. PICK o \in DOMAIN orders : orders[o].converted /\ orders[o].quotation = k.source
    BY DEF CallFaithful
  <2>2. o \in DOMAIN orders'
    BY DEF DocumentsKept, OrdersKept
  <2> QED
    BY <2>1, <2>2, OrderStays
<1> QED
  BY <1>1, <1>2 DEF CallFaithful

\* A caller goes on to a call that is faithful.
LEMMA GotoKeepsFaith ==
  ASSUME TInv, CallsFaithful, DocumentsKept, home' = home,
         NEW c \in Client, NEW k, Goto(c, k), CallFaithful(k)'
  PROVE  CallsFaithful'
<1>1. ASSUME NEW d \in Client PROVE CallFaithful(call[d])'
  <2>1. CASE d = c
    <3>1. call'[d] = k
      BY <2>1 DEF TInv, CallTypes, Goto
    <3> QED
      BY <3>1
  <2>2. CASE d # c
    <3>1. PICK j : j = call[d]
      OBVIOUS
    <3>2. call'[d] = j
      BY <2>2, <3>1 DEF TInv, CallTypes, Goto
    <3>3. CallFaithful(j)
      BY <3>1 DEF CallsFaithful
    <3>4. CallFaithful(j)'
      BY <3>3, CallStays DEF TInv
    <3> QED
      BY <3>2, <3>4
  <2> QED
    BY <2>1, <2>2
<1> QED
  BY <1>1 DEF CallsFaithful

LEMMA IdleKeepsFaith ==
  ASSUME TInv, CallsFaithful, DocumentsKept, UNCHANGED <<home, call>>
  PROVE  CallsFaithful'
<1>1. ASSUME NEW d \in Client PROVE CallFaithful(call[d])'
  <2>1. PICK j : j = call[d]
    OBVIOUS
  <2>2. CallFaithful(j)
    BY <2>1 DEF CallsFaithful
  <2>3. CallFaithful(j)'
    BY <2>2, CallStays DEF TInv
  <2> QED
    BY <2>1, <2>3
<1> QED
  BY <1>1 DEF CallsFaithful

LEMMA EventStays ==
  ASSUME RowTypes, DocumentsKept, NEW e \in Event, EventTrue(e),
         \A r \in DOMAIN rfqs : rfqs[r].request \in DOMAIN requests
  PROVE  EventTrue(e)'
<1>1. e.kind \in {"request", "rfq", "quotation", "order"}
  BY DEF Event, Kind
<1>2. CASE e.kind = "rfq"
  BY <1>2 DEF EventTrue, TableOf, SourceOf, DocumentsKept, RequestsKept, RfqsKept
<1>3. CASE e.kind = "quotation"
  BY <1>3 DEF EventTrue, TableOf, SourceOf, DocumentsKept, QuotationsKept, QuotationKept
<1>4. CASE e.kind = "request"
  BY <1>4 DEF EventTrue, TableOf, SourceOf, DocumentsKept, RequestsKept
<1>5. CASE e.kind = "order"
  BY <1>5 DEF EventTrue, TableOf, SourceOf, DocumentsKept, OrdersKept
<1> QED
  BY <1>1, <1>2, <1>3, <1>4, <1>5

\* So only what a step adds needs to be looked at.
LEMMA NewIsEnough ==
  ASSUME IInv, TInv', DocumentsKept, CallsFaithful',
         \A q \in DOMAIN quotations' :
            q \in DOMAIN quotations \/ StoredLines(quotations'[q].lines) = quotations'[q].lines,
         \A r \in DOMAIN rfqs' : r \in DOMAIN rfqs \/ rfqs'[r].request \in DOMAIN requests',
         \A o \in DOMAIN orders' : o \in DOMAIN orders \/ OrderFaithful(orders[o])',
         \A e \in announced' : e \in announced \/ EventTrue(e)'
  PROVE  IInv'
<1>0. TInv /\ RowTypes
  BY PointByPoint DEF TInv
<1>1. RatesStored'
  BY PointByPoint DEF RatesStored, DocumentsKept, QuotationsKept, QuotationKept
<1>2. (\A r \in DOMAIN rfqs : rfqs[r].request \in DOMAIN requests)'
  BY PointByPoint DEF DocumentsKept, RfqsKept, RequestsKept
<1>3. (\A o \in DOMAIN orders : OrderFaithful(orders[o]))'
  <2>1. ASSUME NEW o \in DOMAIN orders' PROVE OrderFaithful(orders[o])'
    <3>1. CASE o \in DOMAIN orders
      <4>1. OrderFaithful(orders[o])
        BY <3>1, PointByPoint
      <4> QED
        BY <1>0, <3>1, <4>1, OrderStays
    <3> QED
      BY <3>1
  <2> QED
    BY <2>1
<1>4. (\A e \in announced : EventTrue(e))'
  <2>1. ASSUME NEW e \in announced' PROVE EventTrue(e)'
    <3>1. CASE e \in announced
      <4>1. EventTrue(e) /\ e \in Event
        BY <1>0, <3>1, PointByPoint DEF TInv
      <4> QED
        BY <1>0, <4>1, PointByPoint, EventStays
    <3> QED
      BY <3>1
  <2> QED
    BY <2>1
<1> QED
  BY <1>1, <1>2, <1>3, <1>4 DEF IInv, HomesSeen, RateNeverSilent, ConversionsFaithful, RowsFaithful,
       EventsFollowCommits, CallsFaithful, CallFaithful, OrderFaithful, EventTrue, RateSettled, At

\* A step of one call that writes no row.
LEMMA QuietMove ==
  ASSUME IInv, TInv', NEW c \in Client, NEW k, Goto(c, k), CallFaithful(k),
         UNCHANGED <<rows, home, announced>>
  PROVE  IInv'
<1>1. TInv /\ RowTypes /\ CallsFaithful
  BY PointByPoint DEF TInv
<1>2. DocumentsKept
  BY UntouchedAreKept DEF DocumentsKept, rows
<1>3. CallFaithful(k)'
  BY <1>1, <1>2, CallStays
<1>4. CallsFaithful'
  BY <1>1, <1>2, <1>3, GotoKeepsFaith
<1> QED
  BY <1>2, <1>4, NewIsEnough DEF rows

LEMMA FaithOfReads ==
  ASSUME IInv, TInv', NEW c \in Client, Begin(c)
  PROVE  IInv'
<1>0. RowTypes /\ home \in Currency
  BY DEF IInv, TInv
<1>1. ASSUME NEW m \in DOMAIN requests, NEW suppliers \in Invitations, NEW n \in NumberOf["rfq"],
             ReadRequest(c, m, n, suppliers)
      PROVE  IInv'
  <2>1. PICK k : k = [at |-> "issue", source |-> m, number |-> n, invited |-> suppliers]
    OBVIOUS
  <2>2. CallFaithful(k)
    BY <2>1 DEF CallFaithful
  <2> QED
    BY <1>1, <2>1, <2>2, QuietMove DEF ReadRequest
<1>2. ASSUME NEW r \in DOMAIN rfqs, NEW sup \in Supplier, NEW rates \in Quotes,
             NEW n \in NumberOf["quotation"], ReadRfq(c, r, n, sup, rates)
      PROVE  IInv'
  <2>1. PICK k : k = [at |-> "quote", source |-> r, number |-> n, supplier |-> sup, rates |-> rates]
    OBVIOUS
  <2>2. CallFaithful(k)
    BY <2>1 DEF CallFaithful
  <2> QED
    BY <1>2, <2>1, <2>2, QuietMove DEF ReadRfq
<1>3. ASSUME NEW n \in NumberOf["order"], NEW t \in TaxRates, NEW q \in DOMAIN quotations,
             ReadQuotation(c, q, n, t)
      PROVE  IInv'
  <2>1. PICK o : o = [number |-> n, quotation |-> q, converted |-> TRUE,
                      supplier |-> quotations[q].supplier, currency |-> quotations[q].currency,
                      supplied |-> 0, rate |-> 0, lines |-> quotations[q].lines,
                      taxRate |-> t, homes |-> {home}]
    OBVIOUS
  <2>2. PICK k : k = [at |-> "resolve", order |-> o]
    OBVIOUS
  <2>3. quotations[q].status = "submitted" /\ Priceable(quotations[q].lines)
    BY <1>3 DEF ReadQuotation
  <2>4. HasFrom(o) /\ Priceable(o.lines) /\ home \in o.homes
    BY <2>1, <2>3 DEF HasFrom
  <2>5. CallFaithful(k)
    BY <2>2, <2>4 DEF CallFaithful
  <2>6. Goto(c, k) /\ UNCHANGED <<rows, home, announced>>
    BY <1>3, <2>1, <2>2 DEF ReadQuotation
  <2> QED
    BY <2>5, <2>6, QuietMove
<1>4. ASSUME NEW n \in NumberOf["order"], NEW t \in TaxRates, NEW q \in 0 .. Len(quotations),
             NEW offer \in Offers, NEW rate \in Supplied, CreateOrder(c, n, q, offer, rate, t)
      PROVE  IInv'
  <2>1. PICK o : o = [number |-> n, quotation |-> q, converted |-> FALSE,
                      supplier |-> offer.supplier, currency |-> offer.currency,
                      supplied |-> rate, rate |-> 0, lines |-> offer.lines,
                      taxRate |-> t, homes |-> {home}]
    OBVIOUS
  <2>2. PICK k : k = [at |-> "resolve", order |-> o]
    OBVIOUS
  <2>3. CallFaithful(k)
    BY <2>1, <2>2 DEF CallFaithful
  <2>4. Goto(c, k) /\ UNCHANGED <<rows, home, announced>>
    BY <1>4, <2>1, <2>2 DEF CreateOrder
  <2> QED
    BY <2>3, <2>4, QuietMove
<1> QED
  BY <1>1, <1>2, <1>3, <1>4 DEF Begin

\* The rate is settled against the home currency read in the same moment.
LEMMA FaithOfRates ==
  ASSUME IInv, TInv', NEW c \in Client, ResolveCurrency(c)
  PROVE  IInv'
<1>0. RowTypes /\ CallTypes /\ home \in Currency /\ CallsFaithful
  BY PointByPoint DEF TInv
<1>1. PICK o : o = call[c].order
  OBVIOUS
<1>2. call[c].at = "resolve" /\ Resolves(o)
  BY <1>1 DEF ResolveCurrency, At
<1>3. o \in NewOrder
  BY <1>0, <1>1, <1>2, CallShape DEF CallTypes
<1>4. home \in o.homes /\ (o.converted => HasFrom(o) /\ Priceable(o.lines))
  BY <1>0, <1>1, <1>2 DEF CallsFaithful, CallFaithful
<1>5. PICK r : r = [o EXCEPT !.currency = CurrencyOr(o, home),
                             !.rate = ResolveRate(CurrencyOr(o, home), o.supplied, home)]
  OBVIOUS
<1>6. /\ r.currency = CurrencyOr(o, home) /\ r.supplied = o.supplied /\ r.homes = o.homes
      /\ r.rate = ResolveRate(CurrencyOr(o, home), o.supplied, home)
      /\ r.converted = o.converted /\ r.quotation = o.quotation
      /\ r.supplier = o.supplier /\ r.lines = o.lines
  BY <1>3, <1>5 DEF NewOrder
<1>7. o.converted => HasFrom(r)
  <2> SUFFICES ASSUME o.converted PROVE HasFrom(r)
    OBVIOUS
  <2>1. quotations[o.quotation] \in QuotationRow
    BY <1>0, <1>4, TableRow DEF HasFrom, RowTypes
  <2>2. o.currency \in Currency
    BY <1>4, <2>1 DEF HasFrom, QuotationRow
  <2>3. r.currency = o.currency
    BY <1>6, <2>2, FunnelAssumption DEF CurrencyOr
  <2> QED
    BY <1>4, <1>6, <2>3 DEF HasFrom
<1>8. RateSettled(r)
  BY <1>2, <1>4, <1>6 DEF RateSettled, Resolves, RateResolves, ResolveRate
<1>9. PICK k : k = [at |-> "insert", order |-> r]
  OBVIOUS
<1>10. CallFaithful(k)
  BY <1>4, <1>6, <1>7, <1>8, <1>9 DEF CallFaithful
<1>11. Goto(c, k) /\ UNCHANGED <<rows, home, announced>>
  BY <1>1, <1>5, <1>9 DEF ResolveCurrency
<1> QED
  BY <1>10, <1>11, QuietMove

\* What is priced is what the quotation keeps, so the order adds up.
LEMMA FaithOfOrders ==
  ASSUME IInv, TInv', NEW c \in Client, InsertOrder(c)
  PROVE  IInv'
<1>0. TInv /\ RowTypes /\ CallTypes /\ CallsFaithful /\ RatesStored
  BY PointByPoint DEF TInv
<1>1. PICK o : o = call[c].order
  OBVIOUS
<1>2. call[c].at = "insert"
  BY DEF InsertOrder, At
<1>3. o \in NewOrder
  BY <1>0, <1>1, <1>2, CallShape DEF CallTypes
<1>4. o.converted => HasFrom(o) /\ Priceable(o.lines)
  BY <1>0, <1>1, <1>2 DEF CallsFaithful, CallFaithful
<1>5. PICK row, k : row = OrderRowOf(o)
                    /\ k = IF o.converted THEN [at |-> "mark", source |-> o.quotation] ELSE Idle
  OBVIOUS
<1>6. orders' = Append(orders, row) /\ Goto(c, k)
      /\ UNCHANGED <<requests, rfqs, quotations, home, announced>>
  BY <1>1, <1>5 DEF InsertOrder
<1>7. DocumentsKept
  BY <1>0, <1>6, UntouchedAreKept, AppendedAreKept DEF DocumentsKept
<1>8. OrderFaithful(row)
  <2> SUFFICES ASSUME o.converted PROVE HasFrom(row) /\ AddsUp(row)
    BY <1>5 DEF OrderFaithful, OrderRowOf
  <2>1. StoredLines(o.lines) = o.lines
    BY <1>0, <1>4 DEF HasFrom, RatesStored
  <2>2. /\ row.lines = o.lines /\ row.quotation = o.quotation
        /\ row.supplier = o.supplier /\ row.currency = o.currency
    BY <1>5, <2>1 DEF OrderRowOf
  <2>3. HasFrom(row)
    BY <1>4, <2>2 DEF HasFrom
  <2>4. AddsUp(row)
    BY <1>3, <1>4, <1>5, <2>1, OrderRowAddsUp
  <2> QED
    BY <2>3, <2>4
<1>9. OrderFaithful(row)'
  BY <1>7, <1>8, HasFromStays DEF OrderFaithful
<1>10. /\ DOMAIN orders' = DOMAIN orders \union {Len(orders) + 1}
       /\ orders'[Len(orders) + 1] = row
  BY <1>0, <1>6, AppendAny DEF RowTypes
<1>11. \A i \in DOMAIN orders' : i \in DOMAIN orders \/ OrderFaithful(orders[i])'
  BY <1>9, <1>10
<1>12. CallFaithful(k)'
  <2>1. CASE ~o.converted
    BY <1>5, <2>1 DEF CallFaithful, Idle
  <2>2. CASE o.converted
    <3>1. row.converted /\ row.quotation = o.quotation
      BY <1>5, <2>2 DEF OrderRowOf
    <3>2. k = [at |-> "mark", source |-> o.quotation]
      BY <1>5, <2>2
    <3> QED
      BY <1>10, <3>1, <3>2 DEF CallFaithful
  <2> QED
    BY <2>1, <2>2
<1>13. CallsFaithful'
  BY <1>0, <1>6, <1>7, <1>12, GotoKeepsFaith
<1> QED
  BY <1>6, <1>7, <1>11, <1>13, NewIsEnough

\* An RFQ is written and announced together with the mark of its request.
LEMMA FaithOfRequests ==
  ASSUME IInv, TInv',
         \/ \E n \in NumberOf["request"], lines \in Wants : CreateRequest(n, lines)
         \/ \E c \in Client : IssueRfq(c)
         \/ \E r \in DOMAIN rfqs : CancelRfq(r)
  PROVE  IInv'
<1>0. TInv /\ RowTypes /\ CallTypes /\ CallsFaithful
  BY PointByPoint DEF TInv
<1>1. ASSUME NEW n \in NumberOf["request"], NEW lines \in Wants, CreateRequest(n, lines)
      PROVE  IInv'
  <2>1. PICK row, e : /\ row = [number |-> n, status |-> "draft", lines |-> lines, deleted |-> FALSE]
                      /\ e = [kind |-> "request", id |-> Len(requests) + 1, source |-> 0]
    OBVIOUS
  <2>2. /\ requests' = Append(requests, row) /\ announced' = announced \union {e}
        /\ UNCHANGED <<rfqs, quotations, orders, home, call>>
    BY <1>1, <2>1 DEF CreateRequest, Publishes
  <2>3. DocumentsKept
    BY <1>0, <2>2, UntouchedAreKept, AppendedAreKept DEF DocumentsKept
  <2>4. CallsFaithful'
    BY <1>0, <2>2, <2>3, IdleKeepsFaith
  <2>5. DOMAIN requests' = DOMAIN requests \union {Len(requests) + 1}
    BY <1>0, <2>2, AppendAny DEF RowTypes
  <2>6. EventTrue(e)'
    BY <2>1, <2>5 DEF EventTrue, TableOf, SourceOf
  <2> QED
    BY <2>2, <2>3, <2>4, <2>6, NewIsEnough
<1>2. ASSUME NEW c \in Client, IssueRfq(c) PROVE IInv'
  <2>1. PICK m, row, e : /\ m = call[c].source /\ row = RfqOf(c)
                         /\ e = [kind |-> "rfq", id |-> Len(rfqs) + 1, source |-> m]
    OBVIOUS
  <2>2. /\ rfqs' = Append(rfqs, row) /\ announced' = announced \union {e}
        /\ requests' = [requests EXCEPT ![m].status = "ordered"]
        /\ Goto(c, Idle) /\ UNCHANGED <<quotations, orders, home>>
    BY <1>2, <2>1 DEF IssueRfq, Publishes
  <2>3. m \in DOMAIN requests
    BY <1>0, <1>2, <2>1 DEF IssueRfq, At, CallTypes, CallsNameRows, NamesRow
  <2>4. DocumentsKept
    BY <1>0, <2>2, <2>3, UntouchedAreKept, AppendedAreKept, MarkedAreKept DEF DocumentsKept
  <2>5. CallsFaithful'
    <3>1. CallFaithful(Idle)'
      BY DEF CallFaithful, Idle
    <3> QED
      BY <1>0, <2>2, <2>4, <3>1, GotoKeepsFaith
  <2>6. /\ DOMAIN rfqs' = DOMAIN rfqs \union {Len(rfqs) + 1} /\ rfqs'[Len(rfqs) + 1] = row
        /\ row.request = m
    BY <1>0, <2>1, <2>2, AppendAny DEF RowTypes, RfqOf
  <2>7. m \in DOMAIN requests' /\ requests'[m].status = "ordered"
    <3>1. requests[m] \in RequestRow
      BY <1>0, <2>3, TableRow DEF RowTypes
    <3> QED
      BY <2>2, <2>3, <3>1 DEF RequestRow
  <2>8. EventTrue(e)'
    BY <2>1, <2>6, <2>7 DEF EventTrue, TableOf, SourceOf
  <2> QED
    BY <2>2, <2>4, <2>5, <2>6, <2>7, <2>8, NewIsEnough
<1>3. ASSUME NEW r \in DOMAIN rfqs, CancelRfq(r) PROVE IInv'
  <2>1. rfqs' = [rfqs EXCEPT ![r].status = "cancelled"]
        /\ UNCHANGED <<requests, quotations, orders, home, call, announced>>
    BY <1>3 DEF CancelRfq
  <2>2. DocumentsKept
    BY <1>0, <2>1, UntouchedAreKept, MarkedAreKept DEF DocumentsKept
  <2>3. CallsFaithful'
    BY <1>0, <2>1, <2>2, IdleKeepsFaith
  <2> QED
    BY <2>1, <2>2, <2>3, NewIsEnough
<1> QED
  BY <1>1, <1>2, <1>3

\* A quotation keeps its lines as they are stored, and is marked behind its order.
LEMMA FaithOfQuotations ==
  ASSUME IInv, TInv',
         \/ \E n \in NumberOf["quotation"], offer \in Offers :
               DraftQuotation(n, offer) \/ \E r \in 0 .. Len(rfqs) : CreateQuotation(n, r, offer)
         \/ \E c \in Client : CommitQuotation(c) \/ MarkQuotation(c)
  PROVE  IInv'
<1>0. TInv /\ RowTypes /\ CallTypes /\ CallsFaithful
  BY PointByPoint DEF TInv
<1>1. ASSUME NEW lines \in PricedLines, NEW row, quotations' = Append(quotations, row),
             row.lines = StoredLines(lines)
      PROVE  /\ DOMAIN quotations' = DOMAIN quotations \union {Len(quotations) + 1}
             /\ quotations'[Len(quotations) + 1] = row
             /\ QuotationsKept
             /\ \A q \in DOMAIN quotations' :
                  q \in DOMAIN quotations \/ StoredLines(quotations'[q].lines) = quotations'[q].lines
  <2>1. /\ DOMAIN quotations' = DOMAIN quotations \union {Len(quotations) + 1}
        /\ quotations'[Len(quotations) + 1] = row
    BY <1>0, <1>1, AppendAny DEF RowTypes
  <2>2. StoredLines(row.lines) = row.lines
    BY <1>1, StoredLinesSettle
  <2>3. QuotationsKept
    BY <1>0, <1>1, AppendedAreKept
  <2> QED
    BY <2>1, <2>2, <2>3
<1>2. ASSUME NEW lines \in PricedLines, NEW row, quotations' = Append(quotations, row),
             row.lines = StoredLines(lines),
             UNCHANGED <<requests, rfqs, orders, home, call, announced>>
      PROVE  IInv'
  <2>1. DocumentsKept
    BY <1>1, <1>2, UntouchedAreKept DEF DocumentsKept
  <2>2. CallsFaithful'
    BY <1>0, <1>2, <2>1, IdleKeepsFaith
  <2> QED
    BY <1>1, <1>2, <2>1, <2>2, NewIsEnough
<1>3. ASSUME NEW n \in NumberOf["quotation"], NEW offer \in Offers, DraftQuotation(n, offer)
      PROVE  IInv'
  <2>1. WithoutMethods(offer.lines) \in PricedLines
    BY FunnelAssumption, OfferTypes, WithoutMethodsType
  <2>2. PICK row : row = [SubmittedQuotation(n, 0, FALSE, offer.supplier, CurrencyOr(offer, Idr),
                                             WithoutMethods(offer.lines)) EXCEPT !.status = "draft"]
    OBVIOUS
  <2>3. row.lines = StoredLines(WithoutMethods(offer.lines))
    BY <2>2 DEF SubmittedQuotation
  <2> QED
    BY <1>2, <1>3, <2>1, <2>2, <2>3 DEF DraftQuotation
<1>4. ASSUME NEW n \in NumberOf["quotation"], NEW offer \in Offers, NEW r \in 0 .. Len(rfqs),
             CreateQuotation(n, r, offer)
      PROVE  IInv'
  <2>1. WithoutMethods(offer.lines) \in PricedLines
    BY FunnelAssumption, OfferTypes, WithoutMethodsType
  <2>2. PICK row : row = SubmittedQuotation(n, r, FALSE, offer.supplier, CurrencyOr(offer, Idr),
                                            WithoutMethods(offer.lines))
    OBVIOUS
  <2>3. row.lines = StoredLines(WithoutMethods(offer.lines))
    BY <2>2 DEF SubmittedQuotation
  <2> QED
    BY <1>2, <1>4, <2>1, <2>2, <2>3 DEF CreateQuotation
<1>5. ASSUME NEW c \in Client, CommitQuotation(c) PROVE IInv'
  <2>1. PICK row, e :
          /\ row = SubmittedQuotation(call[c].number, call[c].source, TRUE, call[c].supplier, Idr,
                                      QuotedLines(c))
          /\ e = [kind |-> "quotation", id |-> Len(quotations) + 1, source |-> call[c].source]
    OBVIOUS
  <2>2. /\ quotations' = Append(quotations, row) /\ announced' = announced \union {e}
        /\ Goto(c, Idle) /\ UNCHANGED <<requests, rfqs, orders, home>>
    BY <1>5, <2>1 DEF CommitQuotation, Publishes
  <2>3. QuotedLines(c) \in PricedLines
    <3>1. call[c].source \in DOMAIN rfqs /\ call[c].rates \in [Item -> Int]
      BY <1>0, <1>5, CallShape DEF CommitQuotation, At, CallTypes, CallsNameRows, NamesRow
    <3>2. rfqs[call[c].source] \in RfqRow
      BY <1>0, <3>1, TableRow DEF RowTypes
    <3>3. rfqs[call[c].source].lines \in WantedLines
      BY <3>2 DEF RfqRow
    <3> QED
      BY <3>1, <3>3, AtRatesType DEF QuotedLines
  <2>4. /\ row.lines = StoredLines(QuotedLines(c)) /\ row.rfq = e.source
        /\ e.kind = "quotation" /\ e.id = Len(quotations) + 1
    BY <2>1 DEF SubmittedQuotation
  <2>5. DocumentsKept
    BY <1>1, <2>2, <2>3, <2>4, UntouchedAreKept DEF DocumentsKept
  <2>6. CallsFaithful'
    <3>1. CallFaithful(Idle)'
      BY DEF CallFaithful, Idle
    <3> QED
      BY <1>0, <2>2, <2>5, <3>1, GotoKeepsFaith
  <2>7. EventTrue(e)'
    BY <1>1, <2>2, <2>3, <2>4 DEF EventTrue, TableOf, SourceOf
  <2> QED
    BY <1>1, <2>2, <2>3, <2>4, <2>5, <2>6, <2>7, NewIsEnough
<1>6. ASSUME NEW c \in Client, MarkQuotation(c) PROVE IInv'
  <2>1. /\ quotations' = [quotations EXCEPT ![call[c].source].status = "ordered"]
        /\ Goto(c, Idle) /\ UNCHANGED <<requests, rfqs, orders, home, announced>>
    BY <1>6 DEF MarkQuotation
  <2>2. call[c].source \in DOMAIN quotations
    BY <1>0, <1>6 DEF MarkQuotation, At, CallTypes, CallsNameRows, NamesRow
  <2>3. DocumentsKept
    BY <1>0, <2>1, <2>2, UntouchedAreKept, MarkedAreKept DEF DocumentsKept
  <2>4. CallsFaithful'
    <3>1. CallFaithful(Idle)'
      BY DEF CallFaithful, Idle
    <3> QED
      BY <1>0, <2>1, <2>3, <3>1, GotoKeepsFaith
  <2> QED
    BY <2>1, <2>3, <2>4, NewIsEnough
<1> QED
  BY <1>3, <1>4, <1>5, <1>6

LEMMA FaithOfOthers ==
  ASSUME IInv, TInv',
         \/ \E c \in Client : Refuse(c) \/ Crash(c)
         \/ \E cur \in Currency : SetHome(cur)
         \/ \E i \in UNION {DOMAIN requests, DOMAIN rfqs, DOMAIN quotations, DOMAIN orders} :
               Delete(i)
  PROVE  IInv'
<1>0. TInv /\ RowTypes /\ CallTypes /\ CallsFaithful
  BY PointByPoint DEF TInv
<1>1. ASSUME NEW c \in Client, Refuse(c) \/ Crash(c) PROVE IInv'
  <2>1. CallFaithful(Idle)
    BY DEF CallFaithful, Idle
  <2> QED
    BY <1>1, <2>1, QuietMove DEF Refuse, Crash
<1>2. ASSUME NEW cur \in Currency, SetHome(cur) PROVE IInv'
  <2>1. home' = cur /\ UNCHANGED <<requests, rfqs, quotations, orders, announced>>
    BY <1>2 DEF SetHome, rows
  <2>2. DocumentsKept
    BY <2>1, UntouchedAreKept DEF DocumentsKept
  <2>3. ASSUME NEW c \in Client PROVE CallFaithful(call[c])'
    <3>1. PICK k : k = call[c]
      OBVIOUS
    <3>2. CallFaithful(k) /\ k \in Call
      BY <1>0, <3>1 DEF CallsFaithful, CallTypes
    <3>3. CASE k.at \notin {"resolve", "insert"}
      <4>1. call'[c] = k
        BY <1>0, <1>2, <3>1, <3>3, HomesWiden
      <4> QED
        BY <2>1, <3>2, <3>3, <4>1 DEF CallFaithful
    <3>4. CASE k.at \in {"resolve", "insert"}
      <4>1. PICK o, r : o = k.order /\ r = [o EXCEPT !.homes = @ \union {cur}]
        OBVIOUS
      <4>2. o \in NewOrder
        BY <3>2, <3>4, <4>1, CallShape
      <4>3. /\ r.homes = o.homes \union {cur}
            /\ r.currency = o.currency /\ r.rate = o.rate /\ r.supplied = o.supplied
            /\ r.converted = o.converted /\ r.quotation = o.quotation
            /\ r.supplier = o.supplier /\ r.lines = o.lines
        BY <4>1, <4>2 DEF NewOrder
      <4>4. call'[c] = [at |-> k.at, order |-> r]
        BY <1>0, <1>2, <3>1, <3>4, <4>1, HomesWiden
      <4>5. o.converted => HasFrom(r)' /\ Priceable(r.lines)
        BY <2>1, <3>2, <3>4, <4>1, <4>3 DEF CallFaithful, HasFrom
      <4>6. k.at = "insert" => RateSettled(r)
        BY <3>2, <4>1, <4>3 DEF CallFaithful, RateSettled
      <4>7. CallFaithful([at |-> k.at, order |-> r])'
        BY <2>1, <3>4, <4>3, <4>5, <4>6 DEF CallFaithful
      <4> QED
        BY <4>4, <4>7
    <3> QED
      BY <3>3, <3>4
  <2>4. CallsFaithful'
    BY <2>3 DEF CallsFaithful
  <2> QED
    BY <2>1, <2>2, <2>4, NewIsEnough
<1>3. ASSUME NEW i, Delete(i) PROVE IInv'
  <2>1. UNCHANGED <<home, call, announced>>
    BY <1>3 DEF Delete
  <2>2. DocumentsKept /\ DOMAIN rfqs' = DOMAIN rfqs /\ DOMAIN quotations' = DOMAIN quotations
        /\ DOMAIN orders' = DOMAIN orders
    BY <1>0, <1>3, UntouchedAreKept, MarkedAreKept DEF DocumentsKept, Delete, Found
  <2>3. CallsFaithful'
    BY <1>0, <2>1, <2>2, IdleKeepsFaith
  <2> QED
    BY <2>1, <2>2, <2>3, NewIsEnough
<1> QED
  BY <1>1, <1>2, <1>3

LEMMA FaithStep == IInv /\ [Next]_vars => IInv'
<1> SUFFICES ASSUME IInv, [Next]_vars PROVE IInv'
  OBVIOUS
<1>0. TInv /\ TInv'
  BY TypeStep, PointByPoint
<1>1. CASE UNCHANGED vars
  <2>1. UNCHANGED <<requests, rfqs, quotations, orders, home, call, announced>>
    BY <1>1 DEF vars
  <2>2. DocumentsKept
    BY <2>1, UntouchedAreKept DEF DocumentsKept
  <2>3. CallsFaithful'
    BY <1>0, <2>1, <2>2, PointByPoint, IdleKeepsFaith
  <2> QED
    BY <1>0, <2>1, <2>2, <2>3, NewIsEnough
<1>2. CASE \E c \in Client : Begin(c) \/ Step(c) \/ Crash(c)
  BY <1>0, <1>2, FaithOfReads, FaithOfRates, FaithOfOrders, FaithOfRequests, FaithOfQuotations,
     FaithOfOthers DEF Step
<1>3. CASE \E cur \in Currency : SetHome(cur)
  BY <1>0, <1>3, FaithOfOthers
<1>4. CASE \E n \in NumberOf["request"], lines \in Wants : CreateRequest(n, lines)
  BY <1>0, <1>4, FaithOfRequests
<1>5. CASE \E n \in NumberOf["quotation"], offer \in Offers :
              DraftQuotation(n, offer) \/ \E r \in 0 .. Len(rfqs) : CreateQuotation(n, r, offer)
  BY <1>0, <1>5, FaithOfQuotations
<1>6. CASE \E r \in DOMAIN rfqs : CancelRfq(r)
  BY <1>0, <1>6, FaithOfRequests
<1>7. CASE \E i \in UNION {DOMAIN requests, DOMAIN rfqs, DOMAIN quotations, DOMAIN orders} :
              Delete(i)
  BY <1>0, <1>7, FaithOfOthers
<1> QED
  BY <1>1, <1>2, <1>3, <1>4, <1>5, <1>6, <1>7 DEF Next

LEMMA FaithInit == Init => IInv
<1> SUFFICES ASSUME Init PROVE IInv
  OBVIOUS
<1>1. TInv
  BY TypeInit
<1>2. /\ requests = <<>> /\ rfqs = <<>> /\ quotations = <<>> /\ orders = <<>>
      /\ announced = {} /\ \A c \in Client : call[c].at = "idle"
  BY DEF Init, Idle
<1>3. CallsFaithful
  BY <1>2 DEF CallsFaithful, CallFaithful
<1> QED
  BY <1>1, <1>2, <1>3, PointByPoint DEF RatesStored

LEMMA FaithAlways == Spec => []IInv
<1>1. Init => IInv
  BY FaithInit
<1>2. IInv /\ [Next]_vars => IInv'
  BY FaithStep
<1> QED
  BY <1>1, <1>2, PTL DEF Spec

\* A converted order has the supplier and the lines of a quotation that was
\* submitted, and its amounts, tax and total are what its lines are worth, for any
\* number of lines and any rates (convert_supplier_quotation_to_po, price_document).
THEOREM OrdersAgree == Spec => []ConvertedOrdersAgree
<1>1. IInv => ConvertedOrdersAgree
  BY DEF IInv, RowsFaithful, HasFrom, ConvertedOrdersAgree
<1> QED
  BY <1>1, FaithAlways, PTL

\* No order is written at a rate nobody chose, however often the home currency
\* changes between the statements of its creation (resolve_rate).
THEOREM RatesAreChosen == Spec => []RateNeverSilent
<1>1. IInv => RateNeverSilent
  BY DEF IInv
<1> QED
  BY <1>1, FaithAlways, PTL

\* Whoever hears of a document finds it committed, with its source, and an RFQ's
\* request ordered (the publish after the commit).
THEOREM EventsAreTrue == Spec => []EventsFollowCommits
<1>1. IInv => EventsFollowCommits
  BY DEF IInv
<1> QED
  BY <1>1, FaithAlways, PTL

-----------------------------------------------------------------------------
(* The funnel implements the chain of documents.                           *)

RequestView(row) == [lines |-> row.lines, ordered |-> row.status = "ordered"]
RfqView(row) == [request |-> row.request, lines |-> row.lines]
QuotationView(row) ==
  [rfq |-> IF row.answers THEN row.rfq ELSE 0, supplier |-> row.supplier,
   currency |-> row.currency, lines |-> row.lines, ordered |-> row.status = "ordered"]
OrderView(row) ==
  [quotation |-> IF row.converted THEN row.quotation ELSE 0, supplier |-> row.supplier,
   currency |-> row.currency, lines |-> row.lines]

RequestViews == [m \in DOMAIN requests |-> RequestView(requests[m])]
RfqViews == [r \in DOMAIN rfqs |-> RfqView(rfqs[r])]
QuotationViews == [q \in DOMAIN quotations |-> QuotationView(quotations[q])]
OrderViews == [o \in DOMAIN orders |-> OrderView(orders[o])]

\* view is a function on the rows of the table.
IsView(view, table) == view = [i \in DOMAIN table |-> view[i]]
IsAppended(new, old, last) == new = Append(old, last)

\* The view of a table is a sequence as long as the table.
LEMMA ViewIsSeq ==
  ASSUME NEW S, NEW table \in Seq(S), NEW view, IsView(view, table)
  PROVE  /\ view \in Seq({view[i] : i \in DOMAIN table})
         /\ Len(view) = Len(table) /\ DOMAIN view = DOMAIN table
<1>1. Len(table) \in Nat /\ DOMAIN table = 1 .. Len(table)
  BY LenProperties
<1>2. view \in [1 .. Len(table) -> {view[i] : i \in DOMAIN table}]
  BY <1>1 DEF IsView
<1> QED
  BY <1>1, <1>2, FunctionIsSeq

\* A table that grows by a row has a view that grows by a document.
LEMMA ViewGrows ==
  ASSUME NEW S, NEW old \in Seq(S), NEW row, NEW oldView, NEW newView,
         IsView(oldView, old), IsView(newView, Append(old, row)),
         \A i \in DOMAIN old : newView[i] = oldView[i]
  PROVE  /\ Chain!Grows(oldView, newView)
         /\ Chain!LastOf(newView) = newView[Len(old) + 1]
         /\ IsAppended(newView, oldView, newView[Len(old) + 1])
<1>1. PICK n, new : n = Len(old) + 1 /\ new = Append(old, row)
  OBVIOUS
<1>2. /\ Len(new) = n /\ DOMAIN new = DOMAIN old \union {n}
      /\ Len(old) \in Nat /\ DOMAIN old = 1 .. Len(old) /\ n \in Nat
  BY <1>1, AppendAny, LenProperties
<1> DEFINE T == {newView[i] : i \in DOMAIN new}
<1>3. newView = [i \in DOMAIN new |-> newView[i]] /\ oldView = [i \in DOMAIN old |-> oldView[i]]
  BY <1>1 DEF IsView
<1>4. DOMAIN new = 1 .. n
  BY <1>1, <1>2
<1>5. /\ \A i \in DOMAIN new : newView[i] \in T
      /\ \A i \in DOMAIN old : oldView[i] \in T
  BY <1>2
<1> HIDE DEF T
<1>6. newView \in [1 .. n -> T]
  BY <1>3, <1>4, <1>5
<1>7. oldView \in [1 .. Len(old) -> T]
  BY <1>2, <1>3, <1>5
<1>8. newView \in Seq(T) /\ Len(newView) = n
  BY <1>2, <1>6, FunctionIsSeq
<1>9. oldView \in Seq(T) /\ Len(oldView) = Len(old)
  BY <1>2, <1>7, FunctionIsSeq
<1>10. PICK last : last = newView[n]
  OBVIOUS
<1>11. last \in T /\ DOMAIN oldView = DOMAIN old
  BY <1>2, <1>3, <1>5, <1>10
<1>12. PICK app : app = Append(oldView, last)
  OBVIOUS
<1>13. /\ app \in Seq(T) /\ Len(app) = n /\ app[n] = last
       /\ \A i \in DOMAIN old : app[i] = oldView[i]
  BY <1>1, <1>9, <1>11, <1>12, AppendRow
<1>14. \A i \in 1 .. Len(newView) : newView[i] = app[i]
  BY <1>2, <1>4, <1>8, <1>10, <1>13
<1>15. newView = app
  BY <1>8, <1>13, <1>14, SeqEqual
<1>16. Len(newView) = Len(oldView) + 1 /\ \A i \in DOMAIN oldView : newView[i] = oldView[i]
  BY <1>1, <1>8, <1>9, <1>11
<1> QED
  BY <1>1, <1>8, <1>10, <1>12, <1>15, <1>16 DEF IsAppended, Chain!Grows, Chain!LastOf

\* What the chain knows of the documents of a step that changes none of it.
LEMMA StutterView ==
  ASSUME TInv, DocumentsKept,
         DOMAIN requests' = DOMAIN requests, DOMAIN rfqs' = DOMAIN rfqs,
         DOMAIN quotations' = DOMAIN quotations, DOMAIN orders' = DOMAIN orders,
         \A m \in DOMAIN requests : requests'[m].status = requests[m].status,
         \A q \in DOMAIN quotations : quotations'[q].status = quotations[q].status
  PROVE  UNCHANGED Chain!chainVars
<1>1. RequestViews' = RequestViews
  BY DEF RequestViews, RequestView, DocumentsKept, RequestsKept
<1>2. RfqViews' = RfqViews
  BY DEF RfqViews, RfqView, DocumentsKept, RfqsKept
<1>3. QuotationViews' = QuotationViews
  BY DEF QuotationViews, QuotationView, DocumentsKept, QuotationsKept, QuotationKept
<1>4. OrderViews' = OrderViews
  <2>1. ASSUME NEW o \in DOMAIN orders PROVE OrderView(orders'[o]) = OrderView(orders[o])
    <3>1. orders[o] \in OrderRow
      BY TableRow DEF TInv, RowTypes
    <3> QED
      BY <3>1 DEF DocumentsKept, OrdersKept, OrderView, OrderRow
  <2> QED
    BY <2>1 DEF OrderViews
<1> QED
  BY <1>1, <1>2, <1>3, <1>4 DEF Chain!chainVars, RequestViews, RfqViews, QuotationViews,
     OrderViews, RequestView, RfqView, QuotationView, OrderView

\* A request is seen as ordered when its status says so.
LEMMA DraftIsOpen ==
  ASSUME NEW row, row.status # "ordered" PROVE ~RequestView(row).ordered
BY DEF RequestView

LEMMA SetOrdered ==
  ASSUME NEW lines, NEW ordered, NEW mark
  PROVE  [[lines |-> lines, ordered |-> ordered] EXCEPT !.ordered = mark]
           = [lines |-> lines, ordered |-> mark]
OBVIOUS

LEMMA RaiseRequestStep ==
  ASSUME TInv, TInv', NEW n, NEW lines, CreateRequest(n, lines)
  PROVE  Chain!RaiseRequest
<1>1. PICK row : row = [number |-> n, status |-> "draft", lines |-> lines, deleted |-> FALSE]
  OBVIOUS
<1>2. requests' = Append(requests, row) /\ UNCHANGED <<rfqs, quotations, orders>>
  BY <1>1 DEF CreateRequest
<1>3. requests \in Seq(RequestRow) /\ requests' \in Seq(RequestRow)
  BY DEF TInv, RowTypes
<1>4. /\ DOMAIN requests' = DOMAIN requests \union {Len(requests) + 1}
      /\ requests'[Len(requests) + 1] = row
      /\ \A i \in DOMAIN requests : requests'[i] = requests[i]
  BY <1>2, <1>3, AppendAny
<1>5. PICK old, new, oldView, newView :
        old = requests /\ new = requests' /\ oldView = RequestViews /\ newView = RequestViews'
  OBVIOUS
<1>6. /\ IsView(oldView, old) /\ IsView(newView, new)
      /\ \A i \in DOMAIN old : newView[i] = oldView[i]
      /\ newView[Len(old) + 1] = RequestView(row)
  BY <1>4, <1>5 DEF RequestViews, IsView
<1>7. old \in Seq(RequestRow) /\ IsView(newView, Append(old, row))
  BY <1>2, <1>3, <1>5, <1>6
<1>8. Chain!Grows(oldView, newView) /\ Chain!LastOf(newView) = newView[Len(old) + 1]
  BY <1>6, <1>7, ViewGrows
<1>9. ~ newView[Len(old) + 1].ordered
  <2>1. row.status # "ordered"
    BY <1>1
  <2> QED
    BY <1>6, <2>1, DraftIsOpen
<1>10. Chain!Grows(RequestViews, RequestViews') /\ ~ Chain!LastOf(RequestViews').ordered
  BY <1>5, <1>8, <1>9
<1> QED
  BY <1>2, <1>10 DEF Chain!RaiseRequest, RequestViews, RequestView

LEMMA AskForStep ==
  ASSUME TInv, TInv', NEW c \in Client, IssueRfq(c)
  PROVE  \E m \in DOMAIN RequestViews : Chain!AskFor(m)
<1>1. PICK m, row : m = call[c].source /\ row = RfqOf(c)
  OBVIOUS
<1>2. /\ rfqs' = Append(rfqs, row) /\ requests' = [requests EXCEPT ![m].status = "ordered"]
      /\ UNCHANGED <<quotations, orders>>
  BY <1>1 DEF IssueRfq
<1>3. m \in DOMAIN requests
  BY <1>1 DEF IssueRfq, At, TInv, CallTypes, CallsNameRows, NamesRow
<1>4. rfqs \in Seq(RfqRow) /\ rfqs' \in Seq(RfqRow) /\ requests[m] \in RequestRow
  BY <1>3, TableRow DEF TInv, RowTypes
<1>5. /\ DOMAIN rfqs' = DOMAIN rfqs \union {Len(rfqs) + 1}
      /\ rfqs'[Len(rfqs) + 1] = row
      /\ \A i \in DOMAIN rfqs : rfqs'[i] = rfqs[i]
  BY <1>2, <1>4, AppendAny
<1>6. PICK old, new, oldView, newView :
        old = rfqs /\ new = rfqs' /\ oldView = RfqViews /\ newView = RfqViews'
  OBVIOUS
<1>7. /\ IsView(oldView, old) /\ IsView(newView, new)
      /\ \A i \in DOMAIN old : newView[i] = oldView[i]
      /\ newView[Len(old) + 1] = RfqView(row)
  BY <1>5, <1>6 DEF RfqViews, IsView
<1>8. newView = Append(oldView, RfqView(row))
  <2>1. /\ old \in Seq(RfqRow) /\ IsView(oldView, old) /\ IsView(newView, Append(old, row))
        /\ \A i \in DOMAIN old : newView[i] = oldView[i]
    BY <1>2, <1>4, <1>6, <1>7
  <2>2. IsAppended(newView, oldView, newView[Len(old) + 1])
    BY <2>1, ViewGrows
  <2> QED
    BY <1>7, <2>2 DEF IsAppended
<1>9. RfqViews' = Append(RfqViews, [request |-> m, lines |-> RequestViews[m].lines])
  BY <1>1, <1>3, <1>6, <1>8 DEF RfqView, RfqOf, RequestViews, RequestView
<1>10. RequestViews' = [RequestViews EXCEPT ![m].ordered = TRUE]
  <2>1. RequestView(requests'[m]) = [RequestView(requests[m]) EXCEPT !.ordered = TRUE]
    <3>1. requests'[m].lines = requests[m].lines /\ requests'[m].status = "ordered"
      BY <1>2, <1>3, <1>4 DEF RequestRow
    <3>2. RequestView(requests'[m]) = [lines |-> requests[m].lines, ordered |-> TRUE]
      BY <3>1, Zenon DEF RequestView
    <3>3. PICK b : RequestView(requests[m]) = [lines |-> requests[m].lines, ordered |-> b]
      BY Zenon DEF RequestView
    <3>4. ASSUME NEW mark
          PROVE  [RequestView(requests[m]) EXCEPT !.ordered = mark]
                    = [lines |-> requests[m].lines, ordered |-> mark]
      BY <3>3, SetOrdered
    <3> QED
      BY <3>2, <3>4, Zenon
  <2>2. \A i \in DOMAIN requests \ {m} : requests'[i] = requests[i]
    BY <1>2
  <2>3. DOMAIN requests' = DOMAIN requests
    BY <1>2
  <2> QED
    BY <1>3, <2>1, <2>2, <2>3 DEF RequestViews
<1>11. m \in DOMAIN RequestViews
  BY <1>3 DEF RequestViews
<1>12. Chain!AskFor(m)
  BY <1>2, <1>9, <1>10 DEF Chain!AskFor, RequestViews, RequestView, RfqViews, RfqView
<1> QED
  BY <1>11, <1>12

\* A quotation is entered, or answers all lines of an RFQ.
LEMMA QuoteStep ==
  ASSUME TInv, TInv', NEW row, quotations' = Append(quotations, row),
         UNCHANGED <<requests, rfqs, orders>>, row.status # "ordered",
         \/ ~row.answers
         \/ /\ row.rfq \in DOMAIN rfqs
            /\ Chain!WantedOf(row.lines) = rfqs[row.rfq].lines
  PROVE  Chain!Quote
<1>1. quotations \in Seq(QuotationRow) /\ quotations' \in Seq(QuotationRow)
  BY DEF TInv, RowTypes
<1>2. /\ DOMAIN quotations' = DOMAIN quotations \union {Len(quotations) + 1}
      /\ quotations'[Len(quotations) + 1] = row
      /\ \A i \in DOMAIN quotations : quotations'[i] = quotations[i]
  BY <1>1, AppendAny
<1>3. row \in QuotationRow
  BY <1>1, <1>2, TableRow
<1>4. PICK old, new, oldView, newView :
        /\ old = quotations /\ new = quotations'
        /\ oldView = QuotationViews /\ newView = QuotationViews'
  OBVIOUS
<1>5. /\ IsView(oldView, old) /\ IsView(newView, new)
      /\ \A i \in DOMAIN old : newView[i] = oldView[i]
      /\ newView[Len(old) + 1] = QuotationView(row)
  BY <1>2, <1>4 DEF QuotationViews, IsView
<1>6. Chain!Grows(oldView, newView) /\ Chain!LastOf(newView) = QuotationView(row)
  <2>1. old \in Seq(QuotationRow) /\ IsView(newView, Append(old, row))
    BY <1>1, <1>4, <1>5
  <2>2. Chain!Grows(oldView, newView) /\ Chain!LastOf(newView) = newView[Len(old) + 1]
    BY <1>5, <2>1, ViewGrows
  <2> QED
    BY <1>5, <2>2
<1>7. PICK last : last = QuotationView(row)
  OBVIOUS
<1>8. /\ ~ last.ordered
      /\ \/ last.rfq = 0
         \/ last.rfq \in DOMAIN RfqViews /\ Chain!WantedOf(last.lines) = RfqViews[last.rfq].lines
  BY <1>3, <1>7 DEF QuotationView, QuotationRow, RfqViews, RfqView
<1>9. Chain!Grows(QuotationViews, QuotationViews') /\ Chain!LastOf(QuotationViews') = last
  BY <1>4, <1>6, <1>7
<1> QED
  BY <1>8, <1>9 DEF Chain!Quote, QuotationViews, QuotationView, RfqViews, RfqView

\* What a conversion quotes is what its RFQ wants.
LEMMA QuotesWhatIsWanted ==
  ASSUME NEW lines \in WantedLines, NEW rates \in [Item -> Int]
  PROVE  Chain!WantedOf(StoredLines(AtRates(lines, rates))) = lines
<1>1. PICK quoted : quoted = AtRates(lines, rates)
  OBVIOUS
<1>2. PICK stored : stored = StoredLines(quoted)
  OBVIOUS
<1>3. quoted \in PricedLines /\ DOMAIN quoted = DOMAIN lines
  BY <1>1, AtRatesType
<1>4. DOMAIN stored = DOMAIN lines
      /\ \A i \in DOMAIN lines : /\ stored[i].item = quoted[i].item
                                 /\ stored[i].quantity = quoted[i].quantity
  BY <1>2, <1>3, StoredLinesType
<1>5. \A i \in DOMAIN lines : quoted[i].item = lines[i].item /\ quoted[i].quantity = lines[i].quantity
  BY <1>1 DEF AtRates
<1>6. PICK wanted : wanted = Chain!WantedOf(stored)
  OBVIOUS
<1>7. wanted = [i \in DOMAIN lines |-> [item |-> stored[i].item, quantity |-> stored[i].quantity]]
  BY <1>4, <1>6 DEF Chain!WantedOf
<1>8. /\ DOMAIN lines = 1 .. Len(lines) /\ Len(lines) \in Nat
      /\ \A i \in DOMAIN lines : lines[i] \in [item : Item, quantity : Int]
      /\ lines \in Seq([item : Item, quantity : Int])
  BY TableRow DEF WantedLines
<1>9. ASSUME NEW i \in DOMAIN lines PROVE wanted[i] = lines[i]
  <2>1. lines[i] \in [item : Item, quantity : Int]
    BY <1>8
  <2>2. wanted[i] = [item |-> lines[i].item, quantity |-> lines[i].quantity]
    BY <1>4, <1>5, <1>7
  <2> QED
    BY <2>1, <2>2
<1>10. wanted = [i \in DOMAIN lines |-> wanted[i]] /\ lines = [i \in DOMAIN lines |-> lines[i]]
  <2>1. lines \in [1 .. Len(lines) -> [item : Item, quantity : Int]]
    BY <1>8, LenProperties
  <2> QED
    BY <1>7, <1>8, <2>1
<1>11. wanted = lines
  BY <1>9, <1>10
<1> QED
  BY <1>1, <1>2, <1>6, <1>11

LEMMA PlaceOrderStep ==
  ASSUME IInv, IInv', NEW c \in Client, InsertOrder(c)
  PROVE  Chain!PlaceOrder
<1>1. PICK row : row = OrderRowOf(call[c].order)
  OBVIOUS
<1>2. orders' = Append(orders, row) /\ UNCHANGED <<requests, rfqs, quotations>>
  BY <1>1 DEF InsertOrder
<1>3. orders \in Seq(OrderRow) /\ orders' \in Seq(OrderRow)
  BY DEF IInv, TInv, RowTypes
<1>4. /\ DOMAIN orders' = DOMAIN orders \union {Len(orders) + 1}
      /\ orders'[Len(orders) + 1] = row
      /\ \A i \in DOMAIN orders : orders'[i] = orders[i]
  BY <1>2, <1>3, AppendAny
<1>5. row \in OrderRow
  BY <1>3, <1>4, TableRow
<1>6. row.converted => HasFrom(row)
  <2>1. row.converted => HasFrom(row)'
    BY <1>4 DEF IInv, RowsFaithful
  <2>2. HasFrom(row)' => HasFrom(row)
    BY <1>2 DEF HasFrom
  <2> QED
    BY <2>1, <2>2
<1>7. PICK old, new, oldView, newView :
        old = orders /\ new = orders' /\ oldView = OrderViews /\ newView = OrderViews'
  OBVIOUS
<1>8. /\ IsView(oldView, old) /\ IsView(newView, new)
      /\ \A i \in DOMAIN old : newView[i] = oldView[i]
      /\ newView[Len(old) + 1] = OrderView(row)
  BY <1>4, <1>7 DEF OrderViews, IsView
<1>9. Chain!Grows(oldView, newView) /\ Chain!LastOf(newView) = OrderView(row)
  <2>1. old \in Seq(OrderRow) /\ IsView(newView, Append(old, row))
    BY <1>2, <1>3, <1>7, <1>8
  <2>2. Chain!Grows(oldView, newView) /\ Chain!LastOf(newView) = newView[Len(old) + 1]
    BY <1>8, <2>1, ViewGrows
  <2> QED
    BY <1>8, <2>2
<1>10. PICK last : last = OrderView(row)
  OBVIOUS
<1>11. \/ last.quotation = 0
       \/ /\ last.quotation \in DOMAIN QuotationViews
          /\ last.supplier = QuotationViews[last.quotation].supplier
          /\ last.currency = QuotationViews[last.quotation].currency
          /\ last.lines = QuotationViews[last.quotation].lines
  <2>1. CASE row.converted
    <3>1. /\ last.quotation = row.quotation /\ last.supplier = row.supplier
          /\ last.currency = row.currency /\ last.lines = row.lines
      BY <1>10, <2>1 DEF OrderView
    <3>2. QuotationViews[row.quotation] = QuotationView(quotations[row.quotation])
          /\ row.quotation \in DOMAIN QuotationViews
      BY <1>6, <2>1 DEF HasFrom, QuotationViews
    <3>3. /\ QuotationView(quotations[row.quotation]).supplier = row.supplier
          /\ QuotationView(quotations[row.quotation]).currency = row.currency
          /\ QuotationView(quotations[row.quotation]).lines = row.lines
      BY <1>6, <2>1 DEF HasFrom, QuotationView
    <3> QED
      BY <3>1, <3>2, <3>3
  <2>2. CASE ~row.converted
    BY <1>10, <2>2 DEF OrderView
  <2> QED
    BY <2>1, <2>2
<1>12. Chain!Grows(OrderViews, OrderViews') /\ Chain!LastOf(OrderViews') = last
  BY <1>7, <1>9, <1>10
<1> QED
  BY <1>2, <1>11, <1>12 DEF Chain!PlaceOrder, QuotationViews, QuotationView, OrderViews, OrderView

LEMMA SettleStep ==
  ASSUME IInv, NEW c \in Client, MarkQuotation(c)
  PROVE  \E q \in DOMAIN QuotationViews : Chain!Settle(q)
<1>1. PICK q : q = call[c].source
  OBVIOUS
<1>2. quotations' = [quotations EXCEPT ![q].status = "ordered"]
      /\ UNCHANGED <<requests, rfqs, orders>>
  BY <1>1 DEF MarkQuotation
<1>3. q \in DOMAIN quotations
  BY <1>1 DEF MarkQuotation, At, IInv, TInv, CallTypes, CallsNameRows, NamesRow
<1>4. quotations[q] \in QuotationRow
  BY <1>3, TableRow DEF IInv, TInv, RowTypes
<1>5. \E o \in DOMAIN OrderViews : OrderViews[o].quotation = q
  <2>1. PICK o \in DOMAIN orders : orders[o].converted /\ orders[o].quotation = q
    BY <1>1 DEF MarkQuotation, At, IInv, ConversionsFaithful
  <2>2. OrderView(orders[o]).quotation = q
    BY <2>1 DEF OrderView
  <2> QED
    BY <2>1, <2>2 DEF OrderViews
<1>6. QuotationViews' = [QuotationViews EXCEPT ![q].ordered = TRUE]
  <2>1. PICK new : new = quotations'[q]
    OBVIOUS
  <2>2. /\ new.rfq = quotations[q].rfq /\ new.answers = quotations[q].answers
        /\ new.supplier = quotations[q].supplier /\ new.currency = quotations[q].currency
        /\ new.lines = quotations[q].lines /\ new.status = "ordered"
    BY <1>2, <1>3, <1>4, <2>1 DEF QuotationRow
  <2>3. PICK r, b : /\ r = IF quotations[q].answers THEN quotations[q].rfq ELSE 0
                    /\ QuotationView(quotations[q]) =
                         [rfq |-> r, supplier |-> quotations[q].supplier,
                          currency |-> quotations[q].currency, lines |-> quotations[q].lines,
                          ordered |-> b]
    BY Zenon DEF QuotationView
  <2>4. QuotationView(new) =
          [rfq |-> r, supplier |-> quotations[q].supplier,
           currency |-> quotations[q].currency, lines |-> quotations[q].lines,
           ordered |-> TRUE]
    BY <2>2, <2>3, Zenon DEF QuotationView
  <2>5. ASSUME NEW mark
        PROVE  [QuotationView(quotations[q]) EXCEPT !.ordered = mark] =
                 [rfq |-> r, supplier |-> quotations[q].supplier,
                  currency |-> quotations[q].currency, lines |-> quotations[q].lines,
                  ordered |-> mark]
    BY <2>3
  <2>6. QuotationView(quotations'[q]) = [QuotationView(quotations[q]) EXCEPT !.ordered = TRUE]
    BY <2>1, <2>4, <2>5, Zenon
  <2>7. \A i \in DOMAIN quotations \ {q} : quotations'[i] = quotations[i]
    BY <1>2
  <2>8. DOMAIN quotations' = DOMAIN quotations
    BY <1>2
  <2> QED
    BY <1>3, <2>6, <2>7, <2>8 DEF QuotationViews
<1>7. q \in DOMAIN QuotationViews
  BY <1>3 DEF QuotationViews
<1>8. Chain!Settle(q)
  BY <1>2, <1>5, <1>6 DEF Chain!Settle, OrderViews, OrderView, QuotationViews, QuotationView
<1> QED
  BY <1>7, <1>8

LEMMA QuoteSteps ==
  ASSUME TInv, TInv',
         \/ \E n \in NumberOf["quotation"], offer \in Offers :
               DraftQuotation(n, offer) \/ \E r \in 0 .. Len(rfqs) : CreateQuotation(n, r, offer)
         \/ \E c \in Client : CommitQuotation(c)
  PROVE  Chain!Quote
<1>1. ASSUME NEW n, NEW offer, DraftQuotation(n, offer) PROVE Chain!Quote
  <2>1. PICK row : row = [SubmittedQuotation(n, 0, FALSE, offer.supplier, CurrencyOr(offer, Idr),
                                             WithoutMethods(offer.lines)) EXCEPT !.status = "draft"]
    OBVIOUS
  <2>2. row.status = "draft" /\ ~row.answers
    BY <2>1 DEF SubmittedQuotation
  <2> QED
    BY <1>1, <2>1, <2>2, QuoteStep DEF DraftQuotation
<1>2. ASSUME NEW n, NEW offer, NEW r, CreateQuotation(n, r, offer) PROVE Chain!Quote
  <2>1. PICK row : row = SubmittedQuotation(n, r, FALSE, offer.supplier, CurrencyOr(offer, Idr),
                                            WithoutMethods(offer.lines))
    OBVIOUS
  <2>2. row.status = "submitted" /\ ~row.answers
    BY <2>1 DEF SubmittedQuotation
  <2> QED
    BY <1>2, <2>1, <2>2, QuoteStep DEF CreateQuotation
<1>3. ASSUME NEW c \in Client, CommitQuotation(c) PROVE Chain!Quote
  <2>1. PICK row : row = SubmittedQuotation(call[c].number, call[c].source, TRUE,
                                            call[c].supplier, Idr, QuotedLines(c))
    OBVIOUS
  <2>2. /\ call[c].source \in DOMAIN rfqs /\ call[c].rates \in [Item -> Int]
    BY <1>3, CallShape DEF TInv, CommitQuotation, At, CallTypes, CallsNameRows, NamesRow
  <2>3. rfqs[call[c].source].lines \in WantedLines
    <3>1. rfqs[call[c].source] \in RfqRow
      BY <2>2, TableRow DEF TInv, RowTypes
    <3> QED
      BY <3>1 DEF RfqRow
  <2>4. row.status = "submitted" /\ row.rfq = call[c].source
        /\ row.lines = StoredLines(AtRates(rfqs[call[c].source].lines, call[c].rates))
    BY <2>1 DEF SubmittedQuotation, QuotedLines
  <2>5. Chain!WantedOf(row.lines) = rfqs[row.rfq].lines
    BY <2>2, <2>3, <2>4, QuotesWhatIsWanted
  <2>6. quotations' = Append(quotations, row) /\ UNCHANGED <<requests, rfqs, orders>>
    BY <1>3, <2>1 DEF CommitQuotation
  <2> QED
    BY <2>2, <2>4, <2>5, <2>6, QuoteStep
<1> QED
  BY <1>1, <1>2, <1>3

\* Every other step is one the chain does not see.
LEMMA StutterSteps ==
  ASSUME TInv, DocumentsKept,
         \/ UNCHANGED rows
         \/ \E r \in DOMAIN rfqs : CancelRfq(r)
         \/ \E i : Delete(i)
  PROVE  UNCHANGED Chain!chainVars
<1>0. RowTypes
  BY DEF TInv
<1>1. CASE UNCHANGED rows
  BY <1>1, StutterView DEF rows
<1>2. ASSUME NEW r \in DOMAIN rfqs, CancelRfq(r) PROVE UNCHANGED Chain!chainVars
  BY <1>2, StutterView DEF CancelRfq
<1>3. ASSUME NEW i, Delete(i) PROVE UNCHANGED Chain!chainVars
  <2>1. CASE requests' = [requests EXCEPT ![i].deleted = TRUE] /\ i \in DOMAIN requests
             /\ UNCHANGED <<rfqs, quotations, orders>>
    <3>1. requests[i] \in RequestRow
      BY <1>0, <2>1, TableRow DEF RowTypes
    <3>2. \A m \in DOMAIN requests : requests'[m].status = requests[m].status
      BY <2>1, <3>1 DEF RequestRow
    <3> QED
      BY <2>1, <3>2, StutterView
  <2>2. CASE rfqs' = [rfqs EXCEPT ![i].deleted = TRUE] /\ UNCHANGED <<requests, quotations, orders>>
    BY <2>2, StutterView
  <2>3. CASE quotations' = [quotations EXCEPT ![i].deleted = TRUE] /\ i \in DOMAIN quotations
             /\ UNCHANGED <<requests, rfqs, orders>>
    <3>1. quotations[i] \in QuotationRow
      BY <1>0, <2>3, TableRow DEF RowTypes
    <3>2. \A q \in DOMAIN quotations : quotations'[q].status = quotations[q].status
      BY <2>3, <3>1 DEF QuotationRow
    <3> QED
      BY <2>3, <3>2, StutterView
  <2>4. CASE orders' = [orders EXCEPT ![i].deleted = TRUE] /\ UNCHANGED <<requests, rfqs, quotations>>
    BY <2>4, StutterView
  <2> QED
    BY <1>3, <2>1, <2>2, <2>3, <2>4 DEF Delete, Found
<1> QED
  BY <1>1, <1>2, <1>3

LEMMA ChainStep == IInv /\ IInv' /\ [Next]_vars => [Chain!ChainNext]_Chain!chainVars
<1> SUFFICES ASSUME IInv, IInv', [Next]_vars
             PROVE  Chain!ChainNext \/ UNCHANGED Chain!chainVars
  OBVIOUS
<1>0. TInv /\ TInv' /\ DocumentsKept
  BY KeptStep DEF IInv
<1>1. CASE UNCHANGED vars
  <2>1. UNCHANGED rows
    BY <1>1 DEF vars, rows
  <2> QED
    BY <1>0, <2>1, StutterSteps
<1>2. ASSUME NEW c \in Client, Begin(c) \/ Step(c) \/ Crash(c)
      PROVE  Chain!ChainNext \/ UNCHANGED Chain!chainVars
  <2>1. CASE Begin(c) \/ ResolveCurrency(c) \/ Refuse(c) \/ Crash(c)
    <3>1. UNCHANGED rows
      BY <2>1 DEF Begin, ReadRequest, ReadRfq, ReadQuotation, CreateOrder, ResolveCurrency,
                  Refuse, Crash
    <3> QED
      BY <1>0, <3>1, StutterSteps
  <2>2. CASE IssueRfq(c)
    <3>1. \E m \in DOMAIN RequestViews : Chain!AskFor(m)
      BY <1>0, <2>2, AskForStep
    <3> QED
      BY <3>1 DEF Chain!ChainNext, RequestViews, RequestView
  <2>3. CASE CommitQuotation(c)
    BY <1>0, <2>3, QuoteSteps DEF Chain!ChainNext
  <2>4. CASE InsertOrder(c)
    BY <2>4, PlaceOrderStep DEF Chain!ChainNext
  <2>5. CASE MarkQuotation(c)
    <3>1. \E q \in DOMAIN QuotationViews : Chain!Settle(q)
      BY <2>5, SettleStep
    <3> QED
      BY <3>1 DEF Chain!ChainNext, QuotationViews, QuotationView
  <2> QED
    BY <1>2, <2>1, <2>2, <2>3, <2>4, <2>5 DEF Step
<1>3. ASSUME NEW cur \in Currency, SetHome(cur) PROVE UNCHANGED Chain!chainVars
  <2>1. UNCHANGED rows
    BY <1>3 DEF SetHome
  <2> QED
    BY <1>0, <2>1, StutterSteps
<1>4. ASSUME NEW n \in NumberOf["request"], NEW lines \in Wants, CreateRequest(n, lines)
      PROVE  Chain!ChainNext
  BY <1>0, <1>4, RaiseRequestStep DEF Chain!ChainNext
<1>5. CASE \E n \in NumberOf["quotation"], offer \in Offers :
              DraftQuotation(n, offer) \/ \E r \in 0 .. Len(rfqs) : CreateQuotation(n, r, offer)
  BY <1>0, <1>5, QuoteSteps DEF Chain!ChainNext
<1>6. ASSUME NEW r \in DOMAIN rfqs, CancelRfq(r) PROVE UNCHANGED Chain!chainVars
  BY <1>0, <1>6, StutterSteps
<1>7. ASSUME NEW i, Delete(i) PROVE UNCHANGED Chain!chainVars
  BY <1>0, <1>7, StutterSteps
<1> QED
  BY <1>1, <1>2, <1>3, <1>4, <1>5, <1>6, <1>7 DEF Next

LEMMA ChainInits == Init => Chain!ChainInit
<1> SUFFICES ASSUME Init PROVE Chain!ChainInit
  OBVIOUS
<1>1. ASSUME NEW view, IsView(view, <<>>) PROVE view = <<>>
  <2>1. view \in Seq({view[i] : i \in DOMAIN <<>>}) /\ Len(view) = 0
    BY <1>1, ViewIsSeq, EmptySeq
  <2> QED
    BY <2>1, EmptySeq
<1>2. /\ IsView(RequestViews, <<>>) /\ IsView(RfqViews, <<>>)
      /\ IsView(QuotationViews, <<>>) /\ IsView(OrderViews, <<>>)
  BY DEF Init, IsView, RequestViews, RfqViews, QuotationViews, OrderViews
<1>3. RequestViews = <<>> /\ RfqViews = <<>> /\ QuotationViews = <<>> /\ OrderViews = <<>>
  BY <1>1, <1>2
<1> QED
  BY <1>3 DEF Chain!ChainInit, RequestViews, RfqViews, QuotationViews, OrderViews,
     RequestView, RfqView, QuotationView, OrderView

\* Whatever the callers do at once, die in or delete, and however the settings
\* change, the documents form the abstract chain: a conversion copies the lines of
\* its source, and a source is ordered only when its successor exists.
THEOREM FunnelImplementsChain == Spec => ImplementsChain
<1>1. Init => Chain!ChainInit
  BY ChainInits
<1>2. IInv /\ IInv' /\ [Next]_vars => [Chain!ChainNext]_Chain!chainVars
  BY ChainStep
<1> QED
  BY <1>1, <1>2, FaithAlways, PTL DEF Spec, ImplementsChain, Chain!ChainSpec
=============================================================================
