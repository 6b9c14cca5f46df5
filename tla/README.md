# Verification of backbone-buying

A TLA+ model of the procure-to-pay module in `src/` (Rust, sqlx, Postgres), the
TLC runs that check it on small instances, and TLAPS proofs that carry the most
important results over to every instance. `PROJECT.json` lists runs, mutants,
findings, hazards, theorems, and for each definition the source lines it models.

## 1. The system

The module keeps the documents of a purchase in Postgres tables and changes them
through hand-written *verbs* (`src/src/application/service/buying_*.rs`), whose
SQL is in repositories (`src/src/infrastructure/persistence/`). Around them lies
generated CRUD. Three facts shape all of the behaviour:

- **Isolation is READ COMMITTED, and most verbs are not one transaction.** A
  statement that runs on the pool commits by itself. `confirm` reads the header,
  reads the settings, then writes the header: three transactions. Correctness
  rests on the WHERE clauses of the UPDATEs and on triggers.
- **Events are published in memory after the commit** (`sink.publish`), without
  an outbox. A crash in between loses them.
- **Any number of callers run at once** (HTTP handlers, event consumers, cron).

| Component | State | Operations | Interaction | Hard part |
|---|---|---|---|---|
| Order lifecycle | `status`, `locked`, `acknowledged`, `deleted_at`, `date_approve` of `purchase_orders` | confirm, approve, reset, cancel, send, lock, unlock, acknowledge, delete | reads settings; the cancel trigger reads the lines; publishes `PurchaseOrderConfirmed`, `...PendingApproval` | stale gate reads, racing entries, crash before publish |
| 3-way match | `received_qty`, `billed_qty`, `deleted_at` of `purchase_order_items` | mark_received / billed / returned / credited, set_manual_line_receipt, match_bill_lines, delete line | row locks; CHECK constraint; acts on orders in any status | lock order, deadlock, rollback, caps, fill-in-order |
| Order maturity | `receipt_status`, `invoice_status` | recompute after every watermark commit; milestones, receipt events | reads the lines, writes the header, publishes | read and write in two statements |
| Settings | `purchase_company_settings`, `supplier_reminder_settings` | upserts, reads | read by confirm, approve, reminder | threshold changing under a confirm; duplicate rows |
| Blanket agreements | `purchase_agreements`, their lines, `supplier_prices` | create, confirm, re-price, resequence, close, cancel, call-off | call-offs are purchase orders; prices are minted and retired | the granted quantity; close racing a call-off |
| Sourcing funnel | material requests, RFQs, supplier quotations | create, convert | reads a source, writes the next document and marks the source | the source is not looked at again; a quotation is marked in a transaction of its own |
| Receipt reminder | `last_reminder_on` | daily job | reads both settings tables, claims rows with SKIP LOCKED, publishes after commit | concurrent runners, verbs on the same rows, crash |
| Creation, pricing, grouping | new orders | create_purchase_order, price_document, find_open_po_for_demand | reads the home currency; called by the funnel and call-offs | rounding; the rate is settled before the insert |
| Generated CRUD | a row of any table | create, fetch, put, patch, delete, restore, empty trash | mounted only in the trusted composition; row rules, triggers and CHECKs guard it | an update is checked against the row it read, and written later |
| HTTP routes, wiring | - | one route per verb | - | none of its own |
| Event store | - | - | - | not part of the build |

What makes each correct: the lifecycle moves only along the declared edges,
never revives a deleted order, never lets an over-threshold order through
without a manager, never announces an order twice; the match never holds more
than ordered or bills more than its cap, for committed data and for what any
open transaction sees, and a request applies whole or not at all; the maturity
columns are a function of the lines; an agreement never grants more than its
quantity and no price outlives it; every document of the funnel copies its
source, and a source is advanced only behind its successor; a reminder is sent
once a day, never ahead of its stamp; a row that the generated CRUD writes obeys
its rules whatever the row has become since it was read.

## 2. Modules

| Module | Models |
|---|---|
| `LineMatch` | the lines of an order (constants), caps, CHECK constraint, row selection and the fill-in-order spread: pure operators |
| `MatchLedger` | abstract specification: the watermarks as atomic one-column changes |
| `ThreeWayMatch` | the watermark transactions, statement by statement, with row locks; implements `MatchLedger` |
| `ThreeWayMatchProofs` | its theorems |
| `OrderBand` | the five statuses and the declared moves |
| `OrderLifecycle` | the lifecycle verbs, statement by statement |
| `OrderLifecycleProofs` | its theorems |
| `OrderMaturity` | composes `MatchLedger` with the header: acknowledge, recompute, publish after every commit |
| `OrderMaturityProofs` | its theorems, after those of the ledger |
| `BlanketAgreement` | confirm, re-price, resequence, close, cancel and call-off of one agreement, with their row locks |
| `BlanketAgreementProofs` | its theorems |
| `OrderPricing` | money of a document, resolution of the currency rate, what the columns keep: pure operators |
| `SourcingChain` | abstract specification: documents that copy their sources, sources that advance behind their successors |
| `SourcingFunnel` | the creations and conversions of the funnel and of orders, statement by statement; implements `SourcingChain` |
| `SourcingFunnelProofs` | its theorems |
| `ReceiptReminder` | replicas of the job, verbs on the orders, upserts of both settings tables |
| `ReceiptReminderProofs` | its theorems |
| `EntityCatalogue` | the fourteen entities: columns, enums, payloads, forced columns, builder defaults, row rules, declared moves |
| `GeneratedCrud` | the generic writes of one table of the catalogue, against the verbs |
| `GeneratedCrudProofs` | its theorems |
| `SumFacts` | lemmas about sums over finite sets, cited by the proofs |
| `MC*` | instances and symmetry for TLC |

**ThreeWayMatch.** `tx[c]` is the open transaction of caller `c`: the request,
the part it is at, the rows it holds, and `delta`, what it has written and not
committed. `SeenReceived`/`SeenBilled` are its own view, the committed columns
plus its own writes. `LockRow` is one row of a `SELECT ... ORDER BY id FOR
UPDATE`; `ApplyPart` is the rest of `allocate` / `deallocate` / the loop body of
`match_bill_lines`, which runs under the locks and touches nothing anybody else
may touch; `Reject` is the early return that drops the transaction; `Commit`
publishes the deltas and frees the locks. `DeadlockAbort` and `ConnectionLost`
are the database's and the network's. The UPDATEs of the transactions are *not*
guarded by the CHECK constraint in the model: the invariant shows that the caps
make it superfluous there. It does guard the manual receipt, which has no other
cap. The header enters as three bands of status.

**OrderLifecycle.** `call[c].at` is the next statement of a confirm, approve or
cancel. The history variables `entered`, `announced` and the field `lax` exist
for the properties only. The UPDATE of a cancel is two steps, because its trigger
reads a second table: `CancelChecks` locks the header and reads the lines,
`CancelCommits` writes; in between no other statement writes the header
(`HeaderFree`), while bills go on. The other single-UPDATE verbs decide on the row
they lock and are one action each. Billing by others is the toggle `billedLive`.

**OrderMaturity.** The watermark transactions are the ledger's atomic steps
(justified by `TransactionsImplementLedger`); `job[c]` is the tail of the call.
`fresh` and `trusted` are history: no line changed since this call read them; nothing
has happened since the last undisturbed write that leaves the two columns behind
the lines. A call that finds no live line stops, as the code does with
`RowNotFound`. `PurchaseOrderFullyBilled` follows the same rule as
`PurchaseOrderFullyReceived` and is left out.

**BlanketAgreement.** `create_purchase_agreement` is `Init`. `call[c]` is the verb
of caller `c`: what it read on the pool (`rates`, `draws`), what the snapshot of
its last statement selected (`seen`), and what it has written and not committed
(`taken`). Three locks matter: the agreement's row, which a call-off holds FOR
SHARE and a close FOR UPDATE; the row of a line, which the UPDATE of a draw or a
re-price holds until the commit; and nothing for a resequence, whose writes touch
other columns. `price[l]` lists the live `supplier_prices` rows of a line, oldest
first. A transaction is one step where its statements can neither see nor wait
for another's: confirm (its rows are new, and the guarded UPDATE comes first),
and the part of a close after its lock. The call-off orders move by
`DeclaredMoves`, which the lifecycle verbs stay inside (run `lifecycle`);
`reopened` marks an order that a reset brought back from confirmed or cancelled.
The only way to delete an order is from cancelled, where it is not counted, so
deletion is left out. Line ids are never reused: a resequence takes new ones.

**SourcingFunnel.** A document is its position in the sequence of its kind.
`call[c]` is a caller between two statements: `ReadRequest`, `ReadRfq` and
`ReadQuotation` are the reads on the pool with their early returns, `IssueRfq`,
`CommitQuotation` and `InsertOrder` the transactions (their inserts are new rows
nobody else sees, so each is one step), `ResolveCurrency` the read of the home
currency in between, `MarkQuotation` the last statement of a conversion, on the
pool. `Refuse` is a unique index, a negative rate, a missing currency rate or an
unknown method. Sources are cancelled, deleted or entered as drafts by the
generated CRUD. Lines are never edited by a verb, so they are read with their
header. `converted`, `answers` and `homes` are history; in the code an order
entered by hand may name any quotation, and is told apart by the first.

**ReceiptReminder.** `run[r]` is a replica: gate, snapshot (`StartClaim`), claim
row by row (`Claim`: lock, or skip, and recheck of the order's columns as
Postgres does when a row changed after the snapshot), `Stamp` (all UPDATEs and
the commit: the rows are locked, so nobody sees the difference), `Publish` one
event at a time. A row of the join is a row of the claim, so an order with two
settings rows is claimed twice and LIMIT counts both. `writing[o]` is a verb's
statement that holds the row. Assumptions: a claim is over by midnight (the job
starts at seven), schedule dates do not change, settings rows are not deleted and are
inserted by the two upserts only (the generic POST of `lib.rs`, `all_crud_routes`,
which only a trusted composition mounts, could add more).

**EntityCatalogue and GeneratedCrud.** A table is a record: `...Columns` is the
entity struct with its setters, `...Payload` the DTOs, `...Forced` the conversions
from them, `...Defaults` the builder, `...Rules` the row rules of the service.
Values are cut down to what rules tell apart. `GeneratedCrud` keeps one row of one
table. `Starts` is the read and the check of an update, `Write` its statement.
`BuildAndInsert` is composing code that inserts what a builder made through the
repository, which checks no row rule. The verbs move state columns (`Verb`); their
own INSERTs and their writes of quantities and rates are not writers of the row here,
so nothing is claimed of what they store.
`GenericCrudService` is a library: whether it writes the changed columns or all of
them is left open, and both are checked. `RowCheck`, `MovesDeclared` and
`GuardsPass` are the database's. The guard on billed lines is in
`OrderLifecycle`. The CHECKs that repeat a row rule are left out, so that the
rules are shown to suffice without them.

## 3. Runs

| Run | Instance | Shows |
|---|---|---|
| `match` | 3 lines (seam/on receipt, manual/on receipt, seam/on order, two of one item), 2 callers, 9 requests | types, the match in every view, all-or-nothing, refinement of the ledger |
| `match_live` | 2 lines, 2 callers, 5 requests that lock against each other | every transaction ends |
| `match_stale_status` | same | *violation*: a bill match commits outside of purchase |
| `lifecycle` | 3 callers, 3 thresholds, 2 entries | types, deleted orders, locked orders, gate, declared moves, events |
| `lifecycle_stale_bill` | same | *violation*: a cancel commits over a bill |
| `maturity` | 2 lines (seam/on receipt, manual/on order), 2 callers, moves among draft, purchase and cancelled, crashes | types, ledger bounds, every undisturbed recompute repairs the stored statuses, and only the named events make them wrong at rest |
| `maturity_race` | 2 lines, 2 callers | *violation*, see section 6 |
| `blanket` | 2 lines of quantity 2, 2 rates, 2 orders, 2 callers, all verbs | types, draws counted and capped, no call-off stranded, one price per line at its rate |
| `blanket_stale_price` | 1 line, 1 rate | *violation*, see section 6 |
| `funnel` | 2 callers, 1 request of 2 lines, 1 RFQ, 1 quotation, 2 orders, 2 currencies, 1 deletion | types, conversions copy and add up, no silent rate, events behind commits, refinement of the chain |
| `reminder` | 2 replicas, 2 orders of one supplier, 2 days, 2 upserts by 2 callers, cap 3 | types, no event without its stamp, once a day per settings row, only open orders stamped, settings rows bounded |
| `crud` | 2 administrators, a row of each of the 14 tables, 3 writes | types, rows obey their rules, final states are not left |

Bounds. Two callers are enough for every pairwise race, and the lock protocol
has no case that distinguishes a third; the lifecycle runs three, because two
entries and a bystander differ from two. Three lines are what the spread needs
(a full line between two others of the same item, and a line of another item);
quantities up to 2 give empty, partial and full; in `maturity` two lines of quantity 1
do. It takes the moves between one state of each kind that the recompute and the
line delete tell apart. `MaxEntries` is the only bound
on a counter: an order is reset only so often, so that `entered` stays finite.
Callers are symmetric in the safety runs, and so are lines, orders and rates of the
agreement; no symmetry is used with liveness. In the agreement, two draws per
call-off are the least that can name a line twice or two lines in either order;
`Order` bounds the call-offs (`OrderLeft` keeps one for each under way) and
`Line` the resequences. In the funnel one document of a kind is enough for two callers to
convert or number it at once, and two orders for a quotation converted twice; a
rate of 0.125 has a digit more than its column, and 0.50 and 1.50 of something at 0.05
both end in half a cent, so that the sum of rounded amounts is not the rounded sum. In the reminder two orders with two settings rows each are four
rows of the claim, above the cap; a lead of 0 beside the default of 1 makes an
order due on either day; `MaxUpserts` bounds the upserts, and `LastDay` the days.
`MaxWrites` = 3 lets the write of an update come after two other writes.
Deadlock is not checked where a system comes to rest: a closed agreement without
call-offs, the last day of the reminder, a row whose writes are used up.

Fairness. `match_live` assumes that a transaction that can execute its next
statement does (weak), that a row whose lock is released again and again is
eventually granted to a given waiter (strong: the database queues waiters), and
that the deadlock detector runs (weak). Nobody is forced to call, and connections
need not drop. The other runs check safety and assume nothing.

## 4. Proofs

Every safety property of the passing runs is also a theorem, for every value of
the constants. Each of the strengthened invariants below was checked by TLC on the
instance of its run before it was proved.

`ThreeWayMatchProofs`, for every set of lines, callers and requests. `IInv`
strengthens the match with: types; no row held by two transactions
(`LocksExclusive`); a transaction writes only rows it holds, in one column and
one direction. That is what makes `ThreeWayMatchHolds` inductive: a commit by
`c` cannot disturb the view of `d`, because `d`'s writes are on other rows.
Lemmas `CapacityKeepsCheck` (taking no more than the capacity keeps the CHECK)
and `SpreadWithinCapacity` carry the arithmetic. From `IInv` follow
`MatchHoldsForEveryCaller` and, with `CommitIsLedgerStep`, the refinement
`TransactionsImplementLedger`. `RequestsAppliedInFull` needs more than the end of a
request: `AppliedSoFar` says after every part, for every item and every line, that
what the transaction moved is the sum of the parts applied so far that name it. A
part adds to both sides the same amount where it is named (`SpreadCounts`) and
nothing elsewhere, because its rows are of one item. That the loop over the rows
takes the whole quantity is `SpreadTakesAll`: no more, because the last row that it
takes from had that much left to take; no less, because the part fitted, so that
either a row took all that was left or every row took all it had room for.

`SumFacts`. What lines have moved, and what call-offs have drawn, are sums over
finite sets, computed by a recursive function. The library's induction theorems
take an operator, which the provers cannot instantiate; the module uses their
first-order forms instead (a collection of subsets closed under adding an
element; a collection of numbers closed under successor), proves the
well-founded recursion of the sum once, and from it that sums are determined by
their terms, change with one term by its change, and are zero where the terms are.

`OrderLifecycleProofs`, for every set of callers, total, rate and thresholds.
`IInv` adds to the types: a call that is about to enter has a manager or was
`lax` (`GateSeen`), a deleted order is cancelled, and the events published and
owed do not outnumber the entries, which needs the cardinality of the set of
calls that owe one (`OwedMoves`). `CommitHeld` says of a cancel past its trigger that
it is the only one and that the order is still live and not locked, because every
verb that could change that waits for the row; `LockedOrdersAreNotCancelled` and
`OnlyDeclaredMoves` follow. There is no such conjunct for the billed lines, which the
cancel does not lock: `lifecycle_stale_bill` shows what follows.

`OrderMaturityProofs` starts with the ledger, which keeps the CHECK constraint
(`LedgerKeepsMatch`). It adds that a `fresh` call holds what the lines say
(`FreshIsTrue`); hence `RecomputeRepairs`: whatever crashed or raced before, one
undisturbed recompute of an order in purchase makes the two columns true again.
`StatusesMayBeTrusted` is about rest. With overlapping callers, crashes and header
moves the columns can be wrong when no call is under way (`maturity_race`), and the
theorem says that there are no other reasons than four: the last write was of lines
that had changed since they were read, or found the order out of purchase; a call
ended before its write; a line was deleted. It is the statement that no verb moves
a watermark without a recompute behind it. `SettledWhenTrusted` is the inductive form:
it asks for true columns as soon as every call under way has written, because a call
that has still to read or to write will be the next to decide what is trusted.

`BlanketAgreementProofs`, for every set of lines, quantities, callers, rates,
orders and requests, has four invariants beside the types. `Turns`: whoever
holds the agreement exclusively is alone on it, and it is open while anybody
holds a share; from it `NothingStranded`, with `OpenAgainIsReopened` for the
moves of the orders. `Caps`: only the holder of a line has drawn on it, and its
draws fit on top of what is committed; the check a call-off makes before its
transaction is not used. `Prices`: a draft has no price and keeps its rates, a
re-price runs on an agreement that was opened, and while it holds the line nobody
mints the row it did not find. It needs the exclusive line locks of
`Caps`: the module has no unique index, the row lock of `set_line_rate` is what
keeps the prices single (`OneLivePrice`, `PriceShowsTheRate`). `Counts`: what a line
counts as ordered is the sum over the orders, and an order that is not created
yet has none, so that a commit changes one term by what it has drawn
(`EveryDrawCounted`).

`SourcingFunnelProofs`, for every number of callers, documents, lines, currencies
and rates. The types are not inductive alone: nothing in them says that the
source a call has read still is a row when the call writes. `TInv` says so
(`CallsNameRows`). `IInv` adds that a converted order has what its quotation has from
the read to the insert (`ConversionsFaithful`) and after it (`RowsFaithful`), that
the rates of a quotation are what its columns keep (`RatesStored`, the reason why
conversions add up and orders entered by hand need not), and that a call knows
every home currency since it began (`HomesSeen`). From it `OrdersAgree`,
`RatesAreChosen` and `EventsAreTrue`; that a rounded amount is the nearest, for every
number, is `RoundedIsNearest`. `FunnelImplementsChain` maps each statement to
a step of `SourcingChain` or to a stutter; the reads are stutters, and the insert
of a conversion and the mark of its quotation are two steps of the chain, which is
why the chain lets a document exist before its source is marked.

`ReceiptReminderProofs`, for every set of replicas, orders, suppliers, upsert
callers and every cap and schedule, goes in three layers. `IInv`: claims are of
today and no stamp is of tomorrow, what a replica claimed is held by it alone
(`ClaimsDisjoint`), unwritten, still open and not due again (`ClaimsHold`), and
what it has to publish is stamped (`OwedAreStamped`). `EventsFollowStamps` and
`StampsOnlyOpen` follow. `RowsAndInserts` counts the settings rows together with
the callers about to insert one: a caller that looks after the first row is there
finds it, so the sum never passes the number of callers. `RInv` adds that the
settings a claim joins with only grow meanwhile (`SeenStays`), and counts the
events out and owed: a claim takes an order only when it has none of that day
(its stamp would be today), a row of the join at a time, and an event that leaves
the list of a run is one that was on it (an injection between the places on the
lists before and after). Both locking and the stamp are needed: without
`ClaimsDisjoint` two replicas owe the same order, without the stamp the next one
claims it again.

`GeneratedCrudProofs`, for any number of administrators and of writes and every
choice of tables. First the catalogue: every table is well made
(`TablesWellMade`: a create stores every column, forced values and defaults are
values of their columns and not refused), no rule refuses what a verb writes
(`VerbColumnsFree`), and the declared moves of the tables without a cycle climb a
rank (`MovesClimb`). `RowsObeyRules` is not inductive, because an update was
checked in its changed columns against a row that may have gone; `UpdatesObey`
says that what it would store obeys the rules in all columns, so that any mixture
of it with another row that obeys them obeys them too. `LeftBelow` says that the
states a row has left rank below the one it is in, which gives `NoStateReturns`
however stale the update: the trigger compares with the row as it is.

Assumptions are the named ASSUMEs of the modules, which TLC evaluates in the
runs: among them that an order has finitely many lines, that the absent value of
an optional column is none of its values, and that the receipt methods of a line
are among those that a caller may name (`Method`, which has unknown ones too).
Only model-checked: `EveryTransactionEnds` (liveness is out of the prover's reach), and
the four properties of the violation runs, which do not hold.

## 5. Mutants

Every property of every passing run has a mutant: an operator in the same module
marked *Plausible bug*, put in place of the definition it precedes; TLC then
finds the property violated.

## 6. Findings

Each is a violation run; `PROJECT.json` quotes the text it contradicts.

1. `match_bill_lines` tests the status before its transaction only.
2. Of two overlapping recomputes the older result may be written last and stays.
3. A re-price overlapping a close leaves a live price of a closed agreement.
4. A bill that commits between the trigger of a cancel and its commit leaves a
   cancelled order with a billed line: both checks of the cancel read the lines, and
   neither locks them.

Other behaviours the models reach, without a run of their own. Where a module
states the property that fails, adding it to a cfg as an INVARIANT or PROPERTY shows the
behaviour; nothing here is claimed to hold.

- `EventCarriesWhatWasApplied` (`OrderMaturity`): `set_manual_line_receipt`
  reports the absolute quantity it set; `buying_events.rs:99` says a line is
  "exactly the quantity THIS receipt applied to one PO line".
- `EveryReceiptRecorded` (`OrderMaturity`): `buying_events.rs:109` says "this fires on
  EVERY" receipt. A receipt is committed and not reported when `set_acknowledged` or
  a statement of the recompute fails, when the process dies, or when the last live
  line was dropped meanwhile and `fetch_maturity` finds no row.
- `MilestoneOnTransition` (`OrderMaturity`): `buying_receipt.rs:303` and `:325` say the
  milestones fire on the "FIRST transition", and
  `docs/business-flows/golden-cases.md:33` that they "fire once each". Two overlapping
  recomputes both publish `PurchaseOrderFullyReceived`; out of purchase
  every recompute of full lines publishes it, because the column is never written; and a full
  return and a second receipt publish it again (that one is a transition, and the
  property allows it).
- `OpenLinesPriced` (`BlanketAgreement`): a resequence overlapping a confirm
  leaves prices of deleted lines and lines without one. The cause is that of 3:
  confirm, re-price and resequence check the status before their transaction and
  do not lock the agreement, as close and call-off do. Two overlapping
  resequences leave the lines of both requests.
- `ConvertedIsOrdered` (`SourcingFunnel`): a process that dies between the order
  and the mark leaves a quotation that is converted again; two callers convert it
  twice without any crash, if their order numbers differ.
  `docs/business-flows/golden-cases.md:30` says "each hop copies lines/rates +
  advances the source (`ordered`)". The second half also fails of an RFQ, which
  its conversion does not mark. A request that is ordered, or was deleted after
  the read, is converted again.
- An RFQ is always quoted in IDR, so that where the home currency is another its
  quotations cannot be converted: the conversion supplies no rate.
- `OrdersAddUp` (`SourcingFunnel`): an order entered with a rate below a cent is
  priced with all digits and stored with two, so that its amounts do not follow
  from its rows; `guarded_routes.rs:5-6` says that "a caller cannot write a PO with
  inconsistent totals". Conversions are exact, because quoted rates are stored
  first (`ConvertedOrdersAgree`).
- `StampedIsReminded` (`ReceiptReminder`): a process that dies between the commit
  and the publish leaves an order stamped and never reminded that day.
  `send_receipt_reminder.rs:9-12` says a crash "replays the whole run next time".
  An order whose row a verb holds is skipped, and not reminded that day unless
  the job runs again. Two settings rows of a supplier make two events per order.
- An update of the generated CRUD that read an order before a verb moved it takes
  it back from cancelled or purchase to draft, a declared move, if the library
  writes all columns; likewise it undoes watermarks within the CHECK.
- An entry into purchase is never announced when the process dies before the
  publish; watermarks moved in draft are missing from the stored
  statuses until the next recompute after the confirm; a reset reopens a call-off
  of a closed agreement, which `NoCallOffStranded` sets apart as `reopened`, and
  leaves `acknowledged` as it is; a cancelled call-off gives no quantity back.

## 7. Not modelled, and plan

- `find_open_po_for_demand` is one query without a caller in the repository.
- Of the generated code: exports, seeders, filters, bulk writes, handlers and the
  domain events nobody publishes. They have no decisions of their own.
- Reads over HTTP, authentication and tenancy, which the composing service owns.
- The event store and the snapshot store: no module declares their directory.

Next: properties for the hazards that have none yet, as far as the code keeps
them from biting (a resequence against a confirm, a rate that changes under a
call-off, the quantity of a cancelled call-off), and theorems about them.
