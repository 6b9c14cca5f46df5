---------------------------- MODULE GeneratedCrud ----------------------------
(***************************************************************************)
(* The generated CRUD of one table: administrators fetch a row, put it     *)
(* back with a column changed, patch it, delete and restore it, while the  *)
(* module's verbs move its state columns.  An update reads the row, checks *)
(* what it would store against what it read, and writes it in a statement  *)
(* of its own.  The INSERTs and quantity updates of the hand-written       *)
(* services are the other modules' matter and are no writers here.         *)
(*                                                                         *)
(* The service that does this (GenericCrudService) is a library; what is   *)
(* modelled of it is what the generated code relies on.  Of its write it   *)
(* is left open whether it stores the changed columns or all of them.  The *)
(* CHECKs of the tables that repeat a row rule are left out: the rules     *)
(* have to hold without them.                                              *)
(***************************************************************************)
EXTENDS EntityCatalogue

CONSTANTS
    Client,      \* administrators
    Entities,    \* the tables looked at
    MaxWrites    \* bound: creates, updates and verbs

ASSUME CrudAssumption == Entities \subseteq DOMAIN Catalogue /\ MaxWrites \in Nat

VARIABLES
    entity,      \* the table; it never changes
    row,         \* its row, or NoRow
    deleted,     \* the row is in the trash
    form,        \* form[c]    : the row as client c fetched it, or NoRow
    update,      \* update[c]  : the update in the middle of which c is, or NoRow
    left,        \* the states the row has left, as <<column, state>>: history
    writes

vars == <<entity, row, deleted, form, update, left, writes>>

NoRow == <<>>

Columns == Catalogue[entity].columns
Payload == Catalogue[entity].payload
Defaults == Catalogue[entity].defaults
Rules == Catalogue[entity].rules

\* The tables that have routes for the generic writes, which only the trusted
\* composition mounts.  Supplier prices have none, and their trigger refuses any
\* write but their agreement's.
Routed == DOMAIN Catalogue \ {"supplier_price"}

\* A value of the table's row type.
IsRow(r) == DOMAIN r = DOMAIN Columns /\ \A c \in DOMAIN r : r[c] \in Columns[c]

TypeOK ==
    /\ entity \in Entities
    /\ row = NoRow \/ IsRow(row)
    /\ deleted \in BOOLEAN
    /\ \A c \in Client :
          /\ form[c] = NoRow \/ IsRow(form[c])
          /\ update[c] = NoRow \/ (IsRow(update[c].before) /\ IsRow(update[c].after))
    /\ writes \in 0 .. MaxWrites

Init ==
    /\ entity \in Entities
    /\ row = NoRow /\ deleted = FALSE
    /\ form = [c \in Client |-> NoRow]
    /\ update = [c \in Client |-> NoRow]
    /\ left = {} /\ writes = 0

-----------------------------------------------------------------------------
(* What the row rules and the database say of a row.                       *)

Changed(old, new) == {c \in DOMAIN new : new[c] # old[c]}

\* The rules hold of the given columns.
Obeys(r, columns) == \A c \in columns : <<c, r[c]>> \notin Rules.refused

\* Plausible bug: the rules are checked when a row is created, not when it is updated.
AllowedUpdateUnchecked(before, after) == Changed(before, after) \cap Rules.verbsOnly = {}

\* An update may not move a state column, and what it changes obeys the rules;
\* what it leaves alone is not checked again.
AllowedUpdate(before, after) ==
    /\ Changed(before, after) \cap Rules.verbsOnly = {}
    /\ Obeys(after, Changed(before, after))

\* The one CHECK that looks at several columns, po_items_three_way_match.
RowCheck(r) ==
    entity = "purchase_order_item" =>
        /\ r.received_qty <= r.quantity
        /\ r.billed_qty <= (IF r.purchase_method = "purchase" THEN r.quantity ELSE r.received_qty)

Machines == IF entity \in DOMAIN DeclaredMovesOf THEN DeclaredMovesOf[entity] ELSE <<>>

\* Plausible bug: the triggers log what they should refuse.
MovesUnchecked(old, new) == TRUE

\* The transition triggers let the write through.
MovesDeclared(old, new) ==
    \A c \in DOMAIN Machines : new[c] # old[c] => <<old[c], new[c]>> \in Machines[c]

\* So does the write guard of orders: a locked one is not cancelled.  (That one
\* with billed lines is not either is a matter of OrderLifecycle.)
GuardsPass(old, new) ==
    entity = "purchase_order" /\ old.status # "cancelled" /\ new.status = "cancelled"
        => ~new.locked

-----------------------------------------------------------------------------
(* Rows come to be.                                                        *)

\* A value the rules let through.
Plain(k) == CHOOSE v \in Columns[k] : <<k, v>> \notin Rules.refused

\* What a caller sends: plain values, but for one column that is anything.
Sent(columns, c, v) == [k \in columns |-> IF k = c THEN v ELSE Plain(k)]

\* The columns of r, and for the rest those of base.
Over(r, base) == [k \in DOMAIN r \union DOMAIN base |-> IF k \in DOMAIN r THEN r[k] ELSE base[k]]

\* From<Create...Dto>: the payload, and the forced columns.
Created(dto) == Over(Catalogue[entity].forced, dto)

\* The builder: what is given, and defaults for the rest.  It fails where a
\* column without a default is missing.
CanBuild(given) == DOMAIN given \union DOMAIN Defaults = DOMAIN Columns
Built(given) == Over(given, Defaults)

Create(c, v) ==
    /\ entity \in Routed /\ row = NoRow /\ writes < MaxWrites
    /\ c \in Payload.create
    /\ LET new == Created(Sent(Payload.create, c, v)) IN
          /\ Obeys(new, DOMAIN new) /\ RowCheck(new)
          /\ row' = new
    /\ writes' = writes + 1
    /\ UNCHANGED <<entity, deleted, form, update, left>>

\* Code of the composing service builds a row from values the rules let through,
\* for the columns that have no default, and inserts it through the repository,
\* which checks no row rule.
BuildAndInsert ==
    /\ entity \in Routed /\ row = NoRow /\ writes < MaxWrites
    /\ LET given == [c \in DOMAIN Columns \ DOMAIN Defaults |-> Plain(c)] IN
          /\ CanBuild(given) /\ RowCheck(Built(given))
          /\ row' = Built(given)
    /\ writes' = writes + 1
    /\ UNCHANGED <<entity, deleted, form, update, left>>

\* Supplier prices are minted by their agreement.
Mint ==
    /\ entity = "supplier_price" /\ row = NoRow
    /\ row' = [c \in DOMAIN Columns |-> Plain(c)]
    /\ UNCHANGED <<entity, deleted, form, update, left, writes>>

-----------------------------------------------------------------------------
(* Rows are read, replaced, patched.                                       *)

Live == row # NoRow /\ ~deleted

\* The response has every column.
Fetch(a) ==
    /\ Live /\ form[a] # row
    /\ form' = [form EXCEPT ![a] = row]
    /\ UNCHANGED <<entity, row, deleted, update, left, writes>>

\* An update was read and checked, and is about to be written.
Starts(a, after) ==
    /\ entity \in Routed /\ Live /\ update[a] = NoRow /\ writes < MaxWrites
    /\ after # row /\ AllowedUpdate(row, after)
    /\ update' = [update EXCEPT ![a] = [before |-> row, after |-> after]]
    /\ writes' = writes + 1
    /\ UNCHANGED <<entity, row, deleted, form, left>>

\* Plausible bug: the stored row is what the payload has, and nothing else.
ReplacedByPayload(a, c, v) == [k \in Payload.update |-> IF k = c THEN v ELSE form[a][k]]

\* apply_update: the columns of the payload replace those of the row.  The
\* payload is the row as it was fetched, with one column changed.
Replaced(a, c, v) ==
    Over([k \in Payload.update |-> IF k = c THEN v ELSE form[a][k]], row)

Put(a, c, v) == form[a] # NoRow /\ c \in Payload.update /\ Starts(a, Replaced(a, c, v))

Patch(a, c, v) == Live /\ Starts(a, [row EXCEPT ![c] = v])

Leaves(old, new) == {<<c, old[c]>> : c \in {k \in DOMAIN Machines : new[k] # old[k]}}

\* The write: the columns that changed, or all of them, over what the row is by now.
Write(a) ==
    /\ update[a] # NoRow
    /\ \E columns \in {Changed(update[a].before, update[a].after), DOMAIN Columns} :
          LET new == [c \in DOMAIN Columns |-> IF c \in columns THEN update[a].after[c] ELSE row[c]] IN
          /\ RowCheck(new) /\ MovesDeclared(row, new) /\ GuardsPass(row, new)
          /\ row' = new
          /\ left' = left \union Leaves(row, new)
    /\ update' = [update EXCEPT ![a] = NoRow]
    /\ UNCHANGED <<entity, deleted, form, writes>>

\* The database refuses the write, or the process dies before it.
Abandon(a) ==
    /\ update[a] # NoRow
    /\ update' = [update EXCEPT ![a] = NoRow]
    /\ UNCHANGED <<entity, row, deleted, form, left, writes>>

\* An order is deleted only once cancelled.
Delete ==
    /\ entity \in Routed /\ Live
    /\ (entity = "purchase_order" => row.status = "cancelled")
    /\ deleted' = TRUE
    /\ UNCHANGED <<entity, row, form, update, left, writes>>

Restore ==
    /\ deleted
    /\ deleted' = FALSE
    /\ UNCHANGED <<entity, row, form, update, left, writes>>

\* ... and so it leaves the trash.  What was to be written to it finds no row.
EmptyTrash ==
    /\ deleted
    /\ (entity = "purchase_order" => row.status = "cancelled")
    /\ row' = NoRow /\ deleted' = FALSE /\ left' = {}
    /\ form' = [c \in Client |-> NoRow] /\ update' = [c \in Client |-> NoRow]
    /\ UNCHANGED <<entity, writes>>

\* A verb of the module moves a state column.
Verb(c, v) ==
    /\ Live /\ writes < MaxWrites
    /\ c \in DOMAIN Machines /\ <<row[c], v>> \in Machines[c]
    /\ LET new == [row EXCEPT ![c] = v] IN
          /\ GuardsPass(row, new)
          /\ row' = new
          /\ left' = left \union Leaves(row, new)
    /\ writes' = writes + 1
    /\ UNCHANGED <<entity, deleted, form, update>>

Next ==
    \/ \E c \in DOMAIN Columns : \E v \in Columns[c] :
          \/ Create(c, v) \/ Verb(c, v)
          \/ \E a \in Client : Put(a, c, v) \/ Patch(a, c, v)
    \/ BuildAndInsert \/ Mint \/ Delete \/ Restore \/ EmptyTrash
    \/ \E a \in Client : Fetch(a) \/ Write(a) \/ Abandon(a)

Spec == Init /\ [][Next]_vars

-----------------------------------------------------------------------------
(* Properties.                                                             *)

\* Every row that the generic writes store obeys all its rules and constraints,
\* although an update checks only the columns it changes, against a row that may
\* be another by the time it is written, and a built row is not checked at all
\* (the row rules of the services, the builders, po_items_three_way_match).
RowsObeyRules == row # NoRow => (Obeys(row, DOMAIN row) /\ RowCheck(row))

\* A request, quotation or agreement never comes back to a state it has left,
\* however old the row that an update writes back (the transition triggers).
Acyclic == {"material_request", "supplier_quotation", "purchase_agreement"}
StatesNeverReturn ==
    entity \in Acyclic /\ row # NoRow =>
        \A c \in DOMAIN Machines : <<c, row[c]>> \notin left
=============================================================================
