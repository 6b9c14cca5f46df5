------------------------ MODULE GeneratedCrudProofs ------------------------
(***************************************************************************)
(* The generated CRUD, for any number of administrators, any of the tables *)
(* and any number of writes.                                                *)
(*                                                                         *)
(* First the tables themselves: that what a create stores, what an update  *)
(* may send and what a builder fills in agree with the columns.  Then the  *)
(* invariant: RowsObeyRules is not inductive alone, because what an update *)
(* stores was checked in its changed columns only, against a row that may  *)
(* have gone.  IInv adds that what an open update would store obeys every  *)
(* rule, and that every state the row has left ranks below the one it is   *)
(* in.                                                                     *)
(***************************************************************************)
EXTENDS GeneratedCrud, TLAPS

-----------------------------------------------------------------------------
(* The tables.                                                             *)

\* A create stores every column once, an update sends columns only, and the
\* forced values are values of their columns (From<Create...Dto>).
Fits(columns, payload, forced) ==
    /\ DOMAIN columns # {}
    /\ payload.create \union DOMAIN forced = DOMAIN columns
    /\ payload.update \subseteq DOMAIN columns
    /\ \A c \in DOMAIN forced : forced[c] \in columns[c]

\* Every column has a value that the rules do not refuse.
Fillable(columns, rules) ==
    \A c \in DOMAIN columns : \E v \in columns[c] : <<c, v>> \notin rules.refused

\* What the builder fills in are values of the columns, none of them refused.
Builds(columns, defaults, rules) ==
    /\ DOMAIN defaults \subseteq DOMAIN columns
    /\ \A c \in DOMAIN defaults :
           defaults[c] \in columns[c] /\ <<c, defaults[c]>> \notin rules.refused

WellMade(columns, payload, forced, defaults, rules) ==
    /\ Fits(columns, payload, forced)
    /\ Fillable(columns, rules)
    /\ Builds(columns, defaults, rules)

\* The tables without a flag.
LEMMA PlainTablesWellMade ==
    /\ WellMade(MaterialRequestColumns, MaterialRequestPayload, MaterialRequestForced,
                MaterialRequestDefaults, MaterialRequestRules)
    /\ WellMade(MaterialRequestItemColumns, MaterialRequestItemPayload, MaterialRequestItemForced,
                MaterialRequestItemDefaults, MaterialRequestItemRules)
    /\ WellMade(PurchaseAgreementColumns, PurchaseAgreementPayload, PurchaseAgreementForced,
                PurchaseAgreementDefaults, PurchaseAgreementRules)
    /\ WellMade(PurchaseAgreementLineColumns, PurchaseAgreementLinePayload, PurchaseAgreementLineForced,
                PurchaseAgreementLineDefaults, PurchaseAgreementLineRules)
    /\ WellMade(PurchaseOrderItemColumns, PurchaseOrderItemPayload, PurchaseOrderItemForced,
                PurchaseOrderItemDefaults, PurchaseOrderItemRules)
    /\ WellMade(RequestForQuotationColumns, RequestForQuotationPayload, RequestForQuotationForced,
                RequestForQuotationDefaults, RequestForQuotationRules)
    /\ WellMade(RfqItemColumns, RfqItemPayload, RfqItemForced,
                RfqItemDefaults, RfqItemRules)
    /\ WellMade(RfqSupplierColumns, RfqSupplierPayload, RfqSupplierForced,
                RfqSupplierDefaults, RfqSupplierRules)
    /\ WellMade(SupplierPriceColumns, SupplierPricePayload, SupplierPriceForced,
                SupplierPriceDefaults, SupplierPriceRules)
    /\ WellMade(SupplierQuotationColumns, SupplierQuotationPayload, SupplierQuotationForced,
                SupplierQuotationDefaults, SupplierQuotationRules)
    /\ WellMade(SupplierQuotationItemColumns, SupplierQuotationItemPayload, SupplierQuotationItemForced,
                SupplierQuotationItemDefaults, SupplierQuotationItemRules)
<1> USE AbsentAssumption
    DEF WellMade, Fits, Fillable, Builds, Required, MaxLength, NonNegative, Positive, Text, Ref,
        Date, Number, Optional, PurchaseDocStatus, PurchaseAgreementStatus, MaterialRequestType,
        AgreementKind, QtyReceivedMethod, PurchaseMethod
<1>1. WellMade(MaterialRequestColumns, MaterialRequestPayload, MaterialRequestForced,
             MaterialRequestDefaults, MaterialRequestRules)
    BY DEF MaterialRequestColumns, MaterialRequestPayload, MaterialRequestForced,
           MaterialRequestDefaults, MaterialRequestRules
<1>2. WellMade(MaterialRequestItemColumns, MaterialRequestItemPayload, MaterialRequestItemForced,
             MaterialRequestItemDefaults, MaterialRequestItemRules)
    BY DEF MaterialRequestItemColumns, MaterialRequestItemPayload, MaterialRequestItemForced,
           MaterialRequestItemDefaults, MaterialRequestItemRules
<1>3. WellMade(PurchaseAgreementColumns, PurchaseAgreementPayload, PurchaseAgreementForced,
             PurchaseAgreementDefaults, PurchaseAgreementRules)
    BY DEF PurchaseAgreementColumns, PurchaseAgreementPayload, PurchaseAgreementForced,
           PurchaseAgreementDefaults, PurchaseAgreementRules
<1>4. WellMade(PurchaseAgreementLineColumns, PurchaseAgreementLinePayload, PurchaseAgreementLineForced,
             PurchaseAgreementLineDefaults, PurchaseAgreementLineRules)
    BY DEF PurchaseAgreementLineColumns, PurchaseAgreementLinePayload, PurchaseAgreementLineForced,
           PurchaseAgreementLineDefaults, PurchaseAgreementLineRules
<1>5. WellMade(PurchaseOrderItemColumns, PurchaseOrderItemPayload, PurchaseOrderItemForced,
             PurchaseOrderItemDefaults, PurchaseOrderItemRules)
    BY DEF PurchaseOrderItemColumns, PurchaseOrderItemPayload, PurchaseOrderItemForced,
           PurchaseOrderItemDefaults, PurchaseOrderItemRules
<1>6. WellMade(RequestForQuotationColumns, RequestForQuotationPayload, RequestForQuotationForced,
             RequestForQuotationDefaults, RequestForQuotationRules)
    BY DEF RequestForQuotationColumns, RequestForQuotationPayload, RequestForQuotationForced,
           RequestForQuotationDefaults, RequestForQuotationRules
<1>7. WellMade(RfqItemColumns, RfqItemPayload, RfqItemForced,
             RfqItemDefaults, RfqItemRules)
    BY DEF RfqItemColumns, RfqItemPayload, RfqItemForced,
           RfqItemDefaults, RfqItemRules
<1>8. WellMade(RfqSupplierColumns, RfqSupplierPayload, RfqSupplierForced,
             RfqSupplierDefaults, RfqSupplierRules)
    BY DEF RfqSupplierColumns, RfqSupplierPayload, RfqSupplierForced,
           RfqSupplierDefaults, RfqSupplierRules
<1>9. WellMade(SupplierPriceColumns, SupplierPricePayload, SupplierPriceForced,
             SupplierPriceDefaults, SupplierPriceRules)
    BY DEF SupplierPriceColumns, SupplierPricePayload, SupplierPriceForced,
           SupplierPriceDefaults, SupplierPriceRules
<1>10. WellMade(SupplierQuotationColumns, SupplierQuotationPayload, SupplierQuotationForced,
             SupplierQuotationDefaults, SupplierQuotationRules)
    BY DEF SupplierQuotationColumns, SupplierQuotationPayload, SupplierQuotationForced,
           SupplierQuotationDefaults, SupplierQuotationRules
<1>11. WellMade(SupplierQuotationItemColumns, SupplierQuotationItemPayload, SupplierQuotationItemForced,
             SupplierQuotationItemDefaults, SupplierQuotationItemRules)
    BY DEF SupplierQuotationItemColumns, SupplierQuotationItemPayload, SupplierQuotationItemForced,
           SupplierQuotationItemDefaults, SupplierQuotationItemRules
<1> HIDE DEF WellMade
<1> QED BY <1>1, <1>2, <1>3, <1>4, <1>5, <1>6, <1>7, <1>8, <1>9, <1>10, <1>11

\* A table with a flag, whose values have to be looked at apart.
LEMMA PurchaseCompanySettingWellMade ==
    WellMade(PurchaseCompanySettingColumns, PurchaseCompanySettingPayload, PurchaseCompanySettingForced,
             PurchaseCompanySettingDefaults, PurchaseCompanySettingRules)
<1> DEFINE C == PurchaseCompanySettingColumns
           F == PurchaseCompanySettingDefaults
           R == PurchaseCompanySettingRules.refused
           flag == "send_reminder"
<1> USE AbsentAssumption
    DEF Required, MaxLength, NonNegative, Positive, Text, Ref, Number, DoubleValidation,
        PurchaseCompanySettingColumns, PurchaseCompanySettingForced, PurchaseCompanySettingDefaults,
        PurchaseCompanySettingRules
<1>1. Fits(C, PurchaseCompanySettingPayload, PurchaseCompanySettingForced)
    BY DEF Fits, PurchaseCompanySettingPayload
<1>2. TRUE \in C[flag] /\ \A v : <<flag, v>> \notin R
  <2>1. TRUE \in C[flag]
      OBVIOUS
  <2>2. \A v : <<flag, v>> \notin R
      OBVIOUS
  <2> QED BY <2>1, <2>2
<1>3. \A c \in DOMAIN C \ {flag} : \E v \in C[c] : <<c, v>> \notin R
    OBVIOUS
<1>4. Fillable(C, PurchaseCompanySettingRules)
  <2>1. \E v \in C[flag] : <<flag, v>> \notin R
      BY <1>2, Zenon
  <2> QED BY <1>3, <2>1 DEF Fillable
<1>5. \A c \in DOMAIN F \ {flag} : F[c] \in C[c] /\ <<c, F[c]>> \notin R
    OBVIOUS
<1>6. F[flag] \in C[flag]
    OBVIOUS
<1>7. DOMAIN F \subseteq DOMAIN C /\ DOMAIN PurchaseCompanySettingForced = {}
    OBVIOUS
<1>8. Builds(C, F, PurchaseCompanySettingRules)
  <2> HIDE DEF PurchaseCompanySettingColumns, PurchaseCompanySettingForced, PurchaseCompanySettingDefaults, PurchaseCompanySettingRules
  <2> QED BY <1>2, <1>5, <1>6, <1>7 DEF Builds
<1> QED BY <1>1, <1>4, <1>8 DEF WellMade

\* A table with a flag, whose values have to be looked at apart.
LEMMA SupplierReminderSettingWellMade ==
    WellMade(SupplierReminderSettingColumns, SupplierReminderSettingPayload, SupplierReminderSettingForced,
             SupplierReminderSettingDefaults, SupplierReminderSettingRules)
<1> DEFINE C == SupplierReminderSettingColumns
           F == SupplierReminderSettingDefaults
           R == SupplierReminderSettingRules.refused
           flag == "receipt_reminder_email"
<1> USE AbsentAssumption
    DEF Required, MaxLength, NonNegative, Positive, Text, Ref, Number, DoubleValidation,
        SupplierReminderSettingColumns, SupplierReminderSettingForced, SupplierReminderSettingDefaults,
        SupplierReminderSettingRules
<1>1. Fits(C, SupplierReminderSettingPayload, SupplierReminderSettingForced)
    BY DEF Fits, SupplierReminderSettingPayload
<1>2. TRUE \in C[flag] /\ \A v : <<flag, v>> \notin R
  <2>1. TRUE \in C[flag]
      OBVIOUS
  <2>2. \A v : <<flag, v>> \notin R
      OBVIOUS
  <2> QED BY <2>1, <2>2
<1>3. \A c \in DOMAIN C \ {flag} : \E v \in C[c] : <<c, v>> \notin R
    OBVIOUS
<1>4. Fillable(C, SupplierReminderSettingRules)
  <2>1. \E v \in C[flag] : <<flag, v>> \notin R
      BY <1>2, Zenon
  <2> QED BY <1>3, <2>1 DEF Fillable
<1>5. \A c \in DOMAIN F \ {flag} : F[c] \in C[c] /\ <<c, F[c]>> \notin R
    OBVIOUS
<1>6. F[flag] \in C[flag]
    OBVIOUS
<1>7. DOMAIN F \subseteq DOMAIN C /\ DOMAIN SupplierReminderSettingForced = {}
    OBVIOUS
<1>8. Builds(C, F, SupplierReminderSettingRules)
  <2> HIDE DEF SupplierReminderSettingColumns, SupplierReminderSettingForced, SupplierReminderSettingDefaults, SupplierReminderSettingRules
  <2> QED BY <1>2, <1>5, <1>6, <1>7 DEF Builds
<1> QED BY <1>1, <1>4, <1>8 DEF WellMade

\* The order, column by column.
LEMMA PurchaseOrderWellMade ==
    WellMade(PurchaseOrderColumns, PurchaseOrderPayload, PurchaseOrderForced,
             PurchaseOrderDefaults, PurchaseOrderRules)
<1> DEFINE C == PurchaseOrderColumns
           F == PurchaseOrderDefaults
           R == PurchaseOrderRules.refused
           texts == {"po_number", "currency", "notes"}
           numbers == {"currency_rate", "subtotal", "tax_rate", "tax_amount", "total"}
           flags == {"acknowledged", "locked"}
           states == {"order_kind", "status", "receipt_status", "invoice_status"}
           refs == {"supplier_quotation_id", "branch_id", "supplier_id", "agreement_id",
                    "project_id"}
           dates == {"order_date", "schedule_date", "date_approve"}
<1> USE AbsentAssumption
    DEF Required, MaxLength, NonNegative, Positive, PurchaseOrderRules
<1>1. Fits(C, PurchaseOrderPayload, PurchaseOrderForced)
    BY DEF Fits, PurchaseOrderPayload, PurchaseOrderForced, PurchaseOrderColumns,
           PurchaseOrderStatus, Status, PurchaseReceiptStatus, PurchaseInvoiceStatus
<1>2. DOMAIN C = texts \union numbers \union flags \union states \union refs \union dates
    BY DEF PurchaseOrderColumns
<1>3. \A c \in flags \union states \union dates \union (refs \ {"supplier_id"}) :
          \A v : <<c, v>> \notin R
    OBVIOUS
<1>4. Fillable(C, PurchaseOrderRules)
  <2>1. \A c \in texts : "fits" \in C[c] /\ <<c, "fits">> \notin R
      BY DEF PurchaseOrderColumns, Text, Optional
  <2>2. \A c \in numbers : 1 \in C[c] /\ <<c, 1>> \notin R
      BY DEF PurchaseOrderColumns, Number
  <2>3. \A c \in refs : "some" \in C[c] /\ <<c, "some">> \notin R
      BY DEF PurchaseOrderColumns, Ref, Optional
  <2>4. \A c \in dates : \E v : v \in C[c]
      BY DEF PurchaseOrderColumns, Date, Optional
  <2>5. \A c \in states : \E v : v \in C[c]
      BY DEF PurchaseOrderColumns, OrderKind, PurchaseOrderStatus, Status,
             PurchaseReceiptStatus, PurchaseInvoiceStatus
  <2>6. \A c \in flags : \E v : v \in C[c]
    <3>1. C["acknowledged"] = BOOLEAN /\ C["locked"] = BOOLEAN
        BY DEF PurchaseOrderColumns
    <3>2. PICK v : v \in BOOLEAN
        OBVIOUS
    <3> QED BY <3>1, <3>2
  <2> HIDE DEF C, R
  <2> QED BY <1>2, <1>3, <2>1, <2>2, <2>3, <2>4, <2>5, <2>6 DEF Fillable, R
<1>5. /\ DOMAIN F = DOMAIN C \ {"po_number", "supplier_id", "order_date"}
      /\ F["acknowledged"] \in C["acknowledged"] /\ F["locked"] \in C["locked"]
  <2>1. DOMAIN F = DOMAIN C \ {"po_number", "supplier_id", "order_date"}
      BY DEF PurchaseOrderColumns, PurchaseOrderDefaults
  <2>2. F["acknowledged"] \in C["acknowledged"] /\ F["locked"] \in C["locked"]
      BY DEF PurchaseOrderColumns, PurchaseOrderDefaults
  <2> QED BY <2>1, <2>2
<1>6. \A c \in DOMAIN F \ flags : F[c] \in C[c]
    BY DEF PurchaseOrderColumns, PurchaseOrderDefaults, Number, Optional, Text, OrderKind,
           PurchaseOrderStatus, Status, PurchaseReceiptStatus, PurchaseInvoiceStatus
<1>7. \A c \in {"currency", "notes"} \union numbers : <<c, F[c]>> \notin R
    BY DEF PurchaseOrderDefaults, Text
<1>8. \A c \in DOMAIN PurchaseOrderForced : c \in DOMAIN F /\ F[c] = PurchaseOrderForced[c]
    BY DEF PurchaseOrderDefaults, PurchaseOrderForced
<1>9. Builds(C, F, PurchaseOrderRules)
  <2> HIDE DEF C, F, R
  <2> QED BY <1>2, <1>3, <1>5, <1>6, <1>7, <1>8 DEF Builds, R
<1> QED BY <1>1, <1>4, <1>9 DEF WellMade

\* Every table of the catalogue.
TableWellMade(t) == WellMade(t.columns, t.payload, t.forced, t.defaults, t.rules)

LEMMA TablesWellMade == \A e \in DOMAIN Catalogue : TableWellMade(Catalogue[e])
<1>1. ASSUME NEW columns, NEW payload, NEW forced, NEW defaults, NEW rules,
             WellMade(columns, payload, forced, defaults, rules)
      PROVE  TableWellMade(Describe(columns, payload, forced, defaults, rules))
    BY <1>1 DEF TableWellMade, Describe
<1> QED BY <1>1, PlainTablesWellMade, PurchaseCompanySettingWellMade, PurchaseOrderWellMade,
           SupplierReminderSettingWellMade DEF Catalogue

\* No rule refuses a value of a column that a verb moves.
LEMMA VerbColumnsFree ==
    \A e \in DOMAIN DeclaredMovesOf : \A c \in DOMAIN DeclaredMovesOf[e] :
        \A v : <<c, v>> \notin Catalogue[e].rules.refused
<1>1. /\ Catalogue["material_request"].rules = MaterialRequestRules
      /\ Catalogue["supplier_quotation"].rules = SupplierQuotationRules
      /\ Catalogue["purchase_agreement"].rules = PurchaseAgreementRules
      /\ Catalogue["purchase_order"].rules = PurchaseOrderRules
    BY DEF Catalogue, Describe
<1> HIDE DEF Catalogue
<1>2. \A v : /\ <<"status", v>> \notin MaterialRequestRules.refused
             /\ <<"status", v>> \notin SupplierQuotationRules.refused
             /\ <<"status", v>> \notin PurchaseAgreementRules.refused
             /\ \A c \in {"status", "receipt_status", "invoice_status"} :
                    <<c, v>> \notin PurchaseOrderRules.refused
    BY DEF MaterialRequestRules, SupplierQuotationRules, PurchaseAgreementRules,
           PurchaseOrderRules, Required, MaxLength, Positive, NonNegative
<1>3. DOMAIN DeclaredMovesOf =
          {"material_request", "supplier_quotation", "purchase_agreement", "purchase_order"}
    BY DEF DeclaredMovesOf
<1>4. /\ DOMAIN DeclaredMovesOf["material_request"] = {"status"}
      /\ DOMAIN DeclaredMovesOf["supplier_quotation"] = {"status"}
      /\ DOMAIN DeclaredMovesOf["purchase_agreement"] = {"status"}
      /\ DOMAIN DeclaredMovesOf["purchase_order"] = {"status", "receipt_status", "invoice_status"}
    BY DEF DeclaredMovesOf
<1> QED BY <1>1, <1>2, <1>3, <1>4

\* A declared move of a request, quotation or agreement climbs, so that no
\* sequence of them returns.
StateRank(s) == IF s = "draft" THEN 0 ELSE IF s \in {"submitted", "open"} THEN 1 ELSE 2

LEMMA MovesClimb ==
    \A e \in Acyclic : /\ e \in DOMAIN DeclaredMovesOf
                       /\ \A c \in DOMAIN DeclaredMovesOf[e] : \A m \in DeclaredMovesOf[e][c] :
                              StateRank(m[1]) < StateRank(m[2])
BY DEF Acyclic, DeclaredMovesOf, StateRank

-----------------------------------------------------------------------------
(* The invariant.                                                          *)

\* An open update is of a row that is there, and what it would store obeys the
\* rules in every column, also in those it does not change.
UpdatesObey ==
    \A a \in Client : update[a] # NoRow => row # NoRow /\ Obeys(update[a].after, DOMAIN Columns)

\* Every state the row has left ranks below the one it is in.
LeftBelow ==
    /\ row = NoRow => left = {}
    /\ entity \in Acyclic =>
           \A p \in left : p[1] \in DOMAIN Machines /\ StateRank(p[2]) < StateRank(row[p[1]])

IInv ==
    /\ TypeOK /\ DOMAIN form = Client /\ DOMAIN update = Client
    /\ RowsObeyRules /\ UpdatesObey
    /\ LeftBelow

\* A row of the table is not the absent one, and its table is well made.
LEMMA TableFacts ==
    ASSUME entity \in Entities
    PROVE  /\ \A r : IsRow(r) => r # NoRow
           /\ WellMade(Columns, Payload, Catalogue[entity].forced,
                       Catalogue[entity].defaults, Rules)
<1>1. WellMade(Columns, Payload, Catalogue[entity].forced, Catalogue[entity].defaults, Rules)
    BY CrudAssumption, TablesWellMade DEF TableWellMade, Columns, Payload, Rules
<1>2. ASSUME NEW r, IsRow(r) PROVE r # NoRow
  <2>1. DOMAIN r = DOMAIN Columns /\ DOMAIN Columns # {}
      BY <1>1, <1>2 DEF IsRow, WellMade, Fits
  <2>2. DOMAIN NoRow = {}
      BY DEF NoRow
  <2> QED BY <2>1, <2>2
<1> QED BY <1>1, <1>2

\* A column has a plain value.
LEMMA PlainValues ==
    ASSUME entity \in Entities, NEW k \in DOMAIN Columns
    PROVE  Plain(k) \in Columns[k] /\ <<k, Plain(k)>> \notin Rules.refused
<1>1. \E v \in Columns[k] : <<k, v>> \notin Rules.refused
    BY TableFacts DEF WellMade, Fillable
<1> QED BY <1>1 DEF Plain

\* What a create stores is a row: the forced columns and what was sent.
LEMMA CreatedIsRow ==
    ASSUME entity \in Entities, NEW c \in Payload.create, c \in DOMAIN Columns,
           NEW v \in Columns[c]
    PROVE  IsRow(Created(Sent(Payload.create, c, v)))
<1> DEFINE forced == Catalogue[entity].forced
           sent == Sent(Payload.create, c, v)
           new == Created(sent)
<1>1. Fits(Columns, Payload, forced)
    BY TableFacts DEF WellMade
<1>2. DOMAIN sent = Payload.create /\ \A k \in Payload.create : sent[k] \in Columns[k]
  <2>1. ASSUME NEW k \in Payload.create PROVE sent[k] \in Columns[k]
    <3>1. k \in DOMAIN Columns
        BY <1>1 DEF Fits
    <3> QED BY <3>1, PlainValues DEF Sent
  <2> QED BY <2>1 DEF Sent
<1>3. /\ DOMAIN new = DOMAIN forced \union DOMAIN sent
      /\ \A k \in DOMAIN new : new[k] = IF k \in DOMAIN forced THEN forced[k] ELSE sent[k]
    BY DEF Created, Over
<1> HIDE DEF forced, sent, new
<1>4. DOMAIN new = DOMAIN Columns
    BY <1>1, <1>2, <1>3 DEF Fits
<1>5. \A k \in DOMAIN new : new[k] \in Columns[k]
    BY <1>1, <1>2, <1>3 DEF Fits
<1>6. IsRow(new)
    BY <1>4, <1>5 DEF IsRow
<1> QED BY <1>6 DEF new, sent

\* The payload of a replacement, over the row, is a row.
LEMMA ReplacedIsRow ==
    ASSUME entity \in Entities, IsRow(row), NEW a \in Client, IsRow(form[a]),
           NEW c \in DOMAIN Columns, NEW v \in Columns[c]
    PROVE  IsRow(Replaced(a, c, v))
<1> DEFINE sent == [k \in Payload.update |-> IF k = c THEN v ELSE form[a][k]]
           new == Replaced(a, c, v)
<1>1. Payload.update \subseteq DOMAIN Columns
    BY TableFacts DEF WellMade, Fits
<1>2. \A k \in Payload.update : sent[k] \in Columns[k]
    BY <1>1 DEF IsRow
<1>3. /\ DOMAIN new = Payload.update \union DOMAIN row
      /\ \A k \in DOMAIN new : new[k] = IF k \in Payload.update THEN sent[k] ELSE row[k]
    BY DEF Replaced, Over
<1> HIDE DEF sent, new
<1>4. IsRow(new)
    BY <1>1, <1>2, <1>3 DEF IsRow
<1> QED BY <1>4 DEF new

-----------------------------------------------------------------------------
(* Every step keeps the invariant.                                         *)

LEMMA InitEstablishesIInv == Init => IInv
<1> SUFFICES ASSUME Init PROVE IInv
    OBVIOUS
<1>1. \A a \in Client : form[a] = NoRow /\ update[a] = NoRow
    BY DEF Init
<1>2. entity \in Entities /\ row = NoRow /\ writes \in 0 .. MaxWrites
      /\ DOMAIN form = Client /\ DOMAIN update = Client
    BY CrudAssumption DEF Init
<1>3. deleted \in BOOLEAN
    BY DEF Init
<1>4. TypeOK
    BY <1>1, <1>2, <1>3 DEF TypeOK
<1> QED BY <1>1, <1>2, <1>4 DEF Init, IInv, RowsObeyRules, UpdatesObey, LeftBelow

\* A step that gives the row new columns, and at most ends open updates.
LEMMA NewRowKeepsIInv ==
    ASSUME IInv, UNCHANGED <<entity, form>>,
           NEW new, row' = new, IsRow(new), Obeys(new, DOMAIN new), RowCheck(new),
           deleted' \in BOOLEAN, writes' \in 0 .. MaxWrites,
           DOMAIN update' = Client,
           \A a \in Client : update'[a] \in {update[a], NoRow},
           entity \in Acyclic =>
               \A p \in left' : p[1] \in DOMAIN Machines /\ StateRank(p[2]) < StateRank(new[p[1]])
    PROVE  IInv'
<1>1. entity \in Entities /\ new # NoRow
    BY TableFacts DEF IInv, TypeOK
<1>2. /\ Columns' = Columns /\ Rules' = Rules /\ Machines' = Machines
      /\ \A r : IsRow(r)' <=> IsRow(r)
    BY DEF Columns, Rules, Machines, IsRow
<1>3. ASSUME NEW a \in Client
      PROVE  /\ form'[a] = NoRow \/ IsRow(form'[a])
             /\ update'[a] = NoRow \/ (IsRow(update'[a].before) /\ IsRow(update'[a].after))
             /\ update'[a] # NoRow => Obeys(update'[a].after, DOMAIN Columns)
    BY DEF IInv, TypeOK, UpdatesObey
<1>4. TypeOK'
    BY <1>1, <1>2, <1>3 DEF TypeOK
<1>5. DOMAIN form' = Client /\ DOMAIN update' = Client
    BY DEF IInv
<1>6. RowsObeyRules'
    BY <1>2 DEF RowsObeyRules, Obeys, RowCheck
<1>7. UpdatesObey'
    BY <1>1, <1>2, <1>3 DEF UpdatesObey, Obeys
<1>8. LeftBelow'
    BY <1>1, <1>2 DEF LeftBelow
<1> QED BY <1>4, <1>5, <1>6, <1>7, <1>8 DEF IInv

\* A step that leaves the row and its history alone.
LEMMA SameRowKeepsIInv ==
    ASSUME IInv, UNCHANGED <<entity, row, left>>,
           deleted' \in BOOLEAN, writes' \in 0 .. MaxWrites,
           DOMAIN form' = Client, DOMAIN update' = Client,
           \A a \in Client : form'[a] \in {form[a], row, NoRow},
           \A a \in Client : row # NoRow \/ form'[a] \in {form[a], NoRow},
           \A a \in Client :
               \/ update'[a] \in {update[a], NoRow}
               \/ /\ IsRow(update'[a].before) /\ IsRow(update'[a].after)
                  /\ row # NoRow /\ Obeys(update'[a].after, DOMAIN Columns)
    PROVE  IInv'
<1>2. /\ Columns' = Columns /\ Rules' = Rules /\ Machines' = Machines
      /\ \A r : IsRow(r)' <=> IsRow(r)
    BY DEF Columns, Rules, Machines, IsRow
<1>3. ASSUME NEW a \in Client
      PROVE  /\ form'[a] = NoRow \/ IsRow(form'[a])
             /\ update'[a] = NoRow \/ (IsRow(update'[a].before) /\ IsRow(update'[a].after))
             /\ update'[a] # NoRow => row # NoRow /\ Obeys(update'[a].after, DOMAIN Columns)
    BY DEF IInv, TypeOK, UpdatesObey
<1>4. TypeOK'
    BY <1>2, <1>3 DEF IInv, TypeOK
<1>5. RowsObeyRules'
    BY <1>2 DEF IInv, RowsObeyRules, Obeys, RowCheck
<1>6. UpdatesObey'
    BY <1>2, <1>3 DEF UpdatesObey, Obeys
<1>7. LeftBelow'
    BY <1>2 DEF IInv, LeftBelow
<1> QED BY <1>4, <1>5, <1>6, <1>7 DEF IInv

\* A created row obeys the rules because the create checked all its columns.
LEMMA CreateKeepsIInv ==
    ASSUME IInv, NEW c \in DOMAIN Columns, NEW v \in Columns[c], Create(c, v)
    PROVE  IInv'
<1> DEFINE new == Created(Sent(Payload.create, c, v))
<1>1. /\ row = NoRow /\ row' = new /\ Obeys(new, DOMAIN new) /\ RowCheck(new)
      /\ c \in Payload.create
    BY DEF Create
<1>2. IsRow(new)
    BY <1>1, CreatedIsRow DEF IInv, TypeOK
<1>3. writes' \in 0 .. MaxWrites /\ deleted' \in BOOLEAN
  <2>1. writes \in 0 .. MaxWrites /\ writes < MaxWrites /\ writes' = writes + 1
      BY DEF Create, IInv, TypeOK
  <2> QED BY <2>1, CrudAssumption DEF Create, IInv, TypeOK
<1>4. left' = {}
    BY <1>1 DEF Create, IInv, LeftBelow
<1>5. UNCHANGED <<entity, form>> /\ DOMAIN update' = Client
      /\ \A a \in Client : update'[a] \in {update[a], NoRow}
    BY DEF Create, IInv
<1> HIDE DEF new
<1> QED BY <1>1, <1>2, <1>3, <1>4, <1>5, NewRowKeepsIInv

\* A built row obeys the rules although nobody checks it: no default of a builder
\* is refused, and the values it is given are not.
LEMMA BuildAndInsertKeepsIInv == ASSUME IInv, BuildAndInsert PROVE IInv'
<1> DEFINE given == [c \in DOMAIN Columns \ DOMAIN Defaults |-> Plain(c)]
           built == Built(given)
<1>1. row = NoRow /\ row' = built /\ RowCheck(built)
    BY DEF BuildAndInsert
<1>2. entity \in Entities /\ Fits(Columns, Payload, Catalogue[entity].forced)
      /\ Builds(Columns, Defaults, Rules)
    BY TableFacts DEF IInv, TypeOK, WellMade, Defaults
<1>3. \A c \in DOMAIN Columns : Plain(c) \in Columns[c] /\ <<c, Plain(c)>> \notin Rules.refused
    BY <1>2, PlainValues
<1>4. /\ DOMAIN built = DOMAIN Columns
      /\ \A c \in DOMAIN Columns :
             built[c] = IF c \in DOMAIN Defaults THEN Defaults[c] ELSE Plain(c)
    BY <1>2 DEF Built, Over, Builds
<1>5. writes' \in 0 .. MaxWrites /\ deleted' \in BOOLEAN
  <2>1. writes \in 0 .. MaxWrites /\ writes < MaxWrites /\ writes' = writes + 1
      BY DEF BuildAndInsert, IInv, TypeOK
  <2> QED BY <2>1, CrudAssumption DEF BuildAndInsert, IInv, TypeOK
<1>6. left' = {}
    BY <1>1 DEF BuildAndInsert, IInv, LeftBelow
<1>7. UNCHANGED <<entity, form>> /\ DOMAIN update' = Client
      /\ \A a \in Client : update'[a] \in {update[a], NoRow}
    BY DEF BuildAndInsert, IInv
<1> HIDE DEF built
<1>8. IsRow(built) /\ Obeys(built, DOMAIN built)
  <2>1. \A c \in DOMAIN built : built[c] \in Columns[c] /\ <<c, built[c]>> \notin Rules.refused
      BY <1>2, <1>3, <1>4 DEF Builds
  <2> QED BY <1>4, <2>1 DEF IsRow, Obeys
<1> QED BY <1>1, <1>5, <1>6, <1>7, <1>8, NewRowKeepsIInv

\* A minted price is made of plain values.
LEMMA MintKeepsIInv == ASSUME IInv, Mint PROVE IInv'
<1> DEFINE new == [c \in DOMAIN Columns |-> Plain(c)]
<1>1. row = NoRow /\ row' = new /\ entity = "supplier_price"
    BY DEF Mint
<1>2. IsRow(new) /\ Obeys(new, DOMAIN new)
    BY PlainValues DEF IsRow, Obeys, IInv, TypeOK
<1>3. RowCheck(new)
    BY <1>1 DEF RowCheck
<1>4. left' = {} /\ UNCHANGED <<entity, form>> /\ DOMAIN update' = Client
      /\ \A a \in Client : update'[a] \in {update[a], NoRow}
    BY <1>1 DEF Mint, IInv, LeftBelow
<1>5. writes' \in 0 .. MaxWrites /\ deleted' \in BOOLEAN
    BY DEF Mint, IInv, TypeOK
<1> HIDE DEF new
<1> QED BY <1>1, <1>2, <1>3, <1>4, <1>5, NewRowKeepsIInv

\* What a row leaves by declared moves ranks below where it arrives, and so
\* does everything it left before.
LEMMA LeavingClimbs ==
    ASSUME IInv, entity \in Acyclic, NEW new, MovesDeclared(row, new),
           NEW p \in left \union Leaves(row, new)
    PROVE  p[1] \in DOMAIN Machines /\ StateRank(p[2]) < StateRank(new[p[1]])
<1>1. Machines = DeclaredMovesOf[entity]
    BY MovesClimb DEF Machines
<1>2. ASSUME NEW c \in DOMAIN Machines, new[c] # row[c]
      PROVE  StateRank(row[c]) < StateRank(new[c])
  <2>1. <<row[c], new[c]>> \in DeclaredMovesOf[entity][c] /\ c \in DOMAIN DeclaredMovesOf[entity]
      BY <1>1, <1>2 DEF MovesDeclared
  <2>2. PICK m : m = <<row[c], new[c]>>
      OBVIOUS
  <2>3. StateRank(m[1]) < StateRank(m[2])
      BY <2>1, <2>2, MovesClimb
  <2> QED BY <2>2, <2>3
<1>3. \A s : StateRank(s) \in Int
    BY DEF StateRank
<1>4. CASE p \in left
  <2>1. p[1] \in DOMAIN Machines /\ StateRank(p[2]) < StateRank(row[p[1]])
      BY <1>4 DEF IInv, LeftBelow
  <2>2. CASE new[p[1]] = row[p[1]]
      BY <2>1, <2>2
  <2>3. CASE new[p[1]] # row[p[1]]
    <3>1. StateRank(row[p[1]]) < StateRank(new[p[1]])
        BY <1>2, <2>1, <2>3
    <3> QED BY <1>3, <2>1, <3>1
  <2> QED BY <2>2, <2>3
<1>5. CASE p \in Leaves(row, new)
  <2>1. PICK c \in DOMAIN Machines : new[c] # row[c] /\ p = <<c, row[c]>>
      BY <1>5 DEF Leaves
  <2> QED BY <1>2, <2>1
<1> QED BY <1>4, <1>5

\* A verb moves a column that no rule is about.
LEMMA VerbKeepsIInv ==
    ASSUME IInv, NEW c \in DOMAIN Columns, NEW v \in Columns[c], Verb(c, v)
    PROVE  IInv'
<1> DEFINE new == [row EXCEPT ![c] = v]
<1>1. /\ row # NoRow /\ row' = new /\ left' = left \union Leaves(row, new)
      /\ c \in DOMAIN Machines /\ <<row[c], v>> \in Machines[c]
    BY DEF Verb, Live
<1>2. IsRow(row) /\ Obeys(row, DOMAIN row) /\ RowCheck(row)
    BY <1>1 DEF IInv, TypeOK, RowsObeyRules
<1>3. /\ DOMAIN new = DOMAIN row /\ DOMAIN row = DOMAIN Columns
      /\ \A k \in DOMAIN new : new[k] = IF k = c THEN v ELSE row[k]
    BY <1>2 DEF IsRow
<1>4. IsRow(new)
    BY <1>2, <1>3 DEF IsRow
<1>5. entity \in DOMAIN DeclaredMovesOf /\ Machines = DeclaredMovesOf[entity]
    BY <1>1 DEF Machines
<1>6. <<c, v>> \notin Rules.refused
    BY <1>1, <1>5, VerbColumnsFree DEF Rules
<1>7. Obeys(new, DOMAIN new)
    BY <1>2, <1>3, <1>6 DEF Obeys
<1>8. RowCheck(new)
  <2>1. entity # "purchase_order_item"
      BY <1>5 DEF DeclaredMovesOf
  <2> QED BY <2>1 DEF RowCheck
<1>9. MovesDeclared(row, new)
  <2> SUFFICES ASSUME NEW k \in DOMAIN Machines, new[k] # row[k]
               PROVE  <<row[k], new[k]>> \in Machines[k]
      BY DEF MovesDeclared
  <2>1. k = c
    <3>1. k \notin DOMAIN row => new[k] = row[k] \/ k = c
        OBVIOUS
    <3> QED BY <3>1
  <2> QED BY <1>1, <1>3, <2>1
<1>10. entity \in Acyclic => \A p \in left' :
           p[1] \in DOMAIN Machines /\ StateRank(p[2]) < StateRank(new[p[1]])
  <2> HIDE DEF new
  <2> QED BY <1>1, <1>9, LeavingClimbs
<1>11. UNCHANGED <<entity, form>> /\ DOMAIN update' = Client
       /\ \A a \in Client : update'[a] \in {update[a], NoRow}
    BY DEF Verb, IInv
<1>12. writes' \in 0 .. MaxWrites /\ deleted' \in BOOLEAN
  <2>1. writes \in 0 .. MaxWrites /\ writes < MaxWrites /\ writes' = writes + 1
      BY DEF Verb, IInv, TypeOK
  <2> QED BY <2>1, CrudAssumption DEF Verb, IInv, TypeOK
<1> HIDE DEF new
<1> QED BY <1>1, <1>4, <1>7, <1>8, <1>10, <1>11, <1>12, NewRowKeepsIInv

\* What an update writes obeys the rules column by column: what it changes was
\* checked, and the rest was obeyed by the row it read or by the row it hits.
LEMMA WriteKeepsIInv == ASSUME IInv, NEW a \in Client, Write(a) PROVE IInv'
<1>1. PICK columns \in {Changed(update[a].before, update[a].after), DOMAIN Columns} :
          LET new == [c \in DOMAIN Columns |-> IF c \in columns THEN update[a].after[c] ELSE row[c]] IN
          /\ RowCheck(new) /\ MovesDeclared(row, new) /\ GuardsPass(row, new)
          /\ row' = new
          /\ left' = left \union Leaves(row, new)
    BY DEF Write
<1>2. PICK new :
          new = [c \in DOMAIN Columns |-> IF c \in columns THEN update[a].after[c] ELSE row[c]]
    OBVIOUS
<1>3. /\ RowCheck(new) /\ MovesDeclared(row, new) /\ row' = new
      /\ left' = left \union Leaves(row, new)
    BY <1>1, <1>2
<1>4. /\ update[a] # NoRow /\ update' = [update EXCEPT ![a] = NoRow]
      /\ UNCHANGED <<entity, deleted, form, writes>>
    BY DEF Write
<1>5. IsRow(update[a].after) /\ Obeys(update[a].after, DOMAIN Columns)
    BY <1>4 DEF IInv, TypeOK, UpdatesObey
<1>6. row # NoRow => IsRow(row) /\ Obeys(row, DOMAIN row)
    BY DEF IInv, TypeOK, RowsObeyRules
<1>7. row # NoRow
    BY <1>4 DEF IInv, UpdatesObey
<1>8. IsRow(new) /\ Obeys(new, DOMAIN new)
  <2>1. DOMAIN new = DOMAIN Columns
      BY <1>2
  <2>2. ASSUME NEW c \in DOMAIN Columns
        PROVE  new[c] \in Columns[c] /\ <<c, new[c]>> \notin Rules.refused
    <3>1. new[c] = update[a].after[c] \/ new[c] = row[c]
        BY <1>2
    <3>2. update[a].after[c] \in Columns[c] /\ <<c, update[a].after[c]>> \notin Rules.refused
        BY <1>5 DEF IsRow, Obeys
    <3>3. row[c] \in Columns[c] /\ <<c, row[c]>> \notin Rules.refused
        BY <1>6, <1>7 DEF IsRow, Obeys
    <3> QED BY <3>1, <3>2, <3>3
  <2> QED BY <2>1, <2>2 DEF IsRow, Obeys
<1>9. /\ DOMAIN update' = Client /\ \A b \in Client : update'[b] \in {update[b], NoRow}
      /\ writes' \in 0 .. MaxWrites /\ deleted' \in BOOLEAN
    BY <1>4 DEF IInv, TypeOK
<1>10. entity \in Acyclic => \A p \in left' :
           p[1] \in DOMAIN Machines /\ StateRank(p[2]) < StateRank(new[p[1]])
    BY <1>3, LeavingClimbs
<1> QED BY <1>3, <1>4, <1>8, <1>9, <1>10, NewRowKeepsIInv

\* An update starts with a row that agrees with the stored one wherever the
\* rules were not checked.
LEMMA StartsKeepsIInv ==
    ASSUME IInv, NEW a \in Client, NEW after, IsRow(after), Starts(a, after)
    PROVE  IInv'
<1>1. /\ row # NoRow /\ AllowedUpdate(row, after)
      /\ update' = [update EXCEPT ![a] = [before |-> row, after |-> after]]
      /\ UNCHANGED <<entity, row, form, left>>
    BY DEF Starts, Live
<1>2. IsRow(row) /\ Obeys(row, DOMAIN row)
    BY <1>1 DEF IInv, TypeOK, RowsObeyRules
<1>3. Obeys(after, DOMAIN Columns)
  <2> SUFFICES ASSUME NEW c \in DOMAIN Columns PROVE <<c, after[c]>> \notin Rules.refused
      BY DEF Obeys
  <2>1. CASE after[c] = row[c]
      BY <1>2, <2>1 DEF IsRow, Obeys
  <2>2. CASE after[c] # row[c]
    <3>1. c \in Changed(row, after)
        BY <2>2 DEF Changed, IsRow
    <3> QED BY <1>1, <3>1 DEF AllowedUpdate, Obeys
  <2> QED BY <2>1, <2>2
<1>4. DOMAIN form' = Client /\ DOMAIN update' = Client
      /\ \A b \in Client \ {a} : update'[b] = update[b]
      /\ update'[a].before = row /\ update'[a].after = after
    BY <1>1 DEF IInv
<1>5. writes' \in 0 .. MaxWrites /\ deleted' \in BOOLEAN
  <2>1. writes \in 0 .. MaxWrites /\ writes < MaxWrites /\ writes' = writes + 1
      BY DEF Starts, IInv, TypeOK
  <2> QED BY <2>1, CrudAssumption DEF Starts, IInv, TypeOK
<1> QED BY <1>1, <1>2, <1>3, <1>4, <1>5, SameRowKeepsIInv

\* A replacement and a patch start an update with a row.
LEMMA UpdatesKeepIInv ==
    ASSUME IInv, NEW a \in Client, NEW c \in DOMAIN Columns, NEW v \in Columns[c],
           Put(a, c, v) \/ Patch(a, c, v)
    PROVE  IInv'
<1>1. row # NoRow /\ IsRow(row) /\ entity \in Entities
    BY DEF Put, Patch, Starts, Live, IInv, TypeOK
<1>2. CASE Put(a, c, v)
  <2>1. IsRow(form[a])
      BY <1>2 DEF Put, IInv, TypeOK
  <2>2. IsRow(Replaced(a, c, v))
      BY <1>1, <2>1, ReplacedIsRow
  <2> QED BY <1>2, <2>2, StartsKeepsIInv DEF Put
<1>3. CASE Patch(a, c, v)
  <2>1. IsRow([row EXCEPT ![c] = v])
      BY <1>1 DEF IsRow
  <2> QED BY <1>3, <2>1, StartsKeepsIInv DEF Patch
<1> QED BY <1>2, <1>3

\* Reading, giving up, the trash and back.
LEMMA OtherStepsKeepIInv ==
    ASSUME IInv,
           \/ Delete \/ Restore \/ UNCHANGED vars
           \/ \E a \in Client : Fetch(a) \/ Abandon(a)
    PROVE  IInv'
<1>1. UNCHANGED <<entity, row, left, writes>>
    BY DEF Delete, Restore, Fetch, Abandon, vars
<1>2. writes' \in 0 .. MaxWrites
    BY <1>1 DEF IInv, TypeOK
<1>3. deleted' \in BOOLEAN
    BY DEF Delete, Restore, Fetch, Abandon, vars, IInv, TypeOK
<1>4. /\ DOMAIN form' = Client /\ DOMAIN update' = Client
      /\ \A a \in Client : form'[a] \in {form[a], row, NoRow}
      /\ \A a \in Client : row # NoRow \/ form'[a] \in {form[a], NoRow}
      /\ \A a \in Client : update'[a] \in {update[a], NoRow}
    BY DEF Delete, Restore, Fetch, Abandon, vars, IInv, Live
<1> QED BY <1>1, <1>2, <1>3, <1>4, SameRowKeepsIInv

\* The row leaves the trash with all that was fetched of it and begun on it.
LEMMA EmptyTrashKeepsIInv == ASSUME IInv, EmptyTrash PROVE IInv'
<1>1. /\ row' = NoRow /\ left' = {} /\ UNCHANGED <<entity, writes>>
      /\ DOMAIN form' = Client /\ DOMAIN update' = Client
      /\ \A a \in Client : form'[a] = NoRow /\ update'[a] = NoRow
    BY DEF EmptyTrash
<1>2. deleted' \in BOOLEAN
    BY DEF EmptyTrash
<1>3. TypeOK'
    BY <1>1, <1>2 DEF IInv, TypeOK
<1> QED BY <1>1, <1>3 DEF IInv, RowsObeyRules, UpdatesObey, LeftBelow

LEMMA StepKeepsIInv == IInv /\ [Next]_vars => IInv'
<1> SUFFICES ASSUME IInv, [Next]_vars PROVE IInv'
    OBVIOUS
<1>1. ASSUME NEW c \in DOMAIN Columns, NEW v \in Columns[c],
             \/ Create(c, v) \/ Verb(c, v)
             \/ \E a \in Client : Put(a, c, v) \/ Patch(a, c, v)
      PROVE  IInv'
    BY <1>1, CreateKeepsIInv, VerbKeepsIInv, UpdatesKeepIInv
<1>2. CASE BuildAndInsert \/ Mint \/ Delete \/ Restore \/ EmptyTrash
    BY <1>2, MintKeepsIInv, BuildAndInsertKeepsIInv, OtherStepsKeepIInv, EmptyTrashKeepsIInv
<1>3. CASE \E a \in Client : Fetch(a) \/ Write(a) \/ Abandon(a)
    BY <1>3, WriteKeepsIInv, OtherStepsKeepIInv
<1>4. CASE UNCHANGED vars
    BY <1>4, OtherStepsKeepIInv
<1> QED BY <1>1, <1>2, <1>3, <1>4 DEF Next

-----------------------------------------------------------------------------
(* The theorems.                                                           *)

\* The inductive invariant, for any number of administrators and writes.
THEOREM InductiveInvariant == Spec => []IInv
<1> QED BY InitEstablishesIInv, StepKeepsIInv, PTL DEF Spec

\* What is stored, fetched or about to be written is a row of its table: no
\* payload, forced value or builder default is of another type (the generated
\* DTOs and entities).
THEOREM TypeCorrect == Spec => []TypeOK
<1>1. IInv => TypeOK
    BY DEF IInv
<1> QED BY <1>1, InductiveInvariant, PTL

\* Stored rows obey all the rules of their table, although an update checks
\* only the columns it changes and other updates and verbs run in between.
THEOREM StoredRowsObey == Spec => []RowsObeyRules
<1>1. IInv => RowsObeyRules
    BY DEF IInv
<1> QED BY <1>1, InductiveInvariant, PTL

\* A request, a quotation and an agreement never come back to a state they have
\* left, however old the row is that an update writes back: the triggers let
\* climbing moves through only.
THEOREM NoStateReturns == Spec => []StatesNeverReturn
<1>1. ASSUME IInv PROVE StatesNeverReturn
  <2> SUFFICES ASSUME entity \in Acyclic, NEW c \in DOMAIN Machines, <<c, row[c]>> \in left
               PROVE  FALSE
      BY DEF StatesNeverReturn
  <2>1. PICK p : p = <<c, row[c]>>
      OBVIOUS
  <2>2. StateRank(p[2]) < StateRank(row[p[1]])
      BY <1>1, <2>1 DEF IInv, LeftBelow
  <2>3. StateRank(row[c]) \in Int
      BY DEF StateRank
  <2> QED BY <2>1, <2>2, <2>3
<1>2. IInv => StatesNeverReturn
    BY <1>1
<1> QED BY <1>2, InductiveInvariant, PTL
=============================================================================
