--------------------------- MODULE EntityCatalogue ---------------------------
(***************************************************************************)
(* The tables of the module as its generated code knows them: of every     *)
(* entity                                                                  *)
(*   Columns   what a stored value of each column can be,                  *)
(*   Payload   the columns a create and an update may send,                *)
(*   Forced    what a create stores whatever was sent,                     *)
(*   Defaults  what its builder puts where nothing is given,               *)
(*   Rules     the columns only verbs move, and the values refused.        *)
(*                                                                         *)
(* Data is cut down to what the rules tell apart: a text is empty, fits    *)
(* its column or is too long, a number is negative, zero or positive, all  *)
(* references are alike and so are all dates.                              *)
(***************************************************************************)
EXTENDS Integers, OrderBand

CONSTANT Absent     \* a column that is NULL

Text == {"empty", "fits", "long"}
Ref == {"some"}
Date == {"someday"}
Number == {-1, 0, 1}
Optional(values) == values \union {Absent}

\* NULL is no value.
ASSUME AbsentAssumption ==
    Absent \notin Text /\ Absent \notin Ref /\ Absent \notin Date /\ Absent \notin Number

\* The generated enums; a default is the value of a builder that is given none.
MaterialRequestType == {"purchase", "transfer", "subcontract"}
PurchaseDocStatus == {"draft", "submitted", "ordered", "cancelled"}
PurchaseAgreementStatus == {"draft", "open", "done", "cancelled"}
AgreementKind == {"blanket"}
DoubleValidation == {"one_step", "two_step"}
PurchaseOrderStatus == Status
PurchaseReceiptStatus == {"pending", "partial", "full"}
PurchaseInvoiceStatus == {"no", "to_invoice", "invoiced"}
QtyReceivedMethod == {"stock_moves", "manual"}
PurchaseMethod == {"on_received", "purchase"}
OrderKind == {"standard", "subcontract"}

\* Rules, as the <<column, value>> pairs they refuse.
Required(columns) == columns \X {Absent, "empty"}
MaxLength(columns) == columns \X {"long"}
NonNegative(columns) == columns \X {-1}
Positive(columns) == columns \X {-1, 0}

-----------------------------------------------------------------------------
(* Material request.                                                       *)

MaterialRequestColumns ==
    [request_number |-> Text, request_type |-> MaterialRequestType,
     status |-> PurchaseDocStatus, request_date |-> Date,
     schedule_date |-> Optional(Date), notes |-> Optional(Text)]

MaterialRequestPayload ==
    [create |-> DOMAIN MaterialRequestColumns \ {"status"},
     update |-> DOMAIN MaterialRequestColumns]

MaterialRequestForced == [status |-> "draft"]

MaterialRequestDefaults ==
    [request_type |-> "purchase", status |-> "draft", schedule_date |-> Absent,
     notes |-> Absent]

MaterialRequestRules ==
    [verbsOnly |-> {"status"},
     refused |-> Required({"request_number"}) \union
                 MaxLength({"request_number", "notes"})]

-----------------------------------------------------------------------------
(* Material request item.                                                  *)

MaterialRequestItemColumns == [request_id |-> Ref, item_id |-> Ref, quantity |-> Number]

MaterialRequestItemPayload ==
    [create |-> DOMAIN MaterialRequestItemColumns,
     update |-> DOMAIN MaterialRequestItemColumns]

MaterialRequestItemForced == <<>>

MaterialRequestItemDefaults == <<>>

MaterialRequestItemRules ==
    [verbsOnly |-> {},
     refused |-> Required({"request_id", "item_id"}) \union
                 NonNegative({"quantity"})]

-----------------------------------------------------------------------------
(* Purchase agreement.                                                     *)

PurchaseAgreementColumns ==
    [agreement_number |-> Text, agreement_kind |-> AgreementKind,
     status |-> PurchaseAgreementStatus, supplier_id |-> Ref, currency |-> Text,
     date_start |-> Optional(Date), date_end |-> Optional(Date),
     notes |-> Optional(Text)]

PurchaseAgreementPayload ==
    [create |-> DOMAIN PurchaseAgreementColumns \ {"status"},
     update |-> DOMAIN PurchaseAgreementColumns]

PurchaseAgreementForced == [status |-> "draft"]

PurchaseAgreementDefaults ==
    [agreement_kind |-> "blanket", status |-> "draft", currency |-> "fits",
     date_start |-> Absent, date_end |-> Absent, notes |-> Absent]

PurchaseAgreementRules ==
    [verbsOnly |-> {"status"},
     refused |-> Required({"agreement_number", "supplier_id"}) \union
                 MaxLength({"agreement_number", "currency", "notes"})]

-----------------------------------------------------------------------------
(* Purchase agreement line.                                                *)

PurchaseAgreementLineColumns ==
    [agreement_id |-> Ref, item_id |-> Ref, quantity |-> Number, rate |-> Number,
     qty_ordered |-> Number]

PurchaseAgreementLinePayload ==
    [create |-> DOMAIN PurchaseAgreementLineColumns,
     update |-> DOMAIN PurchaseAgreementLineColumns]

PurchaseAgreementLineForced == <<>>

PurchaseAgreementLineDefaults == [qty_ordered |-> 0]

PurchaseAgreementLineRules ==
    [verbsOnly |-> {},
     refused |-> Required({"agreement_id", "item_id"}) \union
                 Positive({"quantity", "rate"}) \union
                 NonNegative({"qty_ordered"})]

-----------------------------------------------------------------------------
(* Purchase company setting.                                               *)

PurchaseCompanySettingColumns ==
    [double_validation |-> DoubleValidation, double_validation_amount |-> Number,
     company_currency |-> Text, send_reminder |-> BOOLEAN]

PurchaseCompanySettingPayload ==
    [create |-> DOMAIN PurchaseCompanySettingColumns,
     update |-> DOMAIN PurchaseCompanySettingColumns]

PurchaseCompanySettingForced == <<>>

PurchaseCompanySettingDefaults ==
    [double_validation |-> "one_step", double_validation_amount |-> 1,
     company_currency |-> "fits", send_reminder |-> TRUE]

PurchaseCompanySettingRules ==
    [verbsOnly |-> {},
     refused |-> NonNegative({"double_validation_amount"}) \union
                 MaxLength({"company_currency"})]

-----------------------------------------------------------------------------
(* Purchase order.                                                         *)

PurchaseOrderColumns ==
    [po_number |-> Text, supplier_quotation_id |-> Optional(Ref),
     order_kind |-> OrderKind, branch_id |-> Optional(Ref), supplier_id |-> Ref,
     status |-> PurchaseOrderStatus, receipt_status |-> PurchaseReceiptStatus,
     invoice_status |-> PurchaseInvoiceStatus, order_date |-> Date,
     schedule_date |-> Optional(Date), currency |-> Text, currency_rate |-> Number,
     acknowledged |-> BOOLEAN, locked |-> BOOLEAN, date_approve |-> Optional(Date),
     agreement_id |-> Optional(Ref), project_id |-> Optional(Ref),
     subtotal |-> Number, tax_rate |-> Number, tax_amount |-> Number,
     total |-> Number, notes |-> Optional(Text)]

PurchaseOrderPayload ==
    [create |-> DOMAIN PurchaseOrderColumns \ {"status", "receipt_status", "invoice_status"},
     update |-> DOMAIN PurchaseOrderColumns \ {"receipt_status", "invoice_status"}]

PurchaseOrderForced == [status |-> "draft", receipt_status |-> "pending", invoice_status |-> "no"]

PurchaseOrderDefaults ==
    [supplier_quotation_id |-> Absent, order_kind |-> "standard",
     branch_id |-> Absent, status |-> "draft", receipt_status |-> "pending",
     invoice_status |-> "no", schedule_date |-> Absent, currency |-> "fits",
     currency_rate |-> 1, acknowledged |-> FALSE, locked |-> FALSE,
     date_approve |-> Absent, agreement_id |-> Absent, project_id |-> Absent,
     subtotal |-> 0, tax_rate |-> 0, tax_amount |-> 0, total |-> 0, notes |-> Absent]

PurchaseOrderRules ==
    [verbsOnly |-> {"invoice_status", "receipt_status", "status"},
     refused |-> Required({"po_number", "supplier_id"}) \union
                 MaxLength({"po_number", "currency", "notes"}) \union
                 Positive({"currency_rate"}) \union
                 NonNegative({"subtotal", "tax_rate", "tax_amount", "total"})]

-----------------------------------------------------------------------------
(* Purchase order item.                                                    *)

PurchaseOrderItemColumns ==
    [order_id |-> Ref, item_id |-> Ref, warehouse_id |-> Optional(Ref),
     description |-> Optional(Text), quantity |-> Number, rate |-> Number,
     line_amount |-> Number, received_qty |-> Number, billed_qty |-> Number,
     qty_received_method |-> QtyReceivedMethod, purchase_method |-> PurchaseMethod]

PurchaseOrderItemPayload ==
    [create |-> DOMAIN PurchaseOrderItemColumns,
     update |-> DOMAIN PurchaseOrderItemColumns]

PurchaseOrderItemForced == <<>>

PurchaseOrderItemDefaults ==
    [warehouse_id |-> Absent, description |-> Absent, line_amount |-> 0,
     received_qty |-> 0, billed_qty |-> 0, qty_received_method |-> "stock_moves",
     purchase_method |-> "on_received"]

PurchaseOrderItemRules ==
    [verbsOnly |-> {},
     refused |-> Required({"order_id", "item_id"}) \union
                 MaxLength({"description"}) \union
                 NonNegative({"quantity", "rate", "line_amount", "received_qty", "billed_qty"})]

-----------------------------------------------------------------------------
(* Request for quotation.                                                  *)

RequestForQuotationColumns ==
    [rfq_number |-> Text, material_request_id |-> Optional(Ref),
     status |-> PurchaseDocStatus, rfq_date |-> Date, response_due |-> Optional(Date)]

RequestForQuotationPayload ==
    [create |-> DOMAIN RequestForQuotationColumns,
     update |-> DOMAIN RequestForQuotationColumns]

RequestForQuotationForced == <<>>

RequestForQuotationDefaults == [material_request_id |-> Absent, status |-> "draft", response_due |-> Absent]

RequestForQuotationRules ==
    [verbsOnly |-> {},
     refused |-> Required({"rfq_number"}) \union
                 MaxLength({"rfq_number"})]

-----------------------------------------------------------------------------
(* Rfq item.                                                               *)

RfqItemColumns == [rfq_id |-> Ref, item_id |-> Ref, quantity |-> Number]

RfqItemPayload ==
    [create |-> DOMAIN RfqItemColumns,
     update |-> DOMAIN RfqItemColumns]

RfqItemForced == <<>>

RfqItemDefaults == <<>>

RfqItemRules ==
    [verbsOnly |-> {},
     refused |-> Required({"rfq_id", "item_id"}) \union
                 NonNegative({"quantity"})]

-----------------------------------------------------------------------------
(* Rfq supplier.                                                           *)

RfqSupplierColumns == [rfq_id |-> Ref, supplier_id |-> Ref]

RfqSupplierPayload ==
    [create |-> DOMAIN RfqSupplierColumns,
     update |-> DOMAIN RfqSupplierColumns]

RfqSupplierForced == <<>>

RfqSupplierDefaults == <<>>

RfqSupplierRules ==
    [verbsOnly |-> {},
     refused |-> Required({"rfq_id", "supplier_id"})]

-----------------------------------------------------------------------------
(* Supplier price.                                                         *)

SupplierPriceColumns ==
    [supplier_id |-> Ref, item_id |-> Ref, price |-> Number, currency |-> Text,
     agreement_id |-> Ref, agreement_line_id |-> Ref]

SupplierPricePayload ==
    [create |-> DOMAIN SupplierPriceColumns,
     update |-> DOMAIN SupplierPriceColumns]

SupplierPriceForced == <<>>

SupplierPriceDefaults == [currency |-> "fits"]

SupplierPriceRules ==
    [verbsOnly |-> {},
     refused |-> Required({"supplier_id", "item_id", "agreement_id", "agreement_line_id"}) \union
                 Positive({"price"}) \union
                 MaxLength({"currency"})]

-----------------------------------------------------------------------------
(* Supplier quotation.                                                     *)

SupplierQuotationColumns ==
    [quotation_number |-> Text, rfq_id |-> Optional(Ref), supplier_id |-> Ref,
     status |-> PurchaseDocStatus, quotation_date |-> Date,
     valid_till |-> Optional(Date), currency |-> Text, notes |-> Optional(Text)]

SupplierQuotationPayload ==
    [create |-> DOMAIN SupplierQuotationColumns \ {"status"},
     update |-> DOMAIN SupplierQuotationColumns]

SupplierQuotationForced == [status |-> "draft"]

SupplierQuotationDefaults ==
    [rfq_id |-> Absent, status |-> "draft", valid_till |-> Absent,
     currency |-> "fits", notes |-> Absent]

SupplierQuotationRules ==
    [verbsOnly |-> {"status"},
     refused |-> Required({"quotation_number", "supplier_id"}) \union
                 MaxLength({"quotation_number", "currency", "notes"})]

-----------------------------------------------------------------------------
(* Supplier quotation item.                                                *)

SupplierQuotationItemColumns ==
    [quotation_id |-> Ref, item_id |-> Ref, quantity |-> Number, rate |-> Number,
     lead_time_days |-> Optional(Number)]

SupplierQuotationItemPayload ==
    [create |-> DOMAIN SupplierQuotationItemColumns,
     update |-> DOMAIN SupplierQuotationItemColumns]

SupplierQuotationItemForced == <<>>

SupplierQuotationItemDefaults == [lead_time_days |-> Absent]

SupplierQuotationItemRules ==
    [verbsOnly |-> {},
     refused |-> Required({"quotation_id", "item_id"}) \union
                 NonNegative({"quantity", "rate"})]

-----------------------------------------------------------------------------
(* Supplier reminder setting.                                              *)

SupplierReminderSettingColumns ==
    [supplier_id |-> Ref, receipt_reminder_email |-> BOOLEAN,
     reminder_days_before |-> Number]

SupplierReminderSettingPayload ==
    [create |-> DOMAIN SupplierReminderSettingColumns,
     update |-> DOMAIN SupplierReminderSettingColumns]

SupplierReminderSettingForced == <<>>

SupplierReminderSettingDefaults == [receipt_reminder_email |-> TRUE, reminder_days_before |-> 1]

SupplierReminderSettingRules ==
    [verbsOnly |-> {},
     refused |-> Required({"supplier_id"})]

-----------------------------------------------------------------------------
(* All of them.                                                            *)

Describe(columns, payload, forced, defaults, rules) ==
    [columns |-> columns, payload |-> payload, forced |-> forced, defaults |-> defaults,
     rules |-> rules]

Catalogue ==
    [material_request |->
        Describe(MaterialRequestColumns, MaterialRequestPayload, MaterialRequestForced,
                 MaterialRequestDefaults, MaterialRequestRules),
     material_request_item |->
        Describe(MaterialRequestItemColumns, MaterialRequestItemPayload, MaterialRequestItemForced,
                 MaterialRequestItemDefaults, MaterialRequestItemRules),
     purchase_agreement |->
        Describe(PurchaseAgreementColumns, PurchaseAgreementPayload, PurchaseAgreementForced,
                 PurchaseAgreementDefaults, PurchaseAgreementRules),
     purchase_agreement_line |->
        Describe(PurchaseAgreementLineColumns, PurchaseAgreementLinePayload, PurchaseAgreementLineForced,
                 PurchaseAgreementLineDefaults, PurchaseAgreementLineRules),
     purchase_company_setting |->
        Describe(PurchaseCompanySettingColumns, PurchaseCompanySettingPayload, PurchaseCompanySettingForced,
                 PurchaseCompanySettingDefaults, PurchaseCompanySettingRules),
     purchase_order |->
        Describe(PurchaseOrderColumns, PurchaseOrderPayload, PurchaseOrderForced,
                 PurchaseOrderDefaults, PurchaseOrderRules),
     purchase_order_item |->
        Describe(PurchaseOrderItemColumns, PurchaseOrderItemPayload, PurchaseOrderItemForced,
                 PurchaseOrderItemDefaults, PurchaseOrderItemRules),
     request_for_quotation |->
        Describe(RequestForQuotationColumns, RequestForQuotationPayload, RequestForQuotationForced,
                 RequestForQuotationDefaults, RequestForQuotationRules),
     rfq_item |->
        Describe(RfqItemColumns, RfqItemPayload, RfqItemForced,
                 RfqItemDefaults, RfqItemRules),
     rfq_supplier |->
        Describe(RfqSupplierColumns, RfqSupplierPayload, RfqSupplierForced,
                 RfqSupplierDefaults, RfqSupplierRules),
     supplier_price |->
        Describe(SupplierPriceColumns, SupplierPricePayload, SupplierPriceForced,
                 SupplierPriceDefaults, SupplierPriceRules),
     supplier_quotation |->
        Describe(SupplierQuotationColumns, SupplierQuotationPayload, SupplierQuotationForced,
                 SupplierQuotationDefaults, SupplierQuotationRules),
     supplier_quotation_item |->
        Describe(SupplierQuotationItemColumns, SupplierQuotationItemPayload, SupplierQuotationItemForced,
                 SupplierQuotationItemDefaults, SupplierQuotationItemRules),
     supplier_reminder_setting |->
        Describe(SupplierReminderSettingColumns, SupplierReminderSettingPayload, SupplierReminderSettingForced,
                 SupplierReminderSettingDefaults, SupplierReminderSettingRules)]

\* The moves the transition triggers let through, of the columns that have one.
AnyMove(values) == (values \X values) \ {<<v, v>> : v \in values}

DeclaredMovesOf ==
    [material_request |-> [status |-> {<<"draft", "submitted">>, <<"draft", "ordered">>,
                                       <<"submitted", "ordered">>}],
     supplier_quotation |-> [status |-> {<<"submitted", "ordered">>}],
     purchase_agreement |-> [status |-> {<<"draft", "open">>, <<"draft", "cancelled">>,
                                         <<"open", "cancelled">>, <<"open", "done">>}],
     purchase_order |-> [status |-> DeclaredMoves,
                         receipt_status |-> AnyMove(PurchaseReceiptStatus),
                         invoice_status |-> AnyMove(PurchaseInvoiceStatus)]]
=============================================================================
