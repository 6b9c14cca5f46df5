----------------------------- MODULE OrderBand -----------------------------
(***************************************************************************)
(* The five states of a purchase order and the moves between them that the *)
(* database declares.                                                      *)
(***************************************************************************)

Status == {"draft", "sent", "to_approve", "purchase", "cancelled"}

\* A line may be dropped, and a confirm starts, from these.
Editable == {"draft", "sent"}

\* The trigger purchase_orders_status_transition_check lets exactly these
\* pairs of a different old and new status through.
DeclaredMoves ==
    ({"draft"} \X {"sent", "to_approve", "purchase", "cancelled"})
    \union ({"sent"} \X {"draft", "to_approve", "purchase", "cancelled"})
    \union ({"to_approve"} \X {"draft", "purchase", "cancelled"})
    \union ({"purchase"} \X {"draft", "cancelled"})
    \union {<<"cancelled", "draft">>}
=============================================================================
