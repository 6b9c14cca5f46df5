-------------------------- MODULE MCReceiptReminder --------------------------
(* Two replicas, two orders of one supplier, two days.  Without a settings *)
(* row the orders are due on day 1, with a lead of 0 on day 2; with two    *)
(* rows the two orders are four rows of the claim, above the cap.  The     *)
(* first order is written by the verbs, the second by nobody else.         *)
EXTENDS ReceiptReminder, TLC

MCSupplierOf == [o \in Order |-> "s"]
MCSchedule == [o \in Order |-> 2]
MCVerbsOn == [o \in Order |-> IF o = "o1" THEN Verb \ {"touch"} ELSE {}]

Symmetry == Permutations(Runner) \union Permutations(Admin)
=============================================================================
