----------------------------- MODULE OrderTable -----------------------------
(***************************************************************************)
(* A row of the table accrued_orders, as the queries of orders.sql.go and  *)
(* the methods of order_repo.go treat it.  Amounts are kopecks.            *)
(***************************************************************************)
EXTENDS Naturals

CONSTANT NULL  \* SQL's NULL

ASSUME NullAssumption == NULL \notin Nat

Statuses == {"NEW", "PROCESSING", "INVALID", "PROCESSED"}

FinalStatuses == {"INVALID", "PROCESSED"}

Row == [status : Statuses \cup {"ABSENT"}, amount : Nat \cup {NULL}]

NoRow == [status |-> "ABSENT", amount |-> NULL]

(* INSERT of a new order: the amount takes the column's DEFAULT 0.0.       *)
CreateAccrual == [status |-> "NEW", amount |-> 0]

(* UPDATE of a row, whatever is in it: the amount is NULL unless non-zero. *)
UpdateAccrualStatus(status, kopecks) ==
  [status |-> status, amount |-> IF kopecks = 0 THEN NULL ELSE kopecks]

(* Mutant: a query for the status NEW alone.                               *)
SelectedNew(row) == row.status = "NEW"

(* WHERE name_status IN ('NEW', 'PROCESSING')                              *)
SelectedForProcessing(row) == row.status \in {"NEW", "PROCESSING"}

(* A row with money in it.                                                 *)
Credited(row) == row.amount # NULL /\ row.amount # 0

=============================================================================
