----------------------------- MODULE OrderStore -----------------------------
(***************************************************************************)
(* The `orders' table and the SQL statements of src/models/order.ts, as    *)
(* operators from table to table.  A table is a function from order ids to *)
(* rows.  Every UPDATE is a single statement, hence atomic, and sets the   *)
(* status and appends to the JSONB log together.  Kept of a row is what    *)
(* the rest of the system reacts to: the status, the DEX, the transaction  *)
(* hash (the number of the swap it names) and the terminal stages the log  *)
(* mentions.  Prices, amounts, reasons and timestamps are left out.        *)
(***************************************************************************)
EXTENDS Naturals

CONSTANT Dex  \* the venues, DexProvider: raydium and meteora

Status == {"pending", "routing", "building", "submitted", "confirmed", "failed"}

Terminal == {"confirmed", "failed"}

(* A row; the status "absent" stands for no row with that id. *)
Row == [status : Status \cup {"absent"},
        dex    : Dex \cup {"none"},
        tx     : Nat,
        log    : SUBSET Terminal]

AbsentRow == [status |-> "absent", dex |-> "none", tx |-> 0, log |-> {}]

Exists(table, id) == table[id].status # "absent"

(* Mutant: the row starts in a status the enumeration does not have. *)
CreateOrderUnlisted(table, id) ==
  [table EXCEPT ![id] = [AbsentRow EXCEPT !.status = "queued"]]

(* INSERT: a fresh row in status pending. *)
CreateOrder(table, id) ==
  [table EXCEPT ![id] = [AbsentRow EXCEPT !.status = "pending"]]

(* SET status = $2, logs = logs || $3: the part every UPDATE shares. *)
WithStage(row, stage) ==
  [row EXCEPT !.status = stage, !.log = @ \cup ({stage} \cap Terminal)]

(* UPDATE ... WHERE id = $1: no row, no effect, and no error either. *)
UpdateWhere(table, id, row) ==
  IF Exists(table, id) THEN [table EXCEPT ![id] = row] ELSE table

UpdateOrderStatus(table, id, status) ==
  UpdateWhere(table, id, WithStage(table[id], status))

UpdateOrderRouting(table, id, dex) ==
  UpdateWhere(table, id, [WithStage(table[id], "routing") EXCEPT !.dex = dex])

UpdateOrderConfirmed(table, id, tx) ==
  UpdateWhere(table, id, [WithStage(table[id], "confirmed") EXCEPT !.tx = tx])

UpdateOrderFailed(table, id) ==
  UpdateWhere(table, id, WithStage(table[id], "failed"))
=============================================================================
