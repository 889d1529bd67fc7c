------------------------ MODULE OrderExecutionProofs ------------------------
(***************************************************************************)
(* Theorems about OrderExecution, for any number of orders, processes,     *)
(* slots, retries and stalls and every set of faults.                      *)
(*                                                                         *)
(* The argument has one invariant, StartsInv.  Most steps of a slot only   *)
(* move its label and write a row (Advances); the others each get a lemma  *)
(* of their own, one step per part of the invariant they can disturb.      *)
(***************************************************************************)
EXTENDS OrderExecution, FiniteSetTheorems, TLAPS

-----------------------------------------------------------------------------
(* The table operators *)

(* An UPDATE of a row leaves a table a table, and every row where it was.  *)
LEMMA UpdateKeepsRows ==
  ASSUME NEW table \in [Orders -> Row], NEW id \in Orders,
         NEW row \in Row, row.status # "absent"
  PROVE  /\ UpdateWhere(table, id, row) \in [Orders -> Row]
         /\ \A o \in Orders : Exists(table, o) => Exists(UpdateWhere(table, id, row), o)
BY DEF UpdateWhere, Exists, Row

(* A row with a new stage is a row. *)
LEMMA StageIsRow ==
  ASSUME NEW row \in Row, NEW stage \in Status
  PROVE  /\ WithStage(row, stage) \in Row
         /\ WithStage(row, stage).status # "absent"
BY DEF WithStage, Row, Status, Terminal

(* Keeps(table) says the same of a table that is to replace the present one. *)
Keeps(table) ==
  /\ table \in [Orders -> Row]
  /\ \A o \in Orders : Exists(db, o) => Exists(table, o)

(* Every UPDATE the processor makes keeps the table's rows. *)
LEMMA UpdatesKeep ==
  ASSUME db \in [Orders -> Row], NEW id \in Orders
  PROVE  /\ \A status \in Status : Keeps(UpdateOrderStatus(db, id, status))
         /\ \A dex \in Dex : Keeps(UpdateOrderRouting(db, id, dex))
         /\ \A tx \in Nat : Keeps(UpdateOrderConfirmed(db, id, tx))
         /\ Keeps(UpdateOrderFailed(db, id))
<1>1. db[id] \in Row
  OBVIOUS
<1>2. \A status \in Status : Keeps(UpdateOrderStatus(db, id, status))
  BY <1>1, StageIsRow, UpdateKeepsRows DEF Keeps, UpdateOrderStatus
<1>3. ASSUME NEW dex \in Dex
      PROVE  Keeps(UpdateOrderRouting(db, id, dex))
  <2>1. "routing" \in Status
    BY DEF Status
  <2>2. /\ WithStage(db[id], "routing") \in Row
        /\ WithStage(db[id], "routing").status # "absent"
    BY <1>1, <2>1, StageIsRow
  <2>3. /\ [WithStage(db[id], "routing") EXCEPT !.dex = dex] \in Row
        /\ [WithStage(db[id], "routing") EXCEPT !.dex = dex].status # "absent"
    BY <2>2 DEF Row
  <2> QED BY <2>3, UpdateKeepsRows DEF Keeps, UpdateOrderRouting
<1>4. ASSUME NEW tx \in Nat
      PROVE  Keeps(UpdateOrderConfirmed(db, id, tx))
  <2>1. "confirmed" \in Status
    BY DEF Status
  <2>2. /\ WithStage(db[id], "confirmed") \in Row
        /\ WithStage(db[id], "confirmed").status # "absent"
    BY <1>1, <2>1, StageIsRow
  <2>3. /\ [WithStage(db[id], "confirmed") EXCEPT !.tx = tx] \in Row
        /\ [WithStage(db[id], "confirmed") EXCEPT !.tx = tx].status # "absent"
    BY <2>2 DEF Row
  <2> QED BY <2>3, UpdateKeepsRows DEF Keeps, UpdateOrderConfirmed
<1>5. Keeps(UpdateOrderFailed(db, id))
  <2>1. "failed" \in Status
    BY DEF Status
  <2> QED BY <1>1, <2>1, StageIsRow, UpdateKeepsRows DEF Keeps, UpdateOrderFailed
<1> QED BY <1>2, <1>3, <1>4, <1>5

-----------------------------------------------------------------------------
(* The steps of a slot between taking a job and giving it back *)

(* Slot w moves on within its processor call: it keeps its order and its    *)
(* start, goes back before the swap never, and touches no job and no swap.  *)
Advances(w) ==
  /\ run[w].pc \in Label
  /\ run' \in [Slots -> Run]
  /\ \A v \in Slots \ {w} : run'[v] = run[v]
  /\ run'[w].pc \in Label
  /\ run'[w].order = run[w].order
  /\ run'[w].no = run[w].no
  /\ run'[w].pc \in BeforeSwap => run[w].pc \in BeforeSwap
  /\ run'[w].pc \in {"setDex", "setBuilding", "executeSwap"} => run'[w].dex \in Dex
  /\ Keeps(db')
  /\ pub' \in [Orders -> Status \cup {"none"}]
  /\ UNCHANGED <<faults, submission, job, late, swaps>>

(* A slot that is at some label has an order. *)
LEMMA BusyRun ==
  ASSUME TypeOK, NEW w \in Slots
  PROVE  /\ Busy(w) <=> run[w].pc \in Label
         /\ Busy(w) => /\ run[w] \in [pc : Label, order : Orders, no : Nat, attempt : Nat,
                                      dex : Dex \cup {"none"}]
                       /\ run[w].order \in Orders
                       /\ run[w].no \in Nat
BY DEF TypeOK, Run, Idle, Busy, Label, BeforeSwap, AfterSwap

(* Where a throw leads is behind the swap. *)
LEMMA CatchIsAfter ==
  ASSUME NEW w \in Slots
  PROVE  Catch(w) \in AfterSwap
BY DEF Catch, AfterSwap

(* A step to another label, the venue kept, is a step of Advances. *)
LEMMA GotoAdvances ==
  ASSUME TypeOK, DexChosen, NEW w \in Slots, run[w].pc \in Label,
         NEW label \in Label, run' = Goto(w, label),
         label \in BeforeSwap => run[w].pc \in BeforeSwap,
         label \in {"setDex", "setBuilding", "executeSwap"} =>
           run[w].pc \in {"setDex", "setBuilding", "executeSwap"},
         Keeps(db'), pub' \in [Orders -> Status \cup {"none"}],
         UNCHANGED <<faults, submission, job, late, swaps>>
  PROVE  Advances(w)
<1>1. run[w] \in [pc : Label, order : Orders, no : Nat, attempt : Nat,
                  dex : Dex \cup {"none"}]
  BY BusyRun
<1>2. run \in [Slots -> Run]
  BY DEF TypeOK
<1>3. /\ \A v \in Slots \ {w} : run'[v] = run[v]
      /\ run'[w] = [run[w] EXCEPT !.pc = label]
      /\ DOMAIN run' = Slots
  BY <1>2 DEF Goto
<1>4. [run[w] EXCEPT !.pc = label] \in Run
  BY <1>1 DEF Run
<1>5. run' \in [Slots -> Run]
  BY <1>2, <1>4 DEF Goto
<1>6. /\ run'[w].pc = label
      /\ run'[w].order = run[w].order
      /\ run'[w].no = run[w].no
      /\ run'[w].dex = run[w].dex
  BY <1>1, <1>3
<1> QED BY <1>3, <1>5, <1>6 DEF Advances, DexChosen

(* An awaited query, whichever way it ends. *)
LEMMA QueryAdvances ==
  ASSUME TypeOK, DexChosen, NEW w \in Slots, run[w].pc \in Label,
         NEW table, NEW next \in Label, NEW otherwise \in AfterSwap,
         Keeps(table),
         next \in BeforeSwap => run[w].pc \in BeforeSwap,
         next \in {"setDex", "setBuilding", "executeSwap"} =>
           run[w].pc \in {"setDex", "setBuilding", "executeSwap"},
         Query(w, table, next, otherwise)
  PROVE  Advances(w)
<1>1. Keeps(db)
  BY DEF TypeOK, Keeps
<1>2. /\ Keeps(db')
      /\ run' = Goto(w, next) \/ run' = Goto(w, otherwise)
      /\ pub' \in [Orders -> Status \cup {"none"}]
      /\ UNCHANGED <<faults, submission, job, late, swaps>>
  BY <1>1 DEF Query, TypeOK
<1>3. CASE run' = Goto(w, next)
  BY <1>2, <1>3, GotoAdvances
<1>4. CASE run' = Goto(w, otherwise)
  <2>1. /\ otherwise \in Label
        /\ otherwise \notin BeforeSwap
        /\ otherwise \notin {"setDex", "setBuilding", "executeSwap"}
    BY DEF Label, AfterSwap, BeforeSwap
  <2> QED BY <1>2, <1>4, <2>1, GotoAdvances
<1> QED BY <1>2, <1>3, <1>4

(* An awaited PUBLISH, whichever way it ends. *)
LEMMA PublishAdvances ==
  ASSUME TypeOK, DexChosen, NEW w \in Slots, run[w].pc \in Label,
         NEW status \in Status, NEW next \in Label, NEW otherwise \in AfterSwap,
         next \in BeforeSwap => run[w].pc \in BeforeSwap,
         next \notin {"setDex", "setBuilding", "executeSwap"},
         PublishStatus(w, status, next, otherwise)
  PROVE  Advances(w)
<1>1. Keeps(db)
  BY DEF TypeOK, Keeps
<1>2. run[w].order \in Orders
  BY BusyRun
<1>3. /\ pub' \in [Orders -> Status \cup {"none"}]
      /\ run' = Goto(w, next) \/ run' = Goto(w, otherwise)
      /\ Keeps(db')
      /\ UNCHANGED <<faults, submission, job, late, swaps>>
  BY <1>1, <1>2 DEF PublishStatus, Sent, TypeOK
<1>4. CASE run' = Goto(w, next)
  BY <1>3, <1>4, GotoAdvances
<1>5. CASE run' = Goto(w, otherwise)
  <2>1. /\ otherwise \in Label
        /\ otherwise \notin BeforeSwap
        /\ otherwise \notin {"setDex", "setBuilding", "executeSwap"}
    BY DEF Label, AfterSwap, BeforeSwap
  <2> QED BY <1>3, <1>5, <2>1, GotoAdvances
<1> QED BY <1>3, <1>4, <1>5

(* The steps of a processor call that only advance. *)
Advancing(w) ==
  \/ PublishRouting(w)
  \/ SetRouting(w)
  \/ GetQuotes(w)
  \/ SetDex(w)
  \/ SetBuilding(w)
  \/ SetSubmitted(w)
  \/ SetConfirmed(w)
  \/ PublishConfirmed(w)
  \/ FailOrder(w)
  \/ PublishFailed(w)
  \/ PublishRetry(w)

(* Each of these steps moves one call on and writes at most its row. *)
LEMMA AdvancingAdvances ==
  ASSUME TypeOK, DexChosen, NEW w \in Slots, Advancing(w)
  PROVE  Advances(w)
<1> DEFINE o == run[w].order
<1>1. run[w].pc \in Label
  BY DEF Advancing, PublishRouting, SetRouting, GetQuotes, SetDex, SetBuilding,
         SetSubmitted, SetConfirmed, PublishConfirmed, FailOrder, PublishFailed,
         PublishRetry, Label, BeforeSwap, AfterSwap
<1>2. /\ run[w] \in [pc : Label, order : Orders, no : Nat, attempt : Nat,
                     dex : Dex \cup {"none"}]
      /\ o \in Orders
      /\ run[w].no \in Nat
  BY <1>1, BusyRun
<1>3. db \in [Orders -> Row]
  BY DEF TypeOK
<1>4. Keeps(db) /\ pub \in [Orders -> Status \cup {"none"}]
  BY DEF TypeOK, Keeps
<1>5. Catch(w) \in AfterSwap /\ Catch(w) \in Label
  BY CatchIsAfter DEF Label
<1> USE <1>1
<1>a. CASE PublishRouting(w)
  <2>1. /\ "routing" \in Status
        /\ "setRouting" \in Label
        /\ run[w].pc \in BeforeSwap
        /\ PublishStatus(w, "routing", "setRouting", Catch(w))
    BY <1>a DEF PublishRouting, Status, Label, BeforeSwap
  <2> QED BY <1>5, <2>1, PublishAdvances
<1>b. CASE SetRouting(w)
  <2>1. /\ "routing" \in Status
        /\ "getQuotes" \in Label
        /\ run[w].pc \in BeforeSwap
        /\ Query(w, UpdateOrderStatus(db, o, "routing"), "getQuotes", Catch(w))
    BY <1>b DEF SetRouting, Status, Label, BeforeSwap
  <2>2. Keeps(UpdateOrderStatus(db, o, "routing"))
    BY <1>2, <1>3, <2>1, UpdatesKeep
  <2> QED BY <1>5, <2>1, <2>2, QueryAdvances
<1>c. CASE GetQuotes(w)
  <2>1. /\ run[w].pc \in BeforeSwap
        /\ run \in [Slots -> Run]
        /\ UNCHANGED <<faults, submission, db, pub, job, late, swaps>>
    BY <1>c DEF GetQuotes, BeforeSwap, TypeOK
  <2>2. CASE \E d \in Dex : run' = [run EXCEPT ![w].pc = "setDex", ![w].dex = d]
    <3>1. PICK d \in Dex : run' = [run EXCEPT ![w].pc = "setDex", ![w].dex = d]
      BY <2>2
    <3>2. [run[w] EXCEPT !.pc = "setDex", !.dex = d] \in Run
      BY <1>2 DEF Run, Label, BeforeSwap
    <3>3. /\ run' \in [Slots -> Run]
          /\ run'[w] = [run[w] EXCEPT !.pc = "setDex", !.dex = d]
          /\ \A v \in Slots \ {w} : run'[v] = run[v]
      BY <2>1, <3>1, <3>2
    <3>4. /\ run'[w].pc = "setDex" /\ run'[w].pc \in Label
          /\ run'[w].order = run[w].order
          /\ run'[w].no = run[w].no
          /\ run'[w].dex \in Dex
      BY <1>2, <3>3 DEF Label, BeforeSwap
    <3>5. Keeps(db') /\ pub' \in [Orders -> Status \cup {"none"}]
      BY <1>4, <2>1 DEF Keeps
    <3> QED BY <2>1, <3>3, <3>4, <3>5 DEF Advances
  <2>3. CASE run' = Goto(w, Catch(w))
    <3>1. /\ Catch(w) \notin BeforeSwap
          /\ Catch(w) \notin {"setDex", "setBuilding", "executeSwap"}
      BY <1>5 DEF AfterSwap, BeforeSwap
    <3>2. Keeps(db') /\ pub' \in [Orders -> Status \cup {"none"}]
      BY <1>4, <2>1 DEF Keeps
    <3> QED BY <1>5, <2>1, <2>3, <3>1, <3>2, GotoAdvances
  <2> QED BY <1>c, <2>2, <2>3 DEF GetQuotes
<1>d. CASE SetDex(w)
  <2>1. /\ "setBuilding" \in Label
        /\ run[w].pc \in BeforeSwap
        /\ run[w].pc = "setDex"
        /\ Query(w, UpdateOrderRouting(db, o, run[w].dex), "setBuilding", Catch(w))
    BY <1>d DEF SetDex, Label, BeforeSwap
  <2>2. run[w].dex \in Dex
    BY <2>1 DEF DexChosen
  <2>3. Keeps(UpdateOrderRouting(db, o, run[w].dex))
    BY <1>2, <1>3, <2>2, UpdatesKeep
  <2> QED BY <1>5, <2>1, <2>3, QueryAdvances
<1>e. CASE SetBuilding(w)
  <2>1. /\ "building" \in Status
        /\ "executeSwap" \in Label
        /\ run[w].pc \in BeforeSwap
        /\ run[w].pc = "setBuilding"
        /\ Query(w, UpdateOrderStatus(db, o, "building"), "executeSwap", Catch(w))
    BY <1>e DEF SetBuilding, Status, Label, BeforeSwap
  <2>2. Keeps(UpdateOrderStatus(db, o, "building"))
    BY <1>2, <1>3, <2>1, UpdatesKeep
  <2> QED BY <1>5, <2>1, <2>2, QueryAdvances
<1>f. CASE SetSubmitted(w)
  <2>1. /\ "submitted" \in Status
        /\ "setConfirmed" \in Label /\ "setConfirmed" \notin BeforeSwap
        /\ Query(w, UpdateOrderStatus(db, o, "submitted"), "setConfirmed", Catch(w))
    BY <1>f DEF SetSubmitted, Status, Label, AfterSwap, BeforeSwap
  <2>2. Keeps(UpdateOrderStatus(db, o, "submitted"))
    BY <1>2, <1>3, <2>1, UpdatesKeep
  <2> QED BY <1>5, <2>1, <2>2, QueryAdvances
<1>g. CASE SetConfirmed(w)
  <2>1. CASE Query(w, UpdateOrderConfirmed(db, o, run[w].no), "publishConfirmed", Catch(w))
    <3>1. "publishConfirmed" \in Label /\ "publishConfirmed" \notin BeforeSwap
      BY DEF Label, AfterSwap, BeforeSwap
    <3>2. Keeps(UpdateOrderConfirmed(db, o, run[w].no))
      BY <1>2, <1>3, UpdatesKeep
    <3> QED BY <1>5, <2>1, <3>1, <3>2, QueryAdvances
  <2>2. CASE /\ run' = Goto(w, Catch(w))
             /\ UNCHANGED <<faults, submission, db, pub, job, late, swaps>>
    <3>1. /\ Catch(w) \notin BeforeSwap
          /\ Catch(w) \notin {"setDex", "setBuilding", "executeSwap"}
      BY <1>5 DEF AfterSwap, BeforeSwap
    <3>2. Keeps(db') /\ pub' \in [Orders -> Status \cup {"none"}]
      BY <1>4, <2>2 DEF Keeps
    <3> QED BY <1>5, <2>2, <3>1, <3>2, GotoAdvances
  <2> QED BY <1>g, <2>1, <2>2 DEF SetConfirmed
<1>h. CASE PublishConfirmed(w)
  <2>1. /\ "confirmed" \in Status
        /\ "complete" \in Label /\ "complete" \notin BeforeSwap
        /\ PublishStatus(w, "confirmed", "complete", Catch(w))
    BY <1>h DEF PublishConfirmed, Status, Label, AfterSwap, BeforeSwap
  <2> QED BY <1>5, <2>1, PublishAdvances
<1>i. CASE FailOrder(w)
  <2>1. /\ "publishFailed" \in Label /\ "publishFailed" \notin BeforeSwap
        /\ "reject" \in AfterSwap
        /\ Query(w, UpdateOrderFailed(db, o), "publishFailed", "reject")
    BY <1>i DEF FailOrder, Label, AfterSwap, BeforeSwap
  <2>2. Keeps(UpdateOrderFailed(db, o))
    BY <1>2, <1>3, UpdatesKeep
  <2> QED BY <2>1, <2>2, QueryAdvances
<1>j. CASE PublishFailed(w) \/ PublishRetry(w)
  <2>1. /\ "reject" \in AfterSwap /\ "reject" \in Label /\ "reject" \notin BeforeSwap
        /\ "failed" \in Status /\ "pending" \in Status
        /\ \/ PublishStatus(w, "failed", "reject", "reject")
           \/ PublishStatus(w, "pending", "reject", "reject")
    BY <1>j DEF PublishFailed, PublishRetry, Status, Label, AfterSwap, BeforeSwap
  <2> QED BY <2>1, PublishAdvances
<1> QED BY <1>a, <1>b, <1>c, <1>d, <1>e, <1>f, <1>g, <1>h, <1>i, <1>j DEF Advancing

-----------------------------------------------------------------------------
(* The invariant holds initially. *)
LEMMA InitInv ==
  ASSUME Init
  PROVE  StartsInv
<1> USE DEF Init
<1>1. TypeOK
  BY ExecutionAssumption
     DEF ExecutionAssumption, TypeOK, SubmissionState, AbsentRow, Row, NoJob, Job,
         JobState, Run
<1>2. DexChosen
  BY DEF DexChosen, Idle
<1>3. RowThenJob /\ JobHasRow
  BY DEF RowThenJob, JobHasRow, NoJob
<1>4. Ledger
  BY ExecutionAssumption DEF ExecutionAssumption, Ledger, NoJob
<1>5. RunsAreStarts
  BY DEF RunsAreStarts, Busy, Idle
<1>6. SwapsAreStarts /\ LateAreStarts /\ AsksOnce
  BY DEF SwapsAreStarts, LateAreStarts, AsksOnce, Idle, BeforeSwap
<1> QED BY <1>1, <1>2, <1>3, <1>4, <1>5, <1>6 DEF StartsInv

-----------------------------------------------------------------------------
(* The invariant is preserved, action by action.  A step that only moves a  *)
(* call on keeps it.                                                        *)
LEMMA AdvancesInv ==
  ASSUME StartsInv, NEW w \in Slots, Advances(w)
  PROVE  StartsInv'
<1> USE DEF Advances
<1>1. TypeOK'
  BY DEF StartsInv, TypeOK, Keeps
<1>2. DexChosen'
  BY DEF StartsInv, DexChosen
<1>3. RowThenJob' /\ JobHasRow'
  BY DEF StartsInv, RowThenJob, JobHasRow, Keeps
<1>4. Ledger'
  BY DEF StartsInv, Ledger
<1>5. \A v \in Slots : /\ run'[v].order = run[v].order
                       /\ run'[v].no = run[v].no
                       /\ Busy(v)' => Busy(v)
                       /\ run'[v].pc \in BeforeSwap => run[v].pc \in BeforeSwap
  BY DEF Busy, Label, BeforeSwap, AfterSwap
<1>6. RunsAreStarts'
  BY <1>5 DEF StartsInv, RunsAreStarts
<1>7. SwapsAreStarts' /\ LateAreStarts'
  BY DEF StartsInv, SwapsAreStarts, LateAreStarts
<1>8. AsksOnce'
  BY <1>5 DEF StartsInv, AsksOnce
<1> QED BY <1>1, <1>2, <1>3, <1>4, <1>6, <1>7, <1>8 DEF StartsInv

(* Inserting the row: only rows and submissions change. *)
LEMMA InsertInv ==
  ASSUME StartsInv, NEW o \in Orders, InsertOrder(o)
  PROVE  StartsInv'
<1> USE DEF InsertOrder
<1>1. CreateOrder(db, o) \in [Orders -> Row]
  BY DEF StartsInv, TypeOK, CreateOrder, AbsentRow, Row, Status
<1>2. /\ \A p \in Orders : Exists(db, p) => Exists(CreateOrder(db, o), p)
      /\ Exists(CreateOrder(db, o), o)
  BY DEF StartsInv, TypeOK, CreateOrder, AbsentRow, Exists
<1>3. TypeOK'
  BY <1>1 DEF StartsInv, TypeOK, SubmissionState
<1>4. RowThenJob' /\ JobHasRow'
  BY <1>2 DEF StartsInv, TypeOK, RowThenJob, JobHasRow
<1>5. DexChosen' /\ Ledger'
  BY DEF StartsInv, DexChosen, Ledger
<1>6. RunsAreStarts' /\ SwapsAreStarts' /\ LateAreStarts' /\ AsksOnce'
  BY DEF StartsInv, RunsAreStarts, SwapsAreStarts, LateAreStarts, AsksOnce, Busy
<1> QED BY <1>3, <1>4, <1>5, <1>6 DEF StartsInv

(* Adding the job: it starts with an empty ledger. *)
LEMMA EnqueueInv ==
  ASSUME StartsInv, NEW o \in Orders, EnqueueOrder(o)
  PROVE  StartsInv'
<1>1. /\ submission[o] = "created"
      /\ submission' \in [Orders -> SubmissionState]
      /\ submission'[o] \in {"accepted", "rejected"}
      /\ \A p \in Orders \ {o} : submission'[p] = submission[p]
      /\ job' = job \/ job' = Added(o)
      /\ UNCHANGED <<faults, db, pub, run, late, swaps>>
  BY DEF EnqueueOrder, StartsInv, TypeOK, SubmissionState
<1>2. job \in [Orders -> Job] /\ job[o] = NoJob
  BY <1>1 DEF StartsInv, TypeOK, RowThenJob
<1>3. /\ Added(o) \in [Orders -> Job]
      /\ Added(o)[o] = [NoJob EXCEPT !.state = "waiting"]
      /\ \A p \in Orders \ {o} : Added(o)[p] = job[p]
  BY <1>2 DEF Added, Job, JobState, NoJob
<1>4. /\ job' \in [Orders -> Job]
      /\ job'[o].made = 0 /\ job'[o].starts = 0 /\ job'[o].stalls = 0
      /\ job'[o].state \in {"none", "waiting"} /\ job'[o].lock = 0
      /\ \A p \in Orders : job'[p].starts = job[p].starts
      /\ \A p \in Orders \ {o} : job'[p] = job[p]
  BY <1>1, <1>2, <1>3 DEF NoJob
<1>5. TypeOK' /\ DexChosen'
  BY <1>1, <1>4 DEF StartsInv, TypeOK, DexChosen
<1>6. RowThenJob'
  BY <1>1, <1>4 DEF StartsInv, RowThenJob
<1>7. JobHasRow'
  BY <1>1, <1>4 DEF StartsInv, RowThenJob, JobHasRow
<1>8. Ledger'
  BY <1>1, <1>4, ExecutionAssumption DEF StartsInv, Ledger, ExecutionAssumption
<1>9. RunsAreStarts'
  <2>1. \A v \in Slots : Busy(v) => run[v].order \in Orders
    BY BusyRun DEF StartsInv
  <2> QED BY <1>1, <1>4, <2>1 DEF StartsInv, RunsAreStarts, Busy
<1>10. SwapsAreStarts' /\ LateAreStarts' /\ AsksOnce'
  BY <1>1, <1>4 DEF StartsInv, TypeOK, SwapsAreStarts, LateAreStarts, AsksOnce
<1> QED BY <1>5, <1>6, <1>7, <1>8, <1>9, <1>10 DEF StartsInv

(* The swap: the slot moves past it, and its start number is spent, on a    *)
(* swap that executed or on one that is late.                               *)
LEMMA SwapInv ==
  ASSUME StartsInv, NEW w \in Slots, ExecuteSwap(w)
  PROVE  StartsInv'
<1> DEFINE o == run[w].order
           no == run[w].no
<1>1. run[w].pc = "executeSwap" /\ run[w].pc \in BeforeSwap /\ Busy(w)
  BY DEF ExecuteSwap, BeforeSwap, Busy
<1>2. /\ run[w] \in [pc : Label, order : Orders, no : Nat, attempt : Nat,
                     dex : Dex \cup {"none"}]
      /\ o \in Orders /\ no \in Nat /\ run[w].dex \in Dex
  BY <1>1, BusyRun DEF StartsInv, DexChosen
<1>3. PICK label \in AfterSwap : run' = Goto(w, label)
  BY CatchIsAfter DEF ExecuteSwap, AfterSwap
<1>4. [run[w] EXCEPT !.pc = label] \in Run
  BY <1>2 DEF Run, Label
<1>5. /\ run' \in [Slots -> Run]
      /\ run'[w] = [run[w] EXCEPT !.pc = label]
      /\ \A v \in Slots \ {w} : run'[v] = run[v]
  BY <1>3, <1>4 DEF StartsInv, TypeOK, Goto
<1>6. /\ run'[w].pc \in AfterSwap /\ run'[w].pc \notin BeforeSwap
      /\ run'[w].order = o
      /\ run'[w].no = no
  BY <1>2, <1>5 DEF AfterSwap, BeforeSwap
<1>7. UNCHANGED <<faults, submission, db, pub, job>>
  BY DEF ExecuteSwap
<1>8. /\ no \in 1..job[o].starts
      /\ \A s \in swaps[o] : s.no # no
      /\ \A l \in late : l.order = o => l.no # no
      /\ \A v \in Slots \ {w} : Busy(v) /\ run[v].order = o => run[v].no # no
  BY <1>1 DEF StartsInv, RunsAreStarts, AsksOnce
<1>9. DexChosen'
  BY <1>5, <1>6 DEF StartsInv, DexChosen, AfterSwap
<1>10. RowThenJob' /\ JobHasRow' /\ Ledger'
  BY <1>7 DEF StartsInv, RowThenJob, JobHasRow, Ledger
<1>11. \A v \in Slots : /\ run'[v].order = run[v].order
                        /\ run'[v].no = run[v].no
                        /\ Busy(v)' => Busy(v)
  BY <1>1, <1>5, <1>6 DEF Busy
<1>12. RunsAreStarts'
  BY <1>7, <1>11 DEF StartsInv, RunsAreStarts
<1>13. \A v \in Slots : run'[v].pc \in BeforeSwap =>
         /\ v # w /\ run'[v] = run[v] /\ Busy(v)
         /\ run[v].order = o => run[v].no # no
  BY <1>5, <1>6, <1>8 DEF Busy, BeforeSwap
<1>14. CASE \E within \in Fills :
              swaps' = Executed(o, no, run[w].dex, within) /\ late' = late
  <2>1. PICK within \in Fills :
          swaps' = Executed(o, no, run[w].dex, within) /\ late' = late
    BY <1>14
  <2> DEFINE new == [no |-> no, dex |-> run[w].dex, within |-> within]
  <2>2. new \in Swap /\ new.no = no
    BY <1>2 DEF Swap, Fills
  <2> HIDE DEF new
  <2>3. swaps' = [swaps EXCEPT ![o] = @ \cup {new}]
    BY <2>1 DEF Executed, new
  <2>4. /\ swaps' \in [Orders -> SUBSET Swap]
        /\ swaps'[o] = swaps[o] \cup {new}
        /\ \A p \in Orders \ {o} : swaps'[p] = swaps[p]
    BY <1>2, <2>2, <2>3 DEF StartsInv, TypeOK
  <2>5. TypeOK'
    BY <1>5, <1>7, <2>1, <2>4 DEF StartsInv, TypeOK
  <2>6. SwapsAreStarts'
    BY <1>7, <1>8, <2>2, <2>4 DEF StartsInv, SwapsAreStarts
  <2>7. LateAreStarts'
    BY <1>7, <1>8, <2>1, <2>2, <2>4 DEF StartsInv, TypeOK, LateAreStarts
  <2>8. AsksOnce'
    <3> SUFFICES ASSUME NEW v \in Slots, run'[v].pc \in BeforeSwap
                 PROVE  /\ \A s \in swaps'[run'[v].order] : s.no # run'[v].no
                        /\ \A l \in late' : l.order = run'[v].order => l.no # run'[v].no
      BY DEF AsksOnce
    <3>1. run'[v] = run[v] /\ run[v].order \in Orders /\ run[v].pc \in BeforeSwap
      BY <1>13, BusyRun DEF StartsInv
    <3>2. \A s \in swaps'[run[v].order] : s.no # run[v].no
      BY <1>13, <2>2, <2>4, <3>1 DEF StartsInv, AsksOnce
    <3> QED BY <2>1, <3>1, <3>2 DEF StartsInv, AsksOnce
  <2> QED BY <1>9, <1>10, <1>12, <2>5, <2>6, <2>7, <2>8 DEF StartsInv
<1>15. CASE /\ late' = late \cup {[order |-> o, no |-> no, dex |-> run[w].dex]}
            /\ swaps' = swaps
  <2> DEFINE new == [order |-> o, no |-> no, dex |-> run[w].dex]
  <2>1. new \in [order : Orders, no : Nat, dex : Dex] /\ new.order = o /\ new.no = no
    BY <1>2
  <2>2. late' = late \cup {new} /\ swaps' = swaps
    BY <1>15
  <2> HIDE DEF new
  <2>3. TypeOK'
    BY <1>5, <1>7, <2>1, <2>2 DEF StartsInv, TypeOK
  <2>4. SwapsAreStarts'
    BY <1>7, <2>2 DEF StartsInv, SwapsAreStarts
  <2>5. LateAreStarts'
    BY <1>7, <1>8, <2>1, <2>2 DEF StartsInv, LateAreStarts
  <2>6. AsksOnce'
    BY <1>13, <2>1, <2>2 DEF StartsInv, AsksOnce
  <2> QED BY <1>9, <1>10, <1>12, <2>3, <2>4, <2>5, <2>6 DEF StartsInv
<1> QED BY <1>14, <1>15 DEF ExecuteSwap

(* A late swap moves its start number from one set to the other. *)
LEMMA LateSwapInv ==
  ASSUME StartsInv, NEW l \in late, LateSwap(l)
  PROVE  StartsInv'
<1>1. PICK within \in Fills : swaps' = Executed(l.order, l.no, l.dex, within)
  BY DEF LateSwap
<1>2. /\ late' = late \ {l}
      /\ UNCHANGED <<faults, submission, db, pub, job, run>>
  BY DEF LateSwap
<1>3. l.order \in Orders /\ l.no \in Nat /\ l.dex \in Dex
  BY DEF StartsInv, TypeOK
<1> DEFINE new == [no |-> l.no, dex |-> l.dex, within |-> within]
<1>4. new \in Swap /\ new.no = l.no
  BY <1>3 DEF Swap, Fills
<1> HIDE DEF new
<1>5. swaps' = [swaps EXCEPT ![l.order] = @ \cup {new}]
  BY <1>1 DEF Executed, new
<1>6. /\ swaps' \in [Orders -> SUBSET Swap]
      /\ swaps'[l.order] = swaps[l.order] \cup {new}
      /\ \A p \in Orders \ {l.order} : swaps'[p] = swaps[p]
  BY <1>3, <1>4, <1>5 DEF StartsInv, TypeOK
<1>7. TypeOK'
  BY <1>2, <1>6 DEF StartsInv, TypeOK
<1>8. DexChosen' /\ RowThenJob' /\ JobHasRow' /\ Ledger' /\ RunsAreStarts'
  BY <1>2 DEF StartsInv, DexChosen, RowThenJob, JobHasRow, Ledger, RunsAreStarts, Busy
<1>9. SwapsAreStarts'
  BY <1>2, <1>4, <1>6 DEF StartsInv, SwapsAreStarts, LateAreStarts
<1>10. LateAreStarts'
  BY <1>2, <1>4, <1>6 DEF StartsInv, TypeOK, LateAreStarts
<1>11. AsksOnce'
  <2> SUFFICES ASSUME NEW v \in Slots, run[v].pc \in BeforeSwap
               PROVE  /\ \A s \in swaps'[run[v].order] : s.no # run[v].no
                      /\ \A m \in late' : m.order = run[v].order => m.no # run[v].no
    BY <1>2 DEF AsksOnce
  <2>1. run[v].order \in Orders
    BY BusyRun DEF StartsInv, Busy, BeforeSwap
  <2> QED BY <1>2, <1>4, <1>6, <2>1 DEF StartsInv, AsksOnce
<1> QED BY <1>7, <1>8, <1>9, <1>10, <1>11 DEF StartsInv

(* A step that changes neither starts nor states for the worse only has to  *)
(* answer for the ledger: the rest of the invariant hangs on the starts.    *)
LEMMA JobStepInv ==
  ASSUME StartsInv, job' \in [Orders -> Job], Ledger',
         \A o \in Orders : job'[o].starts = job[o].starts,
         \A o \in Orders : job[o].state = "none" => job'[o] = job[o],
         run' \in [Slots -> Run],
         \A w \in Slots : run'[w] = run[w] \/ run'[w] = Idle,
         submission' \in [Orders -> SubmissionState],
         \A o \in Orders : submission'[o] = submission[o] \/ submission'[o] = "rejected",
         UNCHANGED <<faults, db, pub, late, swaps>>
  PROVE  StartsInv'
<1>1. TypeOK'
  BY DEF StartsInv, TypeOK
<1>2. DexChosen'
  BY DEF StartsInv, DexChosen, Idle
<1>3. RowThenJob'
  <2>1. \A o \in Orders : submission[o] \in {"new", "created"} => job[o].state = "none"
    BY DEF StartsInv, RowThenJob, NoJob
  <2> QED BY <2>1 DEF StartsInv, RowThenJob
<1>4. JobHasRow'
  BY DEF StartsInv, JobHasRow
<1>5. \A w \in Slots : /\ Busy(w)' => Busy(w) /\ run'[w] = run[w]
                       /\ Busy(w) => run[w].order \in Orders
                       /\ run'[w].pc \in BeforeSwap => Busy(w)'
  BY BusyRun DEF StartsInv, Busy, Idle, BeforeSwap
<1>6. RunsAreStarts'
  BY <1>5 DEF StartsInv, RunsAreStarts
<1>7. SwapsAreStarts' /\ LateAreStarts'
  BY DEF StartsInv, TypeOK, SwapsAreStarts, LateAreStarts
<1>8. AsksOnce'
  BY <1>5 DEF StartsInv, AsksOnce
<1> QED BY <1>1, <1>2, <1>3, <1>4, <1>6, <1>7, <1>8 DEF StartsInv

(* Giving a job back: with the lock, an active start becomes an attempt.    *)
LEMMA SettleInv ==
  ASSUME StartsInv, NEW w \in Slots, Complete(w) \/ Reject(w)
  PROVE  StartsInv'
<1> DEFINE o == run[w].order
<1>1. Busy(w)
  BY DEF Complete, Reject, Busy
<1>2. o \in Orders /\ run[w].no \in 1..job[o].starts
  BY <1>1, BusyRun DEF StartsInv, RunsAreStarts
<1>3. PICK state \in {"completed", "delayed", "failed"} :
        /\ job' = Finished(w, state)
        /\ state = "delayed" => job[o].made + 1 < MaxRetries
  BY DEF Complete, Reject, AttemptsLeft
<1>4. /\ run' = [run EXCEPT ![w] = Idle]
      /\ UNCHANGED <<faults, submission, db, pub, late, swaps>>
  BY DEF Complete, Reject
<1>5. /\ job \in [Orders -> Job] /\ run \in [Slots -> Run]
      /\ submission \in [Orders -> SubmissionState]
  BY DEF StartsInv, TypeOK
<1>6. /\ run' \in [Slots -> Run]
      /\ \A v \in Slots : run'[v] = run[v] \/ run'[v] = Idle
  BY <1>4, <1>5 DEF Run
<1>7. CASE job[o].lock = run[w].no
  <2>1. /\ job' = [job EXCEPT ![o].state = state, ![o].made = @ + 1, ![o].lock = 0]
        /\ job[o] \in Job
    BY <1>2, <1>3, <1>5, <1>7 DEF Finished
  <2>2. /\ job' \in [Orders -> Job]
        /\ job'[o].state = state /\ job'[o].made = job[o].made + 1
        /\ job'[o].lock = 0 /\ job'[o].starts = job[o].starts
        /\ job'[o].stalls = job[o].stalls
        /\ \A p \in Orders \ {o} : job'[p] = job[p]
    BY <1>2, <1>5, <2>1 DEF Job, JobState
  <2>3. job[o].state = "active"
    BY <1>2, <1>5, <1>7 DEF StartsInv, Ledger, Job
  <2>4. Ledger'
    <3>1. ASSUME NEW p \in Orders
          PROVE  /\ job'[p].starts = job'[p].made + job'[p].stalls
                                     + (IF job'[p].state = "active" THEN 1 ELSE 0)
                 /\ job'[p].state \in {"none", "waiting", "active", "delayed"} =>
                      job'[p].made < MaxRetries /\ job'[p].stalls <= MaxStalledCount
                 /\ job'[p].starts <= MaxRetries + MaxStalledCount
                 /\ job'[p].lock # 0 => job'[p].state = "active"
      <4>1. CASE p # o
        BY <2>2, <4>1 DEF StartsInv, Ledger
      <4>2. CASE p = o
        BY <1>2, <1>3, <1>5, <2>2, <2>3, <4>2 DEF StartsInv, Ledger, Job
      <4> QED BY <4>1, <4>2
    <3> QED BY <3>1 DEF Ledger
  <2>5. \A p \in Orders : job[p].state = "none" => job'[p] = job[p]
    BY <2>2, <2>3
  <2> QED BY <1>4, <1>5, <1>6, <2>2, <2>4, <2>5, JobStepInv
<1>8. CASE job[o].lock # run[w].no
  <2>1. job' = job
    BY <1>3, <1>8 DEF Finished
  <2>2. Ledger'
    BY <2>1 DEF StartsInv, Ledger
  <2> QED BY <1>4, <1>5, <1>6, <2>1, <2>2, JobStepInv
<1> QED BY <1>7, <1>8

(* BullMQ's own steps: the end of a backoff, of a lock, and of a stalled    *)
(* start, which the ledger turns into a stall.                              *)
LEMMA QueueInv ==
  ASSUME StartsInv, NEW o \in Orders, Promote(o) \/ LockExpires(o) \/ MoveStalled(o)
  PROVE  StartsInv'
<1>1. UNCHANGED <<faults, submission, db, pub, run, late, swaps>>
  BY DEF Promote, LockExpires, MoveStalled
<1>2. /\ job \in [Orders -> Job] /\ job[o] \in Job
      /\ run \in [Slots -> Run] /\ submission \in [Orders -> SubmissionState]
  BY DEF StartsInv, TypeOK
<1>3. /\ job' \in [Orders -> Job]
      /\ \A p \in Orders \ {o} : job'[p] = job[p]
      /\ job'[o].starts = job[o].starts /\ job'[o].made = job[o].made
      /\ job[o].state # "none"
      /\ \/ /\ job[o].state = "delayed" /\ job'[o].state = "waiting"
            /\ job'[o].lock = job[o].lock /\ job'[o].stalls = job[o].stalls
         \/ /\ job[o].state = "active" /\ job'[o].state = "active"
            /\ job'[o].lock = 0 /\ job'[o].stalls = job[o].stalls
         \/ /\ job[o].state = "active" /\ job'[o].lock = 0
            /\ job'[o].stalls = job[o].stalls + 1
            /\ job'[o].state = IF job'[o].stalls > MaxStalledCount
                               THEN "failed" ELSE "waiting"
  <2>1. CASE Promote(o)
    BY <1>2, <2>1 DEF Promote, Job, JobState
  <2>2. CASE LockExpires(o)
    BY <1>2, <2>2 DEF LockExpires, Job, JobState
  <2>3. CASE MoveStalled(o)
    BY <1>2, <2>3 DEF MoveStalled, Job, JobState
  <2> QED BY <2>1, <2>2, <2>3
<1>4. Ledger'
  <2> SUFFICES ASSUME NEW p \in Orders
               PROVE  /\ job'[p].starts = job'[p].made + job'[p].stalls
                                          + (IF job'[p].state = "active" THEN 1 ELSE 0)
                      /\ job'[p].state \in {"none", "waiting", "active", "delayed"} =>
                           job'[p].made < MaxRetries /\ job'[p].stalls <= MaxStalledCount
                      /\ job'[p].starts <= MaxRetries + MaxStalledCount
                      /\ job'[p].lock # 0 => job'[p].state = "active"
    BY DEF Ledger
  <2>1. CASE p # o
    BY <1>3, <2>1 DEF StartsInv, Ledger
  <2>2. CASE p = o
    BY <1>2, <1>3, <2>2, ExecutionAssumption DEF StartsInv, Ledger, Job, ExecutionAssumption
  <2> QED BY <2>1, <2>2
<1> QED BY <1>1, <1>2, <1>3, <1>4, JobStepInv

(* A process dies: its slots are idle and the locks they held are free. *)
LEMMA CrashInv ==
  ASSUME StartsInv, NEW p \in Processes, Crash(p)
  PROVE  StartsInv'
<1>1. UNCHANGED <<faults, db, pub, late, swaps>>
  BY DEF Crash
<1>2. /\ job \in [Orders -> Job] /\ run \in [Slots -> Run]
      /\ submission \in [Orders -> SubmissionState]
  BY DEF StartsInv, TypeOK
<1>3. /\ run' \in [Slots -> Run]
      /\ \A w \in Slots : run'[w] = run[w] \/ run'[w] = Idle
  BY <1>2 DEF Crash, Run
<1>4. /\ submission' \in [Orders -> SubmissionState]
      /\ \A o \in Orders : submission'[o] = submission[o] \/ submission'[o] = "rejected"
  BY <1>2 DEF Crash, SubmissionState
<1>5. \A o \in Orders : /\ [job[o] EXCEPT !.lock = 0] \in Job
                        /\ [job[o] EXCEPT !.lock = 0].state = job[o].state
                        /\ [job[o] EXCEPT !.lock = 0].made = job[o].made
                        /\ [job[o] EXCEPT !.lock = 0].starts = job[o].starts
                        /\ [job[o] EXCEPT !.lock = 0].stalls = job[o].stalls
                        /\ [job[o] EXCEPT !.lock = 0].lock = 0
                        /\ job[o].lock = 0 => [job[o] EXCEPT !.lock = 0] = job[o]
  BY <1>2 DEF Job
<1>6. /\ DOMAIN job' = Orders
      /\ \A o \in Orders : job'[o] \in {job[o], [job[o] EXCEPT !.lock = 0]}
  BY DEF Crash
<1>7. /\ job' = [o \in Orders |-> job'[o]]
      /\ \A o \in Orders : job'[o] \in Job
  BY <1>2, <1>5, <1>6 DEF Crash
<1>8. job' \in [Orders -> Job]
  BY <1>7
<1>9. Ledger'
  <2> SUFFICES ASSUME NEW o \in Orders
               PROVE  /\ job'[o].starts = job'[o].made + job'[o].stalls
                                          + (IF job'[o].state = "active" THEN 1 ELSE 0)
                      /\ job'[o].state \in {"none", "waiting", "active", "delayed"} =>
                           job'[o].made < MaxRetries /\ job'[o].stalls <= MaxStalledCount
                      /\ job'[o].starts <= MaxRetries + MaxStalledCount
                      /\ job'[o].lock # 0 => job'[o].state = "active"
    BY DEF Ledger
  <2>1. CASE job'[o] = job[o]
    BY <2>1 DEF StartsInv, Ledger
  <2>2. CASE job'[o] = [job[o] EXCEPT !.lock = 0]
    <3>1. /\ job'[o].state = job[o].state /\ job'[o].made = job[o].made
          /\ job'[o].starts = job[o].starts /\ job'[o].stalls = job[o].stalls
          /\ job'[o].lock = 0
      BY <1>5, <2>2
    <3> QED BY <3>1 DEF StartsInv, Ledger
  <2> QED BY <1>6, <2>1, <2>2
<1>10. \A o \in Orders : job[o].state = "none" => job[o].lock = 0
  BY DEF StartsInv, Ledger
<1>11. ASSUME NEW o \in Orders
       PROVE  /\ job'[o].starts = job[o].starts
              /\ job[o].state = "none" => job'[o] = job[o]
  <2>1. CASE job'[o] = job[o]
    BY <2>1
  <2>2. CASE job'[o] = [job[o] EXCEPT !.lock = 0]
    BY <1>5, <1>10, <2>2
  <2> QED BY <1>6, <2>1, <2>2
<1> QED BY <1>1, <1>3, <1>4, <1>8, <1>9, <1>11, JobStepInv

(* Taking a job: a new start, with a number no call and no swap has yet.    *)
LEMMA TakeInv ==
  ASSUME StartsInv, NEW w \in Slots, NEW o \in Orders, TakeJob(w, o)
  PROVE  StartsInv'
<1> DEFINE no == job[o].starts + 1
           r == [pc |-> "publishRouting", order |-> o, no |-> no,
                 attempt |-> job[o].made, dex |-> "none"]
<1>1. /\ run[w].pc = "idle"
      /\ job[o].state = "waiting"
      /\ job' = [job EXCEPT ![o].state = "active", ![o].starts = no, ![o].lock = no]
      /\ run' = [run EXCEPT ![w] = r]
      /\ UNCHANGED <<faults, submission, db, pub, late, swaps>>
  BY DEF TakeJob
<1>2. job \in [Orders -> Job] /\ job[o] \in Job /\ run \in [Slots -> Run]
  BY DEF StartsInv, TypeOK
<1>3. no \in Nat /\ no > job[o].starts /\ no \in 1..no
  BY <1>2 DEF Job
<1>4. r \in Run /\ r.pc = "publishRouting" /\ r.order = o /\ r.no = no
  BY <1>2, <1>3 DEF Run, Label, BeforeSwap, Job
<1> HIDE DEF r
<1>5. /\ run' \in [Slots -> Run]
      /\ run'[w] = r
      /\ \A v \in Slots \ {w} : run'[v] = run[v]
  BY <1>1, <1>2, <1>4
<1>6. /\ job' \in [Orders -> Job]
      /\ job'[o].state = "active" /\ job'[o].starts = no /\ job'[o].lock = no
      /\ job'[o].made = job[o].made /\ job'[o].stalls = job[o].stalls
      /\ \A p \in Orders \ {o} : job'[p] = job[p]
  BY <1>1, <1>2, <1>3 DEF Job, JobState
<1>7. \A p \in Orders : /\ job[p].starts \in Nat /\ job'[p].starts \in Nat
                        /\ job'[p].starts >= job[p].starts
  BY <1>2, <1>3, <1>6 DEF Job
<1>8. TypeOK'
  BY <1>1, <1>5, <1>6 DEF StartsInv, TypeOK
<1>9. DexChosen'
  BY <1>4, <1>5 DEF StartsInv, DexChosen
<1>10. RowThenJob' /\ JobHasRow'
  BY <1>1, <1>6 DEF StartsInv, RowThenJob, JobHasRow, NoJob
<1>11. Ledger'
  <2> SUFFICES ASSUME NEW p \in Orders
               PROVE  /\ job'[p].starts = job'[p].made + job'[p].stalls
                                          + (IF job'[p].state = "active" THEN 1 ELSE 0)
                      /\ job'[p].state \in {"none", "waiting", "active", "delayed"} =>
                           job'[p].made < MaxRetries /\ job'[p].stalls <= MaxStalledCount
                      /\ job'[p].starts <= MaxRetries + MaxStalledCount
                      /\ job'[p].lock # 0 => job'[p].state = "active"
    BY DEF Ledger
  <2>1. CASE p # o
    BY <1>6, <2>1 DEF StartsInv, Ledger
  <2>2. CASE p = o
    BY <1>1, <1>2, <1>6, <2>2, ExecutionAssumption
       DEF StartsInv, Ledger, Job, ExecutionAssumption
  <2> QED BY <2>1, <2>2
<1>12. \A v \in Slots : Busy(v) => /\ v # w
                                   /\ run[v].order \in Orders
                                   /\ run[v].no \in 1..job[run[v].order].starts
                                   /\ run[v].no \in Nat
                                   /\ run[v].order = o => run[v].no # no
  <2> SUFFICES ASSUME NEW v \in Slots, Busy(v)
               PROVE  /\ v # w
                      /\ run[v].order \in Orders
                      /\ run[v].no \in 1..job[run[v].order].starts
                      /\ run[v].no \in Nat
                      /\ run[v].order = o => run[v].no # no
    OBVIOUS
  <2>1. v # w
    BY <1>1 DEF Busy
  <2>2. run[v].order \in Orders /\ run[v].no \in Nat
    BY BusyRun DEF StartsInv
  <2>3. run[v].no \in 1..job[run[v].order].starts
    BY DEF StartsInv, RunsAreStarts
  <2>4. run[v].order = o => run[v].no # no
    BY <1>7, <2>2, <2>3
  <2> QED BY <2>1, <2>2, <2>3, <2>4
<1>13. RunsAreStarts'
  <2> SUFFICES ASSUME NEW v \in Slots, Busy(v)'
               PROVE  /\ run'[v].no \in 1..job'[run'[v].order].starts
                      /\ \A u \in Slots \ {v} :
                           Busy(u)' /\ run'[u].order = run'[v].order => run'[u].no # run'[v].no
    BY DEF RunsAreStarts
  <2>1. CASE v = w
    <3>1. run'[v].no \in 1..job'[run'[v].order].starts
      BY <1>2, <1>3, <1>4, <1>5, <1>6, <2>1 DEF Job
    <3>2. \A u \in Slots \ {v} : Busy(u)' => Busy(u) /\ run'[u] = run[u]
      BY <1>5, <2>1 DEF Busy
    <3>3. \A u \in Slots \ {v} :
            Busy(u)' /\ run'[u].order = run'[v].order => run'[u].no # run'[v].no
      <4> SUFFICES ASSUME NEW u \in Slots \ {v}, Busy(u)', run'[u].order = run'[v].order
                   PROVE  run'[u].no # run'[v].no
        OBVIOUS
      <4>1. run[u].order = o
        BY <1>4, <1>5, <2>1, <3>2
      <4>2. run[u].no # no
        BY <1>12, <3>2, <4>1
      <4> QED BY <1>4, <1>5, <2>1, <3>2, <4>2
    <3> QED BY <3>1, <3>3
  <2>2. CASE v # w
    <3>1. Busy(v) /\ run'[v] = run[v]
      BY <1>5, <2>2 DEF Busy
    <3>2. run'[v].no \in 1..job'[run'[v].order].starts
      <4>1. /\ run[v].order \in Orders
            /\ run[v].no \in 1..job[run[v].order].starts
            /\ run[v].no \in Nat
        BY <1>12, <3>1
      <4> QED BY <1>7, <3>1, <4>1
    <3>3. ASSUME NEW u \in Slots \ {v}, Busy(u)', run'[u].order = run'[v].order
          PROVE  run'[u].no # run'[v].no
      <4>1. CASE u = w
        <5>1. run[v].order = o
          BY <1>4, <1>5, <3>1, <3>3, <4>1
        <5>2. run[v].no # no
          BY <1>12, <3>1, <5>1
        <5> QED BY <1>4, <1>5, <3>1, <4>1, <5>2
      <4>2. CASE u # w
        BY <1>5, <3>1, <3>3, <4>2 DEF StartsInv, RunsAreStarts, Busy
      <4> QED BY <4>1, <4>2
    <3> QED BY <3>2, <3>3
  <2> QED BY <2>1, <2>2
<1>14. SwapsAreStarts'
  <2>1. ASSUME NEW p \in Orders, NEW s \in swaps[p]
        PROVE  s.no \in 1..job'[p].starts
    <3>1. s.no \in 1..job[p].starts
      BY DEF StartsInv, SwapsAreStarts
    <3> QED BY <1>7, <3>1
  <2>2. \A p \in Orders : \A s, t \in swaps[p] : s.no = t.no => s = t
    BY DEF StartsInv, SwapsAreStarts
  <2> QED BY <1>1, <2>1, <2>2 DEF SwapsAreStarts
<1>15. LateAreStarts'
  <2>1. ASSUME NEW l \in late
        PROVE  l.no \in 1..job'[l.order].starts
    <3>1. l.order \in Orders /\ l.no \in 1..job[l.order].starts
      BY DEF StartsInv, TypeOK, LateAreStarts
    <3> QED BY <1>7, <3>1
  <2> QED BY <1>1, <2>1 DEF StartsInv, LateAreStarts
<1>16. AsksOnce'
  <2> SUFFICES ASSUME NEW v \in Slots, run'[v].pc \in BeforeSwap
               PROVE  /\ \A s \in swaps[run'[v].order] : s.no # run'[v].no
                      /\ \A l \in late : l.order = run'[v].order => l.no # run'[v].no
    BY <1>1 DEF AsksOnce
  <2>1. CASE v = w
    BY <1>2, <1>3, <1>4, <1>5, <2>1 DEF StartsInv, SwapsAreStarts, LateAreStarts, Job
  <2>2. CASE v # w
    BY <1>5, <2>2 DEF StartsInv, AsksOnce
  <2> QED BY <2>1, <2>2
<1> QED BY <1>8, <1>9, <1>10, <1>11, <1>13, <1>14, <1>15, <1>16 DEF StartsInv

(* The invariant is inductive. *)
LEMMA NextInv ==
  ASSUME StartsInv, [Next]_vars
  PROVE  StartsInv'
<1>1. CASE \E o \in Orders : InsertOrder(o)
  BY <1>1, InsertInv
<1>2. CASE \E o \in Orders : EnqueueOrder(o)
  BY <1>2, EnqueueInv
<1>3. CASE \E w \in Slots : SlotStep(w)
  <2>1. PICK w \in Slots : SlotStep(w)
    BY <1>3
  <2>2. CASE Advancing(w)
    BY <2>2, AdvancingAdvances, AdvancesInv DEF StartsInv
  <2>3. CASE ExecuteSwap(w)
    BY <2>3, SwapInv
  <2>4. CASE Complete(w) \/ Reject(w)
    BY <2>4, SettleInv
  <2> QED BY <2>1, <2>2, <2>3, <2>4 DEF SlotStep, Advancing
<1>4. CASE \E w \in Slots, o \in Orders : TakeJob(w, o)
  BY <1>4, TakeInv
<1>5. CASE \E o \in Orders : Promote(o) \/ LockExpires(o) \/ MoveStalled(o)
  BY <1>5, QueueInv
<1>6. CASE \E l \in late : LateSwap(l)
  BY <1>6, LateSwapInv
<1>7. CASE \E p \in Processes : Crash(p)
  BY <1>7, CrashInv
<1>8. CASE UNCHANGED vars
  BY <1>8 DEF vars, StartsInv, TypeOK, DexChosen, RowThenJob, JobHasRow, Ledger,
              RunsAreStarts, SwapsAreStarts, LateAreStarts, AsksOnce, Busy
<1> QED BY <1>1, <1>2, <1>3, <1>4, <1>5, <1>6, <1>7, <1>8 DEF Next

(* The invariant holds of every behaviour of the execution of orders: the   *)
(* ledger of each job balances, and starts, calls and swaps match.          *)
THEOREM StartsInvariance == Spec => []StartsInv
<1>1. Init => StartsInv
  BY InitInv
<1>2. StartsInv /\ [Next]_vars => StartsInv'
  BY NextInv
<1> QED BY <1>1, <1>2, PTL DEF Spec

-----------------------------------------------------------------------------
(* The theorems *)

(* Every variable keeps its type, whatever goes wrong. *)
THEOREM TypeCorrect == Spec => []TypeOK
<1>1. StartsInv => TypeOK
  BY DEF StartsInv
<1> QED BY <1>1, StartsInvariance, PTL

(* No job is ever without its row: the UPDATEs of updateOrderStatus and its *)
(* siblings never hit zero rows, which nothing in the code would notice.    *)
THEOREM JobsHaveRows == Spec => []JobHasRow
<1>1. StartsInv => JobHasRow
  BY DEF StartsInv
<1> QED BY <1>1, StartsInvariance, PTL

(* The retries of BullMQ, its stalls, crashes and timed out swaps together  *)
(* trade an order at most MaxRetries + MaxStalledCount times.               *)
THEOREM SwapsWithinBudget == Spec => []SwapBudget
<1>1. ASSUME StartsInv
      PROVE  SwapBudget
  <2> DEFINE budget == MaxRetries + MaxStalledCount
  <2>1. budget \in Nat
    BY ExecutionAssumption DEF ExecutionAssumption
  <2>2. ASSUME NEW o \in Orders
        PROVE  Cardinality({s.no : s \in swaps[o]}) <= budget
    <3> DEFINE spent == {s.no : s \in swaps[o]}
    <3>1. job[o].starts \in Nat /\ job[o].starts <= budget
      BY <1>1 DEF StartsInv, TypeOK, Ledger, Job
    <3>2. spent \subseteq 1..job[o].starts
      BY <1>1 DEF StartsInv, SwapsAreStarts
    <3>3. spent \subseteq 1..budget
      BY <2>1, <3>1, <3>2
    <3>4. IsFiniteSet(1..budget) /\ Cardinality(1..budget) = budget
      <4>1. Cardinality(1..budget) = IF 1 > budget THEN 0 ELSE budget - 1 + 1
        BY <2>1, FS_Interval
      <4>2. (IF 1 > budget THEN 0 ELSE budget - 1 + 1) = budget
        BY <2>1
      <4> QED BY <2>1, <4>1, <4>2, FS_Interval
    <3>5. Cardinality(spent) <= Cardinality(1..budget)
      BY <3>3, <3>4, FS_Subset
    <3> QED BY <3>4, <3>5
  <2>3. \A o \in Orders : \A s, t \in swaps[o] : s.no = t.no => s = t
    BY <1>1 DEF StartsInv, SwapsAreStarts
  <2> QED BY <2>2, <2>3 DEF SwapBudget
<1> QED BY <1>1, StartsInvariance, PTL
=============================================================================
