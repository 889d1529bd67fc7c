--------------------- MODULE OrderExecutionSafetyProofs ---------------------
(***************************************************************************)
(* The safety of OrderExecution, for any number of orders, processes,      *)
(* slots, retries and stalls and every set of faults: what the row, the    *)
(* channel, the job and the swaps of an order say of each other.           *)
(*                                                                         *)
(* The invariant is IInv, of which OrderExecutionProofs proves the first   *)
(* part.  A step of a processor call has one of five effects: it is quiet, *)
(* speaks on the channel, reopens, confirms or fails its row.  EffectOf    *)
(* says so once for the eleven actions; LocalInv says what an effect has   *)
(* to answer for, which is little, because nothing else of the order moves.*)
(***************************************************************************)
EXTENDS OrderExecutionProofs

-----------------------------------------------------------------------------
(* The effects of a processor call *)

(* The call of slot w goes on, as the same call, and touches nothing of any *)
(* other order or call.                                                     *)
Local(w) ==
  LET o == run[w].order IN
  /\ run[w].pc \in Label
  /\ DOMAIN run' = Slots
  /\ \A v \in Slots \ {w} : run'[v] = run[v]
  /\ run'[w].pc \in Label
  /\ run'[w].order = o
  /\ run'[w].no = run[w].no
  /\ run'[w].attempt = run[w].attempt
  /\ db' \in [Orders -> Row]
  /\ \A p \in Orders \ {o} : db'[p] = db[p] /\ pub'[p] = pub[p]
  /\ \A p \in Orders : swaps[p] \subseteq swaps'[p]
  /\ UNCHANGED <<faults, submission, job>>

(* The table differs from db in the row of order o, which reads as given. *)
Rewritten(table, o, status, log, tx, dex) ==
  /\ table = [db EXCEPT ![o] = table[o]]
  /\ table[o].status = status
  /\ table[o].log = log
  /\ table[o].tx = tx
  /\ table[o].dex = dex

(* Where a call goes that fails at its label. *)
Lands(w) == IF run[w].pc \in {"failOrder", "publishFailed", "publishRetry"}
            THEN "reject" ELSE Catch(w)

(* Nothing is heard or written: the call fails, or has its quotes. *)
Quiet(w) ==
  /\ db' = db /\ pub' = pub
  /\ \/ run'[w].pc = Lands(w)
     \/ run[w].pc = "getQuotes" /\ run'[w].pc = "setDex"

(* The call publishes the status of its label. *)
Speaks(w) ==
  LET o == run[w].order  from == run[w].pc  to == run'[w].pc IN
  /\ db' = db
  /\ pub' = Sent(o, pub'[o])
  /\ \/ from = "publishRouting" /\ pub'[o] = "routing" /\ to \in {"setRouting", Lands(w)}
     \/ from = "publishConfirmed" /\ pub'[o] = "confirmed" /\ to \in {"complete", Lands(w)}
     \/ from = "publishFailed" /\ pub'[o] = "failed" /\ to = "reject"
     \/ from = "publishRetry" /\ pub'[o] = "pending" /\ to = "reject"

(* The call writes a status that is no end, and its venue at setDex. *)
Reopens(w) ==
  LET o == run[w].order  from == run[w].pc  to == run'[w].pc  row == db[o] IN
  /\ pub' = pub
  /\ \E status \in Status \ Terminal :
       Rewritten(db', o, status, row.log, row.tx,
                 IF from = "setDex" THEN run[w].dex ELSE row.dex)
  /\ \/ from = "setRouting" /\ to \in {"getQuotes", Lands(w)}
     \/ from = "setDex" /\ to \in {"setBuilding", Lands(w)}
     \/ from = "setBuilding" /\ to \in {"executeSwap", Lands(w)}
     \/ from = "setSubmitted" /\ to \in {"setConfirmed", Lands(w)}

(* The call confirms its order, by the swap of its own start. *)
Confirms(w) ==
  LET o == run[w].order IN
  /\ run[w].pc = "setConfirmed"
  /\ run'[w].pc \in {"publishConfirmed", Lands(w)}
  /\ pub' = pub
  /\ Rewritten(db', o, "confirmed", db[o].log \cup {"confirmed"}, run[w].no, db[o].dex)

(* The call fails its order. *)
Fails(w) ==
  LET o == run[w].order IN
  /\ run[w].pc = "failOrder"
  /\ run'[w].pc \in {"publishFailed", "reject"}
  /\ pub' = pub
  /\ Rewritten(db', o, "failed", db[o].log \cup {"failed"}, db[o].tx, db[o].dex)

(* An idle slot has no order. *)
LEMMA OnlyCallsHaveOrders ==
  ASSUME TypeOK, NEW w \in Slots
  PROVE  /\ run[w].order \in Orders <=> Busy(w)
         /\ ~Busy(w) => run[w] = Idle
<1>1. NoOrder \notin Orders
  BY ExecutionAssumption DEF ExecutionAssumption
<1>2. CASE run[w] = Idle
  BY <1>1, <1>2 DEF Idle, Busy
<1>3. CASE run[w] \in [pc : Label, order : Orders, no : Nat, attempt : Nat,
                       dex : Dex \cup {"none"}]
  BY <1>3 DEF Busy, Label, BeforeSwap, AfterSwap
<1> QED BY <1>2, <1>3 DEF TypeOK, Run

(* The order of a call has a job, and so a row to update. *)
LEMMA CallHasRow ==
  ASSUME StartsInv, NothingEarly, NEW w \in Slots, Busy(w)
  PROVE  /\ run[w].order \in Orders
         /\ run[w].no \in Nat \ {0}
         /\ run[w].attempt \in Nat
         /\ job[run[w].order].starts \in Nat \ {0}
         /\ job[run[w].order].state # "none"
         /\ submission[run[w].order] \notin {"new", "created"}
         /\ Exists(db, run[w].order)
         /\ db[run[w].order] \in Row
<1> DEFINE o == run[w].order
<1>1. o \in Orders /\ run[w].attempt \in Nat
  BY BusyRun DEF StartsInv
<1>2. job[o].starts \in Nat \ {0} /\ run[w].no \in Nat \ {0}
  BY <1>1 DEF StartsInv, TypeOK, Job, RunsAreStarts
<1>3. job[o] # NoJob
  BY <1>2 DEF NoJob
<1>4. submission[o] \notin {"new", "created"} /\ job[o].state # "none"
  BY <1>1, <1>3 DEF StartsInv, RowThenJob, NothingEarly
<1>5. Exists(db, o) /\ db[o] \in Row
  BY <1>1, <1>4 DEF StartsInv, TypeOK, JobHasRow
<1> QED BY <1>1, <1>2, <1>4, <1>5

(* What the UPDATEs of the processor leave in an existing row. *)
LEMMA RowsWritten ==
  ASSUME db \in [Orders -> Row], NEW o \in Orders, Exists(db, o)
  PROVE  /\ \A status \in Status \ Terminal :
              Rewritten(UpdateOrderStatus(db, o, status), o,
                        status, db[o].log, db[o].tx, db[o].dex)
         /\ \A dex \in Dex :
              Rewritten(UpdateOrderRouting(db, o, dex), o,
                        "routing", db[o].log, db[o].tx, dex)
         /\ \A tx \in Nat :
              Rewritten(UpdateOrderConfirmed(db, o, tx), o,
                        "confirmed", db[o].log \cup {"confirmed"}, tx, db[o].dex)
         /\ Rewritten(UpdateOrderFailed(db, o), o,
                      "failed", db[o].log \cup {"failed"}, db[o].tx, db[o].dex)
<1>1. db[o] \in Row
  OBVIOUS
<1>2. ASSUME NEW row
      PROVE  Rewritten(UpdateWhere(db, o, row), o, row.status, row.log, row.tx, row.dex)
  BY DEF UpdateWhere, Rewritten
<1>3. ASSUME NEW stage \in Status
      PROVE  LET row == WithStage(db[o], stage) IN
             /\ row \in Row /\ row.status = stage
             /\ row.tx = db[o].tx /\ row.dex = db[o].dex
             /\ row.log = db[o].log \cup ({stage} \cap Terminal)
  BY <1>1 DEF WithStage, Row, Status, Terminal
<1>4. ASSUME NEW status \in Status \ Terminal
      PROVE  Rewritten(UpdateOrderStatus(db, o, status), o,
                       status, db[o].log, db[o].tx, db[o].dex)
  <2> DEFINE row == WithStage(db[o], status)
  <2>1. row.status = status /\ row.tx = db[o].tx /\ row.dex = db[o].dex /\ row.log = db[o].log
    BY <1>3
  <2>2. Rewritten(UpdateWhere(db, o, row), o, row.status, row.log, row.tx, row.dex)
    BY <1>2
  <2> QED BY <2>1, <2>2 DEF UpdateOrderStatus
<1>5. ASSUME NEW dex \in Dex
      PROVE  Rewritten(UpdateOrderRouting(db, o, dex), o,
                       "routing", db[o].log, db[o].tx, dex)
  <2> DEFINE staged == WithStage(db[o], "routing")
             row == [staged EXCEPT !.dex = dex]
  <2>1. /\ staged \in Row /\ staged.status = "routing"
        /\ staged.tx = db[o].tx /\ staged.log = db[o].log
    BY <1>3 DEF Status, Terminal
  <2> HIDE DEF staged
  <2>2. row.status = "routing" /\ row.log = db[o].log /\ row.tx = db[o].tx /\ row.dex = dex
    BY <2>1 DEF Row
  <2> HIDE DEF row
  <2>3. Rewritten(UpdateWhere(db, o, row), o, row.status, row.log, row.tx, row.dex)
    BY <1>2
  <2> QED BY <2>2, <2>3 DEF UpdateOrderRouting, staged, row
<1>6. ASSUME NEW tx \in Nat
      PROVE  Rewritten(UpdateOrderConfirmed(db, o, tx), o,
                       "confirmed", db[o].log \cup {"confirmed"}, tx, db[o].dex)
  <2> DEFINE staged == WithStage(db[o], "confirmed")
             row == [staged EXCEPT !.tx = tx]
  <2>1. /\ staged \in Row /\ staged.status = "confirmed"
        /\ staged.dex = db[o].dex /\ staged.log = db[o].log \cup {"confirmed"}
    BY <1>3 DEF Status, Terminal
  <2> HIDE DEF staged
  <2>2. /\ row.status = "confirmed" /\ row.log = db[o].log \cup {"confirmed"}
        /\ row.tx = tx /\ row.dex = db[o].dex
    BY <2>1 DEF Row
  <2> HIDE DEF row
  <2>3. Rewritten(UpdateWhere(db, o, row), o, row.status, row.log, row.tx, row.dex)
    BY <1>2
  <2> QED BY <2>2, <2>3 DEF UpdateOrderConfirmed, staged, row
<1>7. Rewritten(UpdateOrderFailed(db, o), o,
                "failed", db[o].log \cup {"failed"}, db[o].tx, db[o].dex)
  <2> DEFINE row == WithStage(db[o], "failed")
  <2>1. /\ row.status = "failed" /\ row.tx = db[o].tx /\ row.dex = db[o].dex
        /\ row.log = db[o].log \cup {"failed"}
    BY <1>3 DEF Status, Terminal
  <2> HIDE DEF row
  <2>2. Rewritten(UpdateWhere(db, o, row), o, row.status, row.log, row.tx, row.dex)
    BY <1>2
  <2> QED BY <2>1, <2>2 DEF UpdateOrderFailed, row
<1> QED BY <1>4, <1>5, <1>6, <1>7

(* A call that goes to another label stays the same call. *)
LEMMA GotoMoves ==
  ASSUME TypeOK, NEW w \in Slots, run[w].pc \in Label, NEW label, run' = Goto(w, label)
  PROVE  /\ DOMAIN run' = Slots
         /\ \A v \in Slots \ {w} : run'[v] = run[v]
         /\ run'[w].pc = label
         /\ run'[w].order = run[w].order
         /\ run'[w].no = run[w].no
         /\ run'[w].attempt = run[w].attempt
         /\ run'[w].dex = run[w].dex
<1>1. run \in [Slots -> Run]
  BY DEF TypeOK
<1>2. run[w] \in [pc : Label, order : Orders, no : Nat, attempt : Nat,
                  dex : Dex \cup {"none"}]
  BY BusyRun
<1>3. /\ DOMAIN run' = Slots
      /\ \A v \in Slots \ {w} : run'[v] = run[v]
      /\ run'[w] = [run[w] EXCEPT !.pc = label]
  BY <1>1 DEF Goto
<1> QED BY <1>2, <1>3

(* An awaited query does nothing, or writes its row and goes on or fails.   *)
LEMMA QueryEffect ==
  ASSUME TypeOK, NEW w \in Slots, run[w].pc \in Label, NEW table, NEW next \in Label,
         Query(w, table, next, Lands(w))
  PROVE  /\ run' = Goto(w, run'[w].pc)
         /\ run'[w].dex = run[w].dex
         /\ \/ Quiet(w)
            \/ db' = table /\ pub' = pub /\ run'[w].pc \in {next, Lands(w)}
<1>1. CASE db' = table /\ run' = Goto(w, next)
  BY <1>1, GotoMoves DEF Query
<1>2. CASE db' \in {db, table} /\ run' = Goto(w, Lands(w))
  BY <1>2, GotoMoves DEF Query, Quiet
<1> QED BY <1>1, <1>2 DEF Query

(* An awaited PUBLISH does nothing, or is heard and goes on or fails. *)
LEMMA PublishEffect ==
  ASSUME TypeOK, NEW w \in Slots, run[w].pc \in Label, NEW status, NEW next \in Label,
         PublishStatus(w, status, next, Lands(w))
  PROVE  /\ run' = Goto(w, run'[w].pc)
         /\ \/ Quiet(w)
            \/ /\ db' = db /\ pub' = Sent(run[w].order, pub'[run[w].order])
               /\ pub'[run[w].order] = status
               /\ run'[w].pc \in {next, Lands(w)}
<1>1. run[w].order \in Orders /\ pub \in [Orders -> Status \cup {"none"}]
  BY BusyRun DEF TypeOK
<1>2. Sent(run[w].order, status)[run[w].order] = status
  BY <1>1 DEF Sent
<1>3. CASE pub' = Sent(run[w].order, status) /\ run' = Goto(w, next)
  BY <1>2, <1>3, GotoMoves DEF PublishStatus
<1>4. CASE pub' \in {pub, Sent(run[w].order, status)} /\ run' = Goto(w, Lands(w))
  BY <1>2, <1>4, GotoMoves DEF PublishStatus, Quiet
<1> QED BY <1>3, <1>4 DEF PublishStatus

(* Each step of a call between its start and its settlement, the swap apart, *)
(* has one of the five effects.                                              *)
LEMMA EffectOf ==
  ASSUME StartsInv, NothingEarly, NEW w \in Slots, Advancing(w)
  PROVE  /\ run' = Goto(w, run'[w].pc) \/ run'[w].pc = "setDex"
         /\ Quiet(w) \/ Speaks(w) \/ Reopens(w) \/ Confirms(w) \/ Fails(w)
<1> DEFINE o == run[w].order
<1>1. TypeOK /\ db \in [Orders -> Row]
  BY DEF StartsInv, TypeOK
<1>2. run[w].pc \in Label
  BY DEF Advancing, PublishRouting, SetRouting, GetQuotes, SetDex, SetBuilding,
         SetSubmitted, SetConfirmed, PublishConfirmed, FailOrder, PublishFailed,
         PublishRetry, Label, BeforeSwap, AfterSwap
<1>3. o \in Orders /\ run[w].no \in Nat /\ Exists(db, o)
  BY <1>2, BusyRun, CallHasRow DEF StartsInv
<1>4. \A label : Goto(w, label)[w].pc = label
  BY <1>1, <1>2, BusyRun DEF TypeOK, Goto
<1> USE <1>1, <1>2
<1>a. CASE PublishRouting(w)
  <2>1. /\ run[w].pc = "publishRouting" /\ Lands(w) = Catch(w)
        /\ PublishStatus(w, "routing", "setRouting", Lands(w))
        /\ "setRouting" \in Label
    BY <1>a DEF PublishRouting, Lands, Label, BeforeSwap
  <2> QED BY <2>1, PublishEffect DEF Speaks
<1>b. CASE SetRouting(w) \/ SetBuilding(w) \/ SetSubmitted(w)
  <2>1. Lands(w) = Catch(w) /\ run[w].pc # "setDex"
    BY <1>b DEF SetRouting, SetBuilding, SetSubmitted, Lands
  <2>2. PICK status \in {"routing", "building", "submitted"},
             next \in {"getQuotes", "executeSwap", "setConfirmed"} :
          /\ Query(w, UpdateOrderStatus(db, o, status), next, Lands(w))
          /\ \/ run[w].pc = "setRouting" /\ next = "getQuotes"
             \/ run[w].pc = "setBuilding" /\ next = "executeSwap"
             \/ run[w].pc = "setSubmitted" /\ next = "setConfirmed"
    BY <1>b, <2>1 DEF SetRouting, SetBuilding, SetSubmitted
  <2>3. next \in Label /\ status \in Status \ Terminal
    BY DEF Label, BeforeSwap, AfterSwap, Status, Terminal
  <2>4. Rewritten(UpdateOrderStatus(db, o, status), o,
                  status, db[o].log, db[o].tx, db[o].dex)
    BY <1>3, <2>3, RowsWritten
  <2>5. /\ run' = Goto(w, run'[w].pc)
        /\ \/ Quiet(w)
           \/ /\ db' = UpdateOrderStatus(db, o, status) /\ pub' = pub
              /\ run'[w].pc \in {next, Lands(w)}
    BY <2>2, <2>3, QueryEffect
  <2> QED BY <2>1, <2>2, <2>3, <2>4, <2>5 DEF Reopens
<1>c. CASE GetQuotes(w)
  <2>1. run[w].pc = "getQuotes" /\ Lands(w) = Catch(w) /\ db' = db /\ pub' = pub
    BY <1>c DEF GetQuotes, Lands
  <2>2. CASE \E d \in Dex : run' = [run EXCEPT ![w].pc = "setDex", ![w].dex = d]
    <3>1. run'[w].pc = "setDex"
      BY <2>2, BusyRun DEF TypeOK
    <3> QED BY <2>1, <3>1 DEF Quiet
  <2>3. CASE run' = Goto(w, Catch(w))
    BY <1>4, <2>1, <2>3 DEF Quiet
  <2> QED BY <1>c, <2>2, <2>3 DEF GetQuotes
<1>d. CASE SetDex(w)
  <2>1. /\ run[w].pc = "setDex" /\ Lands(w) = Catch(w)
        /\ Query(w, UpdateOrderRouting(db, o, run[w].dex), "setBuilding", Lands(w))
        /\ "setBuilding" \in Label
    BY <1>d DEF SetDex, Lands, Label, BeforeSwap
  <2>2. run[w].dex \in Dex /\ "routing" \in Status \ Terminal
    BY <2>1 DEF StartsInv, DexChosen, Status, Terminal
  <2>3. Rewritten(UpdateOrderRouting(db, o, run[w].dex), o,
                  "routing", db[o].log, db[o].tx, run[w].dex)
    BY <1>3, <2>2, RowsWritten
  <2> QED BY <2>1, <2>2, <2>3, QueryEffect DEF Reopens
<1>g. CASE SetConfirmed(w)
  <2>1. run[w].pc = "setConfirmed" /\ Lands(w) = Catch(w)
    BY <1>g DEF SetConfirmed, Lands
  <2>2. CASE Query(w, UpdateOrderConfirmed(db, o, run[w].no), "publishConfirmed", Catch(w))
    <3>1. Rewritten(UpdateOrderConfirmed(db, o, run[w].no), o,
                    "confirmed", db[o].log \cup {"confirmed"}, run[w].no, db[o].dex)
      BY <1>3, RowsWritten
    <3>2. "publishConfirmed" \in Label
      BY DEF Label, AfterSwap
    <3> QED BY <2>1, <2>2, <3>1, <3>2, QueryEffect DEF Confirms
  <2>3. CASE run' = Goto(w, Catch(w)) /\ UNCHANGED <<db, pub>>
    BY <1>4, <2>1, <2>3 DEF Quiet
  <2> QED BY <1>g, <2>2, <2>3 DEF SetConfirmed
<1>h. CASE PublishConfirmed(w)
  <2>1. /\ run[w].pc = "publishConfirmed" /\ Lands(w) = Catch(w)
        /\ PublishStatus(w, "confirmed", "complete", Lands(w))
        /\ "complete" \in Label
    BY <1>h DEF PublishConfirmed, Lands, Label, AfterSwap
  <2> QED BY <2>1, PublishEffect DEF Speaks
<1>i. CASE FailOrder(w)
  <2>1. /\ run[w].pc = "failOrder" /\ Lands(w) = "reject"
        /\ Query(w, UpdateOrderFailed(db, o), "publishFailed", Lands(w))
        /\ "publishFailed" \in Label
    BY <1>i DEF FailOrder, Lands, Label, AfterSwap
  <2>2. Rewritten(UpdateOrderFailed(db, o), o,
                  "failed", db[o].log \cup {"failed"}, db[o].tx, db[o].dex)
    BY <1>3, RowsWritten
  <2> QED BY <2>1, <2>2, QueryEffect DEF Fails
<1>j. CASE PublishFailed(w)
  <2>1. /\ run[w].pc = "publishFailed" /\ Lands(w) = "reject" /\ "reject" \in Label
        /\ PublishStatus(w, "failed", "reject", Lands(w))
    BY <1>j DEF PublishFailed, Lands, Label, AfterSwap
  <2> QED BY <2>1, PublishEffect DEF Speaks
<1>k. CASE PublishRetry(w)
  <2>1. /\ run[w].pc = "publishRetry" /\ Lands(w) = "reject" /\ "reject" \in Label
        /\ PublishStatus(w, "pending", "reject", Lands(w))
    BY <1>k DEF PublishRetry, Lands, Label, AfterSwap
  <2> QED BY <2>1, PublishEffect DEF Speaks
<1> QED BY <1>a, <1>b, <1>c, <1>d, <1>g, <1>h, <1>i, <1>j, <1>k DEF Advancing

(* Such a step is local. *)
LEMMA StepIsLocal ==
  ASSUME StartsInv, NothingEarly, NEW w \in Slots, Advancing(w)
  PROVE  /\ Local(w)
         /\ UNCHANGED <<late, swaps>>
         /\ run'[w].pc # "setDex" => run'[w].dex = run[w].dex
<1> DEFINE o == run[w].order
<1>1. TypeOK /\ db \in [Orders -> Row] /\ pub \in [Orders -> Status \cup {"none"}]
  BY DEF StartsInv, TypeOK
<1>2. Advances(w)
  BY AdvancingAdvances DEF StartsInv
<1>3. /\ run' = Goto(w, run'[w].pc) \/ run'[w].pc = "setDex"
      /\ Quiet(w) \/ Speaks(w) \/ Reopens(w) \/ Confirms(w) \/ Fails(w)
  BY EffectOf
<1>4. \A p \in Orders \ {o} : db'[p] = db[p] /\ pub'[p] = pub[p]
  BY <1>1, <1>3 DEF Quiet, Speaks, Sent, Reopens, Confirms, Fails, Rewritten
<1>5. run[w].pc \in Label /\ db' \in [Orders -> Row]
  BY <1>2 DEF Advances, Keeps
<1>6. run'[w].attempt = run[w].attempt
  <2>1. CASE run' = Goto(w, run'[w].pc)
    BY <1>1, <1>5, <2>1, GotoMoves
  <2>2. CASE run' # Goto(w, run'[w].pc)
    <3>1. GetQuotes(w)
      BY <1>1, <1>3, <1>5, <2>2, GotoMoves
         DEF Advancing, PublishRouting, SetRouting, SetDex, SetBuilding, SetSubmitted,
             SetConfirmed, PublishConfirmed, FailOrder, PublishFailed, PublishRetry,
             Query, PublishStatus
    <3>2. PICK d \in Dex : run' = [run EXCEPT ![w].pc = "setDex", ![w].dex = d]
      BY <1>1, <1>5, <2>2, <3>1, GotoMoves DEF GetQuotes
    <3> QED BY <1>1, <1>5, <3>2, BusyRun DEF TypeOK
  <2> QED BY <2>1, <2>2
<1>7. run'[w].pc # "setDex" => run'[w].dex = run[w].dex
  BY <1>1, <1>3, <1>5, GotoMoves
<1> QED BY <1>2, <1>4, <1>5, <1>6, <1>7 DEF Advances, Local

-----------------------------------------------------------------------------
(* What a local step has to answer for *)

(* The parts of CallsKnow and CallsAlone that are about one call. *)
Knows(w) ==
  LET r == run[w] IN
  /\ r.attempt <= job[r.order].made
  /\ r.pc \in {"failOrder", "publishFailed"} => IsFinalAttempt(w)
  /\ r.pc \in {"setSubmitted", "setConfirmed"} =>
       [no |-> r.no, dex |-> r.dex, within |-> TRUE] \in swaps[r.order]
  /\ r.pc = "publishConfirmed" => "confirmed" \in db[r.order].log
  /\ r.pc = "publishFailed" => "failed" \in db[r.order].log

Alone(w) ==
  LET r == run[w] IN
  /\ r.pc \in {"setBuilding", "executeSwap", "setSubmitted", "setConfirmed"} =>
       db[r.order].dex = r.dex
  /\ r.pc \in {"publishConfirmed", "complete"} => db[r.order].status = "confirmed"
  /\ r.pc = "complete" => pub[r.order] = "confirmed"

(* The parts of the invariant that are about the record of one order. *)
Sound(o) ==
  /\ db[o].status \in Terminal => db[o].status \in db[o].log
  /\ pub[o] \in Terminal => pub[o] \in db[o].log
  /\ "failed" \in db[o].log => job[o].made + 1 >= MaxRetries
  /\ db[o].status = "confirmed" =>
       \E s \in swaps[o] : /\ s.no = db[o].tx
                           /\ s.within
                           /\ Without({"stall"}) => s.dex = db[o].dex

(* The parts of the invariant about calls, call by call. *)
LEMMA Parts ==
  /\ CallsKnow <=> \A w \in Slots : Busy(w) => Knows(w)
  /\ CallsAlone <=> (Without({"stall"}) => \A w \in Slots : Busy(w) => Alone(w))
  /\ EndsLogged /\ NoPrematureNews /\ FailedMeansExhausted /\ ConfirmedTrade
       <=> \A o \in Orders : Sound(o)
BY DEF CallsKnow, Knows, CallsAlone, Alone, EndsLogged, NoPrematureNews,
       FailedMeansExhausted, ConfirmedTrade, Sound

(* Without lost locks the order of a call is active and has no other call. *)
LEMMA NoOtherCall ==
  ASSUME StartsInv, SoleProcessor, Without({"stall"}), NEW w \in Slots, Busy(w)
  PROVE  /\ job[run[w].order].state = "active"
         /\ job[run[w].order].lock = run[w].no
         /\ \A v \in Slots \ {w} : Busy(v) => run[v].order # run[w].order
BY DEF StartsInv, RunsAreStarts, SoleProcessor

(* A local step answers for its own call and its own order; the rest of the *)
(* invariant is kept because logs and swaps only grow.                      *)
LEMMA LocalInv ==
  ASSUME IInv, StartsInv', NEW w \in Slots, Local(w),
         NEW o \in Orders, o = run[w].order,
         db[o].log \subseteq db'[o].log,
         Knows(w)', Sound(o)',
         Without({"stall"}) => Alone(w)',
         Without({"crash", "stall"}) /\ db'[o].status = "failed" =>
           run'[w].pc \in {"publishFailed", "reject"}
  PROVE  IInv'
<1>1. \A kinds : Without(kinds)' <=> Without(kinds)
  BY DEF Local, Without
<1>2. Without({"crash", "stall"}) => Without({"stall"})
  BY DEF Without
<1>3. /\ run[w].pc \in Label /\ run'[w].pc \in Label /\ run'[w].order = o
      /\ run'[w].no = run[w].no
      /\ \A v \in Slots \ {w} : run'[v] = run[v]
      /\ \A p \in Orders \ {o} : db'[p] = db[p] /\ pub'[p] = pub[p]
      /\ \A p \in Orders : swaps[p] \subseteq swaps'[p]
      /\ UNCHANGED <<faults, submission, job>>
  BY DEF Local
<1>4. Busy(w) /\ o \in Orders /\ Busy(w)'
  BY <1>3, BusyRun DEF IInv, StartsInv, Busy, Label, BeforeSwap, AfterSwap
<1>5. job[o].state # "none" /\ submission[o] # "new"
  BY <1>4, CallHasRow DEF IInv
<1>6. ASSUME Without({"stall"})
      PROVE  /\ job[o].state = "active"
             /\ \A v \in Slots \ {w} : Busy(v) => run[v].order # o
  BY <1>4, <1>6, NoOtherCall DEF IInv
<1>7. \A p \in Orders : db[p].log \subseteq db'[p].log
  BY <1>3
<1>8. NothingEarly'
  BY <1>3, <1>5 DEF IInv, NothingEarly
<1>9. \A p \in Orders : Sound(p)'
  <2> SUFFICES ASSUME NEW p \in Orders, p # o
               PROVE  Sound(p)'
    OBVIOUS
  <2>1. Sound(p)
    BY Parts DEF IInv
  <2> QED BY <1>1, <1>3, <2>1 DEF Sound
<1>10. ASSUME NEW v \in Slots \ {w}, Busy(v)'
       PROVE  /\ Knows(v)'
              /\ Without({"stall"}) => Alone(v)'
  <2>1. run'[v] = run[v] /\ Busy(v) /\ run[v].order \in Orders
    BY <1>3, <1>10, BusyRun DEF IInv, StartsInv, Busy
  <2>2. Knows(v)
    BY <2>1, Parts DEF IInv
  <2>3. Knows(v)'
    BY <1>3, <1>7, <2>1, <2>2 DEF Knows, IsFinalAttempt
  <2>4. ASSUME Without({"stall"})
        PROVE  Alone(v)'
    <3>1. Alone(v) /\ run[v].order # o
      BY <1>6, <2>1, <2>4, Parts DEF IInv
    <3> QED BY <1>3, <2>1, <3>1 DEF Alone
  <2> QED BY <2>3, <2>4
<1>11. CallsKnow' /\ CallsAlone'
  BY <1>1, <1>10 DEF CallsKnow, Knows, CallsAlone, Alone
<1>12. SoleProcessor'
  BY <1>1, <1>3, <1>4 DEF IInv, SoleProcessor, Busy
<1>13. FailedSettled'
  <2> SUFFICES ASSUME Without({"crash", "stall"})
               PROVE  /\ \A p \in Orders : job'[p].state = "active" => job'[p].lock # 0
                      /\ \A p \in Orders : db'[p].status = "failed" =>
                           /\ job'[p].state \in {"active", "failed"}
                           /\ \A v \in Slots : run'[v].order = p =>
                                run'[v].pc \in {"publishFailed", "reject"}
    BY <1>1 DEF FailedSettled
  <2>1. \A p \in Orders : job'[p].state = "active" => job'[p].lock # 0
    BY <1>3 DEF IInv, FailedSettled
  <2>2. ASSUME NEW p \in Orders \ {o}, db'[p].status = "failed"
        PROVE  /\ job'[p].state \in {"active", "failed"}
               /\ \A v \in Slots : run'[v].order = p =>
                    run'[v].pc \in {"publishFailed", "reject"}
    BY <1>3, <2>2 DEF IInv, FailedSettled
  <2>3. ASSUME db'[o].status = "failed"
        PROVE  /\ job'[o].state \in {"active", "failed"}
               /\ \A v \in Slots : run'[v].order = o =>
                    run'[v].pc \in {"publishFailed", "reject"}
    <3>1. \A v \in Slots : run[v].order = o => Busy(v)
      BY <1>4, OnlyCallsHaveOrders DEF IInv, StartsInv
    <3>2. \A v \in Slots \ {w} : run'[v].order # o
      BY <1>2, <1>3, <1>6, <3>1
    <3> QED BY <1>2, <1>3, <1>6, <2>3, <3>2
  <2> QED BY <2>1, <2>2, <2>3
<1>14. CompletedConfirmed'
  <2> SUFFICES ASSUME Without({"stall"}), NEW p \in Orders, job'[p].state = "completed"
               PROVE  db'[p].status = "confirmed" /\ pub'[p] = "confirmed"
    BY <1>1 DEF CompletedConfirmed
  <2> QED BY <1>3, <1>6 DEF IInv, CompletedConfirmed
<1>15. EndsLogged' /\ NoPrematureNews' /\ FailedMeansExhausted' /\ ConfirmedTrade'
  BY <1>9 DEF EndsLogged, NoPrematureNews, FailedMeansExhausted, ConfirmedTrade, Sound
<1> QED BY <1>8, <1>11, <1>12, <1>13, <1>14, <1>15 DEF IInv

(* A failure leads to the last attempt's end, to a retry, or out. *)
LEMMA WhereItLands ==
  ASSUME NEW w \in Slots
  PROVE  /\ Lands(w) \in {"failOrder", "publishRetry", "reject"}
         /\ Lands(w) = "failOrder" => IsFinalAttempt(w)
BY DEF Lands, Catch

(* The five effects keep the invariant. *)
LEMMA AdvancingInv ==
  ASSUME IInv, NEW w \in Slots, Advancing(w)
  PROVE  IInv'
<1>0. PICK o \in Orders : o = run[w].order
  BY AdvancingAdvances, BusyRun DEF IInv, StartsInv, Advances
<1> DEFINE to == run'[w].pc
<1>1. /\ StartsInv' /\ Local(w) /\ UNCHANGED <<late, swaps>>
      /\ to # "setDex" => run'[w].dex = run[w].dex
      /\ Quiet(w) \/ Speaks(w) \/ Reopens(w) \/ Confirms(w) \/ Fails(w)
  BY AdvancingAdvances, AdvancesInv, StepIsLocal, EffectOf DEF IInv, StartsInv
<1>2. /\ run[w].pc \in Label /\ run[w].pc # "reject"
      /\ run'[w].order = o /\ run'[w].no = run[w].no /\ run'[w].attempt = run[w].attempt
      /\ UNCHANGED <<faults, job, swaps>>
  BY <1>0, <1>1
     DEF Local, Advancing, PublishRouting, SetRouting, GetQuotes, SetDex, SetBuilding,
              SetSubmitted, SetConfirmed, PublishConfirmed, FailOrder, PublishFailed,
              PublishRetry
<1>3. Busy(w) /\ o \in Orders /\ db[o] \in Row
  BY <1>0, <1>2, BusyRun, CallHasRow DEF IInv, StartsInv
<1>4. /\ run[w].attempt \in Nat /\ job[o].made \in Nat
  BY <1>0, <1>3, CallHasRow DEF IInv, StartsInv, TypeOK, Job
<1>5. Knows(w) /\ Sound(o) /\ (Without({"stall"}) => Alone(w))
  BY <1>0, <1>3, Parts DEF IInv
<1>6. Without({"crash", "stall"}) /\ db[o].status = "failed" =>
        run[w].pc \in {"publishFailed", "reject"}
  BY <1>0, <1>3 DEF IInv, FailedSettled
<1>7. IsFinalAttempt(w)' <=> IsFinalAttempt(w)
  BY <1>0, <1>2 DEF IsFinalAttempt
<1>8. /\ Lands(w) \in {"failOrder", "publishRetry", "reject"}
      /\ Lands(w) = "failOrder" => IsFinalAttempt(w)
  BY WhereItLands
<1>9. Without({"stall"})' <=> Without({"stall"})
  BY <1>0, <1>2 DEF Without
<1> SUFFICES /\ db[o].log \subseteq db'[o].log
             /\ Knows(w)' /\ Sound(o)'
             /\ Without({"stall"}) => Alone(w)'
             /\ Without({"crash", "stall"}) /\ db'[o].status = "failed" =>
                  to \in {"publishFailed", "reject"}
  BY <1>0, <1>1, <1>3, LocalInv
<1>a. CASE Quiet(w)
  <2>1. db' = db /\ pub' = pub
    BY <1>0, <1>a DEF Quiet
  <2>2. to \in {"failOrder", "publishRetry", "reject", "setDex"}
    BY <1>0, <1>8, <1>a DEF Quiet
  <2>3. Knows(w)'
    BY <1>0, <1>2, <1>5, <1>7, <1>8, <1>a, <2>2 DEF Knows, Quiet
  <2>4. Sound(o)'
    BY <1>0, <1>2, <1>5, <1>9, <2>1 DEF Sound
  <2>5. Alone(w)'
    BY <1>0, <2>2 DEF Alone
  <2>6. run[w].pc = "publishFailed" => to = "reject"
    BY <1>0, <1>a DEF Quiet, Lands
  <2> QED BY <1>0, <1>2, <1>6, <2>1, <2>3, <2>4, <2>5, <2>6
<1>b. CASE Speaks(w)
  <2>1. db' = db /\ to \in {"setRouting", "complete", "failOrder", "publishRetry", "reject"}
    BY <1>0, <1>8, <1>b DEF Speaks
  <2>2. Knows(w)'
    <3>1. to = "failOrder" => IsFinalAttempt(w)
      BY <1>0, <1>8, <1>b DEF Speaks
    <3> QED BY <1>0, <1>2, <1>5, <1>7, <2>1, <3>1 DEF Knows
  <2>3. Sound(o)'
    <3>1. pub'[o] \in Terminal => pub'[o] \in db[o].log
      BY <1>0, <1>5, <1>b DEF Speaks, Knows, Terminal
    <3> QED BY <1>0, <1>2, <1>5, <1>9, <2>1, <3>1 DEF Sound
  <2>4. Without({"stall"}) => Alone(w)'
    <3>1. to = "complete" => run[w].pc = "publishConfirmed" /\ pub'[o] = "confirmed"
      BY <1>0, <1>8, <1>b DEF Speaks
    <3> QED BY <1>0, <1>2, <1>5, <2>1, <3>1 DEF Alone
  <2>5. run[w].pc = "publishFailed" => to = "reject"
    BY <1>0, <1>b DEF Speaks
  <2> QED BY <1>0, <1>2, <1>6, <2>1, <2>2, <2>3, <2>4, <2>5
<1>c. CASE Reopens(w)
  <2>1. /\ pub' = pub /\ db'[o].log = db[o].log
        /\ db'[o].status \in Status \ Terminal
        /\ db'[o].dex = IF run[w].pc = "setDex" THEN run[w].dex ELSE db[o].dex
    BY <1>0, <1>c DEF Reopens, Rewritten
  <2>2. /\ to \in {"getQuotes", "setBuilding", "executeSwap", "setConfirmed",
                   "failOrder", "publishRetry", "reject"}
        /\ to = "failOrder" => IsFinalAttempt(w)
        /\ to = "setBuilding" => run[w].pc = "setDex"
        /\ to = "executeSwap" => run[w].pc = "setBuilding"
        /\ to = "setConfirmed" => run[w].pc = "setSubmitted"
    BY <1>0, <1>8, <1>c DEF Reopens
  <2>3. run'[w].dex = run[w].dex
    BY <1>0, <1>1, <2>2
  <2>4. Knows(w)'
    BY <1>0, <1>2, <1>5, <1>7, <2>2, <2>3 DEF Knows
  <2>5. Sound(o)'
    BY <1>0, <1>2, <1>5, <2>1 DEF Sound, Terminal
  <2>6. Without({"stall"}) => Alone(w)'
    BY <1>0, <1>2, <1>5, <2>1, <2>2, <2>3 DEF Alone
  <2> QED BY <1>0, <2>1, <2>4, <2>5, <2>6 DEF Terminal
<1>d. CASE Confirms(w)
  <2>1. /\ pub' = pub /\ db'[o].status = "confirmed"
        /\ db'[o].log = db[o].log \cup {"confirmed"}
        /\ db'[o].tx = run[w].no /\ db'[o].dex = db[o].dex
        /\ run[w].pc = "setConfirmed"
    BY <1>0, <1>d DEF Confirms, Rewritten
  <2>2. /\ to \in {"publishConfirmed", "failOrder", "publishRetry", "reject"}
        /\ to = "failOrder" => IsFinalAttempt(w)
    BY <1>0, <1>8, <1>d DEF Confirms
  <2>3. Knows(w)'
    BY <1>0, <1>2, <1>5, <1>7, <2>1, <2>2 DEF Knows
  <2>4. Sound(o)'
    <3> DEFINE swap == [no |-> run[w].no, dex |-> run[w].dex, within |-> TRUE]
    <3>1. swap \in swaps[o]
      BY <1>0, <1>5, <2>1 DEF Knows
    <3>2. Without({"stall"}) => db[o].dex = run[w].dex
      BY <1>0, <1>5, <2>1 DEF Alone
    <3>3. /\ swap.no = db'[o].tx /\ swap.within
          /\ Without({"stall"}) => swap.dex = db'[o].dex
      BY <1>0, <2>1, <3>2
    <3>4. \E s \in swaps'[o] : /\ s.no = db'[o].tx /\ s.within
                               /\ Without({"stall"})' => s.dex = db'[o].dex
      BY <1>0, <1>2, <1>9, <3>1, <3>3
    <3> QED BY <1>0, <1>2, <1>5, <2>1, <3>4 DEF Sound, Terminal
  <2>5. Alone(w)'
    BY <1>0, <1>2, <2>1, <2>2 DEF Alone
  <2> QED BY <1>0, <2>1, <2>3, <2>4, <2>5
<1>e. CASE Fails(w)
  <2>1. /\ pub' = pub /\ db'[o].status = "failed"
        /\ db'[o].log = db[o].log \cup {"failed"}
        /\ run[w].pc = "failOrder"
        /\ to \in {"publishFailed", "reject"}
    BY <1>0, <1>e DEF Fails, Rewritten
  <2>2. IsFinalAttempt(w) /\ job[o].made + 1 >= MaxRetries
    BY <1>0, <1>4, <1>5, <2>1, ExecutionAssumption DEF Knows, IsFinalAttempt, ExecutionAssumption
  <2>3. Knows(w)'
    BY <1>0, <1>2, <1>5, <1>7, <2>1, <2>2 DEF Knows
  <2>4. Sound(o)'
    BY <1>0, <1>2, <1>5, <2>1, <2>2 DEF Sound, Terminal
  <2>5. Alone(w)'
    BY <1>0, <2>1 DEF Alone
  <2> QED BY <1>0, <2>1, <2>3, <2>4, <2>5
<1> QED BY <1>0, <1>1, <1>a, <1>b, <1>c, <1>d, <1>e

(* The swap is local too: a call goes on from it only with a good swap.     *)
LEMMA ExecuteSwapInv ==
  ASSUME IInv, NEW w \in Slots, ExecuteSwap(w)
  PROVE  IInv'
<1>1. /\ run[w].pc = "executeSwap" /\ run[w].pc \in Label /\ Busy(w)
      /\ UNCHANGED <<faults, submission, db, pub, job>>
  BY DEF ExecuteSwap, Label, BeforeSwap, Busy
<1>2. TypeOK /\ db \in [Orders -> Row] /\ swaps \in [Orders -> SUBSET Swap]
  BY DEF IInv, StartsInv, TypeOK
<1>3. PICK o \in Orders : o = run[w].order
  BY <1>1, <1>2, BusyRun
<1> DEFINE swap(within) == [no |-> run[w].no, dex |-> run[w].dex, within |-> within]
<1>4. /\ run' = Goto(w, run'[w].pc)
      /\ \/ \E within \in BOOLEAN :
              /\ swaps' = [swaps EXCEPT ![o] = @ \cup {swap(within)}]
              /\ run'[w].pc = IF within THEN "setSubmitted" ELSE Catch(w)
         \/ swaps' = swaps /\ run'[w].pc = Catch(w)
  <2>1. CASE \E within \in Fills :
               /\ swaps' = Executed(run[w].order, run[w].no, run[w].dex, within)
               /\ run' = Goto(w, IF within THEN "setSubmitted" ELSE Catch(w))
    <3>1. PICK within \in Fills :
            /\ swaps' = Executed(run[w].order, run[w].no, run[w].dex, within)
            /\ run' = Goto(w, IF within THEN "setSubmitted" ELSE Catch(w))
      BY <2>1
    <3>2. run'[w].pc = IF within THEN "setSubmitted" ELSE Catch(w)
      BY <1>1, <1>2, <3>1, GotoMoves
    <3>3. within \in BOOLEAN
      BY DEF Fills
    <3> QED BY <1>3, <3>1, <3>2, <3>3 DEF Executed
  <2>2. CASE run' = Goto(w, Catch(w)) /\ swaps' = swaps
    BY <1>1, <1>2, <2>2, GotoMoves
  <2> QED BY <2>1, <2>2 DEF ExecuteSwap
<1>5. /\ \A p \in Orders : swaps[p] \subseteq swaps'[p]
      /\ run'[w].pc = "setSubmitted" => swap(TRUE) \in swaps'[o]
      /\ run'[w].pc \in {"setSubmitted", Catch(w)}
  BY <1>2, <1>4 DEF Catch
<1>6. /\ Catch(w) \in {"failOrder", "publishRetry"}
      /\ Catch(w) = "failOrder" => IsFinalAttempt(w)
  BY DEF Catch
<1>7. run'[w].pc \in Label
  BY <1>5, <1>6 DEF Label, AfterSwap
<1>8. /\ DOMAIN run' = Slots
      /\ \A v \in Slots \ {w} : run'[v] = run[v]
      /\ run'[w].order = run[w].order /\ run'[w].no = run[w].no
      /\ run'[w].attempt = run[w].attempt /\ run'[w].dex = run[w].dex
  BY <1>1, <1>2, <1>4, GotoMoves
<1>9. Local(w)
  BY <1>1, <1>2, <1>5, <1>7, <1>8 DEF Local
<1>10. Knows(w) /\ Sound(o) /\ (Without({"stall"}) => Alone(w))
  BY <1>1, Parts DEF IInv
<1>11. Knows(w)'
  BY <1>1, <1>3, <1>5, <1>6, <1>8, <1>10 DEF Knows, IsFinalAttempt
<1>12. Sound(o)'
  BY <1>1, <1>5, <1>10 DEF Sound, Without
<1>13. Without({"stall"}) => Alone(w)'
  BY <1>1, <1>3, <1>5, <1>6, <1>8, <1>10 DEF Alone
<1>14. ~(Without({"crash", "stall"}) /\ db'[o].status = "failed")
  BY <1>1, <1>3 DEF IInv, FailedSettled
<1>15. StartsInv'
  BY SwapInv DEF IInv
<1> QED BY <1>1, <1>3, <1>9, <1>11, <1>12, <1>13, <1>14, <1>15, LocalInv

-----------------------------------------------------------------------------
(* The steps of clients, queue and environment *)

(* A late swap is one more swap, and nothing else. *)
LEMMA LateSwapSafe ==
  ASSUME IInv, NEW l \in late, LateSwap(l)
  PROVE  IInv'
<1>1. UNCHANGED <<faults, submission, db, pub, job, run>>
  BY DEF LateSwap
<1>2. \A p \in Orders : swaps[p] \subseteq swaps'[p]
  BY DEF LateSwap, Executed, IInv, StartsInv, TypeOK
<1>3. StartsInv'
  BY LateSwapInv DEF IInv
<1>4. NothingEarly' /\ EndsLogged' /\ NoPrematureNews' /\ FailedMeansExhausted'
  BY <1>1 DEF IInv, NothingEarly, EndsLogged, NoPrematureNews, FailedMeansExhausted
<1>5. SoleProcessor' /\ CallsAlone' /\ FailedSettled' /\ CompletedConfirmed'
  BY <1>1 DEF IInv, SoleProcessor, CallsAlone, FailedSettled, CompletedConfirmed, Busy, Without
<1>6. CallsKnow'
  <2>1. ASSUME NEW w \in Slots, Busy(w)
        PROVE  Knows(w)'
    <3>1. Knows(w) /\ run[w].order \in Orders
      BY <2>1, Parts, BusyRun DEF IInv, StartsInv
    <3> QED BY <1>1, <1>2, <3>1 DEF Knows, IsFinalAttempt
  <2> QED BY <1>1, <2>1 DEF CallsKnow, Knows, Busy
<1>7. ConfirmedTrade'
  BY <1>1, <1>2 DEF IInv, ConfirmedTrade, Without
<1> QED BY <1>3, <1>4, <1>5, <1>6, <1>7 DEF IInv

(* The row of a new submission: nobody works on its order yet. *)
LEMMA InsertSafe ==
  ASSUME IInv, NEW o \in Orders, InsertOrder(o)
  PROVE  IInv'
<1>1. /\ submission[o] = "new"
      /\ submission'[o] \in {"created", "rejected"}
      /\ \A p \in Orders \ {o} : submission'[p] = submission[p]
      /\ db' \in {db, CreateOrder(db, o)}
      /\ UNCHANGED <<faults, pub, job, run, late, swaps>>
  BY DEF InsertOrder, IInv, StartsInv, TypeOK
<1>2. db[o] = AbsentRow /\ job[o] = NoJob
  BY <1>1 DEF IInv, StartsInv, RowThenJob, NothingEarly
<1>3. /\ \A p \in Orders \ {o} : db'[p] = db[p]
      /\ db'[o].status \in {"absent", "pending"} /\ db'[o].log = {}
  BY <1>1, <1>2 DEF IInv, StartsInv, TypeOK, CreateOrder, AbsentRow
<1>4. \A w \in Slots : Busy(w) => run[w].order \in Orders /\ run[w].order # o
  BY <1>1, CallHasRow DEF IInv
<1>5. \A w \in Slots : Busy(w)' <=> Busy(w)
  BY <1>1 DEF Busy
<1>6. \A kinds : Without(kinds)' <=> Without(kinds)
  BY <1>1 DEF Without
<1>7. StartsInv'
  BY InsertInv DEF IInv
<1>8. NothingEarly'
  BY <1>1, <1>2, <1>3 DEF IInv, NothingEarly
<1>9. \A p \in Orders : Sound(p)'
  <2>1. Sound(o)'
    <3>1. pub[o] \notin Terminal
      BY <1>2 DEF IInv, NoPrematureNews, AbsentRow
    <3> QED BY <1>1, <1>3, <3>1 DEF Sound, Terminal
  <2>2. ASSUME NEW p \in Orders \ {o}
        PROVE  Sound(p)'
    BY <1>1, <1>3, <1>6, Parts DEF IInv, Sound
  <2> QED BY <2>1, <2>2
<1>10. ASSUME NEW w \in Slots, Busy(w)
       PROVE  Knows(w)' /\ (Without({"stall"}) => Alone(w)')
  <2>1. Knows(w) /\ (Without({"stall"}) => Alone(w))
    BY <1>10, Parts DEF IInv
  <2>2. db'[run[w].order] = db[run[w].order]
    BY <1>3, <1>4, <1>10
  <2> QED BY <1>1, <2>1, <2>2 DEF Knows, Alone, IsFinalAttempt
<1>11. CallsKnow' /\ CallsAlone'
  BY <1>5, <1>6, <1>10 DEF CallsKnow, Knows, CallsAlone, Alone
<1>12. SoleProcessor'
  BY <1>1, <1>5, <1>6 DEF IInv, SoleProcessor
<1>13. FailedSettled' /\ CompletedConfirmed'
  BY <1>1, <1>2, <1>3, <1>6 DEF IInv, FailedSettled, CompletedConfirmed, NoJob
<1>14. EndsLogged' /\ NoPrematureNews' /\ FailedMeansExhausted' /\ ConfirmedTrade'
  BY <1>9 DEF EndsLogged, NoPrematureNews, FailedMeansExhausted, ConfirmedTrade, Sound
<1> QED BY <1>7, <1>8, <1>11, <1>12, <1>13, <1>14 DEF IInv

(* The job of a new submission: its row is still pending. *)
LEMMA EnqueueSafe ==
  ASSUME IInv, NEW o \in Orders, EnqueueOrder(o)
  PROVE  IInv'
<1>1. /\ submission[o] = "created"
      /\ submission'[o] \in {"accepted", "rejected"}
      /\ \A p \in Orders \ {o} : submission'[p] = submission[p]
      /\ job' \in {job, Added(o)}
      /\ UNCHANGED <<faults, db, pub, run, late, swaps>>
  BY DEF EnqueueOrder, IInv, StartsInv, TypeOK
<1>2. job[o] = NoJob /\ db[o].status \in {"absent", "pending"}
  BY <1>1 DEF IInv, StartsInv, RowThenJob, NothingEarly, NoJob
<1>3. /\ \A p \in Orders \ {o} : job'[p] = job[p]
      /\ job'[o].made = job[o].made /\ job'[o].state \in {"none", "waiting"}
      /\ job'[o].state = "none" => job' = job
  BY <1>1, <1>2 DEF IInv, StartsInv, TypeOK, Added, NoJob
<1>4. \A w \in Slots : Busy(w) => run[w].order \in Orders /\ run[w].order # o
  BY <1>1, CallHasRow DEF IInv
<1>5. \A w \in Slots : Busy(w)' <=> Busy(w)
  BY <1>1 DEF Busy
<1>6. \A kinds : Without(kinds)' <=> Without(kinds)
  BY <1>1 DEF Without
<1>7. StartsInv'
  BY EnqueueInv DEF IInv
<1>8. NothingEarly'
  BY <1>1, <1>2, <1>3 DEF IInv, NothingEarly
<1>9. EndsLogged' /\ NoPrematureNews' /\ FailedMeansExhausted' /\ ConfirmedTrade'
  BY <1>1, <1>3, <1>6
     DEF IInv, EndsLogged, NoPrematureNews, FailedMeansExhausted, ConfirmedTrade
<1>10. \A w \in Slots : Busy(w) => job'[run[w].order] = job[run[w].order]
  BY <1>3, <1>4
<1>11. CallsKnow'
  BY <1>1, <1>5, <1>10 DEF IInv, CallsKnow, IsFinalAttempt
<1>12. CallsAlone' /\ SoleProcessor'
  BY <1>1, <1>5, <1>6, <1>10 DEF IInv, CallsAlone, SoleProcessor
<1>13. FailedSettled' /\ CompletedConfirmed'
  BY <1>1, <1>2, <1>3, <1>6 DEF IInv, FailedSettled, CompletedConfirmed
<1> QED BY <1>7, <1>8, <1>9, <1>11, <1>12, <1>13 DEF IInv

(* Taking a job: a waiting job has no call and no failed row. *)
LEMMA TakeSafe ==
  ASSUME IInv, NEW w \in Slots, NEW o \in Orders, TakeJob(w, o)
  PROVE  IInv'
<1> DEFINE no == job[o].starts + 1
<1>1. /\ job[o].state = "waiting" /\ ~Busy(w)
      /\ UNCHANGED <<faults, submission, db, pub, late, swaps>>
  BY DEF TakeJob, Busy
<1>2. job \in [Orders -> Job] /\ job[o] \in Job /\ run \in [Slots -> Run]
  BY DEF IInv, StartsInv, TypeOK
<1>3. /\ \A p \in Orders \ {o} : job'[p] = job[p]
      /\ job'[o].state = "active" /\ job'[o].lock = no /\ job'[o].made = job[o].made
      /\ no # 0
  BY <1>2 DEF TakeJob, Job
<1>4. /\ \A v \in Slots \ {w} : run'[v] = run[v]
      /\ run'[w].pc = "publishRouting" /\ run'[w].order = o
      /\ run'[w].no = no /\ run'[w].attempt = job[o].made
  BY <1>2 DEF TakeJob
<1>5. \A kinds : Without(kinds)' <=> Without(kinds)
  BY <1>1 DEF Without
<1>6. \A v \in Slots \ {w} : Busy(v)' => Busy(v) /\ run[v].order \in Orders
  BY <1>4, BusyRun DEF IInv, StartsInv, Busy
<1>7. ASSUME Without({"stall"}), NEW v \in Slots, Busy(v)
      PROVE  run[v].order # o
  BY <1>1, <1>7 DEF IInv, SoleProcessor
<1>8. StartsInv'
  BY TakeInv DEF IInv
<1>9. NothingEarly'
  BY <1>1, <1>3 DEF IInv, NothingEarly
<1>10. EndsLogged' /\ NoPrematureNews' /\ FailedMeansExhausted' /\ ConfirmedTrade'
  BY <1>1, <1>3, <1>5
     DEF IInv, EndsLogged, NoPrematureNews, FailedMeansExhausted, ConfirmedTrade
<1>11. Knows(w)' /\ Alone(w)'
  BY <1>2, <1>3, <1>4 DEF Knows, Alone, Job
<1>12. ASSUME NEW v \in Slots \ {w}, Busy(v)'
       PROVE  Knows(v)' /\ (Without({"stall"}) => Alone(v)')
  <2>1. Knows(v) /\ (Without({"stall"}) => Alone(v)) /\ run[v].order \in Orders
    BY <1>6, <1>12, Parts DEF IInv
  <2>2. job'[run[v].order].made = job[run[v].order].made
    BY <1>3, <2>1
  <2> QED BY <1>1, <1>4, <2>1, <2>2 DEF Knows, Alone, IsFinalAttempt
<1>13. CallsKnow' /\ CallsAlone'
  BY <1>5, <1>11, <1>12 DEF CallsKnow, Knows, CallsAlone, Alone
<1>14. SoleProcessor'
  <2> SUFFICES ASSUME Without({"stall"}), NEW v \in Slots, Busy(v)'
               PROVE  job'[run'[v].order].state = "active" /\ job'[run'[v].order].lock = run'[v].no
    BY <1>5 DEF SoleProcessor
  <2>1. CASE v = w
    BY <1>3, <1>4, <2>1
  <2>2. CASE v # w
    BY <1>3, <1>4, <1>6, <1>7, <2>2 DEF IInv, SoleProcessor
  <2> QED BY <2>1, <2>2
<1>15. FailedSettled'
  <2>1. Without({"crash", "stall"}) => db[o].status # "failed"
    BY <1>1 DEF IInv, FailedSettled
  <2> QED BY <1>1, <1>3, <1>4, <1>5, <2>1 DEF IInv, FailedSettled
<1>16. CompletedConfirmed'
  BY <1>1, <1>3, <1>5 DEF IInv, CompletedConfirmed
<1> QED BY <1>8, <1>9, <1>10, <1>13, <1>14, <1>15, <1>16 DEF IInv

(* A step that only settles or frees jobs and ends calls.  It answers for   *)
(* who holds which lock and for what a finished job implies.                *)
LEMMA ReleaseSafe ==
  ASSUME IInv, StartsInv',
         \A v \in Slots : run'[v] = run[v] \/ run'[v] = Idle,
         \A p \in Orders : job'[p].made >= job[p].made,
         \A p \in Orders : job[p].state = "none" <=> job'[p].state = "none",
         \A p \in Orders : job[p].state = "none" => job'[p] = job[p],
         \A p \in Orders : submission'[p] \in {submission[p], "rejected"},
         UNCHANGED <<faults, db, pub, late, swaps>>,
         SoleProcessor', FailedSettled', CompletedConfirmed'
  PROVE  IInv'
<1>1. \A kinds : Without(kinds)' <=> Without(kinds)
  BY DEF Without
<1>2. \A v \in Slots : Busy(v)' => Busy(v) /\ run'[v] = run[v] /\ run[v].order \in Orders
  BY BusyRun DEF IInv, StartsInv, Busy, Idle
<1>3. \A p \in Orders : job[p].made \in Nat /\ job'[p].made \in Nat
  BY DEF IInv, StartsInv, TypeOK, Job
<1>4. NothingEarly'
  BY DEF IInv, NothingEarly
<1>5. EndsLogged' /\ NoPrematureNews' /\ ConfirmedTrade'
  BY <1>1 DEF IInv, EndsLogged, NoPrematureNews, ConfirmedTrade
<1>6. FailedMeansExhausted'
  BY <1>3, ExecutionAssumption DEF IInv, FailedMeansExhausted, ExecutionAssumption
<1>7. ASSUME NEW v \in Slots, Busy(v)'
      PROVE  Knows(v)'
  <2>1. Knows(v) /\ run'[v] = run[v] /\ run[v].order \in Orders /\ run[v].attempt \in Nat
    BY <1>2, <1>7, Parts, CallHasRow DEF IInv
  <2>2. run[v].attempt <= job'[run[v].order].made
    BY <1>3, <2>1 DEF Knows
  <2> QED BY <2>1, <2>2 DEF Knows, IsFinalAttempt
<1>8. CallsKnow'
  BY <1>7 DEF CallsKnow, Knows
<1>9. CallsAlone'
  BY <1>1, <1>2 DEF IInv, CallsAlone
<1> QED BY <1>4, <1>5, <1>6, <1>8, <1>9 DEF IInv

(* BullMQ's own steps free no call's job unless a stall does. *)
LEMMA QueueSafe ==
  ASSUME IInv, NEW o \in Orders, Promote(o) \/ LockExpires(o) \/ MoveStalled(o)
  PROVE  IInv'
<1>1. UNCHANGED <<faults, submission, db, pub, run, late, swaps>>
  BY DEF Promote, LockExpires, MoveStalled
<1>2. job \in [Orders -> Job] /\ job[o] \in Job
  BY DEF IInv, StartsInv, TypeOK
<1>3. /\ \A p \in Orders \ {o} : job'[p] = job[p]
      /\ job'[o].made = job[o].made
      /\ job[o].state # "none" /\ job'[o].state \notin {"none", "completed"}
      /\ \/ job[o].state = "delayed" /\ job'[o].state = "waiting"
         \/ "stall" \in faults
         \/ job[o].state = "active" /\ job[o].lock = 0
  <2>1. CASE Promote(o)
    BY <1>2, <2>1 DEF Promote
  <2>2. CASE LockExpires(o)
    BY <1>2, <2>2 DEF LockExpires
  <2>3. CASE MoveStalled(o)
    BY <1>2, <2>3 DEF MoveStalled
  <2> QED BY <2>1, <2>2, <2>3
<1>4. \A kinds : Without(kinds)' <=> Without(kinds)
  BY <1>1 DEF Without
<1>5. /\ Without({"stall"}) => "stall" \notin faults
      /\ Without({"crash", "stall"}) => "stall" \notin faults
  BY DEF Without
<1>6. ASSUME Without({"stall"}), NEW w \in Slots, Busy(w)
      PROVE  run[w].order \in Orders /\ run[w].order # o
  <2>1. run[w].order \in Orders /\ run[w].no # 0
    BY <1>6, CallHasRow DEF IInv
  <2> QED BY <1>3, <1>5, <1>6, <2>1 DEF IInv, SoleProcessor
<1>7. SoleProcessor'
  BY <1>1, <1>3, <1>4, <1>6 DEF IInv, SoleProcessor, Busy
<1>8. FailedSettled'
  BY <1>1, <1>3, <1>4, <1>5 DEF IInv, FailedSettled
<1>9. CompletedConfirmed'
  BY <1>1, <1>3, <1>4 DEF IInv, CompletedConfirmed
<1>10. StartsInv'
  BY QueueInv DEF IInv
<1>11. \A p \in Orders : job'[p].made >= job[p].made
  BY <1>2, <1>3 DEF Job
<1> QED BY <1>1, <1>3, <1>7, <1>8, <1>9, <1>10, <1>11, ReleaseSafe

(* A process dies: it frees the locks of its own calls, which die with it.  *)
LEMMA CrashSafe ==
  ASSUME IInv, NEW p \in Processes, Crash(p)
  PROVE  IInv'
<1>1. UNCHANGED <<faults, db, pub, late, swaps>> /\ "crash" \in faults
  BY DEF Crash
<1>2. job \in [Orders -> Job]
  BY DEF IInv, StartsInv, TypeOK
<1>3. \A v \in Slots : run'[v] = IF v[1] = p THEN Idle ELSE run[v]
  BY DEF Crash
<1>4. \A o \in Orders :
        /\ job'[o].state = job[o].state /\ job'[o].made = job[o].made
        /\ job'[o].lock = IF Held(p, o) THEN 0 ELSE job[o].lock
        /\ ~Held(p, o) => job'[o] = job[o]
  BY <1>2 DEF Crash, Job
<1>5. \A o \in Orders : submission'[o] \in {submission[o], "rejected"}
  BY DEF Crash
<1>6. \A kinds : Without(kinds)' <=> Without(kinds)
  BY <1>1 DEF Without
<1>7. SoleProcessor'
  <2> SUFFICES ASSUME Without({"stall"}), NEW v \in Slots, Busy(v)'
               PROVE  /\ job'[run'[v].order].state = "active"
                      /\ job'[run'[v].order].lock = run'[v].no
    BY <1>6 DEF SoleProcessor
  <2>1. v[1] # p /\ run'[v] = run[v] /\ Busy(v)
    BY <1>3 DEF Busy, Idle
  <2>2. PICK o \in Orders : o = run[v].order
    BY <2>1, BusyRun DEF IInv, StartsInv
  <2>3. job[o].state = "active" /\ job[o].lock = run[v].no
    BY <2>1, <2>2 DEF IInv, SoleProcessor
  <2>4. ~Held(p, o)
    <3> SUFFICES ASSUME NEW c \in 1..Concurrency, run[<<p, c>>].order = o
                 PROVE  FALSE
      BY <2>1, <2>2, <2>3, NoOtherCall DEF Held, IInv
    <3>1. <<p, c>> \in Slots /\ <<p, c>> # v
      BY <2>1 DEF Slots
    <3>2. Busy(<<p, c>>)
      BY <3>1, OnlyCallsHaveOrders DEF IInv, StartsInv
    <3> QED BY <2>1, <2>2, <3>1, <3>2, NoOtherCall DEF IInv
  <2> QED BY <1>4, <2>1, <2>2, <2>3, <2>4
<1>8. FailedSettled'
  BY <1>1, <1>6 DEF FailedSettled, Without
<1>9. CompletedConfirmed'
  BY <1>1, <1>4, <1>6 DEF IInv, CompletedConfirmed
<1>10. StartsInv'
  BY CrashInv DEF IInv
<1>11. \A o \in Orders : job'[o].made >= job[o].made
  BY <1>2, <1>4 DEF Job
<1>12. \A o \in Orders : job[o].state = "none" => job'[o] = job[o]
  <2> SUFFICES ASSUME NEW o \in Orders, job[o].state = "none", Held(p, o)
               PROVE  FALSE
    BY <1>4
  <2>1. PICK c \in 1..Concurrency : run[<<p, c>>].order = o
    BY DEF Held
  <2>2. <<p, c>> \in Slots
    BY DEF Slots
  <2>3. Busy(<<p, c>>)
    BY <2>1, <2>2, OnlyCallsHaveOrders DEF IInv, StartsInv
  <2> QED BY <2>1, <2>2, <2>3, CallHasRow DEF IInv
<1> QED BY <1>1, <1>3, <1>4, <1>5, <1>7, <1>8, <1>9, <1>10, <1>11, <1>12, ReleaseSafe

(* Giving a job back: a call that completes left the order confirmed, and   *)
(* one that rejects a failed order has used the last attempt.               *)
LEMMA SettleSafe ==
  ASSUME IInv, NEW w \in Slots, Complete(w) \/ Reject(w)
  PROVE  IInv'
<1>1. /\ Busy(w) /\ run' = [run EXCEPT ![w] = Idle]
      /\ UNCHANGED <<faults, submission, db, pub, late, swaps>>
  BY DEF Complete, Reject, Busy
<1>2. PICK o \in Orders : o = run[w].order
  BY <1>1, BusyRun DEF IInv, StartsInv
<1>3. /\ job \in [Orders -> Job] /\ job[o] \in Job /\ run \in [Slots -> Run]
      /\ job[o].made \in Nat
  BY DEF IInv, StartsInv, TypeOK, Job
<1>4. PICK state \in {"completed", "delayed", "failed"} :
        /\ job' = Finished(w, state)
        /\ state = "completed" => run[w].pc = "complete"
        /\ state # "completed" => run[w].pc = "reject"
        /\ state = "delayed" => job[o].made + 1 < MaxRetries
  BY <1>2 DEF Complete, Reject, AttemptsLeft
<1>5. /\ \A p \in Orders \ {o} : job'[p] = job[p]
      /\ \/ job' = job /\ job[o].lock # run[w].no
         \/ job'[o].state = state /\ job'[o].made = job[o].made + 1
  BY <1>2, <1>3, <1>4 DEF Finished
<1>6. /\ run'[w] = Idle /\ \A v \in Slots \ {w} : run'[v] = run[v]
  BY <1>1, <1>3
<1>7. \A kinds : Without(kinds)' <=> Without(kinds)
  BY <1>1 DEF Without
<1>8. Without({"crash", "stall"}) => Without({"stall"})
  BY DEF Without
<1>9. ASSUME Without({"stall"})
      PROVE  /\ job[o].state = "active" /\ job[o].lock = run[w].no
             /\ \A v \in Slots \ {w} : Busy(v) => run[v].order # o
  BY <1>1, <1>2, <1>9, NoOtherCall DEF IInv
<1>10. SoleProcessor'
  <2> SUFFICES ASSUME Without({"stall"}), NEW v \in Slots, Busy(v)'
               PROVE  /\ job'[run'[v].order].state = "active"
                      /\ job'[run'[v].order].lock = run'[v].no
    BY <1>7 DEF SoleProcessor
  <2>1. v # w /\ run'[v] = run[v] /\ Busy(v)
    BY <1>6 DEF Busy, Idle
  <2>2. run[v].order \in Orders /\ run[v].order # o
    BY <1>9, <2>1, BusyRun DEF IInv, StartsInv
  <2> QED BY <1>5, <2>1, <2>2 DEF IInv, SoleProcessor
<1>11. CompletedConfirmed'
  <2> SUFFICES ASSUME Without({"stall"}), NEW p \in Orders, job'[p].state = "completed"
               PROVE  db[p].status = "confirmed" /\ pub[p] = "confirmed"
    BY <1>1, <1>7 DEF CompletedConfirmed
  <2>1. CASE p = o
    <3>1. run[w].pc = "complete" /\ Alone(w)
      BY <1>1, <1>4, <1>5, <1>9, <2>1, Parts DEF IInv
    <3> QED BY <1>2, <2>1, <3>1 DEF Alone
  <2>2. CASE p # o
    BY <1>5, <2>2 DEF IInv, CompletedConfirmed
  <2> QED BY <2>1, <2>2
<1>12. FailedSettled'
  <2> SUFFICES ASSUME Without({"crash", "stall"})
               PROVE  /\ \A p \in Orders : job'[p].state = "active" => job'[p].lock # 0
                      /\ \A p \in Orders : db[p].status = "failed" =>
                           /\ job'[p].state \in {"active", "failed"}
                           /\ \A v \in Slots : run'[v].order = p =>
                                run'[v].pc \in {"publishFailed", "reject"}
    BY <1>1, <1>7 DEF FailedSettled
  <2>1. job'[o].state = state
    BY <1>5, <1>8, <1>9
  <2>2. db[o].status = "failed" => state = "failed"
    <3> SUFFICES ASSUME db[o].status = "failed"
                 PROVE  state = "failed"
      OBVIOUS
    <3>1. run[w].pc \in {"publishFailed", "reject"}
      BY <1>2 DEF IInv, FailedSettled
    <3>2. job[o].made + 1 >= MaxRetries
      BY DEF IInv, EndsLogged, FailedMeansExhausted, Terminal
    <3> QED BY <1>3, <1>4, <3>1, <3>2, ExecutionAssumption DEF ExecutionAssumption
  <2>3. \A p \in Orders : Idle.order # p
    BY ExecutionAssumption DEF Idle, ExecutionAssumption
  <2> QED BY <1>4, <1>5, <1>6, <2>1, <2>2, <2>3 DEF IInv, FailedSettled
<1>13. StartsInv'
  BY SettleInv DEF IInv
<1>14. \A p \in Orders : job'[p].made >= job[p].made
  BY <1>3, <1>5 DEF Job
<1>15. job[o].state # "none"
  BY <1>1, <1>2, CallHasRow DEF IInv
<1> QED BY <1>1, <1>4, <1>5, <1>6, <1>10, <1>11, <1>12, <1>13, <1>14, <1>15, ReleaseSafe

-----------------------------------------------------------------------------
(* The invariant *)

(* Nothing has been said, recorded or begun at first. *)
LEMMA InitSafe ==
  ASSUME Init
  PROVE  IInv
<1> USE DEF Init
<1>1. StartsInv
  BY InitInv
<1>2. NothingEarly /\ EndsLogged /\ NoPrematureNews /\ FailedMeansExhausted /\ ConfirmedTrade
  BY DEF NothingEarly, EndsLogged, NoPrematureNews, FailedMeansExhausted, ConfirmedTrade,
         AbsentRow, Terminal
<1>3. CallsKnow /\ CallsAlone /\ SoleProcessor
  BY DEF CallsKnow, CallsAlone, SoleProcessor, Busy, Idle
<1>4. FailedSettled /\ CompletedConfirmed
  BY DEF FailedSettled, CompletedConfirmed, NoJob, AbsentRow
<1> QED BY <1>1, <1>2, <1>3, <1>4 DEF IInv

(* The invariant is preserved: each action has its lemma, or two. *)
LEMMA NextSafe ==
  ASSUME IInv, [Next]_vars
  PROVE  IInv'
<1>1. CASE \E o \in Orders : InsertOrder(o)
  BY <1>1, InsertSafe
<1>2. CASE \E o \in Orders : EnqueueOrder(o)
  BY <1>2, EnqueueSafe
<1>3. CASE \E w \in Slots : SlotStep(w)
  <2>1. PICK w \in Slots : SlotStep(w)
    BY <1>3
  <2>2. CASE Advancing(w)
    BY <2>2, AdvancingInv
  <2>3. CASE ExecuteSwap(w)
    BY <2>3, ExecuteSwapInv
  <2>4. CASE Complete(w) \/ Reject(w)
    BY <2>4, SettleSafe
  <2> QED BY <2>1, <2>2, <2>3, <2>4 DEF SlotStep, Advancing
<1>4. CASE \E w \in Slots, o \in Orders : TakeJob(w, o)
  BY <1>4, TakeSafe
<1>5. CASE \E o \in Orders : Promote(o) \/ LockExpires(o) \/ MoveStalled(o)
  BY <1>5, QueueSafe
<1>6. CASE \E l \in late : LateSwap(l)
  BY <1>6, LateSwapSafe
<1>7. CASE \E p \in Processes : Crash(p)
  BY <1>7, CrashSafe
<1>8. CASE UNCHANGED vars
  <2>1. StartsInv'
    BY NextInv DEF IInv
  <2>2. NothingEarly' /\ EndsLogged' /\ NoPrematureNews' /\ FailedMeansExhausted'
        /\ ConfirmedTrade'
    BY <1>8 DEF vars, IInv, NothingEarly, EndsLogged, NoPrematureNews,
                FailedMeansExhausted, ConfirmedTrade, Without
  <2>3. CallsKnow' /\ CallsAlone' /\ SoleProcessor'
    BY <1>8 DEF vars, IInv, CallsKnow, CallsAlone, SoleProcessor, Busy, IsFinalAttempt, Without
  <2>4. FailedSettled' /\ CompletedConfirmed'
    BY <1>8 DEF vars, IInv, FailedSettled, CompletedConfirmed, Without
  <2> QED BY <2>1, <2>2, <2>3, <2>4 DEF IInv
<1> QED BY <1>1, <1>2, <1>3, <1>4, <1>5, <1>6, <1>7, <1>8 DEF Next

(* The whole invariant holds of every behaviour: rows, channels, jobs, calls *)
(* and swaps agree, as far as the faults of the behaviour let them.          *)
THEOREM Invariance == Spec => []IInv
<1>1. Init => IInv
  BY InitSafe
<1>2. IInv /\ [Next]_vars => IInv'
  BY NextSafe
<1> QED BY <1>1, <1>2, PTL DEF Spec

-----------------------------------------------------------------------------
(* The theorems *)

(* Without lost locks an order has one processor at a time, through crashes, *)
(* retries and restarts: nobody else writes its row meanwhile.               *)
THEOREM OneProcessorAtATime == Spec => []SoleProcessor
<1>1. IInv => SoleProcessor
  BY DEF IInv
<1> QED BY <1>1, Invariance, PTL

(* Subscribers never hear of an end the database has not recorded, whatever  *)
(* is lost, late or repeated.                                                *)
THEOREM NewsIsRecorded == Spec => []NoPrematureNews
<1>1. IInv => NoPrematureNews
  BY DEF IInv
<1> QED BY <1>1, Invariance, PTL

(* Only a job's last attempt marks its order failed. *)
THEOREM FailedIsLastAttempt == Spec => []FailedMeansExhausted
<1>1. IInv => FailedMeansExhausted
  BY DEF IInv
<1> QED BY <1>1, Invariance, PTL

(* A confirmed row names a swap that executed, within the tolerance, and     *)
(* records its venue unless a stall let a second processor loose.            *)
THEOREM ConfirmedHasTrade == Spec => []ConfirmedTrade
<1>1. IInv => ConfirmedTrade
  BY DEF IInv
<1> QED BY <1>1, Invariance, PTL

(* Without lost locks a completed job leaves its order confirmed, in the     *)
(* table and on the channel.                                                 *)
THEOREM CompletedIsConfirmed == Spec => []CompletedConfirmed
<1>1. IInv => CompletedConfirmed
  BY DEF IInv
<1> QED BY <1>1, Invariance, PTL

(* A failed row changes only under a call that is past its end. *)
LEMMA FailedStays ==
  ASSUME IInv, [Next]_vars, Without({"crash", "stall"}),
         NEW o \in Orders, db[o].status = "failed"
  PROVE  db'[o].status = "failed"
<1>1. CASE \E p \in Orders : InsertOrder(p)
  <2>1. PICK p \in Orders : InsertOrder(p)
    BY <1>1
  <2>2. p # o
    BY <2>1 DEF InsertOrder, IInv, NothingEarly, AbsentRow
  <2> QED BY <2>1, <2>2 DEF InsertOrder, CreateOrder, IInv, StartsInv, TypeOK
<1>2. CASE \E w \in Slots : Advancing(w)
  <2>1. PICK w \in Slots : Advancing(w)
    BY <1>2
  <2>2. /\ Local(w)
        /\ Quiet(w) \/ Speaks(w) \/ Reopens(w) \/ Confirms(w) \/ Fails(w)
    BY <2>1, StepIsLocal, EffectOf DEF IInv
  <2>3. CASE run[w].order = o
    <3>1. run[w].pc \in {"publishFailed", "reject"}
      BY <2>3 DEF IInv, FailedSettled
    <3> QED BY <2>2, <3>1 DEF Quiet, Speaks, Reopens, Confirms, Fails
  <2>4. CASE run[w].order # o
    BY <2>2, <2>4 DEF Local
  <2> QED BY <2>3, <2>4
<1>3. ASSUME ~ \E p \in Orders : InsertOrder(p), ~ \E w \in Slots : Advancing(w)
      PROVE  UNCHANGED db
  BY <1>3 DEF Next, vars, SlotStep, Advancing, EnqueueOrder, ExecuteSwap, Complete, Reject,
              TakeJob, Promote, LockExpires, MoveStalled, LateSwap, Crash
<1> QED BY <1>1, <1>2, <1>3

(* Without crashes and lost locks no later attempt moves a failed order on. *)
THEOREM FailedForGood == Spec => FailedIsFinal
<1>1. IInv /\ [Next]_vars =>
        [Without({"crash", "stall"}) =>
           \A o \in Orders : db[o].status = "failed" => db'[o].status = "failed"]_vars
  BY FailedStays
<1> QED BY <1>1, Invariance, PTL DEF Spec, FailedIsFinal
=============================================================================
