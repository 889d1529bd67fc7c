------------------- MODULE OrderExecutionRefinementProofs -------------------
(***************************************************************************)
(* OrderExecution implements OrderLifecycle, for any number of orders,     *)
(* processes, slots, retries and stalls and every set of faults.           *)
(*                                                                         *)
(* Each step of the execution is one of the lifecycle's, or changes        *)
(* nothing the lifecycle sees.  The inductive invariant IInv supplies what *)
(* the abstract guards ask for: that an end was recorded before it is      *)
(* said, that the confirming start has a good swap, that a start trades    *)
(* once.                                                                   *)
(***************************************************************************)
EXTENDS OrderExecutionSafetyProofs

-----------------------------------------------------------------------------
(* The variables of the lifecycle, as the mapping has them *)

Records  == [o \in Orders |-> RecordOf(db[o])]
Begun    == [o \in Orders |-> job[o].starts]
Live     == [o \in Orders |-> LiveStarts(o)]
Pending  == [o \in Orders |-> LateStarts(o)]
Trades   == [o \in Orders |-> Traded(o)]
Closed   == [o \in Orders |-> job[o].state \in {"completed", "failed"}]
News     == [o \in Orders |-> IF pub[o] = "none" THEN "none" ELSE Outcome(pub[o])]

Stutters == UNCHANGED <<Records, Begun, Live, Pending, Trades, Closed, News>>

(* A step that changes none of them is a stuttering step of the lifecycle. *)
LEMMA StutterMaps ==
  ASSUME Stutters
  PROVE  UNCHANGED Lifecycle!vars
BY DEF Stutters, Lifecycle!vars, Records, Begun, Live, Pending, Trades, Closed, News

(* Calls that keep their order and their start leave the live starts alone. *)
LEMMA SameCalls ==
  ASSUME \A v \in Slots : run'[v].order = run[v].order /\ run'[v].no = run[v].no
  PROVE  Live' = Live
BY DEF Live, LiveStarts

(* The same jobs, late swaps and swaps look the same. *)
LEMMA SameRest ==
  /\ db' = db => Records' = Records
  /\ pub' = pub => News' = News
  /\ job' = job => Begun' = Begun /\ Closed' = Closed
  /\ late' = late => Pending' = Pending
  /\ swaps' = swaps => Trades' = Trades
BY DEF Records, News, Begun, Closed, Pending, LateStarts, Trades, Traded

(* The record of an order, as the lifecycle keeps it. *)
Record == [status : {"absent", "open"} \cup Terminal, trade : Nat, ends : SUBSET Terminal]

(* A row is such a record: its end, its trade and the ends it went through. *)
LEMMA RowIsRecord ==
  ASSUME NEW row \in Row
  PROVE  /\ RecordOf(row) \in Record
         /\ RecordOf(row).status = Outcome(row.status)
         /\ RecordOf(row).trade = row.tx
         /\ RecordOf(row).ends = row.log
BY DEF RecordOf, Record, Row, Outcome

(* What a rewritten row is to the lifecycle. *)
LEMMA RewrittenRecord ==
  ASSUME db \in [Orders -> Row], db' \in [Orders -> Row], NEW o \in Orders,
         NEW status, NEW log, NEW tx, NEW dex, Rewritten(db', o, status, log, tx, dex)
  PROVE  /\ Records[o] \in Record /\ Records'[o] \in Record
         /\ Records[o].trade = db[o].tx /\ Records[o].ends = db[o].log
         /\ Records'[o].status = Outcome(status)
         /\ Records'[o].trade = tx /\ Records'[o].ends = log
         /\ Records' = [Records EXCEPT ![o] = Records'[o]]
<1>1. /\ db'[o].status = status /\ db'[o].tx = tx /\ db'[o].log = log
      /\ \A p \in Orders \ {o} : db'[p] = db[p]
  BY DEF Rewritten
<1>2. Records[o] = RecordOf(db[o]) /\ Records'[o] = RecordOf(db'[o])
  BY DEF Records
<1>3. Records' = [Records EXCEPT ![o] = Records'[o]]
  BY <1>1 DEF Records
<1>4. db[o] \in Row /\ db'[o] \in Row
  OBVIOUS
<1> QED BY <1>1, <1>2, <1>3, <1>4, RowIsRecord

(* A call between its start and its settlement is live, and a start it is.  *)
LEMMA CallIsLive ==
  ASSUME IInv, NEW w \in Slots, Busy(w)
  PROVE  /\ run[w].order \in Orders
         /\ run[w].no \in Live[run[w].order]
BY BusyRun DEF IInv, StartsInv, Live, LiveStarts

-----------------------------------------------------------------------------
(* The steps of a call *)

(* A quiet step is invisible; a message is an announcement; an UPDATE       *)
(* reopens, confirms or fails.                                              *)
LEMMA AdvancingMaps ==
  ASSUME IInv, NEW w \in Slots, Advancing(w)
  PROVE  [Lifecycle!Next]_(Lifecycle!vars)
<1>1. /\ Local(w) /\ UNCHANGED <<late, swaps>>
      /\ Quiet(w) \/ Speaks(w) \/ Reopens(w) \/ Confirms(w) \/ Fails(w)
  BY StepIsLocal, EffectOf DEF IInv
<1>2. /\ Busy(w) /\ job' = job
      /\ \A v \in Slots : run'[v].order = run[v].order /\ run'[v].no = run[v].no
  BY <1>1, BusyRun DEF Local, IInv, StartsInv
<1>3. PICK o \in Orders : o = run[w].order
  BY <1>2, CallIsLive
<1>4. PICK a \in Live[o] : a = run[w].no
  BY <1>2, <1>3, CallIsLive
<1>5. /\ UNCHANGED <<Begun, Live, Pending, Trades, Closed>>
      /\ db' = db => Records' = Records
      /\ pub' = pub => News' = News
  BY <1>1, <1>2, SameCalls, SameRest
<1>6. /\ Knows(w) /\ pub \in [Orders -> Status \cup {"none"}]
      /\ db \in [Orders -> Row] /\ db' \in [Orders -> Row]
  BY <1>1, <1>2, Parts DEF IInv, StartsInv, TypeOK, Local
<1>a. CASE Quiet(w)
  <2>1. Stutters
    BY <1>5, <1>a DEF Quiet, Stutters
  <2> QED BY <2>1, StutterMaps
<1>b. CASE Speaks(w)
  <2>1. /\ pub' = [pub EXCEPT ![o] = pub'[o]] /\ Records' = Records
        /\ pub'[o] \in {"routing", "pending", "confirmed", "failed"}
    BY <1>3, <1>5, <1>b DEF Speaks, Sent
  <2>2. Outcome(pub'[o]) \in {"open"} \cup Lifecycle!End
    BY <2>1 DEF Outcome, Terminal, Lifecycle!End
  <2>3. PICK status \in {"open"} \cup Lifecycle!End : status = Outcome(pub'[o])
    BY <2>2
  <2>4. News' = [News EXCEPT ![o] = status]
    BY <1>6, <2>1, <2>3 DEF News
  <2>5. status \in Lifecycle!End => status \in Records[o].ends
    <3>1. status \in Lifecycle!End => status = pub'[o]
      BY <2>1, <2>3 DEF Outcome, Terminal, Lifecycle!End
    <3>2. pub'[o] \in {"confirmed", "failed"} => pub'[o] \in db[o].log
      BY <1>3, <1>6, <1>b DEF Speaks, Knows
    <3>3. Records[o].ends = db[o].log
      BY <1>6, RowIsRecord DEF Records
    <3> QED BY <3>1, <3>2, <3>3 DEF Lifecycle!End
  <2>6. Lifecycle!Announce(o, a, status)
    BY <1>5, <2>1, <2>4, <2>5
       DEF Lifecycle!Announce, Records, Begun, Live, Pending, Trades, Closed, News
  <2> QED BY <2>6 DEF Lifecycle!Next, Live
<1>c. CASE Reopens(w)
  <2>1. PICK status, dex :
          /\ status \in Status \ Terminal
          /\ Rewritten(db', o, status, db[o].log, db[o].tx, dex)
    BY <1>3, <1>c DEF Reopens
  <2>2. Outcome(status) = "open"
    BY <2>1 DEF Outcome, Status, Terminal
  <2>3. Records' = [Records EXCEPT ![o].status = "open"]
    <3> DEFINE new == [Records[o] EXCEPT !.status = "open"]
    <3>1. /\ Records[o] \in Record /\ Records'[o] \in Record
          /\ Records'[o].status = "open" /\ Records'[o].trade = Records[o].trade
          /\ Records'[o].ends = Records[o].ends
          /\ Records' = [Records EXCEPT ![o] = Records'[o]]
      BY <1>6, <2>1, <2>2, RewrittenRecord
    <3>2. /\ new \in Record /\ new.status = "open" /\ new.trade = Records[o].trade
          /\ new.ends = Records[o].ends
      BY <3>1 DEF Record
    <3> HIDE DEF new
    <3>3. new = Records'[o]
      BY <3>1, <3>2 DEF Record
    <3> QED BY <3>1, <3>3 DEF new
  <2>4. News' = News
    BY <1>5, <1>c DEF Reopens
  <2>5. Lifecycle!Reopen(o, a)
    BY <1>5, <2>3, <2>4
       DEF Lifecycle!Reopen, Records, Begun, Live, Pending, Trades, Closed, News
  <2> QED BY <2>5 DEF Lifecycle!Next, Live
<1>d. CASE Confirms(w)
  <2>1. /\ Rewritten(db', o, "confirmed", db[o].log \cup {"confirmed"}, a, db[o].dex)
        /\ News' = News /\ run[w].pc = "setConfirmed"
    BY <1>3, <1>4, <1>5, <1>d DEF Confirms
  <2>2. Records' = [Records EXCEPT ![o].status = "confirmed", ![o].trade = a,
                                   ![o].ends = @ \cup {"confirmed"}]
    <3> DEFINE new == [Records[o] EXCEPT !.status = "confirmed", !.trade = a,
                                     !.ends = @ \cup {"confirmed"}]
    <3>1. Outcome("confirmed") = "confirmed"
      BY DEF Outcome, Terminal
    <3>2. /\ Records[o] \in Record /\ Records'[o] \in Record
          /\ Records'[o].status = "confirmed" /\ Records'[o].trade = a
          /\ Records'[o].ends = Records[o].ends \cup {"confirmed"}
          /\ Records' = [Records EXCEPT ![o] = Records'[o]]
      BY <1>6, <2>1, <3>1, RewrittenRecord
    <3>3. /\ new \in Record /\ new.status = "confirmed" /\ new.trade = a
          /\ new.ends = Records[o].ends \cup {"confirmed"}
      BY <3>2 DEF Record, Terminal
    <3>4. [Records EXCEPT ![o].status = "confirmed", ![o].trade = a,
                                     ![o].ends = @ \cup {"confirmed"}]
            = [Records EXCEPT ![o] = new]
      BY DEF Records
    <3> HIDE DEF new
    <3>5. new = Records'[o]
      BY <3>2, <3>3 DEF Record
    <3> QED BY <3>2, <3>4, <3>5
  <2>3. [by |-> a, within |-> TRUE] \in Trades[o]
    <3> DEFINE swap == [no |-> run[w].no, dex |-> run[w].dex, within |-> TRUE]
    <3>1. swap \in swaps[o] /\ swap.no = a /\ swap.within = TRUE
      BY <1>3, <1>4, <1>6, <2>1 DEF Knows
    <3> HIDE DEF swap
    <3> QED BY <3>1 DEF Trades, Traded
  <2>4. Lifecycle!Confirm(o, a)
    BY <1>5, <2>1, <2>2, <2>3
       DEF Lifecycle!Confirm, Records, Begun, Live, Pending, Trades, Closed, News
  <2> QED BY <2>4 DEF Lifecycle!Next, Live
<1>e. CASE Fails(w)
  <2>1. /\ Rewritten(db', o, "failed", db[o].log \cup {"failed"}, db[o].tx, db[o].dex)
        /\ News' = News
    BY <1>3, <1>5, <1>e DEF Fails
  <2>2. Records' = [Records EXCEPT ![o].status = "failed", ![o].ends = @ \cup {"failed"}]
    <3> DEFINE new == [Records[o] EXCEPT !.status = "failed", !.ends = @ \cup {"failed"}]
    <3>1. Outcome("failed") = "failed"
      BY DEF Outcome, Terminal
    <3>2. /\ Records[o] \in Record /\ Records'[o] \in Record
          /\ Records'[o].status = "failed" /\ Records'[o].trade = Records[o].trade
          /\ Records'[o].ends = Records[o].ends \cup {"failed"}
          /\ Records' = [Records EXCEPT ![o] = Records'[o]]
      BY <1>6, <2>1, <3>1, RewrittenRecord
    <3>3. /\ new \in Record /\ new.status = "failed" /\ new.trade = Records[o].trade
          /\ new.ends = Records[o].ends \cup {"failed"}
      BY <3>2 DEF Record, Terminal
    <3>4. [Records EXCEPT ![o].status = "failed", ![o].ends = @ \cup {"failed"}]
            = [Records EXCEPT ![o] = new]
      BY DEF Records
    <3> HIDE DEF new
    <3>5. new = Records'[o]
      BY <3>2, <3>3 DEF Record
    <3> QED BY <3>2, <3>4, <3>5
  <2>3. Lifecycle!Fail(o, a)
    BY <1>5, <2>1, <2>2
       DEF Lifecycle!Fail, Records, Begun, Live, Pending, Trades, Closed, News
  <2> QED BY <2>3 DEF Lifecycle!Next, Live
<1> QED BY <1>1, <1>a, <1>b, <1>c, <1>d, <1>e

(* One more swap of an order is one more trade. *)
LEMMA OneMoreTrade ==
  ASSUME swaps \in [Orders -> SUBSET Swap], NEW o \in Orders, NEW no, NEW dex, NEW within,
         swaps' = Executed(o, no, dex, within)
  PROVE  Trades' = [Trades EXCEPT ![o] = @ \cup {[by |-> no, within |-> within]}]
<1> DEFINE swap == [no |-> no, dex |-> dex, within |-> within]
           trade == [by |-> no, within |-> within]
<1>1. /\ swaps'[o] = swaps[o] \cup {swap}
      /\ \A p \in Orders \ {o} : swaps'[p] = swaps[p]
  BY DEF Executed
<1>2. Trades'[o] = Trades[o] \cup {[by |-> swap.no, within |-> swap.within]}
  <2> HIDE DEF swap
  <2> QED BY <1>1 DEF Trades, Traded
<1>3. [by |-> swap.no, within |-> swap.within] = trade
  OBVIOUS
<1>4. \A p \in Orders \ {o} : Trades'[p] = Trades[p]
  BY <1>1 DEF Trades, Traded
<1> HIDE DEF swap, trade
<1>5. Trades'[o] = Trades[o] \cup {trade}
  BY <1>2, <1>3
<1>6. Trades' = [Trades EXCEPT ![o] = @ \cup {trade}]
  BY <1>4, <1>5 DEF Trades
<1> QED BY <1>6 DEF trade

(* A start that has no swap has no trade. *)
LEMMA NoTradeYet ==
  ASSUME NEW o \in Orders, NEW no, \A s \in swaps[o] : s.no # no
  PROVE  \A t \in Trades[o] : t.by # no
<1> SUFFICES ASSUME NEW s \in swaps[o]
             PROVE  [by |-> s.no, within |-> s.within].by # no
  BY DEF Trades, Traded
<1> QED OBVIOUS

(* The swap is a trade, or is abandoned and pending. *)
LEMMA ExecuteSwapMaps ==
  ASSUME IInv, NEW w \in Slots, ExecuteSwap(w)
  PROVE  Lifecycle!Next
<1>1. /\ run[w].pc = "executeSwap" /\ run[w].pc \in Label
      /\ run[w].pc \in BeforeSwap /\ Busy(w)
      /\ UNCHANGED <<faults, submission, db, pub, job>>
  BY DEF ExecuteSwap, Label, BeforeSwap, Busy
<1>2. PICK o \in Orders : o = run[w].order
  BY <1>1, CallIsLive
<1>3. PICK a \in Live[o] : a = run[w].no
  BY <1>1, <1>2, CallIsLive
<1>4. TypeOK /\ swaps \in [Orders -> SUBSET Swap]
  BY DEF IInv, StartsInv, TypeOK
<1>5. PICK label : run' = Goto(w, label)
  BY DEF ExecuteSwap
<1>6. \A v \in Slots : run'[v].order = run[v].order /\ run'[v].no = run[v].no
  BY <1>1, <1>4, <1>5, GotoMoves
<1>7. UNCHANGED <<Records, Begun, Live, Closed, News>>
  BY <1>1, <1>6, SameCalls, SameRest
<1>8. /\ \A s \in swaps[o] : s.no # a
      /\ \A l \in late : l.order = o => l.no # a
  BY <1>1, <1>2, <1>3 DEF IInv, StartsInv, AsksOnce
<1>9. \A t \in Trades[o] : t.by # a
  BY <1>8, NoTradeYet
<1>10. CASE \E within \in Fills : /\ swaps' = Executed(o, a, run[w].dex, within)
                                  /\ late' = late
  <2>1. PICK within \in BOOLEAN : swaps' = Executed(o, a, run[w].dex, within)
    BY <1>10 DEF Fills
  <2>2. Trades' = [Trades EXCEPT ![o] = @ \cup {[by |-> a, within |-> within]}]
    BY <1>4, <2>1, OneMoreTrade
  <2>3. Pending' = [Pending EXCEPT ![o] = @ \ {a}]
    <3>1. Pending' = Pending
      BY <1>10, SameRest
    <3>2. a \notin Pending[o]
      BY <1>8 DEF Pending, LateStarts
    <3> QED BY <3>1, <3>2 DEF Pending
  <2>4. Lifecycle!Trade(o, a, within)
    BY <1>7, <1>9, <2>2, <2>3
       DEF Lifecycle!Trade, Records, Begun, Live, Pending, Trades, Closed, News
  <2> QED BY <2>4 DEF Lifecycle!Next, Live
<1>11. CASE /\ late' = late \cup {[order |-> o, no |-> a, dex |-> run[w].dex]}
            /\ swaps' = swaps
  <2>1. Trades' = Trades
    BY <1>11, SameRest
  <2>2. Pending' = [Pending EXCEPT ![o] = @ \cup {a}]
    <3> DEFINE new == [order |-> o, no |-> a, dex |-> run[w].dex]
    <3>1. new.order = o /\ new.no = a
      OBVIOUS
    <3>2. late' = late \cup {new}
      BY <1>11
    <3> HIDE DEF new
    <3>3. /\ Pending'[o] = Pending[o] \cup {a}
          /\ \A p \in Orders \ {o} : Pending'[p] = Pending[p]
      BY <3>1, <3>2 DEF Pending, LateStarts
    <3> QED BY <3>3 DEF Pending
  <2>3. Lifecycle!Abandon(o, a)
    BY <1>7, <1>9, <2>1, <2>2
       DEF Lifecycle!Abandon, Records, Begun, Live, Pending, Trades, Closed, News
  <2> QED BY <2>3 DEF Lifecycle!Next, Live
<1> QED BY <1>2, <1>3, <1>10, <1>11 DEF ExecuteSwap

(* A late swap is the trade of a pending attempt. *)
LEMMA LateSwapMaps ==
  ASSUME IInv, NEW l \in late, LateSwap(l)
  PROVE  Lifecycle!Next
<1>1. /\ late' = late \ {l}
      /\ UNCHANGED <<faults, submission, db, pub, job, run>>
  BY DEF LateSwap
<1>2. PICK within \in BOOLEAN : swaps' = Executed(l.order, l.no, l.dex, within)
  BY DEF LateSwap, Fills
<1>3. PICK o \in Orders, a \in Nat : o = l.order /\ a = l.no
  BY DEF IInv, StartsInv, TypeOK
<1>4. UNCHANGED <<Records, Begun, Live, Closed, News>>
  BY <1>1, SameRest DEF Live, LiveStarts
<1>5. Trades' = [Trades EXCEPT ![o] = @ \cup {[by |-> a, within |-> within]}]
  BY <1>2, <1>3, OneMoreTrade DEF IInv, StartsInv, TypeOK
<1>6. a \in Pending[o]
  BY <1>3 DEF Pending, LateStarts
<1>7. Pending' = [Pending EXCEPT ![o] = @ \ {a}]
  <2>1. \A m \in late : m.order = o /\ m.no = a => m = l
    BY <1>3 DEF IInv, StartsInv, LateAreStarts
  <2>2. Pending'[o] = Pending[o] \ {a}
    BY <1>1, <1>3, <2>1 DEF Pending, LateStarts
  <2>3. \A p \in Orders \ {o} : Pending'[p] = Pending[p]
    BY <1>1, <1>3 DEF Pending, LateStarts
  <2> QED BY <2>2, <2>3 DEF Pending
<1>8. \A t \in Trades[o] : t.by # a
  BY <1>3, NoTradeYet DEF IInv, StartsInv, LateAreStarts
<1>9. Lifecycle!Trade(o, a, within)
  BY <1>4, <1>5, <1>6, <1>7, <1>8
     DEF Lifecycle!Trade, Records, Begun, Live, Pending, Trades, Closed, News
<1> QED BY <1>6, <1>9 DEF Lifecycle!Next, Live, Pending

-----------------------------------------------------------------------------
(* The steps around a call *)

(* The INSERT creates a record that was not there; a submission that has no *)
(* row yet is nothing to the lifecycle.                                     *)
LEMMA InsertMaps ==
  ASSUME IInv, NEW o \in Orders, InsertOrder(o)
  PROVE  [Lifecycle!Next]_(Lifecycle!vars)
<1>1. /\ submission[o] = "new" /\ db' \in {db, CreateOrder(db, o)}
      /\ UNCHANGED <<faults, pub, job, run, late, swaps>>
  BY DEF InsertOrder
<1>2. db[o] = AbsentRow /\ db \in [Orders -> Row]
  BY <1>1 DEF IInv, StartsInv, TypeOK, NothingEarly
<1>3. UNCHANGED <<Begun, Live, Pending, Trades, Closed, News>>
  BY <1>1, SameCalls, SameRest
<1>4. CASE db' = db
  <2>1. Stutters
    BY <1>3, <1>4, SameRest DEF Stutters
  <2> QED BY <2>1, StutterMaps
<1>5. CASE db' = CreateOrder(db, o)
  <2> DEFINE row == [AbsentRow EXCEPT !.status = "pending"]
             new == [Lifecycle!NoRecord EXCEPT !.status = "open"]
  <2>1. db'[o] = row /\ \A p \in Orders \ {o} : db'[p] = db[p]
    BY <1>2, <1>5 DEF CreateOrder
  <2>2. row.status = "pending" /\ row.tx = 0 /\ row.log = {}
    BY DEF AbsentRow
  <2> HIDE DEF row
  <2>3. RecordOf(row) = [status |-> "open", trade |-> 0, ends |-> {}]
    BY <2>2 DEF RecordOf, Outcome, Terminal
  <2>4. RecordOf(AbsentRow) = Lifecycle!NoRecord
    BY DEF RecordOf, Outcome, AbsentRow, Terminal, Lifecycle!NoRecord
  <2>5. new = [status |-> "open", trade |-> 0, ends |-> {}]
    BY DEF Lifecycle!NoRecord
  <2> HIDE DEF new
  <2>6. Records[o] = Lifecycle!NoRecord /\ Records'[o] = new
    BY <1>2, <2>1, <2>3, <2>4, <2>5 DEF Records
  <2>7. Records' = [Records EXCEPT ![o] = new]
    BY <2>1, <2>6 DEF Records
  <2>8. Records' = [Records EXCEPT ![o].status = "open"]
    BY <2>6, <2>7 DEF new
  <2>9. Lifecycle!Create(o)
    BY <1>3, <2>6, <2>8
       DEF Lifecycle!Create, Records, Begun, Live, Pending, Trades, Closed, News
  <2> QED BY <2>9 DEF Lifecycle!Next
<1> QED BY <1>1, <1>4, <1>5

(* A job that waits for its first start is nothing to the lifecycle. *)
LEMMA EnqueueMaps ==
  ASSUME IInv, NEW o \in Orders, EnqueueOrder(o)
  PROVE  UNCHANGED Lifecycle!vars
<1>1. /\ submission[o] = "created" /\ job' \in {job, Added(o)}
      /\ UNCHANGED <<faults, db, pub, run, late, swaps>>
  BY DEF EnqueueOrder
<1>2. job \in [Orders -> Job] /\ job[o].state = "none"
  BY <1>1 DEF IInv, StartsInv, TypeOK, RowThenJob, NoJob
<1>3. /\ \A p \in Orders : job'[p].starts = job[p].starts
      /\ \A p \in Orders \ {o} : job'[p] = job[p]
      /\ job'[o].state \in {"none", "waiting"}
  BY <1>1, <1>2 DEF Added, Job
<1>4. Begun' = Begun /\ Closed' = Closed
  BY <1>2, <1>3 DEF Begun, Closed
<1> QED BY <1>1, <1>4, SameCalls, SameRest, StutterMaps DEF Stutters

(* A call begins: the ledger of the job keeps it within the budget. *)
LEMMA TakeMaps ==
  ASSUME IInv, NEW w \in Slots, NEW o \in Orders, TakeJob(w, o)
  PROVE  Lifecycle!Next
<1> DEFINE a == job[o].starts + 1
<1>1. /\ job[o].state = "waiting" /\ ~Busy(w)
      /\ UNCHANGED <<faults, submission, db, pub, late, swaps>>
  BY DEF TakeJob, Busy
<1>2. /\ job \in [Orders -> Job] /\ job[o] \in Job /\ run \in [Slots -> Run]
      /\ job[o].starts \in Nat /\ db[o] \in Row
  BY DEF IInv, StartsInv, TypeOK, Job
<1>3. /\ \A p \in Orders \ {o} : job'[p] = job[p]
      /\ job'[o].state = "active" /\ job'[o].starts = a
  BY <1>2 DEF TakeJob, Job
<1>4. /\ \A v \in Slots \ {w} : run'[v] = run[v]
      /\ run'[w].order = o /\ run'[w].no = a
  BY <1>2 DEF TakeJob
<1>5. a <= MaxRetries + MaxStalledCount
  BY <1>3, TakeInv DEF IInv, StartsInv, Ledger
<1>6. Begun[o] + 1 = a /\ Begun' = [Begun EXCEPT ![o] = a]
  BY <1>3 DEF Begun
<1>7. Live' = [Live EXCEPT ![o] = @ \cup {a}]
  <2>1. run[w].order \notin Orders
    BY <1>1, OnlyCallsHaveOrders DEF IInv, StartsInv
  <2>2. Live'[o] = Live[o] \cup {a}
    BY <1>4, <2>1 DEF Live, LiveStarts
  <2>3. \A p \in Orders \ {o} : Live'[p] = Live[p]
    BY <1>4, <2>1 DEF Live, LiveStarts
  <2> QED BY <2>2, <2>3 DEF Live
<1>8. ~Closed[o] /\ Closed' = Closed
  <2>1. ~Closed[o]
    BY <1>1 DEF Closed
  <2>2. \A p \in Orders :
          (job'[p].state \in {"completed", "failed"})
            = (job[p].state \in {"completed", "failed"})
    BY <1>1, <1>3
  <2>3. Closed' = Closed
    BY <2>2 DEF Closed
  <2> QED BY <2>1, <2>3
<1>9. Records[o] # Lifecycle!NoRecord
  <2>1. db[o].status # "absent"
    BY <1>1 DEF IInv, StartsInv, JobHasRow, Exists
  <2>2. Records[o].status # "absent"
    BY <1>2, <2>1, RowIsRecord DEF Records, Outcome, Terminal
  <2>3. Lifecycle!NoRecord.status = "absent"
    BY DEF Lifecycle!NoRecord
  <2> QED BY <2>2, <2>3
<1>10. UNCHANGED <<Records, Pending, Trades, News>>
  BY <1>1, SameRest
<1> HIDE DEF a
<1>11. Lifecycle!Begin(o)
  BY <1>5, <1>6, <1>7, <1>8, <1>9, <1>10
     DEF Lifecycle!Begin, Records, Begun, Live, Pending, Trades, Closed, News
<1> QED BY <1>11 DEF Lifecycle!Next

(* A call ends: it is no longer live, and with the lock it may close the job. *)
LEMMA SettleMaps ==
  ASSUME IInv, NEW w \in Slots, Complete(w) \/ Reject(w)
  PROVE  Lifecycle!Next
<1>1. /\ Busy(w) /\ run' = [run EXCEPT ![w] = Idle]
      /\ UNCHANGED <<faults, submission, db, pub, late, swaps>>
  BY DEF Complete, Reject, Busy
<1>2. PICK o \in Orders : o = run[w].order
  BY <1>1, CallIsLive
<1>3. PICK a \in Live[o] : a = run[w].no
  BY <1>1, <1>2, CallIsLive
<1>4. job \in [Orders -> Job] /\ job[o] \in Job /\ run \in [Slots -> Run] /\ a # 0
  BY <1>1, <1>2, <1>3, CallHasRow DEF IInv, StartsInv, TypeOK
<1>5. PICK state \in {"completed", "delayed", "failed"} : job' = Finished(w, state)
  BY DEF Complete, Reject
<1>6. /\ \A p \in Orders : job'[p].starts = job[p].starts
      /\ \A p \in Orders \ {o} : job'[p] = job[p]
      /\ job' = job \/ (job[o].lock = a /\ job'[o].state = state)
  BY <1>2, <1>3, <1>4, <1>5 DEF Finished, Job
<1>7. Begun' = Begun
  BY <1>6 DEF Begun
<1>8. Live' = [Live EXCEPT ![o] = @ \ {a}]
  <2>1. /\ run'[w] = Idle /\ \A v \in Slots \ {w} : run'[v] = run[v]
        /\ \A p \in Orders : Idle.order # p
    BY <1>1, <1>4, ExecutionAssumption DEF Idle, ExecutionAssumption
  <2>2. \A v \in Slots \ {w} : run[v].order = o => run[v].no # a
    BY <1>1, <1>2, <1>3, OnlyCallsHaveOrders DEF IInv, StartsInv, RunsAreStarts
  <2>3. Live'[o] = Live[o] \ {a}
    BY <1>2, <1>3, <2>1, <2>2 DEF Live, LiveStarts
  <2>4. \A p \in Orders \ {o} : Live'[p] = Live[p]
    BY <1>2, <2>1 DEF Live, LiveStarts
  <2> QED BY <2>3, <2>4 DEF Live
<1>9. Closed' \in {Closed, [Closed EXCEPT ![o] = TRUE]}
  <2>1. CASE job' = job
    BY <2>1, SameRest
  <2>2. CASE job[o].lock = a /\ job'[o].state = state
    <3>1. job[o].state = "active"
      BY <1>4, <2>2 DEF IInv, StartsInv, Ledger
    <3>2. CASE state = "delayed"
      <4>1. Closed' = Closed
        BY <1>6, <2>2, <3>1, <3>2 DEF Closed
      <4> QED BY <4>1
    <3>3. CASE state # "delayed"
      <4>1. Closed' = [Closed EXCEPT ![o] = TRUE]
        BY <1>6, <2>2, <3>3 DEF Closed
      <4> QED BY <4>1
    <3> QED BY <3>2, <3>3
  <2> QED BY <1>6, <2>1, <2>2
<1>10. UNCHANGED <<Records, Pending, Trades, News>>
  BY <1>1, SameRest
<1>11. Lifecycle!Finish(o, a)
  BY <1>7, <1>8, <1>9, <1>10
     DEF Lifecycle!Finish, Records, Begun, Live, Pending, Trades, Closed, News
<1> QED BY <1>11 DEF Lifecycle!Next, Live

(* A job that stalled too often is given up; BullMQ's other steps do not show. *)
LEMMA QueueMaps ==
  ASSUME IInv, NEW o \in Orders, Promote(o) \/ LockExpires(o) \/ MoveStalled(o)
  PROVE  [Lifecycle!Next]_(Lifecycle!vars)
<1>1. UNCHANGED <<faults, submission, db, pub, run, late, swaps>>
  BY DEF Promote, LockExpires, MoveStalled
<1>2. job \in [Orders -> Job] /\ job[o] \in Job
  BY DEF IInv, StartsInv, TypeOK
<1>3. /\ \A p \in Orders \ {o} : job'[p] = job[p]
      /\ \A p \in Orders : job'[p].starts = job[p].starts
      /\ job[o].state \in {"active", "delayed"}
      /\ job'[o].state \in {"active", "waiting", "failed"}
  <2>1. CASE Promote(o)
    BY <1>2, <2>1 DEF Promote, Job
  <2>2. CASE LockExpires(o)
    BY <1>2, <2>2 DEF LockExpires, Job
  <2>3. CASE MoveStalled(o)
    BY <1>2, <2>3 DEF MoveStalled, Job
  <2> QED BY <2>1, <2>2, <2>3
<1>4. UNCHANGED <<Records, Begun, Live, Pending, Trades, News>>
  <2>1. Begun' = Begun
    BY <1>3 DEF Begun
  <2> QED BY <1>1, <2>1, SameCalls, SameRest
<1>5. CASE job'[o].state = "failed"
  <2>1. Closed' = [Closed EXCEPT ![o] = TRUE]
    BY <1>3, <1>5 DEF Closed
  <2>2. Lifecycle!GiveUp(o)
    BY <1>4, <2>1
       DEF Lifecycle!GiveUp, Records, Begun, Live, Pending, Trades, Closed, News
  <2> QED BY <2>2 DEF Lifecycle!Next
<1>6. CASE job'[o].state # "failed"
  <2>1. Closed' = Closed
    BY <1>3, <1>6 DEF Closed
  <2> QED BY <1>4, <2>1, StutterMaps DEF Stutters
<1> QED BY <1>5, <1>6

(* The calls of a process that dies vanish. *)
LEMMA CrashMaps ==
  ASSUME IInv, NEW p \in Processes, Crash(p)
  PROVE  Lifecycle!Next
<1>1. UNCHANGED <<faults, db, pub, late, swaps>>
  BY DEF Crash
<1>2. job \in [Orders -> Job]
  BY DEF IInv, StartsInv, TypeOK
<1>3. \A v \in Slots : run'[v] \in {Idle, run[v]}
  BY DEF Crash
<1>4. \A o \in Orders : job'[o].state = job[o].state /\ job'[o].starts = job[o].starts
  BY <1>2 DEF Crash, Job
<1>5. Begun' = Begun /\ Closed' = Closed
  BY <1>4 DEF Begun, Closed
<1>6. ASSUME NEW o \in Orders
      PROVE  /\ Live'[o] \subseteq Live[o]
             /\ Live[o] \subseteq 1..(MaxRetries + MaxStalledCount)
  <2>1. Idle.order # o
    BY ExecutionAssumption DEF Idle, ExecutionAssumption
  <2>2. Live'[o] \subseteq Live[o]
    BY <1>3, <2>1 DEF Live, LiveStarts
  <2>3. /\ job[o].starts <= MaxRetries + MaxStalledCount /\ job[o].starts \in Nat
        /\ MaxRetries + MaxStalledCount \in Nat
    BY <1>2, ExecutionAssumption DEF IInv, StartsInv, Ledger, Job, ExecutionAssumption
  <2>4. \A v \in Slots : run[v].order = o => run[v].no \in 1..job[o].starts
    BY OnlyCallsHaveOrders DEF IInv, StartsInv, RunsAreStarts
  <2>5. Live[o] \subseteq 1..(MaxRetries + MaxStalledCount)
    BY <2>3, <2>4 DEF Live, LiveStarts
  <2> QED BY <2>2, <2>5
<1>7. Live' \in [Orders -> SUBSET Lifecycle!Attempts]
  <2>1. \A o \in Orders : Live'[o] \subseteq 1..(MaxRetries + MaxStalledCount)
    BY <1>6
  <2> QED BY <2>1 DEF Live, Lifecycle!Attempts
<1>8. UNCHANGED <<Records, Pending, Trades, News>>
  BY <1>1, SameRest
<1>9. Lifecycle!Vanish
  BY <1>5, <1>6, <1>7, <1>8
     DEF Lifecycle!Vanish, Records, Begun, Live, Pending, Trades, Closed, News
<1> QED BY <1>9 DEF Lifecycle!Next

-----------------------------------------------------------------------------
(* The refinement *)

(* Nothing is recorded, begun, pending or announced at the start. *)
LEMMA InitMaps ==
  ASSUME Init
  PROVE  Lifecycle!Init
<1> USE DEF Init
<1>1. Records = [o \in Orders |-> Lifecycle!NoRecord]
  <2>1. RecordOf(AbsentRow) = Lifecycle!NoRecord
    BY DEF RecordOf, Outcome, AbsentRow, Terminal, Lifecycle!NoRecord
  <2> QED BY <2>1 DEF Records
<1>2. Begun = [o \in Orders |-> 0] /\ Closed = [o \in Orders |-> FALSE]
  <2>1. \A o \in Orders : job[o].starts = 0 /\ job[o].state = "none"
    BY DEF NoJob
  <2>2. \A o \in Orders : (job[o].state \in {"completed", "failed"}) = FALSE
    BY <2>1
  <2>3. Begun = [o \in Orders |-> 0]
    BY <2>1 DEF Begun
  <2>4. Closed = [o \in Orders |-> FALSE]
    BY <2>2 DEF Closed
  <2> QED BY <2>3, <2>4
<1>3. Live = [o \in Orders |-> {}]
  BY ExecutionAssumption DEF Live, LiveStarts, Idle, ExecutionAssumption
<1>4. Pending = [o \in Orders |-> {}] /\ Trades = [o \in Orders |-> {}]
  BY DEF Pending, LateStarts, Trades, Traded
<1>5. News = [o \in Orders |-> "none"]
  BY DEF News
<1> QED BY <1>1, <1>2, <1>3, <1>4, <1>5
        DEF Lifecycle!Init, Records, Begun, Live, Pending, Trades, Closed, News

(* Every step is one of the lifecycle's, or a stutter. *)
LEMMA NextMaps ==
  ASSUME IInv, [Next]_vars
  PROVE  [Lifecycle!Next]_(Lifecycle!vars)
<1>1. CASE \E o \in Orders : InsertOrder(o)
  BY <1>1, InsertMaps
<1>2. CASE \E o \in Orders : EnqueueOrder(o)
  BY <1>2, EnqueueMaps
<1>3. CASE \E w \in Slots : SlotStep(w)
  <2>1. PICK w \in Slots : SlotStep(w)
    BY <1>3
  <2>2. CASE Advancing(w)
    BY <2>2, AdvancingMaps
  <2>3. CASE ExecuteSwap(w)
    BY <2>3, ExecuteSwapMaps
  <2>4. CASE Complete(w) \/ Reject(w)
    BY <2>4, SettleMaps
  <2> QED BY <2>1, <2>2, <2>3, <2>4 DEF SlotStep, Advancing
<1>4. CASE \E w \in Slots, o \in Orders : TakeJob(w, o)
  BY <1>4, TakeMaps
<1>5. CASE \E o \in Orders : Promote(o) \/ LockExpires(o) \/ MoveStalled(o)
  BY <1>5, QueueMaps
<1>6. CASE \E l \in late : LateSwap(l)
  BY <1>6, LateSwapMaps
<1>7. CASE \E p \in Processes : Crash(p)
  BY <1>7, CrashMaps
<1>8. CASE UNCHANGED vars
  <2>1. UNCHANGED <<db, pub, job, run, late, swaps>>
    BY <1>8 DEF vars
  <2> QED BY <2>1, SameCalls, SameRest, StutterMaps DEF Stutters
<1> QED BY <1>1, <1>2, <1>3, <1>4, <1>5, <1>6, <1>7, <1>8 DEF Next

(* The execution of orders, with its retries, stalls, crashes and late swaps, *)
(* is an execution of OrderLifecycle: each start trades at most once, only a  *)
(* start under way writes and speaks, a confirmation names the start's own    *)
(* good swap, an announced end was recorded, and a job that is over starts    *)
(* no processor.                                                              *)
THEOREM Implementation == Spec => ImplementsLifecycle
<1>1. Init => Lifecycle!Init
  BY InitMaps
<1>2. IInv /\ [Next]_vars => [Lifecycle!Next]_(Lifecycle!vars)
  BY NextMaps
<1> QED BY <1>1, <1>2, Invariance, PTL DEF Spec, ImplementsLifecycle, Lifecycle!Spec
=============================================================================
