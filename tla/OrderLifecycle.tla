--------------------------- MODULE OrderLifecycle ---------------------------
(***************************************************************************)
(* What the execution of orders promises, whatever fails: the abstract     *)
(* specification that OrderExecution implements.                           *)
(*                                                                         *)
(* An order is recorded, then attempted at most Budget times.  Attempts    *)
(* overlap, vanish and are given up.  Each trades at most once, perhaps    *)
(* after it gave up waiting for the trade.  Only an attempt under way      *)
(* writes the record or announces news; it confirms only by a trade of its *)
(* own within the tolerance, and announces an end only once it was         *)
(* recorded.  An order that is closed is attempted no more, so that with   *)
(* its last attempt gone its record is final.                              *)
(***************************************************************************)
EXTENDS Naturals

CONSTANTS
  Orders,  \* the orders
  Budget   \* how many attempts an order has

VARIABLES
  record,    \* [Orders -> the status, the trade it names, the ends it has seen]
  attempts,  \* [Orders -> the number of attempts begun]
  live,      \* [Orders -> the attempts under way]
  pending,   \* [Orders -> attempts that gave up waiting for their trade]
  trades,    \* [Orders -> the trades executed]
  closed,    \* [Orders -> no attempt will begin]
  news       \* [Orders -> what was announced last]

vars == <<record, attempts, live, pending, trades, closed, news>>

End == {"confirmed", "failed"}

Attempts == 1..Budget

NoRecord == [status |-> "absent", trade |-> 0, ends |-> {}]

Init ==
  /\ record = [o \in Orders |-> NoRecord]
  /\ attempts = [o \in Orders |-> 0]
  /\ live = [o \in Orders |-> {}]
  /\ pending = [o \in Orders |-> {}]
  /\ trades = [o \in Orders |-> {}]
  /\ closed = [o \in Orders |-> FALSE]
  /\ news = [o \in Orders |-> "none"]

Create(o) ==
  /\ record[o] = NoRecord
  /\ record' = [record EXCEPT ![o].status = "open"]
  /\ UNCHANGED <<attempts, live, pending, trades, closed, news>>

Begin(o) ==
  LET a == attempts[o] + 1 IN
  /\ record[o] # NoRecord
  /\ ~closed[o] /\ a <= Budget
  /\ attempts' = [attempts EXCEPT ![o] = a]
  /\ live' = [live EXCEPT ![o] = @ \cup {a}]
  /\ UNCHANGED <<record, pending, trades, closed, news>>

(* Attempt a stops waiting for its trade, which may still be executed. *)
Abandon(o, a) ==
  /\ a \in live[o] /\ \A t \in trades[o] : t.by # a
  /\ pending' = [pending EXCEPT ![o] = @ \cup {a}]
  /\ UNCHANGED <<record, attempts, live, trades, closed, news>>

Trade(o, a, within) ==
  /\ a \in live[o] \cup pending[o] /\ \A t \in trades[o] : t.by # a
  /\ trades' = [trades EXCEPT ![o] = @ \cup {[by |-> a, within |-> within]}]
  /\ pending' = [pending EXCEPT ![o] = @ \ {a}]
  /\ UNCHANGED <<record, attempts, live, closed, news>>

Reopen(o, a) ==
  /\ a \in live[o]
  /\ record' = [record EXCEPT ![o].status = "open"]
  /\ UNCHANGED <<attempts, live, pending, trades, closed, news>>

Confirm(o, a) ==
  /\ a \in live[o]
  /\ [by |-> a, within |-> TRUE] \in trades[o]
  /\ record' = [record EXCEPT ![o].status = "confirmed", ![o].trade = a,
                              ![o].ends = @ \cup {"confirmed"}]
  /\ UNCHANGED <<attempts, live, pending, trades, closed, news>>

Fail(o, a) ==
  /\ a \in live[o]
  /\ record' = [record EXCEPT ![o].status = "failed", ![o].ends = @ \cup {"failed"}]
  /\ UNCHANGED <<attempts, live, pending, trades, closed, news>>

Announce(o, a, status) ==
  /\ a \in live[o]
  /\ status \in End => status \in record[o].ends
  /\ news' = [news EXCEPT ![o] = status]
  /\ UNCHANGED <<record, attempts, live, pending, trades, closed>>

(* Attempt a is over, and it may be the last. *)
Finish(o, a) ==
  /\ a \in live[o]
  /\ live' = [live EXCEPT ![o] = @ \ {a}]
  /\ closed' \in {closed, [closed EXCEPT ![o] = TRUE]}
  /\ UNCHANGED <<record, attempts, pending, trades, news>>

GiveUp(o) ==
  /\ closed' = [closed EXCEPT ![o] = TRUE]
  /\ UNCHANGED <<record, attempts, live, pending, trades, news>>

(* Some attempts are lost without a trace. *)
Vanish ==
  /\ live' \in [Orders -> SUBSET Attempts]
  /\ \A o \in Orders : live'[o] \subseteq live[o]
  /\ UNCHANGED <<record, attempts, pending, trades, closed, news>>

Next ==
  \/ \E o \in Orders : Create(o) \/ Begin(o) \/ GiveUp(o)
  \/ \E o \in Orders : \E a \in live[o] :
       \/ Abandon(o, a) \/ Reopen(o, a) \/ Confirm(o, a) \/ Fail(o, a) \/ Finish(o, a)
       \/ \E status \in {"open"} \cup End : Announce(o, a, status)
  \/ \E o \in Orders : \E a \in live[o] \cup pending[o], within \in BOOLEAN :
       Trade(o, a, within)
  \/ Vanish

Spec == Init /\ [][Next]_vars
=============================================================================
