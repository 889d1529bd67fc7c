---------------------- MODULE WebSocketSessionsProofs ----------------------
(***************************************************************************)
(* Proofs about WebSocketSessions, for any number of sockets, orders and   *)
(* addresses, any limit and any set of faults.                             *)
(*                                                                         *)
(* IInv falls into three: the types, what the counters guard, and what the *)
(* subscriber connection has done and has yet to do.  Every step moves one *)
(* socket, or is the death of the process, which moves them all.           *)
(***************************************************************************)
EXTENDS WebSocketSessions, FiniteSetTheorems, TLAPS

Keys == Orders \X Ips

(* The handling of s moves on to a label; the socket is left in a state. *)
Moves(s, label, state) ==
  /\ sock' \in [Sockets -> Socket]
  /\ sock'[s].pc = label /\ sock'[s].state = state
  /\ sock'[s].order = sock[s].order /\ sock'[s].ip = sock[s].ip
  /\ \A t \in Sockets \ {s} : sock'[t] = sock[t]

-----------------------------------------------------------------------------
(* The operators of the model *)

(* A socket with a new state is a socket. *)
LEMMA StateChanges ==
  ASSUME NEW f \in [Sockets -> Socket], NEW s \in Sockets,
         NEW state \in {"open", "closing", "closed"}
  PROVE  [f EXCEPT ![s].state = state] \in [Sockets -> Socket]
<1>1. f[s] \in Socket
  OBVIOUS
<1>2. [f[s] EXCEPT !.state = state] \in Socket
  BY <1>1 DEF Socket
<1> QED BY <1>2

(* A socket with a new label is a socket. *)
LEMMA LabelChanges ==
  ASSUME NEW f \in [Sockets -> Socket], NEW s \in Sockets, NEW l \in Label
  PROVE  [f EXCEPT ![s].pc = l] \in [Sockets -> Socket]
<1>1. f[s] \in Socket
  OBVIOUS
<1>2. [f[s] EXCEPT !.pc = l] \in Socket
  BY <1>1 DEF Socket
<1> QED BY <1>2

(* A socket that is told its order's status is a socket. *)
LEMMA TellTypes ==
  ASSUME TypeOK, NEW s \in Sockets, NEW status \in {"running", "ended"}
  PROVE  Tell(s, status) \in [Sockets -> Socket]
<1>1. sock \in [Sockets -> Socket] /\ sock[s] \in Socket
  BY DEF TypeOK
<1>2. [sock[s] EXCEPT !.told = status] \in Socket
  BY <1>1 DEF Socket
<1>3. [sock EXCEPT ![s].told = status] \in [Sockets -> Socket]
  BY <1>1, <1>2
<1> QED BY <1>1, <1>3 DEF Tell

(* Goto moves a socket and leaves its state alone. *)
LEMMA GotoMoves ==
  ASSUME TypeOK, NEW s \in Sockets, NEW l \in Label, Goto(s, l)
  PROVE  Moves(s, l, sock[s].state)
BY DEF TypeOK, Socket, Goto, Moves

(* Abandon closes the socket it moves. *)
LEMMA AbandonMoves ==
  ASSUME TypeOK, NEW s \in Sockets, NEW l \in Label, Abandon(s, l)
  PROVE  Moves(s, l, "closed")
BY DEF TypeOK, Socket, Abandon, Moves

(* Added changes one counter, which is there from then on. *)
LEMMA AddedAt ==
  ASSUME TypeOK, NEW k \in Keys, NEW d \in Int
  PROVE  /\ Added(k, d) \in [Keys -> Counter]
         /\ Added(k, d)[k].n = count[k].n + d
         /\ Added(k, d)[k].life # "absent"
         /\ count[k].life # "absent" => Added(k, d)[k].life = count[k].life
         /\ \A j \in Keys \ {k} : Added(k, d)[j] = count[j]
<1> DEFINE age == IF count[k].life = "absent" THEN "lasting" ELSE count[k].life
           new(m, a) == [count[k] EXCEPT !.n = m, !.life = a]
<1>1. count \in [Keys -> Counter] /\ count[k] \in Counter
  BY DEF TypeOK, Keys
<1>2. count[k].n + d \in Int /\ age \in {"absent", "lasting", "aging"}
  BY <1>1 DEF Counter
<1>3. age # "absent" /\ (count[k].life # "absent" => age = count[k].life)
  OBVIOUS
<1>4. Added(k, d) = [count EXCEPT ![k] = new(count[k].n + d, age)]
  BY <1>1 DEF Added
<1>5. ASSUME NEW m \in Int, NEW a \in {"absent", "lasting", "aging"}
      PROVE  new(m, a) \in Counter /\ new(m, a).n = m /\ new(m, a).life = a
  BY <1>1 DEF Counter
<1> HIDE DEF age, new
<1> QED BY <1>1, <1>2, <1>3, <1>4, <1>5

(* Aged changes one counter's life, if it is there. *)
LEMMA AgedAt ==
  ASSUME TypeOK, NEW k \in Keys
  PROVE  /\ Aged(k) \in [Keys -> Counter]
         /\ Aged(k)[k].n = count[k].n
         /\ Aged(k)[k].life # "lasting"
         /\ Aged(k)[k].life = "absent" => count[k].life = "absent"
         /\ \A j \in Keys \ {k} : Aged(k)[j] = count[j]
<1> DEFINE new == [count[k] EXCEPT !.life = IF @ = "absent" THEN "absent" ELSE "aging"]
<1>1. count \in [Keys -> Counter] /\ count[k] \in Counter
  BY DEF TypeOK, Keys
<1>2. new \in Counter /\ new.n = count[k].n
  BY <1>1 DEF Counter
<1>3. new.life # "lasting" /\ (new.life = "absent" => count[k].life = "absent")
  BY <1>1 DEF Counter
<1>4. Aged(k) = [count EXCEPT ![k] = new]
  BY <1>1 DEF Aged
<1> HIDE DEF new
<1> QED BY <1>1, <1>2, <1>3, <1>4

(* A command that is queued comes last. *)
LEMMA AppendAt ==
  ASSUME NEW q \in Seq(Command), NEW c \in Command
  PROVE  /\ Append(q, c) \in Seq(Command)
         /\ Len(Append(q, c)) = Len(q) + 1
         /\ \A i \in 1..Len(q) : Append(q, c)[i] = q[i]
         /\ Append(q, c)[Len(q) + 1] = c
OBVIOUS

(* A command that is done was first, and the others move up. *)
LEMMA TailAt ==
  ASSUME NEW q \in Seq(Command), q # <<>>
  PROVE  /\ Tail(q) \in Seq(Command)
         /\ Len(q) \in Nat \ {0} /\ Len(Tail(q)) = Len(q) - 1
         /\ \A i \in 1..Len(q) - 1 : Tail(q)[i] = q[i + 1]
         /\ Head(q) = q[1]
OBVIOUS

(* What sets of sockets count. *)
LEMMA Counting ==
  ASSUME NEW P \in SUBSET Sockets
  PROVE  /\ Cardinality(P) \in Nat
         /\ \A Q \in SUBSET P : Cardinality(Q) <= Cardinality(P)
         /\ P = {} => Cardinality(P) = 0
         /\ \A s \in P : /\ Cardinality(P) >= 1
                         /\ Cardinality(P \ {s}) = Cardinality(P) - 1
         /\ \A s \in Sockets \ P : Cardinality(P \cup {s}) = Cardinality(P) + 1
<1>1. IsFiniteSet(Sockets)
  BY SessionsAssumption
<1>2. IsFiniteSet(P)
  BY <1>1, FS_Subset
<1>3. Cardinality(P) \in Nat
  BY <1>2, FS_CardinalityType
<1>4. \A Q \in SUBSET P : Cardinality(Q) <= Cardinality(P)
  BY <1>2, FS_Subset
<1>5. P = {} => Cardinality(P) = 0
  BY FS_EmptySet
<1>6. ASSUME NEW s \in P
      PROVE  Cardinality(P) >= 1 /\ Cardinality(P \ {s}) = Cardinality(P) - 1
  <2>1. IsFiniteSet(P \ {s}) /\ Cardinality(P \ {s}) = Cardinality(P) - 1
    BY <1>2, FS_RemoveElement
  <2>2. Cardinality(P \ {s}) \in Nat
    BY <2>1, FS_CardinalityType
  <2> QED
    BY <2>1, <2>2, <1>3
<1>7. \A s \in Sockets \ P : Cardinality(P \cup {s}) = Cardinality(P) + 1
  BY <1>2, FS_AddElement
<1> QED
  BY <1>3, <1>4, <1>5, <1>6, <1>7

(* Two members are more than one. *)
LEMMA AtLeastTwo ==
  ASSUME NEW P \in SUBSET Sockets, NEW s \in P, NEW t \in P, s # t
  PROVE  Cardinality(P) > 1
<1>1. t \in P \ {s} /\ P \ {s} \in SUBSET Sockets
  OBVIOUS
<1>2. Cardinality(P \ {s}) >= 1
  BY <1>1, Counting
<1>3. Cardinality(P \ {s}) = Cardinality(P) - 1 /\ Cardinality(P) \in Nat
  BY Counting
<1> QED
  BY <1>2, <1>3

(* More than one are two. *)
LEMMA AnotherOne ==
  ASSUME NEW P \in SUBSET Sockets, NEW s \in P, ~(Cardinality(P) <= 1)
  PROVE  P \ {s} # {}
<1>1. Cardinality(P \ {s}) = Cardinality(P) - 1 /\ Cardinality(P) \in Nat
  BY Counting
<1>2. Cardinality({}) = 0
  BY FS_EmptySet
<1> QED
  BY <1>1, <1>2

(* A step moves at most socket s; the key of s stays. *)
MovesOnly(s) ==
  /\ sock' \in [Sockets -> Socket]
  /\ sock'[s].order = sock[s].order /\ sock'[s].ip = sock[s].ip
  /\ \A t \in Sockets \ {s} : sock'[t] = sock[t]

(* What a move does to the sets that the counters are compared with. *)
LEMMA SetsMove ==
  ASSUME TypeOK, NEW s \in Sockets, MovesOnly(s)
  PROVE  /\ \A t \in Sockets : Key(t)' = Key(t)
         /\ \A k \in Keys : Counted(k)' =
              IF k = Key(s) /\ sock'[s].pc \in CountedLabel
              THEN Counted(k) \cup {s} ELSE Counted(k) \ {s}
         /\ Opening' = IF sock'[s].pc \in {"check", "register"}
                       THEN Opening \cup {s} ELSE Opening \ {s}
<1>1. \A t \in Sockets : Key(t)' = Key(t)
  BY DEF MovesOnly, Key
<1>2. ASSUME NEW k \in Keys
      PROVE  Counted(k)' = IF k = Key(s) /\ sock'[s].pc \in CountedLabel
                           THEN Counted(k) \cup {s} ELSE Counted(k) \ {s}
  BY <1>1 DEF MovesOnly, Counted
<1>3. Opening' = IF sock'[s].pc \in {"check", "register"}
                 THEN Opening \cup {s} ELSE Opening \ {s}
  BY DEF MovesOnly, Opening
<1> QED
  BY <1>1, <1>2, <1>3

-----------------------------------------------------------------------------
(* Types *)

(* The socket whose command comes next waits for it. *)
LEMMA Reached ==
  ASSUME TypeOK, Awaited, NEW s \in Sockets, NEW op \in {"subscribe", "unsubscribe"},
         Reaches(s, op)
  PROVE  /\ sock[s].pc = op
         /\ commands # <<>> /\ commands[1] = [op |-> op, socket |-> s]
         /\ 1 \in 1..Len(commands)
<1>1. commands # <<>> /\ Head(commands) = commands[1] /\ 1 \in 1..Len(commands)
  BY TailAt DEF Reaches, TypeOK
<1>2. commands[1] = [op |-> op, socket |-> s]
  BY <1>1 DEF Reaches
<1> QED BY <1>1, <1>2 DEF Awaited

(* A move, a note and a command keep the types. *)
LEMMA TypeStep ==
  ASSUME TypeOK, Sequenced, Awaited, Next
  PROVE  TypeOK'
<1> USE DEF Keys
<1>1. ASSUME NEW s \in Sockets, NEW o \in Orders, NEW ip \in Ips, Connect(s, o, ip)
      PROVE  TypeOK'
  <2> DEFINE new == [NoSocket EXCEPT !.pc = "check", !.order = o,
                                     !.ip = ip, !.state = "open"]
  <2>1. new \in Socket
    BY DEF NoSocket, Socket, Label
  <2>2. sock' = [sock EXCEPT ![s] = new]
    BY <1>1 DEF Connect
  <2> HIDE DEF new
  <2> QED BY <1>1, <2>1, <2>2 DEF TypeOK, Connect
<1>2. ASSUME NEW s \in Sockets, CheckLimit(s)
      PROVE  TypeOK'
  <2>1. sock' \in [Sockets -> Socket]
    BY <1>2, GotoMoves, AbandonMoves DEF CheckLimit, Moves, Label
  <2> QED BY <1>2, <2>1 DEF TypeOK, CheckLimit
<1>3. ASSUME NEW s \in Sockets, Increment(s)
      PROVE  TypeOK'
  <2>1. Key(s) \in Keys /\ 1 \in Int
    BY <1>3 DEF Increment, Sequenced
  <2>2. Added(Key(s), 1) \in [Keys -> Counter]
    BY <2>1, AddedAt, Zenon
  <2>3. sock' \in [Sockets -> Socket]
    BY <1>3, GotoMoves, AbandonMoves DEF Increment, Moves, Label, CountedLabel
  <2> QED BY <1>3, <2>2, <2>3 DEF TypeOK, Increment
<1>4. ASSUME NEW s \in Sockets, SetExpiry(s)
      PROVE  TypeOK'
  <2>1. Key(s) \in Keys
    BY <1>4 DEF SetExpiry, Sequenced
  <2>2. Aged(Key(s)) \in [Keys -> Counter]
    BY <2>1, AgedAt
  <2>3. sock' \in [Sockets -> Socket]
    BY <1>4, GotoMoves, AbandonMoves DEF SetExpiry, Moves, Label, CountedLabel
  <2> QED BY <1>4, <2>2, <2>3 DEF TypeOK, SetExpiry
<1>5. ASSUME NEW s \in Sockets, Backfill(s)
      PROVE  TypeOK'
  <2>1. sock[s].order \in Orders
    BY <1>5 DEF Backfill, Sequenced, Key
  <2>2. CASE Abandon(s, "done") /\ UNCHANGED <<subs, commands>>
    <3>1. sock' \in [Sockets -> Socket]
      BY <2>2, AbandonMoves DEF Moves, Label
    <3> QED BY <1>5, <2>2, <3>1 DEF TypeOK, Backfill
  <2>3. CASE /\ Subscribing(s)
             /\ ~(Abandon(s, "done") /\ UNCHANGED <<subs, commands>>)
    <3>1. [op |-> "subscribe", socket |-> s] \in Command
      BY DEF Command
    <3>2. commands' \in Seq(Command)
      BY <2>3, <3>1, AppendAt DEF TypeOK, Subscribing, Queued
    <3>3. subs' \in [Sockets -> Orders \cup {NoOrder}]
      BY <2>1, <2>3 DEF TypeOK, Subscribing
    <3>4. row[sock[s].order] # "absent" => row[sock[s].order] \in {"running", "ended"}
      BY <2>1 DEF TypeOK
    <3>5. sock' \in [Sockets -> Socket]
      <4> DEFINE o == sock[s].order
                 f == IF row[o] # "absent" THEN Tell(s, row[o])
                      ELSE IF sock[s].state = "open"
                      THEN [sock EXCEPT ![s].state = "closing"]
                      ELSE sock
      <4>1. row[o] # "absent" => Tell(s, row[o]) \in [Sockets -> Socket]
        BY <3>4, TellTypes
      <4>2. [sock EXCEPT ![s].state = "closing"] \in [Sockets -> Socket]
        BY StateChanges DEF TypeOK
      <4>3. f \in [Sockets -> Socket] /\ sock' = [f EXCEPT ![s].pc = "subscribe"]
        <5>1. f \in [Sockets -> Socket]
          BY <4>1, <4>2 DEF TypeOK
        <5>2. sock' = [f EXCEPT ![s].pc = "subscribe"]
          BY <1>5, <2>3 DEF Backfill
        <5> QED BY <5>1, <5>2
      <4> HIDE DEF f
      <4>4. "subscribe" \in Label
        BY DEF Label, CountedLabel
      <4> QED BY <4>3, <4>4, LabelChanges
    <3> QED BY <1>5, <3>2, <3>3, <3>5 DEF TypeOK, Backfill
  <2>4. Subscribing(s) \/ (Abandon(s, "done") /\ UNCHANGED <<subs, commands>>)
    BY <1>5 DEF Backfill
  <2> QED BY <2>2, <2>3, <2>4
<1>6. ASSUME NEW s \in Sockets, Subscribed(s)
      PROVE  TypeOK'
  <2>1. commands' \in Seq(Command)
    BY <1>6, TailAt DEF Subscribed, Reaches, TypeOK
  <2>2. sock' \in [Sockets -> Socket]
    BY <1>6, GotoMoves, AbandonMoves DEF Subscribed, Moves, Label, CountedLabel
  <2>3. sock[s].pc # "new"
    BY <1>6, Reached DEF Subscribed
  <2>4. channels' \subseteq Orders
    BY <1>6, <2>3 DEF TypeOK, Subscribed, Sequenced, Key
  <2> QED BY <1>6, <2>1, <2>2, <2>4 DEF TypeOK, Subscribed
<1>7. ASSUME Die
      PROVE  /\ sock' \in [Sockets -> Socket] /\ subs' \in [Sockets -> Orders \cup {NoOrder}]
             /\ attached' \subseteq Sockets /\ commands' \in Seq(Command)
             /\ channels' \subseteq Orders
  <2>1. ASSUME NEW x \in Socket
        PROVE  [x EXCEPT !.pc = "done", !.state = "closed"] \in Socket
    BY DEF Socket, Label
  <2>2. sock' \in [Sockets -> Socket]
    <3>1. \A s \in Sockets : sock[s] \in Socket
      BY DEF TypeOK
    <3> QED BY <1>7, <2>1, <3>1 DEF Die
  <2>3. subs' \in [Sockets -> Orders \cup {NoOrder}]
    BY <1>7 DEF Die
  <2>4. commands' = <<>>
    BY <1>7 DEF Die
  <2>5. commands' \in Seq(Command)
    BY <2>4
  <2> QED BY <1>7, <2>2, <2>3, <2>5 DEF Die
<1>8. ASSUME NEW s \in Sockets, Close(s)
      PROVE  TypeOK'
  <2>1. CASE sock[s].pc = "ready" /\ Detach(s)
    <3>1. [op |-> "unsubscribe", socket |-> s] \in Command
      BY DEF Command
    <3>2. Queued(s, "unsubscribe") \in Seq(Command)
      BY <3>1, AppendAt DEF TypeOK, Queued
    <3>3. commands' \in Seq(Command)
      BY <2>1, <3>2 DEF TypeOK, Detach
    <3>4. sock' \in [Sockets -> Socket]
      BY <2>1 DEF TypeOK, Socket, Label, CountedLabel, Detach
    <3>5. subs' \in [Sockets -> Orders \cup {NoOrder}]
      BY <2>1 DEF TypeOK, Detach
    <3>6. attached' \subseteq Sockets
      BY <2>1 DEF TypeOK, Detach
    <3> QED BY <1>8, <3>3, <3>4, <3>5, <3>6 DEF TypeOK, Close
  <2>2. CASE sock[s].pc # "ready"
    <3>1. sock' = [sock EXCEPT ![s].state = "closed"]
      BY <1>8, <2>2 DEF Close
    <3>2. sock' \in [Sockets -> Socket]
      BY <3>1, StateChanges DEF TypeOK
    <3> QED BY <1>8, <2>2, <3>2 DEF TypeOK, Close
  <2> QED BY <1>8, <2>1, <2>2 DEF Close
<1>9. ASSUME NEW s \in Sockets, Unsubscribed(s)
      PROVE  TypeOK'
  <2>1. CASE Die
    BY <1>7, <1>9, <2>1 DEF TypeOK, Unsubscribed
  <2>2. CASE ~Die
    <3>1. commands' \in Seq(Command)
      BY <1>9, <2>2, TailAt DEF Unsubscribed, Reaches, TypeOK
    <3>2. sock' \in [Sockets -> Socket]
      BY <1>9, <2>2, GotoMoves DEF Unsubscribed, Moves, Label, CountedLabel
    <3> QED BY <1>9, <2>2, <3>1, <3>2 DEF TypeOK, Unsubscribed
  <2> QED BY <2>1, <2>2
<1>10. ASSUME NEW s \in Sockets, Release(s)
       PROVE  TypeOK'
  <2>1. Key(s) \in Keys /\ -1 \in Int
    BY <1>10 DEF Release, Sequenced
  <2>2. Added(Key(s), -1) \in [Keys -> Counter]
    BY <2>1, AddedAt, Zenon
  <2>3. count' \in [Keys -> Counter]
    BY <1>10, <2>2 DEF Release, TypeOK
  <2>4. CASE Die
    BY <1>7, <1>10, <2>3, <2>4 DEF TypeOK, Release
  <2>5. CASE ~Die
    <3>1. sock' \in [Sockets -> Socket]
      BY <1>10, <2>5, GotoMoves DEF Release, Moves, Label, CountedLabel
    <3> QED BY <1>10, <2>3, <2>5, <3>1 DEF TypeOK, Release
  <2> QED BY <2>4, <2>5
<1>11. ASSUME NEW o \in Orders, EndOrder(o)
       PROVE  TypeOK'
  BY <1>11 DEF TypeOK, EndOrder
<1>12. ASSUME NEW o \in Orders, PublishEnd(o)
       PROVE  TypeOK'
  <2>1. \A s \in Sockets : [sock[s] EXCEPT !.told = "ended"] \in Socket
    BY DEF TypeOK, Socket
  <2>2. sock' \in [Sockets -> Socket]
    BY <1>12, <2>1 DEF PublishEnd, TypeOK
  <2> QED BY <1>12, <2>2 DEF TypeOK, PublishEnd
<1>13. ASSUME NEW k \in Keys, Expire(k)
       PROVE  TypeOK'
  <2>1. NoCounter \in Counter
    BY DEF NoCounter, Counter
  <2> QED BY <1>13, <2>1 DEF TypeOK, Expire
<1>14. ASSUME Crash
       PROVE  TypeOK'
  BY <1>7, <1>14 DEF TypeOK, Crash
<1> QED
  BY <1>1, <1>2, <1>3, <1>4, <1>5, <1>6, <1>8, <1>9, <1>10, <1>11, <1>12, <1>13, <1>14
  DEF Next, Serve

-----------------------------------------------------------------------------
(* The counters *)

Registering(k) == {t \in Sockets : sock[t].pc = "register" /\ Key(t) = k}

Expecting(k) == {t \in Sockets : sock[t].pc = "expiry" /\ Key(t) = k}

(* The step takes no counter further below the sessions it guards, and      *)
(* without a fault nor above them.                                          *)
Balanced ==
  \A k \in Keys : /\ Uncovered(k)' <= Uncovered(k)
                  /\ faults = {} => Uncovered(k)' = Uncovered(k)

(* No counter of a session vanishes; one that lasts has a TTL to come. *)
KeepsLives ==
  \A k \in Keys :
    /\ count'[k].life = "absent" => count[k].life = "absent" /\ Counted(k)' \subseteq Counted(k)
    /\ Without({"redis", "expire", "crash"}) /\ count'[k].life = "lasting" =>
         \/ Expecting(k)' # {}
         \/ count[k].life = "lasting" /\ Expecting(k) \subseteq Expecting(k)'

(* No seat is taken that was not already counted or about to be. *)
KeepsSeats ==
  \A k \in Keys : Cardinality(Counted(k))' + Cardinality(Registering(k))'
                    <= Cardinality(Counted(k)) + Cardinality(Registering(k))

Covering == Covered /\ CounterExact /\ CounterAges

(* The counts of the sets above are numbers. *)
LEMMA Numbers ==
  ASSUME TypeOK, NEW k \in Keys
  PROVE  /\ Cardinality(Counted(k)) \in Nat /\ Cardinality(Registering(k)) \in Nat
         /\ count[k].n \in Int
BY Counting DEF TypeOK, Counter, Counted, Registering, Keys

(* They are so after a step as well. *)
LEMMA NumbersNext ==
  ASSUME TypeOK', NEW k \in Keys
  PROVE  /\ Cardinality(Counted(k))' \in Nat /\ Cardinality(Registering(k))' \in Nat
         /\ count'[k].n \in Int
<1>1. Counted(k)' \in SUBSET Sockets /\ Registering(k)' \in SUBSET Sockets
  BY DEF Counted, Registering
<1>2. Cardinality(Counted(k)') \in Nat /\ Cardinality(Registering(k)') \in Nat
  BY <1>1, Counting
<1>3. count'[k].n \in Int
  BY DEF TypeOK, Counter, Keys
<1> QED BY <1>2, <1>3

(* A balanced step keeps what is said of the counters. *)
LEMMA BalancedCovers ==
  ASSUME TypeOK, TypeOK', faults' = faults, Covering, Balanced, KeepsLives
  PROVE  Covering'
<1>1. \A kinds : Without(kinds)' <=> Without(kinds)
  BY DEF Without
<1>2. ASSUME Without({"expire"}), NEW k \in Keys
      PROVE  /\ count'[k].n >= Cardinality(Counted(k))'
             /\ Counted(k)' # {} => count'[k].life # "absent"
  <2>1. count[k].n >= Cardinality(Counted(k)) /\ (Counted(k) # {} => count[k].life # "absent")
    BY <1>2 DEF Covering, Covered, Keys
  <2>2. Cardinality(Counted(k))' - count'[k].n <= Cardinality(Counted(k)) - count[k].n
    BY DEF Balanced, Uncovered
  <2>3. count'[k].n >= Cardinality(Counted(k))'
    BY <2>1, <2>2, Numbers, NumbersNext
  <2>4. count'[k].life = "absent" => Counted(k)' = {}
    BY <2>1 DEF KeepsLives
  <2> QED BY <2>3, <2>4
<1>3. Covered'
  BY <1>1, <1>2 DEF Covered, Keys
<1>4. ASSUME Without(FaultKinds), NEW k \in Keys
      PROVE  count'[k].n = Cardinality(Counted(k))'
  <2>1. faults = {}
    BY <1>4 DEF Without, TypeOK
  <2>2. count[k].n = Cardinality(Counted(k))
    BY <1>4 DEF Covering, CounterExact, Keys
  <2>3. Cardinality(Counted(k))' - count'[k].n = Cardinality(Counted(k)) - count[k].n
    BY <2>1 DEF Balanced, Uncovered
  <2> QED BY <2>2, <2>3, Numbers, NumbersNext
<1>5. CounterExact'
  BY <1>1, <1>4 DEF CounterExact, Keys
<1>6. ASSUME Without({"redis", "expire", "crash"}), NEW k \in Keys,
             count'[k].life = "lasting"
      PROVE  \E s \in Sockets : sock'[s].pc = "expiry" /\ Key(s)' = k
  <2>1. count[k].life = "lasting" => Expecting(k) # {}
    BY <1>6 DEF Covering, CounterAges, Expecting, Keys
  <2>2. Expecting(k)' # {}
    BY <1>6, <2>1 DEF KeepsLives
  <2> QED BY <2>2 DEF Expecting
<1>7. CounterAges'
  BY <1>1, <1>6 DEF CounterAges, Keys
<1> QED BY <1>3, <1>5, <1>7 DEF Covering

(* The sockets that are being registered, as SeatsBounded has them. *)
LEMMA SeatsOf ==
  ASSUME NEW k
  PROVE  {s \in Opening : sock[s].pc = "register" /\ Key(s) = k} = Registering(k)
BY DEF Opening, Registering

(* Without a new seat the limit is overshot by no more than before. *)
LEMMA KeptSeatsFit ==
  ASSUME TypeOK, TypeOK', faults' = faults, SeatsBounded, KeepsSeats
  PROVE  SeatsBounded'
<1>1. Without({"expire"})' <=> Without({"expire"})
  BY DEF Without
<1>2. ASSUME Without({"expire"}), NEW k \in Keys
      PROVE  Cardinality(Counted(k))' + Cardinality(Registering(k))' <= Limit - 1 + MaxOpening
  <2>1. Cardinality(Counted(k)) + Cardinality(Registering(k)) <= Limit - 1 + MaxOpening
    BY <1>2, SeatsOf DEF SeatsBounded, Keys
  <2>2. Cardinality(Counted(k))' + Cardinality(Registering(k))'
          <= Cardinality(Counted(k)) + Cardinality(Registering(k))
    BY DEF KeepsSeats
  <2> QED BY <2>1, <2>2, Numbers, NumbersNext, SessionsAssumption DEF SessionsAssumption
<1>3. \A k : {s \in Opening : sock[s].pc = "register" /\ Key(s) = k}' = Registering(k)'
  BY DEF Opening, Registering
<1> QED BY <1>1, <1>2, <1>3 DEF SeatsBounded, Keys

(* A step that leaves labels, keys and counters alone. *)
Stays ==
  /\ \A t \in Sockets : sock'[t].pc = sock[t].pc /\ Key(t)' = Key(t)
  /\ UNCHANGED <<faults, count>>

(* It leaves what is counted alone. *)
LEMMA StaysKeeps ==
  ASSUME TypeOK, TypeOK', Stays
  PROVE  Balanced /\ KeepsLives /\ KeepsSeats
<1>1. \A k : /\ Counted(k)' = Counted(k) /\ Registering(k)' = Registering(k)
             /\ Expecting(k)' = Expecting(k)
  BY DEF Stays, Counted, Registering, Expecting
<1>2. ASSUME NEW k \in Keys
      PROVE  Cardinality(Counted(k))' = Cardinality(Counted(k))
             /\ Cardinality(Registering(k))' = Cardinality(Registering(k))
  BY <1>1
<1>3. Balanced
  BY <1>2, Numbers DEF Balanced, Uncovered, Stays
<1>4. KeepsLives
  BY <1>1 DEF KeepsLives, Stays
<1>5. KeepsSeats
  BY <1>2, Numbers DEF KeepsSeats
<1> QED BY <1>3, <1>4, <1>5

(* A socket moves on, is given up after a fault, or was never counted; a    *)
(* counter is not lowered.                                                  *)
Passes(s) ==
  /\ MovesOnly(s) /\ UNCHANGED faults
  /\ sock'[s].pc \in CountedLabel => sock[s].pc \in CountedLabel
  /\ faults = {} /\ sock[s].pc \in CountedLabel => sock'[s].pc \in CountedLabel
  /\ \A k \in Keys :
       /\ count'[k].n >= count[k].n
       /\ faults = {} => count'[k].n = count[k].n
       /\ count'[k].life = "absent" => count[k].life = "absent"
       /\ "redis" \notin faults /\ count'[k].life = "lasting" =>
            /\ count[k].life = "lasting"
            /\ Key(s) = k /\ sock[s].pc = "expiry" => sock'[s].pc = "expiry"

(* A session that passes keeps what is counted, *)
LEMMA PassesKeeps ==
  ASSUME TypeOK, TypeOK', NEW s \in Sockets, Passes(s)
  PROVE  Balanced /\ KeepsLives
<1>1. MovesOnly(s)
  BY DEF Passes
<1>2. ASSUME NEW k \in Keys
      PROVE  /\ Counted(k)' \subseteq Counted(k)
             /\ faults = {} => Counted(k)' = Counted(k)
  <2>1. Counted(k)' = IF k = Key(s) /\ sock'[s].pc \in CountedLabel
                      THEN Counted(k) \cup {s} ELSE Counted(k) \ {s}
    BY <1>1, SetsMove
  <2>2. CASE k = Key(s) /\ sock'[s].pc \in CountedLabel
    BY <2>1, <2>2 DEF Passes, Counted
  <2>3. CASE ~(k = Key(s) /\ sock'[s].pc \in CountedLabel)
    BY <2>1, <2>3 DEF Passes, Counted
  <2> QED BY <2>2, <2>3
<1>3. ASSUME NEW k \in Keys
      PROVE  /\ Uncovered(k)' <= Uncovered(k)
             /\ faults = {} => Uncovered(k)' = Uncovered(k)
  <2>1. /\ Cardinality(Counted(k))' <= Cardinality(Counted(k))
        /\ faults = {} => Cardinality(Counted(k))' = Cardinality(Counted(k))
    <3>1. Counted(k) \in SUBSET Sockets
      BY DEF Counted
    <3>2. Cardinality(Counted(k)') <= Cardinality(Counted(k))
      BY <1>2, <3>1, Counting
    <3> QED BY <1>2, <3>2
  <2>2. count'[k].n >= count[k].n /\ (faults = {} => count'[k].n = count[k].n)
    BY DEF Passes
  <2> QED BY <2>1, <2>2, Numbers, NumbersNext DEF Uncovered
<1>4. ASSUME NEW k \in Keys, Without({"redis", "expire", "crash"}),
             count'[k].life = "lasting"
      PROVE  count[k].life = "lasting" /\ Expecting(k) \subseteq Expecting(k)'
  <2>1. "redis" \notin faults
    BY <1>4 DEF Without
  <2>2. count[k].life = "lasting"
    BY <1>4, <2>1 DEF Passes
  <2>3. \A t \in Sockets : Key(t)' = Key(t)
    BY <1>1, SetsMove
  <2>4. \A t \in Sockets : Key(t) = k /\ sock[t].pc = "expiry" => sock'[t].pc = "expiry"
    BY <1>1, <1>4, <2>1 DEF Passes, MovesOnly
  <2> QED BY <2>2, <2>3, <2>4 DEF Expecting
<1> QED BY <1>2, <1>3, <1>4 DEF Balanced, KeepsLives, Passes

(* and if it is not newly admitted, takes no seat. *)
LEMMA PassesSeats ==
  ASSUME TypeOK, TypeOK', NEW s \in Sockets, Passes(s),
         sock'[s].pc = "register" => sock[s].pc = "register"
  PROVE  KeepsSeats
<1> SUFFICES ASSUME NEW k \in Keys
             PROVE  Cardinality(Counted(k))' + Cardinality(Registering(k))'
                      <= Cardinality(Counted(k)) + Cardinality(Registering(k))
  BY DEF KeepsSeats
<1>1. \A t \in Sockets : Key(t)' = Key(t)
  BY SetsMove DEF Passes
<1>2. Counted(k)' \subseteq Counted(k) /\ Registering(k)' \subseteq Registering(k)
  BY <1>1 DEF Passes, MovesOnly, Counted, Registering
<1>3. Counted(k) \in SUBSET Sockets /\ Registering(k) \in SUBSET Sockets
  BY DEF Counted, Registering
<1>4. Cardinality(Counted(k)') <= Cardinality(Counted(k))
      /\ Cardinality(Registering(k)') <= Cardinality(Registering(k))
  BY <1>2, <1>3, Counting
<1> QED BY <1>4, Numbers, NumbersNext

(* A socket that is on its way keeps the sequence. *)
LEMMA MoveSequenced ==
  ASSUME TypeOK, Sequenced, NEW s \in Sockets, MovesOnly(s),
         sock[s].pc # "new", sock'[s].pc # "new",
         sock'[s].pc \in {"check", "register"} => sock[s].pc \in {"check", "register"}
  PROVE  Sequenced'
<1>1. \A t \in Sockets : Key(t)' = Key(t)
  BY SetsMove
<1>2. Opening' \subseteq Opening /\ Opening \in SUBSET Sockets
  BY DEF MovesOnly, Opening
<1>3. Cardinality(Opening') <= MaxOpening
  <2>1. Cardinality(Opening') <= Cardinality(Opening) /\ Cardinality(Opening) \in Nat
        /\ Cardinality(Opening') \in Nat
    BY <1>2, Counting
  <2> QED BY <2>1, SessionsAssumption DEF Sequenced, SessionsAssumption
<1>4. \A t \in Sockets : sock'[t].pc # "new" => Key(t)' \in Orders \X Ips
  BY <1>1 DEF Sequenced, MovesOnly
<1>5. \A t \in Sockets : sock'[t].pc = "new" => sock'[t].state = "closed"
  BY DEF Sequenced, MovesOnly
<1> QED BY <1>3, <1>4, <1>5 DEF Sequenced

(* A new socket is neither counted nor about to be. *)
LEMMA ConnectKeeps ==
  ASSUME TypeOK, TypeOK', Sequenced,
         NEW s \in Sockets, NEW o \in Orders, NEW ip \in Ips, Connect(s, o, ip)
  PROVE  Sequenced' /\ Balanced /\ KeepsLives /\ KeepsSeats
<1> DEFINE new == [NoSocket EXCEPT !.pc = "check", !.order = o,
                                   !.ip = ip, !.state = "open"]
<1>1. /\ new \in Socket
      /\ new.pc = "check" /\ new.order = o /\ new.ip = ip /\ new.state = "open"
  BY DEF NoSocket, Socket, Label
<1>2. sock' = [sock EXCEPT ![s] = new] /\ sock[s].pc = "new"
  BY DEF Connect
<1> HIDE DEF new
<1>3. sock'[s] = new /\ \A t \in Sockets \ {s} : sock'[t] = sock[t]
  BY <1>2 DEF TypeOK
<1>4. \A t \in Sockets \ {s} : Key(t)' = Key(t)
  BY <1>3 DEF Key
<1>5. Key(s)' = <<o, ip>>
  BY <1>1, <1>3 DEF Key
<1>6. \A k : /\ Counted(k)' = Counted(k) /\ Registering(k)' = Registering(k)
             /\ Expecting(k)' = Expecting(k)
  BY <1>1, <1>2, <1>3, <1>4 DEF Counted, Registering, Expecting, CountedLabel
<1>7. UNCHANGED <<faults, count>>
  BY DEF Connect
<1>8. Balanced
  BY <1>6, <1>7, Numbers DEF Balanced, Uncovered
<1>9. KeepsLives
  BY <1>6, <1>7 DEF KeepsLives
<1>10. KeepsSeats
  BY <1>6, Numbers DEF KeepsSeats
<1>11. Opening' = Opening \cup {s} /\ s \notin Opening /\ Opening \in SUBSET Sockets
  BY <1>1, <1>2, <1>3 DEF Opening
<1>12. Cardinality(Opening') <= MaxOpening
  <2>1. Cardinality(Opening') = Cardinality(Opening) + 1 /\ Cardinality(Opening) \in Nat
    BY <1>11, Counting
  <2>2. Cardinality(Opening) < MaxOpening
    BY DEF Connect
  <2> QED BY <2>1, <2>2, SessionsAssumption DEF SessionsAssumption
<1>13. \A t \in Sockets : sock'[t].pc # "new" => Key(t)' \in Orders \X Ips
  BY <1>3, <1>4, <1>5 DEF Sequenced
<1>14. \A t \in Sockets : sock'[t].pc = "new" => sock'[t].state = "closed"
  BY <1>1, <1>3 DEF Sequenced
<1> QED BY <1>8, <1>9, <1>10, <1>12, <1>13, <1>14 DEF Sequenced

(* The check lets a socket in below the limit: with the few that are let in *)
(* at the same time it overshoots no further.                               *)
LEMMA CheckKeeps ==
  ASSUME TypeOK, TypeOK', Sequenced, Covering, SeatsBounded,
         NEW s \in Sockets, CheckLimit(s)
  PROVE  Sequenced' /\ Balanced /\ KeepsLives /\ SeatsBounded'
<1>1. /\ UNCHANGED <<faults, count>> /\ sock[s].pc = "check" /\ MovesOnly(s)
      /\ sock'[s].pc \in {"register", "refused", "done"}
      /\ sock'[s].pc = "register" => count[Key(s)].n < Limit
  BY GotoMoves, AbandonMoves DEF CheckLimit, Moves, MovesOnly, Label
<1>2. Passes(s)
  <2>1. \A k \in Keys : count[k].n >= count[k].n
    BY Numbers
  <2> QED BY <1>1, <2>1 DEF Passes, CountedLabel
<1>3. Sequenced'
  BY <1>1, MoveSequenced
<1>4. Balanced /\ KeepsLives
  BY <1>2, PassesKeeps
<1>5. CASE sock'[s].pc # "register"
  BY <1>1, <1>2, <1>3, <1>4, <1>5, PassesSeats, KeptSeatsFit
<1>6. CASE sock'[s].pc = "register"
  <2>1. \A k : {t \in Opening : sock[t].pc = "register" /\ Key(t) = k}' = Registering(k)'
    BY DEF Opening, Registering
  <2>2. ASSUME Without({"expire"}), NEW k \in Keys
        PROVE  Cardinality(Counted(k))' + Cardinality(Registering(k))'
                 <= Limit - 1 + MaxOpening
    <3>1. Counted(k)' = Counted(k)
      BY <1>1, SetsMove DEF CountedLabel, Counted
    <3>2. \A t \in Sockets : Key(t)' = Key(t)
      BY <1>1, SetsMove
    <3>3. CASE k # Key(s)
      <4>1. Registering(k)' = Registering(k)
        BY <1>1, <3>2, <3>3 DEF Registering, MovesOnly
      <4>2. Cardinality(Counted(k)) + Cardinality(Registering(k)) <= Limit - 1 + MaxOpening
        BY <2>2, SeatsOf DEF SeatsBounded, Keys
      <4> QED BY <3>1, <4>1, <4>2
    <3>4. CASE k = Key(s)
      <4>1. Registering(k)' \subseteq Opening' /\ Opening' \in SUBSET Sockets
        BY DEF Registering, Opening
      <4>2. Cardinality(Registering(k)') <= Cardinality(Opening')
            /\ Cardinality(Opening') \in Nat
        BY <4>1, Counting
      <4>3. Cardinality(Opening') <= MaxOpening
        BY <1>3 DEF Sequenced
      <4>4. count[k].n >= Cardinality(Counted(k)) /\ count[k].n < Limit
        BY <1>1, <1>6, <2>2, <3>4 DEF Covering, Covered, Keys
      <4> QED
        BY <3>1, <4>2, <4>3, <4>4, Numbers, NumbersNext, SessionsAssumption
        DEF SessionsAssumption
    <3> QED BY <3>3, <3>4
  <2>3. Without({"expire"})' <=> Without({"expire"})
    BY <1>1 DEF Without
  <2>4. SeatsBounded'
    BY <2>1, <2>2, <2>3 DEF SeatsBounded, Keys
  <2> QED BY <1>3, <1>4, <2>4
<1> QED BY <1>5, <1>6

(* INCR counts the session that is being registered, or fails. *)
LEMMA IncrementKeeps ==
  ASSUME TypeOK, TypeOK', Sequenced, NEW s \in Sockets, Increment(s)
  PROVE  Sequenced' /\ Balanced /\ KeepsLives /\ KeepsSeats
<1> DEFINE more == Added(Key(s), 1)
<1>1. Key(s) \in Keys /\ 1 \in Int
  BY DEF Increment, Sequenced, Keys
<1>2. /\ more[Key(s)].n = count[Key(s)].n + 1
      /\ more[Key(s)].life # "absent"
      /\ \A j \in Keys \ {Key(s)} : more[j] = count[j]
  BY <1>1, AddedAt, Zenon
<1>3. UNCHANGED faults /\ sock[s].pc = "register"
  BY DEF Increment
<1>4. CASE count' = more /\ Goto(s, "expiry")
  <2>1. MovesOnly(s) /\ sock'[s].pc = "expiry"
    BY <1>4, GotoMoves DEF Moves, MovesOnly, Label, CountedLabel
  <2>2. \A t \in Sockets : Key(t)' = Key(t)
    BY <2>1, SetsMove
  <2>3. ASSUME NEW k \in Keys
        PROVE  /\ Uncovered(k)' = Uncovered(k)
               /\ count'[k].life = "absent" => /\ count[k].life = "absent"
                                               /\ Counted(k)' \subseteq Counted(k)
               /\ count'[k].life = "lasting" =>
                    \/ Expecting(k)' # {}
                    \/ count[k].life = "lasting" /\ Expecting(k) \subseteq Expecting(k)'
               /\ Cardinality(Counted(k))' + Cardinality(Registering(k))'
                    <= Cardinality(Counted(k)) + Cardinality(Registering(k))
    <3>1. CASE k # Key(s)
      <4>1. Counted(k)' = Counted(k)
        BY <1>3, <2>1, <3>1, SetsMove DEF Counted, CountedLabel
      <4>2. Registering(k)' = Registering(k) /\ Expecting(k)' = Expecting(k)
        BY <2>1, <2>2, <3>1 DEF Registering, Expecting, MovesOnly
      <4>3. count'[k] = count[k]
        BY <1>2, <1>4, <3>1
      <4> QED BY <4>1, <4>2, <4>3, Numbers DEF Uncovered
    <3>2. CASE k = Key(s)
      <4>1. Counted(k)' = Counted(k) \cup {s}
        BY <2>1, <3>2, SetsMove DEF CountedLabel
      <4>2. s \in Sockets \ Counted(k) /\ Counted(k) \in SUBSET Sockets
        BY <1>3 DEF Counted, CountedLabel
      <4>3. Cardinality(Counted(k)') = Cardinality(Counted(k)) + 1
        BY <4>1, <4>2, Counting
      <4>4. Registering(k)' = Registering(k) \ {s}
        BY <2>1, <2>2 DEF Registering, MovesOnly
      <4>5. s \in Registering(k) /\ Registering(k) \in SUBSET Sockets
        BY <1>3, <3>2 DEF Registering
      <4>6. Cardinality(Registering(k)') = Cardinality(Registering(k)) - 1
        BY <4>4, <4>5, Counting
      <4>7. s \in Expecting(k)'
        BY <2>1, <2>2, <3>2 DEF Expecting
      <4>8. count'[k].n = count[k].n + 1 /\ count'[k].life # "absent"
        BY <1>2, <1>4, <3>2
      <4> QED BY <4>3, <4>6, <4>7, <4>8, Numbers, NumbersNext DEF Uncovered
    <3> QED BY <3>1, <3>2
  <2>4. Balanced
    BY <2>3, Numbers DEF Balanced, Uncovered
  <2>5. KeepsLives /\ KeepsSeats
    BY <2>3 DEF KeepsLives, KeepsSeats
  <2>6. Sequenced'
    BY <1>3, <2>1, MoveSequenced
  <2> QED BY <2>4, <2>5, <2>6
<1>5. CASE "redis" \in faults /\ count' \in {count, more} /\ Abandon(s, "done")
  <2>1. MovesOnly(s) /\ sock'[s].pc = "done"
    BY <1>5, AbandonMoves DEF Moves, MovesOnly, Label
  <2>2. ASSUME NEW k \in Keys
        PROVE  /\ count'[k].n >= count[k].n
               /\ count'[k].life = "absent" => count[k].life = "absent"
    <3>1. CASE count' = more /\ k = Key(s)
      BY <1>2, <3>1, Numbers
    <3>2. CASE count' # more \/ k # Key(s)
      <4>1. count'[k] = count[k]
        BY <1>2, <1>5, <3>2
      <4> QED BY <4>1, Numbers
    <3> QED BY <3>1, <3>2
  <2>3. Passes(s)
    BY <1>3, <1>5, <2>1, <2>2 DEF Passes, CountedLabel
  <2> QED BY <1>3, <2>1, <2>3, PassesKeeps, PassesSeats, MoveSequenced
<1> QED BY <1>4, <1>5 DEF Increment

(* EXPIRE gives the counter its TTL, or fails. *)
LEMMA SetExpiryKeeps ==
  ASSUME TypeOK, TypeOK', Sequenced, NEW s \in Sockets, SetExpiry(s)
  PROVE  Sequenced' /\ Balanced /\ KeepsLives /\ KeepsSeats
<1>1. /\ UNCHANGED faults /\ sock[s].pc = "expiry" /\ MovesOnly(s)
      /\ sock'[s].pc \in {"backfill", "done"}
      /\ sock'[s].pc = "done" => "redis" \in faults
      /\ sock'[s].pc = "backfill" => count' = Aged(Key(s))
      /\ count' \in {count, Aged(Key(s))}
  BY GotoMoves, AbandonMoves DEF SetExpiry, Moves, MovesOnly, Label, CountedLabel
<1>2. Key(s) \in Keys
  BY <1>1 DEF Sequenced, Keys
<1>3. ASSUME NEW k \in Keys
      PROVE  /\ count'[k].n >= count[k].n /\ count'[k].n = count[k].n
             /\ count'[k].life = "absent" => count[k].life = "absent"
             /\ "redis" \notin faults /\ count'[k].life = "lasting" =>
                  count[k].life = "lasting" /\ k # Key(s)
  <2>1. CASE count' = Aged(Key(s)) /\ k = Key(s)
    BY <1>2, <2>1, AgedAt, Numbers
  <2>2. CASE count' # Aged(Key(s)) \/ k # Key(s)
    <3>1. count'[k] = count[k]
      BY <1>1, <1>2, <2>2, AgedAt
    <3> QED BY <1>1, <2>2, <3>1, Numbers
  <2> QED BY <2>1, <2>2
<1>4. Passes(s)
  BY <1>1, <1>3 DEF Passes, CountedLabel
<1> QED BY <1>1, <1>4, PassesKeeps, PassesSeats, MoveSequenced

(* A counted session that goes on, is given up after a fault, or whose      *)
(* socket closes before it is ready, changes no counter.                    *)
LEMMA OnwardKeeps ==
  ASSUME TypeOK, TypeOK', Sequenced, NEW s \in Sockets, MovesOnly(s),
         UNCHANGED <<faults, count>>,
         \/ sock[s].pc # "new" /\ sock'[s].pc = sock[s].pc
         \/ /\ sock[s].pc \in CountedLabel
            /\ \/ sock'[s].pc \in CountedLabel
               \/ faults # {} /\ sock'[s].pc = "done"
            /\ sock[s].pc # "expiry"
  PROVE  Sequenced' /\ Balanced /\ KeepsLives /\ KeepsSeats
<1>1. Passes(s)
  <2>1. \A k \in Keys : count[k].n >= count[k].n
    BY Numbers
  <2> QED BY <2>1 DEF Passes, CountedLabel
<1>2. Sequenced'
  BY MoveSequenced DEF CountedLabel
<1> QED BY <1>1, <1>2, PassesKeeps, PassesSeats DEF CountedLabel

(* DECR takes the session from its counter, together. *)
LEMMA DecrementKeeps ==
  ASSUME TypeOK, TypeOK', Sequenced, Covering, NEW s \in Sockets,
         sock[s].pc = "release", count' = Added(Key(s), -1), UNCHANGED faults,
         Goto(s, "done")
  PROVE  Sequenced' /\ Balanced /\ KeepsLives /\ KeepsSeats
<1> DEFINE less == Added(Key(s), -1)
<1>1. Key(s) \in Keys /\ -1 \in Int
  BY DEF Sequenced, Keys
<1>2. /\ less[Key(s)].n = count[Key(s)].n + (-1)
      /\ less[Key(s)].life # "absent"
      /\ count[Key(s)].life # "absent" => less[Key(s)].life = count[Key(s)].life
      /\ \A j \in Keys \ {Key(s)} : less[j] = count[j]
  BY <1>1, AddedAt, Zenon
<1>3. MovesOnly(s) /\ sock'[s].pc = "done"
  BY GotoMoves DEF Moves, MovesOnly, Label
<1>4. \A t \in Sockets : Key(t)' = Key(t)
  BY <1>3, SetsMove
<1>5. ASSUME NEW k \in Keys
      PROVE  /\ Uncovered(k)' = Uncovered(k)
             /\ Counted(k)' \subseteq Counted(k)
             /\ count'[k].life = "absent" => count[k].life = "absent"
             /\ Without({"redis", "expire", "crash"}) =>
                  count'[k].life = count[k].life
  <2>1. CASE k # Key(s)
    <3>1. Counted(k)' = Counted(k)
      BY <1>3, <2>1, SetsMove DEF Counted
    <3>2. count'[k] = count[k]
      BY <1>2, <2>1
    <3> QED BY <3>1, <3>2, Numbers DEF Uncovered
  <2>2. CASE k = Key(s)
    <3>1. Counted(k)' = Counted(k) \ {s}
      BY <1>3, SetsMove DEF CountedLabel
    <3>2. s \in Counted(k) /\ Counted(k) \in SUBSET Sockets
      BY <2>2 DEF Counted, CountedLabel
    <3>3. Cardinality(Counted(k)') = Cardinality(Counted(k)) - 1
      BY <3>1, <3>2, Counting
    <3>4. count'[k].n = count[k].n + (-1) /\ count'[k].life # "absent"
      BY <1>2, <2>2
    <3>5. Uncovered(k)' = Uncovered(k)
      BY <3>3, <3>4, Numbers, NumbersNext DEF Uncovered
    <3>6. ASSUME Without({"redis", "expire", "crash"})
          PROVE  count'[k].life = count[k].life
      <4>1. Without({"expire"})
        BY <3>6 DEF Without
      <4>2. count[k].life # "absent"
        BY <3>2, <4>1 DEF Covering, Covered, Keys
      <4> QED BY <1>2, <2>2, <4>2
    <3> QED BY <3>1, <3>4, <3>5, <3>6
  <2> QED BY <2>1, <2>2
<1>6. \A k : Expecting(k)' = Expecting(k)
  BY <1>3, <1>4 DEF Expecting, MovesOnly
<1>7. KeepsLives
  BY <1>5, <1>6 DEF KeepsLives
<1>8. Balanced
  BY <1>5, Numbers DEF Balanced, Uncovered
<1>9. KeepsSeats
  <2> SUFFICES ASSUME NEW k \in Keys
               PROVE  Cardinality(Counted(k))' + Cardinality(Registering(k))'
                        <= Cardinality(Counted(k)) + Cardinality(Registering(k))
    BY DEF KeepsSeats
  <2>1. Registering(k)' = Registering(k)
    BY <1>3, <1>4 DEF Registering, MovesOnly
  <2>2. Counted(k)' \subseteq Counted(k) /\ Counted(k) \in SUBSET Sockets
    BY <1>5 DEF Counted
  <2>3. Cardinality(Counted(k)') <= Cardinality(Counted(k))
    BY <2>2, Counting
  <2> QED BY <2>1, <2>3, Numbers, NumbersNext
<1>10. Sequenced'
  BY <1>3, MoveSequenced
<1> QED BY <1>7, <1>8, <1>9, <1>10

(* The death of the process takes every session from its counter's care,    *)
(* also one whose DECR went through.                                        *)
LEMMA DieKeeps ==
  ASSUME TypeOK, TypeOK', Sequenced, Covering, Die, UNCHANGED faults,
         "redis" \in faults \/ "crash" \in faults,
         \/ UNCHANGED count
         \/ \E s \in Sockets : sock[s].pc = "release" /\ count' = Added(Key(s), -1)
  PROVE  Sequenced' /\ Balanced /\ KeepsLives /\ KeepsSeats
<1>1. ASSUME NEW t \in Sockets
      PROVE  /\ Key(t)' = Key(t)
             /\ sock'[t].pc \in {"new", "done", "refused"}
             /\ sock'[t].pc = "new" => sock'[t] = sock[t]
             /\ sock'[t].pc # "new" => sock[t].pc # "new"
  <2>1. CASE sock[t].pc \in {"new", "done", "refused"}
    <3>1. sock'[t] = sock[t]
      BY <2>1 DEF Die
    <3> QED BY <2>1, <3>1 DEF Key
  <2>2. CASE sock[t].pc \notin {"new", "done", "refused"}
    <3>1. sock'[t] = [sock[t] EXCEPT !.pc = "done", !.state = "closed"]
      BY <2>2 DEF Die
    <3>2. sock'[t].pc = "done" /\ sock'[t].order = sock[t].order
          /\ sock'[t].ip = sock[t].ip
      BY <3>1 DEF TypeOK, Socket
    <3> QED BY <2>2, <3>2 DEF Key
  <2> QED BY <2>1, <2>2
<1>2. \A k : Counted(k)' = {} /\ Registering(k)' = {}
  BY <1>1 DEF Counted, Registering, CountedLabel
<1>3. ASSUME NEW k \in Keys
      PROVE  /\ 0 - count'[k].n <= Cardinality(Counted(k)) - count[k].n
             /\ count'[k].life = "absent" => count[k].life = "absent"
  <2>1. CASE count'[k] = count[k]
    BY <2>1, Numbers
  <2>2. ASSUME NEW s \in Sockets, sock[s].pc = "release", count' = Added(Key(s), -1),
               k = Key(s)
        PROVE  /\ 0 - count'[k].n <= Cardinality(Counted(k)) - count[k].n
               /\ count'[k].life # "absent"
    <3>1. -1 \in Int
      OBVIOUS
    <3>2. count'[k].n = count[k].n + (-1) /\ count'[k].life # "absent"
      BY <2>2, <3>1, AddedAt, Zenon
    <3>3. s \in Counted(k) /\ Counted(k) \in SUBSET Sockets
      BY <2>2 DEF Counted, CountedLabel
    <3>4. Cardinality(Counted(k)) >= 1
      BY <3>3, Counting
    <3> QED BY <3>2, <3>4, Numbers, NumbersNext
  <2>3. ASSUME NEW s \in Sockets, sock[s].pc = "release", count' = Added(Key(s), -1),
               k # Key(s)
        PROVE  count'[k] = count[k]
    <3>1. -1 \in Int /\ Key(s) \in Keys
      BY <2>3 DEF Sequenced, Keys
    <3> QED BY <2>3, <3>1, AddedAt, Zenon
  <2> QED BY <2>1, <2>2, <2>3
<1>4. Cardinality({}) = 0
  BY FS_EmptySet
<1>5. faults # {} /\ ~Without({"redis", "expire", "crash"})
  BY DEF Without
<1>6. Balanced
  BY <1>2, <1>3, <1>4, <1>5 DEF Balanced, Uncovered
<1>7. KeepsLives
  BY <1>2, <1>3, <1>5 DEF KeepsLives
<1>8. KeepsSeats
  <2>1. ASSUME NEW k \in Keys
        PROVE  Cardinality(Counted(k))' = 0 /\ Cardinality(Registering(k))' = 0
    BY <1>2, <1>4
  <2> QED BY <2>1, Numbers DEF KeepsSeats
<1>9. Sequenced'
  <2>1. \A t \in Sockets : sock'[t].pc # "new" => Key(t)' \in Orders \X Ips
    BY <1>1 DEF Sequenced
  <2>2. \A t \in Sockets : sock'[t].pc = "new" => sock'[t].state = "closed"
    BY <1>1 DEF Sequenced
  <2>3. Cardinality(Opening') <= MaxOpening
    <3>1. Opening' = {}
      BY <1>1 DEF Opening
    <3> QED BY <1>4, <3>1, SessionsAssumption DEF SessionsAssumption
  <2> QED BY <2>1, <2>2, <2>3 DEF Sequenced
<1> QED BY <1>6, <1>7, <1>8, <1>9

(* Without a failure the backfill leaves the session subscribing, with the  *)
(* socket closing if it had no order to tell of, and never newly closed.    *)
LEMMA BackfillMoves ==
  ASSUME TypeOK, TypeOK', NEW s \in Sockets, Backfill(s),
         ~("db" \in faults /\ Abandon(s, "done") /\ UNCHANGED <<subs, commands>>)
  PROVE  /\ MovesOnly(s) /\ sock'[s].pc = "subscribe"
         /\ sock[s].state # "closed" => sock'[s].state # "closed"
         /\ Subscribing(s)
<1>1. Subscribing(s)
  BY DEF Backfill
<1>2. PICK f : /\ sock' = [f EXCEPT ![s].pc = "subscribe"]
               /\ \/ f = sock
                  \/ f = [sock EXCEPT ![s].told = row[sock[s].order]]
                  \/ sock[s].state = "open" /\ f = [sock EXCEPT ![s].state = "closing"]
  BY DEF Backfill, Tell
<1>3. /\ DOMAIN f = Sockets /\ f[s].order = sock[s].order /\ f[s].ip = sock[s].ip
      /\ sock[s].state # "closed" => f[s].state # "closed"
      /\ \A t \in Sockets \ {s} : f[t] = sock[t]
  BY <1>2 DEF TypeOK, Socket
<1>4. DOMAIN f[s] = {"pc", "order", "ip", "state", "told"}
  BY <1>2 DEF TypeOK, Socket
<1>5. /\ sock'[s].pc = "subscribe" /\ sock'[s].order = f[s].order
      /\ sock'[s].ip = f[s].ip /\ sock'[s].state = f[s].state
      /\ \A t \in Sockets \ {s} : sock'[t] = f[t]
  BY <1>2, <1>3, <1>4
<1> QED BY <1>1, <1>3, <1>5 DEF MovesOnly, TypeOK

(* Every step but the end of a counter's hour is balanced, and all keep     *)
(* what is said of the counters.                                            *)
LEMMA CounterStep ==
  ASSUME TypeOK, TypeOK', Sequenced, Awaited, Covering, SeatsBounded, Next
  PROVE  /\ Sequenced' /\ Covering' /\ SeatsBounded'
         /\ \A k \in Keys : Uncovered(k)' > Uncovered(k) =>
              count[k].life = "aging" /\ count'[k].life = "absent"
<1> DEFINE Kept == Sequenced' /\ Covering' /\ SeatsBounded' /\ Balanced
<1>1. ASSUME Sequenced', Balanced, KeepsLives, KeepsSeats, UNCHANGED faults
      PROVE  Kept
  BY <1>1, BalancedCovers, KeptSeatsFit
<1>2. ASSUME NEW s \in Sockets, NEW o \in Orders, NEW ip \in Ips, Connect(s, o, ip)
      PROVE  Kept
  BY <1>1, <1>2, ConnectKeeps DEF Connect
<1>3. ASSUME NEW s \in Sockets, CheckLimit(s)
      PROVE  Kept
  BY <1>3, CheckKeeps, BalancedCovers DEF CheckLimit
<1>4. ASSUME NEW s \in Sockets, Increment(s)
      PROVE  Kept
  BY <1>1, <1>4, IncrementKeeps DEF Increment
<1>5. ASSUME NEW s \in Sockets, SetExpiry(s)
      PROVE  Kept
  BY <1>1, <1>5, SetExpiryKeeps DEF SetExpiry
<1>6. ASSUME NEW s \in Sockets, Backfill(s)
      PROVE  Kept
  <2>1. UNCHANGED <<faults, count>> /\ sock[s].pc = "backfill"
    BY <1>6 DEF Backfill
  <2>2. CASE "db" \in faults /\ Abandon(s, "done")
    <3>1. MovesOnly(s) /\ sock'[s].pc = "done"
      BY <2>2, AbandonMoves DEF Moves, MovesOnly, Label
    <3> QED BY <1>1, <2>1, <2>2, <3>1, OnwardKeeps DEF CountedLabel
  <2>3. CASE ~("db" \in faults /\ Abandon(s, "done"))
    <3>1. MovesOnly(s) /\ sock'[s].pc = "subscribe"
      BY <1>6, <2>3, BackfillMoves
    <3> QED BY <1>1, <2>1, <3>1, OnwardKeeps DEF CountedLabel
  <2> QED BY <2>2, <2>3
<1>7. ASSUME NEW s \in Sockets, Subscribed(s)
      PROVE  Kept
  <2>1. UNCHANGED <<faults, count>> /\ sock[s].pc = "subscribe"
    BY <1>7, Reached DEF Subscribed
  <2>2. /\ MovesOnly(s)
        /\ sock'[s].pc = "ready" \/ (sock'[s].pc = "done" /\ faults # {})
    BY <1>7, GotoMoves, AbandonMoves DEF Subscribed, Moves, MovesOnly, Label, CountedLabel
  <2> QED BY <1>1, <2>1, <2>2, OnwardKeeps DEF CountedLabel
<1>8. ASSUME NEW s \in Sockets, Close(s)
      PROVE  Kept
  <2>1. UNCHANGED <<faults, count>> /\ sock[s].pc # "new"
    BY <1>8 DEF Close, Sequenced
  <2>2. CASE sock[s].pc = "ready" /\ Detach(s)
    <3>1. MovesOnly(s) /\ sock'[s].pc \in {"unsubscribe", "release"}
      BY <2>2 DEF Detach, MovesOnly, TypeOK, Socket, Label, CountedLabel
    <3> QED BY <1>1, <2>1, <2>2, <3>1, OnwardKeeps DEF CountedLabel
  <2>3. CASE sock[s].pc # "ready"
    <3>1. sock' = [sock EXCEPT ![s].state = "closed"]
      BY <1>8, <2>3 DEF Close
    <3>2. MovesOnly(s) /\ sock'[s].pc = sock[s].pc
      BY <3>1 DEF MovesOnly, TypeOK, Socket
    <3> QED BY <1>1, <2>1, <3>2, OnwardKeeps
  <2> QED BY <1>8, <2>2, <2>3 DEF Close
<1>9. ASSUME NEW s \in Sockets, Unsubscribed(s)
      PROVE  Kept
  <2>1. UNCHANGED <<faults, count>> /\ sock[s].pc = "unsubscribe"
    BY <1>9, Reached DEF Unsubscribed
  <2>2. CASE "redis" \in faults /\ Die
    BY <1>1, <2>1, <2>2, DieKeeps
  <2>3. CASE ~("redis" \in faults /\ Die)
    <3>1. MovesOnly(s) /\ sock'[s].pc = "release"
      BY <1>9, <2>3, GotoMoves DEF Unsubscribed, Moves, MovesOnly, Label, CountedLabel
    <3> QED BY <1>1, <2>1, <3>1, OnwardKeeps DEF CountedLabel
  <2> QED BY <2>2, <2>3
<1>10. ASSUME NEW s \in Sockets, Release(s)
       PROVE  Kept
  <2>1. UNCHANGED faults /\ sock[s].pc = "release"
    BY <1>10 DEF Release
  <2>2. CASE "redis" \in faults /\ count' \in {count, Added(Key(s), -1)} /\ Die
    BY <1>1, <2>1, <2>2, DieKeeps
  <2>3. CASE count' = Added(Key(s), -1) /\ Goto(s, "done")
    BY <1>1, <2>1, <2>3, DecrementKeeps
  <2> QED BY <1>10, <2>2, <2>3 DEF Release
<1>11. ASSUME UNCHANGED <<faults, count>>,
              \A t \in Sockets : /\ sock'[t].pc = sock[t].pc /\ Key(t)' = Key(t)
                                 /\ sock'[t].state = sock[t].state
       PROVE  Kept
  <2>1. Opening' = Opening
    BY <1>11 DEF Opening
  <2>2. Sequenced'
    BY <1>11, <2>1 DEF Sequenced
  <2>3. Balanced /\ KeepsLives /\ KeepsSeats
    BY <1>11, StaysKeeps DEF Stays
  <2> QED BY <1>1, <1>11, <2>2, <2>3
<1>12. ASSUME NEW o \in Orders, EndOrder(o)
       PROVE  Kept
  BY <1>11, <1>12 DEF EndOrder, Key
<1>13. ASSUME NEW o \in Orders, PublishEnd(o)
       PROVE  Kept
  <2>1. UNCHANGED <<faults, count>>
    BY <1>13 DEF PublishEnd
  <2>2. ASSUME NEW t \in Sockets
        PROVE  /\ sock'[t].pc = sock[t].pc /\ Key(t)' = Key(t)
               /\ sock'[t].state = sock[t].state
    BY <1>13 DEF PublishEnd, Key, TypeOK, Socket
  <2> QED BY <1>11, <2>1, <2>2
<1>14. ASSUME NEW k \in Keys, Expire(k)
       PROVE  /\ Sequenced' /\ Covering' /\ SeatsBounded'
              /\ \A j \in Keys : Uncovered(j)' > Uncovered(j) =>
                   count[j].life = "aging" /\ count'[j].life = "absent"
  <2>1. /\ UNCHANGED <<faults, sock>> /\ "expire" \in faults
        /\ count[k].life = "aging" /\ count' = [count EXCEPT ![k] = NoCounter]
    BY <1>14 DEF Expire
  <2>2. \A j \in Keys : /\ j # k => count'[j] = count[j]
                        /\ j = k => count'[j].life = "absent"
    BY <2>1 DEF TypeOK, NoCounter, Keys
  <2>3. \A j : Counted(j)' = Counted(j) /\ Opening' = Opening
    BY <2>1 DEF Counted, Opening, Key
  <2>4. Sequenced'
    BY <2>1, <2>3 DEF Sequenced, Key
  <2>5. Covering' /\ SeatsBounded'
    <3>1. "expire" \in faults'
      BY <2>1
    <3> QED BY <3>1 DEF Covering, Covered, CounterExact, CounterAges, SeatsBounded,
                        Without, FaultKinds
  <2>6. ASSUME NEW j \in Keys, Uncovered(j)' > Uncovered(j)
        PROVE  j = k
    BY <2>2, <2>3, <2>6, Numbers DEF Uncovered
  <2> QED BY <2>1, <2>2, <2>4, <2>5, <2>6
<1>15. ASSUME Crash
       PROVE  Kept
  BY <1>1, <1>15, DieKeeps DEF Crash
<1>16. ASSUME Kept
       PROVE  \A k \in Keys : ~(Uncovered(k)' > Uncovered(k))
  <2>1. ASSUME NEW k \in Keys
        PROVE  Uncovered(k) \in Int /\ Uncovered(k)' \in Int
    BY Numbers, NumbersNext DEF Uncovered
  <2> QED BY <1>16, <2>1 DEF Balanced
<1> HIDE DEF Kept
<1>17. Kept => Sequenced' /\ Covering' /\ SeatsBounded'
  BY DEF Kept
<1> QED
  BY <1>2, <1>3, <1>4, <1>5, <1>6, <1>7, <1>8, <1>9, <1>10, <1>12, <1>13, <1>14,
     <1>15, <1>16, <1>17 DEF Next, Serve, Keys

-----------------------------------------------------------------------------
(* The channels *)

Linked ==
  Noted /\ Awaited /\ SubscribeFollows /\ OpenUntilDone /\ ChannelKept /\ NoIdleChannel

Unfinished == {"check", "register", "expiry", "backfill", "subscribe", "ready"}

(* No socket closes under a session that goes on, but by a fault. *)
KeepsOpen ==
  Without({"early", "redis"}) =>
    \A t \in Sockets : sock'[t].pc \in Unfinished /\ sock'[t].state = "closed" =>
      sock[t].pc \in Unfinished /\ sock[t].state = "closed"

(* Such a step keeps sessions on open sockets. *)
LEMMA StaysOpen ==
  ASSUME OpenUntilDone, KeepsOpen, UNCHANGED faults
  PROVE  OpenUntilDone'
<1>1. Without({"early", "redis"})' <=> Without({"early", "redis"})
  BY DEF Without
<1> QED BY <1>1 DEF OpenUntilDone, KeepsOpen, Unfinished

(* A session that has not noted its order yet, or no longer, moves without  *)
(* a trace on the connection.                                               *)
Quiet ==
  /\ UNCHANGED <<faults, subs, attached, commands, channels>>
  /\ \A t \in Sockets :
       \/ sock'[t].pc = sock[t].pc /\ sock'[t].order = sock[t].order
       \/ /\ sock[t].pc \notin {"subscribe", "ready", "unsubscribe", "done"}
          /\ sock'[t].pc \notin {"subscribe", "ready", "unsubscribe"}
  /\ KeepsOpen

(* A quiet step keeps the channels. *)
LEMMA QuietLinks ==
  ASSUME TypeOK, TypeOK', Linked, Quiet
  PROVE  Linked'
<1>1. Noted'
  BY DEF Linked, Noted, Quiet
<1>2. \A i \in 1..Len(commands) :
        /\ commands[i].socket \in Sockets
        /\ sock'[commands[i].socket].pc = sock[commands[i].socket].pc
        /\ sock'[commands[i].socket].order = sock[commands[i].socket].order
  <2> SUFFICES ASSUME NEW i \in 1..Len(commands)
               PROVE  /\ commands[i].socket \in Sockets
                      /\ sock'[commands[i].socket].pc = sock[commands[i].socket].pc
                      /\ sock'[commands[i].socket].order = sock[commands[i].socket].order
    OBVIOUS
  <2>1. commands[i] \in Command
    BY DEF TypeOK
  <2>2. commands[i].socket \in Sockets /\ commands[i].op \in {"subscribe", "unsubscribe"}
    BY <2>1 DEF Command
  <2>3. sock[commands[i].socket].pc \in {"subscribe", "unsubscribe"}
    BY <2>2 DEF Linked, Awaited
  <2> QED BY <2>2, <2>3 DEF Quiet
<1>3. Awaited'
  BY <1>2 DEF Linked, Awaited, Quiet
<1>4. SubscribeFollows'
  <2> SUFFICES ASSUME NEW i \in 1..Len(commands'), commands'[i].op = "unsubscribe",
                      NEW t \in Sockets \ {commands'[i].socket},
                      subs'[t] = sock'[commands'[i].socket].order
               PROVE  \E j \in i+1..Len(commands') :
                        commands'[j] = [op |-> "subscribe", socket |-> t]
    BY DEF SubscribeFollows
  <2>1. commands' = commands /\ subs' = subs
    BY DEF Quiet
  <2>2. subs[t] = sock[commands[i].socket].order
    BY <1>2, <2>1
  <2>3. PICK j \in i+1..Len(commands) : commands[j] = [op |-> "subscribe", socket |-> t]
    BY <2>1, <2>2 DEF Linked, SubscribeFollows
  <2> QED BY <2>1, <2>3
<1>5. OpenUntilDone'
  BY StaysOpen DEF Linked, Quiet
<1>6. ChannelKept'
  BY DEF Linked, ChannelKept, Noted, Quiet
<1>7. NoIdleChannel'
  BY DEF Linked, NoIdleChannel, Subscribers, Quiet
<1> QED BY <1>1, <1>3, <1>4, <1>5, <1>6, <1>7 DEF Linked

(* A socket that waits for no command has none on its way. *)
LEMMA NotAwaited ==
  ASSUME TypeOK, Awaited, NEW s \in Sockets, sock[s].pc \notin {"subscribe", "unsubscribe"}
  PROVE  \A i \in 1..Len(commands) : commands[i].socket # s
<1> SUFFICES ASSUME NEW i \in 1..Len(commands), commands[i].socket = s
             PROVE  FALSE
  OBVIOUS
<1>1. commands[i] \in Command
  BY DEF TypeOK
<1>2. commands[i].op \in {"subscribe", "unsubscribe"}
  BY <1>1 DEF Command
<1> QED BY <1>2 DEF Awaited

(* A session notes its order and queues its SUBSCRIBE at once. *)
LEMMA SubscribingLinks ==
  ASSUME TypeOK, TypeOK', Sequenced, Linked, NEW s \in Sockets, MovesOnly(s),
         sock[s].pc = "backfill", sock'[s].pc = "subscribe", Subscribing(s),
         UNCHANGED <<faults, attached, channels>>, KeepsOpen
  PROVE  Linked'
<1> DEFINE c == [op |-> "subscribe", socket |-> s]
<1>1. c \in Command /\ c.op = "subscribe" /\ c.socket = s
  BY DEF Command
<1> HIDE DEF c
<1>2. /\ commands \in Seq(Command) /\ commands' = Append(commands, c)
      /\ Len(commands') = Len(commands) + 1 /\ Len(commands) \in Nat
      /\ \A i \in 1..Len(commands) : commands'[i] = commands[i]
      /\ commands'[Len(commands) + 1] = c
  BY <1>1, AppendAt DEF TypeOK, Subscribing, Queued, c
<1>3. \A i \in 1..Len(commands) : commands[i].socket # s /\ commands[i] \in Command
  <2>1. \A i \in 1..Len(commands) : commands[i].socket # s
    BY NotAwaited DEF Linked
  <2>2. \A i \in 1..Len(commands) : commands[i] \in Command
    BY DEF TypeOK
  <2> QED BY <2>1, <2>2
<1>4. subs' = [subs EXCEPT ![s] = sock[s].order] /\ sock[s].order \in Orders
      /\ subs[s] = NoOrder
  BY DEF Subscribing, Sequenced, Key, Linked, Noted, TypeOK
<1>5. subs'[s] = sock[s].order /\ \A t \in Sockets \ {s} : subs'[t] = subs[t]
  BY <1>4 DEF TypeOK
<1>6. Noted'
  <2>1. \A t \in Sockets : sock'[t].pc = "ready" <=> sock[t].pc = "ready"
    BY DEF MovesOnly
  <2>2. attached' = {t \in Sockets : sock'[t].pc = "ready"}
    BY <2>1 DEF Linked, Noted
  <2>3. ASSUME NEW t \in Sockets
        PROVE  /\ sock'[t].pc \in {"subscribe", "ready", "unsubscribe"} =>
                    subs'[t] = sock'[t].order
               /\ subs'[t] # NoOrder =>
                    /\ subs'[t] = sock'[t].order
                    /\ sock'[t].pc \in {"subscribe", "ready", "unsubscribe", "done"}
                    /\ sock'[t].pc = "done" => "redis" \in faults'
    <3>1. CASE t = s
      BY <1>5, <3>1 DEF MovesOnly
    <3>2. CASE t # s
      BY <1>5, <3>2 DEF MovesOnly, Linked, Noted
    <3> QED BY <3>1, <3>2
  <2> QED BY <2>2, <2>3 DEF Noted
<1>7. Awaited'
  <2>1. ASSUME NEW i \in 1..Len(commands')
        PROVE  sock'[commands'[i].socket].pc = commands'[i].op
    <3>1. CASE i = Len(commands) + 1
      BY <1>1, <1>2, <3>1
    <3>2. CASE i \in 1..Len(commands)
      <4>1. commands[i].socket \in Sockets \ {s}
        BY <1>3, <3>2 DEF Command
      <4> QED BY <1>2, <3>2, <4>1 DEF MovesOnly, Linked, Awaited
    <3> QED BY <1>2, <3>1, <3>2
  <2>2. ASSUME NEW i \in 1..Len(commands'), NEW j \in 1..Len(commands'),
               commands'[i].socket = commands'[j].socket
        PROVE  i = j
    <3>1. CASE i \in 1..Len(commands) /\ j \in 1..Len(commands)
      BY <1>2, <2>2, <3>1 DEF Linked, Awaited
    <3>2. CASE i = Len(commands) + 1 \/ j = Len(commands) + 1
      BY <1>1, <1>2, <1>3, <2>2, <3>2
    <3> QED BY <1>2, <3>1, <3>2
  <2> QED BY <2>1, <2>2 DEF Awaited
<1>8. SubscribeFollows'
  <2> SUFFICES ASSUME NEW i \in 1..Len(commands'), commands'[i].op = "unsubscribe",
                      NEW t \in Sockets \ {commands'[i].socket},
                      subs'[t] = sock'[commands'[i].socket].order
               PROVE  \E j \in i+1..Len(commands') :
                        commands'[j] = [op |-> "subscribe", socket |-> t]
    BY DEF SubscribeFollows
  <2>1. i \in 1..Len(commands) /\ commands'[i] = commands[i]
    BY <1>1, <1>2
  <2>2. CASE t = s
    <3>1. Len(commands) + 1 \in i+1..Len(commands') /\ commands'[Len(commands) + 1] = c
      BY <1>2, <2>1
    <3> QED BY <2>2, <3>1 DEF c
  <2>3. CASE t # s
    <3>1. commands[i].socket \in Sockets \ {s}
      BY <1>3, <2>1 DEF Command
    <3>2. subs[t] = sock[commands[i].socket].order
      BY <1>5, <2>1, <2>3, <3>1 DEF MovesOnly
    <3>3. PICK j \in i+1..Len(commands) : commands[j] = [op |-> "subscribe", socket |-> t]
      BY <2>1, <3>2 DEF Linked, SubscribeFollows
    <3>4. j \in 1..Len(commands) /\ j \in i+1..Len(commands')
      BY <1>2, <2>1
    <3> QED BY <1>2, <3>3, <3>4
  <2> QED BY <2>2, <2>3
<1>9. OpenUntilDone'
  BY StaysOpen DEF Linked
<1>10. ChannelKept'
  BY DEF Linked, ChannelKept, MovesOnly, TypeOK
<1>11. NoIdleChannel'
  <2> SUFFICES ASSUME NEW o \in channels
               PROVE  Subscribers(o)' # {}
    BY DEF NoIdleChannel
  <2>1. PICK t \in Sockets : subs[t] = o
    BY DEF Linked, NoIdleChannel, Subscribers
  <2>2. o # NoOrder
    BY SessionsAssumption DEF TypeOK, SessionsAssumption
  <2>3. subs'[t] = o
    BY <1>4, <1>5, <2>1, <2>2
  <2> QED BY <2>3 DEF Subscribers
<1> QED BY <1>6, <1>7, <1>8, <1>9, <1>10, <1>11 DEF Linked

(* A command that is done leaves the others as they were. *)
LEMMA Advances ==
  ASSUME TypeOK, TypeOK', Sequenced, Linked, NEW s \in Sockets, MovesOnly(s),
         NEW op \in {"subscribe", "unsubscribe"}, Reaches(s, op),
         commands' = Tail(commands),
         subs' = subs \/ subs' = [subs EXCEPT ![s] = NoOrder]
  PROVE  Awaited' /\ SubscribeFollows'
<1>1. /\ commands \in Seq(Command) /\ commands # <<>> /\ 1 \in 1..Len(commands)
      /\ commands[1] = [op |-> op, socket |-> s]
  <2>1. commands \in Seq(Command)
    BY DEF TypeOK
  <2>2. Awaited
    BY DEF Linked
  <2>3. /\ commands # <<>> /\ 1 \in 1..Len(commands)
        /\ commands[1] = [op |-> op, socket |-> s]
    BY <2>2, Reached
  <2> QED BY <2>1, <2>3
<1>2. /\ Len(commands) \in Nat \ {0} /\ Len(commands') = Len(commands) - 1
      /\ \A i \in 1..Len(commands) - 1 : commands'[i] = commands[i + 1]
  BY <1>1, TailAt
<1>3. \A i \in 1..Len(commands') : /\ i + 1 \in 1..Len(commands)
                                   /\ commands'[i] = commands[i + 1]
  BY <1>2
<1>4. ASSUME NEW i \in 1..Len(commands')
      PROVE  commands'[i].socket \in Sockets \ {s}
  <2>1. i + 1 \in 1..Len(commands) /\ i + 1 # 1 /\ commands'[i] = commands[i + 1]
    BY <1>2, <1>3
  <2>2. commands[i + 1] \in Command
    BY <1>1, <2>1
  <2>3. commands[1].socket = s
    BY <1>1
  <2>4. commands[i + 1].socket # s
    BY <1>1, <2>1, <2>3 DEF Linked, Awaited
  <2> QED BY <2>1, <2>2, <2>4 DEF Command
<1>5. Awaited'
  <2>1. ASSUME NEW i \in 1..Len(commands')
        PROVE  sock'[commands'[i].socket].pc = commands'[i].op
    BY <1>3, <1>4 DEF MovesOnly, Linked, Awaited
  <2>2. ASSUME NEW i \in 1..Len(commands'), NEW j \in 1..Len(commands'),
               commands'[i].socket = commands'[j].socket
        PROVE  i = j
    <3>1. i + 1 = j + 1
      BY <1>3, <2>2 DEF Linked, Awaited
    <3> QED BY <1>2, <3>1
  <2> QED BY <2>1, <2>2 DEF Awaited
<1>6. SubscribeFollows'
  <2> SUFFICES ASSUME NEW i \in 1..Len(commands'), commands'[i].op = "unsubscribe",
                      NEW t \in Sockets \ {commands'[i].socket},
                      subs'[t] = sock'[commands'[i].socket].order
               PROVE  \E j \in i+1..Len(commands') :
                        commands'[j] = [op |-> "subscribe", socket |-> t]
    BY DEF SubscribeFollows
  <2>1. i + 1 \in 1..Len(commands) /\ commands'[i] = commands[i + 1]
    BY <1>3
  <2>2. commands[i + 1].socket \in Sockets \ {s}
    BY <1>4, <2>1
  <2>3. sock'[commands[i + 1].socket] = sock[commands[i + 1].socket]
    BY <2>2 DEF MovesOnly
  <2>4. sock[commands[i + 1].socket].order # NoOrder
    <3>1. sock[commands[i + 1].socket].pc = "unsubscribe"
      BY <2>1 DEF Linked, Awaited
    <3> QED BY <2>2, <3>1, SessionsAssumption DEF Sequenced, Key, SessionsAssumption
  <2>5. subs[t] = sock[commands[i + 1].socket].order
    BY <2>1, <2>3, <2>4 DEF TypeOK
  <2>6. PICK j \in (i + 1) + 1..Len(commands) :
          commands[j] = [op |-> "subscribe", socket |-> t]
    BY <2>1, <2>5 DEF Linked, SubscribeFollows
  <2>7. j - 1 \in i+1..Len(commands') /\ commands'[j - 1] = commands[j]
    BY <1>2
  <2> QED BY <2>6, <2>7
<1> QED BY <1>5, <1>6

(* SUBSCRIBE is answered: the session listens, and its channel is there. *)
LEMMA SubscribedLinks ==
  ASSUME TypeOK, TypeOK', Sequenced, Linked, NEW s \in Sockets, Subscribed(s)
  PROVE  Linked'
<1> DEFINE o == sock[s].order
<1>1. sock[s].pc = "subscribe" /\ subs[s] = o /\ s \notin attached
  BY Reached DEF Subscribed, Linked, Noted
<1>2. /\ Reaches(s, "subscribe") /\ commands' = Tail(commands)
      /\ UNCHANGED <<faults, subs>> /\ channels \subseteq channels'
      /\ channels' \subseteq channels \cup {o} /\ MovesOnly(s)
      /\ \/ /\ sock'[s].pc = "ready" /\ sock'[s].state = sock[s].state
            /\ o \in channels' /\ attached' = attached \cup {s}
         \/ /\ sock'[s].pc = "done" /\ "redis" \in faults /\ attached' = attached
  BY GotoMoves, AbandonMoves DEF Subscribed, Moves, MovesOnly, Label, CountedLabel
<1>3. Awaited' /\ SubscribeFollows'
  BY <1>2, Advances
<1>4. Noted'
  <2>1. \A t \in Sockets : t # s => (sock'[t].pc = "ready" <=> t \in attached)
    BY <1>2 DEF MovesOnly, Linked, Noted
  <2>2. attached' = {t \in Sockets : sock'[t].pc = "ready"}
    BY <1>1, <1>2, <2>1 DEF TypeOK
  <2>3. ASSUME NEW t \in Sockets
        PROVE  /\ sock'[t].pc \in {"subscribe", "ready", "unsubscribe"} =>
                    subs'[t] = sock'[t].order
               /\ subs'[t] # NoOrder =>
                    /\ subs'[t] = sock'[t].order
                    /\ sock'[t].pc \in {"subscribe", "ready", "unsubscribe", "done"}
                    /\ sock'[t].pc = "done" => "redis" \in faults'
    <3>1. CASE t = s
      BY <1>1, <1>2, <3>1 DEF MovesOnly
    <3>2. CASE t # s
      BY <1>2, <3>2 DEF MovesOnly, Linked, Noted
    <3> QED BY <3>1, <3>2
  <2> QED BY <2>2, <2>3 DEF Noted
<1>5. OpenUntilDone'
  <2>1. KeepsOpen
    BY <1>1, <1>2 DEF KeepsOpen, Unfinished, MovesOnly
  <2> QED BY <1>2, <2>1, StaysOpen DEF Linked
<1>6. ChannelKept'
  <2>1. \A t \in attached' : sock'[t].order = sock[t].order
    BY <1>2 DEF MovesOnly, TypeOK
  <2>2. \A t \in attached' : sock[t].order \in channels'
    BY <1>2 DEF Linked, ChannelKept
  <2> QED BY <2>1, <2>2 DEF ChannelKept
<1>7. NoIdleChannel'
  BY <1>1, <1>2 DEF Linked, NoIdleChannel, Subscribers
<1> QED BY <1>3, <1>4, <1>5, <1>6, <1>7 DEF Linked

(* A session that leaves forgets its channel, if others have noted it, *)
LEMMA ForgetLinks ==
  ASSUME TypeOK, TypeOK', Sequenced, Linked, NEW s \in Sockets, MovesOnly(s),
         sock[s].pc = "ready", sock'[s].pc = "release", ~LastOfChannel(s),
         subs' = [subs EXCEPT ![s] = NoOrder], attached' = attached \ {s},
         UNCHANGED <<faults, commands, channels>>
  PROVE  Linked'
<1>1. subs'[s] = NoOrder /\ \A t \in Sockets \ {s} : subs'[t] = subs[t]
  BY DEF TypeOK
<1>2. ASSUME NEW i \in 1..Len(commands)
      PROVE  commands[i].socket \in Sockets \ {s}
  <2>1. commands[i] \in Command
    BY DEF TypeOK
  <2> QED BY <2>1, NotAwaited DEF Linked, Command
<1>3. Noted'
  <2>1. \A t \in Sockets : t # s => (sock'[t].pc = "ready" <=> t \in attached)
    BY DEF MovesOnly, Linked, Noted
  <2>2. attached' = {t \in Sockets : sock'[t].pc = "ready"}
    BY <2>1 DEF TypeOK
  <2>3. ASSUME NEW t \in Sockets
        PROVE  /\ sock'[t].pc \in {"subscribe", "ready", "unsubscribe"} =>
                    subs'[t] = sock'[t].order
               /\ subs'[t] # NoOrder =>
                    /\ subs'[t] = sock'[t].order
                    /\ sock'[t].pc \in {"subscribe", "ready", "unsubscribe", "done"}
                    /\ sock'[t].pc = "done" => "redis" \in faults'
    <3>1. CASE t = s
      BY <1>1, <3>1
    <3>2. CASE t # s
      BY <1>1, <3>2 DEF MovesOnly, Linked, Noted
    <3> QED BY <3>1, <3>2
  <2> QED BY <2>2, <2>3 DEF Noted
<1>4. Awaited'
  <2>1. \A i \in 1..Len(commands) : sock'[commands[i].socket] = sock[commands[i].socket]
    BY <1>2 DEF MovesOnly
  <2> QED BY <2>1 DEF Linked, Awaited
<1>5. SubscribeFollows'
  <2> SUFFICES ASSUME NEW i \in 1..Len(commands'), commands'[i].op = "unsubscribe",
                      NEW t \in Sockets \ {commands'[i].socket},
                      subs'[t] = sock'[commands'[i].socket].order
               PROVE  \E j \in i+1..Len(commands') :
                        commands'[j] = [op |-> "subscribe", socket |-> t]
    BY DEF SubscribeFollows
  <2>1. sock'[commands[i].socket] = sock[commands[i].socket]
    BY <1>2 DEF MovesOnly
  <2>2. sock[commands[i].socket].order # NoOrder
    <3>1. sock[commands[i].socket].pc = "unsubscribe"
      BY DEF Linked, Awaited
    <3> QED BY <1>2, <3>1, SessionsAssumption DEF Sequenced, Key, SessionsAssumption
  <2>3. subs[t] = sock[commands[i].socket].order
    BY <1>1, <2>1, <2>2
  <2>4. PICK j \in i+1..Len(commands) : commands[j] = [op |-> "subscribe", socket |-> t]
    BY <2>3 DEF Linked, SubscribeFollows
  <2> QED BY <2>4
<1>6. OpenUntilDone'
  <2>1. KeepsOpen
    BY DEF KeepsOpen, Unfinished, MovesOnly
  <2> QED BY <2>1, StaysOpen DEF Linked
<1>7. ChannelKept'
  BY DEF Linked, ChannelKept, MovesOnly, TypeOK
<1>8. NoIdleChannel'
  <2> SUFFICES ASSUME NEW o \in channels
               PROVE  Subscribers(o)' # {}
    BY DEF NoIdleChannel
  <2>1. CASE o = subs[s]
    <3>1. s \in Subscribers(o) /\ Subscribers(o) \in SUBSET Sockets
      BY <2>1 DEF Subscribers
    <3>2. Subscribers(o) \ {s} # {}
      BY <2>1, <3>1, AnotherOne DEF LastOfChannel
    <3> QED BY <1>1, <3>2 DEF Subscribers
  <2>2. CASE o # subs[s]
    BY <1>1, <2>2 DEF Linked, NoIdleChannel, Subscribers
  <2> QED BY <2>1, <2>2
<1> QED BY <1>3, <1>4, <1>5, <1>6, <1>7, <1>8 DEF Linked

(* and queues UNSUBSCRIBE if nobody else has, keeping its note until then.  *)
LEMMA UnsubscribingLinks ==
  ASSUME TypeOK, TypeOK', Sequenced, Linked, NEW s \in Sockets, MovesOnly(s),
         sock[s].pc = "ready", sock'[s].pc = "unsubscribe", LastOfChannel(s),
         commands' = Queued(s, "unsubscribe"), attached' = attached \ {s},
         UNCHANGED <<faults, subs, channels>>
  PROVE  Linked'
<1> DEFINE c == [op |-> "unsubscribe", socket |-> s]
<1>1. c \in Command /\ c.op = "unsubscribe" /\ c.socket = s
  BY DEF Command
<1>2. c # [op |-> "subscribe", socket |-> s]
  OBVIOUS
<1> HIDE DEF c
<1>3. /\ commands \in Seq(Command) /\ commands' = Append(commands, c)
      /\ Len(commands') = Len(commands) + 1 /\ Len(commands) \in Nat
      /\ \A i \in 1..Len(commands) : commands'[i] = commands[i]
      /\ commands'[Len(commands) + 1] = c
  BY <1>1, AppendAt DEF TypeOK, Queued, c
<1>4. ASSUME NEW i \in 1..Len(commands)
      PROVE  commands[i].socket \in Sockets \ {s}
  <2>1. commands[i] \in Command
    BY DEF TypeOK
  <2> QED BY <2>1, NotAwaited DEF Linked, Command
<1>5. subs[s] = sock[s].order /\ s \in attached
  BY DEF Linked, Noted
<1>6. Noted'
  <2>1. \A t \in Sockets : t # s => (sock'[t].pc = "ready" <=> t \in attached)
    BY DEF MovesOnly, Linked, Noted
  <2>2. attached' = {t \in Sockets : sock'[t].pc = "ready"}
    BY <2>1 DEF TypeOK
  <2>3. ASSUME NEW t \in Sockets
        PROVE  /\ sock'[t].pc \in {"subscribe", "ready", "unsubscribe"} =>
                    subs'[t] = sock'[t].order
               /\ subs'[t] # NoOrder =>
                    /\ subs'[t] = sock'[t].order
                    /\ sock'[t].pc \in {"subscribe", "ready", "unsubscribe", "done"}
                    /\ sock'[t].pc = "done" => "redis" \in faults'
    <3>1. CASE t = s
      BY <1>5, <3>1 DEF MovesOnly
    <3>2. CASE t # s
      BY <3>2 DEF MovesOnly, Linked, Noted
    <3> QED BY <3>1, <3>2
  <2> QED BY <2>2, <2>3 DEF Noted
<1>7. Awaited'
  <2>1. ASSUME NEW i \in 1..Len(commands')
        PROVE  sock'[commands'[i].socket].pc = commands'[i].op
    <3>1. CASE i = Len(commands) + 1
      BY <1>1, <1>3, <3>1
    <3>2. CASE i \in 1..Len(commands)
      BY <1>3, <1>4, <3>2 DEF MovesOnly, Linked, Awaited
    <3> QED BY <1>3, <3>1, <3>2
  <2>2. ASSUME NEW i \in 1..Len(commands'), NEW j \in 1..Len(commands'),
               commands'[i].socket = commands'[j].socket
        PROVE  i = j
    <3>1. CASE i \in 1..Len(commands) /\ j \in 1..Len(commands)
      BY <1>3, <2>2, <3>1 DEF Linked, Awaited
    <3>2. CASE i = Len(commands) + 1 \/ j = Len(commands) + 1
      BY <1>1, <1>3, <1>4, <2>2, <3>2
    <3> QED BY <1>3, <3>1, <3>2
  <2> QED BY <2>1, <2>2 DEF Awaited
<1>8. SubscribeFollows'
  <2> SUFFICES ASSUME NEW i \in 1..Len(commands'), commands'[i].op = "unsubscribe",
                      NEW t \in Sockets \ {commands'[i].socket},
                      subs'[t] = sock'[commands'[i].socket].order
               PROVE  \E j \in i+1..Len(commands') :
                        commands'[j] = [op |-> "subscribe", socket |-> t]
    BY DEF SubscribeFollows
  <2>1. CASE i = Len(commands) + 1
    <3>1. t # s /\ subs[t] = subs[s]
      BY <1>1, <1>3, <1>5, <2>1 DEF MovesOnly
    <3>2. t \in Subscribers(subs[s]) /\ s \in Subscribers(subs[s])
      BY <3>1 DEF Subscribers
    <3>3. Subscribers(subs[s]) \in SUBSET Sockets
      BY DEF Subscribers
    <3>4. Cardinality(Subscribers(subs[s])) > 1 /\ Cardinality(Subscribers(subs[s])) \in Nat
      BY <3>1, <3>2, <3>3, AtLeastTwo, Counting
    <3> QED BY <3>4 DEF LastOfChannel
  <2>2. CASE i \in 1..Len(commands)
    <3>1. commands'[i] = commands[i] /\ sock'[commands[i].socket] = sock[commands[i].socket]
      BY <1>3, <1>4, <2>2 DEF MovesOnly
    <3>2. subs[t] = sock[commands[i].socket].order
      BY <3>1
    <3>3. PICK j \in i+1..Len(commands) : commands[j] = [op |-> "subscribe", socket |-> t]
      BY <2>2, <3>1, <3>2 DEF Linked, SubscribeFollows
    <3>4. j \in 1..Len(commands) /\ j \in i+1..Len(commands')
      BY <1>3, <2>2
    <3> QED BY <1>3, <3>3, <3>4
  <2> QED BY <1>3, <2>1, <2>2
<1>9. OpenUntilDone'
  <2>1. KeepsOpen
    BY DEF KeepsOpen, Unfinished, MovesOnly
  <2> QED BY <2>1, StaysOpen DEF Linked
<1>10. ChannelKept'
  BY DEF Linked, ChannelKept, MovesOnly, TypeOK
<1>11. NoIdleChannel'
  BY DEF Linked, NoIdleChannel, Subscribers
<1> QED BY <1>6, <1>7, <1>8, <1>9, <1>10, <1>11 DEF Linked

(* UNSUBSCRIBE is answered: those that have noted the channel meanwhile do  *)
(* not listen yet, and will subscribe to it anew.                           *)
LEMMA UnsubscribedLinks ==
  ASSUME TypeOK, TypeOK', Sequenced, Linked, NEW s \in Sockets, MovesOnly(s),
         Reaches(s, "unsubscribe"), commands' = Tail(commands),
         channels' = channels \ {sock[s].order}, sock'[s].pc = "release",
         subs' = [subs EXCEPT ![s] = NoOrder], UNCHANGED <<faults, attached>>
  PROVE  Linked'
<1>1. /\ sock[s].pc = "unsubscribe" /\ subs[s] = sock[s].order /\ s \notin attached
      /\ commands[1] = [op |-> "unsubscribe", socket |-> s] /\ 1 \in 1..Len(commands)
  BY Reached DEF Linked, Noted
<1>2. subs'[s] = NoOrder /\ \A t \in Sockets \ {s} : subs'[t] = subs[t]
  BY DEF TypeOK
<1>3. Awaited' /\ SubscribeFollows'
  BY Advances
<1>4. Noted'
  <2>1. \A t \in Sockets : t # s => (sock'[t].pc = "ready" <=> t \in attached)
    BY DEF MovesOnly, Linked, Noted
  <2>2. attached' = {t \in Sockets : sock'[t].pc = "ready"}
    BY <1>1, <2>1 DEF TypeOK
  <2>3. ASSUME NEW t \in Sockets
        PROVE  /\ sock'[t].pc \in {"subscribe", "ready", "unsubscribe"} =>
                    subs'[t] = sock'[t].order
               /\ subs'[t] # NoOrder =>
                    /\ subs'[t] = sock'[t].order
                    /\ sock'[t].pc \in {"subscribe", "ready", "unsubscribe", "done"}
                    /\ sock'[t].pc = "done" => "redis" \in faults'
    <3>1. CASE t = s
      BY <1>2, <3>1
    <3>2. CASE t # s
      BY <1>2, <3>2 DEF MovesOnly, Linked, Noted
    <3> QED BY <3>1, <3>2
  <2> QED BY <2>2, <2>3 DEF Noted
<1>5. OpenUntilDone'
  <2>1. KeepsOpen
    BY DEF KeepsOpen, Unfinished, MovesOnly
  <2> QED BY <2>1, StaysOpen DEF Linked
<1>6. ASSUME NEW t \in attached
      PROVE  sock[t].order # sock[s].order
  <2> SUFFICES ASSUME sock[t].order = sock[s].order
               PROVE  FALSE
    OBVIOUS
  <2>1. /\ t \in Sockets \ {s} /\ sock[t].pc = "ready"
        /\ subs[t] = sock[commands[1].socket].order
    BY <1>1, <1>6 DEF Linked, Noted
  <2>2. commands[1].op = "unsubscribe" /\ t \in Sockets \ {commands[1].socket}
    BY <1>1, <2>1
  <2>3. PICK j \in 1+1..Len(commands) : commands[j] = [op |-> "subscribe", socket |-> t]
    BY <1>1, <2>1, <2>2 DEF Linked, SubscribeFollows
  <2>4. j \in 1..Len(commands) /\ commands[j].op = "subscribe" /\ commands[j].socket = t
    BY <2>3 DEF TypeOK
  <2> QED BY <2>1, <2>4 DEF Linked, Awaited
<1>7. ChannelKept'
  BY <1>6 DEF Linked, ChannelKept, MovesOnly, TypeOK
<1>8. NoIdleChannel'
  <2> SUFFICES ASSUME NEW o \in channels, o # sock[s].order
               PROVE  Subscribers(o)' # {}
    BY DEF NoIdleChannel
  <2> QED BY <1>1, <1>2 DEF Linked, NoIdleChannel, Subscribers
<1> QED BY <1>3, <1>4, <1>5, <1>7, <1>8 DEF Linked

(* The death of the process leaves no session and no channel. *)
LEMMA DieLinks ==
  ASSUME TypeOK, Sequenced, Die
  PROVE  Linked'
<1>1. /\ \A t \in Sockets : subs'[t] = NoOrder
      /\ attached' = {} /\ commands' = <<>> /\ channels' = {} /\ Len(commands') = 0
  BY DEF Die
<1>2. ASSUME NEW t \in Sockets
      PROVE  sock'[t].pc \in {"new", "done", "refused"}
  <2>1. CASE sock[t].pc \in {"new", "done", "refused"}
    BY <2>1 DEF Die
  <2>2. CASE sock[t].pc \notin {"new", "done", "refused"}
    <3>1. sock'[t] = [sock[t] EXCEPT !.pc = "done", !.state = "closed"]
      BY <2>2 DEF Die
    <3> QED BY <3>1 DEF TypeOK, Socket
  <2> QED BY <2>1, <2>2
<1>3. Noted'
  BY <1>1, <1>2 DEF Noted
<1>4. Awaited' /\ SubscribeFollows'
  BY <1>1 DEF Awaited, SubscribeFollows
<1>5. OpenUntilDone'
  BY <1>2 DEF OpenUntilDone
<1>6. ChannelKept' /\ NoIdleChannel'
  BY <1>1 DEF ChannelKept, NoIdleChannel
<1> QED BY <1>3, <1>4, <1>5, <1>6 DEF Linked

(* Every step keeps the channels. *)
LEMMA LinkStep ==
  ASSUME TypeOK, TypeOK', Sequenced, Linked, Next
  PROVE  Linked'
<1>1. ASSUME NEW s \in Sockets, NEW l \in Label,
             UNCHANGED <<faults, subs, attached, commands, channels>>,
             \/ Moves(s, l, sock[s].state) /\ sock[s].pc \in Unfinished
             \/ Moves(s, l, sock[s].state) /\ l = "done"
             \/ Moves(s, l, "closed") /\ l \in {"done", "refused"},
             sock[s].pc \notin {"subscribe", "ready", "unsubscribe", "done"},
             l \notin {"subscribe", "ready", "unsubscribe"}
      PROVE  Linked'
  <2>1. KeepsOpen
    BY <1>1 DEF KeepsOpen, Unfinished, Moves
  <2>2. \A t \in Sockets :
          \/ sock'[t].pc = sock[t].pc /\ sock'[t].order = sock[t].order
          \/ /\ sock[t].pc \notin {"subscribe", "ready", "unsubscribe", "done"}
             /\ sock'[t].pc \notin {"subscribe", "ready", "unsubscribe"}
    BY <1>1 DEF Moves
  <2> QED BY <1>1, <2>1, <2>2, QuietLinks DEF Quiet
<1>2. ASSUME UNCHANGED <<faults, subs, attached, commands, channels>>,
             \A t \in Sockets : /\ sock'[t].pc = sock[t].pc /\ sock'[t].order = sock[t].order
                                /\ sock'[t].state = sock[t].state
      PROVE  Linked'
  BY <1>2, QuietLinks DEF Quiet, KeepsOpen
<1>3. ASSUME NEW s \in Sockets, NEW o \in Orders, NEW ip \in Ips, Connect(s, o, ip)
      PROVE  Linked'
  <2> DEFINE new == [NoSocket EXCEPT !.pc = "check", !.order = o,
                                     !.ip = ip, !.state = "open"]
  <2>1. new.pc = "check" /\ new.state = "open"
    BY DEF NoSocket
  <2>2. sock' = [sock EXCEPT ![s] = new] /\ sock[s].pc = "new"
    BY <1>3 DEF Connect
  <2> HIDE DEF new
  <2>3. sock'[s] = new /\ \A t \in Sockets \ {s} : sock'[t] = sock[t]
    BY <2>2 DEF TypeOK
  <2>4. KeepsOpen
    BY <2>1, <2>3 DEF KeepsOpen
  <2> QED BY <1>3, <2>1, <2>2, <2>3, <2>4, QuietLinks DEF Quiet, Connect
<1>4. ASSUME NEW s \in Sockets, CheckLimit(s)
      PROVE  Linked'
  <2>1. /\ UNCHANGED <<faults, subs, attached, commands, channels>> /\ sock[s].pc = "check"
        /\ \/ Moves(s, "register", sock[s].state)
           \/ Moves(s, "refused", "closed")
           \/ Moves(s, "done", "closed")
    BY <1>4, GotoMoves, AbandonMoves DEF CheckLimit, Label
  <2> QED BY <1>1, <2>1 DEF Label, Unfinished
<1>5. ASSUME NEW s \in Sockets, Increment(s)
      PROVE  Linked'
  <2>1. /\ UNCHANGED <<faults, subs, attached, commands, channels>> /\ sock[s].pc = "register"
        /\ \/ Moves(s, "expiry", sock[s].state)
           \/ Moves(s, "done", "closed")
    BY <1>5, GotoMoves, AbandonMoves DEF Increment, Label, CountedLabel
  <2> QED BY <1>1, <2>1 DEF Label, CountedLabel, Unfinished
<1>6. ASSUME NEW s \in Sockets, SetExpiry(s)
      PROVE  Linked'
  <2>1. /\ UNCHANGED <<faults, subs, attached, commands, channels>> /\ sock[s].pc = "expiry"
        /\ \/ Moves(s, "backfill", sock[s].state)
           \/ Moves(s, "done", "closed")
    BY <1>6, GotoMoves, AbandonMoves DEF SetExpiry, Label, CountedLabel
  <2> QED BY <1>1, <2>1 DEF Label, CountedLabel, Unfinished
<1>7. ASSUME NEW s \in Sockets, Backfill(s)
      PROVE  Linked'
  <2>1. UNCHANGED <<faults, attached, channels>> /\ sock[s].pc = "backfill"
    BY <1>7 DEF Backfill
  <2>2. CASE "db" \in faults /\ Abandon(s, "done") /\ UNCHANGED <<subs, commands>>
    <3>1. Moves(s, "done", "closed")
      BY <2>2, AbandonMoves DEF Label
    <3> QED BY <1>1, <2>1, <2>2, <3>1 DEF Label
  <2>3. CASE ~("db" \in faults /\ Abandon(s, "done") /\ UNCHANGED <<subs, commands>>)
    <3>1. /\ MovesOnly(s) /\ sock'[s].pc = "subscribe" /\ Subscribing(s)
          /\ sock[s].state # "closed" => sock'[s].state # "closed"
      BY <1>7, <2>3, BackfillMoves
    <3>2. KeepsOpen
      BY <2>1, <3>1 DEF KeepsOpen, Unfinished, MovesOnly
    <3> QED BY <2>1, <3>1, <3>2, SubscribingLinks
  <2> QED BY <2>2, <2>3
<1>8. ASSUME NEW s \in Sockets, Subscribed(s)
      PROVE  Linked'
  BY <1>8, SubscribedLinks
<1>9. ASSUME NEW s \in Sockets, Close(s)
      PROVE  Linked'
  <2>1. UNCHANGED <<faults, channels>>
    BY <1>9 DEF Close
  <2>2. CASE sock[s].pc = "ready" /\ Detach(s)
    <3>1. /\ MovesOnly(s) /\ attached' = attached \ {s}
          /\ \/ /\ LastOfChannel(s) /\ commands' = Queued(s, "unsubscribe")
                /\ sock'[s].pc = "unsubscribe" /\ UNCHANGED subs
             \/ /\ ~LastOfChannel(s) /\ subs' = [subs EXCEPT ![s] = NoOrder]
                /\ sock'[s].pc = "release" /\ UNCHANGED commands
      BY <2>2 DEF Detach, MovesOnly, TypeOK, Socket, Label, CountedLabel
    <3> QED BY <2>1, <2>2, <3>1, ForgetLinks, UnsubscribingLinks
  <2>3. CASE sock[s].pc # "ready"
    <3>1. /\ sock' = [sock EXCEPT ![s].state = "closed"] /\ "early" \in faults
          /\ UNCHANGED <<subs, attached, commands>>
      BY <1>9, <2>3 DEF Close
    <3>2. /\ sock'[s].pc = sock[s].pc /\ sock'[s].order = sock[s].order
          /\ \A t \in Sockets \ {s} : sock'[t] = sock[t]
      BY <3>1 DEF TypeOK, Socket
    <3>3. KeepsOpen
      BY <3>1 DEF KeepsOpen, Without
    <3>4. Quiet
      BY <2>1, <3>1, <3>2, <3>3 DEF Quiet
    <3> QED BY <3>4, QuietLinks
  <2> QED BY <1>9, <2>2, <2>3 DEF Close
<1>10. ASSUME NEW s \in Sockets, Unsubscribed(s)
       PROVE  Linked'
  <2>1. CASE Die
    BY <2>1, DieLinks
  <2>2. CASE ~Die
    <3>1. /\ MovesOnly(s) /\ Reaches(s, "unsubscribe") /\ commands' = Tail(commands)
          /\ channels' = channels \ {sock[s].order} /\ sock'[s].pc = "release"
          /\ subs' = [subs EXCEPT ![s] = NoOrder] /\ UNCHANGED <<faults, attached>>
      BY <1>10, <2>2, GotoMoves DEF Unsubscribed, Moves, MovesOnly, Label, CountedLabel
    <3> QED BY <3>1, UnsubscribedLinks
  <2> QED BY <2>1, <2>2
<1>11. ASSUME NEW s \in Sockets, Release(s)
       PROVE  Linked'
  <2>1. CASE Die
    BY <2>1, DieLinks
  <2>2. CASE ~Die
    <3>1. /\ UNCHANGED <<faults, subs, attached, commands, channels>>
          /\ sock[s].pc = "release" /\ Moves(s, "done", sock[s].state)
      BY <1>11, <2>2, GotoMoves DEF Release, Label
    <3> QED BY <1>1, <3>1 DEF Label
  <2> QED BY <2>1, <2>2
<1>12. ASSUME NEW o \in Orders, EndOrder(o)
       PROVE  Linked'
  BY <1>2, <1>12 DEF EndOrder
<1>13. ASSUME NEW o \in Orders, PublishEnd(o)
       PROVE  Linked'
  <2>1. ASSUME NEW t \in Sockets
        PROVE  /\ sock'[t].pc = sock[t].pc /\ sock'[t].order = sock[t].order
               /\ sock'[t].state = sock[t].state
    BY <1>13 DEF PublishEnd, TypeOK, Socket
  <2> QED BY <1>2, <1>13, <2>1 DEF PublishEnd
<1>14. ASSUME NEW k \in Keys, Expire(k)
       PROVE  Linked'
  BY <1>2, <1>14 DEF Expire
<1>15. ASSUME Crash
       PROVE  Linked'
  BY <1>15, DieLinks DEF Crash
<1> QED
  BY <1>3, <1>4, <1>5, <1>6, <1>7, <1>8, <1>9, <1>10, <1>11, <1>12, <1>13, <1>14, <1>15
  DEF Next, Serve, Keys

-----------------------------------------------------------------------------
(* The theorems *)

(* A socket passes from its check to its INCR by the check alone. *)
LEMMA OnlyCheckPasses ==
  ASSUME TypeOK, Awaited, Next,
         NEW s \in Sockets, sock[s].pc = "check", sock'[s].pc = "register"
  PROVE  count[Key(s)].n < Limit
<1> SUFFICES ASSUME ~CheckLimit(s)
             PROVE  FALSE
  <2>1. ASSUME CheckLimit(s)
        PROVE  count[Key(s)].n < Limit
    <3>1. ~Abandon(s, "refused") /\ ~Abandon(s, "done")
      BY AbandonMoves DEF Moves, Label, CountedLabel
    <3> QED BY <2>1, <3>1 DEF CheckLimit
  <2> QED BY <2>1
<1>1. ASSUME NEW l, NEW t \in Sockets, Goto(t, l) \/ Abandon(t, l), t # s
      PROVE  FALSE
  BY <1>1 DEF Goto, Abandon, TypeOK, Socket
<1>2. ASSUME Die
      PROVE  FALSE
  BY <1>2 DEF Die, TypeOK, Socket
<1>3. ASSUME NEW t \in Sockets, NEW o \in Orders, NEW ip \in Ips, Connect(t, o, ip)
      PROVE  FALSE
  <2>1. t # s
    BY <1>3 DEF Connect
  <2> QED BY <1>3, <2>1 DEF Connect, TypeOK
<1>4. ASSUME NEW t \in Sockets, Serve(t)
      PROVE  FALSE
  <2>1. CASE CheckLimit(t)
    BY <1>1, <2>1 DEF CheckLimit
  <2>2. CASE Increment(t) \/ SetExpiry(t) \/ Release(t)
    BY <1>1, <1>2, <2>2 DEF Increment, SetExpiry, Release
  <2>3. CASE Backfill(t)
    <3>1. t # s
      BY <2>3 DEF Backfill
    <3> QED BY <2>3, <3>1 DEF Backfill, Abandon, Tell, TypeOK, Socket
  <2>4. CASE Subscribed(t) \/ Unsubscribed(t)
    <3>1. t # s
      BY <2>4, Reached DEF Subscribed, Unsubscribed
    <3> QED BY <1>1, <1>2, <2>4, <3>1 DEF Subscribed, Unsubscribed
  <2> QED BY <1>4, <2>1, <2>2, <2>3, <2>4 DEF Serve
<1>5. ASSUME NEW t \in Sockets, Close(t)
      PROVE  FALSE
  BY <1>5 DEF Close, Detach, TypeOK, Socket
<1>6. ASSUME NEW o \in Orders, PublishEnd(o)
      PROVE  FALSE
  BY <1>6 DEF PublishEnd, TypeOK, Socket
<1>7. ASSUME UNCHANGED sock
      PROVE  FALSE
  BY <1>7
<1> QED BY <1>2, <1>3, <1>4, <1>5, <1>6, <1>7 DEF Next, EndOrder, Expire, Crash

(* The parts of the invariant, gathered as the steps keep them. *)
LEMMA PartsOfIInv ==
  IInv <=> TypeOK /\ Sequenced /\ Covering /\ SeatsBounded /\ Linked
BY DEF IInv, Covering, Linked

(* The same after a step. *)
LEMMA PartsOfIInvNext ==
  TypeOK' /\ Sequenced' /\ Covering' /\ SeatsBounded' /\ Linked' => IInv'
BY DEF IInv, Covering, Linked

(* Nothing is open, noted, queued or counted in the beginning. *)
LEMMA InitSafe == Init => IInv
<1> SUFFICES ASSUME Init
             PROVE  IInv
  OBVIOUS
<1>1. TypeOK
  <2>1. NoSocket \in Socket /\ NoCounter \in Counter
    BY DEF NoSocket, Socket, Label, NoCounter, Counter
  <2>2. commands \in Seq(Command)
    BY DEF Init
  <2>3. row \in [Orders -> {"absent", "running", "ended"}]
    BY DEF Init
  <2>4. faults \in SUBSET FaultKinds
    BY SessionsAssumption DEF Init, SessionsAssumption
  <2> QED BY <2>1, <2>2, <2>3, <2>4 DEF Init, TypeOK
<1>2. /\ \A s \in Sockets : sock[s].pc = "new" /\ sock[s].state = "closed" /\ subs[s] = NoOrder
      /\ attached = {} /\ channels = {} /\ Len(commands) = 0
      /\ \A k \in Keys : count[k].n = 0 /\ count[k].life = "absent"
  BY DEF Init, NoSocket, NoCounter, Keys
<1>3. /\ \A k : Counted(k) = {} /\ Registering(k) = {}
      /\ Opening = {} /\ Cardinality({}) = 0
  BY <1>2, FS_EmptySet DEF Counted, Registering, Opening, CountedLabel
<1>4. Sequenced
  BY <1>2, <1>3, SessionsAssumption DEF Sequenced, SessionsAssumption
<1>5. Covered
  BY <1>2, <1>3 DEF Covered, Keys
<1>6. CounterExact
  BY <1>2, <1>3 DEF CounterExact, Keys
<1>7. CounterAges
  BY <1>2 DEF CounterAges, Keys
<1>8. SeatsBounded
  BY <1>3, SeatsOf, SessionsAssumption DEF SeatsBounded, SessionsAssumption
<1>9. Linked
  BY <1>2 DEF Linked, Noted, Awaited, SubscribeFollows, OpenUntilDone, ChannelKept,
              NoIdleChannel
<1> QED BY <1>1, <1>4, <1>5, <1>6, <1>7, <1>8, <1>9, PartsOfIInv DEF Covering

(* Every step keeps the invariant. *)
LEMMA NextSafe == IInv /\ [Next]_vars => IInv'
<1> SUFFICES ASSUME IInv, [Next]_vars
             PROVE  IInv'
  OBVIOUS
<1>1. CASE Next
  <2>1. TypeOK /\ Sequenced /\ Covering /\ SeatsBounded /\ Linked
    BY PartsOfIInv
  <2>2. TypeOK'
    BY <1>1, <2>1, TypeStep DEF Linked
  <2>3. Sequenced' /\ Covering' /\ SeatsBounded'
    BY <1>1, <2>1, <2>2, CounterStep DEF Linked
  <2>4. Linked'
    BY <1>1, <2>1, <2>2, LinkStep
  <2> QED BY <2>2, <2>3, <2>4, PartsOfIInvNext
<1>2. CASE UNCHANGED vars
  BY <1>2 DEF vars, IInv, TypeOK, Sequenced, Noted, Awaited, SubscribeFollows,
              OpenUntilDone, Covered, CounterExact, SeatsBounded, CounterAges,
              ChannelKept, NoIdleChannel, Without, Counted, Opening, Subscribers, Key
<1> QED BY <1>1, <1>2

(* The invariant of a process's sessions: what its counters cover, and what *)
(* its one subscriber connection has yet to do.                             *)
THEOREM Invariance == Spec => []IInv
BY InitSafe, NextSafe, PTL DEF Spec

(* The variables of the sessions keep their types. *)
THEOREM TypeCorrect == Spec => []TypeOK
<1>1. IInv => TypeOK
  BY DEF IInv
<1> QED BY <1>1, Invariance, PTL

(* Without a fault each INCR of a session is met by one DECR. *)
THEOREM CountingIsExact == Spec => []CounterExact
<1>1. IInv => CounterExact
  BY DEF IInv
<1> QED BY <1>1, Invariance, PTL

(* Until a counter expires, the sessions of an order and address overshoot  *)
(* the documented limit by no more than the sockets that open at once, and  *)
(* only by sockets that overlap between their check and their INCR: who     *)
(* passes the check finds fewer sessions than the limit.                    *)
THEOREM OvershootIsBounded == Spec => LimitOvershoot
<1> DEFINE Passing == \A s \in Sockets :
             Without({"expire"}) /\ sock[s].pc = "check" /\ sock'[s].pc = "register" =>
               Cardinality(Counted(Key(s))) < Limit
<1>1. IInv => SeatsBounded
  BY DEF IInv
<1>2. IInv /\ [Next]_vars => [Passing]_vars
  <2> SUFFICES ASSUME IInv, Next, NEW s \in Sockets, Without({"expire"}),
                      sock[s].pc = "check", sock'[s].pc = "register"
               PROVE  Cardinality(Counted(Key(s))) < Limit
    OBVIOUS
  <2>1. count[Key(s)].n < Limit
    BY OnlyCheckPasses DEF IInv
  <2>2. Key(s) \in Orders \X Ips
    BY DEF IInv, Sequenced
  <2>3. /\ count[Key(s)].n \in Int /\ Cardinality(Counted(Key(s))) \in Nat
        /\ count[Key(s)].n >= Cardinality(Counted(Key(s)))
    BY <2>2, Numbers DEF IInv, Covered, Keys
  <2> QED BY <2>1, <2>3, SessionsAssumption DEF SessionsAssumption
<1> QED BY <1>1, <1>2, Invariance, PTL DEF Spec, LimitOvershoot

(* Unless Redis fails, the key expires or the process dies, a counter       *)
(* without a TTL belongs to a session about to give it one.                 *)
THEOREM LeaksAge == Spec => []CounterAges
<1>1. IInv => CounterAges
  BY DEF IInv
<1> QED BY <1>1, Invariance, PTL

(* Nobody cuts a listening session off from its channel: an UNSUBSCRIBE on  *)
(* its way is followed by the SUBSCRIBE of each session that needs it.      *)
THEOREM ListenersKeepChannel == Spec => []ChannelKept
<1>1. IInv => ChannelKept
  BY DEF IInv
<1> QED BY <1>1, Invariance, PTL

(* The process is subscribed to no channel that no session has noted. *)
THEOREM ChannelsAreNoted == Spec => []NoIdleChannel
<1>1. IInv => NoIdleChannel
  BY DEF IInv
<1> QED BY <1>1, Invariance, PTL

(* Unless Redis fails or it closed while it was set up, a closed socket     *)
(* leaves no handler, note or command behind.                               *)
THEOREM ClosedLeaveNothing == Spec => []NothingLeft
<1>1. IInv => NothingLeft
  <2> SUFFICES ASSUME IInv, Without({"early", "redis"}),
                      NEW s \in Sockets, sock[s].state = "closed",
                      sock[s].pc # "unsubscribe"
               PROVE  /\ s \notin attached /\ subs[s] = NoOrder
                      /\ \A i \in 1..Len(commands) : commands[i].socket # s
    BY DEF NothingLeft
  <2>1. sock[s].pc \notin {"subscribe", "ready"}
    BY DEF IInv, OpenUntilDone
  <2>2. "redis" \notin faults
    BY DEF Without
  <2>3. s \notin attached /\ subs[s] = NoOrder
    BY <2>1, <2>2 DEF IInv, Noted
  <2>4. \A i \in 1..Len(commands) : commands[i].socket # s
    BY <2>1, NotAwaited DEF IInv
  <2> QED BY <2>3, <2>4
<1> QED BY <1>1, Invariance, PTL

(* Nothing but the end of its hour takes a counter further below the        *)
(* sessions it guards: no DECR undoes the INCR of another session.          *)
THEOREM CoverOutlastsRaces == Spec => CoverLostByExpiry
<1> DEFINE A == \A k \in Orders \X Ips :
                  Uncovered(k)' > Uncovered(k) =>
                    count[k].life = "aging" /\ count'[k].life = "absent"
<1>1. IInv /\ IInv' /\ [Next]_vars => [A]_vars
  <2> SUFFICES ASSUME IInv, IInv', Next
               PROVE  A
    OBVIOUS
  <2>1. TypeOK' /\ TypeOK /\ Sequenced /\ Covering /\ SeatsBounded /\ Linked
    BY PartsOfIInv DEF IInv
  <2> QED BY <2>1, CounterStep DEF Linked, Keys
<1> QED BY <1>1, Invariance, PTL DEF Spec, CoverLostByExpiry
=============================================================================
