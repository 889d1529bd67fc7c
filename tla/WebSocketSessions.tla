------------------------- MODULE WebSocketSessions -------------------------
(***************************************************************************)
(* src/services/webSocketService.ts: the WebSocket sessions of one API     *)
(* process.  handleConnection and handleClose run for many sockets side by *)
(* side; every step here is the code between two awaits.  The process has  *)
(* one subscriber connection to Redis, on which SUBSCRIBE and UNSUBSCRIBE  *)
(* are executed, and answered, in the order they are called.               *)
(*                                                                         *)
(* The map connections, which nothing reads, and the ping and pong timers  *)
(* are left out; a heartbeat starts and stops with the message handler.    *)
(*                                                                         *)
(* What can go wrong is fixed for a behaviour by the variable faults:      *)
(*   early   a socket closes before its close handler is registered        *)
(*   redis   a command rejects, before or after it took effect             *)
(*   db      the SELECT of the backfill rejects (for an id that is no UUID *)
(*           it always does)                                               *)
(*   expire  a counter outlives its hour                                   *)
(*   crash   the process dies and is restarted                             *)
(***************************************************************************)
EXTENDS Integers, Sequences, FiniteSets

CONSTANTS
  Sockets,     \* WebSocket connections
  Orders,      \* order ids clients ask for
  Missing,     \* those of them that have no row
  NoOrder,     \* no order
  Ips,         \* client addresses
  NoIp,        \* no address
  Limit,       \* MAX_CONNECTIONS_PER_ORDER_IP
  MaxOpening,  \* how many sockets are between their check and their INCR
  Scenarios    \* the fault sets to consider

FaultKinds == {"early", "redis", "db", "expire", "crash"}

ASSUME SessionsAssumption ==
  /\ IsFiniteSet(Sockets)
  /\ Missing \subseteq Orders
  /\ NoOrder \notin Orders
  /\ NoIp \notin Ips
  /\ Limit \in Nat \ {0} /\ MaxOpening \in Nat
  /\ Scenarios \subseteq SUBSET FaultKinds

VARIABLES
  faults,    \* the fault kinds of this behaviour, never changed
  count,     \* [Orders \X Ips -> what Redis holds under ws:connections:<key>]
  sock,      \* [Sockets -> the socket and where its handling is]
  subs,      \* [Sockets -> the order whose channel this.subscriptions notes]
  attached,  \* the sockets with a message handler, a heartbeat, a close handler
  commands,  \* what the subscriber connection has yet to execute, in order
  channels,  \* the orders whose channel that connection is subscribed to
  row,       \* [Orders -> what a SELECT finds: no row, a running order, its end]
  sent       \* the orders whose end was published

vars == <<faults, count, sock, subs, attached, commands, channels, row, sent>>

-----------------------------------------------------------------------------
(* Types *)

(* The sockets INCR has counted and DECR has not. *)
CountedLabel == {"expiry", "backfill", "subscribe", "ready", "unsubscribe", "release"}

Label == {"new", "check", "register", "done", "refused"} \cup CountedLabel

(* told is the last status the client was sent. *)
Socket == [pc : Label, order : Orders \cup {NoOrder}, ip : Ips \cup {NoIp},
           state : {"open", "closing", "closed"}, told : {"nothing", "running", "ended"}]

NoSocket == [pc |-> "new", order |-> NoOrder, ip |-> NoIp, state |-> "closed",
             told |-> "nothing"]

(* A counter is absent, and counts as 0, or lasts for ever, or has a TTL. *)
Counter == [n : Int, life : {"absent", "lasting", "aging"}]

NoCounter == [n |-> 0, life |-> "absent"]

Command == [op : {"subscribe", "unsubscribe"}, socket : Sockets]

TypeOK ==
  /\ faults \in SUBSET FaultKinds
  /\ count \in [Orders \X Ips -> Counter]
  /\ sock \in [Sockets -> Socket]
  /\ subs \in [Sockets -> Orders \cup {NoOrder}]
  /\ attached \subseteq Sockets
  /\ commands \in Seq(Command)
  /\ channels \subseteq Orders
  /\ row \in [Orders -> {"absent", "running", "ended"}]
  /\ sent \subseteq Orders

Init ==
  /\ faults \in Scenarios
  /\ count = [k \in Orders \X Ips |-> NoCounter]
  /\ sock = [s \in Sockets |-> NoSocket]
  /\ subs = [s \in Sockets |-> NoOrder]
  /\ attached = {}
  /\ commands = <<>>
  /\ channels = {}
  /\ row = [o \in Orders |-> IF o \in Missing THEN "absent" ELSE "running"]
  /\ sent = {}

-----------------------------------------------------------------------------
(* handleConnection *)

Key(s) == <<sock[s].order, sock[s].ip>>

Opening == {s \in Sockets : sock[s].pc \in {"check", "register"}}

Goto(s, label) == sock' = [sock EXCEPT ![s].pc = label]

(* The catch block, and the refusal: the socket is closed, and nobody       *)
(* listens for its close event.                                             *)
Abandon(s, label) == sock' = [sock EXCEPT ![s].pc = label, ![s].state = "closed"]

Tell(s, status) ==
  IF sock[s].state = "open" THEN [sock EXCEPT ![s].told = status] ELSE sock

(* INCR and DECR, which create a counter without a TTL. *)
Added(k, d) ==
  [count EXCEPT ![k].n = @ + d,
                ![k].life = IF @ = "absent" THEN "lasting" ELSE @]

Connect(s, o, ip) ==
  /\ sock[s].pc = "new"
  /\ Cardinality(Opening) < MaxOpening
  /\ sock' = [sock EXCEPT ![s] = [NoSocket EXCEPT !.pc = "check", !.order = o,
                                                  !.ip = ip, !.state = "open"]]
  /\ UNCHANGED <<faults, count, subs, attached, commands, channels, row, sent>>

(* Mutant: one connection too many passes. *)
CheckLimitOffByOne(s) ==
  /\ sock[s].pc = "check"
  /\ IF count[Key(s)].n <= Limit THEN Goto(s, "register") ELSE Abandon(s, "refused")
  /\ UNCHANGED <<faults, count, subs, attached, commands, channels, row, sent>>

(* Mutant: a refused connection is released as if it had been registered. *)
CheckLimitReleasing(s) ==
  /\ sock[s].pc = "check"
  /\ \/ /\ count[Key(s)].n < Limit
        /\ Goto(s, "register")
        /\ UNCHANGED count
     \/ /\ count[Key(s)].n >= Limit
        /\ Abandon(s, "refused")
        /\ count' = Added(Key(s), -1)
  /\ UNCHANGED <<faults, subs, attached, commands, channels, row, sent>>

(* checkConnectionLimit *)
CheckLimit(s) ==
  /\ sock[s].pc = "check"
  /\ \/ /\ count[Key(s)].n < Limit
        /\ Goto(s, "register")
     \/ /\ count[Key(s)].n >= Limit
        /\ Abandon(s, "refused")
     \/ /\ "redis" \in faults
        /\ Abandon(s, "done")
  /\ UNCHANGED <<faults, count, subs, attached, commands, channels, row, sent>>

(* Mutant: the counter gets no expiry. *)
IncrementOnly(s) ==
  /\ sock[s].pc = "register"
  /\ count' = Added(Key(s), 1)
  /\ Goto(s, "backfill")
  /\ UNCHANGED <<faults, subs, attached, commands, channels, row, sent>>

(* registerConnection: INCR, *)
Increment(s) ==
  /\ sock[s].pc = "register"
  /\ \/ /\ count' = Added(Key(s), 1)
        /\ Goto(s, "expiry")
     \/ /\ "redis" \in faults
        /\ count' \in {count, Added(Key(s), 1)}
        /\ Abandon(s, "done")
  /\ UNCHANGED <<faults, subs, attached, commands, channels, row, sent>>

(* EXPIRE does nothing to a key that is gone. *)
Aged(k) ==
  [count EXCEPT ![k].life = IF @ = "absent" THEN "absent" ELSE "aging"]

(* then EXPIRE. *)
SetExpiry(s) ==
  /\ sock[s].pc = "expiry"
  /\ \/ /\ count' = Aged(Key(s))
        /\ Goto(s, "backfill")
     \/ /\ "redis" \in faults
        /\ count' \in {count, Aged(Key(s))}
        /\ Abandon(s, "done")
  /\ UNCHANGED <<faults, subs, attached, commands, channels, row, sent>>

Queued(s, op) == Append(commands, [op |-> op, socket |-> s])

(* What follows the SELECT: the subscription is noted and SUBSCRIBE called. *)
Subscribing(s) ==
  /\ subs' = [subs EXCEPT ![s] = sock[s].order]
  /\ commands' = Queued(s, "subscribe")

(* Mutant: the backfill is sent whether or not there is an order. *)
BackfillUnchecked(s) ==
  /\ sock[s].pc = "backfill"
  /\ sock' = [Tell(s, row[sock[s].order]) EXCEPT ![s].pc = "subscribe"]
  /\ Subscribing(s)
  /\ UNCHANGED <<faults, count, attached, channels, row, sent>>

(* Mutant: for an unknown order the handling stops with the closing. *)
BackfillStopping(s) ==
  /\ sock[s].pc = "backfill"
  /\ \/ /\ row[sock[s].order] # "absent"
        /\ sock' = [Tell(s, row[sock[s].order]) EXCEPT ![s].pc = "subscribe"]
        /\ Subscribing(s)
     \/ /\ row[sock[s].order] = "absent"
        /\ Abandon(s, "done")
        /\ UNCHANGED <<subs, commands>>
  /\ UNCHANGED <<faults, count, attached, channels, row, sent>>

(* sendBackfill: an unknown order closes the socket, and goes on. *)
Backfill(s) ==
  LET o == sock[s].order IN
  /\ sock[s].pc = "backfill"
  /\ \/ /\ sock' = [(IF row[o] # "absent" THEN Tell(s, row[o])
                     ELSE IF sock[s].state = "open"
                     THEN [sock EXCEPT ![s].state = "closing"]
                     ELSE sock) EXCEPT ![s].pc = "subscribe"]
        /\ Subscribing(s)
     \/ /\ "db" \in faults
        /\ Abandon(s, "done")
        /\ UNCHANGED <<subs, commands>>
  /\ UNCHANGED <<faults, count, attached, channels, row, sent>>

(* The subscriber connection comes to a command of socket s. *)
Reaches(s, op) == commands # <<>> /\ Head(commands) = [op |-> op, socket |-> s]

(* subscribeToUpdates is answered: the handlers and the heartbeat start in  *)
(* the same turn.  When SUBSCRIBE rejects, the note in subs stays.          *)
Subscribed(s) ==
  LET o == sock[s].order IN
  /\ Reaches(s, "subscribe")
  /\ commands' = Tail(commands)
  /\ \/ /\ channels' = channels \cup {o}
        /\ attached' = attached \cup {s}
        /\ Goto(s, "ready")
     \/ /\ "redis" \in faults
        /\ channels' \in {channels, channels \cup {o}}
        /\ Abandon(s, "done")
        /\ UNCHANGED attached
  /\ UNCHANGED <<faults, count, subs, row, sent>>

-----------------------------------------------------------------------------
(* handleClose.  It is called by an event, and nobody catches what it       *)
(* throws: a command that rejects here ends the process.                    *)

(* The process dies: of its sessions only the counters remain. *)
Die ==
  /\ sock' = [s \in Sockets |->
                IF sock[s].pc \in {"new", "done", "refused"} THEN sock[s]
                ELSE [sock[s] EXCEPT !.pc = "done", !.state = "closed"]]
  /\ subs' = [s \in Sockets |-> NoOrder]
  /\ attached' = {}
  /\ commands' = <<>>
  /\ channels' = {}

Subscribers(o) == {s \in Sockets : subs[s] = o}

(* Mutant: the channel is dropped while another session needs it. *)
LastOfChannelOrPair(s) == Cardinality(Subscribers(subs[s])) <= 2

(* Mutant: the session that closes is forgotten in the count. *)
LastOfChannelNever(s) == Cardinality(Subscribers(subs[s])) < 1

LastOfChannel(s) == Cardinality(Subscribers(subs[s])) <= 1

(* Mutant: with others on the channel the session is not forgotten. *)
DetachOnlyLast(s) ==
  /\ attached' = attached \ {s}
  /\ \/ /\ LastOfChannel(s)
        /\ commands' = Queued(s, "unsubscribe")
        /\ sock' = [sock EXCEPT ![s].state = "closed", ![s].pc = "unsubscribe"]
     \/ /\ ~LastOfChannel(s)
        /\ sock' = [sock EXCEPT ![s].state = "closed", ![s].pc = "release"]
        /\ UNCHANGED commands
  /\ UNCHANGED subs

(* handleClose up to its first await. *)
Detach(s) ==
  /\ attached' = attached \ {s}
  /\ \/ /\ LastOfChannel(s)
        /\ commands' = Queued(s, "unsubscribe")
        /\ sock' = [sock EXCEPT ![s].state = "closed", ![s].pc = "unsubscribe"]
        /\ UNCHANGED subs
     \/ /\ ~LastOfChannel(s)
        /\ subs' = [subs EXCEPT ![s] = NoOrder]
        /\ sock' = [sock EXCEPT ![s].state = "closed", ![s].pc = "release"]
        /\ UNCHANGED commands

(* The socket closes, by the client's will or to answer the server's close. *)
(* Before the session is ready nobody hears of it.                          *)
Close(s) ==
  /\ sock[s].state \in {"open", "closing"}
  /\ \/ /\ sock[s].pc = "ready"
        /\ Detach(s)
     \/ /\ sock[s].pc # "ready"
        /\ "early" \in faults
        /\ sock' = [sock EXCEPT ![s].state = "closed"]
        /\ UNCHANGED <<subs, attached, commands>>
  /\ UNCHANGED <<faults, count, channels, row, sent>>

Unsubscribed(s) ==
  /\ Reaches(s, "unsubscribe")
  /\ \/ /\ commands' = Tail(commands)
        /\ channels' = channels \ {sock[s].order}
        /\ subs' = [subs EXCEPT ![s] = NoOrder]
        /\ Goto(s, "release")
        /\ UNCHANGED attached
     \/ /\ "redis" \in faults
        /\ Die
  /\ UNCHANGED <<faults, count, row, sent>>

(* unregisterConnection *)
Release(s) ==
  /\ sock[s].pc = "release"
  /\ \/ /\ count' = Added(Key(s), -1)
        /\ Goto(s, "done")
        /\ UNCHANGED <<subs, attached, commands, channels>>
     \/ /\ "redis" \in faults
        /\ count' \in {count, Added(Key(s), -1)}
        /\ Die
  /\ UNCHANGED <<faults, row, sent>>

-----------------------------------------------------------------------------
(* The environment *)

(* The worker ends an order in the database, *)
EndOrder(o) ==
  /\ row[o] = "running"
  /\ row' = [row EXCEPT ![o] = "ended"]
  /\ UNCHANGED <<faults, count, sock, subs, attached, commands, channels, sent>>

(* then publishes the end.  Handlers pass it on to sockets that are open.   *)
PublishEnd(o) ==
  /\ row[o] = "ended" /\ o \notin sent
  /\ sent' = sent \cup {o}
  /\ sock' = [s \in Sockets |->
                IF o \in channels /\ s \in attached /\ sock[s].order = o
                   /\ sock[s].state = "open"
                THEN [sock[s] EXCEPT !.told = "ended"] ELSE sock[s]]
  /\ UNCHANGED <<faults, count, subs, attached, commands, channels, row>>

(* The TTL of a counter runs out. *)
Expire(k) ==
  /\ "expire" \in faults
  /\ count[k].life = "aging"
  /\ count' = [count EXCEPT ![k] = NoCounter]
  /\ UNCHANGED <<faults, sock, subs, attached, commands, channels, row, sent>>

Crash ==
  /\ "crash" \in faults
  /\ \E s \in Sockets : sock[s].pc \notin {"new", "done", "refused"}
  /\ Die
  /\ UNCHANGED <<faults, count, row, sent>>

-----------------------------------------------------------------------------
(* The specification *)

(* The answer to what a socket's handling awaits. *)
Serve(s) ==
  \/ CheckLimit(s)
  \/ Increment(s)
  \/ SetExpiry(s)
  \/ Backfill(s)
  \/ Subscribed(s)
  \/ Unsubscribed(s)
  \/ Release(s)

Next ==
  \/ \E s \in Sockets, o \in Orders, ip \in Ips : Connect(s, o, ip)
  \/ \E s \in Sockets : Serve(s)
  \/ \E s \in Sockets : Close(s)
  \/ \E o \in Orders : EndOrder(o)
  \/ \E o \in Orders : PublishEnd(o)
  \/ \E k \in Orders \X Ips : Expire(k)
  \/ Crash

Spec == Init /\ [][Next]_vars

-----------------------------------------------------------------------------
(* Properties.  Those that some fault defeats name the faults they bar; the *)
(* others hold whatever goes wrong.                                         *)

Without(kinds) == faults \cap kinds = {}

Counted(k) == {s \in Sockets : sock[s].pc \in CountedLabel /\ Key(s) = k}

(* How many of the sessions a counter guards are missing from it. *)
Uncovered(k) == Cardinality(Counted(k)) - count[k].n

(* Whatever races, leaks and crashes do, the counter covers the sessions it *)
(* guards until it outlives its hour, and nothing else takes it further     *)
(* below them: the DECRs that follow undo no one else's INCR.               *)
CoverLostByExpiry ==
  [][\A k \in Orders \X Ips :
       Uncovered(k)' > Uncovered(k) =>
         count[k].life = "aging" /\ count'[k].life = "absent"]_vars

(* When no socket closes early and no call fails, counting is exact: each   *)
(* INCR is met by one DECR, also for sockets closed for want of an order.   *)
CounterExact ==
  Without(FaultKinds) =>
    \A k \in Orders \X Ips : count[k].n = Cardinality(Counted(k))

(* docs/architecture_diagram.md promises at most 3 concurrent connections   *)
(* per order and address.  The check and the INCR are apart, and the limit  *)
(* does not hold: sockets that overlap there pass together, by how many is  *)
(* SeatsBounded.  But a socket passes only while fewer sessions than the    *)
(* limit are counted, whatever leaked, raced or died before: an overlap is  *)
(* the only way beyond the limit, other than a counter that outlives its    *)
(* hour.                                                                    *)
SeatsBounded ==
  Without({"expire"}) =>
    \A k \in Orders \X Ips :
      Cardinality(Counted(k)) + Cardinality({s \in Opening : sock[s].pc = "register"
                                                              /\ Key(s) = k})
        <= Limit - 1 + MaxOpening

LimitOvershoot ==
  /\ []SeatsBounded
  /\ [][\A s \in Sockets :
          Without({"expire"}) /\ sock[s].pc = "check" /\ sock'[s].pc = "register" =>
            Cardinality(Counted(Key(s))) < Limit]_vars

(* What leaks is healed by time: a counter that has none of its own to last *)
(* for belongs to a session that is about to give it its TTL.               *)
CounterAges ==
  Without({"redis", "expire", "crash"}) =>
    \A k \in Orders \X Ips :
      count[k].life = "lasting" => \E s \in Sockets : sock[s].pc = "expiry" /\ Key(s) = k

(* A session that listens is never cut off: whoever else comes, goes or     *)
(* fails on its channel, the process stays subscribed to it.                *)
ChannelKept == \A s \in attached : sock[s].order \in channels

(* The process is subscribed to no channel that no session has noted.       *)
NoIdleChannel == \A o \in channels : Subscribers(o) # {}

(* A socket that is closed leaves nothing behind: no handler, no heartbeat,  *)
(* no note of a channel and no command on its way, once UNSUBSCRIBE is done. *)
NothingLeft ==
  Without({"early", "redis"}) =>
    \A s \in Sockets : sock[s].state = "closed" /\ sock[s].pc # "unsubscribe" =>
      /\ s \notin attached /\ subs[s] = NoOrder
      /\ \A i \in 1..Len(commands) : commands[i].socket # s

-----------------------------------------------------------------------------
(* Why the safety properties hold: what they rest on, one part at a time.   *)

(* A session asks for an order from an address, and is one of a few at a    *)
(* time between its check and its INCR.                                     *)
Sequenced ==
  /\ \A s \in Sockets : sock[s].pc # "new" => Key(s) \in Orders \X Ips
  /\ \A s \in Sockets : sock[s].pc = "new" => sock[s].state = "closed"
  /\ Cardinality(Opening) <= MaxOpening

(* A handler runs for the sessions that are ready.  What is noted is the    *)
(* order of the session, from its backfill on to the end of its close, and  *)
(* only a command that rejects leaves the note behind.                      *)
Noted ==
  /\ attached = {s \in Sockets : sock[s].pc = "ready"}
  /\ \A s \in Sockets : sock[s].pc \in {"subscribe", "ready", "unsubscribe"} =>
       subs[s] = sock[s].order
  /\ \A s \in Sockets : subs[s] # NoOrder =>
       /\ subs[s] = sock[s].order
       /\ sock[s].pc \in {"subscribe", "ready", "unsubscribe", "done"}
       /\ sock[s].pc = "done" => "redis" \in faults

(* A session waits for the one command it has on the connection. *)
Awaited ==
  /\ \A i \in 1..Len(commands) : sock[commands[i].socket].pc = commands[i].op
  /\ \A i, j \in 1..Len(commands) : commands[i].socket = commands[j].socket => i = j

(* UNSUBSCRIBE is called for the last session of a channel: those that have *)
(* noted the channel since then have their SUBSCRIBE behind it.             *)
SubscribeFollows ==
  \A i \in 1..Len(commands) : commands[i].op = "unsubscribe" =>
    \A s \in Sockets \ {commands[i].socket} :
      subs[s] = sock[commands[i].socket].order =>
        \E j \in i+1..Len(commands) :
          commands[j] = [op |-> "subscribe", socket |-> s]

(* Only an early close, or a command that rejects, lets a session go on     *)
(* with a socket that is closed.                                            *)
OpenUntilDone ==
  Without({"early", "redis"}) =>
    \A s \in Sockets :
      sock[s].pc \in {"check", "register", "expiry", "backfill", "subscribe", "ready"} =>
        sock[s].state # "closed"

(* A counter that has not outlived its hour covers the sessions it guards.  *)
Covered ==
  Without({"expire"}) =>
    \A k \in Orders \X Ips :
      /\ count[k].n >= Cardinality(Counted(k))
      /\ Counted(k) # {} => count[k].life # "absent"

IInv ==
  /\ TypeOK
  /\ Sequenced
  /\ Noted
  /\ Awaited
  /\ SubscribeFollows
  /\ OpenUntilDone
  /\ Covered
  /\ CounterExact
  /\ SeatsBounded
  /\ CounterAges
  /\ ChannelKept
  /\ NoIdleChannel

-----------------------------------------------------------------------------
(* What the documents say of the program and its code does not keep.        *)

(* docs/architecture_diagram.md: a client that connects gets the latest     *)
(* snapshot and then the live events.  The snapshot is read before the      *)
(* channel is subscribed to: an end in between reaches the client never.    *)
EndReachesClient ==
  \A s \in attached : sock[s].state = "open" /\ sock[s].order \in sent
                        => sock[s].told = "ended"

(* The sockets that take a seat: open, or being opened or closed. *)
Seats(k) ==
  {s \in Sockets : Key(s) = k /\ \/ sock[s].state # "closed"
                                 \/ sock[s].pc \in CountedLabel \ {"ready"}}

(* docs/architecture_diagram.md: up to the limit of concurrent connections  *)
(* a client is served, the extra ones are refused.  A socket that closes    *)
(* before its session is ready is never uncounted, as if it kept its seat.  *)
OnlyExtrasRefused ==
  [][\A s \in Sockets :
       sock[s].pc = "check" /\ sock'[s].pc = "refused" =>
         Cardinality(Seats(Key(s)) \ {s}) >= Limit]_vars
=============================================================================
