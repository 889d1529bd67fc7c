------------------------------ MODULE DexRouter ------------------------------
(***************************************************************************)
(* src/lib/dex: the quotes of the two simulators, the choice between them, *)
(* the swap and the check of its price, as processOrder strings them       *)
(* together, for calls that run side by side on the one generator that     *)
(* both simulators draw from.                                              *)
(*                                                                         *)
(* A price is a number of units of its last digit (toFixed(9)): the        *)
(* rounding is exact.  A draw of the generator is its new seed, standing   *)
(* for seed / Modulus.  Time is kept as far as it decides who draws first  *)
(* after the two sleeps of one call.  That decimal.js divides to twenty    *)
(* digits is ignored.                                                      *)
(***************************************************************************)
EXTENDS Integers

CONSTANTS
  Calls,         \* attempts that are priced
  Base,          \* BASE_PRICE, in units
  Modulus, Multiplier, Increment,  \* of the generator: 233280, 9301, 49297
  SleepSpan,     \* the milliseconds a sleep varies by: 100
  Slippages,     \* tolerances clients ask for, in parts of SlippageScale
  SlippageScale,
  Randoms,       \* what Math.random may give, in parts of RandomScale
  RandomScale

ASSUME DexAssumption ==
  /\ Base \in Nat \ {0}
  /\ Modulus \in Nat \ {0} /\ Multiplier \in Nat /\ Increment \in Nat
  /\ SleepSpan \in Nat \ {0}
  /\ SlippageScale \in Nat \ {0} /\ Slippages \subseteq 0..(SlippageScale \div 2)
  /\ RandomScale \in Nat \ {0} /\ Randoms \subseteq 0..(RandomScale - 1)

Venue == {"raydium", "meteora"}

(* Fees and the spread of the quotes around the base, in thousandths. *)
Fee == [raydium |-> 3, meteora |-> 2]
Spread == [raydium |-> 25, meteora |-> 30]

VARIABLES
  seed,  \* the state of the generator
  call   \* [Calls -> what is known of the call]

vars == <<seed, call>>

-----------------------------------------------------------------------------
(* Numbers *)

NextSeed(x) == (x * Multiplier + Increment) % Modulus

(* a / b to the nearest unit, halves up: toFixed. *)
Rounded(a, b) == (2 * a + b) \div (2 * b)

Sleep(x) == (SleepSpan * x) \div Modulus

(* Base * (1 + x / Modulus * 2 * spread - spread). *)
QuotedPrice(v, x) ==
  Rounded(Base * (1000 * Modulus + 2 * Spread[v] * x - Spread[v] * Modulus),
          1000 * Modulus)

(* What the seller gets for a price, in thousandths of a unit. *)
Net(v, price) == price * (1000 - Fee[v])

(* Mutant: the executed price is cut off, not rounded. *)
ExecutedPriceCutOff(expected, slippage, r) ==
  (expected * (RandomScale * SlippageScale - r * slippage))
    \div (RandomScale * SlippageScale)

(* expected * (1 - r / RandomScale * slippage). *)
ExecutedPrice(expected, slippage, r) ==
  Rounded(expected * (RandomScale * SlippageScale - r * slippage),
          RandomScale * SlippageScale)

Distance(a, b) == IF a >= b THEN a - b ELSE b - a

(* checkSlippage: the distance, as a share of what was expected. *)
Passes(expected, executed, slippage) ==
  Distance(expected, executed) * SlippageScale <= slippage * expected

(* Mutant: the venues are compared without their fees. *)
SelectBestDexGross(prices) ==
  IF prices["raydium"] >= prices["meteora"] THEN "raydium" ELSE "meteora"

(* selectBestDex: raydium wins a tie. *)
SelectBestDex(prices) ==
  IF Net("raydium", prices["raydium"]) >= Net("meteora", prices["meteora"])
  THEN "raydium" ELSE "meteora"

-----------------------------------------------------------------------------
(* sleep: the draws of the two sleeps, price: the quotes (0 until drawn),   *)
(* start: the seed the call found, alone: no other call drew meanwhile.     *)
Unpriced == [pc |-> "new", start |-> 0, alone |-> TRUE,
             sleep |-> [v \in Venue |-> 0], price |-> [v \in Venue |-> 0],
             dex |-> "none", slippage |-> 0, executed |-> 0]

Init ==
  /\ seed \in 0..(Modulus - 1)
  /\ call = [c \in Calls |-> Unpriced]

Quoting == {c \in Calls : call[c].pc = "quoting"}

(* getQuotes calls both simulators, and each draws its sleep at once. *)
GetQuotes(c) ==
  LET first == NextSeed(seed)
      second == NextSeed(first)
  IN
  /\ call[c].pc = "new"
  /\ seed' = second
  /\ \E s \in Slippages :
       call' = [d \in Calls |->
         IF d = c
         THEN [Unpriced EXCEPT !.pc = "quoting", !.start = seed, !.slippage = s,
                               !.alone = Quoting = {},
                               !.sleep = [raydium |-> Sleep(first),
                                          meteora |-> Sleep(second)]]
         ELSE IF d \in Quoting THEN [call[d] EXCEPT !.alone = FALSE] ELSE call[d]]

Drawn(c, v) == call[c].price[v] # 0

(* Mutant: the simulators answer in any order. *)
WakesAnyhow(c, v) == ~Drawn(c, v)

(* The sleep of v may end first, when raydium sleeps for r milliseconds and *)
(* meteora for m.  Raydium's starts first and ends first on a tie; Node     *)
(* reads the clock for each, and may find it a millisecond on for meteora's.*)
EndsFirst(v, r, m) ==
  \/ v = "raydium" /\ r <= m + 1
  \/ v = "meteora" /\ m < r

(* The sleep of v ends: as the first one, or after the other. *)
Wakes(c, v) ==
  /\ ~Drawn(c, v)
  /\ \/ EndsFirst(v, call[c].sleep["raydium"], call[c].sleep["meteora"])
     \/ \E u \in Venue : Drawn(c, u)

(* A simulator wakes and draws its price. *)
Quote(c, v) ==
  LET x == NextSeed(seed) IN
  /\ call[c].pc = "quoting"
  /\ Wakes(c, v)
  /\ seed' = x
  /\ call' = [call EXCEPT ![c].price[v] = QuotedPrice(v, x)]

(* Promise.all resolves and a venue is chosen. *)
Choose(c) ==
  /\ call[c].pc = "quoting"
  /\ \A v \in Venue : Drawn(c, v)
  /\ call' = [call EXCEPT ![c].pc = "swapping", ![c].dex = SelectBestDex(call[c].price)]
  /\ UNCHANGED seed

(* executeSwap draws from Math.random, and checkSlippage follows. *)
ExecuteSwap(c) ==
  LET k == call[c]
      expected == k.price[k.dex]
  IN
  /\ k.pc = "swapping"
  /\ \E r \in Randoms :
       LET executed == ExecutedPrice(expected, k.slippage, r) IN
       call' = [call EXCEPT
         ![c].executed = executed,
         ![c].pc = IF Passes(expected, executed, k.slippage) THEN "filled" ELSE "failed"]
  /\ UNCHANGED seed

Next == \E c \in Calls : \/ GetQuotes(c)
                         \/ \E v \in Venue : Quote(c, v)
                         \/ Choose(c)
                         \/ ExecuteSwap(c)

Spec == Init /\ [][Next]_vars

-----------------------------------------------------------------------------
(* Properties *)

(* A fill is as good as the best quote after fees, whichever venue gave it, *)
(* less the tolerance and half a unit: no venue's fee and no rounding costs *)
(* the client more than he agreed to.                                       *)
BestExecution ==
  \A c \in Calls : LET k == call[c] IN
    k.pc = "filled" => \A v \in Venue :
      2 * SlippageScale * Net(k.dex, k.executed)
        >= 2 * (SlippageScale - k.slippage) * Net(v, k.price[v])
             - SlippageScale * (1000 - Fee[k.dex])

(* executeSwap draws its price within the tolerance, and yet checkSlippage  *)
(* may refuse it: then for the rounding alone, by half a unit at most.      *)
SlippageFailsOnlyByRounding ==
  \A c \in Calls : LET k == call[c] IN
    k.pc = "failed" =>
      2 * (Distance(k.price[k.dex], k.executed) * SlippageScale
             - k.slippage * k.price[k.dex])
        <= SlippageScale

(* The venues that may answer first in a call that finds seed x, and its    *)
(* quotes when f does: the third draw is the price of f, the fourth that of *)
(* the other.                                                               *)
Ahead(x) ==
  LET s1 == NextSeed(x)
  IN {v \in Venue : EndsFirst(v, Sleep(s1), Sleep(NextSeed(s1)))}

QuotesInOrder(x, f) ==
  LET s3 == NextSeed(NextSeed(NextSeed(x)))
  IN [v \in Venue |-> QuotedPrice(v, IF v = f THEN s3 ELSE NextSeed(s3))]

(* MOCK_SEED makes quotes repeatable, as long as no two calls are quoted    *)
(* side by side: the quotes of a call alone follow from the seed it found,  *)
(* but for the order of two sleeps that end in the same millisecond.        *)
SeededWhenAlone ==
  \A c \in Calls :
    call[c].pc \notin {"new", "quoting"} /\ call[c].alone =>
      \E f \in Ahead(call[c].start) : call[c].price = QuotesInOrder(call[c].start, f)

-----------------------------------------------------------------------------
(* Why they hold *)

Attempt == [pc : {"new", "quoting", "swapping", "filled", "failed"},
            start : 0..(Modulus - 1), alone : BOOLEAN,
            sleep : [Venue -> Nat], price : [Venue -> Nat],
            dex : Venue \cup {"none"}, slippage : Slippages \cup {0},
            executed : Int]

TypeOK == seed \in 0..(Modulus - 1) /\ call \in [Calls -> Attempt]

(* A price is never 0, so that it tells what was drawn: nothing at first,   *)
(* and both prices before a venue is chosen, which stays the best.          *)
Chosen ==
  \A c \in Calls :
    /\ call[c].pc = "new" => \A v \in Venue : ~Drawn(c, v)
    /\ call[c].pc \notin {"new", "quoting"} =>
         /\ \A v \in Venue : Drawn(c, v)
         /\ call[c].dex = SelectBestDex(call[c].price)

(* The swap drew its price within the tolerance. *)
Executed ==
  \A c \in Calls : LET k == call[c] IN
    k.pc \in {"filled", "failed"} =>
      \E r \in Randoms : k.executed = ExecutedPrice(k.price[k.dex], k.slippage, r)

(* A call that is quoted alone has the generator to itself: its draws are   *)
(* the sleeps, then the price of a venue that may end first, then the other.*)
DrawsInOrder ==
  \A c \in Calls : LET k == call[c]
                       s1 == NextSeed(k.start)
                       s2 == NextSeed(s1)
                   IN
    k.pc = "quoting" /\ k.alone =>
      /\ Quoting = {c}
      /\ k.sleep["raydium"] = Sleep(s1) /\ k.sleep["meteora"] = Sleep(s2)
      /\ \/ (\A v \in Venue : ~Drawn(c, v)) /\ seed = s2
         \/ \E f \in Ahead(k.start) :
              LET quotes == QuotesInOrder(k.start, f) IN
              \/ /\ \A v \in Venue : Drawn(c, v) <=> v = f
                 /\ k.price[f] = quotes[f] /\ seed = NextSeed(s2)
              \/ \A v \in Venue : Drawn(c, v) /\ k.price[v] = quotes[v]

IInv ==
  /\ TypeOK
  /\ Chosen
  /\ Executed
  /\ DrawsInOrder
  /\ SeededWhenAlone
=============================================================================
