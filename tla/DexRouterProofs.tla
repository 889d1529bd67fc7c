-------------------------- MODULE DexRouterProofs --------------------------
(***************************************************************************)
(* Proofs about DexRouter, for any number of calls side by side, any base  *)
(* price, generator, tolerances and draws of Math.random.                  *)
(*                                                                         *)
(* First what the arithmetic of prices gives, then the invariant: which    *)
(* prices are drawn, in which order, and what is chosen and executed.      *)
(***************************************************************************)
EXTENDS DexRouter, TLAPS

-----------------------------------------------------------------------------
(* Integers *)

(* A factor that is not negative keeps an order, *)
LEMMA Multiply ==
  ASSUME NEW a \in Int, NEW b \in Int, NEW c \in Nat, a <= b
  PROVE  a * c <= b * c
OBVIOUS

(* and a positive one may be cancelled. *)
LEMMA Cancel ==
  ASSUME NEW a \in Int, NEW b \in Int, NEW c \in Nat \ {0}, a * c < b * c
  PROVE  a < b
OBVIOUS

(* What division leaves is less than the divisor. *)
LEMMA Divide ==
  ASSUME NEW a \in Int, NEW b \in Nat \ {0}
  PROVE  /\ a \div b \in Int
         /\ b * (a \div b) <= a /\ a < b * (a \div b) + b
OBVIOUS

(* What is rounded is off by half a unit at most. *)
LEMMA RoundedAt ==
  ASSUME NEW a \in Int, NEW b \in Nat \ {0}, NEW q, q = Rounded(a, b)
  PROVE  q \in Int /\ 2 * (b * q) <= 2 * a + b /\ 2 * a < 2 * (b * q) + b
<1> DEFINE B == 2 * b
<1>1. B \in Nat \ {0} /\ 2 * a + b \in Int
  OBVIOUS
<1>2. q \in Int /\ B * q <= 2 * a + b /\ 2 * a + b < B * q + B
  BY <1>1, Divide DEF Rounded
<1> QED BY <1>2

(* The sizes of the constants. *)
LEMMA Sizes ==
  /\ Base \in Nat \ {0} /\ Modulus \in Nat \ {0} /\ Multiplier \in Nat
  /\ Increment \in Nat /\ SleepSpan \in Nat \ {0}
  /\ SlippageScale \in Nat \ {0} /\ RandomScale \in Nat \ {0}
BY DexAssumption DEF DexAssumption

(* A seed follows a seed. *)
LEMMA SeedFollows ==
  ASSUME NEW x \in 0..(Modulus - 1)
  PROVE  NextSeed(x) \in 0..(Modulus - 1)
<1>1. x * Multiplier + Increment \in Nat
  BY Sizes
<1>2. \A a \in Nat, b \in Nat \ {0} : a % b \in 0..(b - 1)
  OBVIOUS
<1> QED BY <1>1, <1>2, Sizes DEF NextSeed

(* A sleep lasts a number of milliseconds. *)
LEMMA SleepLasts ==
  ASSUME NEW x \in 0..(Modulus - 1)
  PROVE  Sleep(x) \in Nat
<1>1. SleepSpan * x \in Nat
  BY Sizes
<1>2. \A a \in Nat, b \in Nat \ {0} : a \div b \in Nat
  OBVIOUS
<1> QED BY <1>1, <1>2, Sizes DEF Sleep

(* A quote is never 0: the spread takes little of the base. *)
LEMMA QuotePositive ==
  ASSUME NEW v \in Venue, NEW x \in 0..(Modulus - 1)
  PROVE  QuotedPrice(v, x) \in Nat \ {0}
<1> DEFINE b == 1000 * Modulus
           c == 1000 * Modulus + 2 * Spread[v] * x - Spread[v] * Modulus
           a == Base * c
           q == QuotedPrice(v, x)
<1>1. b \in Nat \ {0}
  BY Sizes
<1>2. Spread[v] = 25 \/ Spread[v] = 30
  BY DEF Venue, Spread
<1>3. c \in Nat /\ c >= 970 * Modulus
  BY <1>2, Sizes
<1>4. a \in Nat /\ a >= c
  <2>1. 1 * c <= Base * c
    BY <1>3, Sizes, Multiply
  <2> QED BY <1>3, <2>1, Sizes
<1>5. q = Rounded(a, b)
  BY DEF QuotedPrice
<1> HIDE DEF a, b, c, q
<1>6. q \in Int /\ 2 * a < 2 * (b * q) + b
  BY <1>1, <1>4, <1>5, RoundedAt
<1>7. q > 0
  <2> SUFFICES ASSUME q <= 0
               PROVE  FALSE
    BY <1>6
  <2>1. b * q <= 0
    BY <1>1, <1>6
  <2>2. 2 * a < b
    BY <1>1, <1>4, <1>6, <2>1
  <2> QED BY <1>3, <1>4, <2>2, Sizes DEF b
<1> QED BY <1>6, <1>7 DEF q

(* An executed price is no more than was expected, and no less than the     *)
(* tolerance and half a unit allow.                                         *)
LEMMA ExecutedWithin ==
  ASSUME NEW e \in Nat, NEW s \in Slippages \cup {0}, NEW r \in Randoms
  PROVE  /\ ExecutedPrice(e, s, r) \in Int /\ ExecutedPrice(e, s, r) <= e
         /\ 2 * (e * (SlippageScale - s))
              < 2 * (SlippageScale * ExecutedPrice(e, s, r)) + SlippageScale
<1> DEFINE S == SlippageScale
           R == RandomScale
           D == R * S
           N == e * (D - r * s)
           x == ExecutedPrice(e, s, r)
<1>1. s \in Nat /\ s <= S /\ r \in Nat /\ r <= R /\ S \in Nat \ {0} /\ R \in Nat \ {0}
  <2>1. SlippageScale \div 2 <= SlippageScale
    BY Sizes
  <2> QED BY <2>1, DexAssumption DEF DexAssumption
<1>2. D \in Nat \ {0} /\ x = Rounded(N, D)
  BY <1>1 DEF ExecutedPrice
<1> HIDE DEF S, R, x
<1>3. r * s \in Nat /\ r * s <= R * s /\ R * s \in Nat
  BY <1>1, Multiply
<1>4. N \in Int
  BY <1>2, <1>3
<1> HIDE DEF D
<1>5. N <= e * D
  <2>1. (D - r * s) * e <= D * e
    BY <1>2, <1>3, Multiply
  <2> QED BY <1>2, <1>3, <2>1
<1>6. N >= R * (e * (S - s))
  <2>1. D - r * s >= R * (S - s) /\ R * (S - s) \in Int
    BY <1>1, <1>2, <1>3 DEF D
  <2>2. (R * (S - s)) * e <= (D - r * s) * e
    BY <1>2, <1>3, <2>1, Multiply
  <2>3. (R * (S - s)) * e = R * (e * (S - s))
    BY <1>1
  <2> QED BY <1>2, <1>3, <2>2, <2>3
<1> HIDE DEF N
<1>7. x \in Int /\ 2 * (D * x) <= 2 * N + D /\ 2 * N < 2 * (D * x) + D
  BY <1>2, <1>4, RoundedAt
<1>8. x <= e
  <2> SUFFICES ASSUME e + 1 <= x
               PROVE  FALSE
    BY <1>7
  <2>1. (e + 1) * D <= x * D
    BY <1>2, <1>7, Multiply
  <2>2. e * D + D <= D * x
    BY <1>2, <1>7, <2>1
  <2> QED BY <1>2, <1>4, <1>5, <1>7, <2>2
<1>9. 2 * (e * (S - s)) < 2 * (S * x) + S
  <2>1. 2 * (R * (e * (S - s))) < 2 * (D * x) + D
    BY <1>1, <1>2, <1>4, <1>6, <1>7
  <2>2. 2 * (R * (e * (S - s))) = (2 * (e * (S - s))) * R
    BY <1>1
  <2>3. 2 * (D * x) + D = (2 * (S * x) + S) * R
    BY <1>1, <1>7 DEF D
  <2>4. 2 * (e * (S - s)) \in Int /\ 2 * (S * x) + S \in Int
    BY <1>1, <1>7
  <2> QED BY <1>1, <2>1, <2>2, <2>3, <2>4, Cancel
<1> QED BY <1>7, <1>8, <1>9 DEF x, S

-----------------------------------------------------------------------------
(* The draws of a call *)

(* The venue that ends first gets the third draw, the other the fourth.     *)
LEMMA SeededAt ==
  ASSUME NEW x \in 0..(Modulus - 1), NEW f \in Venue
  PROVE  LET s3 == NextSeed(NextSeed(NextSeed(x)))
         IN /\ QuotesInOrder(x, f) \in [Venue -> Nat]
            /\ QuotesInOrder(x, f)[f] = QuotedPrice(f, s3)
            /\ \A v \in Venue \ {f} : QuotesInOrder(x, f)[v] = QuotedPrice(v, NextSeed(s3))
<1> DEFINE s3 == NextSeed(NextSeed(NextSeed(x)))
           s4 == NextSeed(s3)
<1>1. s3 \in 0..(Modulus - 1) /\ s4 \in 0..(Modulus - 1)
  BY SeedFollows
<1>2. \A v \in Venue : QuotedPrice(v, s3) \in Nat /\ QuotedPrice(v, s4) \in Nat
  BY <1>1, QuotePositive
<1>3. QuotesInOrder(x, f) = [v \in Venue |-> QuotedPrice(v, IF v = f THEN s3 ELSE s4)]
  BY DEF QuotesInOrder
<1> HIDE DEF s3, s4
<1>4. \A v \in Venue : QuotedPrice(v, IF v = f THEN s3 ELSE s4)
                        = IF v = f THEN QuotedPrice(v, s3) ELSE QuotedPrice(v, s4)
  OBVIOUS
<1>5. \A v \in Venue : QuotedPrice(v, IF v = f THEN s3 ELSE s4) \in Nat
  BY <1>2, <1>4
<1> QED BY <1>3, <1>4, <1>5 DEF s3, s4

(* Call c is quoted alone: where it is with its draws. *)
InOrder(c) ==
  LET k == call[c]
      s2 == NextSeed(NextSeed(k.start))
  IN
  /\ Quoting = {c}
  /\ k.sleep["raydium"] = Sleep(NextSeed(k.start)) /\ k.sleep["meteora"] = Sleep(s2)
  /\ \/ (\A v \in Venue : ~Drawn(c, v)) /\ seed = s2
     \/ \E f \in Ahead(k.start) :
          \/ /\ \A v \in Venue : Drawn(c, v) <=> v = f
             /\ k.price[f] = QuotesInOrder(k.start, f)[f] /\ seed = NextSeed(s2)
          \/ \A v \in Venue : Drawn(c, v) /\ k.price[v] = QuotesInOrder(k.start, f)[v]

(* DrawsInOrder says so of the calls that are. *)
LEMMA InOrderNow ==
  DrawsInOrder <=> \A c \in Calls : call[c].pc = "quoting" /\ call[c].alone => InOrder(c)
BY DEF DrawsInOrder, InOrder

(* The same after a step. *)
LEMMA InOrderNext ==
  DrawsInOrder' <=>
    \A c \in Calls : call'[c].pc = "quoting" /\ call'[c].alone => InOrder(c)'
BY DEF DrawsInOrder, InOrder

-----------------------------------------------------------------------------
(* The steps *)

(* A call that has not started. *)
LEMMA UnpricedIsAttempt == Unpriced \in Attempt
<1>1. 0 \in 0..(Modulus - 1) /\ [v \in Venue |-> 0] \in [Venue -> Nat]
  BY Sizes
<1> QED BY <1>1 DEF Unpriced, Attempt

(* Nothing is drawn in the beginning. *)
LEMMA InitSafe == Init => IInv
<1> SUFFICES ASSUME Init
             PROVE  IInv
  OBVIOUS
<1>1. /\ Unpriced.pc = "new" /\ Unpriced.start = 0 /\ Unpriced.alone = TRUE
      /\ Unpriced.sleep = [v \in Venue |-> 0] /\ Unpriced.price = [v \in Venue |-> 0]
      /\ Unpriced.dex = "none" /\ Unpriced.slippage = 0 /\ Unpriced.executed = 0
  BY DEF Unpriced
<1>2. Unpriced \in Attempt
  BY UnpricedIsAttempt
<1>3. \A c \in Calls : call[c] = Unpriced
  BY DEF Init
<1>4. TypeOK
  BY <1>2 DEF Init, TypeOK
<1>5. Chosen
  <2>1. \A c \in Calls : call[c].pc = "new"
    BY <1>1, <1>3
  <2>2. \A c \in Calls : \A v \in Venue : call[c].price[v] = 0
    BY <1>1, <1>3
  <2> QED BY <2>1, <2>2 DEF Chosen, Drawn
<1>6. Executed
  <2>1. \A c \in Calls : call[c].pc \notin {"filled", "failed"}
    BY <1>1, <1>3
  <2> QED BY <2>1 DEF Executed
<1>7. DrawsInOrder
  <2>1. \A c \in Calls : call[c].pc # "quoting"
    BY <1>1, <1>3
  <2> QED BY <2>1 DEF DrawsInOrder
<1>8. SeededWhenAlone
  BY <1>1, <1>3 DEF SeededWhenAlone
<1> QED BY <1>4, <1>5, <1>6, <1>7, <1>8 DEF IInv

(* A call that starts draws two sleeps, and no other call is alone now.     *)
LEMMA GetQuotesSafe ==
  ASSUME IInv, NEW c \in Calls, GetQuotes(c)
  PROVE  IInv'
<1> DEFINE s1 == NextSeed(seed)
           s2 == NextSeed(s1)
           lone == Quoting = {}
<1>1. seed \in 0..(Modulus - 1) /\ s1 \in 0..(Modulus - 1) /\ s2 \in 0..(Modulus - 1)
  BY SeedFollows DEF IInv, TypeOK
<1>2. PICK s \in Slippages :
        call' = [d \in Calls |->
          IF d = c
          THEN [Unpriced EXCEPT !.pc = "quoting", !.start = seed, !.slippage = s,
                                !.alone = lone,
                                !.sleep = [raydium |-> Sleep(s1),
                                           meteora |-> Sleep(s2)]]
          ELSE IF d \in Quoting THEN [call[d] EXCEPT !.alone = FALSE] ELSE call[d]]
  BY DEF GetQuotes
<1>3. seed' = s2 /\ call[c].pc = "new" /\ lone \in BOOLEAN
  BY DEF GetQuotes
<1> DEFINE sleeps == [raydium |-> Sleep(s1), meteora |-> Sleep(s2)]
           n == [Unpriced EXCEPT !.pc = "quoting", !.start = seed, !.slippage = s,
                                 !.alone = lone, !.sleep = sleeps]
<1>4. /\ sleeps \in [Venue -> Nat]
      /\ sleeps["raydium"] = Sleep(s1) /\ sleeps["meteora"] = Sleep(s2)
  BY <1>1, SleepLasts DEF Venue
<1> HIDE DEF sleeps, lone
<1>5. /\ n.pc = "quoting" /\ n.start = seed /\ n.slippage = s /\ n.alone = lone
      /\ n.sleep = sleeps /\ n.price = [v \in Venue |-> 0]
      /\ n.dex = "none" /\ n.executed = 0
  BY DEF Unpriced
<1>6. n \in Attempt
  <2>1. ASSUME NEW u \in Attempt, NEW x \in 0..(Modulus - 1), NEW a \in BOOLEAN,
               NEW w \in [Venue -> Nat]
        PROVE  [u EXCEPT !.pc = "quoting", !.start = x, !.slippage = s, !.alone = a,
                         !.sleep = w] \in Attempt
    BY DEF Attempt
  <2> QED BY <1>1, <1>3, <1>4, <2>1, UnpricedIsAttempt
<1>7. call'[c] = n
  BY <1>2 DEF sleeps
<1> HIDE DEF n
<1>8. ASSUME NEW d \in Calls \ {c}
      PROVE  /\ call'[d] \in Attempt
             /\ call'[d].pc = call[d].pc /\ call'[d].price = call[d].price
             /\ call'[d].dex = call[d].dex /\ call'[d].slippage = call[d].slippage
             /\ call'[d].executed = call[d].executed /\ call'[d].start = call[d].start
             /\ call[d].pc = "quoting" => call'[d].alone = FALSE
             /\ call[d].pc # "quoting" => call'[d].alone = call[d].alone
  <2>1. call[d] \in Attempt
    BY DEF IInv, TypeOK
  <2>2. CASE d \in Quoting
    <3>1. call'[d] = [call[d] EXCEPT !.alone = FALSE]
      BY <1>2, <2>2
    <3>2. call[d].pc = "quoting"
      BY <2>2 DEF Quoting
    <3>3. /\ call'[d] \in Attempt /\ call'[d].alone = FALSE
          /\ call'[d].pc = call[d].pc /\ call'[d].price = call[d].price
          /\ call'[d].dex = call[d].dex /\ call'[d].slippage = call[d].slippage
          /\ call'[d].executed = call[d].executed /\ call'[d].start = call[d].start
      BY <2>1, <3>1 DEF Attempt
    <3> QED BY <3>2, <3>3
  <2>3. CASE d \notin Quoting
    <3>1. call'[d] = call[d]
      BY <1>2, <2>3
    <3> QED BY <2>1, <2>3, <3>1 DEF Quoting
  <2> QED BY <2>2, <2>3
<1>9. TypeOK'
  <2>1. \A d \in Calls : call'[d] \in Attempt
    BY <1>6, <1>7, <1>8
  <2>2. call' = [d \in Calls |-> call'[d]]
    BY <1>2
  <2> QED BY <1>1, <1>3, <2>1, <2>2 DEF TypeOK
<1>10. Chosen'
  <2>1. ASSUME NEW d \in Calls
        PROVE  /\ call'[d].pc = "new" => \A v \in Venue : ~Drawn(d, v)'
               /\ call'[d].pc \notin {"new", "quoting"} =>
                    /\ \A v \in Venue : Drawn(d, v)'
                    /\ call'[d].dex = SelectBestDex(call'[d].price)
    <3>1. CASE d = c
      BY <1>5, <1>7, <3>1
    <3>2. CASE d # c
      <4>1. /\ call'[d].pc = call[d].pc /\ call'[d].price = call[d].price
            /\ call'[d].dex = call[d].dex
        BY <1>8, <3>2
      <4> QED BY <4>1 DEF IInv, Chosen, Drawn
    <3> QED BY <3>1, <3>2
  <2> QED BY <2>1 DEF Chosen
<1>11. Executed'
  <2>1. ASSUME NEW d \in Calls, call'[d].pc \in {"filled", "failed"}
        PROVE  \E r \in Randoms :
                 call'[d].executed =
                   ExecutedPrice(call'[d].price[call'[d].dex], call'[d].slippage, r)
    <3>1. d # c
      BY <1>5, <1>7, <2>1
    <3> QED BY <1>8, <2>1, <3>1 DEF IInv, Executed
  <2> QED BY <2>1 DEF Executed
<1>12. DrawsInOrder'
  <2> SUFFICES ASSUME NEW d \in Calls, call'[d].pc = "quoting", call'[d].alone
               PROVE  InOrder(d)'
    BY InOrderNext
  <2>1. d = c
    BY <1>8
  <2>2. \A e \in Calls : call'[e].pc = "quoting" => e = c
    <3>1. Quoting = {}
      BY <1>5, <1>7, <2>1 DEF lone
    <3> QED BY <1>8, <3>1 DEF Quoting
  <2>3. Quoting' = {c}
    BY <1>5, <1>7, <2>2 DEF Quoting
  <2>4. \A v \in Venue : ~Drawn(c, v)'
    BY <1>5, <1>7 DEF Drawn
  <2> QED BY <1>3, <1>4, <1>5, <1>7, <2>1, <2>3, <2>4 DEF InOrder
<1>13. SeededWhenAlone'
  <2>1. ASSUME NEW d \in Calls, call'[d].pc \notin {"new", "quoting"}, call'[d].alone
        PROVE  \E f \in Ahead(call'[d].start) :
                 call'[d].price = QuotesInOrder(call'[d].start, f)
    <3>1. d # c
      BY <1>5, <1>7, <2>1
    <3>2. /\ call[d].pc \notin {"new", "quoting"} /\ call[d].alone
          /\ call'[d].start = call[d].start /\ call'[d].price = call[d].price
      BY <1>8, <2>1, <3>1
    <3>3. \E f \in Ahead(call[d].start) : call[d].price = QuotesInOrder(call[d].start, f)
      BY <3>2 DEF IInv, SeededWhenAlone
    <3> QED BY <3>2, <3>3
  <2> QED BY <2>1 DEF SeededWhenAlone
<1> QED BY <1>9, <1>10, <1>11, <1>12, <1>13 DEF IInv

(* A simulator that wakes draws the price of its venue, out of turn only    *)
(* for a call that is not alone.                                            *)
LEMMA QuoteSafe ==
  ASSUME IInv, NEW c \in Calls, NEW v \in Venue, Quote(c, v)
  PROVE  IInv'
<1> DEFINE x == NextSeed(seed)
           q == QuotedPrice(v, x)
<1>1. /\ seed \in 0..(Modulus - 1) /\ x \in 0..(Modulus - 1)
      /\ call \in [Calls -> Attempt] /\ call[c] \in Attempt
  BY SeedFollows DEF IInv, TypeOK
<1>2. q \in Nat \ {0}
  BY <1>1, QuotePositive
<1>3. /\ call[c].pc = "quoting" /\ Wakes(c, v) /\ seed' = x
      /\ call' = [call EXCEPT ![c].price[v] = q]
  BY DEF Quote
<1> HIDE DEF x, q
<1>4. /\ call'[c] \in Attempt
      /\ call'[c].pc = call[c].pc /\ call'[c].start = call[c].start
      /\ call'[c].alone = call[c].alone /\ call'[c].sleep = call[c].sleep
      /\ call'[c].price = [call[c].price EXCEPT ![v] = q]
  <2>1. [call[c].price EXCEPT ![v] = q] \in [Venue -> Nat]
    BY <1>1, <1>2 DEF Attempt
  <2>2. call'[c] = [call[c] EXCEPT !.price = [call[c].price EXCEPT ![v] = q]]
    BY <1>1, <1>3
  <2> QED BY <1>1, <2>1, <2>2 DEF Attempt
<1>5. \A d \in Calls \ {c} : call'[d] = call[d]
  BY <1>1, <1>3
<1>6. /\ call'[c].price[v] = q
      /\ \A u \in Venue \ {v} : call'[c].price[u] = call[c].price[u]
  BY <1>1, <1>4 DEF Attempt
<1>7. TypeOK'
  <2>1. \A d \in Calls : call'[d] \in Attempt
    BY <1>1, <1>4, <1>5
  <2>2. call' = [d \in Calls |-> call'[d]]
    BY <1>1, <1>3
  <2> QED BY <1>1, <1>3, <2>1, <2>2 DEF TypeOK
<1>8. Chosen'
  <2>1. ASSUME NEW d \in Calls
        PROVE  /\ call'[d].pc = "new" => \A u \in Venue : ~Drawn(d, u)'
               /\ call'[d].pc \notin {"new", "quoting"} =>
                    /\ \A u \in Venue : Drawn(d, u)'
                    /\ call'[d].dex = SelectBestDex(call'[d].price)
    <3>1. CASE d = c
      BY <1>3, <1>4, <3>1
    <3>2. CASE d # c
      <4>1. call'[d] = call[d]
        BY <1>5, <3>2
      <4> QED BY <4>1 DEF IInv, Chosen, Drawn
    <3> QED BY <3>1, <3>2
  <2> QED BY <2>1 DEF Chosen
<1>9. Executed'
  <2>1. ASSUME NEW d \in Calls, call'[d].pc \in {"filled", "failed"}
        PROVE  \E r \in Randoms :
                 call'[d].executed =
                   ExecutedPrice(call'[d].price[call'[d].dex], call'[d].slippage, r)
    <3>1. call'[d] = call[d]
      BY <1>3, <1>4, <1>5, <2>1
    <3> QED BY <2>1, <3>1 DEF IInv, Executed
  <2> QED BY <2>1 DEF Executed
<1>10. DrawsInOrder'
  <2> SUFFICES ASSUME NEW d \in Calls, call'[d].pc = "quoting", call'[d].alone
               PROVE  InOrder(d)'
    BY InOrderNext
  <2>1. call[d].pc = "quoting" /\ call[d].alone
    BY <1>4, <1>5
  <2>2. InOrder(d)
    BY <2>1, InOrderNow DEF IInv
  <2>3. d = c
    <3>1. c \in Quoting
      BY <1>3 DEF Quoting
    <3> QED BY <2>2, <3>1 DEF InOrder
  <2> DEFINE s0 == call[c].start
             s1 == NextSeed(s0)
             s2 == NextSeed(s1)
             s3 == NextSeed(s2)
             s4 == NextSeed(s3)
             Q(f) == QuotesInOrder(s0, f)
  <2>4. Quoting' = {c}
    <3>1. \A e \in Calls : call'[e].pc = call[e].pc
      BY <1>4, <1>5
    <3> QED BY <2>2, <2>3, <3>1 DEF InOrder, Quoting
  <2>5. call[c].sleep["raydium"] = Sleep(s1) /\ call[c].sleep["meteora"] = Sleep(s2)
    BY <2>2, <2>3 DEF InOrder
  <2>6. \A f \in Venue : /\ Q(f)[f] = QuotedPrice(f, s3)
                        /\ \A u \in Venue \ {f} : Q(f)[u] = QuotedPrice(u, s4)
    <3>1. s0 \in 0..(Modulus - 1)
      BY <1>1 DEF Attempt
    <3> QED BY <3>1, SeededAt
  <2>7. Ahead(s0) = {u \in Venue : EndsFirst(u, Sleep(s1), Sleep(s2))}
    BY DEF Ahead
  <2> HIDE DEF s0, s1, s2, s3, s4, Q
  <2>9. \A u \in Venue : Drawn(c, u)' <=> u = v \/ Drawn(c, u)
    BY <1>2, <1>6 DEF Drawn
  <2>10. ~Drawn(c, v)
    BY <1>3 DEF Wakes
  <2>14. /\ Quoting' = {c}
         /\ call'[c].sleep["raydium"] = Sleep(NextSeed(call'[c].start))
         /\ call'[c].sleep["meteora"] = Sleep(NextSeed(NextSeed(call'[c].start)))
    BY <1>4, <2>4, <2>5 DEF s0, s1, s2
  <2>11. CASE (\A u \in Venue : ~Drawn(c, u)) /\ seed = s2
    <3>1. v \in Ahead(s0)
      BY <1>3, <2>5, <2>7, <2>11 DEF Wakes
    <3>2. call'[c].price[v] = Q(v)[v] /\ seed' = s3
      BY <1>3, <1>6, <2>6, <2>11 DEF x, q, s3
    <3>3. \A u \in Venue : Drawn(c, u)' <=> u = v
      BY <2>9, <2>11
    <3>4. \E f \in Ahead(call'[c].start) :
            /\ \A u \in Venue : Drawn(c, u)' <=> u = f
            /\ call'[c].price[f] = QuotesInOrder(call'[c].start, f)[f]
            /\ seed' = NextSeed(NextSeed(NextSeed(call'[c].start)))
      BY <1>4, <3>1, <3>2, <3>3 DEF s0, s1, s2, s3, Q
    <3> QED BY <2>3, <2>14, <3>4 DEF InOrder
  <2>12. ASSUME NEW f \in Ahead(s0), \A u \in Venue : Drawn(c, u) <=> u = f,
                call[c].price[f] = Q(f)[f], seed = s3
         PROVE  InOrder(d)'
    <3>1. f \in Venue /\ v # f /\ \A u \in Venue : u = v \/ u = f
      BY <2>7, <2>10, <2>12 DEF Venue
    <3>2. call'[c].price[v] = Q(f)[v] /\ call'[c].price[f] = Q(f)[f]
      BY <1>6, <2>6, <2>12, <3>1 DEF x, q, s4
    <3>3. \A u \in Venue : Drawn(c, u)' /\ call'[c].price[u] = Q(f)[u]
      BY <2>9, <2>12, <3>1, <3>2
    <3>4. \E g \in Ahead(call'[c].start) : \A u \in Venue :
            Drawn(c, u)' /\ call'[c].price[u] = QuotesInOrder(call'[c].start, g)[u]
      BY <1>4, <3>3 DEF s0, Q
    <3> QED BY <2>3, <2>14, <3>4 DEF InOrder
  <2>13. CASE \A u \in Venue : Drawn(c, u)
    BY <2>10, <2>13
  <2> QED BY <2>2, <2>3, <2>11, <2>12, <2>13 DEF InOrder, s0, s1, s2, s3, Q
<1>11. SeededWhenAlone'
  <2>1. ASSUME NEW d \in Calls, call'[d].pc \notin {"new", "quoting"}, call'[d].alone
        PROVE  \E f \in Ahead(call'[d].start) :
                 call'[d].price = QuotesInOrder(call'[d].start, f)
    <3>1. call'[d] = call[d]
      BY <1>3, <1>4, <1>5, <2>1
    <3> QED BY <2>1, <3>1 DEF IInv, SeededWhenAlone
  <2> QED BY <2>1 DEF SeededWhenAlone
<1> QED BY <1>7, <1>8, <1>9, <1>10, <1>11 DEF IInv

(* A call whose prices are there is no longer quoted; the others stay.      *)
LEMMA ChooseSafe ==
  ASSUME IInv, NEW c \in Calls, Choose(c)
  PROVE  IInv'
<1> DEFINE best == SelectBestDex(call[c].price)
<1>1. /\ seed \in 0..(Modulus - 1)
      /\ call \in [Calls -> Attempt] /\ call[c] \in Attempt
  BY DEF IInv, TypeOK
<1>2. /\ call[c].pc = "quoting" /\ \A v \in Venue : Drawn(c, v)
      /\ call' = [call EXCEPT ![c].pc = "swapping", ![c].dex = best] /\ seed' = seed
  BY DEF Choose
<1>3. best \in Venue
  BY DEF SelectBestDex, Venue
<1> HIDE DEF best
<1>4. /\ call'[c] \in Attempt
      /\ call'[c].pc = "swapping" /\ call'[c].dex = best /\ call'[c].price = call[c].price
      /\ call'[c].start = call[c].start /\ call'[c].alone = call[c].alone
  BY <1>1, <1>2, <1>3 DEF Attempt
<1>5. \A d \in Calls \ {c} : call'[d] = call[d]
  BY <1>1, <1>2
<1>6. TypeOK'
  <2>1. \A d \in Calls : call'[d] \in Attempt
    BY <1>1, <1>4, <1>5
  <2>2. call' = [d \in Calls |-> call'[d]]
    BY <1>1, <1>2
  <2> QED BY <1>1, <1>2, <2>1, <2>2 DEF TypeOK
<1>7. Chosen'
  <2>1. ASSUME NEW d \in Calls
        PROVE  /\ call'[d].pc = "new" => \A u \in Venue : ~Drawn(d, u)'
               /\ call'[d].pc \notin {"new", "quoting"} =>
                    /\ \A u \in Venue : Drawn(d, u)'
                    /\ call'[d].dex = SelectBestDex(call'[d].price)
    <3>1. CASE d = c
      BY <1>2, <1>4, <3>1 DEF Drawn, best
    <3>2. CASE d # c
      <4>1. call'[d] = call[d]
        BY <1>5, <3>2
      <4> QED BY <4>1 DEF IInv, Chosen, Drawn
    <3> QED BY <3>1, <3>2
  <2> QED BY <2>1 DEF Chosen
<1>8. Executed'
  <2>1. ASSUME NEW d \in Calls, call'[d].pc \in {"filled", "failed"}
        PROVE  \E r \in Randoms :
                 call'[d].executed =
                   ExecutedPrice(call'[d].price[call'[d].dex], call'[d].slippage, r)
    <3>1. call'[d] = call[d]
      BY <1>4, <1>5, <2>1
    <3> QED BY <2>1, <3>1 DEF IInv, Executed
  <2> QED BY <2>1 DEF Executed
<1>9. DrawsInOrder'
  <2> SUFFICES ASSUME NEW d \in Calls, call'[d].pc = "quoting", call'[d].alone
               PROVE  FALSE
    BY InOrderNext
  <2>1. d # c /\ call[d].pc = "quoting" /\ call[d].alone
    BY <1>4, <1>5
  <2>2. InOrder(d) /\ c \in Quoting
    BY <1>2, <2>1, InOrderNow DEF IInv, Quoting
  <2> QED BY <2>1, <2>2 DEF InOrder
<1>10. SeededWhenAlone'
  <2>1. ASSUME NEW d \in Calls, call'[d].pc \notin {"new", "quoting"}, call'[d].alone
        PROVE  \E f \in Ahead(call'[d].start) :
                 call'[d].price = QuotesInOrder(call'[d].start, f)
    <3>1. CASE d # c
      <4>1. call'[d] = call[d]
        BY <1>5, <3>1
      <4> QED BY <2>1, <4>1 DEF IInv, SeededWhenAlone
    <3>2. CASE d = c
      <4>1. InOrder(c)
        BY <1>2, <1>4, <2>1, <3>2, InOrderNow DEF IInv
      <4>2. call[c].start \in 0..(Modulus - 1) /\ call[c].price \in [Venue -> Nat]
        BY <1>1 DEF Attempt
      <4>3. \A f \in Venue : \E v \in Venue : v # f
        BY DEF Venue
      <4>4. PICK f \in Ahead(call[c].start) :
              \A v \in Venue : call[c].price[v] = QuotesInOrder(call[c].start, f)[v]
        <5>1. Ahead(call[c].start) \subseteq Venue
          BY DEF Ahead
        <5>2. \A f \in Ahead(call[c].start) : ~(\A v \in Venue : Drawn(c, v) <=> v = f)
          BY <1>2, <4>3, <5>1
        <5>3. ~(\A v \in Venue : ~Drawn(c, v))
          BY <1>2 DEF Venue
        <5> QED BY <4>1, <5>2, <5>3 DEF InOrder
      <4>5. QuotesInOrder(call[c].start, f) \in [Venue -> Nat]
        BY <4>2, SeededAt DEF Ahead
      <4>6. call[c].price = QuotesInOrder(call[c].start, f)
        BY <4>2, <4>4, <4>5
      <4> QED BY <1>4, <3>2, <4>6
    <3> QED BY <3>1, <3>2
  <2> QED BY <2>1 DEF SeededWhenAlone
<1> QED BY <1>6, <1>7, <1>8, <1>9, <1>10 DEF IInv

(* The swap notes the price it drew, and nothing else but its verdict.      *)
LEMMA ExecuteSwapSafe ==
  ASSUME IInv, NEW c \in Calls, ExecuteSwap(c)
  PROVE  IInv'
<1> DEFINE expected == call[c].price[call[c].dex]
           passes(y) == Passes(expected, y, call[c].slippage)
<1>1. /\ seed \in 0..(Modulus - 1)
      /\ call \in [Calls -> Attempt] /\ call[c] \in Attempt
  BY DEF IInv, TypeOK
<1>2. call[c].pc = "swapping" /\ seed' = seed
  BY DEF ExecuteSwap
<1>3. PICK y :
        /\ \E r \in Randoms : y = ExecutedPrice(expected, call[c].slippage, r)
        /\ call' = [call EXCEPT ![c].executed = y,
                                ![c].pc = IF passes(y) THEN "filled" ELSE "failed"]
  BY DEF ExecuteSwap
<1>4. y \in Int
  <2>1. call[c].dex \in Venue
    BY <1>2 DEF IInv, Chosen, SelectBestDex, Venue
  <2>2. expected \in Nat /\ call[c].slippage \in Slippages \cup {0}
    BY <1>1, <2>1 DEF Attempt
  <2> QED BY <1>3, <2>2, ExecutedWithin
<1>5. /\ call'[c] \in Attempt /\ call'[c].pc \in {"filled", "failed"}
      /\ call'[c].executed = y /\ call'[c].slippage = call[c].slippage
      /\ call'[c].dex = call[c].dex /\ call'[c].price = call[c].price
      /\ call'[c].start = call[c].start /\ call'[c].alone = call[c].alone
  <2>1. PICK l \in {"filled", "failed"} :
          call' = [call EXCEPT ![c].executed = y, ![c].pc = l]
    BY <1>3
  <2> QED BY <1>1, <1>4, <2>1 DEF Attempt
<1>6. \A d \in Calls \ {c} : call'[d] = call[d]
  BY <1>1, <1>3
<1>7. TypeOK'
  <2>1. \A d \in Calls : call'[d] \in Attempt
    BY <1>1, <1>5, <1>6
  <2>2. call' = [d \in Calls |-> call'[d]]
    BY <1>1, <1>3
  <2> QED BY <1>1, <1>2, <2>1, <2>2 DEF TypeOK
<1>8. Chosen'
  <2>1. ASSUME NEW d \in Calls
        PROVE  /\ call'[d].pc = "new" => \A u \in Venue : ~Drawn(d, u)'
               /\ call'[d].pc \notin {"new", "quoting"} =>
                    /\ \A u \in Venue : Drawn(d, u)'
                    /\ call'[d].dex = SelectBestDex(call'[d].price)
    <3>1. CASE d = c
      BY <1>2, <1>5, <3>1 DEF IInv, Chosen, Drawn
    <3>2. CASE d # c
      <4>1. call'[d] = call[d]
        BY <1>6, <3>2
      <4> QED BY <4>1 DEF IInv, Chosen, Drawn
    <3> QED BY <3>1, <3>2
  <2> QED BY <2>1 DEF Chosen
<1>9. Executed'
  <2>1. ASSUME NEW d \in Calls, call'[d].pc \in {"filled", "failed"}
        PROVE  \E rr \in Randoms :
                 call'[d].executed =
                   ExecutedPrice(call'[d].price[call'[d].dex], call'[d].slippage, rr)
    <3>1. CASE d # c
      <4>1. call'[d] = call[d]
        BY <1>6, <3>1
      <4> QED BY <2>1, <4>1 DEF IInv, Executed
    <3>2. CASE d = c
      BY <1>3, <1>5, <3>2
    <3> QED BY <3>1, <3>2
  <2> QED BY <2>1 DEF Executed
<1>10. DrawsInOrder'
  <2> SUFFICES ASSUME NEW d \in Calls, call'[d].pc = "quoting", call'[d].alone
               PROVE  InOrder(d)'
    BY InOrderNext
  <2>1. d # c /\ call'[d] = call[d]
    BY <1>5, <1>6
  <2>2. InOrder(d)
    BY <2>1, InOrderNow DEF IInv
  <2>3. Quoting' = Quoting
    BY <1>2, <1>5, <1>6 DEF Quoting
  <2> QED BY <1>2, <2>1, <2>2, <2>3 DEF InOrder, Drawn
<1>11. SeededWhenAlone'
  <2>1. ASSUME NEW d \in Calls, call'[d].pc \notin {"new", "quoting"}, call'[d].alone
        PROVE  \E f \in Ahead(call'[d].start) :
                 call'[d].price = QuotesInOrder(call'[d].start, f)
    <3>1. CASE d # c
      <4>1. call'[d] = call[d]
        BY <1>6, <3>1
      <4> QED BY <2>1, <4>1 DEF IInv, SeededWhenAlone
    <3>2. CASE d = c
      BY <1>2, <1>5, <2>1, <3>2 DEF IInv, SeededWhenAlone
    <3> QED BY <3>1, <3>2
  <2> QED BY <2>1 DEF SeededWhenAlone
<1> QED BY <1>7, <1>8, <1>9, <1>10, <1>11 DEF IInv

(* Every step keeps the invariant. *)
LEMMA NextSafe == IInv /\ [Next]_vars => IInv'
<1> SUFFICES ASSUME IInv, [Next]_vars
             PROVE  IInv'
  OBVIOUS
<1>1. CASE UNCHANGED vars
  BY <1>1 DEF vars, IInv, TypeOK, Chosen, Executed, DrawsInOrder, SeededWhenAlone,
              Drawn, Quoting
<1> QED BY <1>1, GetQuotesSafe, QuoteSafe, ChooseSafe, ExecuteSwapSafe DEF Next

-----------------------------------------------------------------------------
(* The theorems *)

(* The invariant of the calls that are priced. *)
THEOREM Invariance == Spec => []IInv
BY InitSafe, NextSafe, PTL DEF Spec

(* Quotes follow from the seed, and from which venue answers first where    *)
(* both may, when no other call is quoted side by side.                     *)
THEOREM SeedRepeats == Spec => []SeededWhenAlone
<1>1. IInv => SeededWhenAlone
  BY DEF IInv
<1> QED BY <1>1, Invariance, PTL

(* What the swap of a call executed, against what was expected. *)
LEMMA SwapWithin ==
  ASSUME IInv, NEW c \in Calls, call[c].pc \in {"filled", "failed"}
  PROVE  LET k == call[c]
             e == k.price[k.dex]
         IN /\ k.dex \in Venue /\ k.dex = SelectBestDex(k.price)
            /\ \A v \in Venue : k.price[v] \in Nat
            /\ k.slippage \in Nat /\ k.slippage <= SlippageScale
            /\ k.executed \in Int /\ k.executed <= e
            /\ 2 * (e * (SlippageScale - k.slippage))
                 < 2 * (SlippageScale * k.executed) + SlippageScale
<1>1. call[c] \in Attempt
  BY DEF IInv, TypeOK
<1>2. call[c].dex \in Venue /\ call[c].dex = SelectBestDex(call[c].price)
  BY DEF IInv, Chosen, SelectBestDex, Venue
<1>3. /\ \A v \in Venue : call[c].price[v] \in Nat
      /\ call[c].slippage \in Slippages \cup {0}
  BY <1>1 DEF Attempt
<1>4. call[c].slippage \in Nat /\ call[c].slippage <= SlippageScale
  <2>1. \A s \in Slippages \cup {0} : s \in Nat /\ s <= SlippageScale
    <3>1. SlippageScale \div 2 <= SlippageScale
      BY Sizes
    <3> QED BY <3>1, DexAssumption DEF DexAssumption
  <2> QED BY <1>3, <2>1
<1>5. PICK r \in Randoms :
        call[c].executed = ExecutedPrice(call[c].price[call[c].dex], call[c].slippage, r)
  BY DEF IInv, Executed
<1> QED BY <1>2, <1>3, <1>4, <1>5, ExecutedWithin

(* A fill is as good as the best quote after fees, less the tolerance and   *)
(* half a unit.                                                             *)
THEOREM FillsAreBest == Spec => []BestExecution
<1>1. IInv => BestExecution
  <2> SUFFICES ASSUME IInv, NEW c \in Calls, call[c].pc = "filled", NEW v \in Venue
               PROVE  2 * SlippageScale * Net(call[c].dex, call[c].executed)
                        >= 2 * (SlippageScale - call[c].slippage)
                              * Net(v, call[c].price[v])
                             - SlippageScale * (1000 - Fee[call[c].dex])
    BY DEF BestExecution
  <2> DEFINE S == SlippageScale
             dex == call[c].dex
             s == call[c].slippage
             x == call[c].executed
             e == call[c].price[dex]
             p == call[c].price[v]
             f == 1000 - Fee[dex]
             g == 1000 - Fee[v]
  <2>1. /\ dex \in Venue /\ dex = SelectBestDex(call[c].price)
        /\ p \in Nat /\ e \in Nat /\ s \in Nat /\ s <= S /\ x \in Int
        /\ 2 * (e * (S - s)) < 2 * (S * x) + S
    BY SwapWithin
  <2>2. f \in Nat /\ g \in Nat /\ S \in Nat /\ S - s \in Nat
    BY <2>1, Sizes DEF Venue, Fee
  <2>3. p * g <= e * f
    BY <2>1 DEF SelectBestDex, Net, Venue, Fee
  <2> HIDE DEF S, dex, s, x, e, p, f, g
  <2>4. (p * g) * (S - s) <= (e * f) * (S - s)
    BY <2>1, <2>2, <2>3, Multiply
  <2>5. (2 * (e * (S - s))) * f <= (2 * (S * x) + S) * f
    BY <2>1, <2>2, Multiply
  <2>6. (e * f) * (S - s) = (e * (S - s)) * f
    BY <2>1, <2>2
  <2>7. (2 * (S * x) + S) * f = 2 * S * (x * f) + S * f
    BY <2>1, <2>2
  <2>8. 2 * (S - s) * (p * g) = 2 * ((p * g) * (S - s))
    BY <2>1, <2>2
  <2>9. (2 * (e * (S - s))) * f = 2 * ((e * (S - s)) * f)
    BY <2>1, <2>2
  <2>10. 2 * S * (x * f) >= 2 * (S - s) * (p * g) - S * f
    <3>1. (e * (S - s)) * f \in Int /\ (p * g) * (S - s) \in Int /\ S * f \in Int
          /\ 2 * S * (x * f) \in Int
      BY <2>1, <2>2
    <3> QED BY <2>4, <2>5, <2>6, <2>7, <2>8, <2>9, <3>1
  <2> QED BY <2>10 DEF Net, S, dex, s, x, e, p, f, g
<1> QED BY <1>1, Invariance, PTL

(* A swap is refused for the rounding of its price alone. *)
THEOREM RefusedForRounding == Spec => []SlippageFailsOnlyByRounding
<1>1. IInv => SlippageFailsOnlyByRounding
  <2> SUFFICES ASSUME IInv, NEW c \in Calls, call[c].pc = "failed"
               PROVE  2 * (Distance(call[c].price[call[c].dex], call[c].executed)
                             * SlippageScale
                           - call[c].slippage * call[c].price[call[c].dex])
                        <= SlippageScale
    BY DEF SlippageFailsOnlyByRounding
  <2> DEFINE S == SlippageScale
             s == call[c].slippage
             x == call[c].executed
             e == call[c].price[call[c].dex]
  <2>1. /\ e \in Nat /\ s \in Nat /\ s <= S /\ x \in Int /\ x <= e /\ S \in Nat
        /\ 2 * (e * (S - s)) < 2 * (S * x) + S
    BY SwapWithin, Sizes
  <2>2. Distance(e, x) = e - x
    BY <2>1 DEF Distance
  <2> HIDE DEF S, s, x, e
  <2>3. 2 * ((e - x) * S - s * e) <= S
    BY <2>1
  <2> QED BY <2>2, <2>3 DEF S, s, x, e
<1> QED BY <1>1, Invariance, PTL
=============================================================================
