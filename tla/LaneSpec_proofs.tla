--------------------------- MODULE LaneSpec_proofs ---------------------------
(***************************************************************************)
(* What absorbing, finishing and the one-shot function compute, in closed  *)
(* form: Led(b, r) holds the first b blocks and r stripes more of the      *)
(* input, Closed(b, r, n) merges it with the closing stripe.  Stream and   *)
(* kernels are both proved against these.                                  *)
(***************************************************************************)
EXTENDS LaneSpec, Memory_proofs

\* Stripe j - 1 of chain c, read from the input.
Tok(j, c) == Stripe(Input, (j - 1) * BLOCK + c * STRIPE, 0)

\* The chains after b blocks and r stripes more.
Led(b, r) == [c \in Chain |->
                [j \in 1 .. (IF c < r THEN b + 1 ELSE b) |-> Tok(j, c)]]

\* The merged lanes of n bytes whose leading stripes are Led(b, r).
Closed(b, r, n) ==
  LET all == [Led(b, r) EXCEPT ![r % CHAINS] = Append(@, Stripe(Input, n - STRIPE, n))]
  IN  [c \in Used(n) |-> all[c]]
-----------------------------------------------------------------------------
(* Products *)

\* Products with a block: the stripe of chain c ends inside its block, and
\* whole blocks add up.
LEMMA BlockFacts ==
  /\ STRIPE \in Nat \ {0} /\ CHAINS \in Nat \ {0} /\ BLOCK \in Nat \ {0}
  /\ STRIPE <= BLOCK
  /\ \A c \in Chain : c * STRIPE \in Nat /\ c * STRIPE + STRIPE <= BLOCK
  /\ \A i \in Int : \A k \in Int : (i + k) * BLOCK = i * BLOCK + k * BLOCK
  /\ \A i \in Nat : i * BLOCK \in Nat
  /\ \A i \in Nat : \A k \in Nat : i <= k => i * BLOCK <= k * BLOCK
<1> USE LaneAssumption
<1>1. STRIPE \in Nat \ {0} /\ CHAINS \in Nat \ {0}
  OBVIOUS
<1>2. BLOCK \in Nat \ {0} /\ STRIPE <= BLOCK
  <2>1. CHAINS * STRIPE >= 1 * STRIPE
    OBVIOUS
  <2> QED BY <2>1 DEF BLOCK
<1>3. \A c \in Chain : c * STRIPE \in Nat /\ c * STRIPE + STRIPE <= BLOCK
  <2> SUFFICES ASSUME NEW c \in Chain
               PROVE  c * STRIPE \in Nat /\ c * STRIPE + STRIPE <= BLOCK
    OBVIOUS
  <2>1. (c + 1) * STRIPE <= CHAINS * STRIPE
    BY DEF Chain
  <2>2. (c + 1) * STRIPE = c * STRIPE + STRIPE
    BY DEF Chain
  <2>3. c * STRIPE \in Nat
    BY DEF Chain
  <2> QED BY <2>1, <2>2, <2>3 DEF BLOCK
<1> HIDE LaneAssumption
<1>4. \A i \in Int : \A k \in Int : (i + k) * BLOCK = i * BLOCK + k * BLOCK
  BY <1>2
<1>5. \A i \in Nat : i * BLOCK \in Nat
  BY <1>2
<1>6. \A i \in Nat : \A k \in Nat : i <= k => i * BLOCK <= k * BLOCK
  BY <1>2
<1> QED BY <1>1, <1>2, <1>3, <1>4, <1>5, <1>6
-----------------------------------------------------------------------------
(* Chains *)

\* The stripes that the proofs speak about.
Stripes == [bytes : [0 .. STRIPE - 1 -> Nat], x : Nat]

LEMMA StripeType ==
  ASSUME NEW from \in Nat, NEW x \in Nat
  PROVE  Stripe(Input, from, x) \in Stripes
<1>1. \A i \in 0 .. STRIPE - 1 : from + i \in Nat
  BY BlockFacts
<1> QED BY <1>1 DEF Stripe, Slice, Input, Stripes

LEMMA TokType ==
  ASSUME NEW j \in Nat \ {0}, NEW c \in Chain
  PROVE  Tok(j, c) \in Stripes
<1>1. (j - 1) * BLOCK \in Nat /\ c * STRIPE \in Nat
  BY BlockFacts
<1> QED BY <1>1, StripeType DEF Tok

\* A memory that holds the input from byte `at' on, at address `from', holds
\* its stripes.
LEMMA StripeOfInput ==
  ASSUME NEW mem, NEW from \in Int, NEW at \in Nat, NEW x,
         Holds(mem, from, STRIPE, at)
  PROVE  Stripe(mem, from, x) = Stripe(Input, at, x)
<1>1. \A i \in 0 .. STRIPE - 1 : Input[at + i] = at + i
  BY BlockFacts DEF Input
<1> QED BY <1>1 DEF Holds, Stripe, Slice

\* Appending the next stripe of a chain, and the stripes of the next blocks.
LEMMA AppendTok ==
  ASSUME NEW b \in Nat, NEW c \in Chain
  PROVE  Append([j \in 1 .. b |-> Tok(j, c)], Tok(b + 1, c))
           = [j \in 1 .. b + 1 |-> Tok(j, c)]
<1> DEFINE s == [j \in 1 .. b |-> Tok(j, c)]
<1>1. \A j \in 1 .. b + 1 : Tok(j, c) \in Stripes
  BY TokType
<1>2. s \in Seq(Stripes) /\ Len(s) = b
  BY <1>1
<1>3. Tok(b + 1, c) \in Stripes
  BY <1>1
<1> QED BY <1>2, <1>3

LEMMA ConcatToks ==
  ASSUME NEW b \in Nat, NEW k \in Nat, NEW c \in Chain
  PROVE  [j \in 1 .. b |-> Tok(j, c)] \o [j \in 1 .. k |-> Tok(b + j, c)]
           = [j \in 1 .. b + k |-> Tok(j, c)]
<1> DEFINE s == [j \in 1 .. b |-> Tok(j, c)]
           t == [j \in 1 .. k |-> Tok(b + j, c)]
<1>1. \A j \in Nat \ {0} : Tok(j, c) \in Stripes
  BY TokType
<1>2. s \in Seq(Stripes) /\ Len(s) = b
  BY <1>1
<1>3. t \in Seq(Stripes) /\ Len(t) = k
  BY <1>1
<1>4. /\ s \o t \in Seq(Stripes)
      /\ Len(s \o t) = b + k
      /\ \A j \in 1 .. b + k : (s \o t)[j] = IF j <= b THEN s[j] ELSE t[j - b]
  BY <1>2, <1>3
<1>5. \A j \in 1 .. b + k : (s \o t)[j] = Tok(j, c)
  BY <1>4
<1>6. s \o t = [j \in 1 .. b + k |-> (s \o t)[j]]
  BY <1>4
<1> QED BY <1>5, <1>6
-----------------------------------------------------------------------------
(* Absorb, Finish and Lanes *)

\* spec::absorb on k blocks that continue the input after block b.
LEMMA AbsorbLed ==
  ASSUME NEW b \in Nat, NEW k \in Nat, NEW mem, NEW from \in Nat,
         Holds(mem, from, k * BLOCK, b * BLOCK)
  PROVE  Absorb(Led(b, 0), mem, from, k) = Led(b + k, 0)
<1>1. ASSUME NEW c \in Chain, NEW j \in 1 .. k
      PROVE  Stripe(mem, from + (j - 1) * BLOCK + c * STRIPE, 0) = Tok(b + j, c)
  <2> DEFINE o == (j - 1) * BLOCK + c * STRIPE
             B == b * BLOCK
  <2>1. o \in Nat /\ o + STRIPE <= k * BLOCK
    <3>1. (j - 1) * BLOCK \in Nat /\ c * STRIPE \in Nat /\ c * STRIPE + STRIPE <= BLOCK
      BY BlockFacts
    <3>2. (j - 1) * BLOCK + BLOCK = j * BLOCK
      BY BlockFacts
    <3>3. j * BLOCK <= k * BLOCK
      BY BlockFacts
    <3>4. STRIPE \in Nat /\ BLOCK \in Nat /\ k * BLOCK \in Nat
      BY BlockFacts
    <3> QED BY <3>1, <3>2, <3>3, <3>4
  <2>2. B \in Nat /\ STRIPE \in Nat /\ k * BLOCK \in Nat
    BY BlockFacts
  <2>3. ((b + j) - 1) * BLOCK + c * STRIPE = B + o
    <3>1. (b + (j - 1)) * BLOCK = B + (j - 1) * BLOCK
      BY BlockFacts
    <3>2. (b + j) - 1 = b + (j - 1)
      OBVIOUS
    <3>3. (j - 1) * BLOCK \in Nat /\ c * STRIPE \in Nat
      BY BlockFacts
    <3> QED BY <3>1, <3>2, <3>3, <2>2
  <2>4. (from + (j - 1) * BLOCK) + c * STRIPE = from + o
    <3>1. (j - 1) * BLOCK \in Nat /\ c * STRIPE \in Nat
      BY BlockFacts
    <3> QED BY <3>1
  <2> HIDE DEF o, B
  <2>5. Holds(mem, from + o, STRIPE, B + o)
    BY <2>1, <2>2, HoldsPart DEF B
  <2>6. Stripe(mem, from + o, 0) = Stripe(Input, B + o, 0)
    <3>1. from + o \in Int /\ B + o \in Nat
      BY <2>1, <2>2
    <3> QED BY <3>1, <2>5, StripeOfInput
  <2> QED BY <2>3, <2>4, <2>6 DEF Tok
<1>2. ASSUME NEW c \in Chain
      PROVE  Absorb(Led(b, 0), mem, from, k)[c] = Led(b + k, 0)[c]
  <2>1. [j \in 1 .. k |-> Stripe(mem, from + (j - 1) * BLOCK + c * STRIPE, 0)]
          = [j \in 1 .. k |-> Tok(b + j, c)]
    BY <1>1
  <2>2. ~(c < 0)
    BY DEF Chain
  <2>3. Led(b, 0)[c] = [j \in 1 .. b |-> Tok(j, c)]
    BY <2>2 DEF Led
  <2>4. Led(b + k, 0)[c] = [j \in 1 .. b + k |-> Tok(j, c)]
    BY <2>2 DEF Led
  <2>5. Absorb(Led(b, 0), mem, from, k)[c]
          = Led(b, 0)[c] \o [j \in 1 .. k |->
                Stripe(mem, from + (j - 1) * BLOCK + c * STRIPE, 0)]
    BY DEF Absorb
  <2>6. Absorb(Led(b, 0), mem, from, k)[c]
          = [j \in 1 .. b |-> Tok(j, c)] \o [j \in 1 .. k |-> Tok(b + j, c)]
    BY <2>1, <2>3, <2>5, Zenon
  <2> QED BY <2>4, <2>6, ConcatToks, Zenon
<1> QED BY <1>2 DEF Absorb, Led

\* spec::finish with r leading stripes that continue the input after block b
\* and the last STRIPE bytes of n as the closing one.
LEMMA FinishLed ==
  ASSUME NEW b \in Nat, NEW r \in 0 .. CHAINS, NEW n \in Nat, STRIPE <= n,
         NEW mem, NEW lead \in Int, NEW close \in Int,
         Holds(mem, lead, r * STRIPE, b * BLOCK),
         Holds(mem, close, STRIPE, n - STRIPE)
  PROVE  Finish(Led(b, 0), mem, lead, r, close, n) = Closed(b, r, n)
<1>1. ASSUME NEW c \in Chain, c < r
      PROVE  Stripe(mem, lead + c * STRIPE, 0) = Tok(b + 1, c)
  <2> DEFINE o == c * STRIPE
             B == b * BLOCK
             rs == r * STRIPE
  <2>1. o \in Nat /\ B \in Nat /\ STRIPE \in Nat \ {0} /\ CHAINS \in Nat /\ c \in Nat
    BY BlockFacts DEF Chain
  <2>2. o + STRIPE <= rs /\ rs \in Nat
    <3>1. r \in Nat
      BY <2>1
    <3>2. (c + 1) * STRIPE <= r * STRIPE
      BY <1>1, <2>1, <3>1
    <3>3. (c + 1) * STRIPE = c * STRIPE + STRIPE
      BY <2>1
    <3>4. rs \in Nat
      BY <2>1, <3>1
    <3> QED BY <3>2, <3>3, <3>4
  <2>3. ((b + 1) - 1) * BLOCK + c * STRIPE = B + o
    <3>1. (b + 1) - 1 = b
      OBVIOUS
    <3> QED BY <3>1
  <2>h. Holds(mem, lead, rs, B)
    OBVIOUS
  <2> HIDE DEF o, B, rs
  <2>4. Holds(mem, lead + o, STRIPE, B + o)
    BY <2>1, <2>2, <2>h, HoldsPart
  <2>5. Stripe(mem, lead + o, 0) = Stripe(Input, B + o, 0)
    <3> DEFINE p == lead + o
               q == B + o
    <3>1. p \in Int /\ q \in Nat
      BY <2>1
    <3>2. Holds(mem, p, STRIPE, q)
      BY <2>4
    <3> HIDE DEF p, q
    <3>3. Stripe(mem, p, 0) = Stripe(Input, q, 0)
      BY <3>1, <3>2, StripeOfInput
    <3> QED BY <3>3 DEF p, q
  <2> QED BY <2>3, <2>5 DEF Tok, o
<1>2. Stripe(mem, close, n) = Stripe(Input, n - STRIPE, n)
  <2>1. n - STRIPE \in Nat
    BY BlockFacts
  <2> QED BY <2>1, StripeOfInput
<1>3. [c \in Chain |-> IF c < r
                         THEN Append(Led(b, 0)[c], Stripe(mem, lead + c * STRIPE, 0))
                         ELSE Led(b, 0)[c]] = Led(b, r)
  <2> SUFFICES ASSUME NEW c \in Chain
               PROVE  (IF c < r
                         THEN Append(Led(b, 0)[c], Stripe(mem, lead + c * STRIPE, 0))
                         ELSE Led(b, 0)[c]) = Led(b, r)[c]
    BY DEF Led
  <2>1. Led(b, 0)[c] = [j \in 1 .. b |-> Tok(j, c)]
    <3>1. ~(c < 0)
      BY DEF Chain
    <3> QED BY <3>1 DEF Led
  <2>2. CASE c < r
    <3>1. Led(b, r)[c] = [j \in 1 .. b + 1 |-> Tok(j, c)]
      BY <2>2 DEF Led
    <3> QED BY <2>1, <2>2, <3>1, <1>1, AppendTok
  <2>3. CASE ~(c < r)
    <3>1. Led(b, r)[c] = [j \in 1 .. b |-> Tok(j, c)]
      BY <2>3 DEF Led
    <3> QED BY <2>1, <2>3, <3>1
  <2> QED BY <2>2, <2>3
<1> DEFINE led == [c \in Chain |->
                     IF c < r THEN Append(Led(b, 0)[c], Stripe(mem, lead + c * STRIPE, 0))
                              ELSE Led(b, 0)[c]]
           end == Stripe(mem, close, n)
<1>4. Finish(Led(b, 0), mem, lead, r, close, n)
        = [c \in Used(n) |-> [led EXCEPT ![r % CHAINS] = Append(@, end)][c]]
  BY Zenon DEF Finish
<1>5. led = Led(b, r) /\ end = Stripe(Input, n - STRIPE, n)
  BY <1>2, <1>3
<1> HIDE DEF led, end
<1> QED BY <1>4, <1>5, Zenon DEF Closed

\* A chain in which nothing has been absorbed, and one with a single stripe.
LEMMA EmptyChain ==
  ASSUME NEW c \in Chain
  PROVE  [j \in 1 .. 0 |-> Tok(j, c)] = << >>
  OBVIOUS

LEMMA SingleTok ==
  ASSUME NEW c \in Chain
  PROVE  [j \in 1 .. 1 |-> Tok(j, c)] = << Stripe(Input, c * STRIPE, 0) >>
<1>1. (1 - 1) * BLOCK + c * STRIPE = c * STRIPE
  BY BlockFacts
<1>2. Tok(1, c) = Stripe(Input, c * STRIPE, 0)
  BY <1>1 DEF Tok
<1>3. [j \in 1 .. 1 |-> Tok(j, c)] = << Tok(1, c) >>
  OBVIOUS
<1> QED BY <1>2, <1>3

LEMMA InitLed == InitState = Led(0, 0)
<1>1. \A c \in Chain : ~(c < 0)
  BY DEF Chain
<1> QED BY <1>1, EmptyChain DEF InitState, Led

\* spec::lanes on a memory that holds n bytes of input merges their stripes: the leading stripes of
\* b blocks and r stripes more, and the closing one, however (n - 1) \div STRIPE
\* is written as b * CHAINS + r with r up to CHAINS.
LEMMA LanesClosed ==
  ASSUME NEW b \in Nat, NEW r \in 0 .. CHAINS, NEW n \in Nat, SHORT_MAX < n,
         (n - 1) \div STRIPE = b * CHAINS + r,
         NEW mem, Holds(mem, 0, n, 0)
  PROVE  Lanes(mem, n) = Closed(b, r, n)
<1> DEFINE m == (n - 1) \div STRIPE
           q == m \div CHAINS
           e == m % CHAINS
           end == Stripe(Input, n - STRIPE, n)
<1>1. /\ STRIPE \in Nat \ {0} /\ CHAINS \in Nat \ {0} /\ BLOCK \in Nat \ {0}
      /\ n - 1 \in Nat /\ n - STRIPE \in Nat /\ STRIPE <= n
  BY BlockFacts DEF SHORT_MAX
<1>2. m \in Nat
  <2>1. \A x \in Nat : x \div STRIPE \in Nat
    BY <1>1, DivMod
  <2> QED BY <2>1, <1>1
<1>s. STRIPE * m <= n - 1
  <2>1. \A x \in Nat : STRIPE * (x \div STRIPE) <= x
    BY <1>1, DivMod
  <2> QED BY <2>1, <1>1
<1>c. Stripe(mem, n - STRIPE, n) = end
  <2>1. Holds(mem, n - STRIPE, STRIPE, n - STRIPE)
    BY <1>1, HoldsPart
  <2> QED BY <2>1, <1>1, StripeOfInput
<1>m. m = b * CHAINS + r
  OBVIOUS
<1> HIDE DEF m
<1>3. q \in Nat /\ e \in 0 .. CHAINS - 1 /\ m = CHAINS * q + e /\ CHAINS * q <= m
  <2>1. \A x \in Nat : /\ x \div CHAINS \in Nat /\ x % CHAINS \in 0 .. CHAINS - 1
                      /\ CHAINS * (x \div CHAINS) <= x
                      /\ x % CHAINS = x - CHAINS * (x \div CHAINS)
    BY <1>1, DivMod
  <2>2. q \in Nat /\ e \in 0 .. CHAINS - 1 /\ CHAINS * q <= m /\ e = m - CHAINS * q
    BY <2>1, <1>2
  <2> HIDE DEF q, e
  <2> QED BY <2>2, <1>1, <1>2
<1> HIDE DEF q, e
<1>4. Lanes(mem, n) = Closed(q, e, n)
  <2>1. CASE m < CHAINS
    <3>1. q = 0 /\ e = m
      <4>1. m = 0 * CHAINS + m /\ m \in 0 .. CHAINS - 1
        BY <1>1, <1>2, <2>1
      <4> QED BY <4>1, <1>1, <1>2, DivUnique DEF q, e
    <3>2. m % CHAINS = m
      BY <3>1 DEF e
    <3>3. Used(n) = 0 .. m
      BY <1>1, <1>2, <2>1 DEF Used, m
    <3>4. ASSUME NEW s \in 0 .. m
          PROVE  << IF s < m THEN Stripe(Input, s * STRIPE, 0) ELSE end >>
                   = [Led(0, m) EXCEPT ![m] = Append(@, end)][s]
      <4>1. s \in Chain /\ m \in Chain /\ s \in Nat
        BY <1>1, <1>2, <2>1 DEF Chain
      <4>2. CASE s < m
        <5>1. Led(0, m)[s] = [j \in 1 .. 1 |-> Tok(j, s)]
          BY <4>1, <4>2 DEF Led
        <5>2. [Led(0, m) EXCEPT ![m] = Append(@, end)][s] = Led(0, m)[s]
          BY <4>1, <4>2, <1>2 DEF Led
        <5> QED BY <4>1, <4>2, <5>1, <5>2, SingleTok
      <4>3. CASE ~(s < m)
        <5>1. s = m
          BY <4>1, <4>3, <1>2
        <5>2. Led(0, m)[m] = << >>
          <6>1. Led(0, m)[m] = [j \in 1 .. 0 |-> Tok(j, m)]
            BY <4>1, <1>2 DEF Led
          <6> QED BY <6>1, <4>1, EmptyChain
        <5>3. [Led(0, m) EXCEPT ![m] = Append(@, end)][m] = Append(Led(0, m)[m], end)
          BY <4>1 DEF Led
        <5>4. Append(<< >>, end) = << end >>
          OBVIOUS
        <5> QED BY <4>3, <5>1, <5>2, <5>3, <5>4
      <4> QED BY <4>2, <4>3
    <3>l. ASSUME NEW s \in 0 .. m, s < m
          PROVE  Stripe(mem, s * STRIPE, 0) = Stripe(Input, s * STRIPE, 0)
      <4> DEFINE o == s * STRIPE
      <4>1. o \in Nat /\ o + STRIPE <= n
        <5>1. s \in Nat /\ s + 1 <= m
          BY <3>l, <1>2
        <5>2. STRIPE * (s + 1) <= STRIPE * m
          BY <5>1, <1>1, <1>2
        <5>3. STRIPE * (s + 1) = o + STRIPE /\ o \in Nat
          BY <5>1, <1>1
        <5> QED BY <5>2, <5>3, <1>1, <1>2, <1>s
      <4> HIDE DEF o
      <4>3. Holds(mem, o, STRIPE, o)
        BY <4>1, <1>1, HoldsPart
      <4>4. Stripe(mem, o, 0) = Stripe(Input, o, 0)
        BY <4>1, <4>3, StripeOfInput
      <4> QED BY <4>4 DEF o
    <3>5. Lanes(mem, n) = [s \in 0 .. m |->
            << IF s < m THEN Stripe(Input, s * STRIPE, 0) ELSE end >>]
      <4>1. Lanes(mem, n) = [s \in 0 .. m |->
              << IF s < m THEN Stripe(mem, s * STRIPE, 0)
                          ELSE Stripe(mem, n - STRIPE, n) >>]
        BY <2>1 DEF Lanes, m
      <4> QED BY <4>1, <3>l, <1>c
    <3>6. Closed(0, m, n) = [s \in 0 .. m |-> [Led(0, m) EXCEPT ![m] = Append(@, end)][s]]
      BY <3>2, <3>3 DEF Closed
    <3> QED BY <3>1, <3>4, <3>5, <3>6
  <2>2. CASE ~(m < CHAINS)
    <3> DEFINE lead == q * BLOCK
               close == n - STRIPE
               len == e * STRIPE
    <3>b. lead \in Nat /\ close \in Nat /\ len \in Nat /\ lead + len <= n
      <4>1. lead \in Nat /\ close \in Nat /\ len \in Nat
        BY <1>1, <1>3
      <4>2. lead + len = STRIPE * m
        BY <1>1, <1>3 DEF BLOCK
      <4> QED BY <4>1, <4>2, <1>s, <1>1
    <3>1. Absorb(InitState, mem, 0, q) = Led(q, 0)
      <4>1. Holds(mem, 0, q * BLOCK, 0 * BLOCK)
        <5>1. Holds(mem, 0, lead, 0)
          <6> HIDE DEF lead
          <6> QED BY <3>b, <1>1, HoldsPart
        <5>2. 0 * BLOCK = 0
          BY <1>1
        <5> QED BY <5>1, <5>2
      <4>2. Absorb(Led(0, 0), mem, 0, q) = Led(0 + q, 0)
        <5>1. 0 \in Nat /\ q \in Nat
          BY <1>3
        <5> QED BY <4>1, <5>1, AbsorbLed
      <4>3. 0 + q = q
        BY <1>3
      <4> QED BY <4>2, <4>3, InitLed
    <3>2. Finish(Led(q, 0), mem, q * BLOCK, e, n - STRIPE, n) = Closed(q, e, n)
      <4>1. Holds(mem, lead, len, lead)
        <5> HIDE DEF lead, len
        <5> QED BY <3>b, <1>1, HoldsPart
      <4>2. Holds(mem, close, STRIPE, close)
        BY <1>1, HoldsPart
      <4>3. e \in 0 .. CHAINS /\ lead \in Int /\ close \in Int
        BY <3>b, <1>3, <1>1
      <4>4. Finish(Led(q, 0), mem, lead, e, close, n) = Closed(q, e, n)
        BY <4>1, <4>2, <4>3, <1>1, <1>3, FinishLed
      <4> QED BY <4>4
    <3>3. m - q * CHAINS = e
      BY <1>1, <1>2, <1>3
    <3>4. Lanes(mem, n) = Finish(Absorb(InitState, mem, 0, q), mem,
                                   q * BLOCK, m - q * CHAINS, n - STRIPE, n)
      BY <2>2 DEF Lanes, m, q
    <3> QED BY <3>1, <3>2, <3>3, <3>4
  <2> QED BY <2>1, <2>2
<1>5. Closed(q, e, n) = Closed(b, r, n)
  <2>1. CASE r < CHAINS
    <3>1. r \in 0 .. CHAINS - 1
      BY <2>1, <1>1
    <3>2. q = b /\ e = r
      BY <3>1, <1>1, <1>2, <1>m, DivUnique DEF q, e
    <3> QED BY <3>2
  <2>2. CASE r = CHAINS
    <3>1. q = b + 1 /\ e = 0
      <4>1. m = (b + 1) * CHAINS + 0
        BY <2>2, <1>1, <1>m
      <4>2. b + 1 \in Nat /\ 0 \in 0 .. CHAINS - 1
        BY <1>1
      <4> QED BY <4>1, <4>2, <1>1, <1>2, DivUnique DEF q, e
    <3>2. 0 % CHAINS = 0 /\ CHAINS % CHAINS = 0
      BY <1>1
    <3>3. Led(b + 1, 0) = Led(b, CHAINS)
      <4>1. \A c \in Chain : ~(c < 0) /\ c < CHAINS
        BY <1>1 DEF Chain
      <4> QED BY <4>1 DEF Led
    <3> QED BY <2>2, <3>1, <3>2, <3>3 DEF Closed
  <2> QED BY <2>1, <2>2, <1>1
<1> QED BY <1>4, <1>5
=============================================================================
