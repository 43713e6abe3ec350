-------------------------- MODULE LaneKernels_proofs --------------------------
(***************************************************************************)
(* The long paths of the kernels compute the merged lanes of the           *)
(* definition from every stripe of the input and from no other byte, for   *)
(* every stripe length, number of chains and input length.                 *)
(***************************************************************************)
EXTENDS LaneKernels, LaneSpec_proofs

-----------------------------------------------------------------------------
(* The inductive invariant *)

\* What the small path merges for chain c.
SmallChain(c) ==
  << IF c < m THEN Stripe(Input, c * STRIPE, 0) ELSE Stripe(Input, n - STRIPE, n) >>

\* The chains hold the first k stripes.
ChainsHold(k) == \E b \in Nat : \E r \in 0 .. CHAINS - 1 :
                   k = b * CHAINS + r /\ a = Led(b, r)

AtStart  == pc = "start" /\ s = 0 /\ a = InitState /\ mv = << >>
InSmall  == /\ pc = "small" /\ m < CHAINS /\ s \in 0 .. m
            /\ a = InitState /\ mv = [c \in 0 .. s - 1 |-> SmallChain(c)]
InGroups == /\ pc = "groups" /\ s \in 0 .. m /\ mv = << >>
            /\ \E b \in Nat : s = b * CHAINS /\ a = Led(b, 0)
InTail   == /\ pc = "tail" /\ s \in 0 .. m /\ mv = << >>
            /\ ChainsHold(s)
            /\ kernel = "register" =>
                 m < s + CHAINS /\ \E b \in Nat : s = b * CHAINS /\ a = Led(b, 0)
AtClose  == pc = "close" /\ mv = << >> /\ ChainsHold(m)
AtMerge  == pc = "merge" /\ mv = << >> /\ a = Lanes(Input, n)
AtDone   == pc = "done" /\ mv = Lanes(Input, n) /\ (a = InitState \/ a = mv)

IndInv == /\ kernel \in Kernels
          /\ n \in SHORT_MAX + 1 .. MaxLen
          /\ pc \in {"groups", "tail", "close", "merge"} => m >= CHAINS
          /\ \/ AtStart \/ InSmall \/ InGroups \/ InTail
             \/ AtClose \/ AtMerge \/ AtDone
-----------------------------------------------------------------------------
(* Arithmetic and memory *)

\* The typing of the input that every step keeps.
Lengths == n \in SHORT_MAX + 1 .. MaxLen

\* The whole stripes before the last byte, and the last STRIPE bytes.
LEMMA MFacts ==
  ASSUME Lengths
  PROVE  /\ n \in Nat /\ STRIPE < n /\ n - STRIPE \in Nat /\ SHORT_MAX < n
         /\ m \in Nat /\ STRIPE * m <= n - 1 /\ n - 1 < STRIPE * m + STRIPE
<1>1. STRIPE \in Nat \ {0} /\ MaxLen \in Nat
  BY BlockFacts, KernelAssumption
<1>2. n \in Nat /\ STRIPE < n /\ n - STRIPE \in Nat /\ SHORT_MAX < n /\ n - 1 \in Nat
  BY <1>1 DEF Lengths, SHORT_MAX
<1>3. \A x \in Nat : /\ x \div STRIPE \in Nat /\ STRIPE * (x \div STRIPE) <= x
                     /\ x < STRIPE * (x \div STRIPE) + STRIPE
  BY <1>1, DivMod
<1> QED BY <1>2, <1>3 DEF m

LEMMA MemHolds == ASSUME Lengths PROVE Holds(mem, 0, n, 0)
<1>1. n \in Nat /\ BLOCK \in Nat
  BY MFacts, BlockFacts
<1>2. \A x \in 0 .. n - 1 : 0 + x = x /\ x \in 0 .. n + BLOCK /\ x < n
  BY <1>1
<1> QED BY <1>2 DEF Holds, mem

\* A leading stripe is read from the input, and from inside it.
LEMMA LeadingIs ==
  ASSUME Lengths, NEW t \in Nat, t < m
  PROVE  Leading(t) = Stripe(Input, t * STRIPE, 0)
<1> DEFINE o == t * STRIPE
<1>1. o \in Nat /\ o + STRIPE <= n /\ STRIPE \in Nat
  <2>1. STRIPE * (t + 1) <= STRIPE * m
    BY MFacts, BlockFacts
  <2>2. STRIPE * (t + 1) = o + STRIPE /\ o \in Nat /\ STRIPE \in Nat
    BY BlockFacts
  <2> QED BY <2>1, <2>2, MFacts
<1> HIDE DEF o
<1>2. Holds(mem, o, STRIPE, o)
  BY <1>1, MemHolds, MFacts, HoldsPart
<1>3. Stripe(mem, o, 0) = Stripe(Input, o, 0)
  BY <1>1, <1>2, StripeOfInput
<1> QED BY <1>3 DEF o, Leading

LEMMA LeadingTok ==
  ASSUME Lengths, NEW b \in Nat, NEW c \in Chain, b * CHAINS + c < m
  PROVE  Leading(b * CHAINS + c) = Tok(b + 1, c)
<1> DEFINE t == b * CHAINS + c
<1>1. t \in Nat /\ c \in Nat
  BY BlockFacts DEF Chain
<1>2. t * STRIPE = ((b + 1) - 1) * BLOCK + c * STRIPE
  BY <1>1, BlockFacts DEF BLOCK
<1>3. Leading(t) = Stripe(Input, t * STRIPE, 0)
  <2>1. t < m
    OBVIOUS
  <2> HIDE DEF t
  <2> QED BY <1>1, <2>1, LeadingIs
<1> QED BY <1>2, <1>3 DEF Tok

LEMMA ClosingIs == ASSUME Lengths PROVE Closing = Stripe(Input, n - STRIPE, n)
<1> DEFINE o == n - STRIPE
<1>1. o \in Nat /\ o + STRIPE <= n /\ STRIPE \in Nat /\ n \in Nat
  BY MFacts, BlockFacts
<1> HIDE DEF o
<1>2. Holds(mem, o, STRIPE, o)
  BY <1>1, MemHolds, HoldsPart
<1>3. Stripe(mem, o, n) = Stripe(Input, o, n)
  BY <1>1, <1>2, StripeOfInput
<1> QED BY <1>3 DEF o, Closing
-----------------------------------------------------------------------------
(* Chains *)

\* One stripe more, r stripes more, and a block more.
LEMMA LedAt ==
  ASSUME NEW b \in Nat, NEW r \in 0 .. CHAINS, NEW c \in Chain
  PROVE  Led(b, r)[c] = IF c < r THEN Append([j \in 1 .. b |-> Tok(j, c)], Tok(b + 1, c))
                                 ELSE [j \in 1 .. b |-> Tok(j, c)]
BY AppendTok DEF Led

LEMMA LedNone ==
  ASSUME NEW b \in Nat, NEW c \in Chain
  PROVE  Led(b, 0)[c] = [j \in 1 .. b |-> Tok(j, c)]
BY DEF Led, Chain

LEMMA MoreLed ==
  ASSUME NEW b \in Nat, NEW r \in 0 .. CHAINS
  PROVE  [c \in Chain |-> IF c < r THEN Append(Led(b, 0)[c], Tok(b + 1, c))
                                   ELSE Led(b, 0)[c]] = Led(b, r)
<1>1. ASSUME NEW c \in Chain
      PROVE  (IF c < r THEN Append(Led(b, 0)[c], Tok(b + 1, c)) ELSE Led(b, 0)[c])
               = Led(b, r)[c]
  BY LedAt, LedNone
<1>2. DOMAIN Led(b, r) = Chain /\ Led(b, r) = [c \in Chain |-> Led(b, r)[c]]
  BY DEF Led
<1> QED BY <1>1, <1>2

LEMMA WrapLed == ASSUME NEW b \in Nat PROVE Led(b, CHAINS) = Led(b + 1, 0)
<1>1. \A c \in Chain : c < CHAINS /\ ~(c < 0)
  BY BlockFacts DEF Chain
<1> QED BY <1>1 DEF Led

LEMMA NextLed ==
  ASSUME NEW b \in Nat, NEW r \in Chain
  PROVE  [Led(b, r) EXCEPT ![r] = Append(@, Tok(b + 1, r))] = Led(b, r + 1)
<1>1. r \in Nat /\ r \in 0 .. CHAINS /\ r + 1 \in 0 .. CHAINS
  BY BlockFacts DEF Chain
<1>2. Led(b, r)[r] = [j \in 1 .. b |-> Tok(j, r)]
  BY <1>1, LedAt
<1>3. Led(b, r + 1)[r] = Append([j \in 1 .. b |-> Tok(j, r)], Tok(b + 1, r))
  <2>1. r < r + 1
    BY <1>1
  <2> QED BY <1>1, <2>1, LedAt
<1>4. ASSUME NEW c \in Chain, c # r
      PROVE  Led(b, r)[c] = Led(b, r + 1)[c]
  <2>1. c < r <=> c < r + 1
    BY <1>1, <1>4 DEF Chain
  <2> QED BY <2>1 DEF Led
<1>5. /\ Led(b, r) = [c \in Chain |-> Led(b, r)[c]]
      /\ Led(b, r + 1) = [c \in Chain |-> Led(b, r + 1)[c]]
  BY DEF Led
<1> QED BY <1>2, <1>3, <1>4, <1>5

\* With a block or more before the closing stripe every chain is merged.
LEMMA AllUsed ==
  ASSUME Lengths, m >= CHAINS
  PROVE  Used(n) = Chain
<1>1. m + 1 \in Nat /\ ~(m + 1 < CHAINS)
  BY MFacts, BlockFacts
<1> QED BY <1>1 DEF Used, m, Chain

\* What the chains are once the closing stripe is in.
LEMMA ClosedLanes ==
  ASSUME Lengths, m >= CHAINS, NEW b \in Nat, NEW r \in 0 .. CHAINS - 1, m = b * CHAINS + r
  PROVE  [Led(b, r) EXCEPT ![m % CHAINS] = Append(@, Closing)] = Lanes(Input, n)
<1>1. m % CHAINS = r /\ r % CHAINS = r
  <2>1. r = 0 * CHAINS + r
    BY BlockFacts
  <2>2. m % CHAINS = r
    <3>1. m \in Nat /\ CHAINS \in Nat \ {0} /\ m = b * CHAINS + r
      BY MFacts, BlockFacts
    <3> QED BY <3>1, DivUnique, ZenonT(30)
  <2>3. r % CHAINS = r
    BY <2>1, BlockFacts, DivUnique
  <2> QED BY <2>2, <2>3
<1>2. Lanes(Input, n) = Closed(b, r, n)
  <2>1. Holds(Input, 0, n, 0)
    <3>1. \A x \in 0 .. n - 1 : 0 + x = x /\ x \in Nat
      BY MFacts
    <3> QED BY <3>1 DEF Holds, Input
  <2>2. r \in 0 .. CHAINS
    BY BlockFacts
  <2>3. (n - 1) \div STRIPE = b * CHAINS + r
    BY DEF m
  <2> QED BY <2>1, <2>2, <2>3, MFacts, LanesClosed
<1>3. Closed(b, r, n) = [c \in Chain |-> [Led(b, r) EXCEPT ![r] = Append(@, Closing)][c]]
  BY <1>1, AllUsed, ClosingIs DEF Closed
<1>4. DOMAIN Led(b, r) = Chain
  BY DEF Led
<1> QED BY <1>1, <1>2, <1>3, <1>4
-----------------------------------------------------------------------------
(* The steps *)

LEMMA InitInv == Init => IndInv
<1> SUFFICES ASSUME Init PROVE IndInv
  OBVIOUS
<1> QED BY DEF Init, IndInv, AtStart

\* What a step that leaves the input alone keeps.
LEMMA SameInput ==
  ASSUME IndInv, UNCHANGED << kernel, n >>
  PROVE  /\ Lengths /\ m' = m /\ kernel' \in Kernels /\ n' \in SHORT_MAX + 1 .. MaxLen
         /\ Lanes(Input, n') = Lanes(Input, n)
         /\ \A c : SmallChain(c)' = SmallChain(c)
BY DEF IndInv, Lengths, m, SmallChain

\* The small path merges chain s.
LEMMA SmallStripeInv == ASSUME IndInv, SmallStripe PROVE IndInv'
<1>1. /\ pc = "small" /\ s' = s + 1 /\ UNCHANGED << kernel, n, a >>
      /\ pc' = IF s < m THEN "small" ELSE "done"
      /\ mv' = [c \in 0 .. s |->
                  IF c < s THEN mv[c] ELSE << IF s < m THEN Leading(s) ELSE Closing >>]
  BY DEF SmallStripe
<1>2. m < CHAINS /\ s \in 0 .. m /\ a = InitState /\ mv = [c \in 0 .. s - 1 |-> SmallChain(c)]
  BY <1>1 DEF IndInv, AtStart, InSmall, InGroups, InTail, AtClose, AtMerge, AtDone
<1>3. Lengths /\ m \in Nat /\ s \in Nat
  BY <1>1, <1>2, SameInput, MFacts
<1>4. mv' = [c \in 0 .. s |-> SmallChain(c)]
  <2> SUFFICES ASSUME NEW c \in 0 .. s
               PROVE  (IF c < s THEN mv[c] ELSE << IF s < m THEN Leading(s) ELSE Closing >>)
                        = SmallChain(c)
    BY <1>1
  <2>1. CASE c < s
    <3>1. c \in 0 .. s - 1
      BY <1>3, <2>1
    <3> QED BY <1>2, <2>1, <3>1
  <2>2. CASE ~(c < s)
    <3>1. c = s
      BY <1>3, <2>2
    <3>2. s < m => Leading(s) = Stripe(Input, s * STRIPE, 0)
      BY <1>3, LeadingIs
    <3>3. Closing = Stripe(Input, n - STRIPE, n)
      BY <1>3, ClosingIs
    <3> QED BY <2>2, <3>1, <3>2, <3>3 DEF SmallChain
  <2> QED BY <2>1, <2>2
<1>5. CASE s < m
  <2>1. pc' = "small" /\ s' \in 0 .. m /\ 0 .. s' - 1 = 0 .. s
    BY <1>1, <1>3, <1>5
  <2>2. mv' = [c \in 0 .. s' - 1 |-> SmallChain(c)']
    BY <1>1, <1>4, <2>1, SameInput
  <2>3. InSmall'
    BY <1>1, <1>2, <2>1, <2>2, SameInput DEF InSmall
  <2> QED BY <1>1, <2>1, <2>3, SameInput DEF IndInv
<1>6. CASE ~(s < m)
  <2>1. s = m /\ pc' = "done"
    BY <1>1, <1>2, <1>3, <1>6
  <2>2. mv' = Lanes(Input, n)
    BY <1>2, <1>4, <2>1 DEF Lanes, SmallChain, m
  <2>3. AtDone'
    BY <1>1, <1>2, <2>1, <2>2 DEF AtDone
  <2> QED BY <1>1, <2>1, <2>3, SameInput DEF IndInv
<1> QED BY <1>5, <1>6

\* The large path starts with the start state, or with its first stripes.
LEMMA LargeInv == ASSUME IndInv, Large PROVE IndInv'
<1>1. /\ pc = "start" /\ m >= CHAINS /\ UNCHANGED << kernel, n, mv >>
      /\ pc' = IF kernel = "scalar" THEN "tail" ELSE "groups"
      /\ IF FusedStart
         THEN a' = [c \in Chain |-> << Leading(c) >>] /\ s' = CHAINS
         ELSE UNCHANGED << a, s >>
  BY DEF Large
<1>2. s = 0 /\ a = InitState /\ mv = << >>
  BY <1>1 DEF IndInv, AtStart, InSmall, InGroups, InTail, AtClose, AtMerge, AtDone
<1>3. Lengths /\ m \in Nat /\ CHAINS \in Nat \ {0}
  BY <1>1, SameInput, MFacts, BlockFacts
<1>4. s' \in 0 .. m /\ \E b \in Nat : s' = b * CHAINS /\ a' = Led(b, 0)
  <2>1. CASE FusedStart
    <3>1. ASSUME NEW c \in Chain
          PROVE  << Leading(c) >> = Led(1, 0)[c]
      <4>1. c \in Nat /\ c < m
        BY <1>1, <1>3 DEF Chain
      <4>2. Leading(c) = Stripe(Input, c * STRIPE, 0)
        BY <1>3, <4>1, LeadingIs
      <4>3. Led(1, 0)[c] = [j \in 1 .. 1 |-> Tok(j, c)]
        BY LedNone
      <4> QED BY <4>2, <4>3, SingleTok
    <3>2. a' = Led(1, 0)
      <4>1. Led(1, 0) = [c \in Chain |-> Led(1, 0)[c]]
        BY DEF Led
      <4> QED BY <1>1, <2>1, <3>1, <4>1
    <3>3. s' = 1 * CHAINS /\ s' \in 0 .. m
      BY <1>1, <1>3, <2>1
    <3> QED BY <3>2, <3>3
  <2>2. CASE ~FusedStart
    <3>1. s' = 0 * CHAINS /\ s' \in 0 .. m
      BY <1>1, <1>2, <1>3, <2>2
    <3>2. a' = Led(0, 0)
      BY <1>1, <1>2, <2>2, InitLed
    <3> QED BY <3>1, <3>2
  <2> QED BY <2>1, <2>2
<1>5. CASE kernel = "scalar"
  <2>1. PICK b \in Nat : s' = b * CHAINS /\ a' = Led(b, 0)
    BY <1>4
  <2>2. 0 \in 0 .. CHAINS - 1 /\ s' = b * CHAINS + 0
    BY <1>3, <2>1
  <2>3. ChainsHold(s)'
    BY <2>1, <2>2 DEF ChainsHold
  <2>4. InTail'
    BY <1>1, <1>2, <1>4, <1>5, <2>3, SameInput DEF InTail
  <2> QED BY <1>1, <1>5, <2>4, SameInput DEF IndInv
<1>6. CASE kernel # "scalar"
  <2>1. InGroups'
    BY <1>1, <1>2, <1>4, <1>6, SameInput DEF InGroups
  <2> QED BY <1>1, <1>6, <2>1, SameInput DEF IndInv
<1> QED BY <1>5, <1>6

\* A group of CHAINS stripes.
LEMMA GroupInv == ASSUME IndInv, Group PROVE IndInv'
<1>1. /\ pc = "groups" /\ s + CHAINS <= m /\ s' = s + CHAINS
      /\ a' = [c \in Chain |-> Append(a[c], Leading(s + c))]
      /\ UNCHANGED << kernel, n, pc, mv >>
  BY DEF Group, GroupFits
<1>2. InGroups /\ m >= CHAINS
  BY <1>1 DEF IndInv, AtStart, InSmall, InTail, AtClose, AtMerge, AtDone
<1>3. Lengths /\ m \in Nat /\ CHAINS \in Nat \ {0}
  BY <1>1, SameInput, MFacts, BlockFacts
<1>4. PICK b \in Nat : s = b * CHAINS /\ a = Led(b, 0)
  BY <1>2 DEF InGroups
<1>5. a' = Led(b + 1, 0)
  <2>1. ASSUME NEW c \in Chain
        PROVE  /\ c < CHAINS
               /\ Append(a[c], Leading(s + c)) = Append(Led(b, 0)[c], Tok(b + 1, c))
    <3>1. c < CHAINS /\ c \in Nat
      BY <1>3 DEF Chain
    <3>2. b * CHAINS + c < m
      BY <1>1, <1>2, <1>3, <1>4, <3>1 DEF InGroups
    <3> QED BY <1>3, <1>4, <3>1, <3>2, LeadingTok
  <2>2. a' = [c \in Chain |-> IF c < CHAINS THEN Append(Led(b, 0)[c], Tok(b + 1, c))
                                            ELSE Led(b, 0)[c]]
    BY <1>1, <2>1
  <2>3. CHAINS \in 0 .. CHAINS
    BY <1>3
  <2> QED BY <2>2, <2>3, MoreLed, WrapLed
<1>6. b + 1 \in Nat /\ s' = (b + 1) * CHAINS /\ s' \in 0 .. m
  BY <1>1, <1>2, <1>3, <1>4 DEF InGroups
<1>7. InGroups'
  BY <1>1, <1>2, <1>5, <1>6, SameInput DEF InGroups
<1> QED BY <1>1, <1>2, <1>7, SameInput DEF IndInv

\* The groups end: fewer stripes than chains are left for "register".
LEMMA EndGroupsInv == ASSUME IndInv, EndGroups PROVE IndInv'
<1>1. /\ pc = "groups" /\ pc' = "tail" /\ UNCHANGED << kernel, n, s, a, mv >>
      /\ ~(s + CHAINS <= m)
  BY DEF EndGroups, GroupFits
<1>2. InGroups /\ m >= CHAINS
  BY <1>1 DEF IndInv, AtStart, InSmall, InTail, AtClose, AtMerge, AtDone
<1>3. m \in Nat /\ CHAINS \in Nat \ {0} /\ s \in 0 .. m
  BY <1>1, <1>2, SameInput, MFacts, BlockFacts DEF InGroups
<1>4. PICK b \in Nat : s = b * CHAINS /\ a = Led(b, 0)
  BY <1>2 DEF InGroups
<1>5. ChainsHold(s)'
  <2>1. 0 \in 0 .. CHAINS - 1 /\ s' = b * CHAINS + 0 /\ a' = Led(b, 0)
    BY <1>1, <1>3, <1>4
  <2> QED BY <2>1 DEF ChainsHold
<1>6. kernel' = "register" => m < s + CHAINS
  BY <1>1, <1>3
<1>7. InTail'
  BY <1>1, <1>2, <1>3, <1>4, <1>5, <1>6, SameInput DEF InTail, InGroups
<1> QED BY <1>1, <1>2, <1>7, SameInput DEF IndInv

\* The rest under the guard c < rem.
LEMMA TailGuardedInv == ASSUME IndInv, TailGuarded PROVE IndInv'
<1>1. /\ pc = "tail" /\ kernel = "register" /\ pc' = "close" /\ s' = m
      /\ a' = [c \in Chain |-> IF c < m - s THEN Append(a[c], Leading(s + c)) ELSE a[c]]
      /\ UNCHANGED << kernel, n, mv >>
  BY DEF TailGuarded, TailStripes
<1>2. InTail /\ m >= CHAINS
  BY <1>1 DEF IndInv, AtStart, InSmall, InGroups, AtClose, AtMerge, AtDone
<1>3. Lengths /\ m \in Nat /\ CHAINS \in Nat \ {0} /\ s \in 0 .. m /\ m < s + CHAINS
  BY <1>1, <1>2, SameInput, MFacts, BlockFacts DEF InTail
<1>4. PICK b \in Nat : s = b * CHAINS /\ a = Led(b, 0)
  BY <1>1, <1>2 DEF InTail
<1> DEFINE r == m - s
<1>5. r \in 0 .. CHAINS - 1 /\ r \in 0 .. CHAINS /\ m = b * CHAINS + r
  BY <1>3, <1>4
<1>6. a' = Led(b, r)
  <2>1. ASSUME NEW c \in Chain, c < r
        PROVE  Leading(s + c) = Tok(b + 1, c)
    <3>1. b * CHAINS + c < m
      BY <1>3, <1>4, <2>1 DEF Chain
    <3> QED BY <1>3, <1>4, <3>1, LeadingTok
  <2>2. a' = [c \in Chain |-> IF c < r THEN Append(Led(b, 0)[c], Tok(b + 1, c))
                                       ELSE Led(b, 0)[c]]
    BY <1>1, <1>4, <2>1
  <2> HIDE DEF r
  <2> QED BY <1>5, <2>2, MoreLed
<1>7. ChainsHold(m)'
  <2>1. m' = b * CHAINS + r
    BY <1>1, <1>5, SameInput
  <2> HIDE DEF r
  <2> QED BY <1>5, <1>6, <2>1 DEF ChainsHold
<1>8. AtClose'
  BY <1>1, <1>2, <1>7 DEF AtClose, InTail
<1> QED BY <1>1, <1>2, <1>8, SameInput DEF IndInv

\* The rest one stripe after the other.
LEMMA TailSingleInv == ASSUME IndInv, TailSingle PROVE IndInv'
<1>1. /\ pc = "tail" /\ kernel # "register" /\ UNCHANGED << kernel, n, mv >>
      /\ IF s < m
         THEN /\ a' = [a EXCEPT ![s % CHAINS] = Append(@, Leading(s))]
              /\ s' = s + 1
              /\ UNCHANGED pc
         ELSE pc' = "close" /\ UNCHANGED << a, s >>
  BY DEF TailSingle
<1>2. InTail /\ m >= CHAINS
  BY <1>1 DEF IndInv, AtStart, InSmall, InGroups, AtClose, AtMerge, AtDone
<1>3. Lengths /\ m \in Nat /\ CHAINS \in Nat \ {0} /\ s \in 0 .. m /\ mv = << >>
  BY <1>1, <1>2, SameInput, MFacts, BlockFacts DEF InTail
<1>4. PICK b \in Nat, r \in 0 .. CHAINS - 1 : s = b * CHAINS + r /\ a = Led(b, r)
  BY <1>2 DEF InTail, ChainsHold
<1>5. CASE s < m
  <2>1. s % CHAINS = r /\ r \in Chain /\ r \in Nat
    <3>1. s \in Nat /\ CHAINS \in Nat \ {0} /\ s = b * CHAINS + r
      BY <1>3, <1>4
    <3>2. s % CHAINS = r
      BY <3>1, DivUnique, ZenonT(30)
    <3> QED BY <1>3, <3>2 DEF Chain
  <2>2. Leading(s) = Tok(b + 1, r)
    BY <1>3, <1>4, <1>5, <2>1, LeadingTok
  <2>3. a' = Led(b, r + 1)
    BY <1>1, <1>4, <1>5, <2>1, <2>2, NextLed
  <2>4. ChainsHold(s)'
    <3>1. CASE r + 1 < CHAINS
      <4>1. r + 1 \in 0 .. CHAINS - 1 /\ s' = b * CHAINS + (r + 1)
        BY <1>1, <1>3, <1>4, <1>5, <2>1, <3>1
      <4> QED BY <2>3, <4>1 DEF ChainsHold
    <3>2. CASE ~(r + 1 < CHAINS)
      <4>1. r + 1 = CHAINS
        BY <1>3, <2>1, <3>2
      <4>2. a' = Led(b + 1, 0)
        BY <2>3, <4>1, WrapLed
      <4>3. b + 1 \in Nat /\ 0 \in 0 .. CHAINS - 1 /\ s' = (b + 1) * CHAINS + 0
        BY <1>1, <1>3, <1>4, <1>5, <2>1, <4>1
      <4> QED BY <4>2, <4>3 DEF ChainsHold
    <3> QED BY <3>1, <3>2
  <2>5. s' \in 0 .. m
    BY <1>1, <1>3, <1>5
  <2>6. InTail'
    BY <1>1, <1>3, <1>5, <2>4, <2>5, SameInput DEF InTail
  <2> QED BY <1>1, <1>2, <1>5, <2>6, SameInput DEF IndInv
<1>6. CASE ~(s < m)
  <2>1. s = m /\ pc' = "close" /\ UNCHANGED << a, s >>
    BY <1>1, <1>3, <1>6
  <2>2. ChainsHold(m)'
    <3>1. m' = b * CHAINS + r /\ a' = Led(b, r)
      BY <1>1, <1>4, <2>1, SameInput
    <3> QED BY <3>1 DEF ChainsHold
  <2>3. AtClose'
    BY <1>1, <1>3, <2>1, <2>2 DEF AtClose
  <2> QED BY <1>1, <1>2, <2>1, <2>3, SameInput DEF IndInv
<1> QED BY <1>5, <1>6

\* The closing stripe completes the lanes.
LEMMA CloseInv == ASSUME IndInv, Close PROVE IndInv'
<1>1. /\ pc = "close" /\ pc' = "merge" /\ UNCHANGED << kernel, n, s, mv >>
      /\ a' = [a EXCEPT ![m % CHAINS] = Append(@, Closing)]
  BY DEF Close, ClosingChain
<1>2. AtClose /\ m >= CHAINS
  BY <1>1 DEF IndInv, AtStart, InSmall, InGroups, InTail, AtMerge, AtDone
<1>3. PICK b \in Nat, r \in 0 .. CHAINS - 1 : m = b * CHAINS + r /\ a = Led(b, r)
  BY <1>2 DEF AtClose, ChainsHold
<1>4. a' = Lanes(Input, n)
  BY <1>1, <1>2, <1>3, SameInput, ClosedLanes
<1>5. AtMerge'
  BY <1>1, <1>2, <1>4 DEF AtMerge, AtClose
<1> QED BY <1>1, <1>2, <1>5, SameInput DEF IndInv

LEMMA StepInv == IndInv /\ [Next]_vars => IndInv'
<1> SUFFICES ASSUME IndInv, [Next]_vars PROVE IndInv'
  OBVIOUS
<1>1. CASE Small
  <2>1. /\ pc = "start" /\ m < CHAINS /\ pc' = "small" /\ UNCHANGED << kernel, n, s, a >>
        /\ mv' = [c \in {} |-> << >>]
    BY <1>1 DEF Small
  <2>2. s = 0 /\ a = InitState /\ m \in Nat
    BY <2>1, SameInput, MFacts DEF IndInv, AtStart, InSmall, InGroups, InTail, AtClose, AtMerge, AtDone
  <2>3. s' \in 0 .. m /\ 0 .. s' - 1 = {}
    BY <2>1, <2>2
  <2>4. InSmall'
    BY <2>1, <2>2, <2>3, SameInput DEF InSmall
  <2> QED BY <2>1, <2>4, SameInput DEF IndInv
<1>2. CASE SmallStripe
  BY <1>2, SmallStripeInv
<1>3. CASE Large
  BY <1>3, LargeInv
<1>4. CASE Group
  BY <1>4, GroupInv
<1>5. CASE EndGroups
  BY <1>5, EndGroupsInv
<1>6. CASE TailGuarded
  BY <1>6, TailGuardedInv
<1>7. CASE TailSingle
  BY <1>7, TailSingleInv
<1>8. CASE Close
  BY <1>8, CloseInv
<1>9. CASE Merge
  <2>1. pc = "merge" /\ mv' = a /\ pc' = "done" /\ UNCHANGED << kernel, n, s, a >>
    BY <1>9 DEF Merge
  <2>2. a = Lanes(Input, n)
    BY <2>1 DEF IndInv, AtStart, InSmall, InGroups, InTail, AtClose, AtMerge, AtDone
  <2>3. AtDone'
    BY <2>1, <2>2 DEF AtDone
  <2> QED BY <2>1, <2>3, SameInput DEF IndInv
<1>10. CASE UNCHANGED vars
  BY <1>10 DEF vars, IndInv, AtStart, InSmall, InGroups, InTail, AtClose, AtMerge, AtDone,
               ChainsHold, SmallChain, m
<1> QED BY <1>1, <1>2, <1>3, <1>4, <1>5, <1>6, <1>7, <1>8, <1>9, <1>10 DEF Next
-----------------------------------------------------------------------------
(* The merged chains *)

\* Each chain is a sequence of stripes of input bytes.
LEMMA LedType ==
  ASSUME NEW b \in Nat, NEW r \in 0 .. CHAINS, NEW c \in Chain
  PROVE  /\ Led(b, r)[c] \in Seq(Stripes)
         /\ Len(Led(b, r)[c]) = IF c < r THEN b + 1 ELSE b
         /\ \A j \in 1 .. Len(Led(b, r)[c]) : Led(b, r)[c][j] = Tok(j, c)
<1> DEFINE l == IF c < r THEN b + 1 ELSE b
           q == [j \in 1 .. l |-> Tok(j, c)]
<1>1. Led(b, r)[c] = q
  BY DEF Led
<1>2. l \in Nat
  OBVIOUS
<1> HIDE DEF l
<1>3. \A j \in 1 .. l : Tok(j, c) \in Stripes
  BY <1>2, TokType
<1>4. q \in Seq(Stripes) /\ Len(q) = l /\ \A j \in 1 .. l : q[j] = Tok(j, c)
  BY <1>2, <1>3
<1> QED BY <1>1, <1>4 DEF l

\* The last STRIPE bytes.
LEMMA ClosingType ==
  ASSUME Lengths
  PROVE  Stripe(Input, n - STRIPE, n) \in Stripes
BY MFacts, StripeType

\* The number of stripes before the closing one, as blocks and a rest.
LEMMA Rest ==
  ASSUME Lengths
  PROVE  \E b \in Nat : \E r \in 0 .. CHAINS - 1 : m = b * CHAINS + r
<1>1. m \in Nat /\ CHAINS \in Nat \ {0}
  BY MFacts, BlockFacts
<1> DEFINE b == m \div CHAINS
           r == m % CHAINS
<1>2. b \in Nat /\ r \in 0 .. CHAINS - 1 /\ r = m - CHAINS * b
  BY <1>1, DivMod
<1> HIDE DEF b, r
<1>3. CHAINS * b = b * CHAINS /\ b * CHAINS \in Nat
  BY <1>1, <1>2
<1>4. m = b * CHAINS + r
  BY <1>1, <1>2, <1>3
<1> QED BY <1>2, <1>4

\* The merged chains are the leading stripes, with the closing one behind
\* those of chain r.
LEMMA MergedChain ==
  ASSUME Lengths, NEW b \in Nat, NEW r \in 0 .. CHAINS - 1, m = b * CHAINS + r
  PROVE  /\ DOMAIN Lanes(Input, n) = Used(n)
         /\ Used(n) \subseteq Chain
         /\ \A c \in Chain : c <= m => c \in Used(n)
         /\ \A c \in Used(n) :
              Lanes(Input, n)[c] =
                IF c = r THEN Append(Led(b, r)[c], Stripe(Input, n - STRIPE, n))
                         ELSE Led(b, r)[c]
<1>1. CHAINS \in Nat \ {0} /\ m \in Nat /\ r \in 0 .. CHAINS
  BY MFacts, BlockFacts
<1>2. r % CHAINS = r
  <2>1. r = 0 * CHAINS + r /\ r \in Nat
    BY <1>1
  <2> QED BY <1>1, <2>1, DivUnique, ZenonT(30)
<1>3. Lanes(Input, n) = Closed(b, r, n)
  <2>1. Holds(Input, 0, n, 0)
    <3>1. \A x \in 0 .. n - 1 : 0 + x = x /\ x \in Nat
      BY MFacts
    <3> QED BY <3>1 DEF Holds, Input
  <2>2. (n - 1) \div STRIPE = b * CHAINS + r
    BY DEF m
  <2> QED BY <1>1, <2>1, <2>2, MFacts, LanesClosed
<1>4. Used(n) = 0 .. (IF m + 1 < CHAINS THEN m + 1 ELSE CHAINS) - 1
  BY DEF Used, m
<1>5. Used(n) \subseteq Chain /\ \A c \in Chain : c <= m => c \in Used(n)
  BY <1>1, <1>4 DEF Chain
<1>6. DOMAIN Led(b, r) = Chain
  BY DEF Led
<1>7. Closed(b, r, n) =
        [c \in Used(n) |->
           [Led(b, r) EXCEPT ![r] = Append(@, Stripe(Input, n - STRIPE, n))][c]]
  BY <1>2 DEF Closed
<1> QED BY <1>3, <1>5, <1>6, <1>7

LEMMA LanesType ==
  ASSUME Lengths, NEW c \in DOMAIN Lanes(Input, n)
  PROVE  Lanes(Input, n)[c] \in Seq(Stripes)
<1>1. PICK b \in Nat, r \in 0 .. CHAINS - 1 : m = b * CHAINS + r
  BY Rest
<1>2. c \in Used(n) /\ c \in Chain /\ r \in 0 .. CHAINS
  BY <1>1, MergedChain, BlockFacts
<1>3. Led(b, r)[c] \in Seq(Stripes)
  BY <1>2, LedType
<1>4. Append(Led(b, r)[c], Stripe(Input, n - STRIPE, n)) \in Seq(Stripes)
  BY <1>3, ClosingType
<1> QED BY <1>1, <1>2, <1>3, <1>4, MergedChain

\* A sequence of stripes of input bytes holds no other byte.
LEMMA TypedInputOnly ==
  ASSUME NEW chain \in Seq(Stripes)
  PROVE  InputOnly(chain)
<1> SUFFICES ASSUME NEW j \in 1 .. Len(chain), NEW i \in 0 .. STRIPE - 1
             PROVE  chain[j].bytes[i] # Foreign
  BY DEF InputOnly
<1>1. chain[j] \in Stripes
  OBVIOUS
<1>2. chain[j].bytes[i] \in Nat
  BY <1>1 DEF Stripes
<1> QED BY <1>2 DEF Foreign

\* A byte before the closing stripe is in a leading stripe of its chain.
LEMMA LeadingByte ==
  ASSUME Lengths, NEW i \in Nat, i < m * STRIPE
  PROVE  \E c \in DOMAIN Lanes(Input, n) : \E j \in 1 .. Len(Lanes(Input, n)[c]) :
           \E k \in 0 .. STRIPE - 1 : Lanes(Input, n)[c][j].bytes[k] = i
<1>1. /\ STRIPE \in Nat \ {0} /\ CHAINS \in Nat \ {0} /\ BLOCK \in Nat /\ m \in Nat
      /\ n - STRIPE \in Nat
  BY MFacts, BlockFacts
<1> DEFINE t == i \div STRIPE
           k == i % STRIPE
           q == t \div CHAINS
           c == t % CHAINS
<1>2. t \in Nat /\ k \in 0 .. STRIPE - 1 /\ STRIPE * t <= i /\ k = i - STRIPE * t
  BY <1>1, DivMod
<1> HIDE DEF t, k
<1>3. q \in Nat /\ c \in 0 .. CHAINS - 1 /\ c = t - CHAINS * q
  BY <1>1, <1>2, DivMod
<1> HIDE DEF q, c
<1>4. t < m
  <2> SUFFICES ASSUME m <= t PROVE FALSE
    BY <1>1, <1>2
  <2>1. m * STRIPE <= t * STRIPE /\ t * STRIPE = STRIPE * t /\ t * STRIPE \in Nat
        /\ m * STRIPE \in Nat
    BY <1>1, <1>2
  <2> QED BY <1>2, <2>1
<1>5. t = q * CHAINS + c
  <2>1. CHAINS * q = q * CHAINS /\ q * CHAINS \in Nat
    BY <1>1, <1>3
  <2> QED BY <1>2, <1>3, <2>1
<1>6. c \in Chain /\ c <= m /\ q + 1 \in Nat \ {0}
  <2>1. q * CHAINS \in Nat
    BY <1>1, <1>3
  <2> QED BY <1>1, <1>2, <1>3, <1>4, <1>5, <2>1 DEF Chain
<1>7. PICK b \in Nat, r \in 0 .. CHAINS - 1 : m = b * CHAINS + r
  BY Rest
<1> DEFINE l == IF c < r THEN b + 1 ELSE b
<1>8. q + 1 \in 1 .. l
  <2>1. CASE q < b
    BY <1>3, <1>7, <2>1
  <2>2. CASE ~(q < b)
    <3>1. b * CHAINS <= q * CHAINS /\ b * CHAINS \in Nat /\ q * CHAINS \in Nat
      BY <1>1, <1>3, <1>7, <2>2
    <3>2. ~(b < q)
      <4> SUFFICES ASSUME b < q PROVE FALSE
        OBVIOUS
      <4>1. (b + 1) * CHAINS <= q * CHAINS /\ (b + 1) * CHAINS = b * CHAINS + CHAINS
        BY <1>1, <1>3, <1>7
      <4> QED BY <1>1, <1>3, <1>4, <1>5, <1>7, <3>1, <4>1
    <3>3. q = b
      BY <1>3, <2>2, <3>2
    <3>4. c < r
      BY <1>1, <1>3, <1>4, <1>5, <1>7, <3>1, <3>3
    <3> QED BY <1>3, <3>3, <3>4
  <2> QED BY <2>1, <2>2
<1> DEFINE led == Led(b, r)[c]
           lane == Lanes(Input, n)[c]
           closing == Stripe(Input, n - STRIPE, n)
<1>9. /\ led \in Seq(Stripes) /\ Len(led) = l
      /\ \A j \in 1 .. Len(led) : led[j] = Tok(j, c)
  <2>1. r \in 0 .. CHAINS
    BY <1>1
  <2> QED BY <1>6, <2>1, LedType
<1>10. c \in DOMAIN Lanes(Input, n) /\ (lane = Append(led, closing) \/ lane = led)
  BY <1>6, <1>7, MergedChain
<1>11. closing \in Stripes
  BY ClosingType
<1> HIDE DEF led, lane, closing, l
<1>12. q + 1 \in 1 .. Len(lane) /\ lane[q + 1] = Tok(q + 1, c)
  <2>1. led[q + 1] = Tok(q + 1, c) /\ q + 1 \in 1 .. Len(led)
    BY <1>8, <1>9
  <2>2. lane = led => Len(lane) = Len(led) /\ lane[q + 1] = led[q + 1]
    OBVIOUS
  <2>3. lane = Append(led, closing) =>
          q + 1 \in 1 .. Len(lane) /\ lane[q + 1] = led[q + 1]
    <3>1. Len(Append(led, closing)) = Len(led) + 1 /\ Len(led) \in Nat
      BY <1>9
    <3>2. Append(led, closing)[q + 1] = led[q + 1]
      BY <1>9, <2>1
    <3>3. q + 1 \in 1 .. Len(led) + 1
      BY <2>1, <3>1
    <3> QED BY <3>1, <3>2, <3>3
  <2> QED BY <1>10, <2>1, <2>2, <2>3
<1>13. Tok(q + 1, c).bytes[k] = i
  <2> DEFINE o == ((q + 1) - 1) * BLOCK + c * STRIPE
  <2>1. o = STRIPE * t
    <3>1. ((q + 1) - 1) * BLOCK = (q * CHAINS) * STRIPE
      BY <1>1, <1>3 DEF BLOCK
    <3>2. q * CHAINS \in Nat /\ c \in Nat
      BY <1>1, <1>3
    <3>3. (q * CHAINS) * STRIPE + c * STRIPE = (q * CHAINS + c) * STRIPE
      BY <1>1, <3>2
    <3>4. t * STRIPE = STRIPE * t
      BY <1>1, <1>2
    <3> QED BY <1>5, <3>1, <3>3, <3>4
  <2>2. Tok(q + 1, c).bytes = [x \in 0 .. STRIPE - 1 |-> Input[o + x]]
    BY DEF Tok, Stripe, Slice
  <2>3. o \in Nat
    BY <1>1, <1>2, <2>1
  <2> HIDE DEF o
  <2>4. o + k = i /\ o + k \in Nat
    BY <1>1, <1>2, <2>1, <2>3
  <2> QED BY <1>2, <2>2, <2>4 DEF Input
<1> QED BY <1>2, <1>10, <1>12, <1>13 DEF lane

\* The other bytes are in the closing stripe.
LEMMA ClosingByte ==
  ASSUME Lengths, NEW i \in 0 .. n - 1, m * STRIPE <= i
  PROVE  \E c \in DOMAIN Lanes(Input, n) : \E j \in 1 .. Len(Lanes(Input, n)[c]) :
           \E k \in 0 .. STRIPE - 1 : Lanes(Input, n)[c][j].bytes[k] = i
<1>1. /\ STRIPE \in Nat \ {0} /\ CHAINS \in Nat \ {0} /\ m \in Nat
      /\ n \in Nat /\ n - STRIPE \in Nat /\ n - 1 < STRIPE * m + STRIPE
  BY MFacts, BlockFacts
<1>2. PICK b \in Nat, r \in 0 .. CHAINS - 1 : m = b * CHAINS + r
  BY Rest
<1> DEFINE led == Led(b, r)[r]
           lane == Lanes(Input, n)[r]
           closing == Stripe(Input, n - STRIPE, n)
           k == i - (n - STRIPE)
<1>3. r \in Chain /\ r <= m /\ r \in 0 .. CHAINS
  <2>1. b * CHAINS \in Nat
    BY <1>1, <1>2
  <2> QED BY <1>1, <1>2, <2>1 DEF Chain
<1>4. led \in Seq(Stripes)
  BY <1>3, LedType
<1>5. r \in DOMAIN Lanes(Input, n) /\ lane = Append(led, closing)
  BY <1>2, <1>3, MergedChain
<1>6. closing \in Stripes
  BY ClosingType
<1>7. closing.bytes = [x \in 0 .. STRIPE - 1 |-> Input[(n - STRIPE) + x]]
  BY DEF Stripe, Slice
<1> HIDE DEF led, lane, closing
<1>8. lane[Len(lane)] = closing /\ Len(lane) \in 1 .. Len(lane)
  BY <1>4, <1>5, <1>6
<1>9. k \in 0 .. STRIPE - 1 /\ (n - STRIPE) + k = i /\ i \in Nat
  <2>1. m * STRIPE = STRIPE * m /\ STRIPE * m \in Nat
    BY <1>1
  <2> QED BY <1>1, <2>1
<1>10. closing.bytes[k] = i
  BY <1>7, <1>9 DEF Input
<1> HIDE DEF k
<1> QED BY <1>5, <1>8, <1>9, <1>10 DEF lane
-----------------------------------------------------------------------------
(* The theorems *)

\* Every state of every kernel is as the loops' invariants say: the chains hold
\* the first s stripes, each once and in order, whichever loops fill them.
THEOREM InductiveInvariant == Spec => []IndInv
<1> QED BY InitInv, StepInv, PTL DEF Spec

\* Every kernel merges the lanes of spec::lanes: "every backend produces
\* identical output", for all stripes, chains and input lengths.
THEOREM KernelCorrect == Spec => []KernelEqualsSpec
<1>1. IndInv => KernelEqualsSpec
  BY DEF IndInv, AtStart, InSmall, InGroups, InTail, AtClose, AtMerge, AtDone, KernelEqualsSpec
<1> QED BY <1>1, InductiveInvariant, PTL

\* No kernel ever holds a byte from behind its input.
THEOREM ReadsInside == Spec => []NoOverread
<1>1. IndInv => NoOverread
  <2> SUFFICES ASSUME IndInv PROVE NoOverread
    OBVIOUS
  <2>1. Lengths
    BY DEF IndInv, Lengths
  <2>2. \A c \in DOMAIN Lanes(Input, n) : InputOnly(Lanes(Input, n)[c])
    BY <2>1, LanesType, TypedInputOnly
  <2>3. \A c \in DOMAIN InitState : InputOnly(InitState[c])
    BY DEF InitState, InputOnly
  <2>4. ASSUME NEW b \in Nat, NEW r \in 0 .. CHAINS - 1, a = Led(b, r)
        PROVE  \A c \in DOMAIN a : InputOnly(a[c])
    <3>1. DOMAIN a = Chain /\ r \in 0 .. CHAINS
      BY <2>4, BlockFacts DEF Led
    <3>2. \A c \in Chain : a[c] \in Seq(Stripes)
      BY <2>4, <3>1, LedType
    <3> QED BY <3>1, <3>2, TypedInputOnly
  <2>5. \A c \in DOMAIN << >> : FALSE
    OBVIOUS
  <2>6. CASE AtStart
    BY <2>3, <2>5, <2>6 DEF AtStart, NoOverread
  <2>7. CASE InSmall
    <3>1. ASSUME NEW c \in 0 .. s - 1
          PROVE  SmallChain(c) \in Seq(Stripes)
      <4>1. c * STRIPE \in Nat
        BY <2>7, <3>1, BlockFacts DEF InSmall
      <4>2. Stripe(Input, c * STRIPE, 0) \in Stripes
        BY <4>1, StripeType
      <4>3. Stripe(Input, n - STRIPE, n) \in Stripes
        BY <2>1, ClosingType
      <4> QED BY <4>2, <4>3 DEF SmallChain
    <3>2. \A c \in DOMAIN mv : mv[c] \in Seq(Stripes)
      BY <2>7, <3>1 DEF InSmall
    <3> QED BY <2>3, <2>7, <3>2, TypedInputOnly DEF InSmall, NoOverread
  <2>8. CASE InGroups
    <3>1. 0 \in 0 .. CHAINS - 1
      BY BlockFacts
    <3> QED BY <2>4, <2>5, <2>8, <3>1 DEF InGroups, NoOverread
  <2>9. CASE InTail
    BY <2>4, <2>5, <2>9 DEF InTail, ChainsHold, NoOverread
  <2>10. CASE AtClose
    BY <2>4, <2>5, <2>10 DEF AtClose, ChainsHold, NoOverread
  <2>11. CASE AtMerge
    BY <2>2, <2>5, <2>11 DEF AtMerge, NoOverread
  <2>12. CASE AtDone
    BY <2>2, <2>3, <2>12 DEF AtDone, NoOverread
  <2> QED BY <2>6, <2>7, <2>8, <2>9, <2>10, <2>11, <2>12 DEF IndInv
<1> QED BY <1>1, InductiveInvariant, PTL

\* Every byte of the input is in a merged stripe.
THEOREM AllAbsorbed == Spec => []EveryByteAbsorbed
<1>1. IndInv => EveryByteAbsorbed
  <2> SUFFICES ASSUME IndInv, pc = "done", NEW i \in 0 .. n - 1
               PROVE  \E c \in DOMAIN mv : \E j \in 1 .. Len(mv[c]) :
                        \E k \in 0 .. STRIPE - 1 : mv[c][j].bytes[k] = i
    BY DEF EveryByteAbsorbed
  <2>1. Lengths
    BY DEF IndInv, Lengths
  <2>2. mv = Lanes(Input, n)
    BY DEF IndInv, AtStart, InSmall, InGroups, InTail, AtClose, AtMerge, AtDone
  <2>3. i \in Nat /\ m * STRIPE \in Nat
    BY <2>1, MFacts, BlockFacts
  <2>4. CASE i < m * STRIPE
    BY <2>1, <2>2, <2>3, <2>4, LeadingByte
  <2>5. CASE ~(i < m * STRIPE)
    <3>1. m * STRIPE <= i
      BY <2>3, <2>5
    <3> QED BY <2>1, <2>2, <3>1, ClosingByte
  <2> QED BY <2>4, <2>5
<1> QED BY <1>1, InductiveInvariant, PTL
=============================================================================
