-------------------------- MODULE LaneStream_proofs --------------------------
(***************************************************************************)
(* The incremental hasher equals the one-shot function for every stripe    *)
(* length, every number of chains, every sequence of update lengths.  The  *)
(* only hypothesis is that the length counter does not wrap.               *)
(***************************************************************************)
EXTENDS LaneStream, LaneSpec_proofs

\* The bytes of all updates together do not reach 2^w: `total' is exact.
NoWrap == MaxInput < USIZE

-----------------------------------------------------------------------------
(* The parts of the invariant in the terms of LaneSpec_proofs *)

LEMMA CarryType ==
  ASSUME NEW n \in Nat
  PROVE  (IF n > 0 THEN STRIPE ELSE 0) \in Nat
  BY BlockFacts

\* A copy of input that stays inside the buffer keeps the buffer's type.
LEMMA CopyType ==
  ASSUME NEW mem, mem \in [0 .. BUF - 1 -> Nat \cup {Zero}], NEW src,
         NEW at \in Nat, NEW from \in Int, NEW len \in Int, at + len <= BUF,
         NEW x \in Nat, Holds(src, from, len, x)
  PROVE  CopyTo(mem, at, src, from, len) \in [0 .. BUF - 1 -> Nat \cup {Zero}]
<1>1. BUF \in Nat
  BY BlockFacts DEF BUF
<1> QED BY <1>1, CopyInside
-----------------------------------------------------------------------------
(* The inductive invariant *)

\* ChainsHoldBlocks with the type of st, in closed form.
LEMMA ChainsLed ==
  ASSUME TypeOK, ChainsHoldBlocks
  PROVE  st = Led(blocks, 0)
<1>1. \A c \in Chain : st[c] = [j \in 1 .. blocks |-> Tok(j, c)]
  BY DEF ChainsHoldBlocks, Tok
<1>2. \A c \in Chain : Led(blocks, 0)[c] = [j \in 1 .. blocks |-> Tok(j, c)]
  <2>1. \A c \in Chain : ~(c < 0)
    BY DEF Chain
  <2> QED BY <2>1 DEF Led
<1> QED BY <1>1, <1>2 DEF TypeOK, Led

\* And back.
LEMMA LedChains ==
  ASSUME NEW b \in Nat
  PROVE  /\ Led(b, 0) \in [Chain -> Seq([bytes : [0 .. STRIPE - 1 -> Nat], x : Nat])]
         /\ \A c \in Chain : Led(b, 0)[c] =
              [j \in 1 .. b |-> Stripe(Input, (j - 1) * BLOCK + c * STRIPE, 0)]
<1>1. \A c \in Chain : Led(b, 0)[c] = [j \in 1 .. b |-> Tok(j, c)]
  <2>1. \A c \in Chain : ~(c < 0)
    BY DEF Chain
  <2> QED BY <2>1 DEF Led
<1>2. ASSUME NEW c \in Chain
      PROVE  [j \in 1 .. b |-> Tok(j, c)] \in Seq(Stripes)
  <2>1. \A j \in 1 .. b : Tok(j, c) \in Stripes
    BY TokType
  <2> QED BY <2>1
<1>3. Led(b, 0) \in [Chain -> Seq(Stripes)]
  BY <1>1, <1>2 DEF Led
<1>4. Led(b, 0) \in [Chain -> Seq([bytes : [0 .. STRIPE - 1 -> Nat], x : Nat])]
  BY <1>3 DEF Stripes
<1>5. \A c \in Chain : Led(b, 0)[c] =
         [j \in 1 .. b |-> Stripe(Input, (j - 1) * BLOCK + c * STRIPE, 0)]
  BY <1>1 DEF Tok
<1> QED BY <1>4, <1>5

\* What every proof below takes from the invariant; P is the input position
\* of the first byte after the absorbed blocks.
LEMMA Facts ==
  ASSUME IndInv, NEW P, P = blocks * BLOCK
  PROVE  /\ STRIPE \in Nat \ {0} /\ CHAINS \in Nat \ {0} /\ BLOCK \in Nat \ {0}
         /\ STRIPE <= BLOCK /\ BUF = STRIPE + BLOCK + STRIPE
         /\ blocks \in Nat /\ data \in Nat /\ consumed \in Nat /\ P \in Nat
         /\ carry \in Nat /\ carry <= STRIPE /\ carry <= P
         /\ blocks > 0 => carry = STRIPE
         /\ blocks = 0 => carry = 0 /\ P = 0
         /\ buf_len = carry + (consumed - P) /\ buf_len \in carry .. BUF
         /\ Holds(buf, 0, buf_len, P - carry)
         /\ buf \in [0 .. BUF - 1 -> Nat \cup {Zero}]
         /\ st = Led(blocks, 0)
         /\ total = consumed + data /\ total <= MaxInput
         /\ blocks > 0 => P + STRIPE <= consumed
         /\ P <= consumed
         /\ consumed < P + BLOCK + STRIPE
<1> USE DEF IndInv
<1>1. STRIPE \in Nat \ {0} /\ CHAINS \in Nat \ {0} /\ BLOCK \in Nat \ {0} /\ STRIPE <= BLOCK
  BY BlockFacts
<1>2. blocks \in Nat /\ data \in Nat /\ consumed \in Nat /\ buf_len \in 0 .. BUF
      /\ buf \in [0 .. BUF - 1 -> Nat \cup {Zero}]
  BY DEF TypeOK
<1>3. P \in Nat
  BY <1>2, BlockFacts
<1>4. blocks > 0 => BLOCK <= P
  <2>1. blocks > 0 => 1 * BLOCK <= blocks * BLOCK
    BY <1>2, BlockFacts
  <2> QED BY <2>1, <1>1
<1>5. blocks = 0 => P = 0
  BY <1>1
<1>6. carry \in Nat /\ carry <= STRIPE /\ carry <= P
      /\ (blocks > 0 => carry = STRIPE) /\ (blocks = 0 => carry = 0)
  BY <1>1, <1>2, <1>3, <1>4 DEF carry
<1>7. st = Led(blocks, 0)
  BY ChainsLed
<1>8. total = consumed + data /\ total <= MaxInput
  BY DEF Counted
<1>9. buf_len = carry + (consumed - P)
  BY DEF BufferWindow
<1>10. Holds(buf, 0, buf_len, P - carry)
  <2>1. \A i \in 0 .. buf_len - 1 : buf[i] = (P - carry) + i
    BY DEF BufferWindow
  <2> QED BY <2>1 DEF Holds
<1>11. blocks > 0 => P + STRIPE <= consumed
  BY DEF ClosingStripeKept
<1>12. (blocks + 1) * BLOCK = P + BLOCK
  BY <1>1, <1>2
<1>13. consumed < P + BLOCK + STRIPE
  BY <1>12, <1>1, <1>2, <1>3 DEF ClosingStripeKept
<1>14. P <= consumed
  BY <1>1, <1>2, <1>3, <1>5, <1>11
<1>15. buf_len \in carry .. BUF
  BY <1>2, <1>3, <1>6, <1>9, <1>14
<1> QED
  BY <1>1, <1>2, <1>3, <1>5, <1>6, <1>7, <1>8, <1>9, <1>10, <1>11, <1>13, <1>14, <1>15
     DEF BUF

\* The same, read backwards in the next state: what an action has to
\* establish.
LEMMA Establish ==
  ASSUME NEW P \in Nat, P = blocks' * BLOCK,
         blocks' \in Nat, data' \in Nat, consumed' \in Nat,
         buf_len' = carry' + (consumed' - P), buf_len' \in 0 .. BUF,
         Holds(buf', 0, buf_len', P - carry'),
         buf' \in [0 .. BUF - 1 -> Nat \cup {Zero}],
         st' = Led(blocks', 0),
         total' \in Nat, total' = consumed' + data', total' <= MaxInput,
         blocks' > 0 => P + STRIPE <= consumed',
         consumed' < P + BLOCK + STRIPE
  PROVE  IndInv'
<1>1. TypeOK'
  <2>1. st' \in [Chain -> Seq([bytes : [0 .. STRIPE - 1 -> Nat], x : Nat])]
    BY LedChains
  <2> QED BY <2>1 DEF TypeOK
<1>2. Counted'
  BY DEF Counted
<1>3. BufferWindow'
  <2>1. \A i \in 0 .. buf_len' - 1 : buf'[i] = (P - carry') + i
    BY DEF Holds
  <2> QED BY <2>1 DEF BufferWindow
<1>4. ChainsHoldBlocks'
  BY LedChains DEF ChainsHoldBlocks
<1>5. ClosingStripeKept'
  <2>1. (blocks' + 1) * BLOCK = P + BLOCK
    BY BlockFacts
  <2> QED BY <2>1, BlockFacts DEF ClosingStripeKept
<1> QED BY <1>1, <1>2, <1>3, <1>4, <1>5 DEF IndInv
-----------------------------------------------------------------------------
LEMMA InitInv == Init => IndInv
<1> SUFFICES ASSUME Init PROVE IndInv
  OBVIOUS
<1> USE DEF Init
<1>1. STRIPE \in Nat \ {0} /\ BLOCK \in Nat \ {0} /\ BUF \in Nat \ {0}
  BY BlockFacts DEF BUF
<1>2. st = Led(0, 0)
  BY InitLed
<1>3. carry = 0
  BY DEF carry
<1>l. /\ Led(0, 0) \in [Chain -> Seq([bytes : [0 .. STRIPE - 1 -> Nat], x : Nat])]
      /\ \A c \in Chain : Led(0, 0)[c] =
           [j \in 1 .. 0 |-> Stripe(Input, (j - 1) * BLOCK + c * STRIPE, 0)]
  <2>1. 0 \in Nat
    OBVIOUS
  <2> HIDE DEF Init
  <2> QED BY <2>1, LedChains, Zenon
<1>4. TypeOK
  <2>1. st \in [Chain -> Seq([bytes : [0 .. STRIPE - 1 -> Nat], x : Nat])]
    BY <1>2, <1>l
  <2>2. buf \in [0 .. BUF - 1 -> Nat \cup {Zero}]
    BY <1>1
  <2>3. total = 0 /\ blocks = 0 /\ buf_len = 0 /\ data = 0 /\ consumed = 0
    OBVIOUS
  <2> HIDE DEF Init
  <2>4. /\ total \in Nat /\ blocks \in Nat /\ data \in Nat /\ consumed \in Nat
        /\ buf_len \in 0 .. BUF
    BY <2>3, <1>1
  <2> QED BY <2>1, <2>2, <2>4, Zenon DEF TypeOK
<1>5. Counted
  BY StreamAssumption DEF Counted
<1>6. BufferWindow
  <2>1. 0 * BLOCK = 0
    BY <1>1
  <2> QED BY <2>1, <1>3 DEF BufferWindow
<1>7. ChainsHoldBlocks
  <2>1. st = Led(0, 0) /\ blocks = 0
    BY <1>2
  <2> HIDE DEF Init
  <2> QED BY <2>1, <1>l, Zenon DEF ChainsHoldBlocks
<1>8. ClosingStripeKept
  <2>1. (0 + 1) * BLOCK = BLOCK
    BY <1>1
  <2> QED BY <2>1, <1>1 DEF ClosingStripeKept
<1> QED BY <1>4, <1>5, <1>6, <1>7, <1>8 DEF IndInv

\* Entering update.
LEMMA UpdateInv ==
  ASSUME NoWrap, IndInv, NEW k \in Lengths, Update(k)
  PROVE  IndInv'
<1> PICK P : P = blocks * BLOCK
  OBVIOUS
<1>1. /\ total = consumed + data /\ consumed \in Nat /\ BLOCK \in Nat /\ STRIPE \in Nat
      /\ blocks \in Nat /\ P \in Nat /\ carry' = carry
      /\ buf_len \in 0 .. BUF
  BY Facts DEF Update, carry
<1>2. k \in Nat /\ data = 0 /\ consumed + k <= MaxInput /\ MaxInput \in Nat /\ USIZE \in Nat
  BY StreamAssumption DEF Update
<1>3. total' = consumed + k /\ total' \in Nat
  <2>1. total + k \in 0 .. USIZE - 1
    BY <1>1, <1>2 DEF NoWrap
  <2>2. (total + k) % USIZE = total + k
    BY <2>1, <1>2
  <2> QED BY <2>2, <1>1, <1>2 DEF Update
<1> QED
  BY <1>1, <1>2, <1>3, Facts, Establish DEF Update

\* Whole blocks straight from the slice.
LEMMA AbsorbDirectInv ==
  ASSUME IndInv, AbsorbDirect
  PROVE  IndInv'
<1> PICK P : P = blocks * BLOCK
  OBVIOUS
<1> DEFINE k    == (data - STRIPE) \div BLOCK
           kB   == k * BLOCK
           keep == data - (k * BLOCK - STRIPE)
<1>1. /\ STRIPE \in Nat \ {0} /\ BLOCK \in Nat \ {0} /\ STRIPE <= BLOCK
      /\ blocks \in Nat /\ data \in Nat /\ consumed \in Nat /\ P \in Nat
      /\ data >= BLOCK + STRIPE
      /\ buf_len = carry + (consumed - P) /\ buf_len = carry /\ carry \in Nat
      /\ BUF = STRIPE + BLOCK + STRIPE
  BY Facts DEF AbsorbDirect, Direct
<1>2. consumed = P
  BY <1>1
<1>3. k \in Nat /\ kB \in Nat /\ kB <= data - STRIPE /\ data - STRIPE < kB + BLOCK
  <2>1. \A x \in Nat : /\ x \div BLOCK \in Nat
                       /\ BLOCK * (x \div BLOCK) <= x
                       /\ x < BLOCK * (x \div BLOCK) + BLOCK
    BY <1>1, DivMod
  <2>2. data - STRIPE \in Nat
    BY <1>1
  <2>3. k \in Nat /\ BLOCK * k <= data - STRIPE /\ data - STRIPE < BLOCK * k + BLOCK
    BY <2>1, <2>2
  <2> HIDE DEF k
  <2>4. BLOCK * k = kB /\ kB \in Nat
    BY <2>3, <1>1
  <2> HIDE DEF kB
  <2> QED BY <2>3, <2>4
<1>4. k > 0 /\ BLOCK <= kB
  <2> HIDE DEF k
  <2>1. k # 0
    <3> SUFFICES ASSUME k = 0 PROVE FALSE
      OBVIOUS
    <3>1. kB = 0
      BY <1>1
    <3> QED BY <3>1, <1>1, <1>3
  <2>2. 1 * BLOCK <= k * BLOCK
    BY <2>1, <1>3, BlockFacts
  <2> QED BY <2>1, <2>2, <1>1, <1>3
<1>5. /\ st' = Absorb(st, Data, 0, k)
      /\ blocks' = blocks + k
      /\ buf' = CopyTo(buf, 0, Data, kB - STRIPE, keep)
      /\ buf_len' = keep
      /\ consumed' = consumed + data
      /\ data' = 0
      /\ total' = total
  BY DEF AbsorbDirect
<1>6. keep = data - (kB - STRIPE)
  OBVIOUS
<1>7. blocks' * BLOCK = P + kB
  <2> HIDE DEF k
  <2> QED BY <1>1, <1>3, <1>5, BlockFacts
<1> HIDE DEF k, keep
<1>8. Holds(Data, 0, data, P)
  BY <1>1, <1>2 DEF Holds, Data
<1>9. st' = Led(blocks', 0)
  <2>1. Holds(Data, 0, k * BLOCK, blocks * BLOCK)
    <3>1. Holds(Data, 0, kB, P)
      <4> HIDE DEF kB
      <4> QED BY <1>8, <1>1, <1>3, HoldsPart
    <3> QED BY <3>1
  <2>2. Absorb(Led(blocks, 0), Data, 0, k) = Led(blocks + k, 0)
    BY <2>1, <1>1, <1>3, AbsorbLed
  <2> QED BY <2>2, <1>5, Facts
<1> HIDE DEF kB
<1>10. keep \in Nat /\ keep <= BUF
  BY <1>1, <1>3, <1>6
<1>11. Holds(Data, kB - STRIPE, keep, P + (kB - STRIPE))
  BY <1>1, <1>3, <1>4, <1>6, <1>8, HoldsPart
<1>12. Holds(buf', 0, keep, P + (kB - STRIPE))
  BY <1>1, <1>3, <1>5, <1>10, <1>11, CopyHolds
<1>13. buf' \in [0 .. BUF - 1 -> Nat \cup {Zero}]
  <2> DEFINE from == kB - STRIPE
             x == P + (kB - STRIPE)
  <2>1. from \in Int /\ x \in Nat /\ keep \in Nat /\ BUF \in Int /\ keep <= BUF
    BY <1>1, <1>3, <1>4, <1>10
  <2>2. buf \in [0 .. BUF - 1 -> Nat \cup {Zero}]
    BY Facts
  <2>3. Holds(Data, from, keep, x) /\ buf' = CopyTo(buf, 0, Data, from, keep)
    BY <1>5, <1>11
  <2> HIDE DEF from, x
  <2>4. 0 \in Nat /\ keep \in Int /\ 0 + keep <= BUF
    BY <2>1
  <2>5. CopyTo(buf, 0, Data, from, keep) \in [0 .. BUF - 1 -> Nat \cup {Zero}]
    BY <2>1, <2>2, <2>3, <2>4, CopyType, Zenon
  <2> QED BY <2>3, <2>5, Zenon
<1>14. carry' = STRIPE
  BY <1>1, <1>3, <1>4, <1>5 DEF carry
<1> DEFINE Q == P + kB
<1>15. Q \in Nat /\ Q = blocks' * BLOCK /\ blocks' \in Nat
  BY <1>1, <1>3, <1>5, <1>7
<1>16. Holds(buf', 0, buf_len', Q - carry')
  <2>1. P + (kB - STRIPE) = Q - carry'
    BY <1>1, <1>3, <1>14
  <2> HIDE DEF Q
  <2> QED BY <2>1, <1>12, <1>5
<1>17. /\ data' \in Nat /\ consumed' \in Nat
       /\ buf_len' = carry' + (consumed' - Q) /\ buf_len' \in 0 .. BUF
       /\ Q + STRIPE <= consumed' /\ consumed' < Q + BLOCK + STRIPE
  BY <1>1, <1>2, <1>3, <1>5, <1>6, <1>10, <1>14
<1>18. total' = consumed' + data' /\ total' <= MaxInput /\ total' \in Nat
  <2>1. total = consumed + data /\ total <= MaxInput
    BY Facts
  <2> QED BY <2>1, <1>1, <1>5
<1> HIDE DEF Q
<1> QED BY <1>9, <1>13, <1>15, <1>16, <1>17, <1>18, Establish

\* Through the buffer, with or without the block it completes.
LEMMA FillInv ==
  ASSUME IndInv, Fill
  PROVE  IndInv'
<1> PICK P : P = blocks * BLOCK
  OBVIOUS
<1> DEFINE take   == Take
           filled == CopyTo(buf, buf_len, Data, 0, take)
           len    == buf_len + take
           drop   == Drop
           full   == Full
<1>1. /\ STRIPE \in Nat \ {0} /\ CHAINS \in Nat \ {0} /\ BLOCK \in Nat \ {0}
      /\ STRIPE <= BLOCK /\ BUF = STRIPE + BLOCK + STRIPE
      /\ blocks \in Nat /\ data \in Nat /\ consumed \in Nat /\ P \in Nat
      /\ carry \in Nat /\ carry <= STRIPE /\ carry <= P
      /\ buf_len = carry + (consumed - P) /\ buf_len \in carry .. BUF
      /\ blocks > 0 => carry = STRIPE
      /\ blocks > 0 => P + STRIPE <= consumed
      /\ P <= consumed /\ consumed < P + BLOCK + STRIPE
      /\ total = consumed + data /\ total <= MaxInput
  BY Facts
<1>2. /\ consumed' = consumed + take /\ data' = data - take /\ total' = total
      /\ len = full => /\ st' = Absorb(st, filled, carry, 1)
                       /\ blocks' = blocks + 1
                       /\ buf' = CopyTo(filled, 0, filled, drop, len - drop)
                       /\ buf_len' = len - drop
      /\ len # full => /\ buf' = filled
                       /\ buf_len' = len
                       /\ st' = st /\ blocks' = blocks
  BY DEF Fill
<1>3. take \in Nat /\ take <= data /\ len <= full /\ len = buf_len + take
  BY <1>1 DEF Take, Full
<1>4. full <= BUF /\ full = carry + BLOCK + STRIPE /\ drop = carry + BLOCK - STRIPE
      /\ buf_len \in Nat /\ len \in Nat /\ BUF \in Nat
  BY <1>1, <1>3 DEF Full, Drop
<1>5. buf \in [0 .. BUF - 1 -> Nat \cup {Zero}] /\ Holds(buf, 0, buf_len, P - carry)
      /\ st = Led(blocks, 0)
  BY Facts
<1>f. filled = CopyTo(buf, buf_len, Data, 0, take)
  OBVIOUS
<1> HIDE DEF take, filled, len, drop, full
<1>6. Holds(Data, 0, take, consumed)
  BY <1>1, <1>3 DEF Holds, Data
<1>7. filled \in [0 .. BUF - 1 -> Nat \cup {Zero}]
  <2>1. buf_len + take <= BUF /\ 0 \in Int /\ take \in Int
    BY <1>3, <1>4
  <2>2. CopyTo(buf, buf_len, Data, 0, take) \in [0 .. BUF - 1 -> Nat \cup {Zero}]
    BY <1>1, <1>4, <1>5, <1>6, <2>1, CopyType, Zenon
  <2> QED BY <2>2, <1>f, Zenon
<1>8. Holds(filled, 0, len, P - carry)
  <2> DEFINE x == P - carry
  <2>1. x \in Int /\ consumed = x + buf_len /\ take \in Nat /\ buf_len \in Nat
    BY <1>1, <1>3, <1>4
  <2>2. 0 .. buf_len - 1 \subseteq DOMAIN buf
    BY <1>1, <1>5
  <2>3. Holds(buf, 0, buf_len, x) /\ Holds(Data, 0, take, x + buf_len)
    BY <1>5, <1>6, <2>1
  <2> HIDE DEF x
  <2>4. Holds(CopyTo(buf, buf_len, Data, 0, take), 0, buf_len + take, x)
    BY <2>1, <2>2, <2>3, CopyExtends
  <2> QED BY <2>4, <1>3, <1>f DEF x
<1>9. consumed' \in Nat /\ data' \in Nat /\ total' \in Nat
      /\ total' = consumed' + data' /\ total' <= MaxInput
      /\ consumed' = P + (len - carry)
  BY <1>1, <1>2, <1>3
<1>10. CASE len # full
  <2>1. /\ carry' = carry
        /\ buf_len' = carry' + (consumed' - P) /\ buf_len' \in 0 .. BUF
        /\ consumed' < P + BLOCK + STRIPE
        /\ blocks' > 0 => P + STRIPE <= consumed'
        /\ blocks' \in Nat /\ P = blocks' * BLOCK
    BY <1>1, <1>2, <1>3, <1>4, <1>9, <1>10 DEF carry
  <2>2. Holds(buf', 0, buf_len', P - carry') /\ st' = Led(blocks', 0)
        /\ buf' \in [0 .. BUF - 1 -> Nat \cup {Zero}]
    BY <1>2, <1>5, <1>7, <1>8, <1>10, <2>1
  <2> QED BY <1>1, <1>9, <2>1, <2>2, Establish
<1>11. CASE len = full
  <2> DEFINE Q == P + BLOCK
  <2>1. /\ carry' = STRIPE /\ len - drop = STRIPE + STRIPE
        /\ blocks' \in Nat /\ blocks' > 0
        /\ Q \in Nat /\ drop \in Nat
    BY <1>1, <1>2, <1>4, <1>11 DEF carry
  <2>2. Q = blocks' * BLOCK
    BY <1>1, <1>2, <1>11
  <2>3. consumed' = Q + STRIPE
    BY <1>1, <1>4, <1>9, <1>11
  <2>4. st' = Led(blocks', 0)
    <3>1. Holds(filled, carry, 1 * BLOCK, blocks * BLOCK)
      <4>1. Holds(filled, carry, BLOCK, P)
        BY <1>1, <1>4, <1>8, <1>11, HoldsPart
      <4> QED BY <4>1, <1>1
    <3>2. Absorb(Led(blocks, 0), filled, carry, 1) = Led(blocks + 1, 0)
      BY <3>1, <1>1, AbsorbLed
    <3> QED BY <3>2, <1>2, <1>5, <1>11
  <2> DEFINE keep == STRIPE + STRIPE
             x == Q - STRIPE
  <2>5. Holds(filled, drop, keep, x)
    BY <1>1, <1>4, <1>8, <1>11, <2>1, HoldsPart
  <2>6. keep \in Nat /\ x \in Nat /\ 0 \in Nat /\ drop \in Int /\ 0 \in Int /\ keep \in Int
        /\ x \in Int /\ 0 + keep <= BUF /\ keep \in 0 .. BUF
    BY <1>1, <2>1
  <2>7. buf' = CopyTo(filled, 0, filled, drop, keep) /\ buf_len' = keep
    BY <1>2, <1>11, <2>1
  <2>8. x = Q - carry' /\ keep = carry' + (consumed' - Q) /\ Q + STRIPE <= consumed'
        /\ consumed' < Q + BLOCK + STRIPE
    BY <1>1, <2>1, <2>3
  <2> HIDE DEF keep, x, Q
  <2>9. Holds(buf', 0, buf_len', Q - carry')
    BY <2>5, <2>6, <2>7, <2>8, CopyHolds
  <2>10. buf' \in [0 .. BUF - 1 -> Nat \cup {Zero}]
    <3>1. CopyTo(filled, 0, filled, drop, keep) \in [0 .. BUF - 1 -> Nat \cup {Zero}]
      BY <1>7, <2>5, <2>6, CopyType, Zenon
    <3> QED BY <3>1, <2>7, Zenon
  <2>11. buf_len' = carry' + (consumed' - Q) /\ buf_len' \in 0 .. BUF
    BY <2>6, <2>7, <2>8
  <2> QED BY <1>9, <2>1, <2>2, <2>4, <2>8, <2>9, <2>10, <2>11, Establish
<1> QED BY <1>10, <1>11

LEMMA StepInv ==
  ASSUME NoWrap
  PROVE  IndInv /\ [Next]_vars => IndInv'
<1> SUFFICES ASSUME IndInv, [Next]_vars
             PROVE  IndInv'
  OBVIOUS
<1>1. ASSUME NEW k \in Lengths, Update(k)
      PROVE  IndInv'
  BY <1>1, UpdateInv
<1>2. CASE AbsorbDirect
  BY <1>2, AbsorbDirectInv
<1>3. CASE Fill
  BY <1>3, FillInv
<1>4. CASE UNCHANGED vars
  BY <1>4 DEF vars, IndInv, TypeOK, Counted, BufferWindow, ChainsHoldBlocks,
              ClosingStripeKept, carry
<1> QED BY <1>1, <1>2, <1>3, <1>4 DEF Next
-----------------------------------------------------------------------------
(* finish *)

\* The leading stripes that remain and the room they take in the buffer.
LEMMA RemainderFacts ==
  ASSUME IndInv, data = 0, total > SHORT_MAX, blocks > 0
  PROVE  /\ Remainder \in 0 .. CHAINS
         /\ Remainder * STRIPE \in Nat
         /\ STRIPE + Remainder * STRIPE <= buf_len
         /\ (total - 1) \div STRIPE = blocks * CHAINS + Remainder
<1> PICK P : P = blocks * BLOCK
  OBVIOUS
<1> DEFINE m == (total - 1) \div STRIPE
           c == CHAINS * blocks
<1>1. /\ STRIPE \in Nat \ {0} /\ CHAINS \in Nat \ {0} /\ blocks \in Nat /\ P \in Nat
      /\ total = consumed /\ consumed \in Nat /\ carry = STRIPE
      /\ buf_len = carry + (consumed - P)
      /\ P + STRIPE <= consumed /\ consumed < P + BLOCK + STRIPE
  BY Facts
<1>2. m \in Nat /\ STRIPE * m <= total - 1 /\ total - 1 < STRIPE * m + STRIPE
  <2>1. \A x \in Nat : /\ x \div STRIPE \in Nat
                       /\ STRIPE * (x \div STRIPE) <= x
                       /\ x < STRIPE * (x \div STRIPE) + STRIPE
    BY <1>1, DivMod
  <2>2. total - 1 \in Nat
    BY <1>1
  <2> QED BY <2>1, <2>2
<1>3. Remainder = m - c
  BY DEF Remainder
<1> HIDE DEF m
<1>4. c \in Nat /\ STRIPE * c = P
  BY <1>1 DEF BLOCK
<1>5. STRIPE * CHAINS = BLOCK /\ BLOCK \in Nat
  BY <1>1 DEF BLOCK
<1>c. c = blocks * CHAINS
  BY <1>1
<1> HIDE DEF c
<1>6. c <= m
  <2> SUFFICES ASSUME m < c PROVE FALSE
    BY <1>2, <1>4
  <2>1. STRIPE * (m + 1) <= STRIPE * c
    BY <1>1, <1>2, <1>4
  <2>2. STRIPE * (m + 1) = STRIPE * m + STRIPE
    BY <1>1, <1>2
  <2> QED BY <2>1, <2>2, <1>1, <1>2, <1>4
<1>7. m <= c + CHAINS
  <2> SUFFICES ASSUME c + CHAINS < m PROVE FALSE
    BY <1>1, <1>2, <1>4
  <2>1. STRIPE * ((c + CHAINS) + 1) <= STRIPE * m
    BY <1>1, <1>2, <1>4
  <2>2. STRIPE * ((c + CHAINS) + 1) = (STRIPE * c + STRIPE * CHAINS) + STRIPE
    BY <1>1, <1>4
  <2> QED BY <2>1, <2>2, <1>1, <1>2, <1>4, <1>5
<1>8. Remainder * STRIPE = STRIPE * m - P
  BY <1>1, <1>2, <1>3, <1>4
<1>9. Remainder \in 0 .. CHAINS /\ Remainder * STRIPE \in Nat
  <2>1. Remainder \in 0 .. CHAINS
    BY <1>1, <1>2, <1>3, <1>4, <1>6, <1>7
  <2>2. Remainder \in Nat
    BY <2>1, <1>1
  <2> QED BY <2>1, <2>2, <1>1
<1>10. STRIPE + Remainder * STRIPE <= buf_len
  <2>1. STRIPE * m \in Nat
    BY <1>1, <1>2
  <2> QED BY <2>1, <1>1, <1>2, <1>8
<1>11. m = blocks * CHAINS + Remainder
  BY <1>1, <1>2, <1>3, <1>4, <1>c
<1> QED BY <1>9, <1>10, <1>11 DEF m

LEMMA ReadyFromInv == IndInv => FinishReady
  BY RemainderFacts DEF FinishReady

LEMMA EqualsFromInv == IndInv => StreamEqualsOneShot
<1> SUFFICES ASSUME IndInv, data = 0
             PROVE  Finish128 = Hash(Input, consumed)
  BY DEF StreamEqualsOneShot
<1> PICK P : P = blocks * BLOCK
  OBVIOUS
<1>1. /\ STRIPE \in Nat \ {0} /\ CHAINS \in Nat \ {0} /\ BLOCK \in Nat \ {0}
      /\ STRIPE <= BLOCK /\ blocks \in Nat /\ P \in Nat /\ consumed \in Nat
      /\ total = consumed + data /\ carry \in Nat
      /\ buf_len = carry + (consumed - P) /\ P <= consumed
      /\ Holds(buf, 0, buf_len, P - carry)
      /\ st = Led(blocks, 0)
      /\ blocks > 0 => carry = STRIPE
      /\ blocks > 0 => P + STRIPE <= consumed
      /\ blocks = 0 => carry = 0 /\ P = 0
  BY Facts
<1>2. total = consumed /\ buf_len \in Nat /\ total \in Nat
  BY <1>1
<1>3. blocks = 0 => buf_len = total /\ Holds(buf, 0, total, 0)
  BY <1>1, <1>2
<1>4. CASE total <= SHORT_MAX
  <2>1. blocks = 0
    BY <1>1, <1>2, <1>4 DEF SHORT_MAX
  <2>2. ASSUME NEW i \in 0 .. total - 1
        PROVE  buf[0 + i] = Input[0 + i]
    <3>1. buf[0 + i] = 0 + i
      BY <1>3, <2>1 DEF Holds
    <3>2. 0 + i \in Nat
      BY <1>2
    <3> QED BY <3>1, <3>2 DEF Input
  <2>3. Slice(buf, 0, total) = Slice(Input, 0, total)
    BY <2>2 DEF Slice
  <2>4. Finish128 = ShortHash(buf, total)
    <3>1. ~(total > SHORT_MAX)
      BY <1>1, <1>2, <1>4 DEF SHORT_MAX
    <3> QED BY <1>3, <1>4, <2>1, <3>1 DEF Finish128
  <2>5. Hash(Input, consumed) = ShortHash(Input, total)
    BY <1>2, <1>4 DEF Hash
  <2> QED BY <2>3, <2>4, <2>5 DEF ShortHash
<1>5. CASE total > SHORT_MAX
  <2>1. ~(total <= SHORT_MAX) /\ total - 1 \in Nat /\ STRIPE <= total
    BY <1>1, <1>2, <1>5 DEF SHORT_MAX
  <2>2. Hash(Input, consumed) = LongHash(Lanes(Input, total), total)
    BY <1>2, <2>1 DEF Hash
  <2>3. Holds(Input, 0, total, 0)
    BY <1>2 DEF Holds, Input
  <2>4. CASE blocks = 0
    <3> DEFINE m == (total - 1) \div STRIPE
               q == m \div CHAINS
               e == m % CHAINS
    <3>1. Finish128 = LongHash(Lanes(buf, total), total)
      BY <1>5, <2>1, <2>4 DEF Finish128, Hash
    <3>2. m \in Nat
      <4>1. \A x \in Nat : x \div STRIPE \in Nat
        BY <1>1, DivMod
      <4> QED BY <4>1, <2>1
    <3> HIDE DEF m
    <3>3. q \in Nat /\ e \in 0 .. CHAINS /\ m = q * CHAINS + e
      <4>1. \A x \in Nat : /\ x \div CHAINS \in Nat /\ x % CHAINS \in 0 .. CHAINS - 1
                           /\ x % CHAINS = x - CHAINS * (x \div CHAINS)
        BY <1>1, DivMod
      <4>2. q \in Nat /\ e \in 0 .. CHAINS - 1 /\ e = m - CHAINS * q
        BY <4>1, <3>2
      <4> HIDE DEF q, e
      <4> QED BY <4>2, <1>1, <3>2
    <3> HIDE DEF q, e
    <3>4. (total - 1) \div STRIPE = q * CHAINS + e
      BY <3>3 DEF m
    <3>5. Lanes(buf, total) = Closed(q, e, total)
      BY <3>3, <3>4, <1>2, <1>3, <1>5, <2>4, LanesClosed
    <3>6. Lanes(Input, total) = Closed(q, e, total)
      BY <3>3, <3>4, <1>2, <1>5, <2>3, LanesClosed
    <3> QED BY <2>2, <3>1, <3>5, <3>6
  <2>5. CASE blocks > 0
    <3>1. /\ Remainder \in 0 .. CHAINS
          /\ Remainder * STRIPE \in Nat
          /\ STRIPE + Remainder * STRIPE <= buf_len
          /\ (total - 1) \div STRIPE = blocks * CHAINS + Remainder
      BY <1>5, <2>5, RemainderFacts
    <3>2. Finish128 = LongHash(Finish(st, buf, STRIPE, Remainder,
                                      buf_len - STRIPE, total), total)
      BY <1>1, <1>5, <2>1, <2>5 DEF Finish128
    <3> DEFINE rs    == Remainder * STRIPE
               close == buf_len - STRIPE
    <3>3. Holds(buf, STRIPE, rs, P)
      <4> HIDE DEF rs
      <4>1. rs \in Nat /\ STRIPE + rs <= buf_len
        BY <3>1 DEF rs
      <4> QED BY <4>1, <1>1, <1>2, <2>5, HoldsPart
    <3>4. Holds(buf, close, STRIPE, total - STRIPE)
      BY <1>1, <1>2, <2>1, <2>5, HoldsPart
    <3>5. Holds(buf, STRIPE, Remainder * STRIPE, blocks * BLOCK)
      BY <3>3
    <3>6. close \in Int /\ STRIPE \in Int
      BY <1>1, <1>2
    <3> HIDE DEF rs, close
    <3>7. Finish(Led(blocks, 0), buf, STRIPE, Remainder, close, total)
            = Closed(blocks, Remainder, total)
      BY <1>1, <1>2, <2>1, <3>1, <3>4, <3>5, <3>6, FinishLed
    <3>8. Lanes(Input, total) = Closed(blocks, Remainder, total)
      BY <1>1, <1>2, <1>5, <2>3, <3>1, LanesClosed
    <3> QED BY <1>1, <2>2, <3>2, <3>7, <3>8 DEF close
  <2> QED BY <1>1, <2>4, <2>5
<1> QED BY <1>1, <1>2, <1>4, <1>5 DEF SHORT_MAX
-----------------------------------------------------------------------------
(* Theorems *)

\* As long as the counter does not wrap, the state of the stream is always
\* what IndInv says: the buffer window, the chains and the counter agree.
THEOREM InductiveInvariant == ASSUME NoWrap PROVE Spec => []IndInv
<1>1. Init => IndInv
  BY InitInv
<1>2. IndInv /\ [Next]_vars => IndInv'
  BY StepInv
<1> QED BY <1>1, <1>2, PTL DEF Spec

\* Types; in particular no copy of update runs past the end of the buffer.
THEOREM TypeCorrect == ASSUME NoWrap PROVE Spec => []TypeOK
<1>1. IndInv => TypeOK
  BY DEF IndInv
<1> QED BY <1>1, InductiveInvariant, PTL

\* The buffer holds, without a gap, the input after the absorbed blocks and
\* the stripe before it.
THEOREM BufferTheorem == ASSUME NoWrap PROVE Spec => []BufferWindow
<1>1. IndInv => BufferWindow
  BY DEF IndInv
<1> QED BY <1>1, InductiveInvariant, PTL

\* Blocks are absorbed once, each by its chains, in order.
THEOREM ChainsTheorem == ASSUME NoWrap PROVE Spec => []ChainsHoldBlocks
<1>1. IndInv => ChainsHoldBlocks
  BY DEF IndInv
<1> QED BY <1>1, InductiveInvariant, PTL

\* A block is absorbed only when a whole stripe follows it, so finish always
\* has a closing stripe.
THEOREM ClosingTheorem == ASSUME NoWrap PROVE Spec => []ClosingStripeKept
<1>1. IndInv => ClosingStripeKept
  BY DEF IndInv
<1> QED BY <1>1, InductiveInvariant, PTL

\* The debug assertion of finish128 never fails: its remaining stripes are at
\* most CHAINS and in the buffer.
THEOREM AssertionHolds == ASSUME NoWrap PROVE Spec => []FinishReady
<1>1. IndInv => FinishReady
  BY ReadyFromInv
<1> QED BY <1>1, InductiveInvariant, PTL

\* Whatever the lengths of the updates, finish returns the one-shot hash of
\* the bytes given so far.
THEOREM StreamCorrect == ASSUME NoWrap PROVE Spec => []StreamEqualsOneShot
<1>1. IndInv => StreamEqualsOneShot
  BY EqualsFromInv
<1> QED BY <1>1, InductiveInvariant, PTL
-----------------------------------------------------------------------------
(* The abstract incremental hash *)

\* What the digest of the abstract specification is in a state of the stream.
LEMMA DigestIs ==
  ASSUME IndInv
  PROVE  /\ data = 0 => OneShot(consumed) = << Finish128 >>
         /\ consumed \in Nat /\ data \in Nat /\ consumed + data <= MaxInput
<1>1. StreamEqualsOneShot
  BY EqualsFromInv
<1>2. data = 0 => Finish128 = Hash(Input, consumed)
  BY <1>1 DEF StreamEqualsOneShot
<1>3. data = 0 => OneShot(consumed) = << Finish128 >>
  BY <1>2 DEF OneShot
<1> QED BY <1>3 DEF IndInv, TypeOK, Counted

\* The initial state of the stream is that of the abstract hash.
LEMMA AbstractInit == Init => Abstract!Init
<1> SUFFICES ASSUME Init PROVE Abstract!Init
  OBVIOUS
<1>1. IndInv
  BY InitInv
<1>2. data = 0 /\ consumed = 0 /\ consumed + data = 0 /\ ~(data > 0)
  BY DEF Init
<1>3. OneShot(0) = << Finish128 >>
  BY <1>1, <1>2, DigestIs
<1> QED BY <1>2, <1>3 DEF Abstract!Init

\* An update is a Write, or nothing when it is empty; a step of its loop is
\* the Return when it consumes the last byte, and nothing otherwise.
LEMMA AbstractStep == IndInv /\ IndInv' /\ [Next]_vars => [Abstract!Next]_(Abstract!vars)
<1> DEFINE Known == /\ data = 0 => OneShot(consumed) = << Finish128 >>
                    /\ consumed \in Nat /\ data \in Nat /\ consumed + data <= MaxInput
<1>0. IndInv => Known
  BY DigestIs
<1>11. IndInv' => Known'
  <2> HIDE DEF Known
  <2> QED BY <1>0, PTL
<1> SUFFICES ASSUME IndInv, IndInv', [Next]_vars
             PROVE  [Abstract!Next]_(Abstract!vars)
  OBVIOUS
<1>1. /\ data = 0 => OneShot(consumed) = << Finish128 >>
      /\ consumed \in Nat /\ data \in Nat /\ consumed + data <= MaxInput
  BY <1>0
<1>2. /\ data' = 0 => OneShot(consumed') = << Finish128' >>
      /\ consumed' \in Nat /\ data' \in Nat /\ consumed' + data' <= MaxInput
  BY <1>11
<1>3. ASSUME NEW k \in Lengths, Update(k), k > 0
      PROVE  Abstract!Write
  <2>1. /\ ~(data > 0) /\ data' > 0
        /\ k \in 1 .. MaxInput - (consumed + data)
        /\ consumed' + data' = consumed + data + k
    BY <1>1, <1>3, StreamAssumption DEF Update
  <2> QED BY <2>1 DEF Abstract!Write
<1>4. ASSUME consumed' + data' = consumed + data, data > 0, data' = 0
      PROVE  Abstract!Return
  <2>1. ~(data' > 0) /\ consumed + data = consumed'
    BY <1>2, <1>4
  <2> QED BY <1>2, <1>4, <2>1 DEF Abstract!Return
<1>5. ASSUME consumed' = consumed, data' = data
      PROVE  UNCHANGED Abstract!vars
  <2>1. CASE data > 0
    BY <1>5, <2>1 DEF Abstract!vars
  <2>2. CASE data = 0
    <3>1. << Finish128' >> = << Finish128 >>
      BY <1>1, <1>2, <1>5, <2>2
    <3>2. ~(data > 0) /\ ~(data' > 0)
      BY <1>5, <2>2
    <3> QED BY <1>5, <3>1, <3>2 DEF Abstract!vars
  <2> QED BY <1>1, <2>1, <2>2
<1>6. ASSUME consumed' + data' = consumed + data, data > 0, data' > 0
      PROVE  UNCHANGED Abstract!vars
  BY <1>6 DEF Abstract!vars
<1>7. ASSUME AbsorbDirect \/ Fill
      PROVE  consumed' + data' = consumed + data /\ data > 0
  <2>1. CASE AbsorbDirect
    BY <1>1, <2>1 DEF AbsorbDirect
  <2>2. CASE Fill
    <3>1. Take \in Int
      BY BlockFacts, CarryType DEF IndInv, TypeOK, Take, Full, carry
    <3> QED BY <1>1, <2>2, <3>1 DEF Fill
  <2> QED BY <1>7, <2>1, <2>2
<1>8. CASE AbsorbDirect \/ Fill
  <2>1. data' = 0 \/ data' > 0
    BY <1>2
  <2> QED BY <1>4, <1>6, <1>7, <1>8, <2>1 DEF Abstract!Next
<1>9. ASSUME NEW k \in Lengths, Update(k)
      PROVE  [Abstract!Next]_(Abstract!vars)
  <2>1. k = 0 \/ k > 0
    BY StreamAssumption
  <2>2. consumed' = consumed /\ data' = k /\ data = 0
    BY <1>9 DEF Update
  <2> QED BY <1>3, <1>5, <1>9, <2>1, <2>2 DEF Abstract!Next
<1>10. CASE UNCHANGED vars
  BY <1>5, <1>10 DEF vars
<1> QED BY <1>8, <1>9, <1>10 DEF Next

\* Every behaviour of the stream is, step by step, one of the incremental
\* hash of IncrementalHash: ImplementsIncrementalHash without its fairness.
THEOREM ImplementsSafety ==
  ASSUME NoWrap
  PROVE  Spec => Abstract!Init /\ [][Abstract!Next]_(Abstract!vars)
<1>1. Init => Abstract!Init
  BY AbstractInit
<1>2. IndInv /\ IndInv' /\ [Next]_vars => [Abstract!Next]_(Abstract!vars)
  BY AbstractStep
<1> QED BY <1>1, <1>2, InductiveInvariant, PTL DEF Spec
=============================================================================
