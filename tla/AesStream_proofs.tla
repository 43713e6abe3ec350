--------------------------- MODULE AesStream_proofs ---------------------------
(***************************************************************************)
(* The incremental hasher of the AES function equals the one-shot function *)
(* for every block size, all lane counts and regimes, and every sequence   *)
(* of update lengths.  The only hypothesis is that the length counter does *)
(* not wrap.                                                               *)
(***************************************************************************)
EXTENDS AesStream, Memory_proofs

\* The bytes of all updates together do not reach 2^w: `total' is exact.
NoWrap == MaxInput < USIZE

\* Block j - 1 of lane i of w lanes, read from the input.
Tok(w, j, i) == AesBlock(Input, ((j - 1) * w + i) * B, 0)

\* The w lanes after the first n blocks.
Led(w, n) == [i \in 0 .. w - 1 |-> [j \in 1 .. Count(w, n, i) |-> Tok(w, j, i)]]

\* The regular blocks of len bytes in a regime of w lanes.
Regular(w, len) == (len + B - 1) \div B - w
-----------------------------------------------------------------------------
(* Constants *)

LEMMA ConstantFacts ==
  /\ B \in Width /\ L4 \in Width /\ L8 \in Width /\ L \in Width
  /\ SHORT_MAX \in Nat /\ L4_MAX \in Nat /\ L8_MAX \in Nat
  /\ SHORT_MAX <= L4_MAX /\ L4_MAX <= L8_MAX
  /\ SHORT_MAX >= B * L4 /\ L4_MAX >= B * L8 /\ L8_MAX >= B * L
  BY AesAssumption DEF Width
-----------------------------------------------------------------------------
(* Lanes *)

Blocks == [bytes : [0 .. B - 1 -> Nat], x : Nat]

\* A memory that holds the input from byte `at' on, at address `from', holds
\* its blocks.
LEMMA BlockOfInput ==
  ASSUME NEW mem, NEW from \in Int, NEW at \in Nat, NEW x, Holds(mem, from, B, at)
  PROVE  AesBlock(mem, from, x) = AesBlock(Input, at, x)
<1>1. \A i \in 0 .. B - 1 : Input[at + i] = at + i
  BY ConstantFacts DEF Input, Width
<1> QED BY <1>1 DEF Holds, AesBlock

LEMMA TokType ==
  ASSUME NEW w \in Width, NEW j \in Nat \ {0}, NEW i \in 0 .. w - 1
  PROVE  Tok(w, j, i) \in Blocks
<1> DEFINE at == ((j - 1) * w + i) * B
<1>1. at \in Nat
  <2>1. (j - 1) * w \in Nat
    BY Products DEF Width
  <2>2. (j - 1) * w + i \in Nat
    BY <2>1 DEF Width
  <2> QED BY <2>2, ConstantFacts, Products DEF Width
<1> HIDE DEF at
<1>2. \A l \in 0 .. B - 1 : at + l \in Nat
  BY <1>1, ConstantFacts DEF Width
<1>3. AesBlock(Input, at, 0) \in Blocks
  BY <1>2 DEF AesBlock, Input, Blocks
<1> QED BY <1>3 DEF Tok, at

\* The next blocks of a lane.
LEMMA ConcatToks ==
  ASSUME NEW w \in Width, NEW i \in 0 .. w - 1, NEW b \in Nat, NEW k \in Nat
  PROVE  [j \in 1 .. b |-> Tok(w, j, i)] \o [j \in 1 .. k |-> Tok(w, b + j, i)]
           = [j \in 1 .. b + k |-> Tok(w, j, i)]
<1> DEFINE s == [j \in 1 .. b |-> Tok(w, j, i)]
           t == [j \in 1 .. k |-> Tok(w, b + j, i)]
<1>1. \A j \in Nat \ {0} : Tok(w, j, i) \in Blocks
  BY TokType
<1>2. s \in Seq(Blocks) /\ Len(s) = b
  BY <1>1
<1>3. t \in Seq(Blocks) /\ Len(t) = k
  BY <1>1
<1>4. /\ s \o t \in Seq(Blocks)
      /\ Len(s \o t) = b + k
      /\ \A j \in 1 .. b + k : (s \o t)[j] = IF j <= b THEN s[j] ELSE t[j - b]
  BY <1>2, <1>3
<1>5. \A j \in 1 .. b + k : (s \o t)[j] = Tok(w, j, i)
  BY <1>4
<1>6. s \o t = [j \in 1 .. b + k |-> (s \o t)[j]]
  BY <1>4
<1> QED BY <1>5, <1>6

\* absorb_blocks on n blocks that continue the input after p whole steps.
LEMMA AbsorbLed ==
  ASSUME NEW w \in Width, NEW p \in Nat, NEW n \in Nat, NEW mem, NEW from \in Int,
         Holds(mem, from, n * B, (p * w) * B)
  PROVE  AbsorbBlocks(w, Led(w, p * w), mem, from, n) = Led(w, p * w + n)
<1> DEFINE P == (p * w) * B
<1>w. w \in Nat \ {0} /\ B \in Nat \ {0} /\ P \in Nat /\ n * B \in Nat
  BY ConstantFacts, Products DEF Width
<1>1. ASSUME NEW i \in 0 .. w - 1, NEW j \in 1 .. Count(w, n, i)
      PROVE  AesBlock(mem, from + ((j - 1) * w + i) * B, 0) = Tok(w, p + j, i)
  <2> DEFINE c == (j - 1) * w + i
             o == c * B
  <2>1. c \in Nat /\ c + 1 <= n
    BY CountBound, <1>w
  <2>2. o \in Nat /\ o + B <= n * B
    <3> HIDE DEF c
    <3>1. (c + 1) * B <= n * B /\ (c + 1) * B = c * B + B /\ c * B \in Nat
      BY <2>1, <1>w
    <3> QED BY <3>1, <1>w
  <2>3. (((p + j) - 1) * w + i) * B = P + o
    <3>1. j \in Nat /\ j - 1 \in Int
      BY CountStep, <1>w
    <3>2. ((p + j) - 1) * w = p * w + (j - 1) * w
      BY <3>1, <1>w
    <3>3. ((p + j) - 1) * w + i = p * w + c
      BY <3>1, <3>2, <1>w
    <3>4. p * w \in Nat
      BY <1>w
    <3> HIDE DEF c
    <3> QED BY <2>1, <3>3, <3>4, Products, <1>w
  <2>h. Holds(mem, from, n * B, P)
    OBVIOUS
  <2> DEFINE nB == n * B
  <2> HIDE DEF o, P, nB
  <2>4. Holds(mem, from + o, B, P + o)
    <3>1. o \in Nat /\ o + B <= nB /\ nB \in Nat /\ P \in Nat /\ B \in Nat
      BY <2>2, <1>w DEF nB
    <3>2. Holds(mem, from, nB, P)
      BY <2>h DEF nB
    <3> QED BY <3>1, <3>2, HoldsPart
  <2>5. from + o \in Int /\ P + o \in Nat
    BY <2>2, <1>w
  <2>6. AesBlock(mem, from + o, 0) = AesBlock(Input, P + o, 0)
    BY <2>4, <2>5, BlockOfInput
  <2> QED BY <2>3, <2>6 DEF Tok, o
<1>2. ASSUME NEW i \in 0 .. w - 1
      PROVE  AbsorbBlocks(w, Led(w, p * w), mem, from, n)[i] = Led(w, p * w + n)[i]
  <2> DEFINE k == Count(w, n, i)
  <2>1. k \in Nat /\ Count(w, p * w, i) = p /\ Count(w, p * w + n, i) = p + k
    BY CountStep
  <2>2. Led(w, p * w)[i] = [j \in 1 .. p |-> Tok(w, j, i)]
    BY <2>1 DEF Led
  <2>3. Led(w, p * w + n)[i] = [j \in 1 .. p + k |-> Tok(w, j, i)]
    BY <2>1 DEF Led
  <2>4. AbsorbBlocks(w, Led(w, p * w), mem, from, n)[i]
          = Led(w, p * w)[i] \o [j \in 1 .. k |->
                AesBlock(mem, from + ((j - 1) * w + i) * B, 0)]
    BY DEF AbsorbBlocks, Count
  <2>5. [j \in 1 .. k |-> AesBlock(mem, from + ((j - 1) * w + i) * B, 0)]
          = [j \in 1 .. k |-> Tok(w, p + j, i)]
    BY <1>1
  <2> HIDE DEF k
  <2>6. [j \in 1 .. p |-> Tok(w, j, i)] \o [j \in 1 .. k |-> Tok(w, p + j, i)]
          = [j \in 1 .. p + k |-> Tok(w, j, i)]
    BY <2>1, ConcatToks
  <2> QED BY <2>2, <2>3, <2>4, <2>5, <2>6, Zenon
<1> QED BY <1>2 DEF AbsorbBlocks, Led

\* The same on w lanes that are told to be those of p steps.
LEMMA AbsorbSteps ==
  ASSUME NEW p \in Nat, NEW s \in Nat, NEW mem, NEW from \in Int, NEW at \in Int,
         NEW lanes, lanes = Led(L, p * L), at = p * STEP,
         Holds(mem, from, s * STEP, at)
  PROVE  AbsorbBlocks(L, lanes, mem, from, s * L) = Led(L, (p + s) * L)
<1>1. s * L \in Nat /\ (p + s) * L = p * L + s * L /\ L \in Width /\ B \in Width
  BY ConstantFacts DEF Width
<1>2. p * STEP = (p * L) * B /\ s * STEP = (s * L) * B
  <2>1. \A i \in Nat : i * (B * L) = (i * L) * B
    BY <1>1, Products DEF Width
  <2> QED BY <2>1 DEF STEP
<1>3. Holds(mem, from, (s * L) * B, (p * L) * B)
  BY <1>2
<1> QED BY <1>1, <1>3, AbsorbLed

\* The closing region, from a memory that holds the last blocks of len bytes.
LEMMA FinishHeld ==
  ASSUME NEW w \in Width, NEW t, NEW mem, NEW c \in Int, NEW len \in Nat, B * w <= len,
         Holds(mem, c, B * w, len - B * w)
  PROVE  FinishBlocks(w, t, mem, c, len) = FinishBlocks(w, t, Input, len - B * w, len)
<1> DEFINE e == len - B * w
           size == B * w
<1>w. w \in Nat \ {0} /\ B \in Nat \ {0} /\ e \in Nat /\ size \in Nat
  BY ConstantFacts, Products DEF Width
<1>1. ASSUME NEW i \in 0 .. w - 1
      PROVE  AesBlock(mem, c + B * i, len) = AesBlock(Input, e + B * i, len)
  <2> DEFINE o == B * i
  <2>1. o \in Nat /\ o + B <= size
    <3>1. B * (i + 1) <= B * w /\ B * (i + 1) = B * i + B /\ B * i \in Nat
      BY <1>w
    <3> QED BY <3>1
  <2>h. Holds(mem, c, size, e)
    OBVIOUS
  <2> HIDE DEF o, e, size
  <2>2. Holds(mem, c + o, B, e + o)
    BY <2>1, <2>h, <1>w, HoldsPart
  <2>3. AesBlock(mem, c + o, len) = AesBlock(Input, e + o, len)
    <3>1. c + o \in Int /\ e + o \in Nat
      BY <2>1, <1>w
    <3> QED BY <2>2, <3>1, BlockOfInput
  <2> QED BY <2>3 DEF o
<1>2. [i \in 0 .. w - 1 |-> Append(t[i], AesBlock(mem, c + B * i, len))]
        = [i \in 0 .. w - 1 |-> Append(t[i], AesBlock(Input, e + B * i, len))]
  BY <1>1
<1> QED BY <1>2 DEF FinishBlocks
-----------------------------------------------------------------------------
(* The one-shot function *)

\* The regular blocks of an input end inside it, less than a block before its
\* closing region.
LEMMA RegularFacts ==
  ASSUME NEW w \in Width, NEW len \in Nat, B * w <= len
  PROVE  /\ Regular(w, len) \in Nat
         /\ Regular(w, len) * B + B * w >= len
         /\ Regular(w, len) * B + B * w < len + B
         /\ Regular(w, len) * B <= len
<1> DEFINE c == (len + B - 1) \div B
           size == B * w
<1>w. w \in Nat \ {0} /\ B \in Nat \ {0} /\ len + B - 1 \in Nat
  BY ConstantFacts DEF Width
<1>1. c \in Nat /\ B * c <= len + B - 1 /\ len + B - 1 < B * c + B
  <2>1. \A y \in Nat : /\ y \div B \in Nat /\ B * (y \div B) <= y
                      /\ y < B * (y \div B) + B
    BY <1>w, DivMod
  <2> QED BY <2>1, <1>w
<1>2. Regular(w, len) = c - w
  BY DEF Regular
<1> HIDE DEF c
<1>3. w <= c
  <2> SUFFICES ASSUME c < w PROVE FALSE
    BY <1>1, <1>w
  <2>1. B * (c + 1) <= B * w /\ B * (c + 1) = B * c + B
    BY <1>1, <1>w
  <2> QED BY <1>1, <1>w, <2>1
<1>4. (c - w) * B = B * c - size /\ size \in Nat /\ B <= size
  <2>1. (c - w) * B = B * c - B * w
    BY <1>1, <1>w
  <2>2. B * 1 <= B * w /\ B * w \in Nat
    BY <1>w
  <2> QED BY <2>1, <2>2, <1>w
<1>5. c - w \in Nat /\ size <= len
  BY <1>1, <1>3, <1>w
<1> DEFINE reg == (c - w) * B
           Bc == B * c
<1>6. Bc \in Nat
  BY <1>1, <1>w
<1> HIDE DEF reg, Bc, size
<1>7. reg + size >= len /\ reg + size < len + B /\ reg <= len
  <2>1. reg = Bc - size /\ size \in Nat /\ B <= size
    BY <1>4 DEF reg, Bc
  <2>2. Bc <= len + B - 1 /\ len + B - 1 < Bc + B
    BY <1>1 DEF Bc
  <2> QED BY <2>1, <2>2, <1>5, <1>6, <1>w
<1> QED BY <1>2, <1>5, <1>7 DEF reg, size

LEMMA InitLed ==
  ASSUME NEW w \in Width
  PROVE  InitLanes(w) = Led(w, 0)
<1>1. ASSUME NEW i \in 0 .. w - 1 PROVE Count(w, 0, i) = 0
  BY DEF Count, Width
<1>2. ASSUME NEW i \in 0 .. w - 1
      PROVE  [j \in 1 .. Count(w, 0, i) |-> Tok(w, j, i)] = << >>
  BY <1>1
<1> QED BY <1>2 DEF InitLanes, Led

\* The lane hash of a memory that holds the first len bytes of the input.
LEMMA LanesHashHeld ==
  ASSUME NEW w \in Width, NEW len \in Nat, B * w <= len, NEW mem, Holds(mem, 0, len, 0)
  PROVE  LanesHash(w, mem, len)
           = FinishBlocks(w, Led(w, Regular(w, len)), Input, len - B * w, len)
<1> DEFINE m == Regular(w, len)
           c == len - B * w
<1>w. w \in Nat \ {0} /\ B \in Nat \ {0} /\ B * w \in Nat /\ c \in Nat
  BY ConstantFacts, Products DEF Width
<1>1. m \in Nat /\ m * B <= len /\ m * B \in Nat
  BY RegularFacts, <1>w
<1>2. AbsorbBlocks(w, InitLanes(w), mem, 0, m) = Led(w, m)
  <2>1. (0 * w) * B = 0 /\ 0 * w + m = m /\ 0 * w = 0
    BY <1>w, <1>1
  <2> DEFINE mB == m * B
  <2>2. mB \in Nat /\ mB <= len
    BY <1>1
  <2> HIDE DEF mB
  <2>3. Holds(mem, 0, mB, 0)
    BY <2>2, HoldsPart
  <2>4. Holds(mem, 0, m * B, (0 * w) * B)
    BY <2>1, <2>3 DEF mB
  <2> HIDE DEF m
  <2>5. AbsorbBlocks(w, Led(w, 0 * w), mem, 0, m) = Led(w, 0 * w + m)
    BY <1>1, <2>4, AbsorbLed
  <2> QED BY <2>1, <2>5, InitLed
<1>3. FinishBlocks(w, Led(w, m), mem, c, len) = FinishBlocks(w, Led(w, m), Input, c, len)
  <2>1. Holds(mem, c, B * w, c)
    <3> DEFINE size == B * w
    <3>1. size \in Nat /\ c + size = len
      BY <1>w
    <3> HIDE DEF size, c
    <3> QED BY <3>1, <1>w, HoldsPart DEF size
  <2> QED BY <2>1, <1>w, FinishHeld
<1>4. LanesHash(w, mem, len) = FinishBlocks(w, AbsorbBlocks(w, InitLanes(w), mem, 0, m), mem, c, len)
  BY DEF LanesHash, Regular
<1> QED BY <1>2, <1>3, <1>4

\* Each regime of the lane path starts above its own closing region.
LEMMA RegimeFacts ==
  ASSUME NEW len \in Nat, len > SHORT_MAX
  PROVE  /\ RegimeLanes(len) \in Width
         /\ B * RegimeLanes(len) <= len
         /\ len > L8_MAX => RegimeLanes(len) = L
<1>1. CASE len <= L4_MAX
  <2>1. RegimeLanes(len) = L4
    BY <1>1 DEF RegimeLanes
  <2> QED BY <1>1, <2>1, ConstantFacts, Products DEF Width
<1>2. CASE ~(len <= L4_MAX) /\ len <= L8_MAX
  <2>1. RegimeLanes(len) = L8
    BY <1>2 DEF RegimeLanes
  <2> QED BY <1>2, <2>1, ConstantFacts, Products DEF Width
<1>3. CASE ~(len <= L4_MAX) /\ ~(len <= L8_MAX)
  <2>1. RegimeLanes(len) = L
    BY <1>3 DEF RegimeLanes
  <2> QED BY <1>3, <2>1, ConstantFacts, Products DEF Width
<1> QED BY <1>1, <1>2, <1>3

\* The hash depends on nothing but the len bytes.
LEMMA HashHeld ==
  ASSUME NEW len \in Nat, NEW mem, Holds(mem, 0, len, 0)
  PROVE  Hash(mem, len) = Hash(Input, len)
<1>1. Holds(Input, 0, len, 0)
  BY DEF Holds, Input
<1>2. CASE len <= SHORT_MAX
  <2>1. [i \in 0 .. len - 1 |-> mem[i]] = [i \in 0 .. len - 1 |-> Input[i]]
    <3>1. \A i \in 0 .. len - 1 : mem[i] = Input[i]
      BY <1>1 DEF Holds
    <3> QED BY <3>1
  <2> QED BY <1>2, <2>1 DEF Hash
<1>3. CASE ~(len <= SHORT_MAX)
  <2> DEFINE w == RegimeLanes(len)
  <2>1. w \in Width /\ B * w <= len
    BY <1>3, RegimeFacts, ConstantFacts
  <2> HIDE DEF w
  <2>2. LanesHash(w, mem, len) = LanesHash(w, Input, len)
    BY <1>1, <2>1, LanesHashHeld
  <2> QED BY <1>3, <2>2 DEF Hash, w
<1> QED BY <1>2, <1>3
-----------------------------------------------------------------------------
(* The inductive invariant *)

\* As long as it cannot wrap, `total' counts the bytes of all updates, and no
\* step is absorbed before the lane count is known.
Counted == /\ total = written
           /\ written <= MaxInput
           /\ total <= L8_MAX => absorbed_blocks = 0

IndInv == /\ TypeOK
          /\ Counted
          /\ BufferWindow
          /\ LanesHoldBlocks
          /\ ClosingRegionBuffered

LEMMA StepFacts ==
  /\ STEP \in Nat \ {0} /\ B \in Nat \ {0} /\ L \in Nat \ {0} /\ B <= STEP
  /\ L8_MAX \in Nat /\ STEP <= L8_MAX
  /\ BUF \in Nat /\ L8_MAX + STEP <= BUF
  /\ \A p \in Nat : p * STEP \in Nat /\ (p * L) * B = p * STEP /\ p * L \in Nat
  /\ \A p \in Int : \A s \in Int : (p + s) * STEP = p * STEP + s * STEP
<1>w. B \in Nat \ {0} /\ L \in Nat \ {0} /\ L8_MAX \in Nat /\ L8_MAX >= B * L
  BY ConstantFacts DEF Width
<1>1. STEP \in Nat \ {0} /\ B <= STEP
  <2>1. B * 1 <= B * L /\ B * L \in Nat
    BY <1>w
  <2> QED BY <2>1, <1>w DEF STEP
<1>2. \A p \in Nat : p * STEP \in Nat /\ (p * L) * B = p * STEP /\ p * L \in Nat
  BY <1>w, Products DEF STEP
<1>3. STEP <= L8_MAX
  BY <1>w DEF STEP
<1>4. \A p \in Int : \A s \in Int : (p + s) * STEP = p * STEP + s * STEP
  BY <1>1, Products
<1> HIDE DEF STEP
<1> QED BY <1>w, <1>1, <1>2, <1>3, <1>4 DEF BUF

\* What a stream that has absorbed p steps is known by.
Facts(p, A) ==
  /\ p \in Nat /\ A \in Nat /\ A = p * STEP /\ absorbed_blocks = p * L
  /\ absorbed_blocks * B = A
  /\ total \in Nat /\ total = written /\ total <= MaxInput
  /\ buf_len \in 0 .. BUF /\ A + buf_len = total
  /\ buf \in [0 .. BUF - 1 -> Nat \cup {Zero}]
  /\ Holds(buf, 0, buf_len, A)
  /\ state = Led(L, p * L)
  /\ total <= L8_MAX => A = 0
  /\ total > L8_MAX => buf_len >= STEP /\ buf_len < 2 * STEP

Shape == \E p \in Nat : \E A \in Nat : Facts(p, A)

LEMMA Known == IndInv => Shape
<1> SUFFICES ASSUME IndInv PROVE \E p \in Nat : \E A \in Nat : Facts(p, A)
  BY DEF Shape
<1> DEFINE p == absorbed_blocks \div L
           A == absorbed_blocks * B
<1>w. B \in Nat \ {0} /\ L \in Nat \ {0} /\ STEP \in Nat \ {0}
  BY StepFacts
<1>t. absorbed_blocks \in Nat /\ total \in Nat /\ absorbed_blocks % L = 0
  BY DEF IndInv, TypeOK, LanesHoldBlocks
<1>1. p \in Nat /\ absorbed_blocks = p * L
  <2>1. \A y \in Nat : /\ y \div L \in Nat
                      /\ y % L = y - L * (y \div L)
    BY <1>w, DivMod
  <2>2. p \in Nat /\ absorbed_blocks = L * p
    <3>1. p \in Nat /\ 0 = absorbed_blocks - L * p
      BY <1>t, <2>1
    <3>2. L * p \in Nat
      BY <3>1, <1>w, Products
    <3> QED BY <3>1, <3>2, <1>t
  <2> HIDE DEF p
  <2> QED BY <2>2, <1>w, Products
<1> HIDE DEF p
<1>2. A = p * STEP /\ A \in Nat
  BY <1>1, StepFacts
<1>3. state = Led(L, p * L)
  <2>1. \A i \in 0 .. L - 1 : state[i] = [j \in 1 .. p |-> Tok(L, j, i)]
    <3>1. absorbed_blocks \div L = p
      BY DEF p
    <3> QED BY <3>1 DEF IndInv, LanesHoldBlocks, Tok
  <2>2. \A i \in 0 .. L - 1 : Led(L, p * L)[i] = [j \in 1 .. p |-> Tok(L, j, i)]
    <3>1. \A i \in 0 .. L - 1 : Count(L, p * L, i) = p
      BY <1>1, CountStep, ConstantFacts
    <3> QED BY <3>1 DEF Led
  <2>3. DOMAIN state = 0 .. L - 1 /\ state = [i \in 0 .. L - 1 |-> state[i]]
    BY DEF IndInv, TypeOK
  <2> QED BY <2>1, <2>2, <2>3 DEF Led
<1>4. Holds(buf, 0, buf_len, A) /\ A + buf_len = total
  BY DEF IndInv, BufferWindow, Holds
<1>5. total <= L8_MAX => A = 0
  BY <1>w DEF IndInv, Counted
<1>6. total > L8_MAX => buf_len >= STEP /\ buf_len < 2 * STEP
  BY <1>w, <1>t DEF IndInv, ClosingRegionBuffered, TypeOK
<1>7. /\ total = written /\ total <= MaxInput /\ buf_len \in 0 .. BUF
      /\ buf \in [0 .. BUF - 1 -> Nat \cup {Zero}]
  BY DEF IndInv, TypeOK, Counted
<1>8. Facts(p, A)
  BY <1>t, <1>1, <1>2, <1>3, <1>4, <1>5, <1>6, <1>7 DEF Facts
<1> QED BY <1>1, <1>2, <1>8

\* The regular blocks that are left fit the buffer.
LEMMA RemainingFacts ==
  ASSUME NEW p \in Nat, NEW A \in Nat, Facts(p, A), total > L8_MAX
  PROVE  /\ Remaining \in 0 .. L /\ Remaining * B \in Nat /\ Remaining * B <= buf_len
         /\ p * L + Remaining = Regular(L, total)
<1>w. /\ B \in Nat \ {0} /\ L \in Nat \ {0} /\ STEP \in Nat \ {0} /\ B <= STEP
      /\ B * L = STEP /\ L \in Width /\ STEP <= L8_MAX /\ L8_MAX \in Nat
  BY StepFacts, ConstantFacts DEF STEP
<1>1. /\ total \in Nat /\ absorbed_blocks = p * L /\ p * L \in Nat /\ A = (p * L) * B
      /\ A + buf_len = total /\ buf_len >= STEP /\ buf_len < 2 * STEP /\ buf_len \in Nat
  BY StepFacts DEF Facts
<1> DEFINE reg == Regular(L, total)
           a == p * L
<1>2. /\ reg \in Nat /\ reg * B + STEP >= total /\ reg * B + STEP < total + B
  BY RegularFacts, <1>1, <1>w
<1>3. Remaining = reg - a
  BY <1>1 DEF Remaining, Regular
<1>4. a \in Nat /\ A = a * B
  BY <1>1
<1> HIDE DEF reg, a
<1>5. (reg - a) * B = reg * B - a * B
  BY <1>2, <1>4, <1>w
<1>6. reg * B \in Nat
  BY <1>2, <1>w
<1> DEFINE rB == reg * B
           d == (reg - a) * B
<1>7. d = rB - A /\ rB \in Nat /\ rB + STEP >= total /\ rB + STEP < total + B
  BY <1>2, <1>4, <1>5, <1>6
<1> HIDE DEF rB, d
<1>8. d \in Nat /\ d <= buf_len /\ d <= STEP + B - 1
  BY <1>1, <1>7, <1>w
<1>9. reg - a \in 0 .. L
  <2>1. ~(reg < a)
    <3> SUFFICES ASSUME reg < a PROVE FALSE
      OBVIOUS
    <3>1. reg + 1 <= a
      BY <1>2, <1>4
    <3>2. (reg + 1) * B <= a * B /\ (reg + 1) * B = reg * B + B
      BY <3>1, <1>2, <1>4, <1>w
    <3> QED BY <3>2, <1>4, <1>6, <1>7, <1>8, <1>w DEF rB
  <2>2. ~(reg - a > L)
    <3> SUFFICES ASSUME reg - a > L PROVE FALSE
      OBVIOUS
    <3>1. reg - a >= L + 1
      BY <1>2, <1>4, <1>w
    <3>2. (L + 1) * B <= (reg - a) * B /\ (L + 1) * B = B * L + B
      BY <3>1, <1>2, <1>4, <1>w
    <3> QED BY <3>2, <1>8, <1>w DEF d
  <2> QED BY <2>1, <2>2, <1>2, <1>4, <1>w
<1> QED BY <1>3, <1>8, <1>9, <1>2, <1>4 DEF d, reg, a

\* A state of that form satisfies the invariant.
LEMMA Established == Shape => IndInv
<1> SUFFICES ASSUME NEW p \in Nat, NEW A \in Nat, Facts(p, A)
             PROVE  IndInv
  BY DEF Shape
<1>w. B \in Nat \ {0} /\ L \in Nat \ {0} /\ STEP \in Nat \ {0} /\ L \in Width
  BY StepFacts, ConstantFacts
<1>1. state = [i \in 0 .. L - 1 |-> [j \in 1 .. p |-> Tok(L, j, i)]]
  <2>1. \A i \in 0 .. L - 1 : Count(L, p * L, i) = p
    BY CountStep, <1>w
  <2> QED BY <2>1 DEF Facts, Led
<1>2. absorbed_blocks \div L = p /\ absorbed_blocks % L = 0 /\ absorbed_blocks \in Nat
  <2>1. p * L = p * L + 0 /\ p * L \in Nat /\ 0 \in 0 .. L - 1
    BY <1>w, Products
  <2>2. absorbed_blocks = p * L
    BY DEF Facts
  <2> QED BY <2>1, <2>2, <1>w, DivUnique
<1>3. LanesHoldBlocks
  BY <1>1, <1>2 DEF LanesHoldBlocks, Tok
<1>4. state \in [0 .. L - 1 -> Seq(Blocks)]
  <2>1. \A i \in 0 .. L - 1 : \A j \in 1 .. p : Tok(L, j, i) \in Blocks
    BY TokType, <1>w
  <2>2. \A i \in 0 .. L - 1 : [j \in 1 .. p |-> Tok(L, j, i)] \in Seq(Blocks)
    BY <2>1
  <2> QED BY <2>2, <1>1
<1>5. TypeOK
  BY <1>2, <1>4 DEF Facts, TypeOK, Blocks
<1>6. BufferWindow
  BY DEF Facts, BufferWindow, Holds
<1>7. Counted
  <2>1. total <= L8_MAX => absorbed_blocks = 0
    <3>1. absorbed_blocks * B = 0 => absorbed_blocks = 0
      BY <1>2, <1>w
    <3> QED BY <3>1 DEF Facts
  <2> QED BY <2>1 DEF Facts, Counted
<1>8. ClosingRegionBuffered
  <2> SUFFICES ASSUME total > L8_MAX
               PROVE  /\ buf_len \in STEP .. 2 * STEP - 1
                      /\ Remaining \in 0 .. L
                      /\ Remaining * B <= buf_len
    BY DEF ClosingRegionBuffered
  <2>1. buf_len \in STEP .. 2 * STEP - 1
    <3>1. buf_len \in Nat /\ buf_len >= STEP /\ buf_len < 2 * STEP
      BY StepFacts DEF Facts
    <3> QED BY <3>1, <1>w
  <2> QED BY <2>1, RemainingFacts
<1> QED BY <1>3, <1>5, <1>6, <1>7, <1>8 DEF IndInv
-----------------------------------------------------------------------------
(* The steps *)

LEMMA InitShape == Init => Shape
<1> SUFFICES ASSUME Init PROVE Shape
  OBVIOUS
<1>1. /\ 0 * L = 0 /\ 0 * STEP = 0 /\ 0 * B = 0 /\ BUF \in Nat /\ MaxInput \in Nat
      /\ L8_MAX \in Nat
  BY StepFacts, StreamAssumption
<1>2. state = Led(L, 0 * L)
  BY <1>1, InitLed, ConstantFacts DEF Init
<1>3. Facts(0, 0)
  BY <1>1, <1>2 DEF Init, Facts, Holds
<1> QED BY <1>3 DEF Shape

\* The caller's slice continues the input.
LEMMA DataHolds ==
  ASSUME NEW k \in Nat, written \in Nat
  PROVE  Holds(Data(k), 0, k, written)
  BY DEF Holds, Data

\* The slice behind what the buffer holds.
LEMMA AppendHolds ==
  ASSUME NEW mem, NEW n \in Nat, NEW at \in Int, NEW size \in Nat,
         mem \in [0 .. size - 1 -> Nat \cup {Zero}], Holds(mem, 0, n, at),
         NEW src, NEW from \in Int, NEW len \in Nat, NEW x \in Nat, x = at + n,
         Holds(src, from, len, x), n + len <= size
  PROVE  /\ Holds(CopyTo(mem, n, src, from, len), 0, n + len, at)
         /\ CopyTo(mem, n, src, from, len) \in [0 .. size - 1 -> Nat \cup {Zero}]
<1>1. 0 .. n - 1 \subseteq DOMAIN mem
  OBVIOUS
<1>2. Holds(src, from, len, at + n)
  OBVIOUS
<1>3. Holds(CopyTo(mem, n, src, from, len), 0, n + len, at)
  BY <1>1, <1>2, CopyExtends
<1>4. CopyTo(mem, n, src, from, len) \in [0 .. size - 1 -> Nat \cup {Zero}]
  <2>1. len \in Int
    OBVIOUS
  <2> QED BY <2>1, CopyInside, Zenon
<1> QED BY <1>3, <1>4

LEMMA BufferShape ==
  ASSUME Shape, NoWrap, NEW k \in Nat, written + k <= MaxInput, Buffer(k)
  PROVE  Shape'
<1>1. PICK p \in Nat, A \in Nat : Facts(p, A)
  BY DEF Shape
<1>f. /\ BUF \in Nat /\ L8_MAX \in Nat /\ STEP \in Nat /\ L8_MAX + STEP <= BUF
      /\ MaxInput \in Nat /\ USIZE \in Nat \ {0} /\ MaxInput < USIZE
  BY StepFacts, StreamAssumption DEF NoWrap
<1>2. /\ total \in Nat /\ total = written /\ buf_len \in Nat /\ A + buf_len = total
      /\ Holds(buf, 0, buf_len, A) /\ buf \in [0 .. BUF - 1 -> Nat \cup {Zero}]
  BY <1>1, <1>f DEF Facts
<1>3. (total + k) % USIZE = total + k
  BY <1>2, <1>f
<1>4. /\ total + k <= L8_MAX /\ total' = total + k /\ written' = written + k
      /\ buf' = CopyTo(buf, buf_len, Data(k), 0, k) /\ buf_len' = buf_len + k
      /\ UNCHANGED << absorbed_blocks, state >>
  BY <1>3 DEF Buffer
<1>5. A = 0 /\ buf_len + k <= BUF
  BY <1>1, <1>2, <1>4, <1>f DEF Facts
<1>6. /\ Holds(buf', 0, buf_len', A)
      /\ buf' \in [0 .. BUF - 1 -> Nat \cup {Zero}]
  <2>1. Holds(Data(k), 0, k, written)
    BY DataHolds, <1>2
  <2>2. written = A + buf_len /\ written \in Nat /\ A \in Int
    BY <1>2
  <2>3. /\ Holds(CopyTo(buf, buf_len, Data(k), 0, k), 0, buf_len + k, A)
        /\ CopyTo(buf, buf_len, Data(k), 0, k) \in [0 .. BUF - 1 -> Nat \cup {Zero}]
    BY <1>2, <1>5, <1>f, <2>1, <2>2, AppendHolds
  <2> QED BY <1>4, <2>3
<1>7. Facts(p, A)'
  BY <1>1, <1>2, <1>4, <1>5, <1>6, <1>f DEF Facts
<1> QED BY <1>7 DEF Shape

\* The steps leave one to two steps' worth of bytes for the buffer: the spare
\* bytes, not the regular blocks, are what limits them.
LEMMA StepsFacts ==
  ASSUME NEW tot \in Nat, NEW A \in Nat, A = absorbed_blocks * B, A + STEP <= tot
  PROVE  /\ Steps(tot) \in Nat
         /\ A + Steps(tot) * STEP + STEP <= tot
         /\ tot < A + Steps(tot) * STEP + 2 * STEP
<1> DEFINE reg == Regular(L, tot) * B
           x == reg - A
           y == tot - A - STEP
           u == x \div STEP
           v == y \div STEP
<1>w. STEP \in Nat \ {0} /\ B * L = STEP /\ L \in Width
  BY StepFacts, ConstantFacts DEF STEP
<1>1. reg \in Nat /\ reg + STEP >= tot
  <2>1. B * L <= tot
    BY <1>w
  <2>2. Regular(L, tot) \in Nat /\ Regular(L, tot) * B + B * L >= tot
    BY <2>1, <1>w, RegularFacts
  <2>3. Regular(L, tot) * B \in Nat
    BY <2>2, ConstantFacts, Products DEF Width
  <2> QED BY <2>2, <2>3, <1>w
<1>2. Steps(tot) = Least(u, v)
  BY <1>w DEF Steps, Regular
<1> HIDE DEF reg
<1>3. x \in Nat /\ y \in Nat /\ y <= x
  BY <1>1, <1>w
<1>4. /\ u \in Nat /\ x < STEP * u + STEP
      /\ v \in Nat /\ STEP * v <= y /\ y < STEP * v + STEP
  <2>1. \A z \in Nat : /\ z \div STEP \in Nat /\ STEP * (z \div STEP) <= z
                      /\ z < STEP * (z \div STEP) + STEP
    BY <1>w, DivMod
  <2> HIDE DEF x, y
  <2> QED BY <2>1, <1>3
<1> HIDE DEF u, v
<1>5. v <= u
  <2> SUFFICES ASSUME u < v PROVE FALSE
    BY <1>4
  <2>1. STEP * (u + 1) <= STEP * v /\ STEP * (u + 1) = STEP * u + STEP
    BY <1>4, <1>w
  <2>2. STEP * u \in Nat /\ STEP * v \in Nat
    BY <1>4, <1>w
  <2> HIDE DEF x, y
  <2> QED BY <2>1, <2>2, <1>3, <1>4, <1>w
<1>6. Steps(tot) = v
  <2>1. Least(u, v) = v
    BY <1>4, <1>5 DEF Least
  <2> QED BY <2>1, <1>2
<1> DEFINE vS == v * STEP
<1>7. vS = STEP * v /\ vS \in Nat
  BY <1>4, <1>w, Products
<1> HIDE DEF vS
<1>8. A + vS + STEP <= tot /\ tot < A + vS + 2 * STEP
  BY <1>3, <1>4, <1>7, <1>w
<1> QED BY <1>4, <1>6, <1>8 DEF vS

\* The sums behind it, with the products named: with a step topped up, and without.
LEMMA ToppedUp ==
  \A n, k, S, h, lS \in Nat :
    h <= n /\ n < h + S /\ h + S + lS + S <= n + k =>
      LET need == S - (n - h)
      IN  /\ need \in Nat /\ need <= S /\ need <= k /\ n + need = h + S
          /\ need + lS \in Nat /\ need + lS <= k
  OBVIOUS
LEMMA NotToppedUp ==
  \A n, k, S, h, lS \in Nat :
    h <= n /\ h + lS + S <= n + k /\ (n = h \/ lS = 0) => n - h \in Nat /\ lS <= k
  OBVIOUS

\* How update cuts s steps: those in the buffer, the one topped up, and those
\* in the slice, which leave nothing in the buffer.
LEMMA SplitFacts ==
  ASSUME NEW n \in Nat, NEW k \in Nat, NEW s \in Nat, s * STEP + STEP <= n + k,
         NEW held, held = Least(s, n \div STEP),
         NEW part, part = n - held * STEP,
         NEW top, top = Topup(s - held, part),
         NEW need, need = top * (STEP - part),
         NEW gone, gone = (held + top) * STEP,
         NEW left, left = s - held - top,
         NEW used, used = need + left * STEP,
         NEW kept, kept = n + need - gone
  PROVE  /\ held \in Nat /\ held * STEP \in Nat /\ held * STEP <= n
         /\ top \in {0, 1} /\ left \in Nat /\ held + top + left = s
         /\ need \in Nat /\ need <= STEP /\ need <= k
         /\ top = 1 => n + need = held * STEP + STEP
         /\ gone \in Nat /\ gone <= n + need /\ kept \in Nat
         /\ gone = held * STEP + top * STEP
         /\ gone + left * STEP = s * STEP /\ left * STEP \in Nat
         /\ left > 0 => kept = 0
         /\ used \in Nat /\ used <= k
<1> DEFINE q == n \div STEP
<1>w. STEP \in Nat \ {0}
  BY StepFacts
<1>1. q \in Nat /\ STEP * q <= n /\ n < STEP * q + STEP
  BY <1>w, DivMod
<1> HIDE DEF q
<1>2. held \in Nat /\ held <= s /\ held <= q /\ (held = s \/ held = q)
  BY <1>1 DEF Least, q
<1> DEFINE h == held * STEP
           sS == s * STEP
<1>3. h \in Nat /\ h <= n /\ (held = q => n < h + STEP) /\ sS \in Nat
  <2>1. held * STEP <= q * STEP /\ q * STEP = STEP * q /\ h \in Nat /\ sS \in Nat
    BY <1>1, <1>2, <1>w, Products
  <2>2. STEP * q \in Nat
    BY <1>1, <1>w, Products
  <2> HIDE DEF sS
  <2>3. h <= STEP * q
    BY <2>1
  <2>4. held = q => h = STEP * q
    BY <2>1
  <2> HIDE DEF h
  <2> QED BY <2>1, <2>2, <2>3, <2>4, <1>1, <1>w
<1>4. part = n - h /\ part \in Nat
  <2> HIDE DEF h, sS
  <2>1. part = n - h
    BY DEF h
  <2> QED BY <2>1, <1>3
<1>5. top \in {0, 1} /\ (top = 1 => s - held > 0 /\ part > 0)
      /\ (top = 0 => s = held \/ part = 0)
  BY <1>2, <1>4 DEF Topup
<1>6. /\ top = 1 => n < h + STEP
      /\ top = 0 /\ left > 0 => n = h
  <2>1. top = 1 => held = q
    BY <1>2, <1>5
  <2>2. top = 0 /\ left > 0 => part = 0
    BY <1>5
  <2>3. part = 0 => n = h
    BY <1>3, <1>4
  <2> HIDE DEF h
  <2> QED BY <2>1, <2>2, <2>3, <1>3
<1>7. left \in Nat /\ held + top + left = s
  BY <1>2, <1>5
<1> DEFINE lS == left * STEP
           tS == top * STEP
<1>8. /\ sS = h + tS + lS /\ lS \in Nat /\ gone = h + tS
      /\ tS = IF top = 1 THEN STEP ELSE 0
  <2>1. s * STEP = held * STEP + top * STEP + left * STEP
    <3>1. (held + top + left) * STEP = (held + top) * STEP + left * STEP
      BY <1>2, <1>5, <1>7, <1>w
    <3>2. (held + top) * STEP = held * STEP + top * STEP
      BY <1>2, <1>5, <1>w
    <3> QED BY <3>1, <3>2, <1>7
  <2>2. left * STEP \in Nat
    BY <1>7, <1>w, Products
  <2>3. (held + top) * STEP = held * STEP + top * STEP
    BY <1>2, <1>5, <1>w
  <2>4. top * STEP = IF top = 1 THEN STEP ELSE 0
    BY <1>5, <1>w
  <2> QED BY <2>1, <2>2, <2>3, <2>4
<1>9. need = IF top = 1 THEN STEP - part ELSE 0
  BY <1>4, <1>5, <1>w
<1>10. (left = 0 => lS = 0) /\ need = IF top = 1 THEN STEP - (n - h) ELSE 0
  BY <1>4, <1>9, <1>w
<1>11. sS + STEP <= n + k /\ used = need + lS /\ kept = n + need - gone
  OBVIOUS
<1> HIDE DEF h, sS, lS, tS
<1>12. STEP \in Nat /\ h \in Nat /\ h <= n /\ lS \in Nat
  BY <1>w, <1>3, <1>8
<1> DEFINE Goal == /\ need \in Nat /\ need <= STEP /\ need <= k
                   /\ top = 1 => n + need = h + STEP
                   /\ gone \in Nat /\ gone <= n + need /\ kept \in Nat
                   /\ left > 0 => kept = 0
                   /\ used \in Nat /\ used <= k
<1>13. ASSUME top = 1 PROVE Goal
  <2>1. /\ need = STEP - (n - h) /\ gone = h + STEP /\ n < h + STEP /\ used = need + lS
        /\ h + STEP + lS + STEP <= n + k /\ kept = n + need - gone
    BY <1>6, <1>8, <1>10, <1>11, <1>13
  <2>2. /\ need \in Nat /\ need <= STEP /\ need <= k /\ n + need = h + STEP
        /\ used \in Nat /\ used <= k
    BY <2>1, <1>12, ToppedUp
  <2>3. gone \in Nat /\ n + need = gone /\ kept = 0 /\ gone <= n + need
    BY <2>1, <2>2, <1>12
  <2> QED BY <2>2, <2>3
<1>14. ASSUME top = 0 PROVE Goal
  <2>1. /\ need = 0 /\ gone = h /\ used = lS
        /\ h + lS + STEP <= n + k /\ kept = n - h
    BY <1>3, <1>8, <1>10, <1>11, <1>12, <1>14
  <2>2. n = h \/ left = 0
    BY <1>6, <1>7, <1>14
  <2>3. n - h \in Nat /\ lS <= k
    BY <2>1, <2>2, <1>10, <1>12, NotToppedUp
  <2>4. left > 0 => kept = 0
    <3>1. left > 0 => n = h
      BY <2>2, <1>7
    <3> QED BY <3>1, <2>1, <1>12
  <2>5. need \in Nat /\ need <= STEP /\ need <= k /\ gone \in Nat /\ gone <= n + need
    <3>1. \A a, b, c \in Nat : 0 \in Nat /\ 0 <= a /\ (b <= c => b <= c + 0)
      OBVIOUS
    <3>2. need = 0 /\ gone = h
      BY <2>1
    <3> QED BY <3>1, <3>2, <1>12, Zenon
  <2>6. kept \in Nat /\ used \in Nat /\ used <= k
    BY <2>1, <2>3, <1>12
  <2> QED BY <2>4, <2>5, <2>6, <1>14
<1>15. Goal
  BY <1>5, <1>13, <1>14
<1> QED BY <1>2, <1>3, <1>5, <1>7, <1>8, <1>15 DEF h, sS, lS, tS

LEMMA AbsorbShape ==
  ASSUME Shape, NoWrap, NEW k \in Nat, written + k <= MaxInput, Absorb(k)
  PROVE  Shape' /\ absorbed_blocks <= absorbed_blocks'
<1>1. PICK p \in Nat, A \in Nat : Facts(p, A)
  BY DEF Shape
<1>f. /\ BUF \in Nat /\ L8_MAX \in Nat /\ STEP \in Nat /\ L8_MAX + STEP <= BUF
      /\ STEP <= L8_MAX
      /\ MaxInput \in Nat /\ USIZE \in Nat \ {0} /\ MaxInput < USIZE
  BY StepFacts, StreamAssumption DEF NoWrap
<1> DEFINE n == buf_len
           tot == total + k
           s == Steps(tot)
           held == Least(s, n \div STEP)
           part == n - held * STEP
           top == Topup(s - held, part)
           need == top * (STEP - part)
           filled == CopyTo(buf, n, Data(k), 0, need)
           gone == (held + top) * STEP
           left == s - held - top
           used == need + left * STEP
           kept == n + need - gone
           rest == k - used
           st1 == AbsorbBlocks(L, state, buf, 0, held * L)
           st2 == AbsorbBlocks(L, st1, filled, held * STEP, top * L)
           moved == CopyTo(filled, 0, filled, gone, kept)
           hS == held * STEP
           sS == s * STEP
           lS == left * STEP
           tS == top * STEP
<1>n. /\ total \in Nat /\ n \in Nat /\ n <= BUF /\ A + n = total
      /\ total <= L8_MAX => A = 0
      /\ total > L8_MAX => n >= STEP /\ n < 2 * STEP
  BY <1>1, <1>f DEF Facts
<1>m. Holds(buf, 0, n, A) /\ buf \in [0 .. BUF - 1 -> Nat \cup {Zero}]
  BY <1>1 DEF Facts
<1>l. /\ state = Led(L, p * L) /\ A = p * STEP /\ absorbed_blocks = p * L
      /\ absorbed_blocks * B = A
  BY <1>1 DEF Facts
<1>t. written = total /\ written = A + n /\ written \in Nat
  BY <1>1, <1>n DEF Facts
<1>3. (total + k) % USIZE = tot /\ tot \in Nat /\ tot <= MaxInput
  BY <1>n, <1>t, <1>f
<1>4. /\ tot > L8_MAX /\ total' = tot /\ written' = written + k
      /\ state' = AbsorbBlocks(L, st2, Data(k), need, left * L)
      /\ absorbed_blocks' = absorbed_blocks + s * L
      /\ buf' = CopyTo(moved, kept, Data(k), used, rest)
      /\ buf_len' = kept + k - used
  BY <1>3 DEF Absorb
<1>5. s \in Nat /\ A + sS + STEP <= tot /\ tot < A + sS + 2 * STEP
  <2>1. A + STEP <= tot
    BY <1>n, <1>3, <1>4, <1>f
  <2> HIDE DEF tot
  <2> QED BY <2>1, <1>l, <1>3, StepsFacts
<1> HIDE DEF s
<1>6. sS + STEP <= n + k /\ n + k < sS + 2 * STEP /\ sS \in Nat
  <2>1. sS \in Nat
    BY <1>5, StepFacts
  <2> HIDE DEF sS
  <2> QED BY <2>1, <1>n, <1>5, <1>f
<1>7. /\ held \in Nat /\ hS \in Nat /\ hS <= n
      /\ top \in {0, 1} /\ left \in Nat /\ held + top + left = s
      /\ need \in Nat /\ need <= STEP /\ need <= k
      /\ top = 1 => n + need = hS + STEP
      /\ gone \in Nat /\ gone <= n + need /\ kept \in Nat
      /\ gone = hS + tS
      /\ gone + lS = sS /\ lS \in Nat
      /\ left > 0 => kept = 0
      /\ used \in Nat /\ used <= k
  BY <1>n, <1>5, <1>6, SplitFacts
<1>8. (left = 0 => lS = 0) /\ (top = 0 => need = 0) /\ tS \in Nat
  <2>1. left = 0 => lS = 0
    BY <1>f
  <2>2. top = 0 => need = 0
    <3>1. part \in Int
      BY <1>7, <1>n
    <3> HIDE DEF part
    <3> QED BY <3>1, <1>f
  <2>3. tS \in Nat
    <3>1. top \in Nat
      BY <1>7
    <3> HIDE DEF top
    <3> QED BY <3>1, <1>f, Products
  <2> QED BY <2>1, <2>2, <2>3
<1>9. kept = n + need - gone /\ used = need + lS /\ rest = k - used
  OBVIOUS
<1> HIDE DEF tot, held, part, top, need, filled, gone, left, used, kept, rest, st1, st2,
             moved, hS, sS, lS, tS
<1>10. rest \in Nat /\ buf_len' = kept + rest
  <2>1. kept + k - used = kept + (k - used)
    BY <1>7
  <2> QED BY <2>1, <1>4, <1>7, <1>9
<1> HIDE DEF n
<1>11. n + need <= BUF
  <2>1. CASE top = 0
    BY <2>1, <1>n, <1>8
  <2>2. CASE top = 1 /\ total <= L8_MAX
    BY <2>2, <1>n, <1>7, <1>f
  <2>3. CASE top = 1 /\ total > L8_MAX
    <3>1. held < 2
      <4> SUFFICES ASSUME 2 <= held PROVE FALSE
        BY <1>7
      <4>1. 2 * STEP <= held * STEP
        BY <1>7, <1>f
      <4>2. 2 * STEP <= hS
        BY <4>1 DEF hS
      <4> QED BY <4>2, <2>3, <1>n, <1>7, <1>f
    <3>2. hS <= STEP
      <4>1. held * STEP <= 1 * STEP
        BY <3>1, <1>7, <1>f
      <4> QED BY <4>1, <1>f DEF hS
    <3> QED BY <3>2, <2>3, <1>7, <1>f
  <2> QED BY <2>1, <2>2, <2>3, <1>7, <1>n, <1>f
<1>d. Holds(Data(k), 0, k, written)
  BY DataHolds, <1>t
<1>12. Holds(filled, 0, n + need, A) /\ filled \in [0 .. BUF - 1 -> Nat \cup {Zero}]
  <2>1. 0 - 0 = written - written /\ 0 <= 0 - 0 /\ (0 - 0) + need <= k
    BY <1>t, <1>7
  <2>2. Holds(Data(k), 0, need, written)
    BY <2>1, <1>d, <1>t, <1>7, HoldsPart
  <2> QED BY <2>2, <1>m, <1>n, <1>t, <1>7, <1>11, <1>f, AppendHolds DEF filled
<1>13. st1 = Led(L, (p + held) * L)
  <2>1. 0 - 0 = A - A /\ 0 <= 0 - 0 /\ (0 - 0) + hS <= n
    BY <1>7
  <2>2. Holds(buf, 0, hS, A)
    BY <2>1, <1>m, <1>n, <1>7, HoldsPart
  <2>3. Holds(buf, 0, held * STEP, A)
    BY <2>2 DEF hS
  <2>4. A \in Int /\ 0 \in Int
    OBVIOUS
  <2> QED BY <2>3, <2>4, <1>l, <1>7, AbsorbSteps DEF st1
<1>14. st2 = Led(L, (p + held + top) * L)
  <2> DEFINE at == A + hS
  <2>1. hS - 0 = at - A /\ 0 <= hS - 0 /\ (hS - 0) + tS <= n + need
    BY <1>7, <1>8
  <2>2. hS \in Int /\ p + held \in Nat /\ top \in Nat /\ at \in Int /\ n + need \in Int
    BY <1>7, <1>n
  <2>3. at = (p + held) * STEP
    BY <1>l, <1>7, StepFacts DEF hS
  <2> HIDE DEF at
  <2>4. Holds(filled, hS, tS, at)
    <3>1. Holds(filled, 0, n + need, A) /\ tS \in Int
      BY <1>8, <1>12
    <3> QED BY <2>1, <2>2, <3>1, HoldsPart
  <2>5. Holds(filled, hS, top * STEP, at)
    BY <2>4 DEF tS
  <2>6. AbsorbBlocks(L, st1, filled, hS, top * L) = Led(L, ((p + held) + top) * L)
    BY <2>2, <2>3, <2>5, <1>13, AbsorbSteps
  <2> QED BY <2>6 DEF st2, hS
<1>15. state' = Led(L, (p + s) * L)
  <2> DEFINE at == A + gone
             q == p + held + top
  <2>1. at \in Int /\ need \in Int /\ left \in Nat /\ q \in Nat /\ q + left = p + s
    <3>1. top \in Nat
      BY <1>7
    <3> QED BY <3>1, <1>7
  <2>2. left > 0 => need - 0 = at - written /\ 0 <= need - 0 /\ (need - 0) + lS <= k
    BY <1>t, <1>n, <1>7, <1>9
  <2>3. at = q * STEP
    <3>1. q = p + (held + top) /\ p \in Int /\ held + top \in Int
      BY <1>7
    <3>2. q * STEP = p * STEP + (held + top) * STEP
      BY <3>1, StepFacts
    <3> QED BY <3>2, <1>l DEF gone
  <2> HIDE DEF at
  <2>4. Holds(Data(k), need, lS, at)
    <3>1. CASE left = 0
      BY <3>1, <1>8 DEF Holds
    <3>2. CASE left > 0
      BY <3>2, <2>1, <2>2, <1>d, <1>t, <1>7, HoldsPart
    <3> QED BY <3>1, <3>2, <1>7
  <2>5. Holds(Data(k), need, left * STEP, at)
    BY <2>4 DEF lS
  <2>6. st2 = Led(L, q * L)
    BY <1>14
  <2> HIDE DEF q
  <2>7. AbsorbBlocks(L, st2, Data(k), need, left * L) = Led(L, (q + left) * L)
    BY <2>1, <2>3, <2>5, <2>6, AbsorbSteps
  <2> QED BY <2>1, <2>7, <1>4
<1>16. Holds(moved, 0, kept, A + gone) /\ moved \in [0 .. BUF - 1 -> Nat \cup {Zero}]
  <2> DEFINE at == A + gone
             all == n + need
  <2>1. gone - 0 = at - A /\ 0 <= gone - 0 /\ (gone - 0) + kept <= all
    BY <1>n, <1>7, <1>9
  <2>2. at \in Nat /\ all \in Int /\ 0 + kept <= BUF
    BY <1>n, <1>7, <1>9, <1>11, <1>f
  <2>3. Holds(filled, 0, all, A)
    BY <1>12
  <2> HIDE DEF at, all
  <2>4. Holds(filled, gone, kept, at)
    BY <2>1, <2>2, <2>3, <1>7, HoldsPart
  <2>5. Holds(CopyTo(filled, 0, filled, gone, kept), 0, kept, at)
    BY <2>2, <2>4, <1>7, CopyHolds
  <2>6. CopyTo(filled, 0, filled, gone, kept) \in [0 .. BUF - 1 -> Nat \cup {Zero}]
    <3>1. 0 \in Nat /\ gone \in Int /\ kept \in Int
      BY <1>7
    <3> QED BY <3>1, <2>2, <2>4, <1>12, <1>f, CopyInside, Zenon
  <2> QED BY <2>5, <2>6 DEF moved, at
<1>17. Holds(moved, 0, kept, A + sS)
  <2>1. CASE left = 0
    <3>1. sS = gone
      BY <2>1, <1>7, <1>8
    <3> QED BY <3>1, <1>16
  <2>2. CASE left > 0
    BY <2>2, <1>7 DEF Holds
  <2> QED BY <2>1, <2>2, <1>7
<1>18. /\ (A + sS) + kept = written + used
       /\ (A + sS) + (kept + rest) = tot
       /\ kept + rest <= BUF /\ kept + rest >= STEP /\ kept + rest < 2 * STEP
  <2>1. tot = A + n + k
    BY <1>n DEF tot
  <2>2. /\ kept = n + need - gone /\ used = need + lS /\ rest = k - used
        /\ sS = gone + lS
    BY <1>7, <1>9
  <2>3. kept + rest = n + k - sS /\ sS + kept = n + used
    <3>1. \A a, b, c, g, l \in Int :
            /\ (a + b - g) + (c - (b + l)) = a + c - (g + l)
            /\ (g + l) + (a + b - g) = a + (b + l)
      OBVIOUS
    <3>2. n \in Int /\ need \in Int /\ k \in Int /\ gone \in Int /\ lS \in Int
      BY <1>n, <1>7
    <3> QED BY <2>2, <3>1, <3>2
  <2>4. kept + rest <= BUF /\ kept + rest >= STEP /\ kept + rest < 2 * STEP
    BY <2>3, <1>n, <1>6, <1>f
  <2>5. (A + sS) + kept = written + used
    BY <2>3, <1>n, <1>t, <1>6, <1>7
  <2>6. (A + sS) + (kept + rest) = tot
    BY <2>1, <2>3, <1>n, <1>6
  <2> QED BY <2>4, <2>5, <2>6
<1>19. Holds(buf', 0, buf_len', A + sS) /\ buf' \in [0 .. BUF - 1 -> Nat \cup {Zero}]
  <2> DEFINE x == written + used
             at == A + sS
  <2>1. used - 0 = x - written /\ 0 <= used - 0 /\ (used - 0) + rest <= k
    BY <1>t, <1>7, <1>9
  <2>2. x \in Nat /\ at \in Int /\ x = at + kept
    BY <1>t, <1>6, <1>7, <1>18
  <2>3. Holds(moved, 0, kept, at)
    BY <1>17
  <2> HIDE DEF x, at
  <2>4. Holds(Data(k), used, rest, x)
    BY <2>1, <2>2, <1>d, <1>t, <1>7, <1>10, HoldsPart
  <2>5. /\ Holds(CopyTo(moved, kept, Data(k), used, rest), 0, kept + rest, at)
        /\ CopyTo(moved, kept, Data(k), used, rest) \in [0 .. BUF - 1 -> Nat \cup {Zero}]
    <3>1. kept \in Nat /\ rest \in Nat /\ used \in Int /\ kept + rest <= BUF
      BY <1>7, <1>10, <1>18
    <3> QED BY <3>1, <2>2, <2>3, <2>4, <1>16, <1>f, AppendHolds, Zenon
  <2> QED BY <2>5, <1>4, <1>10 DEF at
<1>20. /\ p + s \in Nat /\ A + sS \in Nat /\ A + sS = (p + s) * STEP
       /\ absorbed_blocks' = (p + s) * L /\ absorbed_blocks' * B = A + sS
  <2>1. p + s \in Nat /\ A + sS \in Nat
    BY <1>5, <1>6
  <2>2. A + sS = (p + s) * STEP
    BY <1>l, <1>5, StepFacts DEF sS
  <2>3. (p + s) * L = p * L + s * L
    BY <1>5, ConstantFacts DEF Width
  <2>4. ((p + s) * L) * B = (p + s) * STEP
    BY <2>1, StepFacts
  <2> QED BY <2>1, <2>2, <2>3, <2>4, <1>l, <1>4
<1>21. /\ total' \in Nat /\ total' = written' /\ total' <= MaxInput /\ total' > L8_MAX
       /\ buf_len' \in 0 .. BUF /\ (A + sS) + buf_len' = total'
       /\ buf_len' >= STEP /\ buf_len' < 2 * STEP
  <2>1. total' = written'
    BY <1>4, <1>t DEF tot
  <2> QED BY <2>1, <1>3, <1>4, <1>7, <1>10, <1>18, <1>f
<1>22. PICK r \in Nat, at \in Nat : r = p + s /\ at = A + sS
  BY <1>20
<1>23. Facts(r, at)'
  <2>1. /\ at = r * STEP /\ absorbed_blocks' = r * L
        /\ absorbed_blocks' * B = at
    BY <1>20, <1>22
  <2>2. state' = Led(L, r * L)
    BY <1>15, <1>22
  <2>3. Holds(buf', 0, buf_len', at) /\ buf' \in [0 .. BUF - 1 -> Nat \cup {Zero}]
    BY <1>19, <1>22
  <2>4. /\ total' \in Nat /\ total' = written' /\ total' <= MaxInput /\ ~(total' <= L8_MAX)
        /\ buf_len' \in 0 .. BUF /\ at + buf_len' = total'
        /\ buf_len' >= STEP /\ buf_len' < 2 * STEP
    BY <1>21, <1>22, <1>f
  <2> QED BY <2>1, <2>2, <2>3, <2>4 DEF Facts
<1>24. absorbed_blocks <= absorbed_blocks'
  <2>1. p * L <= (p + s) * L
    <3>1. p <= p + s /\ p + s \in Nat
      BY <1>5
    <3> QED BY <3>1, Products, ConstantFacts DEF Width
  <2> QED BY <2>1, <1>l, <1>20
<1> QED BY <1>23, <1>24 DEF Shape

LEMMA StepShape ==
  ASSUME Shape, NoWrap, [Next]_vars
  PROVE  Shape' /\ absorbed_blocks <= absorbed_blocks'
<1>1. absorbed_blocks \in Nat
  BY Established DEF IndInv, TypeOK
<1>2. ASSUME NEW k \in Lengths, Update(k)
      PROVE  Shape' /\ absorbed_blocks <= absorbed_blocks'
  <2>1. k \in Nat /\ written + k <= MaxInput /\ (Buffer(k) \/ Absorb(k))
    BY <1>2, StreamAssumption DEF Update
  <2>2. CASE Buffer(k)
    <3>1. Shape'
      BY <2>1, <2>2, BufferShape
    <3>2. absorbed_blocks' = absorbed_blocks
      BY <2>2 DEF Buffer
    <3> QED BY <3>1, <3>2, <1>1
  <2>3. CASE Absorb(k)
    BY <2>1, <2>3, AbsorbShape
  <2> QED BY <2>1, <2>2, <2>3
<1>3. CASE UNCHANGED vars
  <2>1. PICK p \in Nat, A \in Nat : Facts(p, A)
    BY DEF Shape
  <2>2. Facts(p, A)'
    BY <2>1, <1>3 DEF Facts, vars
  <2>3. absorbed_blocks' = absorbed_blocks
    BY <1>3 DEF vars
  <2> QED BY <2>2, <2>3, <1>1 DEF Shape
<1> QED BY <1>2, <1>3 DEF Next

\* finish on a stream that has absorbed p steps.
LEMMA FinishEquals == Shape => StreamEqualsOneShot
<1> SUFFICES ASSUME NEW p \in Nat, NEW A \in Nat, Facts(p, A)
             PROVE  Finish128 = Hash(Input, total)
  BY DEF Shape, StreamEqualsOneShot, Facts
<1>w. /\ STEP \in Nat \ {0} /\ L \in Width /\ B * L = STEP /\ STEP <= L8_MAX
      /\ L8_MAX \in Nat /\ SHORT_MAX \in Nat /\ SHORT_MAX <= L8_MAX
  BY StepFacts, ConstantFacts DEF STEP
<1>1. /\ total \in Nat /\ buf_len \in Nat /\ A + buf_len = total
      /\ Holds(buf, 0, buf_len, A) /\ state = Led(L, p * L) /\ A = p * STEP
      /\ total <= L8_MAX => A = 0
      /\ total > L8_MAX => buf_len >= STEP
  BY StepFacts DEF Facts
<1>2. CASE total <= L8_MAX
  <2>1. Holds(buf, 0, total, 0) /\ buf_len = total
    BY <1>1, <1>2
  <2> QED BY <2>1, <1>1, <1>2, HashHeld DEF Finish128
<1>3. CASE total > L8_MAX
  <2> DEFINE rem == Remaining
             rB == rem * B
             reg == Regular(L, total)
             close == buf_len - STEP
             e == total - STEP
  <2>1. rem \in Nat /\ rB \in Nat /\ rB <= buf_len /\ p * L + rem = reg
    BY <1>3, <1>w, RemainingFacts DEF Width
  <2>2. e \in Nat /\ close \in Nat /\ close - 0 = e - A /\ (close - 0) + STEP <= buf_len
    BY <1>1, <1>3, <1>w
  <2>3. Finish128 = FinishBlocks(L, AbsorbBlocks(L, state, buf, 0, rem), buf, close, total)
    BY <1>3, <1>1, <1>w DEF Finish128
  <2>4. Hash(Input, total) = LanesHash(L, Input, total)
    BY <1>1, <1>3, <1>w, RegimeFacts DEF Hash
  <2> HIDE DEF rem, rB, reg, close, e
  <2>5. AbsorbBlocks(L, state, buf, 0, rem) = Led(L, reg)
    <3>1. 0 - 0 = A - A /\ 0 <= 0 - 0 /\ (0 - 0) + rB <= buf_len /\ 0 \in Int
      BY <2>1, <1>1
    <3>2. Holds(buf, 0, rB, A)
      BY <3>1, <2>1, <1>1, HoldsPart
    <3>3. Holds(buf, 0, rem * B, (p * L) * B)
      BY <3>2, <1>1, StepFacts DEF rB
    <3>4. AbsorbBlocks(L, Led(L, p * L), buf, 0, rem) = Led(L, p * L + rem)
      BY <3>1, <3>3, <2>1, <1>w, AbsorbLed
    <3> QED BY <3>4, <2>1, <1>1
  <2>6. \A t : FinishBlocks(L, t, buf, close, total) = FinishBlocks(L, t, Input, e, total)
    <3>1. Holds(buf, close, STEP, e)
      <4>1. close \in Int /\ e \in Int /\ 0 <= close - 0 /\ 0 \in Int /\ STEP \in Int
        BY <2>2, <1>w
      <4>2. Holds(buf, 0, buf_len, A) /\ buf_len \in Int /\ A \in Int
        BY <1>1
      <4> QED BY <4>1, <4>2, <2>2, HoldsPart
    <3>2. e = total - B * L /\ B * L <= total
      BY <1>1, <1>3, <1>w DEF e
    <3>3. Holds(buf, close, B * L, total - B * L)
      BY <3>1, <3>2, <1>w
    <3>4. close \in Int
      BY <2>2
    <3> QED BY <3>2, <3>3, <3>4, <1>1, <1>w, FinishHeld
  <2>7. LanesHash(L, Input, total) = FinishBlocks(L, Led(L, reg), Input, e, total)
    <3>1. Holds(Input, 0, total, 0)
      BY <1>1 DEF Holds, Input
    <3>2. B * L <= total /\ e = total - B * L
      BY <1>1, <1>3, <1>w DEF e
    <3> QED BY <3>1, <3>2, <1>1, <1>w, LanesHashHeld DEF reg
  <2> QED BY <2>3, <2>4, <2>5, <2>6, <2>7
<1> QED BY <1>1, <1>2, <1>3, <1>w

\* The lanes after more steps begin with the lanes after fewer.
LEMMA LedPrefix ==
  ASSUME NEW p \in Nat, NEW q \in Nat, p <= q, NEW i \in 0 .. L - 1
  PROVE  /\ Len(Led(L, p * L)[i]) <= Len(Led(L, q * L)[i])
         /\ SubSeq(Led(L, q * L)[i], 1, Len(Led(L, p * L)[i])) = Led(L, p * L)[i]
<1> DEFINE s == [j \in 1 .. p |-> Tok(L, j, i)]
           t == [j \in 1 .. q |-> Tok(L, j, i)]
<1>1. Led(L, p * L)[i] = s /\ Led(L, q * L)[i] = t
  <2>1. Count(L, p * L, i) = p /\ Count(L, q * L, i) = q
    BY CountStep, ConstantFacts
  <2> QED BY <2>1 DEF Led
<1>2. \A j \in Nat \ {0} : Tok(L, j, i) \in Blocks
  BY TokType, ConstantFacts
<1>3. s \in Seq(Blocks) /\ Len(s) = p /\ t \in Seq(Blocks) /\ Len(t) = q
  BY <1>2
<1>4. SubSeq(t, 1, p) = [j \in 1 .. p |-> t[j]]
  BY <1>3
<1>5. SubSeq(t, 1, p) = s
  BY <1>4
<1> QED BY <1>1, <1>3, <1>5

LEMMA StepPrefix ==
  ASSUME Shape, NoWrap, [Next]_vars
  PROVE  /\ total' <= L8_MAX => absorbed_blocks' = 0
         /\ \A i \in 0 .. L - 1 :
              /\ Len(state[i]) <= Len(state'[i])
              /\ SubSeq(state'[i], 1, Len(state[i])) = state[i]
<1>1. PICK p \in Nat, A \in Nat : Facts(p, A)
  BY DEF Shape
<1>2. Shape' /\ absorbed_blocks <= absorbed_blocks'
  BY StepShape
<1>3. PICK q \in Nat, C \in Nat : Facts(q, C)'
  BY <1>2 DEF Shape
<1>4. absorbed_blocks = p * L /\ absorbed_blocks' = q * L /\ state = Led(L, p * L)
      /\ state' = Led(L, q * L) /\ absorbed_blocks' * B = C
      /\ (total' <= L8_MAX => C = 0)
  BY <1>1, <1>3 DEF Facts
<1>5. p <= q
  <2> SUFFICES ASSUME q < p PROVE FALSE
    OBVIOUS
  <2>1. (q + 1) * L <= p * L /\ (q + 1) * L = q * L + L /\ L \in Nat \ {0} /\ q * L \in Nat
    BY ConstantFacts, Products DEF Width
  <2> QED BY <2>1, <1>2, <1>4
<1>6. total' <= L8_MAX => absorbed_blocks' = 0
  <2>1. absorbed_blocks' \in Nat /\ B \in Nat \ {0}
    BY <1>4, ConstantFacts, Products DEF Width
  <2>2. \A x \in Nat : x * B = 0 => x = 0
    BY <2>1
  <2> QED BY <2>1, <2>2, <1>4
<1> QED BY <1>4, <1>5, <1>6, LedPrefix
-----------------------------------------------------------------------------
(* The theorems *)

\* As long as the length counter cannot wrap, every state of a stream that is
\* updated, for any lengths of the slices, is described by the invariant.
THEOREM InductiveInvariant ==
  ASSUME NoWrap
  PROVE  Spec => []IndInv
<1>1. Init => Shape
  BY InitShape
<1>2. Shape /\ [Next]_vars => Shape'
  BY StepShape
<1>3. Shape => IndInv
  BY Established
<1> QED BY <1>1, <1>2, <1>3, PTL DEF Spec

\* Types; that buf keeps its BUF bytes says that no copy of update, topping up
\* and compaction included, runs past its end.
THEOREM TypeCorrect ==
  ASSUME NoWrap
  PROVE  Spec => []TypeOK
<1>1. IndInv => TypeOK
  BY DEF IndInv
<1> QED BY <1>1, InductiveInvariant, PTL

\* absorbed_blocks * 16 + buf_len = total, and the buffer holds exactly the
\* bytes from absorbed_blocks * 16 on, in order.
THEOREM BufferTheorem ==
  ASSUME NoWrap
  PROVE  Spec => []BufferWindow
<1>1. IndInv => BufferWindow
  BY DEF IndInv
<1> QED BY <1>1, InductiveInvariant, PTL

\* Every lane has exactly its own blocks, once each and in order, whichever of
\* the three places (buffer, topped-up buffer, slice) they came from.
THEOREM LanesTheorem ==
  ASSUME NoWrap
  PROVE  Spec => []LanesHoldBlocks
<1>1. IndInv => LanesHoldBlocks
  BY DEF IndInv
<1> QED BY <1>1, InductiveInvariant, PTL

\* Once the lane count is committed, the buffer holds the closing region and
\* the blocks that finish has still to absorb.
THEOREM ClosingTheorem ==
  ASSUME NoWrap
  PROVE  Spec => []ClosingRegionBuffered
<1>1. IndInv => ClosingRegionBuffered
  BY DEF IndInv
<1> QED BY <1>1, InductiveInvariant, PTL

\* Whatever the lengths of the updates, finish returns the one-shot hash of the
\* bytes given so far, in the buffered regimes and in the one with L lanes.
THEOREM StreamCorrect ==
  ASSUME NoWrap
  PROVE  Spec => []StreamEqualsOneShot
<1>1. Init => Shape
  BY InitShape
<1>2. Shape /\ [Next]_vars => Shape'
  BY StepShape
<1>3. Shape => StreamEqualsOneShot
  BY FinishEquals
<1> QED BY <1>1, <1>2, <1>3, PTL DEF Spec

\* No update takes back or replaces a block that has been absorbed, and none
\* absorbs one before the lane count is known.
THEOREM PrefixTheorem ==
  ASSUME NoWrap
  PROVE  Spec => AbsorbedIsPrefix
<1> DEFINE Step == /\ total' <= L8_MAX => absorbed_blocks' = 0
                   /\ \A i \in 0 .. L - 1 :
                        /\ Len(state[i]) <= Len(state'[i])
                        /\ SubSeq(state'[i], 1, Len(state[i])) = state[i]
<1>1. Init => Shape
  BY InitShape
<1>2. Shape /\ [Next]_vars => Shape'
  BY StepShape
<1>3. Shape /\ [Next]_vars => [Step]_vars
  BY StepPrefix
<1>4. Spec => [][Step]_vars
  BY <1>1, <1>2, <1>3, PTL DEF Spec
<1> QED BY <1>4 DEF AbsorbedIsPrefix
=============================================================================
