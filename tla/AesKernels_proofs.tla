--------------------------- MODULE AesKernels_proofs ---------------------------
(***************************************************************************)
(* The kernels of the AES function: the differential and the shifted form  *)
(* of a lane implement the sandwich form, for every keyless round, every   *)
(* set of blocks with an exclusive or, and every input; and the loops over *)
(* the lanes give each of them the blocks of the definition, for all block *)
(* sizes, regimes, lengths and register widths.                            *)
(***************************************************************************)
EXTENDS DiffLane, ShiftedLane, AesKernels, Memory_proofs

-----------------------------------------------------------------------------
(* Exclusive or and the round *)

\* Exclusive or stays in Block and cancels.
LEMMA XorFacts ==
  /\ \A p, k \in Block : Xor(p, k) \in Block
  /\ \A p \in Block : Xor(p, Zero) = p /\ Xor(p, p) = Zero
  /\ \A p, k \in Block : Xor(p, k) = Xor(k, p)
  /\ \A p, k \in Block : Xor(Xor(p, k), k) = p
  /\ \A p, k, r \in Block : Xor(p, Xor(k, r)) = Xor(Xor(p, r), k)
  /\ \A p \in Block : M[p] \in Block
<1>1. \A p, k \in Block : Xor(p, k) \in Block
  <2> SUFFICES ASSUME NEW p \in Block, NEW k \in Block
               PROVE  Xor(p, k) \in Block
    OBVIOUS
  <2>1. XorTable[p] \in [Block -> Block]
    BY RoundAssumption
  <2> QED BY <2>1 DEF Xor
<1>2. \A p, k \in Block : Xor(Xor(p, k), k) = p
  <2> SUFFICES ASSUME NEW p \in Block, NEW k \in Block
               PROVE  Xor(Xor(p, k), k) = p
    OBVIOUS
  <2>1. Xor(Xor(p, k), k) = Xor(p, Xor(k, k))
    BY XorAssumption
  <2>2. Xor(k, k) = Zero /\ Xor(p, Zero) = p
    BY XorAssumption
  <2> QED BY <2>1, <2>2
<1>3. \A p, k, r \in Block : Xor(p, Xor(k, r)) = Xor(Xor(p, r), k)
  <2> SUFFICES ASSUME NEW p \in Block, NEW k \in Block, NEW r \in Block
               PROVE  Xor(p, Xor(k, r)) = Xor(Xor(p, r), k)
    OBVIOUS
  <2>1. Xor(k, r) = Xor(r, k)
    BY XorAssumption
  <2>2. Xor(Xor(p, r), k) = Xor(p, Xor(r, k))
    BY XorAssumption
  <2> QED BY <2>1, <2>2
<1>4. \A p \in Block : M[p] \in Block
  BY RoundAssumption
<1> QED BY <1>1, <1>2, <1>3, <1>4, XorAssumption

\* Folding a block into the key of a round is xoring it into the result.
LEMMA StepForm ==
  ASSUME NEW y \in Block, NEW k \in Block, NEW b \in Block
  PROVE  R(y, Xor(b, k)) = Xor(R(y, k), b)
BY XorFacts DEF R

\* The round of the sandwich forms is that of AesRound.
LEMMA SameRound ==
  \A p, k : /\ Sandwich!Xor(p, k) = Xor(p, k) /\ Sandwich!R(p, k) = R(p, k)
            /\ ShiftedSandwich!Xor(p, k) = Xor(p, k)
            /\ ShiftedSandwich!R(p, k) = R(p, k)
BY DEF Sandwich!Xor, Sandwich!R, ShiftedSandwich!Xor, ShiftedSandwich!R, Xor, R
-----------------------------------------------------------------------------
(* The differential form *)

\* The differential state stays in its types.
THEOREM DiffTypeCorrect == Spec => []TypeOK
<1>1. Init => TypeOK
  BY RoundAssumption DEF Init, TypeOK
<1>2. TypeOK /\ [Next]_vars => TypeOK'
  <2> SUFFICES ASSUME TypeOK, [Next]_vars
               PROVE  TypeOK'
    OBVIOUS
  <2> USE RoundAssumption, XorFacts DEF TypeOK
  <2>1. ASSUME NEW b \in Block, DiffInit(b) PROVE TypeOK'
    BY SameRound, <2>1 DEF DiffInit
  <2>2. ASSUME NEW b \in Block, DiffStep(b) PROVE TypeOK'
    BY SameRound, <2>2 DEF DiffStep, R
  <2>3. ASSUME NEW b \in Block, DiffTail(b) PROVE TypeOK'
    BY SameRound, <2>3 DEF DiffTail, R
  <2>4. CASE UNCHANGED vars
    BY <2>4 DEF vars
  <2> QED BY <2>1, <2>2, <2>3, <2>4 DEF Next
<1> QED BY <1>1, <1>2, PTL DEF Spec

\* Every step of the differential form is the sandwich step on the same block,
\* the first and the closing one included.
THEOREM DiffImplements == Spec => ImplementsSandwich
<1>1. Init => Sandwich!Init
  BY DEF Init, Sandwich!Init
<1>2. TypeOK /\ [Next]_vars => [Sandwich!Next]_(Sandwich!vars)
  <2> SUFFICES ASSUME TypeOK, [Next]_vars
               PROVE  [Sandwich!Next]_(Sandwich!vars)
    OBVIOUS
  <2> DEFINE lane == IF blocks = 0 \/ phase = "closed" THEN x ELSE R(x, prev)
  <2> USE DEF TypeOK
  <2>1. ASSUME NEW b \in Block, DiffInit(b) PROVE Sandwich!Absorb(b)
    BY SameRound, <2>1 DEF DiffInit, Sandwich!Absorb
  <2>2. ASSUME NEW b \in Block, DiffStep(b) PROVE Sandwich!Absorb(b)
    <3>1. R(x, Xor(b, prev)) = Xor(R(x, prev), b)
      BY StepForm
    <3>2. R(x', prev') = R(Xor(R(x, prev), b), b)
      BY SameRound, <2>2, <3>1 DEF DiffStep
    <3>3. lane = R(x, prev) /\ lane' = R(x', prev')
      BY SameRound, <2>2 DEF DiffStep, R, Xor
    <3>4. lane' = R(Xor(lane, b), b)
      BY <3>2, <3>3
    <3>5. /\ phase = "open" /\ blocks < MaxBlocks
          /\ blocks' = blocks + 1 /\ UNCHANGED phase
      BY <2>2 DEF DiffStep
    <3> QED BY SameRound, <3>4, <3>5 DEF Sandwich!Absorb
  <2>3. ASSUME NEW e \in Block, DiffTail(e) PROVE Sandwich!Close(e)
    <3>1. R(x, Xor(e, prev)) = Xor(R(x, prev), e)
      BY StepForm
    <3>2. Xor(R(x, prev), e) \in Block
      BY XorFacts DEF R
    <3>3. R(Xor(R(x, prev), e), Zero) = M[Xor(R(x, prev), e)]
      BY <3>2, XorFacts DEF R
    <3>4. x' = R(Xor(R(x, prev), e), e)
      BY SameRound, <2>3, <3>1, <3>3 DEF DiffTail, R
    <3>5. lane = R(x, prev) /\ lane' = x'
      BY <2>3 DEF DiffTail
    <3>6. lane' = R(Xor(lane, e), e)
      BY <3>4, <3>5
    <3>7. phase = "open" /\ phase' = "closed" /\ UNCHANGED blocks
      BY <2>3 DEF DiffTail
    <3> QED BY SameRound, <3>6, <3>7 DEF Sandwich!Close
  <2>4. CASE UNCHANGED vars
    BY <2>4 DEF vars, Sandwich!vars
  <2> QED BY <2>1, <2>2, <2>3, <2>4 DEF Next, Sandwich!Next
<1> QED BY <1>1, <1>2, DiffTypeCorrect, PTL
        DEF Spec, ImplementsSandwich, Sandwich!Spec
-----------------------------------------------------------------------------
(* The shifted form *)

\* The shifted state stays in its types, and outside its loop no key is
\* carried, so that u alone is the lane.
THEOREM ShiftedTypeCorrect == ShiftedSpec => []ShiftedTypeOK
<1>1. ShiftedInit => ShiftedTypeOK
  BY RoundAssumption DEF ShiftedInit, ShiftedTypeOK
<1>2. ShiftedTypeOK /\ [ShiftedNext]_shiftedVars => ShiftedTypeOK'
  <2> SUFFICES ASSUME ShiftedTypeOK, [ShiftedNext]_shiftedVars
               PROVE  ShiftedTypeOK'
    OBVIOUS
  <2> USE RoundAssumption, XorFacts DEF ShiftedTypeOK
  <2>1. CASE Enter
    BY <2>1 DEF Enter
  <2>2. CASE Leave
    BY SameRound, <2>2 DEF Leave
  <2>3. ASSUME NEW b \in Block, StepShifted(b) PROVE ShiftedTypeOK'
    BY SameRound, <2>3 DEF StepShifted
  <2>4. ASSUME NEW e \in Block, Finish(e) PROVE ShiftedTypeOK'
    BY SameRound, <2>4 DEF Finish, R
  <2>5. CASE UNCHANGED shiftedVars
    BY <2>5 DEF shiftedVars
  <2> QED BY <2>1, <2>2, <2>3, <2>4, <2>5 DEF ShiftedNext
<1> QED BY <1>1, <1>2, PTL DEF ShiftedSpec

\* Every step of the loop is the sandwich step on the same block; the way into
\* the loop and out of it leaves the lane as it is.
THEOREM ShiftedImplements == ShiftedSpec => ShiftedImplementsSandwich
<1>1. ShiftedInit => ShiftedSandwich!Init
  BY SameRound, RoundAssumption, XorFacts DEF ShiftedInit, ShiftedSandwich!Init
<1>2. ShiftedTypeOK /\ [ShiftedNext]_shiftedVars
        => [ShiftedSandwich!Next]_(ShiftedSandwich!vars)
  <2> SUFFICES ASSUME ShiftedTypeOK, [ShiftedNext]_shiftedVars
               PROVE  [ShiftedSandwich!Next]_(ShiftedSandwich!vars)
    OBVIOUS
  <2> DEFINE lane == Xor(u, kp)
  <2> USE DEF ShiftedTypeOK
  <2>1. CASE Enter
    BY <2>1 DEF Enter, ShiftedSandwich!vars
  <2>2. CASE Leave
    <3>1. lane' = lane
      <4>1. lane' = Xor(lane, Zero)
        BY SameRound, <2>2 DEF Leave, Xor
      <4> QED BY <4>1, XorFacts
    <3> QED BY SameRound, <2>2, <3>1 DEF Leave, ShiftedSandwich!vars
  <2>3. ASSUME NEW b \in Block, StepShifted(b) PROVE ShiftedSandwich!Absorb(b)
    <3>1. lane' = Xor(M[Xor(u, Xor(kp, b))], b)
      BY SameRound, <2>3 DEF StepShifted, Xor
    <3>2. Xor(u, Xor(kp, b)) = Xor(lane, b)
      BY XorAssumption
    <3>3. lane' = R(Xor(lane, b), b)
      BY <3>1, <3>2 DEF R
    <3>4. phase = "open"
      BY <2>3 DEF StepShifted
    <3>5. blocks < MaxBlocks /\ blocks' = blocks + 1 /\ UNCHANGED phase
      BY <2>3 DEF StepShifted
    <3> QED BY SameRound, <3>3, <3>4, <3>5 DEF ShiftedSandwich!Absorb
  <2>4. ASSUME NEW e \in Block, Finish(e) PROVE ShiftedSandwich!Close(e)
    <3>1. lane = u /\ kp = Zero /\ kp' = Zero
      BY SameRound, <2>4, XorFacts DEF Finish
    <3>2. u' \in Block
      BY SameRound, <2>4, <3>1, XorFacts DEF Finish, R
    <3>3. lane' = u'
      BY <3>1, <3>2, XorFacts
    <3>4. lane' = R(Xor(lane, e), e)
      BY SameRound, <2>4, <3>1, <3>3 DEF Finish
    <3>5. phase = "open" /\ phase' = "closed" /\ UNCHANGED blocks
      BY <2>4 DEF Finish
    <3> QED BY SameRound, <3>4, <3>5 DEF ShiftedSandwich!Close
  <2>5. CASE UNCHANGED shiftedVars
    BY <2>5 DEF shiftedVars, ShiftedSandwich!vars, Xor
  <2> QED BY <2>1, <2>2, <2>3, <2>4, <2>5 DEF ShiftedNext, ShiftedSandwich!Next
<1> QED BY <1>1, <1>2, ShiftedTypeCorrect, PTL
        DEF ShiftedSpec, ShiftedImplementsSandwich, ShiftedSandwich!Spec
-----------------------------------------------------------------------------
(* The loops over the lanes *)

\* Block j - 1 of lane i, read from input k, and the lanes after n blocks.
BlockAt(k, j, i) == AesBlock(Mem(k), ((j - 1) * w + i) * B, 0)
Leading(k, n) == [i \in Lane |-> [j \in 1 .. Count(w, n, i) |-> BlockAt(k, j, i)]]
LaneBlocks(k, i) == {BlockAt(k, j, i) : j \in Nat}

\* The inputs of an entry.
Entry == lens \in [{0} -> Lengths] \cup [0 .. 1 -> Batch2] \cup [0 .. 3 -> Batch4]

\* Every lane of every input has exactly the blocks of its whole steps; after
\* the rest, all its regular blocks.
KernelInv ==
  /\ Entry
  /\ q \in [Inputs -> Nat] /\ DOMAIN t = Inputs
  /\ pc \in {"start", "common", "own", "close", "done"}
  /\ pc \in {"start", "common", "own"} =>
       \A k \in Inputs : q[k] <= Full(k) /\ t[k] = Leading(k, q[k] * w)
  /\ pc = "start" => \A k \in Inputs : q[k] = 0
  /\ pc = "close" => \A k \in Inputs : t[k] = Leading(k, m(k))
  /\ KernelEqualsLanesHash

\* The inputs of an entry belong to one regime, of more than SHORT_MAX bytes.
LEMMA OneRegime ==
  ASSUME Entry
  PROVE  /\ w \in Width
         /\ \A k \in Inputs : k \in Nat /\ lens[k] \in Nat /\ B * w <= lens[k]
         /\ lens[0] > L4_MAX => \A k \in Inputs : lens[k] >= 2 * (B * w)
<1>1. /\ B \in Width /\ L4 \in Width /\ L8 \in Width /\ L \in Width
      /\ SHORT_MAX \in Nat /\ L4_MAX \in Nat /\ L8_MAX \in Nat
      /\ SHORT_MAX <= L4_MAX /\ L4_MAX <= L8_MAX
      /\ SHORT_MAX >= B * L4 /\ L4_MAX >= B * L8 /\ L8_MAX >= B * L
      /\ L4_MAX >= 2 * (B * L8) /\ L8_MAX >= 2 * (B * L)
  BY AesAssumption, KernelAssumption DEF Width
<1>2. /\ \A n \in Lengths : n \in Nat /\ n > SHORT_MAX
      /\ \A n \in Batch4 : n \in Nat /\ n > SHORT_MAX /\ n <= L4_MAX
      /\ \A n \in Batch2 : n \in Nat /\ n > L4_MAX /\ n <= L8_MAX
  BY KernelAssumption
<1> DEFINE b4 == B * L4
           b8 == B * L8
           bL == B * L
<1>3. b4 \in Nat /\ b8 \in Nat /\ bL \in Nat
  BY <1>1, Products DEF Width
<1>4. CASE lens \in [{0} -> Lengths]
  <2>1. \A k \in Inputs : k = 0
    BY <1>4 DEF Inputs
  <2>2. 0 \in Inputs /\ lens[0] \in Lengths
    BY <1>4 DEF Inputs
  <2>3. lens[0] \in Nat /\ lens[0] > SHORT_MAX
    BY <1>2, <2>2
  <2>4. \/ w = L4 /\ lens[0] <= L4_MAX
        \/ w = L8 /\ lens[0] > L4_MAX
        \/ w = L /\ lens[0] > L8_MAX
    BY <1>1, <2>3 DEF w, RegimeLanes
  <2>5. \/ B * w = b4 /\ lens[0] <= L4_MAX
        \/ B * w = b8 /\ lens[0] > L4_MAX
        \/ B * w = bL /\ lens[0] > L8_MAX
    BY <2>4
  <2>6. B * w <= lens[0] /\ (lens[0] > L4_MAX => lens[0] >= 2 * (B * w))
    <3> HIDE DEF b4, b8, bL
    <3>1. b4 <= SHORT_MAX /\ 2 * b8 <= L4_MAX /\ 2 * bL <= L8_MAX
      BY <1>1 DEF b4, b8, bL
    <3> DEFINE bw == B * w
    <3>2. \/ bw = b4 /\ lens[0] <= L4_MAX
          \/ bw = b8 /\ lens[0] > L4_MAX
          \/ bw = bL /\ lens[0] > L8_MAX
      BY <2>5
    <3> HIDE DEF bw
    <3>3. bw <= lens[0] /\ (lens[0] > L4_MAX => lens[0] >= 2 * bw)
      BY <1>1, <1>3, <2>3, <3>1, <3>2
    <3> QED BY <3>3 DEF bw
  <2>7. w \in Width
    BY <1>1, <2>4
  <2> QED BY <2>1, <2>3, <2>6, <2>7
<1>5. CASE lens \in [0 .. 1 -> Batch2]
  <2>1. \A k \in Inputs : k \in Nat /\ lens[k] \in Nat /\ lens[k] > L4_MAX /\ lens[k] <= L8_MAX
    BY <1>2, <1>5 DEF Inputs
  <2>2. 0 \in Inputs
    BY <1>5 DEF Inputs
  <2>3. w = L8 /\ B * w = b8
    BY <1>1, <2>1, <2>2 DEF w, RegimeLanes
  <2> HIDE DEF b8
  <2>4. \A k \in Inputs : b8 <= lens[k] /\ lens[k] >= 2 * b8
    BY <1>1, <1>3, <2>1 DEF b8
  <2> QED BY <1>1, <2>1, <2>3, <2>4
<1>6. CASE lens \in [0 .. 3 -> Batch4]
  <2>1. \A k \in Inputs : k \in Nat /\ lens[k] \in Nat /\ lens[k] > SHORT_MAX /\ lens[k] <= L4_MAX
    BY <1>2, <1>6 DEF Inputs
  <2>2. 0 \in Inputs
    BY <1>6 DEF Inputs
  <2>3. w = L4 /\ B * w = b4 /\ ~(lens[0] > L4_MAX)
    BY <1>1, <2>1, <2>2 DEF w, RegimeLanes
  <2> HIDE DEF b4
  <2>4. \A k \in Inputs : b4 <= lens[k]
    BY <1>1, <1>3, <2>1 DEF b4
  <2> QED BY <1>1, <2>1, <2>3, <2>4
<1> QED BY <1>4, <1>5, <1>6 DEF Entry

\* The regular blocks of an input: whole steps and a rest, in front of the
\* closing region.  The differential form has its first step.
LEMMA StepCounts ==
  ASSUME Entry, NEW k \in Inputs
  PROVE  /\ w \in Width /\ B \in Width /\ k \in Nat /\ lens[k] \in Nat /\ B * w <= lens[k]
         /\ m(k) \in Nat /\ m(k) * B <= lens[k]
         /\ Full(k) \in Nat /\ Rest(k) \in 0 .. w - 1 /\ m(k) = Full(k) * w + Rest(k)
         /\ Differential => Full(k) >= 1
<1>1. w \in Width /\ k \in Nat /\ lens[k] \in Nat /\ B * w <= lens[k] /\ B \in Width
  BY OneRegime, AesAssumption DEF Width
<1>2. lens[0] > L4_MAX => lens[k] >= 2 * (B * w)
  BY OneRegime
<1> DEFINE len == lens[k]
           c == (len + B - 1) \div B
<1>3. c \in Nat /\ B * c <= len + B - 1 /\ len + B - 1 < B * c + B
  <2>1. len + B - 1 \in Nat /\ B \in Nat \ {0}
    BY <1>1 DEF Width
  <2> HIDE DEF len
  <2> QED BY <2>1, DivMod
<1>4. m(k) = c - w
  BY DEF m
<1> HIDE DEF len, c
<1>5. w \in Nat \ {0} /\ B \in Nat \ {0} /\ len \in Nat
  BY <1>1 DEF Width, len
<1>6. ASSUME NEW e \in Nat, B * e <= len
      PROVE  e <= c
  <2> SUFFICES ASSUME c + 1 <= e PROVE FALSE
    BY <1>3
  <2>1. B * (c + 1) <= B * e
    BY <1>3, <1>5
  <2>2. B * (c + 1) = B * c + B
    BY <1>3, <1>5
  <2> QED BY <1>3, <1>5, <1>6, <2>1, <2>2
<1>7. w <= c /\ m(k) \in Nat
  BY <1>1, <1>3, <1>4, <1>5, <1>6 DEF len
<1>8. m(k) * B <= len
  <2>1. (c - w) * B = B * c - B * w /\ B * w \in Nat /\ B * w >= B
    BY <1>3, <1>5
  <2> QED BY <1>3, <1>4, <1>5, <2>1
<1>9. Full(k) \in Nat /\ Rest(k) \in 0 .. w - 1 /\ m(k) = Full(k) * w + Rest(k)
  <2> DEFINE f == m(k) \div w
             r == m(k) % w
  <2>1. f \in Nat /\ r \in 0 .. w - 1 /\ r = m(k) - w * f
    BY <1>5, <1>7, DivMod
  <2> HIDE DEF f, r
  <2>2. f * w = w * f /\ w * f \in Nat
    BY <1>5, <2>1
  <2>3. m(k) = f * w + r
    BY <1>5, <1>7, <2>1, <2>2
  <2> QED BY <2>1, <2>3 DEF f, r, Full, Rest
<1>10. ASSUME Differential PROVE Full(k) >= 1
  <2>1. B * (2 * w) <= len
    <3>1. B * (2 * w) = 2 * (B * w)
      BY <1>5
    <3> QED BY <1>2, <1>10, <3>1 DEF Differential, len
  <2>2. w <= m(k)
    BY <1>3, <1>4, <1>5, <1>6, <2>1
  <2>3. Full(k) = 0 => m(k) < w
    BY <1>5, <1>9
  <2> QED BY <1>5, <1>7, <1>9, <2>2, <2>3
<1> QED BY <1>1, <1>7, <1>8, <1>9, <1>10 DEF len

\* One block more in a lane.
LEMMA AppendBlock ==
  ASSUME NEW k, NEW i \in Lane, NEW b \in Nat
  PROVE  Append([j \in 1 .. b |-> BlockAt(k, j, i)], BlockAt(k, b + 1, i))
           = [j \in 1 .. b + 1 |-> BlockAt(k, j, i)]
<1> DEFINE S == LaneBlocks(k, i)
           s == [j \in 1 .. b |-> BlockAt(k, j, i)]
<1>1. s \in Seq(S) /\ Len(s) = b
  BY DEF LaneBlocks
<1>2. BlockAt(k, b + 1, i) \in S
  BY DEF LaneBlocks
<1> QED BY <1>1, <1>2

\* A step takes all lanes of an input one block further.
LEMMA StepLeading ==
  ASSUME w \in Width, NEW k, NEW f \in Nat, t[k] = Leading(k, f * w)
  PROVE  Step(k, f) = Leading(k, (f + 1) * w)
<1> SUFFICES ASSUME NEW i \in Lane
             PROVE  Step(k, f)[i] = Leading(k, (f + 1) * w)[i]
  BY DEF Step, Leading
<1>1. Count(w, f * w, i) = f /\ Count(w, (f + 1) * w, i) = f + 1
  BY CountStep DEF Lane
<1>2. t[k][i] = [j \in 1 .. f |-> BlockAt(k, j, i)]
  BY <1>1 DEF Leading
<1>3. AesBlock(Mem(k), (f * w + i) * B, 0) = BlockAt(k, f + 1, i)
  <2>1. (f + 1) - 1 = f
    OBVIOUS
  <2> QED BY <2>1 DEF BlockAt
<1>4. Step(k, f)[i] = Append([j \in 1 .. f |-> BlockAt(k, j, i)], BlockAt(k, f + 1, i))
  BY <1>2, <1>3 DEF Step
<1>5. Leading(k, (f + 1) * w)[i] = [j \in 1 .. f + 1 |-> BlockAt(k, j, i)]
  BY <1>1 DEF Leading
<1> QED BY <1>4, <1>5, AppendBlock

\* The rest ends between lanes whatever the width of a register: whole ones and
\* the touched half of the last are the lanes below it.
LEMMA RestIs ==
  ASSUME Entry, NEW k \in Inputs
  PROVE  RestLanes(k) = {i \in Lane : i < Rest(k)}
<1>1. Rest(k) \in Nat /\ w \in Nat
  BY StepCounts DEF Width
<1> SUFFICES ASSUME NEW i \in Lane
             PROVE  (\/ i \div W < Rest(k) \div W
                     \/ /\ i \div W = Rest(k) \div W
                        /\ Rest(k) % W # 0 /\ i % W = 0) <=> i < Rest(k)
  BY DEF RestLanes
<1> DEFINE r == Rest(k)
<1>2. i \in Nat /\ r \in Nat
  BY <1>1 DEF Lane
<1> HIDE DEF r
<1>3. CASE W = 1
  <2>1. i \div 1 = i /\ r \div 1 = r /\ r % 1 = 0
    BY <1>2
  <2> QED BY <1>2, <1>3, <2>1 DEF r
<1>4. CASE W = 2
  <2>1. (i \div 2 < r \div 2 \/ (i \div 2 = r \div 2 /\ r % 2 # 0 /\ i % 2 = 0)) <=> i < r
    BY <1>2
  <2> QED BY <1>4, <2>1 DEF r
<1> QED BY <1>3, <1>4 DEF W

\* The rest behind the whole steps completes the regular blocks.
LEMMA RestLeading ==
  ASSUME Entry, NEW k \in Inputs, q[k] = Full(k), t[k] = Leading(k, q[k] * w)
  PROVE  [i \in Lane |-> IF i \in RestLanes(k) THEN Step(k, q[k])[i] ELSE t[k][i]]
           = Leading(k, m(k))
<1> DEFINE f == Full(k)
           r == Rest(k)
<1>1. w \in Width /\ f \in Nat /\ r \in 0 .. w - 1 /\ r \in Nat /\ m(k) = f * w + r
  BY StepCounts DEF Width
<1>2. Step(k, q[k]) = Leading(k, (f + 1) * w) /\ t[k] = Leading(k, f * w)
  BY <1>1, StepLeading
<1>3. ASSUME NEW i \in Lane
      PROVE  (IF i \in RestLanes(k) THEN Step(k, q[k])[i] ELSE t[k][i]) = Leading(k, m(k))[i]
  <2>1. i \in RestLanes(k) <=> i < r
    BY RestIs
  <2>2. Count(w, r, i) = IF i < r THEN 1 ELSE 0
    <3>1. r = 0 * w + r /\ w \in Nat \ {0}
      BY <1>1 DEF Width
    <3>2. r \div w = 0 /\ r % w = r
      BY <1>1, <3>1, DivUnique
    <3> QED BY <3>2 DEF Count
  <2> HIDE DEF f, r
  <2>3. /\ Count(w, m(k), i) = f + Count(w, r, i)
        /\ Count(w, f * w, i) = f /\ Count(w, (f + 1) * w, i) = f + 1
    BY <1>1, CountStep DEF Lane
  <2>4. i < r => Count(w, m(k), i) = Count(w, (f + 1) * w, i)
    BY <2>2, <2>3
  <2>5. ~(i < r) => Count(w, m(k), i) = Count(w, f * w, i)
    BY <1>1, <2>2, <2>3
  <2> QED BY <1>2, <2>1, <2>4, <2>5 DEF Leading
<1> QED BY <1>3 DEF Leading

\* The lanes of the definition before the closing region.
LEMMA AbsorbedLeading ==
  ASSUME Entry, NEW k \in Inputs
  PROVE  AbsorbBlocks(w, InitLanes(w), Mem(k), 0, m(k)) = Leading(k, m(k))
<1>1. ASSUME NEW i \in Lane
      PROVE  AbsorbBlocks(w, InitLanes(w), Mem(k), 0, m(k))[i] = Leading(k, m(k))[i]
  <2> DEFINE c == Count(w, m(k), i)
             S == LaneBlocks(k, i)
             s == [j \in 1 .. c |-> BlockAt(k, j, i)]
  <2>1. c \in Nat
    <3>1. w \in Width /\ m(k) \in Nat
      BY StepCounts
    <3> QED BY <3>1, CountStep DEF Lane
  <2>2. ASSUME NEW j \in 1 .. c
        PROVE  AesBlock(Mem(k), 0 + ((j - 1) * w + i) * B, 0) = BlockAt(k, j, i)
    <3> DEFINE o == ((j - 1) * w + i) * B
    <3>1. o \in Int
      <4>1. w \in Int /\ B \in Int /\ i \in Int /\ j \in Int
        BY <2>1, StepCounts DEF Width, Lane
      <4> QED BY <4>1
    <3> HIDE DEF o
    <3>2. 0 + o = o
      BY <3>1
    <3> QED BY <3>2 DEF o, BlockAt
  <2>3. AbsorbBlocks(w, InitLanes(w), Mem(k), 0, m(k))[i]
          = InitLanes(w)[i] \o
              [j \in 1 .. c |-> AesBlock(Mem(k), 0 + ((j - 1) * w + i) * B, 0)]
    BY DEF AbsorbBlocks, Count, Lane
  <2>4. InitLanes(w)[i] = << >>
    BY DEF InitLanes, Lane
  <2>5. [j \in 1 .. c |-> AesBlock(Mem(k), 0 + ((j - 1) * w + i) * B, 0)] = s
    BY <2>2
  <2>6. Leading(k, m(k))[i] = s
    BY DEF Leading
  <2>7. << >> \o s = s
    <3> HIDE DEF c
    <3>1. s \in Seq(S)
      BY <2>1 DEF LaneBlocks
    <3> HIDE DEF s
    <3> QED BY <3>1
  <2> QED BY <2>3, <2>4, <2>5, <2>6, <2>7
<1>2. DOMAIN AbsorbBlocks(w, InitLanes(w), Mem(k), 0, m(k)) = Lane
  BY DEF AbsorbBlocks, Lane
<1>3. AbsorbBlocks(w, InitLanes(w), Mem(k), 0, m(k))
        = [i \in Lane |-> AbsorbBlocks(w, InitLanes(w), Mem(k), 0, m(k))[i]]
  BY DEF AbsorbBlocks, Lane
<1> QED BY <1>1, <1>3 DEF Leading

\* Finishing them is the lane hash.
LEMMA ClosingEquals ==
  ASSUME Entry, NEW k \in Inputs, t[k] = Leading(k, m(k))
  PROVE  Closing(k) = LanesHash(w, Mem(k), lens[k])
BY AbsorbedLeading DEF Closing, LanesHash, m
-----------------------------------------------------------------------------
(* The steps of the loops *)

\* What a step that leaves the inputs alone keeps.
LEMMA SameEntry ==
  ASSUME UNCHANGED lens
  PROVE  /\ w' = w /\ Inputs' = Inputs /\ Entry' = Entry
         /\ \A k : Full(k)' = Full(k) /\ m(k)' = m(k) /\ Mem(k)' = Mem(k)
         /\ \A k, n : Leading(k, n)' = Leading(k, n)
         /\ \A k : LanesHash(w, Mem(k), lens[k])' = LanesHash(w, Mem(k), lens[k])
<1>1. w' = w /\ Inputs' = Inputs /\ Entry' = Entry
  BY DEF w, Inputs, Entry
<1>2. \A k : m(k)' = m(k) /\ Mem(k)' = Mem(k)
  BY <1>1 DEF m, Mem
<1>3. \A k : Full(k)' = Full(k)
  BY <1>1, <1>2 DEF Full
<1>4. \A k, n : Leading(k, n)' = Leading(k, n)
  BY <1>1, <1>2 DEF Leading, BlockAt, Lane
<1>5. \A k : LanesHash(w, Mem(k), lens[k])' = LanesHash(w, Mem(k), lens[k])
  BY <1>1, <1>2
<1> QED BY <1>1, <1>2, <1>3, <1>4, <1>5

LEMMA KernelInitInv == KernelInit => KernelInv
<1> SUFFICES ASSUME KernelInit PROVE KernelInv
  OBVIOUS
<1>1. /\ pc = "start" /\ Entry /\ q = [k \in Inputs |-> 0]
      /\ t = [k \in Inputs |-> InitLanes(w)]
  BY DEF KernelInit, Entry
<1>2. ASSUME NEW k \in Inputs
      PROVE  q[k] = 0 /\ q[k] <= Full(k) /\ t[k] = Leading(k, q[k] * w)
  <2>1. w \in Width /\ w \in Nat /\ Full(k) \in Nat
    BY <1>1, StepCounts DEF Width
  <2>2. 0 * w = 0
    BY <2>1
  <2>3. \A i \in Lane : Count(w, 0 * w, i) = 0
    BY <2>1, CountStep DEF Lane
  <2>4. InitLanes(w) = Leading(k, 0)
    <3>1. ASSUME NEW i \in Lane
          PROVE  << >> = [j \in 1 .. Count(w, 0, i) |-> BlockAt(k, j, i)]
      <4>1. Count(w, 0, i) = 0
        BY <2>2, <2>3
      <4> QED BY <4>1
    <3> QED BY <3>1 DEF InitLanes, Leading, Lane
  <2> QED BY <1>1, <2>1, <2>2, <2>4
<1>3. q \in [Inputs -> Nat] /\ DOMAIN t = Inputs
  BY <1>1
<1> QED BY <1>1, <1>2, <1>3 DEF KernelInv, KernelEqualsLanesHash

\* A step of the inputs in K, each of which has one left.
LEMMA TakeStep ==
  ASSUME KernelInv, pc \in {"start", "common", "own"}, NEW K \in SUBSET Inputs,
         \A k \in K : q[k] < Full(k),
         UNCHANGED lens, pc' \in {"common", "own"},
         q' = [k \in Inputs |-> IF k \in K THEN q[k] + 1 ELSE q[k]],
         t' = [k \in Inputs |-> IF k \in K THEN Step(k, q[k]) ELSE t[k]]
  PROVE  KernelInv'
<1>1. Entry /\ q \in [Inputs -> Nat]
  BY DEF KernelInv
<1>2. ASSUME NEW k \in Inputs
      PROVE  q'[k] \in Nat /\ q'[k] <= Full(k) /\ t'[k] = Leading(k, q'[k] * w)
  <2>1. q[k] \in Nat /\ q[k] <= Full(k) /\ t[k] = Leading(k, q[k] * w)
    BY <1>1 DEF KernelInv
  <2>2. Full(k) \in Nat /\ w \in Width
    BY <1>1, StepCounts
  <2>3. CASE k \in K
    <3>1. q'[k] = q[k] + 1 /\ t'[k] = Step(k, q[k]) /\ q[k] < Full(k)
      BY <2>3
    <3>2. Step(k, q[k]) = Leading(k, (q[k] + 1) * w)
      BY <2>1, <2>2, StepLeading
    <3> QED BY <2>1, <2>2, <3>1, <3>2
  <2>4. CASE k \notin K
    BY <2>1, <2>4
  <2> QED BY <2>3, <2>4
<1>3. q' \in [Inputs -> Nat] /\ DOMAIN t' = Inputs
  <2>1. q' = [k \in Inputs |-> q'[k]] /\ \A k \in Inputs : q'[k] \in Nat
    BY <1>2
  <2> QED BY <2>1
<1>4. ASSUME NEW k \in Inputs
      PROVE  q'[k] <= Full(k)' /\ t'[k] = Leading(k, q[k] * w)'
  <2>1. Leading(k, q[k] * w)' = Leading(k, q'[k] * w)
    BY SameEntry DEF Leading, BlockAt, Lane
  <2> QED BY <1>2, <2>1, SameEntry
<1>5. pc' # "start" /\ pc' # "close" /\ pc' # "done"
  OBVIOUS
<1> QED BY <1>1, <1>3, <1>4, <1>5, SameEntry DEF KernelInv, KernelEqualsLanesHash

LEMMA KernelStepInv == KernelInv /\ [KernelNext]_kernelVars => KernelInv'
<1> SUFFICES ASSUME KernelInv, [KernelNext]_kernelVars PROVE KernelInv'
  OBVIOUS
<1>0. Entry /\ q \in [Inputs -> Nat] /\ DOMAIN t = Inputs
  BY DEF KernelInv
<1>1. CASE Start
  <2>1. pc = "start" /\ pc' = "common" /\ UNCHANGED << backend, lens >>
    BY <1>1 DEF Start
  <2>2. \A k \in Inputs : q[k] = 0 /\ q[k] <= Full(k) /\ t[k] = Leading(k, q[k] * w)
    BY <2>1 DEF KernelInv
  <2>3. CASE Differential
    <3>1. \A k \in Inputs : q[k] < Full(k)
      <4>1. \A k \in Inputs : Full(k) \in Nat /\ Full(k) >= 1
        BY <1>0, <2>3, StepCounts
      <4> QED BY <2>2, <4>1
    <3>2. q' = [k \in Inputs |-> IF k \in Inputs THEN q[k] + 1 ELSE q[k]]
      BY <1>1, <2>2, <2>3 DEF Start
    <3>3. t' = [k \in Inputs |-> IF k \in Inputs THEN Step(k, q[k]) ELSE t[k]]
      BY <1>1, <2>2, <2>3 DEF Start
    <3> QED BY <2>1, <3>1, <3>2, <3>3, TakeStep
  <2>4. CASE ~Differential
    <3>1. q' = q /\ t' = t
      BY <1>1, <2>4 DEF Start
    <3> QED BY <1>0, <2>1, <2>2, <3>1, SameEntry DEF KernelInv, KernelEqualsLanesHash
  <2> QED BY <2>3, <2>4
<1>2. CASE CommonStep
  <2>1. /\ pc = "common" /\ pc' = "common" /\ UNCHANGED lens
        /\ \A k \in Inputs : q[k] < Full(k)
    BY <1>2 DEF CommonStep, InCommon
  <2>2. /\ q' = [k \in Inputs |-> IF k \in Inputs THEN q[k] + 1 ELSE q[k]]
        /\ t' = [k \in Inputs |-> IF k \in Inputs THEN Step(k, q[k]) ELSE t[k]]
    BY <1>2 DEF CommonStep
  <2> QED BY <2>1, <2>2, TakeStep
<1>3. CASE EndCommon
  BY <1>3, SameEntry DEF EndCommon, KernelInv, KernelEqualsLanesHash
<1>4. ASSUME NEW k \in Inputs, OwnStep(k) PROVE KernelInv'
  <2>1. /\ pc = "own" /\ pc' = "own" /\ UNCHANGED lens /\ q[k] < Full(k)
        /\ t' = [t EXCEPT ![k] = Step(k, q[k])]
        /\ q' = [q EXCEPT ![k] = @ + 1]
    BY <1>4 DEF OwnStep
  <2>2. q' = [j \in Inputs |-> IF j \in {k} THEN q[j] + 1 ELSE q[j]]
    BY <1>0, <2>1
  <2>3. t' = [j \in Inputs |-> IF j \in {k} THEN Step(j, q[j]) ELSE t[j]]
    BY <1>0, <2>1
  <2>4. {k} \in SUBSET Inputs /\ \A j \in {k} : q[j] < Full(j)
    BY <2>1
  <2> QED BY <2>1, <2>2, <2>3, <2>4, TakeStep
<1>5. CASE RestStep
  <2>1. /\ pc = "own" /\ pc' = "close" /\ UNCHANGED << backend, lens, q >>
        /\ \A k \in Inputs : q[k] = Full(k)
        /\ t' = [k \in Inputs |->
                   [i \in Lane |-> IF i \in RestLanes(k) THEN Step(k, q[k])[i] ELSE t[k][i]]]
    BY <1>5 DEF RestStep
  <2>2. \A k \in Inputs : t[k] = Leading(k, q[k] * w)
    BY <2>1 DEF KernelInv
  <2>3. \A k \in Inputs : t'[k] = Leading(k, m(k))
    BY <1>0, <2>1, <2>2, RestLeading
  <2> QED BY <1>0, <2>1, <2>3, SameEntry DEF KernelInv, KernelEqualsLanesHash
<1>6. CASE Close
  <2>1. /\ pc = "close" /\ pc' = "done" /\ UNCHANGED << backend, lens, q >>
        /\ t' = [k \in Inputs |-> Closing(k).value]
    BY <1>6 DEF Close
  <2>2. \A k \in Inputs : t[k] = Leading(k, m(k))
    BY <2>1 DEF KernelInv
  <2>3. \A k \in Inputs : t'[k] = LanesHash(w, Mem(k), lens[k]).value
    BY <1>0, <2>1, <2>2, ClosingEquals
  <2> QED BY <1>0, <2>1, <2>3, SameEntry DEF KernelInv, KernelEqualsLanesHash
<1>7. CASE UNCHANGED kernelVars
  <2>1. UNCHANGED << lens, pc, q, t >>
    BY <1>7 DEF kernelVars
  <2> QED BY <2>1, SameEntry DEF KernelInv, KernelEqualsLanesHash
<1> QED BY <1>1, <1>2, <1>3, <1>4, <1>5, <1>6, <1>7 DEF KernelNext
-----------------------------------------------------------------------------
(* What the lanes read *)

\* The bytes from an address inside the input are input.
LEMMA MemInside ==
  ASSUME Entry, NEW k \in Inputs, NEW from \in Nat, from + B <= lens[k], NEW e,
         NEW b \in 0 .. B - 1
  PROVE  AesBlock(Mem(k), from, e).bytes[b] # Foreign
<1>1. B \in Nat /\ w \in Nat /\ B * w \in Nat /\ lens[k] \in Nat /\ k \in Nat
  <2>1. B \in Nat /\ w \in Nat /\ lens[k] \in Nat /\ k \in Nat
    BY StepCounts DEF Width
  <2> QED BY <2>1
<1> DEFINE o == from + b
           size == lens[k] + B * w
<1>2. o \in 0 .. size /\ o < lens[k] /\ o \in Nat
  BY <1>1
<1>3. AesBlock(Mem(k), from, e).bytes[b] = Mem(k)[o]
  BY DEF AesBlock
<1> HIDE DEF o
<1>4. Mem(k)[o] = << k, o >>
  BY <1>2 DEF Mem
<1>5. << k, o >> # << -1, -1 >>
  BY <1>1
<1> QED BY <1>3, <1>4, <1>5 DEF Foreign

LEMMA LeadingInside ==
  ASSUME Entry, NEW k \in Inputs, NEW n \in Nat, n <= m(k), NEW i \in Lane
  PROVE  /\ Len(Leading(k, n)[i]) \in Nat
         /\ Leading(k, n)[i] \in Seq(LaneBlocks(k, i))
         /\ \A j \in 1 .. Len(Leading(k, n)[i]) : \A b \in 0 .. B - 1 :
              Leading(k, n)[i][j].bytes[b] # Foreign
<1> DEFINE c == Count(w, n, i)
           s == [j \in 1 .. c |-> BlockAt(k, j, i)]
<1>1. w \in Width /\ B \in Width /\ m(k) \in Nat /\ m(k) * B <= lens[k] /\ lens[k] \in Nat
      /\ i \in 0 .. w - 1
  BY StepCounts DEF Lane
<1>2. c \in Nat
  BY <1>1, CountStep
<1>3. Leading(k, n)[i] = s
  BY DEF Leading
<1>4. ASSUME NEW j \in 1 .. c, NEW b \in 0 .. B - 1
      PROVE  BlockAt(k, j, i).bytes[b] # Foreign
  <2> DEFINE d == (j - 1) * w + i
  <2>1. d \in 0 .. n - 1
    BY <1>1, CountBound
  <2> HIDE DEF d
  <2>2. d \in Nat /\ d + 1 <= m(k)
    BY <1>1, <2>1
  <2>3. (d + 1) * B <= m(k) * B /\ (d + 1) * B = d * B + B /\ d * B \in Nat /\ m(k) * B \in Nat
    BY <1>1, <2>2 DEF Width
  <2>4. d * B + B <= lens[k]
    BY <1>1, <2>3 DEF Width
  <2> QED BY <2>3, <2>4, MemInside DEF BlockAt, d
<1>5. s \in Seq(LaneBlocks(k, i)) /\ Len(s) = c
  <2> HIDE DEF c
  <2> QED BY <1>2 DEF LaneBlocks
<1> QED BY <1>2, <1>3, <1>4, <1>5

\* No block of the lane hash has a byte behind the input.
LEMMA HashInside ==
  ASSUME Entry, NEW k \in Inputs, NEW i \in Lane, NEW lanes,
         lanes = LanesHash(w, Mem(k), lens[k]).value,
         NEW j \in 1 .. Len(lanes[i]), NEW b \in 0 .. B - 1
  PROVE  lanes[i][j].bytes[b] # Foreign
<1> DEFINE c == lens[k] - B * w
           last == AesBlock(Mem(k), c + B * i, lens[k])
           s == Leading(k, m(k))[i]
<1>1. /\ w \in Nat \ {0} /\ B \in Nat \ {0} /\ B * w \in Nat /\ lens[k] \in Nat
      /\ B * w <= lens[k] /\ m(k) \in Nat /\ i \in 0 .. w - 1
  <2>1. w \in Nat \ {0} /\ B \in Nat \ {0} /\ lens[k] \in Nat /\ B * w <= lens[k] /\ m(k) \in Nat
    BY StepCounts DEF Width
  <2>2. B * w \in Nat
    BY <2>1
  <2> QED BY <2>1, <2>2 DEF Lane
<1>2. lanes[i] = Append(s, last)
  <2>1. LanesHash(w, Mem(k), lens[k])
          = FinishBlocks(w, Leading(k, m(k)), Mem(k), c, lens[k])
    BY AbsorbedLeading DEF LanesHash, m
  <2> QED BY <1>1, <2>1 DEF FinishBlocks
<1>3. last.bytes[b] # Foreign
  <2>1. B * (i + 1) <= B * w /\ B * (i + 1) = B * i + B /\ B * i \in Nat
    BY <1>1
  <2>2. c + B * i \in Nat /\ (c + B * i) + B <= lens[k]
    BY <1>1, <2>1
  <2> HIDE DEF c
  <2> QED BY <2>2, MemInside
<1>4. /\ s \in Seq(LaneBlocks(k, i))
      /\ \A e \in 1 .. Len(s) : s[e].bytes[b] # Foreign
  <2>1. m(k) <= m(k)
    BY <1>1
  <2> QED BY <1>1, <2>1, LeadingInside
<1> HIDE DEF last, s
<1>5. Len(Append(s, last)) = Len(s) + 1 /\ Len(s) \in Nat
  BY <1>4
<1>6. j \in 1 .. Len(s) + 1
  BY <1>2, <1>5
<1>7. CASE j \in 1 .. Len(s)
  <2>1. Append(s, last)[j] = s[j]
    BY <1>4, <1>7
  <2> QED BY <1>2, <1>4, <1>7, <2>1
<1>8. CASE j = Len(s) + 1
  <2>1. Append(s, last)[j] = last
    BY <1>4, <1>8
  <2> QED BY <1>2, <1>3, <2>1
<1> QED BY <1>5, <1>6, <1>7, <1>8
-----------------------------------------------------------------------------
(* The theorems about the loops *)

\* At every point of its loops, a kernel has given each lane of each input the
\* blocks of whole steps, once and in order, and no others.
THEOREM KernelInductive == KernelSpec => []KernelInv
<1> QED BY KernelInitInv, KernelStepInv, PTL DEF KernelSpec

\* Every backend, and every entry of a batch kernel, computes the lanes of the
\* definition: "every backend produces identical output", whatever the width of
\* a register, the form and the other inputs of the batch.
THEOREM KernelCorrect == KernelSpec => []KernelEqualsLanesHash
<1>1. KernelInv => KernelEqualsLanesHash
  BY DEF KernelInv
<1> QED BY <1>1, KernelInductive, PTL

\* No kernel takes a byte from behind an input, though the inputs of a batch
\* differ in length and the rest may end inside a register.
THEOREM KernelInside == KernelSpec => []NoOverread
<1>1. KernelInv => NoOverread
  <2> SUFFICES ASSUME KernelInv, NEW k \in Inputs, NEW i \in Lane,
                      NEW j \in 1 .. Len(t[k][i]), NEW b \in 0 .. B - 1
               PROVE  t[k][i][j].bytes[b] # Foreign
    BY DEF NoOverread
  <2>1. Entry /\ q[k] \in Nat
    BY DEF KernelInv
  <2>2. CASE pc \in {"start", "common", "own"}
    <3>1. q[k] <= Full(k) /\ t[k] = Leading(k, q[k] * w)
      BY <2>2 DEF KernelInv
    <3>2. q[k] * w \in Nat /\ q[k] * w <= m(k)
      <4>1. /\ Full(k) \in Nat /\ w \in Nat /\ Rest(k) \in Nat
            /\ m(k) = Full(k) * w + Rest(k)
        BY <2>1, StepCounts DEF Width
      <4>2. q[k] * w <= Full(k) * w /\ q[k] * w \in Nat /\ Full(k) * w \in Nat
        BY <2>1, <3>1, <4>1, Products
      <4> QED BY <4>1, <4>2
    <3> QED BY <2>1, <3>1, <3>2, LeadingInside
  <2>3. CASE pc = "close"
    <3>1. t[k] = Leading(k, m(k)) /\ m(k) \in Nat
      BY <2>1, <2>3, StepCounts DEF KernelInv
    <3>2. m(k) <= m(k)
      BY <3>1
    <3> QED BY <2>1, <3>1, <3>2, LeadingInside
  <2>4. CASE pc = "done"
    <3>1. t[k] = LanesHash(w, Mem(k), lens[k]).value
      BY <2>4 DEF KernelInv, KernelEqualsLanesHash
    <3> QED BY <2>1, <3>1, HashInside
  <2> QED BY <2>2, <2>3, <2>4 DEF KernelInv
<1> QED BY <1>1, KernelInductive, PTL
=============================================================================
