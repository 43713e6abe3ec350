----------------------------- MODULE AesKernels -----------------------------
(***************************************************************************)
(* The kernels of the AES function (aes/lanes.rs, aes/x86.rs, aes/arm.rs): *)
(* one input through the one-shot function of a backend, four inputs of    *)
(* the four-lane regime or two of the eight-lane regime through a batch    *)
(* kernel.  The lanes live in registers of W lanes, and the regular blocks *)
(* come as whole steps, shared by the inputs as far as all have them, and  *)
(* a rest that may end inside a register.                                  *)
(*                                                                         *)
(* A lane is the sequence of blocks it absorbed, in every form: DiffLane   *)
(* and ShiftedLane show that the forms agree on one lane.  What is left of *)
(* a form here is its loop.  The C kernels (lanehash_aes.c) have the loops *)
(* of spec, aesni and vaes256.                                             *)
(***************************************************************************)
EXTENDS AesSpec, FiniteSets

CONSTANTS Backends,      \* the backends explored
          BULK,          \* BULK_SANDWICH_MIN; 2^19 in the code
          Lengths,       \* lengths of a single input
          Batch4, Batch2 \* lengths of the inputs of the two batch kernels

ASSUME KernelAssumption ==
  /\ Backends \subseteq {"spec", "aesni", "vaes256", "vaesvl", "neon"}
  /\ BULK \in Nat
  /\ L4_MAX <= 4 * B * L4    \* lanes_hash_l4 writes three steps out: there are no more
  \* The regimes of the differential form, which starts with a step, have one
  \* before the closing region: the debug assertions m >= L.
  /\ L4_MAX >= 2 * (B * L8) /\ L8_MAX >= 2 * (B * L)
  /\ Lengths \cup Batch4 \cup Batch2 \subseteq Nat
  /\ \A n \in Lengths : n > SHORT_MAX
  /\ \A n \in Batch4 : n > SHORT_MAX /\ n <= L4_MAX
  /\ \A n \in Batch2 : n > L4_MAX /\ n <= L8_MAX

VARIABLES backend,  \* the backend
          lens,     \* the lengths of the inputs, from 0
          pc,       \* control point
          q,        \* per input: the whole steps absorbed
          t         \* per input: the lanes

kernelVars == << backend, lens, pc, q, t >>

Inputs == DOMAIN lens

\* Lanes per register, lanes of the regime, registers.
W == IF backend \in {"vaes256", "vaesvl"} THEN 2 ELSE 1
w == RegimeLanes(lens[0])
Lane == 0 .. w - 1

\* The memory at the pointer of input k: its bytes, then bytes of others.
Foreign == << -1, -1 >>
Mem(k) == [j \in 0 .. lens[k] + B * w |-> IF j < lens[k] THEN << k, j >> ELSE Foreign]

\* A name with an underscore is the name before it with a plausible slip, for
\* the mutation runs; nothing else uses it.
\* Regular blocks, whole steps and rest of an input.
m_NoClosing(k) == (lens[k] + B - 1) \div B
m(k)    == (lens[k] + B - 1) \div B - w
Full(k) == m(k) \div w
Rest(k) == m(k) % w

\* hash128_vaesvl and batch2_l8_vaesvl take the differential form.
Differential == /\ backend = "vaesvl"
                /\ lens[0] > L4_MAX
                /\ lens[0] <= L8_MAX \/ lens[0] < BULK

Step(k, from) == [i \in Lane |-> Append(t[k][i], AesBlock(Mem(k), (from * w + i) * B, 0))]

KernelInit == /\ backend \in Backends
              /\ lens \in [{0} -> Lengths] \cup [0 .. 1 -> Batch2] \cup [0 .. 3 -> Batch4]
              /\ pc = "start"
              /\ q = [k \in Inputs |-> 0]
              /\ t = [k \in Inputs |-> InitLanes(w)]

\* State::new, or diff_init, which takes the first step with it.
Start == /\ pc = "start"
         /\ pc' = "common"
         /\ IF Differential
            THEN t' = [k \in Inputs |-> Step(k, 0)] /\ q' = [k \in Inputs |-> 1]
            ELSE UNCHANGED << q, t >>
         /\ UNCHANGED << backend, lens >>

\* The steps that all inputs have.
InCommon == \A k \in Inputs : q[k] < Full(k)

CommonStep == /\ pc = "common"
              /\ InCommon
              /\ t' = [k \in Inputs |-> Step(k, q[k])]
              /\ q' = [k \in Inputs |-> q[k] + 1]
              /\ UNCHANGED << backend, lens, pc >>

EndCommon == /\ pc = "common"
             /\ ~InCommon
             /\ pc' = "own"
             /\ UNCHANGED << backend, lens, q, t >>

\* The steps an input has beyond the common ones, one input after the other.
OwnStep(k) == /\ pc = "own"
              /\ q[k] < Full(k)
              /\ \A j \in 0 .. k - 1 : q[j] = Full(j)
              /\ t' = [t EXCEPT ![k] = Step(k, q[k])]
              /\ q' = [q EXCEPT ![k] = @ + 1]
              /\ UNCHANGED << backend, lens, pc >>

\* The lanes that the rest reaches: whole registers, and of the register where
\* it ends, if it ends inside one, the lane that round_partial, or
\* diff_partial, touches: lane 0, the low half of a ymm register.
RestLanes_Whole(k) == {i \in Lane : i \div W <= (Rest(k) - 1) \div W}
RestLanes(k) ==
  LET rr == Rest(k) \div W
      rp == Rest(k) % W
  IN  {i \in Lane : i \div W < rr \/ (i \div W = rr /\ rp # 0 /\ i % W = 0)}

RestStep == /\ pc = "own"
            /\ \A k \in Inputs : q[k] = Full(k)
            /\ t' = [k \in Inputs |->
                       [i \in Lane |-> IF i \in RestLanes(k) THEN Step(k, q[k])[i] ELSE t[k][i]]]
            /\ pc' = "close"
            /\ UNCHANGED << backend, lens, q >>

\* finish, or the end of diff_tail: the closing region into every lane.
Closing(k) == FinishBlocks(w, t[k], Mem(k), lens[k] - B * w, lens[k])
Close == /\ pc = "close"
         /\ t' = [k \in Inputs |-> Closing(k).value]
         /\ pc' = "done"
         /\ UNCHANGED << backend, lens, q >>

KernelNext == \/ Start \/ CommonStep \/ EndCommon
              \/ \E k \in Inputs : OwnStep(k)
              \/ RestStep \/ Close

KernelSpec == KernelInit /\ [][KernelNext]_kernelVars
-----------------------------------------------------------------------------
\* Every backend equals the definition, and each result of a batch kernel the
\* one-shot function on its own input.
KernelEqualsLanesHash ==
  pc = "done" => \A k \in Inputs : t[k] = LanesHash(w, Mem(k), lens[k]).value

\* The bounds the safety comments promise: no kernel uses a byte behind an
\* input, though the inputs of a batch differ in length.
NoOverread ==
  \A k \in Inputs : \A i \in Lane : \A j \in 1 .. Len(t[k][i]) :
    \A b \in 0 .. B - 1 : t[k][i][j].bytes[b] # Foreign
=============================================================================
