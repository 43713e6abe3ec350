------------------------------ MODULE DiffLane ------------------------------
(***************************************************************************)
(* One lane in the differential form of the EVEX backend (aes/lanes.rs,    *)
(* diff_init, diff_step and diff_tail): the round key is the xor of two    *)
(* neighbouring blocks, so the xor with the data leaves the dependency     *)
(* chain.  It implements SandwichLane.                                     *)
(***************************************************************************)
EXTENDS AesRound

VARIABLES x, prev   \* the differential state

vars == << x, prev, blocks, phase >>

\* The lane that the differential state stands for: the start value while no
\* block has been absorbed, R(x, prev) in the loop, x itself after the tail.
Sandwich == INSTANCE SandwichLane WITH
              t <- IF blocks = 0 \/ phase = "closed" THEN x ELSE R(x, prev)

\* x holds the start value until the first block is folded into it.
Init == x \in Seeds /\ prev = Zero /\ blocks = 0 /\ phase = "open"

DiffInit(b) == /\ blocks = 0
               /\ phase = "open"
               /\ blocks < MaxBlocks
               /\ x' = Xor(x, b)
               /\ prev' = b
               /\ blocks' = 1
               /\ UNCHANGED phase

DiffStep(b) == /\ blocks > 0
               /\ phase = "open"
               /\ blocks < MaxBlocks
               /\ x' = R(x, Xor(b, prev))
               /\ prev' = b
               /\ blocks' = blocks + 1
               /\ UNCHANGED phase

\* The tail: the closing block as one more step, then a round with the zero
\* key and the xor that brings the lane back to the sandwich form.  A lane
\* has absorbed a regular block before it (m >= L).
\* DiffTail_NoXor is the slip that the mutation run plants.
DiffTail_NoXor(e) == /\ blocks > 0
                     /\ phase = "open"
                     /\ x' = R(R(x, Xor(e, prev)), Zero)
                     /\ phase' = "closed"
                     /\ UNCHANGED << prev, blocks >>
DiffTail(e) == /\ blocks > 0
               /\ phase = "open"
               /\ LET xn == R(x, Xor(e, prev)) IN x' = Xor(R(xn, Zero), e)
               /\ phase' = "closed"
               /\ UNCHANGED << prev, blocks >>

Next == \E b \in Block : DiffInit(b) \/ DiffStep(b) \/ DiffTail(b)

Spec == Init /\ [][Next]_vars

TypeOK == /\ x \in Block
          /\ prev \in Block
          /\ blocks \in 0 .. MaxBlocks
          /\ phase \in {"open", "closed"}

\* The comment of lanes_hash_diff: same function, the xor off the dependency
\* chain.  Every step of this form is the sandwich step on the same block.
ImplementsSandwich == Sandwich!Spec
=============================================================================
