---------------------------- MODULE ShiftedLane ----------------------------
(***************************************************************************)
(* One lane in the shifted form of the NEON backend (aes/arm.rs,           *)
(* step_shifted and absorb_shifted): AESE xors its key before the          *)
(* substitution, so the key of a round is carried into the next one.  It   *)
(* implements SandwichLane.                                                *)
(***************************************************************************)
EXTENDS AesRound

VARIABLES mode,    \* "lane" outside absorb_shifted, "shifted" in its loop
          u, kp    \* the shifted state; u is the lane outside the loop

shiftedVars == << mode, u, kp, blocks, phase >>

ShiftedSandwich == INSTANCE SandwichLane WITH t <- Xor(u, kp)

ShiftedInit == /\ mode = "lane"
               /\ u \in Seeds
               /\ kp = Zero
               /\ blocks = 0
               /\ phase = "open"

Enter == /\ mode = "lane"
         /\ blocks = 0
         /\ phase = "open"
         /\ mode' = "shifted"
         /\ kp' = Zero
         /\ UNCHANGED << u, blocks, phase >>

\* AESE and AESMC: the keyless round of the state xored with the key.
StepShifted(b) == /\ mode = "shifted"
                  /\ blocks < MaxBlocks
                  /\ u' = M[Xor(u, Xor(kp, b))]
                  /\ kp' = b
                  /\ blocks' = blocks + 1
                  /\ UNCHANGED << mode, phase >>

\* The last loop of absorb_shifted: back to the lane.
\* Leave_Bare is the slip that the mutation run plants.
Leave_Bare == /\ mode = "shifted"
              /\ mode' = "lane"
              /\ kp' = Zero
              /\ UNCHANGED << u, blocks, phase >>
Leave == /\ mode = "shifted"
         /\ mode' = "lane"
         /\ u' = Xor(u, kp)
         /\ kp' = Zero
         /\ UNCHANGED << blocks, phase >>

\* State::finish on the lane.
Finish(e) == /\ mode = "lane"
             /\ blocks > 0
             /\ phase = "open"
             /\ u' = R(Xor(u, e), e)
             /\ phase' = "closed"
             /\ UNCHANGED << mode, kp, blocks >>

ShiftedNext == \/ Enter \/ Leave
               \/ \E b \in Block : StepShifted(b) \/ Finish(b)

ShiftedSpec == ShiftedInit /\ [][ShiftedNext]_shiftedVars

ShiftedTypeOK == /\ mode \in {"lane", "shifted"}
                 /\ u \in Block /\ kp \in Block
                 /\ blocks \in 0 .. MaxBlocks
                 /\ phase \in {"open", "closed"}
                 /\ mode = "lane" => kp = Zero
                 /\ mode = "shifted" => phase = "open"

\* Every step of this form, the way into the loop and out of it included, is
\* the sandwich step on the same block or leaves the lane as it is.
ShiftedImplementsSandwich == ShiftedSandwich!Spec
=============================================================================
