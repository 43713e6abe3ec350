---------------------------- MODULE SandwichLane ----------------------------
(***************************************************************************)
(* One lane of the AES function in the form that defines it, the sandwich  *)
(* t = R(t ^ b, b) of State::absorb and State::finish (aes/lanes.rs).      *)
(***************************************************************************)
EXTENDS AesRound

VARIABLE t   \* the lane

vars == << t, blocks, phase >>

Init == t \in Seeds /\ blocks = 0 /\ phase = "open"

Absorb(b) == /\ phase = "open"
             /\ blocks < MaxBlocks
             /\ t' = R(Xor(t, b), b)
             /\ blocks' = blocks + 1
             /\ UNCHANGED phase

\* The closing block, the length already xored into it.
Close(e) == /\ phase = "open"
            /\ t' = R(Xor(t, e), e)
            /\ phase' = "closed"
            /\ UNCHANGED blocks

Next == \E b \in Block : Absorb(b) \/ Close(b)

Spec == Init /\ [][Next]_vars
=============================================================================
