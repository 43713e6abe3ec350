------------------------------ MODULE MCLanes -------------------------------
(* Both forms of a lane, from one start value over the same blocks of four   *)
(* bits, with a nonlinear keyless round.                                     *)
EXTENDS DiffLane, ShiftedLane

Bits == INSTANCE Bitwise

MCBlock == 0 .. 15
MCXor   == [p \in MCBlock |-> [q \in MCBlock |-> Bits!^^(p, q)]]
MCM     == [y \in MCBlock |-> (7 * y * y + 5 * y + 3) % 16]

LanesInit == Init /\ ShiftedInit /\ x = u

Regular(b) == (DiffInit(b) \/ DiffStep(b)) /\ StepShifted(b)
Final(b)   == DiffTail(b) /\ Finish(b)
LanesNext == \/ (Enter \/ Leave) /\ UNCHANGED vars
             \/ \E b \in Block : Regular(b) \/ Final(b)

LanesSpec == LanesInit /\ [][LanesNext]_<< vars, shiftedVars >>
=============================================================================
