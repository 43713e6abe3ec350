--------------------------- MODULE IncrementalHash ---------------------------
(***************************************************************************)
(* What an incremental hasher promises: after any sequence of updates the  *)
(* digest it yields is the one-shot digest of all bytes written, however   *)
(* they were split, and every update returns.                              *)
(***************************************************************************)
EXTENDS Integers

CONSTANTS MaxInput,     \* bound on the bytes written
          NoDigest,     \* no digest can be asked for while an update runs
          Digest(_)     \* the one-shot digest of the first n bytes

VARIABLES len,          \* bytes written
          busy,         \* an update is running
          digest        \* what finish would return

vars == << len, busy, digest >>

Init == len = 0 /\ busy = FALSE /\ digest = Digest(0)

Write == /\ ~busy
         /\ \E k \in 1 .. MaxInput - len : len' = len + k
         /\ busy' = TRUE
         /\ digest' = NoDigest

Return == /\ busy
          /\ busy' = FALSE
          /\ digest' = Digest(len)
          /\ UNCHANGED len

Next == Write \/ Return

Spec == Init /\ [][Next]_vars /\ WF_vars(Return)
=============================================================================
