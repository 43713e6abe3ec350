-------------------------------- MODULE Memory --------------------------------
(***************************************************************************)
(* Memories: functions from addresses to bytes.                            *)
(***************************************************************************)
EXTENDS Integers

\* mem with `len' bytes of src, from `from' on, copied to `at'.  A copy past the
\* end shows in the result's domain; one within one memory is a memmove.
CopyTo(mem, at, src, from, len) ==
  [i \in DOMAIN mem \cup (at .. at + len - 1) |->
     IF i \in at .. at + len - 1 THEN src[from + i - at] ELSE mem[i]]

\* The input in which byte i is its own position, the most general input:
\* every other one is an image of it.
Input == [i \in Nat |-> i]
=============================================================================
