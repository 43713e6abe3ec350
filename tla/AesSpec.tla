------------------------------- MODULE AesSpec -------------------------------
(***************************************************************************)
(* The AES function's lane machine as a free algebra (lanehash/src/aes:    *)
(* spec.rs and the generic State of lanes.rs).  A lane's value is the      *)
(* sequence of blocks it has absorbed, each with the word xored into it;   *)
(* the AES rounds are uninterpreted, so equal terms are equal hashes.      *)
(***************************************************************************)
EXTENDS Memory, Sequences

CONSTANTS B,          \* bytes of a block; 16 in the code
          L4, L8, L,  \* lanes of the three regimes; 4, 8 and 16 in the code
          SHORT_MAX,  \* 64 in the code
          L4_MAX,     \* 256 in the code
          L8_MAX      \* 1024 in the code

\* The regimes are ordered, and each starts above its own closing region, as the
\* debug assertion of lanes_hash requires.
ASSUME AesAssumption ==
  /\ {B, L4, L8, L} \subseteq Nat \ {0}
  /\ {SHORT_MAX, L4_MAX, L8_MAX} \subseteq Nat
  /\ SHORT_MAX <= L4_MAX /\ L4_MAX <= L8_MAX
  /\ SHORT_MAX >= B * L4 /\ L4_MAX >= B * L8 /\ L8_MAX >= B * L

AesBlock(mem, from, x) == [bytes |-> [i \in 0 .. B - 1 |-> mem[from + i]], x |-> x]

InitLanes(w) == [i \in 0 .. w - 1 |-> << >>]

\* A name with an underscore is the name before it with a plausible slip, for
\* the mutation runs; nothing else uses it.
\* `nblocks' blocks at `from', block j into lane j mod w.
AbsorbBlocks_Restart(w, t, mem, from, nblocks) ==
  [i \in 0 .. w - 1 |->
     [j \in 1 .. nblocks \div w + (IF i < nblocks % w THEN 1 ELSE 0) |->
        AesBlock(mem, from + ((j - 1) * w + i) * B, 0)]]
AbsorbBlocks(w, t, mem, from, nblocks) ==
  [i \in 0 .. w - 1 |->
     t[i] \o [j \in 1 .. nblocks \div w + (IF i < nblocks % w THEN 1 ELSE 0) |->
                AesBlock(mem, from + ((j - 1) * w + i) * B, 0)]]

\* The closing region at `c' into every lane, with the length; the merge adds
\* the lanes, so the hash is a function of all of them.
FinishBlocks(w, t, mem, c, len) ==
  [kind |-> w, len |-> len,
   value |-> [i \in 0 .. w - 1 |-> Append(t[i], AesBlock(mem, c + B * i, len))]]

\* One-shot lane hash with w lanes.
LanesHash(w, mem, len) ==
  LET blocks == (len + B - 1) \div B
  IN  FinishBlocks(w, AbsorbBlocks(w, InitLanes(w), mem, 0, blocks - w),
                   mem, len - B * w, len)

\* The lanes of the regime that an input of len > SHORT_MAX bytes falls into.
RegimeLanes(len) == IF len <= L4_MAX THEN L4 ELSE IF len <= L8_MAX THEN L8 ELSE L

\* The one-shot function on the len bytes at address 0.
Hash(mem, len) ==
  IF len <= SHORT_MAX
  THEN [kind |-> 0, len |-> len, value |-> [i \in 0 .. len - 1 |-> mem[i]]]
  ELSE LanesHash(RegimeLanes(len), mem, len)
=============================================================================
