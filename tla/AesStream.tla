------------------------------ MODULE AesStream ------------------------------
(***************************************************************************)
(* The incremental hasher of the AES function (lanehash/src/aes/stream.rs).*)
(* Up to L8_MAX bytes it only buffers, because the one-shot function's     *)
(* lane count is not known yet; beyond it absorbs steps of L blocks from   *)
(* the buffer, from the buffer topped up, and from the caller's slice, and *)
(* keeps the last L blocks for the closing region.                         *)
(***************************************************************************)
EXTENDS AesSpec

CONSTANTS Lengths,    \* the lengths of the slices given to update
          MaxInput,   \* bound on the bytes of all updates together
          USIZE       \* 2^w for the width w of usize

ASSUME StreamAssumption ==
  Lengths \subseteq Nat /\ MaxInput \in Nat /\ USIZE \in Nat \ {0}

VARIABLES total,            \* the field `total', a usize
          absorbed_blocks,  \* regular blocks absorbed into state
          state,            \* the L lanes
          buf, buf_len,     \* the buffer and its used length
          written           \* history: bytes given to update

vars == << total, absorbed_blocks, state, buf, buf_len, written >>

STEP == B * L
\* A name with an underscore is the name before it with a plausible slip, for
\* the mutation runs; nothing else uses it.
BUF_OneStep == B + STEP
BUF  == L8_MAX + B + STEP
Zero == -1            \* the byte a fresh buffer holds; no input byte

Least(x, y) == IF x <= y THEN x ELSE y

Init == /\ total = 0
        /\ absorbed_blocks = 0
        /\ state = InitLanes(L)
        /\ buf = [i \in 0 .. BUF - 1 |-> Zero]
        /\ buf_len = 0
        /\ written = 0

\* The caller's slice of k bytes.
Data(k) == [i \in 0 .. k - 1 |-> written + i]

\* update while the total stays in the buffered regimes.
Buffer_AtStart(k) ==
  /\ (total + k) % USIZE <= L8_MAX
  /\ total' = (total + k) % USIZE
  /\ buf' = CopyTo(buf, 0, Data(k), 0, k)
  /\ buf_len' = buf_len + k
  /\ written' = written + k
  /\ UNCHANGED << absorbed_blocks, state >>
Buffer(k) ==
  /\ (total + k) % USIZE <= L8_MAX
  /\ total' = (total + k) % USIZE
  /\ buf' = CopyTo(buf, buf_len, Data(k), 0, k)
  /\ buf_len' = buf_len + k
  /\ written' = written + k
  /\ UNCHANGED << absorbed_blocks, state >>

\* The steps an update absorbs when it makes the total tot: all that leave L
\* blocks for the closing region, and STEP bytes in the buffer.
Steps_NoSpare(tot) ==
  (((tot + B - 1) \div B - L) * B - absorbed_blocks * B) \div STEP
Steps(tot) ==
  LET done  == absorbed_blocks * B
      limit == ((tot + B - 1) \div B - L) * B
      spare == IF tot - done >= STEP THEN tot - done - STEP ELSE 0
  IN  Least((limit - done) \div STEP, spare \div STEP)

\* Whether a partial step in the buffer is topped up from the slice.
Topup_Never(left, part) == 0
Topup(left, part) == IF left > 0 /\ part > 0 THEN 1 ELSE 0

\* update above L8_MAX.
Absorb(k) ==
  LET tot      == (total + k) % USIZE
      steps    == Steps(tot)
      from_buf == Least(steps, buf_len \div STEP)
      part     == buf_len - from_buf * STEP
      topup    == Topup(steps - from_buf, part)
      need     == topup * (STEP - part)
      filled   == CopyTo(buf, buf_len, Data(k), 0, need)
      gone     == (from_buf + topup) * STEP
      left     == steps - from_buf - topup
      used     == need + left * STEP
      kept     == buf_len + need - gone
      st1      == AbsorbBlocks(L, state, buf, 0, from_buf * L)
      st2      == AbsorbBlocks(L, st1, filled, from_buf * STEP, topup * L)
      moved    == CopyTo(filled, 0, filled, gone, kept)
  IN  /\ tot > L8_MAX
      /\ total' = tot
      /\ state' = AbsorbBlocks(L, st2, Data(k), need, left * L)
      /\ absorbed_blocks' = absorbed_blocks + steps * L
      /\ buf' = CopyTo(moved, kept, Data(k), used, k - used)
      /\ buf_len' = kept + k - used
      /\ written' = written + k

Update(k) == written + k <= MaxInput /\ (Buffer(k) \/ Absorb(k))

Next == \E k \in Lengths : Update(k)

Spec == Init /\ [][Next]_vars
-----------------------------------------------------------------------------
\* The regular blocks that finish absorbs from the buffer.
Remaining_Floor == total \div B - L - absorbed_blocks
Remaining == (total + B - 1) \div B - L - absorbed_blocks

Finish128 ==
  IF total <= L8_MAX
  THEN Hash(buf, buf_len)
  ELSE FinishBlocks(L, AbsorbBlocks(L, state, buf, 0, Remaining),
                    buf, buf_len - STEP, total)
-----------------------------------------------------------------------------
\* Types; that buf keeps its BUF bytes says that no copy runs past its end.
TypeOK == /\ total \in Nat
          /\ absorbed_blocks \in Nat
          /\ state \in [0 .. L - 1 -> Seq([bytes : [0 .. B - 1 -> Nat], x : Nat])]
          /\ buf \in [0 .. BUF - 1 -> Nat \cup {Zero}]
          /\ buf_len \in 0 .. BUF
          /\ written \in Nat

\* The doc of update, absorbed_blocks * 16 + buf_len = total, and what the
\* sum means: the buffer holds exactly the bytes from there on, in order.
BufferWindow ==
  /\ absorbed_blocks * B + buf_len = total
  /\ \A i \in 0 .. buf_len - 1 : buf[i] = absorbed_blocks * B + i

\* The doc of State::absorb and of the field: every call absorbs whole steps,
\* so lane i has exactly the blocks i, i + L, i + 2L, ... absorbed so far.
LanesHoldBlocks ==
  /\ absorbed_blocks % L = 0
  /\ \A i \in 0 .. L - 1 :
       state[i] = [j \in 1 .. absorbed_blocks \div L |->
                     AesBlock(Input, ((j - 1) * L + i) * B, 0)]

\* Once lanes are absorbed the buffer always holds the whole closing region
\* and every regular block that finish has still to absorb, at most L.
ClosingRegionBuffered ==
  total > L8_MAX => /\ buf_len \in STEP .. 2 * STEP - 1
                    /\ Remaining \in 0 .. L
                    /\ Remaining * B <= buf_len

\* The module doc: equal to the one-shot function at every split, the buffered
\* regimes and the first update beyond them included.
StreamEqualsOneShot == Finish128 = Hash(Input, written)

\* The lane count is committed once: nothing is absorbed below L8_MAX, and
\* what has been absorbed is never absorbed again or dropped.
AbsorbedIsPrefix ==
  [][/\ total' <= L8_MAX => absorbed_blocks' = 0
     /\ \A i \in 0 .. L - 1 :
          /\ Len(state[i]) <= Len(state'[i])
          /\ SubSeq(state'[i], 1, Len(state[i])) = state[i]]_vars
=============================================================================
