----------------------------- MODULE LaneStream -----------------------------
(***************************************************************************)
(* The incremental hasher of the default function (lanehash/src/stream.rs).*)
(*                                                                         *)
(* An update is the loop of the code: Update(k) is its entry with k bytes, *)
(* AbsorbDirect and Fill are the two branches of its body.  finish takes   *)
(* `&self': it is the operator Finish128, defined between updates.         *)
(***************************************************************************)
EXTENDS LaneSpec

CONSTANTS Lengths,    \* the lengths of the slices given to update
          MaxInput,   \* bound on the bytes of all updates together
          USIZE       \* 2^w for the width w of usize

ASSUME StreamAssumption ==
  Lengths \subseteq Nat /\ MaxInput \in Nat /\ USIZE \in Nat \ {0}

VARIABLES total,      \* the field `total', a usize
          blocks,     \* whole leading blocks absorbed into st
          st,         \* the chains
          buf,        \* the buffer, all BUF bytes of it
          buf_len,    \* its used length
          data,       \* bytes of the running update not yet consumed
          consumed    \* history: bytes consumed since the stream was made

vars == << total, blocks, st, buf, buf_len, data, consumed >>

\* A name with an underscore is the name before it with a plausible slip, for
\* the mutation runs; nothing else uses it.
BUF_NoCarry == BLOCK + STRIPE
BUF  == STRIPE + BLOCK + STRIPE
Zero == -1            \* the byte a fresh buffer holds; no input byte

carry_Never == 0
carry == IF blocks > 0 THEN STRIPE ELSE 0

\* The caller's slice: the bytes of the running update still to consume.
Data == [i \in 0 .. data - 1 |-> consumed + i]

-----------------------------------------------------------------------------
Init == /\ total = 0
        /\ blocks = 0
        /\ st = InitState
        /\ buf = [i \in 0 .. BUF - 1 |-> Zero]
        /\ buf_len = 0
        /\ data = 0
        /\ consumed = 0

Update(k) == /\ data = 0
             /\ consumed + k <= MaxInput
             /\ total' = (total + k) % USIZE
             /\ data' = k
             /\ UNCHANGED << blocks, st, buf, buf_len, consumed >>

\* The buffer holds the carry alone and the slice a block and 64 bytes more.
Direct_AnyBuffer == data >= BLOCK + STRIPE
Direct == buf_len = carry /\ data >= BLOCK + STRIPE

AbsorbDirect ==
  LET k    == (data - STRIPE) \div BLOCK
      keep == data - (k * BLOCK - STRIPE)
  IN  /\ data > 0
      /\ Direct
      /\ st' = Absorb(st, Data, 0, k)
      /\ blocks' = blocks + k
      /\ buf' = CopyTo(buf, 0, Data, k * BLOCK - STRIPE, keep)
      /\ buf_len' = keep
      /\ consumed' = consumed + data
      /\ data' = 0
      /\ UNCHANGED total

\* The used length at which the buffer holds a block and the 64 bytes behind
\* it, the bytes an iteration moves into it, and those a full buffer drops.
Full_NoCarry == BLOCK + STRIPE
Full == carry + BLOCK + STRIPE

Take_NoCarry == IF data < BLOCK + STRIPE - buf_len THEN data ELSE BLOCK + STRIPE - buf_len
Take == IF data < Full - buf_len THEN data ELSE Full - buf_len

Drop_NoCarry == BLOCK - STRIPE
Drop == carry + BLOCK - STRIPE

\* The bytes that fit, then the block they complete, if they do.
Fill ==
  LET filled == CopyTo(buf, buf_len, Data, 0, Take)
      len    == buf_len + Take
  IN  /\ data > 0
      /\ ~Direct
      /\ IF len = Full
         THEN /\ st' = Absorb(st, filled, carry, 1)
              /\ blocks' = blocks + 1
              /\ buf' = CopyTo(filled, 0, filled, Drop, len - Drop)
              /\ buf_len' = len - Drop
         ELSE /\ buf' = filled
              /\ buf_len' = len
              /\ UNCHANGED << st, blocks >>
      /\ consumed' = consumed + Take
      /\ data' = data - Take
      /\ UNCHANGED total

Next == \/ \E k \in Lengths : Update(k)
        \/ AbsorbDirect
        \/ Fill

Fairness == WF_vars(AbsorbDirect) /\ WF_vars(Fill)

Spec == Init /\ [][Next]_vars /\ Fairness
-----------------------------------------------------------------------------
\* The leading stripes that finish absorbs after the blocks.
Remainder_OneMore == total \div STRIPE - CHAINS * blocks
Remainder == (total - 1) \div STRIPE - CHAINS * blocks

Finish128 ==
  CASE total <= SHORT_MAX -> ShortHash(buf, buf_len)
    [] total > SHORT_MAX /\ blocks = 0 -> Hash(buf, total)
    [] OTHER -> LongHash(Finish(st, buf, STRIPE, Remainder,
                                buf_len - STRIPE, total), total)
-----------------------------------------------------------------------------
(* Safety *)

\* Types; that buf keeps its BUF bytes says that no copy runs past its end.
TypeOK == /\ total \in Nat
          /\ blocks \in Nat
          /\ st \in [Chain -> Seq([bytes : [0 .. STRIPE - 1 -> Nat], x : Nat])]
          /\ buf \in [0 .. BUF - 1 -> Nat \cup {Zero}]
          /\ buf_len \in 0 .. BUF
          /\ data \in Nat
          /\ consumed \in Nat

\* The buffer doc of the struct: it holds the input from byte
\* BLOCK * blocks - carry on, and all of it, whatever moved inside the buffer.
BufferWindow ==
  /\ buf_len = carry + (consumed - blocks * BLOCK)
  /\ \A i \in 0 .. buf_len - 1 : buf[i] = blocks * BLOCK - carry + i

\* Each chain has absorbed its stripe of every leading block, once and in
\* order, whether the block came from the buffer or from the caller's slice.
ChainsHoldBlocks ==
  \A c \in Chain :
    st[c] = [j \in 1 .. blocks |->
               Stripe(Input, (j - 1) * BLOCK + c * STRIPE, 0)]

\* The doc of update: a block is absorbed only once a stripe follows it, so
\* the closing stripe is never inside an absorbed block; and no whole block
\* with a stripe behind it is left unabsorbed.
ClosingStripeKept ==
  /\ blocks > 0 => blocks * BLOCK + STRIPE <= consumed
  /\ consumed < (blocks + 1) * BLOCK + STRIPE

\* The inductive invariant that the proofs use: `total' counts the bytes of
\* all updates, as long as it cannot wrap, and the four invariants above.
Counted == total = consumed + data /\ total <= MaxInput

IndInv == /\ TypeOK
          /\ Counted
          /\ BufferWindow
          /\ ChainsHoldBlocks
          /\ ClosingStripeKept

\* The debug assertion of finish128: at most CHAINS leading stripes remain
\* and the buffer holds them behind the carry.
FinishReady ==
  data = 0 /\ total > SHORT_MAX /\ blocks > 0 =>
    /\ Remainder \in 0 .. CHAINS
    /\ buf_len >= STRIPE + Remainder * STRIPE

\* The module doc: the stream equals the one-shot function at every split.
StreamEqualsOneShot == data = 0 => Finish128 = Hash(Input, consumed)

\* The comment of spec::finish and of the x86 finish: r < 8 leading stripes.
RemainderBelowChains ==
  data = 0 /\ total > SHORT_MAX /\ blocks > 0 => Remainder < CHAINS
-----------------------------------------------------------------------------
(* Action and temporal properties *)

\* Every update returns.
UpdateReturns == data > 0 ~> data = 0

\* The stream implements the abstract incremental hash.
OneShot(n) == << Hash(Input, n) >>
Abstract ==
  INSTANCE IncrementalHash
    WITH NoDigest <- << >>, Digest <- OneShot,
         len <- consumed + data, busy <- data > 0,
         digest <- IF data > 0 THEN << >> ELSE << Finish128 >>
ImplementsIncrementalHash == Abstract!Spec
=============================================================================
