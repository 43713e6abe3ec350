------------------------------ MODULE PureCalls ------------------------------
(***************************************************************************)
(* Calls of the functions that keep no state: the one-shot functions of    *)
(* both algorithms and their C ports, one write of a fresh hasher, the     *)
(* product from halves, the rounds by tables and in registers.  Each step  *)
(* is one call; MulHalves has that of the product.                         *)
(***************************************************************************)
EXTENDS MulHalves, Sequences, FiniteSets

CONSTANT LongLengths  \* lengths beyond the short path

ASSUME CallAssumption == \A n \in LongLengths : n > 64

D == INSTANCE ShortPath
A == INSTANCE AesShort
C == INSTANCE CShort
DHasher == INSTANCE LaneHasher
AHasher == INSTANCE AesHasher
R == INSTANCE SoftRound
N == INSTANCE StripeStep

ShortLengths == 0 .. 64
Functions    == {"default", "aes"}
Seed         == {<< "seed", "s" >>}

\* An input of n bytes of any values, and the memory around it: a byte has one
\* bit, which stands for those that are 1 and no other byte has.
Input(n) == [len |-> n, byte |-> [i \in -64 .. n + 64 |-> {<< "byte", i >>}]]

Pairs(n) == CASE n <= 16 -> 1 [] n \in 17 .. 32 -> 2 [] OTHER -> 4

Init == MulInit

\* A one-shot hash, of an input that makes one operand of a multiply 0 or none.
HashCall == \E f \in Functions, n \in ShortLengths :
             \E zero \in {D!NoZero} \cup (1 .. Pairs(n)) \X (1 .. 2) :
               call' = [kind |-> "short", fn |-> f, len |-> n, zero |-> zero]
LongCall == \E f \in Functions, n \in LongLengths :
              call' = [kind |-> "long", fn |-> f, len |-> n]
WriteCall == \E f \in Functions, n \in ShortLengths \cup LongLengths :
               call' = [kind |-> "write", fn |-> f, len |-> n]
RoundCall == call' = [kind |-> "round"]

Next == call.kind = "none" /\ (HashCall \/ LongCall \/ WriteCall \/ MulCall \/ RoundCall)

Spec == Init /\ [][Next]_call
-----------------------------------------------------------------------------
\* The bytes of the input that a term depends on, at any depth.
RECURSIVE Reads(_)
Reads(word) ==
  UNION {CASE atom[1] = "byte" -> {atom[2]}
           [] atom[1] \in {"lo", "hi", "fold"} -> UNION {Reads(w) : w \in atom[2]}
           [] atom[1] \in {"merged", "block"} -> 0 .. atom[Len(atom) - 1].len - 1
           [] OTHER -> {} : atom \in word}

ShortHash == IF call.fn = "default"
             THEN D!short128(Input(call.len), Seed, call.zero)
             ELSE A!short128_with(Input(call.len), A!secrets(Seed), call.zero)

\* The accumulator of a fresh hasher after one write.
Written == IF call.fn = "default"
           THEN DHasher!write(DHasher!new(Seed), Input(call.len)).acc
           ELSE AHasher!write(AHasher!build_hasher(Seed), Input(call.len)).acc

\* The loads of every length class overlap: each half of a digest, and the
\* accumulator of a hasher after a write, depends on every byte of the input
\* (a byte loaded twice does not cancel), and on no byte outside it: no load
\* of the classes of short.rs, aes/short.rs and the hashers leaves the slice.
ReadsExactlyInput ==
  /\ call.kind = "short" /\ call.zero = D!NoZero =>
       \A half \in {"lo", "hi"} : Reads(ShortHash[half]) = 0 .. call.len - 1
  /\ call.kind = "write" => Reads(Written) = 0 .. call.len - 1

\* "A zero operand keeps the other's information" (mum): if an input makes one
\* operand of a multiply 0, its partner and all other operands still reach
\* both halves of the digest.
ZeroOperandKeepsInput ==
  call.kind = "short" /\ call.zero # D!NoZero =>
    LET ops == IF call.fn = "default" THEN D!Operands(Input(call.len), Seed)
               ELSE A!Operands(Input(call.len), A!secrets(Seed))
        others == UNION {Reads(ops[i][s]) : << i, s >> \in
                           {x \in (1 .. Len(ops)) \X (1 .. 2) : x # call.zero}}
    IN  \A half \in {"lo", "hi"} : others \subseteq Reads(ShortHash[half])

\* The C ports are the Rust functions, at every length and for both widths,
\* and each 64-bit function returns the low half of the 128-bit one: classes,
\* operands, folds, the regimes of the lane path and what follows its closing
\* region (in registers of one lane or of two) are written several times.
PortsAgree ==
  call.kind \in {"short", "long"} =>
    LET p == Input(call.len)
    IN  IF call.fn = "default"
        THEN /\ C!lanehash128(p, Seed) = D!hash128(p, Seed)
             /\ C!lanehash64(p, Seed) = D!hash128(p, Seed).lo
             /\ D!hash64(p, Seed) = D!hash128(p, Seed).lo
        ELSE /\ \A build \in {"soft", "aesni", "vaes"} :
                  /\ C!lanehash_aes128(p, Seed, build) = A!hash128(p, Seed)
                  /\ C!lanehash_aes64(p, Seed, build) = A!hash128(p, Seed).lo
             /\ call.kind = "long" => A!one_shot_with(p, Seed, 2) = A!one_shot(p, Seed)
             /\ A!hash64(p, Seed) = A!hash128(p, Seed).lo

\* Each form of a round is the round of the definition.  For every S-box, the
\* rows of the tables and the rotation of the columns together are ShiftRows
\* and MixColumns, in Rust and in C.  A stripe, and the merge after it, in
\* registers of any width or shuffled in pairs is that of the eight words.
RoundsAgree ==
  call.kind = "round" =>
    /\ R!round = R!aes_round /\ R!lh_round = R!aes_round
    /\ \A WPR \in {2, 4, 8} : N!x86_stripe(WPR) = N!stripe /\ N!x86_merge(WPR) = N!merge
    /\ N!wasm_stripe = N!stripe /\ N!wasm_merge = N!merge
=============================================================================
