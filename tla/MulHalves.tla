------------------------------ MODULE MulHalves ------------------------------
(***************************************************************************)
(* lanehash_mul128 and lh_mul128 of the C files for compilers without a    *)
(* 128-bit type: the product of two words from the products of their       *)
(* halves, every sum and product modulo the word.  A half is a digit of    *)
(* base H, 2^32 in the code.                                               *)
(***************************************************************************)
EXTENDS Integers

CONSTANT H    \* values of a half word

ASSUME HalfAssumption == H \in Nat /\ H >= 2

VARIABLE call \* the last call

Word(x) == x % (H * H)

Low(a)  == a % H
High(a) == a \div H

\* A name with an underscore is the name before it with a plausible slip, for
\* the mutation runs; nothing else uses it.
mid_HalfWord(a, b) == Low(High(Word(Low(a) * Low(b))) + Low(Word(Low(a) * High(b)))
                                                      + Low(Word(High(a) * Low(b))))
mid(a, b) == Word(High(Word(Low(a) * Low(b))) + Low(Word(Low(a) * High(b)))
                                              + Low(Word(High(a) * Low(b))))

mul128(a, b) ==
  [lo |-> Word(mid(a, b) * H) + Low(Word(Low(a) * Low(b))),
   hi |-> Word(Word(High(a) * High(b)) + High(Word(Low(a) * High(b)))
                 + High(Word(High(a) * Low(b))) + High(mid(a, b)))]

\* A call with any two words.
MulInit == call = [kind |-> "none"]
MulCall == \E a, b \in 0 .. H * H - 1 : call' = [kind |-> "mul", a |-> a, b |-> b]

MulSpec == MulInit /\ [][MulCall]_call
-----------------------------------------------------------------------------
\* The product from halves is the product: no carry of its sums is lost, and
\* neither word overflows.
MulExact ==
  call.kind = "mul" =>
    LET r == mul128(call.a, call.b)
    IN  /\ r.lo \in 0 .. H * H - 1
        /\ r.lo + r.hi * H * H = call.a * call.b
=============================================================================
