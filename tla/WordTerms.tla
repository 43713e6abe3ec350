------------------------------ MODULE WordTerms ------------------------------
(***************************************************************************)
(* The 64-bit words of the multiply paths, as xor-sums of atoms.  A word is *)
(* the set of its atoms: xor is the symmetric difference, so that a part   *)
(* xored in twice is gone, as in the code.  Data and lengths are numbers:  *)
(* the atoms of a number are those of its bits that are 1, each with the   *)
(* byte of the word where it is, so a length cancels against data as in    *)
(* the code.  Constants and the halves of a product are atoms of their own. *)
(***************************************************************************)
EXTENDS Integers, Sequences

a \oplus b == (a \ b) \cup (b \ a)

Zero == {}
Const(name, i) == {<< name, i >>}

\* The number n of up to 64 bits.
Number(n) ==
  LET half[k \in 0 .. 63] == IF k = 0 THEN n ELSE half[k - 1] \div 2
  IN  {<< "bit", k % 8, k \div 8 >> : k \in {x \in 0 .. 63 : half[x] % 2 = 1}}

\* A slice is its length and its bytes, a byte the set of its bits that are 1.
Bits == {<< "bit", b >> : b \in 0 .. 7}
IsSlice(p) == /\ p = [len |-> p.len, byte |-> p.byte]
              /\ p.len \in Nat
              /\ p.byte \in [0 .. p.len - 1 -> SUBSET Bits]

\* n bytes of the slice p, from index i, at byte `at' of a word.
Load(p, i, n, at) ==
  UNION {{<< b[1], b[2], at + j >> : b \in p.byte[i + j]} : j \in 0 .. n - 1}
le64(p, i) == Load(p, i, 8, 0)

\* Two words that carry a slice of up to 16 bytes: three classes of lengths,
\* covered by overlapping loads.
\* A name with an underscore is the name before it with a plausible slip, for
\* the mutation runs; nothing else uses it.
Words16_To9(p) ==
  LET n == p.len
  IN  CASE n = 0 -> << Zero, Zero >>
        [] n \in 1 .. 3 ->
             << Load(p, 0, 1, 0) \cup Load(p, n \div 2, 1, 1) \cup Load(p, n - 1, 1, 2), Zero >>
        [] n \in 4 .. 9 -> << Load(p, 0, 4, 0) \cup Load(p, n - 4, 4, 4), Zero >>
        [] n \in 10 .. 16 -> << le64(p, 0), le64(p, n - 8) >>
Words16(p) ==
  LET n == p.len
  IN  CASE n = 0 -> << Zero, Zero >>
        [] n \in 1 .. 3 ->
             << Load(p, 0, 1, 0) \cup Load(p, n \div 2, 1, 1) \cup Load(p, n - 1, 1, 2), Zero >>
        [] n \in 4 .. 8 -> << Load(p, 0, 4, 0) \cup Load(p, n - 4, 4, 4), Zero >>
        [] n \in 9 .. 16 -> << le64(p, 0), le64(p, n - 8) >>

\* The halves of the 128-bit product, which does not depend on the order of
\* its factors and is 0 with one of them.
lo(a, b) == IF Zero \in {a, b} THEN Zero ELSE {<< "lo", {a, b} >>}
hi(a, b) == IF Zero \in {a, b} THEN Zero ELSE {<< "hi", {a, b} >>}

\* The xor of both halves, an atom of its own.
fold(a, b) == IF Zero \in {a, b} THEN Zero ELSE {<< "fold", {a, b} >>}

mum_Unprotected(a, b) == << lo(a, b), hi(a, b) >>
mum(a, b) == << a \oplus lo(a, b), b \oplus hi(a, b) >>

\* An input for which one operand of a multiply is 0: << i, side >> says that
\* this is operand `side' of pair i; NoZero is every other input.
NoZero == << 0, 0 >>
AtInput(ops, zero) ==
  [i \in DOMAIN ops |-> [s \in 1 .. 2 |-> IF << i, s >> = zero THEN Zero ELSE ops[i][s]]]

\* The mums of all pairs, and the two words they are xored to, crosswise.
CrossMums(ops, zero) ==
  LET in == AtInput(ops, zero)
      m  == [i \in DOMAIN ops |-> mum(in[i][1], in[i][2])]
      \* word s of the first pair, the other one of the second, and so on
      Side(s, i) == m[i][IF i % 2 = 1 THEN s ELSE 3 - s]
      sum[i \in 0 .. Len(ops)] ==
        IF i = 0 THEN << Zero, Zero >>
        ELSE << sum[i - 1][1] \oplus Side(1, i), sum[i - 1][2] \oplus Side(2, i) >>
  IN  sum[Len(ops)]
=============================================================================
