------------------------------ MODULE SoftRound ------------------------------
(***************************************************************************)
(* One AES round, by its definition (aes/spec.rs) and by tables            *)
(* (aes/soft.rs, and lanehash_aes.c with the tables of gen_ttables.py).    *)
(* A byte is the xor-sum of its atoms: << m, i >> is m times the S-box     *)
(* value of byte i of the block, m in {1, 2}, where 2 is xt, and           *)
(* << "key", i >> byte i of the round key.  So the S-box and xt are        *)
(* arbitrary, and one evaluation stands for every block and key.           *)
(***************************************************************************)
EXTENDS Integers, Sequences

a \oplus b == (a \ b) \cup (b \ a)

Bytes == 0 .. 15
Rows  == 0 .. 3

\* The block x and the key k, by byte.
s(i)   == {<< "1", i >>}   \* SBOX[x[i]]
xts(i) == {<< "2", i >>}   \* xt of it
key(i) == {<< "key", i >>}

aes_round ==
  LET \* SubBytes and ShiftRows: the byte of x that comes to row r, column c
      From(r, c) == r + 4 * ((c + r) % 4)
      A(r, c) == s(From(r, c))
      X(r, c) == xts(From(r, c))
      O(r, c) == CASE r = 0 -> X(0, c) \oplus X(1, c) \oplus A(1, c) \oplus A(2, c) \oplus A(3, c)
                   [] r = 1 -> A(0, c) \oplus X(1, c) \oplus X(2, c) \oplus A(2, c) \oplus A(3, c)
                   [] r = 2 -> A(0, c) \oplus A(1, c) \oplus X(2, c) \oplus X(3, c) \oplus A(3, c)
                   [] r = 3 -> X(0, c) \oplus A(0, c) \oplus A(1, c) \oplus A(2, c) \oplus X(3, c)
  IN  [i \in Bytes |-> O(i % 4, i \div 4) \oplus key(i)]

\* TE[t] at byte i, and the tables of gen_ttables.py: four bytes, lowest first.
tables(i) ==
  LET s1 == s(i)
      s2 == xts(i)
      s3 == s1 \oplus s2
  IN  << << s2, s1, s1, s3 >>, << s3, s2, s1, s1 >>, << s1, s3, s2, s1 >>, << s1, s1, s3, s2 >> >>

gen_ttables(i) ==
  LET rows == << << 2, 1, 1, 3 >>, << 3, 2, 1, 1 >>, << 1, 3, 2, 1 >>, << 1, 1, 3, 2 >> >>
      mul(m) == CASE m = 1 -> s(i) [] m = 2 -> xts(i) [] m = 3 -> xts(i) \oplus s(i)
  IN  [t \in 1 .. 4 |-> [b \in 1 .. 4 |-> mul(rows[t][b])]]

\* Byte r of column c of a block, as the index of its byte.
At(c, r) == 4 * c + r

\* Column i of the result: byte t of column i + t selects from table t.
\* A name with an underscore is the name before it with a plausible slip, for
\* the mutation runs; nothing else uses it.
col_Backwards(i) ==
  [r \in Rows |-> tables(At(i, 0))[1][r + 1] \oplus tables(At((i + 3) % 4, 1))[2][r + 1]
           \oplus tables(At((i + 2) % 4, 2))[3][r + 1] \oplus tables(At((i + 1) % 4, 3))[4][r + 1]]
col(i) ==
  [r \in Rows |-> tables(At(i, 0))[1][r + 1] \oplus tables(At((i + 1) % 4, 1))[2][r + 1]
           \oplus tables(At((i + 2) % 4, 2))[3][r + 1] \oplus tables(At((i + 3) % 4, 3))[4][r + 1]]

\* The columns packed into two halves, xored with the key, stored bytewise.
round == [i \in Bytes |-> col(i \div 4)[i % 4] \oplus key(i)]

\* lh_round: the columns are arguments.
lh_col(a, b, c, d) ==
  [r \in Rows |-> gen_ttables(At(a, 0))[1][r + 1] \oplus gen_ttables(At(b, 1))[2][r + 1]
           \oplus gen_ttables(At(c, 2))[3][r + 1] \oplus gen_ttables(At(d, 3))[4][r + 1]]
lh_round ==
  LET y == << lh_col(0, 1, 2, 3), lh_col(1, 2, 3, 0), lh_col(2, 3, 0, 1), lh_col(3, 0, 1, 2) >>
  IN  [i \in Bytes |-> y[1 + i \div 4][i % 4] \oplus key(i)]
=============================================================================
