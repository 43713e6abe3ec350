------------------------------ MODULE StripeStep -----------------------------
(***************************************************************************)
(* One stripe into one chain of the default function, and one chain into   *)
(* the merged words: x = a ^ w; x + lo32(x) * hi32(x) on eight words, by   *)
(* the definition (spec.rs), in x86 registers of two, four or eight words  *)
(* (x86.rs, lanehash.c) and in pairs of registers whose even and odd       *)
(* dwords are shuffled together (wasm.rs).  Words and dwords are terms; a  *)
(* product of two dwords does not depend on their order.                   *)
(***************************************************************************)
EXTENDS Integers, Sequences

Words == 0 .. 7

lo32(x) == << "dword", 0, x >>
hi32(x) == << "dword", 1, x >>
mul(d, e) == << "product", {d, e} >>
add(x, y) == << "sum", x, y >>
xor(a, w) == << "xor", {a, w} >>

\* The words of the chain, of the stripe (already xored with x) and of Q.
a == [i \in Words |-> << "chain", i >>]
w == [i \in Words |-> << "stripe", i >>]
Q == [i \in Words |-> << "Q", i >>]

step(v, word) == LET x == xor(v, word) IN add(x, mul(lo32(x), hi32(x)))

\* stripe of spec.rs, and the step of its merge.
stripe == [i \in Words |-> step(a[i], w[i])]
merge  == [i \in Words |-> step(step(a[i], w[i]), Q[i])]

\* A register is the sequence of its words.  mul_epu32 multiplies the low
\* dwords of each word; srl32 shifts the high one down, with 0 above it.
Load(words, r, WPR) == [j \in 1 .. WPR |-> words[r * WPR + j - 1]]
srl32(v) == [j \in DOMAIN v |-> << "word", hi32(v[j]), "0" >>]
LowDword(x) == IF x[1] = "word" THEN x[2] ELSE lo32(x)
mul_epu32(u, v) == [j \in DOMAIN u |-> mul(LowDword(u[j]), LowDword(v[j]))]

vstep(v, u) == LET x == [j \in DOMAIN v |-> xor(v[j], u[j])]
                   m == mul_epu32(x, srl32(x))
               IN  [j \in DOMAIN v |-> add(x[j], m[j])]

\* The words that store puts into memory, register by register.
Registers(WPR) == 0 .. (8 \div WPR) - 1
Stored(reg, WPR) == [i \in Words |-> reg[i \div WPR][1 + (i % WPR)]]

x86_stripe(WPR) ==
  Stored([r \in Registers(WPR) |-> vstep(Load(a, r, WPR), Load(w, r, WPR))], WPR)
x86_merge(WPR) ==
  Stored([r \in Registers(WPR) |->
            vstep(vstep(Load(a, r, WPR), Load(w, r, WPR)), Load(Q, r, WPR))], WPR)

\* step2: i32x4.shuffle takes dwords of both registers, extmul_low and
\* extmul_high multiply the two lower and the two upper ones.
shuffle(x0, x1, pick) ==
  LET dword(j) == LET x == IF j < 4 THEN x0[1 + j \div 2] ELSE x1[1 + (j - 4) \div 2]
                  IN  IF j % 2 = 0 THEN lo32(x) ELSE hi32(x)
  IN  [i \in 1 .. 4 |-> dword(pick[i])]
extmul_low(e, o)  == << mul(e[1], o[1]), mul(e[2], o[2]) >>
extmul_high(e, o) == << mul(e[3], o[3]), mul(e[4], o[4]) >>

step2(a0, a1, w0, w1) ==
  LET x0 == [j \in 1 .. 2 |-> xor(a0[j], w0[j])]
      x1 == [j \in 1 .. 2 |-> xor(a1[j], w1[j])]
      e  == shuffle(x0, x1, << 0, 2, 4, 6 >>)
      o  == shuffle(x0, x1, << 1, 3, 5, 7 >>)
  IN  << [j \in 1 .. 2 |-> add(x0[j], extmul_low(e, o)[j])],
         [j \in 1 .. 2 |-> add(x1[j], extmul_high(e, o)[j])] >>

\* Two halves of two registers each.
wasm_stripe ==
  LET half(h) == step2(Load(a, 2 * h, 2), Load(a, 2 * h + 1, 2),
                       Load(w, 2 * h, 2), Load(w, 2 * h + 1, 2))
  IN  Stored([r \in Registers(2) |-> half(r \div 2)[1 + (r % 2)]], 2)
wasm_merge ==
  LET half(h) == LET s == step2(Load(a, 2 * h, 2), Load(a, 2 * h + 1, 2),
                                Load(w, 2 * h, 2), Load(w, 2 * h + 1, 2))
                 IN  step2(s[1], s[2], Load(Q, 2 * h, 2), Load(Q, 2 * h + 1, 2))
  IN  Stored([r \in Registers(2) |-> half(r \div 2)[1 + (r % 2)]], 2)
=============================================================================
