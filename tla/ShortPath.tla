------------------------------ MODULE ShortPath ------------------------------
(***************************************************************************)
(* The default function on inputs of up to 64 bytes (short.rs), and the    *)
(* public one-shot functions of dispatch.rs around it.  A hash is the      *)
(* record of its halves; the long path starts from the merged words, as its *)
(* kernels have their own modules.                                         *)
(***************************************************************************)
EXTENDS LongFolds

KS(i) == Const("KS", i)
KF(i) == Const("KF", i)

\* The mixed seed.
ks(seed) == fold(seed \oplus Const("S", 0), Const("S", 1))

finish(x, y, ln) ==
  [lo |-> fold(x \oplus KF(0) \oplus ln, y \oplus KF(1)),
   hi |-> fold(x \oplus KF(2), y \oplus KF(3) \oplus ln)]

\* The operands of the multiplies of each length class; the seed and the
\* length are in the last one.
class_le16(p, seed) ==
  << << Words16(p)[1] \oplus KS(0),
        Words16(p)[2] \oplus KS(1) \oplus Number(p.len) \oplus ks(seed) >> >>

class_le32(p, seed) ==
  << << le64(p, 0) \oplus KS(0), le64(p, 8) \oplus KS(1) >>,
     << le64(p, p.len - 16) \oplus KS(2),
        le64(p, p.len - 8) \oplus KS(3) \oplus Number(p.len) \oplus ks(seed) >> >>

class_le64(p, seed) ==
  << << le64(p, 0) \oplus KS(0), le64(p, 8) \oplus KS(1) >>,
     << le64(p, 16) \oplus KS(2), le64(p, 24) \oplus KS(3) >>,
     << le64(p, p.len - 32) \oplus KS(4), le64(p, p.len - 24) \oplus KS(5) >>,
     << le64(p, p.len - 16) \oplus KS(6),
        le64(p, p.len - 8) \oplus KS(7) \oplus Number(p.len) \oplus ks(seed) >> >>

Operands(p, seed) == CASE p.len <= 16 -> class_le16(p, seed)
                       [] p.len \in 17 .. 32 -> class_le32(p, seed)
                       [] p.len \in 33 .. 64 -> class_le64(p, seed)

\* short64 is the low half.
short128(p, seed, zero) ==
  LET xy == CrossMums(Operands(p, seed), zero)
  IN  finish(xy[1], xy[2], Number(p.len))

\* The 128-bit hash of more than 64 bytes by the selected kernel.
Long(p, seed) == finish_lanes(lanes(p, ks(seed)), ks(seed), Number(p.len))

hash128(p, seed) == IF p.len <= 64 THEN short128(p, seed, NoZero) ELSE Long(p, seed)
hash64(p, seed)  == IF p.len <= 64 THEN short128(p, seed, NoZero).lo ELSE Long(p, seed).lo
=============================================================================
