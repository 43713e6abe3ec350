------------------------------ MODULE AesShort -------------------------------
(***************************************************************************)
(* The AES function on inputs of up to 64 bytes (aes/short.rs), and the    *)
(* public one-shot functions of aes/dispatch.rs around it.                 *)
(***************************************************************************)
EXTENDS WordTerms

\* The secrets of a seed; the rotation, the constant and the top bit of k[j]
\* are in the atom.
secrets(seed) ==
  [j \in 0 .. 7 |-> {<< "secret", j, fold(seed \oplus Const("K", 0), Const("K", 1)) >>}]

finish(x, y, k, ln) ==
  [lo |-> fold(x \oplus k[2] \oplus ln, y \oplus k[3]),
   hi |-> fold(x \oplus k[4], y \oplus k[5] \oplus ln)]

\* The operands of the multiplies of each length class.
class_le16(p, k) ==
  << << Words16(p)[1] \oplus k[0], Words16(p)[2] \oplus k[1] \oplus Number(p.len) >> >>

class_le32(p, k) ==
  << << le64(p, 0) \oplus k[0], le64(p, 8) \oplus k[1] >>,
     << le64(p, p.len - 16) \oplus k[2],
        le64(p, p.len - 8) \oplus k[3] \oplus Number(p.len) >> >>

class_le64(p, k) ==
  << << le64(p, 0) \oplus k[0], le64(p, 8) \oplus k[1] >>,
     << le64(p, 16) \oplus k[2], le64(p, 24) \oplus k[3] >>,
     << le64(p, p.len - 32) \oplus k[4], le64(p, p.len - 24) \oplus k[5] >>,
     << le64(p, p.len - 16) \oplus k[6],
        le64(p, p.len - 8) \oplus k[7] \oplus Number(p.len) >> >>

Operands(p, k) == CASE p.len <= 16 -> class_le16(p, k)
                    [] p.len \in 17 .. 32 -> class_le32(p, k)
                    [] p.len \in 33 .. 64 -> class_le64(p, k)

short128_with(p, k, zero) ==
  LET xy == CrossMums(Operands(p, k), zero)
  IN  finish(xy[1], xy[2], k, Number(p.len))

\* The definition, for the lanes of each regime, with the code's constants.
Regimes == INSTANCE AesSpec WITH B <- 16, L4 <- 4, L8 <- 8, L <- 16,
                                 SHORT_MAX <- 64, L4_MAX <- 256, L8_MAX <- 1024

Closing == INSTANCE AesClosing

\* The halves of a final block u of the input p.
Halves(u, p, seed) == [lo |-> {<< "block", "lo", u, p, seed >>}, hi |-> {<< "block", "hi", u, p, seed >>}]

\* The 128-bit hash of more than 64 bytes, with W lanes per register.
one_shot_with(p, seed, W) ==
  LET lanes == Closing!Lanes(Regimes!RegimeLanes(p.len))
  IN  Halves(Closing!FinishLanes(lanes, p.len, W), p, seed)
one_shot(p, seed) == one_shot_with(p, seed, 1)

hash128(p, seed) == IF p.len > 64 THEN one_shot(p, seed)
                    ELSE short128_with(p, secrets(seed), NoZero)
hash64(p, seed)  == IF p.len > 64 THEN one_shot(p, seed).lo
                    ELSE short128_with(p, secrets(seed), NoZero).lo
=============================================================================
