----------------------------- MODULE LaneHasher ------------------------------
(***************************************************************************)
(* The LaneHasher of the default function (hasher.rs): what `new' and each *)
(* write make of the accumulator.                                          *)
(***************************************************************************)
EXTENDS ShortPath

new(seed) == [acc |-> seed \oplus KF(0), seed |-> seed]

\* More than 16 bytes: the short path with the accumulator as its seed, or the
\* one-shot hash.
\* A name with an underscore at its end and a word is the name before it with
\* a plausible slip, for the mutation runs; nothing else uses it.
write_long_Seed(h, p) ==
  CASE p.len <= 64 -> hash64(p, h.seed)
    [] p.len > 64  -> fold(hash64(p, h.seed) \oplus KS(2) \oplus h.acc,
                           KS(3) \oplus Number(p.len))
write_long(h, p) ==
  CASE p.len <= 64 -> short128(p, h.acc, NoZero).lo
    [] p.len > 64  -> fold(hash64(p, h.seed) \oplus KS(2) \oplus h.acc,
                           KS(3) \oplus Number(p.len))

write_NoLength(h, p) ==
  [h EXCEPT !.acc =
     IF p.len > 16 THEN write_long(h, p)
     ELSE fold(Words16(p)[1] \oplus KS(0) \oplus h.acc, Words16(p)[2] \oplus KS(1))]
write(h, p) ==
  [h EXCEPT !.acc =
     IF p.len > 16 THEN write_long(h, p)
     ELSE fold(Words16(p)[1] \oplus KS(0) \oplus h.acc,
               Words16(p)[2] \oplus KS(1) \oplus Number(p.len))]

\* write_u8 to write_u128 and write_usize: an integer i of i.len bytes, extended
\* with zeros to the first word or in both, and its width in the second.
write_int(h, i) ==
  [h EXCEPT !.acc =
     IF i.len <= 8
     THEN fold(Load(i, 0, i.len, 0) \oplus KS(0) \oplus h.acc, KS(1) \oplus Number(i.len))
     ELSE fold(le64(i, 0) \oplus KS(0) \oplus h.acc,
               le64(i, 8) \oplus KS(1) \oplus Number(16))]
=============================================================================
