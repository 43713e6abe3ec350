------------------------------ MODULE AesHasher ------------------------------
(***************************************************************************)
(* The LaneHasher of the AES function (aes/hasher.rs): what build_hasher   *)
(* and each write make of the accumulator.                                 *)
(***************************************************************************)
EXTENDS AesShort

with_secrets(seed, k) == [acc |-> k[7], seed |-> seed, k |-> [j \in 0 .. 3 |-> k[j]]]

\* A FixedState of this seed derives the secrets; its build_hasher passes them on.
build_hasher(seed) == with_secrets(seed, secrets(seed))

\* The accumulator after the first n chunks of 16 bytes.
Chunks(h, p, n) ==
  LET acc[i \in 0 .. n] ==
        IF i = 0 THEN h.acc
        ELSE fold(le64(p, 16 * (i - 1)) \oplus h.k[0] \oplus acc[i - 1],
                  le64(p, 16 * (i - 1) + 8) \oplus h.k[1])
  IN  acc[n]

\* More than 16 bytes: as many chunks as leave 1 to 16 bytes, then the last 16;
\* or the one-shot hash.
write_long(h, p) ==
  IF p.len <= 64
  THEN fold(le64(p, p.len - 16) \oplus h.k[2] \oplus Chunks(h, p, (p.len - 1) \div 16),
            le64(p, p.len - 8) \oplus h.k[3] \oplus Number(p.len))
  ELSE fold(hash64(p, h.seed) \oplus h.k[2] \oplus h.acc, h.k[3] \oplus Number(p.len))

write(h, p) ==
  [h EXCEPT !.acc =
     IF p.len <= 16
     THEN fold(Words16(p)[1] \oplus h.k[0] \oplus h.acc,
               Words16(p)[2] \oplus h.k[1] \oplus Number(p.len))
     ELSE write_long(h, p)]

\* write_u8 to write_u128 and write_usize, an integer i of i.len bytes: narrow
\* ones are extended with zeros for write_u64, which does not hash their width.
write_int(h, i) ==
  [h EXCEPT !.acc =
     IF i.len <= 8
     THEN fold(Load(i, 0, i.len, 0) \oplus h.acc, h.k[2])
     ELSE fold(le64(i, 0) \oplus h.k[0] \oplus h.acc, le64(i, 8) \oplus h.k[1])]
=============================================================================
