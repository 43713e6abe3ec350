------------------------------- MODULE CShort --------------------------------
(***************************************************************************)
(* The C ports of the short paths and the public functions of the C files  *)
(* (lanehash.c: the names with lanehash_, lanehash_aes.c: those with lh_   *)
(* and lanehash_aes), over the words of the Rust definition.  `hi' is      *)
(* always computed: the 64-bit functions take the low half alone.          *)
(***************************************************************************)
EXTENDS LongFolds

KS(i) == Const("KS", i)
KF(i) == Const("KF", i)

\* The two words of up to 16 bytes, as both files load them.
w0(p) == LET n == p.len
         IN  CASE n = 0 -> Zero
               [] n # 0 /\ n <= 3 -> Load(p, 0, 1, 0) \cup Load(p, n \div 2, 1, 1)
                                                      \cup Load(p, n - 1, 1, 2)
               [] n > 3 /\ n <= 8 -> Load(p, 0, 4, 0) \cup Load(p, n - 4, 4, 4)
               [] OTHER -> le64(p, 0)
w1(p) == IF p.len <= 8 THEN Zero ELSE le64(p, p.len - 8)
-----------------------------------------------------------------------------
lanehash_ks(seed) == fold(seed \oplus Const("S", 0), Const("S", 1))

lanehash_finish_short(x, y, ln) ==
  [hi |-> fold(x \oplus KF(2), y \oplus KF(3) \oplus ln),
   lo |-> fold(x \oplus KF(0) \oplus ln, y \oplus KF(1))]

lanehash_short_le16(p, seed) ==
  LET ln == Number(p.len)
      m  == mum(w0(p) \oplus KS(0), w1(p) \oplus KS(1) \oplus ln \oplus lanehash_ks(seed))
  IN  lanehash_finish_short(m[1], m[2], ln)

lanehash_short_le32(p, seed) ==
  LET ln == Number(p.len)
      m0 == mum(le64(p, 0) \oplus KS(0), le64(p, 8) \oplus KS(1))
      m1 == mum(le64(p, p.len - 16) \oplus KS(2),
                le64(p, p.len - 8) \oplus KS(3) \oplus ln \oplus lanehash_ks(seed))
  IN  lanehash_finish_short(m0[1] \oplus m1[2], m0[2] \oplus m1[1], ln)

lanehash_short_le64(p, seed) ==
  LET ln == Number(p.len)
      m0 == mum(le64(p, 0) \oplus KS(0), le64(p, 8) \oplus KS(1))
      m1 == mum(le64(p, 16) \oplus KS(2), le64(p, 24) \oplus KS(3))
      m2 == mum(le64(p, p.len - 32) \oplus KS(4), le64(p, p.len - 24) \oplus KS(5))
      m3 == mum(le64(p, p.len - 16) \oplus KS(6),
                le64(p, p.len - 8) \oplus KS(7) \oplus ln \oplus lanehash_ks(seed))
  IN  lanehash_finish_short(m0[1] \oplus m1[2] \oplus m2[1] \oplus m3[2],
                            m0[2] \oplus m1[1] \oplus m2[2] \oplus m3[1], ln)

lanehash_long(p, seed) ==
  LET k == lanehash_ks(seed) IN lanehash_finish_lanes(lanes(p, k), k, Number(p.len))

lanehash64(p, seed) == CASE p.len > 64 -> lanehash_long(p, seed).lo
                         [] p.len <= 16 -> lanehash_short_le16(p, seed).lo
                         [] p.len > 16 /\ p.len <= 32 -> lanehash_short_le32(p, seed).lo
                         [] p.len > 32 /\ p.len <= 64 -> lanehash_short_le64(p, seed).lo

lanehash_128_short(p, seed) == CASE p.len <= 16 -> lanehash_short_le16(p, seed)
                                 [] p.len > 16 /\ p.len <= 32 -> lanehash_short_le32(p, seed)
                                 [] OTHER -> lanehash_short_le64(p, seed)
lanehash128(p, seed) == IF p.len <= 64 THEN lanehash_128_short(p, seed)
                                       ELSE lanehash_long(p, seed)
-----------------------------------------------------------------------------
lh_secrets(seed) ==
  LET k == fold(seed \oplus Const("K", 0), Const("K", 1))
  IN  [j \in 0 .. 7 |-> {<< "secret", j, k >>}]

\* A name with an underscore before its last part is the name before it with a
\* plausible slip, for the mutation runs; nothing else uses it.
lh_finish_HighLength(x, y, k, ln) ==
  [hi |-> fold(x \oplus k[4] \oplus ln, y \oplus k[5]),
   lo |-> fold(x \oplus k[2] \oplus ln, y \oplus k[3])]
lh_finish(x, y, k, ln) == [hi |-> fold(x \oplus k[4], y \oplus k[5] \oplus ln),
                           lo |-> fold(x \oplus k[2] \oplus ln, y \oplus k[3])]

lh_short_le16(p, seed) ==
  LET k  == lh_secrets(seed)
      ln == Number(p.len)
      m  == mum(w0(p) \oplus k[0], w1(p) \oplus k[1] \oplus ln)
  IN  lh_finish(m[1], m[2], k, ln)

lh_short_le32(p, seed) ==
  LET k  == lh_secrets(seed)
      ln == Number(p.len)
      m0 == mum(le64(p, 0) \oplus k[0], le64(p, 8) \oplus k[1])
      m1 == mum(le64(p, p.len - 16) \oplus k[2], le64(p, p.len - 8) \oplus k[3] \oplus ln)
  IN  lh_finish(m0[1] \oplus m1[2], m0[2] \oplus m1[1], k, ln)

lh_short_le64(p, seed) ==
  LET k  == lh_secrets(seed)
      ln == Number(p.len)
      m0 == mum(le64(p, 0) \oplus k[0], le64(p, 8) \oplus k[1])
      m1 == mum(le64(p, 16) \oplus k[2], le64(p, 24) \oplus k[3])
      m2 == mum(le64(p, p.len - 32) \oplus k[4], le64(p, p.len - 24) \oplus k[5])
      m3 == mum(le64(p, p.len - 16) \oplus k[6], le64(p, p.len - 8) \oplus k[7] \oplus ln)
  IN  lh_finish(m0[1] \oplus m1[2] \oplus m2[1] \oplus m3[2],
                m0[2] \oplus m1[1] \oplus m2[2] \oplus m3[1], k, ln)

Closing == INSTANCE AesClosing

\* lh_lanes128, and lh_lanes64 with the low half, of a build with the portable
\* rounds ("soft"), with AES-NI or with VAES.
lh_lanes128(p, seed, build, L) ==
  LET u == Closing!lh_lanes(build, Closing!Lanes(L), p.len)
  IN  [lo |-> {<< "block", "lo", u, p, seed >>}, hi |-> {<< "block", "hi", u, p, seed >>}]

lanehash_aes64(p, seed, build) ==
  CASE p.len > 64 /\ p.len <= 256 -> lh_lanes128(p, seed, build, 4).lo
    [] p.len > 256 /\ p.len <= 1024 -> lh_lanes128(p, seed, build, 8).lo
    [] p.len > 1024 -> lh_lanes128(p, seed, build, 16).lo
    [] p.len <= 16 -> lh_short_le16(p, seed).lo
    [] p.len > 16 /\ p.len <= 32 -> lh_short_le32(p, seed).lo
    [] p.len > 32 /\ p.len <= 64 -> lh_short_le64(p, seed).lo

lh128_short(p, seed) == CASE p.len <= 16 -> lh_short_le16(p, seed)
                          [] p.len > 16 /\ p.len <= 32 -> lh_short_le32(p, seed)
                          [] OTHER -> lh_short_le64(p, seed)
lanehash_aes128(p, seed, build) ==
  CASE p.len <= 64 -> lh128_short(p, seed)
    [] p.len > 64 /\ p.len <= 256 -> lh_lanes128(p, seed, build, 4)
    [] p.len > 256 /\ p.len <= 1024 -> lh_lanes128(p, seed, build, 8)
    [] OTHER -> lh_lanes128(p, seed, build, 16)
=============================================================================
