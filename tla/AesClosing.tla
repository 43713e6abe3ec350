------------------------------ MODULE AesClosing -----------------------------
(***************************************************************************)
(* What follows the closing region of the AES function: the constant-key   *)
(* rounds of every lane, the sum of the lanes in registers of one or two,  *)
(* and the final rounds; for State::finish of aes/lanes.rs and for the     *)
(* lane paths of lanehash_aes.c.  A block is a term, a round << "R", x, k >>, *)
(* a 64-bit lanewise sum the bag of its terms.                             *)
(***************************************************************************)
EXTENDS Integers, Sequences, FiniteSets, Bags

C(i) == << "C", i >>

R(x, k) == << "R", x, k >>

\* A sum of blocks, each counted: + of two sums is (+) of their bags.
Sum(t, lanes) ==
  LET add[i \in DOMAIN lanes] == IF i = 1 THEN SetToBag({t[lanes[1]]})
                                 ELSE add[i - 1] (+) SetToBag({t[lanes[i]]})
  IN  add[Len(lanes)]

\* The lanes after the closing region, lane i of L of some input.
Lanes(L) == [i \in 0 .. L - 1 |-> << "lane", i, L >>]

\* C[24] ^ bcast(len)
LengthKey(len) == << "C ^ len", 24, len >>

finalize(u, len) == R(R(R(u, LengthKey(len)), C(25)), C(26))

\* State::finish with registers of W lanes: the rounds in round-major order,
\* the registers added up, then the lanes of the sum (fold).
FinishLanes(t, len, W) ==
  LET L == Cardinality(DOMAIN t)
      closed[r \in 0 .. 3] == IF r = 0 THEN t
                              ELSE [i \in DOMAIN t |-> R(closed[r - 1][i], C(39 + r))]
      acc(w) == Sum(closed[3], [i \in 1 .. L \div W |-> W * (i - 1) + w])
  IN  finalize(IF W = 1 THEN acc(0) ELSE acc(0) (+) acc(1), len)

\* lh_lanes and LH_DEFINE_XMM (width 1), LH_DEFINE_YMM (width 2), and the
\* written-out lh_lanes4_xmm.
lh_closed(t) == [i \in DOMAIN t |-> R(R(R(t[i], C(40)), C(41)), C(42))]
lh_finish128(acc, len) == R(R(R(acc, LengthKey(len)), C(25)), C(26))

lh_lanes_xmm(t, len) ==
  lh_finish128(Sum(lh_closed(t), [i \in 1 .. Cardinality(DOMAIN t) |-> i - 1]), len)
lh_lanes_ymm(t, len) ==
  LET NR == Cardinality(DOMAIN t) \div 2
      acc(w) == Sum(lh_closed(t), [i \in 1 .. NR |-> 2 * (i - 1) + w])
  IN  lh_finish128(acc(0) (+) acc(1), len)
lh_lanes4_xmm(t, len) ==
  LET c == lh_closed(t)
  IN  lh_finish128(Sum(c, << 0, 1 >>) (+) Sum(c, << 2, 3 >>), len)

\* lh_lanes of a build with VAES, with AES-NI or with neither.
lh_lanes(build, t, len) ==
  CASE build = "vaes" -> lh_lanes_ymm(t, len)
    [] build = "aesni" /\ Cardinality(DOMAIN t) = 4 -> lh_lanes4_xmm(t, len)
    [] OTHER -> lh_lanes_xmm(t, len)
=============================================================================
