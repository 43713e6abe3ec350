------------------------------ MODULE LongFolds ------------------------------
(***************************************************************************)
(* The final folds of the default function beyond 64 bytes: finish_lanes   *)
(* of spec.rs and lanehash_finish_lanes of lanehash.c, over the eight      *)
(* merged words, which LaneKernels and StripeStep are about.               *)
(***************************************************************************)
EXTENDS WordTerms

S(i) == Const("folds", i)

\* The merged words of the input p with the mixed seed k.
lanes(p, k) == [i \in 0 .. 7 |-> {<< "merged", i, p, k >>}]

Folds(m, pairs) ==
  LET f(i) == fold(m[pairs[i][1]] \oplus S(pairs[i][2]), m[pairs[i][3]] \oplus S(pairs[i][4]))
  IN  f(1) \oplus f(2) \oplus f(3) \oplus f(4)

finish_lanes(m, k, n) ==
  LET h  == Folds(m, << << 0, 0, 1, 1 >>, << 2, 2, 3, 3 >>, << 4, 4, 5, 5 >>, << 6, 6, 7, 7 >> >>)
      h2 == Folds(m, << << 0, 10, 2, 11 >>, << 1, 12, 3, 13 >>,
                        << 4, 14, 6, 15 >>, << 5, 16, 7, 17 >> >>)
  IN  [lo |-> fold(h \oplus n, k \oplus S(8)), hi |-> fold(h2 \oplus n, k \oplus S(18))]

lanehash_finish_lanes(m, k, n) ==
  LET h  == fold(m[0] \oplus S(0), m[1] \oplus S(1)) \oplus fold(m[2] \oplus S(2), m[3] \oplus S(3))
            \oplus fold(m[4] \oplus S(4), m[5] \oplus S(5))
            \oplus fold(m[6] \oplus S(6), m[7] \oplus S(7))
      h2 == fold(m[0] \oplus S(10), m[2] \oplus S(11)) \oplus fold(m[1] \oplus S(12), m[3] \oplus S(13))
            \oplus fold(m[4] \oplus S(14), m[6] \oplus S(15))
            \oplus fold(m[5] \oplus S(16), m[7] \oplus S(17))
  IN  [hi |-> fold(h2 \oplus n, k \oplus S(18)), lo |-> fold(h \oplus n, k \oplus S(8))]
=============================================================================
