------------------------------ MODULE AesRound ------------------------------
(***************************************************************************)
(* What the forms of a lane share: the AES round R(x, k) = M(x) ^ k with a *)
(* keyless round M (SubBytes, ShiftRows, MixColumns), and how far the lane *)
(* has come.  The forms have to agree for every M, so M is any function on *)
(* blocks.                                                                 *)
(***************************************************************************)
EXTENDS Integers

CONSTANTS Block,       \* 128-bit blocks
          Zero,        \* the zero block
          XorTable,    \* exclusive or, a curried function on blocks
          M,           \* the keyless round
          Seeds,       \* start values of a lane
          MaxBlocks    \* bound on the regular blocks of a lane

ASSUME RoundAssumption ==
  /\ Zero \in Block /\ Seeds \subseteq Block /\ MaxBlocks \in Nat
  /\ XorTable \in [Block -> [Block -> Block]]
  /\ M \in [Block -> Block]

Xor(p, q) == XorTable[p][q]

ASSUME XorAssumption ==
  /\ \A p, q \in Block : Xor(p, q) = Xor(q, p)
  /\ \A p, q, r \in Block : Xor(Xor(p, q), r) = Xor(p, Xor(q, r))
  /\ \A p \in Block : Xor(p, Zero) = p /\ Xor(p, p) = Zero

VARIABLES blocks,      \* regular blocks absorbed
          phase        \* "closed" once the closing block is absorbed

R(d, k) == Xor(M[d], k)
=============================================================================
