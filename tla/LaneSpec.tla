------------------------------ MODULE LaneSpec ------------------------------
(***************************************************************************)
(* The default lanehash function as a free algebra (lanehash/src/spec.rs). *)
(*                                                                         *)
(* The value of a chain is the sequence of stripes it has absorbed, each   *)
(* with the word `x' that is xored into it, so two chains have equal terms *)
(* only when the code computes the same expression for them: equal terms   *)
(* mean equal hashes whatever `step', `fold' and the constants are.        *)
(***************************************************************************)
EXTENDS Memory, Sequences

CONSTANTS STRIPE,   \* bytes of a stripe; 64 in the code
          CHAINS    \* chains; 8 in the code

ASSUME LaneAssumption == STRIPE \in Nat \ {0} /\ CHAINS \in Nat \ {0}

BLOCK     == CHAINS * STRIPE
SHORT_MAX == STRIPE
Chain     == 0 .. CHAINS - 1

\* `len' bytes of memory `mem' from address `from' on.
Slice(mem, from, len) == [i \in 0 .. len - 1 |-> mem[from + i]]

\* One absorbed stripe: the bytes at `from' and the word xored into them.
Stripe(mem, from, x) == [bytes |-> Slice(mem, from, STRIPE), x |-> x]

InitState == [c \in Chain |-> << >>]

\* `nb' whole blocks at `from', stripe c of each into chain c.
Absorb(a, mem, from, nb) ==
  [c \in Chain |->
     a[c] \o [j \in 1 .. nb |->
                Stripe(mem, from + (j - 1) * BLOCK + c * STRIPE, 0)]]

\* The chains that the merge step xors together for an input of n bytes.
Used(n) == LET s == (n - 1) \div STRIPE + 1
           IN  0 .. (IF s < CHAINS THEN s ELSE CHAINS) - 1

\* r leading stripes at `lead', the closing stripe at `close', the merge.
Finish(a, mem, lead, r, close, n) ==
  LET led == [c \in Chain |->
                IF c < r THEN Append(a[c], Stripe(mem, lead + c * STRIPE, 0))
                         ELSE a[c]]
      all == [led EXCEPT ![r % CHAINS] = Append(@, Stripe(mem, close, n))]
  IN  [c \in Used(n) |-> all[c]]

\* Merged lanes of an input of n > SHORT_MAX bytes at address 0.
Lanes(mem, n) ==
  LET m  == (n - 1) \div STRIPE
      nb == m \div CHAINS
  IN  IF m < CHAINS
      THEN [s \in 0 .. m |->
              << IF s < m THEN Stripe(mem, s * STRIPE, 0)
                          ELSE Stripe(mem, n - STRIPE, n) >>]
      ELSE Finish(Absorb(InitState, mem, 0, nb), mem,
                  nb * BLOCK, m - nb * CHAINS, n - STRIPE, n)

ShortHash(mem, n)  == [kind |-> "short", len |-> n, value |-> Slice(mem, 0, n)]
LongHash(merged, n) == [kind |-> "lanes", len |-> n, value |-> merged]

\* The one-shot function on the n bytes at address 0.
Hash(mem, n) == IF n <= SHORT_MAX THEN ShortHash(mem, n)
                                  ELSE LongHash(Lanes(mem, n), n)
=============================================================================
