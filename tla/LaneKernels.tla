---------------------------- MODULE LaneKernels ----------------------------
(***************************************************************************)
(* The hand-written long paths that compute Lanes: the loops over a whole  *)
(* input of the x86, wasm and C kernels.  Four shapes of the large path    *)
(* share the small path, the closing stripe and the merge:                 *)
(*   "register"  avx2, avx512 and the C kernels with named chains: groups  *)
(*               of CHAINS stripes, then the rest guarded by c < rem;      *)
(*   "memory"    sse2: the first CHAINS stripes fused with the start       *)
(*               state, groups, then single stripes into chain s % CHAINS; *)
(*   "array"     wasm: start state, groups, single stripes;                *)
(*   "scalar"    C scalar and C SSE2: fused start, single stripes only.    *)
(* An instruction on one register of a chain is abstracted to the stripe:  *)
(* every loop over registers treats the words of a stripe alike.           *)
(***************************************************************************)
EXTENDS LaneSpec

CONSTANTS Kernels,   \* the shapes explored
          MaxLen     \* bound on the input length

ASSUME KernelAssumption ==
  Kernels \subseteq {"register", "memory", "array", "scalar"} /\ MaxLen \in Nat

VARIABLES kernel,    \* the shape of the running kernel
          n,         \* length of its input
          pc,        \* its control point
          s,         \* its loop variable: stripes absorbed or merged so far
          a,         \* its chains
          mv         \* the chains merged so far

vars == << kernel, n, pc, s, a, mv >>

m == (n - 1) \div STRIPE

\* The caller's memory: the input, and bytes behind it that are not input.
Foreign == -1
mem == [i \in 0 .. n + BLOCK |-> IF i < n THEN i ELSE Foreign]

Leading(t) == Stripe(mem, t * STRIPE, 0)
\* A name with an underscore is the name before it with a plausible slip, for
\* the mutation runs; nothing else uses it.
Closing_Aligned == Stripe(mem, (m - 1) * STRIPE, n)
Closing    == Stripe(mem, n - STRIPE, n)

Init == /\ kernel \in Kernels
        /\ n \in SHORT_MAX + 1 .. MaxLen
        /\ pc = "start"
        /\ s = 0
        /\ a = InitState
        /\ mv = << >>

Small == /\ pc = "start"
         /\ m < CHAINS
         /\ pc' = "small"
         /\ mv' = [c \in {} |-> << >>]
         /\ UNCHANGED << kernel, n, s, a >>

\* The small path: stripe step and merge step of one chain back to back.
SmallStripe == /\ pc = "small"
               /\ mv' = [c \in 0 .. s |->
                           IF c < s THEN mv[c]
                           ELSE << IF s < m THEN Leading(s) ELSE Closing >>]
               /\ s' = s + 1
               /\ pc' = IF s < m THEN "small" ELSE "done"
               /\ UNCHANGED << kernel, n, a >>

\* The kernels that build the start state and the first stripes in one step.
FusedStart == kernel \in {"memory", "scalar"}

\* The scalar shape has no loop over groups.
Large == /\ pc = "start"
         /\ m >= CHAINS
         /\ pc' = IF kernel = "scalar" THEN "tail" ELSE "groups"
         /\ IF FusedStart
            THEN a' = [c \in Chain |-> << Leading(c) >>] /\ s' = CHAINS
            ELSE UNCHANGED << a, s >>
         /\ UNCHANGED << kernel, n, mv >>

GroupFits == s + CHAINS <= m

Group == /\ pc = "groups"
         /\ GroupFits
         /\ a' = [c \in Chain |-> Append(a[c], Leading(s + c))]
         /\ s' = s + CHAINS
         /\ UNCHANGED << kernel, n, pc, mv >>

EndGroups == /\ pc = "groups"
             /\ ~GroupFits
             /\ pc' = "tail"
             /\ UNCHANGED << kernel, n, s, a, mv >>

TailStripes_All == CHAINS
TailStripes == m - s

\* The rest under the guard c < rem, all chains at once.
TailGuarded ==
  /\ pc = "tail"
  /\ kernel = "register"
  /\ a' = [c \in Chain |-> IF c < TailStripes THEN Append(a[c], Leading(s + c)) ELSE a[c]]
  /\ s' = m
  /\ pc' = "close"
  /\ UNCHANGED << kernel, n, mv >>

\* The rest one stripe after the other.
TailSingle ==
  /\ pc = "tail"
  /\ kernel # "register"
  /\ IF s < m
     THEN /\ a' = [a EXCEPT ![s % CHAINS] = Append(@, Leading(s))]
          /\ s' = s + 1
          /\ UNCHANGED pc
     ELSE pc' = "close" /\ UNCHANGED << a, s >>
  /\ UNCHANGED << kernel, n, mv >>

ClosingChain_Last == (m - 1) % CHAINS
ClosingChain == m % CHAINS

Close == /\ pc = "close"
         /\ a' = [a EXCEPT ![ClosingChain] = Append(@, Closing)]
         /\ pc' = "merge"
         /\ UNCHANGED << kernel, n, s, mv >>

Merge == /\ pc = "merge"
         /\ mv' = a
         /\ pc' = "done"
         /\ UNCHANGED << kernel, n, s, a >>

Next == \/ Small \/ SmallStripe
        \/ Large \/ Group \/ EndGroups \/ TailGuarded \/ TailSingle
        \/ Close \/ Merge

Spec == Init /\ [][Next]_vars
-----------------------------------------------------------------------------
\* Every backend produces identical output: whichever loops a kernel runs, it
\* merges the chains that spec::lanes merges.
KernelEqualsSpec == pc = "done" => mv = Lanes(Input, n)

\* The guard-page test: no kernel uses a byte outside its input.
InputOnly(chain) == \A j \in 1 .. Len(chain) :
                  \A i \in 0 .. STRIPE - 1 : chain[j].bytes[i] # Foreign
NoOverread == /\ \A c \in DOMAIN a : InputOnly(a[c])
              /\ \A c \in DOMAIN mv : InputOnly(mv[c])

\* Every byte of the input reaches the hash through some absorbed stripe, the
\* last partial stripe through the closing one.
EveryByteAbsorbed ==
  pc = "done" =>
    \A i \in 0 .. n - 1 :
      \E c \in DOMAIN mv : \E j \in 1 .. Len(mv[c]) :
        \E b \in 0 .. STRIPE - 1 : mv[c][j].bytes[b] = i
=============================================================================
