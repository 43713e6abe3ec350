------------------------------ MODULE AesBatch ------------------------------
(***************************************************************************)
(* Batched hashing (batch_with in lanehash/src/aes/dispatch.rs): inputs of *)
(* one regime are collected into groups, four at a time below L4_MAX and   *)
(* two below L8_MAX, and each full group goes to a batch kernel; what is   *)
(* left over takes the one-shot function after the loop.                   *)
(*                                                                         *)
(* The slots are the arrays p4, l4 and i4 (p8, l8 and i8) of the code,     *)
(* which a flush leaves as they are; the address of input i is i.          *)
(***************************************************************************)
EXTENDS AesSpec, FiniteSets

CONSTANTS Lengths,    \* the lengths of inputs
          MaxBatch    \* bound on the inputs of a batch

ASSUME BatchAssumption == Lengths \subseteq Nat /\ MaxBatch \in Nat

VARIABLES lens,       \* the inputs: the length of each, from index 0
          room,       \* length of the caller's `out'
          pc,         \* "loop", "left4", "left8", "done" or "panic"
          i,          \* the loop variable: of inputs, then of left-overs
          slots4, n4, \* group of four
          slots8, n8, \* group of two
          k,          \* the short path's secrets, derived or not
          out,        \* the hashes stored so far, by index
          stores      \* history: the indices stored, in order

vars == << lens, room, pc, i, slots4, n4, slots8, n8, k, out, stores >>

Null  == [p |-> -1, l |-> 0, i |-> 0]     \* a slot as it is initialised
Inputs == DOMAIN lens

\* A hash is what it was computed from: the address, the length, the lanes,
\* and on the short path the secrets.
ShortWith(p, l, secrets) == [lanes |-> 0, p |-> p, len |-> l, k |-> secrets]
OneShot(p, l)    == [lanes |-> RegimeLanes(l), p |-> p, len |-> l]
Batch4L4(s)      == [lanes |-> L4, p |-> s.p, len |-> s.l]
Batch2L8(s)      == [lanes |-> L8, p |-> s.p, len |-> s.l]

Init == /\ \E n \in 0 .. MaxBatch : lens \in [0 .. n - 1 -> Lengths]
        /\ room \in 0 .. MaxBatch
        /\ pc = "loop"
        /\ i = 0
        /\ slots4 = [j \in 0 .. 3 |-> Null] /\ n4 = 0
        /\ slots8 = [j \in 0 .. 1 |-> Null] /\ n8 = 0
        /\ k = "none"
        /\ out = [j \in {} |-> 0]
        /\ stores = << >>

\* out[j] = v for the pairs of s in order, up to the first j out of bounds,
\* where the index panics; `next' is the control point when none is.
StoreAll(s, next) ==
  LET bad  == {x \in DOMAIN s : s[x].i >= room}
      good == {x \in DOMAIN s : \A y \in bad : x < y}
      to   == {s[x].i : x \in good}
  IN  /\ out' = [j \in DOMAIN out \cup to |->
                   IF j \in to THEN s[CHOOSE x \in good : s[x].i = j].v ELSE out[j]]
      /\ stores' = stores \o [x \in 1 .. Cardinality(good) |-> s[x].i]
      /\ pc' = IF bad = {} THEN next ELSE "panic"

\* The head of the loop; a short input derives the secrets if none has yet.
NeedsSecrets(l) == l <= SHORT_MAX
Fetch == /\ pc = "loop"
         /\ i \in Inputs
         /\ i' = i + 1
         /\ k' = IF NeedsSecrets(lens[i]) THEN "derived" ELSE k
         /\ UNCHANGED << lens, room >>

Short == /\ Fetch
         /\ lens[i] <= SHORT_MAX
         /\ StoreAll(<< [i |-> i, v |-> ShortWith(i, lens[i], k')] >>, "loop")
         /\ UNCHANGED << slots4, n4, slots8, n8 >>

\* What an input leaves in its slot.
Slot_Numbered == [p |-> i, l |-> lens[i], i |-> n4]
Slot == [p |-> i, l |-> lens[i], i |-> i]

Flush(slots, Kernel(_)) ==
  StoreAll([x \in 1 .. Cardinality(DOMAIN slots) |->
              [i |-> slots[x - 1].i, v |-> Kernel(slots[x - 1])]], "loop")

\* The used slots of a group of size after one more input.
Count_NoFlush(n, size) == n + 1
Count(n, size) == IF n + 1 = size THEN 0 ELSE n + 1

\* An input of the four-lane regime: into its slot, and the group that fills.
Lane4 == /\ Fetch
         /\ lens[i] > SHORT_MAX /\ lens[i] <= L4_MAX
         /\ slots4' = [slots4 EXCEPT ![n4] = Slot]
         /\ n4' = Count(n4, 4)
         /\ IF n4' = 0 THEN Flush(slots4', Batch4L4) ELSE UNCHANGED << out, stores, pc >>
         /\ UNCHANGED << slots8, n8 >>

Lane8 == /\ Fetch
         /\ lens[i] > L4_MAX /\ lens[i] <= L8_MAX
         /\ slots8' = [slots8 EXCEPT ![n8] = Slot]
         /\ n8' = Count(n8, 2)
         /\ IF n8' = 0 THEN Flush(slots8', Batch2L8) ELSE UNCHANGED << out, stores, pc >>
         /\ UNCHANGED << slots4, n4 >>

Bulk == /\ Fetch
        /\ lens[i] > L8_MAX
        /\ StoreAll(<< [i |-> i, v |-> OneShot(i, lens[i])] >>, "loop")
        /\ UNCHANGED << slots4, n4, slots8, n8 >>

EndInputs == /\ pc = "loop" /\ i \notin Inputs
             /\ pc' = "left4"
             /\ i' = 0
             /\ UNCHANGED << lens, room, slots4, n4, slots8, n8, k, out, stores >>

\* One input of the n left over in a group, or the end of its loop.
Left(here, next, slots, n) ==
  /\ pc = here
  /\ IF i < n
     THEN /\ StoreAll(<< [i |-> slots[i].i, v |-> OneShot(slots[i].p, slots[i].l)] >>, here)
          /\ i' = i + 1
     ELSE /\ pc' = next
          /\ i' = 0
          /\ UNCHANGED << out, stores >>
  /\ UNCHANGED << lens, room, slots4, n4, slots8, n8, k >>

Left4 == Left("left4", "left8", slots4, n4)

Left8_OtherSlots == Left("left8", "done", slots4, n8)
Left8_Forgotten  == Left("left8", "done", slots8, 0)
Left8 == Left("left8", "done", slots8, n8)

Next == \/ Short \/ Lane4 \/ Lane8 \/ Bulk
        \/ EndInputs \/ Left4 \/ Left8

Spec == Init /\ [][Next]_vars /\ WF_vars(Next)
-----------------------------------------------------------------------------
\* Types.
TypeOK == /\ lens \in [Inputs -> Lengths]
          /\ room \in 0 .. MaxBatch
          /\ pc \in {"loop", "left4", "left8", "done", "panic"}
          /\ i \in 0 .. MaxBatch
          /\ n4 \in 0 .. 3 /\ DOMAIN slots4 = 0 .. 3
          /\ n8 \in 0 .. 1 /\ DOMAIN slots8 = 0 .. 1
          /\ k \in {"none", "derived"}
          /\ DOMAIN out \subseteq Inputs

\* What the one-shot function returns for input j.
Hash128(j) == IF lens[j] <= SHORT_MAX THEN ShortWith(j, lens[j], "derived")
              ELSE OneShot(j, lens[j])

\* The doc of hash128_batch: out[j] = hash128(inputs[j], seed).  No kernel gets
\* an input of another regime, no hash the index of another slot, whatever an
\* earlier group left in the slots, and a short input finds its secrets derived;
\* and this holds of what has been stored when `out' proves too short.
StoresOwnHash == \A j \in DOMAIN out : out[j] = Hash128(j)

\* The SAFETY comments of the kernels: at every loop head an input that has
\* been read is either stored or in exactly one live slot of its own regime.
PendingOnce ==
  pc = "loop" =>
    LET live4 == {slots4[j].i : j \in 0 .. n4 - 1}
        live8 == {slots8[j].i : j \in 0 .. n8 - 1}
    IN  /\ Cardinality(live4) = n4 /\ Cardinality(live8) = n8
        /\ \A j \in live4 : lens[j] > SHORT_MAX /\ lens[j] <= L4_MAX
        /\ \A j \in live8 : lens[j] > L4_MAX /\ lens[j] <= L8_MAX
        /\ DOMAIN out \cap (live4 \cup live8) = {}
        /\ DOMAIN out \cup live4 \cup live8 = 0 .. i - 1

\* `store' is called at most once for an input, whatever a flush has left in
\* the slots: a caller's closure need not be idempotent.
StoredOnce == \A x, y \in 1 .. Len(stores) : stores[x] = stores[y] => x = y

\* The inductive invariant of the proofs.  A slot is live from the input that
\* fills it until its flush, or until its turn among the left-overs; the live
\* slots hold distinct inputs of their regime that no store has seen.
Live4 == IF pc = "loop" THEN 0 .. n4 - 1
         ELSE IF pc = "left4" THEN i .. n4 - 1 ELSE {}
Live8 == IF pc \in {"loop", "left4"} THEN 0 .. n8 - 1
         ELSE IF pc = "left8" THEN i .. n8 - 1 ELSE {}

Waiting(slots, live, low, high) ==
  /\ \A j \in live :
       LET q == slots[j].i
       IN  /\ q \in Inputs \ DOMAIN out
           /\ low < lens[q] /\ lens[q] <= high
           /\ slots[j] = [p |-> q, l |-> lens[q], i |-> q]
  /\ \A j, h \in live : slots[j].i = slots[h].i => j = h

Indices(slots, live) == {slots[j].i : j \in live}

\* A batch of N inputs is read in order; outside the loop i counts left-overs.
Progress ==
  \E N \in 0 .. MaxBatch :
    /\ Inputs = 0 .. N - 1
    /\ i <= N /\ n4 <= N /\ n8 <= N
    /\ pc = "loop" => n4 <= i /\ n8 <= i

\* What has been stored, and what the live slots still have to store.
Recorded ==
  /\ stores \in Seq(Nat)
  /\ DOMAIN out = {stores[x] : x \in 1 .. Len(stores)}
  /\ \A j \in DOMAIN out : j < room

Accounted ==
  pc # "panic" =>
    DOMAIN out \cup Indices(slots4, Live4) \cup Indices(slots8, Live8)
      = IF pc = "loop" THEN 0 .. i - 1 ELSE Inputs

PanicOnlyShort == pc = "panic" => \E j \in Inputs : j >= room

IndInv == /\ TypeOK
          /\ Progress
          /\ StoresOwnHash /\ StoredOnce /\ Recorded
          /\ Waiting(slots4, Live4, SHORT_MAX, L4_MAX)
          /\ Waiting(slots8, Live8, L4_MAX, L8_MAX)
          /\ Accounted
          /\ PanicOnlyShort

\* Every batch returns with all its inputs stored, or panics, and it panics
\* only if `out' is shorter than the inputs.
EveryInputStored ==
  <>(\/ pc = "done" /\ DOMAIN out = Inputs
     \/ pc = "panic" /\ room < Cardinality(Inputs))
=============================================================================
