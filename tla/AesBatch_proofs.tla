--------------------------- MODULE AesBatch_proofs ---------------------------
(***************************************************************************)
(* Batched hashing stores the hash of every input once, at its own index,  *)
(* whatever the regimes of the inputs, the order in which the groups fill  *)
(* and the room of the caller.                                             *)
(***************************************************************************)
EXTENDS AesBatch, FiniteSetTheorems, TLAPS

-----------------------------------------------------------------------------
(* Storing a group *)

\* The first g pairs of s have been stored.
Stored(s, g) ==
  /\ DOMAIN out' = DOMAIN out \cup {s[x].i : x \in 1 .. g}
  /\ \A x \in 1 .. g : out'[s[x].i] = s[x].v /\ s[x].i < room
  /\ \A j \in DOMAIN out \ {s[x].i : x \in 1 .. g} : out'[j] = out[j]
  /\ stores' = stores \o [x \in 1 .. g |-> s[x].i]

\* The first pair that is out of bounds, among the at most four of a group.
LEMMA FirstBad ==
  ASSUME NEW w \in 0 .. 4, NEW bad \in SUBSET (1 .. w), bad # {}
  PROVE  \E b \in bad : \A x \in bad : b <= x
<1>1. \A x \in bad : x \in {1, 2, 3, 4}
  OBVIOUS
<1>2. CASE 1 \in bad
  BY <1>1, <1>2
<1>3. CASE 1 \notin bad /\ 2 \in bad
  BY <1>1, <1>3
<1>4. CASE 1 \notin bad /\ 2 \notin bad /\ 3 \in bad
  BY <1>1, <1>4
<1>5. CASE 1 \notin bad /\ 2 \notin bad /\ 3 \notin bad
  <2>1. PICK e \in bad : TRUE
    OBVIOUS
  <2>2. \A x \in bad : x = 4
    BY <1>1, <1>5
  <2> QED BY <2>1, <2>2
<1> QED BY <1>2, <1>3, <1>4, <1>5

\* StoreAll stores a prefix of its pairs, all of them unless an index is out
\* of bounds, and then panics.
LEMMA StorePrefix ==
  ASSUME NEW w \in 0 .. 4, NEW s, DOMAIN s = 1 .. w, NEW next, room \in Nat,
         \A x \in 1 .. w : s[x].i \in Nat,
         \A x, y \in 1 .. w : s[x].i = s[y].i => x = y,
         StoreAll(s, next)
  PROVE  \E g \in 0 .. w :
           /\ Stored(s, g)
           /\ \/ g = w /\ pc' = next
              \/ g < w /\ pc' = "panic" /\ s[g + 1].i >= room
<1> DEFINE bad  == {x \in 1 .. w : s[x].i >= room}
           good == {x \in 1 .. w : \A y \in bad : x < y}
           to   == {s[x].i : x \in good}
<1>1. /\ out' = [j \in DOMAIN out \cup to |->
                   IF j \in to THEN s[CHOOSE x \in good : s[x].i = j].v ELSE out[j]]
      /\ stores' = stores \o [x \in 1 .. Cardinality(good) |-> s[x].i]
      /\ pc' = IF bad = {} THEN next ELSE "panic"
  BY DEF StoreAll
<1>2. ASSUME NEW g \in 0 .. w, good = 1 .. g
      PROVE  Stored(s, g)
  <2>1. Cardinality(good) = g
    <3>1. Cardinality(1 .. g) = g
      BY FS_Interval
    <3> QED BY <3>1, <1>2
  <2>2. ASSUME NEW x \in 1 .. g
        PROVE  out'[s[x].i] = s[x].v /\ s[x].i < room
    <3>1. x \in good /\ x \in 1 .. w
      BY <1>2
    <3>2. (CHOOSE y \in good : s[y].i = s[x].i) = x
      BY <3>1
    <3>3. s[x].i \in to
      BY <3>1
    <3>4. out'[s[x].i] = s[x].v
      BY <1>1, <3>2, <3>3
    <3>5. x \notin bad
      BY <3>1
    <3> QED BY <3>1, <3>4, <3>5
  <2>3. to = {s[x].i : x \in 1 .. g}
    BY <1>2
  <2>4. DOMAIN out' = DOMAIN out \cup to
    BY <1>1
  <2>5. \A j \in DOMAIN out \ to : out'[j] = out[j]
    BY <1>1
  <2> HIDE DEF to, good, bad
  <2> QED BY <1>1, <2>1, <2>2, <2>3, <2>4, <2>5 DEF Stored
<1>3. CASE bad = {}
  <2>1. good = 1 .. w
    BY <1>3
  <2>2. Stored(s, w)
    BY <1>2, <2>1
  <2>3. pc' = next
    BY <1>1, <1>3
  <2>4. w \in 0 .. w
    OBVIOUS
  <2> HIDE DEF bad, good, to
  <2> QED BY <2>2, <2>3, <2>4
<1>4. CASE bad # {}
  <2>1. PICK b \in bad : \A x \in bad : b <= x
    BY <1>4, FirstBad
  <2>2. good = 1 .. b - 1
    BY <2>1
  <2>3. b - 1 \in 0 .. w /\ b - 1 < w /\ s[b - 1 + 1].i >= room
    BY <2>1
  <2> QED BY <1>1, <1>2, <1>4, <2>2, <2>3
<1> QED BY <1>3, <1>4

-----------------------------------------------------------------------------
(* What storing preserves *)

\* The part of the invariant that speaks of the past alone.
History == /\ StoresOwnHash /\ StoredOnce /\ Recorded
           /\ DOMAIN out \subseteq Inputs

\* The inputs are numbered from 0.
LEMMA InputsNat ==
  ASSUME Progress
  PROVE  Inputs \subseteq Nat
BY DEF Progress

NoRepeat(t) == \A x, y \in 1 .. Len(t) : t[x] = t[y] => x = y
Elements(t) == {t[x] : x \in 1 .. Len(t)}

\* Appending unseen distinct numbers to a sequence without repetitions.
LEMMA AppendDistinct ==
  ASSUME NEW t \in Seq(Nat), NEW g \in Nat, NEW f \in [1 .. g -> Nat],
         \A x, y \in 1 .. Len(t) : t[x] = t[y] => x = y,
         \A x, y \in 1 .. g : f[x] = f[y] => x = y,
         \A x \in 1 .. g : \A y \in 1 .. Len(t) : t[y] # f[x]
  PROVE  /\ t \o f \in Seq(Nat)
         /\ \A x, y \in 1 .. Len(t \o f) : (t \o f)[x] = (t \o f)[y] => x = y
         /\ {(t \o f)[x] : x \in 1 .. Len(t \o f)}
              = {t[x] : x \in 1 .. Len(t)} \cup {f[x] : x \in 1 .. g}
<1> DEFINE n == Len(t)
           c == t \o f
<1>1. n \in Nat /\ f \in Seq(Nat) /\ Len(f) = g
  OBVIOUS
<1>2. c \in Seq(Nat) /\ Len(c) = n + g
  BY <1>1
<1>3. \A x \in 1 .. n : c[x] = t[x]
  BY <1>1
<1>4. \A x \in 1 .. g : c[n + x] = f[x]
  BY <1>1
<1>5. \A x \in n + 1 .. n + g : x - n \in 1 .. g /\ c[x] = f[x - n]
  <2> TAKE x \in n + 1 .. n + g
  <2>1. x - n \in 1 .. g /\ n + (x - n) = x
    BY <1>1
  <2> QED BY <1>4, <2>1
<1>6. \A x, y \in 1 .. n + g : c[x] = c[y] => x = y
  <2> SUFFICES ASSUME NEW x \in 1 .. n + g, NEW y \in 1 .. n + g, c[x] = c[y]
               PROVE  x = y
    OBVIOUS
  <2> HIDE DEF n, c
  <2>1. (x \in 1 .. n \/ x \in n + 1 .. n + g) /\ (y \in 1 .. n \/ y \in n + 1 .. n + g)
    BY <1>1
  <2>2. CASE x \in 1 .. n /\ y \in 1 .. n
    BY <1>3, <2>2 DEF n
  <2>3. CASE x \in n + 1 .. n + g /\ y \in n + 1 .. n + g
    <3>1. x - n = y - n
      BY <1>5, <2>3
    <3> QED BY <1>1, <3>1
  <2>4. CASE x \in 1 .. n /\ y \in n + 1 .. n + g
    <3>1. c[x] = t[x] /\ y - n \in 1 .. g /\ c[y] = f[y - n]
      BY <1>3, <1>5, <2>4
    <3> QED BY <2>4, <3>1 DEF n
  <2>5. CASE x \in n + 1 .. n + g /\ y \in 1 .. n
    <3>1. c[y] = t[y] /\ x - n \in 1 .. g /\ c[x] = f[x - n]
      BY <1>3, <1>5, <2>5
    <3> QED BY <2>5, <3>1 DEF n
  <2> QED BY <2>1, <2>2, <2>3, <2>4, <2>5
<1>7. {c[x] : x \in 1 .. n + g} = {t[x] : x \in 1 .. n} \cup {f[x] : x \in 1 .. g}
  <2> HIDE DEF n, c
  <2>1. \A x \in 1 .. n + g : x \in 1 .. n \/ x \in n + 1 .. n + g
    BY <1>1
  <2>2. \A x \in 1 .. g : n + x \in 1 .. n + g
    BY <1>1
  <2>3. \A x \in 1 .. n : x \in 1 .. n + g
    BY <1>1
  <2>4. ASSUME NEW x \in 1 .. n + g
        PROVE  c[x] \in {t[y] : y \in 1 .. n} \cup {f[y] : y \in 1 .. g}
    BY <1>3, <1>5, <2>1
  <2>5. ASSUME NEW x \in 1 .. n
        PROVE  t[x] \in {c[y] : y \in 1 .. n + g}
    BY <1>3, <2>3
  <2>6. ASSUME NEW x \in 1 .. g
        PROVE  f[x] \in {c[y] : y \in 1 .. n + g}
    BY <1>4, <2>2
  <2>7. ASSUME NEW e \in {c[x] : x \in 1 .. n + g}
        PROVE  e \in {t[x] : x \in 1 .. n} \cup {f[x] : x \in 1 .. g}
    <3>1. PICK x \in 1 .. n + g : e = c[x]
      BY <2>7
    <3> QED BY <2>4, <3>1
  <2>8. ASSUME NEW e \in {t[x] : x \in 1 .. n} \cup {f[x] : x \in 1 .. g}
        PROVE  e \in {c[x] : x \in 1 .. n + g}
    <3>1. CASE e \in {t[x] : x \in 1 .. n}
      BY <2>5, <3>1
    <3>2. CASE e \in {f[x] : x \in 1 .. g}
      BY <2>6, <3>2
    <3> QED BY <2>8, <3>1, <3>2
  <2> QED BY <2>7, <2>8
<1> QED BY <1>2, <1>6, <1>7

\* w hashes of distinct inputs that are not stored yet.
Fresh(s, w) ==
  /\ DOMAIN s = 1 .. w
  /\ \A x \in 1 .. w : s[x].i \in Inputs \ DOMAIN out /\ s[x].v = Hash128(s[x].i)
  /\ \A x, y \in 1 .. w : s[x].i = s[y].i => x = y

\* Storing hashes of inputs not stored before keeps the past in order; either
\* all are stored, or `out' is shorter than the inputs.
LEMMA StoreStep ==
  ASSUME TypeOK, Progress, History, UNCHANGED << lens, room >>,
         NEW w \in 0 .. 4, NEW s, NEW next, Fresh(s, w), StoreAll(s, next)
  PROVE  /\ History'
         /\ \/ pc' = next /\ DOMAIN out' = DOMAIN out \cup {s[x].i : x \in 1 .. w}
            \/ pc' = "panic" /\ \E j \in Inputs : j >= room
<1>0. /\ DOMAIN s = 1 .. w
      /\ \A x \in 1 .. w : s[x].i \in Inputs \ DOMAIN out /\ s[x].v = Hash128(s[x].i)
      /\ \A x, y \in 1 .. w : s[x].i = s[y].i => x = y
  BY DEF Fresh
<1>1. Inputs \subseteq Nat /\ room \in Nat
  BY InputsNat, BatchAssumption DEF TypeOK
<1>2. PICK g \in 0 .. w :
           /\ Stored(s, g)
           /\ \/ g = w /\ pc' = next
              \/ g < w /\ pc' = "panic" /\ s[g + 1].i >= room
  <2>1. \A x \in 1 .. w : s[x].i \in Nat
    BY <1>0, <1>1
  <2>2. room \in Nat
    BY <1>1
  <2>3. StoreAll(s, next) /\ DOMAIN s = 1 .. w
    BY <1>0
  <2>4. \A x, y \in 1 .. w : s[x].i = s[y].i => x = y
    BY <1>0
  <2> QED BY <2>1, <2>2, <2>3, <2>4, StorePrefix
<1> DEFINE f == [x \in 1 .. g |-> s[x].i]
<1>3. /\ \A x \in 1 .. g : x \in 1 .. w /\ s[x].i \in Nat
      /\ f \in [1 .. g -> Nat]
      /\ \A x, y \in 1 .. g : f[x] = f[y] => x = y
  <2>1. \A x \in 1 .. g : x \in 1 .. w
    OBVIOUS
  <2> QED BY <1>0, <1>1, <2>1
<1>4. {f[x] : x \in 1 .. g} = {s[x].i : x \in 1 .. g}
  OBVIOUS
<1>5. Inputs' = Inputs /\ \A j : Hash128(j)' = Hash128(j)
  BY DEF Inputs, Hash128, ShortWith, OneShot
<1>6. StoresOwnHash'
  <2> SUFFICES ASSUME NEW j \in DOMAIN out' PROVE out'[j] = Hash128(j)
    BY <1>5 DEF StoresOwnHash
  <2>1. CASE j \in {s[x].i : x \in 1 .. g}
    BY <1>0, <1>2, <1>3, <2>1 DEF Stored
  <2>2. CASE j \notin {s[x].i : x \in 1 .. g}
    BY <1>2, <2>2 DEF Stored, History, StoresOwnHash
  <2> QED BY <2>1, <2>2
<1>7. StoredOnce' /\ Recorded'
  <2>1. /\ stores \in Seq(Nat)
        /\ DOMAIN out = {stores[x] : x \in 1 .. Len(stores)}
        /\ \A x, y \in 1 .. Len(stores) : stores[x] = stores[y] => x = y
        /\ \A j \in DOMAIN out : j < room
    BY DEF History, Recorded, StoredOnce
  <2>2. \A x \in 1 .. g : \A y \in 1 .. Len(stores) : stores[y] # f[x]
    BY <1>0, <1>3, <2>1
  <2>3. stores' = stores \o f
    BY <1>2 DEF Stored
  <2>4. /\ stores' \in Seq(Nat)
        /\ \A x, y \in 1 .. Len(stores') : stores'[x] = stores'[y] => x = y
        /\ {stores'[x] : x \in 1 .. Len(stores')}
             = {stores[x] : x \in 1 .. Len(stores)} \cup {f[x] : x \in 1 .. g}
    <3>1. g \in Nat
      OBVIOUS
    <3>2. f \in [1 .. g -> Nat] /\ \A x, y \in 1 .. g : f[x] = f[y] => x = y
      BY <1>3
    <3> HIDE DEF f
    <3>3. /\ stores \o f \in Seq(Nat)
          /\ \A x, y \in 1 .. Len(stores \o f) : (stores \o f)[x] = (stores \o f)[y] => x = y
          /\ {(stores \o f)[x] : x \in 1 .. Len(stores \o f)}
               = {stores[x] : x \in 1 .. Len(stores)} \cup {f[x] : x \in 1 .. g}
      BY <2>1, <2>2, <3>1, <3>2, AppendDistinct, ZenonT(30)
    <3>4. (stores \o f) \in Seq(Nat) /\ NoRepeat(stores \o f)
          /\ Elements(stores \o f) = Elements(stores) \cup {f[x] : x \in 1 .. g}
      BY <3>3 DEF NoRepeat, Elements
    <3>5. stores' \in Seq(Nat) /\ NoRepeat(stores')
          /\ Elements(stores') = Elements(stores) \cup {f[x] : x \in 1 .. g}
      BY <2>3, <3>4, Zenon
    <3> QED BY <3>5 DEF NoRepeat, Elements
  <2>5. DOMAIN out' = {stores'[x] : x \in 1 .. Len(stores')}
    BY <1>2, <1>4, <2>1, <2>4 DEF Stored
  <2>6. \A j \in DOMAIN out' : j < room'
    BY <1>2, <2>1 DEF Stored
  <2> QED BY <2>4, <2>5, <2>6 DEF StoredOnce, Recorded
<1>8. DOMAIN out' \subseteq Inputs'
  BY <1>0, <1>2, <1>3, <1>5 DEF Stored, History
<1>9. CASE g = w /\ pc' = next
  BY <1>2, <1>6, <1>7, <1>8, <1>9 DEF Stored, History
<1>10. CASE g < w /\ pc' = "panic" /\ s[g + 1].i >= room
  <2>1. g + 1 \in 1 .. w
    BY <1>10
  <2>2. s[g + 1].i \in Inputs
    BY <1>0, <2>1
  <2> QED BY <1>6, <1>7, <1>8, <1>10, <2>2 DEF History
<1> QED BY <1>2, <1>9, <1>10

-----------------------------------------------------------------------------
(* Slots *)

\* Waiting, with the inputs and the stored indices as parameters.
Good(ls, done, slots, live, low, high) ==
  /\ \A j \in live : /\ slots[j].i \in DOMAIN ls \ done
                     /\ low < ls[slots[j].i] /\ ls[slots[j].i] <= high
                     /\ slots[j] = [p |-> slots[j].i, l |-> ls[slots[j].i], i |-> slots[j].i]
  /\ \A j, h \in live : slots[j].i = slots[h].i => j = h

LEMMA WaitingIsGood ==
  /\ Waiting(slots4, Live4, SHORT_MAX, L4_MAX)
       <=> Good(lens, DOMAIN out, slots4, Live4, SHORT_MAX, L4_MAX)
  /\ Waiting(slots8, Live8, L4_MAX, L8_MAX)
       <=> Good(lens, DOMAIN out, slots8, Live8, L4_MAX, L8_MAX)
BY DEF Waiting, Good, Inputs

LEMMA WaitingIsGoodNext ==
  /\ Waiting(slots4, Live4, SHORT_MAX, L4_MAX)'
       <=> Good(lens', DOMAIN out', slots4', Live4', SHORT_MAX, L4_MAX)
  /\ Waiting(slots8, Live8, L4_MAX, L8_MAX)'
       <=> Good(lens', DOMAIN out', slots8', Live8', L4_MAX, L8_MAX)
BY DEF Waiting, Good, Inputs

\* The next slot of a group, and an unseen input of its regime.
Fits(ls, done, slots, n, low, high, q) ==
  /\ n \in Nat /\ n \in DOMAIN slots
  /\ Good(ls, done, slots, 0 .. n - 1, low, high)
  /\ q \in DOMAIN ls \ done /\ low < ls[q] /\ ls[q] <= high
  /\ q \notin Indices(slots, 0 .. n - 1)

Put(slots, n, ls, q) == [slots EXCEPT ![n] = [p |-> q, l |-> ls[q], i |-> q]]

\* The slots stay good when the next one is filled with such an input.
LEMMA FillSlot ==
  ASSUME NEW ls, NEW done, NEW slots, NEW n, NEW low, NEW high, NEW q,
         Fits(ls, done, slots, n, low, high, q),
         NEW filled, filled = Put(slots, n, ls, q)
  PROVE  /\ Good(ls, done, filled, 0 .. n, low, high)
         /\ Indices(filled, 0 .. n) = Indices(slots, 0 .. n - 1) \cup {q}
         /\ DOMAIN filled = DOMAIN slots
<1>0. /\ n \in Nat /\ n \in DOMAIN slots
      /\ Good(ls, done, slots, 0 .. n - 1, low, high)
      /\ q \in DOMAIN ls \ done /\ low < ls[q] /\ ls[q] <= high
      /\ q \notin Indices(slots, 0 .. n - 1)
  BY DEF Fits
<1>1. /\ filled[n] = [p |-> q, l |-> ls[q], i |-> q]
      /\ \A j \in 0 .. n - 1 : filled[j] = slots[j]
      /\ DOMAIN filled = DOMAIN slots
  BY <1>0 DEF Put
<1>2. \A j \in 0 .. n : j = n \/ j \in 0 .. n - 1
  BY <1>0
<1>3. filled[n].i = q
  BY <1>1
<1>4. \A j \in 0 .. n - 1 : slots[j].i # q
  BY <1>0 DEF Indices
<1>5. Good(ls, done, filled, 0 .. n, low, high)
  <2>1. ASSUME NEW j \in 0 .. n
        PROVE  /\ filled[j].i \in DOMAIN ls \ done
               /\ low < ls[filled[j].i] /\ ls[filled[j].i] <= high
               /\ filled[j] = [p |-> filled[j].i, l |-> ls[filled[j].i], i |-> filled[j].i]
    <3>1. CASE j = n
      BY <1>0, <1>1, <1>3, <3>1
    <3>2. CASE j \in 0 .. n - 1
      BY <1>0, <1>1, <3>2 DEF Good
    <3> QED BY <1>2, <3>1, <3>2
  <2>2. ASSUME NEW j \in 0 .. n, NEW h \in 0 .. n, filled[j].i = filled[h].i
        PROVE  j = h
    <3>1. CASE j = n /\ h = n
      BY <3>1
    <3>2. CASE j = n /\ h \in 0 .. n - 1
      BY <1>1, <1>3, <1>4, <2>2, <3>2
    <3>3. CASE j \in 0 .. n - 1 /\ h = n
      BY <1>1, <1>3, <1>4, <2>2, <3>3
    <3>4. CASE j \in 0 .. n - 1 /\ h \in 0 .. n - 1
      BY <1>0, <1>1, <2>2, <3>4 DEF Good
    <3> QED BY <1>2, <3>1, <3>2, <3>3, <3>4
  <2> QED BY <2>1, <2>2 DEF Good
<1>6. Indices(filled, 0 .. n) = Indices(slots, 0 .. n - 1) \cup {q}
  <2>1. ASSUME NEW j \in 0 .. n
        PROVE  filled[j].i \in Indices(slots, 0 .. n - 1) \cup {q}
    BY <1>1, <1>2, <1>3 DEF Indices
  <2>2. ASSUME NEW j \in 0 .. n - 1
        PROVE  slots[j].i \in Indices(filled, 0 .. n)
    <3>1. j \in 0 .. n /\ filled[j].i = slots[j].i
      BY <1>0, <1>1
    <3> QED BY <3>1 DEF Indices
  <2>3. q \in Indices(filled, 0 .. n)
    <3>1. n \in 0 .. n
      BY <1>0
    <3> QED BY <1>3, <3>1 DEF Indices
  <2>4. Indices(filled, 0 .. n) \subseteq Indices(slots, 0 .. n - 1) \cup {q}
    BY <2>1 DEF Indices
  <2>5. Indices(slots, 0 .. n - 1) \subseteq Indices(filled, 0 .. n)
    BY <2>2 DEF Indices
  <2> QED BY <2>3, <2>4, <2>5
<1> QED BY <1>1, <1>5, <1>6

\* Slots stay good while no store touches what they hold, and so do fewer.
LEMMA KeepSlots ==
  ASSUME NEW ls, NEW done, NEW more, NEW slots, NEW live, NEW fewer, fewer \subseteq live,
         NEW low, NEW high,
         Good(ls, done, slots, live, low, high), more \cap Indices(slots, fewer) = {}
  PROVE  Good(ls, done \cup more, slots, fewer, low, high)
<1>1. \A j \in fewer : slots[j].i \notin more
  BY DEF Indices
<1> QED BY <1>1 DEF Good

\* A group whose slots are good stores what the one-shot function returns.
LEMMA FlushStep ==
  ASSUME TypeOK, Progress, History, UNCHANGED << lens, room >>,
         NEW size \in 0 .. 4, NEW slots, NEW low, NEW high,
         Good(lens, DOMAIN out, slots, 0 .. size - 1, low, high),
         NEW s, DOMAIN s = 1 .. size,
         \A x \in 1 .. size : /\ s[x].i = slots[x - 1].i
                              /\ s[x].v = Hash128(slots[x - 1].i),
         StoreAll(s, "loop")
  PROVE  /\ History'
         /\ \/ pc' = "loop" /\ DOMAIN out' = DOMAIN out \cup Indices(slots, 0 .. size - 1)
            \/ pc' = "panic" /\ \E j \in Inputs : j >= room
<1>1. \A x \in 1 .. size : x - 1 \in 0 .. size - 1
  OBVIOUS
<1>2. \A x \in 1 .. size : s[x].i \in Inputs \ DOMAIN out /\ s[x].v = Hash128(s[x].i)
  BY <1>1 DEF Good, Inputs
<1>3. \A x, y \in 1 .. size : s[x].i = s[y].i => x = y
  <2> SUFFICES ASSUME NEW x \in 1 .. size, NEW y \in 1 .. size, s[x].i = s[y].i
               PROVE  x = y
    OBVIOUS
  <2>1. slots[x - 1].i = slots[y - 1].i
    OBVIOUS
  <2>2. x - 1 = y - 1
    BY <1>1, <2>1 DEF Good
  <2> QED BY <2>2
<1>4. {s[x].i : x \in 1 .. size} = Indices(slots, 0 .. size - 1)
  <2>1. ASSUME NEW x \in 1 .. size
        PROVE  s[x].i \in Indices(slots, 0 .. size - 1)
    BY <1>1 DEF Indices
  <2>2. ASSUME NEW j \in 0 .. size - 1
        PROVE  slots[j].i \in {s[x].i : x \in 1 .. size}
    <3>1. j + 1 \in 1 .. size /\ (j + 1) - 1 = j
      OBVIOUS
    <3>2. s[j + 1].i = slots[j].i
      BY <3>1
    <3> QED BY <3>1, <3>2
  <2>3. Indices(slots, 0 .. size - 1) \subseteq {s[x].i : x \in 1 .. size}
    BY <2>2 DEF Indices
  <2>4. {s[x].i : x \in 1 .. size} \subseteq Indices(slots, 0 .. size - 1)
    BY <2>1
  <2> QED BY <2>3, <2>4
<1>5. StoreAll(s, "loop") /\ Fresh(s, size)
  BY <1>2, <1>3 DEF Fresh
<1>6. /\ History'
      /\ \/ pc' = "loop" /\ DOMAIN out' = DOMAIN out \cup {s[x].i : x \in 1 .. size}
         \/ pc' = "panic" /\ \E j \in Inputs : j >= room
  BY <1>5, StoreStep
<1> QED BY <1>4, <1>6

\* One hash of an unseen input.
LEMMA StoreOne ==
  ASSUME TypeOK, Progress, History, UNCHANGED << lens, room >>,
         NEW q, q \in Inputs \ DOMAIN out, NEW v, v = Hash128(q), NEW next,
         StoreAll(<< [i |-> q, v |-> v] >>, next)
  PROVE  /\ History'
         /\ \/ pc' = next /\ DOMAIN out' = DOMAIN out \cup {q}
            \/ pc' = "panic" /\ \E j \in Inputs : j >= room
<1> DEFINE s == << [i |-> q, v |-> v] >>
<1>1. /\ DOMAIN s = 1 .. 1 /\ 1 \in 0 .. 4
      /\ \A x \in 1 .. 1 : s[x].i = q /\ s[x].v = v
      /\ {s[x].i : x \in 1 .. 1} = {q}
      /\ \A x, y \in 1 .. 1 : s[x].i = s[y].i => x = y
  OBVIOUS
<1>2. \A x \in 1 .. 1 : s[x].i \in Inputs \ DOMAIN out /\ s[x].v = Hash128(s[x].i)
  BY <1>1
<1>3. StoreAll(s, next)
  OBVIOUS
<1>4. /\ History'
      /\ \/ pc' = next /\ DOMAIN out' = DOMAIN out \cup {s[x].i : x \in 1 .. 1}
         \/ pc' = "panic" /\ \E j \in Inputs : j >= room
  <2>1. Fresh(s, 1) /\ 1 \in 0 .. 4
    BY <1>1, <1>2 DEF Fresh
  <2> HIDE DEF s
  <2> QED BY <1>3, <2>1, StoreStep
<1> QED BY <1>1, <1>4
-----------------------------------------------------------------------------
(* The inductive invariant *)

LEMMA InitInv == Init => IndInv
<1> SUFFICES ASSUME Init PROVE IndInv
  OBVIOUS
<1>1. PICK N \in 0 .. MaxBatch : lens \in [0 .. N - 1 -> Lengths]
  BY DEF Init
<1>2. Inputs = 0 .. N - 1 /\ N \in Nat
  BY <1>1, BatchAssumption DEF Inputs
<1>3. /\ pc = "loop" /\ i = 0 /\ n4 = 0 /\ n8 = 0 /\ k = "none" /\ room \in 0 .. MaxBatch
      /\ DOMAIN slots4 = 0 .. 3 /\ DOMAIN slots8 = 0 .. 1
      /\ DOMAIN out = {} /\ stores = << >>
  BY DEF Init
<1>4. TypeOK
  BY <1>1, <1>2, <1>3, BatchAssumption DEF TypeOK
<1>5. Progress
  BY <1>1, <1>2, <1>3 DEF Progress
<1>6. Live4 = {} /\ Live8 = {}
  BY <1>3 DEF Live4, Live8
<1>7. Waiting(slots4, Live4, SHORT_MAX, L4_MAX) /\ Waiting(slots8, Live8, L4_MAX, L8_MAX)
  BY <1>6 DEF Waiting
<1>8. Accounted
  BY <1>3, <1>6 DEF Accounted, Indices
<1>9. StoresOwnHash /\ StoredOnce /\ Recorded
  BY <1>3 DEF StoresOwnHash, StoredOnce, Recorded
<1>10. PanicOnlyShort
  BY <1>3 DEF PanicOnlyShort
<1> QED BY <1>4, <1>5, <1>7, <1>8, <1>9, <1>10 DEF IndInv

\* A panic leaves no slot to look after.
LEMMA PanicInv ==
  ASSUME TypeOK', Progress', History', UNCHANGED << lens, room >>,
         pc' = "panic", \E j \in Inputs : j >= room
  PROVE  IndInv'
<1>1. Live4' = {} /\ Live8' = {}
  BY DEF Live4, Live8
<1>2. /\ Waiting(slots4, Live4, SHORT_MAX, L4_MAX)'
      /\ Waiting(slots8, Live8, L4_MAX, L8_MAX)'
  BY <1>1, WaitingIsGoodNext DEF Good
<1>3. Accounted' /\ PanicOnlyShort'
  BY DEF Accounted, PanicOnlyShort, Inputs
<1> QED BY <1>2, <1>3 DEF IndInv, History

\* What holds when the loop reads input i.
LEMMA Reading ==
  ASSUME IndInv, Fetch
  PROVE  /\ TypeOK /\ Progress /\ History /\ UNCHANGED << lens, room >>
         /\ pc = "loop" /\ i \in Nat /\ i' = i + 1 /\ i \in Inputs \ DOMAIN out
         /\ lens[i] \in Nat /\ k' \in {"none", "derived"}
         /\ lens[i] <= SHORT_MAX => k' = "derived"
         /\ i \notin Indices(slots4, 0 .. n4 - 1) /\ i \notin Indices(slots8, 0 .. n8 - 1)
         /\ Good(lens, DOMAIN out, slots4, 0 .. n4 - 1, SHORT_MAX, L4_MAX)
         /\ Good(lens, DOMAIN out, slots8, 0 .. n8 - 1, L4_MAX, L8_MAX)
         /\ DOMAIN out \cup Indices(slots4, 0 .. n4 - 1) \cup Indices(slots8, 0 .. n8 - 1)
              = 0 .. i - 1
<1>1. /\ pc = "loop" /\ i \in Inputs /\ i' = i + 1 /\ UNCHANGED << lens, room >>
      /\ k' = IF NeedsSecrets(lens[i]) THEN "derived" ELSE k
  BY DEF Fetch
<1>2. i \in Nat /\ lens[i] \in Nat
  <2>1. i \in 0 .. MaxBatch /\ lens \in [Inputs -> Lengths]
    BY DEF IndInv, TypeOK
  <2>2. i \in Nat
    BY <2>1
  <2>3. lens[i] \in Lengths
    BY <1>1, <2>1
  <2> QED BY <2>2, <2>3, BatchAssumption
<1>3. k' \in {"none", "derived"} /\ (lens[i] <= SHORT_MAX => k' = "derived")
  BY <1>1 DEF IndInv, TypeOK, NeedsSecrets
<1>4. Live4 = 0 .. n4 - 1 /\ Live8 = 0 .. n8 - 1
  BY <1>1 DEF Live4, Live8
<1>5. DOMAIN out \cup Indices(slots4, 0 .. n4 - 1) \cup Indices(slots8, 0 .. n8 - 1)
        = 0 .. i - 1
  BY <1>1, <1>4 DEF IndInv, Accounted
<1>6. i \notin 0 .. i - 1
  BY <1>2
<1>7. /\ Good(lens, DOMAIN out, slots4, 0 .. n4 - 1, SHORT_MAX, L4_MAX)
      /\ Good(lens, DOMAIN out, slots8, 0 .. n8 - 1, L4_MAX, L8_MAX)
  BY <1>4, WaitingIsGood DEF IndInv
<1>8. TypeOK /\ Progress /\ History
  BY DEF IndInv, History, TypeOK
<1> QED BY <1>1, <1>2, <1>3, <1>5, <1>6, <1>7, <1>8

\* Types after a turn of the loop: it reads one input and fills one slot.
LEMMA LoopTypes ==
  ASSUME IndInv, Fetch, History', pc' \in {"loop", "panic"},
         n4' \in 0 .. 3, n4' <= n4 + 1, DOMAIN slots4' = 0 .. 3,
         n8' \in 0 .. 1, n8' <= n8 + 1, DOMAIN slots8' = 0 .. 1
  PROVE  TypeOK' /\ Progress'
<1>1. /\ pc = "loop" /\ i' = i + 1 /\ i \in Inputs /\ UNCHANGED << lens, room >>
      /\ k' \in {"none", "derived"}
  BY Reading
<1>2. Inputs' = Inputs
  BY <1>1 DEF Inputs
<1>3. /\ lens \in [Inputs -> Lengths] /\ room \in 0 .. MaxBatch /\ i \in 0 .. MaxBatch
      /\ n4 \in 0 .. 3 /\ n8 \in 0 .. 1
  BY DEF IndInv, TypeOK
<1>4. PICK N \in 0 .. MaxBatch : /\ Inputs = 0 .. N - 1
                                 /\ i <= N /\ n4 <= N /\ n8 <= N
                                 /\ pc = "loop" => n4 <= i /\ n8 <= i
  BY DEF IndInv, Progress
<1>5. N \in Nat /\ i \in Nat /\ MaxBatch \in Nat
  BY <1>3, BatchAssumption
<1>6. /\ i' <= N /\ n4' <= i' /\ n8' <= i' /\ n4' <= N /\ n8' <= N /\ i' \in 0 .. MaxBatch
  BY <1>1, <1>3, <1>4, <1>5
<1>7. Progress'
  <2>1. /\ Inputs' = 0 .. N - 1
        /\ i' <= N /\ n4' <= N /\ n8' <= N
        /\ pc' = "loop" => n4' <= i' /\ n8' <= i'
    BY <1>2, <1>4, <1>6
  <2> QED BY <2>1 DEF Progress
<1>8. TypeOK'
  <2>1. lens' \in [Inputs' -> Lengths]
    BY <1>1, <1>2, <1>3
  <2>2. DOMAIN out' \subseteq Inputs'
    BY DEF History
  <2> QED BY <1>1, <1>3, <1>6, <2>1, <2>2 DEF TypeOK
<1> QED BY <1>7, <1>8

\* A turn of the loop that does not panic.
LEMMA LoopInv ==
  ASSUME IndInv, TypeOK', Progress', History', UNCHANGED << lens, room >>,
         pc' = "loop", i \in Nat, i' = i + 1,
         Good(lens, DOMAIN out', slots4', 0 .. n4' - 1, SHORT_MAX, L4_MAX),
         Good(lens, DOMAIN out', slots8', 0 .. n8' - 1, L4_MAX, L8_MAX),
         DOMAIN out' \cup Indices(slots4', 0 .. n4' - 1) \cup Indices(slots8', 0 .. n8' - 1)
           = 0 .. i
  PROVE  IndInv'
<1>1. Live4' = 0 .. n4' - 1 /\ Live8' = 0 .. n8' - 1
  BY DEF Live4, Live8
<1>2. /\ Waiting(slots4, Live4, SHORT_MAX, L4_MAX)'
      /\ Waiting(slots8, Live8, L4_MAX, L8_MAX)'
  BY <1>1, WaitingIsGoodNext
<1>3. Accounted'
  <2>1. 0 .. i' - 1 = 0 .. i
    OBVIOUS
  <2> QED BY <1>1, <2>1 DEF Accounted, Indices
<1>4. PanicOnlyShort'
  BY DEF PanicOnlyShort
<1> QED BY <1>2, <1>3, <1>4 DEF IndInv, History

\* Input i goes straight to the store, on the short path or the bulk path.
LEMMA DirectInv ==
  ASSUME IndInv, Fetch, NEW v, v = Hash128(i),
         StoreAll(<< [i |-> i, v |-> v] >>, "loop"),
         UNCHANGED << slots4, n4, slots8, n8 >>
  PROVE  IndInv'
<1>1. /\ TypeOK /\ Progress /\ History /\ UNCHANGED << lens, room >>
      /\ i \in Nat /\ i' = i + 1 /\ i \in Inputs \ DOMAIN out
      /\ i \notin Indices(slots4, 0 .. n4 - 1) /\ i \notin Indices(slots8, 0 .. n8 - 1)
      /\ Good(lens, DOMAIN out, slots4, 0 .. n4 - 1, SHORT_MAX, L4_MAX)
      /\ Good(lens, DOMAIN out, slots8, 0 .. n8 - 1, L4_MAX, L8_MAX)
      /\ DOMAIN out \cup Indices(slots4, 0 .. n4 - 1) \cup Indices(slots8, 0 .. n8 - 1)
           = 0 .. i - 1
  BY Reading
<1>2. /\ History'
      /\ \/ pc' = "loop" /\ DOMAIN out' = DOMAIN out \cup {i}
         \/ pc' = "panic" /\ \E j \in Inputs : j >= room
  <2>1. StoreAll(<< [i |-> i, v |-> v] >>, "loop")
    OBVIOUS
  <2> QED BY <1>1, <2>1, StoreOne
<1>3. TypeOK' /\ Progress'
  <2>1. n4 \in 0 .. 3 /\ n8 \in 0 .. 1 /\ DOMAIN slots4 = 0 .. 3 /\ DOMAIN slots8 = 0 .. 1
    BY <1>1 DEF TypeOK
  <2> QED BY <1>2, <2>1, LoopTypes
<1>4. CASE pc' = "loop" /\ DOMAIN out' = DOMAIN out \cup {i}
  <2>1. /\ Good(lens, DOMAIN out', slots4', 0 .. n4' - 1, SHORT_MAX, L4_MAX)
        /\ Good(lens, DOMAIN out', slots8', 0 .. n8' - 1, L4_MAX, L8_MAX)
    <3>1. /\ {i} \cap Indices(slots4, 0 .. n4 - 1) = {}
          /\ {i} \cap Indices(slots8, 0 .. n8 - 1) = {}
      BY <1>1
    <3>2. /\ Good(lens, DOMAIN out \cup {i}, slots4, 0 .. n4 - 1, SHORT_MAX, L4_MAX)
          /\ Good(lens, DOMAIN out \cup {i}, slots8, 0 .. n8 - 1, L4_MAX, L8_MAX)
      BY <1>1, <3>1, KeepSlots, ZenonT(30)
    <3> QED BY <1>4, <3>2
  <2>2. DOMAIN out' \cup Indices(slots4', 0 .. n4' - 1) \cup Indices(slots8', 0 .. n8' - 1)
          = 0 .. i
    <3>1. (0 .. i - 1) \cup {i} = 0 .. i
      BY <1>1
    <3>2. DOMAIN out' \cup Indices(slots4', 0 .. n4' - 1) \cup Indices(slots8', 0 .. n8' - 1)
            = (DOMAIN out \cup Indices(slots4, 0 .. n4 - 1) \cup Indices(slots8, 0 .. n8 - 1)) \cup {i}
      BY <1>4
    <3> QED BY <1>1, <3>1, <3>2
  <2> QED BY <1>1, <1>2, <1>3, <1>4, <2>1, <2>2, LoopInv
<1>5. CASE pc' = "panic" /\ \E j \in Inputs : j >= room
  BY <1>1, <1>2, <1>3, <1>5, PanicInv
<1> QED BY <1>2, <1>4, <1>5

LEMMA ShortInv == ASSUME IndInv, Short PROVE IndInv'
<1>1. k' = "derived" /\ lens[i] <= SHORT_MAX
  BY Reading DEF Short
<1>2. ShortWith(i, lens[i], k') = Hash128(i)
  BY <1>1 DEF Hash128
<1>3. /\ Fetch /\ StoreAll(<< [i |-> i, v |-> ShortWith(i, lens[i], k')] >>, "loop")
      /\ UNCHANGED << slots4, n4, slots8, n8 >>
  BY DEF Short
<1> QED BY <1>2, <1>3, DirectInv

LEMMA BulkInv == ASSUME IndInv, Bulk PROVE IndInv'
<1>1. Fetch /\ lens[i] > L8_MAX /\ lens[i] \in Nat
  BY Reading DEF Bulk
<1>2. ~(lens[i] <= SHORT_MAX)
  BY <1>1, AesAssumption
<1>3. OneShot(i, lens[i]) = Hash128(i)
  BY <1>2 DEF Hash128
<1>4. /\ StoreAll(<< [i |-> i, v |-> OneShot(i, lens[i])] >>, "loop")
      /\ UNCHANGED << slots4, n4, slots8, n8 >>
  BY DEF Bulk
<1> QED BY <1>1, <1>3, <1>4, DirectInv

\* The groups never hold the same input.
LEMMA Apart ==
  ASSUME NEW ls, NEW mid \in Nat, NEW low, NEW high,
         \A q \in DOMAIN ls : ls[q] \in Nat,
         NEW done, NEW slots, NEW live, Good(ls, done, slots, live, low, mid),
         NEW gone, NEW others, NEW lives, Good(ls, gone, others, lives, mid, high)
  PROVE  Indices(slots, live) \cap Indices(others, lives) = {}
<1> SUFFICES ASSUME NEW j \in live, NEW h \in lives, slots[j].i = others[h].i
             PROVE  FALSE
  BY DEF Indices
<1>1. ls[slots[j].i] <= mid /\ slots[j].i \in DOMAIN ls
  BY DEF Good
<1>2. mid < ls[others[h].i]
  BY DEF Good
<1> QED BY <1>1, <1>2

\* The past stays what it was while nothing is stored.
LEMMA SamePast ==
  ASSUME History, UNCHANGED << lens, room, out, stores >>
  PROVE  History'
<1>1. StoresOwnHash'
  BY DEF History, StoresOwnHash, Hash128, ShortWith, OneShot
<1>2. StoredOnce' /\ Recorded'
  BY DEF History, StoredOnce, Recorded
<1>3. DOMAIN out' \subseteq Inputs'
  BY DEF History, Inputs
<1> QED BY <1>1, <1>2, <1>3 DEF History

\* An input of the one group takes a slot, and the group that fills is stored.
LEMMA Lane4Inv == ASSUME IndInv, Lane4 PROVE IndInv'
<1>1. /\ TypeOK /\ Progress /\ History /\ UNCHANGED << lens, room >>
      /\ pc = "loop" /\ i \in Nat /\ i' = i + 1 /\ i \in Inputs \ DOMAIN out
      /\ i \notin Indices(slots4, 0 .. n4 - 1) /\ i \notin Indices(slots8, 0 .. n8 - 1)
      /\ Good(lens, DOMAIN out, slots4, 0 .. n4 - 1, SHORT_MAX, L4_MAX)
      /\ Good(lens, DOMAIN out, slots8, 0 .. n8 - 1, L4_MAX, L8_MAX)
      /\ DOMAIN out \cup Indices(slots4, 0 .. n4 - 1) \cup Indices(slots8, 0 .. n8 - 1)
           = 0 .. i - 1
  BY Reading DEF Lane4
<1>2. /\ Fetch /\ lens[i] > SHORT_MAX /\ lens[i] <= L4_MAX
      /\ slots4' = [slots4 EXCEPT ![n4] = Slot]
      /\ n4' = Count(n4, 4)
      /\ UNCHANGED << slots8, n8 >>
  BY DEF Lane4
<1>3. /\ n4 \in 0 .. 3 /\ DOMAIN slots4 = 0 .. 3
      /\ n8 \in 0 .. 1 /\ DOMAIN slots8 = 0 .. 1
  BY <1>1 DEF TypeOK
<1>4. \A q \in DOMAIN lens : lens[q] \in Nat
  BY <1>1, BatchAssumption DEF TypeOK, Inputs
<1>5. SHORT_MAX < lens[i] /\ SHORT_MAX \in Nat /\ L4_MAX \in Nat
  BY <1>1, <1>2, <1>4, AesAssumption DEF Inputs
<1>6. /\ Good(lens, DOMAIN out, slots4', 0 .. n4, SHORT_MAX, L4_MAX)
      /\ Indices(slots4', 0 .. n4) = Indices(slots4, 0 .. n4 - 1) \cup {i}
      /\ DOMAIN slots4' = 0 .. 3
  <2>1. slots4' = Put(slots4, n4, lens, i)
    BY <1>2 DEF Slot, Put
  <2>2. n4 \in Nat /\ n4 \in DOMAIN slots4 /\ i \in DOMAIN lens \ DOMAIN out
    BY <1>1, <1>3 DEF Inputs
  <2>3. /\ Good(lens, DOMAIN out, slots4, 0 .. n4 - 1, SHORT_MAX, L4_MAX)
        /\ SHORT_MAX < lens[i] /\ lens[i] <= L4_MAX
        /\ i \notin Indices(slots4, 0 .. n4 - 1)
    BY <1>1, <1>2, <1>5
  <2>4. /\ Good(lens, DOMAIN out, slots4', 0 .. n4, SHORT_MAX, L4_MAX)
        /\ Indices(slots4', 0 .. n4) = Indices(slots4, 0 .. n4 - 1) \cup {i}
        /\ DOMAIN slots4' = DOMAIN slots4
    <3>1. Fits(lens, DOMAIN out, slots4, n4, SHORT_MAX, L4_MAX, i)
      BY <2>2, <2>3 DEF Fits
    <3> QED BY <2>1, <3>1, FillSlot
  <2> QED BY <1>3, <2>4
<1>7. (0 .. i - 1) \cup {i} = 0 .. i
  BY <1>1
<1>8. CASE n4 = 3
  <2>1. n4' = 0 /\ 0 .. n4' - 1 = {}
    BY <1>2, <1>8 DEF Count
  <2> DEFINE s == [x \in 1 .. Cardinality(DOMAIN slots4') |->
                     [i |-> slots4'[x - 1].i, v |-> Batch4L4(slots4'[x - 1])]]
  <2>2. StoreAll(s, "loop")
    BY <2>1 DEF Lane4, Flush
  <2>3. Cardinality(0 .. 3) = 4
    <3>1. \A m \in Nat : Cardinality(0 .. m) = m + 1
      BY FS_Interval
    <3>2. Cardinality(0 .. 3) = 3 + 1
      BY <3>1, 3 \in Nat, Zenon
    <3> QED BY <3>2, 3 + 1 = 4, Zenon
  <2>4. s = [x \in 1 .. 4 |-> [i |-> slots4'[x - 1].i, v |-> Batch4L4(slots4'[x - 1])]]
    BY <1>6, <2>3
  <2>5. DOMAIN s = 1 .. 4
    BY <2>4
  <2>6. \A x \in 1 .. 4 : /\ s[x].i = slots4'[x - 1].i
                           /\ s[x].v = Hash128(slots4'[x - 1].i)
    <3> TAKE x \in 1 .. 4
    <3> DEFINE q == slots4'[x - 1].i
    <3>1. s[x].i = q /\ s[x].v = Batch4L4(slots4'[x - 1])
      BY <2>4
    <3>2. x - 1 \in 0 .. n4
      BY <1>8
    <3>3. /\ q \in DOMAIN lens /\ SHORT_MAX < lens[q] /\ lens[q] <= L4_MAX
          /\ slots4'[x - 1] = [p |-> q, l |-> lens[q], i |-> q]
      BY <1>6, <3>2 DEF Good
    <3>4. ~(lens[q] <= SHORT_MAX) /\ RegimeLanes(lens[q]) = L4
      BY <1>4, <3>3, AesAssumption DEF RegimeLanes
    <3>5. Batch4L4(slots4'[x - 1]) = OneShot(q, lens[q])
      BY <3>3, <3>4 DEF Batch4L4, OneShot
    <3> QED BY <3>1, <3>4, <3>5 DEF Hash128
  <2>7. /\ History'
        /\ \/ pc' = "loop" /\ DOMAIN out' = DOMAIN out \cup Indices(slots4', 0 .. 3)
           \/ pc' = "panic" /\ \E j \in Inputs : j >= room
    <3>1. 4 \in 0 .. 4 /\ 0 .. 4 - 1 = 0 .. 3
      OBVIOUS
    <3>2. Good(lens, DOMAIN out, slots4', 0 .. 4 - 1, SHORT_MAX, L4_MAX)
      BY <1>6, <1>8, <3>1
    <3> HIDE DEF s
    <3>3. /\ History'
          /\ \/ pc' = "loop" /\ DOMAIN out' = DOMAIN out \cup Indices(slots4', 0 .. 4 - 1)
             \/ pc' = "panic" /\ \E j \in Inputs : j >= room
      BY <1>1, <2>2, <2>5, <2>6, <3>1, <3>2, FlushStep, ZenonT(30)
    <3> QED BY <3>1, <3>3
  <2>8. TypeOK' /\ Progress'
    BY <1>2, <1>3, <1>6, <2>1, <2>7, LoopTypes
  <2>9. CASE pc' = "loop" /\ DOMAIN out' = DOMAIN out \cup Indices(slots4', 0 .. 3)
    <3>1. Good(lens, DOMAIN out', slots4', 0 .. n4' - 1, SHORT_MAX, L4_MAX)
      BY <2>1 DEF Good
    <3>2. Indices(slots4', 0 .. 3) \cap Indices(slots8, 0 .. n8 - 1) = {}
      <4>1. Good(lens, DOMAIN out, slots4', 0 .. 3, SHORT_MAX, L4_MAX)
        BY <1>6, <1>8
      <4> QED BY <1>1, <1>4, <1>5, <4>1, Apart, AesAssumption
    <3>3. Good(lens, DOMAIN out', slots8', 0 .. n8' - 1, L4_MAX, L8_MAX)
      <4>1. Good(lens, DOMAIN out \cup Indices(slots4', 0 .. 3), slots8, 0 .. n8 - 1, L4_MAX, L8_MAX)
        BY <1>1, <3>2, KeepSlots, ZenonT(30)
      <4> QED BY <1>2, <2>9, <4>1
    <3>4. DOMAIN out' \cup Indices(slots4', 0 .. n4' - 1) \cup Indices(slots8', 0 .. n8' - 1)
            = 0 .. i
      <4>1. Indices(slots4', 0 .. n4' - 1) = {}
        BY <2>1 DEF Indices
      <4>2. Indices(slots4', 0 .. 3) = Indices(slots4, 0 .. n4 - 1) \cup {i}
        BY <1>6, <1>8
      <4> QED BY <1>1, <1>2, <1>7, <2>9, <4>1, <4>2
    <3> QED BY <1>1, <2>7, <2>8, <2>9, <3>1, <3>3, <3>4, LoopInv
  <2>10. CASE pc' = "panic" /\ \E j \in Inputs : j >= room
    BY <1>1, <2>7, <2>8, <2>10, PanicInv
  <2> QED BY <2>7, <2>9, <2>10
<1>9. CASE n4 # 3
  <2>1. n4' = n4 + 1 /\ n4' # 0 /\ n4' \in 0 .. 3 /\ 0 .. n4' - 1 = 0 .. n4
    BY <1>2, <1>3, <1>9 DEF Count
  <2>2. UNCHANGED << out, stores, pc >>
    BY <2>1 DEF Lane4
  <2>3. History'
    BY <1>1, <2>2, SamePast
  <2>4. TypeOK' /\ Progress'
    BY <1>1, <1>2, <1>3, <1>6, <2>1, <2>2, <2>3, LoopTypes
  <2>5. /\ Good(lens, DOMAIN out', slots4', 0 .. n4' - 1, SHORT_MAX, L4_MAX)
        /\ Good(lens, DOMAIN out', slots8', 0 .. n8' - 1, L4_MAX, L8_MAX)
    BY <1>1, <1>2, <1>6, <2>1, <2>2
  <2>6. DOMAIN out' \cup Indices(slots4', 0 .. n4' - 1) \cup Indices(slots8', 0 .. n8' - 1)
          = 0 .. i
    BY <1>1, <1>2, <1>6, <1>7, <2>1, <2>2
  <2> QED BY <1>1, <2>2, <2>3, <2>4, <2>5, <2>6, LoopInv
<1> QED BY <1>8, <1>9

LEMMA Lane8Inv == ASSUME IndInv, Lane8 PROVE IndInv'
<1>1. /\ TypeOK /\ Progress /\ History /\ UNCHANGED << lens, room >>
      /\ pc = "loop" /\ i \in Nat /\ i' = i + 1 /\ i \in Inputs \ DOMAIN out
      /\ i \notin Indices(slots8, 0 .. n8 - 1) /\ i \notin Indices(slots4, 0 .. n4 - 1)
      /\ Good(lens, DOMAIN out, slots8, 0 .. n8 - 1, L4_MAX, L8_MAX)
      /\ Good(lens, DOMAIN out, slots4, 0 .. n4 - 1, SHORT_MAX, L4_MAX)
      /\ DOMAIN out \cup Indices(slots8, 0 .. n8 - 1) \cup Indices(slots4, 0 .. n4 - 1)
           = 0 .. i - 1
  BY Reading DEF Lane8
<1>2. /\ Fetch /\ lens[i] > L4_MAX /\ lens[i] <= L8_MAX
      /\ slots8' = [slots8 EXCEPT ![n8] = Slot]
      /\ n8' = Count(n8, 2)
      /\ UNCHANGED << slots4, n4 >>
  BY DEF Lane8
<1>3. /\ n8 \in 0 .. 1 /\ DOMAIN slots8 = 0 .. 1
      /\ n4 \in 0 .. 3 /\ DOMAIN slots4 = 0 .. 3
  BY <1>1 DEF TypeOK
<1>4. \A q \in DOMAIN lens : lens[q] \in Nat
  BY <1>1, BatchAssumption DEF TypeOK, Inputs
<1>5. L4_MAX < lens[i] /\ L4_MAX \in Nat /\ L8_MAX \in Nat
  BY <1>1, <1>2, <1>4, AesAssumption DEF Inputs
<1>6. /\ Good(lens, DOMAIN out, slots8', 0 .. n8, L4_MAX, L8_MAX)
      /\ Indices(slots8', 0 .. n8) = Indices(slots8, 0 .. n8 - 1) \cup {i}
      /\ DOMAIN slots8' = 0 .. 1
  <2>1. slots8' = Put(slots8, n8, lens, i)
    BY <1>2 DEF Slot, Put
  <2>2. n8 \in Nat /\ n8 \in DOMAIN slots8 /\ i \in DOMAIN lens \ DOMAIN out
    BY <1>1, <1>3 DEF Inputs
  <2>3. /\ Good(lens, DOMAIN out, slots8, 0 .. n8 - 1, L4_MAX, L8_MAX)
        /\ L4_MAX < lens[i] /\ lens[i] <= L8_MAX
        /\ i \notin Indices(slots8, 0 .. n8 - 1)
    BY <1>1, <1>2, <1>5
  <2>4. /\ Good(lens, DOMAIN out, slots8', 0 .. n8, L4_MAX, L8_MAX)
        /\ Indices(slots8', 0 .. n8) = Indices(slots8, 0 .. n8 - 1) \cup {i}
        /\ DOMAIN slots8' = DOMAIN slots8
    <3>1. Fits(lens, DOMAIN out, slots8, n8, L4_MAX, L8_MAX, i)
      BY <2>2, <2>3 DEF Fits
    <3> QED BY <2>1, <3>1, FillSlot
  <2> QED BY <1>3, <2>4
<1>7. (0 .. i - 1) \cup {i} = 0 .. i
  BY <1>1
<1>8. CASE n8 = 1
  <2>1. n8' = 0 /\ 0 .. n8' - 1 = {}
    BY <1>2, <1>8 DEF Count
  <2> DEFINE s == [x \in 1 .. Cardinality(DOMAIN slots8') |->
                     [i |-> slots8'[x - 1].i, v |-> Batch2L8(slots8'[x - 1])]]
  <2>2. StoreAll(s, "loop")
    BY <2>1 DEF Lane8, Flush
  <2>3. Cardinality(0 .. 1) = 2
    <3>1. \A m \in Nat : Cardinality(0 .. m) = m + 1
      BY FS_Interval
    <3>2. Cardinality(0 .. 1) = 1 + 1
      BY <3>1, 1 \in Nat, Zenon
    <3> QED BY <3>2, 1 + 1 = 2, Zenon
  <2>4. s = [x \in 1 .. 2 |-> [i |-> slots8'[x - 1].i, v |-> Batch2L8(slots8'[x - 1])]]
    BY <1>6, <2>3
  <2>5. DOMAIN s = 1 .. 2
    BY <2>4
  <2>6. \A x \in 1 .. 2 : /\ s[x].i = slots8'[x - 1].i
                           /\ s[x].v = Hash128(slots8'[x - 1].i)
    <3> TAKE x \in 1 .. 2
    <3> DEFINE q == slots8'[x - 1].i
    <3>1. s[x].i = q /\ s[x].v = Batch2L8(slots8'[x - 1])
      BY <2>4
    <3>2. x - 1 \in 0 .. n8
      BY <1>8
    <3>3. /\ q \in DOMAIN lens /\ L4_MAX < lens[q] /\ lens[q] <= L8_MAX
          /\ slots8'[x - 1] = [p |-> q, l |-> lens[q], i |-> q]
      BY <1>6, <3>2 DEF Good
    <3>4. ~(lens[q] <= SHORT_MAX) /\ RegimeLanes(lens[q]) = L8
      BY <1>4, <3>3, AesAssumption DEF RegimeLanes
    <3>5. Batch2L8(slots8'[x - 1]) = OneShot(q, lens[q])
      BY <3>3, <3>4 DEF Batch2L8, OneShot
    <3> QED BY <3>1, <3>4, <3>5 DEF Hash128
  <2>7. /\ History'
        /\ \/ pc' = "loop" /\ DOMAIN out' = DOMAIN out \cup Indices(slots8', 0 .. 1)
           \/ pc' = "panic" /\ \E j \in Inputs : j >= room
    <3>1. 2 \in 0 .. 4 /\ 0 .. 2 - 1 = 0 .. 1
      OBVIOUS
    <3>2. Good(lens, DOMAIN out, slots8', 0 .. 2 - 1, L4_MAX, L8_MAX)
      BY <1>6, <1>8, <3>1
    <3> HIDE DEF s
    <3>3. /\ History'
          /\ \/ pc' = "loop" /\ DOMAIN out' = DOMAIN out \cup Indices(slots8', 0 .. 2 - 1)
             \/ pc' = "panic" /\ \E j \in Inputs : j >= room
      BY <1>1, <2>2, <2>5, <2>6, <3>1, <3>2, FlushStep, ZenonT(30)
    <3> QED BY <3>1, <3>3
  <2>8. TypeOK' /\ Progress'
    BY <1>2, <1>3, <1>6, <2>1, <2>7, LoopTypes
  <2>9. CASE pc' = "loop" /\ DOMAIN out' = DOMAIN out \cup Indices(slots8', 0 .. 1)
    <3>1. Good(lens, DOMAIN out', slots8', 0 .. n8' - 1, L4_MAX, L8_MAX)
      BY <2>1 DEF Good
    <3>2. Indices(slots8', 0 .. 1) \cap Indices(slots4, 0 .. n4 - 1) = {}
      <4>1. Good(lens, DOMAIN out, slots8', 0 .. 1, L4_MAX, L8_MAX)
        BY <1>6, <1>8
      <4> QED BY <1>1, <1>4, <1>5, <4>1, Apart, AesAssumption
    <3>3. Good(lens, DOMAIN out', slots4', 0 .. n4' - 1, SHORT_MAX, L4_MAX)
      <4>1. Good(lens, DOMAIN out \cup Indices(slots8', 0 .. 1), slots4, 0 .. n4 - 1, SHORT_MAX, L4_MAX)
        BY <1>1, <3>2, KeepSlots, ZenonT(30)
      <4> QED BY <1>2, <2>9, <4>1
    <3>4. DOMAIN out' \cup Indices(slots4', 0 .. n4' - 1) \cup Indices(slots8', 0 .. n8' - 1)
            = 0 .. i
      <4>1. Indices(slots8', 0 .. n8' - 1) = {}
        BY <2>1 DEF Indices
      <4>2. Indices(slots8', 0 .. 1) = Indices(slots8, 0 .. n8 - 1) \cup {i}
        BY <1>6, <1>8
      <4> QED BY <1>1, <1>2, <1>7, <2>9, <4>1, <4>2
    <3> QED BY <1>1, <2>7, <2>8, <2>9, <3>1, <3>3, <3>4, LoopInv
  <2>10. CASE pc' = "panic" /\ \E j \in Inputs : j >= room
    BY <1>1, <2>7, <2>8, <2>10, PanicInv
  <2> QED BY <2>7, <2>9, <2>10
<1>9. CASE n8 # 1
  <2>1. n8' = n8 + 1 /\ n8' # 0 /\ n8' \in 0 .. 1 /\ 0 .. n8' - 1 = 0 .. n8
    BY <1>2, <1>3, <1>9 DEF Count
  <2>2. UNCHANGED << out, stores, pc >>
    BY <2>1 DEF Lane8
  <2>3. History'
    BY <1>1, <2>2, SamePast
  <2>4. TypeOK' /\ Progress'
    BY <1>1, <1>2, <1>3, <1>6, <2>1, <2>2, <2>3, LoopTypes
  <2>5. /\ Good(lens, DOMAIN out', slots8', 0 .. n8' - 1, L4_MAX, L8_MAX)
        /\ Good(lens, DOMAIN out', slots4', 0 .. n4' - 1, SHORT_MAX, L4_MAX)
    BY <1>1, <1>2, <1>6, <2>1, <2>2
  <2>6. DOMAIN out' \cup Indices(slots4', 0 .. n4' - 1) \cup Indices(slots8', 0 .. n8' - 1)
          = 0 .. i
    BY <1>1, <1>2, <1>6, <1>7, <2>1, <2>2
  <2> QED BY <1>1, <2>2, <2>3, <2>4, <2>5, <2>6, LoopInv
<1> QED BY <1>8, <1>9

\* Types after a step behind the loop.
LEMMA LeftTypes ==
  ASSUME IndInv, History', UNCHANGED << lens, room, slots4, n4, slots8, n8, k >>,
         pc' \in {"left4", "left8", "done", "panic"},
         \/ i' = 0
         \/ i' = i + 1 /\ (i < n4 \/ i < n8)
  PROVE  TypeOK' /\ Progress'
<1>1. TypeOK /\ MaxBatch \in Nat
  BY BatchAssumption DEF IndInv
<1>2. PICK N \in 0 .. MaxBatch : Inputs = 0 .. N - 1 /\ i <= N /\ n4 <= N /\ n8 <= N
  BY DEF IndInv, Progress
<1>3. i' <= N /\ i' \in 0 .. MaxBatch
  BY <1>1, <1>2 DEF TypeOK
<1>4. Inputs' = Inputs
  BY DEF Inputs
<1>5. Progress'
  <2>1. /\ Inputs' = 0 .. N - 1
        /\ i' <= N /\ n4' <= N /\ n8' <= N
        /\ pc' = "loop" => n4' <= i' /\ n8' <= i'
    BY <1>2, <1>3, <1>4
  <2> QED BY <2>1 DEF Progress
<1>6. DOMAIN out' \subseteq Inputs'
  BY DEF History
<1>7. lens' \in [Inputs' -> Lengths]
  BY <1>1, <1>4 DEF TypeOK
<1> QED BY <1>1, <1>3, <1>5, <1>6, <1>7 DEF TypeOK

\* A step behind the loop that does not panic.
LEMMA LeftInv ==
  ASSUME TypeOK', Progress', History', UNCHANGED << lens, room >>,
         pc' \in {"left4", "left8", "done"},
         Good(lens, DOMAIN out', slots4', Live4', SHORT_MAX, L4_MAX),
         Good(lens, DOMAIN out', slots8', Live8', L4_MAX, L8_MAX),
         DOMAIN out' \cup Indices(slots4', Live4') \cup Indices(slots8', Live8') = Inputs
  PROVE  IndInv'
<1>1. /\ Waiting(slots4, Live4, SHORT_MAX, L4_MAX)'
      /\ Waiting(slots8, Live8, L4_MAX, L8_MAX)'
  BY WaitingIsGoodNext
<1>2. Accounted' /\ PanicOnlyShort'
  BY DEF Accounted, PanicOnlyShort, Indices, Inputs
<1> QED BY <1>1, <1>2 DEF IndInv, History

\* After the last input the slots in use are what is left over.
LEMMA EndInputsInv == ASSUME IndInv, EndInputs PROVE IndInv'
<1>1. /\ pc = "loop" /\ i \notin Inputs /\ pc' = "left4" /\ i' = 0
      /\ UNCHANGED << lens, room, slots4, n4, slots8, n8, k, out, stores >>
  BY DEF EndInputs
<1>2. 0 .. i - 1 = Inputs
  <2>1. PICK N \in 0 .. MaxBatch : Inputs = 0 .. N - 1 /\ i <= N
    BY DEF IndInv, Progress
  <2>2. i \in Nat /\ N \in Nat
    BY BatchAssumption DEF IndInv, TypeOK
  <2>3. i = N
    BY <1>1, <2>1, <2>2
  <2> QED BY <2>1, <2>3
<1>3. Live4 = 0 .. n4 - 1 /\ Live8 = 0 .. n8 - 1 /\ Live4' = 0 .. n4 - 1 /\ Live8' = 0 .. n8 - 1
  BY <1>1 DEF Live4, Live8
<1>4. History'
  BY <1>1, SamePast DEF IndInv, History, TypeOK
<1>5. TypeOK' /\ Progress'
  <2>1. pc' \in {"left4", "left8", "done", "panic"}
    BY <1>1
  <2>2. \/ i' = 0
        \/ i' = i + 1 /\ (i < n4 \/ i < n8)
    BY <1>1
  <2> QED BY <1>1, <1>4, <2>1, <2>2, LeftTypes
<1>6. /\ Good(lens, DOMAIN out', slots4', Live4', SHORT_MAX, L4_MAX)
      /\ Good(lens, DOMAIN out', slots8', Live8', L4_MAX, L8_MAX)
  BY <1>1, <1>3, WaitingIsGood DEF IndInv
<1>7. DOMAIN out' \cup Indices(slots4', Live4') \cup Indices(slots8', Live8') = Inputs
  BY <1>1, <1>2, <1>3 DEF IndInv, Accounted
<1> QED BY <1>1, <1>4, <1>5, <1>6, <1>7, LeftInv

\* A left-over input of the one group is stored, or its loop ends.
LEMMA Left4Inv == ASSUME IndInv, Left4 PROVE IndInv'
<1>1. /\ pc = "left4" /\ UNCHANGED << lens, room, slots4, n4, slots8, n8, k >>
      /\ i \in Nat /\ n4 \in Nat /\ TypeOK /\ Progress /\ History
  BY DEF Left4, Left, IndInv, TypeOK, History
<1>2. Live4 = i .. n4 - 1 /\ Live8 = 0 .. n8 - 1
  BY <1>1 DEF Live4, Live8
<1>3. /\ Good(lens, DOMAIN out, slots4, i .. n4 - 1, SHORT_MAX, L4_MAX)
      /\ Good(lens, DOMAIN out, slots8, 0 .. n8 - 1, L4_MAX, L8_MAX)
      /\ DOMAIN out \cup Indices(slots4, i .. n4 - 1) \cup Indices(slots8, 0 .. n8 - 1) = Inputs
  BY <1>1, <1>2, WaitingIsGood DEF IndInv, Accounted
<1>4. \A q \in DOMAIN lens : lens[q] \in Nat
  BY <1>1, BatchAssumption DEF TypeOK, Inputs
<1>5. CASE i < n4
  <2>1. /\ StoreAll(<< [i |-> slots4[i].i, v |-> OneShot(slots4[i].p, slots4[i].l)] >>, "left4")
        /\ i' = i + 1
    BY <1>5 DEF Left4, Left
  <2> DEFINE q == slots4[i].i
  <2>2. i \in i .. n4 - 1
    BY <1>1, <1>5
  <2>3. /\ q \in Inputs \ DOMAIN out /\ SHORT_MAX < lens[q]
        /\ slots4[i] = [p |-> q, l |-> lens[q], i |-> q]
    BY <1>3, <2>2 DEF Good, Inputs
  <2>4. OneShot(slots4[i].p, slots4[i].l) = Hash128(q)
    <3>1. ~(lens[q] <= SHORT_MAX)
      BY <1>4, <2>3, AesAssumption DEF Inputs
    <3>2. slots4[i].p = q /\ slots4[i].l = lens[q]
      BY <2>3
    <3> QED BY <3>1, <3>2 DEF Hash128
  <2>5. /\ History'
        /\ \/ pc' = "left4" /\ DOMAIN out' = DOMAIN out \cup {q}
           \/ pc' = "panic" /\ \E j \in Inputs : j >= room
    <3> HIDE DEF q
    <3> QED BY <1>1, <2>1, <2>3, <2>4, StoreOne DEF q
  <2>6. TypeOK' /\ Progress'
    BY <1>1, <1>5, <2>1, <2>5, LeftTypes
  <2>7. CASE pc' = "left4" /\ DOMAIN out' = DOMAIN out \cup {q}
    <3>1. Live4' = i + 1 .. n4 - 1 /\ Live8' = 0 .. n8 - 1
      BY <1>1, <2>1, <2>7 DEF Live4, Live8
    <3>2. i + 1 .. n4 - 1 \subseteq i .. n4 - 1 /\ i \notin i + 1 .. n4 - 1
      BY <1>1
    <3>3. {q} \cap Indices(slots4, i + 1 .. n4 - 1) = {}
      BY <1>3, <2>2, <3>2 DEF Indices, Good
    <3>4. {q} \cap Indices(slots8, 0 .. n8 - 1) = {}
      <4>1. q \in Indices(slots4, i .. n4 - 1)
        BY <2>2 DEF Indices
      <4>2. Indices(slots4, i .. n4 - 1) \cap Indices(slots8, 0 .. n8 - 1) = {}
        <5>1. L4_MAX \in Nat
          BY AesAssumption
        <5> HIDE DEF q
        <5> QED BY <1>3, <1>4, <5>1, Apart, ZenonT(30)
      <4> QED BY <4>1, <4>2
    <3>5. /\ Good(lens, DOMAIN out \cup {q}, slots4, i + 1 .. n4 - 1, SHORT_MAX, L4_MAX)
          /\ Good(lens, DOMAIN out \cup {q}, slots8, 0 .. n8 - 1, L4_MAX, L8_MAX)
      <4> HIDE DEF q
      <4> QED BY <1>3, <3>2, <3>3, <3>4, KeepSlots, ZenonT(30)
    <3>6. Indices(slots4, i .. n4 - 1) = Indices(slots4, i + 1 .. n4 - 1) \cup {q}
      <4>1. \A j \in i .. n4 - 1 : j = i \/ j \in i + 1 .. n4 - 1
        BY <1>1
      <4> QED BY <2>2, <3>2, <4>1 DEF Indices
    <3>7. DOMAIN out' \cup Indices(slots4', Live4') \cup Indices(slots8', Live8') = Inputs
      BY <1>1, <1>3, <2>7, <3>1, <3>6
    <3>8. /\ Good(lens, DOMAIN out', slots4', Live4', SHORT_MAX, L4_MAX)
          /\ Good(lens, DOMAIN out', slots8', Live8', L4_MAX, L8_MAX)
      BY <1>1, <2>7, <3>1, <3>5
    <3> QED BY <1>1, <2>5, <2>6, <2>7, <3>7, <3>8, LeftInv
  <2>8. CASE pc' = "panic" /\ \E j \in Inputs : j >= room
    BY <1>1, <2>5, <2>6, <2>8, PanicInv
  <2> QED BY <2>5, <2>7, <2>8
<1>6. CASE ~(i < n4)
  <2>1. pc' = "left8" /\ i' = 0 /\ UNCHANGED << out, stores >>
    BY <1>6 DEF Left4, Left
  <2>2. i .. n4 - 1 = {}
    BY <1>1, <1>6
  <2>3. Live4' = {} /\ Live8' = 0 .. n8 - 1
    BY <1>1, <2>1 DEF Live4, Live8
  <2>4. History'
    BY <1>1, <2>1, SamePast
  <2>5. TypeOK' /\ Progress'
    <3>1. i' = 0 /\ pc' \in {"left4", "left8", "done", "panic"}
      BY <2>1
    <3> QED BY <1>1, <2>4, <3>1, LeftTypes
  <2>6. /\ Good(lens, DOMAIN out', slots4', Live4', SHORT_MAX, L4_MAX)
        /\ Good(lens, DOMAIN out', slots8', Live8', L4_MAX, L8_MAX)
    BY <1>1, <1>3, <2>1, <2>2, <2>3
  <2>7. DOMAIN out' \cup Indices(slots4', Live4') \cup Indices(slots8', Live8') = Inputs
    BY <1>1, <1>3, <2>1, <2>2, <2>3
  <2> QED BY <1>1, <2>1, <2>4, <2>5, <2>6, <2>7, LeftInv
<1> QED BY <1>5, <1>6

\* A left-over input of the one group is stored, or its loop ends.
LEMMA Left8Inv == ASSUME IndInv, Left8 PROVE IndInv'
<1>1. /\ pc = "left8" /\ UNCHANGED << lens, room, slots4, n4, slots8, n8, k >>
      /\ i \in Nat /\ n8 \in Nat /\ TypeOK /\ Progress /\ History
  BY DEF Left8, Left, IndInv, TypeOK, History
<1>2. Live8 = i .. n8 - 1 /\ Live4 = {}
  BY <1>1 DEF Live4, Live8
<1>3. /\ Good(lens, DOMAIN out, slots8, i .. n8 - 1, L4_MAX, L8_MAX)
      /\ Good(lens, DOMAIN out, slots4, {}, SHORT_MAX, L4_MAX)
      /\ DOMAIN out \cup Indices(slots8, i .. n8 - 1) \cup Indices(slots4, {}) = Inputs
  BY <1>1, <1>2, WaitingIsGood DEF IndInv, Accounted
<1>4. \A q \in DOMAIN lens : lens[q] \in Nat
  BY <1>1, BatchAssumption DEF TypeOK, Inputs
<1>5. CASE i < n8
  <2>1. /\ StoreAll(<< [i |-> slots8[i].i, v |-> OneShot(slots8[i].p, slots8[i].l)] >>, "left8")
        /\ i' = i + 1
    BY <1>5 DEF Left8, Left
  <2> DEFINE q == slots8[i].i
  <2>2. i \in i .. n8 - 1
    BY <1>1, <1>5
  <2>3. /\ q \in Inputs \ DOMAIN out /\ L4_MAX < lens[q]
        /\ slots8[i] = [p |-> q, l |-> lens[q], i |-> q]
    BY <1>3, <2>2 DEF Good, Inputs
  <2>4. OneShot(slots8[i].p, slots8[i].l) = Hash128(q)
    <3>1. ~(lens[q] <= SHORT_MAX)
      BY <1>4, <2>3, AesAssumption DEF Inputs
    <3>2. slots8[i].p = q /\ slots8[i].l = lens[q]
      BY <2>3
    <3> QED BY <3>1, <3>2 DEF Hash128
  <2>5. /\ History'
        /\ \/ pc' = "left8" /\ DOMAIN out' = DOMAIN out \cup {q}
           \/ pc' = "panic" /\ \E j \in Inputs : j >= room
    <3> HIDE DEF q
    <3> QED BY <1>1, <2>1, <2>3, <2>4, StoreOne DEF q
  <2>6. TypeOK' /\ Progress'
    BY <1>1, <1>5, <2>1, <2>5, LeftTypes
  <2>7. CASE pc' = "left8" /\ DOMAIN out' = DOMAIN out \cup {q}
    <3>1. Live8' = i + 1 .. n8 - 1 /\ Live4' = {}
      BY <1>1, <2>1, <2>7 DEF Live4, Live8
    <3>2. i + 1 .. n8 - 1 \subseteq i .. n8 - 1 /\ i \notin i + 1 .. n8 - 1
      BY <1>1
    <3>3. {q} \cap Indices(slots8, i + 1 .. n8 - 1) = {}
      BY <1>3, <2>2, <3>2 DEF Indices, Good
    <3>4. {q} \cap Indices(slots4, {}) = {}
      <4>1. q \in Indices(slots8, i .. n8 - 1)
        BY <2>2 DEF Indices
      <4>2. Indices(slots8, i .. n8 - 1) \cap Indices(slots4, {}) = {}
        BY DEF Indices
      <4> QED BY <4>1, <4>2
    <3>5. /\ Good(lens, DOMAIN out \cup {q}, slots8, i + 1 .. n8 - 1, L4_MAX, L8_MAX)
          /\ Good(lens, DOMAIN out \cup {q}, slots4, {}, SHORT_MAX, L4_MAX)
      <4> HIDE DEF q
      <4> QED BY <1>3, <3>2, <3>3, <3>4, KeepSlots, ZenonT(30)
    <3>6. Indices(slots8, i .. n8 - 1) = Indices(slots8, i + 1 .. n8 - 1) \cup {q}
      <4>1. \A j \in i .. n8 - 1 : j = i \/ j \in i + 1 .. n8 - 1
        BY <1>1
      <4> QED BY <2>2, <3>2, <4>1 DEF Indices
    <3>7. DOMAIN out' \cup Indices(slots4', Live4') \cup Indices(slots8', Live8') = Inputs
      BY <1>1, <1>3, <2>7, <3>1, <3>6
    <3>8. /\ Good(lens, DOMAIN out', slots4', Live4', SHORT_MAX, L4_MAX)
          /\ Good(lens, DOMAIN out', slots8', Live8', L4_MAX, L8_MAX)
      BY <1>1, <2>7, <3>1, <3>5
    <3> QED BY <1>1, <2>5, <2>6, <2>7, <3>7, <3>8, LeftInv
  <2>8. CASE pc' = "panic" /\ \E j \in Inputs : j >= room
    BY <1>1, <2>5, <2>6, <2>8, PanicInv
  <2> QED BY <2>5, <2>7, <2>8
<1>6. CASE ~(i < n8)
  <2>1. pc' = "done" /\ i' = 0 /\ UNCHANGED << out, stores >>
    BY <1>6 DEF Left8, Left
  <2>2. i .. n8 - 1 = {}
    BY <1>1, <1>6
  <2>3. Live8' = {} /\ Live4' = {}
    BY <1>1, <2>1 DEF Live4, Live8
  <2>4. History'
    BY <1>1, <2>1, SamePast
  <2>5. TypeOK' /\ Progress'
    <3>1. i' = 0 /\ pc' \in {"left4", "left8", "done", "panic"}
      BY <2>1
    <3> QED BY <1>1, <2>4, <3>1, LeftTypes
  <2>6. /\ Good(lens, DOMAIN out', slots4', Live4', SHORT_MAX, L4_MAX)
        /\ Good(lens, DOMAIN out', slots8', Live8', L4_MAX, L8_MAX)
    BY <1>1, <1>3, <2>1, <2>2, <2>3
  <2>7. DOMAIN out' \cup Indices(slots4', Live4') \cup Indices(slots8', Live8') = Inputs
    BY <1>1, <1>3, <2>1, <2>2, <2>3
  <2> QED BY <1>1, <2>1, <2>4, <2>5, <2>6, <2>7, LeftInv
<1> QED BY <1>5, <1>6

LEMMA StepInv == IndInv /\ [Next]_vars => IndInv'
<1> SUFFICES ASSUME IndInv, [Next]_vars PROVE IndInv'
  OBVIOUS
<1>1. CASE Short
  BY <1>1, ShortInv
<1>2. CASE Lane4
  BY <1>2, Lane4Inv
<1>3. CASE Lane8
  BY <1>3, Lane8Inv
<1>4. CASE Bulk
  BY <1>4, BulkInv
<1>5. CASE EndInputs
  BY <1>5, EndInputsInv
<1>6. CASE Left4
  BY <1>6, Left4Inv
<1>7. CASE Left8
  BY <1>7, Left8Inv
<1>8. CASE UNCHANGED vars
  <2>1. History /\ UNCHANGED << lens, room, out, stores >>
    BY <1>8 DEF vars, IndInv, History, TypeOK
  <2>2. History'
    BY <2>1, SamePast
  <2>3. TypeOK' /\ Progress'
    BY <1>8 DEF vars, IndInv, TypeOK, Progress, Inputs
  <2>4. Live4' = Live4 /\ Live8' = Live8
    BY <1>8 DEF vars, Live4, Live8
  <2>5. /\ Waiting(slots4, Live4, SHORT_MAX, L4_MAX)'
        /\ Waiting(slots8, Live8, L4_MAX, L8_MAX)'
    BY <1>8, <2>4, WaitingIsGood, WaitingIsGoodNext DEF vars, IndInv
  <2>6. Accounted' /\ PanicOnlyShort'
    BY <1>8, <2>4 DEF vars, IndInv, Accounted, PanicOnlyShort, Indices, Inputs
  <2> QED BY <2>2, <2>3, <2>5, <2>6 DEF IndInv, History
<1> QED BY <1>1, <1>2, <1>3, <1>4, <1>5, <1>6, <1>7, <1>8 DEF Next
-----------------------------------------------------------------------------
(* Theorems *)

\* Distinct slots hold as many inputs as there are slots.
LEMMA CountSlots ==
  ASSUME NEW n \in Nat, NEW slots,
         \A j, h \in 0 .. n - 1 : slots[j].i = slots[h].i => j = h
  PROVE  Cardinality(Indices(slots, 0 .. n - 1)) = n
<1> DEFINE S == Indices(slots, 0 .. n - 1)
           f == [x \in 1 .. n |-> slots[x - 1].i]
<1>1. \A x \in 1 .. n : x - 1 \in 0 .. n - 1
  OBVIOUS
<1>2. f \in [1 .. n -> S]
  BY <1>1 DEF Indices
<1>3. \A x, y \in 1 .. n : f[x] = f[y] => x = y
  <2> SUFFICES ASSUME NEW x \in 1 .. n, NEW y \in 1 .. n, f[x] = f[y]
               PROVE  x = y
    OBVIOUS
  <2>1. x - 1 = y - 1
    BY <1>1
  <2> QED BY <2>1
<1>4. \A e \in S : \E x \in 1 .. n : f[x] = e
  <2> SUFFICES ASSUME NEW j \in 0 .. n - 1 PROVE \E x \in 1 .. n : f[x] = slots[j].i
    BY DEF Indices
  <2>1. j + 1 \in 1 .. n /\ j + 1 - 1 = j
    OBVIOUS
  <2>2. f[j + 1] = slots[j].i
    BY <2>1
  <2> QED BY <2>1, <2>2
<1>5. ExistsBijection(1 .. n, S)
  <2> HIDE DEF f, S
  <2> QED BY <1>2, <1>3, <1>4 DEF ExistsBijection, Bijection, Injection, Surjection, IsInjective
<1> QED BY <1>5, FS_CountingElements

\* For every number of inputs, lengths and room, the slots, the counts and the
\* stored hashes are what IndInv says.
THEOREM InductiveInvariant == Spec => []IndInv
<1>1. Init => IndInv
  BY InitInv
<1>2. IndInv /\ [Next]_vars => IndInv'
  BY StepInv
<1> QED BY <1>1, <1>2, PTL DEF Spec

\* Types; in particular no count runs past the arrays of its slots.
THEOREM TypeCorrect == Spec => []TypeOK
<1>1. IndInv => TypeOK
  BY DEF IndInv
<1> QED BY <1>1, InductiveInvariant, PTL

\* out[j] is the one-shot hash of input j, also of what was stored before a
\* panic.
THEOREM OwnHash == Spec => []StoresOwnHash
<1>1. IndInv => StoresOwnHash
  BY DEF IndInv
<1> QED BY <1>1, InductiveInvariant, PTL

\* The caller's store is never called twice for an input.
THEOREM Once == Spec => []StoredOnce
<1>1. IndInv => StoredOnce
  BY DEF IndInv
<1> QED BY <1>1, InductiveInvariant, PTL

\* At every loop head an input that has been read is stored, or in exactly one
\* live slot of its regime.
THEOREM Pending == Spec => []PendingOnce
<1>1. IndInv => PendingOnce
  <2> SUFFICES ASSUME IndInv, pc = "loop" PROVE PendingOnce
    BY DEF PendingOnce
  <2> DEFINE live4 == Indices(slots4, 0 .. n4 - 1)
             live8 == Indices(slots8, 0 .. n8 - 1)
  <2>1. /\ Good(lens, DOMAIN out, slots4, 0 .. n4 - 1, SHORT_MAX, L4_MAX)
        /\ Good(lens, DOMAIN out, slots8, 0 .. n8 - 1, L4_MAX, L8_MAX)
        /\ DOMAIN out \cup live4 \cup live8 = 0 .. i - 1
    BY WaitingIsGood DEF IndInv, Accounted, Live4, Live8
  <2>2. n4 \in Nat /\ n8 \in Nat
    BY DEF IndInv, TypeOK
  <2>3. Cardinality(live4) = n4 /\ Cardinality(live8) = n8
    BY <2>1, <2>2, CountSlots DEF Good
  <2>4. \A q \in DOMAIN lens : lens[q] \in Nat
    BY BatchAssumption DEF IndInv, TypeOK, Inputs
  <2>5. \A j \in live4 : j \notin DOMAIN out /\ lens[j] > SHORT_MAX /\ lens[j] <= L4_MAX
    BY <2>1, <2>4, AesAssumption DEF Good, Indices
  <2>6. \A j \in live8 : j \notin DOMAIN out /\ lens[j] > L4_MAX /\ lens[j] <= L8_MAX
    BY <2>1, <2>4, AesAssumption DEF Good, Indices
  <2>7. DOMAIN out \cap (live4 \cup live8) = {}
    BY <2>5, <2>6
  <2>8. /\ live4 = {slots4[j].i : j \in 0 .. n4 - 1}
        /\ live8 = {slots8[j].i : j \in 0 .. n8 - 1}
    BY DEF Indices
  <2> HIDE DEF live4, live8
  <2> QED BY <2>1, <2>3, <2>5, <2>6, <2>7, <2>8 DEF PendingOnce
<1> QED BY <1>1, InductiveInvariant, PTL

\* A batch that returns has stored every input, and it panics only if `out'
\* is shorter than the inputs: EveryInputStored but for the ending.
Outcome == /\ pc = "done" => DOMAIN out = Inputs
           /\ pc = "panic" => room < Cardinality(Inputs)
THEOREM OutcomeRight == Spec => []Outcome
<1>1. IndInv => Outcome
  <2> SUFFICES ASSUME IndInv PROVE Outcome
    OBVIOUS
  <2>1. pc = "done" => DOMAIN out = Inputs
    <3>1. pc = "done" => Live4 = {} /\ Live8 = {}
      BY DEF Live4, Live8
    <3> QED BY <3>1 DEF IndInv, Accounted, Indices
  <2>2. ASSUME pc = "panic" PROVE room < Cardinality(Inputs)
    <3>1. PICK j \in Inputs : j >= room
      BY <2>2 DEF IndInv, PanicOnlyShort
    <3>2. PICK N \in 0 .. MaxBatch : Inputs = 0 .. N - 1
      BY DEF IndInv, Progress
    <3>3. N \in Nat /\ room \in Nat
      BY BatchAssumption DEF IndInv, TypeOK
    <3>4. Cardinality(0 .. N - 1) = N
      BY <3>3, FS_Interval
    <3> QED BY <3>1, <3>2, <3>3, <3>4
  <2> QED BY <2>1, <2>2 DEF Outcome
<1> QED BY <1>1, InductiveInvariant, PTL
==============================================================================
