----------------------------- MODULE Memory_proofs -----------------------------
(***************************************************************************)
(* Quotients, products, blocks dealt to lanes, and what copies make of     *)
(* memories that hold pieces of the input: the facts that the proofs of    *)
(* both functions share.                                                   *)
(***************************************************************************)
EXTENDS Memory, TLAPS

\* The widths of things that are counted from 1.
Width == Nat \ {0}

\* How many of n blocks, dealt to w lanes in turn, lane i gets.
Count(w, n, i) == n \div w + (IF i < n % w THEN 1 ELSE 0)

\* mem holds, from address `from' on, `len' bytes of the input from byte `at' on.
Holds(mem, from, len, at) == \A i \in 0 .. len - 1 : mem[from + i] = at + i

-----------------------------------------------------------------------------
(* Arithmetic *)

\* A quotient and its remainder.
LEMMA DivMod ==
  ASSUME NEW x \in Nat, NEW d \in Nat \ {0}
  PROVE  /\ x \div d \in Nat
         /\ d * (x \div d) <= x
         /\ x < d * (x \div d) + d
         /\ x % d = x - d * (x \div d)
         /\ x % d \in 0 .. d - 1
<1>1. x \div d \in Nat
  OBVIOUS
<1>2. d * (x \div d) <= x /\ x < d * (x \div d) + d
  OBVIOUS
<1>3. x % d = x - d * (x \div d)
  OBVIOUS
<1>4. x % d \in 0 .. d - 1
  OBVIOUS
<1> QED BY <1>1, <1>2, <1>3, <1>4

\* They are the only ones.
LEMMA DivUnique ==
  ASSUME NEW x \in Nat, NEW d \in Nat \ {0}, NEW q \in Nat, NEW r \in 0 .. d - 1,
         x = q * d + r
  PROVE  x \div d = q /\ x % d = r
<1> DEFINE p == x \div d
<1>1. p \in Nat /\ d * p <= x /\ x < d * p + d /\ x % d = x - d * p
  BY DivMod
<1>2. d * q <= x /\ x < d * q + d
  OBVIOUS
<1> HIDE DEF p
<1>3. ~(p < q)
  <2> SUFFICES ASSUME p < q PROVE FALSE
    OBVIOUS
  <2>1. d * (p + 1) <= d * q
    BY <1>1
  <2>2. d * (p + 1) = d * p + d
    BY <1>1
  <2> QED BY <1>1, <1>2, <2>1, <2>2
<1>4. ~(p > q)
  <2> SUFFICES ASSUME p > q PROVE FALSE
    OBVIOUS
  <2>1. d * (q + 1) <= d * p
    BY <1>1
  <2>2. d * (q + 1) = d * q + d
    OBVIOUS
  <2> QED BY <1>1, <1>2, <2>1, <2>2
<1>5. p = q
  BY <1>1, <1>3, <1>4
<1> QED BY <1>1, <1>5 DEF p

\* What the provers need of products.
LEMMA Products ==
  /\ \A i \in Nat : \A k \in Nat : i * k \in Nat
  /\ \A i \in Int : \A k \in Int : \A m \in Int : (i + k) * m = i * m + k * m
  /\ \A i \in Nat : \A k \in Nat : \A m \in Nat : i <= k => i * m <= k * m
  /\ \A i \in Int : \A k \in Int : \A m \in Int : (i * k) * m = i * (k * m)
  /\ \A i \in Int : \A k \in Int : i * k = k * i
<1>1. \A i \in Nat : \A k \in Nat : i * k \in Nat
  OBVIOUS
<1>2. \A i \in Int : \A k \in Int : \A m \in Int : (i + k) * m = i * m + k * m
  OBVIOUS
<1>3. \A i \in Nat : \A k \in Nat : \A m \in Nat : i <= k => i * m <= k * m
  OBVIOUS
<1>4. \A i \in Int : \A k \in Int : \A m \in Int : (i * k) * m = i * (k * m)
  OBVIOUS
<1>5. \A i \in Int : \A k \in Int : i * k = k * i
  OBVIOUS
<1> QED BY <1>1, <1>2, <1>3, <1>4, <1>5

\* A lane's blocks lie among the n blocks.
LEMMA CountBound ==
  ASSUME NEW w \in Width, NEW n \in Nat, NEW i \in 0 .. w - 1, NEW j \in 1 .. Count(w, n, i)
  PROVE  (j - 1) * w + i \in 0 .. n - 1
<1> DEFINE q == n \div w
           r == n % w
<1>1. q \in Nat /\ r \in 0 .. w - 1 /\ n = w * q + r
  <2>1. w \in Nat \ {0}
    BY DEF Width
  <2>2. q \in Nat /\ w * q <= n /\ r = n - w * q /\ r \in 0 .. w - 1
    BY <2>1, DivMod
  <2> HIDE DEF q, r
  <2> QED BY <2>1, <2>2
<1>2. j \in Nat \ {0} /\ (j <= q \/ (j = q + 1 /\ i < r))
  BY <1>1 DEF Count
<1> HIDE DEF q, r
<1>w. w \in Nat \ {0}
  BY DEF Width
<1>3. CASE j <= q
  <2>1. j * w <= q * w /\ j * w = (j - 1) * w + w /\ (j - 1) * w \in Nat
    BY <1>1, <1>2, <1>3, <1>w
  <2>2. q * w = w * q
    BY <1>1, <1>w
  <2> QED BY <1>1, <1>w, <2>1, <2>2
<1>4. CASE j = q + 1 /\ i < r
  <2>1. (j - 1) * w = w * q
    BY <1>1, <1>4, <1>w
  <2> QED BY <1>1, <1>4, <1>w, <2>1
<1> QED BY <1>2, <1>3, <1>4

\* Whole steps add to all lanes alike.
LEMMA CountStep ==
  ASSUME NEW w \in Width, NEW p \in Nat, NEW n \in Nat, NEW i \in 0 .. w - 1
  PROVE  /\ Count(w, p * w, i) = p
         /\ Count(w, n, i) \in Nat
         /\ Count(w, p * w + n, i) = p + Count(w, n, i)
<1> DEFINE q == n \div w
           r == n % w
<1>w. w \in Nat \ {0}
  BY DEF Width
<1>1. q \in Nat /\ r \in 0 .. w - 1 /\ n = w * q + r
  <2>2. q \in Nat /\ w * q <= n /\ r = n - w * q /\ r \in 0 .. w - 1
    BY <1>w, DivMod
  <2> HIDE DEF q, r
  <2> QED BY <1>w, <2>2
<1>2. (p * w) \div w = p /\ (p * w) % w = 0
  <2>1. p * w = p * w + 0 /\ p * w \in Nat /\ 0 \in 0 .. w - 1
    BY <1>w
  <2> QED BY <2>1, <1>w, DivUnique
<1>3. (p * w + n) \div w = p + q /\ (p * w + n) % w = r
  <2> HIDE DEF q, r
  <2>1. p * w + n = (p + q) * w + r
    <3>1. (p + q) * w = p * w + q * w /\ q * w = w * q
      BY <1>1, <1>w
    <3> QED BY <3>1, <1>1, <1>w
  <2>2. p * w + n \in Nat /\ p + q \in Nat
    BY <1>1, <1>w
  <2> QED BY <2>1, <2>2, <1>1, <1>w, DivUnique
<1>4. Count(w, p * w, i) = p
  BY <1>2 DEF Count
<1>5. Count(w, n, i) = q + (IF i < r THEN 1 ELSE 0)
  BY DEF Count
<1>6. Count(w, p * w + n, i) = (p + q) + (IF i < r THEN 1 ELSE 0)
  BY <1>3 DEF Count
<1> HIDE DEF q, r
<1> QED BY <1>1, <1>4, <1>5, <1>6

-----------------------------------------------------------------------------
(* Memories *)

\* A memory holds the parts of what it holds.
LEMMA HoldsPart ==
  ASSUME NEW mem, NEW from \in Int, NEW len \in Int, NEW at \in Int,
         Holds(mem, from, len, at),
         NEW p \in Int, NEW l \in Int, NEW a \in Int,
         p - from = a - at, 0 <= p - from, (p - from) + l <= len
  PROVE  Holds(mem, p, l, a)
<1> SUFFICES ASSUME NEW i \in 0 .. l - 1
             PROVE  mem[p + i] = a + i
  BY DEF Holds
<1> DEFINE o == (p - from) + i
<1>1. o \in 0 .. len - 1
  OBVIOUS
<1>2. mem[from + o] = at + o
  BY <1>1 DEF Holds
<1>3. from + o = p + i /\ at + o = a + i
  OBVIOUS
<1> QED BY <1>2, <1>3

\* What a copy leaves in the part of the memory it wrote.
LEMMA CopyHolds ==
  ASSUME NEW mem, NEW src, NEW at \in Int, NEW from \in Int, NEW len \in Int, NEW x \in Int,
         Holds(src, from, len, x)
  PROVE  Holds(CopyTo(mem, at, src, from, len), at, len, x)
<1> SUFFICES ASSUME NEW i \in 0 .. len - 1
             PROVE  CopyTo(mem, at, src, from, len)[at + i] = x + i
  BY DEF Holds
<1>1. at + i \in at .. at + len - 1 /\ (from + (at + i)) - at = from + i
  OBVIOUS
<1>2. CopyTo(mem, at, src, from, len)[at + i] = src[(from + (at + i)) - at]
  BY <1>1 DEF CopyTo
<1> QED BY <1>1, <1>2 DEF Holds

\* A copy behind what a memory holds extends it.
LEMMA CopyExtends ==
  ASSUME NEW mem, NEW src, NEW from \in Int, NEW len \in Nat, NEW used \in Nat, NEW x \in Int,
         0 .. used - 1 \subseteq DOMAIN mem,
         Holds(mem, 0, used, x),
         Holds(src, from, len, x + used)
  PROVE  Holds(CopyTo(mem, used, src, from, len), 0, used + len, x)
<1> DEFINE new == CopyTo(mem, used, src, from, len)
<1>1. Holds(new, used, len, x + used)
  BY CopyHolds
<1>2. ASSUME NEW i \in 0 .. used - 1
      PROVE  new[i] = x + i
  <2>1. i \in DOMAIN mem /\ i \notin used .. used + len - 1
    OBVIOUS
  <2>2. new[i] = mem[i]
    BY <2>1 DEF CopyTo
  <2>3. mem[0 + i] = x + i
    BY DEF Holds
  <2> QED BY <2>2, <2>3
<1> HIDE DEF new
<1> SUFFICES ASSUME NEW i \in 0 .. (used + len) - 1
             PROVE  new[0 + i] = x + i
  BY DEF Holds, new
<1>3. CASE i < used
  BY <1>2, <1>3
<1>4. CASE ~(i < used)
  <2>1. i - used \in 0 .. len - 1
    BY <1>4
  <2>2. new[used + (i - used)] = (x + used) + (i - used)
    BY <2>1, <1>1 DEF Holds
  <2> QED BY <2>1, <2>2
<1> QED BY <1>3, <1>4

\* A copy of input that stays inside a memory of `size' bytes keeps its type.
LEMMA CopyInside ==
  ASSUME NEW size \in Nat, NEW V, NEW mem, mem \in [0 .. size - 1 -> Nat \cup V], NEW src,
         NEW at \in Nat, NEW from \in Int, NEW len \in Int, at + len <= size,
         NEW x \in Nat, Holds(src, from, len, x)
  PROVE  CopyTo(mem, at, src, from, len) \in [0 .. size - 1 -> Nat \cup V]
<1>1. DOMAIN mem \cup (at .. at + len - 1) = 0 .. size - 1
  OBVIOUS
<1>2. ASSUME NEW i \in at .. at + len - 1
      PROVE  src[from + i - at] \in Nat \cup V
  <2>1. i - at \in 0 .. len - 1
    OBVIOUS
  <2>2. src[from + (i - at)] = x + (i - at)
    BY <2>1 DEF Holds
  <2>3. from + (i - at) = from + i - at /\ x + (i - at) \in Nat
    BY <2>1
  <2> QED BY <2>2, <2>3
<1> QED BY <1>1, <1>2 DEF CopyTo
=============================================================================
