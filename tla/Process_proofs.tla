------------------------- MODULE Process_proofs -----------------------------
(***************************************************************************)
(* What the threads of a process share, the word of the selected backend   *)
(* and the random seed, is one for all of them: for every set of threads   *)
(* and any number of calls, on every build and machine, with Relaxed loads *)
(* and stores of the word.  What they do not share, their hashers, are     *)
(* made of their own writes only, and two of them that have taken writes   *)
(* of the same kinds and lengths agree exactly when the data do.  And the  *)
(* product that the C ports compute from halves, for half words of any     *)
(* size.                                                                   *)
(***************************************************************************)
EXTENDS BackendCache, Hashers, MulHalves, Memory_proofs, FiniteSetTheorems, TLAPS

\* The build and the machine it runs on.
Platform == build \in Builds /\ cpu \in Machines(build)

\* The word holds null, then only the selected backend.
CacheWord == /\ mo \in Seq({Null, select})
             /\ mo # << >>
             /\ \A i \in 2 .. Len(mo) : mo[i] = select

\* Where thread t is: what it holds, what it knows of the word, and whether it
\* has detected.
Local(t) == /\ seen[t] \in 1 .. Len(mo)
            /\ pc[t] \in {"idle", "select", "store"}
            /\ b[t] \in {Null, select}
            /\ calls[t] \in 0 .. MaxCalls
            /\ pc[t] # "idle" => calls[t] < MaxCalls
            /\ pc[t] = "store" => b[t] = select
            /\ pc[t] = "select" => detections[t] = 0
            /\ detections[t] = 0 \/ detections[t] = 1
            /\ detections[t] = 1 => pc[t] = "store" \/ seen[t] >= 2

Functional == /\ seen = [t \in Callers |-> seen[t]]
              /\ pc = [t \in Callers |-> pc[t]]
              /\ b = [t \in Callers |-> b[t]]
              /\ calls = [t \in Callers |-> calls[t]]
              /\ detections = [t \in Callers |-> detections[t]]

\* The inductive invariant.
CacheInv == /\ Platform
            /\ CacheWord
            /\ Functional
            /\ \A t \in Callers : Local(t)
            /\ got \subseteq {select}
-----------------------------------------------------------------------------
(* The selected table *)

\* What a machine has, whatever the build: the implications between features.
LEMMA Platforms ==
  ASSUME Platform
  PROVE  /\ build.fn \in {"default", "aes"}
         /\ build.arch \in {"x86_64", "wasm32", "other"}
         /\ build.std \in BOOLEAN
         /\ build.target \subseteq cpu
         /\ build.arch = "x86_64" =>
              /\ "sse2" \in cpu
              /\ "avx512vl" \in cpu => "avx512f" \in cpu
              /\ "avx512f" \in cpu => "avx2" \in cpu
              /\ "vaes" \in cpu => "aes" \in cpu
              /\ "sse2" \in build.target
              /\ "avx512f" \in build.target => "avx2" \in build.target
  BY DEF Platform, Builds, Machines, FeatureSets

\* A feature that was detected is there.
LEMMA DetectedIsThere ==
  ASSUME Platform
  PROVE  /\ Detected \subseteq cpu
         /\ build.arch = "x86_64" => "sse2" \in Detected
         /\ build.arch = "x86_64" /\ "avx512f" \in Detected => "avx2" \in Detected
  BY Platforms DEF Detected

\* Every function of the selected table of lanehash runs on this machine.
LEMMA DefaultSupported ==
  ASSUME Platform
  PROVE  /\ select_default \in DOMAIN Needs["default"]
         /\ Needs["default"][select_default] \subseteq cpu
         /\ select_default # Null
<1> USE Platforms, DetectedIsThere DEF Needs, Simd, Null, select_default
<1>1. CASE Simd("x86_64") /\ "avx512f" \in Detected
  BY <1>1
<1>2. CASE Simd("x86_64") /\ "avx512f" \notin Detected
  BY <1>2
<1>3. CASE ~Simd("x86_64")
  BY <1>3
<1> QED BY <1>1, <1>2, <1>3

\* And of the selected table of the AES function, which asks for more than the
\* features that the selection tests.
LEMMA AesSupported ==
  ASSUME Platform
  PROVE  /\ select_aes \in DOMAIN Needs["aes"]
         /\ Needs["aes"][select_aes] \subseteq cpu
         /\ select_aes # Null
<1> DEFINE evex == Simd("x86_64") /\ {"vaes", "avx512f", "avx512vl"} \subseteq Detected
           ymm  == Simd("x86_64") /\ {"vaes", "avx2"} \subseteq Detected
           xmm  == Simd("x86_64") /\ {"aes", "sse2"} \subseteq Detected
<1> USE Platforms, DetectedIsThere DEF Needs, Null
<1>1. CASE evex
  <2>1. select_aes = "vaesvl"
    BY <1>1 DEF select_aes
  <2>2. {"vaes", "avx512f", "avx512vl"} \subseteq cpu /\ build.arch = "x86_64"
    BY <1>1 DEF Simd
  <2> QED BY <2>1, <2>2
<1>2. CASE ~evex /\ ymm
  <2>1. select_aes = "vaes256"
    BY <1>2 DEF select_aes
  <2> QED BY <1>2, <2>1
<1>3. CASE ~evex /\ ~ymm /\ xmm
  <2>1. select_aes = "aesni"
    BY <1>3 DEF select_aes
  <2> QED BY <1>3, <2>1
<1>4. CASE ~evex /\ ~ymm /\ ~xmm
  <2>1. select_aes = "soft"
    BY <1>4 DEF select_aes
  <2> QED BY <2>1
<1> QED BY <1>1, <1>2, <1>3, <1>4

LEMMA Supported ==
  ASSUME Platform
  PROVE  /\ select \in Tables
         /\ Needs[build.fn][select] \subseteq cpu
         /\ select # Null
<1>1. CASE build.fn = "default"
  BY <1>1, DefaultSupported DEF select, Tables
<1>2. CASE build.fn = "aes"
  BY <1>2, AesSupported DEF select, Tables
<1> QED BY <1>1, <1>2, Platforms

\* The selection is the same at every call: nothing it reads ever changes.
LEMMA SelectFixed ==
  ASSUME UNCHANGED << build, cpu >>
  PROVE  select' = select /\ (Platform <=> Platform')
  BY DEF select, select_default, select_aes, Simd, Detected, Platform
-----------------------------------------------------------------------------
(* The steps *)

LEMMA CacheStart == CacheInit => CacheInv
<1> SUFFICES ASSUME CacheInit PROVE CacheInv
  OBVIOUS
<1>1. Platform
  BY DEF CacheInit, Platform
<1>2. CacheWord
  BY DEF CacheInit, CacheWord
<1>3. Functional
  BY DEF CacheInit, Functional
<1>4. ASSUME NEW t \in Callers PROVE Local(t)
  BY CacheAssumption DEF CacheInit, Local
<1>5. got \subseteq {select}
  BY DEF CacheInit
<1> QED BY <1>1, <1>2, <1>3, <1>4, <1>5 DEF CacheInv

\* What a load can find: null, in the first store only, or the selection.
LEMMA Entries ==
  ASSUME CacheWord
  PROVE  /\ Len(mo) \in Nat \ {0}
         /\ \A i \in 1 .. Len(mo) : mo[i] \in {Null, select} /\ (i >= 2 => mo[i] = select)
  BY DEF CacheWord

\* A step of one thread leaves what is true of the others, which know no store
\* that is new.
LEMMA OtherThreads ==
  ASSUME NEW t \in Callers, NEW u \in Callers, Local(u), select' = select,
         Len(mo) \in Nat, Len(mo') \in Nat, Len(mo) <= Len(mo'),
         seen'[u] = seen[u], pc'[u] = pc[u], b'[u] = b[u], calls'[u] = calls[u],
         detections'[u] = detections[u]
  PROVE  Local(u)'
  BY DEF Local

\* A call returns: the control point, the count and the set of backends.
LEMMA ReturnLocal ==
  ASSUME NEW t \in Callers, NEW v, Return(t, v), Functional
  PROVE  /\ pc' = [pc EXCEPT ![t] = "idle"] /\ pc'[t] = "idle"
         /\ calls' = [calls EXCEPT ![t] = @ + 1] /\ calls'[t] = calls[t] + 1
         /\ got' = got \cup {v}
  BY DEF Return, Functional

LEMMA LoadInv ==
  ASSUME CacheInv, NEW t \in Callers, Load(t)
  PROVE  CacheInv'
<1>1. /\ pc[t] = "idle" /\ calls[t] < MaxCalls
      /\ UNCHANGED << build, cpu, mo, b, detections >>
  BY DEF Load
<1>2. PICK i \in seen[t] .. Len(mo) :
         /\ seen' = [seen EXCEPT ![t] = i]
         /\ IF mo[i] # Null
            THEN Return(t, mo[i])
            ELSE pc' = [pc EXCEPT ![t] = "select"] /\ UNCHANGED << calls, got >>
  BY DEF Load
<1>3. select' = select /\ Platform'
  BY <1>1, SelectFixed DEF CacheInv
<1>4. CacheWord'
  BY <1>1, <1>3 DEF CacheInv, CacheWord
<1>5. Functional /\ Local(t) /\ Platform /\ select # Null
  BY Supported DEF CacheInv
<1>6. /\ Len(mo) \in Nat \ {0} /\ i \in 1 .. Len(mo) /\ seen'[t] = i /\ i >= seen[t]
      /\ mo[i] \in {Null, select} /\ (i >= 2 => mo[i] = select)
  BY <1>2, <1>5, Entries DEF CacheInv, Local, Functional
<1>7. Functional' /\ Local(t)' /\ got' \subseteq {select}
      /\ \A u \in Callers \ {t} : pc'[u] = pc[u] /\ calls'[u] = calls[u]
  <2>1. CASE mo[i] # Null
    <3>1. mo[i] = select /\ Return(t, select)
      BY <1>2, <1>6, <2>1
    <3>2. Functional'
      BY <1>1, <1>2, <1>5, <3>1, ReturnLocal DEF Functional
    <3>3. Local(t)'
      BY <1>1, <1>3, <1>5, <1>6, <3>1, ReturnLocal, CacheAssumption DEF Local
    <3> QED BY <1>5, <3>1, <3>2, <3>3, ReturnLocal DEF CacheInv, Functional
  <2>2. CASE mo[i] = Null
    <3>1. pc' = [pc EXCEPT ![t] = "select"] /\ UNCHANGED << calls, got >> /\ i = 1
      BY <1>2, <1>5, <1>6, <2>2
    <3>2. Functional' /\ pc'[t] = "select"
      BY <1>1, <1>2, <1>5, <3>1 DEF Functional
    <3>3. Local(t)'
      BY <1>1, <1>3, <1>5, <1>6, <3>1, <3>2 DEF Local
    <3> QED BY <1>5, <3>1, <3>2, <3>3 DEF CacheInv, Functional
  <2> QED BY <2>1, <2>2
<1>8. ASSUME NEW u \in Callers, u # t PROVE Local(u)'
  <2>1. seen'[u] = seen[u]
    BY <1>2, <1>5, <1>8 DEF Functional
  <2> QED BY <1>1, <1>3, <1>6, <1>7, <1>8, <2>1, OtherThreads DEF CacheInv
<1>9. got' \subseteq {select'}
  BY <1>3, <1>7
<1> QED BY <1>3, <1>4, <1>7, <1>8, <1>9 DEF CacheInv

LEMMA SelectInv ==
  ASSUME CacheInv, NEW t \in Callers, Select(t)
  PROVE  CacheInv'
<1>1. /\ pc[t] = "select"
      /\ b' = [b EXCEPT ![t] = select]
      /\ detections' = [detections EXCEPT ![t] = @ + 1]
      /\ pc' = [pc EXCEPT ![t] = "store"]
      /\ UNCHANGED << build, cpu, mo, seen, calls, got >>
  BY DEF Select
<1>2. select' = select /\ Platform'
  BY <1>1, SelectFixed DEF CacheInv
<1>3. CacheWord' /\ got' \subseteq {select'}
  BY <1>1, <1>2 DEF CacheInv, CacheWord
<1>4. Functional /\ Local(t) /\ Len(mo) \in Nat
  BY Entries DEF CacheInv
<1>5. Functional'
  BY <1>1, <1>4 DEF Functional
<1>6. b'[t] = select /\ detections'[t] = 1 /\ pc'[t] = "store"
  BY <1>1, <1>4 DEF Functional, Local
<1>7. Local(t)'
  BY <1>1, <1>2, <1>4, <1>6 DEF Local
<1>8. ASSUME NEW u \in Callers, u # t PROVE Local(u)'
  <2>1. pc'[u] = pc[u] /\ b'[u] = b[u] /\ detections'[u] = detections[u]
    BY <1>1, <1>4, <1>8 DEF Functional
  <2> QED BY <1>1, <1>2, <1>4, <2>1, OtherThreads DEF CacheInv
<1> QED BY <1>2, <1>3, <1>5, <1>7, <1>8 DEF CacheInv

LEMMA StoreInv ==
  ASSUME CacheInv, NEW t \in Callers, Store(t)
  PROVE  CacheInv'
<1>1. Functional /\ Local(t) /\ CacheWord /\ Len(mo) \in Nat \ {0}
  BY Entries DEF CacheInv
<1>2. /\ pc[t] = "store" /\ b[t] = select
      /\ mo' = Append(mo, select)
      /\ seen' = [seen EXCEPT ![t] = Len(mo) + 1]
      /\ Return(t, select)
      /\ UNCHANGED << build, cpu, b, detections >>
  BY <1>1 DEF Store, Local
<1>3. select' = select /\ Platform'
  BY <1>2, SelectFixed DEF CacheInv
<1>4. Len(mo') = Len(mo) + 1 /\ CacheWord'
  BY <1>1, <1>2, <1>3 DEF CacheWord
<1>5. Functional' /\ seen'[t] = Len(mo) + 1 /\ pc'[t] = "idle" /\ calls'[t] = calls[t] + 1
  BY <1>1, <1>2, ReturnLocal DEF Functional
<1>6. Local(t)'
  BY <1>1, <1>2, <1>3, <1>4, <1>5, CacheAssumption DEF Local
<1>7. ASSUME NEW u \in Callers, u # t PROVE Local(u)'
  <2>1. seen'[u] = seen[u] /\ pc'[u] = pc[u] /\ calls'[u] = calls[u]
    BY <1>1, <1>2, <1>7, ReturnLocal DEF Functional
  <2> QED BY <1>1, <1>2, <1>3, <1>4, <2>1, OtherThreads DEF CacheInv
<1>8. got' \subseteq {select'}
  BY <1>1, <1>2, <1>3, ReturnLocal DEF CacheInv
<1> QED BY <1>3, <1>4, <1>5, <1>6, <1>7, <1>8 DEF CacheInv

LEMMA CacheStutter ==
  ASSUME CacheInv, UNCHANGED cacheVars
  PROVE  CacheInv'
<1>1. UNCHANGED << build, cpu, mo, seen, pc, b, calls, detections, got >>
  BY DEF cacheVars
<1>2. select' = select /\ Platform'
  BY <1>1, SelectFixed DEF CacheInv
<1> QED BY <1>1, <1>2 DEF CacheInv, CacheWord, Functional, Local

LEMMA CacheStep == CacheInv /\ [CacheNext]_cacheVars => CacheInv'
  BY LoadInv, SelectInv, StoreInv, CacheStutter DEF CacheNext
-----------------------------------------------------------------------------
(* Theorems *)

\* In every reachable state the word holds null and then only the selected
\* backend, and a thread that has detected knows that backend.
THEOREM CacheInductive == CacheSpec => []CacheInv
<1> QED BY CacheStart, CacheStep, PTL DEF CacheSpec

\* Types.
THEOREM TypeCorrect == CacheSpec => []TypeOK
<1>1. CacheInv => TypeOK
  <2> SUFFICES ASSUME CacheInv PROVE TypeOK
    OBVIOUS
  <2>1. Platform /\ Functional /\ select \in Tables
    BY Supported DEF CacheInv
  <2>2. mo \in Seq({Null} \cup Tables) /\ got \subseteq Tables
    BY <2>1 DEF CacheInv, CacheWord
  <2>3. seen \in [Callers -> 1 .. Len(mo)]
    BY <2>1 DEF CacheInv, Functional, Local
  <2>4. pc \in [Callers -> {"idle", "select", "store"}]
    BY <2>1 DEF CacheInv, Functional, Local
  <2>5. b \in [Callers -> {Null} \cup Tables]
    BY <2>1 DEF CacheInv, Functional, Local
  <2>6. calls \in [Callers -> 0 .. MaxCalls]
    BY <2>1 DEF CacheInv, Functional, Local
  <2>7. detections \in [Callers -> Nat]
    BY <2>1 DEF CacheInv, Functional, Local
  <2> QED BY <2>1, <2>2, <2>3, <2>4, <2>5, <2>6, <2>7 DEF TypeOK, Platform
<1> QED BY <1>1, CacheInductive, PTL

\* Every call of every thread returns one and the same table, and the machine
\* supports all its functions: the SAFETY comments of backend() hold for any
\* number of threads and calls.
THEOREM OneBackend == CacheSpec => []OneSupportedBackend
<1>1. CacheInv => OneSupportedBackend
  <2> SUFFICES ASSUME CacheInv PROVE OneSupportedBackend
    OBVIOUS
  <2>1. got \subseteq {select} /\ Needs[build.fn][select] \subseteq cpu
    BY Supported DEF CacheInv
  <2>2. Cardinality(got) <= 1
    <3>1. IsFiniteSet({select}) /\ Cardinality({select}) = 1
      BY FS_Singleton
    <3> QED BY <2>1, <3>1, FS_Subset
  <2> QED BY <2>1, <2>2 DEF OneSupportedBackend
<1> QED BY <1>1, CacheInductive, PTL

\* No thread detects twice, although its loads are Relaxed.
THEOREM DetectsOnce == CacheSpec => []DetectsOncePerThread
<1>1. CacheInv => DetectsOncePerThread
  BY DEF CacheInv, Local, DetectsOncePerThread
<1> QED BY <1>1, CacheInductive, PTL
-----------------------------------------------------------------------------
(* The seed of the process *)

\* Where a thread is; a thread that has made no RandomState yet holds none.
Phased == /\ phase = [t \in Threads |-> phase[t]]
          /\ state = [t \in Threads |-> state[t]]
          /\ random = [t \in Threads |-> random[t]]
          /\ \A t \in Threads : phase[t] = "idle" => ~random[t]

\* The OnceLock: only one thread runs the initialiser, nobody holds a seed
\* before it has ended, and then everybody holds the seed it has stored.
Unset   == \A t \in Threads : phase[t] # "init" /\ ~HoldsSeed(t)
Running == /\ \A t \in Threads : ~HoldsSeed(t)
           /\ \A t \in Threads : \A u \in Threads :
                phase[t] = "init" /\ phase[u] = "init" => t = u
Stored  == /\ \A t \in Threads : phase[t] # "init"
           /\ \A t \in Threads : HoldsSeed(t) => state[t] = seed
OnceLock == \/ once = "empty" /\ Unset
            \/ once = "running" /\ Running
            \/ once = "set" /\ Stored

SeedInv == Phased /\ OnceLock

LEMMA SeedStart == Init => SeedInv
<1> SUFFICES ASSUME Init PROVE SeedInv
  OBVIOUS
<1>1. Phased
  BY DEF Init, Phased
<1>2. once = "empty" /\ Unset
  BY DEF Init, Unset, HoldsSeed
<1> QED BY <1>1, <1>2 DEF SeedInv, OnceLock

\* A step of thread t that moves it to a phase p, with the state s and the
\* kind r of what it then has.
Moves(t, p, s, r) == /\ phase' = [phase EXCEPT ![t] = p]
                     /\ state' = [state EXCEPT ![t] = s]
                     /\ random' = [random EXCEPT ![t] = r]

LEMMA Moved ==
  ASSUME Phased, NEW t \in Threads, NEW p, NEW s, NEW r, Moves(t, p, s, r), p # "idle"
  PROVE  /\ Phased'
         /\ phase'[t] = p
         /\ HoldsSeed(t)' = (r /\ p \in {"ready", "hashing"})
         /\ state'[t] = s
         /\ \A u \in Threads \ {t} : /\ phase'[u] = phase[u]
                                     /\ HoldsSeed(u)' = HoldsSeed(u)
                                     /\ state'[u] = state[u]
<1>1. /\ phase'[t] = p /\ state'[t] = s /\ random'[t] = r
      /\ \A u \in Threads \ {t} : phase'[u] = phase[u] /\ state'[u] = state[u] /\ random'[u] = random[u]
  BY DEF Moves, Phased
<1>2. Phased'
  BY <1>1 DEF Phased, Moves
<1> QED BY <1>1, <1>2 DEF HoldsSeed

\* What leaves the lock as it is and gives t no seed but the stored one.
LEMMA LockKept ==
  ASSUME SeedInv, NEW t \in Threads, NEW p, NEW s, NEW r, Moves(t, p, s, r), p # "idle", p # "init",
         UNCHANGED << once, seed >>,
         r /\ p \in {"ready", "hashing"} => once = "set" /\ s = seed
  PROVE  SeedInv'
<1>1. Phased' /\ phase'[t] = p /\ state'[t] = s /\ HoldsSeed(t)' = (r /\ p \in {"ready", "hashing"})
  BY Moved DEF SeedInv
<1>2. \A u \in Threads \ {t} : phase'[u] = phase[u] /\ HoldsSeed(u)' = HoldsSeed(u) /\ state'[u] = state[u]
  BY Moved DEF SeedInv
<1>3. CASE once = "empty" /\ Unset
  <2>1. Unset'
    BY <1>1, <1>2, <1>3 DEF Unset
  <2> QED BY <1>1, <1>3, <2>1 DEF SeedInv, OnceLock
<1>4. CASE once = "running" /\ Running
  <2>1. Running'
    BY <1>1, <1>2, <1>4 DEF Running
  <2> QED BY <1>1, <1>4, <2>1 DEF SeedInv, OnceLock
<1>5. CASE once = "set" /\ Stored
  <2>1. Stored'
    BY <1>1, <1>2, <1>5 DEF Stored
  <2> QED BY <1>1, <1>5, <2>1 DEF SeedInv, OnceLock
<1> QED BY <1>3, <1>4, <1>5 DEF SeedInv, OnceLock

\* A seed is held only once it is stored.
LEMMA HoldersAgree ==
  ASSUME SeedInv, NEW t \in Threads, HoldsSeed(t)
  PROVE  once = "set" /\ state[t] = seed
  BY DEF SeedInv, OnceLock, Unset, Running, Stored

\* Nothing of the seed changes while a thread writes.
LEMMA SeedUntouched ==
  ASSUME SeedInv, UNCHANGED << once, seed, phase, state, random >>
  PROVE  SeedInv'
  BY DEF SeedInv, Phased, OnceLock, Unset, Running, Stored, HoldsSeed

LEMMA NewFixedSeed == ASSUME SeedInv, NEW t \in Threads, NewFixed(t) PROVE SeedInv'
<1>1. Moves(t, "ready", Fixed, random[t]) /\ ~random[t] /\ UNCHANGED << once, seed >>
  BY DEF NewFixed, Ready, Moves, SeedInv, Phased
<1> QED BY <1>1, LockKept

LEMMA CallNewSeed == ASSUME SeedInv, NEW t \in Threads, CallNew(t) PROVE SeedInv'
<1>1. Moves(t, "new", state[t], TRUE) /\ UNCHANGED << once, seed >>
  BY DEF CallNew, Moves, SeedInv, Phased
<1> QED BY <1>1, LockKept

LEMMA StartInitSeed == ASSUME SeedInv, NEW t \in Threads, StartInit(t) PROVE SeedInv'
<1>1. Moves(t, "init", state[t], random[t]) /\ once = "empty" /\ once' = "running"
  BY DEF StartInit, Moves, SeedInv, Phased
<1>2. Unset
  BY <1>1 DEF SeedInv, OnceLock
<1>3. Phased' /\ ~HoldsSeed(t)'
  BY <1>1, Moved DEF SeedInv
<1>4. \A u \in Threads \ {t} : phase'[u] = phase[u] /\ HoldsSeed(u)' = HoldsSeed(u)
  BY <1>1, Moved DEF SeedInv
<1>5. Running'
  BY <1>2, <1>3, <1>4 DEF Unset, Running
<1> QED BY <1>1, <1>3, <1>5 DEF SeedInv, OnceLock

\* The seed appears with the first one that holds it.
LEMMA EndInitSeed == ASSUME SeedInv, NEW t \in Threads, EndInit(t) PROVE SeedInv'
<1>1. /\ Moves(t, "ready", Draw(t), random[t]) /\ phase[t] = "init"
      /\ once' = "set" /\ seed' = Draw(t)
  BY DEF EndInit, Ready, Moves, SeedInv, Phased
<1>2. Running
  BY <1>1 DEF SeedInv, OnceLock, Unset, Stored
<1>3. Phased' /\ phase'[t] = "ready" /\ state'[t] = seed'
  BY <1>1, Moved DEF SeedInv
<1>4. \A u \in Threads \ {t} : phase'[u] = phase[u] /\ HoldsSeed(u)' = HoldsSeed(u)
  BY <1>1, Moved DEF SeedInv
<1>5. Stored'
  BY <1>1, <1>2, <1>3, <1>4 DEF Running, Stored
<1> QED BY <1>1, <1>3, <1>5 DEF SeedInv, OnceLock

LEMMA GetSeed == ASSUME SeedInv, NEW t \in Threads, Get(t) PROVE SeedInv'
<1>1. Moves(t, "ready", seed, random[t]) /\ once = "set" /\ UNCHANGED << once, seed >>
  BY DEF Get, Ready, Moves, SeedInv, Phased
<1> QED BY <1>1, LockKept

LEMMA BuildHasherSeed == ASSUME SeedInv, NEW t \in Threads, BuildHasher(t) PROVE SeedInv'
<1>1. Moves(t, "hashing", state[t], random[t]) /\ phase[t] = "ready" /\ UNCHANGED << once, seed >>
  BY DEF BuildHasher, Moves, SeedInv, Phased
<1>2. random[t] => once = "set" /\ state[t] = seed
  BY <1>1, HoldersAgree DEF HoldsSeed
<1> QED BY <1>1, <1>2, LockKept

\* A clone holds what its original holds.
LEMMA CloneSeed ==
  ASSUME SeedInv, NEW t \in Threads, NEW u \in Threads, Clone(t, u) PROVE SeedInv'
<1>1. /\ Moves(t, "hashing", state[u], random[u]) /\ phase[u] = "hashing"
      /\ UNCHANGED << once, seed >>
  BY DEF Clone, Moves, SeedInv, Phased
<1>2. random[u] => once = "set" /\ state[u] = seed
  BY <1>1, HoldersAgree DEF HoldsSeed
<1> QED BY <1>1, <1>2, LockKept

LEMMA WritesSeed ==
  ASSUME SeedInv, NEW t \in Threads, Write(t) \/ WriteInt(t) PROVE SeedInv'
<1>1. UNCHANGED << once, seed, phase, state, random >>
  BY DEF Write, WriteInt, Writes
<1> QED BY <1>1, SeedUntouched

LEMMA SeedStep == SeedInv /\ [Next]_vars => SeedInv'
<1> SUFFICES ASSUME SeedInv, [Next]_vars PROVE SeedInv'
  OBVIOUS
<1>1. CASE UNCHANGED vars
  BY <1>1, SeedUntouched DEF vars
<1>2. CASE Next
  <2> PICK t \in Threads : \/ NewFixed(t) \/ CallNew(t) \/ NewStep(t)
                           \/ BuildHasher(t) \/ Write(t) \/ WriteInt(t)
                           \/ \E u \in Threads : Clone(t, u)
    BY <1>2 DEF Next
  <2>1. CASE NewFixed(t) \/ CallNew(t)
    BY <2>1, NewFixedSeed, CallNewSeed
  <2>2. CASE NewStep(t)
    BY <2>2, StartInitSeed, EndInitSeed, GetSeed DEF NewStep
  <2>3. CASE BuildHasher(t)
    BY <2>3, BuildHasherSeed
  <2>4. CASE Write(t) \/ WriteInt(t)
    BY <2>4, WritesSeed
  <2>5. CASE \E u \in Threads : Clone(t, u)
    BY <2>5, CloneSeed
  <2> QED BY <2>1, <2>2, <2>3, <2>4, <2>5
<1> QED BY <1>1, <1>2

\* In every reachable state one thread at most runs the initialiser, and all
\* holders of a seed hold the stored one.
THEOREM SeedInductive == Spec => []SeedInv
<1> QED BY SeedStart, SeedStep, PTL DEF Spec

\* "One seed per process, so every instance agrees" (hasher.rs), for every set
\* of threads: those that come during the first one's initialisation and the
\* clones included.
THEOREM OneSeedForAll == Spec => []OneSeed
<1>1. SeedInv => OneSeed
  BY HoldersAgree DEF OneSeed
<1> QED BY <1>1, SeedInductive, PTL
-----------------------------------------------------------------------------
(* Words as terms *)

\* The words of D and A are the same: xor, and the halves of a product folded.
x \oplus y == (x \ y) \cup (y \ x)

\* The halves of the product of x and y, folded: which of them is which is lost.
Folded(x, y) == {<< "fold", {x, y} >>}

\* Two xors of parts that have nothing in common are equal part by part.
LEMMA SplitXor ==
  ASSUME NEW x1, NEW y1, NEW x2, NEW y2, x1 \oplus y1 = x2 \oplus y2,
         x1 \cap y1 = {}, x2 \cap y2 = {}, x1 \cap y2 = {}, x2 \cap y1 = {}
  PROVE  x1 = x2 /\ y1 = y2
<1>1. \A e : e \in x1 \oplus y1 <=> e \in x1 \/ e \in y1
  BY DEF \oplus
<1>2. \A e : e \in x2 \oplus y2 <=> e \in x2 \/ e \in y2
  BY DEF \oplus
<1>3. \A e : e \in x1 <=> e \in x2
  BY <1>1, <1>2
<1>4. \A e : e \in y1 <=> e \in y2
  BY <1>1, <1>2
<1> QED BY <1>3, <1>4

\* What is xored to both of two words does not tell them apart.
LEMMA Cancel == ASSUME NEW x, NEW y, NEW k, x \oplus k = y \oplus k PROVE x = y
<1>1. \A e : e \in x \oplus k <=> ~(e \in x <=> e \in k)
  BY DEF \oplus
<1>2. \A e : e \in y \oplus k <=> ~(e \in y <=> e \in k)
  BY DEF \oplus
<1>3. \A e : e \in x <=> e \in y
  BY <1>1, <1>2
<1> QED BY <1>3

\* The order of an xor does not matter.
LEMMA Swap == ASSUME NEW x, NEW y, NEW z PROVE (x \oplus y) \oplus z = (x \oplus z) \oplus y
<1>1. \A e : e \in (x \oplus y) \oplus z <=> e \in (x \oplus z) \oplus y
  BY DEF \oplus
<1> QED BY <1>1

\* Xor with nothing.
LEMMA XorEmpty == ASSUME NEW x PROVE {} \oplus x = x /\ x \oplus {} = x
  BY DEF \oplus

\* A fold gives back its factors, if one of them has a mark.
LEMMA SplitFold ==
  ASSUME NEW x1, NEW y1, NEW x2, NEW y2, Folded(x1, y1) = Folded(x2, y2),
         NEW m, m \in y1, m \notin x2
  PROVE  x1 = x2 /\ y1 = y2
<1>1. << "fold", {x1, y1} >> = << "fold", {x2, y2} >>
  BY DEF Folded
<1>2. {x1, y1} = {x2, y2}
  BY <1>1
<1>3. y1 = y2
  BY <1>2
<1> QED BY <1>2, <1>3

\* Atoms by the first word of their tuple.
Tagged(x, tags) == \A e \in x : e[1] \in tags

\* Xor adds no tag.
LEMMA TaggedXor ==
  ASSUME NEW x, NEW y, NEW tags, Tagged(x, tags), Tagged(y, tags)
  PROVE  Tagged(x \oplus y, tags)
  BY DEF Tagged, \oplus

\* Words of different tags have no atom in common.
LEMMA TaggedApart ==
  ASSUME NEW x, NEW y, NEW tx, NEW ty, Tagged(x, tx), Tagged(y, ty), tx \cap ty = {}
  PROVE  x \cap y = {}
  BY DEF Tagged

\* Tags may be widened.
LEMMA TaggedMore ==
  ASSUME NEW x, NEW t1, NEW t2, Tagged(x, t1), t1 \subseteq t2 PROVE Tagged(x, t2)
  BY DEF Tagged

\* A fold is a fold.
LEMMA FoldedTagged == ASSUME NEW x, NEW y PROVE Tagged(Folded(x, y), {"fold"})
  BY DEF Tagged, Folded

\* The operations of both functions are these, and their numbers are the same.
LEMMA WordOps ==
  /\ \A x, y : D!\oplus(x, y) = x \oplus y /\ A!\oplus(x, y) = x \oplus y
  /\ \A x, y : x # {} /\ y # {} => D!fold(x, y) = Folded(x, y) /\ A!fold(x, y) = Folded(x, y)
  /\ \A n : A!Number(n) = D!Number(n)
<1>1. \A x, y : D!\oplus(x, y) = x \oplus y /\ A!\oplus(x, y) = x \oplus y
  BY DEF D!\oplus, A!\oplus, \oplus
<1>2. \A x, y : x # {} /\ y # {} => D!fold(x, y) = Folded(x, y) /\ A!fold(x, y) = Folded(x, y)
  BY DEF D!fold, A!fold, D!Zero, A!Zero, Folded
<1>3. \A n : A!Number(n) = D!Number(n)
  BY Zenon DEF D!Number, A!Number
<1> QED BY <1>1, <1>2, <1>3

\* A number is bits.
LEMMA NumberTagged == ASSUME NEW n PROVE Tagged(D!Number(n), {"bit"})
  BY DEF D!Number, Tagged

\* Both functions load the same words (AesShort takes words16 from ShortPath).
LEMMA SameWords ==
  ASSUME NEW p
  PROVE  /\ A!Words16(p) = D!Words16(p)
         /\ \A i : A!le64(p, i) = D!le64(p, i)
         /\ \A i, n, j : A!Load(p, i, n, j) = D!Load(p, i, n, j)
<1>1. \A i, n, j : A!Load(p, i, n, j) = D!Load(p, i, n, j)
  BY Zenon DEF A!Load, D!Load
<1>2. \A i : A!le64(p, i) = D!le64(p, i)
  BY <1>1 DEF A!le64, D!le64
<1>3. A!Words16(p) = D!Words16(p)
  BY Zenon DEF A!Words16, D!Words16, A!Zero, D!Zero, A!le64, D!le64, A!Load, D!Load
<1> QED BY <1>1, <1>2, <1>3

\* The numbers up to 8 are told apart: by their four lowest bits.
HalfOf(half, n) == half = [k \in 0 .. 63 |-> IF k = 0 THEN n ELSE half[k - 1] \div 2]

LEMMA NumberIs ==
  ASSUME NEW n \in 0 .. 8
  PROVE  \E half : /\ HalfOf(half, n)
                   /\ D!Number(n) = {<< "bit", k % 8, k \div 8 >> : k \in {x \in 0 .. 63 : half[x] % 2 = 1}}
<1> DEFINE g == [k \in 0 .. 63 |-> IF k = 0 THEN n ELSE IF k = 1 THEN n \div 2
                                   ELSE IF k = 2 THEN (n \div 2) \div 2
                                   ELSE IF k = 3 THEN ((n \div 2) \div 2) \div 2 ELSE 0]
           half == CHOOSE half : HalfOf(half, n)
<1>1. HalfOf(g, n)
  <2>1. \A k \in 0 .. 63 : k # 0 => g[k] = g[k - 1] \div 2
    <3> SUFFICES ASSUME NEW k \in 0 .. 63, k # 0 PROVE g[k] = g[k - 1] \div 2
      OBVIOUS
    <3>1. k - 1 \in 0 .. 63
      OBVIOUS
    <3>2. (((n \div 2) \div 2) \div 2) \div 2 = 0
      OBVIOUS
    <3>3. g[k - 1] = IF k = 1 THEN n ELSE IF k = 2 THEN n \div 2 ELSE IF k = 3 THEN (n \div 2) \div 2
                     ELSE IF k = 4 THEN ((n \div 2) \div 2) \div 2 ELSE 0
      BY <3>1
    <3>4. 0 \div 2 = 0
      OBVIOUS
    <3>5. g[k] = IF k = 1 THEN n \div 2
                 ELSE IF k = 2 THEN (n \div 2) \div 2
                 ELSE IF k = 3 THEN ((n \div 2) \div 2) \div 2 ELSE 0
      OBVIOUS
    <3> HIDE DEF g
    <3> QED BY <3>2, <3>3, <3>4, <3>5
  <2>2. g[0] = n /\ g = [k \in 0 .. 63 |-> g[k]]
    OBVIOUS
  <2> HIDE DEF g
  <2> QED BY <2>1, <2>2 DEF HalfOf
<1>2. HalfOf(half, n)
  <2>1. \E x : HalfOf(x, n)
    BY <1>1
  <2> HIDE DEF g
  <2> QED BY <2>1, Zenon
<1>3. D!Number(n) = {<< "bit", k % 8, k \div 8 >> : k \in {x \in 0 .. 63 : half[x] % 2 = 1}}
  BY Zenon DEF D!Number, HalfOf
<1> HIDE DEF half
<1> QED BY <1>2, <1>3

LEMMA NumberInjective ==
  ASSUME NEW n1 \in 0 .. 8, NEW n2 \in 0 .. 8, D!Number(n1) = D!Number(n2)
  PROVE  n1 = n2
<1> DEFINE Bit(n, k) == << "bit", k, 0 >> \in D!Number(n)
<1>1. ASSUME NEW n \in 0 .. 8
      PROVE  /\ Bit(n, 0) <=> n % 2 = 1
             /\ Bit(n, 1) <=> (n \div 2) % 2 = 1
             /\ Bit(n, 2) <=> ((n \div 2) \div 2) % 2 = 1
             /\ Bit(n, 3) <=> (((n \div 2) \div 2) \div 2) % 2 = 1
  <2>1. PICK half : /\ HalfOf(half, n)
                    /\ D!Number(n) = {<< "bit", k % 8, k \div 8 >> : k \in {x \in 0 .. 63 : half[x] % 2 = 1}}
    BY NumberIs
  <2>2. \A k \in 0 .. 63 : half[k] = IF k = 0 THEN n ELSE half[k - 1] \div 2
    <3>1. half = [k \in 0 .. 63 |-> IF k = 0 THEN n ELSE half[k - 1] \div 2]
      BY <2>1 DEF HalfOf
    <3> DEFINE g == [k \in 0 .. 63 |-> IF k = 0 THEN n ELSE half[k - 1] \div 2]
    <3>2. \A k \in 0 .. 63 : g[k] = IF k = 0 THEN n ELSE half[k - 1] \div 2
      OBVIOUS
    <3>3. half = g
      BY <3>1
    <3> HIDE DEF g
    <3> QED BY <3>2, <3>3, Zenon
  <2>3. /\ half[0] = n /\ half[1] = n \div 2 /\ half[2] = (n \div 2) \div 2
        /\ half[3] = ((n \div 2) \div 2) \div 2
    <3>1. half[0] = n
      BY <2>2
    <3>2. half[1] = half[0] \div 2
      <4>1. 1 \in 0 .. 63 /\ 1 # 0 /\ 1 - 1 = 0
        OBVIOUS
      <4> QED BY <2>2, <4>1
    <3>3. half[2] = half[1] \div 2
      <4>1. 2 \in 0 .. 63 /\ 2 # 0 /\ 2 - 1 = 1
        OBVIOUS
      <4> QED BY <2>2, <4>1
    <3>4. half[3] = half[2] \div 2
      <4>1. 3 \in 0 .. 63 /\ 3 # 0 /\ 3 - 1 = 2
        OBVIOUS
      <4> QED BY <2>2, <4>1
    <3> QED BY <3>1, <3>2, <3>3, <3>4
  <2>4. ASSUME NEW bit \in 0 .. 3 PROVE Bit(n, bit) <=> half[bit] % 2 = 1
    <3>1. bit % 8 = bit /\ bit \div 8 = 0 /\ bit \in 0 .. 63
      OBVIOUS
    <3>2. ASSUME half[bit] % 2 = 1 PROVE Bit(n, bit)
      BY <2>1, <3>1, <3>2
    <3>3. ASSUME Bit(n, bit) PROVE half[bit] % 2 = 1
      <4>1. PICK k \in {x \in 0 .. 63 : half[x] % 2 = 1} : << "bit", bit, 0 >> = << "bit", k % 8, k \div 8 >>
        BY <2>1, <3>3
      <4>2. k % 8 = bit /\ k \div 8 = 0
        BY <4>1
      <4>3. k = bit
        BY <4>2
      <4> QED BY <4>3
    <3> QED BY <3>2, <3>3
  <2> HIDE DEF Bit
  <2>5. 0 \in 0 .. 3 /\ 1 \in 0 .. 3 /\ 2 \in 0 .. 3 /\ 3 \in 0 .. 3
    OBVIOUS
  <2>6. /\ Bit(n, 0) <=> half[0] % 2 = 1
        /\ Bit(n, 1) <=> half[1] % 2 = 1
        /\ Bit(n, 2) <=> half[2] % 2 = 1
        /\ Bit(n, 3) <=> half[3] % 2 = 1
    BY <2>4, <2>5
  <2> QED BY <2>3, <2>6
<1>2. \A k : Bit(n1, k) <=> Bit(n2, k)
  OBVIOUS
<1> HIDE DEF Bit
<1> QED BY <1>1, <1>2
-----------------------------------------------------------------------------
(* The bytes of a word *)

\* The byte at place k of a word.
ByteAt(w, k) == {bit \in D!Bits : << bit[1], bit[2], k >> \in w}

\* A load is bits.
LEMMA LoadTagged ==
  ASSUME NEW p, D!IsSlice(p), NEW i \in Nat, NEW n \in Nat, i + n <= p.len, NEW at
  PROVE  Tagged(D!Load(p, i, n, at), {"bit"})
<1> SUFFICES ASSUME NEW e \in D!Load(p, i, n, at) PROVE e[1] = "bit"
  BY DEF Tagged
<1>1. PICK j \in 0 .. n - 1 : e \in {<< bit[1], bit[2], at + j >> : bit \in p.byte[i + j]}
  BY DEF D!Load
<1>2. PICK bit \in p.byte[i + j] : e = << bit[1], bit[2], at + j >>
  BY <1>1
<1>3. bit \in D!Bits
  BY DEF D!IsSlice
<1> QED BY <1>2, <1>3 DEF D!Bits

\* Each byte of a load is that of the slice.
LEMMA LoadByte ==
  ASSUME NEW p, D!IsSlice(p), NEW i \in Nat, NEW n \in Nat, i + n <= p.len, NEW at \in Nat,
         NEW j \in 0 .. n - 1
  PROVE  ByteAt(D!Load(p, i, n, at), at + j) = p.byte[i + j]
<1>1. \A x \in 0 .. n - 1 : p.byte[i + x] \subseteq D!Bits
  BY DEF D!IsSlice
<1>2. \A bit \in D!Bits : \E v : bit = << "bit", v >>
  BY DEF D!Bits
<1>3. ASSUME NEW bit \in p.byte[i + j] PROVE bit \in ByteAt(D!Load(p, i, n, at), at + j)
  <2>1. << bit[1], bit[2], at + j >> \in {<< c[1], c[2], at + j >> : c \in p.byte[i + j]}
    OBVIOUS
  <2>2. << bit[1], bit[2], at + j >> \in D!Load(p, i, n, at)
    BY <2>1 DEF D!Load
  <2> QED BY <1>1, <2>2 DEF ByteAt
<1>4. ASSUME NEW bit \in ByteAt(D!Load(p, i, n, at), at + j) PROVE bit \in p.byte[i + j]
  <2>1. bit \in D!Bits /\ << bit[1], bit[2], at + j >> \in D!Load(p, i, n, at)
    BY <1>4 DEF ByteAt
  <2>2. PICK x \in 0 .. n - 1 : << bit[1], bit[2], at + j >> \in {<< c[1], c[2], at + x >> : c \in p.byte[i + x]}
    BY <2>1 DEF D!Load
  <2>3. PICK c \in p.byte[i + x] : << bit[1], bit[2], at + j >> = << c[1], c[2], at + x >>
    BY <2>2
  <2>4. at + j = at + x /\ bit[2] = c[2]
    BY <2>3
  <2>5. x = j
    BY <2>4
  <2>6. c \in D!Bits
    BY <1>1
  <2>7. bit = c
    BY <1>2, <2>1, <2>4, <2>6
  <2> QED BY <2>5, <2>7
<1> QED BY <1>3, <1>4

\* The byte a of the slice, at place k.
LEMMA LoadedByte ==
  ASSUME NEW p, D!IsSlice(p), NEW i \in Nat, NEW n \in Nat, i + n <= p.len, NEW at \in Nat,
         NEW a \in i .. i + n - 1, NEW k, k = at + (a - i)
  PROVE  ByteAt(D!Load(p, i, n, at), k) = p.byte[a]
<1>1. a - i \in 0 .. n - 1 /\ i + (a - i) = a
  OBVIOUS
<1>2. ByteAt(D!Load(p, i, n, at), at + (a - i)) = p.byte[i + (a - i)]
  BY <1>1, LoadByte
<1> QED BY <1>1, <1>2

\* A load has no byte at another place.
LEMMA LoadElsewhere ==
  ASSUME NEW p, NEW i, NEW n \in Nat, NEW at \in Nat, NEW k \in Int, k \notin at .. at + n - 1
  PROVE  ByteAt(D!Load(p, i, n, at), k) = {}
<1> SUFFICES ASSUME NEW bit \in ByteAt(D!Load(p, i, n, at), k) PROVE FALSE
  OBVIOUS
<1>1. << bit[1], bit[2], k >> \in D!Load(p, i, n, at)
  BY DEF ByteAt
<1>2. PICK x \in 0 .. n - 1 : << bit[1], bit[2], k >> \in {<< c[1], c[2], at + x >> : c \in p.byte[i + x]}
  BY <1>1 DEF D!Load
<1>3. PICK c \in p.byte[i + x] : << bit[1], bit[2], k >> = << c[1], c[2], at + x >>
  BY <1>2
<1>4. k = at + x
  BY <1>3
<1> QED BY <1>4

\* The bytes of two loads.
LEMMA ByteAtCup ==
  ASSUME NEW x, NEW y, NEW k PROVE ByteAt(x \cup y, k) = ByteAt(x, k) \cup ByteAt(y, k)
  BY DEF ByteAt

\* Two slices of one length are equal if their bytes are.
LEMMA SameSlices ==
  ASSUME NEW p1, D!IsSlice(p1), NEW p2, D!IsSlice(p2), p1.len = p2.len,
         \A i \in 0 .. p1.len - 1 : p1.byte[i] = p2.byte[i]
  PROVE  p1 = p2
<1>1. p1.byte = [i \in 0 .. p1.len - 1 |-> p1.byte[i]] /\ p2.byte = [i \in 0 .. p1.len - 1 |-> p2.byte[i]]
  BY DEF D!IsSlice
<1>2. p1.byte = p2.byte
  BY <1>1
<1> QED BY <1>2 DEF D!IsSlice

\* A word of eight bytes tells them.
LEMMA WordTells ==
  ASSUME NEW p1, D!IsSlice(p1), NEW p2, D!IsSlice(p2), p1.len = p2.len,
         NEW i \in Nat, i + 8 <= p1.len, D!le64(p1, i) = D!le64(p2, i), NEW k \in i .. i + 7
  PROVE  p1.byte[k] = p2.byte[k]
<1>1. k - i \in 0 .. 8 - 1 /\ 8 \in Nat /\ 0 \in Nat /\ i + (k - i) = k
  OBVIOUS
<1>2. ByteAt(D!Load(p1, i, 8, 0), 0 + (k - i)) = p1.byte[i + (k - i)]
  BY <1>1, LoadByte
<1>3. ByteAt(D!Load(p2, i, 8, 0), 0 + (k - i)) = p2.byte[i + (k - i)]
  BY <1>1, LoadByte
<1> QED BY <1>1, <1>2, <1>3 DEF D!le64

\* The words of up to 16 bytes, class by class.
LEMMA Words16Classes ==
  ASSUME NEW p, p.len \in 0 .. 16
  PROVE  /\ p.len = 0 => D!Words16(p) = << {}, {} >>
         /\ p.len \in 1 .. 3 =>
              D!Words16(p) = << D!Load(p, 0, 1, 0) \cup D!Load(p, p.len \div 2, 1, 1)
                                                   \cup D!Load(p, p.len - 1, 1, 2), {} >>
         /\ p.len \in 4 .. 8 =>
              D!Words16(p) = << D!Load(p, 0, 4, 0) \cup D!Load(p, p.len - 4, 4, 4), {} >>
         /\ p.len \in 9 .. 16 => D!Words16(p) = << D!le64(p, 0), D!le64(p, p.len - 8) >>
<1>1. CASE p.len = 0
  <2>1. p.len \notin 1 .. 3 /\ p.len \notin 4 .. 8 /\ p.len \notin 9 .. 16
    BY <1>1
  <2> QED BY Zenon, <1>1, <2>1 DEF D!Words16, D!Zero
<1>2. CASE p.len \in 1 .. 3
  <2>1. p.len # 0 /\ p.len \notin 4 .. 8 /\ p.len \notin 9 .. 16
    BY <1>2
  <2> QED BY Zenon, <1>2, <2>1 DEF D!Words16, D!Zero
<1>3. CASE p.len \in 4 .. 8
  <2>1. p.len # 0 /\ p.len \notin 1 .. 3 /\ p.len \notin 9 .. 16
    BY <1>3
  <2> QED BY Zenon, <1>3, <2>1 DEF D!Words16, D!Zero
<1>4. CASE p.len \in 9 .. 16
  <2>1. p.len # 0 /\ p.len \notin 1 .. 3 /\ p.len \notin 4 .. 8
    BY <1>4
  <2> QED BY Zenon, <1>4, <2>1 DEF D!Words16, D!Zero
<1> QED BY <1>1, <1>2, <1>3, <1>4

\* One to three bytes are in the places 0 to 2 of the first word.
LEMMA Bytes3 ==
  ASSUME NEW p, D!IsSlice(p), p.len \in 1 .. 3
  PROVE  /\ p.byte[0] = ByteAt(D!Words16(p)[1], 0)
         /\ p.byte[p.len \div 2] = ByteAt(D!Words16(p)[1], 1)
         /\ p.byte[p.len - 1] = ByteAt(D!Words16(p)[1], 2)
<1> DEFINE n == p.len
           half == n \div 2
           last == n - 1
           x == D!Load(p, 0, 1, 0)
           y == D!Load(p, half, 1, 1)
           z == D!Load(p, last, 1, 2)
           w == D!Words16(p)[1]
<1>1. w = (x \cup y) \cup z
  <2>1. n \in 0 .. 16
    OBVIOUS
  <2>2. D!Words16(p) = << (x \cup y) \cup z, {} >>
    BY <2>1, Words16Classes
  <2> HIDE DEF x, y, z
  <2> QED BY <2>2
<1>2. half \in Nat /\ half + 1 <= n /\ last \in Nat /\ last + 1 <= n /\ 0 + 1 <= n
  <2>1. n = 1 \/ n = 2 \/ n = 3
    OBVIOUS
  <2> QED BY <2>1
<1> HIDE DEF half, last
<1>3. ByteAt(x, 0) = p.byte[0] /\ ByteAt(y, 1) = p.byte[half] /\ ByteAt(z, 2) = p.byte[last]
  <2>1. ByteAt(x, 0) = p.byte[0]
    <3>1. 0 \in 0 .. 0 + 1 - 1 /\ 0 = 0 + (0 - 0)
      OBVIOUS
    <3> QED BY <1>2, <3>1, LoadedByte
  <2>2. ByteAt(y, 1) = p.byte[half]
    <3>1. half \in half .. half + 1 - 1 /\ 1 = 1 + (half - half)
      BY <1>2
    <3> QED BY <1>2, <3>1, LoadedByte
  <2>3. ByteAt(z, 2) = p.byte[last]
    <3>1. last \in last .. last + 1 - 1 /\ 2 = 2 + (last - last)
      BY <1>2
    <3> QED BY <1>2, <3>1, LoadedByte
  <2> QED BY <2>1, <2>2, <2>3
<1>4. /\ ByteAt(x, 1) = {} /\ ByteAt(x, 2) = {} /\ ByteAt(y, 0) = {} /\ ByteAt(y, 2) = {}
      /\ ByteAt(z, 0) = {} /\ ByteAt(z, 1) = {}
  <2>1. /\ 1 \notin 0 .. 0 + 1 - 1 /\ 2 \notin 0 .. 0 + 1 - 1 /\ 0 \notin 1 .. 1 + 1 - 1
        /\ 2 \notin 1 .. 1 + 1 - 1 /\ 0 \notin 2 .. 2 + 1 - 1 /\ 1 \notin 2 .. 2 + 1 - 1
    OBVIOUS
  <2> QED BY <2>1, LoadElsewhere
<1> HIDE DEF x, y, z, w
<1>5. ASSUME NEW k PROVE ByteAt(w, k) = (ByteAt(x, k) \cup ByteAt(y, k)) \cup ByteAt(z, k)
  <2>1. ByteAt((x \cup y) \cup z, k) = ByteAt(x \cup y, k) \cup ByteAt(z, k)
    BY ByteAtCup
  <2>2. ByteAt(x \cup y, k) = ByteAt(x, k) \cup ByteAt(y, k)
    BY ByteAtCup
  <2> QED BY <1>1, <2>1, <2>2
<1>6. ByteAt(w, 0) = p.byte[0] /\ ByteAt(w, 1) = p.byte[half] /\ ByteAt(w, 2) = p.byte[last]
  BY <1>3, <1>4, <1>5
<1> QED BY <1>6 DEF w, half, last

\* Four to eight bytes are in its places 0 to 3 and 4 to 7.
LEMMA Bytes8 ==
  ASSUME NEW p, D!IsSlice(p), p.len \in 4 .. 8, NEW j \in 0 .. 3
  PROVE  /\ p.byte[j] = ByteAt(D!Words16(p)[1], j)
         /\ p.byte[(p.len - 4) + j] = ByteAt(D!Words16(p)[1], 4 + j)
<1> DEFINE n == p.len
           tail == n - 4
           x == D!Load(p, 0, 4, 0)
           y == D!Load(p, tail, 4, 4)
           w == D!Words16(p)[1]
<1>1. w = x \cup y
  <2>1. n \in 0 .. 16
    OBVIOUS
  <2>2. D!Words16(p) = << x \cup y, {} >>
    BY <2>1, Words16Classes
  <2> HIDE DEF x, y
  <2> QED BY <2>2
<1>2. tail \in Nat /\ 0 + 4 <= n /\ tail + 4 <= n /\ j \in 0 .. 4 - 1
  OBVIOUS
<1> HIDE DEF tail
<1>3. ByteAt(x, j) = p.byte[j] /\ ByteAt(y, 4 + j) = p.byte[tail + j]
  <2>1. ByteAt(x, j) = p.byte[j]
    <3>1. /\ 0 \in Nat /\ 4 \in Nat /\ 0 + 4 <= p.len
          /\ j \in 0 .. 0 + 4 - 1 /\ j = 0 + (j - 0)
      OBVIOUS
    <3> HIDE DEF n
    <3>2. ByteAt(D!Load(p, 0, 4, 0), j) = p.byte[j]
      BY <3>1, LoadedByte, SMTT(30)
    <3> QED BY <3>2
  <2>2. ByteAt(y, 4 + j) = p.byte[tail + j]
    <3> DEFINE a == tail + j
               k == 4 + j
    <3>1. /\ 4 \in Nat /\ tail \in Nat /\ tail + 4 <= p.len
          /\ a \in tail .. tail + 4 - 1 /\ k = 4 + (a - tail)
      BY <1>2
    <3> HIDE DEF n, a, k
    <3>2. ByteAt(D!Load(p, tail, 4, 4), k) = p.byte[a]
      BY <3>1, LoadedByte, SMTT(30)
    <3> QED BY <3>2 DEF a, k
  <2> QED BY <2>1, <2>2
<1>4. ByteAt(x, 4 + j) = {} /\ ByteAt(y, j) = {}
  <2>1. 4 + j \notin 0 .. 0 + 4 - 1 /\ j \notin 4 .. 4 + 4 - 1 /\ 4 + j \in Int
    OBVIOUS
  <2> QED BY <2>1, LoadElsewhere
<1> HIDE DEF x, y, w
<1>5. \A k : ByteAt(w, k) = ByteAt(x, k) \cup ByteAt(y, k)
  BY <1>1, ByteAtCup
<1> QED BY <1>3, <1>4, <1>5 DEF w, tail

\* The words of up to 16 bytes tell them: every class covers its bytes.
LEMMA Words16Tell ==
  ASSUME NEW p1, D!IsSlice(p1), NEW p2, D!IsSlice(p2), p1.len = p2.len, p1.len \in 0 .. 16,
         D!Words16(p1)[1] = D!Words16(p2)[1], D!Words16(p1)[2] = D!Words16(p2)[2]
  PROVE  p1 = p2
<1> DEFINE n == p1.len
<1> SUFFICES ASSUME NEW k \in 0 .. n - 1 PROVE p1.byte[k] = p2.byte[k]
  BY SameSlices
<1>1. CASE n \in 1 .. 3
  <2>1. k = 0 \/ k = n \div 2 \/ k = n - 1
    BY <1>1
  <2>2. p1.byte[0] = p2.byte[0] /\ p1.byte[n \div 2] = p2.byte[n \div 2] /\ p1.byte[n - 1] = p2.byte[n - 1]
    BY <1>1, Bytes3
  <2> QED BY <2>1, <2>2
<1>2. CASE n \in 4 .. 8
  <2>1. CASE k \in 0 .. 3
    BY <1>2, <2>1, Bytes8
  <2>2. CASE k \notin 0 .. 3
    <3>1. k - (n - 4) \in 0 .. 3 /\ (n - 4) + (k - (n - 4)) = k
      BY <1>2, <2>2
    <3>2. p1.byte[(n - 4) + (k - (n - 4))] = ByteAt(D!Words16(p1)[1], 4 + (k - (n - 4)))
      BY <1>2, <3>1, Bytes8
    <3>3. p2.byte[(n - 4) + (k - (n - 4))] = ByteAt(D!Words16(p2)[1], 4 + (k - (n - 4)))
      BY <1>2, <3>1, Bytes8
    <3> QED BY <3>1, <3>2, <3>3
  <2> QED BY <2>1, <2>2
<1>3. CASE n \in 9 .. 16
  <2>1. /\ D!Words16(p1) = << D!le64(p1, 0), D!le64(p1, n - 8) >>
        /\ D!Words16(p2) = << D!le64(p2, 0), D!le64(p2, n - 8) >>
    BY <1>3, Words16Classes
  <2>2. D!le64(p1, 0) = D!le64(p2, 0) /\ D!le64(p1, n - 8) = D!le64(p2, n - 8)
    <3>1. \A a, z : << a, z >>[1] = a /\ << a, z >>[2] = z
      OBVIOUS
    <3> QED BY <2>1, <3>1
  <2>3. /\ 0 \in Nat /\ 0 + 8 <= n /\ n - 8 \in Nat /\ (n - 8) + 8 <= n
        /\ k \in 0 .. 0 + 7 \/ k \in n - 8 .. (n - 8) + 7
    BY <1>3
  <2> QED BY <2>2, <2>3, WordTells
<1>4. n \in 1 .. 3 \/ n \in 4 .. 8 \/ n \in 9 .. 16
  OBVIOUS
<1> QED BY <1>1, <1>2, <1>3, <1>4
-----------------------------------------------------------------------------
(* The words of a write of up to 16 bytes *)

\* The kinds of writes and their lengths.
Sized(kind, p) == /\ D!IsSlice(p)
                  /\ kind = "bytes" \/ (kind = "integer" /\ p.len \in {1, 2, 4, 8, 16})

\* The two words that a write of up to 16 bytes folds.
WordsOf(kind, p) ==
  IF kind = "bytes" THEN D!Words16(p)
  ELSE IF p.len <= 8 THEN << D!Load(p, 0, p.len, 0), {} >>
  ELSE << D!le64(p, 0), D!le64(p, 8) >>

\* A word of eight bytes is bits.
LEMMA WordTagged ==
  ASSUME NEW p, D!IsSlice(p), NEW i \in Nat, i + 8 <= p.len PROVE Tagged(D!le64(p, i), {"bit"})
<1>1. 8 \in Nat
  OBVIOUS
<1> QED BY <1>1, LoadTagged DEF D!le64

\* Nothing has any tag.
LEMMA EmptyTagged == ASSUME NEW tags PROVE Tagged({}, tags)
  BY DEF Tagged

\* The words of a write are bits.
LEMMA WordsTagged ==
  ASSUME NEW kind, NEW p, Sized(kind, p), p.len <= 16
  PROVE  Tagged(WordsOf(kind, p)[1], {"bit"}) /\ Tagged(WordsOf(kind, p)[2], {"bit"})
<1> DEFINE n == p.len
<1>1. D!IsSlice(p) /\ n \in Nat /\ n \in 0 .. 16
  <2>1. D!IsSlice(p)
    BY DEF Sized
  <2>2. n \in Nat
    BY <2>1 DEF D!IsSlice
  <2> QED BY <2>1, <2>2
<1>2. \A a, z : << a, z >>[1] = a /\ << a, z >>[2] = z
  OBVIOUS
<1>3. Tagged({}, {"bit"})
  BY EmptyTagged
<1>4. ASSUME NEW x, NEW y, Tagged(x, {"bit"}), Tagged(y, {"bit"}) PROVE Tagged(x \cup y, {"bit"})
  BY <1>4 DEF Tagged
<1>5. CASE kind = "integer"
  <2>1. CASE n <= 8
    <3>1. Tagged(D!Load(p, 0, n, 0), {"bit"})
      <4>1. 0 \in Nat /\ 0 + n <= n
        BY <1>1
      <4> QED BY <1>1, <4>1, LoadTagged
    <3>2. WordsOf(kind, p) = << D!Load(p, 0, n, 0), {} >>
      BY <1>5, <2>1 DEF WordsOf
    <3> QED BY <1>2, <1>3, <3>1, <3>2
  <2>2. CASE ~(n <= 8)
    <3>1. WordsOf(kind, p) = << D!le64(p, 0), D!le64(p, 8) >>
      BY <1>5, <2>2 DEF WordsOf
    <3>2. 0 \in Nat /\ 0 + 8 <= n /\ 8 \in Nat /\ 8 + 8 <= n
      BY <1>5, <2>2 DEF Sized
    <3>3. Tagged(D!le64(p, 0), {"bit"}) /\ Tagged(D!le64(p, 8), {"bit"})
      BY <1>1, <3>2, WordTagged
    <3> QED BY <1>2, <3>1, <3>3
  <2> QED BY <2>1, <2>2
<1>6. CASE kind = "bytes"
  <2>1. WordsOf(kind, p) = D!Words16(p)
    BY <1>6 DEF WordsOf
  <2>2. CASE n = 0
    <3>1. D!Words16(p) = << {}, {} >>
      BY <1>1, <2>2, Words16Classes
    <3> QED BY <1>2, <1>3, <2>1, <3>1
  <2>3. CASE n \in 1 .. 3
    <3> DEFINE half == n \div 2
               last == n - 1
               x == D!Load(p, 0, 1, 0)
               y == D!Load(p, half, 1, 1)
               z == D!Load(p, last, 1, 2)
    <3>1. D!Words16(p) = << (x \cup y) \cup z, {} >>
      BY <1>1, <2>3, Words16Classes
    <3>2. /\ half \in Nat /\ half + 1 <= n /\ last \in Nat /\ last + 1 <= n /\ 0 + 1 <= n
          /\ 0 \in Nat /\ 1 \in Nat
      <4>1. n = 1 \/ n = 2 \/ n = 3
        BY <2>3
      <4> QED BY <4>1
    <3> HIDE DEF half, last
    <3>3. Tagged(x, {"bit"}) /\ Tagged(y, {"bit"}) /\ Tagged(z, {"bit"})
      BY <1>1, <3>2, LoadTagged
    <3> HIDE DEF x, y, z
    <3>4. Tagged((x \cup y) \cup z, {"bit"})
      BY <1>4, <3>3
    <3> QED BY <1>2, <1>3, <2>1, <3>1, <3>4
  <2>4. CASE n \in 4 .. 8
    <3> DEFINE tail == n - 4
               x == D!Load(p, 0, 4, 0)
               y == D!Load(p, tail, 4, 4)
    <3>1. D!Words16(p) = << x \cup y, {} >>
      BY <1>1, <2>4, Words16Classes
    <3>2. tail \in Nat /\ tail + 4 <= n /\ 0 + 4 <= n /\ 0 \in Nat /\ 4 \in Nat
      BY <2>4
    <3> HIDE DEF tail
    <3>3. Tagged(x, {"bit"}) /\ Tagged(y, {"bit"})
      BY <1>1, <3>2, LoadTagged
    <3> HIDE DEF x, y
    <3> QED BY <1>2, <1>3, <1>4, <2>1, <3>1, <3>3
  <2>5. CASE n \in 9 .. 16
    <3>1. D!Words16(p) = << D!le64(p, 0), D!le64(p, n - 8) >>
      BY <1>1, <2>5, Words16Classes
    <3>2. 0 \in Nat /\ 0 + 8 <= n /\ n - 8 \in Nat /\ (n - 8) + 8 <= n
      BY <2>5
    <3>3. Tagged(D!le64(p, 0), {"bit"}) /\ Tagged(D!le64(p, n - 8), {"bit"})
      BY <1>1, <3>2, WordTagged
    <3> QED BY <1>2, <2>1, <3>1, <3>3
  <2>6. n = 0 \/ n \in 1 .. 3 \/ n \in 4 .. 8 \/ n \in 9 .. 16
    BY <1>1
  <2> QED BY <2>2, <2>3, <2>4, <2>5, <2>6
<1> QED BY <1>5, <1>6 DEF Sized

\* The words tell the data of a write, if their length is known.
LEMMA WordsTell ==
  ASSUME NEW kind, NEW p1, Sized(kind, p1), NEW p2, Sized(kind, p2), p1.len = p2.len, p1.len <= 16,
         WordsOf(kind, p1)[1] = WordsOf(kind, p2)[1], WordsOf(kind, p1)[2] = WordsOf(kind, p2)[2]
  PROVE  p1 = p2
<1> DEFINE n == p1.len
<1>1. D!IsSlice(p1) /\ D!IsSlice(p2) /\ n \in Nat /\ n \in 0 .. 16
  BY DEF Sized, D!IsSlice
<1>2. CASE kind = "bytes"
  BY <1>1, <1>2, Words16Tell DEF WordsOf
<1>3. CASE kind = "integer"
  <2> SUFFICES ASSUME NEW k \in 0 .. n - 1 PROVE p1.byte[k] = p2.byte[k]
    BY <1>1, SameSlices
  <2>1. \A a, z : << a, z >>[1] = a /\ << a, z >>[2] = z
    OBVIOUS
  <2>2. CASE n <= 8
    <3>1. D!Load(p1, 0, n, 0) = D!Load(p2, 0, n, 0)
      <4>1. /\ WordsOf(kind, p1) = << D!Load(p1, 0, n, 0), {} >>
            /\ WordsOf(kind, p2) = << D!Load(p2, 0, n, 0), {} >>
        BY <1>3, <2>2 DEF WordsOf
      <4> QED BY <2>1, <4>1
    <3>2. 0 \in Nat /\ 0 + n <= p1.len /\ 0 + n <= p2.len /\ k \in 0 .. 0 + n - 1 /\ k = 0 + (k - 0)
      BY <1>1
    <3> HIDE DEF n
    <3>3. ByteAt(D!Load(p1, 0, n, 0), k) = p1.byte[k]
      BY <1>1, <3>2, LoadedByte
    <3>4. ByteAt(D!Load(p2, 0, n, 0), k) = p2.byte[k]
      BY <1>1, <3>2, LoadedByte
    <3> QED BY <3>1, <3>3, <3>4
  <2>3. CASE ~(n <= 8)
    <3>1. n = 16
      BY <1>3, <2>3 DEF Sized
    <3>2. D!le64(p1, 0) = D!le64(p2, 0) /\ D!le64(p1, 8) = D!le64(p2, 8)
      <4>1. /\ WordsOf(kind, p1) = << D!le64(p1, 0), D!le64(p1, 8) >>
            /\ WordsOf(kind, p2) = << D!le64(p2, 0), D!le64(p2, 8) >>
        BY <1>3, <2>3 DEF WordsOf
      <4> QED BY <2>1, <4>1
    <3>3. 0 \in Nat /\ 0 + 8 <= n /\ 8 \in Nat /\ 8 + 8 <= n /\ (k \in 0 .. 0 + 7 \/ k \in 8 .. 8 + 7)
      BY <3>1
    <3> QED BY <1>1, <3>2, <3>3, WordTells
  <2> QED BY <2>2, <2>3
<1> QED BY <1>2, <1>3 DEF Sized
-----------------------------------------------------------------------------
(* One fold of a write *)

\* Data w and v, an accumulator a and a length m under the keys i and j.
Mix(w, i, a, v, j, m) == Folded((w \oplus i) \oplus a, (v \oplus j) \oplus m)

\* The atom e of the key j is in no other part, and the accumulator has nothing
\* in common with what it is xored to.
Marked(e, w, i, a, v, j, m) == /\ e \in j
                               /\ e \notin w /\ e \notin i /\ e \notin a /\ e \notin v /\ e \notin m
                               /\ a # {} /\ a \cap i = {} /\ a \cap w = {}

\* Then it is a fold of the code,
LEMMA MixIs ==
  ASSUME NEW e, NEW w, NEW i, NEW a, NEW v, NEW j, NEW m, Marked(e, w, i, a, v, j, m)
  PROVE  /\ D!fold(D!\oplus(D!\oplus(w, i), a), D!\oplus(D!\oplus(v, j), m)) = Mix(w, i, a, v, j, m)
         /\ A!fold(A!\oplus(A!\oplus(w, i), a), A!\oplus(A!\oplus(v, j), m)) = Mix(w, i, a, v, j, m)
<1> DEFINE x == (w \oplus i) \oplus a
           y == (v \oplus j) \oplus m
<1>1. x # {}
  <2>1. PICK z \in a : z \notin w /\ z \notin i
    BY DEF Marked
  <2>2. z \in x
    BY <2>1 DEF \oplus
  <2> QED BY <2>2
<1>2. e \in y
  BY DEF Marked, \oplus
<1>3. /\ D!\oplus(D!\oplus(w, i), a) = x /\ D!\oplus(D!\oplus(v, j), m) = y
      /\ A!\oplus(A!\oplus(w, i), a) = x /\ A!\oplus(A!\oplus(v, j), m) = y
  BY WordOps
<1>4. Mix(w, i, a, v, j, m) = Folded(x, y)
  BY DEF Mix
<1> HIDE DEF x, y
<1>5. D!fold(x, y) = Folded(x, y) /\ A!fold(x, y) = Folded(x, y)
  BY <1>1, <1>2, WordOps
<1> QED BY <1>3, <1>4, <1>5

\* and gives back its parts: no data cancel against the accumulator.
LEMMA Unmix ==
  ASSUME NEW e, NEW i, NEW j,
         NEW w1, NEW a1, NEW v1, NEW m1, Marked(e, w1, i, a1, v1, j, m1),
         NEW w2, NEW a2, NEW v2, NEW m2, Marked(e, w2, i, a2, v2, j, m2),
         a1 \cap w2 = {}, a2 \cap w1 = {},
         Mix(w1, i, a1, v1, j, m1) = Mix(w2, i, a2, v2, j, m2)
  PROVE  w1 = w2 /\ a1 = a2 /\ v1 \oplus m1 = v2 \oplus m2
<1>1. e \in (v1 \oplus j) \oplus m1 /\ e \notin (w2 \oplus i) \oplus a2
  BY DEF Marked, \oplus
<1>2. (w1 \oplus i) \oplus a1 = (w2 \oplus i) \oplus a2 /\ (v1 \oplus j) \oplus m1 = (v2 \oplus j) \oplus m2
  BY <1>1, SplitFold DEF Mix
<1>3. v1 \oplus m1 = v2 \oplus m2
  <2>1. (v1 \oplus m1) \oplus j = (v2 \oplus m2) \oplus j
    BY <1>2, Swap
  <2> QED BY <2>1, Cancel
<1>4. w1 \oplus a1 = w2 \oplus a2
  <2>1. (w1 \oplus a1) \oplus i = (w2 \oplus a2) \oplus i
    BY <1>2, Swap
  <2> QED BY <2>1, Cancel
<1>5. w1 = w2 /\ a1 = a2
  BY <1>4, SplitXor DEF Marked
<1> QED BY <1>3, <1>5
-----------------------------------------------------------------------------
(* The default function: a write of up to 16 bytes *)

\* The keys of the default function.
KSat(i)    == {<< "KS", i >>}
KFat(i)    == {<< "KF", i >>}
Foldsat(i) == {<< "folds", i >>}

\* The constants of the default function are these keys.
LEMMA Constants ==
  /\ \A i : D!KS(i) = KSat(i) /\ D!KF(i) = KFat(i) /\ D!S(i) = Foldsat(i)
  BY DEF D!KS, D!KF, D!S, D!Const, KSat, KFat, Foldsat

\* The tags of the keys.
LEMMA KeysTagged ==
  ASSUME NEW i
  PROVE  Tagged(KSat(i), {"KS"}) /\ Tagged(KFat(i), {"KF"}) /\ Tagged(Foldsat(i), {"folds"})
  BY DEF Tagged, KSat, KFat, Foldsat

\* No factor of a fold in x is that of the hash of a long input.
NoLong(x) == \A c, d : << "fold", {c, d} >> \in x => << "folds", 8 >> \notin d

\* A fold whose factors lack the key 8 is not the hash of a long input.
LEMMA NoLongFolded ==
  ASSUME NEW c, NEW d, << "folds", 8 >> \notin c, << "folds", 8 >> \notin d
  PROVE  NoLong(Folded(c, d))
<1> SUFFICES ASSUME NEW c1, NEW d1, << "fold", {c1, d1} >> \in Folded(c, d)
             PROVE  << "folds", 8 >> \notin d1
  BY DEF NoLong
<1>1. << "fold", {c1, d1} >> = << "fold", {c, d} >>
  BY DEF Folded
<1>2. {c1, d1} = {c, d}
  BY <1>1
<1> QED BY <1>2

\* An accumulator of the default function: a seed with a constant, or a fold
\* that is not the hash of a long input.
AccTags == {"seed", "KF", "fold"}
Acc(x)  == x # {} /\ Tagged(x, AccTags) /\ NoLong(x)

\* A hasher of the default function with the seed q.
Default(h, q) == h = [acc |-> h.acc, seed |-> q] /\ Acc(h.acc)

\* A write of the default function by its kind.
ApplyD(kind, h, p) == IF kind = "bytes" THEN D!write(h, p) ELSE D!write_int(h, p)

\* Two keys of the default function mark the factors.
LEMMA KeyMarks ==
  ASSUME NEW w, Tagged(w, {"bit", "fold"}), NEW a, Acc(a), a \cap w = {},
         NEW v, Tagged(v, {"bit"}), NEW m, Tagged(m, {"bit"}), NEW i, NEW j, i # j
  PROVE  Marked(<< "KS", j >>, w, KSat(i), a, v, KSat(j), m)
<1>1. << "KS", j >>[1] = "KS" /\ << "KS", i >>[1] = "KS" /\ << "KS", j >> # << "KS", i >>
  OBVIOUS
<1>2. << "KS", j >> \notin w /\ << "KS", j >> \notin a /\ << "KS", j >> \notin v /\ << "KS", j >> \notin m
  BY <1>1 DEF Tagged, Acc, AccTags
<1>3. a \cap KSat(i) = {}
  BY <1>1 DEF KSat, Tagged, Acc, AccTags
<1>4. << "KS", j >> \in KSat(j) /\ << "KS", j >> \notin KSat(i)
  BY <1>1 DEF KSat
<1> QED BY <1>2, <1>3, <1>4 DEF Marked, Acc

\* An accumulator has nothing in common with bits.
LEMMA AccApart == ASSUME NEW a, Acc(a), NEW w, Tagged(w, {"bit"}) PROVE a \cap w = {}
  BY DEF Acc, AccTags, Tagged

\* A fold with such keys is an accumulator.
LEMMA MixAcc ==
  ASSUME NEW w, Tagged(w, {"bit", "fold"}), NEW a, Acc(a),
         NEW v, Tagged(v, {"bit"}), NEW m, Tagged(m, {"bit"}), NEW i, NEW j
  PROVE  Acc(Mix(w, KSat(i), a, v, KSat(j), m))
<1> DEFINE e == << "folds", 8 >>
<1>1. e[1] = "folds" /\ << "KS", i >>[1] = "KS" /\ << "KS", j >>[1] = "KS"
  OBVIOUS
<1>2. e \notin w /\ e \notin a /\ e \notin v /\ e \notin m
  BY <1>1 DEF Tagged, Acc, AccTags
<1>3. e \notin KSat(i) /\ e \notin KSat(j)
  BY <1>1 DEF KSat
<1>4. e \notin (w \oplus KSat(i)) \oplus a /\ e \notin (v \oplus KSat(j)) \oplus m
  BY <1>2, <1>3 DEF \oplus
<1>5. NoLong(Mix(w, KSat(i), a, v, KSat(j), m))
  BY <1>4, NoLongFolded DEF Mix
<1>6. Tagged(Mix(w, KSat(i), a, v, KSat(j), m), AccTags) /\ Mix(w, KSat(i), a, v, KSat(j), m) # {}
  BY DEF Mix, Folded, Tagged, AccTags
<1> QED BY <1>5, <1>6 DEF Acc

\* A write of up to 16 bytes folds its words with the accumulator and the length.
DefaultMix(kind, p, a) ==
  Mix(WordsOf(kind, p)[1], KSat(0), a, WordsOf(kind, p)[2], KSat(1), D!Number(p.len))
DefaultMarked(kind, p, a) ==
  Marked(<< "KS", 1 >>, WordsOf(kind, p)[1], KSat(0), a, WordsOf(kind, p)[2], KSat(1), D!Number(p.len))

LEMMA DefaultShort ==
  ASSUME NEW kind, NEW p, Sized(kind, p), p.len <= 16, NEW h, NEW q, Default(h, q)
  PROVE  /\ ApplyD(kind, h, p) = [acc |-> DefaultMix(kind, p, h.acc), seed |-> q]
         /\ DefaultMarked(kind, p, h.acc)
         /\ Acc(DefaultMix(kind, p, h.acc))
<1> DEFINE w == WordsOf(kind, p)
           m == D!Number(p.len)
           x == Mix(w[1], KSat(0), h.acc, w[2], KSat(1), m)
<1>1. Tagged(w[1], {"bit"}) /\ Tagged(w[2], {"bit"}) /\ Tagged(w[1], {"bit", "fold"}) /\ Tagged(m, {"bit"})
  BY WordsTagged, NumberTagged, TaggedMore
<1>2. Acc(h.acc) /\ h.acc \cap w[1] = {}
  BY <1>1, AccApart DEF Default
<1>3. DefaultMarked(kind, p, h.acc)
  <2> HIDE DEF w, m
  <2>1. Marked(<< "KS", 1 >>, w[1], KSat(0), h.acc, w[2], KSat(1), m)
    BY <1>1, <1>2, KeyMarks
  <2> QED BY <2>1 DEF DefaultMarked, w, m
<1>4. D!fold(D!\oplus(D!\oplus(w[1], D!KS(0)), h.acc), D!\oplus(D!\oplus(w[2], D!KS(1)), m)) = x
  <2>1. D!KS(0) = KSat(0) /\ D!KS(1) = KSat(1)
    BY Constants
  <2> QED BY <1>3, <2>1, MixIs DEF DefaultMarked
<1>5. Acc(x)
  <2> HIDE DEF w, m
  <2> QED BY <1>1, <1>2, MixAcc
<1>6. ApplyD(kind, h, p) = [h EXCEPT !.acc = x]
  <2> HIDE DEF x
  <2>1. CASE kind = "bytes"
    <3>1. ~(p.len > 16)
      BY DEF Sized, D!IsSlice
    <3>2. D!write(h, p) = [h EXCEPT !.acc = x]
      BY <1>4, <2>1, <3>1 DEF D!write, WordsOf
    <3> QED BY <2>1, <3>2 DEF ApplyD
  <2>2. CASE kind = "integer" /\ p.len <= 8
    <3>1. w = << D!Load(p, 0, p.len, 0), {} >>
      BY <2>2 DEF WordsOf
    <3>2. w[1] = D!Load(p, 0, p.len, 0) /\ w[2] = {}
      BY <3>1
    <3>3. D!\oplus({}, D!KS(1)) = D!KS(1)
      BY DEF D!\oplus
    <3> HIDE DEF w
    <3>4. D!write_int(h, p) = [h EXCEPT !.acc = x]
      BY <1>4, <2>2, <3>2, <3>3 DEF D!write_int
    <3> QED BY <2>2, <3>4 DEF ApplyD
  <2>3. CASE kind = "integer" /\ ~(p.len <= 8)
    <3>1. w = << D!le64(p, 0), D!le64(p, 8) >> /\ p.len = 16
      BY <2>3 DEF WordsOf, Sized
    <3>2. w[1] = D!le64(p, 0) /\ w[2] = D!le64(p, 8)
      BY <3>1
    <3> HIDE DEF w
    <3>3. D!write_int(h, p) = [h EXCEPT !.acc = x]
      BY <1>4, <2>3, <3>1, <3>2 DEF D!write_int
    <3> QED BY <2>3, <3>3 DEF ApplyD
  <2> QED BY <2>1, <2>2, <2>3 DEF Sized
<1>7. ApplyD(kind, h, p) = [acc |-> x, seed |-> q]
  <2> HIDE DEF x
  <2> QED BY <1>6 DEF Default
<1> QED BY <1>3, <1>5, <1>7 DEF DefaultMix

\* Writes that are compared: of one kind, of one length or short byte writes.
Alike(kind, p1, p2) == p1.len = p2.len \/ (kind = "bytes" /\ p1.len <= 8 /\ p2.len <= 8)

\* Short writes with the same words and, in the second, the same xor of their
\* lengths have the same data.
LEMMA AlikeWords ==
  ASSUME NEW kind, NEW p1, Sized(kind, p1), NEW p2, Sized(kind, p2), Alike(kind, p1, p2), p1.len <= 16,
         WordsOf(kind, p1)[1] = WordsOf(kind, p2)[1],
         WordsOf(kind, p1)[2] \oplus D!Number(p1.len) = WordsOf(kind, p2)[2] \oplus D!Number(p2.len)
  PROVE  p1 = p2
<1>1. p1.len \in Nat /\ p2.len \in Nat
  BY DEF Sized, D!IsSlice
<1>2. ASSUME NEW p, Sized(kind, p), kind = "bytes", p.len <= 8 PROVE WordsOf(kind, p)[2] = {}
  <2>1. D!IsSlice(p)
    BY <1>2 DEF Sized
  <2>2. p.len \in Nat
    BY <2>1 DEF D!IsSlice
  <2>3. p.len = 0 \/ p.len \in 1 .. 3 \/ p.len \in 4 .. 8
    BY <1>2, <2>2
  <2>4. p.len \in 0 .. 16
    BY <1>2, <2>2
  <2>5. \E x : D!Words16(p) = << x, {} >>
    BY <2>3, <2>4, Words16Classes
  <2> QED BY <1>2, <2>5 DEF WordsOf
<1>3. p1.len = p2.len
  <2>1. CASE p1.len # p2.len
    <3>1. kind = "bytes" /\ p1.len <= 8 /\ p2.len <= 8
      BY <2>1 DEF Alike
    <3>2. WordsOf(kind, p1)[2] = {} /\ WordsOf(kind, p2)[2] = {}
      BY <1>2, <3>1
    <3>3. D!Number(p1.len) = D!Number(p2.len)
      BY <3>2, XorEmpty
    <3>4. p1.len \in 0 .. 8 /\ p2.len \in 0 .. 8
      BY <1>1, <3>1
    <3> QED BY <3>3, <3>4, NumberInjective
  <2> QED BY <2>1
<1>4. WordsOf(kind, p1)[2] = WordsOf(kind, p2)[2]
  BY <1>3, Cancel
<1> QED BY <1>3, <1>4, WordsTell

\* The fold of up to 16 bytes gives back the accumulator before and the data.
LEMMA PeelDefaultShort ==
  ASSUME NEW kind, NEW p1, Sized(kind, p1), NEW p2, Sized(kind, p2), Alike(kind, p1, p2),
         p1.len <= 16, p2.len <= 16, NEW a1, Acc(a1), NEW a2, Acc(a2),
         DefaultMarked(kind, p1, a1), DefaultMarked(kind, p2, a2),
         DefaultMix(kind, p1, a1) = DefaultMix(kind, p2, a2)
  PROVE  a1 = a2 /\ p1 = p2
<1> DEFINE w1 == WordsOf(kind, p1)
           w2 == WordsOf(kind, p2)
<1>1. a1 \cap w2[1] = {} /\ a2 \cap w1[1] = {}
  BY WordsTagged, AccApart
<1>2. /\ w1[1] = w2[1] /\ a1 = a2
      /\ w1[2] \oplus D!Number(p1.len) = w2[2] \oplus D!Number(p2.len)
  <2> HIDE DEF w1, w2
  <2> QED BY <1>1, Unmix DEF DefaultMarked, DefaultMix, w1, w2
<1> QED BY <1>2, AlikeWords
-----------------------------------------------------------------------------
(* The default function: a write of 17 to 64 bytes *)

\* A function s with the recursion of CrossMums.
CrossOf(m, n, s) ==
  s = [i \in 0 .. n |->
         IF i = 0 THEN << D!Zero, D!Zero >>
         ELSE << D!\oplus(s[i - 1][1], m[i][IF i % 2 = 1 THEN 1 ELSE 3 - 1]),
                 D!\oplus(s[i - 1][2], m[i][IF i % 2 = 1 THEN 2 ELSE 3 - 2]) >>]

\* The products of the operands.
Mums(ops) == [i \in DOMAIN ops |-> D!mum(ops[i][1], ops[i][2])]

\* CrossMums is that recursion, over the products.
LEMMA CrossIs ==
  ASSUME NEW ops, NEW n \in Nat, DOMAIN ops = 1 .. n, Len(ops) = n,
         NEW s, CrossOf(Mums(ops), n, s)
  PROVE  \E f : CrossOf(Mums(ops), n, f) /\ D!CrossMums(ops, D!NoZero) = f[n]
<1> DEFINE in == D!AtInput(ops, D!NoZero)
           m == [i \in DOMAIN ops |-> D!mum(in[i][1], in[i][2])]
           f == CHOOSE f : CrossOf(m, n, f)
<1>1. m = Mums(ops)
  <2>1. ASSUME NEW i \in DOMAIN ops PROVE in[i][1] = ops[i][1] /\ in[i][2] = ops[i][2]
    <3>1. << i, 1 >> # << 0, 0 >> /\ << i, 2 >> # << 0, 0 >>
      OBVIOUS
    <3> QED BY <3>1 DEF D!AtInput, D!NoZero
  <2> HIDE DEF in
  <2>2. \A i \in DOMAIN ops : D!mum(in[i][1], in[i][2]) = D!mum(ops[i][1], ops[i][2])
    BY <2>1
  <2> QED BY <2>2 DEF Mums
<1>2. D!CrossMums(ops, D!NoZero) = f[n]
  BY DEF D!CrossMums, CrossOf
<1> HIDE DEF m, in
<1>3. CrossOf(m, n, f)
  <2>1. \E x : CrossOf(m, n, x)
    BY <1>1
  <2> QED BY <2>1, Zenon
<1> HIDE DEF f
<1> QED BY <1>1, <1>2, <1>3

\* The second word to xor in is that of the other side, by turns.
LEMMA CrossFour ==
  ASSUME NEW ops, NEW n \in {2, 4}, DOMAIN ops = 1 .. n, Len(ops) = n
  PROVE  LET m  == Mums(ops)
             u2 == (({} \oplus m[1][1]) \oplus m[2][2])
             v2 == (({} \oplus m[1][2]) \oplus m[2][1])
         IN  D!CrossMums(ops, D!NoZero) =
               IF n = 2 THEN << u2, v2 >>
               ELSE << (u2 \oplus m[3][1]) \oplus m[4][2], (v2 \oplus m[3][2]) \oplus m[4][1] >>
<1> DEFINE m == Mums(ops)
           u1 == {} \oplus m[1][1]
           v1 == {} \oplus m[1][2]
           u2 == u1 \oplus m[2][2]
           v2 == v1 \oplus m[2][1]
           u3 == u2 \oplus m[3][1]
           v3 == v2 \oplus m[3][2]
           u4 == u3 \oplus m[4][2]
           v4 == v3 \oplus m[4][1]
           s == [i \in 0 .. n |-> IF i = 0 THEN << {}, {} >>
                                  ELSE IF i = 1 THEN << u1, v1 >>
                                  ELSE IF i = 2 THEN << u2, v2 >>
                                  ELSE IF i = 3 THEN << u3, v3 >> ELSE << u4, v4 >>]
           Turn(f, i) == << f[i - 1][1] \oplus m[i][IF i % 2 = 1 THEN 1 ELSE 3 - 1],
                            f[i - 1][2] \oplus m[i][IF i % 2 = 1 THEN 2 ELSE 3 - 2] >>
<1>1. \A f : CrossOf(m, n, f) <=>
               f = [i \in 0 .. n |-> IF i = 0 THEN << {}, {} >> ELSE Turn(f, i)]
  BY WordOps DEF CrossOf, D!Zero
<1>2. /\ 1 % 2 = 1 /\ 2 % 2 = 0 /\ 3 % 2 = 1 /\ 4 % 2 = 0
      /\ 1 - 1 = 0 /\ 2 - 1 = 1 /\ 3 - 1 = 2 /\ 4 - 1 = 3 /\ 3 - 2 = 1
  OBVIOUS
<1>3. \A f : /\ Turn(f, 1) = << f[0][1] \oplus m[1][1], f[0][2] \oplus m[1][2] >>
             /\ Turn(f, 2) = << f[1][1] \oplus m[2][2], f[1][2] \oplus m[2][1] >>
             /\ Turn(f, 3) = << f[2][1] \oplus m[3][1], f[2][2] \oplus m[3][2] >>
             /\ Turn(f, 4) = << f[3][1] \oplus m[4][2], f[3][2] \oplus m[4][1] >>
  BY <1>2
<1> HIDE DEF Turn, m
<1>4. n \in {2, 4}
  OBVIOUS
<1>5. ASSUME NEW f, f[0] = << {}, {} >>, f[1] = Turn(f, 1), f[2] = Turn(f, 2)
      PROVE  f[1] = << u1, v1 >> /\ f[2] = << u2, v2 >>
  <2>1. f[0][1] = {} /\ f[0][2] = {}
    BY <1>5
  <2>2. f[1] = << u1, v1 >>
    BY <1>3, <1>5, <2>1, ZenonT(30)
  <2> HIDE DEF u1, v1
  <2>3. f[1][1] = u1 /\ f[1][2] = v1
    BY <2>2
  <2>4. f[2] = << f[1][1] \oplus m[2][2], f[1][2] \oplus m[2][1] >>
    BY <1>3, <1>5, ZenonT(30)
  <2> QED BY <2>2, <2>3, <2>4
<1>6. ASSUME NEW f, f[2] = << u2, v2 >>, f[3] = Turn(f, 3), f[4] = Turn(f, 4)
      PROVE  f[3] = << u3, v3 >> /\ f[4] = << u4, v4 >>
  <2> HIDE DEF u2, v2
  <2>1. f[2][1] = u2 /\ f[2][2] = v2
    BY <1>6
  <2>2. f[3] = << u3, v3 >>
    BY <1>3, <1>6, <2>1, ZenonT(30)
  <2> HIDE DEF u3, v3
  <2>3. f[3][1] = u3 /\ f[3][2] = v3
    BY <2>2
  <2>4. f[4] = << f[3][1] \oplus m[4][2], f[3][2] \oplus m[4][1] >>
    BY <1>3, <1>6, ZenonT(30)
  <2> QED BY <2>2, <2>3, <2>4
<1>7. ASSUME NEW i \in 0 .. n, i # 0 PROVE s[i] = Turn(s, i)
  <2>1. s[0] = << {}, {} >> /\ s[1] = << u1, v1 >> /\ s[2] = << u2, v2 >>
    BY <1>4
  <2>2. n = 4 => s[3] = << u3, v3 >> /\ s[4] = << u4, v4 >>
    OBVIOUS
  <2> HIDE DEF s
  <2>3. s[1] = Turn(s, 1)
    <3>1. s[0][1] = {} /\ s[0][2] = {}
      BY <2>1
    <3> QED BY <1>3, <2>1, <3>1, ZenonT(30)
  <2> HIDE DEF u1, v1
  <2>4. s[2] = Turn(s, 2)
    <3>1. s[1][1] = u1 /\ s[1][2] = v1
      BY <2>1
    <3> QED BY <1>3, <2>1, <3>1, ZenonT(30)
  <2> HIDE DEF u2, v2
  <2>5. n = 4 => s[3] = Turn(s, 3)
    <3>1. s[2][1] = u2 /\ s[2][2] = v2
      BY <2>1
    <3> QED BY <1>3, <2>2, <3>1, ZenonT(30)
  <2> HIDE DEF u3, v3
  <2>6. n = 4 => s[4] = Turn(s, 4)
    <3>1. n = 4 => s[3][1] = u3 /\ s[3][2] = v3
      BY <2>2
    <3> QED BY <1>3, <2>2, <3>1, ZenonT(30)
  <2>7. i = 1 \/ i = 2 \/ (n = 4 /\ i = 3) \/ (n = 4 /\ i = 4)
    BY <1>4, <1>7
  <2> QED BY <2>3, <2>4, <2>7, <2>5, <2>6
<1>8. CrossOf(m, n, s)
  <2>1. s = [i \in 0 .. n |-> s[i]] /\ s[0] = << {}, {} >>
    BY <1>4
  <2> HIDE DEF s
  <2>2. s = [i \in 0 .. n |-> IF i = 0 THEN << {}, {} >> ELSE Turn(s, i)]
    BY <1>7, <2>1
  <2> QED BY <1>1, <2>2
<1>9. PICK f : CrossOf(m, n, f) /\ D!CrossMums(ops, D!NoZero) = f[n]
  BY <1>4, <1>8, CrossIs DEF m
<1>10. \A i \in 0 .. n : f[i] = IF i = 0 THEN << {}, {} >> ELSE Turn(f, i)
  <2>1. f = [i \in 0 .. n |-> IF i = 0 THEN << {}, {} >> ELSE Turn(f, i)]
    BY <1>1, <1>9
  <2> DEFINE g == [i \in 0 .. n |-> IF i = 0 THEN << {}, {} >> ELSE Turn(f, i)]
  <2>2. \A i \in 0 .. n : g[i] = IF i = 0 THEN << {}, {} >> ELSE Turn(f, i)
    OBVIOUS
  <2>3. f = g
    BY <2>1
  <2> HIDE DEF g
  <2> QED BY <2>2, <2>3, Zenon
<1>11. f[1] = << u1, v1 >> /\ f[2] = << u2, v2 >>
  <2>1. 0 \in 0 .. n /\ 1 \in 0 .. n /\ 2 \in 0 .. n
    BY <1>4
  <2> QED BY <1>5, <1>10, <2>1
<1>12. n = 4 => f[4] = << u4, v4 >>
  <2>1. n = 4 => 3 \in 0 .. n /\ 4 \in 0 .. n
    BY <1>4
  <2> QED BY <1>6, <1>10, <1>11, <2>1
<1> QED BY <1>4, <1>9, <1>11, <1>12 DEF m

\* The tags of the operands of a multiply, and of what the multiplies leave.
OperandTags == {"bit", "KS", "fold"}
MidTags     == {"bit", "KS", "fold", "lo", "hi"}

\* The atoms of one tag.
PartOf(x, tag) == {e \in x : e[1] = tag}

\* Those of an xor.
LEMMA PartXor ==
  ASSUME NEW x, NEW y, NEW tag PROVE PartOf(x \oplus y, tag) = PartOf(x, tag) \oplus PartOf(y, tag)
  BY DEF PartOf, \oplus

\* Where the tag is none of those of a word, there are none.
LEMMA PartNone ==
  ASSUME NEW x, NEW tags, Tagged(x, tags), NEW tag, tag \notin tags PROVE PartOf(x, tag) = {}
  BY DEF PartOf, Tagged

\* The operands of a product, and its halves.
Pair(c, d) == Tagged(c, OperandTags) /\ Tagged(d, OperandTags) /\ c # {} /\ d # {}
Lo(c, d)   == {<< "lo", {c, d} >>}
Hi(c, d)   == {<< "hi", {c, d} >>}

\* A product adds its low half to the first and its high half to the second word.
LEMMA MumParts ==
  ASSUME NEW c, NEW d, Pair(c, d)
  PROVE  LET m == D!mum(c, d)
         IN  /\ Tagged(m[1], MidTags) /\ Tagged(m[2], MidTags)
             /\ PartOf(m[1], "lo") = Lo(c, d) /\ PartOf(m[1], "hi") = {}
             /\ PartOf(m[2], "lo") = {} /\ PartOf(m[2], "hi") = Hi(c, d)
<1> DEFINE l == Lo(c, d)
           g == Hi(c, d)
<1>1. D!mum(c, d) = << c \oplus l, d \oplus g >>
  <2>1. c # {} /\ d # {}
    BY DEF Pair
  <2>2. D!lo(c, d) = l /\ D!hi(c, d) = g
    BY <2>1 DEF D!lo, D!hi, D!Zero, Lo, Hi
  <2> QED BY <2>2, WordOps DEF D!mum
<1>2. /\ Tagged(l, {"lo"}) /\ Tagged(g, {"hi"})
      /\ PartOf(l, "lo") = l /\ PartOf(l, "hi") = {} /\ PartOf(g, "hi") = g /\ PartOf(g, "lo") = {}
  BY DEF Tagged, PartOf, Lo, Hi
<1> HIDE DEF l, g
<1>3. Tagged(c, MidTags) /\ Tagged(d, MidTags) /\ Tagged(l, MidTags) /\ Tagged(g, MidTags)
  BY <1>2 DEF Tagged, OperandTags, MidTags, Pair
<1>4. PartOf(c, "lo") = {} /\ PartOf(c, "hi") = {} /\ PartOf(d, "lo") = {} /\ PartOf(d, "hi") = {}
  <2>1. "lo" \notin OperandTags /\ "hi" \notin OperandTags
    BY DEF OperandTags
  <2> QED BY <2>1, PartNone DEF Pair
<1>5. Tagged(c \oplus l, MidTags) /\ Tagged(d \oplus g, MidTags)
  BY <1>3, TaggedXor
<1>6. /\ PartOf(c \oplus l, "lo") = l /\ PartOf(c \oplus l, "hi") = {}
      /\ PartOf(d \oplus g, "lo") = {} /\ PartOf(d \oplus g, "hi") = g
  <2>1. \A tag : /\ PartOf(c \oplus l, tag) = PartOf(c, tag) \oplus PartOf(l, tag)
                 /\ PartOf(d \oplus g, tag) = PartOf(d, tag) \oplus PartOf(g, tag)
    BY PartXor
  <2>2. \A y : {} \oplus y = y
    BY XorEmpty
  <2> QED BY <1>2, <1>4, <2>1, <2>2
<1>7. D!mum(c, d)[1] = c \oplus l /\ D!mum(c, d)[2] = d \oplus g
  BY <1>1
<1> QED BY <1>5, <1>6, <1>7 DEF l, g

\* The halves in the first of the two words: the low ones of the pairs 1 and 3,
\* the high ones of the pairs 2 and 4.
LEMMA CrossParts ==
  ASSUME NEW n \in {2, 4}, NEW ops, DOMAIN ops = 1 .. n, Len(ops) = n,
         \A i \in 1 .. n : Pair(ops[i][1], ops[i][2])
  PROVE  LET xy == D!CrossMums(ops, D!NoZero)
             l(i) == Lo(ops[i][1], ops[i][2])
             h(i) == Hi(ops[i][1], ops[i][2])
         IN  /\ Tagged(xy[1], MidTags) /\ Tagged(xy[2], MidTags)
             /\ PartOf(xy[1], "lo") = IF n = 2 THEN l(1) ELSE l(1) \oplus l(3)
             /\ PartOf(xy[1], "hi") = IF n = 2 THEN h(2) ELSE h(2) \oplus h(4)
<1> DEFINE xy == D!CrossMums(ops, D!NoZero)
           l(i) == Lo(ops[i][1], ops[i][2])
           h(i) == Hi(ops[i][1], ops[i][2])
           m == Mums(ops)
           u2 == ({} \oplus m[1][1]) \oplus m[2][2]
           v2 == ({} \oplus m[1][2]) \oplus m[2][1]
           u4 == (u2 \oplus m[3][1]) \oplus m[4][2]
           v4 == (v2 \oplus m[3][2]) \oplus m[4][1]
<1>1. \A i \in 1 .. n : /\ Tagged(m[i][1], MidTags) /\ Tagged(m[i][2], MidTags)
                        /\ PartOf(m[i][1], "lo") = l(i) /\ PartOf(m[i][1], "hi") = {}
                        /\ PartOf(m[i][2], "lo") = {} /\ PartOf(m[i][2], "hi") = h(i)
  BY MumParts DEF Mums
<1>2. xy = IF n = 2 THEN << u2, v2 >> ELSE << u4, v4 >>
  BY CrossFour
<1> HIDE DEF xy, l, h, m
<1>3. \A x : {} \oplus x = x /\ x \oplus {} = x
  BY DEF \oplus
<1>4. 1 \in 1 .. n /\ 2 \in 1 .. n
  OBVIOUS
<1>5. Tagged(u2, MidTags) /\ Tagged(v2, MidTags) /\ PartOf(u2, "lo") = l(1) /\ PartOf(u2, "hi") = h(2)
  <2>1. {} \oplus m[1][1] = m[1][1] /\ {} \oplus m[1][2] = m[1][2]
    BY <1>3
  <2>2. Tagged(u2, MidTags) /\ Tagged(v2, MidTags)
    BY <1>1, <1>4, <2>1, TaggedXor
  <2>3. PartOf(u2, "lo") = l(1) \oplus {} /\ PartOf(u2, "hi") = {} \oplus h(2)
    <3>1. \A tag : PartOf(u2, tag) = PartOf(m[1][1], tag) \oplus PartOf(m[2][2], tag)
      BY <2>1, PartXor
    <3> QED BY <1>1, <1>4, <3>1
  <2> QED BY <1>3, <2>2, <2>3
<1>6. CASE n = 2
  <2>1. xy[1] = u2 /\ xy[2] = v2
    BY <1>2, <1>6
  <2> HIDE DEF u2, v2
  <2> QED BY <1>5, <1>6, <2>1 DEF xy, l, h
<1>7. CASE n = 4
  <2>1. xy[1] = u4 /\ xy[2] = v4
    BY <1>2, <1>7
  <2> HIDE DEF u2, v2
  <2>2. 3 \in 1 .. n /\ 4 \in 1 .. n
    BY <1>7
  <2>3. Tagged(u2 \oplus m[3][1], MidTags) /\ Tagged(v2 \oplus m[3][2], MidTags)
    BY <1>1, <1>5, <2>2, TaggedXor
  <2>4. Tagged(xy[1], MidTags) /\ Tagged(xy[2], MidTags)
    BY <1>1, <2>1, <2>2, <2>3, TaggedXor
  <2>5. \A tag : PartOf(xy[1], tag)
                   = (PartOf(u2, tag) \oplus PartOf(m[3][1], tag)) \oplus PartOf(m[4][2], tag)
    BY <2>1, PartXor
  <2>6. PartOf(xy[1], "lo") = (l(1) \oplus l(3)) \oplus {} /\ PartOf(xy[1], "hi") = (h(2) \oplus {}) \oplus h(4)
    BY <1>1, <1>5, <2>2, <2>5
  <2>7. PartOf(xy[1], "lo") = l(1) \oplus l(3) /\ PartOf(xy[1], "hi") = h(2) \oplus h(4)
    BY <1>3, <2>6
  <2> QED BY <1>7, <2>4, <2>7 DEF xy, l, h
<1> QED BY <1>6, <1>7 DEF xy, l, h

\* The operands of n pairs, each under a key of its own.
KeyOf(i, s) == 2 * (i - 1) + s - 1
Keyed(n, ops) ==
  /\ DOMAIN ops = 1 .. n /\ Len(ops) = n
  /\ \A i \in 1 .. n : \A s \in {1, 2} :
       /\ Tagged(ops[i][s], OperandTags)
       /\ \A j \in 0 .. 7 : << "KS", j >> \in ops[i][s] <=> j = KeyOf(i, s)

\* Pair i of o1 and pair k of o2 have one product.
SamePair(o1, i, o2, k) == {o1[i][1], o1[i][2]} = {o2[k][1], o2[k][2]}

\* The keys tell the pairs, and the operands of a pair, apart.
LEMMA PairsApart ==
  ASSUME NEW n \in {2, 4}, NEW o1, Keyed(n, o1), NEW o2, Keyed(n, o2),
         NEW i \in 1 .. n, NEW k \in 1 .. n, SamePair(o1, i, o2, k)
  PROVE  i = k /\ o1[i][1] = o2[i][1] /\ o1[i][2] = o2[i][2]
<1> DEFINE e == << "KS", KeyOf(i, 1) >>
<1>1. /\ KeyOf(i, 1) = 2 * (i - 1) /\ KeyOf(k, 1) = 2 * (k - 1) /\ KeyOf(k, 2) = 2 * k - 1
      /\ KeyOf(i, 1) \in 0 .. 7 /\ 1 \in {1, 2} /\ 2 \in {1, 2} /\ i \in 1 .. 4 /\ k \in 1 .. 4
  BY DEF KeyOf
<1>2. /\ e \in o1[i][1]
      /\ e \in o2[k][1] <=> KeyOf(i, 1) = KeyOf(k, 1)
      /\ e \in o2[k][2] <=> KeyOf(i, 1) = KeyOf(k, 2)
  BY <1>1 DEF Keyed
<1>3. o1[i][1] \in {o2[k][1], o2[k][2]}
  BY DEF SamePair
<1>4. e \in o2[k][1] \/ e \in o2[k][2]
  BY <1>2, <1>3
<1>5. i = k /\ e \notin o2[k][2]
  BY <1>1, <1>2, <1>4
<1>6. o1[i][1] = o2[k][1]
  BY <1>2, <1>3, <1>5
<1>7. o1[i][2] = o2[k][2]
  <2>1. o1[i][2] \in {o2[k][1], o2[k][2]} /\ o2[k][2] \in {o1[i][1], o1[i][2]}
    BY DEF SamePair
  <2> QED BY <1>6, <2>1
<1> QED BY <1>5, <1>6, <1>7

\* The operands are operands of a product.
LEMMA KeyedPairs ==
  ASSUME NEW n \in {2, 4}, NEW ops, Keyed(n, ops), NEW i \in 1 .. n PROVE Pair(ops[i][1], ops[i][2])
<1>1. KeyOf(i, 1) \in 0 .. 7 /\ KeyOf(i, 2) \in 0 .. 7 /\ 1 \in {1, 2} /\ 2 \in {1, 2}
  BY DEF KeyOf
<1>2. << "KS", KeyOf(i, 1) >> \in ops[i][1] /\ << "KS", KeyOf(i, 2) >> \in ops[i][2]
  BY <1>1 DEF Keyed
<1> QED BY <1>1, <1>2 DEF Pair, Keyed

\* Two atoms xored are the same two atoms.
Both(x, y) == {x} \oplus {y}

LEMMA OneOfTwo ==
  ASSUME NEW x1, NEW y1, NEW x2, NEW y2, x1 # y1, x2 # y2, x1 # y2, y1 # x2, Both(x1, y1) = Both(x2, y2)
  PROVE  x1 = x2 /\ y1 = y2
<1>1. x1 \in Both(x1, y1) /\ y1 \in Both(x1, y1)
  BY DEF Both, \oplus
<1>2. \A z \in Both(x2, y2) : z = x2 \/ z = y2
  BY DEF Both, \oplus
<1> QED BY <1>1, <1>2

\* The first of the two words gives back all the operands.
LEMMA PeelCross ==
  ASSUME NEW n \in {2, 4}, NEW o1, Keyed(n, o1), NEW o2, Keyed(n, o2),
         D!CrossMums(o1, D!NoZero)[1] = D!CrossMums(o2, D!NoZero)[1]
  PROVE  \A i \in 1 .. n : o1[i][1] = o2[i][1] /\ o1[i][2] = o2[i][2]
<1> DEFINE l(o, i) == << "lo", {o[i][1], o[i][2]} >>
           h(o, i) == << "hi", {o[i][1], o[i][2]} >>
           x(o) == D!CrossMums(o, D!NoZero)[1]
<1>1. ASSUME NEW o, Keyed(n, o)
      PROVE  /\ PartOf(x(o), "lo") = IF n = 2 THEN {l(o, 1)} ELSE Both(l(o, 1), l(o, 3))
             /\ PartOf(x(o), "hi") = IF n = 2 THEN {h(o, 2)} ELSE Both(h(o, 2), h(o, 4))
  <2>1. \A i \in 1 .. n : Pair(o[i][1], o[i][2])
    BY <1>1, KeyedPairs
  <2>2. DOMAIN o = 1 .. n /\ Len(o) = n
    BY <1>1 DEF Keyed
  <2> QED BY <2>1, <2>2, CrossParts DEF Lo, Hi, Both
<1>2. PartOf(x(o1), "lo") = PartOf(x(o2), "lo") /\ PartOf(x(o1), "hi") = PartOf(x(o2), "hi")
  OBVIOUS
<1>3. ASSUME NEW oa, Keyed(n, oa), NEW ob, Keyed(n, ob), NEW i \in 1 .. n, NEW k \in 1 .. n, i # k
      PROVE  l(oa, i) # l(ob, k) /\ h(oa, i) # h(ob, k)
  <2> DEFINE a == {oa[i][1], oa[i][2]}
             z == {ob[k][1], ob[k][2]}
  <2>1. a # z
    <3>1. ~SamePair(oa, i, ob, k)
      BY <1>3, PairsApart
    <3> QED BY <3>1 DEF SamePair
  <2> HIDE DEF a, z
  <2>2. << "lo", a >> # << "lo", z >> /\ << "hi", a >> # << "hi", z >>
    BY <2>1
  <2> QED BY <2>2 DEF a, z
<1>4. ASSUME NEW i \in 1 .. n, l(o1, i) = l(o2, i) \/ h(o1, i) = h(o2, i)
      PROVE  o1[i][1] = o2[i][1] /\ o1[i][2] = o2[i][2]
  <2>1. SamePair(o1, i, o2, i)
    BY <1>4 DEF SamePair
  <2> HIDE DEF l, h, x
  <2> QED BY <2>1, PairsApart
<1> HIDE DEF l, h, x
<1>5. CASE n = 2
  <2>1. {l(o1, 1)} = {l(o2, 1)} /\ {h(o1, 2)} = {h(o2, 2)}
    BY <1>1, <1>2, <1>5
  <2>2. l(o1, 1) = l(o2, 1) /\ h(o1, 2) = h(o2, 2)
    BY <2>1
  <2>3. \A i \in 1 .. n : i = 1 \/ i = 2
    BY <1>5
  <2> QED BY <1>4, <2>2, <2>3
<1>6. CASE n = 4
  <2>1. Both(l(o1, 1), l(o1, 3)) = Both(l(o2, 1), l(o2, 3))
    BY <1>1, <1>2, <1>6
  <2>2. Both(h(o1, 2), h(o1, 4)) = Both(h(o2, 2), h(o2, 4))
    BY <1>1, <1>2, <1>6
  <2>3. 1 \in 1 .. n /\ 2 \in 1 .. n /\ 3 \in 1 .. n /\ 4 \in 1 .. n
    BY <1>6
  <2>4. l(o1, 1) = l(o2, 1) /\ l(o1, 3) = l(o2, 3)
    <3>1. l(o1, 1) # l(o1, 3) /\ l(o2, 1) # l(o2, 3) /\ l(o1, 1) # l(o2, 3) /\ l(o1, 3) # l(o2, 1)
      BY <1>3, <2>3
    <3> QED BY <2>1, <3>1, OneOfTwo
  <2>5. h(o1, 2) = h(o2, 2) /\ h(o1, 4) = h(o2, 4)
    <3>1. h(o1, 2) # h(o1, 4) /\ h(o2, 2) # h(o2, 4) /\ h(o1, 2) # h(o2, 4) /\ h(o1, 4) # h(o2, 2)
      BY <1>3, <2>3
    <3> QED BY <2>2, <3>1, OneOfTwo
  <2>6. \A i \in 1 .. n : i = 1 \/ i = 2 \/ i = 3 \/ i = 4
    BY <1>6
  <2> QED BY <1>4, <2>3, <2>4, <2>5, <2>6
<1> QED BY <1>5, <1>6

\* The mixed seed, for which the accumulator stands.
SeedFold(a) == Folded(a \oplus {<< "S", 0 >>}, {<< "S", 1 >>})

LEMMA SeedFolds ==
  ASSUME NEW a, Tagged(a, AccTags) PROVE D!ks(a) = SeedFold(a)
<1> DEFINE x == a \oplus {<< "S", 0 >>}
           y == {<< "S", 1 >>}
<1>1. << "S", 0 >> \notin a
  <2>1. << "S", 0 >>[1] = "S"
    OBVIOUS
  <2> QED BY <2>1 DEF Tagged, AccTags
<1>2. << "S", 0 >> \in x
  BY <1>1 DEF \oplus
<1>3. D!ks(a) = D!fold(x, y)
  BY WordOps DEF D!ks, D!Const
<1>4. x # {} /\ y # {}
  BY <1>2
<1> HIDE DEF x, y
<1>5. D!fold(x, y) = Folded(x, y)
  BY <1>4, WordOps
<1> QED BY <1>3, <1>5 DEF x, y, SeedFold

\* It tells the accumulator.
LEMMA PeelSeedFold ==
  ASSUME NEW a1, Acc(a1), NEW a2, Acc(a2), SeedFold(a1) = SeedFold(a2) PROVE a1 = a2
<1>1. << "S", 1 >>[1] = "S" /\ << "S", 1 >> # << "S", 0 >>
  OBVIOUS
<1>2. << "S", 1 >> \notin a2 \oplus {<< "S", 0 >>}
  BY <1>1 DEF Acc, Tagged, AccTags, \oplus
<1>3. << "S", 1 >> \in {<< "S", 1 >>}
  OBVIOUS
<1>4. a1 \oplus {<< "S", 0 >>} = a2 \oplus {<< "S", 0 >>}
  BY <1>2, <1>3, SplitFold DEF SeedFold
<1> QED BY <1>4, Cancel

\* A word of the data under its key, and the last one.
Under(x, k) == x \oplus KSat(k)
Last(x, k, n, a) == (Under(x, k) \oplus D!Number(n)) \oplus SeedFold(a)

\* An operand is under one key.
OneKey(x, k) == Tagged(x, OperandTags) /\ \A j \in 0 .. 7 : << "KS", j >> \in x <=> j = k

LEMMA UnderKeyed ==
  ASSUME NEW x, Tagged(x, {"bit"}), NEW k \in 0 .. 7
  PROVE  /\ OneKey(Under(x, k), k)
         /\ \A n, a : OneKey(Last(x, k, n, a), k)
<1>1. \A j : << "KS", j >>[1] = "KS"
  OBVIOUS
<1>2. OneKey(Under(x, k), k)
  <2>1. \A j : << "KS", j >> \notin x /\ (<< "KS", j >> \in KSat(k) <=> j = k)
    BY <1>1 DEF Tagged, KSat
  <2>2. Tagged(Under(x, k), OperandTags)
    BY KeysTagged DEF Tagged, OperandTags, Under, \oplus
  <2>3. \A j : << "KS", j >> \in Under(x, k) <=> j = k
    BY <2>1 DEF Under, \oplus
  <2> QED BY <2>2, <2>3 DEF OneKey
<1>3. ASSUME NEW n, NEW a PROVE OneKey(Last(x, k, n, a), k)
  <2>1. Tagged(D!Number(n), {"bit"}) /\ Tagged(SeedFold(a), {"fold"})
    BY NumberTagged, FoldedTagged DEF SeedFold
  <2>2. \A j : << "KS", j >> \notin D!Number(n) /\ << "KS", j >> \notin SeedFold(a)
    BY <1>1, <2>1 DEF Tagged
  <2>3. Tagged(Last(x, k, n, a), OperandTags)
    BY <1>2, <2>1 DEF Tagged, OperandTags, Last, OneKey, \oplus
  <2>4. \A j \in 0 .. 7 : << "KS", j >> \in Last(x, k, n, a) <=> << "KS", j >> \in Under(x, k)
    BY <2>2 DEF Last, \oplus
  <2> QED BY <1>2, <2>3, <2>4 DEF OneKey
<1> QED BY <1>2, <1>3

\* Equal operands are of equal words, and of equal accumulators.
LEMMA PeelUnder ==
  ASSUME NEW x1, Tagged(x1, {"bit"}), NEW x2, Tagged(x2, {"bit"}), NEW k
  PROVE  /\ Under(x1, k) = Under(x2, k) => x1 = x2
         /\ \A n, a1, a2 : Acc(a1) /\ Acc(a2) /\ Last(x1, k, n, a1) = Last(x2, k, n, a2)
                             => x1 = x2 /\ a1 = a2
<1>1. Under(x1, k) = Under(x2, k) => x1 = x2
  BY Cancel DEF Under
<1>2. ASSUME NEW n, NEW a1, NEW a2, Acc(a1), Acc(a2), Last(x1, k, n, a1) = Last(x2, k, n, a2)
      PROVE  x1 = x2 /\ a1 = a2
  <2> DEFINE m == D!Number(n)
             s1 == SeedFold(a1)
             s2 == SeedFold(a2)
  <2> HIDE DEF m, s1, s2
  <2>1. ((x1 \oplus KSat(k)) \oplus m) \oplus s1 = ((x2 \oplus KSat(k)) \oplus m) \oplus s2
    BY <1>2 DEF Last, Under, m, s1, s2
  <2>2. ((x1 \oplus s1) \oplus KSat(k)) \oplus m = ((x2 \oplus s2) \oplus KSat(k)) \oplus m
    <3>1. ASSUME NEW x, NEW s
          PROVE  ((x \oplus KSat(k)) \oplus m) \oplus s = ((x \oplus s) \oplus KSat(k)) \oplus m
      <4>1. ((x \oplus KSat(k)) \oplus m) \oplus s = ((x \oplus KSat(k)) \oplus s) \oplus m
        BY Swap
      <4>2. (x \oplus KSat(k)) \oplus s = (x \oplus s) \oplus KSat(k)
        BY Swap
      <4> QED BY <4>1, <4>2
    <3> QED BY <2>1, <3>1
  <2>3. x1 \oplus s1 = x2 \oplus s2
    <3>1. (x1 \oplus s1) \oplus KSat(k) = (x2 \oplus s2) \oplus KSat(k)
      BY <2>2, Cancel
    <3> QED BY <3>1, Cancel
  <2>4. Tagged(s1, {"fold"}) /\ Tagged(s2, {"fold"}) /\ {"bit"} \cap {"fold"} = {}
    BY FoldedTagged DEF s1, s2, SeedFold
  <2>5. x1 \cap s1 = {} /\ x2 \cap s2 = {} /\ x1 \cap s2 = {} /\ x2 \cap s1 = {}
    BY <2>4, TaggedApart
  <2>6. x1 = x2 /\ s1 = s2
    BY <2>3, <2>5, SplitXor
  <2> QED BY <1>2, <2>6, PeelSeedFold DEF s1, s2
<1> QED BY <1>1, <1>2

\* The class of 17 to 64 bytes.
LEMMA OperandsOf ==
  ASSUME NEW p, p.len \in 17 .. 64, NEW a
  PROVE  D!Operands(p, a) = IF p.len <= 32 THEN D!class_le32(p, a) ELSE D!class_le64(p, a)
<1>1. CASE p.len <= 32
  <2>1. ~(p.len <= 16) /\ p.len \in 17 .. 32 /\ p.len \notin 33 .. 64
    BY <1>1
  <2> QED BY Zenon, <1>1, <2>1 DEF D!Operands
<1>2. CASE ~(p.len <= 32)
  <2>1. ~(p.len <= 16) /\ p.len \notin 17 .. 32 /\ p.len \in 33 .. 64
    BY <1>2
  <2> QED BY Zenon, <1>2, <2>1 DEF D!Operands
<1> QED BY <1>1, <1>2

\* Its words, and its operands.
W(p, i) == D!le64(p, i)
Ops32(p, a) == << << Under(W(p, 0), 0), Under(W(p, 8), 1) >>,
                  << Under(W(p, p.len - 16), 2), Last(W(p, p.len - 8), 3, p.len, a) >> >>
Ops64(p, a) == << << Under(W(p, 0), 0), Under(W(p, 8), 1) >>,
                  << Under(W(p, 16), 2), Under(W(p, 24), 3) >>,
                  << Under(W(p, p.len - 32), 4), Under(W(p, p.len - 24), 5) >>,
                  << Under(W(p, p.len - 16), 6), Last(W(p, p.len - 8), 7, p.len, a) >> >>
PairsOf(p)  == IF p.len <= 32 THEN 2 ELSE 4

LEMMA OperandsAre ==
  ASSUME NEW p, p.len \in 17 .. 64, NEW a, Acc(a)
  PROVE  D!Operands(p, a) = IF p.len <= 32 THEN Ops32(p, a) ELSE Ops64(p, a)
<1>1. \A i, x : Under(x, i) = D!\oplus(x, D!KS(i))
  BY WordOps, Constants DEF Under
<1>2. \A i, x : Last(x, i, p.len, a) = D!\oplus(D!\oplus(D!\oplus(x, D!KS(i)), D!Number(p.len)), D!ks(a))
  <2>1. SeedFold(a) = D!ks(a)
    BY SeedFolds DEF Acc
  <2> QED BY <1>1, <2>1, WordOps DEF Last
<1>3. D!class_le32(p, a) = Ops32(p, a)
  BY <1>1, <1>2, Zenon DEF D!class_le32, Ops32, W
<1>4. D!class_le64(p, a) = Ops64(p, a)
  BY <1>1, <1>2, Zenon DEF D!class_le64, Ops64, W
<1> QED BY <1>3, <1>4, OperandsOf

\* Where the words are in the data.
Offsets32(n) == {0, 8, n - 16, n - 8}
Offsets64(n) == {0, 8, 16, 24, n - 32, n - 24, n - 16, n - 8}

LEMMA OffsetsFit ==
  ASSUME NEW n
  PROVE  /\ n \in 17 .. 64 => \A i \in Offsets32(n) : i \in Nat /\ i + 8 <= n
         /\ n \in 33 .. 64 => \A i \in Offsets64(n) : i \in Nat /\ i + 8 <= n
         /\ n \in 17 .. 32 => \A k \in 0 .. n - 1 : \E i \in Offsets32(n) : k \in i .. i + 7
         /\ n \in 33 .. 64 => \A k \in 0 .. n - 1 : \E i \in Offsets64(n) : k \in i .. i + 7
<1>1. n \in 17 .. 64 => \A i \in Offsets32(n) : i \in Nat /\ i + 8 <= n
  BY DEF Offsets32
<1>2. n \in 33 .. 64 => \A i \in Offsets64(n) : i \in Nat /\ i + 8 <= n
  BY DEF Offsets64
<1>3. ASSUME n \in 17 .. 32, NEW k \in 0 .. n - 1 PROVE \E i \in Offsets32(n) : k \in i .. i + 7
  <2>1. k \in 0 .. 0 + 7 \/ k \in 8 .. 8 + 7 \/ k \in n - 16 .. n - 16 + 7 \/ k \in n - 8 .. n - 8 + 7
    BY <1>3
  <2> QED BY <2>1 DEF Offsets32
<1>4. ASSUME n \in 33 .. 64, NEW k \in 0 .. n - 1 PROVE \E i \in Offsets64(n) : k \in i .. i + 7
  <2>1. \/ k \in 0 .. 0 + 7 \/ k \in 8 .. 8 + 7 \/ k \in 16 .. 16 + 7 \/ k \in 24 .. 24 + 7
        \/ k \in n - 32 .. n - 32 + 7 \/ k \in n - 24 .. n - 24 + 7
        \/ k \in n - 16 .. n - 16 + 7 \/ k \in n - 8 .. n - 8 + 7
    BY <1>4
  <2> QED BY <2>1 DEF Offsets64
<1> QED BY <1>1, <1>2, <1>3, <1>4

\* They cover it.
LEMMA OffsetsTell ==
  ASSUME NEW p1, D!IsSlice(p1), NEW p2, D!IsSlice(p2), p1.len = p2.len, p1.len \in 17 .. 64,
         p1.len <= 32 => \A i \in Offsets32(p1.len) : W(p1, i) = W(p2, i),
         p1.len > 32 => \A i \in Offsets64(p1.len) : W(p1, i) = W(p2, i)
  PROVE  p1 = p2
<1> SUFFICES ASSUME NEW k \in 0 .. p1.len - 1 PROVE p1.byte[k] = p2.byte[k]
  BY SameSlices
<1>1. PICK i \in Nat : i + 8 <= p1.len /\ W(p1, i) = W(p2, i) /\ k \in i .. i + 7
  <2>1. CASE p1.len <= 32
    <3>1. p1.len \in 17 .. 32
      BY <2>1
    <3> QED BY <2>1, <3>1, OffsetsFit
  <2>2. CASE p1.len > 32
    <3>1. p1.len \in 33 .. 64
      BY <2>2
    <3> QED BY <2>2, <3>1, OffsetsFit
  <2> QED BY <2>1, <2>2
<1> QED BY <1>1, WordTells DEF W

\* The operands of a write of 17 to 64 bytes, each under its key.
Ops(p, a) == IF p.len <= 32 THEN Ops32(p, a) ELSE Ops64(p, a)

LEMMA MiddleKeyed ==
  ASSUME NEW p, D!IsSlice(p), p.len \in 17 .. 64, NEW a PROVE Keyed(PairsOf(p), Ops(p, a))
<1> DEFINE n == PairsOf(p)
           ops == Ops(p, a)
<1>1. \A i \in Offsets32(p.len) : Tagged(W(p, i), {"bit"})
  BY OffsetsFit, WordTagged DEF W
<1>2. p.len > 32 => \A i \in Offsets64(p.len) : Tagged(W(p, i), {"bit"})
  <2>1. p.len > 32 => p.len \in 33 .. 64
    OBVIOUS
  <2> QED BY <2>1, OffsetsFit, WordTagged DEF W
<1>3. \A x, k : Tagged(x, {"bit"}) /\ k \in 0 .. 7 => OneKey(Under(x, k), k) /\ OneKey(Last(x, k, p.len, a), k)
  BY UnderKeyed
<1>4. /\ KeyOf(1, 1) = 0 /\ KeyOf(1, 2) = 1 /\ KeyOf(2, 1) = 2 /\ KeyOf(2, 2) = 3
      /\ KeyOf(3, 1) = 4 /\ KeyOf(3, 2) = 5 /\ KeyOf(4, 1) = 6 /\ KeyOf(4, 2) = 7
      /\ 0 \in 0 .. 7 /\ 1 \in 0 .. 7 /\ 2 \in 0 .. 7 /\ 3 \in 0 .. 7
      /\ 4 \in 0 .. 7 /\ 5 \in 0 .. 7 /\ 6 \in 0 .. 7 /\ 7 \in 0 .. 7
  BY DEF KeyOf
<1>5. ASSUME DOMAIN ops = 1 .. n, Len(ops) = n,
             \A i \in 1 .. n : OneKey(ops[i][1], KeyOf(i, 1)) /\ OneKey(ops[i][2], KeyOf(i, 2))
      PROVE  Keyed(n, ops)
  <2> HIDE DEF n, ops
  <2> QED BY <1>5 DEF Keyed, OneKey
<1>6. CASE p.len <= 32
  <2>1. n = 2 /\ ops = Ops32(p, a)
    BY <1>6 DEF PairsOf, Ops
  <2>2. DOMAIN ops = 1 .. n /\ Len(ops) = n
    BY <2>1 DEF Ops32
  <2>3. /\ ops[1][1] = Under(W(p, 0), 0) /\ ops[1][2] = Under(W(p, 8), 1)
        /\ ops[2][1] = Under(W(p, p.len - 16), 2) /\ ops[2][2] = Last(W(p, p.len - 8), 3, p.len, a)
    BY <2>1 DEF Ops32
  <2> HIDE DEF n, ops
  <2>4. /\ Tagged(W(p, 0), {"bit"}) /\ Tagged(W(p, 8), {"bit"})
        /\ Tagged(W(p, p.len - 16), {"bit"}) /\ Tagged(W(p, p.len - 8), {"bit"})
    BY <1>1 DEF Offsets32
  <2>5. /\ OneKey(ops[1][1], 0) /\ OneKey(ops[1][2], 1) /\ OneKey(ops[2][1], 2) /\ OneKey(ops[2][2], 3)
    BY <1>3, <1>4, <2>3, <2>4
  <2>6. \A i \in 1 .. n : i = 1 \/ i = 2
    BY <2>1
  <2>7. \A i \in 1 .. n : OneKey(ops[i][1], KeyOf(i, 1)) /\ OneKey(ops[i][2], KeyOf(i, 2))
    BY <1>4, <2>5, <2>6
  <2> QED BY <1>5, <2>2, <2>7 DEF n, ops
<1>7. CASE ~(p.len <= 32)
  <2>1. n = 4 /\ ops = Ops64(p, a)
    BY <1>7 DEF PairsOf, Ops
  <2>2. DOMAIN ops = 1 .. n /\ Len(ops) = n
    BY <2>1 DEF Ops64
  <2>3. /\ ops[1][1] = Under(W(p, 0), 0) /\ ops[1][2] = Under(W(p, 8), 1)
        /\ ops[2][1] = Under(W(p, 16), 2) /\ ops[2][2] = Under(W(p, 24), 3)
        /\ ops[3][1] = Under(W(p, p.len - 32), 4) /\ ops[3][2] = Under(W(p, p.len - 24), 5)
        /\ ops[4][1] = Under(W(p, p.len - 16), 6) /\ ops[4][2] = Last(W(p, p.len - 8), 7, p.len, a)
    BY <2>1 DEF Ops64
  <2> HIDE DEF n, ops
  <2>4. /\ Tagged(W(p, 0), {"bit"}) /\ Tagged(W(p, 8), {"bit"})
        /\ Tagged(W(p, 16), {"bit"}) /\ Tagged(W(p, 24), {"bit"})
        /\ Tagged(W(p, p.len - 32), {"bit"}) /\ Tagged(W(p, p.len - 24), {"bit"})
        /\ Tagged(W(p, p.len - 16), {"bit"}) /\ Tagged(W(p, p.len - 8), {"bit"})
    BY <1>2, <1>7 DEF Offsets64
  <2>5. /\ OneKey(ops[1][1], 0) /\ OneKey(ops[1][2], 1) /\ OneKey(ops[2][1], 2) /\ OneKey(ops[2][2], 3)
        /\ OneKey(ops[3][1], 4) /\ OneKey(ops[3][2], 5) /\ OneKey(ops[4][1], 6) /\ OneKey(ops[4][2], 7)
    BY <1>3, <1>4, <2>3, <2>4
  <2>6. \A i \in 1 .. n : i = 1 \/ i = 2 \/ i = 3 \/ i = 4
    BY <2>1
  <2>7. \A i \in 1 .. n : OneKey(ops[i][1], KeyOf(i, 1)) /\ OneKey(ops[i][2], KeyOf(i, 2))
    BY <1>4, <2>5, <2>6
  <2> QED BY <1>5, <2>2, <2>7 DEF n, ops
<1> QED BY <1>6, <1>7

\* Equal operands are those of the same data and of the same accumulator.
LEMMA PeelOps ==
  ASSUME NEW p1, D!IsSlice(p1), NEW p2, D!IsSlice(p2), p1.len = p2.len, p1.len \in 17 .. 64,
         NEW a1, Acc(a1), NEW a2, Acc(a2),
         \A i \in 1 .. PairsOf(p1) :
           Ops(p1, a1)[i][1] = Ops(p2, a2)[i][1] /\ Ops(p1, a1)[i][2] = Ops(p2, a2)[i][2]
  PROVE  p1 = p2 /\ a1 = a2
<1> DEFINE n == p1.len
           o1 == Ops(p1, a1)
           o2 == Ops(p2, a2)
<1>1. \A i \in Offsets32(n) : Tagged(W(p1, i), {"bit"}) /\ Tagged(W(p2, i), {"bit"})
  BY OffsetsFit, WordTagged DEF W
<1>2. n > 32 => \A i \in Offsets64(n) : Tagged(W(p1, i), {"bit"}) /\ Tagged(W(p2, i), {"bit"})
  <2>1. n > 32 => n \in 33 .. 64
    OBVIOUS
  <2> QED BY <2>1, OffsetsFit, WordTagged DEF W
<1>3. \A i, k : Tagged(W(p1, i), {"bit"}) /\ Tagged(W(p2, i), {"bit"}) =>
        /\ Under(W(p1, i), k) = Under(W(p2, i), k) => W(p1, i) = W(p2, i)
        /\ Last(W(p1, i), k, n, a1) = Last(W(p2, i), k, n, a2) => W(p1, i) = W(p2, i) /\ a1 = a2
  BY PeelUnder
<1>4. CASE n <= 32
  <2>1. o1 = Ops32(p1, a1) /\ o2 = Ops32(p2, a2) /\ PairsOf(p1) = 2
    BY <1>4 DEF Ops, PairsOf
  <2>2. /\ o1[1][1] = Under(W(p1, 0), 0) /\ o1[1][2] = Under(W(p1, 8), 1)
        /\ o1[2][1] = Under(W(p1, n - 16), 2) /\ o1[2][2] = Last(W(p1, n - 8), 3, n, a1)
        /\ o2[1][1] = Under(W(p2, 0), 0) /\ o2[1][2] = Under(W(p2, 8), 1)
        /\ o2[2][1] = Under(W(p2, n - 16), 2) /\ o2[2][2] = Last(W(p2, n - 8), 3, n, a2)
    BY <2>1 DEF Ops32
  <2>3. /\ o1[1][1] = o2[1][1] /\ o1[1][2] = o2[1][2] /\ o1[2][1] = o2[2][1] /\ o1[2][2] = o2[2][2]
    BY <2>1
  <2>4. 0 \in Offsets32(n) /\ 8 \in Offsets32(n) /\ n - 16 \in Offsets32(n) /\ n - 8 \in Offsets32(n)
    BY DEF Offsets32
  <2> HIDE DEF o1, o2
  <2>5. /\ W(p1, 0) = W(p2, 0) /\ W(p1, 8) = W(p2, 8)
        /\ W(p1, n - 16) = W(p2, n - 16) /\ W(p1, n - 8) = W(p2, n - 8) /\ a1 = a2
    BY <1>1, <1>3, <2>2, <2>3, <2>4
  <2>6. \A i \in Offsets32(n) : W(p1, i) = W(p2, i)
    BY <2>5 DEF Offsets32
  <2> QED BY <1>4, <2>5, <2>6, OffsetsTell
<1>5. CASE ~(n <= 32)
  <2>1. o1 = Ops64(p1, a1) /\ o2 = Ops64(p2, a2) /\ PairsOf(p1) = 4
    BY <1>5 DEF Ops, PairsOf
  <2>2. /\ o1[1][1] = Under(W(p1, 0), 0) /\ o1[1][2] = Under(W(p1, 8), 1)
        /\ o1[2][1] = Under(W(p1, 16), 2) /\ o1[2][2] = Under(W(p1, 24), 3)
        /\ o1[3][1] = Under(W(p1, n - 32), 4) /\ o1[3][2] = Under(W(p1, n - 24), 5)
        /\ o1[4][1] = Under(W(p1, n - 16), 6) /\ o1[4][2] = Last(W(p1, n - 8), 7, n, a1)
    BY <2>1 DEF Ops64
  <2>3. /\ o2[1][1] = Under(W(p2, 0), 0) /\ o2[1][2] = Under(W(p2, 8), 1)
        /\ o2[2][1] = Under(W(p2, 16), 2) /\ o2[2][2] = Under(W(p2, 24), 3)
        /\ o2[3][1] = Under(W(p2, n - 32), 4) /\ o2[3][2] = Under(W(p2, n - 24), 5)
        /\ o2[4][1] = Under(W(p2, n - 16), 6) /\ o2[4][2] = Last(W(p2, n - 8), 7, n, a2)
    BY <2>1 DEF Ops64
  <2>4. /\ o1[1][1] = o2[1][1] /\ o1[1][2] = o2[1][2] /\ o1[2][1] = o2[2][1] /\ o1[2][2] = o2[2][2]
        /\ o1[3][1] = o2[3][1] /\ o1[3][2] = o2[3][2] /\ o1[4][1] = o2[4][1] /\ o1[4][2] = o2[4][2]
    BY <2>1
  <2>5. /\ 0 \in Offsets64(n) /\ 8 \in Offsets64(n) /\ 16 \in Offsets64(n) /\ 24 \in Offsets64(n)
        /\ n - 32 \in Offsets64(n) /\ n - 24 \in Offsets64(n) /\ n - 16 \in Offsets64(n) /\ n - 8 \in Offsets64(n)
    BY DEF Offsets64
  <2>6. \A i \in Offsets64(n) : Tagged(W(p1, i), {"bit"}) /\ Tagged(W(p2, i), {"bit"})
    BY <1>2, <1>5
  <2> HIDE DEF o1, o2
  <2>7. W(p1, 0) = W(p2, 0) /\ W(p1, 8) = W(p2, 8) /\ W(p1, 16) = W(p2, 16) /\ W(p1, 24) = W(p2, 24)
    BY <1>3, <2>2, <2>3, <2>4, <2>5, <2>6
  <2>8. /\ W(p1, n - 32) = W(p2, n - 32) /\ W(p1, n - 24) = W(p2, n - 24)
        /\ W(p1, n - 16) = W(p2, n - 16) /\ W(p1, n - 8) = W(p2, n - 8) /\ a1 = a2
    BY <1>3, <2>2, <2>3, <2>4, <2>5, <2>6
  <2>9. \A i \in Offsets64(n) : W(p1, i) = W(p2, i)
    BY <2>7, <2>8 DEF Offsets64
  <2> QED BY <1>5, <2>8, <2>9, OffsetsTell
<1> QED BY <1>4, <1>5

\* The two words that the multiplies of a write leave, and their fold.
CrossAt(p, a)    == D!CrossMums(Ops(p, a), D!NoZero)
MidFold(x, y, n) == Folded((x \oplus KFat(0)) \oplus D!Number(n), y \oplus KFat(1))

LEMMA CrossTagged ==
  ASSUME NEW p, D!IsSlice(p), p.len \in 17 .. 64, NEW a
  PROVE  Tagged(CrossAt(p, a)[1], MidTags) /\ Tagged(CrossAt(p, a)[2], MidTags)
<1> DEFINE n == PairsOf(p)
           ops == Ops(p, a)
<1>1. Keyed(n, ops) /\ n \in {2, 4}
  BY MiddleKeyed DEF PairsOf
<1> HIDE DEF n, ops
<1>2. DOMAIN ops = 1 .. n /\ Len(ops) = n
  BY <1>1 DEF Keyed
<1>3. \A i \in 1 .. n : Pair(ops[i][1], ops[i][2])
  BY <1>1, KeyedPairs
<1> QED BY <1>1, <1>2, <1>3, CrossParts DEF CrossAt, ops

\* The keys of the fold mark its factors.
LEMMA MidMarks ==
  ASSUME NEW x, Tagged(x, MidTags), NEW y, Tagged(y, MidTags), NEW n
  PROVE  /\ << "KF", 0 >> \in (x \oplus KFat(0)) \oplus D!Number(n)
         /\ << "KF", 1 >> \notin (x \oplus KFat(0)) \oplus D!Number(n)
         /\ << "KF", 1 >> \in y \oplus KFat(1)
         /\ Acc(MidFold(x, y, n))
<1>1. << "KF", 0 >>[1] = "KF" /\ << "KF", 1 >>[1] = "KF" /\ << "KF", 0 >> # << "KF", 1 >>
      /\ << "folds", 8 >>[1] = "folds"
  OBVIOUS
<1>2. "KF" \notin MidTags /\ "folds" \notin MidTags
  BY DEF MidTags
<1>3. /\ << "KF", 0 >> \notin x /\ << "KF", 1 >> \notin x /\ << "KF", 1 >> \notin y
      /\ << "folds", 8 >> \notin x /\ << "folds", 8 >> \notin y
  BY <1>1, <1>2 DEF Tagged
<1>4. << "KF", 0 >> \notin D!Number(n) /\ << "KF", 1 >> \notin D!Number(n) /\ << "folds", 8 >> \notin D!Number(n)
  BY <1>1, NumberTagged DEF Tagged
<1>5. /\ << "KF", 0 >> \in KFat(0) /\ << "KF", 1 >> \notin KFat(0) /\ << "KF", 1 >> \in KFat(1)
      /\ << "folds", 8 >> \notin KFat(0) /\ << "folds", 8 >> \notin KFat(1)
  BY <1>1 DEF KFat
<1>6. << "folds", 8 >> \notin (x \oplus KFat(0)) \oplus D!Number(n) /\ << "folds", 8 >> \notin y \oplus KFat(1)
  BY <1>3, <1>4, <1>5 DEF \oplus
<1>7. NoLong(MidFold(x, y, n))
  BY <1>6, NoLongFolded DEF MidFold
<1>8. Tagged(MidFold(x, y, n), AccTags) /\ MidFold(x, y, n) # {}
  BY DEF MidFold, Folded, Tagged, AccTags
<1>9. Acc(MidFold(x, y, n))
  BY <1>7, <1>8 DEF Acc
<1>10. /\ << "KF", 0 >> \in (x \oplus KFat(0)) \oplus D!Number(n)
       /\ << "KF", 1 >> \notin (x \oplus KFat(0)) \oplus D!Number(n)
       /\ << "KF", 1 >> \in y \oplus KFat(1)
  BY <1>3, <1>4, <1>5 DEF \oplus
<1> QED BY <1>9, <1>10

\* A write of 17 to 64 bytes folds them.
DefaultMid(p, a) == MidFold(CrossAt(p, a)[1], CrossAt(p, a)[2], p.len)

LEMMA DefaultMiddle ==
  ASSUME NEW p, D!IsSlice(p), p.len \in 17 .. 64, NEW h, NEW q, Default(h, q)
  PROVE  /\ D!write(h, p) = [acc |-> DefaultMid(p, h.acc), seed |-> q]
         /\ Acc(DefaultMid(p, h.acc))
<1> DEFINE xy == CrossAt(p, h.acc)
           x == xy[1]
           y == xy[2]
           u == (x \oplus KFat(0)) \oplus D!Number(p.len)
           v == y \oplus KFat(1)
<1>1. Tagged(x, MidTags) /\ Tagged(y, MidTags)
  BY CrossTagged
<1>2. D!Operands(p, h.acc) = Ops(p, h.acc)
  BY OperandsAre DEF Ops, Default
<1>3. D!short128(p, h.acc, D!NoZero).lo = D!fold(u, v)
  <2>1. D!short128(p, h.acc, D!NoZero) = D!finish(x, y, D!Number(p.len))
    BY <1>2 DEF D!short128, CrossAt
  <2> HIDE DEF x, y
  <2>2. D!finish(x, y, D!Number(p.len)).lo
          = D!fold(D!\oplus(D!\oplus(x, D!KF(0)), D!Number(p.len)), D!\oplus(y, D!KF(1)))
    BY DEF D!finish
  <2> QED BY <2>1, <2>2, WordOps, Constants
<1>4. D!write_long(h, p) = D!short128(p, h.acc, D!NoZero).lo
  <2>1. p.len <= 64 /\ ~(p.len > 64)
    OBVIOUS
  <2> QED BY <2>1, Zenon DEF D!write_long
<1>5. u # {} /\ v # {} /\ Acc(MidFold(x, y, p.len))
  <2> HIDE DEF x, y
  <2> QED BY <1>1, MidMarks
<1>6. D!write_long(h, p) = MidFold(x, y, p.len)
  <2> HIDE DEF u, v, x, y
  <2>1. D!write_long(h, p) = Folded(u, v)
    BY <1>3, <1>4, <1>5, WordOps
  <2> QED BY <2>1 DEF MidFold, u, v
<1>7. D!write(h, p) = [h EXCEPT !.acc = MidFold(x, y, p.len)]
  <2>1. p.len > 16
    OBVIOUS
  <2> HIDE DEF x, y
  <2> QED BY <1>6, <2>1 DEF D!write
<1>8. D!write(h, p) = [acc |-> MidFold(x, y, p.len), seed |-> q]
  <2> HIDE DEF x, y
  <2> QED BY <1>7 DEF Default
<1> QED BY <1>5, <1>8 DEF DefaultMid

\* It gives back the accumulator before and the data.
LEMMA PeelDefaultMiddle ==
  ASSUME NEW p1, D!IsSlice(p1), NEW p2, D!IsSlice(p2), p1.len = p2.len, p1.len \in 17 .. 64,
         NEW a1, Acc(a1), NEW a2, Acc(a2), DefaultMid(p1, a1) = DefaultMid(p2, a2)
  PROVE  a1 = a2 /\ p1 = p2
<1> DEFINE n == p1.len
           x1 == CrossAt(p1, a1)[1]
           x2 == CrossAt(p2, a2)[1]
           y1 == CrossAt(p1, a1)[2]
           y2 == CrossAt(p2, a2)[2]
<1>1. Tagged(x1, MidTags) /\ Tagged(y1, MidTags) /\ Tagged(x2, MidTags) /\ Tagged(y2, MidTags)
  BY CrossTagged
<1>2. MidFold(x1, y1, n) = MidFold(x2, y2, n)
  BY DEF DefaultMid
<1>3. x1 = x2
  <2> HIDE DEF x1, x2, y1, y2, n
  <2>1. << "KF", 1 >> \in y1 \oplus KFat(1) /\ << "KF", 1 >> \notin (x2 \oplus KFat(0)) \oplus D!Number(n)
    BY <1>1, MidMarks
  <2>2. (x1 \oplus KFat(0)) \oplus D!Number(n) = (x2 \oplus KFat(0)) \oplus D!Number(n)
    BY <1>2, <2>1, SplitFold DEF MidFold
  <2>3. x1 \oplus KFat(0) = x2 \oplus KFat(0)
    BY <2>2, Cancel
  <2> QED BY <2>3, Cancel
<1>4. Keyed(PairsOf(p1), Ops(p1, a1)) /\ Keyed(PairsOf(p1), Ops(p2, a2)) /\ PairsOf(p1) \in {2, 4}
  <2>1. PairsOf(p1) = PairsOf(p2)
    BY DEF PairsOf
  <2> QED BY <2>1, MiddleKeyed DEF PairsOf
<1>5. \A i \in 1 .. PairsOf(p1) :
        Ops(p1, a1)[i][1] = Ops(p2, a2)[i][1] /\ Ops(p1, a1)[i][2] = Ops(p2, a2)[i][2]
  BY <1>3, <1>4, PeelCross DEF CrossAt
<1> QED BY <1>5, PeelOps
-----------------------------------------------------------------------------
(* The default function: a write of more than 64 bytes *)

\* Word i of the merged lanes of p.
Merged(i, p, s) == {<< "merged", i, p, SeedFold(s) >>}

\* The first fold over the merged words, and the word it is xored into.
FirstFold(p, s) == << "fold", {Merged(0, p, s) \oplus Foldsat(0), Merged(1, p, s) \oplus Foldsat(1)} >>
\* A fold of a pair of merged words that is not the first one.
Later(e) == \E c, d : /\ e = << "fold", {c, d} >>
                      /\ << "folds", 0 >> \notin c /\ << "folds", 0 >> \notin d

\* Of the folds in x, only the first one is that of the first two merged words.
FirstIn(x, p, s) == /\ Tagged(x, {"fold"})
                    /\ FirstFold(p, s) \in x
                    /\ \A e \in x \ {FirstFold(p, s)} : Later(e)

\* The hash of a long input: the folds and the length, folded with the seed.
LongFold(x, p, s) == Folded(x \oplus D!Number(p.len), SeedFold(s) \oplus Foldsat(8))

\* A merged word has the key that is xored to it, and no other.
LEMMA MergedKeyed ==
  ASSUME NEW i, NEW p, NEW s, NEW k
  PROVE  /\ \A j : << "folds", j >> \in Merged(i, p, s) \oplus Foldsat(k) <=> j = k
         /\ Merged(i, p, s) \oplus Foldsat(k) # {}
         /\ Merged(i, p, s) \cap Foldsat(k) = {}
<1>1. \A j : << "folds", j >> # << "merged", i, p, SeedFold(s) >>
  <2>1. \A j : << "folds", j >>[1] = "folds" /\ << "merged", i, p, SeedFold(s) >>[1] = "merged"
    OBVIOUS
  <2> QED BY <2>1
<1>2. \A j : << "folds", j >> \in Foldsat(k) <=> j = k
  BY DEF Foldsat
<1>3. \A j : << "folds", j >> \in Merged(i, p, s) \oplus Foldsat(k) <=> j = k
  BY <1>1, <1>2 DEF Merged, \oplus
<1>4. Merged(i, p, s) \cap Foldsat(k) = {}
  BY <1>1 DEF Merged, Foldsat
<1> QED BY <1>3, <1>4

\* The hash of more than 64 bytes is such a fold.
LEMMA LongIs ==
  ASSUME NEW p, NEW s, Tagged(s, AccTags)
  PROVE  \E x : FirstIn(x, p, s) /\ D!Long(p, s).lo = LongFold(x, p, s)
<1> DEFINE m(i) == Merged(i, p, s)
           f(i, j) == Folded(m(i) \oplus Foldsat(i), m(j) \oplus Foldsat(j))
           x == ((f(0, 1) \oplus f(2, 3)) \oplus f(4, 5)) \oplus f(6, 7)
           k == D!ks(s)
           w == D!lanes(p, k)
           y == x \oplus D!Number(p.len)
           z == SeedFold(s) \oplus Foldsat(8)
<1>1. k = SeedFold(s)
  BY SeedFolds
<1>2. \A i \in 0 .. 7 : w[i] = m(i)
  BY <1>1 DEF D!lanes, Merged
<1>3. \A i, j : D!fold(m(i) \oplus Foldsat(i), m(j) \oplus Foldsat(j)) = f(i, j)
  BY MergedKeyed, WordOps
<1>4. /\ w[0] = m(0) /\ w[1] = m(1) /\ w[2] = m(2) /\ w[3] = m(3)
      /\ w[4] = m(4) /\ w[5] = m(5) /\ w[6] = m(6) /\ w[7] = m(7)
  BY <1>2
<1> HIDE DEF w, f, m
<1>5. D!Folds(w, << << 0, 0, 1, 1 >>, << 2, 2, 3, 3 >>, << 4, 4, 5, 5 >>, << 6, 6, 7, 7 >> >>) = x
  BY <1>3, <1>4, WordOps, Constants DEF D!Folds
<1>6. f(0, 1) = {FirstFold(p, s)}
  BY DEF f, m, FirstFold, Folded
<1>7. ASSUME NEW i, NEW j, i # 0, j # 0 PROVE \E e : f(i, j) = {e} /\ Later(e)
  <2> DEFINE c == m(i) \oplus Foldsat(i)
             d == m(j) \oplus Foldsat(j)
  <2>1. f(i, j) = {<< "fold", {c, d} >>}
    BY DEF f, Folded
  <2>2. << "folds", 0 >> \notin c /\ << "folds", 0 >> \notin d
    BY <1>7, MergedKeyed DEF m
  <2> HIDE DEF c, d
  <2>3. Later(<< "fold", {c, d} >>)
    BY <2>2 DEF Later
  <2> QED BY <2>1, <2>3
<1>8. FirstIn(x, p, s)
  <2>1. PICK g1 : f(2, 3) = {g1} /\ Later(g1)
    BY <1>7
  <2>2. PICK g2 : f(4, 5) = {g2} /\ Later(g2)
    BY <1>7
  <2>3. PICK g3 : f(6, 7) = {g3} /\ Later(g3)
    BY <1>7
  <2> DEFINE a == m(0) \oplus Foldsat(0)
  <2>4. << "folds", 0 >> \in a
    BY MergedKeyed DEF m
  <2>5. ~Later(FirstFold(p, s))
    <3> SUFFICES ASSUME NEW c, NEW d, << "folds", 0 >> \notin c, << "folds", 0 >> \notin d,
                        FirstFold(p, s) = << "fold", {c, d} >>
                 PROVE  FALSE
      BY DEF Later
    <3> DEFINE e == Merged(1, p, s) \oplus Foldsat(1)
    <3>1. << "fold", {a, e} >> = << "fold", {c, d} >>
      BY DEF FirstFold, m
    <3> HIDE DEF a, e
    <3>2. {a, e} = {c, d}
      BY <3>1
    <3> QED BY <2>4, <3>2
  <2> DEFINE g0 == FirstFold(p, s)
  <2>6. x = (({g0} \oplus {g1}) \oplus {g2}) \oplus {g3}
    BY <1>6, <2>1, <2>2, <2>3
  <2>7. g0 # g1 /\ g0 # g2 /\ g0 # g3
    BY <2>1, <2>2, <2>3, <2>5
  <2>8. g0[1] = "fold" /\ g1[1] = "fold" /\ g2[1] = "fold" /\ g3[1] = "fold"
    BY <2>1, <2>2, <2>3 DEF FirstFold, Later
  <2> HIDE DEF g0
  <2>9. g0 \in x /\ x \subseteq {g0, g1, g2, g3}
    BY <2>6, <2>7 DEF \oplus
  <2>10. Tagged(x, {"fold"})
    BY <2>8, <2>9 DEF Tagged
  <2>11. \A e \in x \ {g0} : e = g1 \/ e = g2 \/ e = g3
    BY <2>9
  <2> QED BY <2>1, <2>2, <2>3, <2>9, <2>10, <2>11 DEF FirstIn, g0
<1> HIDE DEF x
<1>9. D!Long(p, s).lo = D!fold(y, z)
  <2> DEFINE h == D!Folds(w, << << 0, 0, 1, 1 >>, << 2, 2, 3, 3 >>, << 4, 4, 5, 5 >>, << 6, 6, 7, 7 >> >>)
             g(l, ln) == D!Folds(w, << << 0, 10, 2, 11 >>, << 1, 12, 3, 13 >>,
                                       << 4, 14, 6, 15 >>, << 5, 16, 7, 17 >> >>)
  <2>1. D!Long(p, s) = D!finish_lanes(w, k, D!Number(p.len))
    BY DEF D!Long, w
  <2>2. D!finish_lanes(w, k, D!Number(p.len)).lo
          = D!fold(D!\oplus(h, D!Number(p.len)), D!\oplus(k, D!S(8)))
    BY DEF D!finish_lanes
  <2>3. D!\oplus(h, D!Number(p.len)) = y /\ D!\oplus(k, D!S(8)) = z
    <3> HIDE DEF h, k
    <3> QED BY <1>1, <1>5, WordOps, Constants DEF h
  <2> QED BY <2>1, <2>2, <2>3
<1>10. y # {} /\ z # {}
  <2>1. FirstFold(p, s) \in x /\ FirstFold(p, s) \notin D!Number(p.len)
    <3>1. FirstFold(p, s)[1] = "fold"
      BY DEF FirstFold
    <3> QED BY <1>8, <3>1, NumberTagged DEF FirstIn, Tagged
  <2>2. << "folds", 8 >> \in Foldsat(8) /\ << "folds", 8 >> \notin SeedFold(s)
    <3>1. << "folds", 8 >>[1] = "folds"
      OBVIOUS
    <3>2. Tagged(SeedFold(s), {"fold"})
      BY FoldedTagged DEF SeedFold
    <3> QED BY <3>1, <3>2 DEF Foldsat, Tagged
  <2> QED BY <2>1, <2>2 DEF \oplus
<1> HIDE DEF y, z
<1>11. D!Long(p, s).lo = Folded(y, z)
  BY <1>9, <1>10, WordOps
<1> QED BY <1>8, <1>11 DEF y, z, LongFold

\* Equal folds of the first two merged words are those of one input.
LEMMA PeelFirstFold ==
  ASSUME NEW p1, NEW s1, NEW p2, NEW s2, FirstFold(p1, s1) = FirstFold(p2, s2)
  PROVE  p1 = p2
<1> DEFINE a(p, s) == Merged(0, p, s) \oplus Foldsat(0)
           e(p, s) == Merged(1, p, s) \oplus Foldsat(1)
<1>1. << "folds", 0 >> \in a(p1, s1) /\ << "folds", 0 >> \notin e(p2, s2)
  BY MergedKeyed
<1>2. Merged(0, p1, s1) \cap Foldsat(0) = {} /\ Merged(0, p2, s2) \cap Foldsat(0) = {}
  BY MergedKeyed
<1>4. << "fold", {a(p1, s1), e(p1, s1)} >> = << "fold", {a(p2, s2), e(p2, s2)} >>
  BY DEF FirstFold
<1>5. a(p1, s1) = a(p2, s2)
  <2> HIDE DEF a, e
  <2>1. {a(p1, s1), e(p1, s1)} = {a(p2, s2), e(p2, s2)}
    BY <1>4
  <2> QED BY <1>1, <2>1
<1>6. Merged(0, p1, s1) = Merged(0, p2, s2)
  BY <1>2, <1>5, SplitXor
<1>7. << "merged", 0, p1, SeedFold(s1) >> = << "merged", 0, p2, SeedFold(s2) >>
  BY <1>6 DEF Merged
<1> QED BY <1>7

\* The first fold is not a later one.
LEMMA NotLater ==
  ASSUME NEW p, NEW s PROVE ~Later(FirstFold(p, s))
<1> DEFINE a == Merged(0, p, s) \oplus Foldsat(0)
           e == Merged(1, p, s) \oplus Foldsat(1)
<1>1. << "folds", 0 >> \in a
  BY MergedKeyed
<1> SUFFICES ASSUME NEW c, NEW d, << "folds", 0 >> \notin c, << "folds", 0 >> \notin d,
                    FirstFold(p, s) = << "fold", {c, d} >>
             PROVE  FALSE
  BY DEF Later
<1>2. << "fold", {a, e} >> = << "fold", {c, d} >>
  BY DEF FirstFold
<1> HIDE DEF a, e
<1>3. {a, e} = {c, d}
  BY <1>2
<1> QED BY <1>1, <1>3

\* The second factor of the hash of a long input has the key 8, the first one
\* has not.
LEMMA LongMarks ==
  ASSUME NEW x, NEW p, NEW s, FirstIn(x, p, s)
  PROVE  /\ << "folds", 8 >> \in SeedFold(s) \oplus Foldsat(8)
         /\ << "folds", 8 >> \notin x \oplus D!Number(p.len)
<1>1. << "folds", 8 >>[1] = "folds"
  OBVIOUS
<1>2. Tagged(SeedFold(s), {"fold"})
  BY FoldedTagged DEF SeedFold
<1>3. << "folds", 8 >> \notin SeedFold(s)
  BY <1>1, <1>2 DEF Tagged
<1>4. << "folds", 8 >> \notin x /\ << "folds", 8 >> \notin D!Number(p.len)
  <2>1. Tagged(D!Number(p.len), {"bit"}) /\ Tagged(x, {"fold"})
    BY NumberTagged DEF FirstIn
  <2> QED BY <1>1, <2>1 DEF Tagged
<1> QED BY <1>3, <1>4 DEF \oplus, Foldsat

\* Equal hashes of long inputs are those of one input.
LEMMA PeelLong ==
  ASSUME NEW x1, NEW p1, NEW s1, FirstIn(x1, p1, s1),
         NEW x2, NEW p2, NEW s2, FirstIn(x2, p2, s2),
         LongFold(x1, p1, s1) = LongFold(x2, p2, s2)
  PROVE  p1 = p2
<1>1. x1 \oplus D!Number(p1.len) = x2 \oplus D!Number(p2.len)
  <2>1. /\ << "folds", 8 >> \in SeedFold(s1) \oplus Foldsat(8)
        /\ << "folds", 8 >> \notin x2 \oplus D!Number(p2.len)
    BY LongMarks
  <2> QED BY <2>1, SplitFold DEF LongFold
<1>2. x1 = x2
  <2>1. Tagged(x1, {"fold"}) /\ Tagged(x2, {"fold"}) /\ {"fold"} \cap {"bit"} = {}
    BY DEF FirstIn
  <2>2. \A n : x1 \cap D!Number(n) = {} /\ x2 \cap D!Number(n) = {}
    BY <2>1, NumberTagged, TaggedApart
  <2> QED BY <1>1, <2>2, SplitXor
<1>3. FirstFold(p1, s1) = FirstFold(p2, s2)
  BY <1>2, NotLater DEF FirstIn
<1> QED BY <1>3, PeelFirstFold

\* A write of more than 64 bytes folds the hash of its bytes with the length.
LongMix(g, a, n)    == Mix(g, KSat(2), a, {}, KSat(3), D!Number(n))
LongMarked(g, a, n) == Marked(<< "KS", 3 >>, g, KSat(2), a, {}, KSat(3), D!Number(n))

\* The hash of a long input is in no accumulator.
LEMMA LongApart ==
  ASSUME NEW x, NEW p, NEW s, FirstIn(x, p, s), NEW a, Acc(a) PROVE a \cap LongFold(x, p, s) = {}
<1> DEFINE c == x \oplus D!Number(p.len)
           d == SeedFold(s) \oplus Foldsat(8)
<1>1. << "folds", 8 >> \in d
  BY LongMarks
<1>2. LongFold(x, p, s) = {<< "fold", {c, d} >>}
  BY DEF LongFold, Folded
<1> HIDE DEF c, d
<1>3. << "fold", {c, d} >> \notin a
  BY <1>1 DEF Acc, NoLong
<1> QED BY <1>2, <1>3

LEMMA DefaultLong ==
  ASSUME NEW p, D!IsSlice(p), p.len > 64, NEW h, NEW q, Tagged(q, AccTags), Default(h, q)
  PROVE  \E x : LET g == LongFold(x, p, q)
                IN  /\ FirstIn(x, p, q)
                    /\ D!write(h, p) = [acc |-> LongMix(g, h.acc, p.len), seed |-> q]
                    /\ LongMarked(g, h.acc, p.len)
                    /\ Acc(LongMix(g, h.acc, p.len))
<1> DEFINE m == D!Number(p.len)
<1>1. PICK x : FirstIn(x, p, q) /\ D!Long(p, q).lo = LongFold(x, p, q)
  BY LongIs
<1> DEFINE g == LongFold(x, p, q)
<1>2. Tagged(g, {"fold"}) /\ Tagged(g, {"bit", "fold"})
  BY FoldedTagged, TaggedMore DEF LongFold
<1>3. h.acc \cap g = {} /\ Acc(h.acc)
  BY <1>1, LongApart DEF Default
<1>4. D!hash64(p, h.seed) = g
  <2>1. ~(p.len <= 64) /\ h.seed = q
    BY DEF D!IsSlice, Default
  <2> HIDE DEF g
  <2> QED BY <1>1, <2>1 DEF D!hash64, g
<1> HIDE DEF g
<1>5. Tagged(m, {"bit"}) /\ Tagged({}, {"bit"}) /\ 2 # 3
  BY NumberTagged, EmptyTagged
<1> HIDE DEF m
<1>6. Marked(<< "KS", 3 >>, g, KSat(2), h.acc, {}, KSat(3), m)
  BY <1>2, <1>3, <1>5, KeyMarks
<1>7. Acc(Mix(g, KSat(2), h.acc, {}, KSat(3), m))
  BY <1>2, <1>3, <1>5, MixAcc
<1>8. D!write_long(h, p) = D!fold(D!\oplus(D!\oplus(g, D!KS(2)), h.acc), D!\oplus(D!KS(3), m))
  <2>1. p.len > 64 /\ ~(p.len <= 64)
    BY DEF D!IsSlice
  <2> QED BY <1>4, <2>1, Zenon DEF D!write_long, m
<1>9. D!write_long(h, p) = Mix(g, KSat(2), h.acc, {}, KSat(3), m)
  <2>1. D!\oplus({}, KSat(3)) = KSat(3)
    BY DEF D!\oplus
  <2>2. D!KS(2) = KSat(2) /\ D!KS(3) = KSat(3)
    BY Constants
  <2> QED BY <1>6, <1>8, <2>1, <2>2, MixIs
<1>10. D!write(h, p) = [acc |-> Mix(g, KSat(2), h.acc, {}, KSat(3), m), seed |-> q]
  <2>1. p.len > 16
    BY DEF D!IsSlice
  <2>2. D!write(h, p) = [h EXCEPT !.acc = Mix(g, KSat(2), h.acc, {}, KSat(3), m)]
    BY <1>9, <2>1 DEF D!write
  <2> QED BY <2>2 DEF Default
<1> QED BY <1>1, <1>6, <1>7, <1>10 DEF LongMix, LongMarked, g, m

\* It gives back the accumulator before and the data.
LEMMA PeelDefaultLong ==
  ASSUME NEW p1, NEW p2, p1.len = p2.len, NEW q, NEW a1, Acc(a1), NEW a2, Acc(a2),
         NEW x1, FirstIn(x1, p1, q), NEW x2, FirstIn(x2, p2, q),
         LongMarked(LongFold(x1, p1, q), a1, p1.len), LongMarked(LongFold(x2, p2, q), a2, p2.len),
         LongMix(LongFold(x1, p1, q), a1, p1.len) = LongMix(LongFold(x2, p2, q), a2, p2.len)
  PROVE  a1 = a2 /\ p1 = p2
<1> DEFINE g1 == LongFold(x1, p1, q)
           g2 == LongFold(x2, p2, q)
<1>1. a1 \cap g2 = {} /\ a2 \cap g1 = {}
  BY LongApart
<1>2. g1 = g2 /\ a1 = a2
  <2> HIDE DEF g1, g2
  <2> QED BY <1>1, Unmix DEF LongMix, LongMarked, g1, g2
<1> QED BY <1>2, PeelLong
-----------------------------------------------------------------------------
(* The AES function: a write of up to 16 bytes *)

\* The secrets of a seed.
SecretFold(q) == Folded(q \oplus {<< "K", 0 >>}, {<< "K", 1 >>})
Secret(j, q)  == {<< "secret", j, SecretFold(q) >>}

\* An accumulator of the AES function: the secret 7, or a fold.
AesAcc(x) == x # {} /\ \A e \in x : e[1] = "fold" \/ (e[1] = "secret" /\ e[2] = 7)

\* A hasher of the AES function with the seed q.
AesHash(h, q) == /\ h = [acc |-> h.acc, seed |-> q, k |-> [j \in 0 .. 3 |-> Secret(j, q)]]
                 /\ AesAcc(h.acc)

\* A write of the AES function by its kind.
ApplyA(kind, h, p) == IF kind = "bytes" THEN A!write(h, p) ELSE A!write_int(h, p)

\* A key of a factor: none, or a secret.
AesKey(i, j, q) == i = {} \/ \E k \in 0 .. 3 : k # j /\ i = Secret(k, q)

\* The secret of the second factor marks it.
LEMMA AesMarks ==
  ASSUME NEW w, Tagged(w, {"bit", "block"}), NEW a, AesAcc(a),
         NEW v, Tagged(v, {"bit"}), NEW m, Tagged(m, {"bit"}),
         NEW j \in 0 .. 3, NEW q, NEW i, AesKey(i, j, q)
  PROVE  Marked(<< "secret", j, SecretFold(q) >>, w, i, a, v, Secret(j, q), m)
<1> DEFINE e == << "secret", j, SecretFold(q) >>
<1>1. e[1] = "secret" /\ e[2] = j /\ j # 7
  OBVIOUS
<1>2. e \in Secret(j, q)
  BY DEF Secret
<1>3. \A k : << "secret", k, SecretFold(q) >>[1] = "secret" /\ << "secret", k, SecretFold(q) >>[2] = k
  OBVIOUS
<1>4. e \notin i
  <2>1. \A k : k # j => e \notin Secret(k, q)
    BY <1>3 DEF Secret
  <2> QED BY <2>1 DEF AesKey
<1>5. a \cap i = {}
  <2>1. \A k \in 0 .. 3 : k # 7
    OBVIOUS
  <2>2. \A k \in 0 .. 3 : << "secret", k, SecretFold(q) >> \notin a
    BY <1>3, <2>1 DEF AesAcc
  <2> QED BY <2>2 DEF AesKey, Secret
<1> HIDE DEF e
<1>6. e \notin w /\ e \notin v /\ e \notin m
  BY <1>1 DEF Tagged
<1>7. e \notin a
  BY <1>1 DEF AesAcc
<1>8. a \cap w = {} /\ a # {}
  BY DEF AesAcc, Tagged
<1> QED BY <1>2, <1>4, <1>5, <1>6, <1>7, <1>8 DEF Marked, e

\* A fold is an accumulator, and has nothing in common with words.
LEMMA AesMixAcc ==
  ASSUME NEW w, NEW i, NEW a, NEW v, NEW j, NEW m PROVE AesAcc(Mix(w, i, a, v, j, m))
  BY DEF AesAcc, Mix, Folded

LEMMA AesApart ==
  ASSUME NEW a, AesAcc(a), NEW w, Tagged(w, {"bit", "block"}) PROVE a \cap w = {}
  BY DEF AesAcc, Tagged

\* The keys and the length of a write of up to 16 bytes: integers have no length,
\* and up to eight bytes of one have no key of their own.
Narrow(kind, p)   == kind = "integer" /\ p.len <= 8
KeyA(kind, p, q)  == IF Narrow(kind, p) THEN {} ELSE Secret(0, q)
KeyB(kind, p)     == IF Narrow(kind, p) THEN 2 ELSE 1
LenOf(kind, p)    == IF kind = "bytes" THEN D!Number(p.len) ELSE {}
AesMix(kind, p, a, q) ==
  Mix(WordsOf(kind, p)[1], KeyA(kind, p, q), a, WordsOf(kind, p)[2], Secret(KeyB(kind, p), q), LenOf(kind, p))
AesMarked(kind, p, a, q) ==
  Marked(<< "secret", KeyB(kind, p), SecretFold(q) >>,
         WordsOf(kind, p)[1], KeyA(kind, p, q), a, WordsOf(kind, p)[2], Secret(KeyB(kind, p), q), LenOf(kind, p))

LEMMA AesSmall ==
  ASSUME NEW kind, NEW p, Sized(kind, p), p.len <= 16, NEW h, NEW q, AesHash(h, q)
  PROVE  /\ ApplyA(kind, h, p) = [h EXCEPT !.acc = AesMix(kind, p, h.acc, q)]
         /\ AesMarked(kind, p, h.acc, q)
<1> DEFINE w == WordsOf(kind, p)
           i == KeyA(kind, p, q)
           n == KeyB(kind, p)
           j == Secret(n, q)
           m == LenOf(kind, p)
           x == AesMix(kind, p, h.acc, q)
<1>1. Tagged(w[1], {"bit"}) /\ Tagged(w[2], {"bit"}) /\ Tagged(w[1], {"bit", "block"}) /\ Tagged(m, {"bit"})
  BY WordsTagged, NumberTagged, EmptyTagged, TaggedMore DEF LenOf
<1>2. AesKey(i, n, q) /\ n \in 0 .. 3
  <2>1. 0 \in 0 .. 3 /\ 1 \in 0 .. 3 /\ 2 \in 0 .. 3 /\ 0 # 1
    OBVIOUS
  <2> QED BY <2>1 DEF AesKey, KeyA, KeyB
<1>3. AesMarked(kind, p, h.acc, q)
  <2> HIDE DEF w, i, n, m
  <2>1. AesAcc(h.acc)
    BY DEF AesHash
  <2>2. Marked(<< "secret", n, SecretFold(q) >>, w[1], i, h.acc, w[2], Secret(n, q), m)
    BY <1>1, <1>2, <2>1, AesMarks
  <2> QED BY <2>2 DEF AesMarked, w, i, n, m
<1>4. A!fold(A!\oplus(A!\oplus(w[1], i), h.acc), A!\oplus(A!\oplus(w[2], j), m)) = x
  BY <1>3, MixIs DEF AesMarked, AesMix
<1>5. /\ h.k[0] = Secret(0, q) /\ h.k[1] = Secret(1, q) /\ h.k[2] = Secret(2, q)
  <2>1. h.k = [k \in 0 .. 3 |-> Secret(k, q)]
    BY DEF AesHash
  <2>2. 0 \in 0 .. 3 /\ 1 \in 0 .. 3 /\ 2 \in 0 .. 3
    OBVIOUS
  <2> QED BY <2>1, <2>2
<1>6. \A y : A!\oplus({}, y) = y /\ A!\oplus(y, {}) = y
  BY WordOps, XorEmpty
<1>7. ApplyA(kind, h, p) = [h EXCEPT !.acc = x]
  <2> HIDE DEF x
  <2>1. CASE kind = "bytes"
    <3>1. i = Secret(0, q) /\ j = Secret(1, q) /\ m = A!Number(p.len) /\ w = A!Words16(p)
      BY <2>1, WordOps, SameWords DEF KeyA, KeyB, Narrow, LenOf, WordsOf
    <3> HIDE DEF i, j, m, w
    <3>2. A!write(h, p) = [h EXCEPT !.acc = x]
      BY <1>4, <1>5, <3>1 DEF A!write
    <3> QED BY <2>1, <3>2 DEF ApplyA
  <2>2. CASE kind = "integer" /\ p.len <= 8
    <3>1. i = {} /\ j = Secret(2, q) /\ m = {}
      BY <2>2 DEF KeyA, KeyB, Narrow, LenOf
    <3>2. w = << A!Load(p, 0, p.len, 0), {} >>
      BY <2>2, SameWords DEF WordsOf
    <3>3. w[1] = A!Load(p, 0, p.len, 0) /\ w[2] = {}
      BY <3>2
    <3> HIDE DEF i, j, m, w
    <3>4. A!fold(A!\oplus(A!Load(p, 0, p.len, 0), h.acc), h.k[2]) = x
      BY <1>4, <1>5, <1>6, <3>1, <3>3
    <3>5. A!write_int(h, p) = [h EXCEPT !.acc = x]
      BY <2>2, <3>4 DEF A!write_int
    <3> QED BY <2>2, <3>5 DEF ApplyA
  <2>3. CASE kind = "integer" /\ ~(p.len <= 8)
    <3>1. i = Secret(0, q) /\ j = Secret(1, q) /\ m = {}
      BY <2>3 DEF KeyA, KeyB, Narrow, LenOf
    <3>2. w = << A!le64(p, 0), A!le64(p, 8) >>
      BY <2>3, SameWords DEF WordsOf
    <3>3. w[1] = A!le64(p, 0) /\ w[2] = A!le64(p, 8)
      BY <3>2
    <3> HIDE DEF i, j, m, w
    <3>4. A!fold(A!\oplus(A!\oplus(A!le64(p, 0), h.k[0]), h.acc), A!\oplus(A!le64(p, 8), h.k[1])) = x
      BY <1>4, <1>5, <1>6, <3>1, <3>3
    <3>5. A!write_int(h, p) = [h EXCEPT !.acc = x]
      BY <2>3, <3>4 DEF A!write_int
    <3> QED BY <2>3, <3>5 DEF ApplyA
  <2> QED BY <2>1, <2>2, <2>3 DEF Sized
<1> QED BY <1>3, <1>7

\* The fold of up to 16 bytes gives back the accumulator before and the data.
LEMMA PeelAesShort ==
  ASSUME NEW kind, NEW p1, Sized(kind, p1), NEW p2, Sized(kind, p2), Alike(kind, p1, p2),
         p1.len <= 16, p2.len <= 16, NEW a1, AesAcc(a1), NEW a2, AesAcc(a2), NEW q,
         AesMarked(kind, p1, a1, q), AesMarked(kind, p2, a2, q),
         AesMix(kind, p1, a1, q) = AesMix(kind, p2, a2, q)
  PROVE  a1 = a2 /\ p1 = p2
<1> DEFINE w1 == WordsOf(kind, p1)
           w2 == WordsOf(kind, p2)
<1>1. a1 \cap w2[1] = {} /\ a2 \cap w1[1] = {}
  <2>1. Tagged(w1[1], {"bit", "block"}) /\ Tagged(w2[1], {"bit", "block"})
    BY WordsTagged, TaggedMore
  <2> HIDE DEF w1, w2
  <2> QED BY <2>1, AesApart
<1>2. KeyA(kind, p1, q) = KeyA(kind, p2, q) /\ KeyB(kind, p1) = KeyB(kind, p2)
  BY DEF KeyA, KeyB, Narrow, Alike, Sized
<1>3. w1[1] = w2[1] /\ a1 = a2 /\ w1[2] \oplus LenOf(kind, p1) = w2[2] \oplus LenOf(kind, p2)
  <2> HIDE DEF w1, w2
  <2> QED BY <1>1, <1>2, Unmix DEF AesMarked, AesMix, w1, w2
<1>4. CASE kind = "bytes"
  <2>1. LenOf(kind, p1) = D!Number(p1.len) /\ LenOf(kind, p2) = D!Number(p2.len)
    BY <1>4 DEF LenOf
  <2> QED BY <1>3, <2>1, AlikeWords
<1>5. CASE kind = "integer"
  <2>1. LenOf(kind, p1) = {} /\ LenOf(kind, p2) = {} /\ p1.len = p2.len
    BY <1>5 DEF LenOf, Alike
  <2>2. w1[2] = w2[2]
    BY <1>3, <2>1, XorEmpty
  <2> QED BY <1>3, <2>1, <2>2, WordsTell
<1> QED BY <1>4, <1>5 DEF Sized
-----------------------------------------------------------------------------
(* The AES function: a write of more than 16 bytes *)

\* The chunks of 16 bytes, each folded with the accumulator before it.
Chunk(h, p, i, x) ==
  A!fold(A!\oplus(A!\oplus(A!le64(p, 16 * (i - 1)), h.k[0]), x),
         A!\oplus(A!le64(p, 16 * (i - 1) + 8), h.k[1]))
ChunksOf(a, h, p, n) ==
  a = [i \in 0 .. n |-> IF i = 0 THEN h.acc ELSE Chunk(h, p, i, a[i - 1])]

\* Chunks is that recursion.
LEMMA ChunksIs ==
  ASSUME NEW h, NEW p, NEW n, NEW g, ChunksOf(g, h, p, n)
  PROVE  \E a : ChunksOf(a, h, p, n) /\ A!Chunks(h, p, n) = a[n]
<1> DEFINE a == CHOOSE a : ChunksOf(a, h, p, n)
<1>1. ChunksOf(a, h, p, n)
  <2>1. \E x : ChunksOf(x, h, p, n)
    OBVIOUS
  <2> QED BY <2>1, Zenon
<1>2. A!Chunks(h, p, n) = a[n]
  BY DEF A!Chunks, ChunksOf, Chunk
<1> HIDE DEF a
<1> QED BY <1>1, <1>2

\* Up to three chunks, one by one.
LEMMA ChunksValue ==
  ASSUME NEW h, NEW p, NEW n \in {1, 2, 3}
  PROVE  LET c1 == Chunk(h, p, 1, h.acc)
             c2 == Chunk(h, p, 2, c1)
             c3 == Chunk(h, p, 3, c2)
         IN  A!Chunks(h, p, n) = IF n = 1 THEN c1 ELSE IF n = 2 THEN c2 ELSE c3
<1> DEFINE c1 == Chunk(h, p, 1, h.acc)
           c2 == Chunk(h, p, 2, c1)
           c3 == Chunk(h, p, 3, c2)
           g == [i \in 0 .. n |-> IF i = 0 THEN h.acc ELSE IF i = 1 THEN c1
                                  ELSE IF i = 2 THEN c2 ELSE c3]
<1>1. ChunksOf(g, h, p, n)
  <2>1. \A i \in 0 .. n : i # 0 => g[i] = Chunk(h, p, i, g[i - 1])
    <3> SUFFICES ASSUME NEW i \in 0 .. n, i # 0 PROVE g[i] = Chunk(h, p, i, g[i - 1])
      OBVIOUS
    <3>1. CASE i = 1
      <4>1. g[1 - 1] = h.acc /\ g[1] = c1
        BY <3>1
      <4> QED BY <3>1, <4>1
    <3>2. CASE i = 2
      <4>1. g[2 - 1] = c1 /\ g[2] = c2
        BY <3>2
      <4> QED BY <3>2, <4>1
    <3>3. CASE i = 3
      <4>1. g[3 - 1] = c2 /\ g[3] = c3
        BY <3>3
      <4> QED BY <3>3, <4>1
    <3> QED BY <3>1, <3>2, <3>3
  <2>2. g[0] = h.acc
    OBVIOUS
  <2>3. g = [i \in 0 .. n |-> g[i]]
    OBVIOUS
  <2> HIDE DEF g
  <2> QED BY <2>1, <2>2, <2>3 DEF ChunksOf
<1>2. PICK a : ChunksOf(a, h, p, n) /\ A!Chunks(h, p, n) = a[n]
  <2> HIDE DEF g
  <2> QED BY <1>1, ChunksIs
<1>3. \A i \in 0 .. n : a[i] = IF i = 0 THEN h.acc ELSE Chunk(h, p, i, a[i - 1])
  <2>1. a = [i \in 0 .. n |-> IF i = 0 THEN h.acc ELSE Chunk(h, p, i, a[i - 1])]
    BY <1>2 DEF ChunksOf
  <2> QED BY <2>1
<1> HIDE DEF g
<1>4. a[0] = h.acc
  BY <1>3
<1>5. a[1] = c1
  <2>1. a[1] = Chunk(h, p, 1, a[1 - 1]) /\ 1 - 1 = 0
    BY <1>3
  <2> QED BY <1>4, <2>1
<1>6. n >= 2 => a[2] = c2
  <2> SUFFICES ASSUME n >= 2 PROVE a[2] = c2
    OBVIOUS
  <2>1. a[2] = Chunk(h, p, 2, a[2 - 1]) /\ 2 - 1 = 1
    BY <1>3
  <2> QED BY <1>5, <2>1
<1>7. n = 3 => a[3] = c3
  <2> SUFFICES ASSUME n = 3 PROVE a[3] = c3
    OBVIOUS
  <2>1. a[3] = Chunk(h, p, 3, a[3 - 1]) /\ 3 - 1 = 2
    BY <1>3
  <2> QED BY <1>6, <2>1
<1> HIDE DEF c1, c2, c3
<1>8. A!Chunks(h, p, n) = IF n = 1 THEN c1 ELSE IF n = 2 THEN c2 ELSE c3
  BY <1>2, <1>5, <1>6, <1>7
<1> QED BY <1>8 DEF c1, c2, c3

\* A chunk as a fold.
ChunkMix(p, i, x, q) == Mix(W(p, 16 * (i - 1)), Secret(0, q), x, W(p, 16 * (i - 1) + 8), Secret(1, q), {})
ChunkMarked(p, i, x, q) ==
  Marked(<< "secret", 1, SecretFold(q) >>,
         W(p, 16 * (i - 1)), Secret(0, q), x, W(p, 16 * (i - 1) + 8), Secret(1, q), {})

\* The secrets in a hasher.
LEMMA HeldSecrets ==
  ASSUME NEW h, NEW q, AesHash(h, q), NEW j \in 0 .. 3 PROVE h.k[j] = Secret(j, q)
<1>1. h.k = [k \in 0 .. 3 |-> Secret(k, q)]
  BY DEF AesHash
<1> QED BY <1>1

LEMMA ChunkIs ==
  ASSUME NEW h, NEW q, AesHash(h, q), NEW p, D!IsSlice(p), NEW i \in Nat, i > 0, 16 * i <= p.len,
         NEW x, AesAcc(x)
  PROVE  /\ Chunk(h, p, i, x) = ChunkMix(p, i, x, q)
         /\ ChunkMarked(p, i, x, q)
         /\ AesAcc(ChunkMix(p, i, x, q))
<1> DEFINE first == 16 * (i - 1)
           w == W(p, first)
           v == W(p, first + 8)
<1>1. Tagged(w, {"bit"}) /\ Tagged(v, {"bit"}) /\ Tagged(w, {"bit", "block"})
  <2>1. first \in Nat /\ first + 8 <= p.len /\ first + 8 \in Nat /\ (first + 8) + 8 <= p.len
    BY DEF D!IsSlice
  <2> HIDE DEF first
  <2> QED BY <2>1, WordTagged, TaggedMore DEF W
<1>2. A!le64(p, first) = w /\ A!le64(p, first + 8) = v
  BY SameWords DEF W
<1>3. 0 \in 0 .. 3 /\ 1 \in 0 .. 3 /\ 0 # 1
  OBVIOUS
<1>4. Chunk(h, p, i, x) = A!fold(A!\oplus(A!\oplus(w, Secret(0, q)), x), A!\oplus(v, Secret(1, q)))
  <2>1. h.k[0] = Secret(0, q) /\ h.k[1] = Secret(1, q)
    BY <1>3, HeldSecrets
  <2> HIDE DEF w, v
  <2> QED BY <1>2, <2>1 DEF Chunk
<1> HIDE DEF w, v
<1>5. Tagged({}, {"bit"}) /\ AesKey(Secret(0, q), 1, q)
  BY <1>3, EmptyTagged DEF AesKey
<1>6. Marked(<< "secret", 1, SecretFold(q) >>, w, Secret(0, q), x, v, Secret(1, q), {})
  BY <1>1, <1>3, <1>5, AesMarks
<1>7. Chunk(h, p, i, x) = Mix(w, Secret(0, q), x, v, Secret(1, q), {})
  <2>1. A!\oplus(A!\oplus(v, Secret(1, q)), {}) = A!\oplus(v, Secret(1, q))
    BY WordOps, XorEmpty
  <2> QED BY <1>4, <1>6, <2>1, MixIs
<1>8. AesAcc(Mix(w, Secret(0, q), x, v, Secret(1, q), {}))
  BY AesMixAcc
<1> QED BY <1>6, <1>7, <1>8 DEF ChunkMix, ChunkMarked, w, v

\* It gives back the accumulator before and its words.
LEMMA PeelChunk ==
  ASSUME NEW p1, D!IsSlice(p1), NEW p2, D!IsSlice(p2), p1.len = p2.len,
         NEW i \in Nat, i > 0, 16 * i <= p1.len, NEW q, NEW x1, AesAcc(x1), NEW x2, AesAcc(x2),
         ChunkMarked(p1, i, x1, q), ChunkMarked(p2, i, x2, q),
         ChunkMix(p1, i, x1, q) = ChunkMix(p2, i, x2, q)
  PROVE  /\ x1 = x2
         /\ W(p1, 16 * (i - 1)) = W(p2, 16 * (i - 1))
         /\ W(p1, 16 * (i - 1) + 8) = W(p2, 16 * (i - 1) + 8)
<1> DEFINE first == 16 * (i - 1)
           w1 == W(p1, first)
           w2 == W(p2, first)
           v1 == W(p1, first + 8)
           v2 == W(p2, first + 8)
<1>1. x1 \cap w2 = {} /\ x2 \cap w1 = {}
  <2>1. first \in Nat /\ first + 8 <= p1.len
    BY DEF D!IsSlice
  <2> HIDE DEF first
  <2>2. Tagged(w1, {"bit", "block"}) /\ Tagged(w2, {"bit", "block"})
    BY <2>1, WordTagged, TaggedMore DEF W
  <2> QED BY <2>2, AesApart
<1> HIDE DEF w1, w2, v1, v2
<1>2. w1 = w2 /\ x1 = x2 /\ v1 \oplus {} = v2 \oplus {}
  BY <1>1, Unmix DEF ChunkMarked, ChunkMix, w1, w2, v1, v2
<1> QED BY <1>2, XorEmpty DEF w1, w2, v1, v2

\* The chunks before the last 16 bytes, one after the other.
ChunksBefore(p) == (p.len - 1) \div 16
Chain(p, m, a, q) ==
  IF m = 1 THEN ChunkMix(p, 1, a, q)
  ELSE IF m = 2 THEN ChunkMix(p, 2, ChunkMix(p, 1, a, q), q)
  ELSE ChunkMix(p, 3, ChunkMix(p, 2, ChunkMix(p, 1, a, q), q), q)

LEMMA ChunksFit ==
  ASSUME NEW p, p.len \in 17 .. 64
  PROVE  /\ ChunksBefore(p) \in {1, 2, 3}
         /\ \A i \in 1 .. ChunksBefore(p) : 16 * i <= p.len
         /\ \A k \in 0 .. p.len - 1 :
              \/ \E i \in 1 .. ChunksBefore(p) :
                   k \in 16 * (i - 1) .. 16 * (i - 1) + 7 \/ k \in 16 * (i - 1) + 8 .. 16 * (i - 1) + 8 + 7
              \/ k \in p.len - 16 .. p.len - 16 + 7 \/ k \in p.len - 8 .. p.len - 8 + 7
<1> DEFINE n == p.len
           m == (n - 1) \div 16
<1>1. m \in {1, 2, 3} /\ 16 * m <= n - 1 /\ n - 1 < 16 * m + 16
  OBVIOUS
<1>2. ChunksBefore(p) = m
  BY DEF ChunksBefore
<1> HIDE DEF m
<1>3. \A i \in 1 .. m : 16 * i <= n
  BY <1>1
<1>4. ASSUME NEW k \in 0 .. n - 1
      PROVE  \/ \E i \in 1 .. m :
                  k \in 16 * (i - 1) .. 16 * (i - 1) + 7 \/ k \in 16 * (i - 1) + 8 .. 16 * (i - 1) + 8 + 7
             \/ k \in n - 16 .. n - 16 + 7 \/ k \in n - 8 .. n - 8 + 7
  <2>1. CASE k >= 16 * m
    BY <1>1, <2>1
  <2>2. CASE k < 16 * m
    <3> DEFINE i == k \div 16 + 1
    <3>1. i \in 1 .. m /\ 16 * (i - 1) <= k /\ k < 16 * (i - 1) + 16
      BY <1>1, <2>2
    <3> HIDE DEF i
    <3>2. k \in 16 * (i - 1) .. 16 * (i - 1) + 7 \/ k \in 16 * (i - 1) + 8 .. 16 * (i - 1) + 8 + 7
      BY <1>1, <3>1
    <3> QED BY <3>1, <3>2
  <2> QED BY <1>1, <2>1, <2>2
<1> QED BY <1>1, <1>2, <1>3, <1>4

LEMMA ChainAcc ==
  ASSUME NEW p, NEW m, NEW a, NEW q PROVE AesAcc(Chain(p, m, a, q))
  BY AesMixAcc DEF Chain, ChunkMix

LEMMA ChainIs ==
  ASSUME NEW h, NEW q, AesHash(h, q), NEW p, D!IsSlice(p), p.len \in 17 .. 64
  PROVE  A!Chunks(h, p, ChunksBefore(p)) = Chain(p, ChunksBefore(p), h.acc, q)
<1> DEFINE n == ChunksBefore(p)
           c1 == Chunk(h, p, 1, h.acc)
           c2 == Chunk(h, p, 2, c1)
           c3 == Chunk(h, p, 3, c2)
           d1 == ChunkMix(p, 1, h.acc, q)
           d2 == ChunkMix(p, 2, d1, q)
           d3 == ChunkMix(p, 3, d2, q)
<1>1. n \in {1, 2, 3} /\ \A i \in 1 .. n : 16 * i <= p.len
  BY ChunksFit
<1>2. A!Chunks(h, p, n) = IF n = 1 THEN c1 ELSE IF n = 2 THEN c2 ELSE c3
  BY <1>1, ChunksValue
<1>3. AesAcc(h.acc) /\ AesAcc(d1) /\ AesAcc(d2)
  BY AesMixAcc DEF AesHash, ChunkMix
<1> HIDE DEF n, d1, d2, d3
<1>4. \A i \in 1 .. n : \A x : AesAcc(x) => Chunk(h, p, i, x) = ChunkMix(p, i, x, q)
  <2> SUFFICES ASSUME NEW i \in 1 .. n, NEW x, AesAcc(x) PROVE Chunk(h, p, i, x) = ChunkMix(p, i, x, q)
    OBVIOUS
  <2>1. i \in Nat /\ i > 0 /\ 16 * i <= p.len
    BY <1>1
  <2> QED BY <2>1, ChunkIs
<1>5. c1 = d1
  <2>1. 1 \in 1 .. n
    BY <1>1
  <2> QED BY <1>3, <1>4, <2>1 DEF d1
<1>6. n # 1 => c2 = d2
  <2>1. n # 1 => 2 \in 1 .. n
    BY <1>1
  <2> HIDE DEF c1
  <2> QED BY <1>3, <1>4, <1>5, <2>1 DEF d2
<1>7. n # 1 /\ n # 2 => c3 = d3
  <2>1. n # 1 /\ n # 2 => 3 \in 1 .. n
    BY <1>1
  <2> HIDE DEF c2
  <2> QED BY <1>3, <1>4, <1>6, <2>1 DEF d3
<1> HIDE DEF c1, c2, c3
<1>8. A!Chunks(h, p, n) = IF n = 1 THEN d1 ELSE IF n = 2 THEN d2 ELSE d3
  BY <1>2, <1>5, <1>6, <1>7
<1> QED BY <1>8 DEF Chain, d1, d2, d3, n

\* It gives back the accumulator before and all words of the chunks.
LEMMA PeelChain ==
  ASSUME NEW p1, D!IsSlice(p1), NEW p2, D!IsSlice(p2), p1.len = p2.len, p1.len \in 17 .. 64,
         NEW q, NEW h1, AesHash(h1, q), NEW h2, AesHash(h2, q),
         NEW m, m = ChunksBefore(p1), Chain(p1, m, h1.acc, q) = Chain(p2, m, h2.acc, q)
  PROVE  /\ h1.acc = h2.acc
         /\ \A i \in 1 .. m : /\ W(p1, 16 * (i - 1)) = W(p2, 16 * (i - 1))
                             /\ W(p1, 16 * (i - 1) + 8) = W(p2, 16 * (i - 1) + 8)
<1> DEFINE Same(i) == /\ W(p1, 16 * (i - 1)) = W(p2, 16 * (i - 1))
                      /\ W(p1, 16 * (i - 1) + 8) = W(p2, 16 * (i - 1) + 8)
           c(p, a) == ChunkMix(p, 1, a, q)
           d(p, a) == ChunkMix(p, 2, c(p, a), q)
           e(p, a) == ChunkMix(p, 3, d(p, a), q)
<1>1. m \in {1, 2, 3} /\ \A i \in 1 .. m : 16 * i <= p1.len /\ 16 * i <= p2.len
  BY ChunksFit
<1>2. ASSUME NEW i \in 1 .. m, NEW x1, AesAcc(x1), NEW x2, AesAcc(x2),
             ChunkMix(p1, i, x1, q) = ChunkMix(p2, i, x2, q)
      PROVE  x1 = x2 /\ Same(i)
  <2>1. i \in Nat /\ i > 0 /\ 16 * i <= p1.len /\ 16 * i <= p2.len
    BY <1>1
  <2>2. ChunkMarked(p1, i, x1, q) /\ ChunkMarked(p2, i, x2, q)
    BY <1>2, <2>1, ChunkIs
  <2> QED BY <1>2, <2>1, <2>2, PeelChunk
<1>3. \A p, a : AesAcc(c(p, a)) /\ AesAcc(d(p, a))
  BY AesMixAcc DEF ChunkMix
<1>4. AesAcc(h1.acc) /\ AesAcc(h2.acc)
  BY DEF AesHash
<1> HIDE DEF Same
<1>5. ASSUME c(p1, h1.acc) = c(p2, h2.acc) PROVE h1.acc = h2.acc /\ Same(1)
  <2>1. 1 \in 1 .. m
    BY <1>1
  <2> QED BY <1>2, <1>4, <1>5, <2>1
<1> HIDE DEF c
<1>6. ASSUME m # 1, d(p1, h1.acc) = d(p2, h2.acc) PROVE c(p1, h1.acc) = c(p2, h2.acc) /\ Same(2)
  <2>1. 2 \in 1 .. m
    BY <1>1, <1>6
  <2> QED BY <1>2, <1>3, <1>6, <2>1
<1> HIDE DEF d
<1>7. ASSUME m # 1, m # 2, e(p1, h1.acc) = e(p2, h2.acc) PROVE d(p1, h1.acc) = d(p2, h2.acc) /\ Same(3)
  <2>1. 3 \in 1 .. m
    BY <1>1, <1>7
  <2> QED BY <1>2, <1>3, <1>7, <2>1
<1> HIDE DEF e
<1>8. \A p, a : Chain(p, m, a, q) = IF m = 1 THEN c(p, a) ELSE IF m = 2 THEN d(p, a) ELSE e(p, a)
  BY DEF Chain, c, d, e
<1>9. h1.acc = h2.acc /\ Same(1) /\ (m # 1 => Same(2)) /\ (m # 1 /\ m # 2 => Same(3))
  <2>1. CASE m = 1
    BY <1>5, <1>8, <2>1
  <2>2. CASE m = 2
    BY <1>5, <1>6, <1>8, <2>2
  <2>3. CASE m = 3
    BY <1>5, <1>6, <1>7, <1>8, <2>3
  <2> QED BY <1>1, <2>1, <2>2, <2>3
<1>10. \A i \in 1 .. m : i = 1 \/ (m # 1 /\ i = 2) \/ (m # 1 /\ m # 2 /\ i = 3)
  BY <1>1
<1>11. \A i \in 1 .. m : Same(i)
  BY <1>9, <1>10
<1> QED BY <1>9, <1>11 DEF Same

\* A write of 17 to 64 bytes: the chain, and the last 16 bytes.
AesMid(p, a, q) ==
  Mix(W(p, p.len - 16), Secret(2, q), Chain(p, ChunksBefore(p), a, q),
      W(p, p.len - 8), Secret(3, q), D!Number(p.len))
AesMidMarked(p, a, q) ==
  Marked(<< "secret", 3, SecretFold(q) >>,
         W(p, p.len - 16), Secret(2, q), Chain(p, ChunksBefore(p), a, q),
         W(p, p.len - 8), Secret(3, q), D!Number(p.len))

LEMMA AesMiddle ==
  ASSUME NEW h, NEW q, AesHash(h, q), NEW p, D!IsSlice(p), p.len \in 17 .. 64
  PROVE  /\ A!write(h, p) = [h EXCEPT !.acc = AesMid(p, h.acc, q)]
         /\ AesMidMarked(p, h.acc, q)
<1> DEFINE w == W(p, p.len - 16)
           v == W(p, p.len - 8)
           a == Chain(p, ChunksBefore(p), h.acc, q)
           m == D!Number(p.len)
<1>1. Tagged(w, {"bit"}) /\ Tagged(v, {"bit"}) /\ Tagged(w, {"bit", "block"}) /\ Tagged(m, {"bit"})
  <2>1. p.len - 16 \in Nat /\ (p.len - 16) + 8 <= p.len /\ p.len - 8 \in Nat /\ (p.len - 8) + 8 <= p.len
    OBVIOUS
  <2> QED BY <2>1, WordTagged, TaggedMore, NumberTagged DEF W
<1>2. AesAcc(a)
  BY ChainAcc
<1>3. 2 \in 0 .. 3 /\ 3 \in 0 .. 3 /\ 2 # 3
  OBVIOUS
<1>4. A!write(h, p)
        = [h EXCEPT !.acc = A!fold(A!\oplus(A!\oplus(w, Secret(2, q)), a), A!\oplus(A!\oplus(v, Secret(3, q)), m))]
  <2>1. h.k[2] = Secret(2, q) /\ h.k[3] = Secret(3, q)
    BY <1>3, HeldSecrets
  <2>2. A!le64(p, p.len - 16) = w /\ A!le64(p, p.len - 8) = v /\ A!Number(p.len) = m
    BY SameWords, WordOps DEF W
  <2>3. A!Chunks(h, p, (p.len - 1) \div 16) = a
    BY ChainIs DEF ChunksBefore
  <2>4. ~(p.len <= 16) /\ p.len <= 64
    OBVIOUS
  <2> HIDE DEF w, v, a, m
  <2> QED BY <2>1, <2>2, <2>3, <2>4 DEF A!write, A!write_long
<1> HIDE DEF w, v, a, m
<1>5. AesKey(Secret(2, q), 3, q)
  BY <1>3 DEF AesKey
<1>6. Marked(<< "secret", 3, SecretFold(q) >>, w, Secret(2, q), a, v, Secret(3, q), m)
  BY <1>1, <1>2, <1>3, <1>5, AesMarks
<1>7. A!fold(A!\oplus(A!\oplus(w, Secret(2, q)), a), A!\oplus(A!\oplus(v, Secret(3, q)), m))
        = Mix(w, Secret(2, q), a, v, Secret(3, q), m)
  BY <1>6, MixIs
<1> QED BY <1>4, <1>6, <1>7 DEF AesMid, AesMidMarked, w, v, a, m

\* It gives back the accumulator before and the data.
LEMMA PeelAesMiddle ==
  ASSUME NEW p1, D!IsSlice(p1), NEW p2, D!IsSlice(p2), p1.len = p2.len, p1.len \in 17 .. 64,
         NEW q, NEW h1, AesHash(h1, q), NEW h2, AesHash(h2, q),
         AesMidMarked(p1, h1.acc, q), AesMidMarked(p2, h2.acc, q),
         AesMid(p1, h1.acc, q) = AesMid(p2, h2.acc, q)
  PROVE  h1.acc = h2.acc /\ p1 = p2
<1> DEFINE n == p1.len
           m == ChunksBefore(p1)
           w1 == W(p1, n - 16)
           w2 == W(p2, n - 16)
           v1 == W(p1, n - 8)
           v2 == W(p2, n - 8)
           a1 == Chain(p1, m, h1.acc, q)
           a2 == Chain(p2, m, h2.acc, q)
<1>1. ChunksBefore(p2) = m
  BY DEF ChunksBefore
<1>2. a1 \cap w2 = {} /\ a2 \cap w1 = {}
  <2>1. n - 16 \in Nat /\ (n - 16) + 8 <= n
    OBVIOUS
  <2>2. Tagged(w1, {"bit", "block"}) /\ Tagged(w2, {"bit", "block"})
    BY <2>1, WordTagged, TaggedMore DEF W
  <2>3. AesAcc(a1) /\ AesAcc(a2)
    BY ChainAcc
  <2> HIDE DEF w1, w2, a1, a2
  <2> QED BY <2>2, <2>3, AesApart
<1>3. w1 = w2 /\ a1 = a2 /\ v1 = v2
  <2> HIDE DEF w1, w2, v1, v2, a1, a2
  <2>1. w1 = w2 /\ a1 = a2 /\ v1 \oplus D!Number(n) = v2 \oplus D!Number(n)
    <3>1. /\ Marked(<< "secret", 3, SecretFold(q) >>, w1, Secret(2, q), a1, v1, Secret(3, q), D!Number(n))
          /\ Marked(<< "secret", 3, SecretFold(q) >>, w2, Secret(2, q), a2, v2, Secret(3, q), D!Number(n))
      BY <1>1 DEF AesMidMarked, w1, w2, v1, v2, a1, a2
    <3>2. Mix(w1, Secret(2, q), a1, v1, Secret(3, q), D!Number(n))
            = Mix(w2, Secret(2, q), a2, v2, Secret(3, q), D!Number(n))
      BY <1>1 DEF AesMid, w1, w2, v1, v2, a1, a2
    <3> HIDE DEF n
    <3> QED BY <1>2, <3>1, <3>2, Unmix
  <2> QED BY <2>1, Cancel
<1>4. /\ h1.acc = h2.acc
      /\ \A i \in 1 .. m : /\ W(p1, 16 * (i - 1)) = W(p2, 16 * (i - 1))
                          /\ W(p1, 16 * (i - 1) + 8) = W(p2, 16 * (i - 1) + 8)
  BY <1>3, PeelChain
<1>5. p1 = p2
  <2> SUFFICES ASSUME NEW k \in 0 .. n - 1 PROVE p1.byte[k] = p2.byte[k]
    BY SameSlices
  <2>1. PICK i \in Nat : i + 8 <= n /\ W(p1, i) = W(p2, i) /\ k \in i .. i + 7
    <3>1. CASE k \in n - 16 .. n - 16 + 7
      <4>1. n - 16 \in Nat /\ (n - 16) + 8 <= n
        OBVIOUS
      <4> QED BY <1>3, <3>1, <4>1
    <3>2. CASE k \in n - 8 .. n - 8 + 7
      <4>1. n - 8 \in Nat /\ (n - 8) + 8 <= n
        OBVIOUS
      <4> QED BY <1>3, <3>2, <4>1
    <3>3. CASE \E j \in 1 .. m :
                 k \in 16 * (j - 1) .. 16 * (j - 1) + 7 \/ k \in 16 * (j - 1) + 8 .. 16 * (j - 1) + 8 + 7
      <4>1. PICK j \in 1 .. m :
                   k \in 16 * (j - 1) .. 16 * (j - 1) + 7 \/ k \in 16 * (j - 1) + 8 .. 16 * (j - 1) + 8 + 7
        BY <3>3
      <4>2. m \in {1, 2, 3} /\ 16 * j <= n
        BY ChunksFit
      <4> DEFINE first == 16 * (j - 1)
      <4>3. first \in Nat /\ first + 8 <= n /\ first + 8 \in Nat /\ (first + 8) + 8 <= n
        BY <4>2
      <4>4. W(p1, first) = W(p2, first) /\ W(p1, first + 8) = W(p2, first + 8)
        BY <1>4
      <4> QED BY <4>1, <4>3, <4>4
    <3> QED BY <3>1, <3>2, <3>3, ChunksFit
  <2> QED BY <2>1, WordTells DEF W
<1> QED BY <1>4, <1>5

\* The hash of more than 64 bytes is a block of its bytes.
LEMMA AesLongIs ==
  ASSUME NEW h, NEW p, p.len > 64
  PROVE  \E u : A!hash64(p, h.seed) = {<< "block", "lo", u, p, h.seed >>}
<1>1. A!hash64(p, h.seed) = A!one_shot(p, h.seed).lo
  BY DEF A!hash64
<1>2. \E u : A!one_shot(p, h.seed).lo = {<< "block", "lo", u, p, h.seed >>}
  <2> DEFINE u == A!Closing!FinishLanes(A!Closing!Lanes(A!Regimes!RegimeLanes(p.len)), p.len, 1)
  <2>1. A!one_shot(p, h.seed) = A!Halves(u, p, h.seed)
    BY DEF A!one_shot, A!one_shot_with
  <2> HIDE DEF u
  <2> QED BY <2>1 DEF A!Halves
<1> QED BY <1>1, <1>2

\* A write of more than 64 bytes folds the hash of its bytes with the length.
Block(u, p, q) == {<< "block", "lo", u, p, q >>}
BlockMix(g, a, n, q)    == Mix(g, Secret(2, q), a, {}, Secret(3, q), D!Number(n))
BlockMarked(g, a, n, q) == Marked(<< "secret", 3, SecretFold(q) >>, g, Secret(2, q), a, {}, Secret(3, q), D!Number(n))

LEMMA AesLong ==
  ASSUME NEW h, NEW q, AesHash(h, q), NEW p, D!IsSlice(p), p.len > 64
  PROVE  \E u : /\ A!write(h, p) = [h EXCEPT !.acc = BlockMix(Block(u, p, q), h.acc, p.len, q)]
                /\ BlockMarked(Block(u, p, q), h.acc, p.len, q)
<1> DEFINE m == D!Number(p.len)
<1>1. PICK u : A!hash64(p, h.seed) = Block(u, p, q)
  <2>1. PICK x : A!hash64(p, h.seed) = {<< "block", "lo", x, p, h.seed >>}
    BY AesLongIs
  <2>2. h.seed = q
    BY DEF AesHash
  <2> QED BY <2>1, <2>2 DEF Block
<1> DEFINE g == Block(u, p, q)
<1>2. Tagged(g, {"bit", "block"})
  <2>1. << "block", "lo", u, p, q >>[1] = "block"
    OBVIOUS
  <2> QED BY <2>1 DEF Block, Tagged
<1>3. Tagged({}, {"bit"}) /\ Tagged(m, {"bit"}) /\ AesAcc(h.acc)
  BY EmptyTagged, NumberTagged DEF AesHash
<1>4. 2 \in 0 .. 3 /\ 3 \in 0 .. 3 /\ 2 # 3
  OBVIOUS
<1>5. AesKey(Secret(2, q), 3, q)
  BY <1>4 DEF AesKey
<1>6. h.k[2] = Secret(2, q) /\ h.k[3] = Secret(3, q)
  BY <1>4, HeldSecrets
<1>7. A!write(h, p)
        = [h EXCEPT !.acc = A!fold(A!\oplus(A!\oplus(g, Secret(2, q)), h.acc), A!\oplus(Secret(3, q), m))]
  <2>1. ~(p.len <= 16) /\ ~(p.len <= 64)
    BY DEF D!IsSlice
  <2>2. A!Number(p.len) = m
    BY WordOps
  <2> HIDE DEF g, m
  <2> QED BY <1>1, <1>6, <2>1, <2>2 DEF A!write, A!write_long, g
<1> HIDE DEF g, m
<1>8. Marked(<< "secret", 3, SecretFold(q) >>, g, Secret(2, q), h.acc, {}, Secret(3, q), m)
  BY <1>2, <1>3, <1>4, <1>5, AesMarks
<1>9. A!fold(A!\oplus(A!\oplus(g, Secret(2, q)), h.acc), A!\oplus(Secret(3, q), m))
        = Mix(g, Secret(2, q), h.acc, {}, Secret(3, q), m)
  <2>1. A!\oplus({}, Secret(3, q)) = Secret(3, q)
    BY WordOps, XorEmpty
  <2> QED BY <1>8, <2>1, MixIs
<1> QED BY <1>7, <1>8, <1>9 DEF BlockMix, BlockMarked, g, m

\* It gives back the accumulator before and the data.
LEMMA PeelAesLong ==
  ASSUME NEW p1, NEW p2, p1.len = p2.len, NEW q, NEW a1, AesAcc(a1), NEW a2, AesAcc(a2), NEW u1, NEW u2,
         BlockMarked(Block(u1, p1, q), a1, p1.len, q), BlockMarked(Block(u2, p2, q), a2, p2.len, q),
         BlockMix(Block(u1, p1, q), a1, p1.len, q) = BlockMix(Block(u2, p2, q), a2, p2.len, q)
  PROVE  a1 = a2 /\ p1 = p2
<1> DEFINE g1 == Block(u1, p1, q)
           g2 == Block(u2, p2, q)
<1>1. a1 \cap g2 = {} /\ a2 \cap g1 = {}
  <2>1. << "block", "lo", u1, p1, q >>[1] = "block" /\ << "block", "lo", u2, p2, q >>[1] = "block"
    OBVIOUS
  <2>2. Tagged(g1, {"bit", "block"}) /\ Tagged(g2, {"bit", "block"})
    BY <2>1 DEF Block, Tagged
  <2> HIDE DEF g1, g2
  <2> QED BY <2>2, AesApart
<1>2. g1 = g2 /\ a1 = a2
  <2> HIDE DEF g1, g2
  <2> QED BY <1>1, Unmix DEF BlockMix, BlockMarked, g1, g2
<1>3. << "block", "lo", u1, p1, q >> = << "block", "lo", u2, p2, q >>
  BY <1>2 DEF Block
<1> QED BY <1>2, <1>3
-----------------------------------------------------------------------------
(* One write of either function *)

\* What a state may hold as its seed.
IsSeed(s) == s = Fixed \/ \E t : s = Draw(t)

\* A write of the process' function by its kind.
Apply(kind, h, p) == IF kind = "bytes" THEN write(h, p) ELSE write_int(h, p)

\* A hasher of the process' function with the seed q.
Good(h, q) == IF fn = "default" THEN Default(h, q) ELSE AesHash(h, q)

\* Which is that of one of the functions.
LEMMA ApplyIs ==
  ASSUME NEW kind, NEW h, NEW p
  PROVE  Apply(kind, h, p) = IF fn = "default" THEN ApplyD(kind, h, p) ELSE ApplyA(kind, h, p)
<1>1. CASE fn = "default"
  BY <1>1 DEF Apply, write, write_int, ApplyD
<1>2. CASE fn # "default"
  BY <1>2 DEF Apply, write, write_int, ApplyA
<1> QED BY <1>1, <1>2

\* A seed is made of seed atoms.
LEMMA SeedTagged ==
  ASSUME NEW s, IsSeed(s)
  PROVE  /\ Tagged(s, {"seed"}) /\ s # {} /\ Tagged(s, AccTags)
<1>1. CASE s = Fixed
  BY <1>1 DEF Fixed, Tagged, AccTags
<1>2. CASE \E t : s = Draw(t)
  BY <1>2 DEF Draw, Tagged, AccTags
<1> QED BY <1>1, <1>2 DEF IsSeed

\* A hasher starts with an accumulator that is no fold.
LEMMA DefaultBase ==
  ASSUME NEW s, IsSeed(s)
  PROVE  /\ D!new(s) = [acc |-> s \oplus KFat(0), seed |-> s]
         /\ Acc(s \oplus KFat(0))
         /\ \A u, v : s \oplus KFat(0) # Folded(u, v)
<1>1. D!new(s) = [acc |-> s \oplus KFat(0), seed |-> s]
  BY WordOps, Constants DEF D!new
<1>2. \A e \in s : e[1] = "seed"
  BY SeedTagged DEF Tagged
<1>3. << "KF", 0 >>[1] = "KF"
  OBVIOUS
<1>4. s \oplus KFat(0) = s \cup KFat(0)
  BY <1>2, <1>3 DEF \oplus, KFat
<1>5. \A e \in s \cup KFat(0) : e[1] \in {"seed", "KF"} /\ e[1] # "fold"
  BY <1>2, <1>3 DEF KFat
<1>6. NoLong(s \cup KFat(0))
  <2> SUFFICES ASSUME NEW c, NEW d, << "fold", {c, d} >> \in s \cup KFat(0) PROVE FALSE
    BY DEF NoLong
  <2>1. << "fold", {c, d} >>[1] = "fold"
    OBVIOUS
  <2> QED BY <1>5, <2>1
<1>7. Tagged(s \cup KFat(0), AccTags) /\ s \cup KFat(0) # {}
  BY <1>5, SeedTagged DEF Tagged, AccTags
<1>8. ASSUME NEW u, NEW v, s \cup KFat(0) = Folded(u, v) PROVE FALSE
  <2>1. << "KF", 0 >> \in Folded(u, v)
    BY <1>8 DEF KFat
  <2> QED BY <1>3, <2>1, FoldedTagged DEF Tagged
<1> QED BY <1>1, <1>4, <1>6, <1>7, <1>8 DEF Acc

\* The same for the AES function: the accumulator starts as the secret 7.
LEMMA AesBase ==
  ASSUME NEW s, IsSeed(s)
  PROVE  /\ A!build_hasher(s) = [acc |-> Secret(7, s), seed |-> s, k |-> [j \in 0 .. 3 |-> Secret(j, s)]]
         /\ AesAcc(Secret(7, s))
         /\ \A u, v : Secret(7, s) # Folded(u, v)
<1>1. A!fold(A!\oplus(s, A!Const("K", 0)), A!Const("K", 1)) = SecretFold(s)
  <2>1. s \oplus {<< "K", 0 >>} # {}
    <3>1. << "K", 0 >>[1] = "K"
      OBVIOUS
    <3>2. << "K", 0 >> \notin s
      BY <3>1, SeedTagged DEF Tagged
    <3> QED BY <3>2 DEF \oplus
  <2>2. A!Const("K", 0) = {<< "K", 0 >>} /\ A!Const("K", 1) = {<< "K", 1 >>}
    BY DEF A!Const
  <2> QED BY <2>1, <2>2, WordOps DEF SecretFold
<1>2. A!secrets(s) = [j \in 0 .. 7 |-> Secret(j, s)]
  BY <1>1 DEF A!secrets, Secret
<1>3. A!build_hasher(s) = [acc |-> Secret(7, s), seed |-> s, k |-> [j \in 0 .. 3 |-> Secret(j, s)]]
  <2>1. 7 \in 0 .. 7 /\ \A j \in 0 .. 3 : j \in 0 .. 7
    OBVIOUS
  <2> QED BY <1>2, <2>1 DEF A!build_hasher, A!with_secrets
<1>4. << "secret", 7, SecretFold(s) >>[1] = "secret" /\ << "secret", 7, SecretFold(s) >>[2] = 7
  OBVIOUS
<1>5. \A u, v : Secret(7, s) # Folded(u, v)
  <2> SUFFICES ASSUME NEW u, NEW v, Secret(7, s) = Folded(u, v) PROVE FALSE
    OBVIOUS
  <2>1. << "secret", 7, SecretFold(s) >> \in Folded(u, v)
    BY DEF Secret
  <2> QED BY <1>4, <2>1, FoldedTagged DEF Tagged
<1>6. AesAcc(Secret(7, s))
  BY <1>4 DEF AesAcc, Secret
<1> QED BY <1>3, <1>5, <1>6

\* A new hasher is a hasher, and its accumulator is no fold.
LEMMA Base ==
  ASSUME fn \in {"default", "aes"}, NEW s, IsSeed(s)
  PROVE  Good(new(s), s) /\ \A u, v : new(s).acc # Folded(u, v)
<1>1. CASE fn = "default"
  <2>1. new(s) = [acc |-> s \oplus KFat(0), seed |-> s]
    BY <1>1, DefaultBase DEF new
  <2>2. Acc(s \oplus KFat(0)) /\ \A u, v : s \oplus KFat(0) # Folded(u, v)
    BY DefaultBase
  <2> DEFINE a == s \oplus KFat(0)
  <2> HIDE DEF a
  <2>3. new(s).acc = a /\ Default(new(s), s)
    BY <2>1, <2>2 DEF a, Default
  <2> QED BY <1>1, <2>2, <2>3 DEF Good, a
<1>2. CASE fn = "aes"
  <2> DEFINE a == Secret(7, s)
             k == [j \in 0 .. 3 |-> Secret(j, s)]
  <2>1. new(s) = [acc |-> a, seed |-> s, k |-> k]
    BY <1>2, AesBase DEF new
  <2>2. AesAcc(a) /\ \A u, v : a # Folded(u, v)
    BY AesBase
  <2>3. new(s).acc = a /\ new(s) = [acc |-> new(s).acc, seed |-> s, k |-> k]
    <3> HIDE DEF a, k
    <3> QED BY <2>1
  <2>4. AesHash(new(s), s)
    <3> HIDE DEF a
    <3> QED BY <2>2, <2>3 DEF AesHash
  <2> QED BY <1>2, <2>2, <2>3, <2>4 DEF Good
<1> QED BY <1>1, <1>2

\* The lengths of a write are those of one class.
LEMMA Classes ==
  ASSUME NEW kind, NEW p, Sized(kind, p)
  PROVE  /\ p.len <= 16 \/ p.len \in 17 .. 64 \/ p.len > 64
         /\ D!IsSlice(p) /\ p.len \in Nat
         /\ ~(p.len <= 16) => kind = "bytes"
<1>1. D!IsSlice(p)
  BY DEF Sized
<1>2. p.len \in Nat
  BY <1>1 DEF D!IsSlice
<1> QED BY <1>1, <1>2 DEF Sized

\* A write of the default function leaves a hasher, and gives back the
\* accumulator before and the data.
LEMMA DefaultApply ==
  ASSUME NEW kind, NEW p, Sized(kind, p), NEW q, Tagged(q, AccTags), NEW h, Default(h, q)
  PROVE  /\ Default(ApplyD(kind, h, p), q)
         /\ \E u, v : ApplyD(kind, h, p).acc = Folded(u, v)
<1> DEFINE x == ApplyD(kind, h, p)
<1>1. ASSUME NEW a, x = [acc |-> a, seed |-> q], Acc(a) PROVE Default(x, q) /\ x.acc = a
  <2> HIDE DEF x
  <2> QED BY <1>1 DEF Default
<1>2. CASE p.len <= 16
  <2>1. x = [acc |-> DefaultMix(kind, p, h.acc), seed |-> q] /\ Acc(DefaultMix(kind, p, h.acc))
    BY <1>2, DefaultShort
  <2>2. \E u, v : DefaultMix(kind, p, h.acc) = Folded(u, v)
    BY DEF DefaultMix, Mix
  <2> HIDE DEF x
  <2> QED BY <1>1, <2>1, <2>2 DEF x
<1>3. CASE p.len \in 17 .. 64
  <2>1. x = [acc |-> DefaultMid(p, h.acc), seed |-> q] /\ Acc(DefaultMid(p, h.acc))
    <3>1. ~(p.len <= 16)
      BY <1>3
    <3> QED BY <1>3, <3>1, Classes, DefaultMiddle DEF ApplyD
  <2>2. \E u, v : DefaultMid(p, h.acc) = Folded(u, v)
    BY DEF DefaultMid, MidFold
  <2> HIDE DEF x
  <2> QED BY <1>1, <2>1, <2>2 DEF x
<1>4. CASE p.len > 64
  <2>1. PICK y : x = [acc |-> LongMix(LongFold(y, p, q), h.acc, p.len), seed |-> q]
                 /\ Acc(LongMix(LongFold(y, p, q), h.acc, p.len))
    <3>1. ~(p.len <= 16) /\ D!IsSlice(p)
      BY <1>4, Classes
    <3>2. kind = "bytes"
      BY <3>1, Classes
    <3> QED BY <1>4, <3>1, <3>2, DefaultLong DEF ApplyD
  <2>2. \E u, v : LongMix(LongFold(y, p, q), h.acc, p.len) = Folded(u, v)
    BY DEF LongMix, Mix
  <2> HIDE DEF x
  <2> QED BY <1>1, <2>1, <2>2 DEF x
<1> QED BY <1>2, <1>3, <1>4, Classes

LEMMA PeelDefault ==
  ASSUME NEW kind, NEW p1, Sized(kind, p1), NEW p2, Sized(kind, p2), Alike(kind, p1, p2),
         NEW q, Tagged(q, AccTags), NEW h1, Default(h1, q), NEW h2, Default(h2, q),
         ApplyD(kind, h1, p1).acc = ApplyD(kind, h2, p2).acc
  PROVE  h1.acc = h2.acc /\ p1 = p2
<1> DEFINE x1 == ApplyD(kind, h1, p1)
           x2 == ApplyD(kind, h2, p2)
           a1 == h1.acc
           a2 == h2.acc
<1>1. Acc(a1) /\ Acc(a2)
  BY DEF Default
<1>2. D!IsSlice(p1) /\ D!IsSlice(p2) /\ p1.len \in Nat /\ p2.len \in Nat
  BY Classes
<1>3. ASSUME NEW b1, NEW b2, x1 = [acc |-> b1, seed |-> q], x2 = [acc |-> b2, seed |-> q] PROVE b1 = b2
  <2>1. x1.acc = x2.acc
    OBVIOUS
  <2> HIDE DEF x1, x2
  <2> QED BY <1>3, <2>1
<1>4. CASE p1.len <= 16
  <2>1. p2.len <= 16
    BY <1>2, <1>4 DEF Alike
  <2>2. /\ x1 = [acc |-> DefaultMix(kind, p1, a1), seed |-> q] /\ DefaultMarked(kind, p1, a1)
        /\ x2 = [acc |-> DefaultMix(kind, p2, a2), seed |-> q] /\ DefaultMarked(kind, p2, a2)
    BY <1>4, <2>1, DefaultShort
  <2>3. DefaultMix(kind, p1, a1) = DefaultMix(kind, p2, a2)
    BY <1>3, <2>2
  <2> QED BY <1>1, <1>4, <2>1, <2>2, <2>3, PeelDefaultShort
<1>5. ASSUME ~(p1.len <= 16) PROVE p1.len = p2.len /\ ~(p2.len <= 16) /\ kind = "bytes"
  <2>1. p1.len = p2.len
    BY <1>2, <1>5 DEF Alike
  <2>2. kind = "bytes"
    BY <1>5, Classes
  <2> QED BY <1>5, <2>1, <2>2
<1>6. CASE p1.len \in 17 .. 64
  <2>1. p1.len = p2.len /\ kind = "bytes" /\ p2.len \in 17 .. 64
    <3>1. ~(p1.len <= 16)
      BY <1>6
    <3> QED BY <1>5, <1>6, <3>1
  <2>2. x1 = [acc |-> DefaultMid(p1, a1), seed |-> q] /\ x2 = [acc |-> DefaultMid(p2, a2), seed |-> q]
    BY <1>2, <1>6, <2>1, DefaultMiddle DEF ApplyD
  <2>3. DefaultMid(p1, a1) = DefaultMid(p2, a2)
    BY <1>3, <2>2
  <2> QED BY <1>1, <1>2, <1>6, <2>1, <2>3, PeelDefaultMiddle
<1>7. CASE p1.len > 64
  <2>1. p1.len = p2.len /\ kind = "bytes" /\ p2.len > 64
    <3>1. ~(p1.len <= 16)
      BY <1>2, <1>7
    <3> QED BY <1>5, <1>7, <3>1
  <2>2. PICK y1 : /\ FirstIn(y1, p1, q)
                  /\ x1 = [acc |-> LongMix(LongFold(y1, p1, q), a1, p1.len), seed |-> q]
                  /\ LongMarked(LongFold(y1, p1, q), a1, p1.len)
    BY <1>2, <1>7, <2>1, DefaultLong DEF ApplyD
  <2>3. PICK y2 : /\ FirstIn(y2, p2, q)
                  /\ x2 = [acc |-> LongMix(LongFold(y2, p2, q), a2, p2.len), seed |-> q]
                  /\ LongMarked(LongFold(y2, p2, q), a2, p2.len)
    BY <1>2, <2>1, DefaultLong DEF ApplyD
  <2>4. LongMix(LongFold(y1, p1, q), a1, p1.len) = LongMix(LongFold(y2, p2, q), a2, p2.len)
    BY <1>3, <2>2, <2>3
  <2> QED BY <1>1, <2>1, <2>2, <2>3, <2>4, PeelDefaultLong
<1> QED BY <1>4, <1>6, <1>7, Classes

\* The same for the AES function.
LEMMA AesAfter ==
  ASSUME NEW h, NEW q, AesHash(h, q), NEW x, AesAcc(x)
  PROVE  AesHash([h EXCEPT !.acc = x], q) /\ [h EXCEPT !.acc = x].acc = x
<1> DEFINE k == [j \in 0 .. 3 |-> Secret(j, q)]
<1>1. h = [acc |-> h.acc, seed |-> q, k |-> k]
  BY DEF AesHash
<1>2. AesHash([h EXCEPT !.acc = x], q) <=>
        /\ [h EXCEPT !.acc = x] = [acc |-> [h EXCEPT !.acc = x].acc, seed |-> q, k |-> k]
        /\ AesAcc([h EXCEPT !.acc = x].acc)
  BY DEF AesHash
<1> HIDE DEF k
<1>3. [h EXCEPT !.acc = x] = [acc |-> x, seed |-> q, k |-> k]
  BY <1>1
<1> QED BY <1>2, <1>3

LEMMA AesApply ==
  ASSUME NEW kind, NEW p, Sized(kind, p), NEW q, NEW h, AesHash(h, q)
  PROVE  /\ AesHash(ApplyA(kind, h, p), q)
         /\ \E u, v : ApplyA(kind, h, p).acc = Folded(u, v)
<1> DEFINE x == ApplyA(kind, h, p)
<1>1. ASSUME NEW a, x = [h EXCEPT !.acc = a], \E u, v : a = Folded(u, v)
      PROVE  AesHash(x, q) /\ \E u, v : x.acc = Folded(u, v)
  <2>1. AesAcc(a)
    BY <1>1 DEF AesAcc, Folded
  <2> HIDE DEF x
  <2> QED BY <1>1, <2>1, AesAfter
<1>2. CASE p.len <= 16
  <2>1. x = [h EXCEPT !.acc = AesMix(kind, p, h.acc, q)]
    BY <1>2, AesSmall
  <2>2. \E u, v : AesMix(kind, p, h.acc, q) = Folded(u, v)
    BY DEF AesMix, Mix
  <2> HIDE DEF x
  <2> QED BY <1>1, <2>1, <2>2 DEF x
<1>3. CASE p.len \in 17 .. 64
  <2>1. x = [h EXCEPT !.acc = AesMid(p, h.acc, q)]
    <3>1. ~(p.len <= 16)
      BY <1>3
    <3> QED BY <1>3, <3>1, Classes, AesMiddle DEF ApplyA
  <2>2. \E u, v : AesMid(p, h.acc, q) = Folded(u, v)
    BY DEF AesMid, Mix
  <2> HIDE DEF x
  <2> QED BY <1>1, <2>1, <2>2 DEF x
<1>4. CASE p.len > 64
  <2>1. PICK y : x = [h EXCEPT !.acc = BlockMix(Block(y, p, q), h.acc, p.len, q)]
    <3>1. ~(p.len <= 16) /\ D!IsSlice(p)
      BY <1>4, Classes
    <3>2. kind = "bytes"
      BY <3>1, Classes
    <3> QED BY <1>4, <3>1, <3>2, AesLong DEF ApplyA
  <2>2. \E u, v : BlockMix(Block(y, p, q), h.acc, p.len, q) = Folded(u, v)
    BY DEF BlockMix, Mix
  <2> HIDE DEF x
  <2> QED BY <1>1, <2>1, <2>2 DEF x
<1> QED BY <1>2, <1>3, <1>4, Classes

LEMMA PeelAes ==
  ASSUME NEW kind, NEW p1, Sized(kind, p1), NEW p2, Sized(kind, p2), Alike(kind, p1, p2),
         NEW q, NEW h1, AesHash(h1, q), NEW h2, AesHash(h2, q),
         ApplyA(kind, h1, p1).acc = ApplyA(kind, h2, p2).acc
  PROVE  h1.acc = h2.acc /\ p1 = p2
<1> DEFINE x1 == ApplyA(kind, h1, p1)
           x2 == ApplyA(kind, h2, p2)
           a1 == h1.acc
           a2 == h2.acc
<1>1. AesAcc(a1) /\ AesAcc(a2)
  BY DEF AesHash
<1>2. D!IsSlice(p1) /\ D!IsSlice(p2) /\ p1.len \in Nat /\ p2.len \in Nat
  BY Classes
<1>3. ASSUME NEW b1, NEW b2, AesAcc(b1), AesAcc(b2), x1 = [h1 EXCEPT !.acc = b1], x2 = [h2 EXCEPT !.acc = b2]
      PROVE  b1 = b2
  <2>1. x1.acc = x2.acc
    OBVIOUS
  <2>2. [h1 EXCEPT !.acc = b1].acc = b1 /\ [h2 EXCEPT !.acc = b2].acc = b2
    BY <1>3, AesAfter
  <2> HIDE DEF x1, x2
  <2> QED BY <1>3, <2>1, <2>2
<1>4. CASE p1.len <= 16
  <2>1. p2.len <= 16
    BY <1>2, <1>4 DEF Alike
  <2>2. /\ x1 = [h1 EXCEPT !.acc = AesMix(kind, p1, a1, q)] /\ AesMarked(kind, p1, a1, q)
        /\ x2 = [h2 EXCEPT !.acc = AesMix(kind, p2, a2, q)] /\ AesMarked(kind, p2, a2, q)
    BY <1>4, <2>1, AesSmall
  <2>3. AesAcc(AesMix(kind, p1, a1, q)) /\ AesAcc(AesMix(kind, p2, a2, q))
    BY AesMixAcc DEF AesMix
  <2>4. AesMix(kind, p1, a1, q) = AesMix(kind, p2, a2, q)
    BY <1>3, <2>2, <2>3
  <2> QED BY <1>1, <1>4, <2>1, <2>2, <2>4, PeelAesShort
<1>5. ASSUME ~(p1.len <= 16) PROVE p1.len = p2.len /\ ~(p2.len <= 16) /\ kind = "bytes"
  <2>1. p1.len = p2.len
    BY <1>2, <1>5 DEF Alike
  <2>2. kind = "bytes"
    BY <1>5, Classes
  <2> QED BY <1>5, <2>1, <2>2
<1>6. CASE p1.len \in 17 .. 64
  <2>1. p1.len = p2.len /\ kind = "bytes" /\ p2.len \in 17 .. 64
    <3>1. ~(p1.len <= 16)
      BY <1>6
    <3> QED BY <1>5, <1>6, <3>1
  <2>2. /\ x1 = [h1 EXCEPT !.acc = AesMid(p1, a1, q)] /\ AesMidMarked(p1, a1, q)
        /\ x2 = [h2 EXCEPT !.acc = AesMid(p2, a2, q)] /\ AesMidMarked(p2, a2, q)
    BY <1>2, <1>6, <2>1, AesMiddle DEF ApplyA
  <2>3. AesAcc(AesMid(p1, a1, q)) /\ AesAcc(AesMid(p2, a2, q))
    BY AesMixAcc DEF AesMid
  <2>4. AesMid(p1, a1, q) = AesMid(p2, a2, q)
    BY <1>3, <2>2, <2>3
  <2> QED BY <1>2, <1>6, <2>1, <2>2, <2>4, PeelAesMiddle
<1>7. CASE p1.len > 64
  <2>1. p1.len = p2.len /\ kind = "bytes" /\ p2.len > 64
    <3>1. ~(p1.len <= 16)
      BY <1>2, <1>7
    <3> QED BY <1>5, <1>7, <3>1
  <2>2. PICK u1 : /\ x1 = [h1 EXCEPT !.acc = BlockMix(Block(u1, p1, q), a1, p1.len, q)]
                  /\ BlockMarked(Block(u1, p1, q), a1, p1.len, q)
    BY <1>2, <1>7, <2>1, AesLong DEF ApplyA
  <2>3. PICK u2 : /\ x2 = [h2 EXCEPT !.acc = BlockMix(Block(u2, p2, q), a2, p2.len, q)]
                  /\ BlockMarked(Block(u2, p2, q), a2, p2.len, q)
    BY <1>2, <2>1, AesLong DEF ApplyA
  <2>4. AesAcc(BlockMix(Block(u1, p1, q), a1, p1.len, q)) /\ AesAcc(BlockMix(Block(u2, p2, q), a2, p2.len, q))
    BY AesMixAcc DEF BlockMix
  <2>5. BlockMix(Block(u1, p1, q), a1, p1.len, q) = BlockMix(Block(u2, p2, q), a2, p2.len, q)
    BY <1>3, <2>2, <2>3, <2>4
  <2> QED BY <1>1, <2>1, <2>2, <2>3, <2>5, PeelAesLong
<1> QED BY <1>4, <1>6, <1>7, Classes

\* A write of the process' function leaves a hasher, whose accumulator is a fold.
LEMMA GoodApply ==
  ASSUME fn \in {"default", "aes"}, NEW kind, NEW p, Sized(kind, p), NEW q, IsSeed(q), NEW h, Good(h, q)
  PROVE  Good(Apply(kind, h, p), q) /\ \E u, v : Apply(kind, h, p).acc = Folded(u, v)
<1>1. CASE fn = "default"
  BY <1>1, ApplyIs, DefaultApply, SeedTagged DEF Good
<1>2. CASE fn = "aes"
  BY <1>2, ApplyIs, AesApply DEF Good
<1> QED BY <1>1, <1>2

\* Equal accumulators come from equal ones by the same data.
LEMMA Peel ==
  ASSUME fn \in {"default", "aes"},
         NEW kind, NEW p1, Sized(kind, p1), NEW p2, Sized(kind, p2), Alike(kind, p1, p2),
         NEW q, IsSeed(q), NEW h1, Good(h1, q), NEW h2, Good(h2, q),
         Apply(kind, h1, p1).acc = Apply(kind, h2, p2).acc
  PROVE  h1.acc = h2.acc /\ p1 = p2
<1>1. CASE fn = "default"
  BY <1>1, ApplyIs, PeelDefault, SeedTagged DEF Good
<1>2. CASE fn = "aes"
  BY <1>2, ApplyIs, PeelAes DEF Good
<1> QED BY <1>1, <1>2
-----------------------------------------------------------------------------
(* A sequence of writes *)

\* Induction over a set of numbers, from the pigeonhole principle: the library's
\* induction theorems take an operator.
LEMMA SetInduction ==
  ASSUME NEW X, 0 \in X, \A n \in Nat : n \in X => n + 1 \in X
  PROVE  Nat \subseteq X
<1> SUFFICES ASSUME NEW m \in Nat, m \notin X PROVE FALSE
  OBVIOUS
<1> DEFINE E == {k \in 0 .. m : k \notin X}
           g == [k \in E |-> k - 1]
<1>1. IsFiniteSet(E) /\ m \in E
  <2>1. IsFiniteSet(0 .. m)
    BY FS_Interval
  <2>2. E \in SUBSET (0 .. m) /\ m \in E
    OBVIOUS
  <2> HIDE DEF E
  <2> QED BY <2>1, <2>2, FS_Subset
<1>2. ASSUME NEW k \in E PROVE k - 1 \in E \ {m}
  <2>1. k \in Nat /\ k # 0 /\ k <= m
    OBVIOUS
  <2>2. k - 1 \in Nat /\ (k - 1) + 1 = k
    BY <2>1
  <2> QED BY <2>1, <2>2
<1>3. g \in [E -> E \ {m}]
  BY <1>2
<1>4. \A k \in E : k \in Int /\ g[k] = k - 1
  OBVIOUS
<1> HIDE DEF E, g
<1>5. IsFiniteSet(E \ {m}) /\ Cardinality(E \ {m}) < Cardinality(E)
  <2>1. Cardinality(E) \in Nat
    BY <1>1, FS_CardinalityType
  <2>2. IsFiniteSet(E \ {m}) /\ Cardinality(E \ {m}) = Cardinality(E) - 1
    BY <1>1, FS_RemoveElement
  <2> QED BY <2>1, <2>2
<1>6. \E x, y \in E : x # y /\ g[x] = g[y]
  BY <1>1, <1>3, <1>5, FS_PigeonHole
<1> QED BY <1>4, <1>6

\* A sequence of writes, as the history of a thread holds it.
IsLog(L) == /\ L \in Seq([kind : {"bytes", "integer"}, data : Strings \cup Numbers])
            /\ \A i \in 1 .. Len(L) : Sized(L[i].kind, L[i].data)

\* The hashers g that the writes L make, one after the other, from g[0].
Trace(L, g) == \A i \in 1 .. Len(L) : g[i] = Apply(L[i].kind, g[i - 1], L[i].data)

\* Every hasher of a trace is one, if the first is.
LEMMA TraceTypes ==
  ASSUME fn \in {"default", "aes"}, NEW L, IsLog(L), NEW g, Trace(L, g), NEW q, IsSeed(q), Good(g[0], q)
  PROVE  \A i \in 0 .. Len(L) : Good(g[i], q)
<1> DEFINE X == {i \in Nat : i <= Len(L) => Good(g[i], q)}
<1>1. 0 \in X
  OBVIOUS
<1>2. ASSUME NEW n \in Nat, n \in X PROVE n + 1 \in X
  <2> SUFFICES ASSUME n + 1 <= Len(L) PROVE Good(g[n + 1], q)
    OBVIOUS
  <2>1. Len(L) \in Nat
    BY DEF IsLog
  <2>2. n + 1 \in 1 .. Len(L) /\ n <= Len(L) /\ (n + 1) - 1 = n
    BY <2>1
  <2>3. Good(g[n], q) /\ Sized(L[n + 1].kind, L[n + 1].data)
    BY <1>2, <2>2 DEF IsLog
  <2>4. g[n + 1] = Apply(L[n + 1].kind, g[n], L[n + 1].data)
    BY <2>2 DEF Trace
  <2> QED BY <2>3, <2>4, GoodApply
<1>3. Nat \subseteq X
  <2> HIDE DEF X
  <2> QED BY <1>1, <1>2, SetInduction
<1>4. Len(L) \in Nat
  BY DEF IsLog
<1> QED BY <1>3, <1>4

\* After its first write a hasher has a fold as its accumulator.
LEMMA TraceFolds ==
  ASSUME fn \in {"default", "aes"}, NEW L, IsLog(L), NEW g, Trace(L, g), NEW q, IsSeed(q), Good(g[0], q),
         NEW i \in 1 .. Len(L)
  PROVE  \E u, v : g[i].acc = Folded(u, v)
<1>1. Len(L) \in Nat
  BY DEF IsLog
<1>2. i - 1 \in 0 .. Len(L)
  BY <1>1
<1>3. Good(g[i - 1], q)
  BY <1>2, TraceTypes
<1>4. Sized(L[i].kind, L[i].data) /\ g[i] = Apply(L[i].kind, g[i - 1], L[i].data)
  BY DEF IsLog, Trace
<1> QED BY <1>3, <1>4, GoodApply

\* The same writes make the same hasher.
LEMMA TracesEqual ==
  ASSUME NEW L, IsLog(L), NEW g1, Trace(L, g1), NEW g2, Trace(L, g2), g1[0] = g2[0]
  PROVE  g1[Len(L)] = g2[Len(L)]
<1> DEFINE X == {i \in Nat : i <= Len(L) => g1[i] = g2[i]}
<1>1. 0 \in X
  OBVIOUS
<1>2. Len(L) \in Nat
  BY DEF IsLog
<1>3. ASSUME NEW n \in Nat, n \in X PROVE n + 1 \in X
  <2> SUFFICES ASSUME n + 1 <= Len(L) PROVE g1[n + 1] = g2[n + 1]
    OBVIOUS
  <2>1. n + 1 \in 1 .. Len(L) /\ n <= Len(L) /\ (n + 1) - 1 = n
    BY <1>2
  <2>2. g1[n] = g2[n]
    BY <1>3, <2>1
  <2> QED BY <2>1, <2>2 DEF Trace
<1>4. Nat \subseteq X
  <2> HIDE DEF X
  <2> QED BY <1>1, <1>3, SetInduction
<1>5. Len(L) \in X /\ Len(L) <= Len(L)
  BY <1>2, <1>4
<1> QED BY <1>5

\* A write is its kind and its data.
LEMMA LogEntry ==
  ASSUME NEW L, IsLog(L), NEW i \in 1 .. Len(L)
  PROVE  L[i] = [kind |-> L[i].kind, data |-> L[i].data]
<1> DEFINE R == [kind : {"bytes", "integer"}, data : Strings \cup Numbers]
<1>1. \A r \in R : r = [kind |-> r.kind, data |-> r.data]
  OBVIOUS
<1>2. L \in Seq(R)
  BY DEF IsLog
<1> HIDE DEF R
<1>3. L[i] \in R
  BY <1>2
<1> QED BY <1>1, <1>3

\* Two sequences of writes that are alike one by one, back from the last ones.
AlikeLogs(L1, L2) ==
  \A i \in 1 .. Len(L1), j \in 1 .. Len(L2) :
    Len(L1) - i = Len(L2) - j =>
      /\ L1[i].kind = L2[j].kind
      /\ Alike(L1[i].kind, L1[i].data, L2[j].data)

\* If they end in one accumulator they are the same writes: the last write of
\* each gives back the accumulator before it, and the first one is no fold.
LEMMA TracesPeel ==
  ASSUME fn \in {"default", "aes"}, NEW q, IsSeed(q),
         NEW L1, IsLog(L1), NEW g1, Trace(L1, g1), g1[0] = new(q),
         NEW L2, IsLog(L2), NEW g2, Trace(L2, g2), g2[0] = new(q),
         AlikeLogs(L1, L2), g1[Len(L1)].acc = g2[Len(L2)].acc
  PROVE  L1 = L2
<1> DEFINE m1 == Len(L1)
           m2 == Len(L2)
           P(k) == /\ g1[m1 - k].acc = g2[m2 - k].acc
                   /\ \A i \in Nat : i < k => L1[m1 - i] = L2[m2 - i]
           X == {k \in Nat : k <= m1 /\ k <= m2 => P(k)}
<1>1. m1 \in Nat /\ m2 \in Nat
  BY DEF IsLog
<1>2. Good(g1[0], q) /\ Good(g2[0], q) /\ \A u, v : g1[0].acc # Folded(u, v) /\ g2[0].acc # Folded(u, v)
  BY Base
<1>3. /\ \A i \in 0 .. m1 : Good(g1[i], q)
      /\ \A i \in 0 .. m2 : Good(g2[i], q)
  BY <1>2, TraceTypes
\* the last write of each, from the accumulators before it
<1>4. ASSUME NEW i \in 1 .. m1, NEW j \in 1 .. m2, m1 - i = m2 - j, g1[i].acc = g2[j].acc
      PROVE  g1[i - 1].acc = g2[j - 1].acc /\ L1[i] = L2[j]
  <2> DEFINE h1 == g1[i - 1]
             h2 == g2[j - 1]
             v == L1[i]
             w == L2[j]
  <2>1. i - 1 \in 0 .. m1 /\ j - 1 \in 0 .. m2
    BY <1>1
  <2>2. Good(h1, q) /\ Good(h2, q)
    BY <1>3, <2>1
  <2>3. Sized(v.kind, v.data) /\ Sized(w.kind, w.data)
    BY DEF IsLog
  <2>4. v.kind = w.kind /\ Alike(v.kind, v.data, w.data)
    BY <1>4 DEF AlikeLogs
  <2>5. g1[i] = Apply(v.kind, h1, v.data) /\ g2[j] = Apply(w.kind, h2, w.data)
    BY DEF Trace
  <2>6. Apply(v.kind, h1, v.data).acc = Apply(v.kind, h2, w.data).acc
    BY <1>4, <2>4, <2>5
  <2>7. v = [kind |-> v.kind, data |-> v.data] /\ w = [kind |-> w.kind, data |-> w.data]
    BY LogEntry
  <2> HIDE DEF h1, h2, v, w
  <2>8. h1.acc = h2.acc /\ v.data = w.data
    BY <2>2, <2>3, <2>4, <2>6, Peel
  <2>9. v = w
    BY <2>4, <2>7, <2>8
  <2> QED BY <2>8, <2>9 DEF h1, h2, v, w
<1>5. 0 \in X
  <2>1. m1 - 0 = m1 /\ m2 - 0 = m2 /\ \A i \in Nat : ~(i < 0)
    BY <1>1
  <2>2. g1[m1].acc = g2[m2].acc
    OBVIOUS
  <2> HIDE DEF m1, m2
  <2> QED BY <2>1, <2>2
<1>6. ASSUME NEW n \in Nat, n \in X PROVE n + 1 \in X
  <2> SUFFICES ASSUME n + 1 <= m1, n + 1 <= m2 PROVE P(n + 1)
    OBVIOUS
  <2> HIDE DEF m1, m2
  <2>1. P(n)
    <3>1. n <= m1 /\ n <= m2
      BY <1>1
    <3> QED BY <1>6, <3>1
  <2>2. /\ m1 - n \in 1 .. m1 /\ m2 - n \in 1 .. m2
        /\ (m1 - n) - 1 = m1 - (n + 1) /\ (m2 - n) - 1 = m2 - (n + 1)
        /\ m1 - (m1 - n) = m2 - (m2 - n)
    BY <1>1
  <2>3. g1[m1 - (n + 1)].acc = g2[m2 - (n + 1)].acc /\ L1[m1 - n] = L2[m2 - n]
    BY <1>4, <2>1, <2>2
  <2>4. \A i \in Nat : i < n + 1 => L1[m1 - i] = L2[m2 - i]
    <3>1. \A i \in Nat : i < n + 1 => i < n \/ i = n
      OBVIOUS
    <3> QED BY <2>1, <2>3, <3>1
  <2> QED BY <2>3, <2>4
<1>7. Nat \subseteq X
  <2> HIDE DEF X
  <2> QED BY <1>5, <1>6, SetInduction
\* an accumulator after a write is a fold, the first one is none
<1>8. /\ \A i \in 1 .. m1 : \E u, v : g1[i].acc = Folded(u, v)
      /\ \A i \in 1 .. m2 : \E u, v : g2[i].acc = Folded(u, v)
  BY <1>2, TraceFolds
<1>9. m1 = m2
  <2>1. CASE m1 < m2
    <3>1. m1 \in X /\ m1 <= m1 /\ m1 <= m2 /\ m1 - m1 = 0 /\ m2 - m1 \in 1 .. m2
      BY <1>1, <1>7, <2>1
    <3> HIDE DEF m1, m2
    <3>2. g1[0].acc = g2[m2 - m1].acc
      BY <3>1
    <3> QED BY <1>2, <1>8, <3>1, <3>2
  <2>2. CASE m2 < m1
    <3>1. m2 \in X /\ m2 <= m2 /\ m2 <= m1 /\ m2 - m2 = 0 /\ m1 - m2 \in 1 .. m1
      BY <1>1, <1>7, <2>2
    <3> HIDE DEF m1, m2
    <3>2. g1[m1 - m2].acc = g2[0].acc
      BY <3>1
    <3> QED BY <1>2, <1>8, <3>1, <3>2
  <2> QED BY <1>1, <2>1, <2>2
<1>10. P(m1)
  <2>1. m1 <= m1 /\ m1 <= m2 /\ m1 \in X
    BY <1>1, <1>7, <1>9
  <2> HIDE DEF m1, m2
  <2> QED BY <2>1
<1>11. ASSUME NEW i \in 1 .. m1 PROVE L1[i] = L2[i]
  <2>1. m1 - i \in Nat /\ m1 - i < m1 /\ m1 - (m1 - i) = i /\ m2 - (m1 - i) = i
    BY <1>1, <1>9
  <2> HIDE DEF m1, m2
  <2> QED BY <1>10, <2>1
<1> DEFINE R == [kind : {"bytes", "integer"}, data : Strings \cup Numbers]
<1>12. L1 \in Seq(R) /\ L2 \in Seq(R)
  BY DEF IsLog
<1> HIDE DEF R
<1> QED BY <1>9, <1>11, <1>12
-----------------------------------------------------------------------------
(* The hashers of the threads *)

\* h is the hasher that the writes L make from the seed q.
Made(h, q, L) == \E g : Trace(L, g) /\ g[0] = new(q) /\ h = g[Len(L)]

\* The next write, from a hasher that the earlier ones have made.
LEMMA MadeByWrite ==
  ASSUME NEW L1, IsLog(L1), NEW h, NEW q, Made(h, q, L1),
         NEW kind, NEW p \in Strings \cup Numbers, Sized(kind, p),
         NEW L, L = Append(L1, [kind |-> kind, data |-> p])
  PROVE  IsLog(L) /\ Made(Apply(kind, h, p), q, L)
<1> DEFINE R == [kind : {"bytes", "integer"}, data : Strings \cup Numbers]
           w == [kind |-> kind, data |-> p]
           m == Len(L1)
<1>1. m \in Nat /\ L1 \in Seq(R)
  BY DEF IsLog
<1>2. w.kind = kind /\ w.data = p /\ w \in R
  BY DEF Sized
<1> HIDE DEF R, w
<1>3. /\ Len(L) = m + 1 /\ L[m + 1] = w /\ \A i \in 1 .. m : L[i] = L1[i]
      /\ L \in Seq(R)
  <2>1. L = Append(L1, w)
    BY DEF w
  <2> QED BY <1>1, <1>2, <2>1
<1>4. \A i \in 1 .. m + 1 : i = m + 1 \/ i \in 1 .. m
  BY <1>1
<1>5. \A i \in 1 .. m : Sized(L1[i].kind, L1[i].data)
  BY DEF IsLog
<1>6. PICK g : Trace(L1, g) /\ g[0] = new(q) /\ h = g[m]
  BY DEF Made
<1>7. \A i \in 1 .. m : g[i] = Apply(L1[i].kind, g[i - 1], L1[i].data)
  BY <1>6 DEF Trace
<1> HIDE DEF m
<1>8. IsLog(L)
  BY <1>2, <1>3, <1>4, <1>5 DEF IsLog, R
<1> DEFINE x == Apply(kind, h, p)
           g2 == [i \in 0 .. m + 1 |-> IF i = m + 1 THEN x ELSE g[i]]
<1> HIDE DEF x
<1>9. g2[m + 1] = x /\ \A i \in 0 .. m : g2[i] = g[i]
  BY <1>1
<1> HIDE DEF g2
<1>10. Trace(L, g2)
  <2>1. ASSUME NEW i \in 1 .. m PROVE g2[i] = Apply(L[i].kind, g2[i - 1], L[i].data)
    <3>1. i \in 0 .. m /\ i - 1 \in 0 .. m
      BY <1>1
    <3> QED BY <1>3, <1>7, <1>9, <3>1
  <2>2. g2[m + 1] = Apply(L[m + 1].kind, g2[(m + 1) - 1], L[m + 1].data)
    <3>1. (m + 1) - 1 = m /\ m \in 0 .. m
      BY <1>1
    <3>2. L[m + 1].kind = kind /\ L[m + 1].data = p /\ g2[m] = h
      BY <1>2, <1>3, <1>6, <1>9, <3>1
    <3> QED BY <1>9, <3>1, <3>2 DEF x
  <2> QED BY <1>3, <1>4, <2>1, <2>2 DEF Trace
<1>11. g2[0] = new(q) /\ x = g2[Len(L)]
  <2>1. 0 \in 0 .. m
    BY <1>1
  <2> QED BY <1>3, <1>6, <1>9, <2>1
<1> QED BY <1>8, <1>10, <1>11 DEF Made, x

\* No write makes a new hasher.
LEMMA MadeNew == ASSUME NEW q PROVE IsLog(<< >>) /\ Made(new(q), q, << >>)
<1>1. /\ Len(<< >>) = 0 /\ 1 .. 0 = {}
      /\ << >> \in Seq([kind : {"bytes", "integer"}, data : Strings \cup Numbers])
  OBVIOUS
<1> DEFINE g == [i \in {0} |-> new(q)]
<1>2. g[0] = new(q)
  OBVIOUS
<1> HIDE DEF g
<1>3. Trace(<< >>, g)
  BY <1>1 DEF Trace
<1> QED BY <1>1, <1>2, <1>3 DEF Made, IsLog

\* A thread that hashes has the hasher that its writes make from its seed.
Told(t) == /\ phase[t] \in {"ready", "hashing"} => IsSeed(state[t])
           /\ phase[t] # "hashing" => log[t] = << >>
           /\ IsLog(log[t])
           /\ phase[t] = "hashing" => Made(hasher[t], state[t], log[t])

\* The variables are functions of the threads.
Mapped == /\ phase = [t \in Threads |-> phase[t]]
          /\ state = [t \in Threads |-> state[t]]
          /\ hasher = [t \in Threads |-> hasher[t]]
          /\ log = [t \in Threads |-> log[t]]

\* The inductive invariant: the seed of a hasher is one, and its accumulator is
\* what its writes make of it.
HistoryInv == /\ fn \in {"default", "aes"}
              /\ once = "set" => IsSeed(seed)
              /\ Mapped
              /\ \A t \in Threads : Told(t)

\* It holds at the start.
LEMMA HistoryStart == Init => HistoryInv
<1> SUFFICES ASSUME Init PROVE HistoryInv
  OBVIOUS
<1>1. fn \in {"default", "aes"} /\ once # "set" /\ Mapped
  BY HashersAssumption DEF Init, Mapped
<1>2. ASSUME NEW t \in Threads PROVE Told(t)
  BY MadeNew DEF Init, Told
<1> QED BY <1>1, <1>2 DEF HistoryInv

\* What is made of given writes does not change with the state.
LEMMA MadeKept ==
  ASSUME UNCHANGED fn, NEW t, UNCHANGED << hasher[t], state[t], log[t] >>,
         Made(hasher[t], state[t], log[t])
  PROVE  Made(hasher[t], state[t], log[t])'
  BY DEF Made, Trace, Apply, new, write, write_int

\* Thread t moves to a phase p with the seed q, the hasher h and the writes L.
MovesTo(t, p, q, h, L) == /\ phase' = [phase EXCEPT ![t] = p]
                          /\ state' = [state EXCEPT ![t] = q]
                          /\ hasher' = [hasher EXCEPT ![t] = h]
                          /\ log' = [log EXCEPT ![t] = L]
                          /\ UNCHANGED fn

\* What t then has must be told.
ToldOf(p, q, h, L) == /\ p \in {"ready", "hashing"} => IsSeed(q)
                      /\ p # "hashing" => L = << >>
                      /\ IsLog(L)
                      /\ p = "hashing" => Made(h, q, L)

\* The new hasher of a thread, in the next state.
LEMMA MadePrime ==
  ASSUME UNCHANGED fn, NEW t, NEW h, NEW q, NEW L, Made(h, q, L),
         hasher'[t] = h, state'[t] = q, log'[t] = L
  PROVE  Made(hasher[t], state[t], log[t])'
  BY DEF Made, Trace, Apply, new, write, write_int

\* A move to what must be told keeps the invariant.
LEMMA HistoryMove ==
  ASSUME HistoryInv, NEW t \in Threads, NEW p, NEW q, NEW h, NEW L,
         MovesTo(t, p, q, h, L), ToldOf(p, q, h, L), once' = "set" => IsSeed(seed')
  PROVE  HistoryInv'
<1>1. /\ phase'[t] = p /\ state'[t] = q /\ hasher'[t] = h /\ log'[t] = L
      /\ \A u \in Threads \ {t} : /\ phase'[u] = phase[u] /\ state'[u] = state[u]
                                  /\ hasher'[u] = hasher[u] /\ log'[u] = log[u]
  BY DEF HistoryInv, Mapped, MovesTo
<1>2. Mapped'
  BY DEF HistoryInv, Mapped, MovesTo
<1>3. Told(t)'
  <2>1. p = "hashing" => Made(hasher[t], state[t], log[t])'
    BY <1>1, MadePrime DEF ToldOf, MovesTo
  <2> QED BY <1>1, <2>1 DEF ToldOf, Told, IsSeed, IsLog
<1>4. ASSUME NEW u \in Threads, u # t PROVE Told(u)'
  <2>1. Told(u)
    BY DEF HistoryInv
  <2>2. phase[u] = "hashing" => Made(hasher[u], state[u], log[u])'
    BY <1>1, <1>4, <2>1, MadeKept DEF Told, MovesTo
  <2> QED BY <1>1, <1>4, <2>1, <2>2 DEF Told, IsSeed, IsLog
<1>5. fn' \in {"default", "aes"} /\ (once' = "set" => IsSeed(seed)')
  BY DEF HistoryInv, MovesTo
<1> QED BY <1>2, <1>3, <1>4, <1>5 DEF HistoryInv

\* What a move leaves of t, it sets to what it was.
LEMMA Left ==
  ASSUME HistoryInv, NEW t \in Threads
  PROVE  /\ phase = [phase EXCEPT ![t] = phase[t]]
         /\ state = [state EXCEPT ![t] = state[t]]
         /\ hasher = [hasher EXCEPT ![t] = hasher[t]]
         /\ log = [log EXCEPT ![t] = log[t]]
<1>1. Mapped
  BY DEF HistoryInv
<1>2. phase = [phase EXCEPT ![t] = phase[t]]
  BY <1>1 DEF Mapped
<1>3. state = [state EXCEPT ![t] = state[t]]
  BY <1>1 DEF Mapped
<1>4. hasher = [hasher EXCEPT ![t] = hasher[t]]
  BY <1>1 DEF Mapped
<1>5. log = [log EXCEPT ![t] = log[t]]
  BY <1>1 DEF Mapped
<1> QED BY <1>2, <1>3, <1>4, <1>5

\* RandomState::new and FixedState::new: no hasher yet, no write.
LEMMA NewKeeps ==
  ASSUME HistoryInv, NEW t \in Threads, NEW p \in {"new", "init", "ready"}, NEW q,
         phase[t] # "hashing", p = "ready" => IsSeed(q),
         phase' = [phase EXCEPT ![t] = p], state' = [state EXCEPT ![t] = q],
         UNCHANGED << fn, hasher, log >>, once' = "set" => IsSeed(seed')
  PROVE  HistoryInv'
<1>1. MovesTo(t, p, q, hasher[t], log[t])
  BY Left DEF MovesTo
<1>2. ToldOf(p, q, hasher[t], log[t])
  <2>1. Told(t)
    BY DEF HistoryInv
  <2> QED BY <2>1 DEF Told, ToldOf
<1> QED BY <1>1, <1>2, HistoryMove

\* FixedState::new, and RandomState::new up to the OnceLock.
LEMMA NewFixedKeeps ==
  ASSUME HistoryInv, NEW t \in Threads, NewFixed(t) \/ CallNew(t)
  PROVE  HistoryInv'
<1>1. once' = "set" => IsSeed(seed')
  BY DEF HistoryInv, NewFixed, CallNew
<1>2. CASE NewFixed(t)
  <2>1. IsSeed(Fixed)
    BY DEF IsSeed
  <2>2. phase[t] # "hashing"
    BY <1>2 DEF NewFixed
  <2>3. /\ phase' = [phase EXCEPT ![t] = "ready"] /\ state' = [state EXCEPT ![t] = Fixed]
        /\ UNCHANGED << fn, hasher, log >>
    BY <1>2 DEF NewFixed, Ready
  <2> QED BY <1>1, <2>1, <2>2, <2>3, NewKeeps
<1>3. CASE CallNew(t)
  <2>1. phase[t] # "hashing"
    BY <1>3 DEF CallNew
  <2>2. /\ phase' = [phase EXCEPT ![t] = "new"] /\ state' = [state EXCEPT ![t] = state[t]]
        /\ UNCHANGED << fn, hasher, log >>
    BY <1>3, Left DEF CallNew
  <2> QED BY <1>1, <2>1, <2>2, NewKeeps
<1> QED BY <1>2, <1>3

\* RandomState::new from the OnceLock on.
LEMMA NewStepKeeps == ASSUME HistoryInv, NEW t \in Threads, NewStep(t) PROVE HistoryInv'
<1>1. CASE StartInit(t)
  <2>1. phase[t] # "hashing" /\ once' # "set"
    BY <1>1 DEF StartInit
  <2>2. /\ phase' = [phase EXCEPT ![t] = "init"] /\ state' = [state EXCEPT ![t] = state[t]]
        /\ UNCHANGED << fn, hasher, log >>
    BY <1>1, Left DEF StartInit
  <2> QED BY <2>1, <2>2, NewKeeps
<1>2. CASE EndInit(t)
  <2>1. phase[t] # "hashing" /\ IsSeed(Draw(t)) /\ IsSeed(seed')
    BY <1>2 DEF EndInit, IsSeed
  <2>2. /\ phase' = [phase EXCEPT ![t] = "ready"] /\ state' = [state EXCEPT ![t] = Draw(t)]
        /\ UNCHANGED << fn, hasher, log >>
    BY <1>2 DEF EndInit, Ready
  <2> QED BY <2>1, <2>2, NewKeeps
<1>3. CASE Get(t)
  <2>1. phase[t] # "hashing" /\ IsSeed(seed) /\ IsSeed(seed')
    BY <1>3 DEF Get, HistoryInv
  <2>2. /\ phase' = [phase EXCEPT ![t] = "ready"] /\ state' = [state EXCEPT ![t] = seed]
        /\ UNCHANGED << fn, hasher, log >>
    BY <1>3 DEF Get, Ready
  <2> QED BY <2>1, <2>2, NewKeeps
<1> QED BY <1>1, <1>2, <1>3 DEF NewStep

\* A new hasher has an empty log.
LEMMA BuildHasherKeeps == ASSUME HistoryInv, NEW t \in Threads, BuildHasher(t) PROVE HistoryInv'
<1>1. MovesTo(t, "hashing", state[t], new(state[t]), << >>)
  <2>1. log[t] = << >>
    BY DEF HistoryInv, Told, BuildHasher
  <2> QED BY <2>1, Left DEF MovesTo, BuildHasher
<1>2. ToldOf("hashing", state[t], new(state[t]), << >>)
  <2>1. IsSeed(state[t])
    BY DEF HistoryInv, Told, BuildHasher
  <2> QED BY <2>1, MadeNew DEF ToldOf
<1>3. once' = "set" => IsSeed(seed')
  BY DEF HistoryInv, BuildHasher
<1> QED BY <1>1, <1>2, <1>3, HistoryMove

\* Thread t has written the data p by a write of a kind.
Wrote(t, kind, p) ==
  /\ phase[t] = "hashing"
  /\ hasher' = [hasher EXCEPT ![t] = Apply(kind, hasher[t], p)]
  /\ log' = [log EXCEPT ![t] = Append(log[t], [kind |-> kind, data |-> p])]
  /\ UNCHANGED << fn, once, seed, phase, state >>

\* A write is one more in the trace.
LEMMA WritesKeep ==
  ASSUME HistoryInv, NEW t \in Threads, Write(t) \/ WriteInt(t)
  PROVE  HistoryInv'
<1>1. PICK kind, p : p \in Strings \cup Numbers /\ Sized(kind, p) /\ Wrote(t, kind, p)
  <2>1. CASE Write(t)
    <3>1. PICK p \in Strings : Writes(t, "bytes", p, write)
      BY <2>1 DEF Write
    <3>2. Sized("bytes", p)
      BY HashersAssumption DEF Sized
    <3>3. Apply("bytes", hasher[t], p) = write(hasher[t], p)
      BY DEF Apply
    <3>4. Wrote(t, "bytes", p)
      BY <3>1, <3>3 DEF Writes, Wrote
    <3> QED BY <3>2, <3>4
  <2>2. CASE WriteInt(t)
    <3>1. PICK p \in Numbers : Writes(t, "integer", p, write_int)
      BY <2>2 DEF WriteInt
    <3>2. Sized("integer", p)
      BY HashersAssumption DEF Sized
    <3>3. Apply("integer", hasher[t], p) = write_int(hasher[t], p)
      BY DEF Apply
    <3>4. Wrote(t, "integer", p)
      BY <3>1, <3>3 DEF Writes, Wrote
    <3> QED BY <3>2, <3>4
  <2> QED BY <2>1, <2>2
<1> DEFINE h == Apply(kind, hasher[t], p)
           L == Append(log[t], [kind |-> kind, data |-> p])
<1>2. IsSeed(state[t]) /\ IsLog(log[t]) /\ Made(hasher[t], state[t], log[t])
  BY <1>1 DEF HistoryInv, Told, Wrote
<1>3. IsLog(L) /\ Made(h, state[t], L)
  BY <1>1, <1>2, MadeByWrite
<1>4. hasher' = [hasher EXCEPT ![t] = h] /\ log' = [log EXCEPT ![t] = L]
  BY <1>1 DEF Wrote
<1> HIDE DEF h, L
<1>5. MovesTo(t, "hashing", state[t], h, L)
  BY <1>1, <1>4, Left DEF MovesTo, Wrote
<1>6. ToldOf("hashing", state[t], h, L)
  BY <1>2, <1>3 DEF ToldOf
<1>7. once' = "set" => IsSeed(seed')
  BY <1>1 DEF HistoryInv, Wrote
<1> QED BY <1>5, <1>6, <1>7, HistoryMove

\* A clone has the trace of its original.
LEMMA CloneKeeps ==
  ASSUME HistoryInv, NEW t \in Threads, NEW u \in Threads, Clone(t, u)
  PROVE  HistoryInv'
<1>1. MovesTo(t, "hashing", state[u], hasher[u], log[u])
  BY DEF MovesTo, Clone
<1>2. ToldOf("hashing", state[u], hasher[u], log[u])
  BY DEF HistoryInv, Told, ToldOf, Clone
<1>3. once' = "set" => IsSeed(seed')
  BY DEF HistoryInv, Clone
<1> QED BY <1>1, <1>2, <1>3, HistoryMove

\* A step that leaves all variables.
LEMMA HistoryStutter == ASSUME HistoryInv, UNCHANGED vars PROVE HistoryInv'
<1>1. UNCHANGED << fn, once, seed, phase, state, hasher, log >>
  BY DEF vars
<1>2. ASSUME NEW t \in Threads PROVE Told(t)'
  <2>1. Told(t)
    BY DEF HistoryInv
  <2>2. phase[t] = "hashing" => Made(hasher[t], state[t], log[t])'
    BY <1>1, <2>1, MadeKept DEF Told
  <2> QED BY <1>1, <2>1, <2>2 DEF Told, IsSeed, IsLog
<1>3. Mapped'
  BY <1>1 DEF HistoryInv, Mapped
<1> QED BY <1>1, <1>2, <1>3 DEF HistoryInv, IsSeed

\* For every set of threads, of byte strings and of integers and any number of
\* writes, the hasher of a thread is what its own writes, in their order, make
\* of its seed: no step of another thread touches it, and a clone goes on from
\* a copy.
THEOREM HistoryInductive == Spec => []HistoryInv
<1>1. HistoryInv /\ [Next]_vars => HistoryInv'
  <2> SUFFICES ASSUME HistoryInv, [Next]_vars PROVE HistoryInv'
    OBVIOUS
  <2>1. CASE UNCHANGED vars
    BY <2>1, HistoryStutter
  <2>2. CASE Next
    <3>1. PICK t \in Threads : \/ NewFixed(t) \/ CallNew(t) \/ NewStep(t)
                               \/ BuildHasher(t) \/ Write(t) \/ WriteInt(t)
                               \/ \E u \in Threads : Clone(t, u)
      BY <2>2 DEF Next
    <3> QED BY <3>1, NewFixedKeeps, NewStepKeeps, BuildHasherKeeps, WritesKeep, CloneKeeps
  <2> QED BY <2>1, <2>2
<1> QED BY <1>1, HistoryStart, PTL DEF Spec
-----------------------------------------------------------------------------
(* What digests tell *)

\* What two threads with one seed have written, if it is alike, their
\* accumulators tell.
LEMMA AlikeTold ==
  ASSUME HistoryInv, NEW t \in Threads, NEW u \in Threads, SameSeed(t, u), AlikeLogs(log[t], log[u]),
         hasher[t].acc = hasher[u].acc
  PROVE  log[t] = log[u]
<1>1. Told(t) /\ Told(u) /\ fn \in {"default", "aes"}
  BY DEF HistoryInv
<1> DEFINE q == state[t]
           L1 == log[t]
           L2 == log[u]
<1>2. /\ IsSeed(q) /\ IsLog(L1) /\ IsLog(L2)
      /\ Made(hasher[t], q, L1) /\ Made(hasher[u], q, L2)
  BY <1>1 DEF SameSeed, Told
<1>3. PICK g1 : Trace(L1, g1) /\ g1[0] = new(q) /\ hasher[t] = g1[Len(L1)]
  BY <1>2 DEF Made
<1>4. PICK g2 : Trace(L2, g2) /\ g2[0] = new(q) /\ hasher[u] = g2[Len(L2)]
  BY <1>2 DEF Made
<1>5. g1[Len(L1)].acc = g2[Len(L2)].acc
  BY <1>3, <1>4
<1>6. AlikeLogs(L1, L2)
  OBVIOUS
<1> HIDE DEF q, L1, L2
<1>7. L1 = L2
  BY <1>1, <1>2, <1>3, <1>4, <1>5, <1>6, TracesPeel
<1> QED BY <1>7 DEF L1, L2

\* The same writes from one seed make one hasher.
LEMMA SameTold ==
  ASSUME HistoryInv, NEW t \in Threads, NEW u \in Threads, SameSeed(t, u), log[t] = log[u]
  PROVE  hasher[t] = hasher[u]
<1> DEFINE q == state[t]
           L == log[t]
<1>1. IsLog(L) /\ Made(hasher[t], q, L) /\ Made(hasher[u], q, L)
  BY DEF HistoryInv, SameSeed, Told
<1>2. PICK g1 : Trace(L, g1) /\ g1[0] = new(q) /\ hasher[t] = g1[Len(L)]
  BY <1>1 DEF Made
<1>3. PICK g2 : Trace(L, g2) /\ g2[0] = new(q) /\ hasher[u] = g2[Len(L)]
  BY <1>1 DEF Made
<1> HIDE DEF q, L
<1> QED BY <1>1, <1>2, <1>3, TracesEqual

\* Writes of the same kinds and lengths are alike one by one.
LEMMA ShapeAlike ==
  ASSUME NEW t, NEW u, IsLog(log[t]), IsLog(log[u]), SameShape(t, u)
  PROVE  AlikeLogs(log[t], log[u])
<1> SUFFICES ASSUME NEW i \in 1 .. Len(log[t]), NEW j \in 1 .. Len(log[u]),
                    Len(log[t]) - i = Len(log[u]) - j
             PROVE  /\ log[t][i].kind = log[u][j].kind
                    /\ Alike(log[t][i].kind, log[t][i].data, log[u][j].data)
  BY DEF AlikeLogs
<1>1. Len(log[t]) \in Nat /\ Len(log[t]) = Len(log[u])
  BY DEF IsLog, SameShape
<1>2. i = j
  BY <1>1
<1>3. log[t][i].kind = log[u][i].kind /\ log[t][i].data.len = log[u][i].data.len
  BY DEF SameShape
<1> QED BY <1>2, <1>3 DEF Alike

\* And so are short ones of bytes, by any lengths.
LEMMA ShortAlike ==
  ASSUME NEW t, NEW u, ShortWrites(t), ShortWrites(u)
  PROVE  AlikeLogs(log[t], log[u])
  BY DEF AlikeLogs, Alike, ShortWrites

\* For every set of threads, of byte strings and of integers and any number of
\* writes of any lengths, two hashers of one seed that have taken writes of the
\* same kinds and lengths have the same accumulator exactly when they have taken
\* the same data: every byte of every write counts to the end.
THEOREM DigestsTellData == Spec => []DigestTellsData
<1>1. HistoryInv => DigestTellsData
  <2> SUFFICES ASSUME HistoryInv, NEW t \in Threads, NEW u \in Threads, SameSeed(t, u), SameShape(t, u)
               PROVE  hasher[t].acc = hasher[u].acc <=> log[t] = log[u]
    BY DEF DigestTellsData
  <2>1. ASSUME hasher[t].acc = hasher[u].acc PROVE log[t] = log[u]
    <3>1. AlikeLogs(log[t], log[u])
      BY ShapeAlike DEF HistoryInv, Told
    <3> QED BY <2>1, <3>1, AlikeTold
  <2>2. ASSUME log[t] = log[u] PROVE hasher[t].acc = hasher[u].acc
    BY <2>2, SameTold
  <2> QED BY <2>1, <2>2
<1> QED BY <1>1, HistoryInductive, PTL

\* For all of these, two hashers of one seed that have taken byte strings of up
\* to 8 bytes only, however many, have the same accumulator only if these were
\* the same ones, cut at the same places.
THEOREM DigestsTellCuts == Spec => []DigestTellsCuts
<1>1. HistoryInv => DigestTellsCuts
  <2> SUFFICES ASSUME HistoryInv, NEW t \in Threads, NEW u \in Threads, SameSeed(t, u),
                      ShortWrites(t), ShortWrites(u), hasher[t].acc = hasher[u].acc
               PROVE  log[t] = log[u]
    BY DEF DigestTellsCuts
  <2> QED BY ShortAlike, AlikeTold
<1> QED BY <1>1, HistoryInductive, PTL
-----------------------------------------------------------------------------
(* The product from halves *)

\* A value and its digits.
LEMMA Digits ==
  ASSUME NEW x \in Nat
  PROVE  /\ Low(x) \in 0 .. H - 1
         /\ High(x) \in Nat
         /\ x = High(x) * H + Low(x)
<1>1. H \in Nat \ {0}
  BY HalfAssumption
<1>2. x \div H \in Nat /\ x % H = x - H * (x \div H) /\ x % H \in 0 .. H - 1
  BY <1>1, DivMod
<1> DEFINE q == x \div H
           r == x % H
<1>3. q \in Nat /\ r = x - H * q /\ r \in 0 .. H - 1
  BY <1>2
<1> HIDE DEF q, r
<1>4. H * q = q * H /\ H * q \in Nat
  BY <1>1, <1>3
<1>5. x = q * H + r
  BY <1>1, <1>3, <1>4
<1> QED BY <1>3, <1>5 DEF q, r, Low, High

\* A value below the word is its own remainder.
LEMMA InWord ==
  ASSUME NEW x \in Nat, x < H * H
  PROVE  Word(x) = x
<1>1. H * H \in Nat \ {0}
  BY HalfAssumption
<1> DEFINE d == H * H
<1> HIDE DEF d
<1>2. d \in Nat \ {0} /\ x < d
  BY <1>1 DEF d
<1>3. x = 0 * d + x /\ x \in 0 .. d - 1
  BY <1>2
<1>4. x % d = x
  BY <1>2, <1>3, DivUnique
<1> QED BY <1>4 DEF d, Word

\* A word has two digits.
LEMMA WordDigits ==
  ASSUME NEW x \in 0 .. H * H - 1
  PROVE  /\ Low(x) \in 0 .. H - 1
         /\ High(x) \in 0 .. H - 1
         /\ x = High(x) * H + Low(x)
<1>1. x \in Nat /\ H \in Nat /\ x < H * H
  BY HalfAssumption
<1> DEFINE h == High(x)
           l == Low(x)
<1>2. l \in 0 .. H - 1 /\ h \in Nat /\ x = h * H + l
  BY <1>1, Digits
<1> HIDE DEF h, l
<1>3. h < H
  <2> SUFFICES ASSUME h >= H PROVE FALSE
    BY <1>1, <1>2
  <2>1. H * H <= h * H
    BY <1>1, <1>2
  <2> QED BY <1>1, <1>2, <2>1
<1> QED BY <1>1, <1>2, <1>3 DEF h, l

\* No product of digits leaves the word, with room for two more digits.
LEMMA DigitProduct ==
  ASSUME NEW x \in 0 .. H - 1, NEW y \in 0 .. H - 1
  PROVE  x * y \in Nat /\ x * y + H + H <= H * H + 1 /\ Word(x * y) = x * y
<1>1. H \in Nat /\ H >= 2 /\ x \in Nat /\ y \in Nat
  BY HalfAssumption
<1>2. x * y \in Nat
  BY <1>1
<1>3. x * y <= (H - 1) * (H - 1)
  <2>1. x * y <= (H - 1) * y
    BY <1>1
  <2>2. (H - 1) * y <= (H - 1) * (H - 1)
    BY <1>1
  <2>3. (H - 1) * y \in Int /\ (H - 1) * (H - 1) \in Int
    BY <1>1
  <2> QED BY <1>2, <2>1, <2>2, <2>3
<1>4. (H - 1) * (H - 1) = H * H - H - H + 1
  BY <1>1
<1>5. x * y + H + H <= H * H + 1
  BY <1>1, <1>2, <1>3, <1>4
<1>6. x * y < H * H
  BY <1>1, <1>2, <1>5
<1> QED BY <1>2, <1>5, <1>6, InWord
\* The product from halves is exact for every pair of words.
THEOREM MulIsExact ==
  ASSUME NEW x \in 0 .. H * H - 1, NEW y \in 0 .. H * H - 1
  PROVE  /\ mul128(x, y).lo \in 0 .. H * H - 1
         /\ mul128(x, y).hi \in 0 .. H * H - 1
         /\ mul128(x, y).lo + mul128(x, y).hi * H * H = x * y
<1> DEFINE x0 == Low(x)  x1 == High(x)  y0 == Low(y)  y1 == High(y)
           p == x0 * y0  q == x0 * y1  r == x1 * y0  s == x1 * y1
           m == High(p) + Low(q) + Low(r)
           t == s + High(q) + High(r) + High(m)
           HH == H * H
<1>1. H \in Nat /\ H >= 2 /\ HH \in Nat
  BY HalfAssumption
<1>2. /\ x0 \in 0 .. H - 1 /\ x1 \in 0 .. H - 1 /\ x = x1 * H + x0
      /\ y0 \in 0 .. H - 1 /\ y1 \in 0 .. H - 1 /\ y = y1 * H + y0
  BY WordDigits
<1> HIDE DEF x0, x1, y0, y1
<1>3. /\ p \in Nat /\ Word(p) = p /\ p + H + H <= HH + 1
      /\ q \in Nat /\ Word(q) = q
      /\ r \in Nat /\ Word(r) = r
      /\ s \in Nat /\ Word(s) = s
  BY <1>2, DigitProduct
<1> HIDE DEF p, q, r, s
<1>4. /\ Low(p) \in 0 .. H - 1 /\ High(p) \in Nat /\ p = High(p) * H + Low(p)
      /\ Low(q) \in 0 .. H - 1 /\ High(q) \in Nat /\ q = High(q) * H + Low(q)
      /\ Low(r) \in 0 .. H - 1 /\ High(r) \in Nat /\ r = High(r) * H + Low(r)
  BY <1>3, Digits
\* The upper digit of p leaves room for the two lower ones of q and r.
<1>5. m \in Nat /\ m < HH
  <2>1. High(p) <= High(p) * H
    BY <1>1, <1>4
  <2>2. High(p) <= p
    BY <1>1, <1>3, <1>4, <2>1
  <2> QED BY <1>1, <1>3, <1>4, <2>2
<1>6. mid(x, y) = m
  <2>1. Word(m) = m
    BY <1>5, InWord
  <2>2. mid(x, y) = Word(High(Word(p)) + Low(Word(q)) + Low(Word(r)))
    BY DEF mid, p, q, r, x0, x1, y0, y1
  <2> QED BY <1>3, <2>1, <2>2
<1>7. Low(m) \in 0 .. H - 1 /\ High(m) \in 0 .. H - 1 /\ m = High(m) * H + Low(m)
  <2>1. m \in 0 .. H * H - 1
    BY <1>1, <1>5
  <2> HIDE DEF m
  <2> QED BY <2>1, WordDigits
<1> HIDE DEF m
<1>8. Low(m) * H \in Nat /\ Low(m) * H + Low(p) < HH
  <2>1. Low(m) * H <= (H - 1) * H
    BY <1>1, <1>7
  <2>2. (H - 1) * H = HH - H
    BY <1>1
  <2>3. Low(m) * H \in Nat
    BY <1>1, <1>7
  <2> HIDE DEF HH
  <2> QED BY <1>1, <1>4, <2>1, <2>2, <2>3
\* Of the shifted sum only its lower digit stays in the word.
<1>9. Word(mid(x, y) * H) = Low(m) * H
  <2>1. m * H = High(m) * HH + Low(m) * H
    <3>1. (High(m) * H + Low(m)) * H = High(m) * HH + Low(m) * H
      BY <1>1, <1>7
    <3> QED BY <1>7, <3>1
  <2>2. m * H \in Nat /\ HH \in Nat \ {0} /\ Low(m) * H \in 0 .. HH - 1
    BY <1>1, <1>4, <1>5, <1>8
  <2>3. (m * H) % HH = Low(m) * H
    <3> HIDE DEF HH
    <3> QED BY <1>7, <2>1, <2>2, DivUnique
  <2> QED BY <1>6, <2>3 DEF Word
<1>10. mul128(x, y).lo = Low(m) * H + Low(p)
  <2>1. mul128(x, y).lo = Word(mid(x, y) * H) + Low(Word(p))
    BY DEF mul128, p, x0, y0
  <2> QED BY <1>3, <1>9, <2>1
<1>11. mul128(x, y).hi = Word(t)
  <2>1. mul128(x, y).hi = Word(Word(s) + High(Word(q)) + High(Word(r)) + High(mid(x, y)))
    BY DEF mul128, s, q, r, x0, x1, y0, y1
  <2> QED BY <1>3, <1>6, <2>1
\* The columns add up to the product, so the upper word cannot overflow.
<1>12. x * y = (Low(m) * H + Low(p)) + t * HH /\ t \in Nat
  <2>1. t \in Nat
    BY <1>3, <1>4, <1>7
  <2> DEFINE p0 == Low(p)  p1 == High(p)  q0 == Low(q)  q1 == High(q)
             r0 == Low(r)  r1 == High(r)  m0 == Low(m)  m1 == High(m)
  <2>2. /\ x0 \in Nat /\ x1 \in Nat /\ y0 \in Nat /\ y1 \in Nat
        /\ p0 \in Nat /\ q0 \in Nat /\ r0 \in Nat /\ m0 \in Nat
        /\ p1 \in Nat /\ q1 \in Nat /\ r1 \in Nat /\ m1 \in Nat
    BY <1>1, <1>2, <1>4, <1>7
  <2>3. /\ x0 * y0 = p1 * H + p0 /\ x0 * y1 = q1 * H + q0
        /\ x1 * y0 = r1 * H + r0 /\ p1 + q0 + r0 = m1 * H + m0
    BY <1>4, <1>7 DEF p, q, r, m
  <2>4. (x1 * H + x0) * (y1 * H + y0) = (m0 * H + p0) + (x1 * y1 + q1 + r1 + m1) * HH
    <3> HIDE DEF p0, p1, q0, q1, r0, r1, m0, m1
    <3>1. (x1 * H + x0) * (y1 * H + y0) = (x1 * y1) * HH + (x0 * y1) * H + (x1 * y0) * H + x0 * y0
      BY <1>1, <2>2
    <3>2. (q1 * H + q0) * H = q1 * HH + q0 * H /\ (r1 * H + r0) * H = r1 * HH + r0 * H
      BY <1>1, <2>2
    <3>3. (p1 + q0 + r0) * H = p1 * H + q0 * H + r0 * H
      BY <1>1, <2>2
    <3>4. (m1 * H + m0) * H = m1 * HH + m0 * H
      BY <1>1, <2>2
    <3>5. (x1 * y1 + q1 + r1 + m1) * HH = (x1 * y1) * HH + q1 * HH + r1 * HH + m1 * HH
      BY <1>1, <2>2
    <3>6. /\ (x1 * y1) * HH \in Int /\ q1 * HH \in Int /\ r1 * HH \in Int /\ m1 * HH \in Int
          /\ p1 * H \in Int /\ q0 * H \in Int /\ r0 * H \in Int /\ m0 * H \in Int
      BY <1>1, <2>2
    <3>7. (x0 * y1) * H = q1 * HH + q0 * H /\ (x1 * y0) * H = r1 * HH + r0 * H
      BY <2>3, <3>2
    <3>8. p1 * H + q0 * H + r0 * H = m1 * HH + m0 * H
      BY <2>3, <3>3, <3>4
    <3>9. (x1 * H + x0) * (y1 * H + y0)
             = (x1 * y1) * HH + (q1 * HH + q0 * H) + (r1 * HH + r0 * H) + (p1 * H + p0)
      BY <2>3, <3>1, <3>7
    <3>10. (x1 * H + x0) * (y1 * H + y0)
             = (x1 * y1) * HH + q1 * HH + r1 * HH + m1 * HH + m0 * H + p0
      <4> HIDE DEF HH
      <4> QED BY <1>1, <2>2, <3>6, <3>8, <3>9
    <3>11. (x1 * H + x0) * (y1 * H + y0) = (m0 * H + p0) + (x1 * y1 + q1 + r1 + m1) * HH
      <4> HIDE DEF HH
      <4> QED BY <1>1, <2>2, <3>5, <3>6, <3>10
    <3> QED BY <3>11
  <2>5. x * y = (x1 * H + x0) * (y1 * H + y0)
    BY <1>2
  <2>6. t = x1 * y1 + High(q) + High(r) + High(m)
    BY DEF s
  <2> HIDE DEF t
  <2> QED BY <2>1, <2>4, <2>5, <2>6
<1> HIDE DEF t
<1>13. t < HH
  <2> SUFFICES ASSUME t >= HH PROVE FALSE
    BY <1>1, <1>12
  <2>1. HH * HH <= t * HH
    BY <1>1, <1>12
  <2>2. x * y < HH * HH
    <3>1. x \in 0 .. HH - 1 /\ y \in 0 .. HH - 1
      OBVIOUS
    <3> HIDE DEF HH
    <3>2. x * y <= x * HH /\ x * HH <= (HH - 1) * HH
      BY <1>1, <3>1
    <3>3. (HH - 1) * HH = HH * HH - HH /\ HH > 0
      BY <1>1, <3>1
    <3>4. x * y \in Int /\ x * HH \in Int /\ HH * HH \in Int
      BY <1>1, <3>1
    <3> QED BY <1>1, <3>2, <3>3, <3>4
  <2>3. t * HH \in Int /\ HH * HH \in Int /\ Low(m) * H + Low(p) \in Nat
    BY <1>1, <1>4, <1>8, <1>12
  <2> HIDE DEF HH
  <2> QED BY <1>12, <2>1, <2>2, <2>3
<1>14. Word(t) = t
  BY <1>12, <1>13, InWord
<1>15. t * H * H = t * HH
  BY <1>1, <1>12
<1> QED BY <1>1, <1>4, <1>8, <1>10, <1>11, <1>12, <1>13, <1>14, <1>15

\* In every state after a call.
THEOREM MulCalls == MulSpec => []MulExact
<1> DEFINE Called == call.kind = "mul" =>
             \E x, y \in 0 .. H * H - 1 : call = [kind |-> "mul", a |-> x, b |-> y]
<1>1. MulInit => Called
  BY DEF MulInit
<1>2. Called /\ [MulCall]_call => Called'
  BY DEF MulCall
<1>3. Called => MulExact
  <2> SUFFICES ASSUME Called, call.kind = "mul" PROVE MulExact
    BY DEF MulExact
  <2>1. call.a \in 0 .. H * H - 1 /\ call.b \in 0 .. H * H - 1
    OBVIOUS
  <2> QED BY <2>1, MulIsExact DEF MulExact
<1> QED BY <1>1, <1>2, <1>3, PTL DEF MulSpec
=============================================================================
