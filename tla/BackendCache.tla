---------------------------- MODULE BackendCache ----------------------------
(***************************************************************************)
(* Runtime backend selection of both functions (dispatch.rs,               *)
(* aes/dispatch.rs): threads that call backend() share one atomic word,    *)
(* read and written with Relaxed order.                                    *)
(*                                                                         *)
(* Relaxed order on one location: `mo' is its modification order, and a    *)
(* load returns any store of it that is not older than one the thread has  *)
(* already read or written.                                                *)
(***************************************************************************)
EXTENDS Integers, Sequences, FiniteSets

CONSTANTS Callers,
          MaxCalls     \* bound on the calls of one thread

ASSUME CacheAssumption == MaxCalls \in Nat

VARIABLES build,       \* the program: its function, target and features
          cpu,         \* the features of the machine it runs on
          mo,          \* modification order of CACHE
          seen,        \* seen[t]: index in mo of the latest store t knows
          pc, b,       \* per thread: control point and the local `b'
          calls,       \* per thread: finished calls
          detections,  \* history, per thread: runs of select
          got          \* history: the backends that calls have returned

cacheVars == << build, cpu, mo, seen, pc, b, calls, detections, got >>

Null == "null"                          \* the initial 0 of CACHE

\* The features that the tables ask for, by architecture.  What architecture
\* and compiler imply: AVX-512VL has AVX-512F, that has AVX2, VAES has AES, and
\* every x86-64 has SSE2.
FeatureSets ==
  [x86_64 |-> {f \in SUBSET {"sse2", "avx2", "avx512f", "avx512vl", "aes", "vaes"} :
                 /\ "sse2" \in f
                 /\ "avx512vl" \in f => "avx512f" \in f
                 /\ "avx512f" \in f => "avx2" \in f
                 /\ "vaes" \in f => "aes" \in f},
   wasm32 |-> SUBSET {"simd128"},
   other  |-> {{}}]

\* A build: `target' are the features it is compiled for.  Only a build without
\* std looks at them on x86-64, so those with std have the least ones.  (With
\* aarch64 as target, only force-fallback compiles: it behaves as `other'.)
Builds ==
  {x \in [fn : {"default", "aes"}, arch : DOMAIN FeatureSets, std : BOOLEAN,
          fallback : BOOLEAN, target : UNION {FeatureSets[a] : a \in DOMAIN FeatureSets}] :
     /\ x.target \in FeatureSets[x.arch]
     /\ x.arch = "x86_64" /\ x.std => x.target = {"sse2"}}

\* The machines of a build: they have what it is compiled for.
Machines(x) == {f \in FeatureSets[x.arch] : x.target \subseteq f}

\* The instructions that the functions of a table execute: target_feature of
\* its entries, and of the kernels they call (avx512 the small path of avx2,
\* vaesvl the streaming entries of vaes256).
Needs == [default |-> [spec |-> {}, sse2 |-> {"sse2"}, avx2 |-> {"avx2"},
                       avx512 |-> {"avx512f", "avx2"}, simd128 |-> {"simd128"}],
          aes |-> [soft |-> {}, aesni |-> {"aes", "sse2"}, vaes256 |-> {"vaes", "avx2"},
                   vaesvl |-> {"vaes", "avx2", "avx512f", "avx512vl"}]]
Tables == DOMAIN Needs[build.fn]

\* is_x86_feature_detected with std, target_feature without.
Detected == IF build.std THEN cpu ELSE build.target

Simd(arch) == build.arch = arch /\ ~build.fallback

select_default ==
  IF Simd("x86_64") THEN IF "avx512f" \in Detected THEN "avx512"
                         ELSE IF "avx2" \in Detected THEN "avx2"
                         ELSE "sse2"
  ELSE IF Simd("wasm32") /\ "simd128" \in build.target THEN "simd128"
  ELSE "spec"

\* A name with an underscore and a word is the name before it with a plausible
\* slip, for the mutation runs; nothing else uses it.
select_aes_Vaes ==
  IF Simd("x86_64") /\ {"vaes", "avx512f", "avx512vl"} \subseteq Detected THEN "vaesvl"
  ELSE IF Simd("x86_64") /\ {"vaes"} \subseteq Detected THEN "vaes256"
  ELSE IF Simd("x86_64") /\ {"aes", "sse2"} \subseteq Detected THEN "aesni"
  ELSE "soft"
select_aes ==
  IF Simd("x86_64") /\ {"vaes", "avx512f", "avx512vl"} \subseteq Detected THEN "vaesvl"
  ELSE IF Simd("x86_64") /\ {"vaes", "avx2"} \subseteq Detected THEN "vaes256"
  ELSE IF Simd("x86_64") /\ {"aes", "sse2"} \subseteq Detected THEN "aesni"
  ELSE "soft"

select == IF build.fn = "default" THEN select_default ELSE select_aes

CacheInit == /\ build \in Builds
             /\ cpu \in Machines(build)
             /\ mo = << Null >>
             /\ seen = [t \in Callers |-> 1]
             /\ pc = [t \in Callers |-> "idle"]
             /\ b = [t \in Callers |-> Null]
             /\ calls = [t \in Callers |-> 0]
             /\ detections = [t \in Callers |-> 0]
             /\ got = {}

Return(t, v) == /\ pc' = [pc EXCEPT ![t] = "idle"]
                /\ calls' = [calls EXCEPT ![t] = @ + 1]
                /\ got' = got \cup {v}

Load_Unchecked(t) ==
  /\ pc[t] = "idle"
  /\ calls[t] < MaxCalls
  /\ \E i \in seen[t] .. Len(mo) :
       seen' = [seen EXCEPT ![t] = i] /\ Return(t, mo[i])
  /\ UNCHANGED << build, cpu, mo, b, detections >>
Load(t) ==
  /\ pc[t] = "idle"
  /\ calls[t] < MaxCalls
  /\ \E i \in seen[t] .. Len(mo) :
       /\ seen' = [seen EXCEPT ![t] = i]
       /\ IF mo[i] # Null
          THEN Return(t, mo[i])
          ELSE pc' = [pc EXCEPT ![t] = "select"] /\ UNCHANGED << calls, got >>
  /\ UNCHANGED << build, cpu, mo, b, detections >>

Select(t) == /\ pc[t] = "select"
             /\ b' = [b EXCEPT ![t] = select]
             /\ detections' = [detections EXCEPT ![t] = @ + 1]
             /\ pc' = [pc EXCEPT ![t] = "store"]
             /\ UNCHANGED << build, cpu, mo, seen, calls, got >>

Store_Nothing(t) == /\ pc[t] = "store"
                     /\ Return(t, b[t])
                     /\ UNCHANGED << build, cpu, mo, seen, b, detections >>
Store(t) == /\ pc[t] = "store"
            /\ mo' = Append(mo, b[t])
            /\ seen' = [seen EXCEPT ![t] = Len(mo) + 1]
            /\ Return(t, b[t])
            /\ UNCHANGED << build, cpu, b, detections >>

CacheNext == \E t \in Callers : Load(t) \/ Select(t) \/ Store(t)

CacheSpec == CacheInit /\ [][CacheNext]_cacheVars
-----------------------------------------------------------------------------
\* Types.
TypeOK == /\ build \in Builds
          /\ cpu \in Machines(build)
          /\ mo \in Seq({Null} \cup Tables)
          /\ seen \in [Callers -> 1 .. Len(mo)]
          /\ pc \in [Callers -> {"idle", "select", "store"}]
          /\ b \in [Callers -> {Null} \cup Tables]
          /\ calls \in [Callers -> 0 .. MaxCalls]
          /\ detections \in [Callers -> Nat]
          /\ got \subseteq Tables

\* The SAFETY comments of backend() and of its callers: every call of every
\* thread, before, during and after the race, runs a table whose functions the
\* machine supports, those that ask for more than select tests included, and
\* all calls run the same one: the word is only ever null or that one, and a
\* stream and a one-shot hash of two threads agree.
OneSupportedBackend == /\ \A v \in got : Needs[build.fn][v] \subseteq cpu
                       /\ Cardinality(got) <= 1

\* Coherence of the one word is enough for the cache: a thread that has once
\* stored a backend never detects again, Relaxed or not.
DetectsOncePerThread == \A t \in Callers : detections[t] <= 1
=============================================================================
