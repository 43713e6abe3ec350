------------------------------- MODULE Hashers -------------------------------
(***************************************************************************)
(* BuildHasher and Hasher of both functions (hasher.rs, aes/hasher.rs):    *)
(* threads make a FixedState, or a RandomState from the seed that the      *)
(* process keeps in a OnceLock, build a hasher and write to it.            *)
(*                                                                         *)
(* OnceLock is the standard library's: the first caller runs the           *)
(* initialiser, callers that come meanwhile wait for it.  The initialiser  *)
(* draws the keys of a standard RandomState, other ones at every call.     *)
(***************************************************************************)
EXTENDS Integers, Sequences

CONSTANTS Threads,
          Functions,  \* of "default" and "aes"
          Strings,    \* the byte strings that a thread may write
          Numbers,    \* the integers that it may write, little-endian
          MaxWrites   \* bound on the writes of a thread

D == INSTANCE LaneHasher
A == INSTANCE AesHasher

ASSUME HashersAssumption == /\ Functions \subseteq {"default", "aes"}
                            /\ \A p \in Strings \cup Numbers : D!IsSlice(p)
                            /\ \A i \in Numbers : i.len \in {1, 2, 4, 8, 16}
                            /\ MaxWrites \in Nat

VARIABLES fn,      \* the function whose hashers the process uses
          once,    \* the OnceLock
          seed,    \* the seed that the initialiser has stored
          phase,   \* per thread: control point
          state,   \* per thread: the seed in its BuildHasher
          random,  \* per thread: whether that is a RandomState
          hasher,  \* per thread: its LaneHasher
          log      \* history, per thread: what it has written

vars == << fn, once, seed, phase, state, random, hasher, log >>

None    == [acc |-> {}]      \* no hasher
NoSeed  == {}
Fixed   == {<< "seed", "fixed" >>}
Draw(t) == {<< "seed", "drawn", t >>}  \* the closure's draw in thread t

new(s)      == IF fn = "default" THEN D!new(s) ELSE A!build_hasher(s)
write(h, p) == IF fn = "default" THEN D!write(h, p) ELSE A!write(h, p)
write_int(h, i) == IF fn = "default" THEN D!write_int(h, i) ELSE A!write_int(h, i)

Init == /\ fn \in Functions
        /\ once = "empty"
        /\ seed = NoSeed
        /\ phase = [t \in Threads |-> "idle"]
        /\ state = [t \in Threads |-> NoSeed]
        /\ random = [t \in Threads |-> FALSE]
        /\ hasher = [t \in Threads |-> None]
        /\ log = [t \in Threads |-> << >>]

Ready(t, s) == /\ state' = [state EXCEPT ![t] = s]
               /\ phase' = [phase EXCEPT ![t] = "ready"]

\* FixedState::new.
NewFixed(t) == /\ phase[t] = "idle"
               /\ Ready(t, Fixed)
               /\ UNCHANGED << fn, once, seed, random, hasher, log >>

\* RandomState::new, up to the OnceLock.
CallNew(t) == /\ phase[t] = "idle"
              /\ phase' = [phase EXCEPT ![t] = "new"]
              /\ random' = [random EXCEPT ![t] = TRUE]
              /\ UNCHANGED << fn, once, seed, state, hasher, log >>

\* get_or_init finds the lock empty and starts the initialiser.
StartInit(t) == /\ phase[t] = "new"
                /\ once = "empty"
                /\ once' = "running"
                /\ phase' = [phase EXCEPT ![t] = "init"]
                /\ UNCHANGED << fn, seed, state, random, hasher, log >>

\* A name with an underscore is the name before it with a plausible slip, for
\* the mutation runs; nothing else uses it.
EndInit_StillRunning(t) == /\ phase[t] = "init"
                           /\ seed' = Draw(t)
                           /\ Ready(t, Draw(t))
                           /\ UNCHANGED << fn, once, random, hasher, log >>
EndInit(t) == /\ phase[t] = "init"
              /\ once' = "set"
              /\ seed' = Draw(t)
              /\ Ready(t, Draw(t))
              /\ UNCHANGED << fn, random, hasher, log >>

\* get_or_init finds a seed, at once or after the wait.
Get_OwnDraw(t) == /\ phase[t] = "new"
                  /\ once = "set"
                  /\ Ready(t, Draw(t))
                  /\ UNCHANGED << fn, once, seed, random, hasher, log >>
Get(t) == /\ phase[t] = "new"
          /\ once = "set"
          /\ Ready(t, seed)
          /\ UNCHANGED << fn, once, seed, random, hasher, log >>

BuildHasher(t) == /\ phase[t] = "ready"
                  /\ hasher' = [hasher EXCEPT ![t] = new(state[t])]
                  /\ phase' = [phase EXCEPT ![t] = "hashing"]
                  /\ UNCHANGED << fn, once, seed, state, random, log >>

\* One write of the data p.
Writes(t, kind, p, op(_, _)) ==
  /\ phase[t] = "hashing"
  /\ Len(log[t]) < MaxWrites
  /\ hasher' = [hasher EXCEPT ![t] = op(@, p)]
  /\ log' = [log EXCEPT ![t] = Append(@, [kind |-> kind, data |-> p])]
  /\ UNCHANGED << fn, once, seed, phase, state, random >>

Write(t)    == \E p \in Strings : Writes(t, "bytes", p, write)
WriteInt(t) == \E i \in Numbers : Writes(t, "integer", i, write_int)

\* Clone: t goes on with a copy of the hasher of u.
Clone(t, u) == /\ phase[t] = "ready" /\ phase[u] = "hashing"
               /\ state' = [state EXCEPT ![t] = state[u]]
               /\ random' = [random EXCEPT ![t] = random[u]]
               /\ hasher' = [hasher EXCEPT ![t] = hasher[u]]
               /\ log' = [log EXCEPT ![t] = log[u]]
               /\ phase' = [phase EXCEPT ![t] = "hashing"]
               /\ UNCHANGED << fn, once, seed >>

\* RandomState::new from the OnceLock on.
NewStep(t) == StartInit(t) \/ EndInit(t) \/ Get(t)

Next == \E t \in Threads :
          \/ NewFixed(t) \/ CallNew(t) \/ NewStep(t)
          \/ BuildHasher(t) \/ Write(t) \/ WriteInt(t)
          \/ \E u \in Threads : Clone(t, u)

\* Every thread is scheduled, so a call that is not blocked goes on.
Spec == Init /\ [][Next]_vars /\ \A t \in Threads : WF_vars(NewStep(t))
-----------------------------------------------------------------------------
\* "One seed per process, so every instance agrees": all RandomStates, made
\* before, during and after the first one's initialisation, hold one seed.
HoldsSeed(t) == random[t] /\ phase[t] \in {"ready", "hashing"}
OneSeed == \A t, u \in Threads : HoldsSeed(t) /\ HoldsSeed(u) => state[t] = state[u]

SameSeed(t, u) == /\ phase[t] = "hashing" /\ phase[u] = "hashing"
                  /\ state[t] = state[u]

\* Writes of the same kinds and lengths, whatever their data.
SameShape(t, u) == /\ Len(log[t]) = Len(log[u])
                   /\ \A i \in 1 .. Len(log[t]) :
                        /\ log[t][i].kind = log[u][i].kind
                        /\ log[t][i].data.len = log[u][i].data.len

\* Two hashers of any two threads with one seed, that have taken writes of the
\* same kinds and lengths, finish with the same digest exactly when they have
\* taken the same data: equal keys agree in every thread, and each byte of each
\* write counts; none is forgotten by a later write, or cancels there.  (A second
\* word of KS(1) xor the length would make a factor 0, and lose all of the write
\* and before: constants are names here, so no data has that value.)
DigestTellsData ==
  \A t, u \in Threads :
    SameSeed(t, u) /\ SameShape(t, u) =>
      (hasher[t].acc = hasher[u].acc <=> log[t] = log[u])

\* Writes of up to 8 bytes are also told apart by their lengths ("abc", "def"
\* is not "abcd", "ef", nor "abc", "" "def"): their length is alone in its word.
\* Beyond 8 bytes it is xored to data, and can cancel against them.
ShortWrites(t) == \A i \in 1 .. Len(log[t]) : /\ log[t][i].kind = "bytes"
                                              /\ log[t][i].data.len <= 8
DigestTellsCuts ==
  \A t, u \in Threads :
    SameSeed(t, u) /\ ShortWrites(t) /\ ShortWrites(u) =>
      (hasher[t].acc = hasher[u].acc => log[t] = log[u])

\* RandomState::new returns in every thread, those that wait for the first
\* one's initialiser included.
NewReturns == \A t \in Threads : phase[t] \in {"new", "init"} ~> phase[t] = "ready"
=============================================================================
