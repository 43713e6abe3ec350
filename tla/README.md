# A TLA+ project for lanehash

lanehash is a non-cryptographic 64/128-bit hash library: two functions (the
default one, chained NH-32 stripes, and the older AES-lane one), each with a
portable definition, several SIMD backends picked at run time, an incremental
`Stream`, `Hasher`s for hash maps, and a C port. All of them promise one thing:
**the same digest as the definition, however the bytes arrive and whichever
kernel runs**. The project models how bytes move (which byte, into which chain
or lane, in which order, with which length word, under which xor, product, sum or
round) and leaves the numbers out: a hash is the *term* of what was absorbed. Two
equal terms are equal digests whatever a round or a product computes, so an
invariant `stream = one-shot` on terms is the strongest form of the promise.

## 1. Inventory

| component (source) | state | operations | what makes it correct |
|---|---|---|---|
| default function, definition (`lanehash/src/spec.rs`) | eight chains | `init`, `absorb`, `finish`, `lanes` | every byte absorbed, stripe s into chain s mod 8, the closing stripe last |
| default `Stream` (`stream.rs`) | `total`, `blocks`, the chains, a 640-byte buffer and its length | `new`, `update`, `finish128/64` | the one-shot digest at every split; no copy leaves the buffer; `update` returns |
| default one-shot kernels (`x86.rs`, `wasm.rs`, `lanehash.c`) | chains in registers or memory, a loop variable | `small`, `lanes`, `absorb`, `finish` | the terms of the definition; no byte outside the input |
| default backend cache (`dispatch.rs`) | one atomic word | `backend()` by many threads | a supported backend, one for all calls |
| AES function, definition (`aes/spec.rs`, generic machine in `aes/lanes.rs`) | 4, 8 or 16 lanes by length | `State::{new, absorb, step, finish}`, `lanes_hash` | block j into lane j mod L, closing region into every lane |
| AES kernels (`aes/lanes.rs`, `aes/x86.rs`, `aes/arm.rs`, `lanehash_aes.c`) | registers of W lanes, differential `x, prev`, shifted `u, kp` | one-shot, batch4, batch2, differential, shifted | equal to the definition; inputs of a batch independent |
| AES `Stream` (`aes/stream.rs`) | `total`, `absorbed_blocks`, 16 lanes, a 1296-byte buffer | as above | as above, with the lane count unknown up to 1024 bytes |
| AES batching (`aes/dispatch.rs`) | two groups of slots, derived secrets, the caller's `out` | `batch_with` | `out[i]` is the hash of input i, stored once |
| short paths (`short.rs`, `aes/short.rs`) | none | one expression per length class | every byte loaded, none beyond the input; a zero operand loses nothing but itself |
| hashers (`hasher.rs`, `aes/hasher.rs`) | accumulator, seed and secrets, the seed of the process | `write*`, `clone`, `FixedState`, `RandomState::new` | of writes of the same kinds and lengths, equal digests exactly for equal data; one seed per process |
| software rounds (`aes/soft.rs`, `gen_ttables.py`) | tables | `tables`, `round` | the round of the definition |
| C ports (`lanehash.c`, `lanehash_aes.c`) | none | the public functions, `mul128` from halves | the Rust digests at both widths, in every build |
| NEON kernel of the default function (`arm.rs`), FFI, wasm bindings, bench, fuzz, tools | | | not modelled, see 7 |

Interactions. `hash64/128` and `Stream` call `backend()` and then the table's
functions; a `Stream` fixes its backend when it is made. `Stream::update` calls
`absorb`, `finish` the table's `finish`, or the one-shot function while no block
has been absorbed. `batch_with` calls three entries of its table and the
caller's `store`. The only state shared by threads is the cache of each function
and the seed of `RandomState`.

What is hard here: a history of updates that reaches a particular buffer fill
with a particular carry; loops that stop one stripe before the end so that the
closing stripe, which overlaps earlier bytes, stays available; five kernels with
different loop shapes for one function; slots that keep stale pointers after a
flush; two rewritings of a recurrence; loads that overlap and xors that cancel, lengths against data included; the
race on the cache, and threads that wait for another one's seed. The hazards,
with their lines and the properties aimed at them, are in `PROJECT.json`.

## 2. The modules

    IncrementalHash      what a stream promises
      Memory ---> LaneSpec ----> LaneStream   (INSTANCE IncrementalHash as a refinement)
             \             \---> LaneKernels
              \-> AesSpec  ----> AesStream, AesBatch, AesKernels
      AesRound  ----> SandwichLane <--refined by-- DiffLane, ShiftedLane --> MCLanes
      BackendCache
      WordTerms ----> LongFolds --> ShortPath --> LaneHasher --\
                \---> AesShort (with AesSpec, AesClosing) ----> AesHasher --> Hashers --> MCHashers
                \---> CShort (with LongFolds, AesClosing)
      PureCalls composes ShortPath, AesShort, CShort, both hashers, MulHalves,
                SoftRound and StripeStep
    proofs: Memory_proofs --> LaneSpec_proofs --> LaneStream_proofs, LaneKernels_proofs
                          \-> AesStream_proofs
                          \-> AesKernels_proofs (with DiffLane and ShiftedLane)
            AesBatch_proofs, Process_proofs (BackendCache, Hashers and MulHalves)

**Memory, LaneSpec.** Memories are functions from addresses to bytes; a stripe is the
record of its bytes and the word xored into them; a chain is the sequence of its
stripes. `Absorb`, `Finish`, `Lanes`, `Hash` follow `absorb`, `finish`, `lanes`,
`hash128`. `Input` is the input whose byte i is i: as the bytes are never looked
at, it stands for every input. `CopyTo` is both `copy_from_slice` and
`copy_within`; a copy past the end enlarges the domain, which the type invariant
of the streams forbids.

**LaneStream.** `Update(k)` is the entry of `update`, `AbsorbDirect` and `Fill`
the two branches of its loop, `data` what is left of the caller's slice. `Fill`
moves the bytes that fit and, when the buffer is full, absorbs the block and
moves the rest down: one iteration of the loop. `finish128` takes `&self`, so it
is an operator, `Finish128`, that may be called whenever no update runs; `n > 64`
with no block absorbed goes through the one-shot function on the buffer, as in
the code. `total` is a `usize` and wraps at `USIZE`.

**LaneKernels.** The loops over a whole input: the small path, then a large path
in one of four shapes ("register": avx2, avx512, C AVX; "memory": sse2;
"array": wasm; "scalar": C scalar and C SSE2, one plain loop), the closing stripe, the merge.
Behind the input the memory holds `Foreign` bytes.

**BackendCache.** Threads run `Load`, `Select`, `Store`. Relaxed order on one
location is modelled by its modification order `mo` and, per thread, the newest
store it knows: a load may return any store that is not older. `build` is a program
(which function, architecture, std or not, force-fallback or not, compiled-in
features) and `cpu` a machine that it may run on; `select` is the code of both
dispatchers, and `Needs` the instructions behind each table, its streaming and
small-input entries included. Its names carry a prefix (`CacheSpec`) where Hashers has
them too, because one module proves about both.

**AesSpec, AesStream.** As LaneSpec and LaneStream. An AES `update` is straight
line code with no loop, so it is one action with two alternatives, `Buffer` and
`Absorb`; the latter absorbs whole steps already buffered, one topped up, and
steps of the slice, with the same arithmetic as the code (`Steps`, `Topup`).

**AesBatch.** One action per iteration of the loops of `batch_with`, by regime.
A hash is the record of what it was computed from (address, length, lanes, for a
short input its secrets). `room` is the length of `out`: an index beyond it
panics after earlier stores of the group, and the model stops there.

**AesKernels.** One input through a backend's one-shot function, or a full group
through a batch kernel: `Start` (with the first step in differential form), the
steps all inputs share, the steps each has beyond, the rest, the closing region.
`RestLanes` says which lanes the rest touches when registers hold two lanes. That
the differential form has a first step to take is an assumption on the bounds of
the regimes, the code's debug assertion `m >= L`.

**AesRound, SandwichLane, DiffLane, ShiftedLane.** One lane over an arbitrary
round `R(x, k) = M[x] ^ k`; all forms count its `blocks` and its `phase` alike. SandwichLane is the definition (`t = R(t ^ b, b)`);
DiffLane is the `x, prev` recurrence of the EVEX backend, ShiftedLane the `u, kp`
recurrence of the NEON backend. The refinement mappings are the algebra of the
comments: `t = R(x, prev)` in the loop of the first, `t = u ^ kp` in the second.
The names of ShiftedLane and AesKernels that DiffLane has too carry a prefix
(`ShiftedSpec`, `KernelSpec`), because one module proves about the three. MCLanes runs
both forms side by side on the same blocks.

**WordTerms, ShortPath, AesShort, LongFolds, AesClosing.** A 64-bit word is the set
of its atoms, and xor the symmetric difference: what is xored in twice is gone. Data
and lengths are numbers, bit by bit: the atoms are the bits that are 1, each with its
byte of the word, so a length cancels against data and a byte that is 0 is no atom,
as in the code. Constants are names; a product's halves are atoms over the pair of its
factors, and 0 with a zero factor. `short128` takes the
operand that the input makes zero as a parameter (`NoZero` for none). Beyond 64
bytes, LongFolds has the folds over the merged words and AesClosing the rounds, the
sum and the final rounds behind the lanes, each for Rust and C.

**LaneHasher, AesHasher, Hashers.** What each write makes of the accumulator, and
the threads around it: `NewFixed`, `CallNew` and the three ways through
`get_or_init` (`StartInit`, `EndInit`, `Get`), `BuildHasher`, `Write`, `WriteInt`,
`Clone`. A write takes one of `Strings` or `Numbers`, bytes by value; a narrow
integer is extended with zeros, as `i as u64` does. `log` is the history of a thread:
the kind and the data of each write. MCHashers gives the values: strings of every
class of lengths that differ in one byte, in the length only, or not as loaded.

**CShort, MulHalves, SoftRound, StripeStep.** The C short paths and public
functions; `mul128` from halves in base H, every sum modulo the word, with the step
that calls it (`MulSpec`); `aes_round`
and its two table forms byte by byte over an arbitrary S-box; the step of a stripe
and of the merge in registers of 2, 4 and 8 words and in shuffled pairs.

**PureCalls.** Functions without state have no interleavings, so each is one step
that records its inputs; the properties evaluate the function there.

Operators whose name is that of another and a suffix (`Full_NoCarry` beside
`Full`) are that operator with a plausible slip. No other definition uses them:
they are substituted one at a time to see that a property notices.

## 3. The runs

| run | checks | bounds and why they are enough |
|---|---|---|
| lane_stream | type (no copy past the buffer), BufferWindow, ChainsHoldBlocks, ClosingStripeKept, FinishReady, UpdateReturns, ImplementsIncrementalHash | stripes of 2 bytes, 3 chains, buffer 10, all splits of up to 24 bytes: four blocks, so the direct branch with k = 1, 2 and 3, every fill, both carries, r = 0 .. CHAINS |
| lane_stream_real | IndInv, StreamEqualsOneShot | the code's 64, 8 and 640; updates of 0, 1, 63, 64, 65, 511, 512, 575, 576, 577 and 1088 bytes up to 2000, on each side of every comparison |
| lane_kernels | KernelEqualsSpec, NoOverread, EveryByteAbsorbed | all lengths 3 .. 26 with m up to 12 stripes on 3 chains: up to four groups, every rest, every closing chain |
| backend_cache | type, OneSupportedBackend, DetectsOncePerThread | both functions, all builds and all machines (every closed set of the features that the tables name); three threads, two calls each: a third thread sees stale values of two writers |
| aes_stream | type, BufferWindow, LanesHoldBlocks, ClosingRegionBuffered, StreamEqualsOneShot, AbsorbedIsPrefix | blocks of 2 bytes, 3 lanes, L8_MAX 16, updates of 0 .. 26 bytes up to 34: every combination of buffered, topped-up and direct steps |
| aes_kernels | KernelEqualsLanesHash, NoOverread | five backends; all single lengths 5 .. 60 over three regimes and the bulk switch; all pairs and groups of four over lengths with every rest |
| aes_batch | type, StoresOwnHash, PendingOnce, StoredOnce, EveryInputStored | up to five inputs over the edges 64, 65, 257, 1024, 1025 and every length of `out`: five fill the group of four and reuse a slot of it, and fill the group of two twice |
| lanes | ImplementsSandwich, ShiftedImplementsSandwich | four-bit blocks, a nonlinear round, up to three regular blocks, every start value |
| pure_calls | ReadsExactlyInput, ZeroOperandKeepsInput, PortsAgree, MulExact, RoundsAgree | every length 0 .. 64 and 65, 256, 257, 1024, 1025 (both sides of each regime), both functions and widths, every operand as the zero one, the three C builds; products of all words of two halves of 3 bits (H = 8: every pattern of carries); rounds and steps as terms, so all values at once |
| hashers | OneSeed, DigestTellsData, DigestTellsCuts, NewReturns | both functions; two threads, up to two writes of strings of 0, 3, 8, 40 and 70 bytes or 8-byte integers: each branch of each write, first and second; a string of 3 and one of 8 bytes are loaded as one word, those of 40 and of 70 differ in one byte |
| hashers_cuts | WriteSequencesDisambiguated is violated | the test that says that other write sequences of the same bytes have other hashes: three words of 24 written as 16 and 8 bytes and as 8 and 16, two threads |
| lane_stream_remainder | RemainderBelowChains is violated | the comments that say `r < 8`: a stream that ends 1 to 63 bytes after a whole block passes r = 8, which `finish` accepts and handles |

The last is a disagreement between comments and the code: the digest is right. In the
one before it the code does less than a test says: `write` xors the length of 9 to 16
bytes to its second data word, where data can make up for it (24 = 16 ^ 8). So a hasher
tells writes of the same kinds and lengths apart (DigestTellsData) and short strings of
any lengths (DigestTellsCuts), but not all sequences of writes.

In lane_stream the equality with the one-shot function is part of
ImplementsIncrementalHash: at every point without a running update `Finish128` is
the digest of all bytes written.

**Fairness.** An `update` or a batch is sequential code that nothing
blocks, so once it runs its next iteration happens: weak fairness of the loop's
actions (`AbsorbDirect` and `Fill`; `Next` of a batch). Nothing forces
a caller to call `update`, and the kernels, whose loops are bounded by a number
computed before them, and BackendCache assume none. In Hashers, each thread that is inside `RandomState::new` is scheduled
(weak fairness of `NewStep` per thread): the initialiser draws keys and blocks on
nothing, and a thread that waits for it can go on as soon as the lock is set. Deadlock checking is off where the modelled call returns for good
(kernels, batch, bounded calls of a thread, a closed lane).

## 4. The proofs

TLAPS proves, for all values of the constants that the named assumptions allow:

| module | theorems (the property of a run that each states) |
|---|---|
| `LaneStream_proofs` | InductiveInvariant (IndInv), TypeCorrect (TypeOK), BufferTheorem (BufferWindow), ChainsTheorem (ChainsHoldBlocks), ClosingTheorem (ClosingStripeKept), AssertionHolds (FinishReady), **StreamCorrect (StreamEqualsOneShot)**: the stream equals the one-shot function at every split; **ImplementsSafety**: it implements IncrementalHash step by step, fairness left out |
| `LaneKernels_proofs` | InductiveInvariant, **KernelCorrect (KernelEqualsSpec)**, ReadsInside (NoOverread), AllAbsorbed (EveryByteAbsorbed), for the four kernel shapes |
| `AesStream_proofs` | InductiveInvariant, TypeCorrect (TypeOK), BufferTheorem (BufferWindow), LanesTheorem (LanesHoldBlocks), ClosingTheorem (ClosingRegionBuffered), **StreamCorrect (StreamEqualsOneShot)**, PrefixTheorem (AbsorbedIsPrefix) |
| `AesKernels_proofs` | DiffTypeCorrect, **DiffImplements (ImplementsSandwich)**, ShiftedTypeCorrect, **ShiftedImplements (ShiftedImplementsSandwich)** for one lane; KernelInductive, **KernelCorrect (KernelEqualsLanesHash)**, KernelInside (NoOverread) for the loops over the lanes |
| `AesBatch_proofs` | InductiveInvariant, TypeCorrect (TypeOK), **OwnHash (StoresOwnHash)**, Once (StoredOnce), Pending (PendingOnce), OutcomeRight: a batch that returns has stored everything, one that panics had too short an `out` |
| `Process_proofs` | CacheInductive, TypeCorrect (TypeOK), **OneBackend (OneSupportedBackend)**, DetectsOnce (DetectsOncePerThread); SeedInductive, **OneSeedForAll (OneSeed)**; HistoryInductive, **DigestsTellData (DigestTellsData)** and DigestsTellCuts (DigestTellsCuts): a digest tells the data of writes of given kinds and lengths, and the cuts of short strings, for all data and any number of writes; **MulIsExact** and MulCalls (MulExact): the product from halves, for every base and every two words |
| `Memory_proofs`, `LaneSpec_proofs` | lemmas: quotients, blocks dealt to lanes in turn, copies; absorbing and finishing in closed form |

*Hypotheses.* Both streams need `NoWrap == MaxInput < USIZE`: the input fits
`usize`. It cannot be dropped: `total` wraps in a release build, and `finish128` then
takes the path of the wrapped length. The other theorems have no hypothesis. The
assumptions on constants are those of the modules: sizes are positive, the regimes of
the AES function are ordered, each starts above its own closing region, and the two
with a differential form above two of them (the debug assertions of the code).

*LaneStream.* None of its five safety properties is inductive alone: that a moved buffer
still is a window of the input needs ClosingStripeKept (how much follows the last
block), which needs the branch condition on `buf_len = carry + ...` from
BufferWindow; that a block taken from the buffer is the right one needs both.
IndInv is their conjunction with `Counted`, which ties `total` to the bytes
consumed and still to come. The step is proved for `Update`, `AbsorbDirect` and
`Fill` (block completed or not), the last two through one lemma (`Establish`)
that rebuilds the invariant from what the iteration left. For StreamCorrect,
`Holds(mem, from, len, at)` says that a piece of memory is a piece of the input,
`Led(b, r)` is the chains after b blocks and r stripes, and `Closed` those with the
closing stripe; `AbsorbLed`, `FinishLed` and `LanesClosed` show that the one-shot
function and the stream reach the same closed chains from different block counts,
r = CHAINS included. ImplementsSafety uses the equality in both states of a step
(`DigestIs`): an update that ends shows the digest of all bytes, and every other
iteration of the loop is a stutter.

*LaneKernels.* The invariant has a disjunct per control point: after s stripes the
chains are `Led(b, r)` with s = b * CHAINS + r, in the groups with r = 0, in the
guarded tail with fewer than CHAINS stripes to go. Each loop shape keeps it
(`MoreLed`, `NextLed`, `WrapLed`), the closing stripe makes it `Lanes(Input, n)` by
`LanesClosed`, the lemma of the stream. NoOverread and EveryByteAbsorbed follow from
the closed form: byte i is in stripe i / STRIPE, thus in chain (i / STRIPE) mod
CHAINS, or in the closing one.

*AesStream.* IndInv is TypeOK, `Counted`, BufferWindow, LanesHoldBlocks and
ClosingRegionBuffered. The last one is what makes the others inductive: it is the
bound on how much of the input `update` may hold back, so that what it absorbs next
starts at the buffer's front. `SplitFacts` is the arithmetic of one `update`: how
many steps it takes from the buffer, whether it tops one up, how many it takes
from the slice, and that nothing of the buffer is skipped between them.
StreamCorrect is by regime: up to L8_MAX bytes nothing has been absorbed and the
one-shot function runs on the buffer; beyond, the regular blocks of `finish` and those
absorbed are the regular blocks of the whole (`RemainingFacts`).

*AesKernels.* In one lane, the step of the differential tail is
`R(R(x, e ^ prev), 0) ^ e = R(R(x, prev) ^ e, e)`, by the xor laws (`XorFacts`,
`StepForm`). Over the lanes, KernelInv says that the lanes of input k are
`Leading(k, q[k] * w)`, its first q[k] whole steps, whatever the other inputs of the
batch have; one lemma (`TakeStep`) covers the first differential step, the common and
the own steps. `RestIs` shows that the lanes of whole registers and the touched
half of the last are the lanes below the rest for registers of one and of two lanes.

*AesBatch.* PendingOnce is not inductive: stale slots stay behind a flush. IndInv says
which slots are live at each control point (`Live4`, `Live8`), that those hold inputs
of the regime, different ones and none stored (`Waiting`), that everything read is
stored or live (`Accounted`), and that a panic had an input beyond `room`. A flush
stores the live slots up to the first index out of bounds (`StorePrefix`), and the
group is empty after it.

*BackendCache.* OneSupportedBackend is not inductive: a thread may return what
another has stored, so IndInv says what the word holds (null, then only the
selected backend) and what each thread holds when it is about to store. That a
thread that has detected does not detect again needs that null is only ever the
first store and that the thread knows a later one. `select` is the same in all
states because `build` and `cpu` never change (`SelectFixed`), and its table runs on
the machine by cases on the tests of `select` and the implications between features
(`DefaultSupported`, `AesSupported`).

*Hashers.* OneSeed is not inductive: it says nothing of a thread that waits for the
lock. SeedInv describes the lock as it can be: unset, then nobody runs the initialiser
and nobody holds its seed; running in exactly one thread, then still nobody holds it;
or set, then nobody runs the initialiser and every holder has the stored seed. Most
actions leave the lock and give no one a seed that is not the stored one
(`LockKept`); `StartInit` and `EndInit` move from one case to the next.

*Digests tell data.* Both properties compare the hashers of two threads and are
not inductive. HistoryInv is: a hasher is `Made` of its thread's log, that is,
there is a sequence of hashers from `new(seed)` on, each one write after the one
before it (`Trace`). Every action but the writes moves a thread to a hasher that is
made already (`HistoryMove`); a write adds an element to the sequence (`MadeByWrite`).
What is left is about two sequences whose writes, counted from the last, have the same
kind and the same length, or are both of at most 8 bytes (`AlikeLogs`):
- `Peel`: equal accumulators after two such writes come from equal accumulators before
  them, by the same data. Every class of lengths leaves marks in the two factors of
  its fold: keys of the default function, secrets of the AES function. So equal
  folds are of one class, and `SplitFold` tells which factor is which. Inside a class
  the accumulator has other tags than the bits of data and length, and xors of parts
  that have no atom in common give the parts back (`SplitXor`). Bits of data and length
  do share atoms: for equal lengths, what is xored to both sides cancels (`Cancel`); up to
  8 bytes the second word is the length alone. What remains is that a word, or two, of
  overlapping loads give each byte back at some place, class by class (`Words16Tell`,
  `OffsetsTell`).
- 17 to 64 bytes of the default function keep the accumulator only as an operand
  of the last product, whose high half ends up in the first word of the cross, with
  a key that sets it apart. The AES function chains up to three chunks in the
  accumulator, which are taken off one by one.
- Beyond 64 bytes the words that the lanes are merged to are terms over the whole string
  (that each of its bytes gets there is what the kernel modules are about), so what is
  proved is that the folds after them, the length and the accumulator do not lose them.
- `TracesPeel` takes the writes off from the end. As an accumulator after a write is
  a fold and the first one is none (`Base`), both sequences are at their
  start at once. `TracesEqual` is the way back.
  The induction is over sets of numbers (`SetInduction`, from the library's
  pigeonhole principle), as no theorem here may take an operator.
`finish` returns the accumulator, so that is the digest. TLC cannot
enumerate the sequences of `Made`; it checked both properties, which
HistoryInv implies.

*MulHalves.* The product of two digits leaves room for two more digits in a word,
so `mid` does not overflow (`DigitProduct`); of `mid * H` only the lower digit
stays, and its upper digit goes to `hi`. The three columns add up to the product, and
as that is below the square of a word, `hi` cannot overflow.

The inductive invariants but HistoryInv were checked with TLC as they stand, on the bounds of
the runs, before they were proved.

## 5. Model-checked only

- UpdateReturns, EveryInputStored, NewReturns and the fairness of
  ImplementsIncrementalHash: liveness is out of the prover's reach here.
- PureCalls: ReadsExactlyInput, ZeroOperandKeepsInput, PortsAgree, RoundsAgree. Their
  inputs are finite up to 64 bytes, and the run takes them all; rounds and steps are
  terms, so that one evaluation is about every value. Only lengths beyond 64 are a
  sample, one on each side of every regime. `Reads` is RECURSIVE, which a module
  with a theorem may not reach.

## 6. Abstractions

- Sums, products, S-box and `xt` are uninterpreted, and constants are names. Two
  terms that differ may be equal numbers: the models say which inputs a result is a
  function of and in what way, not how well it mixes.
- In LaneKernels and LaneStream a stripe is one unit; StripeStep is why: every
  loop over the registers of a stripe treats its words alike. In AesKernels
  and AesStream lanes are the sequences of their blocks, and AesClosing is what
  follows them.
- The secrets of the AES short path are atoms over the mixed seed: rotation,
  constant and top bit are not looked at.
- `ZeroOperandKeepsInput` makes one operand zero at a time. Two at once, in
  different pairs, lose what both lose alone; both of one pair make that pair zero.
- A zero operand is chosen for its pair, wherever the same bytes are loaded again by
  another pair: some choices are not inputs, none of the inputs is left out.
- `OnceLock` and the standard `RandomState` are external: one initialiser runs,
  others wait, two draws differ.
- What a digest of a hasher does not tell, the models show, and the properties leave it
  out. The length of a write of 9 bytes or more is xored to data: nine bytes
  `x, 1, 0, ...` fold like their first eight (1 ^ 9 = 8), and writes of 16 and 8
  bytes can fold like 8 and 16 (run hashers_cuts). A narrow integer is extended with zeros
  and may be a write of bytes (default function: `write_u8(0)` and `write(&[0])`) or one of
  another width (AES function: `write_u8(5)` and `write_u64(5)` are one call). So
  DigestTellsData compares writes of the same kinds and lengths, and DigestTellsCuts
  strings of up to 8 bytes, where the length is alone in its word.
- Constants, and what a product makes, are names that no data equals. A second word of
  `KS[1] ^ len` makes a factor of the product 0, and the write loses its other word and
  the accumulator; so does, in the AES function, an integer that equals the accumulator.
  That is one word in 2^64, and outside of both properties. `ZeroOperandKeepsInput` is about the products that
  the code protects from this.
- A batch kernel in AesBatch is its contract; AesKernels is where the contract
  comes from. A lane in AesKernels is the sequence of its blocks in every form,
  which DiffLane and ShiftedLane justify.
- Prefetches, alignment and inlining are left out.

## 7. Not modelled

- `arm.rs` of the default function. Its header and `README.md` count it as a
  backend, compile-checked; but `dispatch.rs` names `hash64` and `hash128`, which it
  has not, and its `finish` uses a `ks` that is no parameter and returns a `Merged`
  where the table wants a `u128`. So no aarch64 build without `force-fallback` exists,
  and BackendCache leaves that one out. The AES NEON kernel is modelled all the same.
- The values of the constants, FFI and wasm bindings (one-line wrappers), bench,
  fuzz and tools.

## 8. Plan

All components that carry the hash have their module, and the safety invariants of the
streams, the kernels, the batch, the cache, the seed, the hashers and the product are
theorems. What is left: PortsAgree for every length.
