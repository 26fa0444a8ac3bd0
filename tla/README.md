# TLA+ specifications of go-hqc

go-hqc implements HQC, a code-based key encapsulation mechanism, in Go.  The
modules here specify the parts of it whose correctness is a matter of order,
boundaries and interleavings; TLC checks them on small instances, and TLAPS
proves the central properties for every value of the constants.

## Inventory

| Part | State it keeps | Operations | What is hard | What makes it correct |
|---|---|---|---|---|
| Key object (`hqc_internal.go`, `hqc128.go`, `hqc192.go`, `hqc256.go`) | six secret buffers, the public half, `destroyed`, `mu` | Decapsulate, Bytes, Seed, Destroy, and the lock-free methods of the encapsulation key | many goroutines, one of them destroying; early returns under a lock; Go's writer preference | results come from an intact key; a destroyed key refuses; locks are returned; every call ends |
| Zeroing of buffers (`hqc_internal.go`, `hqc_pke.go`, `zero.go`, and the buffers of everything they call) | buffers of one call, its deferred functions | generateKey, parse, encapsulate, decapsulate, destroy | refusals half way, panics of the random source, arrays nothing zeroes | which secrets a call leaves besides the fields of a key |
| KEM (`hqc_internal.go`) | stored key, parsed key, ciphertexts | key generation, parsing, regeneration, encapsulation, decapsulation with implicit rejection | damaged keys, changed ciphertexts, bits the arithmetic ignores, the order of XOF reads | agreement; no false agreement; a reloaded key answers as before |
| PKE (`hqc_pke.go`) | none | keygen, encrypt, decrypt | truncation and resizing at the same places on both sides | decryption inverts encryption while the noise overwhelms at most delta symbols |
| Samplers (`vector.go`) | support under construction | rejection sampler, fixed-length sampler | duplicates, the last multiple of n, termination | exact weight; no favoured support; an end |
| Words and vectors (`vector.go`, `parsing.go`) | none | branch-free comparison, reduction, masks, serialization | word and byte boundaries, wrap-around | equal to their definitions |
| Multiplication (`gf2x.go`) | output, workspace | baseMul, karatsuba, polyReduce, polyMul | slices that overlap, odd sizes, the size of the workspace | product modulo X^n - 1 |
| Parameters (`params.go`) | three sets of constants, sizes derived from them | initDerived, validateParams | relations the other parts rest on, not all of them validated | the relations hold |
| GF(2^8) (`gf.go`, `tables.go`) | none, two tables | product, square, inverse | operator precedence, branch-free windows, tables typed in | equal to polynomials modulo 0x11D |
| Additive FFT (`fft.go`) | arrays of one call | evaluation at all elements, retrieval of roots | hand-written radix cases, a recursion that depends on the parameter set, the places of 0 and 1 | w holds the values of sigma; errorPoly marks its roots |
| Reed-Solomon code (`reed_solomon.go`) | syndromes, sigma and its predecessor, degrees | encode; six stages of decoding | degree bookkeeping on 16 bits, words beyond the radius | corrects up to delta symbols and never changes more |
| Reed-Muller code (`reed_muller.go`), joined to it by `code.go` | counts of ones, their transform | encode, decode a symbol | 16-bit wrap-around, the bias, ties | a nearest codeword |
| Seed expander (`seedexpander.go`, `internal/shake`) | sponge | Read, Release | consumed in order | a fixed stream for each seed |
| Upstream watch (`tools/check-upstream`, `.github/workflows/check-upstream.yml`) | upstream's tags and branch, open issues | two requests, an exit code, a conditional issue | requests and steps that fail, a page of tags that is full, overlapping runs | a change leads to an issue; errors are reported |
| Test helpers, generators of vectors, examples | none | | straight-line input and output | not modelled |

The parts call one another downwards only: the API methods call the KEM, which
calls the PKE, which calls samplers, multiplication, code and serialization.
The one object shared between goroutines is the key; the one interaction with
the outside in the library is the random source.

## Modules

**RWMutex, KeyLifecycle, DestroyableKey.**  `RWMutex` is Go's `sync.RWMutex` as
the key uses it (external code): a writer first announces itself, new readers
park behind it, and Unlock lets all parked readers in.  `KeyLifecycle` gives each
goroutine a program counter and splits each method of the key at every point
where another goroutine can act: taking the lock, testing `destroyed`, testing
the length, and the beginning and the end of every access to a buffer.  A copy
out of a buffer, or its zeroing, is two steps, so a read that overlaps a zeroing
shows as content `"torn"`.  Reads and writes of `destroyed` are accesses as well:
`NoDataRace` forbids that any access overlaps a write to the same place.  `ReadLock` to `ReadUnlock` are `decapsulate` and the
bodies of `Bytes` and `Seed`; `WriteLock` to `WriteUnlock` are `destroy`; the
methods of the encapsulation key take no lock.  `ended` and `late` are history
variables.  `DestroyableKey` is the abstract specification: a call takes effect in
one atomic step between its invocation and its return, on a key that is alive or
destroyed for good.  `KeyLifecycle` implements it with `alive <- ~destroyed` and a
mapping under which the test of `destroyed` made under the lock, or `destroy`'s
assignment, is the atomic step.

**SecretBuffers.**  Each function is the list of what it does to its secret
buffers: draw randomness, fill, register a deferred wipe, wipe, possibly refuse.
The actions interpret these lists.  A draw may fail after some bytes or at once;
the panic then runs only what was deferred.  Lists
call one another as the functions do, down to the samplers, the multiplication and
the decoder of the code.  Scalars, the tables of multiples on the stack of
`baseMul` and `gfCarrylessMul`, arrays returned by value and the state inside the hash
library are left out.  `big` tells the parameter sets whose
FFT goes through `radixBig`.

**Pke, Kem.**  A polynomial is the set of its exponents.  `Pke` has the three
functions of `hqc_pke.go` over a ring of dimension `n` and any concatenated code, decoded as
`codeDecode` does it: each of the n1 blocks of a word becomes a symbol whose word is nearest to it
(`rmDecode`), whatever the ties give, and the outer decoder returns the message when at most `delta`
symbols are wrong and something fixed but arbitrary otherwise (`rsDecode`).  `Kem` follows a key from generation to
use: it is stored, one of its fields may be damaged, it is parsed again or
regenerated from its seed, and it decapsulates the peer's ciphertext, intact or
changed.  Hashes are ideal: G, H and J return their inputs, and what the seed
expander returns on a seed is chosen once, at the first question, and kept.  The seeds
derived from one `seed_kem` bear its name.  Byte fields of n bits have `Pad` unused
bits, which `load8Arr` reads and the arithmetic masks.

**Words, Vectors, VectorLaws.**  `Words` has the branch-free comparisons and reductions on words
modulo any even `Modulus`.  `Vectors` has the operations on arrays of words (a word is
the set of its bits) and the two conversions of `parsing.go`.  The two comparisons are the
arithmetic of the code on such words: `Subtract` borrows from bit to bit and wraps around,
`DropLow` shifts right.  `VectorLaws` puts two vectors and
a length to these operations, each choice an initial state, and states what they mean for the
sets of positions that the arrays stand for.

**SamplerEncrypt, SamplerKeygen.**  The two samplers, one step for each turn of a
loop, with the random words or candidates as nondeterministic inputs.

**Gf2x, Karatsuba, ProductLaws.**  `Gf2x` has `baseMul` (with its table of multiples and the
separate treatment of the top bits) and `polyReduce`.  `Karatsuba` runs the recursion
on one memory in which a slice is the address where it begins, so that the overlap
of `o` and `tmp2`, and the use of the workspace by all levels, are those of the code.
The recursions, that of the table of multiples and that of `karatsuba` itself, are recursive
functions; the latter takes a size to a function on calls (a memory and the five addresses).
`ProductLaws` puts two factors of any length to these operations, each choice an initial state, and
states what the results are as polynomials, sets of exponents.

**Bytes, Gf256, Params.**  `Bytes` represents a word, and an element of the field, by the
set of its one bits.  `Gf256` has `gf.go` function by function and the numbers of the two tables;
`products` and `inverses` are the values of `gfMul` and `gfInverse`, computed once from the
branch-free code.  `Params` has the three parameter sets, what `initDerived` computes and what
`validateParams` tests, and the sizes the API files declare.

**AdditiveFFT.**  `radix` with its four hand-written cases and `radixBig`, the twist, `fftRec`
with its shortcut for constant halves, `fft` and `fftRetrieveErrorPoly`.  `radix` and
`fftRec` are RECURSIVE operators: this module is for TLC only.

**ErrorLocator, ReedSolomon.**  `ErrorLocator` is the loop of `computeElp` as a state machine,
one action for a turn: `ElpBegin` is what is set before the loop, `ElpStep` a turn,
`ElpLast` the turn that leaves the loop after `degSigma`.  Degrees are words that wrap, so
rho = -1 is the largest word.  The other functions of `reed_solomon.go` are operators; masks
are conditions, an array of 0 and 1 is the set of the places of 1.

**ReedMuller, SymbolDecoder, Code.**  `ReedMuller` encodes and decodes one symbol, on words modulo
`Modulus`.  `SymbolDecoder` is the first stage of `codeDecode` by itself, on any word received,
and `Code` all of it: each stage is an action that finds in the variables what
the stage before left in the buffers, and `ErrorLocator`'s turns are steps of the stage
`computeElp`.

**UpstreamWatch.**  The program (two requests, each of which may fail, and an exit
code) and the workflow around it (run every week or by hand, list issues, open one),
while upstream pushes tags and maintainers close issues.  The program sees `page`, the tags
GitLab lists first, up to `PerPage` of them (20 in the code).  `SetupFails` is a checkout or a
setup-go that fails, after which the last step runs too.

The `MC` modules give the constants their values.  `MCArithmetic` (for `VectorLaws` and
`ProductLaws`) and `MCField` (for `Gf256`, `AdditiveFFT` and `Params`) enumerate operands as
initial states; `MCCode` enumerates words received with errors, and keeps what was
sent.

Definitions that a comment calls a mutant are wrong variants of the definition that
follows.  No specification uses them: each shows that a property can fail, when
substituted for the definition it varies.

## What the runs check

| Run | Configuration | States | Properties |
|---|---|---|---|
| key | `Key.cfg` | 100 021 | no torn result, no data race, refusal after Destroy, survival of the public key, all or nothing, locks returned, every call returns, implements `DestroyableKey` |
| arithmetic | `Arithmetic.cfg` | 87 812 | comparisons, changes of length, bytes and back, product in place, product modulo X^n - 1, workspace |
| field | `Field.cfg` | 1 267 | the field and its tables, the FFT, the parameter sets |
| code | `Code.cfg` | 79 912 | degrees on words, key equation, nearest symbol, bounded distance |
| sampler_encrypt | `SamplerEncrypt.cfg` | 1 111 | exact weight, no favoured support |
| sampler_keygen | `SamplerKeygen.cfg` | 6 634 | exact weight, equal chances, termination |
| kem | `Kem.cfg` | 227 850 | generation succeeds, agreement, no false agreement, binding, same answers after a reload |
| secret_buffers | `SecretBuffers.cfg` | 184 | what calls leave behind, whole key or none |
| watch | `Watch.cfg` | 17 474 | changes seen are reported, issues do not pile up, a change leads to an issue |

Three runs end in a counterexample, each to a sentence of the repository:

* **kem_seed** (`SeedDerivesKey`).  `errors.go` and `hqc128.go` say that parsing checks
  the public key against the seed.  The check covers `seed_dk`, from which x and y
  are regenerated; `seed_kem`, which `Seed()` returns, and `sigma` are not checked.  A
  key whose `seed_kem` is damaged loads, and its `Seed()` regenerates another key.
* **secret_return** (`IntermediatesZeroed`).  `doc.go` says that all secret intermediate
  buffers are zeroed.  `encapsulate` leaves the slice in which `hashG` receives the shared
  secret and the encryption seed.  `CallsLeaveNothing` lists everything else that is left:
  the slices of `hashI` and `hashJ`; `sk`, in which `generateKey` assembles the secret key and
  of which the parsed key keeps a copy that `Destroy` zeroes; and the decoder's arrays, `expanded`
  and `transform` of `rmDecode`, `w` of `computeRoots` and, for HQC-192 and HQC-256, the
  six of `radixBig`.
* **watch_error** (`ErrorExitsTwo`).  `check-upstream` promises exit code 2 on an API error,
  but passes over a status other than 200 on the branch request.

More divergences were seen and have no run:

* `encapsulate` and `generateKey` panic on a failing reader before their zeroing is
  deferred, although `doc.go` says it survives panics (`CallsLeaveNothing` excepts them).
* Tags are compared as strings, so v10.0.0 is not newer than v5.0.0; and the
  workflow opens its issue about new tags on any failure, network errors included.
* The comment on `computeRoots` says that errorPoly[i] is 1 if alpha^i is a root; it is 1 if
  alpha^-i is, as `FftEvaluates` states and the rest of the decoder needs.
* `trailingZeroBitsCount` counts no more than 14 zeroes; its callers never have more.
* `validateParams` does not test n1 - k = g - 1, n2 = 128 * multiplicity, n1 <= 255 or the
  generator polynomial, without which encoder and decoder would disagree;
  `ParametersFit` does.

### Bounds, and why they are enough

* *Goroutines*: three.  A violation of the key's properties needs a reader and a writer,
  or two writers; the third gives a reader that parks behind a writer while another
  holds the lock.  `Key.cfg` calls four of the six methods: `Seed` and `PublicBytes` take the
  steps of `Bytes` and `Encapsulate`.  The proofs cover any number of goroutines and all
  methods.
* *Words*: four bits in two bytes; arrays of two words.  This has every
  boundary the code tests: a length below, at and above a byte and a word.
* *Samplers*: `n` is not a multiple of the word, `Candidates` not a multiple of `n`, and
  weights make several duplicates possible.  In `sampler_keygen` the Barrett quotient is
  short for some candidates.
* *Kem*: ring dimension 11, three symbols of three bits, one padding bit,
  two seeds, two values of every hash output that matter.  Inner and outer code repeat a bit three
  times, so one wrong bit in each symbol, and one symbol, can be corrected.  The streams give noise
  that overwhelms no symbol, one, and more; without the premise on it `Agreement` is violated.
  `Flips` are the positions in which a ciphertext or public key may arrive inverted: one that
  u and v share, one of the last symbol and the padding bit.  `MaxReloads = 1` and `MaxDecaps = 2`: the properties
  relate at most two decapsulations.  Seeds and salts are symmetric: no
  operator chooses among them.
* *Karatsuba*: words of four bits with chunks of two, sizes 1 to 5 (5, 3, 2, 1 is odd at
  two levels, 4 even at both).  One-word operands are exhaustive; longer ones have few ones,
  or all, which exercises every position because the code only moves and
  adds words.  The workspace is measured for every size up to 1024; the code's
  are 277, 561 and 901.
* *Field*: no bound.  Every pair of elements is multiplied; the FFT has the sizes of the three
  parameter sets and all 256 points.  Its input is every polynomial constant + 2^i * X^d up to
  degree delta: the FFT is additive, so these basis polynomials stand for all.
* *Code*: a small code with six symbols, two of which can be corrected, and the three real
  ones.  Small: every single error, every pair of errors up to a common factor (the code
  and each stage are linear in the errors up to the locator, which a common factor does
  not change), and triples, which are beyond the radius.  Bits: with three and five
  copies, symbols are pushed towards every other symbol to the middle between both, one
  bit before it and one beyond.  Real: delta and delta + 1 wrong symbols at the
  beginning or the end, the others one bit short of being wrong.
* *Watch*: two overlapping runs and two tags, one of them invisible to the
  comparison of strings, on a page of one tag: the second tag crowds the first off it.

Configurations that set `CHECK_DEADLOCK FALSE` do so because the algorithm ends, or the
bound on decapsulations is reached.

### Fairness

* `KeyLifecycle`: weak fairness of each goroutine's steps (Go's scheduler is preemptive),
  strong fairness of announcing a writer (the inner mutex of `sync.RWMutex` has a
  starvation mode).  No client is obliged to call.
* `SamplerKeygen`: some acceptable candidate is drawn eventually if there is one.
  This is what a stream that does not repeat itself gives; the property is
  that there always is one until the end.
* `UpstreamWatch`: the schedule begins runs (whose setup may fail), a run that started ends,
  and a step or a service that is asked again and again succeeds sometimes.

## What is proved

TLAPS checks the following for every value of the constants that satisfies the named
assumptions.

* `KeyLifecycleProofs`: the six safety properties of the run `key` and the types, for any set
  of goroutines and any methods called.  None of them is inductive.  The
  invariant `IInv` adds to the types: `Placement` (which program counters, loop positions
  and results go with which method), `LockInv` (who is in a critical section holds the lock
  in the right mode, and a writer past `WriteEnter` excludes readers), `BufferInv` (the
  contents of each buffer as a function of `destroyed` and of the position of the
  goroutine that zeroes), `AnswerInv` (what has been read so far is intact) and `PastInv`
  (a Destroy that returned left the flag set).  Each action preserves each part.
  `KeyIsAtomic` is the refinement of `DestroyableKey`.  The mapping computes a call's phase and
  result from the program counter and the flag; `InvokedInv` says which calls are under way
  where.  Invocation, the atomic step and the return each map to the action of the same name,
  for each method and each way it can be refused; every other step of a goroutine, lock
  operations and accesses to buffers, maps to a stutter.
* `KemProofs`: the six properties of the run `kem`, for any ring dimension, any inner code with
  nearest decoding, any outer code that corrects `delta` symbols, any padding and any outcome of the hash functions.
  * `DecryptionReturnsMessage` is about `Pke`.  Addition of polynomials is symmetric difference,
    and a coefficient of a product is the parity of a cardinality; that products commute, associate
    and distribute is proved from the parity of the size of a symmetric difference, by a
    minimal counterexample, since the library's induction on finite sets is not to be had.  With the
    equation of the keys, v - u*y is then the code word plus the noise.  A block with at most
    `symbolRadius` bits of noise, fewer than half the distance of any two symbols, is decoded to the
    symbol that was sent, by the triangle inequality;
    so the symbols that come out wrong are among those that the noise overwhelms
    (`overwhelmed`), and the outer code corrects `delta` of them.
  * The rest is about `Kem`.  None of `Agreement`, `NoFalseAgreement`, `Binding` or
    `ReloadsAnswerAlike` is inductive.  `IInv` adds: `OracleInv` (the expander's answers stay what
    they are), `KeyInv` (a key in use satisfies s = x + y*h for the vectors it holds, whichever
    of its fields was damaged), `SentInv` (the peer's ciphertext is the encryption that its message
    and salt determine) and `LogInv` (each secret that was returned is accepted, for a seed theta that
    `Seals` this very ciphertext, or else is J's answer on sigma and the ciphertext).  An accepted secret names
    its theta, and theta determines the ciphertext: this gives `Binding` and `NoFalseAgreement`.  For
    `SameKeySameSecret`, which is `ReloadsAnswerAlike`: what a key opens in a ciphertext is a function of
    y, x and the public key, which reloads keep, so it accepts after as before; sigma enters only what
    is rejected.
* `UpstreamWatchProofs`: types, `ChangeSeenIsReported` and `NoPileUp`, for any finite set of runs
  that overlap.  `FaithfulInv` says what `changed` and the exit code are worth at each point of
  the program (before the tags are read nothing was met; before the branch, a newer tag that was met
  has set `changed`); a run that goes on to its verdict with `changed` set ends with 1.  `NoPileUp` counts the issues and the runs about to open one
  together: listing finds no issue, so the sum is at most the runs that are there.
* `DecoderProofs`:
  * `DegreesAreExact`.  The invariant bounds the degrees: before turn mu, the degree of
    sigma is at most mu, rho is below mu, and the degree of sigma_rho is at most rho (0 when rho is -1); so
    mu - rho + degSigmaP is at most mu + 1, no difference of two degrees reaches the top bit
    when 4 * delta < Modulus, and a top bit is a negative difference.  The values in sigma do not matter.
  * `RegisterGeneratesSyndromes`, which is `KeyEquation`: Berlekamp's algorithm is correct as
    `computeElp` writes it, without branches and with the arrays cut at delta, for every delta
    below 2^fft and all syndromes.  `KeyEquation` is not inductive.  `CoefficientInv` adds to it:
    `ArrayInv` (elements of the field in arrays of the declared sizes, X * sigma_rho without
    constant term, dP not zero), the shape of sigma (constant 1, zero above its degree) and
    `PreviousInv`: xSigmaP, as a register of length mu - rho + deg(sigma_rho), misses syndrome mu
    by dP and none before it, unless rho is still -1, when it is longer than all the syndromes read.
    What a register makes of the syndromes is linear in its coefficients
    (`RegisterCorrected`), so sigma + dd * xSigmaP misses mu by d + (d / dP) * dP = 0 and
    the earlier ones by 0; a lengthened register makes sigma the next xSigmaP, moved up
    by one place (`RegisterShifted`).  The sum `newD` starts at 1 and ends at `limit`
    rather than at the degree, which makes no difference (`RegisterFromOne`).  Sums are
    decided bit by bit, by the parity of a cardinality.
    The laws of the field are `FieldAssumption`, about the operators of `Gf256`: it contains no
    constant and TLC decides it in the run `code`.  It states associativity and distributivity for
    a monomial as one of the three factors; the lemmas carry them to all elements, which are
    sums of monomials (`BitByBit`).
  * `PeakSearchIsExact`.  Counts are at most the multiplicity, each of seven
    passes at most doubles the magnitude, and a word holds an integer of either sign whose
    magnitude is below half the modulus; so the wrapped transform, less its bias, holds the
    integers of the same transform, `absolute` their magnitudes, and `exceeds` compares
    these, for every word received when 384 * multiplicity < Modulus (the code: 5 and 2^16).
  * `SymbolSpecNearest`, which is `NearestSymbol`: decoding to a nearest codeword, for every word
    received.  The bits of a symbol's copies are cells.  After k passes, entry i is the number of
    ones among the cells whose position agrees with i in the bits still to be summed, each counted
    with the sign (-1)^(number of bits that the position and the k bits written have in common): the
    butterfly joins the two halves and `FlipsNext` moves the sign (`PassTransforms`).  After seven
    passes the sign at i is the bit of codeword i (`CodewordBits`), every codeword but the first
    is balanced (`CodewordsBalanced`, from the transform of the symbol of ones), and the
    distance to codeword i, or to its complement, is 64 * multiplicity more, or less, the entry
    (`DistanceIsValue`).  So the largest magnitude with its sign is the smallest distance;
    that the scan finds it is an induction over its 128 turns (`FindPeaksFinds`).
* `VectorsProofs`: `compareU32` is equality, `condSub` one conditional subtraction, and
  `barrettReduceN` is the remainder, when `2 * n <= Modulus` and `nMu = Modulus \div n`
  (the argument bounds the quotient within one of the true one); `singleBitMask` is a singleton, and
  `writeSupport` sets exactly the bits of the support, hence as many as there are different positions.
* `ArithmeticProofs`: the three properties of `VectorLaws` (for the comparisons: what borrows make
  of r - 1 and 0 - acc, and which bit the shift leaves), that `polyReduce` is the remainder
  modulo X^n - 1 (`ReductionFolds`), and the three properties of `ProductLaws`.  A position is a word and a bit of it, ordered
  lexicographically (`LexicographicOrder`), so cutting words at q and bits at r is cutting positions at
  one number.  Bytes are taken one level further down: a bit of a word is a byte of it and a bit
  of the byte, and the last word is loaded from as many bytes as are left of it.  In the fold, bit
  r of word q collects exactly one bit: from the word that is shifted right when r + n % Width
  stays inside a word, and from the next one, shifted left, when it does not.
  * `WordProduct`: `baseMul` is the product of two words.  A coefficient of a product is the
    parity of the pairs of terms that meet at it (`TimesCoefficient`), which gives
    distributivity, commutativity and shifts.  The table holds the multiples of b without its top bits
    (`MultiplesAre`): an even entry is twice an earlier one and loses nothing, since a chunk
    and what is left of b fit in a word.  The chunks of a add up to the product by a
    (`ChunksSum`), chunk by chunk, and the top bits of b are shifts of a.
  * `KaratsubaMultiplies`, which is `KaratsubaIsProduct`.  The claim that is inductive is about any
    call at all, `Multiplies(size)`: if the slices of the call `Fits` (the operands may coincide,
    but neither meets the output; the workspace is above all of them and has 8 * size - 8 words), then
    afterwards the output is the product of the operands as they were before, and nothing below
    the workspace has changed except the output (`Effect`).  The three calls of a level fit again
    (`CallsFit`); so the second one leaves the low product alone, and both leave the operands to
    `karatsubaAdd1`.  `SumSpan` and `MixedSpan` say what the two loops make of the
    polynomials that the slices hold, with an odd size's last word, and with the high product
    read before the loop that overwrites it; `ThreeProducts` is Karatsuba's identity.
    `LevelMultiplies` puts this together and `EverySizeMultiplies` is the complete induction.  That
    `karatsuba` satisfies its own recursive definition is proved too, by tables of growing
    length that agree where both are defined (`TableExists`, `TablesAgree`, `KaratsubaIs`).
  * `PolyMulMultiplies`, which is `PolyMulIsModular`: from the former and `ReductionFolds`, for
    every n that is no multiple of the word, and operands that use all bits of their last word.
  * `WorkspaceIsEnough`, which is `WorkspaceSuffices`: a level takes 4 * sizeL words, and
    12 * sizeL <= 8 * size, so `used` stays at or below 8 * size - 8.
* `SamplerEncryptProofs`: types, exact weight and `NoSupportFavoured`.  The invariant says that positions above
  the scan differ pairwise and that each is at least its index: a position replaced
  by its index i is therefore below or equal to later ones, and equal to none,
  since the later ones are at least i + 1.
  `SupportsEquallyLikely` counts, for every n and weight, the draws that lead to a set A of `weight`
  positions: there are weight! of them.  By induction on the number m of draws from an index k on, m! of
  these lead to any set A of m positions at or above k (`LeadingCounted`): the first draw can be any
  element of A, and each choice leaves one set for the others to lead to, A without k when k is in A
  (a position was repeated, or k itself drawn) and A without that element otherwise (`FirstOfLeading`,
  `FirstPutOn`); so the draws split into m equal parts (`EqualParts`).  `OutcomeIsResolved` ties this
  to the scan.  The recursive functions `Factorial` and `outcome` are shown to exist,
  table by table.
* `SamplerKeygenProofs`: types, exact weight, and that every free position is the outcome
  of exactly `Candidates \div n` candidates, by a bijection with the multiples of n.

Assumptions on constants are named `...Assumption` in the module that declares the
constants; those on sizes follow from `validateParams` and from n < 2^16 < 2^24 < 2^32
(`ParamSetsAssumption` wants 4 * delta below 2^16 and delta below 2^fft: delta is at most 29, fft is 4 or 5;
`SymbolsAssumption` wants 384 * multiplicity below 2^16: multiplicity is 3 or 5).

The theorems of `ArithmeticProofs` on vectors are about `VectorSpec`, whose initial states are all pairs
of vectors with the second one's ones bounded by `SecondWeight`, any number, and all lengths; the run
`arithmetic` has the same initial states.  Those on products are about `ProductSpec`, whose initial states are
all pairs of factors of any one length; those of the run are some of them, up to `MaxSize` words.
`Gf2xAssumption` wants the chunk to divide the word and, as `validateParams` does, n to be no multiple
of the word; `SizesAssumption` says that sizes are numbers.  `KemAssumption` says that the
expander's outputs are polynomials of the ring; `WatchAssumption` that finitely many runs
overlap.

Only model-checked:

* liveness (`EveryCallReturns`, `Terminates`, `ChangeLeadsToIssue`), which needs ENABLED;
* `FftEvaluates`: `radix` and `fftRec` are RECURSIVE operators, which the provers cannot reason
  about; the field is fixed and the run covers a basis of all inputs;
* `BoundedDistance`, which needs the roots of polynomials over the field, and rests on the FFT;
* `SecretBuffers` (`CallsLeaveNothing`, `KeyWholeOrNone`), which has no constant: its state space is finite
  and TLC explores all of it.  The tables (`FieldIsExact`) and the parameter sets
  (`ParametersFit`) are finite too, and checked whole.

## What is not modelled

SHA-3 and SHAKE (a library; ideal here), the constant-time property (a matter of
instructions, not of states), memory reclamation, test helpers, generators of test vectors and
examples.  `Pke` takes any code that decodes in two levels, as the program's does.  What it assumes of
the inner level, a nearest symbol for every block, is proved of `ReedMuller` (`SymbolSpecNearest`).  What it
assumes of the outer one, `delta` wrong symbols corrected, is checked of `ReedSolomon` by the run `code`
(`BoundedDistance`) for the errors listed under its bounds, and not proved.  The levels and the ring are not
checked in one state space: the smallest real code has 17 664 bits.  Ties between symbols are decided by
`findPeaks` in `ReedMuller` and by any choice in `Pke`.  That noise overwhelms more than `delta` symbols
only with negligible probability is a premise of the scheme and not a property of the code.

No property covers the two panicking calls (m left in memory when the second read fails).  The assignments
of a radix case of the FFT are LET definitions, whose order is that of the values they depend on.

## Plan

What would come next, in this order:

1. `radix` and `fftRec` as recursive functions, as in `Karatsuba`, so that `FftEvaluates` can be proved
   by the same induction on tables.
2. Roots of polynomials over the field: a polynomial of degree at most `delta` has no more roots, from
   which `BoundedDistance` follows with `RegisterGeneratesSyndromes`.
3. With both, `SymbolSpecNearest` and `DecryptionReturnsMessage`, one specification in which `Pke` uses the
   code of the program.
