# Verification of SCIL

SCIL (Scientific Compression Interface Library) compresses arrays of numbers
with a *chain* of algorithms, chosen by the user or by the library within the
accuracy the user asks for, and restores them. This directory holds TLA+
modules that model the library's core, the TLC configurations that check them
on small instances, and TLAPS proofs for every instance.

    tlc -workers 2 -config ScilPipeline.cfg MCScilPipeline.tla
    tlapm ScilPipelineProofs.tla

Paths below are relative to the repository.

## The system

The library is sequential: no threads, no locks, no signal handlers. What makes
it hard is memory that is used for several things in turn, formats that are
read from the end, arithmetic at the edges of a type, and state that outlives a
call (a context, its chain and dictionary, the entries of the configuration
file, the caller's buffers, the options of a plugin, files).

| Component | State | Operations | Hard behaviour | What makes it correct |
|---|---|---|---|---|
| Chain execution (`src/src/scil.c`) | buffers `source`, `dest`, scratch memory; `remaining_compressors`, `out_size`, `header` | `scil_compress`, `scil_decompress`, `pick_buffer` | every stage has another source and destination; the trailer of ids and headers moves with the data and is read from the right | what is stored describes itself; decompression undoes the stages in reverse and gives the data back, or reports an error; no stage works in place |
| Chain parser (`internal/scil-chain.c`, `internal/scil-cca.h`) | the chain structure of a context or of a configuration entry | `scilI_create_chain`, `scilI_chain_is_applicable` | memory that is only partly reset; failure half-way; fixed arrays | accepts exactly the chains the pipeline can walk; the walk is the list asked for |
| Context (`prepare/scil-context.c`) | hints, `lossless_compression_needed`, chain, dictionary | create, destroy | sentinels (`IGNORE` 0, `FINEST` -1) in arithmetic; error paths | the finest accuracy asked for is kept; an accepted chain supports the datatype |
| Chooser and configuration (`compression/scil-algo-chooser.c`) | configuration entries, the lossless list; the decision in the context | initialize (once per process), execute (once per context) | entries reused after a rejected line; a decision made once; environment | lossless is known; a decision fits the data it is used on |
| Buffer arithmetic (`scil.c`, `prepare/scil-dims.c`) | the layout of `dest` and of the scratch memory | as chain execution | sizes that grow from stage to stage, limits, empty arrays | live data is never overwritten; the blocks are large enough |
| Dictionary (`internal/scil-dict.c`) | buckets of linked elements | create, destroy, get, contains, put, remove | relinking after any history; allocation failure between two steps | behaves as a map, follows no pointer to a freed element, always returns |
| Bit packing (`scil-swager.c`) | the packed buffer, the bit index | `scil_swage`, `scil_unswage` | values across several bytes, values that end at one | unpacking gives the values back; what is packed stays; room behind |
| Quantizer and its algorithms (`scil-quantizer.dtype.c`, `algo/algo-{abstol,allquant,quantize,swage}.dtype.c`) | `bits_per_value` in the dictionary | quantize, unquantize, their wrappers | casts, overflow, rounding; a value handed over through the dictionary | error within the tolerance; a code fits the width the header names |
| Significant bits (`algo/algo-sigbits.dtype.c`) | none | compress, decompress | sentinels, a table of masks | sign, exponent and the bits asked for come back |
| Grid iteration (`util/scil-util.c`) | position | `scilG_iter`, `scilG_data_pos` | carry between dimensions, empty ranges | every position of the range once, and none else |
| Pattern mutators (`pattern/basic-mutators.c`) | the array | repeater, interpolator | a dimension reads what the one before it wrote; ends of blocks | blocks are constant; nothing raw is left between |
| Validation (`scil.c`, `scil-dtypes-int.dtype.h`) | temporary buffer, accuracy | `scil_validate_compression`, `scil_determine_accuracy` | error exits, two tolerances in one measure, overflow | accepts what meets the hints; reports what it measured |
| Options (`scil-option.c`) | the option variables, shared by plugins | `scilO_parseOptions` | three calls on one command line; counting of required arguments | success only for what is written |
| Tool and file plugins (`tools/scil-compress.c`, `tools/plugins/`) | buffers and sizes of one run, files | read, compress, decompress, write | the next run reads what this one wrote; formats that know no size; partial writes | what a run compressed the next restores |
| Training data (`tools/scil-generate-chooser-data*.c`) | one record for all lines, an output stream | generate, measure, write | the record keeps what a failure left | a line is of one buffer and one compressor |
| Benchmark (`tools/scil-benchmark.c`) | `scil.conf` and its draft | measure, replace the file | death between two steps; another process reads | the file is always that of a whole run |
| HDF5 filter, other tools, codecs of libraries | | | | not modelled |

How they interact: the user (a tool) fills hints and creates a *context*, whose
chain is parsed at once when the hints force one. Otherwise `scil_compress`
calls the *chooser*, which parses a chain into the context the first time.
`scil_compress` then walks the places of the chain: each algorithm is called
through its function pointer for the datatype with the source and destination
`pick_buffer` names. `quantize` leaves the number of bits in the context's
*dictionary* for `swage`; both, like `abstol` and `sigbits`, pack with
`scil_swage`. `scil_decompress` gets no context: all it knows of the chain is in
the compressed buffer. The tools parse their options, call a file plugin, then
the library, then another plugin; the benchmark writes the file the chooser of a
later process reads.

## Modules

| Module | Content |
|---|---|
| `ScilAlgorithms` | the registry as a set of typed algorithms; what a well-formed chain is |
| `ScilChain` | `scilI_create_chain`, token by token, on memory that outlives it |
| `ScilChainProofs` | proofs about `ScilChain` |
| `ScilPipeline` | `scil_compress` and `scil_decompress`, stage by stage |
| `ScilPipelineProofs` | proofs about `ScilPipeline`, which implements `ScilCodec` |
| `ScilCodec` | the abstract specification of the two calls |
| `ScilContext` | contexts, their accuracy, their chain, and who decides it |
| `ScilContextProofs` | proofs about `ScilContext` |
| `ScilMap` | the abstract specification of the dictionary |
| `ScilDict` | the dictionary, element by element |
| `ScilDictProofs` | proofs about `ScilDict`, which implements `ScilMap` |
| `ScilArena` | where the buffers of both calls lie, and how many bytes each stage reads and writes |
| `ScilArenaProofs` | proofs about `ScilArena` |
| `ScilSwage` | the bit packer |
| `ScilSwageProofs` | proofs about `ScilSwage` |
| `ScilQuantize` | the quantizer and the four algorithms that use it |
| `ScilSigbits` | the compressor `sigbits` |
| `ScilValidate` | validation of a compression and the measurement of integers |
| `ScilGrid` | the iteration over an array |
| `ScilMutators` | repeater and interpolator |
| `ScilPowers` | the powers of two, for types of any width |
| `ScilOptions` | the command line |
| `ScilCsv` | the CSV plugin |
| `ScilTool` | `scil-compress`, its plugins and the files between its runs |
| `ScilStatistics` | the characteristics of training data |
| `ScilGenerator` | the programs that make training data |
| `ScilBenchmark` | `scil-benchmark` and the configuration file |
| `ScilPrograms` | `ScilOptions`, `ScilCsv`, `ScilTool`, `ScilGenerator` (both programs) and `ScilBenchmark`, one at a time |
| `ScilProgramsProofs` | proofs about the five of them |
| `ScilArrays` | `ScilQuantize`, `ScilSigbits`, `ScilValidate`, `ScilGrid`, `ScilMutators` and `ScilStatistics`, one at a time |
| `ScilArraysProofs` | proofs about the six of them |
| `MCScilPipeline`, `MCScilChain`, `MCScilContext`, `MCScilDict`, `MCScilArena`, `MCScilSwage`, `MCScilArrays`, `MCScilPrograms` | the instances TLC checks of the module of that name |

`ScilPrograms` and `ScilArrays` put components that do not meet side by side: the
first variable (`program`, `walk`) says which of them takes the steps, the others rest
in an initial state, so that the states are the sum and not the product. Their
properties are those of the instances, by the same names; some are conjunctions
of named parts (`QuantizedIsClose`, `BitsSurvive`, `VerdictIsRight`,
`EveryElementOnce`, `MutatedAsMeant`, `CharacteristicsAreRight`,
`AnswerIsRight`, `ReadAsWritten`, `DataIsComplete`, `OutcomeIsTrue`), and the
text below calls the parts by their own names.

`ScilChain` and `ScilPipeline` meet in `IsChain` (`ScilAlgorithms`): what the
parser accepts is proved to be what the pipeline assumes of a chain.
`ScilContext` takes the parser by the predicate it is proved to decide,
`WellFormed`. `ScilArena` gives the buffers of `ScilPipeline` addresses.
`ScilQuantize` and `ScilSigbits` take packing as codes modulo `2^bits`, which
is what `ScilSwage` is proved to do; `ScilMutators` takes `scilG_iter` as the
set of positions `ScilGrid` shows it to visit, and `ScilTool` the CSV plugin as
`ScilCsv` has it.

### ScilChain

A chain structure is a row of `2 * Limit + 3` places, in the order of the
`struct` (`scil-cca.h:17-28`), so that an index behind `pre_cond_first` meets
the converter as it does in memory. A parse begins with the counters at zero
and the places as they are; there is one action per kind of token (`TakeFirst`,
`TakeConverter`, `TakeSecond`, `TakeData`, `TakeBytes`), one per rejection
(`RejectName` for `SCIL_EINVAL`, `RejectOrder` for -1) and `Finish`. Between
parses either a new context is made (`NewContext`: zeroed, `scil-context.c:80`)
or the next line of the configuration is read (`NextLine`: the entry of a
rejected line is used again, an accepted one is followed by memory as `malloc`
left it, `scil-algo-chooser.c:70-125`).

Abstracted: names are model values (the split at commas, the number a name may
be given by and the 4096 bytes of the copy are left out); the counters are
naturals where the code has `char`, which differs only beyond the limit on
preconditioners; writes past the end of the structure have no action.

### ScilPipeline

One action per pass of a stage. `CSrc`, `CDst`, `DSrc`, `DDst` are the four
ways `pick_buffer` is called. A buffer has three attributes: `applied`, the
list of algorithms its elements went through (`<<>>` is the user's data and
`Junk` anything that is no result of the pipeline); `trail`, the trailer item
(private header and id) at each position; and `short`, whether the items start
below the offset `datatypes_size`, so that writing elements there destroys the
first of them. How many are destroyed is chosen freely (`Cuts`), since it
depends on sizes. `items` counts what `out_size` and `input_size` account for.
Decompression knows `total` and the stored buffer only; `gate` is the place in
the function that control has reached, `algo` the id read last, `hbuf` and
`hpos` where `header` points.

After a result or an error the caller may compress again with any chain
(`CompressStart`), the buffers as they were left; a stored buffer may be
decompressed again and again. Stage errors can happen at every stage.

Abstracted: buffers are disjoint and large enough (`ScilArena` says when they
are); an algorithm is undone exactly by its own decompressor, and
anything else it is applied to gives `Junk` (the loss of a lossy algorithm
happens when it compresses); the chooser and the empty array are left out; so
are second preconditioners, a type no registered algorithm has.

### ScilCodec

Three variables: which call runs, the stages of the chain, and the stack of
stages whose effect is on the data. Compressing pushes the stages one by one,
decompressing pops them, a call ends when all are pushed or popped, and may
fail at any point. `ScilPipeline` maps to it by `LiveElements`: the stack is
the `applied` list of the buffer the next stage reads.

### ScilContext

Several contexts may live at a time (`ctx`). The strings that are allocated are
in `heap`: the caller's list, which he may free and build again, and the copy
each context makes (`scil-context.c:155`). `CreateContext` and `CreateRejected`
are the two ends of `scilPr_create_context`, whose arithmetic on digits and bits
is `EffectiveDigits` and `EffectiveBits`; `asked` remembers what the caller
passed. A `scil_compress` runs what is decided (`CompressDecided`) or takes the
decision: from the environment (`ChooseFromEnv`, or `ChooseFromBadEnv`, where
`critical()` ends the program) or from the data (`ChooseFromData`). `result` is
`"crashed"` where the code calls a function pointer that is NULL or meets
`assert(0)`.

Abstracted: the two tables of `scil-util.c:222-247` are the formulas they were
computed from (the 65 entries agree); of the three floating-point tolerances
only whether they are "finest"; whether data is random is a free choice. The
bits and digits a result keeps are those `scil_validate_compression` compares
(`MeetsHints`). A context's dictionary is not part of the record: nothing in
`scilPr_destroy_context` touches it.

### ScilDict and ScilMap

`elem` is the table, `key`, `value` and `next` the fields of the elements, which
are numbered in the order they are allocated; `live` are those not freed. A call
is one step per element: `Call` takes the first of the bucket, `Advance` follows
`next`, and one action per end of a function returns. `previous` is the variable
of `scilI_dict_remove`, carried along in every search. An allocation may fail:
`PutFails` is a put without memory for the element or its key, the `"failed"`
branches of `PutNew` and `PutReplace` one without memory for the value.

`ScilMap` is a function from keys to values with the same calls, each in one
step. `ScilDict` maps to it by what the live elements say (`Map`). Abstracted:
the hash function is any function from keys to buckets; an element number is
not used twice, where `malloc` may return an address again, so that a pointer
to a freed element can be told from one to a later element.

### ScilArena

`pc` and `remaining` walk the chain as in `ScilPipeline`; `elems` and `items`
say where the elements and the trailer are (the source, `dest`, `buff_tmp`;
`in`, `dest`, `buff_tmp1`, `buff_tmp2` of decompression), `length` how many
bytes they are and `top` how far behind the start of the block any stage has
written. A stage is one action (`Precondition`, `Encode`, `Pack`; `Revert`,
`Unpack`), which asks whether the bytes it reads and those it may write overlap
(`clash`). `lz4` and `gzip` write any length up to the bound their library
states; the model keeps the extremes. Decompressing an empty array (`StartEmpty`)
is the copy of as many bytes as the largest `size_t` says (`SizeMax`), behind
which nothing runs. Abstracted: contents, and the algorithms of other libraries
that bound nothing.

### ScilSwage

One step is one pass of the loop over the values; the buffer is a function from
bit addresses to bits, so that the byte-wise shifts of the code become the
address each bit goes to, and the bytes a pass reaches those it clears or
reads. `mem` is what the buffer held before.

### ScilQuantize and ScilSigbits

A call is one step; what is modelled is its arithmetic. A type has a width, values and a
`Kind`, which names the three families: those computed in `int`, those whose differences wrap, and
floating point. A format is the lengths of mantissa and exponent. `param` is the dictionary entry that `quantize` writes, cut to
one digit (`FirstDigit`) as `snprintf` does, and that `swage` looks for.
Arithmetic on doubles is exact. A number of `ScilSigbits` is a record of sign,
exponent and mantissa; `Mask` is the table of the code, and what lies behind it
is a free choice. An array may be compressed, restored and compressed again.

### ScilValidate

`Decompress`, `Measure` (one element) and `Return`; `Fail` is a decompression
that fails. The caller may validate the same data again under the accuracy that
was reported (`Revalidate`). Values are integers narrower than `int`. Tolerances
are `double` in the code: here they are numbers of `1/Parts`, with fractions.
`threshold` is the finest one after its cast to the type of the values (`Casts`):
its whole part or, beyond the type, where the cast is undefined, any value, chosen
once for a call. Quotients are pairs, with denominator 0 for `INFINITY`; which one
`float` arithmetic makes of two values is the parameter `Deviation`, any function
within the error of a division and a subtraction (`IsRounded`, `1/Ulps` of the
restored value and the distance together; for `float`, `Ulps` is 2^22).

### ScilGrid and ScilMutators

`Iterate` is one pass of the loop of `scilG_iter`, with the phases "walk" and
"propagate" of the code. A mutator runs dimension by dimension (`Inner`,
`Edge`); a value is the raw one of a position, or smooth, or no number.

### ScilOptions, ScilCsv and ScilTool

`Argument` is one argument of one of the three calls of `scilO_parseOptions`
for a command line; `parsed` is how far the calls before it came, which the
code finds again by the separators. `ScilCsv` has the two passes of the reader
line by line (`CountLine`, `StoreLine`), with `x`, `y` and `refX` of the code;
the writer is one step. `ScilTool` has one action per phase of a run and keeps
the files between runs; data is what was done to it. A file may be written in
part, a compression may fail or `assert`.

### ScilStatistics and ScilGenerator

The first is the arithmetic over the flat buffer, both for the first program
and for the second, which leaves the median 0. Data are integers and sums exact:
a mean is kept as a sum, a deviation as its square times the cube of the number of
values, so that no quotient is rounded. Sums are the loops of the code as functions of
how far they have come; `qsort` puts each value at the place of its rank. The second has the control around
it: `current` is the one record all lines are made of, and for each of its
fields the model keeps of which buffer and compressor it is; `file` is the
stream, which both programs open and close in different places.

### ScilBenchmark

`Measure` is one combination of pattern, datatype and compressor, of which some
fail; `Replace` is the `fclose` and `rename` of the end, `Die` may happen
between any two steps. What a chooser in another process may find is `conf`, at any
moment; how it reads the lines is no part of the module.

## Runs

| Run | Instance | Question | Result |
|---|---|---|---|
| `pipeline` | all chains of at most three preconditioners of two kinds, C, D, B; one compression, any number of reads | in-place stages, round trip, which chains are rejected, what reading writes | holds |
| `pipeline_reuse` | chains of different length and parity, one after the other on the same buffers | self-description whatever the buffers held; termination; refinement of `ScilCodec` | holds |
| `pipeline_tested_chains` | the chains of `src/src/test/compression-chain.c` | is every compressed buffer accepted, as the test asserts? | violated |
| `chain` | `Limit` = 2; all lists of up to three names, one unknown, and longer ones with all five types; zeroed and reused memory | exactness of the parser, the walk, the lossy flag | holds |
| `context` | two contexts, nine forced lists or none, three kinds of datatype, four values of the environment; and one context alone, all pairs of -1..17 digits and -1..55 bits, float and double | who owns the list, which accepted chains run, what the chooser may pick, decisions stand; is what was asked enforced? | holds |
| `context_finer` | the same | is the finer of two hints taken? | violated |
| `dict` | three keys in one bucket, one in another, three elements, failures of every allocation | the lists stay intact, the map, termination | holds |
| `arena` | chains of 0 to 5 and of 10 preconditioners, quantize or abstol, memcopy, gzip or lz4; arrays of 0 to 110 and of 600 bytes | overlap of what a stage reads and writes, the limit, the room of the scratch memory | holds |
| `arena_half` | the same | is half of the size limit enough scratch memory? | violated |
| `swage` | three words of 12 bits, eight widths, memory of zeros and ones | round trip, and every value packed earlier stays | holds |
| `arrays` | quantizer: all arrays of two values of a type of four bits computed as `int`, of one of five bits with wrapping differences and of floating point, eight tolerances in halves; sigbits: all arrays of two numbers, every hint, two formats of which one has codes behind the table of masks; validation: all pairs of arrays of two values of three bits, tolerances in halves on both sides of their errors, finest ones of 0, 2½ and more than the type holds, quotients rounded to sixteenths; grid: one to three dimensions, all offsets, ends, steps 1 and 2; mutators: one dimension of 1 to 12, two of 2 to 10, three of 3 and 4, blocks of 2, 3 and 5; statistics: eleven shapes of up to four dimensions, up to two values that are not 0 | tolerance, width of codes; bits kept, a second trip; what accepting and rejecting say; the range, once each, and the end of the walk; constant blocks, no noise left or read, no NaN; step, deviation, median | holds |
| `programs` | options: command lines of up to three arguments, and of the required ones and four more for the plugins; CSV: shapes of up to three dimensions, foreign files of up to three lines; tool: two runs in all modes and formats over three given files and the one the first run left; both generators, any failure; benchmark: two runs, two patterns, datatypes and compressors, one failure, death anywhere | accepted and refused lines; what is written is read; the round trip through files; lines of one run, each combination once; the file is whole, nothing skipped, the exit | holds |

Why the bounds suffice: `pick_buffer` depends on the parity of the remaining
stages and on being first or last, so chains of one to six stages meet every
combination; two preconditioners tell order from number; three move the item of
the first across two buffers. In the parser, every decision looks at the stage
and at one token; lists of three, and the longer ones, have every pair of types
in every order, with every stage before them, and exceed `Limit`. Two contexts are the fewest
that can share a string; the digits and bits exceed what a double has
(`MaxDigits`, `MaxBits`) in both units; the lists have every combination of
types `scilI_chain_is_applicable` looks at. `MCNext` of `MCScilContext` takes some
of the steps of `Next`: contexts with digits and bits do not meet others, since no
action reads the accuracy of two contexts. A bucket of three elements has a
first, a middle and a last one; `MaxElements` bounds the elements ever
allocated, so that the histories are those with up to three insertions. Two arrays of the buffer arithmetic matter: below 34 bytes the slack of 1024
hides every growth, and from 500 on it no longer does; up to 110 bytes all
widths and chains are met at every size, and ten is the limit on
preconditioners. Twelve bits are the fewest for a value that begins and ends in
the middle of a byte with a whole one between. Arithmetic on types of four and five bits
has every case of wrapping and rounding that a wider one has (all values, and
all pairs, are checked); two elements are a minimum and a maximum. Three bits and
two elements give validation a largest error that is not the one of the last
element; halves separate the finest tolerance from its whole part, sixteenths a quotient from
the one computed (with either left out of the property, the run fails). Iteration needs a carry over two dimensions, so three; steps of 2 miss
an end or meet it. Two runs of a program are the fewest of which one meets what
the other left. `MaxRuns`, `MaxFaults` and `Runs` bound histories only. The
theorems remove the bounds of the modules they are about.

Some properties are proved and not listed in a run, because they follow from the
inductive invariants or properties that are: `TypeOK`,
`DispatchMatchesChain`, `BuildsChain`, `DigitsFollowBits`, `NoDangling`,
`OneByteBehind`, `PackedStays`.

Deadlock is checked where the system goes on for ever or says when it stops; it
is not where a program ends: a crash or `critical()` in `ScilContext` and
`ScilArena`, the end of a run or of the last run elsewhere.

Fairness: `FairSpec` says that a function that was called runs to its return
statement (`WF` on `Next` while a call runs); the caller need not call. The
code has no blocking operation between entry and return. `ScilDict` says the
same of `Step`, the steps within a call. `ScilGrid` assumes it of the loop that
was entered (`WF` on `Iterate`, in `ScilArrays` on `Iterating`, the same step
there). The properties that use it are both `CallsReturn` and `IterationEnds`.
No other specification states
fairness: a user who never calls, or a process that dies, breaks nothing.

### What the violations show

* `StoredIsAccepted`. With two preconditioners, a data compressor and a byte
  compressor, `header` points into the scratch buffer the byte compressor's
  result was unpacked to (`scil.c:438`). The stages alternate between two
  scratch buffers, so the second stage after it, the last preconditioner
  (`scil.c:559`), writes its elements over that buffer. If the data compressor
  had shrunk the data, the remaining trailer lies below the end of the elements
  and is gone: `SCIL_BUFFER_ERR` for a valid buffer. The repository's test of
  such a chain passes because its data compressor expands ten doubles.
  `RejectsOnlyReusedHeader` (checked and proved) says that these chains, those
  with at least four stages, D and B among them, are the only ones.
  `RestoredIsOriginal` says that even there no wrong data is reported as right.
* `FinerTaken`. `scil-context.c:134` wants the finer of two hints; the code takes
  `max()` of both, and "finest" is -1. Finest digits beside one bit become one
  digit and one bit, and the context need not be lossless. `AskedIsEnforced`
  (checked and proved) says that a "finest" beside a number is the only case in
  which a hint is lost.
* `HalfSuffices`. `scil.h:286` asks for a `tmp_buff` of half the size limit. In
  it `buff_tmp2` begins at twice the size of the array and takes an array more,
  or the room told to gzip: from 500 bytes on that is beyond the half.
  `LimitSuffices` (proved) says that the whole limit is enough for both calls, but for the
  decompression of an empty array, for which nothing would be.

## Where the code departs from its texts

The models follow the code in these cases too. Where a property below is stated
for the other cases, its condition names the departure, and the run that checks
it shows that there is no further one. Lines are those of the repository.

| Source | The code | The text | The property beside it |
|---|---|---|---|
| `internal/scil-chain.c:35` | accepts any number of preconditioners and stores those past the array in the places behind it | `scil-cca.h:12`: at most 10 | `RunsWhatWasAsked` within the limit |
| `internal/scil-chain.c:124` | looks at the converter only if there is no data compressor: `quantize,swage` for integers calls a NULL function | line 125: the datatype "must be supported" | `ForcedChainRuns`: every other list without preconditioners runs |
| `internal/scil-chain.c:84` | does not look at first preconditioners: binary data meets `assert(0)` in `scil.c:214` | the assertion | the same |
| `scil.c:153`, `:176` | the two blocks of `dest` and the check of its size leave `2*size+10` bytes to a stage; `quantize` makes `2*size+16` of floats | `scil.h:256`: three times the input and a header; `restrict` in `algo-memcopy.c:21` | `StagesApart` without quantized floats; `LimitSuffices`: the size limit is enough |
| `scil.c:433` | tells gzip that there is less room than quantized floats have | `test/compression-chain.c:61` | `RoomSuffices` |
| `scil.c:419` | reads the zero stored for an empty array as the id of memcopy, with a size of -1 | `scil.c:144` | `LimitSuffices`: in no other case |
| `scil-swager.c:62` | writes the byte behind a value that ends at a byte boundary | `scil-swager.h:9`: "bit-perfectly" | `OneByteBehind`: never more |
| `scil-quantizer.dtype.c:38`, `:101` | cuts fractions, wraps sums above the largest value and differences beyond the type | `scil-user-hints.h:68-69` | `ToleranceKept`: there is no fourth reason |
| `algo-sigbits.dtype.c:159` | reads behind the table of masks for codes longer than it | `scil-user-hints.h:75` | `CoveredBitsKept` |
| `algo-sigbits.dtype.c:331` | rejects IGNORE in place of FINEST, which then keeps no mantissa | `scil-user-hints.h:42-44` | `CoveredBitsKept` without FINEST |
| `scil-dtypes-int.dtype.h:9` | stores a distance in the type of the values: one that wraps is accepted | `scil-user-hints.h:68` | `AcceptedMeetsAbsolute` for every element whose distance fits |
| `scil-dtypes-int.dtype.h:28` | converts the finest tolerance to the type of the values: fractions are dropped (a distance of 2 is not below 2.5), and beyond the type the result is undefined | `scil-user-hints.h:61` | `AcceptedMeetsRelative`, `RejectsOnlyUnmet` with the whole part for the tolerance; beyond the type either branch for every element |
| `scil-dtypes-int.dtype.h:33` | computes the relative error in `float`: 10 restored for 11 measures more than 10 % | `scil-user-hints.h:53` | the same, up to `Rounding`: on the boundary either verdict |
| `scil.c:683` | puts the largest absolute error in place of a finest one of zero: data within the relative tolerance is rejected, and so is data under the accuracy just reported for it | `scil-user-hints.h:61`, `scil.h:306` | `RejectsOnlyUnmet` |
| `scil.c:707` | compares as many bytes as the size limit has | `scil.c:706` | none: what lies behind is free |
| `scil.c:761` | copies an accuracy nobody set after a failure | `scil.h:306` | none |
| `util/scil-util.c:382` | visits a range that is empty in an upper dimension once | `scil-util.h:256` | `VisitsRange` for ranges that are not empty |
| `util/scil-util.c:341` | multiplies with the length of the next dimension | `scil-util.h:250` | `EqualLengthsHavePlaces` |
| `pattern/basic-mutators.c:53` | divides 0 by 0 at a last block of one element | `pattern/scil-patterns.c:138` | `NumbersIfBlocksFit`: only there |
| `scil-option.c:345` | counts required arguments instead of marking them | line 364 | `MissingNeedsRepeated`: only by a repetition |
| `tools/scil-compress.c:118` | input and output plugin share the variables of their options if they are the same | line 123 | `ParsedAsWritten`: the last section counts |
| `scil-option.c:71` | prints the help with the number that was just rejected as index | lines 336, 369 | none |
| `tools/plugins/file-csv.c:230`, `:99` | wrong strides from three dimensions on; lets lines of one column pass among others | lines 252, 100 | `WrittenIsRead` up to two dimensions, `PassesAgree` |
| `tools/scil-compress.c:46`, `:244`, `:204` | writes compressed data as CSV by default, which prints none; subtracts compressed bytes as a residual; scratch memory of the size of the array | lines 75, 76; `scil.h:286` | `RoundTrip` for what is stored |
| `tools/plugins/file-bin.c:114` | takes a file stored in part for success | line 116 | `RoundTrip` for complete files |
| `tools/plugins/file-netcdf.c:104` | goes on without the variable, and returns 0 | line 106 | the same |
| `tools/scil-generate-chooser-data.c:273`, `:602` | median of an even number; minimum above maximum | lines 654, 590 | `OddMedianIsMiddle` |
| `tools/scil-generate-chooser-data2.c:817` | writes to a stream before it is opened, and closes it twice | lines 147-148 | none: it is always so |
| `tools/scil-benchmark.c:101`, `compression/scil-algo-chooser.c:102` | the chooser accepts no line of what the benchmark writes, nor of `dev/scil.conf` | `scil.h:219-220`, `scil-algo-chooser.c:70` | `ConfIsWhole`, `NothingSkipped` for the writer |

## Proofs

All theorems hold for every registry (`Algo`, `AlgoType`), every set of chains
or lists, every length and limit. Assumptions: `AlgoAssumption` (every
algorithm has one of the five types), `PipelineAssumption`, `ChainsAssumption`
(chains are well formed, no second preconditioner, at most `MaxStages` stages),
`ChainAssumption`; `ContextAssumption` (the two algorithms the chooser picks are
lossless byte compressors, hints are at most 64 digits and bits as the tables
are, model values differ) with `NoneAssumption`; `DictAssumption` (a key has a
bucket, "missing" is no value); `SizesAssumption` of `ScilSwage` (the buffer
has a byte more than the packed data); `CallsAssumption`
of `ScilArena` (types of the parameters; whole elements; `SizeMax` is a number);
`ProgramsAssumption`, which puts together those of the five programs: options of
a table have different names, flags are numbers, no name is the separator
(`OptionsAssumption`); arrays have one to four dimensions, none empty, and a
foreign file consists of lines of numbers (`CsvAssumption`); a file that is
given is what it is meant to be, with room for the array or none
(`ToolAssumption`); the lists `scil-benchmark` loops over are not empty and name
nothing twice (`BenchmarkAssumption`); `ArraysAssumption`, which puts together
those of what works on arrays: integers are within their type, and tolerances are
positive multiples of a fraction (`QuantizeAssumption`); training data is integers in one to four
dimensions, none of length 0 (`StatisticsAssumption`); mantissa and exponent have at least one bit
(`SigbitsAssumption`); a type has at least one bit, tolerances
are numbers and quotients rounded by no more than `IsRounded` says (`ValidateAssumption`), an iteration has at least one dimension, no length is 0,
no step is 0 and no end behind the array (`GridAssumption`), a mutated array has equal
lengths and blocks have two elements or more (`MutatorAssumption`).
`ChainsForThePipeline` shows that the parser guarantees what
`ChainsAssumption` takes from it.

| Theorem | Statement |
|---|---|
| `ScilPipelineProofs!Inductive` | `Spec => []IInv` |
| `... TypeCorrect, NeverInPlace, SelfDescribing, UndoneInReverse, RoundTrip, OnlyReusedHeaderRejected` | `TypeOK`, `StagesNotInPlace`, `StoredSelfDescribing`, `DispatchMatchesChain`, `RestoredIsOriginal`, `RejectsOnlyReusedHeader` |
| `... StoredOnlyRead` | the action property `ReadOnlyStored` |
| `ScilPipelineProofs!Refinement` | `Spec => ImplementsCodec`, for registries of chains without a converter before a data compressor |
| `ScilChainProofs!Inductive, TypeCorrect, ParserIsExact, FlagIsRight, RunsTheList, ChainsForThePipeline` | `IInv`, `TypeOK`, `AcceptsWellFormed`, `LossyIsKnown`, `RunsWhatWasAsked`, `BuildsChain` |
| `ScilContextProofs!Inductive, TypeCorrect, ListsAreOwned, AccuracyEnforced, HintsAgree, CheckedChainsRun, ChooserIsSafe` | `IInv`, `TypeOK`, `OwnsItsList`, `AskedIsEnforced`, `DigitsFollowBits`, `ForcedChainRuns`, `LossOnlyIfForced` |
| `... DecisionStands` | the action property `DecidedOnce` |
| `ScilDictProofs!Inductive, PointersAreLive` | `IInv`, `NoDangling` |
| `... DictIsAMap` | `Spec => ImplementsMap` |
| `... SearchesEnd` | the action property `SearchesGoBack`: each step of a search leads to an older element |
| `ScilSwageProofs!Inductive, UnswageUndoesSwage, AtMostOneByteBehind, PackedValuesStay` | `IInv`, `RoundTrip`, `OneByteBehind`, `PackedStays` |
| `ScilArraysProofs!QuantizerKeepsTolerance` | `QuantizedIsClose` |
| `... BitsSurviveTrips` | `BitsSurvive` |
| `ScilArraysProofs!ValidationInductive, AbsoluteToleranceKept, VerdictRight` | the invariant of validation, `AcceptedMeetsAbsolute`, `VerdictIsRight` |
| `... ElementsOnce, MutatedRight` | `EveryElementOnce`, `MutatedAsMeant` |
| `... RowsAreNew` | the action property `RangeShrinks`: a row visits what was not visited, between rows the counter of dimensions falls |
| `... CharacteristicsRight` | `CharacteristicsAreRight` |
| `... ReadsRight` | the action property `ReadsAreFinal` |
| `ScilProgramsProofs!AnswerRight, WrittenRead, DataComplete, OutcomeTrue` | `AnswerIsRight`, `ReadAsWritten`, `DataIsComplete`, `OutcomeIsTrue` |
| `... RoundTrips` | the action property `RoundTrip` |
| `ScilArenaProofs!TypeCorrect, LimitIsKept, RoomIsEnough, StagesKeptApart` | `TypeOK`, `LimitSuffices`, `RoomSuffices`, `StagesApart` |

**The pipeline.** No property is inductive by itself: that the restored data is
right depends on which buffer holds what in the middle of a chain. `IInv` says
that with `k` stages applied, or `k` left to undo, the buffer the next stage
reads holds the elements after the first `k` stages, and the buffer `header` or
the next writer uses holds their `k` items (`CompressInv`, `StoredInv`,
`DecompressInv`). Three facts carry it: source and destination of a stage
differ, the destination of a stage is the source of the next (`CDst(r) =
CSrc(r - 1)`, from the parity in `pick_buffer`), and the chain's order, by which
at most one converter, data compressor and byte compressor stand behind the
preconditioners. In decompression the items below `remaining` may have been
overwritten only for the chains `ReusesHeaderBuffer` names; the proof shows
that for the others the buffer `header` points into is not written twice.

**The codec.** With `IInv`, each action maps to one action of the codec: the
compression stages to `Apply`, the decompression stages to `Revert`, a rejected
item to `Fail`. A converter before a data compressor is excluded because the
data compressor reads part of the converter's result only.

**The parser.** `AcceptsWellFormed` speaks about the whole list, the code looks
at one token and one number. `OrderInv` says what `stage` remembers of the
tokens taken; `PlaceInv` that the places of a context's chain, read in the order
of the walk, spell them; `LossyInv` that the local count is that of the tokens.
`OutOfOrder` then shows that a token that does not fit proves the list
ill-formed, and `WalkSpells` puts the five pieces of the walk together.

**Contexts.** `HeapInv` names every copy after its context, so that no two
contexts share one; `AccuracyInv` ties the effective hints to those asked, and
`AskedIsEnforced` then follows from two facts of arithmetic, `DigitsMonotone`
and `DigitsOfBits` (no result with at least `ToBits(d)` bits has fewer than `d`
digits), case by case of the sentinels.

**The dictionary.** That a search which ends at NULL has seen every element of
its key needs to know where a list can go. Elements are linked in front, so
`next` leads to an older element of the bucket (`LinkInv`), and to the newest of
the older ones: no element lies between. `SearchInv` says that whatever is newer
than the element the search is at has another key. Removing an element then
changes one pointer only because no second pointer leads to it: of two elements
with the same `next`, the older would lie between the newer and its `next`. The
refinement compares what each key is mapped to before and after a step
(`LookupSame`, `LookupOne`, `LookupNone`). `LinkInv` is also why calls return:
`SearchesEnd` is that part of `CallsReturn` that needs no fairness.

**Packing.** `PackedStays` says that the bits below `bit_index` are those of the
values packed so far, `OneByteBehind` that memory from the second byte behind
them on is as it was. A pass clears bytes from the one it begins in only where
no earlier value has bits; that its own bits go to different addresses, in order,
is linear arithmetic once the address of each is named. The unpacked values
follow if every value fits its width.

**The quantizer.** `QuantizerInv` says what a stored array is: the minimum is that of
the data, the width the one computed from the span, the codes are those of the values,
packed. A code is a quotient rounded to the nearest (`RoundingIs`), no larger than that of the
maximum, and `Bits` finds a power of two above it (`RoundingFits`), so that packing cuts none.
What comes back lies within half a tolerance of the value before the cast of an integer
type cuts off a fraction, which is less than the other half or than 1 (`CutIs`,
`IntegerKept`). Each of the three cases of `Unsafe` is excluded where it bites: a tolerance
below 1 in the cut, a span beyond half the type in the difference, an array
near the end of its type in the sum.

**Significant bits.** `SigbitsInv` says of the header that it covers every number of the
array (`HeaderFits`), of the codes that they are made with it, and of what comes back that
each number is the original with the end of its mantissa 0 (`Kept`). A code is a number of three
digits of different bases: sign, exponent above the minimum, front of the mantissa; that it fits
its width and that taking it apart gives the fields back (`CodeIs`) rests on `PowerOfSum`
and on the exponents' range being at most `Two[exponentBits]`. Whatever code is restored
has an end of zeros (`RestoredIs`), so that a second trip, of data with `IsCut`, has nothing to lose.

**Validation.** The measurement is four running extremes at once. `Known` says of
each what the elements measured so far make of it: the largest error is that of
one of them and bounds the others, the same for the relative errors of those at
or above the finest tolerance and for the errors below it, and the bits are no
more than any of them has. Quotients are compared by cross products, which is an
order only because no quotient is 0/0 (`ExceedsTransitive`). Two facts are about types:
a distance below half of the range is computed as it is (`DistanceIs`), and the cast
of a finest tolerance that the type holds is its whole part (`CastsAre`, `FinestIs`). One is about
rounding: a quotient within the tolerance is one whose distance is within it up
to `Rounding`, and the reverse (`Close`, `CloseWithin`, `WithinClose`). From
there `RelativeKept`, `AbsoluteKept`, `RejectedRight` and `BitsKept` read off
the verdict; the last needs that two numbers agree above the highest bit they
differ in (`LeadingEqual`), by induction over the bits.

**The iteration.** `Visiting` says what was visited when the walk is at `pos`: the
positions before it in lexical order, as far as the dimensions go that the
propagation has not left (`Before`, `Same`), each of them once. A walk over the last
dimension appends one row (`PassesAre`, `Appended`, `AppendedOnce`); a
propagation step that carries closes the gap between a row and the next position
(`StepsAre`: no step of a dimension lies between). The place of an element in an array
of equal lengths is a number whose digits are its indices (`PlaceIs`), and two
such numbers differ if a digit does (`Digits`). `RowsAreNew` reads off the same invariant
that what is ahead of a walk, a finite set, shrinks with each row: the part of
`IterationEnds` that needs no fairness, for ranges that are not empty.

**The mutators.** The repeater's blocks do not overlap and are copied from their
first element (`BlockVisited`, `BlockOnly`), so the order is of no consequence.
For the interpolator `Interpolating` says which rows are final after each of its
iterations; `IntervalOf` that both ends of an interval lie on such a row. No number is
lost unless an interval is empty, which only the last block can be.

**Characteristics of data.** Three arguments that have nothing in common. *Steps*: a flat
position is a number whose digits are the indices, to the lengths as bases, so that for every
dimension it is `lo + s * (x + l * hi)` with the index `x`, the stride `s` and the length `l`
of that dimension (`StepDown`, `StepUp`). From there the pairs of the nested loops are pairs of
neighbours (`StepsAreNeighbours`), and every such pair is one of the loops
(`NeighboursAreSteps`); with fewer than four dimensions the others have length 1 (`PaddedIs`).
*Deviations*: the formulas agree after each element of the loop (`FormulasAgree`), by induction.
*Median*: no two elements have the same rank (`RankGrows`), so that of `n` elements every
rank below `n` has one (`EveryRank`), and what is below the middle one is fewer than half
(`MedianBalances`).

**Recursion.** Powers, products, sums and places are functions defined by recursion.
`Recursion` proves once that such an equation has a solution, from which the
definitions are unfolded (`TwoIs`, `CountIs`, `PlaceIs`, `VolumeIs`, `SumIs`), and `Induction` that
what passes from each number to the next holds for all: induction is over sets,
since theorems that take an operator cannot be used here.

**The arena.** Two inductive invariants, one on top of the other. `Sizes` bounds
the length of the data before each stage by the number of stages left
(`Lengths`: elements, one trailer item per stage done, the growth of each
codec), from which the limit (`WithinLimit`, `TopIs`) and the room follow. `Places` says which of the
buffers each of elements and trailer is in, by the parity of the stages left,
and thereby that of two buffers in use at once one lies wholly below the other.

**The command line.** `AnswerIsRight` is about the end of three calls that share
one row of arguments. `ParserInv` says where the call in progress is (`ParserAt`:
what is behind it belongs to earlier sections, what is ahead to this or later
ones) and what it has found (`ParserFound`): each variable has the value of the
last argument so far that gives its option, or the number of them for a flag;
`seen` counts the arguments that give a required option, and as long as nothing
was wrong, none of the arguments was. A table that input and output plugin share is
the reason why "so far" counts from the first section on. A missing option is
found by counting only if no option is repeated (`MissedMeansRepeated`).

**CSV.** The writer's lines are known in closed form (`LinesAre`: the values of a
row are consecutive numbers), so that the first pass can be said to be at the
line the values it counted end with, and the second to have stored exactly those
before `line` (`CsvCount`, `CsvStore`). For a file of others, where nothing is
known of the lines, the invariant ties the counters of the first pass to the
lines that are not blank and their common length (`Filled`, `Alike`); the second
pass then meets as many values.

**The tool.** `RoundTrip` compares two runs that only a file connects. `FileInv`
says of every file that its data is what it was meant to be, or that it is
marked as something else (stored in part, of garbage); `WasRead` and
`WasProcessed` carry this through the variables of a run, phase by phase, with
the sizes that belong to it.

**Training data.** `CurrentRun` says which of the record's fields belong to the
buffer and compressor at hand in every phase and after every error exit;
`VisitedInOrder` that the buffers generated are those before the present one in
the order of the three nested loops, which has no gaps (`FollowingIsNext`).

**The benchmark.** `BenchmarkInv` ties the draft of the file to the results: the
combinations measured are those before `at`, each of them succeeded has its line
in the draft, and the flag is up exactly if one failed. Only a whole run
replaces the file.

Only model-checked: liveness (`CallsReturn` twice, `IterationEnds`), which needs
`ENABLED`. Every other property of a run is the subject of a theorem, but for the three
that are violated.

## Plan

1. Done: chain execution, parser, contexts, dictionary; then packing, quantizer,
   significant bits, validation, buffer arithmetic, grid, mutators, options,
   file plugins and tool, training data, benchmark.
2. Done: the programs around the library, composed in `ScilPrograms`, and what
   works on arrays, composed in `ScilArrays`, the codecs among it; both proved.
3. A refinement of `ScilPipeline` by `ScilArena` for the chains that fit.

## Not modelled, and why

* The numerical error of zfp, fpzip, sz and the wavelets, and the libraries they
  wrap: floating point and foreign code. Their calling conventions are those of
  the stages of `ScilPipeline`.
* The HDF5 filter (`tools/hdf5-plugin/scil-plugin.c`): it is written for an
  earlier library. Lines 203 and 219 pass datatype and dimensions to
  `scilPr_get_compressed_data_size_limit` in the other order, which its own
  `-pedantic-errors` refuses, so that there is no program to model.
* `scil-pattern-creator`, `scil-add-noise`, `bench/benchmark.c`: loops around
  calls of the library that print times, without state of their own.
* The values of patterns (`pattern/basic-patterns.c`, `open-simplex-noise.c`):
  random or trigonometric floating-point numbers. The iteration they share is
  `ScilGrid`.
* The measurement of `float` and `double` and of `int32_t` and `int64_t` in
  `scil_determine_accuracy`: the first compares mantissas bit by bit, the second
  overflows as signed integers.
* The digits of numbers in files, second preconditioners (no algorithm has that
  type), byte order conversions and the table of messages.
* Writes that fail in `scil-benchmark` (`fprintf` of line 101, `fclose` of line 170, neither
  of them checked): `ScilBenchmark` lets the program die and the rename fail, but not the disk
  fill up, after which the code would rename a file with lines missing.
* How the chooser reads `scil.conf` (`compression/scil-algo-chooser.c:55-132`): it takes no line
  of the benchmark's (see the departures), so that no state depends on it.
* The interpolator in three dimensions leaves the faces between two edges; no
  text says what it promises there, so `NothingRawBetween` is about one and two.

`PROJECT.json` lists every component with its status, and the hazards with the
properties that cover them. What the code does always, whatever the caller, is
not among them but in the table of departures. A destroyed context leaves its
dictionary behind (`scil-context.c:171` frees the list and the structure only),
on which no other state depends.
