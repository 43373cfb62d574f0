# Lacuna: a verification project

Lacuna (`src/src`, C++20) packs a file into a `.lac` archive: a 14-byte header
and a payload made by run-length encoding or Huffman coding. `compress` reads
everything, compresses it in memory with the algorithm asked for or with both,
and writes the smaller archive; `decompress` checks the header and decodes the
payload straight into the output; `info` shows a header; `benchmark` compares
the algorithms over a directory. `-` stands for the standard streams.

This directory holds TLA+ models of that program, the TLC runs that check them
on small instances, and proofs, checked by TLAPS, of what matters most for all
instances. `PROJECT.json` maps every definition to the source lines it stands
for and lists the runs, their mutants, the hazards and the theorems.

## 1. The system

| Component | State | Operations | Where |
|---|---|---|---|
| RLE codec | run in progress (`run_len`, a `uint8_t`), pending `(count, value)` pair, two 64 KiB buffers, totals | `compress`, `decompress` | `core/rle.cpp` |
| Huffman codec | frequency table, heap/tree, bit writer and reader, output buffer | `compress` (two passes), `build_tree`, `generate_codes`, `decompress` | `core/huffman.cpp`, `huffman.hpp` |
| Compressor interface | none | the promise both codecs share | `core/compressor.hpp` |
| Archive header | none | `write_header`, `read_header`, `get_file_size` | `utils/file_io.cpp` |
| compress command | whole input and archive in memory, output file stream | `handle_compress`, `run_trial` | `main.cpp`, `utils/benchmark.cpp` |
| decompress command | input stream behind the header, output file stream | `handle_decompress` | `main.cpp` |
| Session | the file system, the standard streams | `main`, `handle_info`, signals | `main.cpp` |
| CLI parsing | index of the next argument, `CliOptions` | `parse_cli_args`, the choice in `main` | `main.cpp` |
| Benchmark | iterators of the recursion, list of files, results | `scan_directory`, `scan_recursive`, `run_benchmark` | `utils/benchmark.cpp` |
| Suggestions | distance table, nearest candidate so far | `levenshtein_distance`, `find_suggestion` | `utils/terminal.cpp` |
| Terminal formatting | none | styles, icons, `format_bytes` | `utils/terminal.cpp` |

**How they interact.** `main` turns the arguments into options and calls one
handler; where it does not know a name it asks for a suggestion. A handler calls
a codec through two streams. The encoder and the decoder never meet: they run in
different processes, perhaps on different machines, and share only the payload
and the `original_size` in the header. For Huffman not even the tree is shared;
both sides build it from the frequency table. Commands share the file system,
one after the other or at once, and a pipe when `-` is used. The benchmark walks
over directories that other programs change.

**What is hard.** The program has one thread, so the difficulties lie elsewhere:
state carried across buffer boundaries (a run, a pair, the bits of a byte);
integer widths (255 equal bytes, 256 distinct values, sums of 64-bit numbers
from a file); two programs that must take the same decisions from the same
table; archives that were truncated, extended or changed; reads and writes that
fail half way or only when a stream is closed; commands killed between
truncating a file and filling it; two commands on the same files; derived names
that are empty, `-`, or the target itself; links that lead back up; option
values that look like options. `PROJECT.json` lists each of these at its line.

**What makes each part correct.**

* Codec: an intact archive is restored exactly and rejected only if the output
  fails; truncation and a wrong size never pass; what has been written is always
  a prefix of the original; the output never outgrows the announced size; every
  call returns.
* RLE: as few blocks as possible. Huffman: an optimal, complete, prefix-free
  code; one outcome of `build_tree` whatever the standard library's heap does.
* Commands: success means that the files hold what was asked for; what an
  interrupted `compress` leaves is never accepted; a failing `decompress` leaves
  no half-written output; a file with a wrong header costs nothing; the target
  of a command without `-o` survives.
* Commands at once: an archive holds what was read; whoever reads a growing
  archive gets all of it or an error; nothing is lost without `-o`.
* CLI: what the handler gets is what was written, in whatever order.
* Benchmark: every file that stays in its place is reported, under its real name,
  for each path that leads to it; the names of files found without a link are in
  order and different; the scan ends.
* Suggestions: the answer is the first of the nearest candidates, and there is one
  if any is near.

## 2. The modules

```
ByteStream ── ArchiveContract                       what an archive promises
   ├─ RleCompress ┐
   ├─ RleDecompress ┴─ RleArchive ── RleArchiveInv ── MCRleArchive
   │                                      └─ RleArchiveProofs
   ├─ HuffmanTree ── HuffmanBuild ── MCHuffmanBuild
   ├─ LittleEndian ── LittleEndianProofs (sums, powers, bytes)
   │      │            └─ HuffmanProofs (of HuffmanBuild and HuffmanArchive)
   │      ├─ HuffmanFormat ── HuffmanCompress ┐
   │      │        └──────── HuffmanDecompress ┴─ HuffmanArchive ── MCHuffmanArchive
   │      └─ LacHeader ── CommandState ── CompressCommand ┐
   │            │               └──────── DecompressCommand ┴─ Session ── MCSession
   │            │                                                └─ SessionInv ─┐
   │            ├─ LacHeaderProofs (with LittleEndianProofs) ─── SessionProofs ─┘
   │            ├─ SharedFiles ── MCSharedFiles
   │            │      └─ SharedFilesInv ── SharedFilesProofs (with LacHeaderProofs)
   │            └─ MCCodecs (small codecs for MCSession and MCSharedFiles)
Benchmark ── MCBenchmark
   └─ BenchmarkProofs
CommandLine ── MCCommandLine
   └─ FrontEndProofs (with Suggestion)
Levenshtein ── Suggestion ── MCSuggestion
```

* **ByteStream**: bytes, `uint64_t` sizes, and how far one `in.read` of a buffer
  gets. `MaxByte`, `BufferSize` and `SizeMod` (255, 65536 and 2^64 in the code)
  are parameters everywhere, so that an instance with 2-bit bytes meets every
  boundary.
* **RleCompress / RleDecompress**: one action per branch of the loops of
  `rle.cpp`, among them the refill of a buffer (`FillBuffer`, `FetchBuffer`),
  the block that is cut because the counter is full (`CloseRun`), every flush
  and every failing write. `cuts` is a history variable: where in the input the
  blocks of the payload end.
* **HuffmanTree**: `HuffmanNodeComparator`, one round of `build_tree`, and
  `generate_codes`. A tree is a frequency and the codes of its leaves; `Join`
  puts a bit in front of every code, which is what walking from the finished
  root collects. `MergeRound` is the *set* of heaps a round may leave, over all
  orders in which `pop_heap` may take elements the comparator does not order.
* **HuffmanFormat, HuffmanCompress, HuffmanDecompress**: the frequency table
  byte by byte with its widths, the two passes of the encoder, `BitWriter` and
  `BitReader` bit by bit, and each check of the decoder. The position in the
  tree is the path of bits from the root (`path`).
* **RleArchive / HuffmanArchive**: the life of an archive. `Store` hands the
  payload and the size to the decoder intact, truncated, extended, with another
  size, or overwritten in a place.
* **ArchiveContract**: the abstract specification. It has only the source, what
  happened to the archive, the output so far and the verdict. A decoder restores
  the source from left to right; it accepts an intact archive and may accept
  damage only of the kinds in `Unnoticed`: altered bytes for RLE, altered bytes
  and bytes after the end for Huffman.
* **LacHeader**: the header as a function to and from bytes.
* **CommandState**: the file system (a function from paths to contents; a path
  is a sequence of name parts, so that cutting `.lac` off is `Front`), standard
  streams, and the state of the running command. File streams have a buffer:
  bytes in `pending` are lost when the command is killed and may fail to reach
  the file when it is closed. `lost` is a history variable set when the code
  does not look at an error; `before` holds the files as the command found them.
* **CompressCommand / DecompressCommand**: one action per step of
  `handle_compress` and `handle_decompress` at which the outcome can differ:
  open, read, try, create, write, close, report, remove. The codecs are
  operators here (`Payload`, `Restored`, `Accepts`); `CodecAssumption` states
  what is used of them, which is what the archive modules establish.
* **Session**: `main` and `handle_info`; commands one after the other, each of
  them possibly killed between any two steps.
* **SharedFiles**: the same two commands at the granularity of system calls,
  several at once, with an editor. Names lead to inodes, so that a command goes
  on with a file another has removed; reads and writes have their own offsets.
  `decompress` may start while the archive it reads is still growing. Every system
  call may fail: opening the input or the output (`OpenInputFails`, `CreateFails`),
  reads, writes, and the removal of the output, whose error code nobody looks at
  (`RemoveOutput`).
* **CommandLine**: one action per branch of the loop of `parse_cli_args`.
  `IsRefused` and `ReadAsWritten` say what a command line means without reading
  it step by step; the runs compare the two.
* **Benchmark**: directories as a graph with links; the recursion as a stack of
  iterators, whose entries are listed at opening and looked up when their turn
  comes (`Way`: name by name, through at most `MaxLinks` links); `SortFiles`, which
  puts each path where the number of smaller ones says; the files skipped because
  they are gone or a trial fails; the report. A result's name is what
  `std::filesystem::relative` makes of the path (`AddResult`): both paths are
  replaced by the places they lead to, links resolved (`RealPath`, from the
  `location` of a node), and the one is given as seen from the other (`Relative`).
  So a file found through links is listed again under its real name, which may
  begin with `..`. The path itself, which the code does not keep, stays beside the
  name in the model. `Measure` and `AddResult` are two steps because the file may
  vanish in between. `RemoveNode` is another program; with a directory goes all
  that is in it.
* **Levenshtein, Suggestion**: the table cell by cell, the candidates one by
  one. `EditDistance` is the reference definition, by alignments.

Definitions marked *Mutant* are plausible mistakes in the code. No specification
uses them; replacing the mapped definition by one makes a property fail.

## 3. What is checked

| Run | Question | Instance | States |
|---|---|---|---|
| `rle_archive` | Is RLE a correct archive? | bytes 0..3 (a run is full after 3), buffers of 3, all inputs of up to 6 bytes of two values | 112 972 |
| `huffman_build` | Is `build_tree` determined, optimal, complete? | 5 byte values, every table of frequencies 0, 1, 2, 3, 5, `SizeMod` 16 so that sums wrap | 12 501 |
| `huffman_archive` | Is Huffman a correct archive? | bytes of 2 bits, frequencies of 2 bytes, buffers of 2; inputs of up to 4 bytes, all four values once, a chain tree | 98 100 |
| `session` | Do the commands keep the user's files? | two commands out of 18, eight kinds of initial files, file buffers of 5 bytes | 500 278 |
| `shared_files` | And two of them at once? | all pairs of five commands on `notes` and `notes.lac`, one edit, three kinds of initial files | 353 853 |
| `command_line` | Is a command line read as written? | all lists of up to 3 of 15 arguments; a command with up to 4 of the 7 whose places matter | 47 242 |
| `benchmark` | Does the scan find all and end? | 14 trees of 5 nodes with links up, down, across and to a file outside, one node removed at any time | 91 502 |
| `suggestion` | Is the nearest candidate proposed? | all inputs of up to 6 letters of two, four candidates | 12 176 |
| `huffman_table_corruption` | (violated) Is a corrupted table rejected? | as `huffman_archive`, shorter inputs | |
| `suggestion_threshold` | (violated) Is only what is near proposed? | as `suggestion` | |
| `json_on_stdout` | (violated) Is `--json` output JSON? | as `session`, one command | |
| `benchmark_unreadable` | (violated) Does success mean access? | as `benchmark` | |

**Why the bounds are enough.** The boundaries are relative: a run against
`MaxByte`, a pair against the buffer, a code against `BitsPerByte`, a sum
against `SizeMod`, an output against `FileBuffer` or `OutBuffer`, a path against
`MaxLinks`, a distance against the threshold. Each instance is larger than each
of its boundaries: runs of 3, 4 and 6 bytes with a 3-byte counter, pairs split
by a 3-byte buffer, outputs of less than, exactly and more than a buffer,
256-entry tables as 4-entry ones, codes shorter and longer than a byte, archives
that need more than one read and write, paths with one link more than the kernel
follows. Two commands are the shortest session in which one works on what
another left, and the smallest number that can interfere; the initial files
supply what longer histories would. Named bounds: `MaxLen` and `Letters`
(inputs), `Counts` (tables), `MCTails`, `MCPatches` (damage), `MaxCommands`,
`MaxEdits`, `MaxRemoved`, `MaxLength` (suggestion inputs), the two lengths in
`MCArgumentLists`.

**Properties.**

* Codecs. `ImplementsContract` is the refinement of `ArchiveContract`: accepted
  means restored, intact means accepted, the output is a prefix. `IInv` and
  `WithinDeclaredSize` bound the decoders for any payload. `FewestBlocks`
  compares the RLE payload with every way to cut the input into blocks.
  `SameTree` compares the decoder's heap with the encoder's; `CurrentIsNode`
  holds for any table, also one with repeated values and zero frequencies;
  `CodeIsOptimal` compares with every length assignment that satisfies Kraft's
  inequality; `PayloadIsPacked` fixes the number of bytes of the bit stream.
* Commands. Those of `Session` are the list of section 1. `NothingIsLost` is
  about commands without `-o` on a file that has no archive yet; with `-o` the
  user may overwrite what he likes, and an older archive is replaced. Its premise
  that one command compresses, or all do, is always met by the two commands of
  the run and necessary for three: when two `compress notes` and one `decompress
  notes.lac` run at once, `decompress` empties `notes`, the second `compress`
  reads that and archives it over the first archive, and `decompress`, which then
  finds less than its header promised, removes `notes`. Both `compress` succeed
  and the contents are gone.
  Errors the code does not look at are exempt where a property speaks of how a
  command ended: in `Session` those of the last flush, of `std::cout` and of
  `remove` (`lost`), in `SharedFiles` failing writes (`trouble`), among them the
  last ones, and kills for `NothingIsLost`. A command may then report success though
  its output is cut off, which nothing in the repository denies.
  `PartialArchiveRefused` has no such exemption: what is left of an archive is not
  taken for one later. In `SharedFiles` failing reads, opens and removals are exempt
  nowhere.
* The others compare with a declarative definition: `RefusedForCause` and
  `ReadAsWritten`; `DistanceIsMinimal`, and `NearestIsProposed`, which asks for a
  proposal within the threshold of the comment (`OnlyNearIsProposed` is the other
  half, and fails); `FilesInPlaceAreMeasured` (the paths in the graph of what was
  not removed, the names by the nodes they lead to). `ResultsInOrder` is about the
  names of files found without a link, also of those gone when they are named: the
  others follow the order of paths that the report does not show.

**Fairness.** `EveryCallReturns` is checked under weak fairness of `Compress`
and `Decompress`, `ScanEnds` under weak fairness of `Run`: each is a loop of a
single thread that waits for nothing but file I/O, so a call that can go on
does. `Store`, `Abort` and `RemoveNode` are not fair: nobody has to decompress,
fail or interfere. The session and the simultaneous commands state no liveness.

**Deadlock** is not checked: every model ends when its last call has returned.

### What the code does and its documentation says

With a run each:

* *Table corruption.* `CHANGELOG.md:39` promises a non-zero exit. The only check
  is the sum of the frequencies (`huffman.cpp:260`); a table altered without
  changing the sum is accepted with another output.
* *Suggestions.* The comment at `terminal.cpp:187` lets a candidate pass that is
  within 2 edits or 40 % of the length; the next line takes half of the length.
  `112` is proposed for `111112`, 3 edits away where 2 are allowed.
* *JSON.* `CHANGELOG.md:20` and the usage text offer `--json` for `compress` in
  pipelines; with `-` as destination the archive precedes the JSON on the same
  stream (`main.cpp:273-310`).
* *Unreadable directories.* `benchmark.hpp:51`: false if the directory could not
  be accessed. One that cannot be listed is taken for an empty one
  (`benchmark.cpp:22`).

Seen while modelling, without a run of their own: `compressor.hpp:29` announces
`std::nullopt` on corruption, and RLE and the empty Huffman archive do reject
bytes after their end, but other Huffman archives do not
(`huffman.cpp:308-337`), which is why the contract of `HuffmanArchive` has
"extended" in `Unnoticed`; the report of a benchmark names a file that links lead
to several times (`benchmark.cpp:149`); names are printed into JSON without
escaping
(`benchmark.cpp:189`, `main.cpp:302, 414, 477`); the styles ask whether
`std::cout` is a terminal although errors go to `std::cerr`
(`terminal.cpp:73-123`). `decompress -o` onto its own input succeeds only for
archives that fit the stream's read-ahead; longer ones are refused, and both are
in the models.

## 4. What is proved

All constants are arbitrary; only the named assumptions are used, and TLC
evaluates each of them on the instances. Most are types. The others:
`InputsAssumption` bounds the length of an input below 2^64, without which the
RLE size check could wrap. `HuffmanAssumption` and `HeaderAssumption` say that
the fields are as wide as the numbers in them: a byte has `BitsPerByte` bits, a
size fills its `FrequencyBytes` or `SizeBytes`, and the number of different
bytes fits into `CountBytes`. `BenchmarkAssumption` says what a file system is:
finitely many nodes, entries only in directories, finitely many in each, a name in
a directory once, and whatever is not a link is where its name says, so that no
directory is below itself unless by a link.
`CodecAssumption` says of the codecs that an intact payload is restored and
a truncated one refused, which the archive modules show. The theorems about
`Session` have one hypothesis more, `CodecsYieldBytes`: codecs turn bytes into
bytes. Those about `SharedFiles` have `CodecsRestore`, the same promises for a
codec that is given its archive bit by bit, and, where contents are compared,
`ReadsFit`: what was read fits into memory.

**RLE** (`RleArchiveProofs`). `TypeCorrect` needs one fact
beside the type invariant: `at > 0` while a value is being copied. The safety
theorems follow from `IInv` (`RleArchiveInv`), because what the decoder has
restored cannot be compared with the input without knowing how the payload
describes it:

1. `BlocksInv`, `RunInv`: the payload tiles the input; block *k* stands for a
   stretch of equal bytes between two cuts, and the run in progress continues
   the tiling up to `pos`.
2. `StreamInv`: what each kind of damage leaves of the payload.
3. `PositionInv`: the decoder stands before a block, within one (its count read,
   its value not), or copies the value of one; `total` is the cut there.
4. `SizeInv`: `total + count` stays within the announced size and, because the
   input is shorter than 2^64 - 255, does not wrap.
5. `RestoredInv`: what is in the sink and the buffer is a prefix of the input.

The encoder's steps keep (1), `Store` establishes (2) and (3), the decoder's
steps keep (3) to (5); there is a lemma per step. A truncated payload ends within
a block or at an earlier cut, so the total differs from the size; bytes after
the end begin a block that does not fit. From `IInv` follow
`AcceptedIsOriginal`, `RejectedForCause`, `OutputIsPrefix`, `WithinDeclaredSize`
and the refinement `Spec => ImplementsContract`.

`FewestBlocks` needs one fact more, `LongestInv`: a block ends where the counter
is full or the value changes. Then a way to cut the input has a cut in every
block, because within a block's reach from its start no run goes on; taking the
first such cut is an injection from the blocks into the cuts.

**build_tree** (`HuffmanProofs`). `BuildTypeOK`, `LeavesPartition`, `PrefixFree`
and `NoMissingChild` are inductive together: two nodes of the heap have no leaf
in common, so a bit in front of their codes keeps the codes apart and makes the
new root complete. `RoundIsDetermined` follows: two nodes the comparator does
not order would have the same smallest value, hence a common leaf. That a set of
values has a smallest one comes from the library's theorem that < is
well-founded on the natural numbers. The lemmas are about any heap (`Forest`):
the encoder and the decoder use them, too.

The same heap shows that the loop gets to its end (`StopsAtTreeHolds`,
`RoundsShrinkHeap`): among any two nodes one may be popped, so a round is
impossible only when the tree is finished, and every round takes two nodes and
puts back one.

`CodeIsOptimal` is proved for every table whose sum does not wrap, and for
competitors of any length (`OptimalForAnyLimit`). The invariant (`CheapInv`) says
that whatever a competing code costs, the nodes now in the heap can be hung at
depths that satisfy Kraft's inequality and cost, together with the bits already
spent below the nodes, no more. In the beginning the nodes are the leaves and the
depths the competitor's. For a round three lemmas rearrange the depths without a
loss: the smallest of the depths that cost no more have two nodes at the bottom
(`TwoAtBottom`: a single one could move up, as its share is the only odd multiple,
`LoneMovesUp`); the two lightest may trade places with them (`LightestAtBottom`,
`DepthsSwapped`); and two nodes at one depth become their parent one level higher,
for what they weigh (`PairBecomesOne`, `JoinCost`). In the end one node is left,
and what is spent below it is the cost of the code. What sums and
powers satisfy is in `LittleEndianProofs`.

**Huffman archive** (`HuffmanProofs`). First what holds of any input and
any stream: `TypeOK`, `WithinDeclaredSize` and `CurrentIsNode`, one lemma per
action of the encoder, the decoder and the store. The encoder's part of `IInv`
says that the leaves of its heap are the values that occur in the input, so that
every byte the second pass reads has a code. The decoder's part has `StartInv`
(nothing is decoded or written before its stage), `TreeInv` (the heap is a
forest, then a tree with at least one node in which the path leads to a node) and
`CountInv` (what is decoded is in the buffer or in the sink). The central lemma
is `PathGoesOn`: where a path ends before a leaf, the code it leads to goes on,
and because no child is missing some code goes on with the other bit. Nothing is
assumed of the table the decoder reads: repeated values, sums that wrap and
frequencies of zero are covered.

Then what connects the two sides:

1. `SameTree`. `BuiltFrom(table, heap)` says that some chain of rounds leads
   from the leaves of the table to the heap. A round has one outcome, so two
   chains agree as far as both go, and both end when one node is left
   (`TreeIsUnique`). `WriterInv` and `ReaderInv` keep `BuiltFrom` for the
   encoder's and the decoder's heap and say which entries of the table have been
   read; `TableIsReadBack` gives each of them back.
2. `CodingInv`: there are a sequence of bits, the place of each of them in the
   payload, and for every byte of the input the end of its code in the bits. The
   encoder's bits are those codes, one behind the other; each is in the payload
   at its place, or still in the byte `BitWriter` holds. Places follow each other
   without a gap, from the byte behind the table on.
3. `RestoreInv`: the decoder's place is that of the bit behind the codes of the
   bytes it decoded, as far into the next code as its path leads; what it decoded
   is a prefix of the input; the sum of the frequencies read so far is the number
   of places in the input that have one of their values, which makes the sum
   check succeed exactly if the size is right; and an archive is rejected only for
   damage or because the output fails.

A step that reads a bit finds the bit of the code because the tree is the
encoder's; a leaf is reached exactly at the end of the code because no code is a
prefix of another. `ArchiveInductive` puts the parts together and
`HuffmanImplementsContract` maps each step to one of `ArchiveContract`.

`PayloadIsPacked` follows from `CodingInv`: the ends of the codes solve the
recursion of `CodeBits`, so its value is the number of bits; a place's byte and
bit number say how many bits stand in front of it (`PlaceOfBit`), so the payload
ends with the byte of the last one.

**Suggestions** (`FrontEndProofs`). Of `levenshtein_distance`: type
correctness; every filled cell lies between the difference and the larger of the
two lengths (`WithinLengths`); neighbouring cells differ by one at most
(`OneEditApart`); a cell is 0 exactly for equal prefixes (`ZeroIffEqual`), where
the last two support each other. `DistanceIsMinimal` compares with every
alignment: a cell is the number of edits of one alignment of its prefixes, and no
alignment needs fewer. For the lower bound an alignment is cut at its last
character, which leaves an alignment of the prefix above, to the left or on the
diagonal, with one edit fewer or, on the diagonal of equal characters, as many.
`NearestIsProposed`: the nearest candidate so far is the first of the nearest of
those compared (`ProposedUpToHalf`, with the threshold of the code, from which that
of the comment follows). The facts about the table are proved once for any table
(`TableOK`) and used by `Spec` and by `SearchSpec`.

**Command line** (`FrontEndProofs`). All three properties, for argument lists of
any length. `CommandLine` says what a command line means by places: which hold
values, which are the command, the target and extra arguments, and where reading
stops, all as functions of a bound. The invariant (`ParseInv`) says that the
options hold what the places in front of the next argument mean (`Understood`),
that no help word and nothing refusable is among them and that the argument
before is no option whose value is still to come (`Readable`). Each branch of the
loop has a lemma: one place more, or two, changes the places and the options in
the same way. A refusal persists because later arguments take no earlier place
(`PlacesStay`). Which places hold values is a recursive function; that it exists
and is decided from left to right is proved from the least place where it would
not be (`ValuesDecided`). `LiteralsAreStrings` (`""` and `"."` are strings) is
assumed by name because no prover knows it; TLC evaluates it.

**Numbers and bytes** (`LittleEndianProofs`, `HuffmanProofs`). `BytesAreReadBack`:
the first k bytes of a number add up to its remainder by the k-th power of the
base (`LowestBytes`), because one byte more is one digit more (`NextDigit`); of a
number that is below the power of the width that is all of it. Any bytes, also
those of a corrupt archive, make a number that fits (`FromBytesFits`).
`TableIsReadBack`: value by value the entries written so far list, in order, the
values met that occur, each with its frequency (`EntriesOf`, `EntryAppended`); with
the count in front every entry is where the decoder looks for it. The models
use a recursive function for powers (`Power`) and the library's sums instead of `^`
and shifts, whose laws no prover knows; that these functions satisfy their
recursion is proved, by induction through sets of numbers (`EveryNumber`) and of
finite sets (`EverySubset`), in `PowerIsDefined`, `SumsExist` and `FlattenSteps`.

**Header** (`LacHeaderProofs`). `HeaderIsReadBack`: from any front part of an
archive that holds the header, `read_header` gets the fields that were written,
and behind them is the front part of the payload.

**Session** (`SessionInv`, `SessionProofs`). All seven properties of the run, for
sessions of any length. The invariant says in `PlaceInv` that only the
destination can differ from what the command found, and does not before it is
created; in `HeaderInv` that `decompress` creates it only behind a valid header;
in `OutputInv` that the output is the shortest archive, or what an accepted
payload decodes to; in `ContentInv` that what is in the file and in the buffer
together is the output, unless an error went unnoticed. There is a lemma per
action, with a step per part. `TargetSurvives` follows because a suffix appended
or cut off changes a name's length; `PartialArchiveRefused` and
`DecompressRestores` because a front part of an archive leaves, behind the
header read back, a front part of the payload, which a codec accepts only if it
is all of it. That covers `decompress` onto its own input, too: the read-ahead
is then too short to be accepted unless it held the whole archive.

**Simultaneous commands** (`SharedFilesInv`, `SharedFilesProofs`). All five
properties of the run, for any number of processes. What a file holds depends on who has written to it,
so the invariant speaks of writers: a file only one command has written to holds
exactly what that command has put there (`OwnInv`); a file to which several
`compress` commands write the same archive holds at least what the last one to
empty it has put there, and nothing but that archive (`AlikeInv`); what was read
of a new archive is a front part of it (`FreshInv`). What a decoder does
with a stream that grows under its hands follows from `CodecsRestore`: it never
takes back what it has decided, and refuses a proper front part. `NothingIsLost`
has an invariant of its own (`NotesInv`), inductive with the others: as long as
no archive has been made there is only the file, which nobody can decompress, so
that `compress` gets all of it; from then on the archive is written by that
command alone, whatever becomes of the file. One description of a step
(`OwnStep`: nothing but what has the command's own output name, its own output's
inode and its own state changes) shows that the other commands do not get there.

**Benchmark** (`BenchmarkProofs`). Both invariants of the run, for any file system with links
in circles and any nodes removed at any time. `IInv` has, beside types and phases:

1. `ListInv`: the open directories lie below each other, none has the way to those
   below it left to visit, and what each has left is in the directory its path
   leads to.
2. `FoundInv`: no path is found twice, and none that is found is still ahead of an
   open directory.
3. `OrderInv`: the paths of the results are in order; what is still to be measured
   is in order, too, and behind all results.
4. `NamesInv`: while a path leads somewhere, its result has the name of that place,
   and a path without links is its own name, gone or not.
5. `CoverInv`: every path that leads to a text file now is ahead of an open
   directory, in the list, among the results, or a trial failed.

`NameIs` is the lemma about names: `std::filesystem::relative` of a path is what
`lexically_relative` makes of the node's location, and of a path without links
below the directory it is the path (`RealPathIs`, `RelativeBelow`), however much of
it still exists. A removal keeps `CoverInv` because a path leads to at most one place (`OnePlace`),
and removing nodes only takes places away (`FewerPlaces`): a file that is in its
place now was in it when its directory was listed. That `SortFiles` is a sort is
proved by ranks: `Precedes` is a strict total order, so different places have
different ranks, and an injection of a finite set into itself leaves no rank out.
`Way` and `ListedPaths` are recursive functions. That they exist and satisfy their
recursion is proved by induction through sets of numbers and of paths
(`AllNumbers`, `AllPaths`), which needs no operator as parameter.

**The loops end** (`RleArchiveProofs`, `HuffmanProofs`, `BenchmarkProofs`). Every
run's liveness rests on a measure that steps lower, and that they do is a theorem
for every value of the constants.

1. RLE, `CallsAdvance`: bytes still to be read into the buffer, bytes still to be
   processed and copies still to be pushed, as one number (`EncoderWork`,
   `DecoderWork`). Each step of a running call lowers it. A byte of the payload
   counts for `MaxByte + 1`, as a count may announce that many copies.
2. Huffman, `CallsAdvance`: each step goes on to a later stage, or a loop has fewer
   nodes to merge, entries to read, bytes to encode and bits of the last one, or
   bytes to write and bits to read. The last two are added: a leaf is reached with
   the last bit read, except in the tree of one leaf, whose bytes are written without
   reading any. As nothing is assumed of the stream, no payload keeps the decoder
   busy for ever.
3. Benchmark, `OpenIsBounded` and `BenchmarkAdvances`: `scan_recursive` has no
   list of the directories it was in, so only the kernel's limit of links in a path
   ends a circle. `LevelsPassed` bounds a path: each name leads one level down, and
   only a link may lead back up. So no more than `MaxDepth + 1` directories are open,
   each with finitely many entries, and a step uses one up without giving back any
   to the directories above.

**Only model-checked.** Liveness (`EveryCallReturns`, `ScanEnds`): that a call
that has not returned can take a step needs ENABLED, and that it takes one needs
fairness. What the theorems above add is that, in any instance, it cannot take steps
for ever. Every safety property of the passing runs is a theorem about the
specification the run checks; `AcceptedIsOriginal` has no place of its own in a run,
being a part of `IInv`.

## 5. What is not modelled

* *Terminal formatting*: styles, icons, the progress line and `format_bytes` are
  functions of their arguments and the environment, without steps. Ratios, times
  and the layout of tables and reports likewise: a report is one value.
* *Other places of the simultaneous commands*: standard streams, `info` and the
  trial of both algorithms are in `Session` only. `SharedFiles` states no
  liveness: a `decompress` whose output is its input may go on as long as it
  finds what it has just written.
* *Read errors in `Session`*: `compress` ends by an exception of
  `istreambuf_iterator`, `decompress` takes them for the end of the input; both
  are in `SharedFiles` and, for the benchmark, in `Abort`.
* *The first lines of the codecs*, `if (!in || !out)`: no caller hands them a stream
  that has failed.
* *Memory exhaustion*: the codecs would end with `std::bad_alloc`.
* *`main.cpp:389-393`*: unreachable, `read_header` accepts two algorithms only.
* *Files and directories that appear* during a benchmark: a scan may report them
  or not, and nothing promises either.

## 6. Plan

Done: every component with state of its own, the refinement of the archive
contract by both codecs, checked and proved, and the proofs of section 4. What
would add most next:

* A variant of `SharedFiles` with standard streams and `info`.
