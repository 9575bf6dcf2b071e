# Parabix in TLA+

This directory specifies, model-checks and partly proves the program in this
repository: a toy implementation of Parabix, regular-expression matching on
transposed bit streams. A pattern is a list of character classes, each matched
once or starred (`a[0-9]*z`). The program counts the positions of an input at
which a match of the pattern ends.

Paths below are relative to the root of the repository. `PROJECT.json`, where they
begin with one more `src/`, lists the components, runs, hazards and theorems and,
for every definition, the lines it stands for.

## 1. The system

### Parts

| part | source | state | operations |
|---|---|---|---|
| `ReParser` | `src/parser/re_parser.cc` | cursor `pos_`, text `input_`, list `cc_list_`; kept from one pattern to the next | `parse`, `parseRanges`, `forward`, `forward_match` |
| `CC` | `include/parser/cc.h` | ranges, star | `match` (signed characters) |
| `CCCompiler`, expression trees | `src/codegen/cc_compiler.cc`, `include/codegen/ast.h` | none | `compile`: ranges to a tree of `Bit`, `Not`, `And`, `Or`, `Selection`, constants |
| `ExpressionCompilerCpp` | `src/codegen/expression_compiler_cpp.cc` | text, counter and names of `compile` | `execute`: a tree on eight basis words; `compile`: a tree as a C++ function, called from no code that is built |
| `ExpressionBuilder` | `src/codegen/expression_builder.cc` | cache from the text of a tree to its value | `codegen` |
| `OperationBuilder` | `src/codegen/operation_builder.cc` | none | the instructions of `Advance` and `MatchStar` |
| `ParabixCompiler`, `JIT` | `src/codegen/parabix_compiler.cc`, `jit.cc` | module, address of `run` | `compile`, `run` |
| the scanners | `src/parabix/parabix.cc` | `cc[]`, `marker[]`, `carry[]`, `matched`, the block | `parabix_cpp`, `parabix_llvm` |
| `transpose_sse` | `include/parabix/bit.h` | none | 64 bytes to eight basis words |
| `BitStream`, `marker.h` | `src/stream/bit_stream.cc`, `include/operations/marker.h` | one word per block | set, `&= |= ^= += >>= ~`, `pop_count`; `advance`, `match_star`, `scan_thru` |
| `vgrep` | `tools/vgrep.cc` | one stream per class and per marker | the matcher on whole streams |
| `vgrep_block`, `vgrep_llvm` | `tools/` | none | one call of a scanner |
| `benchmark` | `tools/benchmark.cc` | results of four matchers | `std::regex`, `DFA`, both scanners, the comparison |
| `generator` | `generator/main.cc` | a file | writes random strings again and again, padded to whole blocks |
| `simd.h` | `include/operations/simd.h` | none | `advance` and `match_star` on vectors of bytes; included by no source file |
| `OperationCompiler`, `ExpressionCompiler` | `src/codegen/` | | not reached from a tool that is built |

### How they interact

Everything happens by calls, in one thread. A tool reads a file, calls a
scanner (or, in `vgrep`, is one) with the text of a pattern and the input. The
scanner calls `ReParser`, has each class compiled by `CCCompiler`, and goes
through the input in blocks of 63 bytes. A block is transposed into eight basis
words; the trees are evaluated on them, giving a word per class with a 1 at
each byte of the class; then each item of the pattern takes the marker word
before it to the marker word after it. The words have 64 bits: bit 63, the
*spare bit*, is where an addition or a shift puts what belongs to the next
block. It is moved to `carry[k]`, and that is all that one block hands to the
next. `parabix_cpp` interprets the trees; `parabix_llvm` has a function `run`
compiled for the whole pattern and calls it on each block. `vgrep` asks `CC::match`
about every byte instead and works on streams as long as the input.
`generator` writes the files that `benchmark` runs the matchers on.

### What is hard

There are no threads, callbacks, messages or persistent files, so nothing
interleaves and nothing is recovered. What is hard is that one bit of a word
means something about bytes that may lie several blocks back:

- **across blocks**: carries produced in one block and consumed in the next,
  one per item, in the right order, and through a block that a star covers
  from end to end;
- **at the borders of a word**: the spare bit, the last payload bit, an addition
  whose carry runs through the word, the input that fills its last block, the
  64th byte that `transpose_sse` reads whatever is there;
- **two implementations**: the interpreted and the compiled star read the carry
  at different points; `vgrep` carries in yet another way; the benchmark says
  that all agree;
- **stale words**: `cc`, `marker` and `carry` outlive a block, the parser's list
  a pattern, the builder's cache an item;
- **trees rewritten on the way**: the ranges of a class become comparisons split
  two bits at a time, constants, De Morgan's laws, factored terms;
- **from a text to a number**: the parser, the class compiler, the transposition
  and the scanner each change the representation; a mistake of one shows only in
  the number that a tool prints;
- **failing half-way**: a JIT lookup that fails shows at the first block only, an
  assertion of the parser has a side effect, an empty pattern reads through a
  null pointer.

What makes each part correct:

- scanners: a marker bit is set exactly where the items so far match a text
  ending there, wherever the blocks are cut; a carry says exactly that an item
  is still matching across the boundary; the count is the number of marked ends;
  the scan ends;
- benchmark: the hand-written automaton counts what `std::regex` counts, and so
  do the scanners;
- parser: the items of the grammar, in order, or a refusal when there are none;
  every call ends;
- classes: a tree, and the code with shared values, accept what `CC::match` does;
- bit streams: one long word, whose blocks do not show;
- vgrep: the markers are the ends of matches, and their number is printed;
- the three tools: they print the same number, the one the regular expression means;
- generator: strings that match once or never, in a file of whole blocks that has
  the size asked for;
- generated C++: functions that a compiler takes, that accept the class, and that owe nothing
  to the object's earlier calls, except that their text is returned again;
- `simd.h`: what `marker.h` computes, as far as it gets.

## 2. The modules

Words are sets of bit positions (`AND` is `\cap`, `pop_count` is `Cardinality`),
and a class is the set of its bytes. What the scanners do with words is
modelled bit by bit, because that is where they could be wrong; addition is
defined by its carry chain, modulo `2^(BlockSize + 1)`.

| module | of | state and actions |
|---|---|---|
| `BlockWord` | machine words, `extract_last_bit` and `clear_last_bit` | operators |
| `Matching` | patterns, and the reference: `MatchEnd`, `Marked`, `Pending` | operators |
| `MatchCounter` | abstract: what a scanner promises | `ScanBlock`, `Finish`, `Fail` |
| `ParabixBlocks` | what both scanners share, and their properties | `Init`, `CountBlock`, `Return`, `AbortOverread`; instance of `MatchCounter` |
| `ParabixCpp` | `parabix_cpp` | `EnterBlock`, `MatchStar`, `Advance`, `AbortEmptyPattern` |
| `OperationBuilder` | `OperationBuilder` | `BuildAdvance`, `BuildMatchStar` |
| `ParabixLlvm` | `parabix_llvm`, `ParabixCompiler`, the JIT as its caller sees it | `Compile`, `CompileThrows`, `CallRun`, `RunThrows`, `RunFragment` |
| `Benchmark` | `benchmark.cc`; composes `ParabixCpp` and `ParabixLlvm` | `StdRegex`, `Dfa`, `Call`, `Scan`, `Returned`, `Terminate`, `Compare` |
| `ReParser` | `ReParser` | `Parse`, `SingleCharacter`, `StartRange`, `ParseRange`, `AssertFails`, `EndRange`, `Return` |
| `BitwiseExpression` | `ast.h` and `ExpressionCompilerCpp::execute` | trees, `Execute` |
| `ByteRange` | `CC::match` on ranges, and the bits in which bounds differ | operators |
| `ClassMeaning` | abstract: what the compilation of classes promises, a tree being the set of the bytes it accepts; extends `ByteRange` | `CompileRange`, `FinishClass`, `Abort`, `Finish` |
| `CCCompiler` | `CCCompiler`; extends `ByteRange`, instance of `BitwiseExpression` | the constructors and range comparisons |
| `Transpose` | `transpose_sse`: registers, shifts, masks | operators |
| `CharacterClass` | compiled classes, and the basis words of all bytes; extends `CCCompiler`, instance of `Transpose` | operators |
| `ExpressionCompilerCpp` | `ExpressionCompilerCpp::compile`, and what C++ makes of the text; extends `CharacterClass` | `First`, `Other`: one `compile` each |
| `ClassCodegen` | `ExpressionBuilder` and the class part of `compileRun`; extends `CharacterClass`, instance of `ClassMeaning` | `FirstRange`, `NextRange`, `GenerateClass`, `AbortEmptyBitPattern`, `Return` |
| `BitStream` | `BitStream` and `marker.h` | operators on streams |
| `LongWord` | abstract: a bit stream is one word | `Set`, `Combine`, `Shift`, `Advance`, `MatchStar`, `ScanThru`, `Swap` |
| `SimdMarker` | `simd.h` | operators |
| `BitStreamObject` | the calls on streams, in any order; instance of `LongWord` | one action per call |
| `Vgrep` | `vgrep.cc`; extends `BitStream` and `Matching` | `MatchClasses`, `MatchStar`, `Advance`, `PrintMatched`, `AbortEmptyPattern` |
| `Grep` | `vgrep_block.cc`, `vgrep_llvm.cc` and `vgrep.cc`, from the text to the number; composes `ReParser`, `CCCompiler`, `Transpose`, `ParabixCpp`, `ParabixLlvm` and `Vgrep` | `StartParse`, `Parse`, `CallCpp`, `CallLlvm`, `MatchStreams`, `Step`, `PrintMatched`, `Refuse`, `Crash` |
| `Generator` | `generate` | `LeaveOut`, `PushOne`, `PushStar`, `EmplaceBack` |
| `GeneratorFile` | `generate_pattern` and `main` of the generator, by sizes | `Require`, `WriteCopy`, `CopiesWritten`, `WriteString`, `RestWritten`, `WriteDash`, `Close`, `Usage` |
| `StreamProofs` | lemmas on matches, words and streams | see section 5 |
| `ParabixProofs` | theorems on the scanners | |
| `BenchmarkProofs`, `ReParserProofs`, `BitStreamObjectProofs`, `VgrepProofs` | theorems on `Benchmark`, `ReParser`, `BitStreamObject`, `Vgrep` | |
| `GeneratorProofs` | theorems on `Generator` and `GeneratorFile` | |
| `ClassProofs` | theorems on `ClassMeaning` | |

An `MC` module gives a specification the constants of a small instance; the
operators commented `Mutant:` are deliberate mistakes, and no specification uses
them: each is listed in `PROJECT.json` with the property that notices it.

Points where the correspondence with the code needs a word:

- *A step.* A step is one item applied to one block, or one turn of a loop of the
  parser: a call is not interrupted, but its intermediate states are where the
  invariants have something to say. `EnterBlock` is everything `parabix_cpp`
  does before the items: transpose, mask, evaluate every class, take the first
  marker. In the compiled scanner the class of an item is evaluated in the
  item's own fragment, so `RunFragment` does both.
- *Basis words.* The eight basis words of a block are kept as the byte at each
  position. After masking, all of them are 0 at the spare position, which
  therefore reads as the byte `Nul`.
- *The memory behind the input.* `mem` is the buffer from the start of the input
  to the last byte that is transposed: the input, the `'\0'` after it (it
  is a `std::string`), and arbitrary bytes. The build flags of `CMakeLists.txt`
  link the address sanitizer into every build, so a read behind the buffer may
  also stop the program: both are possible (`AbortOverread` or carrying on).
- *Assertions.* `CMakeLists.txt` sets the release flags without `NDEBUG`, so
  assertions are executed in all builds. This matters: the parser advances its
  cursor inside one (`src/parser/re_parser.cc:44`), and the mutants of `ReParser`
  show what would become of it otherwise.
- *An empty pattern.* `cc[0]` of an empty vector is a null pointer:
  `parabix_cpp` and `vgrep` stop there as soon as there is input (`vgrep` always),
  and `parabix_llvm`, which has nothing to run, returns 0.
- *The first item.* `marker[0] = cc[0]`: scanning starts at positions whose byte is
  in the first class, even when it is starred. `Marked` says what is computed
  from there; `MatchEnd` is what a regular expression would mean, and the two are
  compared only for patterns whose first item is plain (`AlignedResult`,
  `NoMatchLost`, `PrintsMatches`).
- *`std::regex`* is external: leftmost matches, each search beginning where the last
  match ended. The matches of `a[0-9]*z` cannot overlap, so its ends are the ends
  of all matches.
- *Trees.* `CCCompiler` is translated constructor by constructor, on an encoding of
  `EncodingBits` bits (8 in the code). `equal_expressions` compares the cases the
  code compares (two selections are never equal), and the
  builder's cache is indexed by the text a tree prints, as in the code.
- *What a class means.* `ClassMeaning` follows the code comparison by comparison (the shared
  bits of the bounds, the highest bit in which they differ, one or two bits of a bound at a
  time) but combines sets of bytes where `CCCompiler` builds trees. It has no trees, so it can be proved
  about; `ClassCodegen`, which has the trees, their rewriting and the code emitted
  for them, is shown by TLC to implement it.
- *Where classes become sets.* `ParabixBlocks`, `ParabixCpp`, `ParabixLlvm` and `Vgrep`
  are given patterns whose classes are sets of bytes, so that they can be proved about
  for all of them. `Grep` says where the sets come from: for a scanner, the positions
  at which the compiled tree is 1 on the transposed bytes (`Compiled`); for `vgrep`,
  the bytes `CC::match` accepts (`Accepted`).
- *Generated C++.* A text is kept as its operation and the names in it. C++ leaves
  open the order in which the operands of `+` are evaluated, so temporary variables may be
  numbered either way; the model takes one, and no property depends on the order. `output` is the
  stream, whose text outlives a call, and `returned` is what a call makes of it; the history
  variable `calls` has the classes compiled. The
  ints of a generated function are 0, 1, -1 or -2: their lowest bit, and the others,
  which are all equal.
- *simd.h.* A vector is the set of its bytes that are 1. The header needs `-mavx2`, which
  `CMakeLists.txt` has only in the flags of Debug and Release, together with the address
  sanitizer. A write one byte behind a vector on the heap is always detected, so the model
  has no other outcome: `SimdMatchStar` says whether it returns, and what its result
  holds by then.
- *The generator's characters* are what the pattern `a[0-9]*z` tells apart. `Generator`
  has the strings of one of the three lists, put together in any way the random numbers
  allow; `GeneratorFile` has only their sizes. A product of 32-bit sizes that overflows is
  undefined; the model has the outcome of the builds, whose multiplication drops the
  high bits.

## 3. The runs

| run | instance | states | what it shows |
|---|---|---|---|
| `parabix_cpp` | blocks of 2, patterns of 0..2 items over three classes, inputs of 0..4 bytes, any bytes behind them | 74,750 | `CarryIsPending`, `MarkersAreMatches`, `SpareBitClear`, `CountExact` of every intermediate state; `AlignedResult` and `NoMatchLost` of the result; `CountsMatches`: the scanner refines `MatchCounter`, its liveness included |
| `parabix_llvm` | the same | 98,916 | the same meaning of carries, counts and results for the compiled operations, and with a JIT that refuses the module or does not find `run` |
| `benchmark` | `a[0-9]*z`, blocks of 2, inputs of 0, 2, 4 and 6 bytes | 189,329 | the automaton counts what `std::regex` does (`DfaIsRegex`); both scanners return the same number except for a match that ends with the input (`OnlyMatchAtEndMissed`), one after the other in one process; the program ends (`BenchmarkEnds`) |
| `benchmark_same` | the same | | the finding of section 4 |
| `re_parser` | texts over `[ ] - * x`: all of up to 3 characters, all that go on for up to 4 after `[x-`, and up to 3 after `[x-xx-` | 19,246 | every text, parsed after any other by the same parser, gives the items of the grammar (`ParsesGrammar`) or is refused for having none (`AbortsIfIllFormed`), and the call ends (`ParseEnds`) |
| `class_codegen` | 7-bit characters: every class of one range, every class of two ranges with bounds at the borders of the pairs of bits, patterns of two items | 127,713 | on the bytes that `transpose_sse` gives, the tree and the code for it mean at every step what `ClassMeaning` says (`ImplementsMeaning`), whatever was rewritten or shared; no constant is left in a tree (`NoConstantLeft`) |
| `class_meaning` | bytes of 8 bits: every class of one range, classes of two ranges and patterns of two items with bounds at the borders | 246,967 | ascending ranges are compiled to what `match` accepts (`CompiledIsMatch`; `ClassesAreMatch`, the same of all items of a pattern, is proved); the compiler stops only for bounds that are not ASCII (`AsciiNeverAborts`) |
| `bit_stream` | two streams of three blocks of 2 bits, every value of both | 4,096 | the streams refine `LongWord`, and no spare bit is counted; with registers of 4 bytes, `advance` of `simd.h` computes the same markers (`SimdAdvanceIsMarker`), and `match_star` adds as `marker.h` does until it is stopped (`SimdMatchStarStops`) |
| `vgrep` | as `parabix_cpp`, inputs of up to 5 bytes | 74,984 | the markers are the ends of matches; the number printed is theirs |
| `grep` | 4-bit bytes, blocks of 2, files of 0 to 6 bytes over two letters and a byte that is not ASCII, 12 texts | 1,152,922 | on files of whole blocks each tool prints the number of positions where a match of the regular expression ends (`PrintedIsRegex`); the tools refuse the same texts and print the same numbers (`ToolsAgree`) |
| `cpp_text` | 6-bit characters, every class of one range, 2-range classes with bounds at the borders, two calls of one compiler | 26,687 | each function compiles on its own (`NamesDeclared`) and accepts what `match` does (`FunctionIsMatch`); a call returns the functions of the calls before it too, and is not affected by them otherwise (`ReturnsEarlierFunctions`) |
| `generator` | two strings of each list, up to two digits in each; 8-bit ints, a megabyte of 16 bytes, blocks of 7, three strings of 2 to 5 bytes, requests of -9 to 24 | 447,146 | one match in each string of the first list, none in those of the last (`StringMatches`); written one after the other, only an `a` and a `z` at a joint make a match (`JointMatches`); the file has whole blocks (`FileIsBlocks`) and the size asked for (`FileAnswersRequest`) |

Bounds, and why they are enough:

- `BlockSize = 2` where the code has 63. With two payload bits a word has a first
  position, a last one and a spare one, each different from the others, and a run of
  ones can start in, end in, or fill a word. Nothing in the code depends on 63 but
  through these. For the scanners the theorems of section 5 remove the bound.
- `MaxInput = 4` is two blocks: a text straddles the boundary, with every
  combination of carries of two items. Texts that straddle two boundaries, a star
  over a whole middle block, need three blocks: the benchmark has them
  (`MaxInput = 6`, three items), `vgrep` has them (5 bytes), and streams have three
  blocks, so that a carry ripples through the middle one.
- `MaxItems = 2` has every pair of plain and starred items, hence markers
  that come out of one operation and go into the other; the benchmark has three.
- two letters and the byte `Nul`: classes that are equal, disjoint, contained in one
  another, and a byte of no class.
- in `class_codegen`, 7 bits rather than 8 (`class_meaning` has all 8): the comparisons go two bits at a time, and an odd
  number leaves one over. 8-bit characters with the highest bit set are
  negative for `match`; with 7 bits the highest bit plays that part. A block of all
  `2^7` bytes fills eight registers of 16 bytes, in lanes of 8 as in the code, so bits
  are shifted out of every byte into the next, but at the borders of lanes.
- `cpp_text` has 6 bits, three pairs, so that it can have every pair of a class and the class
  compiled before it.
- `grep` has 4 bits: three letters, one byte that is not ASCII, and the four characters
  that the parser treats specially. A file has up to three blocks. The texts are: nothing,
  plain items, stars in the middle and at the end, a class of one and of two
  ranges, a starred class, a first item that is starred, a byte that is not ASCII, a range
  whose bounds differ in their highest bit (the scanners stop, `vgrep` does not),
  a descending range, and two texts that are ill-formed. The reference is the table
  `MCRegex`, written by hand.
- `generator`: two strings have a joint, and two digits are more than one. `times` and
  `max_count` only make strings longer; a joint is always between two of them.
- `generator` checks the strings and the file each on inputs of its own (`part` of
  `MCGenerator`), since of a string only its size matters for the file. There are
  requests that do not divide by the size of the strings, requests
  whose copies or rest are empty, of nothing, negative ones, and ones from 8 on, which
  overflow 8 bits and come back positive, zero or negative (2048 MB and more in the code).
- `bit_stream` compares `simd.h` with registers of 4 positions on vectors of 6: one
  register and a rest of two. Only the carry leads from one position to another, and it
  passes each border once.
- the texts of the parser are long enough for two ranges and for every way in which
  a class can break off.

*Fairness.* The programs are single-threaded and never wait, so a call that can
make a step makes it: weak fairness of the next-state relation of a scanner and of the
benchmark. `ReParser` has weak fairness of the steps of a call only, since nobody
needs to make another call. The other modules have no liveness property and state no
fairness. Where a program has ended, it stutters by an
action of its own (`Terminated`, `Exited`, `Aborted`), so deadlock is checked in
every run.

## 4. What was found

`tools/benchmark.cc:103` writes "results must be same" and exits with an error when
the four results differ. They differ on an input that fills its blocks and ends
with a match, for example (with blocks of two) `az`: `std::regex` and the automaton
count 1, both scanners 0. The end of a match is marked at the position *after* it;
after the last byte of the last block that is the spare bit, which goes into
`carry[]` and is read by no further block. Inputs of the generator are padded to a
multiple of 63 only if they are not one already (`generator/main.cc:126`), so such
an input can occur. `OnlyMatchAtEndMissed` shows that this is the only difference
there is, on the inputs the benchmark is run on (a theorem); `AlignedResult` and `NoMatchLost` say the same
of any pattern with a plain first item.

That the benchmark's inputs are whole blocks (`BenchInit`) is what `FileIsBlocks` shows of
the generator's files.

Other behaviour the specifications record without calling it wrong, since nothing
in the repository says otherwise:

- the overread of the last block, and the crash on an empty pattern;
- bounds that differ in their highest bit, one ASCII and one not, stop
  `createBitPattern`, and with it both scanners, while `vgrep` prints a number
  (`AbortEmptyBitPattern`, `Crash`). `AsciiNeverAborts` says no other bounds do;
- a descending range accepts nothing in `match` and something else when it is
  compiled, so the tools print different numbers: `ToolsAgree` and the properties of
  classes leave such ranges out;
- the generated C++ function of a class with the byte 0 may return true for every byte, for
  its `~` turns 1 into -2; and a second `compile` returns the text of the first
  function too, for `reset` clears the flags of the stream and not its text
  (`ReturnsEarlierFunctions`): such a text defines `match` twice;
- `match_star` of `simd.h` allocates `carry` one byte too short (lines 68 and 74), and so never
  returns in a build of the repository (`SimdMatchStarStops`);
- the strings generated never to match do match across a joint, one ending in `a` before
  one that begins with `z`: "never" is about a single string;
- from 2048 MB on the size requested overflows, and the file is shorter, or empty; a request
  that is negative, as typed or after the overflow, leaves less than a block;
- the assertion with a side effect.

## 5. What is proved

TLAPS checks the theorems below for *every* value of the constants: block size, number of
blocks, set of bytes and classes, pattern, input, text.

| module | theorems | what they say |
|---|---|---|
| `ParabixProofs` | `CppTypeOK`, `CppSpareBitClear`, `CppCarryIsPending`, `CppMarkersAreMatches`, `CppCountExact`, and the same five for `Llvm` | the words of both scanners mean what they should in every state |
| | `CppAlignedResult`, `CppNoMatchLost`, and for `Llvm` | what a call returns |
| | `CppRefinesCounter`, `LlvmRefinesCounter` | both scanners implement `MatchCounter`, step by step |
| `BenchmarkProofs` | `BenchmarkTypeOK`, `BenchmarkDfaIsRegex`, `BenchmarkOnlyMatchAtEndMissed` | the four counts, on every input of whole blocks, for any three disjoint classes |
| `ReParserProofs` | `ParserTypeOK`, `ParserParsesGrammar`, `ParserAbortsIfIllFormed` | the parser returns the items of the text, and refuses no text of the grammar |
| `BitStreamObjectProofs` | `ObjectIsLongWord`, `ObjectPopCountExact` | streams of blocks implement one long word |
| | `ObjectSimdAdvanceIsMarker`, `ObjectSimdMatchStarStops` | `advance` of `simd.h` computes the markers of `marker.h`; `match_star` never returns any, whatever the length, with all sums but the last one right |
| `VgrepProofs` | `VgrepMarkersAreEnds`, `VgrepPrintsMatches` | the marker streams, and the number printed |
| `ClassProofs` | `ClassCompiledIsMatch`, `ClassWordsAreMatch` | the decomposition of ranges into bits accepts what `match` does, for bytes of any number of bits and every pattern |
| | `ClassAsciiNeverAborts` | nothing but a negative char stops the class compiler |
| `GeneratorProofs` | `GeneratorStringMatches`, `GeneratorJointMatches` | one match or none in every string, and what a joint can add, for any number of strings and digits |
| | `GeneratorFileIsBlocks`, `GeneratorFileAnswersRequest` | the size of the file, for every width of the ints, every sizes of the strings and every request |

### Assumptions

`BlockSizeAssumption` (at least one payload bit), `NulAssumption` and `ClassAssumption` (no class
contains the byte 0; a pattern is a C string), `BoundsAssumption`, `StreamBlocksAssumption`;
for the benchmark `PatternAssumption` and `DisjointAssumption` (the automaton is written for
three disjoint classes, and is wrong for others); for the parser
`CharAssumption` (the four special characters differ) and `PatternAssumption`; for classes
`EncodingAssumption` (a byte has bits) and `PatternsAssumption` (bounds are bytes, and no
class is empty, as the parser has it: `ParserTypeOK`); for the generator `TimesAssumption` and
`FileAssumption` (no list of strings and no string is empty, so that there is something
to divide by).
`ClassAssumption` is needed: with the byte 0 in a class, the class
word would have its spare bit set and be added to the next block's carry.

### The inductive invariants

*The scanners.* The inductive invariant is

    ScanInv == TypeOK /\ SpareBitClear /\ CarryIsPending /\ MarkersAreMatches /\ CountExact

and, while a block is being worked on, that the class words are those of the
block (`BlockLoaded`, interpreter) or that an empty pattern has marked nothing
(`EmptyUnmarked`, compiled). None of the parts is inductive alone. The markers of a block
are right because the carries that enter it are; the carries that leave it are right because
the markers are, and because the carries that entered it are (a star may
have been pending all through the block); both need the words to have no stray spare
bit; and the count is right because the last markers are. For the results, `BlockOffset`: the
offset is a multiple of the block size and leaves the loop at the first one that reaches the
end of the input. `LlvmOffset` adds that no block is done before the compilation or
while the lookup of `run` has failed: `MatchCounter` allows an exception only before the
first block.

*The benchmark* (`BenchInv`). While a scanner runs, its own invariant holds, because the call
found fresh words (`FreshCall`; the mutant `CallKeepsCarry` is a call that does not). What the
algorithms before the current one have returned is `Expected`: the number of
matches, or of their ends before the end of the input. Three lemmas connect the algorithms
with the set of all matches: the search for the leftmost match takes one match away at a
time, and no match is lost behind it, because matches of disjoint classes do not overlap
(`MatchesApart`, `RegexCountsMatches`); the automaton is in state 1 or 2 exactly when a
match has been begun (`Begun`, `DfaCountsMatches`); matches correspond to their ends, and the one
that ends with the input is the only one without an end inside it (`EndsBeforeEnd`).

*The parser* (`ReaderInv`). Before the cursor, the text is the items of the list
(`Parsed`); inside a class, the list is the text before the bracket, and each turn of the
loop has taken three characters without meeting the end of the class (`InClass`). A
turn can also run into the end of the text (`OutOfText`). That no text of the grammar is
refused needs the other direction, that a text of the grammar is still one from the cursor on:
a bracket ends at the first place where the loop would leave it, so no other reading is possible.

*Streams* (`StreamsClear`): no block ever has its spare bit set. The lemmas of `StreamProofs`
say what each operation on streams does to the set of positions; the carry between blocks
is the carry of the long addition at the border (`BlockCarry`, `PlusStreamBits`).

*vgrep* (`VgrepInv`): every class stream is the class of the padded input and every marker stream
written so far, the first one included, is exact. `MarkersAreEnds` alone says nothing of the
first marker stream and is not inductive.

*The class compiler* (`ClassInv`): the place in the pattern, `CompiledIsMatch` for the ranges done
and `ClassesAreMatch` for the items done, and that a compiler that stopped did so at a range without
a common bit. What carries it is `SingleOrRangeIs`, that one range means what `match` says. Powers of 2
are known to the provers only as counts of subsets (`Powers`). A bit is what the remainder by `2^b`
lacks of the remainder by `2^(b + 1)` (`Bits`), so one step of `createGERange` compares one more bit
(`OneBit`), or two (`TwoBits`); by induction it compares remainders (`GERangeIs`). The bits two
bounds share are their common quotient (`BitPatternIs`, `DifferingBitsIs`), and below the highest bit in which
they differ a range is two comparisons (`BetweenIs`). Bounds with a common bit have one sign,
which turns the order of unsigned bytes into that of signed characters (`SameSign`).

*The strings of the generator* (`StringInv`): a string being put together is a beginning of one with an
opening, digits and an end (`PutTogether`), a string done is such a string (`Finished`). In a list
that always matches the opening is the one "a" and the end the one "z" with only digits between, and in one
that never does there is no such pair. `JointMatches` needs that no string begins or ends with a
digit, so that a match which crosses a joint cannot reach further than one character to either side.

*The generated file* (`FileInv`), phase by phase: the copies are whole (`CopiesInv`); the rest is a beginning of the list of
strings, of which only the last may exceed the request (`RestInv`); the padding has not gone past
a multiple of the block size (`PaddingInv`). A request that overflowed to a negative size writes
nothing in the first two phases, and the total is then not the size of the file: the
parts keep the two apart.

### How the proofs are laid out

1. `StreamProofs`, on matches: `Marked` for `k + 1` items in terms of `Marked` for `k` and one more segment
   (`MarkedStep`), for a plain item (`MarkedAdvance`) and a starred one
   (`MarkedStar`), and `Pending` at a boundary in terms of `Marked` before it.
2. `StreamProofs`, on words and streams: what the operations compute. `StarCarry`: when a subset `M`
   of a class word is added to the class word, with a carry, a carry enters position
   `p` exactly when some position of `M` (or the carry at the start) reaches `p`
   by positions of the class only. A block is a stream of one block.
3. `ParabixProofs`, on what the scanners share: `BuildMatchStarMeaning` and
   `BuildAdvanceMeaning` put this in terms of positions; `CppStarIsBuildMatchStar`
   shows that the interpreted and the compiled star, which take the carry at different
   points, compute the same as long as the spare bits are clear; one operation on one item
   takes `ScanInv` to `ScanInv` (`OperationScan`); counting a block adds the marked ends of
   the block (`CountBlockScan`).
4. The other modules: one lemma per action, one that puts them together, and the theorems.

*Recursive functions.* The library's induction theorems cannot be used here, since they take an
operator as a parameter. Instead an induction is by a least counterexample (`SetOfNat`
for numbers, `SetOfSubsets` for finite sets, both from `WFMin`), and a recursive function
`f[n \in S] == ...` is reasoned about in two steps: an explicit function is shown to satisfy the
equation, so that the one that is chosen does; then the two are equal. `StreamProofs`, the counts of
the benchmark, `WellFormedFrom` of the parser and `GERange` are proved about in this way. `FoldLeft` is such a
function too, over the sets of places of a sequence: `FoldExists` builds the solution from
one place to the next, and gives `SizeSum` and `Joined` their partial sums.

### Only model-checked

- Liveness: `CountsMatches` (its safety half is `CppRefinesCounter` and `LlvmRefinesCounter`), `ParseEnds`,
  `BenchmarkEnds`.
- `ClassCodegen`, `ExpressionCompilerCpp` and `Grep`: the trees and the constructors of the class compiler are
  recursive operators, which TLAPS does not accept in a module with theorems. So the step from
  `ClassMeaning` to the trees and the code (`ImplementsMeaning`) is TLC's, and so is everything
  that has to do with how trees are rewritten and printed.
- That the parser refuses every text that is *not* of the grammar follows from
  `ParserParsesGrammar` for the texts it returns from; that it does not loop on
  one is `ParseEnds`.

## 6. What is not modelled

- `ExpressionCompiler` (LLVM): reached only from the `#if LLVM` branch of `vgrep.cc`, which
  does not compile against its interface; its loop is the class part of `compileRun`,
  which `ClassCodegen` models.
- `OperationCompiler`: no tool uses it and none could be linked with it, since
  `operation_compiler.cc` and `operation_builder.cc` define the same global
  `CLEAR_LAST_BIT`, and the two headers share an include guard. Its operations are those of
  `OperationBuilder`; it stores the last bit through a bitcast from 64 to 8 bits, which
  LLVM does not accept.
- the LLVM passes and ORC layers behind `JIT`: external, a module is accepted or refused, a lookup
  finds `run` or does not.
- `BitStream`: `clear` (protected and never called), a complement that is kept (only
  `scan_thru` takes one, and masks it), `>>=` by more than 1, and the stream insertion.
- `simd.h`: vectors of size 0, and what `match_star` would return if its write behind `carry`
  were let pass.
- reading files, the timing and the table of `benchmark`, printing.
- the tests and the build files, which are not part of the program.

## 7. Plan

Done first, being the heart of the program: the scanners (`BlockWord`, `Matching`,
`MatchCounter`, `ParabixBlocks`, `ParabixCpp`, `ParabixLlvm`), their composition in
`Benchmark`, and their proofs. Then the parts around them, each against a
reference of its own: `ReParser`, `CCCompiler` and `ClassCodegen`, `BitStream` and
`Vgrep`. Then what joins them and what was left: `Transpose`, `CharacterClass` and `Grep`,
the generator, the generated C++, `simd.h`.

Then the theorems: the scanners first, then the benchmark, the parser, streams and `vgrep`, and last
the class compiler, by way of `ClassMeaning`, and the generator.

Proved: everything section 5 lists. What could follow:

1. Runs: a second instance of the scanners with blocks of 1 or 3.
2. Trees without recursive operators (as functions on finite sets of trees), so that
   `ImplementsMeaning` can be proved as well.
