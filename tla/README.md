# Verification of the symbolization checker, its examples and its runtime

This directory holds TLA+ models of the repository: the checker of the
"reconstruct the relocations" assignment (`check.py`, `checklib/`), the programs
it ships as examples and the small runtime they are linked with. TLC checks the
models on small instances; TLAPS proves the theorems listed below for all values
of the constants.

## 1. Inventory

The checker grades a *symbolizer*: a program that turns a stripped i386
executable back into a relocatable file. `check.py check DIR` strips the test's
binary, runs the symbolizer on it, relinks its output and scores it in three
steps: relocations (a ratio), equivalence of the relinked program (divides by 3
on failure), behaviour after a section was replaced (divides by 2).

| component | state | operations | hard parts |
| --- | --- | --- | --- |
| `check.py` | command line, files beside the test | check, check-symbolization, strip | artefacts with fixed names survive an invocation; interruption; tracing wrapper |
| `checklib/spec.py` | test specification, running score | sanity run, three grading steps, replacement of a section | what is caught where; divisions; stale files |
| `checklib/elf.py` BinFile | three files, parse cache | validate, link, strip, segments, relocations, sections by address | modification times; last segment wins; names that carry addresses |
| `checklib/elf.py` Comparator | two BinFiles, four counters | compare_segments, compare_relocations | order of sections; overlapping conditions; division by zero |
| `checklib/utils.py` merge_sorted | two iterators, two held items | one generator | exhaustion while an item is held |
| `checklib/primitives.py` | tool paths, tracing | link, strip, objcopy, execute | two-pass strip, time limit |
| `examples/IoTBench` | list pool, matrices, layers of a convolution | insert, search, merge sort, matrix operations, convolution, the loop of main | pool limits, stale links, index arithmetic, widths |
| `examples/*.S`, `*.c` | registers, PLT/GOT slots, a line of input | small programs | addresses of the linker's choice, lazy binding, constructors |
| `picolibc/crt0.c`, linker script | image of RAM | load, clear, initialise, exit | what the loader leaves, alignment, what is mapped |
| `picolibc_syscalls.c`, `examples/_io_impl.c` | one stream for three | read, write, exit | end of file and errors share a value, signed chars, uninitialised result |
| `replacements/` | the place they are patched into | code for _exit, main, the get function, rdtsc | no data of their own |
| `Makefile` | objects, parts, executables on disk | make with goals, make all, clean | shared objects with different flags, kills, lost exit status |
| vendored picolibc headers, archives | - | - | not modelled (third party) |

Components call each other synchronously in one process; what makes the checker
hard is (a) the files it leaves for the next invocation, (b) exceptions, each
caught in a place of its own or nowhere, and (c) a scoring loop whose mistakes
cannot be seen in its result. The programs are bare-metal in style: nothing
below them checks what they do, so that a byte too few cleared or mapped shows
only in programs of one particular size. The build is a set of processes that
share a directory and may be killed. PROJECT.json lists each hazard at its line.

## 2. Plan

In the order in which the behaviour matters: the scoring loop first, then what
it is fed with, then the driver that surrounds it, then the programs the checker
ships.

| # | modules | composes | state |
| --- | --- | --- | --- |
| 1 | MergeSorted, MergeSortedProofs | - | done |
| 2 | RelocCompare, RelocJoin (abstract) | EXTENDS MergeSorted; implements RelocJoin | done |
| 3 | SegmentCompare | - | done |
| 4 | SectionResolve | - | done |
| 5 | CheckRun | - (its score and verdicts are the outcomes of 2-4) | done |
| 6 | ListPool, proofs in IoTMainProofs | - | done |
| 7 | ListSort, ListOrder (abstract) | implements ListOrder | done |
| 8 | MatrixBench, ConvBench, Sums | - | done |
| 9 | Grading | RelocCompare + SectionResolve + SegmentCompare; implements RelocJoin | done |
| 10 | IoTMain | ListPool + ListSort + MatrixBench + ConvBench | done |
| 11 | Boot, Console, MinPrograms | - | done |
| 12 | Programs, ProgramsProofs (the boot) | Boot + Console + MinPrograms; implements Boot | done |
| 13 | Build | - | done |
| 14 | CheckRunProofs: the laws of the score and of the files | cites CheckRun | done |
| 15 | GradingProofs: the invariants of the grading, and the refinement of RelocJoin | cites MergeSortedProofs | done |
| 16 | BuildProofs; IoTMainProofs: the pool and the list handed over; the console in ProgramsProofs | - | done |
| 17 | ProgramsProofs: execution at every placement, ExitsAsWritten | cites MinPrograms | done |
| 18 | BenchProofs: UsesBlock, FitsBlock | cites MatrixBench, ConvBench | done |
| 19 | ListSortProofs: the merge sort, for lists of any length; NoNodeLost, RunsSorted and the refinement of ListOrder in IoTMainProofs | cites ListSort, ListOrder | done |
| 20 | ProductRight, ConvRight, in BenchProofs | cites Sums | done |

The components that are composed are run in the composition only (Grading,
IoTMain, Programs): each of their properties is checked there, on states the
other components have really produced.

Every model module takes its inputs and bounds as CONSTANTS, has one action per
step of the code, and declares no RECURSIVE operator, so that any of them can be
proved about. The modules MC* only give the constants their values. An operator
whose comment starts with "Mutant" is a plausible mistake in the definition that
follows it; no specification uses it. Put in that definition's place it makes the
property PROJECT.json names fail in its run.

## 3. Modules and code

**MergeSorted** (`checklib/utils.py:31-68`). One invocation of the generator.
`kl` and `kr` are the keys of the held items (`l`, `r`; `None` is -1, keys are
naturals), `n1` and `n2` count the calls of `next`, `gen` says in which loop the
generator stands, and `out` is what it has yielded, as positions in the inputs
(0 for Python's `None`) so that equal keys remain distinguishable. Each refill,
each way to run dry, each comparison and each of the two `yield from` tails is an
action. The inputs are sorted: that is what both callers do (`elf.py:256-257`).

**RelocCompare** (`elf.py:254-309`) extends it with the consumer: `cmp` is the
progress of `compare_relocations`, `seen` the pairs consumed. The generator and
the loop alternate (`Resume` only when everything yielded is consumed). The
branches of the loop are the actions `Superfluous`, `SkipRelative`, `Missing`,
`Matched`, `Mismatched`; the elif chain is the operator `Agrees`. The score is
kept as the exact fraction match / total; `Score` is also where the division by
zero happens. `sorted` returns any sorted permutation; the real one is stable,
which only matters for equal keys, and those are rejected by the assertions.

**RelocJoin** says the same without iterators or sorting: take addresses least
first, and count each once. `ImplementsJoin` maps `todo` to the addresses of the
items no consumed pair holds; the generator's steps are stutters.

**SegmentCompare** (`elf.py:119-136, 214-252`). `ScanSegment` is one turn of the
loop of `get_main_segments`, `CompareRole` one role in `compare_segments`.
Messages are reduced to whether there is one.

**SectionResolve** (`elf.py:138-193`, `spec.py:45-70, 113-128`). A program is a
sequence of objects with addresses, a symbolized file one way of cutting it into
sections. `resolve_section_vaddr` reduces a section's name to the one fact the
code takes from it: eight hexadecimal digits right behind a dot (`hex`), or none.
`YieldRelocation` and `NameError` are what `iter_relocations` does with the next
relocation; then `CopyPart`, one `ModifyInplace` per replacement, `NotFound` or
`Link` are `replace_and_link`. The full name matters to the replacement: the
section that a lookup has found goes on as a name, and `llvm-objcopy` exchanges the
first section of that name and removes every section called `.rel<name>`. Nothing in
a setup keeps sections from sharing a name (those with an address in their header are
all called `.text` in the runs); `ExchangesExactly` states as its condition that the
sections asked for do not (`OwnNames`). Sections without contents, which objcopy
refuses to update, are left out.

**Grading** (`spec.py:178-213`) runs the four of them in the order of
`score_symbolization`: `ReadPart` consumes `iter_relocations`, whose end hands
the table over to the comparison, behind the relocations a setup gives directly;
`Compare` is a step of RelocCompare; `CompareSegments` and `Replace` follow,
whatever came before, unless an exception ended the check
(`ComparisonNext`: a ValueError is caught, an AssertionError or a
ZeroDivisionError is not). `ImplementsJoin` maps the whole of it to RelocJoin,
reading and sorting being the steps `Receive` and `Reject`. `FullMarks` and
`ReadOrZero` are about the steps together.

**CheckRun** (`check.py`, `spec.py:131-213`, `elf.py:65-106`,
`primitives.py:66-139`). The file system (`files`: modification time, which
symbolizer run a file derives from, level of stripping) persists from one
invocation to the next. Every step of an invocation is an action that ends in the
next step, in a caught failure or in `aborted` with the exception as `reason`.
`Kill` interrupts anywhere. `faults` and `graded` record what happened and are
read by properties only. The relocation score, the verdict on the segments and
the outcome of a run are chosen freely: the other modules say what they are. A
score is counted in twelfths, so that both divisions are exact.

**ListPool** (`list_search_sort.c:17-172`). The two bump pointers count slots;
`InBlock` turns slots into bytes. `ItemSize` is the 16 + sizeof(list_data) the
code reckons with, `NodeSize` the real size of a node (8 on i386).

**ListSort** (`list_search_sort.c:185-381, 446-467`, `main.c:195-205`). Every
pointer assignment of the merge sort, on the links of the nodes: one turn of
each inner loop is an action. A node's idx is its slot (`HandedOver` checks that
this is so). **ListOrder** is its abstract specification: a search returns the
matches in the order of the list, a sort is one step to the stable sorted
permutation. `Walk`, the nodes met from a head on, is a recursive function with a
bound, so that links that run in a circle would end it too.

**MatrixBench**, **ConvBench** (`matrix.c`, `conv.c`). Search for the scale,
filling, and the nested loops flattened to one counter `t`; memory is the block's
words, so that a wrong offset overwrites a neighbour. conv1D, conv2D and conv3D
are one definition over CONV_DIM. **Sums** has `Total`, the sum with which
`ProductRight` and `ConvRight` state what the loops are to compute and `IIdx` the
index of a word in a cube. `ConvRight` is about layers that have room for an input
as wide as the filter (`Bytes(K) < layer.size`): in a smaller block there is no
place to put the filter, and what the loops do is of no interest.

**IoTMain** (`main.c:130-240`) initialises list, matrices and layer one after the
other and then takes turns: search and two sorts, matrix operations, convolution.
ListSort starts from the links ListPool has made (`S!Init` reads them from the
setup; `HandedOver` compares the two).

**Boot** (`picolibc.ld:43-51, 177-281`, `crt0.c:85-108`). A layout is the sizes and
alignments of the sections of RAM; the operators named after the script's symbols
compute what the script does. Memory is known byte by byte, by what was last
written there. The loader copies what the file has and leaves the rest of RAM
zero or, where it shares a page with the file, as it is (`rest`). `_start` pushes
at `__stack`, which faults unless the section `.stack` maps it; then `Clear`,
`CallInit` for each function of the tables, `CallMain`, `Exit`. `After` says what
a C program may expect of an address.

**Console** (`question.c`, `picolibc_syscalls.c:9-35`, `_io_impl.c:23-45`,
`mock_simulated_getc_nodata.S`). One turn of `gets` is an action; `Turn` and
`FlagsAfter` are the library's, modelled from its use (external). A failing read
chooses any char, because `c` is not initialised; `broken` is a console at which every
read behind the input fails. Every output may fail. `gets` has no limit: a char or a
NUL behind the last byte of `buf` leads to `overrun`, from where `main` may return
anything, fault or run on (`Astray` in Programs, with a status out of `Fates`, and
nothing obliges it to happen). `Fits` says that the line that is typed ends, by a
newline or the end of the input, while there is room for it and its NUL.

**MinPrograms** (`min*.S`, `exit123.s`). The programs are the sequences of their
instructions, run by one action per kind of instruction; text, data and table lie
where a placement says, and the fields the linker fills in follow from it
(`GOT`, `GOTOFF`, `GOTPC`); `Loaded` is what the loader leaves at `Datum` and
`Slot`. `plt_start` is `_start` of `min_plt.S`.

**Programs** starts one of the programs with its inputs, in `MinPrograms` or
through `Boot`. **Build** (`Makefile:60-189`) is the directory on disk: each
object, part and executable remembers what it was made from. An invocation is a
sequence of make processes (`make all` starts one per program); rules fire in any
order their prerequisites allow, any command may fail, and a kill leaves half a
file, which `.PRECIOUS` preserves.

## 4. Runs

| run | asks | instance | distinct states |
| --- | --- | --- | --- |
| grading | pairs right, no match and no item lost, comparison is the join, full marks for a perfect file, unreadable names cost the relocations alone, segments exact, replacement exact, an end | 3 true and 2 predicted relocations at 3 addresses in any order, duplicates included; all kinds of true against all kinds of predicted relocation; 3 objects in every partition and order with 5 kinds of names, one shared by its sections, 5 replacements in pairs; tables of at most 2 of 7 segments, with and without the empty third header | 485 312 |
| reloc_compare_iou (violation) | "equal sets have IoU==1" | 2 by 2 relocations | - |
| segment_identical (violation) | passing step 2 means identical segments | the tables picolibc.ld produces | - |
| section_names (violation) | names as the statement prescribes are readable | 2 kinds of names | - |
| check_run | the score is about this run's output, follows the divisions, aborts have a cause, grading ends | 2 invocations of 5 command lines, every failure and kill | 152 292 |
| check_run_quiet (violation) | a quiet check works like any other | 1 invocation | - |
| check_run_hang (violation) | misbehaviour only divides the score | 1 invocation | - |
| iot_main | pool in its block, list handed over, no node lost, runs sorted, refinement of ListOrder, scale fits, product and convolution right, termination | blocks for 1 to 7 nodes, 16 seeds, 2 accuracies; 1 to 3 dimensions, blocks around the next scale, strides 1 and 2, filters of 1 to 3, 1 or 2 channels; 2 turns | 112 833 |
| programs | main starts on the C program's memory, the stack is mapped, lines that fit are judged by their letters, the mock spells the name, exit statuses, an end | 256 layouts (those that link) by 6 lists of functions; inputs of at most 3 chars of 5 kinds, the name and its near misses; lines one shorter, as long and one longer than the buffer; 5 inputs at a console that fails for ever; 3 placements of 4 programs | 43 692 |
| console_eof (violation) | reaching the end of the input is no error | the inputs of `programs` | - |
| build | what is linked is fresh, whole and has its own flags | 2 programs that share an object, 2 invocations, 1 edit, 2 BUILDs | 86 820 |
| all_builds_all (violation) | `all` compiles all | as `build` | - |

Why the bounds are enough:

- grading: the generator depends on two held keys and on which side is empty,
  the counters are sums over addresses, so three addresses (below, at and above
  each other's) show every alignment; the elif chain looks at one pair at a time,
  and all combinations of the five types, the two symbol attributes and equal,
  different and undefined destinations are in it. Repeated keys never reach the
  generator here (the assertions come first); for those the theorems hold, with
  no bound at all. Three objects allow a section with a neighbour before, behind
  and inside it; two headers and the empty one give every pair that can overwrite
  one another. The four families of setups vary one step each and hold the
  others fixed: the steps share no variable but the parsed file.
- check_run: stale files need one earlier invocation; what two leave behind is
  what one leaves, as every artefact is overwritten under a fixed name.
- iot_main: seven nodes are three passes with a last run that is full, short or
  without a partner. Sizes of blocks and layers are at, one below and one above
  the block a scale needs. WORD = 2^14 stands for 2^32 (TLC counts to 2^31); the
  two have the same residues modulo 3, 9 and 27, which is what the divisions by
  filter sizes see. The list, the matrices and the layer vary one at a time: they
  share no memory.
- programs: RAM has 76 bytes and the stack 16, so that the largest layouts just
  fail to link and some just do; every section is absent or present, aligned to
  more and to less than its neighbour. An input of three chars has a failing
  read, an end, a newline or a NUL before, behind and between two others.
  BufSize is 12 instead of 256, and lines of 11, 12 and 13 chars stand on both sides
  of its limit: the first fits with its NUL, the NUL of the second and the last char
  of the third do not. Slide is 11 instead of 128, just what the name and the end
  behind it take, so that one call more would read behind the table. `Ends`,
  `ExitsAsWritten` and `LineIsJudged` have a condition on question.c's line (`Fits`),
  which depends on BufSize: without it they do not hold, because a line that is too
  long, or a console whose reads fail for ever, takes gets out of the buffer. The
  theorems hold for every BufSize and input.
- build: a stale object needs one earlier invocation, and an edit that arrives
  while the object has been compiled and its program has not been linked.

## 5. Fairness

All programs here but make are sequential. `WF_vars(Next)` in the component
specifications says that a running program keeps running: Python's and C's
schedulers do not starve a single thread. CheckRun assumes it of the checker's
own steps only (`WF_vars(Checker)`): the tools it calls end, and the programs it
runs have a limit of ten seconds (`primitives.py:131-139`). Nothing is assumed of
the symbolizer, which `check.py:55` calls without a limit, so `GradingEnds`
starts after it. `Start` and `Kill` are never obliged to happen. Programs has
`WF_vars(Run)`: a process is scheduled, but nothing is assumed of one that has
overwritten its stack (`Astray`).
Build has no fairness and no liveness: a compiler may be killed at any time.

CHECK_DEADLOCK is FALSE in every configuration because all of these programs
end; that they end properly is what `Ends`, `Terminates` and `GradingEnds` say.

## 6. Findings

1. `segment_identical` (code): the last header with no bytes in the file is taken
   as bss (`elf.py:127`), so the empty third PT_LOAD of the public tests hides
   the RAM segment from step 2.
2. `check_run_quiet` (code): `check.py -q check` ends in an AttributeError.
   `check.py` has imported the tracing wrapper; `untrace_commands` replaces the
   global on which the wrapper looks for `__wrapped__` (`primitives.py:55-66`).
3. `reloc_compare_iou` (document): the statement's IoU is over (address, type)
   pairs, the code also compares destinations.
4. `section_names` (document): names like `.text.x08049072f`, which the statement
   prescribes, do not match the pattern at `elf.py:175`.
5. `check_run_hang` (document): a relinked or patched program that exceeds the
   time limit ends the check without a score instead of dividing it.
6. `console_eof` (code): `simulated_getc` returns EOF at the end of the input,
   which is the library's value for a device error (`_FDEV_ERR`), not the one for
   the end of a file (`_FDEV_EOF`, `stdio.h:182-186`): the stream is marked as
   broken and `gets` leaves a last line without a newline unterminated.
7. `all_builds_all` (document): the loop of `make all` returns the status of its
   last turn, so it succeeds although programs have not been built
   (`Makefile:107-109`, `README.rst:34-35`).

Seen while modelling, without a run:

- `conv.c:35`: with STRIDE 3 the unsigned scale below the filter's width does not
  wrap back and InWidth becomes 0. The build uses stride 1; `FitsBlock` is
  checked for 1 and 2.
- `conv.c:42`: with CONV_DIM 2 and a FILTER_SIZE of 4 or more, the square of the
  negative number of places is a positive one, and with many more output than
  input channels (filter 4, 1 channel in, 6 out, a block of 500 bytes) it alone
  fills the block at scale 1: the search ends with InWidth 0 although an input as
  wide as the filter would fit. The build has filters of 2 and one channel;
  `FitsBlock` is about filters of at most 3.
- `matrix.c:329` (marked TODO): for DATA_DIM 3 the operand of B takes j where a
  product takes k. `ProductRight` is about DATA_DIM 1 and 2.
- `main.c:158, 178`: `==` for `=` when the key is set up with DATA_DIM 3.
- `list_search_sort.c:299` says the sort by idx restores the original order; it
  sorts in rising order while list_init leaves the list in falling order.
- `primitives.py:130-139`: `execute` prepares the program's standard input and does
  not pass it on; `primitives.py:79-87`: the extra linker flags are computed and
  not used.
- `spec.py:62-70` turns the section it has found into a name. Sections of a
  relocatable file may share a name, and those with an address in their header need
  no telling one: then objcopy patches the first of that name, whichever was found,
  and the relocation sections of all of them go, those of unpatched ones included.
  `ExchangesExactly` is about names that are not shared; `NoStaleRelocations` holds
  in either case.
- `question.c:5-7`: `gets` into 256 bytes, as its name promises: 255 chars fit. At a
  console whose reads fail for ever `_getc` returns its uninitialised `c` instead of
  an end (`_io_impl.c:33`), so that even an empty input may overrun the buffer.
- `elf.py:87` compares modification times strictly; with a clock too coarse to
  separate two writes (`CoarseClock = TRUE`) the check is given up. The runs have
  a fine clock.

## 7. Proofs

`tlapm` checks every proof; nothing is assumed but the named ASSUMEs.

**MergeSortedProofs**, from `InputsAssumption` (items have natural keys). The
properties of `merge_sorted` are not inductive: that no match is lost depends on
what is still to come. `IInv` adds: the held key is that of the item last taken
(`HeldInv`); a tail runs only when the other side is used up (`TailInv`); the
pairs hold exactly the items handed over, each once (`HandedOver`); an item
yielded alone is below everything still to come from the other side
(`LoneBelow`), which is what makes giving up on it safe; nothing yielded is above
anything still to come (`Frontier`). `EmitKeepsOutput` is the one argument
behind all yielding actions: it lists what a new pair has to satisfy, and each
action is shown to meet it (`OutInvStep`). Theorems: `TypeCorrect`,
`YieldsMatchingPairs`, `LosesNoMatch`, `YieldsInOrder`, `DropsNothing`.

**GradingProofs** has the nine results about the grading as a whole. The five
theorems about `merge_sorted` hold of it because `CompareNext` is a step of the
generator or leaves it alone, once `Compare` has given it two sorted tables
(`CmpInv`: the tables handed over are sorted and their items have addresses). The
invariants, one per part of the state:

- `CmpInv` gives every counter above zero a consumed pair that explains it, and a
  total of zero the reason that every pair was skipped; the generator's `IInv`
  holds as soon as the tables are sorted. `DividesByZeroOnlyOnEmpty` and
  `FaithfulScoresFully` are read off when all pairs are consumed.
- `GradeInv`: a relocation is still to be read or is in the table, with the
  address its section's name or header gives; from the comparison on, all have
  arrived, or reading was given up and nothing was compared
  (`ReadsAllOrNothing`).
- `SegInv`: each role holds the last header so far that fits it. With one of each
  role that is the only one, and the roles compared so far decide `fail`
  (`SegmentsExact`).
- `ReplaceInv`: if the sections asked for share their names with no other, the
  sections with new contents are those asked for by the replacements so far, and
  all others have kept their relocations; in any case a section with stale
  relocations of the usual name is not among the new ones (`ExchangesWhatIsAsked`,
  `LeavesNoStaleRelocations`). `NameLeadsBack` is the step from the section found to
  its name and back; `OneHome`, that no object is in two sections, makes the section
  found the one that was meant.
- `PerfectInv` carries a perfect file through all steps: what is read is the true
  table again, whatever the partition, so that comparing it scores all and the
  check is not given up (`PerfectGetsFullMarks`).

`GradingIsJoin` shows each step to be one of RelocJoin or a stutter: `todo` is
the set of addresses no consumed pair holds, and a pair consumed takes the least
of them because pairs come out in order and match each other. The assumptions,
each evaluated by the run: `ProgramAssumption` (objects follow one another),
`AddressAssumption` (a section's header has its first object's address or none,
as the comment at `elf.py:173` assumes), `SetupsAssumption` (the shape of the
inputs; no object is in two sections), `CutAssumption` (a symbolized file has no relocations but its own, the
truth one per address), `AbsentAssumption` (None is no header).

**CheckRunProofs**. The files survive, so `OriginInv` says for every step of an
invocation which files already derive from this run's output; `StripsToLevel`,
`ScoresAreFresh` and `ScoresOneSubject` hold for any number of invocations and
kills. `ScoreInv` follows the score through the divisions, with the faults met so
far. `ScoreIsLawful` and `AbortsHaveAReason` take `CoarseClock = FALSE` (and
`TimeInv`: every file is older than the clock): with a coarse clock `elf.py:87`
gives a check up for no fault, as section 6 says. `AbortsHaveAReason` also takes
that `check` is called without `-q`; finding 2 is what happens otherwise.

**BuildProofs**, from `BuildAssumption` (goals are programs, and no program is an
object's name): `LinksFresh` and `LinksOwnFlags`. `FreshMade` says that whatever
the running process has made is whole, of this BUILD and from sources at least as
new as at the start: `force` is what makes it true of every prerequisite, the
files other invocations have left included. `OwnMade` says the same of the flags
as long as the process has had no other goal; `make all` runs a process for each
program.

**ListSortProofs**, from the facts `Infos` about what list_init hands over (nodes
0..size-1; the key and the data are sequences of integers of one length), which are
hypotheses of its theorems. The links alone do not say which nodes there are: in
the middle of a merge the list is in three pieces. The invariant `Inv` says that
there is one permutation `s` of the pool of which they are the parts: `a` nodes
merged, the rest of the left run, what follows from `right` on (`Shape`); each
action either keeps `s` or, where a node from the right is taken, moves that node
to the front of the left rest (`Moved`). `Ordered` says which stretches of `s` are
sorted, and that equal nodes are in the order of the list before the call;
`Searched`, that a search has returned the matches among the nodes it has passed.
That a walk along the links yields `s` is `ChainIs`, by the least index at which
the two would differ. Theorems: `SortsSafely` (no node lost, runs sorted) and
`SortsInOrder` (the refinement of ListOrder), for pools of any size.

**IoTMainProofs**, from `SizesAssumption` (room for two items, nodes of at most
16 bytes) and `SetupsAssumption` (the infos in a setup are those of the nodes that
fit its block, and as long as the key). First the pool: `IInv` says that the two
pointers move in step, that slot, datum and idx of a node agree, that the links are
those of a list built behind its head, and that the loop variable is ahead of the
pointers only when the pool is full. `ItemNum` is the arithmetic: `item_num + 1`
items of `ItemSize` fit the block. Theorems: `TypeCorrect`, `StaysInBlock`,
`DataIsPrivate`, `WellChained`, `Capacity` (two of the `item_num` insertions come to
nothing; in no run, because MCIoTMain is built on it). Main implements ListPool's
specification (`MainRunsListInit`), so these hold at every step of the benchmark
(`ListIsWellMade`). `HandInv` says that the links in turn 0 are those of list_init's
order, which `IInv` gives in closed form (`ListIsHandedOver`). Every step of main is
one of the list operations or leaves the list alone (`InitSort`, `StepSort`), so what
ListSortProofs proves holds of main: `NodesStay`, `PassesSort`, `ListIsSorted`.

**BenchProofs**, from three assumptions: `BlocksAssumption` (eight times a block's
size still fits a word), `LayersAssumption` (WORD is a multiple of 4, as 2^32 is,
and counts eight times a block's size; strides of 1 and 2, filters of at most 3 -
section 6 has counterexamples for others) and `WordsAssumption` (a set `Words` of
naturals that xor and or do not leave has the seeds and the indices: the xor of two
words is a word, and no more is needed of it).

- `MatricesUseBlock` needs that the search for the scale stops before its unsigned
  product wraps: `Scaling` keeps the last scale below the block's end, and from one
  scale to the next a matrix grows at most eightfold (`PowerFacts`).
- `LayerFitsBlock`, with the invariant `Widest`: below the filter's width the number
  of places wraps around; `NarrowPower` says that four times its power is a multiple
  of WORD, or 4 more or less, so that the unsigned size is at most that of a layer as
  wide as the filter (`NarrowGoesOn`). From there on the size grows at most eightfold
  from one width to the next (`BytesFacts`), so that the first unsigned size to reach
  the block's is a true one (`SearchExact`).
- `ProductIsRight`: `Multiplied` says that the operands are what the turns so far
  have made of them and that each result is the sum which the loops have reached.
  The three matrices are apart because `Scaling` makes them fit. Every addition
  wraps, the sum of the property once: `ModAdd`.
- `ConvolutionIsRight`: `Convolved` says that input, filters and biases are as
  stored (`Loaded`) and each output is the bias, the channels seen and the words of
  the next one (`Summed`). `FourLoops` takes the flattened counter apart; `Covers`
  says that what a filter at a place covers lies within its channel, and `Apart` that
  outputs share no word with one another or with what is read.

`Total` is recursive: `TotalStep`, its equation, is proved from the existence and
the uniqueness of the function it names, each by a least counterexample
(`PartialExists`, `PartialUnique`, `Least`).

**ProgramsProofs**, the programs without a C library, from `PlacementsAssumption`
(an exit status fits a word; no datum lies in a slot of the table). The programs are executed with the addresses
as unknowns. `RawInv` is a disjunction over the instructions: each point says what
the instructions from there on need of registers, stack and memory, and one lemma
per program (`MinRun`, `GotRun`, `HarderRun`, `PltRun`) leads from every point to
the next; `Leaving` is the point before `_exit`, `Left` the one behind it. The
rest is arithmetic modulo `Word`: that a displacement from the table's address
leads to the symbol it was computed for, however it wraps (`Relative`), that
different slots and instructions have different addresses (`Apart`, `Labels`),
and what each kind of instruction does at such a point (`Loads`, `Calls`, ...).
`RawProgramsExit` follows.

The boot, from `LayoutsAssumption`, `RamAssumption` and
`InitArraysAssumption` (a stack of at least one byte, functions that store one
value each). `ImageAtMain` speaks of one moment; `BootInv` says for each step what
every byte of every variable holds: the file's bytes before clearing, `After(a,
called)` while the functions are called. `Ascending` is the linker script's
arithmetic (sections follow one another), `RamMapped` that a program which links
has all of RAM mapped and its variables below the stack, `ClearedRight` that
clearing hits each variable without an initialiser and none with one,
`AfterNext` that one more function changes its own address only. Theorems:
`BootInvariant`, `StackMapped`, `ImageRight`. Every program implements `BootSpec`
(`ProgramsBoot`), and so the same two properties hold of the specification that is
run.

The console, from `CharsAssumption` (the input is of signed chars and
failing reads, the name of ASCII chars, and shorter than the payload's slide and
the buffer): `PayloadSpellsName`, whose `MockInv` says that the payload has handed
out as much of the name as gets has stored, and `CompleteLineIsJudged`, for every
size of the buffer and all lines that leave room for their NUL in it: `ReadSoFar`
says that what is in the buffer and what is still to be read make up what was typed.
`RoomInv` is about every line that fits, failing reads included: each call so far has
taken one char of the input and stored one (`CallsStored`), so the line's end comes
while there is room, and gets stays in the buffer.

The exit status: `ProgramsExitAsWritten` puts the parts together. A program without
a C library is in `RawInv` until it has left; the others return what `Returned`
says, for which `min_libc_constructors` needs `BootInv` in `main`: foo's store is
the last one to STATIC_VAR, after clearing (`StaticVar`). question.c returns one of
its two statuses if its line fits, and the one the line deserves if it is complete.

Model-checked only: liveness (`Ends`, `Terminates`, `GradingEnds`) and the fairness
half of `ImplementsJoin`. Neither WF nor ENABLED is within the prover's reach. Every
safety property of the passing runs is a theorem.

## 8. Not modelled

- Most of the repository's lines are vendored: of 24 153 lines counted as
  implementation, 22 155 are picolibc's headers, declarations and constants for
  every program that may ever include them (`elf.h`, `sys/queue.h`, `sys/tree.h`
  and `math.h` are the longest). No program here uses the macros of sys/queue.h
  and sys/tree.h. The library itself is in archives without source; `gets`,
  `fgetc`, `puts`, `strcasecmp` are modelled as external, from their use. The
  linker script is modelled, and of `stdio.h` what the get function needs.
- `b.c` and `tricky.c` (printf, iconv and callbacks of the library; nothing of
  their own), `a.c` (one char through a chain of cases, no state), `min_libc_plt.c`
  (needs a dynamic linker the repository does not have), `cheating_rdtsc.s` (the
  clock), the flash half of the linker script, `build-picolibc`.
- The binaries of the tests and of the statement; of the test specifications the
  three published ones are within what Grading and CheckRun are given.
- pyelftools, binutils and the simulator: external, present only by what their
  callers see of them.
- Oddities of the code that no property is about: `show_diff` runs before the
  line with the score (check.py:107), `HACKY_RELPATH` is process-global
  (check.py:65), `link_relocatable` drops a test's extra flags and `execute` its
  input (primitives.py:87, 139), `sym_idx > num_symbols()` lets one index too many
  through (elf.py:145), the asm of `_putc` has no memory clobber (_io_impl.c:43),
  and `build-picolibc` patches the linker script after installing it
  (Makefile:214).
- `list_search` is never called. Timing, reports, float variants of the kernels
  and the wording of messages are left out.
