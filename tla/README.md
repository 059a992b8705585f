# maclo: a verification development

TLA+ models of [maclo](../src/README.md), the Go port of the ML/I macro
processor, with TLC configurations that check them on small instances and
proofs, checked by TLAPS, that hold for every value of their constants. Paths
below are relative to `src/`; `file:n` is a line of the code.

## 1. The system

ML/I is a macro processor whose logic is distributed as a LOWL program (an
abstract assembly language) and, earlier, as an L program (a small high-level
language). maclo holds everything around that program: an assembler for LOWL,
a virtual machine to run it on, the host that gives it its streams and its
system variables, a compiler from L to LOWL, commands, and a fetcher for the
sources that cannot be distributed with it. ML/I itself is not in the
repository; in every model it is the environment.

| component | state it keeps | operations |
|---|---|---|
| LOWL machine, storage (`pkg/lowl/vm/run.go`, `step.go`) | 65 536 words of `Core`; `FFPT` and `LFPT`, the two ends of one workspace; registers | `SetSystemVariables`, `SetWorkspace`; `FSTK`, `CFSTK`, `BSTK`, `UNSTK`; `stackOverflow` |
| LOWL machine, control (`step.go`, `md.go`) | `PC`, the return stack `RS`, `JumpValue`, `LINKPT` | branches, `GOSUB`/`EXIT`/`GOTBL`, `LINKR`/`LINKB`, `CSS`, block moves, the `MD` routines |
| host, input (`pkg/ml1/host.go`, `input.go`) | one `stream` per input (open, position, pending byte, end); S10, S16, S23 | `ReadChar`, called once per `MDREAD` |
| host, output (`host.go`) | the output files, the listing, S19, S20, S21, S22, S24, the line-start flag | `WriteChar`, `list`, `setAtLineStart` |
| host, process (`host.go`, `lowl.go`) | the latched fatal condition, S5, S12, S18, the phase, the column of the debugging stream, the cycle count | `abort`, `stop`, `finalise`, `WriteMessage`, `drive`, `result` |
| LOWL assembler (`pkg/lowl/assembler`) | the symbol table with a queue of references per name, the program counter, the current subroutine, `jumpTable`, the hash entries | one case per statement; linking of the chains; filling of the queues; export of symbols |
| fetcher (`internal/fetch`, `cmd/fetchtestdata`) | target directories, cache, embed directory | `Install`, `bytes`, `readDir`, `verify`, `InstallEngines` |
| L front end (`pkg/l/scanner`, `stmt`, `cst`, `ast`, `sema`) | per file: tokens, tree, symbol table | scanning, block structure, name resolution, checks |
| L back end (`pkg/l/lmap`) | registers and temporaries in use, the LOWL text so far | mapping of expressions, statements, data |
| commands (`cmd/...`) | open files | reading options, running the packages above |

How they interact. `Step` calls the host through the `Host` interface: one
character at a time, synchronously. The host answers through the machine: it
reads and writes the S-variables, which live in `Core` below the workspace and
which the macros of the user assign at any moment; and when something fatal
happens it moves the program counter to the program's own diagnostic (`ER7A`)
and lets the machine run on (`abort`). The assembler hands the machine its
core and the addresses of the names the host and the `MD` routines look for.

What is hard here. Nothing in the repository runs two goroutines; the
interleavings are between the host, the program it serves and the macros the
program is running, which share the S-variables, and between commands
that share directories, one after another or at the same time. The failures are failing reads and writes in the middle of
a character, storage that runs out in the middle of a line, a fatal condition
that strikes while another is being reported, the cycle limit that strikes
anywhere, and a command that stops between emptying a file and filling it. The
assembler's difficulty is order: one pass, names used before they are defined,
and a Go map whose order differs from run to run.

What makes each correct:

- storage: the stacks never cross, overflow is noticed on exactly the last
  word, nothing but free words is written;
- input: each stream delivers its own text, once and in order, whatever the
  macros do to S10; every end is honest; every call returns;
- output: S19, S24 and the listing tell the truth about what was written,
  also when one of several writes failed;
- process: the first cause wins and is counted once; the diagnostic arrives
  once and in order; the quota is exact; the exit status is true;
- assembler: one pass and its queues come to what a definition over the whole
  program says; the chains are exact; nothing acceptable is refused;
- fetcher: a command that succeeds has repaired whatever it found; nothing
  unverified is installed; nothing is written where git would track it.

`PROJECT.json` lists the hazards behind each of these, at their lines.

## 2. The modules

| module | what it is |
|---|---|
| `TwoStacks` | the abstract promise: two sequences that share a fixed number of words |
| `LowlStacks` | the stack instructions over `Core`, and the mapping to `TwoStacks` |
| `MCLowlStacks`, `LowlStacksProofs` | its instance for TLC; its theorems, and those about `Machine`, the other model of `Step` |
| `InputStreams`, `InputProperties`, `MCInput`, `InputProofs` | `ReadChar`, the streams, what is promised of them, an instance, the theorems |
| `OutputStreams`, `OutputProofs` | `WriteChar` with partial failure; no specification of its own: the next two modules instantiate it, and their proofs instantiate the facts about its single steps |
| `Command`, `CommandProperties`, `MCCommand`, `CommandProofs` | `ml1` from its arguments to its exit status, with the buffers between the processor and the files; what is promised of the files; an instance; the theorems |
| `Process`, `MCProcess`, `ProcessProofs` | a run of the processor; it instantiates `OutputStreams` for its output side; an instance, the theorems |
| `Fetch`, `FetchProperties`, `MCFetch`, `FetchProofs` | the fetcher and the loop of `fetchtestdata`; what is promised; an instance; the theorems |
| `Assembler`, `AssemblerProperties`, `MCAssembler`, `AssemblerProofs` | the assembler, the reference definition it is compared with, an instance, its theorems |
| `LSyntax`, `LListing` | from the items of a text to the tree of its statements (`scanner`, `cst`, the readers of `ast`), and the tree as a text again (`WriteSource`) |
| `LText` | a program in L as a sequence of lines; what every other module of the chain needs to read one |
| `LBuild`, `LCheck`, `LMap` | `ast.Build`'s block structure, `sema.Check`, the mapping of `lmap` |
| `Machine` | the virtual machine, one step per instruction |
| `Compiled`, `CompiledProperties`, `MCCompiled` | from a text through all of these and the assembler's layout to the machine; what is promised; an instance |
| `LProgram` | what a program in L means: the abstract specification of the chain |
| `OperatorProofs` | facts about sets of numbers that the proofs share, among them an induction along an interval; theorems about the operators that pair up the blocks of a program in L |

Definitions whose comment says "faulty variant" are the same definition with a
mistake a programmer could make. Nothing uses them; each is there to be put in
the place of the right one, to see that a property notices.

### 2.1 LowlStacks

`core`, `ffpt`, `lfpt`, `A`, `C`, `cmp` are the machine's own. `Init` is the
machine as `runMachine` hands it over: S-variables in reverse below their
count, the workspace above it. `FSTK`, `CFSTK`, `BSTK`, `UNSTK` are the four
cases of `Step`, in the order in which each reads and writes (`BSTK` moves
`LFPT` before it stores), ending in `Branch`, the comparison and the jump to
`ERLSO`. The program's loads and its way of cutting the forwards stack back
are external (`Load`, `Cut`). An index outside `Core` is a Go panic.

### 2.2 InputStreams

One step is one turn of `ReadChar`'s loop, because a turn reads S10 and may
assign S10 and S23 before the next one. Between two calls the macros assign
S10, S16 and S23 any of the values given. `streams` is the array of `stream`
structs; opening is lazy; CR, LF and CRLF become one newline; a read can fail,
an `Open` can fail, a second `Open` of the same standard input must. The read that
looks for the line feed behind a carriage return can fail like any other
(`ReadTornPair`): `read` drops that error, delivers the newline, and the line
feed is still there for the next read. `got` is history: what each stream has
delivered since it was last opened; `torn` is history too: the returns in it
whose line feed could not be read.

### 2.3 OutputStreams

The writes a call makes are numbered in the order in which it makes them (line
number, listing, output 1, output 2, ...) and any set of them may fail. What
happens then depends on whether `abort` could redirect the machine, which is
the parameter `redirect`: a failed write to an output ends the call, a failed
write to the listing ends it only if it is not the first failure or nothing
was redirected. `StopsAt` says so in one line, `Done` says what has arrived,
and S19, S24 and the line-start flag follow from it. The outputs there are, and
whether there is a listing, are the parameter `job`, as in `ml1.Job`.

### 2.4 Process

The machine is reduced to where control is (`logic`, `er7a`, `report`,
`ended`) and every cycle is one `Step` of `drive`, with the host call the
program makes in it. `Abort` is `abort`: latch the condition, count it, write
the error, and either hand control to `ER7A` or write the last line and stop.
`Finalise` is what `drive` calls when control reaches `LOHALT`. The variable
`entries` says which of `ER7A` and `ERLSO` the program defines.

A text of the host's own is written a character at a time (`WriteMessageText`):
the newline that wraps a full line may fail and so may the character, neither
failure is looked at, and the next character is tried. `writing` is what is
left of the texts; the method that began them (`abort`, `stop`, `finalise`)
does nothing more that the stream could show, so its other effects are taken
with its beginning, and the machine goes on when nothing is left. The debugging
stream `debug` is a sequence of tokens, one for each character that arrived,
which say who wrote it, the how-manieth character of its text it is, whether it
is a newline, and whether it went on a full line because the newline before it
was lost (`unwrapped`).

### 2.5 Fetch

Each process runs one command after another. `os.WriteFile` is two steps
(`OpenMember` empties, `WriteMember` fills) because another command, a crash or
a failure can come between. A file's content is one of nothing, right,
a beginning of what is right, or anything else; digests tell the first three
from the last. `Crash` ends a command anywhere; `Edit` is a person with an
editor. The reading of a directory is one step: `readDir` walks it in
one go. Several commands may run on the same directories, a step of one and
a step of another in any order; nothing in the code locks one against the
other. `world` is what differs from behaviour to behaviour: the commands, what
is damaged or tracked from the start, and how many edits and faults there are.
`mixed` is history: whether two commands have been under way at once.

### 2.6 Command

`config` is `parseArgs` over the arguments (`TakeArgument`, one argument at a
time, an option that waits for its value being `wants`). `OpenInput` and
`CreateSink` are the loops of `job`, one name per step, because a later name
can fail when earlier ones are emptied already. A name used again is the same
buffer (`Known`), `-` is the standard output, which is not buffered, and the
debugging stream without `-d` the standard error. `Put` is a `Write`: a full
buffer asks the file, and a buffer that was refused once refuses everything
(`bufio.Writer`). `Flush` and `Close` are the two loops of `closeAll`, which go
on after an error and keep the first; `Report` chooses the status. The process
writes through `OutputStreams` with its real sinks: which writes of a character
fail follows from the buffers they share. What the processor itself makes of a
failure is in `Process`; here it is the fact that the status is then 255.
`--help` and `--engine` answer and stop, the latter with 1 when there is no
engine to find; `--fetch-engine` answers with either, the fetching being in
`Fetch` (`Answers`).
`sent` is history: what each name has been given by writes that returned
success. Arguments are words, options and values, not characters. `PutAll` is
a character to each of several buffers in turn, and `Parsed` the arguments one
after another; both are recursive functions, so that they can be proved about.

### 2.7 Assembler

One action per kind of statement, with everything the case in `Assemble` does
to core, to the table and to the counters, including its early returns; then
`EndOfSource`, `Link` (one step per entry), `CheckSymbols`, `Fill` (one step
per symbol, in any order: the order of a Go map) and `Export`. Statements that
do the same to the tables are one action: `WORD` is any that names nothing,
`REF` any that takes an address, `CON` any whose operand must be known. The
reference definition in `AssemblerProperties` (`Place`, `Meaning`,
`Acceptable`) takes the program `p` for a parameter and nothing else: it knows
no queue, no counter and no order. The empty text is no name of a program
(`NameAssumption`: a label or an operand the scanner returns has at least one
character), so the names the assembler itself knows are apart from it.

### 2.8 The compile chain

`Compiled` takes a text through `Parsed`, `Builds`, `Check`, `Mapped`, `Rows`
and the layout of the assembler into `Machine`, as `macl` does with a source
file, and lets `Machine` run. `Built` holds what becomes of each text: it is
rejected by the front end, by `Check` or by `Map`, refused by the assembler, or
an image the machine begins with (`Loaded`); a text that uses something `LMap`
does not say, or that declares a name the L-map or the assembler has for itself,
is only read (`Followed`). `LProgram` executes the same program one statement at a
time, with no registers, no scratch variables, no jump tables and no labels
but the program's. `RunsAsL` is the refinement: `line`, `seen`, `heard`,
`calls` and `executed` are history variables of `Compiled` that are updated
when the program counter reaches the first word of a line (and is not in the
middle of a call), and with them every behaviour of the machine is a behaviour
of `LProgram`.

- `LSyntax`: a text is a sequence of lines, a line a sequence of items (words,
  numbers, quotes, brackets, comments, punctuation). `Scan` decides what a
  bracket opens by the word before it, as `scanner.prev` does; `Arguments`
  groups what stands in parentheses; `Grammar` has for each statement the
  steps of its case in `dispatch.go`, and `Take` does one step: a keyword that
  must or may come next, and what is read after it. A reader returns a value
  and what is left, or fails; `Ended` is `expectEnd`. The code goes on after
  an error to report more of them; a text with an error has no tree here.
- `LListing`: `ast.WriteSource`, item by item, with `Wrap`, `Prec` and
  `Tighter` for its parentheses.
- `LText`: a line has a label, prefixes and a statement. The tree of
  `pkg/l/ast` is kept flat; a program stands for what is between `PRGSTART`
  and `PRGEND` and outside the `VARS` SECTION, whose lines are the constant
  `Declarations`. `Flat` is the tree as `lmap` takes it: a one-line `IF` that
  guards anything but a `GO TO` is the block it means, and the calls of
  `mdCall` are statements of their own.
  The constants of the language are here too: those the L-map has a number for
  (`ConstantValue`), the lengths of the data types, `STOPCODE`, and the four
  markers, of which the L-map makes variables.
- `LBuild`: the pass of `ast.Build` with its stack of open statements
  (`AtLine`), and what an unmatched or unclosed statement does. `LMap` asks it
  which line an `END`, `ENDCH` or `ENDBLOCK` belongs to; `LProgram` asks
  `LText`, which counts openers and closers, so that the two can disagree.
- `LCheck`: `Uses` and `Wanted` are the two halves of the resolver (the names
  of a statement with how they are used, and what kind each use wants);
  `DeclaredOnce`, `CallAgreement` and `RoutineRelative` are the rest.
- `LMap`: one operator per emitter (`Load`, `Combine`, `CompareRows`,
  `Condition`, `SetRows`, `ChainRows`, ...), each giving the rows of LOWL it
  emits. The scratch variable in use is the parameter `n`, counted by `Spills`
  and `ScratchWanted` as `mapper.spilled` is; `Refused` holds what `Map`
  reports. `Prelude` has the routines of the machine-dependent logic that
  statements call or branch to: the two of `CHAIN FROM`, `MDERPR`, `MDNUM`,
  `MDGOBC` and `MDHALT`.
- `Machine`: an action per instruction or family of instructions that `LMap`
  can emit. A word's value, which stores write, is kept apart from the rest,
  which only a block move writes, so a program that overwrites its code is
  within the model. An index outside `Core` is a panic, as in Go.
- `Compiled`: the words of the rows (`WordOp`, `WordTwo`, `WordValue`), the
  numbering of jump table entries, the exits a routine declares, duplicate and
  missing labels, and the names the assembler has from the start: six characters
  (`Character`) and four lengths (`Seeded`), which pass for addresses. The queues and the hash chains of the assembler are in
  `Assembler`, whose runs show that they come to the layout used here.
- `LProgram`: what the comments of `ast`, `lmap` and `sema` say of each
  statement. A statement without a meaning in the current state (a pointer to
  no data, a routine that falls through, a stack outside the workspace) is not
  `Defined` and nothing is promised after it. A return address that a
  linkroutine keeps in `LINKPT` is an opaque mark of its call, which the
  program may copy and put back.

## 3. The runs

| run | what it asks | instance | what it shows |
|---|---|---|---|
| `lowl_stacks` | do the two stacks share the workspace safely | 10 words, 2 S-variables, workspace of 3 | they never cross; overflow at exactly the last word; only free words change; S-variables stay; the whole implements `TwoStacks` |
| `lowl_stacks_panic` | does overflow always become a branch | a workspace beyond the end of Core | no: `BSTK` panics (finding) |
| `input` | do the streams deliver what they hold | an empty stream, one ending in CRLF, one with a return before a pair and one at its very end; every legal, illegal and rewinding S10 and S23; faults | normal form of what was consumed, a pair being two newlines exactly where the read between its halves failed; honest ends; only rewind codes reposition; every call returns |
| `input_stuck` | does every call return | S23 may name the rewind code of an empty stream | no: `ReadChar` loops inside one instruction, unseen by the cycle limit (finding) |
| `command` | does a status that reports success mean that every file is complete, and a refusal that none was touched; do S19, S24, the files and the listing agree | 25 command lines and circumstances: outputs, listing and messages apart, in one file, on the standard output, onto an input; buffers of two; any set of writes, flushes, closes and opens failing; inputs that disappear; masks and controls assigned between characters | they do |
| `process` | is a process diagnosed, charged and ended rightly | one output, quota 1, width 2, texts of four and two characters, 6 cycles, every write of a character may fail, programs with and without entry points | first cause wins; the diagnostic's shape; the exact quota; lines too long only where their newline was lost; a true exit status |
| `process_limit` | does `ErrAborted` mean exit status 255 | as above, 3 cycles | no: reaching the cycle limit gives 254 or 0 (finding) |
| `fetch` | does a successful command repair everything, also beside another one | engine and suite, a stray file, tracked directories, a damaged archive, edits, faults, crashes; one command after another, or two at once | targets and embed directory right after success; nothing unverified, nothing tracked, nothing written under `-verify`; every command ends |
| `fetch_half` | does a failure leave the machine as it was | as `fetch` with failing writes | no: an emptied or partial engine stays (finding) |
| `assembler` | is one pass with queues as good as two passes | every program of four statements over three vocabularies, core too small for some | yes, for references, relative distances, chains and exits, and nothing acceptable is refused |
| `compile` | does compiled L do what the program says, and does the front end read what was written | over 600 programs of one statement or one construct, printed as text, from three memories each; over 4000 texts with one line damaged | the text reads back as the program; no item of an accepted line is left out; statement by statement, values, messages, calls in progress and the next line are those of `LProgram`; what `Check` and `Map` accept the assembler accepts, but for the five cases of section 5; a meaningful statement ends |
| `compile_conditions` | does a condition compare its two sides | the right side is `IND` of a computed address | no: the address is compared (finding) |

Bounds and why they are enough.

- Stacks: with three words of workspace every position of the two pointers is
  reached, from both sides, and so are the pushes that use the last word by
  each instruction; the proofs remove the bound.
- Input: what a turn does depends on the next two bytes, the selected stream
  and the revert stream. Three streams are one to leave, one to go to and an
  empty one; the texts contain each sequence of two bytes that matters.
- Command: two outputs are the least in which a write comes after another;
  three characters make a line, its end and the start of the next; buffers of
  two are full before the process is over, and are not, so that a failure is
  noticed by a write and by the last flush. Macros assign S20, S21 and S22 at
  any moment where two outputs and a listing share the standard output, and
  before the first character elsewhere.
- Process: six cycles reach a first failure, a second one while the first is
  reported, the context, the finalisation and both parts of the report; one
  cycle more passes and takes longer than it is worth. The host's texts take no
  cycles. The error text leaves its line open, is longer than a line is wide
  and begins with a newline, as the code's does; the aborted text closes its
  line; what else the code's texts say changes nothing.
- Fetch: two archives are the least in which an earlier one is done when a
  later one fails; two members the least in which one is written and one not;
  two commands the least that overlap, over the engine, whose file is the one
  that is read, written and copied on.
- Assembler: four statements hold a use, a definition, a second definition and
  a use after it; programs of five pass as well but take longer. Names, texts
  and chains number two or three because the code compares names with each
  other and with the reserved ones only.

- Compile chain: each program is one statement of each shape, with each of
  the expressions that need no, one or two scratch variables, or one compound
  statement, routine or label in each of the positions the code distinguishes
  (first, last, labelled, empty, nested, jumped out of). The code of a
  statement depends on nothing but the statement, its routine and its opener,
  so longer programs add combinations, not code. The three memories make every
  relation true and false, every pointer valid and one invalid, and put the
  text of `MDNUM`, `MDGOBC` and `MDERPR` where each of their branches is
  taken. `Cycles` is the cycle limit; `Longest` is the most instructions one
  of these statements takes; code starts at 80 so that no number or character
  of the programs is a return address; the number area has three words
  instead of twelve, so that a number too long for it exists. The damaged
  lines (`Garbled`) start from one line of every statement and lose an item,
  say one twice, exchange two neighbours, put a comma, a sign, a word, a
  comment, a prefix, a bracket, a parenthesis or a stray character in every
  place, and put parentheses round every part: whatever an item is next to
  while it is read, each reader decides by at most two of them. Some 300 of
  them are accepted. What the properties say of a text is looked at when the
  run begins. The constants stand in every place a value or a variable can
  (`WithConstants`, `ComparingCharacters`, `Misplaced`, `Constant`), and so do
  sizes of blocks and the names of characters. The labels `GOSUC`, `GOFAIL` and
  `ERLIA` end the programs, because the prelude names them; some programs leave
  one out, as some that call `MDOP` have no `ERLOVF`.

Deadlock is not checked in these runs: a process, a command, an assembly and a
machine that has stopped really do stop.

Fairness. `ReadReturns` assumes that a started turn of `ReadChar`'s loop is
carried on (weak fairness of one step of straight-line code whose reads
return). `CommandEnds` assumes it
of each command; the one step that waits for somebody else is the download,
and the HTTP client has a timeout (`internal/fetch/fetch.go`).

## 4. What is proved

`LowlStacksProofs`, for every size of core, program, S-variable block and
workspace (assumption: the program and the block fit in core,
`StacksAssumption`):

- `TypeCorrect`, `OverflowExact`, `SystemVariablesSafe` from the inductive
  invariant `IInv`. The three are not inductive by themselves: a pop at the
  top of a workspace that does not fit would read outside core. `IInv` adds
  `UnstackableInCore`: once a word is on the backwards stack all of the
  workspace lies inside core, because its first word is the highest of all.
- `NothingOverwritten`, the action property, from the same invariant.
- `NoPanic` and `Refines` under the extra condition that the workspace fits
  (`Fits`): every step maps to a step of `TwoStacks` or to a stutter. The run
  `lowl_stacks_panic` shows that the condition is needed.
- `StackInstructionsAgree`: `Step` is modelled twice, in `LowlStacks` for what
  the stacks promise and in `Machine` for what compiled programs do. `Holds`
  says what the variables of the one are of the other (the pointers are words
  of the program, `at` is the program counter at `ERLSO` or the status), and
  under it `FSTK`, `CFSTK`, `BSTK` and `UNSTK` are the same steps. `LaidOut`
  is the layout the assembler gives: the pointers and the variable popped into
  are different words of the program, and `ERLSO` is not the word right behind
  the push. A small instance checked with TLC showed that the hypotheses have
  states, that each of the four steps happens in them and that `ERLSO` is reached.
- `ReturnsAreCalls`, for every program that `Machine` can be given: every
  address on the return stack is the word after a `GOSUB`, so an `EXIT` goes
  nowhere else. `CompiledProperties.TypeOK` checks it of compiled programs. The
  one condition is that no block move overwrites a call (`CallsStand`); a step
  may otherwise jump wherever the words of core send it.

`AssemblerProofs`, for every program, set of names, hash function and size of
core (`AssemblerAssumption`):

- `QueuesFilled`: whatever the order of the map, a machine that is returned
  holds the value of its symbol in every word queued for it. The inductive
  invariant has three parts beside the types. `Consistent`: no word is in two
  queues and all of them lie below the program counter, because a reference
  is queued at the program counter and a word follows. `ChainInv`: entries and
  chain heads are words of the program, so that linking stays inside core.
  `FillInv`: nothing is filled before every name is defined, and what has been
  filled still holds. Filling one queue cannot disturb another by the first
  part; a name defined twice moves only before the filling starts.
- `TypeCorrect`, `ReferencesMean`, `ChainsExact`, `AcceptableIsAssembled`: what
  is assembled in one pass is what the definition over the whole program says.
  This is a second layer, proved on top of the first. `Read` says of the
  counters what `Place` says of the program: while statement `next` is
  assembled the program counter is `Place(nodes)[next]`, the current subroutine
  and its number of exits are those of the last SUBR before it, and the queues
  hold the words of exactly the references read so far (`Queued`). `Known` says
  of the table, for a program that defines no name twice, that a name whose
  definition has been read is settled (an EQU or IDENT of a name used before
  is lost, and then the name never gets a meaning), and that all others are
  not; `Meaningful`, that only queues with a value are filled.
  `Tabled` (`Listed`, `Headed`), `Blank` and `Chained` follow the hash table:
  the entries are those of the source in its order, what has not been laid out
  and the heads are nought until the linking, and while it goes backwards the
  heads and links are those of the entries from there on. `Accepted`
  says that an acceptable program has passed each refusal there is, one lemma
  for each. The lemmas they share are about `Place`: it exists for every
  program (`Placed`, by `Repetition`), and grows by the size of each statement
  (`PlacesGrow`), which is why no two words of a program are the same.
- `ImageExact`, `TablesExact`: a machine that is returned is a function of the
  program, if that defines no name twice. `FirstOf` and `SecondOf` say for each
  statement what the two values of its word are, `LinkOf` where each link and
  head of the hash table leads, `Visible` and `Register` what stands in the two
  tables beside core; none of them mentions the assembler's state. The words of
  a block move are included if the program declares its two pointers.
  The invariant is `Laid`: while the source is read, the number of ways so far
  is what `Branches` counts (`Numbered`), every word emitted is what its
  statement says (`Words`), what has not been reached is nought (`Bare`), and
  the registers are those declared so far (`Registered`). It survives the later
  passes because they touch only words that refer to a name, belong to the hash
  table or head it (`Touched`, `Untouched`); `Sealed` says that those have been
  touched when the machine is returned. The links then follow from
  `ChainsExact`'s invariant: the entry behind another in its chain is the next
  statement that hashes to it (`LinkIsStatement`).

`InputProofs`, for every text, number of streams and assignment of the macros:

- `DeliversNormalText`, `EndsHonestly`, `TypeCorrect` and the action property
  `RewindRepositions`. What a stream delivered is the normal form of what it
  consumed only because reading stops between the two halves of a CRLF nowhere
  but where the second half could not be read (`Outside`), and the pairs taken
  apart are behind the position (`Behind`); the end of the revert stream is honest only because a stream at
  its end has no bytes left (`EndIsEnd`); and a stream that must be opened has
  delivered nothing yet (`Fresh`), so opening repositions nothing.
- `TurnsRunOut`: `TurnsLeft`, which is at most three, falls with every turn of
  the loop, under the one condition of `ReadReturns`. A turn that does not end
  the call goes over to the revert stream; if that is a rewind code and its
  stream has nothing in it, it can be rewound again only if it can be opened
  again, and then the condition is broken. Of `ReadReturns` this leaves to TLC
  that a turn is possible and, being fair, is taken.

`OutputProofs` proves about single steps of `WriteChar`, whatever fails and
whether or not the machine could be redirected: types are kept, at most two
writes of one call are attempted and fail (`FewFail`), the call is complete
exactly if none did, the line-start flag and the files follow (`WriteCharFollows`),
and the listing has its lines in order (`WriteCharLists`).

`ProcessProofs`, for every program, width, quota, cycle limit and failing write:

- `QuotaExact`, `LinesAlwaysFit`, `DiagnosticInOrder`, `AbortReported`,
  `StatusTrue`, `TypeCorrect`, and the action property `FirstCauseAlwaysWins`.
  None is inductive: they say nothing of where control is while the process
  is being wound up. `Control` relates the place of control to the phase, the
  latched condition and the number of failures (a program is at its logic only
  while nothing has failed); `Story` relates what the debugging stream holds,
  and what is still to be written of the host's texts, to all of those: what
  has arrived and what is left are each in order and the one goes on where the
  other stopped (`Shaped`, `Follows`), together they are the whole text as long
  as nothing was lost (`Told`), and the line the stream ends in is exactly as
  long as the column says (`LastLine`), which is why a line is too long exactly
  where the newline before a character was lost.

`CommandProofs`, for every command line, set of files, capacity of the buffers
and failure:

- `NothingEverLost`, `RefusalAlwaysClean`, `AtLineStartAlwaysTrue`,
  `FilesAlwaysFollowMask`, `ListingAlwaysTrue`, `TypeCorrect`. The invariant:
  what a file holds, followed by what its buffer holds, is what the writes
  that returned success gave its name (`Held`, which no failure disturbs); the
  buffers of the names that have been flushed without an error are empty, and
  a status that reports success has come by all of them and by no failure
  (`Progress`); each name among the sinks has its one buffer, also when it is
  given twice, so that two sinks on one file are in the order of the calls
  (`Routed`); a command that is refused has no buffer and has sent nothing
  (`Refusals`, `Unsent`). That `OutputProofs` may be used needs the number of
  outputs to be within four, which is proved of `parseArgs` (`ParsedIsConfig`)
  by going along the arguments.

`FetchProofs`, for any number of overlapping commands, archives and files:

- `TargetsAlwaysRight`, `EnginesAlwaysEmbedded`, `TypeCorrect` and the action
  property `OnlyVerified`. What is promised holds when all commands have ended.
  While they run, what a command has seen to is right or is being written by a
  command that will not end before it is (`TargetsSeenTo`, `EnginesSeenTo`);
  that a writer writes only what belongs where it writes follows from the
  checks it has passed (`Checked`, `Apart`); and commands that overlap are
  known to (`Mixed`), which is all that the weaker promise about the embedded
  engine rests on.
- `CommandsRunOut`: `StepsLeft` of a command is bounded by the manifest
  (`PerArchive` for each archive selected), falls with each of its steps, and
  rises only when the command is started. So what other commands write, also
  into the directory whose `.lwl` files it is copying, cannot prolong it: it
  has read the directory once. Of `CommandEnds` this leaves to TLC that a step
  is possible and, being fair, is taken.

`OperatorProofs`: the library's induction theorems take an operator for a
parameter, which no backend here can instantiate. Its theorem of minimal
elements takes a set, and from it follow that a set of numbers has a least
member (`Least`), that what is passed along an interval holds on all of it
(`UpTo`), and that a step can be repeated along an interval (`Repetition`),
which is what a recursive function of a bounded argument is. On these rest
three theorems about the operators of the compile chain that find the blocks
of a program in L, for every program:

- `BuildPairs`: when `LBuild` (`ast.Build`) accepts, what its stack found is a
  pairing of the closing lines with the opening ones: each of the kind it may
  close, every opening line closed once, and the blocks nested. The invariant
  along the lines (`Kept`): the stack holds, in their order, exactly the
  opening lines before the present one that nothing has closed.
- `BuildMissesNone`: a program that can be paired at all is accepted, and there
  is only one way to pair it. Along the lines every pairing agrees with the
  stack (`Follows`): because blocks are nested, what a closing line ends is the
  last line left open, in any pairing.
- `CountingFindsTheBlocks`: `LText` and `LProgram`, which have no stack, find
  the end of a block by counting opening and closing lines; in every accepted
  program that is the line the stack found. Between a line and its end every
  closing line has its opening line there too, and counting them is injective.

`LMap` generates code from the first and `LProgram` gives meaning by the other,
so a difference between the two would make `RunsAsL` compare different programs.

Only model-checked:

- The temporal part of `ReadReturns` and `CommandEnds`: fairness and `ENABLED`
  are outside the prover's reach. For both the number that falls is proved (`TurnsRunOut`, `CommandsRunOut`).
- `TypeOK`, `StatementsFinish`, `BuildsWhatIsChecked`, `ReadsBackAsWritten`,
  `NothingIsSwallowed` and `RunsAsL` of `Compiled`, but for the return stack
  and the blocks. They are about `LSyntax`, `LListing`, `LCheck`, `LMap` and
  `LProgram`, which go into expressions with `RECURSIVE` operators, and no
  theorem can be stated in a module that reaches one; and what such an operator
  computes for every expression would be an induction over data.
- The registers of `Machine`: that `A` is a number needs the value of `And`, a
  recursive function over all integers.

## 5. What the models showed

Findings with a run are in `PROJECT.json`. Differences between what a comment
or document says and what the code does that need no run to see:

- `input.go:16` says an input is opened when the process starts; `host.go:445`
  opens a stream when it is first read.
- `host.go:458-459` says of a carriage return that "either way one newline
  reaches the logic". When the `ReadByte` of line 460 fails with an error that
  is not the end of the file, the error is dropped and the return counts alone;
  `bufio.Reader` reports an error once, so the next read finds the line feed
  and delivers a second newline. An error of any other read ends the process.
  `DeliveredIsNormal` counts a pair twice exactly there.
- `host.go:397-406` ignores each failed write of a text of the host's own. When
  the newline that would wrap the line is lost and the next write succeeds, the
  line is longer than `DebugWidth`; `LinesFit` says that lines are too long
  nowhere else.
- `host.go:78-88` promises a last line for every aborted process. When a
  second write of the same character fails after `abort` has redirected the
  machine (`host.go:99`), the machine stops before it is written;
  `AbortIsReported` leaves that case out.
- `docs/how-to/fetch-the-upstream-sources.md:87-88` says `-verify` checks the
  cached archives when there is no target; `fetch.go:67-71` has returned
  before the cache is read, and the tests of `VerifyOnly` in `bytes` are never
  reached with it set.
- `cmd/fetchtestdata/main.go:13-14` says everything the command writes is
  verified; `fetch.go:279` copies every `.lwl` file it finds in a target,
  listed or not, on to the directory that is embedded. A stray file also makes
  every later run install again, because the check wants the archive's own
  files and no others.
- The `-cache` directory is not held to the rule that fetched files are never
  written where git would track them.
- Two overlapping fetches can both succeed and leave a beginning of an engine
  in the directory that is embedded: one empties the file in the target while
  the other, which has verified it, copies it on. The next command repairs it.
  `EnginesAreEmbedded` allows it for commands that overlapped and for nothing
  else; the target itself is right even then.
- `cmd/ml1/main.go:210` opens and closes each input before any output is
  created, so that a missing input harms nothing; but a file that is named as
  input and as output is then emptied before it is read, silently. `-` named
  twice as an input reads the standard input once and is then empty. Two names
  of one file (a link, `./x` and `x`) are two buffers over it. A panic of the
  machine, or a kill, skips the flush.
- The assembler ignores the answers of `InsertAddress` and `InsertConstant`
  in `MDLABEL` and `IDENT` (`assemble.go:241`, `:660`): a second `IDENT`, or
  one after a use, changes nothing and says nothing; the label of an alias
  whose target is not there yet is dropped. `SUBR` and `LINKR` silently move a
  label that exists. An `EQU` after a use is ignored and reported as an
  undefined symbol. An alias of an alias is refused with a panic if the
  target is there first and works if it is not. A program larger than core is
  a panic too.

- `ast/stmts.go:368-369` says that value 1 of a `TEST` goes to the first
  label; `lmap/stmts.go:529-543` makes the first label stand for 0, and
  `LProgram` follows the latter.
- `ast/stmts.go:218` calls the exit of `CHAIN FROM` "where to go when the chain
  is exhausted"; `lmap/stmts.go:502-519` takes it for an empty chain only, and
  goes on after `ENDCH` when there is no next item.
- `lmap/stmts.go:570-580`: two targets of a `SET` that are both reached
  through computed addresses share `LOSTOR`, so that the second address
  replaces the first. In `SET p, IND(p) = v` the variable is assigned before
  the store through it. Neither shape is in the vocabulary of the run that
  passes.
- `CHAIN FROM` overwrites `PARNM`, which the list of variables it uses without
  naming (`sema/predefined.go`, `chainVars`) leaves out.
- An expression with three terms that are no leaves is refused as "nested too
  deeply" (`lmap/expr.go:164-166`) although nothing in it is nested.
- `Check` and `Map` accept five things the assembler refuses, by a name or a
  flag that is not in the program, or by a label it does not have.
  `BuildsWhatIsChecked` says that there are no others among the programs of the
  run, which fit the core, declare the variables the L-map uses and keep clear
  of its names. Leaving any of the five out of it makes TLC find a program.
  - A constant of the language, or the size of a block, in the place of a
    variable (`SET TRUE = V`, `SET INNSZ = V`; also `UNSTACK`, `SCALE`, `TEST`,
    ...): the resolver takes a constant wherever a value is named
    (`sema/resolve.go:458`). Where the constant is `LNM`, `LCH`, `LICH` or `LHV`
    the assembler, which has a number for it, takes that for the address:
    `SET LNM = V` stores into word 1 of core. `sema/predefined.go:53-55` says of
    these lengths that they "are legal only inside the argument of OF, which
    check.go enforces"; it does so for `*` and `/` alone (`check.go:307`).
  - A size as the mask of a `SETSW`, which becomes `ANDL OF(...)`
    (`lmap/stmts.go:607-628`, `assemble.go:145-166`).
  - A comparison of a character with a variable or a size, which becomes `CCN`
    (`lmap/stmts.go:423-434`); with `STOPCODE`, or a constant that has a number,
    the assembler agrees.
  - A program without `ERLIA`, `GOSUC` or `GOFAIL`, to which the prelude goes
    (`lmap/prelude.go:277`, `:432-478`).
  - A program that calls `MDOP` without `ERLOVF` (`lmap/stmts.go:254-258`).
- The assembler lets a `SUBR` or `LINKR` define a name again
  (`assemble.go:283-289`, `:306-312`), so a routine with the name of one of the
  L-map's replaces it without a word. Programs that do so are only read here.
- `Check` accepts `RETURN FROM` in a linkroutine, which `Map` refuses.
- `ast/listing.go:29-33` says that what `WriteSource` writes reads back as the
  same tree. `wrap` asks `need > precUnary`, which no caller's `need` is, so a
  sign inside an expression never gets its parentheses: `A-(-B)` is written
  `A--B`, which does not read, and `(-A)*B` is written `-A*B`, which reads as
  another tree. `SignInside` leaves these texts out. A comment that ends in
  `/` is written so that it ends early; a text that stands for a value in an
  `OPMAC` (`PRTEXT[A]` with no comma) is written as a label.
- `ast/args.go:196-198` calls `expectEnd` "the check that turns a gap in this
  grammar into a diagnostic instead of silence". Inside `AD( )` and `BLOCK( )`
  it is not made: what follows the name there is dropped (`args.go:360-381`). `dispatch.go:387-391` takes
  the commas of an `OPMAC` or does without them; `:187-190` takes `PARCH` for a
  parameter although its message names the other three.
- The prefixes of a closing statement, and the comments above it, are dropped
  (`ast/build.go:94-134`).
- `lmap/data.go:55-61` refuses every `RL(label+n)`, which the front end reads;
  `lmap/expr.go:310-318` writes `OF(2*(1+2))` without its parentheses, which
  changes its value.
- `sema/predefined.go:70` calls `MDGOBC` "go back a character";
  `lmap/prelude.go:407-417` makes it "go by class". Its loop over signs is not
  bounded by `ERIAPT`: a text of signs only is read beyond its end, until some
  other character ends the loop. The answer is still right.

## 6. What is not modelled

- The commands other than `ml1` and the loop of `fetchtestdata`. Of `ml1`, the
  search for an engine is one answer, found or not, and the texts it prints.
- The scanner and parser of LOWL: text to tables, with no state that outlives
  a line. Of the L front end, the characters an item is made of, positions,
  recovery after an error, and the trivia above statements.
- Of L: `MSTACK`, whose expansion calls subroutines of the program in the
  middle of a statement; `READ`, `OUTPUTID`, `MDFIND`; `EQUATE`; `OF`; what
  the markers mean, and programs that declare names of the L-map or of the
  assembler; data SECTIONs; the code at `BEGIN` and the report
  at the end of a process; the apostrophe in a `PRTEXT`; checks of the frame
  (`PRGSTART`, SECTION names, lengths of names).
- Of the machine: the instructions that only the LOWL engine uses, and `MDREAD`,
  `MDOUCH` and the metering of messages, whose host side is in `InputStreams`,
  `OutputStreams` and `Process`.
- `pkg/postfix`, a small pure function that nothing else uses.
- Listings, summaries and formatting, about which nothing is claimed.

## 7. Plan

In this order; the first six are done, the last of them in the parts section 6
does not name.

1. Storage (`TwoStacks`, `LowlStacks`) with its proofs: every other part of the
   machine relies on it.
2. The host: `InputStreams`, `OutputStreams`, `Process` composed from the
   second, and `Fetch`.
3. `Assembler` with its reference definition.
4. The theorems of the two: `LowlStacksProofs`, `AssemblerProofs`.
5. Control: `Machine`, with calls, jump tables, linkroutines, block moves and
   the `MD` routines that compute.
6. L: `LSyntax`, `LListing`, `LBuild`, `LCheck`, `LMap`, `LProgram` and their
   composition `Compiled`.
7. The rest of the chain: `MSTACK`, `READ` and `OUTPUTID` with `Machine`
   composed with the host, the data SECTIONs with `MDFIND` and the hash table
   the assembler lays, the code at `BEGIN`.
8. The host as one composition: input, output and process over the same
   S-variables. Opening, buffering and closing by `ml1` are done (`Command`).
9. Proofs: the host, the command, the fetcher, the assembler and the stacks are
   done (`InputProofs`, `OutputProofs`, `ProcessProofs`, `CommandProofs`,
   `FetchProofs`, `AssemblerProofs`, `LowlStacksProofs`), and of the compile
   chain the blocks and the return stack (`OperatorProofs`,
   `LowlStacksProofs`). Left: the rest of the chain, for which its operators on
   expressions would have to be restated without recursion.
