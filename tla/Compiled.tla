------------------------------ MODULE Compiled ------------------------------
(***************************************************************************)
(* From the text of a program in L to a machine running it: the front end, *)
(* Check, Map, the layout of the assembler and Run.  The variables of      *)
(* history follow the machine from one statement of L to the next, so that *)
(* LProgram can say what each should have done.                            *)
(***************************************************************************)
EXTENDS Integers, SequencesExt, LText

CONSTANTS Sources,    \* the texts to compile, each with the tree it was printed from, if it was
          Memories,   \* what the program's variables, tables and workspace start with
          Declarations, Block, DataLabel, BlockName, Atom, MarkBase, Cycles,
          Table,      \* where the data labels are
          Data,       \* the addresses of the program's own variables, tables and workspace
          CodeBase,   \* the first word of the code
          LastWord,   \* the last word of Core
          Character,  \* the characters the assembler has names for
          Seeded,     \* the other names the assembler has from the start, and their numbers
          NumberText, MaxNumberText

VARIABLES text, core, symbols, pc, A, B, C, cmp, jump, rs, messages, status, cycles,
          source,     \* which of the texts
          program,    \* its lines, if they are compiled
          starts,     \* where the code of each line starts
          returns,    \* of each return address, the line of the call
          line, seen, heard, calls, executed   \* history
machine == <<text, core, symbols, pc, A, B, C, cmp, jump, rs, messages, status, cycles>>
history == <<line, seen, heard, calls, executed>>
vars == <<machine, source, program, starts, returns, history>>

Address == 0 .. LastWord
OwnVariables == <<"SRCPT", "DSTPT", "LOTEMP", "LOSTOR", "LOSPIL", "LOSPI2", "LOLENG">>
Own == INSTANCE LMap
Variable == {Declarations[k].s.name : k \in Own!Declared}
\* The variables of the program are laid out as they are declared, and then those
\* of the L-map.
Location ==
  [v \in Variable |-> 1 + Own!Ahead(Own!Line(v))]
  @@ [v \in Range(OwnVariables) |->
        Cardinality(Own!Declared) + CHOOSE k \in DOMAIN OwnVariables : OwnVariables[k] = v]
  @@ Table
F == INSTANCE LListing
Sema == INSTANCE LCheck
M == INSTANCE Machine
L == INSTANCE LProgram WITH memory <- seen, messages <- heard
-----------------------------------------------------------------------------
(* The assembler: where each row goes, and the word it becomes. *)

Resets == {"GOSUB", "MD", "GOADD", "GO", "GOEQ", "GONE", "GOGR", "GOGE", "GOLE", "GOLT", "GOND", "GOPC"}
ToLabel == Resets \ {"MD", "GOADD"}
ToName == {"LAA", "LAV", "LAI", "LCI", "LBV", "STV", "STI", "AAV", "SAV", "ANDV",
           "CAV", "CAI", "CCI", "UNSTK", "BUMP", "GOADD", "LINKR", "LINKB", "FMOVE", "BMOVE"}

ToCharacter == {"CCN", "LCN"}

\* Labels take no room: the words are the rows that are not labels.
IsWord(row) == row.op # ""
Words(rows) == SelectSeq(rows, IsWord)
After(k) == CodeBase + k
LabelRows(rows, l) == {r \in DOMAIN rows : rows[r].op = "" /\ rows[r].x = l}
LabelAddress(rows, l) == After(Len(Words(SubSeq(rows, 1, Min(LabelRows(rows, l))))))

\* The entries of a jump table count from the last thing that resets the count.
Entry(row) == row.op = "GO" /\ row.flag \in {"C", "T"}
EntriesBefore(words, k) ==
  LET reset == Max({0} \cup {q \in 1 .. k - 1 : words[q].op \in Resets /\ ~Entry(words[q])})
  IN  Cardinality({q \in reset + 1 .. k - 1 : Entry(words[q])})

NameIn(row) == IF row.op = "BUMP" THEN row.x[1] ELSE row.x
\* A name the assembler knows as a number passes for an address.
Reference(name) == IF name \in DOMAIN Location THEN Location[name] ELSE Seeded[name]
WordOp(row) ==
  CASE Entry(row) -> "GOTBL"
    [] row.op = "MD" -> row.x
    [] row.op = "SUBR" -> IF row.flag = "PARNM" THEN "STV" ELSE "NOOP"
    [] OTHER -> row.op
WordTwo(words, k) ==
  CASE Entry(words[k]) -> EntriesBefore(words, k) + (IF words[k].flag = "C" THEN 1 ELSE 0)
    [] words[k].op \in {"FMOVE", "BMOVE"} -> Location["DSTPT"]
    [] words[k].op = "BUMP" -> words[k].x[2]
    [] words[k].op = "MESS" -> words[k].x
    [] OTHER -> 0
WordValue(rows, row) ==
  CASE row.op \in ToLabel -> LabelAddress(rows, row.x)
    [] row.op \in ToName -> Reference(NameIn(row))
    [] row.op = "SUBR" -> IF row.flag = "PARNM" THEN Location["PARNM"] ELSE 0
    [] row.op \in {"MD", "MESS"} -> 0
    [] row.op \in ToCharacter /\ row.flag = "" -> Character[row.x]
    [] OTHER -> row.x

\* What the assembler accepts: names that mean something, exits that are declared,
\* and enough words.  An ANDL and a CCN have no OF.
ExitDeclared(words, k) ==
  LET routines == {q \in 1 .. k - 1 : words[q].op = "SUBR"}
  IN  routines # {} /\ words[k].x \in 1 .. words[Max(routines)].x
Assembles(rows, words) ==
  /\ \A r \in DOMAIN rows : rows[r].op = "" => LabelRows(rows, rows[r].x) = {r}
  /\ \A k \in DOMAIN words :
       /\ words[k].op \in ToLabel => LabelRows(rows, words[k].x) # {}
       /\ words[k].op \in ToName => NameIn(words[k]) \in DOMAIN Location \cup DOMAIN Seeded
       /\ words[k].op \in ToCharacter /\ words[k].flag = "" => words[k].x \in DOMAIN Character
       /\ words[k].op \in {"ANDL", "CCN"} => words[k].flag # "OF"
       /\ words[k].op = "EXIT" => ExitDeclared(words, k)
  /\ After(Len(words)) <= LastWord + 1

(***************************************************************************)
(* The machine that Assemble and the host hand to Run.                     *)
(***************************************************************************)
Datum == [op |-> "DATA", two |-> 0]
WordIn(a) == IF a >= CodeBase THEN a - CodeBase + 1 ELSE 0
Text(words) ==
  [a \in Address |->
     LET k == WordIn(a)
     IN  IF k \in DOMAIN words THEN [op |-> WordOp(words[k]), two |-> WordTwo(words, k)] ELSE Datum]
Code(rows, words) == [k \in DOMAIN words |-> WordValue(rows, words[k])]
Core(code, initial) ==
  [a \in Address |-> CASE WordIn(a) \in DOMAIN code -> code[WordIn(a)]
                       [] a \in DOMAIN initial -> initial[a]
                       [] OTHER -> 0]

\* Where lines start: the first word of each line that has one, the word after
\* the last line, and, for the end of the process, the word that quits.
Starts(p, rows, words) ==
  LET Of(i) == {k \in DOMAIN words : words[k].line = i}
  IN  [i \in {j \in DOMAIN p : Of(j) # {}} |-> After(Min(Of(i)) - 1)]
      @@ (0 :> LabelAddress(rows, <<"LOHALT", 0>>))
      @@ (Len(p) + 1 :> LabelAddress(rows, <<"LOSCHN", 0>>))
Returns(words) ==
  LET callWords == {k \in DOMAIN words : words[k].op = "GOSUB" /\ words[k].line # 0}
  IN  [a \in {After(k) : k \in callWords} |-> words[a - CodeBase].line]
Exported == {"FFPT", "LFPT", "MEVAL", "OP1", "OPSW", "IDPT", "IDLEN"}
SymbolsOfVariables(rows) ==  \* faulty variant: labels are not exported
  [n \in Exported |-> Location[n]]
Symbols(rows) ==
  [n \in Exported |-> Location[n]]
  @@ (IF LabelRows(rows, <<"ERLSO", 0>>) = {} THEN <<>>
      ELSE "ERLSO" :> LabelAddress(rows, <<"ERLSO", 0>>))

\* Memory as L sees it: a return address is the mark of the call it belongs to.
Mark(v) == IF v \in DOMAIN returns THEN MarkBase + returns[v] ELSE v
View == [a \in Data |-> Mark(core[a])]

\* What becomes of a program: "rejected" by the front end, by Check or by Map, "refused"
\* by the assembler, or an image for the machine.  A program that uses what Map does and
\* LMap does not say is only "read", and so is one that declares a name the L-map or the
\* assembler has for itself: SUBR and LINKR define a name again without a word.
Beyond == {F!Word(w) : w \in {"READ", "OUTPUTID", "MSTACK", "OF", "MDFIND", "MDINIT"} \cup Markers}
Taken == {row.x[1] : row \in {r \in Range(Own!Prelude) : r.op = ""}}
         \cup Range(OwnVariables) \cup DOMAIN Character \cup {"BEGIN"}
Followed(lines, p) ==
  /\ \A i \in DOMAIN lines : Range(lines[i]) \cap Beyond = {}
  /\ (Sema!ProgLabels(p) \cup Sema!RoutineNames(p)) \cap Taken = {}
Stopped(why) == [status |-> why, program |-> <<>>]
Assembled(p, rows, words) ==
  IF ~Assembles(rows, words) THEN Stopped("refused")
  ELSE [status |-> "running", program |-> p,
        text |-> Text(words), code |-> Code(rows, words), symbols |-> Symbols(rows),
        starts |-> Starts(p, rows, words), returns |-> Returns(words)]
Laid(p, rows) == Assembled(p, rows, Words(rows))
Compile(lines, p) ==
  IF ~Own!Builds(p) THEN Stopped("rejected")
  ELSE IF ~Followed(lines, p) THEN Stopped("read")
  ELSE IF Sema!Check(p) /\ Own!Mapped(p) THEN Laid(p, Own!Rows(p))
  ELSE Stopped("rejected")
Read == {[source |-> t, parsed |-> F!Parsed(t.text)] : t \in Sources}
Rejected == {[source |-> r.source, image |-> Stopped("rejected")] : r \in {q \in Read : ~q.parsed.ok}}
Parsed == {[source |-> r.source, program |-> Flat(r.parsed.tree)] : r \in {q \in Read : q.parsed.ok}}
Built == Rejected \cup {[source |-> r.source, image |-> Compile(r.source.text, r.program)] : r \in Parsed}

\* A program that does not reach the machine, and one that does.
Refused(why) ==
  /\ status = why
  /\ seen = CHOOSE m \in Memories : TRUE
  /\ text = <<>> /\ core = <<>> /\ symbols = <<>> /\ starts = <<>> /\ returns = <<>>
  /\ pc = 0 /\ A = 0 /\ B = 0 /\ C = 0 /\ cmp = "IS_EQ" /\ jump = 0 /\ rs = <<>> /\ messages = <<>> /\ cycles = 0
Loaded(image) ==
  /\ seen \in Memories
  /\ text = image.text /\ symbols = image.symbols
  /\ starts = image.starts /\ returns = image.returns
  /\ M!Start(starts[line])
  /\ core = Core(image.code, seen)
Begins(image) == \/ image.status # "running" /\ Refused(image.status)
                 \/ image.status = "running" /\ Loaded(image)

Init ==
  \E b \in Built :
    /\ source = b.source
    /\ program = b.image.program
    /\ calls = <<>> /\ heard = <<>> /\ executed = 0
    /\ line = Reached(program, 1)
    /\ Begins(b.image)

(***************************************************************************)
(* A statement ends when the machine comes to the start of a line; the     *)
(* word that begins a routine is part of the call.  After a statement that *)
(* had no meaning nothing more is recorded.                                *)
(***************************************************************************)
Moves == status' = "running" /\ cycles' # cycles /\ text[pc].op # "GOSUB"
Arrival == {i \in DOMAIN starts : pc' = starts[i]}
Record ==
  IF Moves /\ Arrival # {} /\ L!Defined
  THEN /\ line' = CHOOSE i \in Arrival : TRUE
       /\ seen' = View' /\ heard' = messages'
       /\ calls' = [k \in DOMAIN rs' |-> IF rs'[k] \in DOMAIN returns THEN returns[rs'[k]] ELSE 0]
       /\ executed' = executed + 1
  ELSE UNCHANGED history

Next == M!Next /\ UNCHANGED <<source, program, starts, returns>> /\ Record
Spec == Init /\ [][Next]_vars
=============================================================================
