------------------------- MODULE CompiledProperties -------------------------
(***************************************************************************)
(* What is promised of a program that has gone through Check, Map and the  *)
(* assembler.                                                              *)
(***************************************************************************)
EXTENDS Compiled

CONSTANT Longest  \* the number of instructions one statement may take

\* The registers and the history have their types; in particular every return
\* address (Step's GOSUB pushes it) is the word after a GOSUB.
TypeOK ==
  /\ status \in {"running", "quit", "error", "panic", "limit", "rejected", "read", "refused"}
  /\ {pc, A, B, C, jump} \subseteq Int
  /\ cmp \in {"IS_LT", "IS_EQ", "IS_GR"}
  /\ cycles \in 0 .. Cycles
  /\ M!ReturnsFollowCalls
  /\ line \in 0 .. Len(program) + 1
  /\ executed \in Nat
  /\ calls \in Seq(DOMAIN program)
  /\ seen \in [Data -> Int]
  /\ messages \in Seq(Int)

\* Every statement of the program does in the machine what it means in L: the
\* values it leaves, the messages it writes, the line it goes on with and the
\* calls in progress, with
\* scratch variables, jump tables, prelude routines and labels of Map's making
\* all out of sight.
RunsAsL == L!Spec

\* A statement that has a meaning comes to its end: the machine neither panics
\* nor reports an error in the middle of it, and takes no more instructions over
\* it than Longest.
StatementsFinish ==
  L!Defined /\ program # <<>> =>
    /\ status \notin {"error", "panic", "quit"}
    /\ Cycles - cycles <= Longest * (executed + 1)

(***************************************************************************)
(* What Check and Map accept the assembler accepts: no label is undefined  *)
(* or defined twice, no exit is one a routine does not have.  The program  *)
(* is one that fits the core, declares the variables the L-map uses and    *)
(* keeps clear of the L-map's names.  What Check and Map overlook:         *)
(* - the size of a block, or a constant of the language, may stand where   *)
(*   only a variable can: the assembler lets four of the lengths through,  *)
(*   which are numbers to it, and refuses the others (resolve.go:458;      *)
(*   stmts.go:594-596, 615, 632-644, 697-711);                             *)
(* - the size of a block may mask a switch (stmts.go:618-619);             *)
(* - a character may be compared with a variable or a size, though with    *)
(*   nothing but STOPCODE and a constant that has a number does the        *)
(*   assembler agree (stmts.go:423-434);                                   *)
(* - the labels that the code of the L-map goes to may be missing: ERLIA,  *)
(*   GOSUC and GOFAIL in every program, ERLOVF in one that calls MDOP      *)
(*   (stmts.go:254-258; prelude.go:277, 432-478).                          *)
(***************************************************************************)
NoPlace == (Sema!Sizes \cup LanguageConstants) \ (Markers \cup DOMAIN Seeded)
Overlooked(s) ==
  \/ PlacesIn(s) \cap NoPlace # {}
  \/ s.op = "SETSW" /\ s.value.k = "and" /\ Own!IsSize(s.value.y)
  \/ \E e \in Own!Matched(s) : Own!IsVar(e) \/ Own!IsSize(e)
GoneTo(s) == IF s.op = "MDOP" THEN {"ERLOVF"} ELSE {}
BuildsWhatIsChecked ==
  status = "refused" =>
    LET lines == Flat(F!Parsed(source.text).tree)
        placed == Sema!ProgLabels(lines) \cup Sema!RoutineNames(lines)
        wanted == {"ERLIA", "GOSUC", "GOFAIL"} \cup UNION {GoneTo(l.s) : l \in Range(lines)}
    IN  ~(wanted \subseteq placed) \/ \E i \in DOMAIN lines : Overlooked(lines[i].s)

\* The text never changes: it is looked at when nothing has run yet.
Fresh == cycles \in {0, Cycles}

(***************************************************************************)
(* The text of a tree reads back as that tree, and so does the text that   *)
(* is written for a tree that was read: every parenthesis that matters is  *)
(* there.  WriteSource's wrap has no parentheses for a sign inside an      *)
(* expression.  (listing.go:29-33, 370-374, 398-406; TestRoundTrip)        *)
(***************************************************************************)
SignInside(items) ==
  \E i \in 1 .. Len(items) - 1 :
    /\ items[i] = F!Open /\ items[i + 1] \in {F!Sign("+"), F!Sign("-")}
    /\ i > 1 => items[i - 1] \notin {F!Word("IND"), F!Word("OF"), F!Word("RL")}
ReadsBackAsWritten ==
  Fresh =>
    LET read == F!Parsed(source.text)
    IN  /\ source.meant # <<>> => read = [ok |-> TRUE, tree |-> source.meant]
        /\ read.ok /\ (\A i \in DOMAIN source.text : ~SignInside(source.text[i])) =>
             F!Parsed(F!Source(read.tree)) = read

(***************************************************************************)
(* A line is accepted as a whole: everything that stands in it, but for    *)
(* parentheses, the commas of OPMAC and the place of its label, is in the  *)
(* tree, from which it is written again.  expectEnd sees to that, except   *)
(* inside AD( ) and BLOCK( ); and a closing statement loses its prefixes.  *)
(* (args.go:196-204, 360-381; build.go:94-134)                             *)
(***************************************************************************)
Said(tokens) ==
  LET dropped == {F!Open, F!Shut} \cup (IF Contains(tokens, F!Word("OPMAC")) THEN {F!Sign(",")} ELSE {})
      kept == SelectSeq(tokens, LAMBDA token : token \notin dropped)
      IsLabel(token) == token.k = "label"
  IN  SelectSeq(kept, IsLabel) \o SelectSeq(kept, LAMBDA token : ~IsLabel(token))
Lax(tokens) ==
  \/ F!Lookup(SelectSeq(tokens, LAMBDA token : token.k \notin {"label", "prefix"})).op \in F!Ends
  \/ \E i \in 1 .. Len(tokens) - 3 :
       tokens[i] \in {F!Word("AD"), F!Word("BLOCK")} /\ tokens[i + 1] = F!Open /\ tokens[i + 3] # F!Shut
NothingIsSwallowed ==
  Fresh =>
    LET read == F!Parsed(source.text)
        lines == F!Lines(source.text)
        written == F!Lines(F!Source(read.tree))
    IN  read.ok => \A i \in DOMAIN lines : Said(lines[i]) = Said(written[i]) \/ Lax(lines[i])

\* stmts.go:440 says that compareValue compares the accumulator with the right
\* hand side: a condition goes the way its relations say.
ConditionsCompareSides ==
  [][executed' # executed /\ L!s.op \in {"IF", "IFGO"} => L!If \/ L!IfGo]_vars
=============================================================================
