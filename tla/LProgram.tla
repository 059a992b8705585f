------------------------------ MODULE LProgram ------------------------------
(***************************************************************************)
(* What a program in L means, statement by statement: the promise the code *)
(* pkg/l/lmap makes has to keep.  The meanings are the ones the comments   *)
(* of pkg/l/ast, pkg/l/lmap and pkg/l/sema give; the registers, scratch    *)
(* variables and labels of the generated code do not exist here.           *)
(*                                                                         *)
(* A statement with no meaning in the current state (it reads through a    *)
(* pointer that points at no data, say) is not Defined and the program     *)
(* stops there: nothing is promised about what comes after it.             *)
(***************************************************************************)
EXTENDS Integers, SequencesExt, LText

CONSTANTS Location,   \* where each variable and each table item is stored
          Data,       \* the addresses of the program's variables, tables and workspace
          Block,      \* the variables of each BLOCKDEC, in order, inner blocks included
          Atom,       \* the characters an atom can be made of
          Character,  \* the characters that have names
          NumberText, MaxNumberText,  \* the words MDCONV may write to, and how many
          MarkBase    \* return addresses are numbers no data address reaches

VARIABLES program, line, memory, messages, calls, executed
vars == <<program, line, memory, messages, calls, executed>>

s == program[line].s
Mark(call) == MarkBase + call
At(name) == memory[Location[name]]

RECURSIVE Bitwise(_, _, _)
Bitwise(op, x, y) ==
  IF x + y = 0 THEN 0
  ELSE 2 * Bitwise(op, x \div 2, y \div 2)
       + (IF op = "and" THEN (x % 2) * (y % 2) ELSE Max({x % 2, y % 2}))

\* The value of an expression: strictly from left to right.  A name that is no variable's
\* is a constant of the language or the size of a block.
Size(name) == Len(Block[CHOOSE b \in DOMAIN Block : Sized(b) = name])
Named(name, m) ==
  CASE name \in DOMAIN Location -> m[Location[name]]
    [] name \in DOMAIN ConstantValue -> ConstantValue[name]
    [] name = "STOPCODE" -> Character["STOPCD"]
    [] OTHER -> Size(name)
RECURSIVE Value(_, _)
Value(e, m) ==
  CASE e.k \in {"lit", "char"} -> e.v
    [] e.k = "var" -> Named(e.n, m)
    [] e.k = "ad" -> Location[e.n]
    [] e.k = "block" -> Location[Block[e.n][1]]
    [] e.k = "ind" -> m[Value(e.a, m)]
    [] e.k = "neg" -> -Value(e.x, m)
    [] e.k = "plus" -> Value(e.x, m)
    [] e.k = "add" -> Value(e.x, m) + Value(e.y, m)
    [] e.k = "sub" -> Value(e.x, m) - Value(e.y, m)
    [] OTHER -> Bitwise(e.k, Value(e.x, m), Value(e.y, m))

\* Every pointer the expression goes through points at data.
RECURSIVE Sound(_, _)
Sound(e, m) ==
  CASE e.k = "ind" -> Sound(e.a, m) /\ Value(e.a, m) \in Data
    [] e.k \in {"neg", "plus"} -> Sound(e.x, m)
    [] e.k \in {"add", "sub"} -> Sound(e.x, m) /\ Sound(e.y, m)
    [] e.k \in {"and", "or"} -> /\ Sound(e.x, m) /\ Sound(e.y, m)
                                /\ Value(e.x, m) >= 0 /\ Value(e.y, m) >= 0
    [] OTHER -> TRUE
Given(e) == Value(e, memory)
AllSound(es) == \A e \in es : Sound(e, memory)

Relation(op, x, y) ==
  CASE op = "=" -> x = y  [] op = "NE" -> x # y  [] op = "GR" -> x > y
    [] op = "GE" -> x >= y  [] op = "LE" -> x <= y
Holds(rels, join) ==
  LET Each == {Relation(r.op, Given(r.x), Given(r.y)) : r \in Range(rels)}
  IN  IF join = "&" THEN FALSE \notin Each ELSE TRUE \in Each

(***************************************************************************)
(* The machine-dependent logic asks about characters.  MDGOBC is a place   *)
(* to go to whose answer is the place control goes on to: whether the text *)
(* from INFFPT to ERIAPT is of the class that IDPT points at.              *)
(***************************************************************************)
IsDigit(c) == c \in 48 .. 57
Sign == {43, 45}
Class == memory[At("IDPT")]
Letter == {c \in Atom : ~IsDigit(c)}
Leading == IF Class = 78 THEN Sign ELSE {}
Body == CASE Class = 73 -> Atom [] Class = 76 -> Letter [] OTHER -> Atom \ Letter
Belongs ==
  LET last == At("ERIAPT") - 1
  IN  \E k \in At("INFFPT") .. last : /\ \A a \in At("INFFPT") .. k - 1 : memory[a] \in Leading
                                      /\ \A a \in k .. last : memory[a] \in Body
Answer(label) ==
  CASE label # "MDGOBC" -> label
    [] Class \notin {73, 76, 78} -> "ERLIA"
    [] Belongs -> "GOSUC"
    [] OTHER -> "GOFAIL"

(***************************************************************************)
(* Where control goes.  CSS at a label forgets every call in progress.     *)
(***************************************************************************)
Outstanding == IF Forgets(program[line]) THEN <<>> ELSE calls
Goes(i) == line' = Reached(program, i) /\ calls' = Outstanding
BranchTo(label) == Goes(LineOf(program, Answer(label)))
Returns(i) ==
  /\ Outstanding # <<>>
  /\ calls' = Front(Outstanding)
  /\ line' = Reached(program, i)
Caller == Last(Outstanding)
Stores(where, v) == memory' = [a \in DOMAIN memory |-> IF a \in where THEN v ELSE memory[a]]

(***************************************************************************)
(* The statements.                                                         *)
(***************************************************************************)
\* The addresses of indirect targets are worked out before the value, and one
\* value reaches all of them.
Place(target) == IF target.k = "var" THEN Location[target.n] ELSE Given(target.a)
Set ==
  /\ s.op \in {"SET", "SETSW"}
  /\ Stores({Place(t) : t \in Range(s.to)}, Given(s.value))
  /\ Goes(line + 1)

Scale ==
  /\ s.op = "SCALE"
  /\ Stores({Location[IF s.giving = "" THEN s.var ELSE s.giving]}, At(s.var) * Given(s.by))
  /\ Goes(line + 1)

\* The former value of a variable, in the copy of the outermost block that DBUGPT
\* points at: as far in as the variable is in the block.
Slot(v) ==
  LET Holding == {b \in DOMAIN Block : v \in Range(Block[b])}
      outer == Block[CHOOSE b \in Holding : \A c \in Holding : Len(Block[c]) <= Len(Block[b])]
  IN  (CHOOSE i \in DOMAIN outer : outer[i] = v) - 1
Backspace ==
  /\ s.op = "BACKSPACE"
  /\ IF s.giving = "" THEN Stores({Location["TEMPT"]}, At("DBUGPT") + Slot(s.var))
     ELSE Stores({Location[s.giving]}, memory[At("DBUGPT") + Slot(s.var)])
  /\ Goes(line + 1)

Copied(from, to, n) ==
  [a \in DOMAIN memory |-> IF a \in to .. to + n - 1 THEN memory[from + (a - to)] ELSE memory[a]]
Move ==
  /\ s.op = "MOVE"
  /\ memory' = Copied(Given(s.from), Given(s.to), Given(s.length))
  /\ Goes(line + 1)
\* The block is copied before the backwards stack is cut to above it.
MUnstack ==
  /\ s.op = "MUNSTACK"
  /\ memory' = [Copied(Given(s.from), Given(s.to), Given(s.length))
                 EXCEPT ![Location["LFPT"]] = Given(s.from) + Given(s.length)]
  /\ Goes(line + 1)

\* Values go on to a stack one after the other; the one that makes the stacks
\* meet is the last, and control goes to ERLSO.
Pushed(m, v) ==
  LET onFree == [m EXCEPT ![m[Location["FFPT"]]] = v]
      down == [m EXCEPT ![Location["LFPT"]] = @ - 1]
  IN  IF s.on = "FSTACK" THEN [onFree EXCEPT ![Location["FFPT"]] = @ + 1]
      ELSE [down EXCEPT ![down[Location["LFPT"]]] = v]
Stacked ==
  FoldLeft(LAMBDA r, v : IF r.full THEN r
                         ELSE LET m == Pushed(r.m, IF v.type = "CH" THEN r.m[Value(v.e, r.m)] ELSE Value(v.e, r.m))
                              IN  [m |-> m, full |-> m[Location["FFPT"]] >= m[Location["LFPT"]]],
           [m |-> memory, full |-> FALSE], s.values)
Stack ==
  /\ s.op = "STACK"
  /\ memory' = Stacked.m
  /\ IF Stacked.full THEN BranchTo("ERLSO") ELSE Goes(line + 1)
Unstack ==
  /\ s.op = "UNSTACK"
  /\ memory' = FoldLeft(LAMBDA m, v : LET got == [m EXCEPT ![Location[v.e.n]] = m[m[Location["LFPT"]]]]
                                      IN  [got EXCEPT ![Location["LFPT"]] = @ + 1],
                        memory, s.values)
  /\ Goes(line + 1)

\* IF guards the lines down to its END; IFGO is "THEN GO TO".
If ==
  /\ s.op = "IF"
  /\ Goes(IF Holds(s.rels, s.join) THEN line + 1 ELSE Closer(program, line) + 1)
  /\ UNCHANGED memory
IfGo ==
  /\ s.op = "IFGO"
  /\ IF Holds(s.rels, s.join) THEN BranchTo(s.to) ELSE Goes(line + 1)
  /\ UNCHANGED memory
GoTo == s.op = "GOTO" /\ BranchTo(s.to) /\ UNCHANGED memory
\* The first label of a TEST stands for zero.
Test ==
  /\ s.op = "TEST"
  /\ IF At(s.var) + 1 \in DOMAIN s.to THEN BranchTo(s.to[At(s.var) + 1]) ELSE Goes(line + 1)
  /\ UNCHANGED memory
CharMatch ==
  LET hits == {i \in DOMAIN s.arms : Given(s.arms[i].char) = memory[At(s.var)]}
  IN  /\ s.op = "CHARMATCH"
      /\ IF hits # {} THEN BranchTo(s.arms[Min(hits)].to) ELSE Goes(line + 1)
      /\ UNCHANGED memory

\* CHANPT is the current item, CHLINK the distance to the next one, 0 in the last.
\* An empty chain leaves by the exit.  The head is handed over in PARNM.
StartChain ==
  LET head == Given(s.addr)
      at == [memory EXCEPT ![Location["PARNM"]] = head, ![Location["CHANPT"]] = head]
  IN  /\ s.op = "CHAIN"
      /\ \/ head = 0 /\ memory' = at /\ BranchTo(s.exit)
         \/ head # 0 /\ memory' = [at EXCEPT ![Location["CHLINK"]] = at[head]] /\ Goes(line + 1)
EndChain ==
  LET here == At("CHANPT") + At("CHLINK")
      at == [memory EXCEPT ![Location["CHANPT"]] = here]
  IN  /\ s.op = "ENDCH"
      /\ \/ At("CHLINK") = 0 /\ Goes(line + 1) /\ UNCHANGED memory
         \/ At("CHLINK") # 0 /\ memory' = [at EXCEPT ![Location["CHLINK"]] = at[here]]
            /\ Goes(Opener(program, line) + 1)

\* A linkroutine keeps the place to come back to in LINKPT.
Callee == program[EntryOf(program, s.name)].s
Call ==
  /\ s.op = "CALL" /\ Callee.op = "SUBROUTINE"
  /\ IF s.arg = <<>> THEN UNCHANGED memory ELSE Stores({Location["PARNM"]}, Given(s.arg[1].e))
  /\ calls' = Append(Outstanding, line)
  /\ line' = Reached(program, EntryOf(program, s.name) + 1)
CallLink ==
  /\ s.op = "CALL" /\ Callee.op = "LINKROUTINE"
  /\ Stores({Location["LINKPT"]}, Mark(line))
  /\ Goes(EntryOf(program, s.name) + 1)
LinkBack == s.op = "LINKBACK" /\ Goes(At("LINKPT") - MarkBase + 1) /\ UNCHANGED memory
\* Running off the end of a subroutine returns from it.
Return == s.op \in {"RETURN", "ENDSUB"} /\ Returns(Caller + 1) /\ UNCHANGED memory
Exit == s.op = "EXIT" /\ Returns(LineOf(program, program[Caller].s.exit)) /\ UNCHANGED memory

\* The calls of the machine-dependent logic that are statements in themselves.
MDTest ==
  /\ s.op = "MDTEST"
  /\ IF memory[Given(s.arg)] \in Atom THEN Goes(line + 1) ELSE BranchTo(s.exit)
  /\ UNCHANGED memory
MDOp ==
  /\ s.op = "MDOP"
  /\ \/ At("OPSW") = 1 /\ Stores({Location["MEVAL"]}, At("OP1") * At("MEVAL")) /\ Goes(line + 1)
     \/ At("OPSW") # 1 /\ At("MEVAL") = 0 /\ BranchTo("ERLOVF") /\ UNCHANGED memory
     \/ /\ At("OPSW") # 1 /\ At("MEVAL") # 0
        /\ Stores({Location["MEVAL"]},
                  IF At("MEVAL") > 0 THEN At("OP1") \div At("MEVAL") ELSE (-At("OP1")) \div (-At("MEVAL")))
        /\ Goes(line + 1)

\* The characters from IDPT to SPT as a number.  A first one that is no digit
\* takes the exit; a later one is an error, reported from inside the call.
Number[a \in Int] == (IF a = At("IDPT") THEN 0 ELSE 10 * Number[a - 1]) + memory[a] - 48
MDNum ==
  LET wrong == {a \in At("IDPT") .. At("SPT") : ~IsDigit(memory[a])}
  IN  /\ s.op = "MDNUM"
      /\ \/ At("IDPT") \in wrong /\ BranchTo(s.exit) /\ UNCHANGED memory
         \/ wrong = {} /\ Stores({Location["MEVAL"]}, Number[At("SPT")]) /\ Goes(line + 1)
         \/ /\ wrong # {} /\ At("IDPT") \notin wrong
            /\ Stores({Location["MEVAL"]}, Number[Min(wrong) - 1])
            /\ calls' = Append(Outstanding, line)
            /\ line' = Reached(program, LineOf(program, "ERLIA"))

\* MDCONV spells MEVAL out, in words that are no variable's: a sign only before a
\* negative number, and no zero too many.
Spelt == {NumberText + k : k \in 0 .. MaxNumberText - 1}
Spells(digits, n) ==
  /\ \A k \in DOMAIN digits : IsDigit(digits[k])
  /\ Len(digits) > 1 => digits[1] # 48
  /\ FoldLeft(LAMBDA v, c : 10 * v + c - 48, 0, digits) = n
MDConv ==
  LET Got(name) == memory'[Location[name]]
      spelling == [k \in 1 .. Got("IDLEN") |-> memory'[Got("IDPT") + k - 1]]
  IN  /\ s.op = "MDCONV"
      /\ \A a \in DOMAIN memory \ (Spelt \cup {Location["IDPT"], Location["IDLEN"]}) : memory'[a] = memory[a]
      /\ Got("IDLEN") > 0 /\ Got("IDPT") .. Got("IDPT") + Got("IDLEN") - 1 \subseteq Spelt
      /\ IF At("MEVAL") < 0 THEN Head(spelling) = 45 /\ Spells(Tail(spelling), -At("MEVAL"))
         ELSE Spells(spelling, At("MEVAL"))
      /\ Goes(line + 1)

(***************************************************************************)
(* What is written on the messages stream.                                 *)
(***************************************************************************)
Says(characters) == messages' = messages \o characters /\ Goes(line + 1)
\* A dollar sign in the text is a newline.
PrText ==
  /\ s.op = "PRTEXT"
  /\ Says([k \in DOMAIN s.text |-> IF s.text[k] = 36 THEN 10 ELSE s.text[k]])
  /\ UNCHANGED memory
MDQuot == s.op = "MDQUOT" /\ Says(<<34>>) /\ UNCHANGED memory
\* IDLEN characters from IDPT, which is not kept; a startline shows as (SL).
Shown(c) == IF c = Character["SLREP"] THEN <<40, 83, 76, 41>> ELSE <<c>>
MDErPr ==
  /\ s.op = "MDERPR"
  /\ Says(FlattenSeq([k \in 1 .. At("IDLEN") |-> Shown(memory[At("IDPT") + k - 1])]))
  /\ \A a \in DOMAIN memory \ {Location["IDPT"]} : memory'[a] = memory[a]

(***************************************************************************)
(* When a statement has a meaning.                                         *)
(***************************************************************************)
Within(from, n) == n >= 0 /\ from .. from + n - 1 \subseteq Data
Labelled(label) == \E i \in DOMAIN program : program[i].at = label
Defined ==
  /\ line \in DOMAIN program
  /\ PlacesIn(s) \subseteq DOMAIN Location
  /\ CASE s.op \in {"SET", "SETSW"} -> AllSound(Range(s.to) \cup {s.value})
       [] s.op = "BACKSPACE" -> At("DBUGPT") + Slot(s.var) \in Data
       [] s.op = "MOVE" -> /\ AllSound({s.from, s.to, s.length})
                           /\ Within(Given(s.from), Given(s.length)) /\ Within(Given(s.to), Given(s.length))
       [] s.op = "MUNSTACK" -> /\ AllSound({s.from, s.to, s.length})
                               /\ Within(Given(s.from), Given(s.length)) /\ Within(Given(s.to), Given(s.length))
       [] s.op = "STACK" -> /\ \A v \in Range(s.values) : /\ Sound(v.e, memory)
                                                          /\ v.type = "CH" => Given(v.e) \in Data
                            /\ Within(At("FFPT"), Len(s.values))
                            /\ Within(At("LFPT") - Len(s.values), Len(s.values))
                            /\ Stacked.full => Labelled("ERLSO")
       [] s.op = "UNSTACK" -> Within(At("LFPT"), Len(s.values))
       [] s.op \in {"IF", "IFGO"} -> AllSound(UNION {{r.x, r.y} : r \in Range(s.rels)})
       [] s.op = "GOTO" /\ s.to = "MDGOBC" ->
            At("IDPT") \in Data /\ Within(At("INFFPT"), At("ERIAPT") - At("INFFPT"))
       [] s.op = "MDCONV" -> At("MEVAL") \in -10^(MaxNumberText - 1) + 1 .. 10^MaxNumberText - 1
       [] s.op = "MDERPR" -> /\ Within(At("IDPT"), At("IDLEN"))
                             /\ Location["IDPT"] \notin At("IDPT") .. At("IDPT") + At("IDLEN") - 1
       [] s.op = "MDNUM" -> At("IDPT") <= At("SPT") /\ Within(At("IDPT"), At("SPT") - At("IDPT") + 1)
       [] s.op = "CHARMATCH" -> At(s.var) \in Data /\ AllSound({a.char : a \in Range(s.arms)})
       [] s.op = "CHAIN" -> Sound(s.addr, memory) /\ Given(s.addr) \in Data \cup {0}
       [] s.op = "ENDCH" -> At("CHLINK") # 0 => At("CHANPT") + At("CHLINK") \in Data
       [] s.op = "CALL" -> AllSound({a.e : a \in Range(s.arg)})
       [] s.op \in {"RETURN", "ENDSUB"} ->
            Outstanding # <<>> /\ program[Routine(program, line)].s.op = "SUBROUTINE"
       [] s.op = "EXIT" -> Outstanding # <<>> /\ program[Caller].s.exit # ""
       [] s.op = "LINKBACK" -> At("LINKPT") - MarkBase \in DOMAIN program
       [] s.op = "MDTEST" -> Sound(s.arg, memory) /\ Given(s.arg) \in Data
       [] s.op \in Routines -> FALSE
       [] OTHER -> TRUE

Init == line = Reached(program, 1) /\ calls = <<>> /\ messages = <<>> /\ executed = 0
Next ==
  /\ Defined
  /\ \/ /\ \/ Set \/ Scale \/ Backspace \/ Move \/ MUnstack \/ Stack \/ Unstack
           \/ If \/ IfGo \/ GoTo \/ Test \/ CharMatch \/ StartChain \/ EndChain
           \/ Call \/ CallLink \/ LinkBack \/ Return \/ Exit \/ MDTest \/ MDOp \/ MDNum \/ MDConv
        /\ UNCHANGED messages
     \/ PrText \/ MDQuot \/ MDErPr
  /\ executed' = executed + 1
  /\ UNCHANGED program
Spec == Init /\ [][Next]_vars
=============================================================================
