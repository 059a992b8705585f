------------------------------- MODULE LCheck -------------------------------
(***************************************************************************)
(* pkg/l/sema: whether Check accepts a program.  The names of variables,   *)
(* data labels and blocks come from declarations that are not part of the  *)
(* lines; labels and routines are declared by the lines themselves.        *)
(***************************************************************************)
EXTENDS Integers, SequencesExt, LText

CONSTANTS Variable,   \* the names DEC and EQUATE declare
          DataLabel,  \* the labels of the data SECTIONs
          BlockName   \* the names BLOCKDEC declares

MDLabel == {"MDHALT", "MDABRT", "MDGOBC"}
MDSub == {"MDTEST", "MDFIND", "MDCONV", "MDNUM", "MDERPR", "MDQUOT", "MDINIT", "MDOP"}
\* Every block declares the constant that is its size.
Sizes == {Sized(b) : b \in BlockName}

ProgLabels(p) == {p[i].at : i \in DOMAIN p} \ {""}
RoutineLines(p) == {i \in DOMAIN p : Op(p, i) \in Routines}
RoutineNames(p) == {p[i].s.name : i \in RoutineLines(p)}

DeclaredOnce(p) ==
  /\ \A i, j \in DOMAIN p : p[i].at = p[j].at /\ p[i].at # "" => i = j
  /\ \A i, j \in RoutineLines(p) : p[i].s.name = p[j].s.name => i = j
  /\ ProgLabels(p) \cap RoutineNames(p) = {}
  /\ (ProgLabels(p) \cup RoutineNames(p))
     \cap UNION {Variable, DataLabel, BlockName, Sizes, MDLabel, MDSub, LanguageConstants} = {}

(***************************************************************************)
(* Names are what their uses want.                                         *)
(***************************************************************************)
Use(use, names) == {<<use, n>> : n \in names \ {""}}
RECURSIVE InValue(_)
InValue(e) ==
  CASE e.k = "var" -> Use("value", {e.n})
    [] e.k = "block" -> Use("block", {e.n})
    [] e.k = "ad" -> Use("address", {e.n})
    [] e.k = "ind" -> InValue(e.a)
    [] e.k \in {"neg", "plus"} -> InValue(e.x)
    [] e.k \in {"add", "sub", "and", "or"} -> InValue(e.x) \cup InValue(e.y)
    [] OTHER -> {}
Wanted(p) ==
  [value |-> UNION {Variable, Sizes, LanguageConstants}, address |-> DataLabel, block |-> BlockName,
   target |-> ProgLabels(p) \cup MDLabel, callee |-> RoutineNames(p), routine |-> RoutineNames(p)]

\* BLOCK stands in the statements that move blocks and nowhere else; a product is for
\* OF, and RL and LID are for the data SECTIONs.
RECURSIVE InPlace(_, _)
InPlace(e, allowBlock) ==
  CASE e.k = "block" -> allowBlock
    [] e.k = "ind" -> InPlace(e.a, FALSE)
    [] e.k \in {"neg", "plus"} -> InPlace(e.x, allowBlock)
    [] e.k \in {"add", "sub"} -> InPlace(e.x, allowBlock) /\ InPlace(e.y, allowBlock)
    [] OTHER -> e.k \notin {"mul", "div", "rl", "lid"}

\* The statements that belong outside the SECTIONs of a program's code.
Elsewhere == {"PRGSTART", "PRGEND", "SECTION", "ENDSECT", "DEC", "EQUATE", "BLOCKDEC", "ENDBLOCK",
              "DC", "LAYCHAIN", "HETABLES", "OPMAC"}

\* & and | are for the top of a SETSW.
OperandsOf(e) == IF e.k \in {"and", "or"} THEN {e.x, e.y} ELSE {e}

Values(s) ==
  CASE s.op = "SET" -> Range(s.to) \cup {s.value}
    [] s.op = "SETSW" -> Range(s.to) \cup OperandsOf(s.value)
    [] s.op \in {"STACK", "UNSTACK"} -> {v.e : v \in Range(s.values)}
    [] s.op = "SCALE" -> {s.by}
    [] s.op \in {"IF", "IFGO"} -> UNION {{r.x, r.y} : r \in Range(s.rels)}
    [] s.op = "CHARMATCH" -> {a.char : a \in Range(s.arms)}
    [] s.op = "CHAIN" -> {s.addr}
    [] s.op = "CALL" -> {a.e : a \in Range(s.arg)}
    [] s.op = "MDTEST" -> {s.arg}
    [] OTHER -> {}
Moved(s) == IF s.op \in {"MOVE", "MUNSTACK"} THEN {s.from, s.to, s.length} ELSE {}
\* CHAIN uses two variables it does not name.
Variables(s) ==
  CASE s.op \in {"SCALE", "BACKSPACE"} -> {s.var, s.giving}
    [] s.op \in {"TEST", "CHARMATCH"} -> {s.var}
    [] s.op = "CHAIN" -> {"CHANPT", "CHLINK"}
    [] OTHER -> {}
TargetsButArms(s) ==  \* faulty variant: the arms of a CHARMATCH are not looked at
  CASE s.op \in {"IFGO", "GOTO"} -> {s.to}
    [] s.op = "TEST" -> Range(s.to)
    [] s.op \in {"CHAIN", "CALL", "MDTEST", "MDNUM"} -> {s.exit}
    [] OTHER -> {}
Targets(s) ==
  CASE s.op \in {"IFGO", "GOTO"} -> {s.to}
    [] s.op = "TEST" -> Range(s.to)
    [] s.op = "CHARMATCH" -> {a.to : a \in Range(s.arms)}
    [] s.op \in {"CHAIN", "CALL", "MDTEST", "MDNUM"} -> {s.exit}
    [] OTHER -> {}

Uses(s) ==
  UNION {InValue(e) : e \in Values(s) \cup Moved(s)} \cup Use("value", Variables(s)) \cup Use("target", Targets(s))
  \cup (IF s.op = "CALL" THEN Use("callee", {s.name}) ELSE {})
  \cup (IF s.op \in {"RETURN", "EXIT"} THEN Use("routine", {s.name}) ELSE {})

\* An argument is given exactly when there is a parameter for it, and an exit
\* exactly when the subroutine has one.
CallAgreement(p, s) ==
  LET callee == p[EntryOf(p, s.name)].s
  IN  /\ s.arg # <<>> <=> callee.op = "SUBROUTINE" /\ callee.par # ""
      /\ s.exit # "" <=> callee.op = "SUBROUTINE" /\ callee.exit

(***************************************************************************)
(* Statements that belong to a routine are in the right one.               *)
(***************************************************************************)
RoutineRelative(p, i) ==
  LET s == p[i].s
      r == Routine(p, i)
  IN  /\ s.op \in {"RETURN", "EXIT"} => r # 0 /\ p[r].s.name = s.name
      /\ s.op = "EXIT" => p[r].s.op = "SUBROUTINE" /\ p[r].s.exit
      /\ s.op = "LINKBACK" => r # 0 /\ p[r].s.op = "LINKROUTINE"

Check(p) ==
  /\ DeclaredOnce(p)
  /\ \A i \in DOMAIN p :
       LET s == p[i].s
       IN  /\ s.op \notin Elsewhere
           /\ \A e \in Values(s) : InPlace(e, FALSE)
           /\ \A e \in Moved(s) : InPlace(e, TRUE)
           /\ \A u \in Uses(s) : u[2] \in Wanted(p)[u[1]]
           /\ s.op = "CALL" => CallAgreement(p, s)
           /\ RoutineRelative(p, i)
=============================================================================
