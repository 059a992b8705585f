-------------------------------- MODULE LMap --------------------------------
(***************************************************************************)
(* pkg/l/lmap: the LOWL a program in L is mapped into, and how the         *)
(* assembler lays that out.  A row is one statement of LOWL: its operation *)
(* ("" for a label), its operand, its last flag and the line of L it comes *)
(* from.  A label is a pair: the label of a line and 0, or one of the      *)
(* labels the L-map makes and the line it makes it for.                    *)
(*                                                                         *)
(* Where the code counts the scratch variables it has handed out, n says   *)
(* how many are in use.  Map refuses a program that wants a third.         *)
(***************************************************************************)
EXTENDS Integers, SequencesExt, LBuild

CONSTANT Declarations  \* the lines of the VARS SECTION: DEC, BLOCKDEC and ENDBLOCK

(***************************************************************************)
(* What collect reads off the declarations.                                *)
(***************************************************************************)
Declared == {k \in DOMAIN Declarations : Op(Declarations, k) = "DEC"}
Line(name) == CHOOSE k \in DOMAIN Declarations :
                Op(Declarations, k) # "ENDBLOCK" /\ Declarations[k].s.name = name
Ahead(k) == Cardinality({j \in Declared : j < k})
Blocks == {k \in DOMAIN Declarations : Op(Declarations, k) = "BLOCKDEC"}
Holding(k) == {b \in Blocks : b < k /\ k < ClosedAt(Declarations, b)}
Blocked(name) == \E k \in Declared : Declarations[k].s.name = name /\ Holding(k) # {}
Slot(name) == Ahead(Line(name)) - Ahead(Min(Holding(Line(name))))
BlockFirst(name) == Declarations[Min({k \in Declared : k > Line(name)})].s.name
BlockSize(name) == Ahead(ClosedAt(Declarations, Line(name))) - Ahead(Line(name))

Row(op, x) == [op |-> op, x |-> x, flag |-> "", line |-> 0]
One(op, x) == <<Row(op, x)>>
Flagged(op, x, flag) == <<[Row(op, x) EXCEPT !.flag = flag]>>
Label(l) == One("", l)
MDPlaces == [MDHALT |-> "LOHALT", MDABRT |-> "LOHALT", MDGOBC |-> "LOGOBC"]
Named(label) == <<IF label \in DOMAIN MDPlaces THEN MDPlaces[label] ELSE label, 0>>
Go(l) == Flagged("GO", l, "X")
Exits(l) == Flagged("GO", l, "C")
Here(l) == Label(<<l, 0>>)
To(op, l) == One(op, <<l, 0>>)
Bump(v, n) == One("BUMP", <<v, n>>)

(***************************************************************************)
(* Expressions.                                                            *)
(***************************************************************************)
SizeOf(name) == {BlockSize(Declarations[k].s.name) : k \in {b \in Blocks : Sized(Declarations[b].s.name) = name}}
IsSize(e) == e.k = "var" /\ SizeOf(e.n) # {}
IsVar(e) == e.k = "var" /\ ~IsSize(e) /\ e.n \notin LanguageConstants \ Markers
IsLeaf(e) == e.k \in {"var", "lit"}
Literal(e) ==
  CASE e.k = "lit" -> e.v
    [] IsSize(e) -> Max(SizeOf(e.n))
    [] OTHER -> ConstantValue[e.n]
\* A size is written as an OF, which not every operation takes.
Spelt(e, otherwise) == IF IsSize(e) THEN "OF" ELSE otherwise
SpillName(n) == IF n = 0 THEN "LOSPIL" ELSE "LOSPI2"

\* How many scratch variables the code of an expression takes.
RECURSIVE Spills(_)
Combined(e) == IF IsLeaf(e) THEN 0 ELSE 1 + Spills(e)
Spills(e) ==
  CASE e.k \in {"add", "sub"} -> Spills(e.x) + Combined(e.y)
    [] e.k = "neg" -> Combined(e.x)
    [] e.k = "plus" -> Spills(e.x)
    [] e.k = "ind" -> Spills(e.a)
    [] OTHER -> 0

RECURSIVE Load(_, _)
\* A term that is not a leaf needs the accumulator to itself; a subtraction is
\* then done the wrong way round and negated.
Combine(op, e, n) ==
  LET spill == SpillName(n)
  IN  IF IsLeaf(e)
      THEN IF IsVar(e) THEN One(IF op = "add" THEN "AAV" ELSE "SAV", e.n)
           ELSE One(IF op = "add" THEN "AAL" ELSE "SAL", Literal(e))
      ELSE One("STV", spill) \o Load(e, n + 1) \o
           IF op = "add" THEN One("AAV", spill)
           ELSE One("SAV", spill) \o One("STV", spill) \o One("LAL", 0) \o One("SAV", spill)

\* The code that leaves an address in a variable, and that variable.
Put(e, n, scratch) == IF IsVar(e) THEN <<>> ELSE Load(e, n) \o One("STV", scratch)
Held(e, scratch) == IF IsVar(e) THEN e.n ELSE scratch
Through(op, e, n) == Put(e, n, "LOTEMP") \o One(op, Held(e, "LOTEMP"))

Load(e, n) ==
  CASE IsLeaf(e) -> IF IsVar(e) THEN One("LAV", e.n) ELSE One("LAL", Literal(e))
    [] e.k = "char" -> One("LAL", e.v)
    [] e.k = "ad" -> One("LAA", e.n)
    [] e.k = "block" -> One("LAA", BlockFirst(e.n))
    [] e.k = "ind" -> Through("LAI", e.a, n)
    [] e.k = "neg" -> One("LAL", 0) \o Combine("sub", e.x, n)
    [] e.k = "plus" -> Load(e.x, n)
    [] OTHER -> Load(e.x, n) \o Combine(e.k, e.y, n + Spills(e.x))

\* The value of a SETSW.
Masks(e) == e.k \in {"and", "or"}
Logical(e, n) ==
  IF ~Masks(e) THEN Load(e, n)
  ELSE Load(e.x, n) \o
       IF e.k = "or" THEN One("ORL", Literal(e.y))
       ELSE IF IsVar(e.y) THEN One("ANDV", e.y.n)
       ELSE Flagged("ANDL", Literal(e.y), Spelt(e.y, ""))

(***************************************************************************)
(* Conditions.                                                             *)
(***************************************************************************)
IsChar(e) == e.k = "ind" /\ e.type = "CH"
IsStopcode(e) == e.k = "var" /\ e.n = "STOPCODE"
CompareChar(e, n) ==
  CASE e.k = "ind" -> Through("CCI", e.a, n)
    [] e.k = "char" -> One("CCL", e.v)
    [] IsStopcode(e) -> One("CCN", "STOPCD")
    [] IsVar(e) -> One("CCN", e.n)
    [] OTHER -> Flagged("CCN", Literal(e), Spelt(e, "number"))
CompareValue(y, n) ==
  CASE IsVar(y) -> One("CAV", y.n)
    [] IsLeaf(y) -> One("CAL", Literal(y))
    [] y.k = "ind" -> Through("CAI", y.a, n)
    [] OTHER -> One("STV", SpillName(n)) \o Load(y, n + 1) \o One("STV", "LOTEMP")
                \o One("LAV", SpillName(n)) \o One("CAV", "LOTEMP")
CompareSpills(r) ==
  Spills(r.x) + IF IsLeaf(r.y) \/ r.y.k = "ind" \/ IsChar(r.x) THEN Spills(r.y) ELSE 1 + Spills(r.y)
CompareRows(r, n) ==
  IF IsChar(r.x) THEN Through("LCI", r.x.a, n) \o CompareChar(r.y, n + Spills(r.x))
  ELSE Load(r.x, n) \o CompareValue(r.y, n + Spills(r.x))

WhenHolds == "=" :> "GOEQ" @@ "NE" :> "GONE" @@ "GR" :> "GOGR" @@ "GE" :> "GOGE" @@ "LE" :> "GOLE"
WhenFails == "=" :> "GONE" @@ "NE" :> "GOEQ" @@ "GR" :> "GOLE" @@ "GE" :> "GOLT" @@ "LE" :> "GOGR"
BranchForSwapped(rel, want) ==  \* faulty variant: the negation of GE is LE
  IF want THEN WhenHolds[rel] ELSE IF rel = "GE" THEN "GOLE" ELSE WhenFails[rel]
BranchFor(rel, want) == IF want THEN WhenHolds[rel] ELSE WhenFails[rel]

Sum(f, k) == FoldLeft(LAMBDA t, n : t + n, 0, SubSeq(f, 1, k))
\* The rows of relations each of which branches, to its arm, if it is what the arm wants.
Relations(rels, arms) ==
  LET spills == [r \in DOMAIN rels |-> CompareSpills(rels[r])]
      Each(r) == CompareRows(rels[r], Sum(spills, r - 1)) \o One(BranchFor(rels[r].op, arms[r].want), arms[r].to)
  IN  FlattenSeq([r \in DOMAIN rels |-> Each(r)])

\* A run of relations that all branch to the target; or, for the other reading
\* of the join, one in which all but the last branch past it.
Condition(s, i, target, want) ==
  LET aim == [to |-> target, want |-> want]
      past == <<"LOCND", i>>
  IN  IF Len(s.rels) = 1 \/ (s.join = "&") # want
      THEN Relations(s.rels, [r \in DOMAIN s.rels |-> aim])
      ELSE Relations(s.rels, [r \in DOMAIN s.rels |-> IF r = Len(s.rels) THEN aim
                                                     ELSE [to |-> past, want |-> ~want]]) \o Label(past)

(***************************************************************************)
(* Statements.                                                             *)
(***************************************************************************)
\* The addresses of indirect targets come first: the value needs the accumulator.
AddressSpills(s, t) == Sum([u \in DOMAIN s.to |-> Spills(s.to[u])], t)
Addresses(s) == FlattenSeq([t \in DOMAIN s.to |->
                   IF s.to[t].k = "var" THEN <<>> ELSE Put(s.to[t].a, AddressSpills(s, t - 1), "LOSTOR")])
StoredIn(t) == IF t.k = "var" THEN One("STV", t.n) ELSE One("STI", Held(t.a, "LOSTOR"))
SetRows(s) == Addresses(s) \o Logical(s.value, AddressSpills(s, Len(s.to))) \o
              FlattenSeq([t \in DOMAIN s.to |-> StoredIn(s.to[t])])

ScaleRows(s) ==
  One("LAV", s.var) \o One("MULTL", Literal(s.by)) \o One("STV", IF s.giving = "" THEN s.var ELSE s.giving)
BackspaceRows(s) ==
  IF s.giving = "" THEN One("LAV", "DBUGPT") \o One("AAL", Slot(s.var)) \o One("STV", "TEMPT")
  ELSE One("LBV", "DBUGPT") \o One("LAM", Slot(s.var)) \o One("STV", s.giving)

MoveRows(s) ==
  Load(s.from, 0) \o One("STV", "SRCPT") \o
  Load(s.to, Spills(s.from)) \o One("STV", "DSTPT") \o
  Load(s.length, Spills(s.from) + Spills(s.to)) 
\* SRCPT still holds the source after the move.
MUnstackRows(s) ==
  MoveRows(s) \o One("STV", "LOLENG") \o One("LAV", "LOLENG") \o One("FMOVE", "SRCPT") \o
  One("LAV", "SRCPT") \o One("AAV", "LOLENG") \o One("STV", "LFPT")

StackRows(s) ==
  LET Before(v) == Sum([w \in DOMAIN s.values |-> Spills(s.values[w].e)], v - 1)
      Push(v) == IF s.values[v].type = "CH" THEN Through("LCI", s.values[v].e, Before(v)) \o One("CFSTK", 0)
                 ELSE Load(s.values[v].e, Before(v)) \o One(IF s.on = "FSTACK" THEN "FSTK" ELSE "BSTK", 0)
  IN  FlattenSeq([v \in DOMAIN s.values |-> Push(v)])
UnstackRows(s) == [v \in DOMAIN s.values |-> Row("UNSTK", s.values[v].e.n)]

TestRows(s) ==
  One("GOADD", s.var) \o FlattenSeq([t \in DOMAIN s.to |-> Flagged("GO", Named(s.to[t]), "T")])
ArmSpills(s, a) == Sum([b \in DOMAIN s.arms |-> Spills(s.arms[b].char)], a)
CharMatchRows(s) ==
  LET Arm(a) == One("LCI", s.var) \o CompareChar(s.arms[a].char, ArmSpills(s, a - 1)) \o One("GOEQ", Named(s.arms[a].to))
  IN  FlattenSeq([a \in DOMAIN s.arms |-> Arm(a)])

\* The chain is walked by two routines of the prelude, which say through their
\* exits whether there is an item.
ChainRows(s, i) ==
  Load(s.addr, 0) \o To("GOSUB", "LOSCHN") \o Exits(Named(s.exit)) \o Label(<<"LOCH", i>>)
EndChainRows(i) == To("GOSUB", "LOECHN") \o Exits(<<"LOCH", i>>)
ChainRuntime ==
  Here("LOSCHN") \o Flagged("SUBR", 2, "PARNM") \o One("STV", "CHANPT") \o One("CAL", 0) \o
  To("GOEQ", "LOSCH1") \o One("LAI", "CHANPT") \o One("STV", "CHLINK") \o One("EXIT", 2) \o
  Here("LOSCH1") \o One("EXIT", 1) \o
  Here("LOECHN") \o Flagged("SUBR", 2, "X") \o One("LAV", "CHLINK") \o One("CAL", 0) \o
  To("GOEQ", "LOECH1") \o One("LAV", "CHLINK") \o One("AAV", "CHANPT") \o One("STV", "CHANPT") \o
  One("LAI", "CHANPT") \o One("STV", "CHLINK") \o One("EXIT", 1) \o
  Here("LOECH1") \o One("EXIT", 2)

\* MDERPR: IDLEN characters from IDPT, a startline among them as (SL).
PrintText ==
  Here("LOERPR") \o Flagged("SUBR", 1, "X") \o One("LAV", "IDPT") \o One("AAV", "IDLEN") \o One("STV", "LOTEMP") \o
  Here("LOEPLP") \o One("LAV", "IDPT") \o One("CAV", "LOTEMP") \o To("GOGE", "LOEPEX") \o
  One("LCI", "IDPT") \o One("CCN", "SLREP") \o To("GOEQ", "LOEPSL") \o One("LCI", "IDPT") \o One("MD", "MDERCH") \o
  Here("LOEPON") \o Bump("IDPT", 1) \o Go(<<"LOEPLP", 0>>) \o
  Here("LOEPSL") \o One("MESS", <<40, 83, 76, 41>>) \o Go(<<"LOEPON", 0>>) \o
  Here("LOEPEX") \o One("EXIT", 1)

\* MDNUM: the atom from IDPT to SPT as a number, digit by digit.
ReadNumber ==
  Here("LONUM") \o Flagged("SUBR", 2, "X") \o One("LCI", "IDPT") \o To("GOND", "LONMNO") \o
  One("STV", "MEVAL") \o One("LAV", "IDPT") \o One("STV", "LOTEMP") \o
  Here("LONMLP") \o Bump("LOTEMP", 1) \o One("LAV", "SPT") \o One("CAV", "LOTEMP") \o To("GOLT", "LONMOK") \o
  One("LCI", "LOTEMP") \o To("GOND", "ERLIA") \o One("STV", "LOSTOR") \o
  One("LAV", "MEVAL") \o One("MULTL", 10) \o One("AAV", "LOSTOR") \o One("STV", "MEVAL") \o
  Go(<<"LONMLP", 0>>) \o
  Here("LONMOK") \o One("EXIT", 2) \o
  Here("LONMNO") \o One("EXIT", 1)

\* MDGOBC: LOSTOR is 0 for an identifier, 1 for letters and 2 for a number, and
\* LOLENG is 2 for a digit and 1 for any other character.
GoByClass ==
  Here("LOGOBC") \o One("LAV", "INFFPT") \o One("STV", "LOTEMP") \o One("LAL", 0) \o One("STV", "LOSTOR") \o
  One("LCI", "IDPT") \o One("CCL", 73) \o To("GOEQ", "LOBCGO") \o
  One("LCI", "IDPT") \o One("CCL", 76) \o To("GOEQ", "LOBCLT") \o
  One("LCI", "IDPT") \o One("CCL", 78) \o To("GONE", "ERLIA") \o
  Here("LOBCSN") \o One("LCI", "LOTEMP") \o One("CCL", 43) \o To("GOEQ", "LOBCSK") \o
  One("LCI", "LOTEMP") \o One("CCL", 45) \o To("GONE", "LOBCNM") \o
  Here("LOBCSK") \o Bump("LOTEMP", 1) \o Go(<<"LOBCSN", 0>>) \o
  Here("LOBCNM") \o Bump("LOSTOR", 1) \o
  Here("LOBCLT") \o Bump("LOSTOR", 1) \o
  Here("LOBCGO") \o One("LAV", "LOTEMP") \o One("CAV", "ERIAPT") \o To("GOEQ", "GOFAIL") \o
  Here("LOBCLP") \o One("LCI", "LOTEMP") \o To("GOPC", "GOFAIL") \o
  One("LAV", "LOSTOR") \o One("CAL", 0) \o To("GOEQ", "LOBCOK") \o One("LAL", 1) \o One("STV", "LOLENG") \o
  One("LCI", "LOTEMP") \o To("GOND", "LOBCTS") \o Bump("LOLENG", 1) \o
  Here("LOBCTS") \o One("LAV", "LOLENG") \o One("CAV", "LOSTOR") \o To("GONE", "GOFAIL") \o
  Here("LOBCOK") \o Bump("LOTEMP", 1) \o One("LAV", "LOTEMP") \o One("CAV", "ERIAPT") \o To("GOEQ", "GOSUC") \o
  Go(<<"LOBCLP", 0>>)

Prelude == ChainRuntime \o PrintText \o ReadNumber \o GoByClass \o Here("LOHALT") \o One("MD", "MDQUIT")

\* Of the calls of the machine-dependent logic, one is a test of the character
\* register, some are instructions and the rest call the prelude.
CallRows(s) ==
  (IF s.arg = <<>> THEN <<>> ELSE Load(s.arg[1].e, 0)) \o One("GOSUB", <<s.name, 0>>) \o
  (IF s.exit = "" THEN <<>> ELSE Exits(Named(s.exit)))
MDTestRows(s) == Through("LCI", s.arg, 0) \o One("GOPC", Named(s.exit))
MDNumRows(s) == To("GOSUB", "LONUM") \o Exits(Named(s.exit))
MDOpRows == One("MD", "MDOP") \o Exits(<<"ERLOVF", 0>>)
MDQuotRows == One("LCN", "QUTREP") \o One("MD", "MDERCH")

\* Returning from a subroutine is leaving it by the last of its exits.
ExitCount(s) == IF s.exit THEN 2 ELSE 1
Enclosing(p, i) == p[Routine(p, i)].s
ReturnRows(p, i) == One("EXIT", ExitCount(Enclosing(p, i)))

\* The code of every line but the one that ends a routine.
Plain(p, i) ==
  LET s == p[i].s
  IN  CASE s.op \in {"SET", "SETSW"} -> SetRows(s)
        [] s.op = "SCALE" -> ScaleRows(s)
        [] s.op = "BACKSPACE" -> BackspaceRows(s)
        [] s.op = "MOVE" -> MoveRows(s) \o One(IF s.back THEN "BMOVE" ELSE "FMOVE", "SRCPT")
        [] s.op = "MUNSTACK" -> MUnstackRows(s)
        [] s.op = "STACK" -> StackRows(s)
        [] s.op = "UNSTACK" -> UnstackRows(s)
        [] s.op = "IF" -> Condition(s, i, <<"LOIF", i>>, FALSE)
        [] s.op = "IFGO" -> Condition(s, i, Named(s.to), TRUE)
        [] s.op = "END" -> Label(<<"LOIF", OpenedAt(p, i)>>)
        [] s.op = "GOTO" -> Go(Named(s.to))
        [] s.op = "TEST" -> TestRows(s)
        [] s.op = "CHARMATCH" -> CharMatchRows(s)
        [] s.op = "CHAIN" -> ChainRows(s, i)
        [] s.op = "ENDCH" -> EndChainRows(OpenedAt(p, i))
        [] s.op = "CALL" -> CallRows(s)
        [] s.op = "MDTEST" -> MDTestRows(s)
        [] s.op = "MDOP" -> MDOpRows
        [] s.op = "MDNUM" -> MDNumRows(s)
        [] s.op = "MDERPR" -> To("GOSUB", "LOERPR")
        [] s.op = "MDQUOT" -> MDQuotRows
        [] s.op = "MDCONV" -> One("MD", "MDCONV")
        [] s.op = "PRTEXT" -> One("MESS", s.text)
        [] s.op = "SUBROUTINE" -> Label(<<s.name, 0>>) \o
                                   Flagged("SUBR", ExitCount(s), IF s.par # "" THEN "PARNM" ELSE "X")
        [] s.op = "LINKROUTINE" -> Label(<<s.name, 0>>) \o One("LINKR", "LINKPT")
        [] s.op = "RETURN" -> ReturnRows(p, i)
        [] s.op = "EXIT" -> One("EXIT", 1)
        [] s.op = "LINKBACK" -> One("LINKB", "LINKPT")

\* A return is added at the end of a subroutine unless the code before it leaves
\* for good: a label there, or an entry of a table, does not.
Transfers(row) == row.op \in {"EXIT", "LINKB"} \/ (row.op = "GO" /\ row.flag = "X")
EndsWithTransfer(p, i) == p[i].at = "" /\ Transfers(Last(Plain(p, i - 1)))
Body(p, i) ==
  IF p[i].s.op # "ENDSUB" THEN Plain(p, i)
  ELSE IF Enclosing(p, i).op = "LINKROUTINE" \/ EndsWithTransfer(p, i) THEN <<>> ELSE ReturnRows(p, i)
AtHead(p, i) ==
  (IF p[i].at = "" THEN <<>> ELSE Label(<<p[i].at, 0>>)) \o (IF Forgets(p[i]) THEN One("CSS", 0) ELSE <<>>)
OfLine(i, rows) == [r \in DOMAIN rows |-> [rows[r] EXCEPT !.line = i]]
Code(p, i) == OfLine(i, AtHead(p, i) \o Body(p, i))
Rows(p) == FlattenSeq([i \in DOMAIN p |-> Code(p, i)]) \o Prelude

(***************************************************************************)
(* What Map refuses.                                                       *)
(***************************************************************************)
ScratchWanted(s) ==
  CASE s.op \in {"SET", "SETSW"} -> AddressSpills(s, Len(s.to)) + Spills(IF Masks(s.value) THEN s.value.x ELSE s.value)
    [] s.op \in {"MOVE", "MUNSTACK"} -> Spills(s.from) + Spills(s.to) + Spills(s.length)
    [] s.op = "STACK" -> Sum([v \in DOMAIN s.values |-> Spills(s.values[v].e)], Len(s.values))
    [] s.op \in {"IF", "IFGO"} -> Sum([r \in DOMAIN s.rels |-> CompareSpills(s.rels[r])], Len(s.rels))
    [] s.op = "CHARMATCH" -> ArmSpills(s, Len(s.arms))
    [] s.op = "CHAIN" -> Spills(s.addr)
    [] s.op = "CALL" -> IF s.arg = <<>> THEN 0 ELSE Spills(s.arg[1].e)
    [] s.op = "MDTEST" -> Spills(s.arg)
    [] OTHER -> 0
\* What the character register is compared with.
Matched(s) ==
  CASE s.op \in {"IF", "IFGO"} -> {r.y : r \in {q \in Range(s.rels) : IsChar(q.x)}}
    [] s.op = "CHARMATCH" -> {a.char : a \in Range(s.arms)}
    [] OTHER -> {}
\* Where a name has to have a value.  A character may be compared with STOPCODE.
RECURSIVE Mentioned(_)
Mentioned(e) ==
  CASE e.k = "var" -> {e.n}
    [] e.k = "ind" -> Mentioned(e.a)
    [] e.k \in {"neg", "plus"} -> Mentioned(e.x)
    [] e.k \in {"add", "sub", "and", "or"} -> Mentioned(e.x) \cup Mentioned(e.y)
    [] OTHER -> {}
Evaluated(s) ==
  CASE s.op \in {"SET", "SETSW"} -> {s.value} \cup {t.a : t \in {e \in Range(s.to) : e.k = "ind"}}
    [] s.op \in {"MOVE", "MUNSTACK"} -> {s.from, s.to, s.length}
    [] s.op = "STACK" -> {v.e : v \in Range(s.values)}
    [] s.op = "SCALE" -> {s.by}
    [] s.op \in {"IF", "IFGO"} -> {r.x : r \in Range(s.rels)}
                                 \cup {r.y : r \in {q \in Range(s.rels) : ~(IsChar(q.x) /\ IsStopcode(q.y))}}
    [] s.op = "CHARMATCH" -> {a.char : a \in {b \in Range(s.arms) : ~IsStopcode(b.char)}}
    [] s.op = "CHAIN" -> {s.addr}
    [] s.op = "CALL" -> {a.e : a \in Range(s.arg)}
    [] s.op = "MDTEST" -> {s.arg}
    [] OTHER -> {}
Refused(p, i) ==
  LET s == p[i].s
  IN  \/ ScratchWanted(s) > 2
      \/ s.op = "SETSW" /\ Masks(s.value) /\ (~IsLeaf(s.value.y) \/ (s.value.k = "or" /\ IsVar(s.value.y)))
      \/ \E e \in Evaluated(s) : Mentioned(e) \cap Valueless # {}
      \/ \E e \in Matched(s) : e.k \notin {"char", "ind", "var"}
      \/ s.op = "UNSTACK" /\ \E v \in Range(s.values) : v.e.k # "var"
      \/ s.op = "SCALE" /\ (~IsLeaf(s.by) \/ IsVar(s.by))
      \/ s.op = "BACKSPACE" /\ ~Blocked(s.var)
      \/ s.op \in {"RETURN", "EXIT"} /\ (Routine(p, i) = 0 \/ Enclosing(p, i).op = "LINKROUTINE")
Mapped(p) == \A i \in DOMAIN p : ~Refused(p, i)
=============================================================================
