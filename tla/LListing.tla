------------------------------ MODULE LListing ------------------------------
(***************************************************************************)
(* ast.WriteSource: a tree as the text of a program again, item by item.   *)
(* The tree it is given is one Parsed can have returned.                   *)
(***************************************************************************)
EXTENDS LSyntax

InParentheses(items) == <<Open>> \o items \o <<Shut>>
\* The parts one after the other, with items between each two.
Between(parts, items) ==
  FlattenSeq([i \in DOMAIN parts |-> IF i = 1 THEN parts[i] ELSE items \o parts[i]])
Listing(parts) == Between(parts, <<Sign(",")>>)
\* key and items, if there are any.
Keyed(key, items) == IF items = <<>> THEN <<>> ELSE <<Word(key)>> \o items
NameText(name) == IF name = "" THEN <<>> ELSE <<Word(name)>>
Noted(key, note) == IF note = "" THEN <<>> ELSE key \o <<Comment(note)>>
Bracketed(codes) == <<Bracket("", codes)>>

(***************************************************************************)
(* Expressions, with parentheses where dropping them would change how they *)
(* read back.  The right operand has to bind more tightly than the node.   *)
(***************************************************************************)
Prec == [and |-> 0, or |-> 0, add |-> 1, sub |-> 1, mul |-> 2, div |-> 2]
precUnary == 3
TighterSame(p) == p  \* faulty variant: A-(B-C) is written A-B-C
Tighter(p) == p + 1
Written(k, signs) == Sign(CHOOSE t \in DOMAIN signs : signs[t] = k)

RECURSIVE ExprText(_)
Wrap(e, need) ==
  IF e.k \in DOMAIN Prec /\ Prec[e.k] < need THEN InParentheses(ExprText(e)) ELSE ExprText(e)
ExprText(e) ==
  CASE e.k = "lit" -> <<Number(e.v)>>
    [] e.k = "char" -> <<Quote(e.v)>>
    [] e.k = "var" -> <<Word(e.n)>>
    [] e.k = "ad" -> <<Word("AD")>> \o InParentheses(<<Word(e.n)>>) \o <<Word("PT")>>
    [] e.k = "block" -> <<Word("BLOCK")>> \o InParentheses(<<Word(e.n)>>)
    [] e.k = "ind" -> <<Word("IND")>> \o InParentheses(ExprText(e.a)) \o <<Word(e.type)>>
    [] e.k = "of" -> <<Word("OF")>> \o InParentheses(ExprText(e.x))
    [] e.k = "rl" -> <<Word("RL")>> \o InParentheses(<<Word(e.n)>> \o IF e.by = <<>> THEN <<>> ELSE ExprText(e.by[1]))
    [] e.k = "lid" -> <<Word("LID")>> \o Bracketed(e.codes)
    [] e.k = "text" -> Bracketed(e.codes)
    [] e.k \in Range(Unary) -> <<Written(e.k, Unary)>> \o Wrap(e.x, precUnary)
    [] e.k \in DOMAIN Prec ->
         Wrap(e.x, Prec[e.k]) \o <<Written(e.k, Binary)>> \o Wrap(e.y, Tighter(Prec[e.k]))

(***************************************************************************)
(* Statements.                                                             *)
(***************************************************************************)
Heads(op) ==
  IF op \in Range(TwoWords) THEN LET ws == CHOOSE ws \in DOMAIN TwoWords : TwoWords[ws] = op
                                 IN  <<Word(ws[1]), Word(ws[2])>>
  ELSE <<Word(op)>>
ValueText(v) == ExprText(v.e) \o InParentheses(<<Word(v.type)>>)
ValuesText(vs) == FlattenSeq([i \in DOMAIN vs |-> ValueText(vs[i])])
ExprsText(es) == Listing([i \in DOMAIN es |-> ExprText(es[i])])
NamesText(ns) == Listing([i \in DOMAIN ns |-> <<Word(ns[i])>>])
Comparison(op) == IF op = "=" THEN Sign(op) ELSE Word(op)
CondText(s) ==
  Between([i \in DOMAIN s.rels |-> ExprText(s.rels[i].x) \o <<Comparison(s.rels[i].op)>> \o ExprText(s.rels[i].y)],
          <<Sign(s.join)>>)
ArmText(a) == <<Sign(",")>> \o ExprText(a.char) \o <<Word("GOING"), Word(a.to)>>
PrefixesText(prefixes) == [i \in DOMAIN prefixes |-> Prefix(prefixes[i])]

RECURSIVE ArgumentText(_)
StatementText(s) == Heads(s.op) \o ArgumentText(s)
ArgumentText(s) ==
  CASE s.op \in {"LINKROUTINE", "RETURN", "EXIT", "ENDSECT", "ENDBLOCK"} -> <<Word(s.name)>>
    [] s.op \in {"SECTION", "BLOCKDEC"} -> <<Word(s.name)>> \o Noted(<<Sign(",")>>, s.note)
    [] s.op = "DEC" -> <<Word(s.name)>> \o Keyed("INIT", ExprsText(s.init))
    [] s.op = "EQUATE" -> <<Word(s.name), Word("TO"), Word(s.to)>>
    [] s.op = "SUBROUTINE" -> <<Word(s.name)>> \o (IF s.par = "" THEN <<>> ELSE InParentheses(<<Word(s.par)>>)) \o
                              (IF s.exit THEN <<Word("EXIT")>> \o Noted(<<>>, s.note) ELSE <<>>)
    [] s.op = "CALL" -> <<Word(s.name)>> \o
                        FlattenSeq([i \in DOMAIN s.arg |-> InParentheses(ExprText(s.arg[i].e)) \o <<Word(s.arg[i].type)>>]) \o
                        Keyed("EXIT", NameText(s.exit))
    [] s.op = "IF" -> CondText(s) \o <<Word("THEN")>> \o
                      FlattenSeq([i \in DOMAIN s.then |-> PrefixesText(s.then[i].prefixes) \o StatementText(s.then[i].s)])
    [] s.op = "CHAIN" -> ExprText(s.addr) \o <<Word("EXIT"), Word(s.exit)>>
    [] s.op = "MOVE" -> ExprText(s.from) \o Keyed("TO", ExprText(s.to)) \o Keyed("LENG", ExprText(s.length)) \o
                        (IF s.back THEN <<Word("BACKWARDS")>> ELSE <<>>)
    [] s.op = "MSTACK" -> ExprText(s.from) \o Keyed("LENG", ExprText(s.length)) \o <<Word("ON"), Word(s.on)>>
    [] s.op = "MUNSTACK" -> ExprText(s.from) \o Keyed("TO", ExprText(s.to)) \o Keyed("LENG", ExprText(s.length)) \o
                            <<Word("FROM"), Word("BSTACK")>>
    [] s.op = "PRTEXT" -> Bracketed(s.text)
    [] s.op = "BACKSPACE" -> <<Word(s.var)>> \o Keyed("GIVING", NameText(s.giving))
    [] s.op = "CHARMATCH" -> <<Word(s.var)>> \o FlattenSeq([i \in DOMAIN s.arms |-> ArmText(s.arms[i])])
    [] s.op = "GOTO" -> <<Word(s.to)>>
    [] s.op = "SCALE" -> <<Word(s.var)>> \o Keyed("BY", ExprText(s.by)) \o Keyed("GIVING", NameText(s.giving))
    [] s.op \in {"SET", "SETSW"} -> ExprsText(s.to) \o <<Sign("=")>> \o ExprText(s.value)
    [] s.op = "STACK" -> ValuesText(s.values) \o <<Word("ON"), Word(s.on)>>
    [] s.op = "UNSTACK" -> ValuesText(s.values) \o <<Word("FROM"), Word("BSTACK")>>
    [] s.op = "TEST" -> <<Word(s.var), Word("GOING")>> \o NamesText(s.to)
    [] s.op = "DC" -> ExprsText(s.args)
    [] s.op = "OPMAC" -> Between([i \in DOMAIN s.name |-> <<Quote(s.name[i])>>], <<Sign("+")>>) \o <<Sign(",")>> \o
                         ExprsText(<<s.dels, s.marker, s.number>>)
    [] OTHER -> <<>>

LineText(l) ==
  (IF l.at = "" THEN <<>> ELSE <<Bracket(l.at, <<>>)>>) \o PrefixesText(l.prefixes) \o StatementText(l.s)
Source(tree) == [i \in DOMAIN tree |-> LineText(tree[i])]
=============================================================================
