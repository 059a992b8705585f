------------------------------ MODULE LSyntax ------------------------------
(***************************************************************************)
(* From the text of a program in L to its statements: pkg/l/scanner, the   *)
(* lines of pkg/l/cst and the statements of pkg/l/ast.                     *)
(*                                                                         *)
(* A text is a sequence of lines and a line a sequence of items, what a    *)
(* reader of L would mark off by eye: words, numbers, quotes, brackets,    *)
(* comments, headings, prefixes and punctuation.  A quote stands for the   *)
(* number of its character.  A stray is what the scanner has no token for. *)
(*                                                                         *)
(* A tree is a sequence of lines too, each a label ("" for none), the      *)
(* prefixes and a statement; closing statements are lines of their own.    *)
(* A front end that has found an error goes on to find more; here a text   *)
(* with an error has no tree.  Comments above a statement are left out.    *)
(***************************************************************************)
EXTENDS Naturals, SequencesExt, LText

Word(t) == [k |-> "word", t |-> t]
Number(n) == [k |-> "number", n |-> n]
Quote(c) == [k |-> "quote", c |-> c]
Bracket(t, codes) == [k |-> "bracket", t |-> t, codes |-> codes]
Comment(t) == [k |-> "comment", t |-> t]
Heading(t) == [k |-> "heading", t |-> t]
Prefix(t) == [k |-> "prefix", t |-> t]
Sign(t) == [k |-> "punct", t |-> t]
Open == [k |-> "("]
Shut == [k |-> ")"]
Stray == [k |-> "stray"]

(***************************************************************************)
(* The scanner.  A bracket opens a label, or a text after PRTEXT and LID;  *)
(* t is the identifier in it, "" if there is none.                         *)
(***************************************************************************)
Token(line, i) ==
  IF line[i].k # "bracket" THEN line[i]
  ELSE IF i > 1 /\ line[i - 1] \in {Word("PRTEXT"), Word("LID")} THEN [k |-> "text", codes |-> line[i].codes]
  ELSE [k |-> "label", t |-> line[i].t]
Scan(line) == [i \in DOMAIN line |-> Token(line, i)]
IsScanned(token) == token.k # "stray" /\ (token.k = "label" => token.t # "")

\* Lines of headings and comments are trivia, and so is a blank line.
IsTrivia(tokens) == \A i \in DOMAIN tokens : tokens[i].k \in {"comment", "heading"}

(***************************************************************************)
(* A line: labels and prefixes, the words of a statement, its arguments.   *)
(***************************************************************************)
TwoWords ==
  <<"GO", "TO">> :> "GOTO" @@ <<"RETURN", "FROM">> :> "RETURN" @@ <<"EXIT", "FROM">> :> "EXIT"
  @@ <<"LINK", "BACK">> :> "LINKBACK" @@ <<"CHAIN", "FROM">> :> "CHAIN" @@ <<"MOVE", "FROM">> :> "MOVE"
  @@ <<"MSTACK", "FROM">> :> "MSTACK" @@ <<"MUNSTACK", "FROM">> :> "MUNSTACK"
OneWord ==
  {"PRGSTART", "PRGEND", "SECTION", "ENDSECT", "DEC", "EQUATE", "BLOCKDEC", "ENDBLOCK", "SUBROUTINE", "LINKROUTINE",
   "ENDSUB", "CALL", "IF", "END", "ENDCH", "READ", "OUTPUTID", "PRTEXT", "BACKSPACE", "CHARMATCH", "SCALE", "SET",
   "SETSW", "STACK", "TEST", "UNSTACK", "DC", "LAYCHAIN", "HETABLES", "OPMAC"}
Ends == Range(Closing)
IsPlain(op) == op \notin DOMAIN Closing \cup Ends

\* The statement the tokens begin with, and how many words that is.
Lookup(tokens) ==
  LET Is(n) == Len(tokens) >= n /\ \A i \in 1 .. n : tokens[i].k = "word"
  IN  IF Is(2) /\ <<tokens[1].t, tokens[2].t>> \in DOMAIN TwoWords
      THEN [op |-> TwoWords[<<tokens[1].t, tokens[2].t>>], words |-> 2]
      ELSE IF Is(1) /\ tokens[1].t \in OneWord THEN [op |-> tokens[1].t, words |-> 1]
      ELSE [op |-> "", words |-> 0]

\* The arguments, with what stands in parentheses as one of them.  open holds the
\* arguments so far, first those of the line and then those of each open group.
PutIn(args, a) == [args EXCEPT !.open = Append(Front(@), Append(Last(@), a))]
CloseGroup(args) == PutIn([args EXCEPT !.open = Front(@)], [k |-> "group", in |-> Last(args.open)])
AddToken(args, token) ==
  CASE token.k = "(" -> [args EXCEPT !.open = Append(@, <<>>)]
    [] token.k = ")" /\ Len(args.open) > 1 -> CloseGroup(args)
    [] (token.k = ")" /\ Len(args.open) = 1) \/ token.k \in {"label", "heading"} -> [args EXCEPT !.errors = TRUE]
    [] OTHER -> PutIn(args, token)
Arguments(tokens) == FoldLeft(AddToken, [open |-> << <<>> >>, errors |-> FALSE], tokens)

(***************************************************************************)
(* The arguments of a statement are read by readers.  A reader is given    *)
(* the arguments that are left and returns a value and those left after    *)
(* it, or reports an error.                                                *)
(***************************************************************************)
Got(v, rest) == [ok |-> TRUE, v |-> v, rest |-> rest]
No == [ok |-> FALSE, v |-> <<>>, rest |-> <<>>]
KindOf(in) == IF in = <<>> THEN "end" ELSE in[1].k
Ahead(in) == IF KindOf(in) \in {"word", "punct"} THEN in[1].t ELSE ""
EndedAnyhow(r) == r.ok  \* faulty variant: what is left over is not looked at
Ended(r) == r.ok /\ r.rest = <<>>
\* r is what reading the group at the front of in has given.
Grouped(in, r) == IF Ended(r) THEN Got(r.v, Tail(in)) ELSE No
Inside(in) == IF KindOf(in) = "group" THEN in[1].in ELSE <<>>

OneOf(words, in) == IF Ahead(in) \in words THEN Got(Ahead(in), Tail(in)) ELSE No
Name(in) == IF KindOf(in) = "word" THEN Got(in[1].t, Tail(in)) ELSE No
Type(in) == OneOf({"CH", "NM", "PT", "SW"}, in)
Text(in) == IF KindOf(in) = "text" THEN Got(in[1].codes, Tail(in)) ELSE No
\* A reader of a list: the first is read, and this is what its others are.
Listed(first, others) == IF first.ok /\ others.ok THEN Got(<<first.v>> \o others.v, others.rest) ELSE No
Single(x) == Listed(x, Got(<<>>, x.rest))
\* How many tokens of the kinds there are in front.
Leading(in, kinds) == Min({i \in 0 .. Len(in) : i < Len(in) => in[i + 1].k \notin kinds})
From(i, in) == SubSeq(in, i, Len(in))

\* A step of a grammar: a word or a sign that has to be next, or that may be, and
\* then what is read, into the field to ("" for a reader that fills fields of its own).
Step(key, optional, read, to, absent) ==
  [key |-> key, optional |-> optional, read |-> read, to |-> to, absent |-> absent]
Key(key) == Step(key, FALSE, "nothing", "", <<>>)
MayBe(key) == Step(key, TRUE, "nothing", "", <<>>)
Arg(read, to) == Step("", FALSE, read, to, <<>>)
After(key, read, to) == Step(key, FALSE, read, to, <<>>)
If(key, read, to, absent) == Step(key, TRUE, read, to, absent)

Giving == If("GIVING", "name", "giving", "")
NameOnly == <<Arg("name", "name")>>
Grammar ==
  [op \in {"PRGSTART", "PRGEND", "LINKBACK", "READ", "OUTPUTID", "LAYCHAIN", "HETABLES", "END", "ENDCH", "ENDSUB"} |-> <<>>]
  @@ [op \in {"LINKROUTINE", "RETURN", "EXIT", "ENDSECT", "ENDBLOCK"} |-> NameOnly]
  @@ [op \in {"SECTION", "BLOCKDEC"} |-> NameOnly \o <<If(",", "comment", "note", "")>>]
  @@ "DEC" :> NameOnly \o <<If("INIT", "init", "init", <<>>)>>
  @@ "EQUATE" :> NameOnly \o <<After("TO", "name", "to")>>
  @@ "SUBROUTINE" :> NameOnly \o <<Arg("parameter", "par"), Arg("exit", "")>>
  @@ "CALL" :> NameOnly \o <<Arg("argument", "arg"), If("EXIT", "name", "exit", "")>>
  @@ "IF" :> <<Arg("condition", ""), After("THEN", "guarded", "then")>>
  @@ "CHAIN" :> <<Arg("expr", "addr"), After("EXIT", "name", "exit")>>
  @@ "MOVE" :> <<Arg("expr", "from"), After("TO", "expr", "to"), After("LENG", "expr", "length"),
                 If("BACKWARDS", "yes", "back", FALSE)>>
  @@ "MSTACK" :> <<Arg("expr", "from"), After("LENG", "expr", "length"), After("ON", "stack", "on")>>
  @@ "MUNSTACK" :> <<Arg("expr", "from"), After("TO", "expr", "to"), After("LENG", "expr", "length"),
                     Key("FROM"), Key("BSTACK")>>
  @@ "PRTEXT" :> <<Arg("text", "text")>>
  @@ "BACKSPACE" :> <<Arg("name", "var"), Giving>>
  @@ "CHARMATCH" :> <<Arg("name", "var"), Arg("arms", "arms")>>
  @@ "GOTO" :> <<Arg("name", "to")>>
  @@ "SCALE" :> <<Arg("name", "var"), After("BY", "expr", "by"), Giving>>
  @@ "SET" :> <<Arg("targets", "to"), After("=", "expr", "value")>>
  @@ "SETSW" :> <<Arg("targets", "to"), After("=", "masked", "value")>>
  @@ "STACK" :> <<Arg("values ON", "values"), After("ON", "stack", "on")>>
  @@ "UNSTACK" :> <<Arg("values FROM", "values"), Key("FROM"), Key("BSTACK")>>
  @@ "TEST" :> <<Arg("name", "var"), After("GOING", "names", "to")>>
  @@ "DC" :> <<Arg("exprs", "args")>>
  @@ "OPMAC" :> <<Arg("quotes", "name"), MayBe(","), Arg("expr", "dels"), MayBe(","), Arg("expr", "marker"),
                  MayBe(","), Arg("expr", "number")>>
\* The parts of statements and expressions that are read the same way.
Parts ==
  "arm" :> <<Key(","), Arg("expr", "char"), After("GOING", "name", "to")>>
  @@ "relation" :> <<Arg("expr", "x"), Arg("comparison", "op"), Arg("expr", "y")>>
  @@ "value" :> <<Arg("expr", "e"), Arg("tag", "type")>>
  @@ "typed" :> <<Arg("group", "e"), Arg("type", "type")>>
Macros ==
  "IND" :> <<Arg("group", "a"), Arg("type", "type")>>
  @@ "AD" :> <<Arg("first name", "n"), Key("PT")>>
  @@ "BLOCK" :> <<Arg("first name", "n")>>
  @@ "OF" :> <<Arg("group", "x")>>
  @@ "RL" :> <<Arg("displaced", "")>>
  @@ "LID" :> <<Arg("text", "codes")>>
MacroKind == [IND |-> "ind", AD |-> "ad", BLOCK |-> "block", OF |-> "of", RL |-> "rl", LID |-> "lid"]
Binary == "+" :> "add" @@ "-" :> "sub" @@ "*" :> "mul" @@ "/" :> "div" @@ "&" :> "and" @@ "|" :> "or"
Unary == "+" :> "plus" @@ "-" :> "neg"
Sums == {"+", "-"}
Products == {"*", "/"}
Joins == {"&", "|"}

RECURSIVE Read(_, _)
Filled(s, v) == IF s.to = "" THEN v ELSE s.to :> v
Taken(r, s, here, x) ==
  CASE r.ok /\ here /\ x.ok -> Got(r.v @@ Filled(s, x.v), x.rest)
    [] r.ok /\ ~here /\ s.optional -> [r EXCEPT !.v = @ @@ Filled(s, s.absent)]
    [] OTHER -> No
Take(r, s) ==
  Taken(r, s, s.key \in {"", Ahead(r.rest)}, Read(s.read, IF s.key = "" THEN r.rest ELSE Tail(r.rest)))
Fields(start, steps, in) == FoldLeft(Take, Got(start, in), steps)

(***************************************************************************)
(* Expressions: a sign, then terms of primaries, from left to right.  A    *)
(* word takes the group after it only if it is one of the macros.  A text  *)
(* is a value to the grammar; only OPMAC has room for one.                 *)
(***************************************************************************)
CallsMacro(in) ==
  Len(in) > 1 /\ in[1].t \in DOMAIN Macros /\ in[2].k = (IF in[1].t = "LID" THEN "text" ELSE "group")
Primary(in) ==
  CASE KindOf(in) = "number" -> Got([k |-> "lit", v |-> in[1].n], Tail(in))
    [] KindOf(in) = "quote" -> Got([k |-> "char", v |-> in[1].c], Tail(in))
    [] KindOf(in) = "text" -> Got([k |-> "text", codes |-> in[1].codes], Tail(in))
    [] KindOf(in) = "group" -> Read("group", in)
    [] KindOf(in) = "word" -> IF CallsMacro(in) THEN Fields([k |-> MacroKind[in[1].t]], Macros[in[1].t], Tail(in))
                              ELSE Got([k |-> "var", n |-> in[1].t], Tail(in))
    [] OTHER -> No

Joined(x, op, y) == IF x.ok /\ y.ok THEN Got([k |-> Binary[op], x |-> x.v, y |-> y.v], y.rest) ELSE No
\* More operands of a kind, joined to x by the operators in ops.
RECURSIVE More(_, _, _)
More(x, ops, kind) ==
  IF x.ok /\ Ahead(x.rest) \in ops THEN More(Joined(x, Ahead(x.rest), Read(kind, Tail(x.rest))), ops, kind) ELSE x
Signed(sign, x) == IF x.ok THEN Got([k |-> Unary[sign], x |-> x.v], x.rest) ELSE No
FirstTerm(in) == IF Ahead(in) \in Sums THEN Signed(Ahead(in), Read("term", Tail(in))) ELSE Read("term", in)
Masked(x) ==
  IF x.ok /\ Ahead(x.rest) \in Joins THEN Joined(x, Ahead(x.rest), Read("expr", Tail(x.rest))) ELSE x

(***************************************************************************)
(* The readers.                                                            *)
(***************************************************************************)
\* A list goes on as long as there are commas.
List(first, kind) ==
  IF Ahead(first.rest) = "," THEN Listed(first, Read(kind, Tail(first.rest))) ELSE Single(first)
\* Values with a type each, up to a word; arms, each after a comma.
Rest(first, kind) == Listed(first, Read(kind, first.rest))
Values(in, until) ==
  IF in = <<>> \/ Ahead(in) = until THEN Got(<<>>, in) ELSE Rest(Read("value", in), "values " \o until)
Arms(in) == IF Ahead(in) = "," THEN Rest(Read("arm", in), "arms") ELSE Got(<<>>, in)
\* Relations joined by one operator.
Related(first, join, others) ==
  CASE first.ok /\ join \notin Joins -> Got([rels |-> <<first.v>>, join |-> "&"], first.rest)
    [] first.ok /\ join \in Joins /\ others.ok /\ (Len(others.v.rels) = 1 \/ others.v.join = join) ->
         Got([rels |-> <<first.v>> \o others.v.rels, join |-> join], others.rest)
    [] OTHER -> No
Condition(first) == Related(first, Ahead(first.rest), Read("condition", Tail(first.rest)))
\* Nothing after THEN makes the IF a block.
OneLine(prefixes, r) ==
  IF r.ok /\ IsPlain(r.v.op) THEN Got(<<[prefixes |-> prefixes, s |-> r.v]>>, r.rest) ELSE No
Guarded(in) ==
  LET n == Leading(in, {"prefix"})
  IN  IF in = <<>> THEN Got(<<>>, in)
      ELSE OneLine([i \in 1 .. n |-> in[i].t], Read("statement", From(n + 1, in)))
Exit(in) ==
  IF Ahead(in) # "EXIT" THEN Got([exit |-> FALSE, note |-> ""], in)
  ELSE IF KindOf(Tail(in)) = "comment" THEN Got([exit |-> TRUE, note |-> in[2].t], Tail(Tail(in)))
  ELSE Got([exit |-> TRUE, note |-> ""], Tail(in))
\* RL( ) takes a label and adjustments to it.
Displaced(name, by, rest) ==
  CASE name.ok /\ name.rest = <<>> -> Got([n |-> name.v, by |-> <<>>], rest)
    [] Ahead(name.rest) \in Sums /\ Ended(by) -> Got([n |-> name.v, by |-> <<by.v>>], rest)
    [] OTHER -> No
Displacement(name, rest) == Displaced(name, Read("expr", name.rest), rest)
Quotes(in) ==
  IF KindOf(in) # "quote" THEN No
  ELSE IF Ahead(Tail(in)) # "+" THEN Got(<<in[1].c>>, Tail(in))
  ELSE IF Len(in) > 2 /\ in[3].k = "quote" THEN Got(<<in[1].c, in[3].c>>, SubSeq(in, 4, Len(in)))
  ELSE No

Opened(head, in) ==
  IF head.op = "" THEN No ELSE Fields([op |-> head.op], Grammar[head.op], From(head.words + 1, in))

Read(kind, in) ==
  CASE kind = "nothing" -> Got(<<>>, in)
    [] kind = "yes" -> Got(TRUE, in)
    [] kind = "name" -> Name(in)
    [] kind = "type" -> Type(in)
    [] kind = "text" -> Text(in)
    [] kind = "stack" -> OneOf({"FSTACK", "BSTACK"}, in)
    [] kind = "comparison" -> OneOf({"=", "NE", "GR", "GE", "LE"}, in)
    [] kind = "comment" -> IF KindOf(in) = "comment" THEN Got(in[1].t, Tail(in)) ELSE No
    [] kind = "primary" -> Primary(in)
    [] kind = "term" -> More(Read("primary", in), Products, "primary")
    [] kind = "expr" -> More(FirstTerm(in), Sums, "term")
    [] kind = "masked" -> Masked(Read("expr", in))
    [] kind = "init" -> Single(Read("expr", in))
    [] kind = "target" -> IF Ahead(in) = "IND" THEN Primary(in)
                          ELSE IF Name(in).ok THEN Got([k |-> "var", n |-> in[1].t], Tail(in)) ELSE No
    [] kind = "group" -> Grouped(in, Read("expr", Inside(in)))
    [] kind = "tag" -> Grouped(in, Type(Inside(in)))
    [] kind = "first name" -> IF Name(Inside(in)).ok THEN Got(Name(Inside(in)).v, Tail(in)) ELSE No
    [] kind = "displaced" -> Displacement(Name(Inside(in)), Tail(in))
    [] kind = "quotes" -> Quotes(in)
    [] kind \in DOMAIN Parts -> Fields(<<>>, Parts[kind], in)
    [] kind = "names" -> List(Name(in), "names")
    [] kind = "targets" -> List(Read("target", in), "targets")
    [] kind = "exprs" -> List(Read("expr", in), "exprs")
    [] kind = "values ON" -> Values(in, "ON")
    [] kind = "values FROM" -> Values(in, "FROM")
    [] kind = "arms" -> Arms(in)
    [] kind = "condition" -> Condition(Read("relation", in))
    [] kind = "guarded" -> Guarded(in)
    [] kind = "exit" -> Exit(in)
    [] kind = "parameter" -> IF KindOf(in) = "group"
                             THEN Grouped(in, OneOf({"PARPT", "PARNM", "PARSW", "PARCH"}, Inside(in)))
                             ELSE Got("", in)
    [] kind = "argument" -> IF KindOf(in) = "group" THEN Single(Read("typed", in)) ELSE Got(<<>>, in)
    [] kind = "statement" -> Opened(Lookup(in), in)

(***************************************************************************)
(* A statement and its line.  Prefixes of a closing statement are lost.    *)
(***************************************************************************)
Whole(args, r) == IF ~args.errors /\ Len(args.open) = 1 /\ Ended(r) THEN <<r.v>> ELSE <<>>
Stated(args) == Whole(args, Read("statement", args.open[1]))
Statement(tokens) == Stated(Arguments(tokens))
Named(tokens, kind) == [i \in DOMAIN tokens |-> IF tokens[i].k = kind THEN <<tokens[i].t>> ELSE <<>>]
Lined(labels, prefixes, s) ==
  IF s = <<>> \/ Len(labels) > 1 THEN <<>>
  ELSE <<[at |-> IF labels = <<>> THEN "" ELSE labels[1],
          prefixes |-> IF s[1].op \in Ends THEN <<>> ELSE prefixes, s |-> s[1]]>>
Line(tokens) ==
  LET n == Leading(tokens, {"label", "prefix"})
      Led(kind) == FlattenSeq(Named(SubSeq(tokens, 1, n), kind))
  IN  Lined(Led("label"), Led("prefix"), Statement(From(n + 1, tokens)))

Lines(source) == SelectSeq([i \in DOMAIN source |-> Scan(source[i])], LAMBDA tokens : ~IsTrivia(tokens))
Tree(scanned, read) ==
  [ok |-> scanned /\ \A i \in DOMAIN read : read[i] # <<>>, tree |-> FlattenSeq(read)]
AllScanned(lines) == \A i \in DOMAIN lines : \A j \in DOMAIN lines[i] : IsScanned(lines[i][j])
Parsed(source) ==
  LET lines == Lines(source)
  IN  Tree(AllScanned(lines), [i \in DOMAIN lines |-> Line(lines[i])])
=============================================================================
