----------------------------- MODULE MCCompiled -----------------------------
(***************************************************************************)
(* Small programs for the compiler: one statement of each shape with the   *)
(* expressions that matter to it, and the compound statements, routines    *)
(* and labels put together in the ways the code distinguishes.             *)
(***************************************************************************)
EXTENDS CompiledProperties

Dec(n) == [op |-> "DEC", name |-> n]
BlockOf(n) == [op |-> "BLOCKDEC", name |-> n]
At(l, s) == [at |-> l, prefixes |-> <<>>, s |-> s]
CssAt(l, s) == [at |-> l, prefixes |-> <<"CSS">>, s |-> s]
L0(s) == At("", s)
Lines(ss) == [i \in DOMAIN ss |-> L0(ss[i])]
Scalars == <<"FFPT", "LFPT", "PARNM", "LINKPT", "CHANPT", "CHLINK", "DBUGPT", "TEMPT", "MEVAL", "OP1", "OPSW",
             "IDPT", "SPT", "INFFPT", "ERIAPT", "IDLEN">>
Vars == Lines(<<BlockOf("OUT"), Dec("V"), BlockOf("INN"), Dec("W"), Dec("U"), [op |-> "ENDBLOCK"], Dec("X"),
                [op |-> "ENDBLOCK"]>> \o [i \in DOMAIN Scalars |-> Dec(Scalars[i])])
Blocks == "OUT" :> <<"V", "W", "U", "X">> @@ "INN" :> <<"W", "U">>

\* Words 1 to 20 are the variables, 21 to 27 the L-map's; then come a table with a
\* text at its end, the workspace, and three words for MDCONV.
Tables == "TAB" :> 28
Store == 1 .. 20 \cup 28 .. 47
Names == "SLREP" :> 256 @@ "STOPCD" :> 257 @@ "NLREP" :> 10 @@ "QUTREP" :> 34 @@ "SPREP" :> 32 @@ "TABREP" :> 9
NumbersToAssembler == "LCH" :> 1 @@ "LNM" :> 1 @@ "LICH" :> 1 @@ "LHV" :> 32
Contents == <<65, 3, 1, 0, 0, 29, 66, 2, 28, 1, 43, 45, 52, 50, 65, 256, 73, 0, 0, 0>>
Filled(v, w, u, x, divisor, switch) ==
  [a \in Store |->
    (<<v, w, u, x, 31, 35, 9, 0, 0, 0, 30, 0, divisor, -5, switch, 0, 0, 0, 0, 0>> @@ [b \in 28 .. 47 |-> Contents[b - 27]])[a]]
Initial == {Filled(29, 1, -2, 0, 3, 1), Filled(30, 30, 2, 3, 0, 2), Filled(2, 2, 34, 1, -2, 2)}
Alphanumeric == 48 .. 57 \cup 65 .. 90 \cup 97 .. 122

\* Expressions.
Lit(n) == [k |-> "lit", v |-> n]
Char(c) == [k |-> "char", v |-> c]
Var(n) == [k |-> "var", n |-> n]
Ind(a) == [k |-> "ind", a |-> a, type |-> "PT"]
IndCh(a) == [k |-> "ind", a |-> a, type |-> "CH"]
Neg(x) == [k |-> "neg", x |-> x]
Positive(x) == [k |-> "plus", x |-> x]
Tagged(e, type) == [e |-> e, type |-> type]
Op2(op, x, y) == [k |-> op, x |-> x, y |-> y]
Plus(x, y) == Op2("add", x, y)
Minus(x, y) == Op2("sub", x, y)
V == Var("V")
W == Var("W")
U == Var("U")
X == Var("X")
AD == [k |-> "ad", n |-> "TAB"]
Whole(b) == [k |-> "block", n |-> b]
Size(b) == Var(Sized(b))
Next2(v) == Plus(v, Lit(1))

Leaves == {V, Lit(2), Size("INN")}
Deep == {AD, Ind(V), Ind(Next2(V)), Ind(Ind(V))}
Sums == {Op2(op, x, y) : op \in {"add", "sub"}, x \in Leaves \cup Deep, y \in {V, Lit(2), AD, Ind(Next2(V))}}
Negs == {Neg(x) : x \in {V, Ind(V)}} \cup {Positive(x) : x \in {V, Ind(Next2(V))}} \cup {Op2(op, Neg(W), y) : op \in {"add", "sub"}, y \in {U, Ind(V)}}
Longer == {Minus(Minus(V, x), y) : x \in {U, Ind(V)}, y \in {W, AD, Ind(Next2(V))}}
          \cup {Ind(Minus(Ind(Minus(V, U)), W)), Minus(Minus(Minus(V, AD), AD), AD)}

\* Programs: lines, the last of which ends the process.
Go(l) == [op |-> "GOTO", to |-> l]
EndsWell(ss) == Lines(ss \o <<Go("MDHALT")>>)
Alone(ss) == {EndsWell(<<s>>) : s \in ss}

Let(to, v) == [op |-> "SET", to |-> to, value |-> v]
LetSw(to, v) == [op |-> "SETSW", to |-> to, value |-> v]
Sets ==
  {Let(<<X>>, e) : e \in Leaves \cup Deep \cup Sums \cup Negs \cup Longer}
  \cup {Let(to, e) : to \in {<<Ind(V)>>, <<Ind(Next2(V)), X>>, <<X, Ind(V)>>}, e \in {U, Ind(V), Neg(U), Minus(U, Ind(V))}}
  \cup {LetSw(<<X>>, Op2(op, x, y)) : op \in {"and", "or"}, x \in {U, W, Ind(V)}, y \in {V, Lit(6)}}
  \cup {LetSw(<<X>>, W)}
Scales == {[op |-> "SCALE", var |-> "U", by |-> b, giving |-> g] : b \in {Lit(3), Size("OUT")}, g \in {"", "X"}}
Backspaces == {[op |-> "BACKSPACE", var |-> v, giving |-> g] : v \in {"V", "U", "X", "OP1"}, g \in {"", "TEMPT"}}
BlockMoves == {[op |-> "MOVE", from |-> f, to |-> t, length |-> n, back |-> b] :
            f \in {V, Whole("INN")}, t \in {Next2(V), AD}, n \in {Lit(2), Size("OUT"), Minus(W, U)}, b \in BOOLEAN}
Unstackings == {[op |-> "MUNSTACK", from |-> f, to |-> Whole("OUT"), length |-> n] :
                  f \in {V, Ind(Lit(1))}, n \in {Lit(2), Size("INN")}}
Pushing(on, es) == [op |-> "STACK", values |-> es, on |-> on]
Pushed(e) == Tagged(e, "NM")
PushedCh(e) == Tagged(e, "CH")
Pushes == {Pushing(on, es) : on \in {"FSTACK", "BSTACK"}, es \in {<<Pushed(U)>>, <<Pushed(Ind(V)), Pushed(Neg(U))>>}}
          \cup {Pushing("FSTACK", <<Pushed(X), PushedCh(V), PushedCh(Next2(V))>>)}
Fills == {Pushing(on, <<Pushed(U), Pushed(W), Pushed(V), Pushed(X), Pushed(U)>>) : on \in {"FSTACK", "BSTACK"}}
Pops == {[op |-> "UNSTACK", values |-> vs] : vs \in {<<Pushed(X)>>, <<Pushed(U), Pushed(W)>>}}
CallTo(n, arg, exit) == [op |-> "CALL", name |-> n, arg |-> arg, exit |-> exit]
Tests == {CallTo("MDTEST", <<Tagged(a, "PT")>>, "MDABRT") : a \in {V, Next2(V), AD}}
Simple == Sets \cup Scales \cup Backspaces \cup BlockMoves \cup Unstackings \cup Pushes \cup Pops \cup Tests

\* X tells which way control went.
Mark1(n) == Let(<<X>>, Lit(n))
Halt0 == At("", Go("MDHALT"))

\* Conditions.
Rel(op, x, y) == [op |-> op, x |-> x, y |-> y]
If(rels, join, then) == L0([op |-> "IF", rels |-> rels, join |-> join, then |-> then])
Guarded(prefixes, s) == <<[prefixes |-> prefixes, s |-> s]>>
Branch(rel, l) == If(<<rel>>, "&", Guarded(<<>>, Go(l)))
Signs == {"=", "NE", "GR", "GE", "LE"}
PlainRels == {Rel(op, x, y) : op \in Signs, x \in {V, Minus(V, W)}, y \in {W, Lit(30)}}
             \cup {Rel(op, V, y) : op \in Signs, y \in {Ind(U), Plus(W, Lit(29)), AD, Neg(U)}}
             \cup {Rel(op, IndCh(V), y) : op \in {"=", "NE"}, y \in {Char(65), Char(66), IndCh(Next2(V))}}
Joined == {<<Rel(a, V, W), Rel(b, U, Lit(2))>> : a, b \in {"=", "GE"}}
          \cup {<<Rel(a, V, W), Rel(b, U, Lit(2)), Rel("LE", X, Lit(0))>> : a, b \in {"NE", "GR"}}
Rels == {[rels |-> <<r>>, join |-> j] : r \in PlainRels, j \in {"&"}}
        \cup {[rels |-> rs2, join |-> j] : rs2 \in Joined, j \in {"&", "|"}}
IfGos == {<<If(r.rels, r.join, Guarded(<<>>, Go("YES"))), L0(Mark1(7)), Halt0, At("YES", Mark1(8)), Halt0>> : r \in Rels}
\* Other statements on one line with their IF.
Guards == {<<If(<<Rel("GE", V, W)>>, "&", g), L0(Let(<<W>>, X)), Halt0, At("YES", Mark1(8)), Halt0>> :
             g \in {Guarded(<<>>, Mark1(7)), Guarded(<<"CSS">>, Go("YES")), Guarded(<<"OVP">>, Mark1(7)),
                    Guarded(<<>>, CallTo("MDTEST", <<Tagged(V, "PT")>>, "YES"))}}
\* A block inside a block; the inner one may be empty.
Open(r) == If(r.rels, r.join, <<>>)
Shut == L0([op |-> "END"])
Ifs == {<<Open(r), L0(Mark1(7)), Shut, L0(Let(<<W>>, X)), Halt0>> : r \in Rels}
       \cup {<<Open(q), Open(r), L0(Let(<<X>>, Lit(7))), Shut, L0(Let(<<W>>, X)), Shut, L0(Let(<<V>>, X)), Halt0>> :
               q, r \in {[rels |-> rs2, join |-> "|"] : rs2 \in {<<Rel("GE", V, W), Rel("=", U, Lit(2))>>}}}
       \cup {<<Open(r), Shut, Halt0>> : r \in {[rels |-> <<Rel("=", V, W)>>, join |-> "&"]}}

\* Branches on a value.
Labels2 == <<At("A", Mark1(7)), Halt0, At("B", Mark1(8)), Halt0>>
Switches == {<<L0(s), L0(Mark1(9)), Halt0>> \o Labels2 :
               s \in {[op |-> "TEST", var |-> v, to |-> <<"A", "B", "MDHALT">>] : v \in {"U", "W", "X"}}
                     \cup {[op |-> "CHARMATCH", var |-> v, arms |-> <<[char |-> Char(65), to |-> "B"],
                                                                    [char |-> c, to |-> "A"]>>] :
                             v \in {"V", "DBUGPT"}, c \in {Char(65), Char(1), IndCh(V)}}}

\* Chains; the body may leave early, and a chain may stand in a chain's body.
ChainOf(e, out) == L0([op |-> "CHAIN", addr |-> e, exit |-> out])
EndCh == L0([op |-> "ENDCH"])
Chains == {<<ChainOf(e, "B")>> \o body \o <<EndCh, At("A", Mark1(7)), Halt0, At("B", Mark1(8)), Halt0>> :
             e \in {V, X, Plus(W, Lit(28))},
             body \in {<<L0(Let(<<U>>, Plus(U, Lit(1))))>>,
                       <<Branch(Rel("GE", Var("CHANPT"), Lit(32)), "A")>>,
                       <<>>}}

\* Routines: what ends them, what they call, and how their calls come back.
Sub(n, par, exit) == L0([op |-> "SUBROUTINE", name |-> n, par |-> par, exit |-> exit, note |-> ""])
Link(n) == L0([op |-> "LINKROUTINE", name |-> n])
EndSub == L0([op |-> "ENDSUB"])
CallOf(n, arg, exit) == L0(CallTo(n, [i \in DOMAIN arg |-> Tagged(arg[i], "NM")], exit))
Ret(n) == L0([op |-> "RETURN", name |-> n])
Leave(n) == L0([op |-> "EXIT", name |-> n])
Back == L0([op |-> "LINKBACK"])
Unless(l) == Branch(Rel("GE", V, Var("PARNM")), l)
After1 == <<L0(Mark1(7)), Halt0, At("B", Mark1(8)), Halt0>>

Bodies == {<<>>, <<L0(Let(<<U>>, Var("PARNM")))>>, <<Ret("S")>>, <<L0(Go("MDHALT"))>>,
           <<Unless("P"), Ret("S"), At("P", Let(<<U>>, V))>>,
           <<If(<<Rel("GR", W, Lit(1))>>, "&", <<>>), Ret("S"), Shut>>,
           <<L0([op |-> "TEST", var |-> "W", to |-> <<"B", "MDHALT">>])>>}
Ends == {EndSub, At("Q", [op |-> "ENDSUB"])}
Called == {<<CallOf("S", <<a>>, "")>> \o After1 \o <<Sub("S", "PARNM", FALSE)>> \o b \o <<e>> :
             a \in {Lit(3), Ind(V)}, b \in Bodies, e \in Ends}
          \cup {<<CallOf("S", <<>>, "B")>> \o After1 \o <<Sub("S", "", TRUE)>> \o b \o <<e>> :
                  b \in {<<Unless("P"), Ret("S"), At("P", Leave("S").s)>>, <<Unless("P"), Leave("S"), At("P", Let(<<U>>, V))>>,
                         <<Unless("MDHALT")>>},
                  e \in Ends}
\* S calls T, which leaves by its exit or returns; the exit is in S or outside.
Nested == {<<CallOf("S", <<V>>, ""), L0(Let(<<W>>, X)), Halt0, At("B", Mark1(8)), Halt0,
             Sub("S", "PARNM", FALSE), CallOf("T", <<>>, out), L0(Mark1(4)), Ret("S"), At("P", Mark1(5)), EndSub,
             Sub("T", "", TRUE), Branch(Rel("=", W, Lit(1)), "N"),
             Leave("T"), At("N", Ret("T").s), EndSub>> : out \in {"P", "B", "MDHALT"}}
Keeping == <<L0(Let(<<U>>, Var("LINKPT"))), CallOf("J", <<>>, ""), L0(Let(<<Var("LINKPT")>>, U))>>
Linked == {<<CallOf("K", <<>>, "")>> \o After1 \o <<Link("K")>> \o b \o <<Back, EndSub, Link("J"), Back, EndSub,
             Sub("S", "", FALSE)>> \o sb \o <<EndSub>> :
             b \in {<<>>, Keeping, <<CallOf("S", <<>>, "")>>, <<CallOf("J", <<>>, "")>>},
             sb \in {<<L0(Mark1(6))>>, Keeping}}
\* Forgetting the calls in progress.
Forgetting == {<<CallOf("S", <<>>, "")>> \o After1 \o <<CssAt("A", t)>> \o <<Halt0, Sub("S", "", FALSE), L0(Go("A")), EndSub>> :
                 t \in {Mark1(9), Go("B"), Pushing("FSTACK", <<Pushed(X)>>), Ret("S").s}}

\* The stacks meet; a product and a quotient.
Overflowing == {<<L0(f), L0(Mark1(7)), Halt0>> \o more : f \in Fills, more \in {<<>>, <<At("ERLSO", Mark1(8)), Halt0>>}}
Computing == {<<CallOf("MDOP", <<>>, ""), L0(Mark1(7)), Halt0, At("ERLOVF", Mark1(8)), Halt0>>}

\* Programs that leave what L defines.
Wild == {<<Sub("S", "PARNM", FALSE), EndSub>>, <<Link("K"), Back, EndSub>>,
         <<At("A", Go("A"))>>,
         <<L0(Let(<<Ind(Lit(999))>>, V)), Halt0>>,
         <<CallOf("K", <<>>, ""), Halt0, Link("K"), L0(Let(<<Var("LINKPT")>>, Lit(2))), Back, EndSub>>,
         <<At("A", Let(<<X>>, V))>>}

\* What Check has to turn away.
Wrong == {<<L0([op |-> "CHARMATCH", var |-> "V", arms |-> <<[char |-> Char(65), to |-> "NONE"]>>]), Halt0>>,
          <<CallOf("S", <<>>, "NONE"), Halt0, Sub("S", "", TRUE), EndSub>>,
          <<CallOf("S", <<>>, ""), Halt0, Sub("S", "", FALSE), Leave("S"), EndSub>>,
          <<At("A", Mark1(1)), At("A", Mark1(2)), Halt0>>,
          <<Back, Halt0>>}

\* What the machine-dependent logic says of a text, and the error it can report.
Reading == {<<L0(Let(<<Var("IDPT")>>, Lit(a))), L0(Let(<<Var("SPT")>>, Lit(b))), CallOf("MDNUM", <<>>, "B")>> \o After1 :
              a, b \in 39 .. 42}
Asking == {<<L0(Let(<<V>>, Lit(c))), L0(Let(<<Var("IDPT")>>, AD)), L0(Let(<<Ind(AD)>>, V)),
             L0(Let(<<Var("INFFPT")>>, Lit(a))), L0(Let(<<Var("ERIAPT")>>, Lit(b))), L0(Go("MDGOBC"))>> :
             c \in {73, 76, 78}, a \in 38 .. 42, b \in 38 .. 43}
          \cup {<<L0(Go("MDGOBC"))>>}
Spelling == {<<L0(Let(<<Var("MEVAL")>>, e)), CallOf("MDCONV", <<>>, ""), CallOf("MDERPR", <<>>, ""), Halt0>> :
               e \in {Lit(n) : n \in {0, 7, 40, 999, 1000}} \cup {Neg(Lit(n)) : n \in {3, 50, 100}}}
Saying == {<<L0(Let(<<Var("IDPT")>>, Lit(a))), L0(Let(<<Var("IDLEN")>>, Lit(n))), CallOf("MDERPR", <<>>, ""), CallOf("MDQUOT", <<>>, ""),
             L0([op |-> "PRTEXT", text |-> <<65, 36, 66>>]), Halt0>> : a \in {38, 42, 43}, n \in {0, 1, 2}}

(***************************************************************************)
(* The constants of the language, where they may stand and where they may  *)
(* not.                                                                    *)
(***************************************************************************)
True == Var("TRUE")
Stopcode == Var("STOPCODE")
WithConstants ==
  Alone({Let(<<X>>, e) : e \in {True, Minus(V, Var("TEXMAX")), Neg(Var("LOCMK")), Ind(Plus(V, True)), Ind(Var("HTMAX"))}}
        \cup {Let(<<Ind(Var("STRMK")), X>>, W)}
        \cup {LetSw(<<X>>, Op2(op, W, y)) : op \in {"and", "or"}, y \in {True, Var("PINSMK"), Size("INN")}}
        \cup {[op |-> "SCALE", var |-> "U", by |-> Var("STRMK"), giving |-> ""]})
  \cup {<<Branch(r, "YES"), L0(Mark1(7)), Halt0, At("YES", Mark1(8)), Halt0>> :
          r \in {Rel(op, W, y) : op \in {"=", "GR"}, y \in {True, Var("TEXMAX"), Minus(True, W)}}}
Characters == {Stopcode, True, Char(65), V, Size("INN"), Lit(65)}
ComparingCharacters ==
  {<<L0(Let(<<Ind(V)>>, Lit(c))), Branch(Rel("=", IndCh(V), y), "B")>> \o After1 : c \in {1, 65, 257}, y \in Characters}
  \cup {<<L0(Let(<<Ind(V)>>, Lit(c))),
           L0([op |-> "CHARMATCH", var |-> "V", arms |-> <<[char |-> Char(66), to |-> "B"], [char |-> y, to |-> "B"]>>])>>
         \o After1 : c \in {1, 257}, y \in Characters}
NoVariables == {"TRUE", "STOPCODE", "LPT", "LNM", Sized("INN")}
Misplaced(n) ==
  Alone({Let(<<Var(n)>>, V), LetSw(<<X, Var(n)>>, V), Let(<<X>>, Var(n)), Let(<<X>>, Ind(Plus(V, Var(n)))),
         [op |-> "UNSTACK", values |-> <<Pushed(Var(n))>>], [op |-> "SCALE", var |-> n, by |-> Lit(3), giving |-> ""],
         [op |-> "SCALE", var |-> "U", by |-> Var(n), giving |-> n], [op |-> "TEST", var |-> n, to |-> <<"MDHALT">>],
         [op |-> "CHARMATCH", var |-> n, arms |-> <<[char |-> Char(65), to |-> "MDHALT"]>>],
         [op |-> "BACKSPACE", var |-> n, giving |-> ""], [op |-> "BACKSPACE", var |-> "V", giving |-> n]})
\* Names that are not free, and a label of the program that the L-map's code goes to.
Spoken == {<<At(n, Mark1(1)), Halt0>> : n \in {"TRUE", "LNM", "EXCLMK", "MDOP", "LOSCHN", "SRCPT", "SPREP", "TAB"}}
          \cup {<<Sub("MDINIT", "", FALSE), EndSub>>, <<L0(Let(<<Var("EXCLMK")>>, V)), Halt0>>,
                <<CallOf("MDOP", <<>>, ""), L0(Mark1(7)), Halt0>>}
Constant == WithConstants \cup ComparingCharacters \cup Spoken \cup UNION {Misplaced(n) : n \in NoVariables}

\* The labels the machine-dependent logic goes to are in every program but some.
Places == <<CssAt("ERLIA", Mark1(1)), Halt0, At("GOSUC", Mark1(2)), Halt0, At("GOFAIL", Mark1(3)), Halt0>>

\* What is not nested.
Crossing == {<<L0(a), L0(b), L0(c), L0(d), Halt0>> :
               a, b \in {[op |-> "CHAIN", addr |-> X, exit |-> "MDHALT"], [op |-> "IF", rels |-> <<Rel("=", V, W)>>, join |-> "&", then |-> <<>>]},
               c, d \in {[op |-> "END"], [op |-> "ENDCH"]}}
            \cup {<<Shut, Halt0>>, <<Sub("S", "", FALSE), Halt0>>}

Samples == Alone(Simple) \cup IfGos \cup Guards \cup Ifs \cup Switches \cup Chains \cup Called \cup Nested \cup Linked
         \cup Forgetting \cup Overflowing \cup Computing \cup Wild \cup Wrong
         \cup Reading \cup Asking \cup Spelling \cup Saying \cup Crossing \cup Constant
PrintedAs(p) == [text |-> F!Source(p), meant |-> p]
Printed(p) == PrintedAs(p \o Places)
Unplaced == {PrintedAs(<<Halt0>>), PrintedAs(<<L0(Mark1(1)), Halt0, At("ERLIA", Mark1(1)), Halt0, At("GOSUC", Mark1(2)), Halt0>>)}

(***************************************************************************)
(* Lines nobody would write: a line of each shape with an item lost, said  *)
(* twice, moved or put in, or with parentheses round some of it.           *)
(***************************************************************************)
SizeIn(x) == [k |-> "of", x |-> x]
Shapes ==
  {At("P", Let(<<Ind(Next2(V)), X>>, Minus(Neg(V), Minus(W, U)))), L0(LetSw(<<X>>, Op2("and", W, V))),
   L0([op |-> "SCALE", var |-> "U", by |-> Lit(3), giving |-> "X"]), L0([op |-> "BACKSPACE", var |-> "V", giving |-> "TEMPT"]),
   L0([op |-> "MOVE", from |-> V, to |-> AD, length |-> Minus(W, U), back |-> TRUE]),
   L0([op |-> "MSTACK", from |-> V, length |-> Lit(2), on |-> "FSTACK"]),
   L0([op |-> "MUNSTACK", from |-> V, to |-> Whole("OUT"), length |-> Lit(2)]),
   CssAt("", Pushing("FSTACK", <<Pushed(U), PushedCh(Next2(V))>>)), L0([op |-> "UNSTACK", values |-> <<Pushed(U), Pushed(W)>>]),
   CallOf("S", <<Minus(V, W)>>, "B"), L0(Let(<<X>>, SizeIn(Plus(Var("LCH"), Op2("mul", Lit(2), Minus(Lit(4), Lit(1))))))),
   L0(LetSw(<<X>>, Op2("and", W, Size("INN")))), L0(Let(<<Size("INN")>>, V)),
   If(<<Rel("=", IndCh(V), W)>>, "&", Guarded(<<>>, Go("B"))),
   If(<<Rel("=", V, W), Rel("GE", U, Lit(2))>>, "&", Guarded(<<"OVP">>, Go("B"))), If(<<Rel("NE", V, W)>>, "&", <<>>),
   L0([op |-> "TEST", var |-> "U", to |-> <<"A", "B">>]), L0([op |-> "PRTEXT", text |-> <<65>>]),
   L0([op |-> "CHARMATCH", var |-> "V", arms |-> <<[char |-> Char(65), to |-> "B"], [char |-> Char(66), to |-> "A"]>>]),
   ChainOf(Next2(V), "B"), Sub("R", "PARNM", TRUE), L0([op |-> "SUBROUTINE", name |-> "R", par |-> "", exit |-> TRUE, note |-> "n"]),
   Link("K"), Ret("S"), Back, At("Q", [op |-> "ENDSUB"]), EndCh,
   L0([op |-> "SECTION", name |-> "MAIN", note |-> "n"]), L0([op |-> "DEC", name |-> "Y", init |-> <<Lit(3)>>]),
   L0([op |-> "EQUATE", name |-> "Y", to |-> "V"]), L0([op |-> "LAYCHAIN"]),
   L0([op |-> "DC", args |-> <<[k |-> "lid", codes |-> <<65>>], [k |-> "rl", n |-> "TAB", by |-> <<Neg(Lit(2))>>], Char(65)>>]),
   L0([op |-> "OPMAC", name |-> <<65, 66>>, dels |-> AD, marker |-> Var("OPMK"), number |-> Lit(1)])}
Extra == {F!Sign(","), F!Sign("-"), F!Word("V"), F!Comment("c"), F!Prefix("CSS"), F!Bracket("L", <<76>>), F!Stray, F!Shut}
Around(items, i, j) == SubSeq(items, 1, i - 1) \o F!InParentheses(SubSeq(items, i, j)) \o SubSeq(items, j + 1, Len(items))
Odd(items) ==
  {RemoveAt(items, i) : i \in DOMAIN items}
  \cup {InsertAt(items, i, e) : i \in DOMAIN items, e \in Extra}
  \cup {InsertAt(items, i, items[i]) : i \in DOMAIN items}
  \cup {[items EXCEPT ![i] = items[i + 1], ![i + 1] = items[i]] : i \in 1 .. Len(items) - 1}
  \cup {Around(items, i, j) : i, j \in 1 .. Len(items)}
Rest == <<Halt0>> \o Labels2 \o <<Sub("S", "PARNM", FALSE), EndSub>> \o Places
Fragment == UNION {Odd(F!LineText(l)) : l \in Shapes}
Garbled == {[text |-> <<<<F!Heading("h")>>, l>> \o F!Source(Rest), meant |-> <<>>] : l \in Fragment}

Written == {Printed(p) : p \in Samples} \cup Unplaced \cup Garbled

\* The value on the left is in the accumulator when an address is worked out for
\* the one on the right.
Clobbering == {Printed(<<Branch(Rel("=", W, Ind(Plus(W, Lit(29)))), "YES"), Halt0, At("YES", Mark1(8)), Halt0>>)}
=============================================================================
