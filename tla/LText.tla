------------------------------- MODULE LText -------------------------------
(***************************************************************************)
(* A program in L as the front end hands it on: a sequence of lines.  A    *)
(* line carries a label ("" when it has none), prefixes and a statement.   *)
(* The tree of pkg/l/ast is kept flat: an opening statement and its        *)
(* closing one are lines like the others.  Declarations are a sequence of  *)
(* such lines too.                                                         *)
(*                                                                         *)
(* An expression is a record whose field k says what it is: "lit" (a       *)
(* number), "char", "var" (any name), "ad" (AD), "block" (BLOCK), "ind"    *)
(* (IND, of a type), "neg" and "plus" (a leading sign), "add", "sub", in a *)
(* SETSW "and" and "or"; and, where Check lets them stand, "mul", "div",   *)
(* "of" (OF), "rl" (RL), "lid" (LID) and "text" (in an OPMAC).             *)
(***************************************************************************)
EXTENDS Naturals, SequencesExt

Op(p, i) == p[i].s.op

Closing == [op \in {"IF", "CHAIN", "SUBROUTINE", "LINKROUTINE", "SECTION", "BLOCKDEC"} |->
              CASE op = "IF" -> "END"
                [] op = "CHAIN" -> "ENDCH"
                [] op \in {"SUBROUTINE", "LINKROUTINE"} -> "ENDSUB"
                [] op = "SECTION" -> "ENDSECT"
                [] op = "BLOCKDEC" -> "ENDBLOCK"]
Routines == {"SUBROUTINE", "LINKROUTINE"}

(***************************************************************************)
(* The lines as the L-map takes them.  A one-line IF that guards a GO TO   *)
(* is a branch, IFGO, unless the GO TO has a prefix; any other means a     *)
(* block.  Some calls of the machine-dependent logic are statements of     *)
(* their own.                                                              *)
(***************************************************************************)
Direct(s) ==
  IF s.op # "CALL" THEN s
  ELSE IF s.name = "MDTEST" /\ s.arg # <<>> /\ s.exit # "" THEN [op |-> "MDTEST", arg |-> s.arg[1].e, exit |-> s.exit]
  ELSE IF s.name = "MDNUM" /\ s.arg = <<>> /\ s.exit # "" THEN [op |-> "MDNUM", exit |-> s.exit]
  ELSE IF s.name \in {"MDERPR", "MDQUOT", "MDCONV", "MDOP"} /\ s.arg = <<>> /\ s.exit = "" THEN [op |-> s.name]
  ELSE s
Bare(prefixes, s) == [at |-> "", prefixes |-> prefixes, s |-> s]
Unfolded(l) ==
  LET branch == [op |-> "IFGO", rels |-> l.s.rels, join |-> l.s.join, to |-> l.s.then[1].s.to]
      block == [op |-> "IF", rels |-> l.s.rels, join |-> l.s.join]
      guarded == l.s.then[1]
  IN  IF l.s.op # "IF" THEN <<[l EXCEPT !.s = Direct(l.s)]>>
      ELSE IF l.s.then = <<>> THEN <<[l EXCEPT !.s = block]>>
      ELSE IF guarded.s.op = "GOTO" /\ guarded.prefixes = <<>> THEN <<[l EXCEPT !.s = branch]>>
      ELSE <<[l EXCEPT !.s = block], Bare(guarded.prefixes, Direct(guarded.s)), Bare(<<>>, [op |-> "END"])>>
Flat(tree) == FlattenSeq([i \in DOMAIN tree |-> Unfolded(tree[i])])

\* CSS says that the label of the line is one that calls do not come back from.
Forgets(l) == "CSS" \in Range(l.prefixes)
Sized(block) == block \o "SZ"

(***************************************************************************)
(* The constants of the language: those that have a number, the lengths of *)
(* the data types, the character that ends the text, and the markers.  The *)
(* L-map gives no number to the lengths and to STOPCODE; it makes          *)
(* variables of the markers.                                               *)
(***************************************************************************)
ConstantValue ==
  "TRUE" :> 1 @@ "FALSE" :> 0 @@ "ZEROPT" :> 0 @@ "NULLPT" :> 0 @@ "ENDCHN" :> 0 @@ "OPMK" :> 0 @@ "LOCMK" :> 1
  @@ "UINSMK" :> 2 @@ "PINSMK" :> 3 @@ "STRMK" :> 4 @@ "TEXMAX" :> 60 @@ "HTMAX" :> 26
Lengths == {"LPT", "LNM", "LSW", "LCH", "LICH", "LHV"}
Valueless == Lengths \cup {"STOPCODE"}
Markers == {"WTHSMK", "WITHMK", "EXCLMK", "SPCSMK"}
LanguageConstants == DOMAIN ConstantValue \cup Valueless \cup Markers

\* The names that stand for a place and not for a value.
PlacesIn(s) ==
  CASE s.op \in {"SET", "SETSW"} -> {t.n : t \in {e \in Range(s.to) : e.k = "var"}}
    [] s.op = "UNSTACK" -> {v.e.n : v \in Range(s.values)}
    [] s.op \in {"SCALE", "BACKSPACE"} -> {s.var, s.giving} \ {""}
    [] s.op \in {"TEST", "CHARMATCH"} -> {s.var}
    [] OTHER -> {}

\* The line that closes what line i opens: the first at which the statements that
\* close like it have caught up with those that are closed like it.
Needs(p, k, end) == Op(p, k) \in DOMAIN Closing /\ Closing[Op(p, k)] = end
Closer(p, i) ==
  LET end == Closing[Op(p, i)]
  IN  Min({j \in i + 1 .. Len(p) : /\ Op(p, j) = end
                                   /\ Cardinality({k \in i .. j : Needs(p, k, end)})
                                      = Cardinality({k \in i .. j : Op(p, k) = end})})
Opener(p, j) == CHOOSE i \in 1 .. j - 1 : Op(p, i) \in DOMAIN Closing /\ Closer(p, i) = j

\* The opening line of the routine that line i is in, 0 outside any.
Routine(p, i) ==
  Max({0} \cup {r \in 1 .. i : Op(p, r) \in Routines /\ i <= Closer(p, r)})

\* Where a label leads, and where a routine begins.  MDHALT and MDABRT are not
\* lines of the program: 0 stands for the end of the process.
LineOf(p, label) ==
  IF label \in {"MDHALT", "MDABRT"} THEN 0 ELSE CHOOSE i \in DOMAIN p : p[i].at = label
EntryOf(p, name) ==
  CHOOSE i \in DOMAIN p : Op(p, i) \in Routines /\ p[i].s.name = name

\* The first line from i on that does something: END does nothing, nor does the
\* end of a linkroutine.
Silent(p, j) ==
  Op(p, j) = "END" \/ (Op(p, j) = "ENDSUB" /\ Op(p, Routine(p, j)) = "LINKROUTINE")
Reached(p, i) == Min({j \in i .. Len(p) + 1 : j \in DOMAIN p => ~Silent(p, j)})
=============================================================================
