---------------------------- MODULE MCAssembler ----------------------------
(***************************************************************************)
(* Every program of a given length over three small vocabularies: names    *)
(* and references, tables, and subroutines with their exits.               *)
(***************************************************************************)
EXTENDS AssemblerProperties

Names == Special \cup {"LINKPT", "BEGIN", "LNM", "A", "B"}
Constants == [n \in {"LNM"} |-> 1]
Texts == {"x", "y", "z"}
Hash == [t \in Texts |-> IF t = "z" THEN 0 ELSE 1]

S(op) == [op |-> op]
N(op, name) == [op |-> op, name |-> name]
Labels == {N("MDLABEL", n) : n \in {"A", "B"}}

Symbols ==
  Labels \cup {N("DCL", "A"), N("LINKR", "A"), N("DCL", "LINKPT"), S("WORD"),
               [op |-> "IDENT", name |-> "B", number |-> 1], N("CON", "A"),
               N("REF", "A"), N("REF", "B")}
  \cup {[op |-> "EQU", name |-> n, of |-> m] : n, m \in {"A", "B"}}
Tables ==
  Labels \cup {S("THASH"), S("WORD")} \cup {[op |-> "HASH", text |-> t] : t \in Texts}
  \cup {[op |-> "RL", name |-> "A", offset |-> d] : d \in {-1, 2}}
Routine == [op |-> "SUBR", name |-> "A", flag |-> "PARNM", exits |-> 1]
Subroutines ==
  {Routine, [Routine EXCEPT !.name = "B", !.flag = "X", !.exits = 2], N("DCL", "PARNM"),
   N("GOSUB", "A"), N("GOSUB", "MDREAD"), N("GOADD", "A"), S("WORD")}
  \cup {[op |-> "GO", name |-> "A", flag |-> f] : f \in {"C", "T", "X"}}
  \cup {[op |-> "EXIT", name |-> "A", number |-> i] : i \in {1, 2}}
Pointers ==
  {N("DCL", n) : n \in {"SRCPT", "DSTPT", "FFPT", "LFPT"}}
  \cup {S("MOVE"), S("STACK"), N("CON", "LNM"), N("MDLABEL", "BEGIN"), [op |-> "IDENT", name |-> "BEGIN", number |-> 1]}

Of(length, vocabulary) == [1 .. length -> vocabulary]
SmallPrograms == Of(4, Symbols) \cup Of(4, Tables) \cup Of(4, Subroutines) \cup Of(3, Pointers)
=============================================================================
