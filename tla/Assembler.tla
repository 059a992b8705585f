----------------------------- MODULE Assembler -----------------------------
(***************************************************************************)
(* Assemble of pkg/lowl/assembler and its symbol table: one pass over the  *)
(* statements of a LOWL program lays out core and queues every reference   *)
(* to a name, and when the source has been read the hash chains are linked *)
(* and the queues are filled, in whatever order Go walks its map.          *)
(*                                                                         *)
(* Statements are classed by what they do to the tables.  WORD stands for  *)
(* every instruction that names nothing (STR is as many as it has          *)
(* characters), REF for every one that takes an address, CON for every one *)
(* whose operand must be a constant already.                               *)
(***************************************************************************)
EXTENDS Integers, Sequences

CONSTANTS Programs,    \* the sequences of statements to assemble
          Name,        \* the symbols there can be
          Predefined,  \* the constants the symbol table starts with
          Text,        \* the names in HASH statements
          HashName,    \* which chain each of them belongs on
          LHV,         \* how many chains there are
          MAX_WORDS    \* the size of Core

MaxNumberText == 12
Reserved == <<"DSTPT", "FFPT", "LFPT", "PARNM", "SRCPT">>
Last0 == 1 + Len(Reserved) + MaxNumberText   \* the first word of the program
Special == {Reserved[i] : i \in 1 .. Len(Reserved)}
MachineDependent == {"MDCONV", "MDERCH", "MDFIND", "MDOP", "MDOUCH", "MDQUIT", "MDREAD"}

\* What the parser makes of a statement.
Node ==
  [op : {"WORD", "MOVE", "STACK", "THASH"}]
  \cup [op : {"DCL", "MDLABEL", "LINKR", "REF", "CON", "GOADD"}, name : Name]
  \cup [op : {"GOSUB"}, name : Name \cup MachineDependent]
  \cup [op : {"GO"}, name : Name, flag : {"C", "T", "X"}]
  \cup [op : {"EQU"}, name : Name, of : Name]
  \cup [op : {"IDENT", "EXIT"}, name : Name, number : Int]
  \cup [op : {"RL"}, name : Name, offset : Int]
  \cup [op : {"SUBR"}, name : Name, flag : {"PARNM", "X"}, exits : Int]
  \cup [op : {"HASH"}, text : Text]

ASSUME AssemblerAssumption ==
  /\ Programs \subseteq Seq(Node)
  /\ Special \cup {"LINKPT", "BEGIN"} \subseteq Name
  /\ DOMAIN Predefined \subseteq Name
  /\ \A n \in DOMAIN Predefined : Predefined[n] \in Int
  /\ LHV \in Nat \ {0}
  /\ HashName \in [Text -> 0 .. LHV - 1]
  /\ MAX_WORDS \in Nat /\ MAX_WORDS >= Last0

\* The scanner makes no name of no letters.
ASSUME NameAssumption == "" \notin Name

VARIABLES nodes,      \* the program
          next,       \* the statement to be assembled
          status,     \* the stage of Assemble, or how it returned
          pc,         \* machine.PC
          core,       \* machine.Core: the value and the second value of each word
          registers,  \* where the machine finds its reserved variables
          symbols,    \* the symbol table
          sub,        \* currSubroutine
          jumpTable,
          entries,    \* hashEntries
          thash,      \* thashAddress, 0 until THASH appears
          linked,     \* how many of the entries are on their chains
          filled,     \* the symbols whose queue has been filled
          exported    \* machine.Symbols

table == <<symbols, registers>>
chains == <<entries, thash>>
vars == <<nodes, next, status, pc, core, table, sub, jumpTable, chains, linked, filled, exported>>

Absent == [kind |-> "absent", address |-> 0, constant |-> 0, alias |-> "", refs |-> {}]
Constant(n) == [kind |-> "constant", address |-> 0, constant |-> n, alias |-> "", refs |-> {}]

Init ==
  /\ nodes \in Programs
  /\ next = 1
  /\ status = "assembling"
  /\ pc = Last0
  /\ core = [a \in 0 .. MAX_WORDS - 1 |-> [value |-> 0, two |-> 0]]
  /\ registers = [n \in Special |-> CHOOSE i \in 1 .. Len(Reserved) : Reserved[i] = n]
  /\ symbols = [n \in Name |-> IF n \in DOMAIN Predefined THEN Constant(Predefined[n]) ELSE Absent]
  /\ sub = [name |-> "", exits |-> 0]
  /\ jumpTable = 0
  /\ entries = << >> /\ thash = 0
  /\ linked = 0
  /\ filled = {}
  /\ exported = << >>
-----------------------------------------------------------------------------
(* The symbol table. *)

\* Lookup goes through one alias, and does not see what is undefined.
Resolved(n) == IF symbols[n].kind = "alias" THEN symbols[n].alias ELSE n
Defined(n) == symbols[n].kind \notin {"absent", "undefined"}
Found(n) == Defined(Resolved(n))

\* addRef: a name that is only used so far is "undefined".
Referring(tbl, n, ref) ==
  [tbl EXCEPT ![n].refs = @ \cup {ref},
              ![n].kind = IF @ = "absent" THEN "undefined" ELSE @]
AddReference(tbl, n) == Referring(tbl, n, [at |-> pc, offset |-> 0, relative |-> FALSE])
AddRelativeReference(tbl, n, d) == Referring(tbl, n, [at |-> pc, offset |-> d, relative |-> TRUE])

\* InsertAddress: a name that has only been used keeps its queue.
InsertableFresh(n) == symbols[n].kind = "absent"  \* faulty variant: no forward references
Insertable(n) == symbols[n].kind \in {"absent", "undefined"}
WithAddressAlone(n) ==  \* faulty variant: the queue is lost
  [symbols EXCEPT ![n] = [Absent EXCEPT !.kind = "address", !.address = pc]]
WithAddress(n) == [symbols EXCEPT ![n] = [@ EXCEPT !.kind = "address", !.address = pc]]
-----------------------------------------------------------------------------
(* Assembling one statement. *)

node == nodes[next]
At(op) == status = "assembling" /\ next <= Len(nodes) /\ node.op = op

Stop(how) ==
  /\ status' = how
  /\ UNCHANGED <<nodes, next, pc, core, table, sub, jumpTable, chains, linked, filled, exported>>

FitsLate(n) == pc + n <= MAX_WORDS + 1  \* faulty variant: off by one
Fits(n) == pc + n <= MAX_WORDS
Advance == next' = next + 1 /\ UNCHANGED <<nodes, status, linked, filled, exported>>
Silent == Advance /\ UNCHANGED <<pc, core>>
\* Core is an array: the word that does not fit is a panic.
Panic == status' = "panic" /\ UNCHANGED <<nodes, next, pc, core, linked, filled, exported>>
Emit(value, two) ==
  \/ /\ Fits(1)
     /\ core' = [core EXCEPT ![pc] = [value |-> value, two |-> two]]
     /\ pc' = pc + 1
     /\ Advance
  \/ ~Fits(1) /\ Panic

Word ==
  /\ At("WORD")
  /\ Emit(0, 0)
  /\ UNCHANGED <<table, sub, jumpTable, chains>>

DCL ==
  /\ At("DCL")
  /\ \/ /\ Insertable(node.name)
        /\ symbols' = WithAddress(node.name)
        /\ registers' = [n \in Special |-> IF n = node.name THEN pc ELSE registers[n]]
        /\ Emit(0, 0)
        /\ UNCHANGED <<sub, jumpTable, chains>>
     \/ ~Insertable(node.name) /\ Stop("error")

\* The answer of InsertAddress is not looked at: the label of an alias whose
\* target is not there yet is dropped.
MDLABEL ==
  /\ At("MDLABEL")
  /\ \/ /\ ~Found(node.name)
        /\ symbols' = IF Insertable(node.name) THEN WithAddress(node.name) ELSE symbols
        /\ Silent
        /\ UNCHANGED <<registers, sub, jumpTable, chains>>
     \/ Found(node.name) /\ Stop("error")

\* SUBR and LINKR: a second definition moves the first, by UpdateAddress.
Entered(n) == IF Found(n) THEN [symbols EXCEPT ![n] = [@ EXCEPT !.address = pc]] ELSE WithAddress(n)

SUBR ==
  /\ At("SUBR")
  /\ \/ /\ Found(node.name) \/ Insertable(node.name)
        /\ symbols' = IF node.flag = "PARNM" THEN AddReference(Entered(node.name), "PARNM")
                      ELSE Entered(node.name)
        /\ sub' = [name |-> node.name, exits |-> node.exits]
        /\ Emit(0, 0)
        /\ UNCHANGED <<registers, jumpTable, chains>>
     \/ ~Found(node.name) /\ ~Insertable(node.name) /\ Stop("error")

LINKR ==
  /\ At("LINKR")
  /\ \/ /\ Found(node.name) \/ Insertable(node.name)
        /\ symbols' = AddReference(Entered(node.name), "LINKPT")
        /\ Emit(0, 0)
        /\ UNCHANGED <<registers, sub, jumpTable, chains>>
     \/ ~Found(node.name) /\ ~Insertable(node.name) /\ Stop("error")

EQU ==
  /\ At("EQU")
  /\ \/ Found(node.name) /\ Stop("error")
     \/ /\ symbols[node.name].kind = "absent" /\ symbols[node.of].kind = "alias"
        /\ Stop("panic")
     \/ /\ ~Found(node.name)
        /\ symbols[node.name].kind = "absent" => symbols[node.of].kind # "alias"
        /\ symbols' = IF symbols[node.name].kind # "absent" THEN symbols
                      ELSE [symbols EXCEPT ![node.name] = [@ EXCEPT !.kind = "alias", !.alias = node.of]]
        /\ Silent
        /\ UNCHANGED <<registers, sub, jumpTable, chains>>

\* Nor is the answer of InsertConstant.
IDENT ==
  /\ At("IDENT")
  /\ symbols' = IF symbols[node.name].kind # "absent" THEN symbols
                ELSE [symbols EXCEPT ![node.name] = Constant(node.number)]
  /\ Silent
  /\ UNCHANGED <<registers, sub, jumpTable, chains>>

REF ==
  /\ At("REF")
  /\ symbols' = AddReference(symbols, node.name)
  /\ Emit(0, 0)
  /\ UNCHANGED <<registers, sub, jumpTable, chains>>

RL ==
  /\ At("RL")
  /\ symbols' = AddRelativeReference(symbols, node.name, node.offset)
  /\ Emit(0, 0)
  /\ UNCHANGED <<registers, sub, jumpTable, chains>>

IsConstant(n) == Found(n) /\ symbols[Resolved(n)].kind = "constant"

CON ==
  /\ At("CON")
  /\ \/ /\ IsConstant(node.name)
        /\ Emit(symbols[Resolved(node.name)].constant, 0)
        /\ UNCHANGED <<table, sub, jumpTable, chains>>
     \/ ~IsConstant(node.name) /\ Stop("error")

\* BMOVE and FMOVE look their two pointers up on the spot.
MOVE ==
  /\ At("MOVE")
  /\ \/ /\ Found("SRCPT") /\ Found("DSTPT")
        /\ Emit(symbols[Resolved("SRCPT")].address, symbols[Resolved("DSTPT")].address)
        /\ UNCHANGED <<table, sub, jumpTable, chains>>
     \/ ~(Found("SRCPT") /\ Found("DSTPT")) /\ Stop("error")

\* BSTK, CFSTK and FSTK ask only that theirs have been declared.
STACK ==
  /\ At("STACK")
  /\ \/ /\ Found("FFPT") /\ Found("LFPT")
        /\ Emit(0, 0)
        /\ UNCHANGED <<table, sub, jumpTable, chains>>
     \/ ~(Found("FFPT") /\ Found("LFPT")) /\ Stop("error")

GOSUB ==
  /\ At("GOSUB")
  /\ symbols' = IF node.name \in MachineDependent THEN symbols ELSE AddReference(symbols, node.name)
  /\ jumpTable' = 0
  /\ Emit(0, 0)
  /\ UNCHANGED <<registers, sub, chains>>

GOADD ==
  /\ At("GOADD")
  /\ symbols' = AddReference(symbols, node.name)
  /\ jumpTable' = 0
  /\ Emit(0, 0)
  /\ UNCHANGED <<registers, sub, chains>>

\* The last flag says what the branch is: an exit after GOSUB, numbered from
\* one, a way of GOADD, numbered from nought, or neither.
ExitNumber == jumpTable + 1

GO ==
  /\ At("GO")
  /\ symbols' = AddReference(symbols, node.name)
  /\ \/ node.flag = "C" /\ Emit(0, ExitNumber) /\ jumpTable' = jumpTable + 1
     \/ node.flag = "T" /\ Emit(0, jumpTable) /\ jumpTable' = jumpTable + 1
     \/ node.flag = "X" /\ Emit(0, 0) /\ jumpTable' = 0
  /\ UNCHANGED <<registers, sub, chains>>

MayExit == node.number \in 1 .. sub.exits /\ node.name = sub.name

EXIT ==
  /\ At("EXIT")
  /\ \/ MayExit /\ Emit(node.number, 0) /\ UNCHANGED <<table, sub, jumpTable, chains>>
     \/ ~MayExit /\ Stop("error")

HASH ==
  /\ At("HASH")
  /\ entries' = Append(entries, [at |-> pc, text |-> node.text])
  /\ Emit(0, 0)
  /\ UNCHANGED <<table, sub, jumpTable, thash>>

THASH ==
  /\ At("THASH")
  /\ \/ /\ thash = 0
        /\ thash' = pc
        /\ \/ Fits(LHV) /\ pc' = pc + LHV /\ Advance /\ UNCHANGED core
           \/ ~Fits(LHV) /\ Panic
        /\ UNCHANGED <<table, sub, jumpTable, entries>>
     \/ thash # 0 /\ Stop("error")
-----------------------------------------------------------------------------
(* When the source has been read. *)

Repeated == \E i, j \in DOMAIN entries : i # j /\ entries[i].text = entries[j].text

EndOfSource ==
  /\ status = "assembling"
  /\ next > Len(nodes)
  /\ \/ (entries = << >> <=> thash # 0) /\ Stop("error")
     \/ entries # << >> /\ thash # 0 /\ Repeated /\ Stop("error")
     \/ /\ entries = << >> <=> thash = 0
        /\ ~Repeated
        /\ status' = "linking"
        /\ UNCHANGED <<nodes, next, pc, core, table, sub, jumpTable, chains, linked, filled, exported>>

\* The entries are threaded from the last to the first, each one at the head
\* of its chain.
LinkedNextForwards == entries[linked + 1]  \* faulty variant: in source order
LinkedNext == entries[Len(entries) - linked]
ChainHead(text) == thash + HashName[text]

Link ==
  /\ status = "linking"
  /\ linked < Len(entries)
  /\ core' = [core EXCEPT ![LinkedNext.at].value = core[ChainHead(LinkedNext.text)].value,
                          ![ChainHead(LinkedNext.text)].value = LinkedNext.at]
  /\ linked' = linked + 1
  /\ UNCHANGED <<nodes, next, status, pc, table, sub, jumpTable, chains, filled, exported>>

Undefined == {n \in Name : symbols[n].kind = "undefined"}

\* BEGIN must be a label if it is anything, and every name must be defined.
CheckSymbols ==
  /\ status = "linking"
  /\ linked = Len(entries)
  /\ \/ Found("BEGIN") /\ symbols[Resolved("BEGIN")].kind # "address" /\ Stop("panic")
     \/ /\ Found("BEGIN") => symbols[Resolved("BEGIN")].kind = "address"
        /\ \/ Undefined # {} /\ Stop("error")
           \/ /\ Undefined = {}
              /\ status' = "filling"
              /\ UNCHANGED <<nodes, next, pc, core, table, sub, jumpTable, chains, linked, filled, exported>>

\* An alias of an alias can be made, and Lookup takes a second step here.
Meant(n) == IF symbols[n].kind = "alias" THEN Resolved(symbols[n].alias) ELSE n
Value(n) == IF symbols[Meant(n)].kind = "address" THEN symbols[Meant(n)].address
            ELSE symbols[Meant(n)].constant
Misplaced(n) == \E r \in symbols[n].refs : r.relative /\ Value(n) - r.at # r.offset

FilledAbsolute(n, r) == Value(n)  \* faulty variant: RL gets the address
Filled(n, r) == IF r.relative THEN Value(n) - r.at ELSE Value(n) + r.offset

Fill ==
  /\ status = "filling"
  /\ \E n \in Name \ filled :
       /\ Defined(n)
       /\ \/ ~Defined(Meant(n)) /\ Stop("error")
          \/ symbols[Meant(n)].kind = "alias" /\ Stop("panic")
          \/ /\ symbols[Meant(n)].kind \in {"address", "constant"}
             /\ \/ Misplaced(n) /\ Stop("error")
                \/ /\ ~Misplaced(n)
                   /\ core' = [a \in DOMAIN core |->
                        IF \E r \in symbols[n].refs : r.at = a
                        THEN [core[a] EXCEPT !.value =
                                Filled(n, CHOOSE r \in symbols[n].refs : r.at = a)]
                        ELSE core[a]]
                   /\ filled' = filled \cup {n}
                   /\ UNCHANGED <<nodes, next, status, pc, table, sub, jumpTable, chains, linked, exported>>

Exported == {n \in Name : Found(n) /\ symbols[Resolved(n)].kind = "address"}

Export ==
  /\ status = "filling"
  /\ \A n \in Name : Defined(n) => n \in filled
  /\ exported' = [n \in Exported |-> symbols[Resolved(n)].address]
  /\ status' = "done"
  /\ UNCHANGED <<nodes, next, pc, core, table, sub, jumpTable, chains, linked, filled>>

Statement ==
  \/ Word \/ DCL \/ MDLABEL \/ SUBR \/ LINKR \/ EQU \/ IDENT \/ REF \/ RL \/ CON
  \/ MOVE \/ STACK \/ GOSUB \/ GOADD \/ GO \/ EXIT \/ HASH \/ THASH

Next == Statement \/ EndOfSource \/ Link \/ CheckSymbols \/ Fill \/ Export

Spec == Init /\ [][Next]_vars
=============================================================================
