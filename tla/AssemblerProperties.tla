------------------------ MODULE AssemblerProperties ------------------------
(***************************************************************************)
(* What the assembler promises: that its one pass and its queues come to   *)
(* what two passes over the program would have come to.                    *)
(***************************************************************************)
EXTENDS Assembler, FiniteSets

TypeOK ==
  /\ status \in {"assembling", "linking", "filling", "done", "error", "panic"}
  /\ next \in 1 .. Len(nodes) + 1
  /\ pc \in Last0 .. MAX_WORDS
  /\ DOMAIN core = 0 .. MAX_WORDS - 1
  /\ \A a \in DOMAIN core : core[a].value \in Int /\ core[a].two \in Nat
  /\ registers \in [Special -> 1 .. pc]
  /\ \A n \in Name : \A r \in symbols[n].refs : r.at \in Last0 .. pc
  /\ linked \in 0 .. Len(entries)
  /\ filled \subseteq Name

(***************************************************************************)
(* When Assemble returns a machine, every word that was ever queued holds  *)
(* the value its symbol ended up with, or the distance to it, in whatever  *)
(* order the symbols were gone through and whatever the program defined    *)
(* twice: no word is in two queues, and nothing is filled over.  (addRef,  *)
(* fill)                                                                   *)
(***************************************************************************)
QueuesAreFilled ==
  status = "done" =>
    \A n \in Name : \A r \in symbols[n].refs :
      /\ (IF r.relative THEN r.at ELSE 0) + core[r.at].value = Value(n)
      /\ r.relative => core[r.at].value = r.offset
-----------------------------------------------------------------------------
(* The reference definition, over the program p alone. *)

Size(s) == IF s.op \in {"MDLABEL", "EQU", "IDENT"} THEN 0 ELSE IF s.op = "THASH" THEN LHV ELSE 1

\* The address of each statement.
Place(p) == LET place[k \in 1 .. Len(p) + 1] ==
                  IF k = 1 THEN Last0 ELSE place[k - 1] + Size(p[k - 1])
            IN place

Defining == {"DCL", "MDLABEL", "SUBR", "LINKR", "EQU", "IDENT"}
Definitions(p, n) == {k \in DOMAIN p : p[k].op \in Defining /\ p[k].name = n}

\* No name is defined twice, and none that the assembler defines itself.
DefinedOnce(p) ==
  \A n \in Name :
    Cardinality(Definitions(p, n)) + (IF n \in DOMAIN Predefined THEN 1 ELSE 0) <= 1

HasMeaning(p, n) == Definitions(p, n) # {} \/ n \in DOMAIN Predefined
Definition(p, n) == CHOOSE k \in Definitions(p, n) : TRUE
Own(p, n) ==
  IF n \in DOMAIN Predefined THEN Predefined[n]
  ELSE IF p[Definition(p, n)].op = "IDENT" THEN p[Definition(p, n)].number
  ELSE Place(p)[Definition(p, n)]
Alias(p, n) == \E k \in Definitions(p, n) : p[k].op = "EQU"
Target(p, n) == p[Definition(p, n)].of
Meaning(p, n) == IF ~Alias(p, n) THEN Own(p, n)
                 ELSE IF ~Alias(p, Target(p, n)) THEN Own(p, Target(p, n))
                 ELSE Own(p, Target(p, Target(p, n)))
IsLabel(p, n) == \E k \in Definitions(p, n) : p[k].op \in Defining \ {"EQU", "IDENT"}

\* The name each statement refers to, "" if it refers to none.
Operand(s) ==
  IF s.op \in {"REF", "RL", "GOADD", "GO"} THEN s.name
  ELSE IF s.op = "GOSUB" /\ s.name \notin MachineDependent THEN s.name
  ELSE IF s.op = "SUBR" /\ s.flag = "PARNM" THEN "PARNM"
  ELSE IF s.op = "LINKR" THEN "LINKPT"
  ELSE ""

\* The subroutine a statement is in.
Within(p, k) == {j \in 1 .. k - 1 : p[j].op = "SUBR"}
Enclosing(p, k) == p[CHOOSE j \in Within(p, k) : \A i \in Within(p, k) : i <= j]
MayStand(p, k) ==
  /\ Within(p, k) # {}
  /\ Enclosing(p, k).name = p[k].name
  /\ p[k].number \in 1 .. Enclosing(p, k).exits

(***************************************************************************)
(* In a program that defines no name twice, every word that refers to a    *)
(* name holds what the name means, wherever in the program it is defined,  *)
(* and the word of an RL holds the distance from itself.  And an EXIT is   *)
(* one that the subroutine around it declares.  (AddReference,             *)
(* InsertAddress, fill; SUBR, EXIT)                                        *)
(***************************************************************************)
ReferencesMeanDefinitions ==
  status = "done" /\ DefinedOnce(nodes) =>
    \A k \in DOMAIN nodes :
      LET n == Operand(nodes[k])
          at == Place(nodes)[k]
      IN /\ n # "" => /\ HasMeaning(nodes, n)
                      /\ (IF nodes[k].op = "RL" THEN at ELSE 0) + core[at].value = Meaning(nodes, n)
         /\ nodes[k].op = "EXIT" => MayStand(nodes, k)

(***************************************************************************)
(* A search that starts at a chain's head and follows the links meets      *)
(* exactly the names that hash to that chain, in the order of the source,  *)
(* and then nought.  (the linking loop; MDFIND and the name search of ML/I *)
(* walk the chains)                                                        *)
(***************************************************************************)
ChainsAreExact ==
  status \in {"filling", "done"} /\ thash # 0 =>
    \A c \in 0 .. LHV - 1 :
      LET chain == {i \in DOMAIN entries : HashName[entries[i].text] = c}
          After(i) == {j \in chain : j > i}
          Leads(a, later) == IF later = {} THEN core[a].value = 0
                             ELSE core[a].value = entries[CHOOSE j \in later : \A k \in later : j <= k].at
      IN /\ Leads(thash + c, chain)
         /\ \A i \in chain : Leads(entries[i].at, After(i))

-----------------------------------------------------------------------------
(* What a program has to be for Assemble to accept it.  A name that EQU or *)
(* IDENT defines must be defined before it is used; a label may be used    *)
(* anywhere.                                                               *)

Before(p, k, n) == n \in DOMAIN Predefined \/ \E j \in Definitions(p, n) : j < k
Uses(s) == {Operand(s)} \ {""}

AcceptableStatement(p, k) ==
  LET s == p[k]
  IN /\ \A n \in Uses(s) : HasMeaning(p, n) /\ (IsLabel(p, n) \/ Before(p, k, n))
     /\ s.op = "EQU" => HasMeaning(p, s.of) /\ ~Alias(p, s.of)
     /\ s.op = "CON" => /\ Before(p, k, s.name)
                        /\ ~IsLabel(p, s.name)
                        /\ Alias(p, s.name) => /\ Before(p, k, Target(p, s.name))
                                               /\ ~IsLabel(p, Target(p, s.name))
     /\ s.op = "MOVE" => \A n \in {"SRCPT", "DSTPT"} : Before(p, k, n) /\ ~Alias(p, n)
     /\ s.op = "STACK" => \A n \in {"FFPT", "LFPT"} : Before(p, k, n) /\ ~Alias(p, n)
     /\ s.op = "EXIT" => MayStand(p, k)
     /\ s.op = "RL" => Meaning(p, s.name) - Place(p)[k] = s.offset
     /\ s.op = "HASH" => \A j \in 1 .. k - 1 : p[j].op = "HASH" => p[j].text # s.text

Acceptable(p) ==
  /\ DefinedOnce(p)
  /\ Place(p)[Len(p) + 1] <= MAX_WORDS
  /\ HasMeaning(p, "BEGIN") => IsLabel(p, "BEGIN")
  /\ \A k \in DOMAIN p : AcceptableStatement(p, k)
  /\ (\E k \in DOMAIN p : p[k].op = "HASH") <=> \E k \in DOMAIN p : p[k].op = "THASH"
  /\ \A j, k \in DOMAIN p : p[j].op = "THASH" /\ p[k].op = "THASH" => j = k

(***************************************************************************)
(* Nothing that a LOWL program may contain is refused, wherever its labels *)
(* and tables stand, and nothing makes the assembler panic.  (Assemble)    *)
(***************************************************************************)
AcceptableAssembles == status \in {"error", "panic"} => ~Acceptable(nodes)
=============================================================================
