-------------------------- MODULE AssemblerProofs --------------------------
(***************************************************************************)
(* Whatever the program is, an assembled machine holds the value of its    *)
(* symbol in every word that was queued for it.                            *)
(*                                                                         *)
(* The argument: a reference is queued at the program counter, which only  *)
(* grows, so no two of them are for the same word; a queue is only ever    *)
(* filled when nothing is queued any more; and filling one queue therefore *)
(* disturbs no other.                                                      *)
(*                                                                         *)
(* That the value is what the program means rests on a second layer of     *)
(* invariants, each proved under the ones before it: the program counter   *)
(* is the address that the reference definition counts (Reading), the      *)
(* queues are those of the statements that have been read (Queued), the    *)
(* table says of each name what its definition says (Known), the entries   *)
(* are those of the source (Tabled) and are on their chains (Chained), and *)
(* an acceptable program gives no step a reason to stop (Accepted).        *)
(*                                                                         *)
(* On top of these, Laid says what every word holds that has been emitted, *)
(* and Sealed that what comes after the last statement changes no word but *)
(* those that refer to a name or belong to the hash table.  With them the  *)
(* whole of core, and the tables beside it, are functions of the program.  *)
(***************************************************************************)
EXTENDS AssemblerProperties, FiniteSetTheorems, TLAPS

Pure == INSTANCE OperatorProofs

Ref == [at : Nat, offset : Int, relative : BOOLEAN]
Kind == {"absent", "undefined", "address", "constant", "alias"}
Symbol == [kind : Kind, address : Nat, constant : Int, alias : Name \cup {""}, refs : SUBSET Ref]

Entry == [at : Nat, text : Text]

TypeInv ==
  /\ symbols \in [Name -> Symbol]
  /\ nodes \in Seq(Node)
  /\ next \in Nat \ {0}
  /\ pc \in Nat /\ pc <= MAX_WORDS
  /\ core \in [0 .. MAX_WORDS - 1 -> [value : Int, two : Nat]]
  /\ jumpTable \in Nat
  /\ entries \in Seq(Entry)
  /\ thash \in Nat /\ linked \in Nat
  /\ filled \subseteq Name

\* No word is queued twice, all of them lie below the limit, and an alias is
\* an alias of something.
Consistent(tbl, limit) ==
  /\ \A n \in Name : tbl[n].kind = "alias" => tbl[n].alias \in Name
  /\ \A n \in Name : tbl[n].kind = "absent" => tbl[n].refs = {}
  /\ \A n \in Name : \A r \in tbl[n].refs : r.at < limit /\ (~r.relative => r.offset = 0)
  /\ \A m, n \in Name : \A q \in tbl[m].refs, r \in tbl[n].refs : q.at = r.at => m = n /\ q = r

\* The statement whose word does not fit has queued it all the same.
Limit == IF status = "panic" THEN pc + 1 ELSE pc

Holds(n, r) ==
  /\ (IF r.relative THEN r.at ELSE 0) + core[r.at].value = Value(n)
  /\ r.relative => core[r.at].value = r.offset

FillInv ==
  /\ status \in {"assembling", "linking"} => filled = {}
  /\ status \in {"filling", "done"} =>
       /\ \A n \in Name : symbols[n].kind # "undefined"
       /\ \A n \in filled : \A r \in symbols[n].refs : Holds(n, r)
  /\ status = "done" => \A n \in Name : Defined(n) => n \in filled

\* The entries and the heads of their chains are words of the program.
Threaded(list, heads, limit) ==
  /\ \A i \in DOMAIN list : list[i].at < limit
  /\ heads # 0 => heads + LHV <= limit

ChainInv ==
  /\ status # "panic" => Threaded(entries, thash, pc)
  /\ status = "linking" /\ entries # << >> => thash # 0

IInv == TypeInv /\ Consistent(symbols, Limit) /\ ChainInv /\ FillInv
-----------------------------------------------------------------------------
(***************************************************************************)
(* Queueing a reference at a word where nothing is queued yet keeps the    *)
(* queues disjoint.  (addRef)                                              *)
(***************************************************************************)
LEMMA ReferringKeeps ==
  ASSUME NEW tbl \in [Name -> Symbol], NEW p \in Nat, Consistent(tbl, p),
         NEW n \in Name, NEW ref \in Ref, ref.at = p, ~ref.relative => ref.offset = 0
  PROVE  /\ Referring(tbl, n, ref) \in [Name -> Symbol]
         /\ Consistent(Referring(tbl, n, ref), p + 1)
<1> DEFINE new == Referring(tbl, n, ref)
<1>1. /\ new \in [Name -> Symbol]
      /\ new[n].refs = tbl[n].refs \cup {ref}
      /\ new[n].kind # "absent"
      /\ new[n].kind = "alias" => tbl[n].kind = "alias" /\ new[n].alias = tbl[n].alias
      /\ \A m \in Name \ {n} : new[m] = tbl[m]
  <2> DEFINE one == [tbl[n] EXCEPT !.refs = @ \cup {ref},
                                   !.kind = IF @ = "absent" THEN "undefined" ELSE @]
  <2>1. tbl[n] \in Symbol
    OBVIOUS
  <2>2. /\ one \in Symbol
        /\ one.refs = tbl[n].refs \cup {ref}
        /\ one.kind # "absent"
        /\ one.kind = "alias" => tbl[n].kind = "alias" /\ one.alias = tbl[n].alias
    BY <2>1 DEF Symbol, Kind
  <2>3. new = [tbl EXCEPT ![n] = one]
    BY Zenon DEF Referring
  <2> HIDE DEF one, new
  <2> QED
    BY <2>2, <2>3
<1> HIDE DEF new
<1>2. \A m \in Name : \A r \in tbl[m].refs : r \in Ref /\ r.at < p /\ (~r.relative => r.offset = 0)
  BY DEF Symbol, Consistent
<1>3. \A m \in Name : \A r \in new[m].refs : r \in tbl[m].refs \/ (m = n /\ r = ref)
  BY <1>1
<1>4. \A m \in Name : \A r \in new[m].refs : r.at < p + 1 /\ (~r.relative => r.offset = 0)
  BY <1>2, <1>3 DEF Ref
<1>5. \A l, m \in Name : \A q \in new[l].refs, r \in new[m].refs : q.at = r.at => l = m /\ q = r
  <2> TAKE l \in Name, m \in Name
  <2> TAKE q \in new[l].refs, r \in new[m].refs
  <2> HAVE q.at = r.at
  <2>1. CASE q \in tbl[l].refs /\ r \in tbl[m].refs
    BY <2>1 DEF Consistent
  <2>2. CASE q \in tbl[l].refs /\ m = n /\ r = ref
    BY <2>2, <1>2 DEF Ref
  <2>3. CASE l = n /\ q = ref /\ r \in tbl[m].refs
    BY <2>3, <1>2 DEF Ref
  <2>4. CASE l = n /\ q = ref /\ m = n /\ r = ref
    BY <2>4
  <2> QED
    BY <1>3, <2>1, <2>2, <2>3, <2>4
<1>6. \A m \in Name : new[m].kind = "absent" => new[m].refs = {}
  BY <1>1 DEF Consistent
<1>7. \A m \in Name : new[m].kind = "alias" => new[m].alias \in Name
  BY <1>1 DEF Consistent
<1>8. Consistent(new, p + 1)
  BY <1>4, <1>5, <1>6, <1>7 DEF Consistent
<1> QED
  BY <1>1, <1>8 DEF new

\* The limit may be raised.
LEMMA ConsistentGrows ==
  ASSUME NEW tbl \in [Name -> Symbol], NEW p \in Nat, NEW q \in Nat, p <= q, Consistent(tbl, p)
  PROVE  Consistent(tbl, q)
<1>1. \A n \in Name : tbl[n].refs \subseteq Ref
  BY DEF Symbol
<1>2. \A n \in Name : \A r \in tbl[n].refs : r.at \in Nat
  BY <1>1 DEF Ref
<1> QED
  BY <1>2 DEF Consistent

\* The limit of the entries may be raised too.
LEMMA ThreadedGrows ==
  ASSUME NEW list \in Seq(Entry), NEW heads \in Nat,
         NEW p \in Nat, NEW q \in Nat, p <= q, Threaded(list, heads, p)
  PROVE  Threaded(list, heads, q)
<1>1. \A i \in DOMAIN list : list[i] \in Entry
  OBVIOUS
<1>2. \A i \in DOMAIN list : list[i].at \in Nat
  BY <1>1 DEF Entry
<1>3. \A i \in DOMAIN list : list[i].at < q
  BY <1>2 DEF Threaded
<1>4. heads # 0 => heads + LHV <= q
  BY AssemblerAssumption DEF Threaded
<1> QED
  BY <1>3, <1>4 DEF Threaded

\* Defining a symbol leaves its queue alone.  (InsertAddress, UpdateAddress,
\* InsertAlias)
LEMMA DefiningKeeps ==
  ASSUME NEW tbl \in [Name -> Symbol], NEW new \in [Name -> Symbol], NEW p \in Nat,
         Consistent(tbl, p),
         \A n \in Name : /\ new[n].refs = tbl[n].refs
                         /\ new[n].kind = "absent" => tbl[n].kind = "absent"
                         /\ new[n].kind = "alias" => new[n].alias \in Name
  PROVE  Consistent(new, p)
BY DEF Consistent
-----------------------------------------------------------------------------
\* What the parser guarantees of the statement at hand.
LEMMA Operands ==
  ASSUME TypeInv, status = "assembling", next <= Len(nodes)
  PROVE  /\ node.op \in {"DCL", "MDLABEL", "LINKR", "REF", "CON", "GOADD", "GO", "EQU", "IDENT",
                          "EXIT", "RL", "SUBR"} => node.name \in Name
         /\ node.op = "GOSUB" => node.name \in Name \cup MachineDependent
         /\ node.op = "EQU" => node.of \in Name
         /\ node.op \in {"IDENT", "EXIT"} => node.number \in Int
         /\ node.op = "RL" => node.offset \in Int
         /\ node.op = "HASH" => node.text \in Text
<1>1. node \in Node
  BY DEF TypeInv, node
<1> QED
  BY <1>1 DEF Node

(***************************************************************************)
(* The three ways in which a statement leaves the machine: a word on, just *)
(* a statement on, or stopped.                                             *)
(***************************************************************************)
\* What a statement has still to say of the tables when it has emitted.
TablesTyped ==
  /\ symbols' \in [Name -> Symbol]
  /\ jumpTable' \in Nat
  /\ entries' \in Seq(Entry)
  /\ thash' \in Nat

\* A word on, or no room for it.  (emit)
LEMMA EmitKeeps ==
  ASSUME IInv, status = "assembling", NEW v \in Int, NEW w \in Nat, Emit(v, w),
         TablesTyped, Consistent(symbols', pc + 1), Threaded(entries', thash', pc + 1)
  PROVE  IInv'
<1>1. CASE Fits(1) /\ Advance /\ pc' = pc + 1
           /\ core' = [core EXCEPT ![pc] = [value |-> v, two |-> w]]
  <2>1. pc + 1 <= MAX_WORDS /\ pc + 1 \in Nat
    BY <1>1 DEF Fits, IInv, TypeInv
  <2>2. core' \in [0 .. MAX_WORDS - 1 -> [value : Int, two : Nat]]
    BY <1>1 DEF IInv, TypeInv
  <2>3. TypeInv'
    BY <1>1, <2>1, <2>2 DEF IInv, TypeInv, TablesTyped, Advance
  <2>4. status' = "assembling" /\ Limit' = pc + 1
    BY <1>1 DEF Advance, Limit
  <2>5. FillInv'
    BY <1>1, <2>4 DEF IInv, FillInv, Advance
  <2>6. ChainInv'
    BY <1>1, <2>4 DEF ChainInv, Threaded
  <2> QED
    BY <2>3, <2>4, <2>5, <2>6 DEF IInv, Consistent
<1>2. CASE Panic
  <2>1. TypeInv'
    BY <1>2 DEF IInv, TypeInv, TablesTyped, Panic
  <2>2. status' = "panic" /\ Limit' = pc + 1
    BY <1>2 DEF Panic, Limit
  <2>3. FillInv' /\ ChainInv'
    BY <2>2 DEF FillInv, ChainInv
  <2> QED
    BY <2>1, <2>2, <2>3 DEF IInv, Consistent
<1> QED
  BY <1>1, <1>2 DEF Emit

\* Just a statement on.
LEMMA SilentKeeps ==
  ASSUME IInv, status = "assembling", Silent, TablesTyped, Consistent(symbols', pc),
         UNCHANGED chains
  PROVE  IInv'
<1>1. TypeInv'
  BY DEF IInv, TypeInv, TablesTyped, Silent, Advance
<1>2. status' = "assembling" /\ Limit' = pc
  BY DEF Silent, Advance, Limit
<1>3. FillInv'
  BY <1>2 DEF IInv, FillInv, Silent, Advance
<1>4. ChainInv'
  BY <1>2 DEF IInv, ChainInv, Threaded, Silent, chains
<1> QED
  BY <1>1, <1>2, <1>3, <1>4 DEF IInv, Consistent

\* Stopped.
LEMMA StopKeeps ==
  ASSUME IInv, status \in {"assembling", "linking", "filling"},
         NEW how \in {"error", "panic"}, Stop(how)
  PROVE  IInv'
<1>1. TypeInv'
  BY DEF IInv, TypeInv, Stop, table, chains
<1>2. Limit = pc /\ Limit' \in {pc, pc + 1}
  BY DEF Stop, Limit
<1>3. Consistent(symbols, Limit')
  BY <1>2, ConsistentGrows DEF IInv, TypeInv
<1>4. FillInv' /\ ChainInv'
  BY DEF IInv, FillInv, ChainInv, Threaded, Stop, chains
<1>5. symbols' = symbols
  BY DEF Stop, table
<1> QED
  BY <1>1, <1>3, <1>4, <1>5 DEF IInv, Consistent
-----------------------------------------------------------------------------
\* A reference queued at the program counter.  (AddReference)
LEMMA AddReferenceKeeps ==
  ASSUME NEW tbl \in [Name -> Symbol], pc \in Nat, Consistent(tbl, pc), NEW n \in Name
  PROVE  /\ AddReference(tbl, n) \in [Name -> Symbol]
         /\ Consistent(AddReference(tbl, n), pc + 1)
<1> DEFINE ref == [at |-> pc, offset |-> 0, relative |-> FALSE]
<1>1. ref \in Ref /\ ref.at = pc /\ ref.offset = 0
  BY DEF Ref
<1> QED
  BY <1>1, ReferringKeeps DEF AddReference

\* A symbol defined anew keeps its queue, and so does one that is replaced
\* before it is used.  (InsertAddress, UpdateAddress, InsertAlias, InsertConstant)
LEMMA NewSymbol ==
  ASSUME NEW s \in Symbol, NEW p \in Nat
  PROVE  /\ LET one == [s EXCEPT !.kind = "address", !.address = p]
            IN  one \in Symbol /\ one.refs = s.refs /\ one.kind = "address"
         /\ LET one == [s EXCEPT !.address = p]
            IN  one \in Symbol /\ one.refs = s.refs /\ one.kind = s.kind /\ one.alias = s.alias
BY Zenon DEF Symbol, Kind

\* So does a symbol that becomes an alias.  (InsertAlias)
LEMMA NewAlias ==
  ASSUME NEW s \in Symbol, NEW m \in Name
  PROVE  LET one == [s EXCEPT !.kind = "alias", !.alias = m]
         IN  one \in Symbol /\ one.refs = s.refs /\ one.kind = "alias" /\ one.alias = m
BY Zenon DEF Symbol, Kind

\* And a constant starts with no queue.  (InsertConstant)
LEMMA ConstantIsSymbol ==
  ASSUME NEW v \in Int
  PROVE  Constant(v) \in Symbol /\ Constant(v).refs = {} /\ Constant(v).kind = "constant"
BY DEF Constant, Symbol, Kind

\* A symbol may be replaced by one with the same queue.
LEMMA ReplacingKeeps ==
  ASSUME NEW tbl \in [Name -> Symbol], NEW p \in Nat, Consistent(tbl, p), NEW n \in Name,
         NEW one \in Symbol, one.refs = tbl[n].refs,
         one.kind = "absent" => tbl[n].kind = "absent",
         one.kind = "alias" => one.alias \in Name
  PROVE  /\ [tbl EXCEPT ![n] = one] \in [Name -> Symbol]
         /\ Consistent([tbl EXCEPT ![n] = one], p)
<1> DEFINE new == [tbl EXCEPT ![n] = one]
<1>1. new \in [Name -> Symbol]
  OBVIOUS
<1>2. \A m \in Name : /\ new[m].refs = tbl[m].refs
                      /\ new[m].kind = "absent" => tbl[m].kind = "absent"
                      /\ new[m].kind = "alias" => new[m].alias \in Name
  BY DEF Consistent
<1> QED
  BY <1>1, <1>2, DefiningKeeps

\* InsertAddress keeps the queues disjoint.
LEMMA WithAddressKeeps ==
  ASSUME symbols \in [Name -> Symbol], pc \in Nat, Consistent(symbols, pc), NEW n \in Name
  PROVE  /\ WithAddress(n) \in [Name -> Symbol]
         /\ Consistent(WithAddress(n), pc)
<1> DEFINE one == [symbols[n] EXCEPT !.kind = "address", !.address = pc]
<1>1. symbols[n] \in Symbol /\ pc \in Nat
  OBVIOUS
<1>2. one \in Symbol /\ one.refs = symbols[n].refs /\ one.kind = "address"
  BY <1>1, NewSymbol, Zenon
<1>3. WithAddress(n) = [symbols EXCEPT ![n] = one]
  BY Zenon DEF WithAddress
<1> HIDE DEF one
<1>4. /\ [symbols EXCEPT ![n] = one] \in [Name -> Symbol]
      /\ Consistent([symbols EXCEPT ![n] = one], pc)
  BY <1>2, ReplacingKeeps
<1> QED
  BY <1>3, <1>4, Zenon

\* So does UpdateAddress.  (SUBR, LINKR)
LEMMA EnteredKeeps ==
  ASSUME symbols \in [Name -> Symbol], pc \in Nat, Consistent(symbols, pc), NEW n \in Name
  PROVE  /\ Entered(n) \in [Name -> Symbol]
         /\ Consistent(Entered(n), pc)
<1> DEFINE one == [symbols[n] EXCEPT !.address = pc]
<1>1. symbols[n] \in Symbol /\ pc \in Nat
  OBVIOUS
<1>2. one \in Symbol /\ one.refs = symbols[n].refs /\ one.kind = symbols[n].kind
      /\ one.alias = symbols[n].alias
  BY <1>1, NewSymbol, Zenon
<1>3. Entered(n) \in {[symbols EXCEPT ![n] = one], WithAddress(n)}
  BY Zenon DEF Entered
<1> HIDE DEF one
<1>4. /\ [symbols EXCEPT ![n] = one] \in [Name -> Symbol]
      /\ Consistent([symbols EXCEPT ![n] = one], pc)
  BY <1>2, ReplacingKeeps DEF Consistent
<1> QED
  BY <1>3, <1>4, WithAddressKeeps, Zenon

\* So does InsertAlias.
LEMMA AliasKeeps ==
  ASSUME symbols \in [Name -> Symbol], pc \in Nat, Consistent(symbols, pc),
         NEW n \in Name, NEW m \in Name
  PROVE  LET new == [symbols EXCEPT ![n] = [@ EXCEPT !.kind = "alias", !.alias = m]]
         IN  new \in [Name -> Symbol] /\ Consistent(new, pc)
<1> DEFINE one == [symbols[n] EXCEPT !.kind = "alias", !.alias = m]
<1>1. symbols[n] \in Symbol /\ pc \in Nat
  OBVIOUS
<1>2. one \in Symbol /\ one.refs = symbols[n].refs /\ one.kind = "alias" /\ one.alias = m
  BY <1>1, NewAlias, Zenon
<1>3. [symbols EXCEPT ![n] = [@ EXCEPT !.kind = "alias", !.alias = m]] = [symbols EXCEPT ![n] = one]
  BY Zenon
<1> HIDE DEF one
<1>4. /\ [symbols EXCEPT ![n] = one] \in [Name -> Symbol]
      /\ Consistent([symbols EXCEPT ![n] = one], pc)
  BY <1>2, ReplacingKeeps
<1> QED
  BY <1>3, <1>4, Zenon

\* So does InsertConstant.
LEMMA ConstantKeeps ==
  ASSUME symbols \in [Name -> Symbol], pc \in Nat, Consistent(symbols, pc),
         NEW n \in Name, symbols[n].kind = "absent", NEW v \in Int
  PROVE  LET new == [symbols EXCEPT ![n] = Constant(v)]
         IN  new \in [Name -> Symbol] /\ Consistent(new, pc)
<1>1. symbols[n].refs = {}
  BY DEF Consistent
<1> QED
  BY <1>1, ConstantIsSymbol, ReplacingKeeps
-----------------------------------------------------------------------------
(***************************************************************************)
(* Every statement keeps the invariant.                                    *)
(***************************************************************************)
LEMMA StatementKeeps ==
  ASSUME IInv, Statement
  PROVE  IInv'
<1>1. status = "assembling" /\ next <= Len(nodes)
  BY DEF Statement, At, Word, DCL, MDLABEL, SUBR, LINKR, EQU, IDENT, REF, RL, CON, MOVE, STACK,
         GOSUB, GOADD, GO, EXIT, HASH, THASH
<1>2. TypeInv /\ symbols \in [Name -> Symbol] /\ pc \in Nat /\ pc + 1 \in Nat /\ jumpTable \in Nat
  BY DEF IInv, TypeInv
<1>3. Consistent(symbols, pc) /\ Threaded(entries, thash, pc)
  BY <1>1 DEF IInv, Limit, ChainInv
<1>4. Consistent(symbols, pc + 1) /\ Threaded(entries, thash, pc + 1)
  <2>1. Consistent(symbols, pc + 1)
    BY <1>2, <1>3, ConsistentGrows
  <2>2. Threaded(entries, thash, pc + 1)
    BY <1>2, <1>3, ThreadedGrows DEF TypeInv
  <2> QED
    BY <2>1, <2>2
<1>5. "PARNM" \in Name /\ "LINKPT" \in Name
  BY AssemblerAssumption DEF Special, Reserved
\* A statement that names nothing new.
<1>6. ASSUME UNCHANGED <<table, chains>>, jumpTable' \in Nat
      PROVE  /\ TablesTyped
             /\ Consistent(symbols', pc + 1)
             /\ Threaded(entries', thash', pc + 1)
  BY <1>2, <1>4, <1>6 DEF TablesTyped, TypeInv, table, chains
\* A statement that refers to n.
<1>7. ASSUME NEW n \in Name, symbols' = AddReference(symbols, n), UNCHANGED chains, jumpTable' \in Nat
      PROVE  /\ TablesTyped
             /\ Consistent(symbols', pc + 1)
             /\ Threaded(entries', thash', pc + 1)
  <2>1. symbols' \in [Name -> Symbol] /\ Consistent(symbols', pc + 1)
    BY <1>2, <1>3, <1>7, AddReferenceKeeps
  <2> QED
    BY <1>2, <1>4, <1>7, <2>1 DEF TablesTyped, TypeInv, chains
\* A statement that defines a name, and may refer to another.
<1>8. ASSUME NEW new \in [Name -> Symbol], Consistent(new, pc), NEW n \in Name,
             symbols' \in {new, AddReference(new, n)}, UNCHANGED <<jumpTable, chains>>
      PROVE  /\ TablesTyped
             /\ Consistent(symbols', pc + 1)
             /\ Threaded(entries', thash', pc + 1)
  <2>1. AddReference(new, n) \in [Name -> Symbol] /\ Consistent(AddReference(new, n), pc + 1)
    BY <1>2, <1>8, AddReferenceKeeps
  <2>2. Consistent(new, pc + 1)
    BY <1>2, <1>8, ConsistentGrows
  <2>3. symbols' \in [Name -> Symbol] /\ Consistent(symbols', pc + 1)
    BY <1>8, <2>1, <2>2
  <2> QED
    BY <1>2, <1>4, <1>8, <2>3 DEF TablesTyped, TypeInv, chains
\* A statement that defines a name and takes no room.
<1>9. ASSUME NEW new \in [Name -> Symbol], Consistent(new, pc), symbols' = new, Silent,
             UNCHANGED <<jumpTable, chains>>
      PROVE  IInv'
  <2>1. TablesTyped
    BY <1>2, <1>9 DEF TablesTyped, TypeInv, chains
  <2> QED
    BY <1>1, <1>9, <2>1, SilentKeeps
<1>10. ASSUME Stop("error") \/ Stop("panic") PROVE IInv'
  BY <1>1, <1>10, StopKeeps
<1>11. CASE Word
  BY <1>1, <1>2, <1>6, <1>11, EmitKeeps DEF Word
<1>12. CASE DCL
  <2>1. node.name \in Name
    BY <1>1, <1>2, <1>12, Operands DEF DCL, At
  <2>2. CASE /\ symbols' = WithAddress(node.name)
             /\ Emit(0, 0)
             /\ UNCHANGED <<sub, jumpTable, chains>>
    <3>1. /\ WithAddress(node.name) \in [Name -> Symbol]
          /\ Consistent(WithAddress(node.name), pc)
      BY <1>2, <1>3, <2>1, WithAddressKeeps
    <3> QED
      BY <1>1, <1>8, <2>1, <2>2, <3>1, EmitKeeps
  <2> QED
    BY <1>10, <1>12, <2>2 DEF DCL
<1>13. CASE MDLABEL
  <2>1. node.name \in Name
    BY <1>1, <1>2, <1>13, Operands DEF MDLABEL, At
  <2>2. CASE /\ symbols' \in {symbols, WithAddress(node.name)}
             /\ Silent
             /\ UNCHANGED <<registers, sub, jumpTable, chains>>
    <3>1. /\ WithAddress(node.name) \in [Name -> Symbol]
          /\ Consistent(WithAddress(node.name), pc)
      BY <1>2, <1>3, <2>1, WithAddressKeeps
    <3> QED
      BY <1>2, <1>3, <1>9, <2>2, <3>1
  <2> QED
    BY <1>10, <1>13, <2>2 DEF MDLABEL
<1>14. CASE SUBR
  <2>1. node.name \in Name
    BY <1>1, <1>2, <1>14, Operands DEF SUBR, At
  <2>2. CASE /\ symbols' \in {Entered(node.name), AddReference(Entered(node.name), "PARNM")}
             /\ Emit(0, 0)
             /\ UNCHANGED <<registers, jumpTable, chains>>
    <3>1. Entered(node.name) \in [Name -> Symbol] /\ Consistent(Entered(node.name), pc)
      BY <1>2, <1>3, <2>1, EnteredKeeps
    <3> QED
      BY <1>1, <1>5, <1>8, <2>2, <3>1, EmitKeeps
  <2> QED
    BY <1>10, <1>14, <2>2 DEF SUBR
<1>15. CASE LINKR
  <2>1. node.name \in Name
    BY <1>1, <1>2, <1>15, Operands DEF LINKR, At
  <2>2. CASE /\ symbols' = AddReference(Entered(node.name), "LINKPT")
             /\ Emit(0, 0)
             /\ UNCHANGED <<registers, sub, jumpTable, chains>>
    <3>1. Entered(node.name) \in [Name -> Symbol] /\ Consistent(Entered(node.name), pc)
      BY <1>2, <1>3, <2>1, EnteredKeeps
    <3> QED
      BY <1>1, <1>5, <1>8, <2>2, <3>1, EmitKeeps
  <2> QED
    BY <1>10, <1>15, <2>2 DEF LINKR
<1>16. CASE EQU
  <2>1. node.name \in Name /\ node.of \in Name
    BY <1>1, <1>2, <1>16, Operands DEF EQU, At
  <2> DEFINE new == [symbols EXCEPT ![node.name] = [@ EXCEPT !.kind = "alias", !.alias = node.of]]
  <2>2. new \in [Name -> Symbol] /\ Consistent(new, pc)
    BY <1>2, <1>3, <2>1, AliasKeeps, Zenon
  <2>3. CASE /\ symbols' \in {symbols, new}
             /\ Silent
             /\ UNCHANGED <<registers, sub, jumpTable, chains>>
    <3> HIDE DEF new
    <3> QED
      BY <1>2, <1>3, <1>9, <2>2, <2>3
  <2> QED
    BY <1>10, <1>16, <2>3, Zenon DEF EQU
<1>17. CASE IDENT
  <2>1. node.name \in Name /\ node.number \in Int
    BY <1>1, <1>2, <1>17, Operands DEF IDENT, At
  <2> DEFINE new == [symbols EXCEPT ![node.name] = Constant(node.number)]
  <2>2. CASE symbols[node.name].kind = "absent" /\ symbols' = new
    <3>1. new \in [Name -> Symbol] /\ Consistent(new, pc)
      BY <1>2, <1>3, <2>1, <2>2, ConstantKeeps, Zenon
    <3> HIDE DEF new
    <3> QED
      BY <1>9, <1>17, <2>2, <3>1 DEF IDENT
  <2>3. CASE symbols' = symbols
    BY <1>2, <1>3, <1>9, <1>17, <2>3 DEF IDENT
  <2> QED
    BY <1>17, <2>2, <2>3, Zenon DEF IDENT
<1>18. CASE REF
  <2>1. node.name \in Name
    BY <1>1, <1>2, <1>18, Operands DEF REF, At
  <2> QED
    BY <1>1, <1>2, <1>7, <1>18, <2>1, EmitKeeps DEF REF
<1>19. CASE RL
  <2>1. node.name \in Name /\ node.offset \in Int
    BY <1>1, <1>2, <1>19, Operands DEF RL, At
  <2> DEFINE ref == [at |-> pc, offset |-> node.offset, relative |-> TRUE]
  <2>2. ref \in Ref /\ ref.at = pc /\ ref.relative
    BY <1>2, <2>1 DEF Ref
  <2>3. symbols' = Referring(symbols, node.name, ref)
    BY <1>19 DEF RL, AddRelativeReference
  <2> HIDE DEF ref
  <2>4. symbols' \in [Name -> Symbol] /\ Consistent(symbols', pc + 1)
    BY <1>2, <1>3, <2>1, <2>2, <2>3, ReferringKeeps
  <2>5. TablesTyped /\ Threaded(entries', thash', pc + 1)
    BY <1>2, <1>4, <1>19, <2>4 DEF RL, TablesTyped, TypeInv, chains
  <2> QED
    BY <1>1, <1>19, <2>4, <2>5, EmitKeeps DEF RL
<1>20. CASE CON
  <2>1. node.name \in Name
    BY <1>1, <1>2, <1>20, Operands DEF CON, At
  <2>2. Resolved(node.name) \in Name
    BY <1>3, <2>1 DEF Resolved, Consistent
  <2>3. symbols[Resolved(node.name)].constant \in Int
    BY <1>2, <2>2 DEF Symbol
  <2>4. CASE Emit(symbols[Resolved(node.name)].constant, 0) /\ UNCHANGED <<table, jumpTable, chains>>
    BY <1>1, <1>2, <1>6, <2>3, <2>4, EmitKeeps
  <2> QED
    BY <1>10, <1>20, <2>4 DEF CON
<1>21. CASE MOVE
  <2> DEFINE from == symbols[Resolved("SRCPT")].address
             to == symbols[Resolved("DSTPT")].address
  <2>1. "SRCPT" \in Name /\ "DSTPT" \in Name
    BY AssemblerAssumption DEF Special, Reserved
  <2>2. Resolved("SRCPT") \in Name /\ Resolved("DSTPT") \in Name
    BY <1>3, <2>1 DEF Resolved, Consistent
  <2>3. from \in Nat /\ to \in Nat
    BY <1>2, <2>2 DEF Symbol
  <2>4. CASE Emit(from, to) /\ UNCHANGED <<table, jumpTable, chains>>
    BY <1>1, <1>2, <1>6, <2>3, <2>4, EmitKeeps
  <2> QED
    BY <1>10, <1>21, <2>4 DEF MOVE
<1>22. CASE STACK
  <2>1. CASE Emit(0, 0) /\ UNCHANGED <<table, jumpTable, chains>>
    BY <1>1, <1>2, <1>6, <2>1, EmitKeeps
  <2> QED
    BY <1>10, <1>22, <2>1 DEF STACK
<1>23. CASE GOSUB
  <2>1. CASE node.name \in MachineDependent
    BY <1>1, <1>6, <1>23, <2>1, EmitKeeps DEF GOSUB, table
  <2>2. CASE node.name \notin MachineDependent
    <3>1. node.name \in Name
      BY <1>1, <1>2, <1>23, <2>2, Operands DEF GOSUB, At
    <3> QED
      BY <1>1, <1>7, <1>23, <2>2, <3>1, EmitKeeps DEF GOSUB
  <2> QED
    BY <2>1, <2>2
<1>24. CASE GOADD
  <2>1. node.name \in Name
    BY <1>1, <1>2, <1>24, Operands DEF GOADD, At
  <2> QED
    BY <1>1, <1>7, <1>24, <2>1, EmitKeeps DEF GOADD
<1>25. CASE GO
  <2>1. node.name \in Name
    BY <1>1, <1>2, <1>25, Operands DEF GO, At
  <2>2. PICK way \in Nat : Emit(0, way) /\ jumpTable' \in Nat
    BY <1>2, <1>25 DEF GO, ExitNumber
  <2> QED
    BY <1>1, <1>7, <1>25, <2>1, <2>2, EmitKeeps DEF GO
<1>26. CASE EXIT
  <2>1. node.number \in Int
    BY <1>1, <1>2, <1>26, Operands DEF EXIT, At
  <2>2. CASE Emit(node.number, 0) /\ UNCHANGED <<table, jumpTable, chains>>
    BY <1>1, <1>2, <1>6, <2>1, <2>2, EmitKeeps
  <2> QED
    BY <1>10, <1>26, <2>2 DEF EXIT
<1>27. CASE HASH
  <2> DEFINE entry == [at |-> pc, text |-> node.text]
  <2>1. entry \in Entry /\ entry.at = pc
    BY <1>1, <1>2, <1>27, Operands DEF HASH, At, Entry
  <2>2. entries' = Append(entries, entry) /\ thash' = thash
    BY <1>27 DEF HASH
  <2> HIDE DEF entry
  <2>3. Threaded(entries', thash', pc + 1)
    <3>1. \A i \in DOMAIN entries' : entries'[i].at < pc + 1
      BY <1>2, <1>4, <2>1, <2>2 DEF Threaded, TypeInv
    <3> QED
      BY <1>4, <2>2, <3>1 DEF Threaded
  <2>4. TablesTyped /\ Consistent(symbols', pc + 1)
    BY <1>2, <1>4, <1>27, <2>1, <2>2 DEF HASH, TablesTyped, TypeInv, table
  <2> QED
    BY <1>1, <1>27, <2>3, <2>4, EmitKeeps DEF HASH
<1>28. CASE THASH
  <2>1. LHV \in Nat \ {0}
    BY AssemblerAssumption
  <2>2. CASE /\ thash' = pc
             /\ \/ Fits(LHV) /\ pc' = pc + LHV /\ Advance /\ UNCHANGED core
                \/ ~Fits(LHV) /\ Panic
             /\ UNCHANGED <<table, sub, jumpTable, entries>>
    <3>1. CASE Fits(LHV) /\ pc' = pc + LHV /\ Advance /\ UNCHANGED core
      <4>1. pc' \in Nat /\ pc <= pc' /\ pc' <= MAX_WORDS
        BY <1>2, <2>1, <3>1 DEF Fits
      <4>2. TypeInv'
        BY <1>2, <2>2, <3>1, <4>1 DEF TypeInv, Advance, table
      <4>3. status' = "assembling" /\ Limit' = pc'
        BY <1>1, <3>1 DEF Advance, Limit
      <4>4. Consistent(symbols, pc') /\ symbols' = symbols
        BY <1>2, <1>3, <2>2, <4>1, ConsistentGrows DEF table
      <4>5. ChainInv'
        <5>1. Threaded(entries, thash, pc')
          BY <1>2, <1>3, <4>1, ThreadedGrows DEF TypeInv
        <5>2. Threaded(entries, thash', pc')
          BY <1>2, <2>1, <2>2, <3>1, <5>1 DEF Threaded
        <5> QED
          BY <2>2, <4>3, <5>2 DEF ChainInv
      <4>6. FillInv'
        BY <1>1, <3>1, <4>3 DEF IInv, FillInv, Advance
      <4> QED
        BY <4>2, <4>3, <4>4, <4>5, <4>6 DEF IInv, Consistent
    <3>2. CASE Panic
      <4>1. status' = "panic" /\ Limit' = pc + 1
        BY <3>2 DEF Panic, Limit
      <4>2. TypeInv'
        BY <1>2, <2>2, <3>2 DEF TypeInv, Panic, table
      <4>3. ChainInv' /\ FillInv'
        BY <4>1 DEF ChainInv, FillInv
      <4>4. symbols' = symbols
        BY <2>2 DEF table
      <4> QED
        BY <1>4, <4>1, <4>2, <4>3, <4>4 DEF IInv, Consistent
    <3> QED
      BY <2>2, <3>1, <3>2
  <2> QED
    BY <1>10, <1>28, <2>2 DEF THASH
<1> QED
  BY <1>11, <1>12, <1>13, <1>14, <1>15, <1>16, <1>17, <1>18, <1>19, <1>20, <1>21, <1>22, <1>23,
     <1>24, <1>25, <1>26, <1>27, <1>28 DEF Statement
-----------------------------------------------------------------------------
(***************************************************************************)
(* And so does every step after the last statement.                        *)
(***************************************************************************)
LEMMA EndOfSourceKeeps ==
  ASSUME IInv, EndOfSource
  PROVE  IInv'
<1>1. CASE Stop("error")
  BY <1>1, StopKeeps DEF EndOfSource
<1>2. CASE /\ entries = << >> <=> thash = 0
           /\ status' = "linking"
           /\ UNCHANGED <<nodes, next, pc, core, table, sub, jumpTable, chains, linked, filled, exported>>
  <2>1. TypeInv'
    BY <1>2 DEF IInv, TypeInv, table, chains
  <2>2. Consistent(symbols', Limit')
    BY <1>2 DEF IInv, Limit, table, EndOfSource
  <2>3. ChainInv'
    BY <1>2 DEF IInv, ChainInv, Threaded, chains, EndOfSource
  <2>4. FillInv'
    BY <1>2 DEF IInv, FillInv, EndOfSource
  <2> QED
    BY <2>1, <2>2, <2>3, <2>4 DEF IInv, Consistent
<1> QED
  BY <1>1, <1>2 DEF EndOfSource

\* The words that linking writes are words of the program.  (the linking loop)
LEMMA LinkKeeps ==
  ASSUME IInv, Link
  PROVE  IInv'
<1>1. LHV \in Nat \ {0} /\ MAX_WORDS \in Nat /\ HashName \in [Text -> 0 .. LHV - 1]
  BY AssemblerAssumption
<1>2. /\ pc \in Nat /\ pc <= MAX_WORDS
      /\ core \in [0 .. MAX_WORDS - 1 -> [value : Int, two : Nat]]
      /\ entries \in Seq(Entry) /\ linked \in Nat /\ thash \in Nat
  BY DEF IInv, TypeInv
<1>3. status = "linking" /\ linked < Len(entries)
  BY DEF Link
<1>4. Len(entries) - linked \in DOMAIN entries
  BY <1>2, <1>3
<1>5. LinkedNext \in Entry /\ LinkedNext.at < pc
  <2>1. LinkedNext = entries[Len(entries) - linked]
    BY DEF LinkedNext
  <2>2. \A i \in DOMAIN entries : entries[i] \in Entry
    BY <1>2
  <2>3. \A i \in DOMAIN entries : entries[i].at < pc
    BY <1>3 DEF IInv, ChainInv, Threaded
  <2> QED
    BY <1>4, <2>1, <2>2, <2>3
<1>6. thash # 0 /\ thash + LHV <= pc
  BY <1>1, <1>2, <1>3, <1>4 DEF IInv, ChainInv, Threaded
<1> DEFINE a == LinkedNext.at
           h == ChainHead(LinkedNext.text)
<1>7. a \in 0 .. MAX_WORDS - 1
  BY <1>1, <1>2, <1>5 DEF Entry
<1>8. h \in 0 .. MAX_WORDS - 1
  <2>1. HashName[LinkedNext.text] \in 0 .. LHV - 1
    BY <1>1, <1>5 DEF Entry
  <2>2. \A c \in 0 .. LHV - 1 : thash + c \in 0 .. MAX_WORDS - 1
    BY <1>1, <1>2, <1>6
  <2>3. h = thash + HashName[LinkedNext.text]
    BY DEF ChainHead
  <2> QED
    BY <2>1, <2>2, <2>3, Zenon
<1>9. core' = [core EXCEPT ![a].value = core[h].value, ![h].value = a]
  BY DEF Link
<1> HIDE DEF a, h
<1>10. core' \in [0 .. MAX_WORDS - 1 -> [value : Int, two : Nat]]
  <2> DEFINE first == [core EXCEPT ![a].value = core[h].value]
  <2>1. core[h].value \in Int /\ a \in Int
    BY <1>2, <1>7, <1>8
  <2>2. first \in [0 .. MAX_WORDS - 1 -> [value : Int, two : Nat]]
    BY <1>2, <2>1
  <2>3. core' = [first EXCEPT ![h].value = a]
    BY <1>9
  <2> HIDE DEF first
  <2> QED
    BY <2>1, <2>2, <2>3
<1>11. TypeInv'
  <2>1. /\ UNCHANGED <<nodes, next, pc, symbols, jumpTable, entries, thash, filled>>
        /\ linked' = linked + 1
    BY DEF Link, table, chains
  <2> QED
    BY <1>10, <2>1 DEF IInv, TypeInv
<1>12. Consistent(symbols', Limit') /\ ChainInv' /\ FillInv'
  BY DEF IInv, Limit, Consistent, ChainInv, Threaded, FillInv, Link, table, chains
<1> QED
  BY <1>11, <1>12 DEF IInv, Consistent

\* No name is undefined any more when the queues are filled.
LEMMA CheckSymbolsKeeps ==
  ASSUME IInv, CheckSymbols
  PROVE  IInv'
<1>1. CASE Stop("error") \/ Stop("panic")
  BY <1>1, StopKeeps DEF CheckSymbols
<1>2. CASE /\ Undefined = {}
           /\ status' = "filling"
           /\ UNCHANGED <<nodes, next, pc, core, table, sub, jumpTable, chains, linked, filled, exported>>
  <2>1. TypeInv'
    BY <1>2 DEF IInv, TypeInv, table, chains
  <2>2. Consistent(symbols', Limit')
    BY <1>2 DEF IInv, Limit, table, CheckSymbols
  <2>3. ChainInv'
    BY <1>2 DEF IInv, ChainInv, Threaded, chains, CheckSymbols
  <2>4. FillInv'
    BY <1>2 DEF IInv, FillInv, CheckSymbols, Undefined, table
  <2> QED
    BY <2>1, <2>2, <2>3, <2>4 DEF IInv, Consistent
<1> QED
  BY <1>1, <1>2 DEF CheckSymbols

\* What a name means is one of the integers of the table.
LEMMA ValueIsInt ==
  ASSUME IInv, NEW n \in Name, symbols[Meant(n)].kind # "alias"
  PROVE  Value(n) \in Int
<1>1. symbols \in [Name -> Symbol]
  BY DEF IInv, TypeInv
<1>2. \A m \in Name : symbols[m].kind = "alias" => symbols[m].alias \in Name
  BY DEF IInv, Consistent
<1>3. Meant(n) \in Name
  BY <1>2 DEF Meant, Resolved
<1>4. symbols[Meant(n)] \in Symbol
  BY <1>1, <1>3
<1>5. symbols[Meant(n)].address \in Nat /\ symbols[Meant(n)].constant \in Int
  BY <1>4 DEF Symbol
<1> QED
  BY <1>5 DEF Value

(***************************************************************************)
(* Filling the queue of n writes what n means into its words, and into no  *)
(* word of another queue.                                                  *)
(***************************************************************************)
LEMMA FillKeeps ==
  ASSUME IInv, Fill
  PROVE  IInv'
<1>1. CASE Stop("error") \/ Stop("panic")
  BY <1>1, StopKeeps DEF Fill
<1>2. ASSUME NEW n \in Name \ filled,
             symbols[Meant(n)].kind \in {"address", "constant"},
             ~Misplaced(n),
             core' = [a \in DOMAIN core |->
                        IF \E r \in symbols[n].refs : r.at = a
                        THEN [core[a] EXCEPT !.value =
                                Filled(n, CHOOSE r \in symbols[n].refs : r.at = a)]
                        ELSE core[a]],
             filled' = filled \cup {n},
             UNCHANGED <<nodes, next, status, pc, table, sub, jumpTable, chains, linked, exported>>
      PROVE  IInv'
  <2>1. /\ pc \in Nat /\ pc <= MAX_WORDS /\ MAX_WORDS \in Nat
        /\ core \in [0 .. MAX_WORDS - 1 -> [value : Int, two : Nat]]
        /\ symbols \in [Name -> Symbol]
        /\ status = "filling"
    BY AssemblerAssumption DEF IInv, TypeInv, Fill
  <2>2. Value(n) \in Int
    BY <1>2, ValueIsInt
  <2>3. \A m \in Name : \A r \in symbols[m].refs : r \in Ref
    BY <2>1 DEF Symbol
  <2>4. \A m \in Name : \A r \in symbols[m].refs :
          r.at \in 0 .. MAX_WORDS - 1 /\ (~r.relative => r.offset = 0)
    BY <2>1, <2>3 DEF IInv, Consistent, Limit, Ref
  <2>5. \A l, m \in Name : \A q \in symbols[l].refs, r \in symbols[m].refs : q.at = r.at => l = m /\ q = r
    BY DEF IInv, Consistent
  <2>6. \A r \in symbols[n].refs : Filled(n, r) \in Int
    BY <2>2, <2>3 DEF Filled, Ref
  \* A word that is queued for n holds what n means.
  <2>7. \A r \in symbols[n].refs : core'[r.at].value = Filled(n, r)
    <3> TAKE r \in symbols[n].refs
    <3>1. (CHOOSE q \in symbols[n].refs : q.at = r.at) = r
      BY <2>5
    <3>2. core'[r.at] = [core[r.at] EXCEPT !.value = Filled(n, r)]
      BY <1>2, <2>1, <2>4, <3>1, Zenon
    <3>3. core[r.at] \in [value : Int, two : Nat]
      BY <2>1, <2>4
    <3> QED
      BY <3>2, <3>3
  \* A word that is queued for another name holds what it held.
  <2>8. \A m \in Name \ {n} : \A r \in symbols[m].refs : core'[r.at] = core[r.at]
    <3> TAKE m \in Name \ {n}
    <3> TAKE r \in symbols[m].refs
    <3>1. ~\E q \in symbols[n].refs : q.at = r.at
      BY <2>5
    <3> QED
      BY <1>2, <2>1, <2>4, <3>1, Zenon
  <2>9. core' \in [0 .. MAX_WORDS - 1 -> [value : Int, two : Nat]]
    <3>1. ASSUME NEW a \in 0 .. MAX_WORDS - 1
          PROVE  core'[a] \in [value : Int, two : Nat]
      <4>1. core[a] \in [value : Int, two : Nat]
        BY <2>1
      <4>2. CASE \E r \in symbols[n].refs : r.at = a
        <5>1. PICK r \in symbols[n].refs : r.at = a
          BY <4>2
        <5>2. core'[a] = [core[a] EXCEPT !.value = Filled(n, CHOOSE q \in symbols[n].refs : q.at = a)]
          BY <1>2, <2>1, <4>2, Zenon
        <5>3. (CHOOSE q \in symbols[n].refs : q.at = a) \in symbols[n].refs
          BY <5>1
        <5> DEFINE v == Filled(n, CHOOSE q \in symbols[n].refs : q.at = a)
        <5>4. v \in Int
          BY <2>6, <5>3
        <5> HIDE DEF v
        <5> QED
          BY <4>1, <5>2, <5>4 DEF v
      <4>3. CASE ~\E r \in symbols[n].refs : r.at = a
        BY <1>2, <2>1, <4>1, <4>3, Zenon
      <4> QED
        BY <4>2, <4>3
    <3>2. core' = [a \in 0 .. MAX_WORDS - 1 |-> core'[a]]
      BY <1>2, <2>1, Zenon
    <3> QED
      BY <3>1, <3>2
  <2>10. TypeInv'
    BY <1>2, <2>9 DEF IInv, TypeInv, table, chains
  <2>11. symbols' = symbols /\ pc' = pc /\ status' = status /\ Limit' = Limit
    BY <1>2 DEF table, Limit
  <2>12. \A m \in Name : Value(m)' = Value(m)
    BY <2>11 DEF Value, Meant, Resolved
  <2>13. ASSUME NEW m \in filled', NEW r \in symbols[m].refs
         PROVE  Holds(m, r)'
    <3>1. m \in Name /\ Value(m)' = Value(m)
      BY <1>2, <2>12 DEF IInv, TypeInv
    <3>2. CASE m = n
      <4>1. r.relative => Value(n) - r.at = r.offset
        BY <1>2, <3>2 DEF Misplaced
      <4>2. core'[r.at].value = Filled(n, r) /\ r.at \in Int /\ (~r.relative => r.offset = 0)
        BY <2>4, <2>7, <3>1, <3>2
      <4> QED
        BY <2>2, <3>1, <3>2, <4>1, <4>2 DEF Holds, Filled
    <3>3. CASE m \in filled /\ m # n
      <4>1. Holds(m, r)
        BY <2>1, <3>3 DEF IInv, FillInv
      <4>2. core'[r.at] = core[r.at]
        BY <2>8, <3>1, <3>3
      <4> QED
        BY <3>1, <4>1, <4>2 DEF Holds
    <3> QED
      BY <1>2, <3>2, <3>3
  <2>14. FillInv'
    BY <2>1, <2>11, <2>13 DEF IInv, FillInv
  <2>15. ChainInv'
    BY <1>2 DEF IInv, ChainInv, Threaded, chains
  <2> QED
    BY <2>10, <2>11, <2>14, <2>15 DEF IInv, Consistent
<1> QED
  BY <1>1, <1>2, Zenon DEF Fill

\* What is returned is what was filled.
LEMMA ExportKeeps ==
  ASSUME IInv, Export
  PROVE  IInv'
<1>1. TypeInv'
  BY DEF IInv, TypeInv, Export, table, chains
<1>2. symbols' = symbols /\ Limit' = Limit
  BY DEF Export, table, Limit
<1>3. ChainInv'
  BY DEF IInv, ChainInv, Threaded, Export, chains
<1>4. \A n \in filled : \A r \in symbols[n].refs : Holds(n, r)'
  <2>1. \A n \in filled : \A r \in symbols[n].refs : Holds(n, r)
    BY DEF IInv, FillInv, Export
  <2>2. core' = core
    BY DEF Export
  <2> QED
    BY <1>2, <2>1, <2>2 DEF Holds, Value, Meant, Resolved
<1>5. FillInv'
  <2>1. status' = "done" /\ filled' = filled
    BY DEF Export
  <2>2. \A n \in Name : symbols[n].kind # "undefined"
    BY DEF IInv, FillInv, Export
  <2>3. \A n \in Name : Defined(n) => n \in filled
    BY DEF Export
  <2>4. status' \notin {"assembling", "linking"}
    BY <2>1
  <2> QED
    BY <1>2, <1>4, <2>1, <2>2, <2>3, <2>4, Zenon DEF FillInv, Defined
<1> QED
  BY <1>1, <1>2, <1>3, <1>5 DEF IInv, Consistent

\* Nothing happens.
LEMMA NothingKeeps ==
  ASSUME IInv, UNCHANGED vars
  PROVE  IInv'
<1>1. TypeInv'
  BY DEF IInv, TypeInv, vars, table, chains
<1>2. symbols' = symbols /\ Limit' = Limit
  BY DEF Limit, vars, table
<1>3. ChainInv'
  BY DEF IInv, ChainInv, Threaded, vars, chains
<1>4. \A n \in Name : \A r \in symbols[n].refs : Holds(n, r)' <=> Holds(n, r)
  BY DEF Holds, Value, Meant, Resolved, vars, table
<1>5. FillInv'
  <2>1. status' = status /\ filled' = filled /\ symbols' = symbols /\ filled \subseteq Name
    BY DEF vars, table, IInv, TypeInv
  <2> QED
    BY <1>4, <2>1 DEF IInv, FillInv, Defined
<1> QED
  BY <1>1, <1>2, <1>3, <1>5 DEF IInv, Consistent

\* The symbol table starts with its constants, and with no queue.
LEMMA InitHolds ==
  ASSUME Init
  PROVE  IInv
<1>1. Last0 \in Nat /\ MAX_WORDS \in Nat /\ Last0 <= MAX_WORDS
  BY AssemblerAssumption DEF Last0, Reserved, MaxNumberText
<1>2. Absent \in Symbol /\ Absent.refs = {} /\ Absent.kind = "absent"
  BY DEF Absent, Symbol, Kind
<1>3. ASSUME NEW n \in Name
      PROVE  symbols[n] \in Symbol /\ symbols[n].refs = {} /\ symbols[n].kind # "alias"
  <2>1. CASE n \in DOMAIN Predefined
    <3>1. symbols[n] = Constant(Predefined[n])
      BY <2>1 DEF Init
    <3>2. Predefined[n] \in Int
      BY <2>1, AssemblerAssumption
    <3> QED
      BY <3>1, <3>2, ConstantIsSymbol
  <2>2. CASE n \notin DOMAIN Predefined
    BY <1>2, <2>2 DEF Init
  <2> QED
    BY <2>1, <2>2
<1>4. symbols \in [Name -> Symbol]
  <2>1. symbols = [n \in Name |-> symbols[n]]
    BY DEF Init
  <2> QED
    BY <1>3, <2>1
<1>5. core \in [0 .. MAX_WORDS - 1 -> [value : Int, two : Nat]]
  <2> DEFINE zero == [value |-> 0, two |-> 0]
  <2>1. zero \in [value : Int, two : Nat]
    OBVIOUS
  <2>2. core = [a \in 0 .. MAX_WORDS - 1 |-> zero]
    BY DEF Init
  <2> HIDE DEF zero
  <2> QED
    BY <2>1, <2>2
<1>6. nodes \in Seq(Node)
  BY AssemblerAssumption DEF Init
<1>7. TypeInv
  <2>1. /\ next = 1 /\ pc = Last0 /\ jumpTable = 0 /\ entries = << >> /\ thash = 0
        /\ linked = 0 /\ filled = {}
    BY DEF Init
  <2>2. << >> \in Seq(Entry)
    OBVIOUS
  <2> QED
    BY <1>1, <1>4, <1>5, <1>6, <2>1, <2>2 DEF TypeInv
<1>8. Consistent(symbols, Limit)
  <2>1. \A n \in Name : symbols[n].refs = {} /\ symbols[n].kind # "alias"
    BY <1>3
  <2> QED
    BY <2>1 DEF Consistent
<1>9. ChainInv /\ FillInv
  <2>1. status = "assembling" /\ entries = << >> /\ thash = 0 /\ filled = {}
    BY DEF Init
  <2>2. DOMAIN entries = {}
    BY <2>1
  <2> QED
    BY <2>1, <2>2 DEF ChainInv, Threaded, FillInv
<1> QED
  BY <1>7, <1>8, <1>9 DEF IInv
-----------------------------------------------------------------------------
(***************************************************************************)
(* The invariant holds of every assembly of every program.                 *)
(***************************************************************************)
THEOREM Inductive == Spec => []IInv
<1>1. Init => IInv
  BY InitHolds
<1>2. IInv /\ [Next]_vars => IInv'
  <2> SUFFICES ASSUME IInv, [Next]_vars
               PROVE  IInv'
    OBVIOUS
  <2> QED
    BY StatementKeeps, EndOfSourceKeeps, LinkKeeps, CheckSymbolsKeeps, FillKeeps, ExportKeeps,
       NothingKeeps DEF Next
<1> QED
  BY <1>1, <1>2, PTL DEF Spec

(***************************************************************************)
(* When Assemble returns a machine, every word that was ever queued holds  *)
(* the value its symbol ended up with, or the distance to it, whatever the *)
(* program is and in whatever order the symbols are gone through.          *)
(***************************************************************************)
THEOREM QueuesFilled == Spec => []QueuesAreFilled
<1>1. IInv => QueuesAreFilled
  <2> SUFFICES ASSUME IInv, status = "done", NEW n \in Name, NEW r \in symbols[n].refs
               PROVE  Holds(n, r)
    BY DEF QueuesAreFilled, Holds
  <2>1. symbols[n].kind # "absent" /\ symbols[n].kind # "undefined"
    BY DEF IInv, Consistent, FillInv
  <2>2. n \in filled
    BY <2>1 DEF IInv, FillInv, Defined
  <2> QED
    BY <2>2 DEF IInv, FillInv
<1> QED
  BY <1>1, Inductive, PTL
-----------------------------------------------------------------------------
(***************************************************************************)
(* What a statement leaves behind when the next one is gone on to: the     *)
(* layout of core, the place in the program, and the tables beside the     *)
(* symbols.                                                                *)
(***************************************************************************)
Layout ==
  /\ next' = next + 1 /\ next <= Len(nodes)
  /\ pc' = pc + Size(node)
  /\ DOMAIN core' = DOMAIN core /\ \A a \in DOMAIN core : a # pc => core'[a] = core[a]
  /\ pc \in DOMAIN core => core'[pc] = core[pc] \/ pc' = pc + 1
  /\ node.op = "HASH" => pc' = pc + 1 /\ entries' = Append(entries, [at |-> pc, text |-> node.text])
  /\ node.op # "HASH" => entries' = entries
  /\ node.op = "THASH" => thash = 0 /\ thash' = pc /\ core' = core
  /\ node.op # "THASH" => thash' = thash
  /\ node.op = "SUBR" => sub' = [name |-> node.name, exits |-> node.exits]
  /\ node.op # "SUBR" => sub' = sub
  /\ node.op = "EXIT" => MayExit

\* A word that is emitted is one on, and the others stay.
LEMMA EmitLays ==
  ASSUME TypeInv, NEW v, NEW w, Emit(v, w), status' = "assembling"
  PROVE  /\ next' = next + 1 /\ pc' = pc + 1
         /\ DOMAIN core' = DOMAIN core /\ \A a \in DOMAIN core : a # pc => core'[a] = core[a]
BY DEF Emit, Panic, Advance, TypeInv

\* Every statement lays out core this way.
LEMMA StatementLays ==
  ASSUME TypeInv, Statement, status' = "assembling"
  PROVE  Layout
<1>1. status = "assembling" /\ next <= Len(nodes)
  BY DEF Statement, At, Word, DCL, MDLABEL, SUBR, LINKR, EQU, IDENT, REF, RL, CON, MOVE, STACK,
         GOSUB, GOADD, GO, EXIT, HASH, THASH
<1>2. ASSUME NEW v, NEW w, Emit(v, w), UNCHANGED <<sub, chains>>,
             node.op \notin {"MDLABEL", "EQU", "IDENT", "THASH", "HASH", "SUBR", "EXIT"}
      PROVE  Layout
  BY <1>1, <1>2, EmitLays DEF Layout, Size, chains
<1>3. ASSUME Silent, UNCHANGED <<sub, chains>>, node.op \in {"MDLABEL", "EQU", "IDENT"}
      PROVE  Layout
  BY <1>1, <1>3 DEF Layout, Size, chains, Silent, Advance, TypeInv
<1>4. ASSUME NEW how \in {"error", "panic"}, Stop(how)
      PROVE  FALSE
  BY <1>4 DEF Stop
<1>5. CASE Word \/ DCL \/ LINKR \/ REF \/ RL
  <2>1. node.op \in {"WORD", "DCL", "LINKR", "REF", "RL"}
    BY <1>5 DEF Word, DCL, LINKR, REF, RL, At
  <2>2. Emit(0, 0) /\ UNCHANGED <<sub, chains>>
    BY <1>4, <1>5, Zenon DEF Word, DCL, LINKR, REF, RL
  <2> QED
    BY <1>2, <2>1, <2>2
<1>6. CASE CON \/ MOVE \/ STACK
  <2>1. node.op \in {"CON", "MOVE", "STACK"}
    BY <1>6 DEF CON, MOVE, STACK, At
  <2>2. (\E v, w : Emit(v, w)) /\ UNCHANGED <<sub, chains>>
    BY <1>4, <1>6, Zenon DEF CON, MOVE, STACK
  <2> QED
    BY <1>2, <2>1, <2>2
<1>7. CASE GOSUB \/ GOADD \/ GO
  <2>1. node.op \in {"GOSUB", "GOADD", "GO"}
    BY <1>7 DEF GOSUB, GOADD, GO, At
  <2>2. (\E v, w : Emit(v, w)) /\ UNCHANGED <<sub, chains>>
    BY <1>7, Zenon DEF GOSUB, GOADD, GO
  <2> QED
    BY <1>2, <2>1, <2>2
<1>8. CASE MDLABEL \/ EQU \/ IDENT
  <2>1. node.op \in {"MDLABEL", "EQU", "IDENT"}
    BY <1>8 DEF MDLABEL, EQU, IDENT, At
  <2>2. Silent /\ UNCHANGED <<sub, chains>>
    BY <1>4, <1>8, Zenon DEF MDLABEL, EQU, IDENT
  <2> QED
    BY <1>3, <2>1, <2>2
<1>9. CASE SUBR
  <2>1. node.op = "SUBR"
    BY <1>9 DEF SUBR, At
  <2>2. /\ Emit(0, 0) /\ UNCHANGED chains
        /\ sub' = [name |-> node.name, exits |-> node.exits]
    BY <1>4, <1>9, Zenon DEF SUBR
  <2> QED
    BY <1>1, <2>1, <2>2, EmitLays DEF Layout, Size, chains
<1>10. CASE EXIT
  <2>1. node.op = "EXIT"
    BY <1>10 DEF EXIT, At
  <2>2. Emit(node.number, 0) /\ MayExit /\ UNCHANGED <<sub, chains>>
    BY <1>4, <1>10, Zenon DEF EXIT
  <2> QED
    BY <1>1, <2>1, <2>2, EmitLays DEF Layout, Size, chains
<1>11. CASE HASH
  <2>1. node.op = "HASH" /\ Emit(0, 0)
    BY <1>11 DEF HASH, At
  <2> QED
    BY <1>1, <1>11, <2>1, EmitLays DEF Layout, Size, HASH
<1>12. CASE THASH
  <2>1. node.op = "THASH" /\ status' # "panic"
    BY <1>12 DEF THASH, At
  <2>2. thash = 0 /\ thash' = pc /\ pc' = pc + LHV /\ Advance /\ core' = core
        /\ UNCHANGED <<sub, entries>>
    BY <1>4, <1>12, <2>1, Zenon DEF THASH, Panic
  <2> QED
    BY <1>1, <2>1, <2>2 DEF Layout, Size, Advance
<1> QED
  BY <1>5, <1>6, <1>7, <1>8, <1>9, <1>10, <1>11, <1>12 DEF Statement
-----------------------------------------------------------------------------
(***************************************************************************)
(* What a statement does to the symbols: it queues a word for the name it  *)
(* refers to, and settles the name it defines, if nothing has settled that *)
(* name before.                                                            *)
(***************************************************************************)
IsReference(ref, at, s) ==
  /\ ref.at = at
  /\ ref.relative <=> s.op = "RL"
  /\ s.op = "RL" => ref.offset = s.offset

Queues ==
  /\ Operand(node) # "" =>
       /\ Operand(node) \in Name
       /\ \E ref : /\ IsReference(ref, pc, node)
                   /\ symbols'[Operand(node)].refs = symbols[Operand(node)].refs \cup {ref}
  /\ \A n \in Name \ {Operand(node)} : symbols'[n].refs = symbols[n].refs

SameMeaning(s, t) == t.address = s.address /\ t.constant = s.constant /\ t.alias = s.alias
Labelling == Defining \ {"EQU", "IDENT"}
Unsettled(n) == symbols[n].kind \in {"absent", "undefined"}

\* What referring to a symbol makes of its kind.
Referred(s, n) == IF s.kind = "absent" /\ n = Operand(node) THEN "undefined" ELSE s.kind

Settles ==
  /\ \A n \in Name : (node.op \in Defining => n # node.name) =>
       /\ symbols'[n].kind = Referred(symbols[n], n)
       /\ SameMeaning(symbols[n], symbols'[n])
  /\ node.op \in Defining =>
       LET s == symbols[node.name]
           t == symbols'[node.name]
       IN /\ node.op \in Labelling => t.kind = "address" /\ t.address = pc
          /\ node.op = "EQU" /\ s.kind = "absent" => t.kind = "alias" /\ t.alias = node.of
          /\ node.op = "IDENT" /\ s.kind = "absent" => t.kind = "constant" /\ t.constant = node.number
          /\ node.op \notin Labelling /\ s.kind # "absent" => t.kind = s.kind

\* What addRef changes of the table.
LEMMA ReferringFields ==
  ASSUME NEW tbl \in [Name -> Symbol], NEW n \in Name, NEW ref
  PROVE  /\ Referring(tbl, n, ref)[n].refs = tbl[n].refs \cup {ref}
         /\ Referring(tbl, n, ref)[n].kind = IF tbl[n].kind = "absent" THEN "undefined" ELSE tbl[n].kind
         /\ SameMeaning(tbl[n], Referring(tbl, n, ref)[n])
         /\ \A m \in Name \ {n} : Referring(tbl, n, ref)[m] = tbl[m]
<1> DEFINE one == [tbl[n] EXCEPT !.refs = @ \cup {ref},
                                 !.kind = IF @ = "absent" THEN "undefined" ELSE @]
<1>1. tbl[n] \in Symbol
  OBVIOUS
<1>2. /\ one.refs = tbl[n].refs \cup {ref}
      /\ one.kind = IF tbl[n].kind = "absent" THEN "undefined" ELSE tbl[n].kind
      /\ SameMeaning(tbl[n], one)
  BY <1>1 DEF Symbol, SameMeaning
<1>3. Referring(tbl, n, ref) = [tbl EXCEPT ![n] = one]
  BY Zenon DEF Referring
<1> HIDE DEF one
<1>4. Referring(tbl, n, ref)[n] = one /\ \A m \in Name \ {n} : Referring(tbl, n, ref)[m] = tbl[m]
  BY <1>3
<1> QED
  BY <1>2, <1>4, Zenon

\* What InsertAddress changes of it.
LEMMA WithAddressFields ==
  ASSUME symbols \in [Name -> Symbol], NEW n \in Name
  PROVE  /\ WithAddress(n)[n].refs = symbols[n].refs
         /\ WithAddress(n)[n].kind = "address" /\ WithAddress(n)[n].address = pc
         /\ \A m \in Name \ {n} : WithAddress(n)[m] = symbols[m]
<1> DEFINE one == [symbols[n] EXCEPT !.kind = "address", !.address = pc]
<1>1. symbols[n] \in Symbol
  OBVIOUS
<1>2. one.refs = symbols[n].refs /\ one.kind = "address" /\ one.address = pc
  BY <1>1 DEF Symbol
<1>3. WithAddress(n) = [symbols EXCEPT ![n] = one]
  BY Zenon DEF WithAddress
<1> HIDE DEF one
<1>4. WithAddress(n)[n] = one /\ \A m \in Name \ {n} : WithAddress(n)[m] = symbols[m]
  BY <1>3
<1> QED
  BY <1>2, <1>4, Zenon

\* What UpdateAddress changes of it.
LEMMA EnteredFields ==
  ASSUME symbols \in [Name -> Symbol], NEW n \in Name
  PROVE  /\ Entered(n)[n].refs = symbols[n].refs
         /\ Unsettled(n) => Entered(n) = WithAddress(n)
         /\ \A m \in Name \ {n} : Entered(n)[m] = symbols[m]
<1> DEFINE one == [symbols[n] EXCEPT !.address = pc]
<1>1. symbols[n] \in Symbol
  OBVIOUS
<1>2. one.refs = symbols[n].refs
  BY <1>1 DEF Symbol
<1>3. CASE Found(n)
  <2>1. Entered(n) = [symbols EXCEPT ![n] = one]
    BY <1>3, Zenon DEF Entered
  <2> HIDE DEF one
  <2>2. Entered(n)[n] = one /\ \A m \in Name \ {n} : Entered(n)[m] = symbols[m]
    BY <2>1
  <2>3. ~Unsettled(n)
    BY <1>3 DEF Unsettled, Found, Resolved, Defined
  <2> QED
    BY <1>2, <2>2, <2>3, Zenon
<1>4. CASE ~Found(n)
  BY <1>4, WithAddressFields, Zenon DEF Entered
<1> QED
  BY <1>3, <1>4

\* The name a statement refers to, by what it is.
LEMMA OperandOf ==
  ASSUME TypeInv, status = "assembling", next <= Len(nodes)
  PROVE  /\ node.op \in {"REF", "RL", "GOADD", "GO"} => Operand(node) = node.name
         /\ node.op = "GOSUB" => Operand(node) = IF node.name \in MachineDependent THEN "" ELSE node.name
         /\ node.op = "SUBR" => Operand(node) = IF node.flag = "PARNM" THEN "PARNM" ELSE ""
         /\ node.op = "LINKR" => Operand(node) = "LINKPT"
         /\ node.op \notin {"REF", "RL", "GOADD", "GO", "GOSUB", "SUBR", "LINKR"} => Operand(node) = ""
         /\ Operand(node) # "" => Operand(node) \in Name
<1>1. "PARNM" \in Name /\ "LINKPT" \in Name
  BY AssemblerAssumption DEF Special, Reserved
<1>2. /\ node.op \in {"REF", "RL", "GOADD", "GO"} => node.name \in Name
      /\ node.op = "GOSUB" => node.name \in Name \cup MachineDependent
  BY Operands
<1> QED
  BY <1>1, <1>2 DEF Operand

\* A reference queued in a table whose queues are those of the symbols.
LEMMA Queueing ==
  ASSUME TypeInv, status = "assembling", next <= Len(nodes),
         NEW tbl \in [Name -> Symbol], \A m \in Name : tbl[m].refs = symbols[m].refs,
         NEW n \in Uses(node),
         symbols' = IF node.op = "RL" THEN AddRelativeReference(tbl, n, node.offset) ELSE AddReference(tbl, n)
  PROVE  Queues
<1>1. n \in Name
  BY OperandOf DEF Uses
<1> DEFINE ref == [at |-> pc, offset |-> IF node.op = "RL" THEN node.offset ELSE 0,
                   relative |-> IF node.op = "RL" THEN TRUE ELSE FALSE]
<1>2. IsReference(ref, pc, node)
  BY DEF IsReference
<1>3. symbols' = Referring(tbl, n, ref)
  <2>1. CASE node.op = "RL"
    BY <2>1 DEF AddRelativeReference
  <2>2. CASE node.op # "RL"
    BY <2>2 DEF AddReference
  <2> QED
    BY <2>1, <2>2
<1> HIDE DEF ref
<1>4. PICK r : r = ref
  OBVIOUS
<1>5. Referring(tbl, n, r)[n].refs = tbl[n].refs \cup {r}
  BY <1>1, ReferringFields, SMT
<1>6. \A m \in Name \ {n} : Referring(tbl, n, r)[m] = tbl[m]
  BY <1>1, ReferringFields, SMT
<1>7. /\ symbols'[n].refs = tbl[n].refs \cup {r}
      /\ \A m \in Name \ {n} : symbols'[m] = tbl[m]
  BY <1>3, <1>4, <1>5, <1>6
<1> QED
  BY <1>1, <1>2, <1>4, <1>7 DEF Queues, Uses

\* Every statement queues what it refers to and nothing else.
LEMMA StatementQueues ==
  ASSUME IInv, Statement, ~Stop("error"), ~Stop("panic")
  PROVE  Queues
<1>1. status = "assembling" /\ next <= Len(nodes)
  BY DEF Statement, At, Word, DCL, MDLABEL, SUBR, LINKR, EQU, IDENT, REF, RL, CON, MOVE, STACK,
         GOSUB, GOADD, GO, EXIT, HASH, THASH
<1>2. TypeInv /\ symbols \in [Name -> Symbol]
  BY DEF IInv, TypeInv
<1>3. ASSUME NEW tbl, \A n \in Name : tbl[n].refs = symbols[n].refs, symbols' = tbl, Operand(node) = ""
      PROVE  Queues
  BY <1>3 DEF Queues
<1>4. CASE Word \/ CON \/ MOVE \/ STACK \/ EXIT \/ HASH \/ THASH
  <2>1. Operand(node) = ""
    <3>1. node.op \in {"WORD", "CON", "MOVE", "STACK", "EXIT", "HASH", "THASH"}
      BY <1>4 DEF Word, CON, MOVE, STACK, EXIT, HASH, THASH, At
    <3> QED
      BY <1>1, <1>2, <3>1, OperandOf
  <2>2. symbols' = symbols
    BY <1>4, Zenon DEF Word, CON, MOVE, STACK, EXIT, HASH, THASH, table
  <2> QED
    BY <1>3, <2>1, <2>2
<1>5. CASE REF \/ GOADD \/ GO
  <2>1. node.op \in {"REF", "GOADD", "GO"} /\ symbols' = AddReference(symbols, node.name)
    BY <1>5 DEF REF, GOADD, GO, At
  <2>2. Operand(node) = node.name /\ node.name # ""
    BY <1>1, <1>2, <2>1, OperandOf, Operands, NameAssumption
  <2> QED
    BY <1>1, <1>2, <2>1, <2>2, Queueing DEF Uses
<1>6. CASE RL
  <2>1. node.op = "RL" /\ symbols' = AddRelativeReference(symbols, node.name, node.offset)
    BY <1>6 DEF RL, At
  <2>2. Operand(node) = node.name /\ node.name # ""
    BY <1>1, <1>2, <2>1, OperandOf, Operands, NameAssumption
  <2> QED
    BY <1>1, <1>2, <2>1, <2>2, Queueing DEF Uses
<1>7. CASE GOSUB
  <2>1. node.op = "GOSUB"
    BY <1>7 DEF GOSUB, At
  <2>2. CASE node.name \in MachineDependent
    BY <1>1, <1>2, <1>3, <1>7, <2>1, <2>2, OperandOf DEF GOSUB
  <2>3. CASE node.name \notin MachineDependent
    <3>1. symbols' = AddReference(symbols, node.name)
      BY <1>7, <2>3 DEF GOSUB
    <3>2. Operand(node) = node.name /\ node.name # ""
      BY <1>1, <1>2, <2>1, <2>3, OperandOf, Operands, NameAssumption
    <3> QED
      BY <1>1, <1>2, <2>1, <3>1, <3>2, Queueing DEF Uses
  <2> QED
    BY <2>2, <2>3
<1>8. CASE DCL \/ MDLABEL
  <2>1. node.op \in {"DCL", "MDLABEL"} /\ symbols' \in {symbols, WithAddress(node.name)}
    BY <1>8 DEF DCL, MDLABEL, At
  <2>2. node.name \in Name /\ Operand(node) = ""
    BY <1>1, <1>2, <2>1, Operands, OperandOf
  <2>3. \A n \in Name : WithAddress(node.name)[n].refs = symbols[n].refs
    BY <1>2, <2>2, WithAddressFields
  <2> QED
    BY <1>3, <2>1, <2>2, <2>3
<1>9. CASE SUBR \/ LINKR
  <2>1. node.op \in {"SUBR", "LINKR"} /\ node.name \in Name
    BY <1>1, <1>2, <1>9, Operands DEF SUBR, LINKR, At
  <2>2. Consistent(symbols, pc) /\ pc \in Nat
    BY <1>1 DEF IInv, TypeInv, Limit
  <2>3. /\ Entered(node.name) \in [Name -> Symbol]
        /\ \A n \in Name : Entered(node.name)[n].refs = symbols[n].refs
    BY <1>2, <2>1, <2>2, EnteredKeeps, EnteredFields
  <2>4. CASE SUBR /\ node.flag # "PARNM"
    <3>1. node.op = "SUBR" /\ symbols' = Entered(node.name)
      BY <2>4 DEF SUBR, At
    <3> QED
      BY <1>1, <1>2, <1>3, <2>3, <2>4, <3>1, OperandOf
  <2>5. CASE SUBR /\ node.flag = "PARNM"
    <3>1. node.op = "SUBR" /\ symbols' = AddReference(Entered(node.name), "PARNM")
      BY <2>5 DEF SUBR, At
    <3> QED
      BY <1>1, <1>2, <2>3, <2>5, <3>1, OperandOf, Queueing DEF Uses
  <2>6. CASE LINKR
    <3>1. node.op = "LINKR" /\ symbols' = AddReference(Entered(node.name), "LINKPT")
      BY <2>6 DEF LINKR, At
    <3> QED
      BY <1>1, <1>2, <2>3, <3>1, OperandOf, Queueing DEF Uses
  <2> QED
    BY <1>9, <2>4, <2>5, <2>6
<1>10. CASE EQU
  <2> DEFINE one == [symbols[node.name] EXCEPT !.kind = "alias", !.alias = node.of]
  <2>1. node.op = "EQU" /\ node.name \in Name /\ Operand(node) = ""
    BY <1>1, <1>2, <1>10, Operands, OperandOf DEF EQU, At
  <2>2. one.refs = symbols[node.name].refs
    <3>1. symbols[node.name] \in Symbol
      BY <1>2, <2>1
    <3> QED
      BY <3>1 DEF Symbol
  <2>3. symbols' \in {symbols, [symbols EXCEPT ![node.name] = one]}
    BY <1>10, Zenon DEF EQU
  <2> HIDE DEF one
  <2> QED
    BY <1>2, <1>3, <2>1, <2>2, <2>3
<1>11. CASE IDENT
  <2>1. node.op = "IDENT" /\ node.name \in Name /\ Operand(node) = ""
    BY <1>1, <1>2, <1>11, Operands, OperandOf DEF IDENT, At
  <2>2. CASE symbols[node.name].kind = "absent"
    <3>1. symbols' = [symbols EXCEPT ![node.name] = Constant(node.number)]
      BY <1>11, <2>2 DEF IDENT
    <3>2. symbols[node.name].refs = {} /\ Constant(node.number).refs = {}
      BY <1>2, <2>1, <2>2 DEF IInv, Consistent, Constant
    <3>3. \A n \in Name : symbols'[n].refs = symbols[n].refs
      BY <1>2, <2>1, <3>1, <3>2
    <3> QED
      BY <1>3, <2>1, <3>3
  <2>3. CASE symbols[node.name].kind # "absent"
    BY <1>3, <1>11, <2>1, <2>3 DEF IDENT
  <2> QED
    BY <2>2, <2>3
<1> QED
  BY <1>4, <1>5, <1>6, <1>7, <1>8, <1>9, <1>10, <1>11 DEF Statement

\* A reference tells the table only that a name is used.
LEMMA ReferringSettles ==
  ASSUME TypeInv, status = "assembling", next <= Len(nodes),
         NEW tbl \in [Name -> Symbol], NEW n \in Uses(node), NEW new,
         new \in {AddReference(tbl, n), AddRelativeReference(tbl, n, node.offset)}
  PROVE  \A m \in Name : new[m].kind = Referred(tbl[m], m) /\ SameMeaning(tbl[m], new[m])
<1>1. n \in Name /\ n = Operand(node)
  BY OperandOf DEF Uses
<1>2. PICK ref : new = Referring(tbl, n, ref)
  BY DEF AddReference, AddRelativeReference
<1>3. /\ new[n].kind = IF tbl[n].kind = "absent" THEN "undefined" ELSE tbl[n].kind
      /\ SameMeaning(tbl[n], new[n])
  BY <1>1, <1>2, ReferringFields
<1>4. \A m \in Name \ {n} : new[m] = tbl[m]
  BY <1>1, <1>2, ReferringFields
<1> QED
  BY <1>1, <1>3, <1>4 DEF Referred, SameMeaning

\* InsertAddress makes a table of a table.
LEMMA WithAddressIsTable ==
  ASSUME symbols \in [Name -> Symbol], pc \in Nat, NEW n \in Name
  PROVE  WithAddress(n) \in [Name -> Symbol]
<1> DEFINE one == [symbols[n] EXCEPT !.kind = "address", !.address = pc]
<1>1. symbols[n] \in Symbol
  OBVIOUS
<1>2. one \in Symbol
  BY <1>1, NewSymbol, Zenon
<1>3. WithAddress(n) = [symbols EXCEPT ![n] = one]
  BY Zenon DEF WithAddress
<1> HIDE DEF one
<1> QED
  BY <1>2, <1>3

\* A statement that refers to nothing leaves every kind alone.
LEMMA NothingReferred ==
  ASSUME Operand(node) = "", NEW s, NEW n \in Name
  PROVE  Referred(s, n) = s.kind
BY NameAssumption DEF Referred

\* Every statement settles what it defines, if nothing has before.
LEMMA StatementSettles ==
  ASSUME TypeInv, Statement, ~Stop("error"), ~Stop("panic"),
         node.op \in Defining => Unsettled(node.name)
  PROVE  Settles
<1>1. status = "assembling" /\ next <= Len(nodes)
  BY DEF Statement, At, Word, DCL, MDLABEL, SUBR, LINKR, EQU, IDENT, REF, RL, CON, MOVE, STACK,
         GOSUB, GOADD, GO, EXIT, HASH, THASH
<1>2. symbols \in [Name -> Symbol]
  BY DEF TypeInv
\* A statement that settles no name.
<1>3. ASSUME node.op \notin Defining,
             \A n \in Name : symbols'[n].kind = Referred(symbols[n], n) /\ SameMeaning(symbols[n], symbols'[n])
      PROVE  Settles
  BY <1>3 DEF Settles
<1>4. ASSUME node.op \notin Defining, Operand(node) = "", symbols' = symbols
      PROVE  Settles
  BY <1>3, <1>4, NothingReferred DEF SameMeaning
\* A statement that settles one, by a table that differs in it alone.
<1>5. ASSUME NEW tbl, node.op \in Defining,
             \A n \in Name \ {node.name} : tbl[n] = symbols[n],
             \A n \in Name : symbols'[n].kind = Referred(tbl[n], n) /\ SameMeaning(tbl[n], symbols'[n])
      PROVE  \A n \in Name \ {node.name} : /\ symbols'[n].kind = Referred(symbols[n], n)
                                           /\ SameMeaning(symbols[n], symbols'[n])
  BY <1>5
<1>6. CASE Word \/ CON \/ MOVE \/ STACK \/ EXIT \/ HASH \/ THASH
  <2>1. node.op \in {"WORD", "CON", "MOVE", "STACK", "EXIT", "HASH", "THASH"}
    BY <1>6 DEF Word, CON, MOVE, STACK, EXIT, HASH, THASH, At
  <2>2. Operand(node) = "" /\ node.op \notin Defining
    BY <1>1, <2>1, OperandOf DEF Defining
  <2>3. symbols' = symbols
    BY <1>6, Zenon DEF Word, CON, MOVE, STACK, EXIT, HASH, THASH, table
  <2> QED
    BY <1>4, <2>2, <2>3
<1>7. CASE REF \/ GOADD \/ GO \/ RL
  <2>1. /\ node.op \in {"REF", "GOADD", "GO", "RL"}
        /\ symbols' \in {AddReference(symbols, node.name),
                         AddRelativeReference(symbols, node.name, node.offset)}
    BY <1>7 DEF REF, GOADD, GO, RL, At
  <2>2. node.name \in Uses(node) /\ node.op \notin Defining
    BY <1>1, <2>1, OperandOf, Operands, NameAssumption DEF Uses, Defining
  <2> QED
    BY <1>1, <1>2, <1>3, <2>1, <2>2, ReferringSettles
<1>8. CASE GOSUB
  <2>1. node.op = "GOSUB" /\ node.op \notin Defining
    BY <1>8 DEF GOSUB, At, Defining
  <2>2. CASE node.name \in MachineDependent
    BY <1>1, <1>4, <1>8, <2>1, <2>2, OperandOf DEF GOSUB
  <2>3. CASE node.name \notin MachineDependent
    <3>1. symbols' = AddReference(symbols, node.name)
      BY <1>8, <2>3 DEF GOSUB
    <3>2. node.name \in Uses(node)
      BY <1>1, <2>1, <2>3, OperandOf, Operands, NameAssumption DEF Uses
    <3> QED
      BY <1>1, <1>2, <1>3, <2>1, <3>1, <3>2, ReferringSettles
  <2> QED
    BY <2>2, <2>3
<1>9. CASE DCL \/ MDLABEL
  <2>1. node.op \in {"DCL", "MDLABEL"}
    BY <1>9 DEF DCL, MDLABEL, At
  <2>2. node.op \in Labelling /\ Operand(node) = "" /\ node.name \in Name /\ node.op \in Defining
    BY <1>1, <2>1, Operands, OperandOf DEF Labelling, Defining
  <2>3. symbols' = WithAddress(node.name)
    <3>1. Insertable(node.name)
      BY <2>2 DEF Unsettled, Insertable
    <3> QED
      BY <1>9, <3>1 DEF DCL, MDLABEL
  <2>4. /\ symbols'[node.name].kind = "address" /\ symbols'[node.name].address = pc
        /\ \A m \in Name \ {node.name} : symbols'[m] = symbols[m]
    BY <1>2, <2>2, <2>3, WithAddressFields
  <2>5. \A m \in Name : Referred(symbols[m], m) = symbols[m].kind
    BY <2>2, NothingReferred
  <2> QED
    BY <2>2, <2>4, <2>5 DEF Settles, SameMeaning, Labelling
<1>10. CASE SUBR \/ LINKR
  <2>1. node.op \in {"SUBR", "LINKR"} /\ node.name \in Name
    BY <1>1, <1>10, Operands DEF SUBR, LINKR, At
  <2>2. node.op \in Labelling /\ node.op \in Defining
    BY <2>1 DEF Labelling, Defining
  <2> DEFINE tbl == Entered(node.name)
  <2>3. tbl = WithAddress(node.name)
    BY <1>2, <2>1, <2>2, EnteredFields
  <2>4. tbl \in [Name -> Symbol]
    BY <1>2, <2>1, <2>3, WithAddressIsTable DEF TypeInv
  <2>5. /\ tbl[node.name].kind = "address" /\ tbl[node.name].address = pc
        /\ \A m \in Name \ {node.name} : tbl[m] = symbols[m]
    BY <1>2, <2>1, <2>3, WithAddressFields
  <2> HIDE DEF tbl
  <2>6. \A m \in Name : symbols'[m].kind = Referred(tbl[m], m) /\ SameMeaning(tbl[m], symbols'[m])
    <3>1. CASE SUBR /\ node.flag # "PARNM"
      <4>1. node.op = "SUBR" /\ symbols' = tbl
        BY <3>1 DEF SUBR, At, tbl
      <4>2. Operand(node) = ""
        BY <1>1, <3>1, <4>1, OperandOf
      <4> QED
        BY <4>1, <4>2, NothingReferred DEF SameMeaning
    <3>2. CASE SUBR /\ node.flag = "PARNM"
      <4>1. node.op = "SUBR" /\ symbols' = AddReference(tbl, "PARNM")
        BY <3>2 DEF SUBR, At, tbl
      <4>2. "PARNM" \in Uses(node)
        BY <1>1, <3>2, <4>1, OperandOf DEF Uses
      <4> QED
        BY <1>1, <2>4, <4>1, <4>2, ReferringSettles
    <3>3. CASE LINKR
      <4>1. node.op = "LINKR" /\ symbols' = AddReference(tbl, "LINKPT")
        BY <3>3 DEF LINKR, At, tbl
      <4>2. "LINKPT" \in Uses(node)
        BY <1>1, <4>1, OperandOf DEF Uses
      <4> QED
        BY <1>1, <2>4, <4>1, <4>2, ReferringSettles
    <3> QED
      BY <1>10, <3>1, <3>2, <3>3
  <2>7. symbols'[node.name].kind = "address" /\ symbols'[node.name].address = pc
    BY <2>1, <2>5, <2>6 DEF Referred, SameMeaning
  <2>8. \A n \in Name \ {node.name} : /\ symbols'[n].kind = Referred(symbols[n], n)
                                      /\ SameMeaning(symbols[n], symbols'[n])
    BY <1>5, <2>2, <2>5, <2>6
  <2> QED
    BY <2>2, <2>7, <2>8 DEF Settles, Labelling
<1>11. CASE EQU
  <2> DEFINE one == [symbols[node.name] EXCEPT !.kind = "alias", !.alias = node.of]
  <2>1. node.op = "EQU" /\ node.name \in Name /\ Operand(node) = "" /\ node.op \in Defining
    BY <1>1, <1>11, Operands, OperandOf DEF EQU, At, Defining
  <2>2. \A m \in Name : Referred(symbols[m], m) = symbols[m].kind
    BY <2>1, NothingReferred
  <2>3. CASE symbols[node.name].kind = "absent"
    <3>1. one.kind = "alias" /\ one.alias = node.of
      <4>1. symbols[node.name] \in Symbol
        BY <1>2, <2>1
      <4> QED
        BY <4>1 DEF Symbol
    <3>2. symbols' = [symbols EXCEPT ![node.name] = one]
      BY <1>11, <2>3, Zenon DEF EQU
    <3> HIDE DEF one
    <3>3. symbols'[node.name] = one /\ \A m \in Name \ {node.name} : symbols'[m] = symbols[m]
      BY <1>2, <2>1, <3>2
    <3> QED
      BY <2>1, <2>2, <2>3, <3>1, <3>3 DEF Settles, SameMeaning, Labelling
  <2>4. CASE symbols[node.name].kind # "absent"
    <3>1. symbols' = symbols
      BY <1>11, <2>4 DEF EQU
    <3> QED
      BY <2>1, <2>2, <2>4, <3>1 DEF Settles, SameMeaning, Labelling
  <2> QED
    BY <2>3, <2>4
<1>12. CASE IDENT
  <2>1. node.op = "IDENT" /\ node.name \in Name /\ Operand(node) = "" /\ node.op \in Defining
    BY <1>1, <1>12, Operands, OperandOf DEF IDENT, At, Defining
  <2>2. \A m \in Name : Referred(symbols[m], m) = symbols[m].kind
    BY <2>1, NothingReferred
  <2>3. CASE symbols[node.name].kind = "absent"
    <3>1. symbols' = [symbols EXCEPT ![node.name] = Constant(node.number)]
      BY <1>12, <2>3 DEF IDENT
    <3>2. /\ symbols'[node.name] = Constant(node.number)
          /\ \A m \in Name \ {node.name} : symbols'[m] = symbols[m]
      BY <1>2, <2>1, <3>1
    <3>3. Constant(node.number).kind = "constant" /\ Constant(node.number).constant = node.number
      BY DEF Constant
    <3> QED
      BY <2>1, <2>2, <2>3, <3>2, <3>3 DEF Settles, SameMeaning, Labelling
  <2>4. CASE symbols[node.name].kind # "absent"
    <3>1. symbols' = symbols
      BY <1>12, <2>4 DEF IDENT
    <3> QED
      BY <2>1, <2>2, <2>4, <3>1 DEF Settles, SameMeaning, Labelling
  <2> QED
    BY <2>3, <2>4
<1> QED
  BY <1>6, <1>7, <1>8, <1>9, <1>10, <1>11, <1>12 DEF Statement
-----------------------------------------------------------------------------
(***************************************************************************)
(* The address of each statement, as the reference definition counts it.   *)
(***************************************************************************)
LEMMA SizeIsNat ==
  ASSUME NEW s
  PROVE  Size(s) \in Nat
BY AssemblerAssumption DEF Size

\* The addresses are counted from the first word, by the sizes.
LEMMA Placed ==
  ASSUME NEW p \in Seq(Node)
  PROVE  /\ Place(p) \in [1 .. Len(p) + 1 -> Nat]
         /\ Place(p)[1] = Last0
         /\ \A k \in 1 .. Len(p) : Place(p)[k + 1] = Place(p)[k] + Size(p[k])
<1>1. PICK n \in Nat : n = Len(p)
  OBVIOUS
<1> DEFINE Puts(g) == g = [k \in 1 .. n + 1 |-> IF k = 1 THEN Last0 ELSE g[k - 1] + Size(p[k - 1])]
           place == CHOOSE g : Puts(g)
<1>2. Place(p) = place
  BY <1>1 DEF Place
<1>3. Last0 \in Nat
  BY DEF Last0, Reserved, MaxNumberText
<1>4. PICK one \in Int, last \in Int : one = 1 /\ last = n + 1 /\ one <= last
  BY <1>1
<1>5. one + 1 .. last = 2 .. n + 1 /\ one .. last = 1 .. n + 1
  BY <1>4
<1> HIDE DEF Puts, place
<1>6. \E g : Puts(g)
  <2>1. PICK step : step = [k \in one + 1 .. last |-> [a \in Nat |-> a + Size(p[k - 1])]]
    OBVIOUS
  <2>2. step \in [one + 1 .. last -> [Nat -> Nat]]
    <3>1. \A k \in one + 1 .. last : \A a \in Nat : a + Size(p[k - 1]) \in Nat
      BY SizeIsNat
    <3> QED
      BY <2>1, <3>1
  <2>3. PICK g \in [one .. last -> Nat] : Pure!Repeats(g, one, last, Last0, step)
    BY <1>3, <1>4, <2>2, Pure!Repetition
  <2>4. g[1] = Last0 /\ \A k \in 2 .. n + 1 : g[k] = step[k][g[k - 1]]
    BY <1>4, <1>5, <2>3 DEF Pure!Repeats
  <2>5. \A k \in 2 .. n + 1 : g[k] = g[k - 1] + Size(p[k - 1])
    <3>1. ASSUME NEW k \in 2 .. n + 1
          PROVE  g[k] = g[k - 1] + Size(p[k - 1])
      <4>1. k - 1 \in one .. last /\ k \in one + 1 .. last
        BY <1>1, <1>4
      <4>2. g[k - 1] \in Nat
        BY <4>1
      <4> QED
        BY <2>1, <2>4, <4>1, <4>2
    <3> QED
      BY <3>1
  <2>6. \A k \in 1 .. n + 1 : g[k] = IF k = 1 THEN Last0 ELSE g[k - 1] + Size(p[k - 1])
    <3>1. ASSUME NEW k \in 1 .. n + 1
          PROVE  k = 1 \/ (k # 1 /\ k \in 2 .. n + 1)
      BY <1>1
    <3> QED
      BY <2>4, <2>5, <3>1
  <2>7. DOMAIN g = 1 .. n + 1
    BY <1>5
  <2>8. Puts(g)
    BY <2>6, <2>7 DEF Puts
  <2> QED
    BY <2>8
<1>7. Puts(place)
  BY <1>6 DEF place
<1>8. DOMAIN place = 1 .. n + 1 /\ place[1] = Last0
      /\ \A k \in 2 .. n + 1 : place[k] = place[k - 1] + Size(p[k - 1])
  BY <1>1, <1>7 DEF Puts
<1>9. PICK right : right = {k \in 1 .. n + 1 : place[k] \in Nat}
  OBVIOUS
<1>10. \A k \in 1 .. n + 1 : k \in right
  <2>1. one \in right
    BY <1>1, <1>3, <1>4, <1>8, <1>9
  <2>2. \A k \in one + 1 .. last : k - 1 \in right => k \in right
    BY <1>1, <1>4, <1>8, <1>9, SizeIsNat
  <2>3. \A k \in one .. last : k \in right
    BY <2>1, <2>2, Pure!UpTo
  <2> QED
    BY <1>5, <2>3
<1>11. place \in [1 .. n + 1 -> Nat]
  <2>1. place = [k \in 1 .. n + 1 |-> place[k]]
    BY <1>7 DEF Puts
  <2> QED
    BY <1>9, <1>10, <2>1
<1>12. \A k \in 1 .. n : place[k + 1] = place[k] + Size(p[k])
  <2>1. ASSUME NEW k \in 1 .. n
        PROVE  place[k + 1] = place[k] + Size(p[k])
    <3>1. PICK j : j = k + 1
      OBVIOUS
    <3>2. j \in 2 .. n + 1 /\ j - 1 = k
      BY <1>1, <3>1
    <3> QED
      BY <1>8, <3>1, <3>2
  <2> QED
    BY <2>1
<1> QED
  BY <1>1, <1>2, <1>8, <1>11, <1>12

\* They grow, and each statement has its words to itself.
LEMMA PlacesGrow ==
  ASSUME NEW p \in Seq(Node), NEW j \in 1 .. Len(p) + 1, NEW k \in 1 .. Len(p) + 1
  PROVE  /\ j <= k => Place(p)[j] <= Place(p)[k]
         /\ j < k => Place(p)[j] + Size(p[j]) <= Place(p)[k]
<1>1. PICK n \in Nat : n = Len(p)
  OBVIOUS
<1>2. PICK place \in [1 .. n + 1 -> Nat] : place = Place(p)
  BY <1>1, Placed
<1>3. \A i \in 1 .. n : place[i + 1] = place[i] + Size(p[i]) /\ Size(p[i]) \in Nat
  BY <1>1, <1>2, Placed, SizeIsNat
<1>4. ASSUME NEW first \in 1 .. n + 1
      PROVE  \A i \in first .. n + 1 : place[first] <= place[i]
  <2>0. PICK last \in Int : last = n + 1
    BY <1>1
  <2>1. PICK S : S = {i \in first .. n + 1 : place[first] <= place[i]}
    OBVIOUS
  <2>2. first \in S /\ first \in Int
    BY <1>1, <1>2, <2>1
  <2>3. ASSUME NEW i \in first + 1 .. last, i - 1 \in S
        PROVE  i \in S
    <3>1. PICK h : h = i - 1
      OBVIOUS
    <3>2. h \in 1 .. n /\ i = h + 1 /\ place[first] <= place[h]
      BY <1>1, <2>0, <2>1, <2>3, <3>1
    <3>3. place[i] = place[h] + Size(p[h]) /\ Size(p[h]) \in Nat
      BY <1>3, <3>2
    <3>4. place[first] \in Nat /\ place[h] \in Nat
      BY <1>1, <1>2, <3>2
    <3> QED
      BY <1>1, <2>0, <2>1, <2>3, <3>2, <3>3, <3>4
  <2>4. \A i \in first .. last : i \in S
    BY <2>2, <2>3, Pure!UpTo
  <2> QED
    BY <2>0, <2>1, <2>4
<1>5. j <= k => Place(p)[j] <= Place(p)[k]
  BY <1>1, <1>2, <1>4
<1>6. ASSUME j < k
      PROVE  place[j] + Size(p[j]) <= place[k]
  <2>1. j \in 1 .. n /\ j + 1 \in 1 .. n + 1 /\ k \in j + 1 .. n + 1
    BY <1>1, <1>6
  <2>2. place[j + 1] <= place[k]
    BY <1>4, <2>1
  <2> QED
    BY <1>3, <2>1, <2>2
<1> QED
  BY <1>2, <1>5, <1>6
-----------------------------------------------------------------------------
(***************************************************************************)
(* How far the program has been read: the program counter is the address   *)
(* of the statement at hand, and currSubroutine is the last SUBR before it.*)
(***************************************************************************)
Going == status \in {"assembling", "linking", "filling", "done"}
NoSubroutine == [name |-> "", exits |-> 0]

Reading ==
  /\ next <= Len(nodes) + 1
  /\ status \in {"linking", "filling", "done"} => next = Len(nodes) + 1
  /\ pc = Place(nodes)[next]
  /\ Going => IF Within(nodes, next) = {} THEN sub = NoSubroutine
              ELSE sub = [name |-> Enclosing(nodes, next).name, exits |-> Enclosing(nodes, next).exits]
  /\ \A k \in 1 .. next - 1 : nodes[k].op = "EXIT" => MayStand(nodes, k)

\* What every statement leaves alone.
LEMMA StatementMoves ==
  ASSUME Statement
  PROVE  /\ status = "assembling" /\ next <= Len(nodes)
         /\ UNCHANGED <<nodes, linked, filled, exported>>
         /\ status' # "assembling" => status' \in {"error", "panic"} /\ UNCHANGED <<next, pc, core>>
<1>1. status = "assembling" /\ next <= Len(nodes)
  BY DEF Statement, At, Word, DCL, MDLABEL, SUBR, LINKR, EQU, IDENT, REF, RL, CON, MOVE, STACK,
         GOSUB, GOADD, GO, EXIT, HASH, THASH
<1> DEFINE Moves == /\ UNCHANGED <<nodes, linked, filled, exported>>
                    /\ status' # "assembling" => status' \in {"error", "panic"} /\ UNCHANGED <<next, pc, core>>
<1>2. ASSUME NEW v, NEW w, Emit(v, w)
      PROVE  Moves
  BY <1>1, <1>2 DEF Emit, Panic, Advance
<1>3. ASSUME NEW how \in {"error", "panic"}, Stop(how)
      PROVE  Moves
  BY <1>3 DEF Stop
<1>4. ASSUME Advance
      PROVE  Moves
  BY <1>1, <1>4 DEF Advance
<1>5. ASSUME Panic
      PROVE  Moves
  BY <1>5 DEF Panic
<1> HIDE DEF Moves
<1>6. ASSUME Word \/ DCL \/ SUBR \/ LINKR \/ REF \/ RL
      PROVE  Moves
  BY <1>2, <1>3, <1>6, Zenon DEF Word, DCL, SUBR, LINKR, REF, RL
<1>7. ASSUME MDLABEL \/ EQU \/ IDENT
      PROVE  Moves
  BY <1>3, <1>4, <1>7, Zenon DEF MDLABEL, EQU, IDENT, Silent
<1>8. ASSUME CON \/ MOVE \/ STACK \/ EXIT \/ HASH
      PROVE  Moves
  BY <1>2, <1>3, <1>8, Zenon DEF CON, MOVE, STACK, EXIT, HASH
<1>9. ASSUME GOSUB \/ GOADD \/ GO
      PROVE  Moves
  BY <1>2, <1>9, Zenon DEF GOSUB, GOADD, GO
<1>10. ASSUME THASH
      PROVE  Moves
  BY <1>3, <1>4, <1>5, <1>10, Zenon DEF THASH
<1>11. Moves
  BY <1>6, <1>7, <1>8, <1>9, <1>10 DEF Statement
<1> QED
  BY <1>1, <1>11 DEF Moves

\* What the steps after the last statement leave alone.
LEMMA RestMoves ==
  ASSUME EndOfSource \/ Link \/ CheckSymbols \/ Fill \/ Export \/ UNCHANGED vars
  PROVE  /\ UNCHANGED <<nodes, next, pc, symbols, registers, sub, entries, thash>>
         /\ Going' => Going
         /\ status' = "assembling" => status = "assembling"
<1>1. CASE EndOfSource
  BY <1>1 DEF EndOfSource, table, chains, Stop, Going
<1>2. CASE Link
  BY <1>2 DEF Link, table, chains, Going
<1>3. CASE CheckSymbols
  BY <1>3 DEF CheckSymbols, table, chains, Stop, Going
<1>4. CASE Fill
  BY <1>4 DEF Fill, table, chains, Stop, Going
<1>5. CASE Export
  BY <1>5 DEF Export, table, chains, Going
<1>6. CASE UNCHANGED vars
  BY <1>6 DEF vars, table, chains, Going
<1> QED
  BY <1>1, <1>2, <1>3, <1>4, <1>5, <1>6

\* The subroutine around the next statement.
LEMMA WithinGrows ==
  ASSUME NEW p, NEW k \in Nat \ {0}
  PROVE  /\ p[k].op # "SUBR" => Within(p, k + 1) = Within(p, k)
         /\ p[k].op = "SUBR" => Within(p, k + 1) # {} /\ Enclosing(p, k + 1) = p[k]
<1>1. ASSUME p[k].op # "SUBR"
      PROVE  Within(p, k + 1) = Within(p, k)
  BY <1>1 DEF Within
<1>2. ASSUME p[k].op = "SUBR"
      PROVE  Within(p, k + 1) # {} /\ Enclosing(p, k + 1) = p[k]
  <2>1. k \in Within(p, k + 1) /\ \A j \in Within(p, k + 1) : j \in Nat /\ j <= k
    BY <1>2 DEF Within
  <2>2. (CHOOSE j \in Within(p, k + 1) : \A i \in Within(p, k + 1) : i <= j) = k
    BY <2>1
  <2> QED
    BY <2>1, <2>2 DEF Enclosing
<1> QED
  BY <1>1, <1>2

\* Every step reads on in that way.
LEMMA ReadingKeeps ==
  ASSUME IInv, Reading, [Next]_vars
  PROVE  Reading'
<1>1. /\ nodes \in Seq(Node) /\ next \in Nat \ {0} /\ pc \in Nat
  BY DEF IInv, TypeInv
<1>2. PICK p, k : p = nodes /\ k = next
  OBVIOUS
<1>3. CASE Statement
  <2>1. status = "assembling" /\ k <= Len(p) /\ nodes' = p /\ Going
    BY <1>2, <1>3, StatementMoves DEF Going
  <2>2. CASE status' # "assembling"
    <3>1. next' = k /\ pc' = pc /\ ~Going' /\ status' \notin {"linking", "filling", "done"}
      BY <1>2, <1>3, <2>2, StatementMoves DEF Going
    <3> QED
      BY <1>2, <2>1, <3>1 DEF Reading
  <2>3. CASE status' = "assembling"
    <3>1. Layout
      BY <1>3, <2>3, StatementLays DEF IInv
    <3>2. node = p[k]
      BY <1>2 DEF node
    <3>3. next' = k + 1 /\ k + 1 <= Len(p) + 1
      BY <1>1, <1>2, <2>1, <3>1 DEF Layout
    <3>4. pc' = Place(p)[k + 1]
      <4>1. pc' = Place(p)[k] + Size(p[k])
        BY <1>2, <2>1, <3>1, <3>2 DEF Layout, Reading
      <4>2. k \in 1 .. Len(p)
        BY <1>1, <1>2, <2>1
      <4> QED
        BY <1>1, <1>2, <4>1, <4>2, Placed
    <3>5. IF Within(p, k + 1) = {} THEN sub' = NoSubroutine
          ELSE sub' = [name |-> Enclosing(p, k + 1).name, exits |-> Enclosing(p, k + 1).exits]
      <4>1. CASE p[k].op = "SUBR"
        <5>1. sub' = [name |-> p[k].name, exits |-> p[k].exits]
          BY <3>1, <3>2, <4>1 DEF Layout
        <5> QED
          BY <1>1, <1>2, <4>1, <5>1, WithinGrows
      <4>2. CASE p[k].op # "SUBR"
        <5>1. sub' = sub
          BY <3>1, <3>2, <4>2 DEF Layout
        <5>2. Within(p, k + 1) = Within(p, k)
          BY <1>1, <1>2, <4>2, WithinGrows
        <5> QED
          BY <1>2, <2>1, <5>1, <5>2 DEF Reading, Enclosing
      <4> QED
        BY <4>1, <4>2
    <3>6. ASSUME NEW j \in 1 .. k, p[j].op = "EXIT"
          PROVE  MayStand(p, j)
      <4>1. CASE j = k
        <5>1. p[k].number \in 1 .. sub.exits /\ p[k].name = sub.name
          BY <3>1, <3>2, <3>6, <4>1 DEF Layout, MayExit
        <5>2. Within(p, k) # {}
          <6>1. Within(p, k) = {} => sub.exits = 0
            <7>1. Within(p, k) = {} => sub = NoSubroutine
              BY <1>2, <2>1 DEF Reading
            <7>2. NoSubroutine.exits = 0
              BY DEF NoSubroutine
            <7> QED
              BY <7>1, <7>2
          <6>2. 1 .. 0 = {}
            OBVIOUS
          <6> QED
            BY <5>1, <6>1, <6>2
        <5>3. sub = [name |-> Enclosing(p, k).name, exits |-> Enclosing(p, k).exits]
          BY <1>2, <2>1, <5>2 DEF Reading
        <5> QED
          BY <4>1, <5>1, <5>2, <5>3 DEF MayStand
      <4>2. CASE j # k
        BY <1>1, <1>2, <3>6, <4>2 DEF Reading
      <4> QED
        BY <4>1, <4>2
    <3>7. \A j \in 1 .. next' - 1 : p[j].op = "EXIT" => MayStand(p, j)
      BY <1>1, <1>2, <3>3, <3>6
    <3> QED
      BY <2>1, <2>3, <3>3, <3>4, <3>5, <3>7 DEF Reading
  <2> QED
    BY <2>2, <2>3
<1>4. CASE EndOfSource \/ Link \/ CheckSymbols \/ Fill \/ Export \/ UNCHANGED vars
  <2>1. UNCHANGED <<nodes, next, pc, sub>> /\ (Going' => Going)
    BY <1>4, RestMoves
  <2>2. status' \in {"linking", "filling", "done"} => next = Len(nodes) + 1
    <3>1. CASE EndOfSource
      <4>1. next > Len(nodes)
        BY <3>1 DEF EndOfSource
      <4>2. PICK n \in Nat : n = Len(nodes)
        BY <1>1
      <4> QED
        BY <1>1, <4>1, <4>2 DEF Reading
    <3>2. CASE ~EndOfSource
      BY <1>4, <3>2 DEF Reading, Link, CheckSymbols, Fill, Export, vars, Stop
    <3> QED
      BY <3>1, <3>2
  <2> QED
    BY <2>1, <2>2 DEF Reading
<1> QED
  BY <1>3, <1>4 DEF Next

\* It starts before the first statement.
LEMMA ReadingStarts ==
  ASSUME Init
  PROVE  Reading
<1>1. nodes \in Seq(Node)
  BY AssemblerAssumption DEF Init
<1>2. PICK n \in Nat : n = Len(nodes)
  BY <1>1
<1>3. next = 1 /\ status = "assembling" /\ pc = Last0 /\ sub = NoSubroutine
  BY DEF Init, NoSubroutine
<1>4. Within(nodes, 1) = {} /\ 1 .. 1 - 1 = {}
  BY DEF Within
<1>5. Place(nodes)[1] = Last0
  BY <1>1, Placed
<1>6. 1 <= n + 1
  BY <1>2
<1> QED
  BY <1>2, <1>3, <1>4, <1>5, <1>6 DEF Reading
-----------------------------------------------------------------------------
(***************************************************************************)
(* Every statement that has been read has queued its word for the name it  *)
(* refers to, and nothing else is in the queues.                           *)
(***************************************************************************)
Queued ==
  /\ \A k \in 1 .. next - 1 : Operand(nodes[k]) # "" =>
       /\ Operand(nodes[k]) \in Name
       /\ \E r \in symbols[Operand(nodes[k])].refs : IsReference(r, Place(nodes)[k], nodes[k])
  /\ \A n \in Name : \A r \in symbols[n].refs :
       \E k \in 1 .. Len(nodes) : k <= next /\ Operand(nodes[k]) = n /\ r.at = Place(nodes)[k]

\* No reference leaves its queue.
LEMMA QueuesGrow ==
  ASSUME Queues, NEW n \in Name
  PROVE  symbols[n].refs \subseteq symbols'[n].refs
<1>1. CASE n = Operand(node)
  BY <1>1, NameAssumption DEF Queues
<1>2. CASE n # Operand(node)
  BY <1>2 DEF Queues
<1> QED
  BY <1>1, <1>2

\* Every step keeps the queues to what has been read.
LEMMA QueuedKeeps ==
  ASSUME IInv, Reading, Queued, [Next]_vars
  PROVE  Queued'
<1>1. /\ nodes \in Seq(Node) /\ next \in Nat \ {0} /\ pc \in Nat
  BY DEF IInv, TypeInv
<1>2. PICK p, k : p = nodes /\ k = next
  OBVIOUS
<1>3. \A j \in 1 .. k - 1 : Operand(p[j]) # "" =>
        /\ Operand(p[j]) \in Name
        /\ \E r \in symbols[Operand(p[j])].refs : IsReference(r, Place(p)[j], p[j])
  BY <1>2 DEF Queued
<1>4. \A n \in Name : \A r \in symbols[n].refs :
        \E j \in 1 .. Len(p) : j <= k /\ Operand(p[j]) = n /\ r.at = Place(p)[j]
  BY <1>2 DEF Queued
<1>5. CASE UNCHANGED <<nodes, next, symbols>>
  BY <1>5 DEF Queued
<1>6. CASE Statement /\ ~Stop("error") /\ ~Stop("panic")
  <2>1. k <= Len(p) /\ nodes' = p /\ node = p[k] /\ pc = Place(p)[k]
    BY <1>2, <1>6, StatementMoves DEF node, Reading
  <2>2. Queues
    BY <1>6, StatementQueues
  <2>3. k \in 1 .. Len(p) /\ k \in Nat \ {0}
    BY <1>1, <1>2, <2>1
  <2>4. next' \in {k, k + 1}
    BY <1>2, <1>6, StatementMoves, StatementLays DEF IInv, Layout
  <2>5. ASSUME NEW n \in Name, NEW r \in symbols'[n].refs
        PROVE  \E j \in 1 .. Len(p) : j <= next' /\ Operand(p[j]) = n /\ r.at = Place(p)[j]
    <3>1. CASE r \in symbols[n].refs
      <4>1. PICK j \in 1 .. Len(p) : j <= k /\ Operand(p[j]) = n /\ r.at = Place(p)[j]
        BY <1>4, <3>1
      <4>2. j <= next'
        BY <2>3, <2>4, <4>1
      <4> QED
        BY <4>1, <4>2
    <3>2. CASE r \notin symbols[n].refs
      <4>1. n = Operand(p[k]) /\ IsReference(r, pc, p[k])
        BY <2>1, <2>2, <3>2, NameAssumption DEF Queues
      <4>2. r.at = Place(p)[k]
        BY <2>1, <4>1 DEF IsReference
      <4>3. k <= next'
        BY <2>3, <2>4
      <4> QED
        BY <2>3, <4>1, <4>2, <4>3
    <3> QED
      BY <3>1, <3>2
  <2>6. ASSUME NEW j \in 1 .. k, Operand(p[j]) # "", j # k \/ next' = k + 1
        PROVE  /\ Operand(p[j]) \in Name
               /\ \E r \in symbols'[Operand(p[j])].refs : IsReference(r, Place(p)[j], p[j])
    <3>1. CASE j = k
      BY <2>1, <2>2, <2>6, <3>1 DEF Queues
    <3>2. CASE j # k
      <4>1. j \in 1 .. k - 1
        BY <2>3, <3>2
      <4> QED
        BY <1>3, <2>2, <2>6, <4>1, QueuesGrow
    <3> QED
      BY <3>1, <3>2
  <2>7. \A j \in 1 .. next' - 1 : j \in 1 .. k /\ (j # k \/ next' = k + 1)
    <3>1. PICK m : m = next'
      OBVIOUS
    <3>2. m = k \/ m = k + 1
      BY <2>4, <3>1
    <3>3. k \in Nat
      BY <2>3
    <3>4. \A j \in 1 .. m - 1 : j \in 1 .. k /\ (j # k \/ m = k + 1)
      BY <3>2, <3>3
    <3> QED
      BY <3>1, <3>4
  <2> QED
    BY <2>1, <2>5, <2>6, <2>7 DEF Queued
<1>7. CASE Statement /\ (Stop("error") \/ Stop("panic"))
  BY <1>5, <1>7 DEF Stop, table
<1>8. CASE EndOfSource \/ Link \/ CheckSymbols \/ Fill \/ Export \/ UNCHANGED vars
  BY <1>5, <1>8, RestMoves
<1> QED
  BY <1>6, <1>7, <1>8 DEF Next

\* There are none at first.
LEMMA QueuedStarts ==
  ASSUME Init
  PROVE  Queued
<1>1. \A n \in Name : symbols[n].refs = {}
  BY DEF Init, Constant, Absent
<1>2. next = 1
  BY DEF Init
<1>3. 1 .. 1 - 1 = {}
  OBVIOUS
<1> QED
  BY <1>1, <1>2, <1>3 DEF Queued
-----------------------------------------------------------------------------
(***************************************************************************)
(* The registers lie below the program counter, and there is nothing to    *)
(* link while the program is read.                                         *)
(***************************************************************************)
Bounds ==
  /\ status \in {"assembling", "linking", "filling", "done", "error", "panic"}
  /\ registers \in [Special -> 1 .. pc]
  /\ linked <= Len(entries)
  /\ status = "assembling" => linked = 0

\* DCL moves the register of its name to the program counter.
LEMMA StatementRegisters ==
  ASSUME Statement
  PROVE  \/ registers' = registers
         \/ registers' = [n \in Special |-> IF n = node.name THEN pc ELSE registers[n]]
BY DEF Statement, Word, DCL, MDLABEL, SUBR, LINKR, EQU, IDENT, REF, RL, CON, MOVE, STACK, GOSUB,
       GOADD, GO, EXIT, HASH, THASH, table, Stop

\* The program counter never goes back.
LEMMA PcGrows ==
  ASSUME IInv, Statement
  PROVE  pc' \in Nat /\ pc <= pc'
<1>1. pc \in Nat
  BY DEF IInv, TypeInv
<1>2. CASE status' = "assembling"
  BY <1>1, <1>2, StatementLays, SizeIsNat DEF IInv, Layout
<1>3. CASE status' # "assembling"
  BY <1>1, <1>3, StatementMoves
<1> QED
  BY <1>2, <1>3

\* Every step keeps the bounds.
LEMMA BoundsKeep ==
  ASSUME IInv, Reading, Bounds, [Next]_vars
  PROVE  Bounds'
<1>1. pc \in Nat /\ linked \in Nat /\ entries \in Seq(Entry)
  BY DEF IInv, TypeInv
<1>2. CASE Statement
  <2>1. status = "assembling" /\ linked' = 0
        /\ status' \in {"assembling", "error", "panic"}
    BY <1>2, StatementMoves DEF Bounds
  <2>2. registers' \in [Special -> 1 .. pc']
    <3>1. pc' \in Nat /\ pc <= pc' /\ pc >= 1
      <4>1. pc >= Last0
        <5>1. PICK n \in Nat : n = Len(nodes)
          BY DEF IInv, TypeInv
        <5>2. 1 \in 1 .. n + 1 /\ next \in 1 .. n + 1 /\ 1 <= next
          BY <5>1 DEF Reading, IInv, TypeInv
        <5> QED
          BY <5>1, <5>2, Placed, PlacesGrow DEF Reading, IInv, TypeInv
      <4> QED
        BY <1>1, <1>2, <4>1, PcGrows DEF Last0, Reserved, MaxNumberText
    <3>2. registers \in [Special -> 1 .. pc']
      BY <1>1, <3>1 DEF Bounds
    <3>3. pc \in 1 .. pc'
      BY <1>1, <3>1
    <3> QED
      BY <1>2, <3>2, <3>3, StatementRegisters
  <2>3. 0 <= Len(entries')
    <3>1. entries' \in Seq(Entry)
      BY <1>2, StatementKeeps DEF IInv, TypeInv
    <3> QED
      BY <3>1
  <2> QED
    BY <2>1, <2>2, <2>3 DEF Bounds
<1>3. CASE Link
  BY <1>1, <1>3 DEF Link, Bounds, table, chains
<1>4. CASE EndOfSource \/ CheckSymbols \/ Fill \/ Export \/ UNCHANGED vars
  <2>1. UNCHANGED <<pc, registers, entries, linked>>
    BY <1>4 DEF EndOfSource, CheckSymbols, Fill, Export, vars, table, chains, Stop
  <2>2. /\ status' \in {"assembling", "linking", "filling", "done", "error", "panic"}
        /\ status' = "assembling" => status = "assembling"
    BY <1>4 DEF EndOfSource, CheckSymbols, Fill, Export, vars, Stop, Bounds
  <2> QED
    BY <2>1, <2>2 DEF Bounds
<1> QED
  BY <1>2, <1>3, <1>4 DEF Next

\* They hold at first.
LEMMA BoundsStart ==
  ASSUME Init
  PROVE  Bounds
<1>1. registers \in [Special -> 1 .. Last0]
  <2>1. ASSUME NEW n \in Special
        PROVE  (CHOOSE i \in 1 .. Len(Reserved) : Reserved[i] = n) \in 1 .. Last0
    <3>1. \E i \in 1 .. Len(Reserved) : Reserved[i] = n
      BY DEF Special
    <3>2. 1 .. Len(Reserved) \subseteq 1 .. Last0
      BY DEF Last0, Reserved, MaxNumberText
    <3> QED
      BY <3>1, <3>2
  <2> QED
    BY <2>1 DEF Init
<1>2. entries = << >> /\ Len(<< >>) = 0 /\ linked = 0 /\ status = "assembling" /\ pc = Last0
  BY DEF Init
<1> QED
  BY <1>1, <1>2 DEF Bounds

Read == Reading /\ Queued /\ Bounds

(***************************************************************************)
(* Every assembly reads its program statement by statement, and its queues *)
(* are those of the statements it has read.  (Assemble)                    *)
(***************************************************************************)
THEOREM ReadInductive == Spec => []Read
<1>1. Init => Read
  BY ReadingStarts, QueuedStarts, BoundsStart DEF Read
<1>2. IInv /\ Read /\ [Next]_vars => Read'
  BY ReadingKeeps, QueuedKeeps, BoundsKeep DEF Read
<1> QED
  BY <1>1, <1>2, Inductive, PTL DEF Spec

(***************************************************************************)
(* The type invariant: the program counter stays within core, no reference *)
(* is queued outside the program, and no register is above what has been   *)
(* laid out.  (Assemble)                                                   *)
(***************************************************************************)
THEOREM TypeCorrect == Spec => []TypeOK
<1>1. ASSUME IInv, Read
      PROVE  TypeOK
  <2>1. /\ nodes \in Seq(Node) /\ next \in Nat \ {0} /\ pc \in Nat /\ pc <= MAX_WORDS
        /\ core \in [0 .. MAX_WORDS - 1 -> [value : Int, two : Nat]]
        /\ entries \in Seq(Entry) /\ linked \in Nat /\ filled \subseteq Name
        /\ symbols \in [Name -> Symbol]
    BY <1>1 DEF IInv, TypeInv
  <2>2. PICK n \in Nat : n = Len(nodes)
    BY <2>1
  <2>3. PICK p : p = nodes
    OBVIOUS
  <2>4. next \in 1 .. n + 1 /\ MAX_WORDS \in Nat
    BY <1>1, <2>1, <2>2, AssemblerAssumption DEF Read, Reading
  <2>5. \A k \in 1 .. n + 1 : Last0 <= Place(p)[k]
    <3>1. 1 \in 1 .. Len(p) + 1
      BY <2>2, <2>3
    <3> QED
      BY <2>1, <2>2, <2>3, <3>1, Placed, PlacesGrow
  <2>6. pc \in Last0 .. MAX_WORDS
    <3>1. Last0 <= pc /\ Last0 \in Nat
      BY <1>1, <2>3, <2>4, <2>5 DEF Read, Reading, Last0, Reserved, MaxNumberText
    <3> QED
      BY <2>1, <2>4, <3>1
  <2>7. ASSUME NEW m \in Name, NEW r \in symbols[m].refs
        PROVE  r.at \in Last0 .. pc
    <3>1. r \in Ref /\ r.at \in Nat
      <4>1. symbols[m] \in Symbol
        BY <2>1
      <4>2. r \in Ref
        BY <4>1 DEF Symbol
      <4> QED
        BY <4>2 DEF Ref
    <3>2. r.at < pc + 1
      <4>1. r.at < Limit
        BY <1>1 DEF IInv, Consistent
      <4>2. Limit \in {pc, pc + 1}
        BY DEF Limit
      <4> QED
        BY <2>1, <3>1, <4>1, <4>2
    <3>3. PICK k \in 1 .. n : r.at = Place(p)[k]
      BY <1>1, <2>2, <2>3 DEF Read, Queued
    <3>4. Last0 <= r.at
      BY <2>2, <2>5, <3>3
    <3> QED
      BY <2>1, <2>6, <3>1, <3>2, <3>4
  <2>8. linked \in 0 .. Len(entries)
    BY <1>1, <2>1 DEF Read, Bounds
  <2>9. DOMAIN core = 0 .. MAX_WORDS - 1
        /\ \A a \in DOMAIN core : core[a].value \in Int /\ core[a].two \in Nat
    BY <2>1
  <2>10. /\ status \in {"assembling", "linking", "filling", "done", "error", "panic"}
         /\ registers \in [Special -> 1 .. pc]
    BY <1>1 DEF Read, Bounds
  <2> QED
    BY <2>1, <2>2, <2>4, <2>6, <2>7, <2>8, <2>9, <2>10 DEF TypeOK
<1> QED
  BY <1>1, Inductive, ReadInductive, PTL
-----------------------------------------------------------------------------
\* A name that is defined once has one definition.
LEMMA OneDefinition ==
  ASSUME NEW p \in Seq(Node), DefinedOnce(p), NEW n \in Name
  PROVE  /\ \A j \in Definitions(p, n) : j = Definition(p, n)
         /\ n \in DOMAIN Predefined => Definitions(p, n) = {}
<1> DEFINE S == Definitions(p, n)
<1>1. PICK last \in Nat : last = Len(p)
  OBVIOUS
<1>2. S \in SUBSET Nat /\ \A k \in S : k <= last
  BY <1>1 DEF Definitions
<1>3. Cardinality(S) + (IF n \in DOMAIN Predefined THEN 1 ELSE 0) <= 1
  BY DEF DefinedOnce
<1> HIDE DEF S
<1>4. IsFiniteSet(S)
  BY <1>1, <1>2, FS_BoundedSetOfNaturals
<1>5. PICK c \in Nat : c = Cardinality(S)
  BY <1>4, FS_CardinalityType
<1>6. c <= 1 /\ (n \in DOMAIN Predefined => c = 0)
  BY <1>3, <1>5
<1>7. c = 0 => S = {}
  BY <1>4, <1>5, FS_EmptySet
<1>8. c = 1 => \E x : S = {x}
  BY <1>4, <1>5, FS_Singleton
<1>9. \A i, j \in S : i = j
  BY <1>6, <1>7, <1>8
<1> QED
  BY <1>6, <1>7, <1>9 DEF S, Definition

(***************************************************************************)
(* What is known of a symbol whose definition d has been read, and stands  *)
(* at the address at: a label is where it stands; a name of EQU or IDENT   *)
(* is what they say unless it was used before.                             *)
(***************************************************************************)
Settled(s, d, at) ==
  /\ d.op \in Labelling => s.kind = "address" /\ s.address = at
  /\ d.op = "EQU" => s.kind = "undefined" \/ (s.kind = "alias" /\ s.alias = d.of)
  /\ d.op = "IDENT" => s.kind = "undefined" \/ (s.kind = "constant" /\ s.constant = d.number)

KnownName(n) ==
  /\ n \in DOMAIN Predefined => symbols[n].kind = "constant" /\ symbols[n].constant = Predefined[n]
  /\ n \notin DOMAIN Predefined /\ (\A j \in Definitions(nodes, n) : j >= next) => Unsettled(n)
  /\ \A j \in Definitions(nodes, n) : j < next => Settled(symbols[n], nodes[j], Place(nodes)[j])
  /\ symbols[n].kind = "undefined" => symbols[n].refs # {}

Known == DefinedOnce(nodes) /\ Going => \A n \in Name : KnownName(n)

\* What is settled is not unsettled by a reference.
LEMMA SettledKeeps ==
  ASSUME NEW s, NEW t, NEW d, NEW at, NEW n, d.op \in Defining, Settled(s, d, at),
         t.kind = Referred(s, n), SameMeaning(s, t)
  PROVE  Settled(t, d, at)
BY DEF Settled, Referred, SameMeaning, Defining, Labelling

\* A statement that defines a name is its one definition.
LEMMA Defines ==
  ASSUME NEW p \in Seq(Node), NEW k \in 1 .. Len(p), p[k].op \in Defining
  PROVE  p[k].name \in Name /\ k \in Definitions(p, p[k].name)
<1>1. p[k] \in Node
  OBVIOUS
<1>2. p[k].name \in Name
  BY <1>1 DEF Node, Defining
<1> QED
  BY <1>2 DEF Definitions

\* Every step keeps the table true to what has been read.
LEMMA KnownKeeps ==
  ASSUME IInv, Read, Known, [Next]_vars
  PROVE  Known'
<1>1. /\ nodes \in Seq(Node) /\ next \in Nat \ {0} /\ pc \in Nat
  BY DEF IInv, TypeInv
<1>2. PICK p, k : p = nodes /\ k = next
  OBVIOUS
<1>3. CASE UNCHANGED <<nodes, next, symbols>> /\ (Going' => Going)
  BY <1>3 DEF Known, KnownName, Unsettled
<1>4. CASE Statement /\ status' # "assembling"
  <2>1. ~Going'
    BY <1>4, StatementMoves DEF Going
  <2> QED
    BY <2>1 DEF Known
<1>5. CASE Statement /\ status' = "assembling"
  <2> SUFFICES ASSUME DefinedOnce(p), NEW n \in Name
               PROVE  KnownName(n)'
    BY <1>2, <1>5, StatementMoves DEF Known
  <2>1. /\ k \in 1 .. Len(p) /\ nodes' = p /\ node = p[k] /\ pc = Place(p)[k] /\ Going
        /\ next' = k + 1 /\ k \in Nat
    BY <1>1, <1>2, <1>5, StatementMoves, StatementLays DEF node, Reading, Read, Going, IInv, Layout
  <2>2. ~Stop("error") /\ ~Stop("panic")
    BY <1>5 DEF Stop
  <2>3. \A m \in Name : KnownName(m)
    BY <1>2, <2>1 DEF Known
  <2>4. node.op \in Defining =>
          /\ node.name \in Name /\ k \in Definitions(p, node.name)
          /\ \A j \in Definitions(p, node.name) : j = k
          /\ node.name \notin DOMAIN Predefined
    BY <1>1, <1>2, <2>1, Defines, OneDefinition
  <2>5. node.op \in Defining => Unsettled(node.name)
    <3>1. ASSUME node.op \in Defining
          PROVE  \A j \in Definitions(p, node.name) : j >= k
      BY <2>1, <2>4, <3>1
    <3> QED
      BY <1>2, <2>3, <2>4, <3>1 DEF KnownName
  <2>6. Settles
    BY <1>5, <2>2, <2>5, StatementSettles DEF IInv
  <2>7. Queues
    BY <1>5, <2>2, StatementQueues
  <2>8. CASE node.op \in Defining /\ n = node.name
    <3>1. Settled(symbols'[n], p[k], Place(p)[k])
      BY <2>1, <2>5, <2>6, <2>8 DEF Settles, Settled, Unsettled, Labelling
    <3>2. \A j \in Definitions(p, n) : ~(j >= next') /\ Settled(symbols'[n], p[j], Place(p)[j])
      <4>1. \A j \in Definitions(p, n) : j = k
        BY <2>4, <2>8
      <4>2. ~(k >= next')
        BY <2>1
      <4> QED
        BY <3>1, <4>1, <4>2
    <3>3. symbols'[n].kind = "undefined" => symbols[n].kind = "undefined"
      <4>1. symbols[n].kind = "undefined" \/ symbols[n].kind = "absent"
        BY <2>5, <2>8 DEF Unsettled
      <4> QED
        BY <2>6, <2>8, <4>1 DEF Settles, Defining, Labelling
    <3>4. symbols'[n].kind = "undefined" => symbols'[n].refs # {}
      BY <2>3, <2>7, <3>3, QueuesGrow DEF KnownName
    <3> QED
      BY <2>1, <2>4, <2>8, <3>2, <3>4 DEF KnownName
  <2>9. CASE node.op \in Defining => n # node.name
    <3>1. symbols'[n].kind = Referred(symbols[n], n) /\ SameMeaning(symbols[n], symbols'[n])
      BY <2>6, <2>9 DEF Settles
    <3>2. k \notin Definitions(p, n)
      BY <2>1, <2>9 DEF Definitions
    <3>3. n \in DOMAIN Predefined =>
            symbols'[n].kind = "constant" /\ symbols'[n].constant = Predefined[n]
      BY <2>3, <3>1 DEF KnownName, Referred, SameMeaning
    <3>4. \A j \in Definitions(p, n) : j \in Nat /\ p[j].op \in Defining
      BY <1>1, <1>2 DEF Definitions
    <3>5. ASSUME n \notin DOMAIN Predefined, \A j \in Definitions(p, n) : j >= k + 1
          PROVE  symbols'[n].kind \in {"absent", "undefined"}
      <4>1. \A j \in Definitions(p, n) : j >= k
        BY <2>1, <3>4, <3>5
      <4>2. Unsettled(n)
        BY <1>2, <2>3, <3>5, <4>1 DEF KnownName
      <4> QED
        BY <3>1, <4>2 DEF Referred, Unsettled
    <3>6. ASSUME NEW j \in Definitions(p, n), j < k + 1
          PROVE  Settled(symbols'[n], p[j], Place(p)[j])
      <4>1. j < k
        BY <2>1, <3>2, <3>4, <3>6
      <4>2. Settled(symbols[n], p[j], Place(p)[j])
        BY <1>2, <2>3, <4>1 DEF KnownName
      <4> QED
        BY <3>1, <3>4, <4>2, SettledKeeps
    <3>7. symbols'[n].kind = "undefined" => symbols'[n].refs # {}
      <4>1. CASE symbols[n].kind = "undefined"
        BY <2>3, <2>7, <4>1, QueuesGrow DEF KnownName
      <4>2. CASE symbols[n].kind = "absent" /\ n = Operand(node)
        BY <2>7, <4>2, NameAssumption DEF Queues
      <4> QED
        BY <3>1, <4>1, <4>2 DEF Referred
    <3> QED
      BY <2>1, <3>3, <3>5, <3>6, <3>7 DEF KnownName, Unsettled
  <2> QED
    BY <2>8, <2>9
<1>6. CASE EndOfSource \/ Link \/ CheckSymbols \/ Fill \/ Export \/ UNCHANGED vars
  BY <1>3, <1>6, RestMoves
<1> QED
  BY <1>4, <1>5, <1>6 DEF Next

\* It is true of the predefined constants.
LEMMA KnownStarts ==
  ASSUME Init
  PROVE  Known
<1>1. nodes \in Seq(Node) /\ next = 1
  BY AssemblerAssumption DEF Init
<1>2. \A n \in Name : \A j \in Definitions(nodes, n) : j \in Nat \ {0}
  BY <1>1 DEF Definitions
<1>3. ASSUME NEW n \in Name
      PROVE  /\ n \in DOMAIN Predefined => symbols[n] = Constant(Predefined[n])
             /\ n \notin DOMAIN Predefined => symbols[n] = Absent
  BY DEF Init
<1>4. ASSUME NEW n \in Name
      PROVE  KnownName(n)
  <2>1. \A j \in Definitions(nodes, n) : ~(j < 1)
    BY <1>2
  <2>2. n \in DOMAIN Predefined => symbols[n].kind = "constant" /\ symbols[n].constant = Predefined[n]
    <3>1. \A v : Constant(v).kind = "constant" /\ Constant(v).constant = v
      BY DEF Constant
    <3> QED
      BY <1>3, <3>1
  <2>3. n \notin DOMAIN Predefined => symbols[n].kind = "absent"
    <3>1. Absent.kind = "absent"
      BY DEF Absent
    <3> QED
      BY <1>3, <3>1
  <2> QED
    BY <1>1, <2>1, <2>2, <2>3 DEF KnownName, Unsettled
<1> QED
  BY <1>4 DEF Known

\* The name behind a queue that has been filled is an address or a constant.
Meaningful == \A n \in filled : symbols[Meant(n)].kind \in {"address", "constant"}

\* Only such queues are filled.  (fill)
LEMMA MeaningfulKeeps ==
  ASSUME IInv, Meaningful, [Next]_vars
  PROVE  Meaningful'
<1>1. CASE UNCHANGED <<symbols, filled>>
  BY <1>1 DEF Meaningful, Meant, Resolved
<1>2. CASE Statement
  <2>1. filled' = {}
    BY <1>2, StatementMoves DEF IInv, FillInv
  <2> QED
    BY <2>1 DEF Meaningful
<1>3. CASE EndOfSource \/ Link \/ CheckSymbols \/ Export \/ UNCHANGED vars
  <2>1. UNCHANGED <<symbols, filled>>
    BY <1>3 DEF EndOfSource, Link, CheckSymbols, Export, vars, table, Stop
  <2> QED
    BY <1>1, <2>1
<1>4. CASE Fill
  <2>1. CASE Stop("error") \/ Stop("panic")
    BY <1>1, <2>1 DEF Stop, table
  <2>2. CASE ~Stop("error") /\ ~Stop("panic")
    <3>1. PICK n \in Name : /\ symbols[Meant(n)].kind \in {"address", "constant"}
                            /\ filled' = filled \cup {n} /\ UNCHANGED table
      BY <1>4, <2>2, Zenon DEF Fill
    <3>2. symbols' = symbols
      BY <3>1 DEF table
    <3>3. \A m \in filled' : symbols[Meant(m)].kind \in {"address", "constant"}
      BY <3>1 DEF Meaningful
    <3> QED
      BY <3>2, <3>3 DEF Meaningful, Meant, Resolved
  <2> QED
    BY <2>1, <2>2
<1> QED
  BY <1>2, <1>3, <1>4 DEF Next

\* What the table says of a name agrees with its definition.
LEMMA Agrees ==
  ASSUME IInv, Read, Known, Going, DefinedOnce(nodes), NEW n \in Name
  PROVE  /\ symbols[n].kind \in {"address", "constant"} =>
              /\ ~Alias(nodes, n) /\ HasMeaning(nodes, n)
              /\ Own(nodes, n) = IF symbols[n].kind = "address" THEN symbols[n].address
                                 ELSE symbols[n].constant
              /\ symbols[n].kind = "address" <=> IsLabel(nodes, n)
         /\ symbols[n].kind = "alias" =>
              /\ Alias(nodes, n) /\ HasMeaning(nodes, n) /\ ~IsLabel(nodes, n)
              /\ Target(nodes, n) = symbols[n].alias
<1>1. nodes \in Seq(Node)
  BY DEF IInv, TypeInv
<1>2. PICK p, s : p = nodes /\ s = symbols[n]
  OBVIOUS
<1>3. KnownName(n)
  BY DEF Known
<1>4. CASE n \in DOMAIN Predefined
  <2>1. Definitions(p, n) = {}
    BY <1>1, <1>2, <1>4, OneDefinition
  <2>2. s.kind = "constant" /\ s.constant = Predefined[n]
    BY <1>2, <1>3, <1>4 DEF KnownName
  <2> QED
    BY <1>2, <1>4, <2>1, <2>2 DEF Alias, HasMeaning, Own, IsLabel
<1>5. CASE n \notin DOMAIN Predefined /\ ~Unsettled(n)
  <2>1. PICK j \in Definitions(p, n) : ~(j >= next)
    BY <1>2, <1>3, <1>5 DEF KnownName
  <2>2. j < next
    BY <1>1, <1>2, <2>1 DEF Definitions, IInv, TypeInv
  <2>3. \A i \in Definitions(p, n) : i = j
    BY <1>1, <1>2, OneDefinition
  <2>4. j = Definition(p, n) /\ p[j].op \in Defining /\ Settled(s, p[j], Place(p)[j])
    BY <1>1, <1>2, <1>3, <2>2, OneDefinition DEF KnownName, Definitions
  <2>5. CASE p[j].op \in Labelling
    <3>1. s.kind = "address" /\ s.address = Place(p)[j] /\ p[j].op # "EQU" /\ p[j].op # "IDENT"
      BY <2>4, <2>5 DEF Settled, Labelling
    <3> QED
      BY <1>2, <1>5, <2>3, <2>4, <2>5, <3>1 DEF Alias, HasMeaning, Own, IsLabel, Labelling
  <2>6. CASE p[j].op = "EQU"
    <3>1. s.kind = "alias" /\ s.alias = p[j].of
      BY <1>2, <1>5, <2>4, <2>6 DEF Settled, Unsettled
    <3> QED
      BY <1>2, <1>5, <2>3, <2>4, <2>6, <3>1 DEF Alias, HasMeaning, Target, IsLabel
  <2>7. CASE p[j].op = "IDENT"
    <3>1. s.kind = "constant" /\ s.constant = p[j].number
      BY <1>2, <1>5, <2>4, <2>7 DEF Settled, Unsettled
    <3> QED
      BY <1>2, <1>5, <2>3, <2>4, <2>7, <3>1 DEF Alias, HasMeaning, Own, IsLabel
  <2> QED
    BY <2>4, <2>5, <2>6, <2>7 DEF Labelling
<1>6. CASE Unsettled(n)
  BY <1>2, <1>6 DEF Unsettled
<1> QED
  BY <1>4, <1>5, <1>6

\* What fill writes is what the reference definition says.
LEMMA ValueIsMeaning ==
  ASSUME IInv, Read, Known, Going, DefinedOnce(nodes),
         NEW n \in Name, Defined(n), symbols[Meant(n)].kind \in {"address", "constant"}
  PROVE  HasMeaning(nodes, n) /\ Value(n) = Meaning(nodes, n)
<1>1. Defined(n)
  OBVIOUS
<1>2. symbols[Meant(n)].kind \in {"address", "constant"}
  OBVIOUS
<1>3. symbols \in [Name -> Symbol] /\ \A m \in Name : symbols[m].kind = "alias" => symbols[m].alias \in Name
  BY DEF IInv, TypeInv, Consistent
<1>4. symbols[n].kind \in {"address", "constant", "alias"}
  <2>1. symbols[n] \in Symbol
    BY <1>3
  <2>2. symbols[n].kind \in Kind
    BY <2>1 DEF Symbol
  <2> QED
    BY <1>1, <2>2 DEF Kind, Defined
<1>5. CASE symbols[n].kind # "alias"
  <2>1. Meant(n) = n
    BY <1>5 DEF Meant
  <2> QED
    BY <1>4, <1>5, <2>1, Agrees DEF Value, Meaning
<1>6. CASE symbols[n].kind = "alias"
  <2>1. PICK t \in Name : t = symbols[n].alias
    BY <1>3, <1>6
  <2>2. Alias(nodes, n) /\ HasMeaning(nodes, n) /\ Target(nodes, n) = t /\ Meant(n) = Resolved(t)
    BY <1>6, <2>1, Agrees DEF Meant
  <2>3. CASE symbols[t].kind = "alias"
    <3>1. PICK u \in Name : u = symbols[t].alias
      BY <1>3, <2>3
    <3>2. Alias(nodes, t) /\ Target(nodes, t) = u /\ Meant(n) = u
      BY <2>2, <2>3, <3>1, Agrees DEF Resolved
    <3>3. Own(nodes, u) = Value(n)
      BY <1>2, <3>2, Agrees DEF Value
    <3> QED
      BY <2>2, <3>2, <3>3 DEF Meaning
  <2>4. CASE symbols[t].kind # "alias"
    <3>1. Meant(n) = t
      BY <2>2, <2>4 DEF Resolved
    <3>2. ~Alias(nodes, t) /\ Own(nodes, t) = Value(n)
      BY <1>2, <3>1, Agrees DEF Value
    <3> QED
      BY <2>2, <3>2 DEF Meaning
  <2> QED
    BY <2>3, <2>4
<1> QED
  BY <1>5, <1>6

(***************************************************************************)
(* The table agrees with the definitions that have been read, in every     *)
(* assembly of a program that defines no name twice.                       *)
(***************************************************************************)
THEOREM KnownInductive == Spec => [](Known /\ Meaningful)
<1>1. Init => Known /\ Meaningful
  BY KnownStarts DEF Init, Meaningful
<1>2. IInv /\ Read /\ (Known /\ Meaningful) /\ [Next]_vars => (Known /\ Meaningful)'
  BY KnownKeeps, MeaningfulKeeps
<1> QED
  BY <1>1, <1>2, Inductive, ReadInductive, PTL DEF Spec

(***************************************************************************)
(* In a program that defines no name twice, every word that refers to a    *)
(* name holds what the name means by the reference definition, wherever    *)
(* the definition stands, and every EXIT is one that the subroutine around *)
(* it declares: the one pass and its queues come to what two passes would. *)
(* (AddReference, InsertAddress, fill; SUBR, EXIT)                         *)
(***************************************************************************)
THEOREM ReferencesMean == Spec => []ReferencesMeanDefinitions
<1>1. ASSUME IInv, Read, Known, Meaningful, QueuesAreFilled
      PROVE  ReferencesMeanDefinitions
  <2> SUFFICES ASSUME status = "done", DefinedOnce(nodes), NEW k \in DOMAIN nodes
               PROVE  /\ Operand(nodes[k]) # "" =>
                           /\ HasMeaning(nodes, Operand(nodes[k]))
                           /\ (IF nodes[k].op = "RL" THEN Place(nodes)[k] ELSE 0) + core[Place(nodes)[k]].value
                                = Meaning(nodes, Operand(nodes[k]))
                      /\ nodes[k].op = "EXIT" => MayStand(nodes, k)
    BY DEF ReferencesMeanDefinitions
  <2>1. k \in 1 .. next - 1
    <3>1. nodes \in Seq(Node)
      BY <1>1 DEF IInv, TypeInv
    <3>2. PICK last \in Nat : last = Len(nodes)
      BY <3>1
    <3>3. next = last + 1 /\ k \in 1 .. last
      BY <1>1, <3>1, <3>2 DEF Read, Reading
    <3> QED
      BY <3>3
  <2>2. nodes[k].op = "EXIT" => MayStand(nodes, k)
    BY <1>1, <2>1 DEF Read, Reading
  <2>3. ASSUME Operand(nodes[k]) # ""
        PROVE  /\ HasMeaning(nodes, Operand(nodes[k]))
               /\ (IF nodes[k].op = "RL" THEN Place(nodes)[k] ELSE 0) + core[Place(nodes)[k]].value
                    = Meaning(nodes, Operand(nodes[k]))
    <3>1. PICK n \in Name : n = Operand(nodes[k])
      BY <1>1, <2>1, <2>3 DEF Read, Queued
    <3>2. PICK r \in symbols[n].refs : IsReference(r, Place(nodes)[k], nodes[k])
      BY <1>1, <2>1, <2>3, <3>1 DEF Read, Queued
    <3>3. (IF r.relative THEN r.at ELSE 0) + core[r.at].value = Value(n)
      BY <1>1 DEF QueuesAreFilled
    <3>4. HasMeaning(nodes, n) /\ Value(n) = Meaning(nodes, n)
      <4>1. Defined(n) /\ n \in filled
        BY <1>1, <3>2 DEF IInv, Consistent, FillInv, Defined
      <4> QED
        BY <1>1, <4>1, ValueIsMeaning DEF Meaningful, Going
    <3>5. r.at = Place(nodes)[k] /\ (r.relative <=> nodes[k].op = "RL")
      BY <3>2 DEF IsReference
    <3> QED
      BY <3>1, <3>3, <3>4, <3>5
  <2> QED
    BY <2>2, <2>3
<1> QED
  BY <1>1, Inductive, ReadInductive, KnownInductive, QueuesFilled, PTL
-----------------------------------------------------------------------------
(***************************************************************************)
(* The entries are the HASH statements that have been read, in the order   *)
(* of the source, and the heads of the chains stand where THASH does.      *)
(***************************************************************************)
IsEntry(e, p, k) == p[k].op = "HASH" /\ e.at = Place(p)[k] /\ e.text = p[k].text
IsHeads(a, p, k) == p[k].op = "THASH" /\ a = Place(p)[k]

Listed ==
  /\ \A i \in DOMAIN entries : \E k \in 1 .. next - 1 : IsEntry(entries[i], nodes, k)
  /\ \A k \in 1 .. next - 1 : nodes[k].op = "HASH" => \E i \in DOMAIN entries : IsEntry(entries[i], nodes, k)
  /\ \A i, j \in DOMAIN entries : i < j => entries[i].at < entries[j].at

Headed ==
  /\ thash # 0 => \E k \in 1 .. next - 1 : IsHeads(thash, nodes, k)
  /\ \A k \in 1 .. next - 1 : nodes[k].op = "THASH" => IsHeads(thash, nodes, k)

Tabled == Going => Listed /\ Headed

\* What a statement appends to the entries.
LEMMA EntriesGrow ==
  ASSUME entries \in Seq(Entry), Layout, node.op = "HASH"
  PROVE  /\ DOMAIN entries' = DOMAIN entries \cup {Len(entries) + 1}
         /\ \A i \in DOMAIN entries : i < Len(entries) + 1 /\ entries'[i] = entries[i]
         /\ entries'[Len(entries) + 1] = [at |-> pc, text |-> node.text]
<1>1. PICK n \in Nat : n = Len(entries)
  OBVIOUS
<1>2. PICK e : e = [at |-> pc, text |-> node.text]
  OBVIOUS
<1>3. entries' = Append(entries, e)
  BY <1>2 DEF Layout
<1>4. DOMAIN entries = 1 .. n /\ DOMAIN entries' = 1 .. n + 1
  BY <1>1, <1>3
<1>5. \A i \in 1 .. n : entries'[i] = entries[i]
  BY <1>1, <1>3
<1>6. entries'[n + 1] = e
  BY <1>1, <1>3
<1>7. 1 .. n + 1 = 1 .. n \cup {n + 1} /\ \A i \in 1 .. n : i < n + 1
  OBVIOUS
<1> QED
  BY <1>1, <1>2, <1>4, <1>5, <1>6, <1>7

\* HASH keeps the list.
LEMMA ListedKeeps ==
  ASSUME IInv, Read, Listed, Layout, status = "assembling", UNCHANGED nodes
  PROVE  Listed'
<1>1. /\ nodes \in Seq(Node) /\ next \in Nat \ {0} /\ pc \in Nat /\ entries \in Seq(Entry)
      /\ next' = next + 1 /\ pc = Place(nodes)[next]
  BY DEF IInv, TypeInv, Layout, Read, Reading
<1>2. PICK p, k : p = nodes /\ k = next
  OBVIOUS
<1>3. /\ \A i \in DOMAIN entries : \E j \in 1 .. k - 1 : IsEntry(entries[i], p, j)
      /\ \A j \in 1 .. k - 1 : p[j].op = "HASH" => \E i \in DOMAIN entries : IsEntry(entries[i], p, j)
      /\ \A i, j \in DOMAIN entries : i < j => entries[i].at < entries[j].at
  BY <1>2 DEF Listed
<1>4. k \in Nat \ {0} /\ (k + 1) - 1 = k /\ 1 .. k = 1 .. k - 1 \cup {k}
  BY <1>1, <1>2
<1>5. CASE node.op # "HASH"
  <2>1. entries' = entries
    BY <1>5 DEF Layout
  <2>2. \A i \in DOMAIN entries : \E j \in 1 .. k : IsEntry(entries[i], p, j)
    BY <1>3, <1>4
  <2>3. \A j \in 1 .. k : p[j].op = "HASH" => \E i \in DOMAIN entries : IsEntry(entries[i], p, j)
    BY <1>2, <1>3, <1>4, <1>5 DEF node
  <2> QED
    BY <1>1, <1>2, <1>3, <1>4, <2>1, <2>2, <2>3 DEF Listed
<1>6. CASE node.op = "HASH"
  <2>1. PICK top : top = Len(entries) + 1
    OBVIOUS
  <2>2. /\ DOMAIN entries' = DOMAIN entries \cup {top}
        /\ \A i \in DOMAIN entries : i < top /\ entries'[i] = entries[i]
        /\ entries'[top] = [at |-> pc, text |-> node.text]
    BY <1>1, <1>6, <2>1, EntriesGrow
  <2>3. IsEntry(entries'[top], p, k) /\ entries'[top].at = pc
    BY <1>1, <1>2, <1>6, <2>2 DEF IsEntry, node
  <2>4. \A i \in DOMAIN entries' : \E j \in 1 .. k : IsEntry(entries'[i], p, j)
    BY <1>3, <1>4, <2>2, <2>3
  <2>5. \A j \in 1 .. k : p[j].op = "HASH" => \E i \in DOMAIN entries' : IsEntry(entries'[i], p, j)
    BY <1>3, <1>4, <2>2, <2>3
  <2>6. ASSUME NEW i \in DOMAIN entries', NEW j \in DOMAIN entries', i < j
        PROVE  entries'[i].at < entries'[j].at
    <3>1. CASE i \in DOMAIN entries /\ j \in DOMAIN entries
      BY <1>3, <2>2, <2>6, <3>1
    <3>2. CASE i \in DOMAIN entries /\ j = top
      <4>1. entries[i].at < pc
        BY <3>2 DEF IInv, ChainInv, Threaded
      <4> QED
        BY <2>2, <2>3, <3>2, <4>1
    <3>3. CASE i = top
      <4>1. i \in Nat /\ j \in Nat /\ j <= top
        BY <1>1, <2>1, <2>2, <3>3
      <4> QED
        BY <2>6, <3>3, <4>1
    <3> QED
      BY <2>2, <3>1, <3>2, <3>3
  <2> QED
    BY <1>1, <1>2, <1>4, <2>4, <2>5, <2>6 DEF Listed
<1> QED
  BY <1>5, <1>6

\* THASH keeps the heads.
LEMMA HeadedKeeps ==
  ASSUME IInv, Read, Headed, Layout, UNCHANGED nodes
  PROVE  Headed'
<1>1. /\ next \in Nat \ {0} /\ next' = next + 1 /\ pc = Place(nodes)[next]
  BY DEF IInv, TypeInv, Layout, Read, Reading
<1>2. PICK p, k : p = nodes /\ k = next
  OBVIOUS
<1>3. /\ thash # 0 => \E j \in 1 .. k - 1 : IsHeads(thash, p, j)
      /\ \A j \in 1 .. k - 1 : p[j].op = "THASH" => IsHeads(thash, p, j)
  BY <1>2 DEF Headed
<1>4. k \in Nat \ {0} /\ (k + 1) - 1 = k /\ 1 .. k = 1 .. k - 1 \cup {k}
  BY <1>1, <1>2
<1>5. CASE node.op # "THASH"
  <2>1. thash' = thash
    BY <1>5 DEF Layout
  <2>2. thash # 0 => \E j \in 1 .. k : IsHeads(thash, p, j)
    BY <1>3, <1>4
  <2>3. \A j \in 1 .. k : p[j].op = "THASH" => IsHeads(thash, p, j)
    BY <1>2, <1>3, <1>4, <1>5 DEF node
  <2> QED
    BY <1>1, <1>2, <1>4, <2>1, <2>2, <2>3 DEF Headed
<1>6. CASE node.op = "THASH"
  <2>1. thash' = pc /\ thash = 0
    BY <1>6 DEF Layout
  <2>2. IsHeads(pc, p, k)
    BY <1>1, <1>2, <1>6 DEF IsHeads, node
  <2>3. \A j \in 1 .. k - 1 : p[j].op # "THASH"
    <3>1. ASSUME NEW j \in 1 .. k - 1
          PROVE  Place(p)[j] # 0
      <4>1. PICK n \in Nat : n = Len(p)
        BY <1>2 DEF IInv, TypeInv
      <4>2. 1 \in 1 .. n + 1 /\ j \in 1 .. n + 1 /\ 1 <= j
        BY <1>2, <1>4, <4>1 DEF Layout
      <4>3. Last0 <= Place(p)[j] /\ Place(p)[j] \in Nat
        BY <1>2, <4>1, <4>2, Placed, PlacesGrow DEF IInv, TypeInv
      <4>4. Last0 \in Nat /\ Last0 > 0
        BY DEF Last0, Reserved, MaxNumberText
      <4> QED
        BY <4>3, <4>4
    <3> QED
      BY <1>3, <2>1, <3>1 DEF IsHeads
  <2>4. \A j \in 1 .. k : p[j].op = "THASH" => IsHeads(pc, p, j)
    BY <1>4, <2>2, <2>3
  <2> QED
    BY <1>1, <1>2, <1>4, <2>1, <2>2, <2>4 DEF Headed
<1> QED
  BY <1>5, <1>6

\* Every step keeps both.
LEMMA TabledKeeps ==
  ASSUME IInv, Read, Tabled, [Next]_vars
  PROVE  Tabled'
<1>1. CASE Statement /\ status' = "assembling"
  <2>1. Layout /\ status = "assembling" /\ UNCHANGED nodes
    BY <1>1, StatementLays, StatementMoves DEF IInv
  <2> QED
    BY <2>1, ListedKeeps, HeadedKeeps DEF Tabled, Going
<1>2. CASE Statement /\ status' # "assembling"
  <2>1. ~Going'
    BY <1>2, StatementMoves DEF Going
  <2> QED
    BY <2>1 DEF Tabled
<1>3. CASE EndOfSource \/ Link \/ CheckSymbols \/ Fill \/ Export \/ UNCHANGED vars
  BY <1>3, RestMoves DEF Tabled, Listed, Headed
<1> QED
  BY <1>1, <1>2, <1>3 DEF Next

\* Both are empty at first.
LEMMA TabledStarts ==
  ASSUME Init
  PROVE  Tabled
<1>1. next = 1 /\ entries = << >> /\ thash = 0
  BY DEF Init
<1>2. 1 .. 1 - 1 = {} /\ DOMAIN << >> = {}
  OBVIOUS
<1> QED
  BY <1>1, <1>2 DEF Tabled, Listed, Headed
-----------------------------------------------------------------------------
(***************************************************************************)
(* Two statements never share a word.                                      *)
(***************************************************************************)
LEMMA WordsApart ==
  ASSUME NEW p \in Seq(Node), NEW j \in 1 .. Len(p), NEW k \in 1 .. Len(p), j # k,
         NEW d \in Nat, d < Size(p[j]), NEW e \in Nat, e < Size(p[k])
  PROVE  Place(p)[j] + d # Place(p)[k] + e
<1>1. PICK n \in Nat : n = Len(p)
  OBVIOUS
<1>2. j \in 1 .. n + 1 /\ k \in 1 .. n + 1
  BY <1>1
<1>3. PICK a \in Nat, b \in Nat : a = Place(p)[j] /\ b = Place(p)[k]
  BY <1>1, <1>2, Placed
<1>4. PICK s \in Nat, t \in Nat : s = Size(p[j]) /\ t = Size(p[k])
  BY SizeIsNat
<1>5. j < k => a + s <= b
  BY <1>1, <1>2, <1>3, <1>4, PlacesGrow
<1>6. k < j => b + t <= a
  BY <1>1, <1>2, <1>3, <1>4, PlacesGrow
<1>7. j < k \/ k < j
  BY <1>2
<1>8. a + d # b + e
  BY <1>4, <1>5, <1>6, <1>7
<1> QED
  BY <1>3, <1>8

\* The words of the entries, of the heads and of the queues are apart.
Apart ==
  /\ \A i, j \in DOMAIN entries : entries[i].at = entries[j].at => i = j
  /\ thash # 0 => \A i \in DOMAIN entries : \A c \in 0 .. LHV - 1 : entries[i].at # thash + c
  /\ \A n \in Name : \A r \in symbols[n].refs :
       /\ \A i \in DOMAIN entries : r.at # entries[i].at
       /\ thash # 0 => \A c \in 0 .. LHV - 1 : r.at # thash + c

\* They are, because they belong to different statements.
LEMMA ReadIsApart ==
  ASSUME IInv, Read, Tabled, Going
  PROVE  Apart
<1>1. /\ nodes \in Seq(Node) /\ next \in Nat \ {0} /\ entries \in Seq(Entry)
      /\ symbols \in [Name -> Symbol]
  BY DEF IInv, TypeInv
<1>2. PICK p : p = nodes
  OBVIOUS
<1>3. \A k \in 1 .. next - 1 : k \in 1 .. Len(p)
  <2>1. PICK n \in Nat : n = Len(p)
    BY <1>1, <1>2
  <2>2. next <= n + 1
    BY <1>2, <2>1 DEF Read, Reading
  <2> QED
    BY <1>1, <2>1, <2>2
<1>4. \A k \in 1 .. Len(p) : Place(p)[k] \in Nat
  <2>1. PICK n \in Nat : n = Len(p)
    BY <1>1, <1>2
  <2>2. PICK place \in [1 .. n + 1 -> Nat] : place = Place(p)
    BY <1>1, <1>2, <2>1, Placed
  <2>3. \A k \in 1 .. n : k \in 1 .. n + 1
    OBVIOUS
  <2> QED
    BY <2>1, <2>2, <2>3
<1>5. \A i \in DOMAIN entries : \E k \in 1 .. Len(p) : IsEntry(entries[i], p, k)
  BY <1>2, <1>3 DEF Tabled, Listed
<1>6. thash # 0 => \E k \in 1 .. Len(p) : IsHeads(thash, p, k)
  BY <1>2, <1>3 DEF Tabled, Headed
<1>7. \A i, j \in DOMAIN entries : entries[i].at = entries[j].at => i = j
  <2>1. PICK n \in Nat : DOMAIN entries = 1 .. n
    BY <1>1
  <2>2. \A i \in 1 .. n : entries[i].at \in Nat
    <3>1. \A i \in DOMAIN entries : entries[i] \in Entry
      BY <1>1
    <3> QED
      BY <2>1, <3>1 DEF Entry
  <2>3. \A i, j \in 1 .. n : i < j => entries[i].at < entries[j].at
    BY <2>1 DEF Tabled, Listed
  <2>4. \A i, j \in 1 .. n : i < j \/ j < i \/ i = j
    OBVIOUS
  <2>5. \A i, j \in 1 .. n : i < j => entries[i].at # entries[j].at
    BY <2>2, <2>3
  <2> QED
    BY <2>1, <2>4, <2>5
<1>8. ASSUME thash # 0, NEW i \in DOMAIN entries, NEW c \in 0 .. LHV - 1
      PROVE  entries[i].at # thash + c
  <2>1. PICK j \in 1 .. Len(p) : IsEntry(entries[i], p, j)
    BY <1>5
  <2>2. PICK k \in 1 .. Len(p) : IsHeads(thash, p, k)
    BY <1>6, <1>8
  <2>3. j # k /\ Size(p[j]) = 1 /\ Size(p[k]) = LHV
    BY <2>1, <2>2 DEF IsEntry, IsHeads, Size
  <2>4. entries[i].at = Place(p)[j] + 0 /\ thash = Place(p)[k]
    BY <1>4, <2>1, <2>2 DEF IsEntry, IsHeads
  <2>5. PICK zero \in Nat : zero = 0
    OBVIOUS
  <2>6. c \in Nat /\ c < LHV /\ zero < 1
    BY <2>5, AssemblerAssumption
  <2>7. Place(p)[j] + zero # Place(p)[k] + c
    BY <1>1, <1>2, <2>3, <2>6, WordsApart
  <2> QED
    BY <2>4, <2>5, <2>7
<1>9. ASSUME NEW n \in Name, NEW r \in symbols[n].refs
      PROVE  /\ \A i \in DOMAIN entries : r.at # entries[i].at
             /\ thash # 0 => \A c \in 0 .. LHV - 1 : r.at # thash + c
  <2>1. PICK j \in 1 .. Len(p) : Operand(p[j]) = n /\ r.at = Place(p)[j]
    BY <1>2 DEF Read, Queued
  <2>2. p[j].op \notin {"HASH", "THASH"} /\ Size(p[j]) = 1
    BY <2>1, NameAssumption DEF Operand, Size
  <2>3. PICK zero \in Nat : zero = 0
    OBVIOUS
  <2>4. r.at = Place(p)[j] + zero /\ zero < 1
    BY <1>4, <2>1, <2>3
  <2>5. ASSUME NEW i \in DOMAIN entries
        PROVE  r.at # entries[i].at
    <3>1. PICK k \in 1 .. Len(p) : IsEntry(entries[i], p, k)
      BY <1>5
    <3>2. j # k /\ Size(p[k]) = 1
      BY <2>2, <3>1 DEF IsEntry, Size
    <3>3. Place(p)[j] + zero # Place(p)[k] + zero
      BY <1>1, <1>2, <2>2, <2>4, <3>2, WordsApart
    <3>4. entries[i].at = Place(p)[k] + zero
      BY <1>4, <2>3, <3>1 DEF IsEntry
    <3> QED
      BY <2>4, <3>3, <3>4
  <2>6. ASSUME thash # 0, NEW c \in 0 .. LHV - 1
        PROVE  r.at # thash + c
    <3>1. PICK k \in 1 .. Len(p) : IsHeads(thash, p, k)
      BY <1>6, <2>6
    <3>2. j # k /\ Size(p[k]) = LHV
      BY <2>2, <3>1 DEF IsHeads, Size
    <3>3. c \in Nat /\ c < LHV
      BY AssemblerAssumption
    <3>4. Place(p)[j] + zero # Place(p)[k] + c
      BY <1>1, <1>2, <2>2, <2>4, <3>2, <3>3, WordsApart
    <3> QED
      BY <2>4, <3>1, <3>4 DEF IsHeads
  <2> QED
    BY <2>5, <2>6
<1> QED
  BY <1>7, <1>8, <1>9 DEF Apart
-----------------------------------------------------------------------------
(***************************************************************************)
(* What has not been laid out yet is nought, and so are the heads of the   *)
(* chains until the linking.                                               *)
(***************************************************************************)
Blank ==
  status = "assembling" =>
    /\ \A a \in DOMAIN core : a >= pc => core[a].value = 0
    /\ thash # 0 => \A c \in 0 .. LHV - 1 : core[thash + c].value = 0

\* Every step keeps those words nought.
LEMMA BlankKeeps ==
  ASSUME IInv, Blank, [Next]_vars
  PROVE  Blank'
<1>1. CASE Statement /\ status' = "assembling"
  <2>1. Layout /\ status = "assembling"
    BY <1>1, StatementLays, StatementMoves DEF IInv
  <2>2. /\ pc \in Nat /\ thash \in Nat /\ DOMAIN core = 0 .. MAX_WORDS - 1
        /\ DOMAIN core' = DOMAIN core /\ MAX_WORDS \in Nat /\ LHV \in Nat
    BY <2>1, AssemblerAssumption DEF IInv, TypeInv, Layout
  <2>3. pc' \in Nat /\ pc <= pc' /\ pc' <= MAX_WORDS
    BY <1>1, StatementKeeps, PcGrows DEF IInv, TypeInv
  <2>4. \A a \in DOMAIN core : a >= pc => core[a].value = 0
    BY <2>1 DEF Blank
  <2>5. ASSUME NEW a \in DOMAIN core, a >= pc'
        PROVE  core'[a].value = 0
    <3>1. a \in Nat /\ a >= pc
      BY <2>2, <2>3, <2>5
    <3>2. CASE a = pc
      <4>1. pc' # pc + 1
        BY <2>2, <2>5, <3>2
      <4> QED
        BY <2>1, <2>4, <2>5, <3>1, <3>2, <4>1 DEF Layout
    <3>3. CASE a # pc
      BY <2>1, <2>4, <3>1, <3>3 DEF Layout
    <3> QED
      BY <3>2, <3>3
  <2>6. ASSUME thash' # 0, NEW c \in 0 .. LHV - 1
        PROVE  core'[thash' + c].value = 0
    <3>1. CASE node.op = "THASH"
      <4>1. thash' = pc /\ core' = core /\ pc' = pc + LHV
        BY <2>1, <3>1 DEF Layout, Size
      <4>2. pc + c \in DOMAIN core /\ pc + c >= pc
        BY <2>2, <2>3, <4>1
      <4> QED
        BY <2>4, <4>1, <4>2
    <3>2. CASE node.op # "THASH"
      <4>1. thash' = thash
        BY <2>1, <3>2 DEF Layout
      <4>2. core[thash + c].value = 0
        BY <2>1, <2>6, <4>1 DEF Blank
      <4>3. thash + LHV <= pc /\ pc <= MAX_WORDS
        BY <2>1, <2>6, <4>1 DEF IInv, TypeInv, ChainInv, Threaded
      <4>4. thash + c \in DOMAIN core /\ thash + c # pc
        BY <2>2, <4>3
      <4> QED
        BY <2>1, <4>1, <4>2, <4>4 DEF Layout
    <3> QED
      BY <3>1, <3>2
  <2> QED
    BY <2>2, <2>5, <2>6 DEF Blank
<1>2. CASE Statement /\ status' # "assembling"
  BY <1>2 DEF Blank
<1>3. CASE EndOfSource \/ Link \/ CheckSymbols \/ Fill \/ Export \/ UNCHANGED vars
  <2>1. status' = "assembling" => UNCHANGED <<status, pc, core, thash>>
    BY <1>3 DEF EndOfSource, Link, CheckSymbols, Fill, Export, vars, chains, Stop
  <2> QED
    BY <2>1 DEF Blank
<1> QED
  BY <1>1, <1>2, <1>3 DEF Next

\* Core is nought at first.
LEMMA BlankStarts ==
  ASSUME Init
  PROVE  Blank
<1>1. \A a \in DOMAIN core : core[a].value = 0
  BY DEF Init
<1>2. thash = 0
  BY DEF Init
<1> QED
  BY <1>1, <1>2 DEF Blank
-----------------------------------------------------------------------------
(***************************************************************************)
(* The chains, while they are threaded: from the head of each the links    *)
(* lead through the entries after a certain one.                           *)
(***************************************************************************)
After(c, from) == {i \in DOMAIN entries : i > from /\ HashName[entries[i].text] = c}
Leads(a, later) ==
  IF later = {} THEN core[a].value = 0
  ELSE core[a].value = entries[CHOOSE j \in later : \A k \in later : j <= k].at

Threads(from) ==
  /\ \A c \in 0 .. LHV - 1 : Leads(thash + c, After(c, from))
  /\ \A i \in DOMAIN entries : i > from => Leads(entries[i].at, After(HashName[entries[i].text], i))

Chained ==
  /\ status \in {"filling", "done"} => linked = Len(entries)
  /\ status \in {"linking", "filling", "done"} /\ thash # 0 => Threads(Len(entries) - linked)

\* Words that stay as they are keep the chains.
LEMMA ThreadsKeep ==
  ASSUME NEW from, Threads(from), UNCHANGED <<entries, thash>>,
         \A i \in DOMAIN entries : core'[entries[i].at].value = core[entries[i].at].value,
         \A c \in 0 .. LHV - 1 : core'[thash + c].value = core[thash + c].value
  PROVE  Threads(from)'
<1>1. \A c : \A i : After(c, i)' = After(c, i)
  BY DEF After
<1>2. ASSUME NEW c \in 0 .. LHV - 1
      PROVE  Leads(thash + c, After(c, from))'
  <2>1. Leads(thash + c, After(c, from))
    BY DEF Threads
  <2> QED
    BY <1>1, <2>1 DEF Leads
<1>3. ASSUME NEW i \in DOMAIN entries, i > from
      PROVE  Leads(entries[i].at, After(HashName[entries[i].text], i))'
  <2>1. Leads(entries[i].at, After(HashName[entries[i].text], i))
    BY <1>3 DEF Threads
  <2> QED
    BY <1>1, <2>1 DEF Leads
<1> QED
  BY <1>2, <1>3 DEF Threads

\* Linking puts the last entry that is not on a chain at the head of its own.
LEMMA LinkThreads ==
  ASSUME IInv, Read, Tabled, Link, thash # 0, Threads(Len(entries) - linked)
  PROVE  Threads(Len(entries) - linked)'
<1>1. /\ entries \in Seq(Entry) /\ linked \in Nat /\ thash \in Nat
      /\ core \in [0 .. MAX_WORDS - 1 -> [value : Int, two : Nat]]
      /\ pc \in Nat /\ pc <= MAX_WORDS
      /\ LHV \in Nat /\ MAX_WORDS \in Nat /\ HashName \in [Text -> 0 .. LHV - 1]
  BY AssemblerAssumption DEF IInv, TypeInv
<1>2. PICK n \in Nat : n = Len(entries)
  BY <1>1
<1>0. /\ linked \in Nat /\ thash \in Nat /\ pc \in Nat /\ pc <= MAX_WORDS
      /\ LHV \in Nat /\ MAX_WORDS \in Nat
  BY <1>1
<1>3. PICK m \in Int : m = n - linked
  BY <1>0
<1>4. /\ linked < n /\ DOMAIN entries = 1 .. n /\ m \in 1 .. n
      /\ UNCHANGED <<entries, thash>> /\ linked' = linked + 1
  BY <1>1, <1>2, <1>3 DEF Link, chains
<1>5. Len(entries)' - linked' = m - 1
  BY <1>1, <1>2, <1>3, <1>4
<1>6. Apart
  BY ReadIsApart DEF Link, Going
<1>7. \A i \in 1 .. n : entries[i] \in Entry /\ entries[i].at \in Nat /\ entries[i].at < pc
                        /\ HashName[entries[i].text] \in 0 .. LHV - 1
  <2>1. \A i \in 1 .. n : entries[i] \in Entry
    BY <1>1, <1>4
  <2>2. \A i \in 1 .. n : entries[i].at < pc
    BY <1>4 DEF IInv, ChainInv, Threaded, Link
  <2> QED
    BY <1>1, <2>1, <2>2 DEF Entry
<1>8. thash + LHV <= pc
  BY DEF IInv, ChainInv, Threaded, Link
<1>9. PICK a, c0, h : /\ a = entries[m].at /\ c0 = HashName[entries[m].text] /\ h = thash + c0
                      /\ a \in Nat /\ a < pc /\ c0 \in 0 .. LHV - 1
  BY <1>4, <1>7
<1>10. a \in 0 .. MAX_WORDS - 1 /\ h \in 0 .. MAX_WORDS - 1 /\ h \in Nat
       /\ \A c \in 0 .. LHV - 1 : thash + c \in 0 .. MAX_WORDS - 1
  <2>1. a \in Nat /\ a < pc /\ c0 \in 0 .. LHV - 1 /\ h = thash + c0
    BY <1>9
  <2> QED
    BY <1>0, <1>8, <2>1
<1>11. \A i \in 1 .. n : entries[i].at \in 0 .. MAX_WORDS - 1
  BY <1>1, <1>7
<1>12. a # h /\ \A c \in 0 .. LHV - 1 : thash + c # a /\ (c # c0 => thash + c # h)
  <2>1. \A c \in 0 .. LHV - 1 : entries[m].at # thash + c
    BY <1>4, <1>6 DEF Apart
  <2>2. a # h /\ \A c \in 0 .. LHV - 1 : thash + c # a
    BY <1>9, <2>1
  <2>3. \A c \in 0 .. LHV - 1 : c # c0 => thash + c # h
    BY <1>0, <1>9
  <2> QED
    BY <2>2, <2>3
<1>13. \A i \in 1 .. n : entries[i].at # h /\ (i # m => entries[i].at # a)
  BY <1>4, <1>6, <1>9 DEF Apart
<1>14. LinkedNext = entries[m] /\ ChainHead(LinkedNext.text) = h
  BY <1>2, <1>3, <1>9 DEF LinkedNext, ChainHead
<1>15. core' = [core EXCEPT ![a].value = core[h].value, ![h].value = a]
  BY <1>9, <1>14 DEF Link
<1>16. /\ core'[a].value = core[h].value /\ core'[h].value = a
       /\ \A w \in 0 .. MAX_WORDS - 1 : w # a /\ w # h => core'[w] = core[w]
  <2> DEFINE first == [core EXCEPT ![a].value = core[h].value]
  <2>1. core[h].value \in Int
    BY <1>1, <1>10
  <2>2. /\ first \in [0 .. MAX_WORDS - 1 -> [value : Int, two : Nat]]
        /\ first[a].value = core[h].value
        /\ \A w \in 0 .. MAX_WORDS - 1 : w # a => first[w] = core[w]
    BY <1>1, <1>10, <2>1
  <2>3. core' = [first EXCEPT ![h].value = a]
    BY <1>15
  <2> HIDE DEF first
  <2> QED
    BY <1>10, <1>12, <2>2, <2>3
<1>17. Threads(m)
  BY <1>2, <1>3
\* The new chain.
<1>18. \A c, i : After(c, i)' = After(c, i)
  BY <1>4 DEF After
<1>19. \A c : After(c, m - 1) = IF c = c0 THEN After(c, m) \cup {m} ELSE After(c, m)
  BY <1>4, <1>9 DEF After
<1>20. (CHOOSE j \in After(c0, m - 1) : \A k \in After(c0, m - 1) : j <= k) = m
  <2>1. m \in After(c0, m - 1) /\ \A k \in After(c0, m - 1) : m <= k /\ k \in Nat
    BY <1>4, <1>9 DEF After
  <2> QED
    BY <1>4, <2>1
<1>21. ASSUME NEW c \in 0 .. LHV - 1
       PROVE  Leads(thash + c, After(c, m - 1))'
  <2>1. CASE c = c0
    <3>1. After(c0, m - 1) # {}
      BY <1>19
    <3>2. core'[thash' + c].value = entries'[CHOOSE j \in After(c0, m - 1) : \A k \in After(c0, m - 1) : j <= k].at
      BY <1>4, <1>9, <1>16, <1>20, <2>1
    <3> QED
      BY <1>18, <2>1, <3>1, <3>2 DEF Leads
  <2>2. CASE c # c0
    <3>1. Leads(thash + c, After(c, m)) /\ After(c, m - 1) = After(c, m)
      BY <1>17, <1>19, <2>2 DEF Threads
    <3>2. core'[thash + c] = core[thash + c]
      BY <1>10, <1>12, <1>16, <2>2
    <3> QED
      BY <1>4, <1>18, <3>1, <3>2 DEF Leads
  <2> QED
    BY <2>1, <2>2
<1>22. ASSUME NEW i \in 1 .. n, i > m - 1
       PROVE  Leads(entries[i].at, After(HashName[entries[i].text], i))'
  <2>1. CASE i = m
    <3>1. Leads(h, After(c0, m))
      BY <1>9, <1>17 DEF Threads
    <3>2. core'[a].value = core[h].value
      BY <1>16
    <3> QED
      BY <1>4, <1>9, <1>18, <2>1, <3>1, <3>2 DEF Leads
  <2>2. CASE i # m
    <3>1. Leads(entries[i].at, After(HashName[entries[i].text], i))
      BY <1>4, <1>17, <1>22, <2>2 DEF Threads
    <3>2. core'[entries[i].at] = core[entries[i].at]
      BY <1>11, <1>13, <1>16, <2>2
    <3> QED
      BY <1>4, <1>18, <3>1, <3>2 DEF Leads
  <2> QED
    BY <2>1, <2>2
<1>23. \A c \in 0 .. LHV - 1 : Leads(thash + c, After(c, m - 1))'
  BY <1>21
<1>24. \A i \in DOMAIN entries : i > m - 1 => Leads(entries[i].at, After(HashName[entries[i].text], i))'
  BY <1>4, <1>22
<1> QED
  BY <1>4, <1>5, <1>23, <1>24 DEF Threads

\* Filling a queue leaves the chains alone.
LEMMA FillWrites ==
  ASSUME Fill
  PROVE  \/ core' = core
         \/ /\ DOMAIN core' = DOMAIN core
            /\ \E n \in Name : \A a \in DOMAIN core : (\A r \in symbols[n].refs : r.at # a) => core'[a] = core[a]
<1>1. CASE Stop("error") \/ Stop("panic")
  BY <1>1 DEF Stop
<1>2. CASE ~Stop("error") /\ ~Stop("panic")
  <2>1. PICK n \in Name :
          core' = [a \in DOMAIN core |->
                     IF \E r \in symbols[n].refs : r.at = a
                     THEN [core[a] EXCEPT !.value =
                             Filled(n, CHOOSE r \in symbols[n].refs : r.at = a)]
                     ELSE core[a]]
    BY <1>2, Zenon DEF Fill
  <2>2. DOMAIN core' = DOMAIN core
    BY <2>1, Zenon
  <2>3. \A a \in DOMAIN core : (\A r \in symbols[n].refs : r.at # a) => core'[a] = core[a]
    BY <2>1, Zenon
  <2> QED
    BY <2>2, <2>3
<1> QED
  BY <1>1, <1>2

\* So it keeps them.
LEMMA FillThreads ==
  ASSUME IInv, Read, Tabled, Fill, thash # 0, NEW from, Threads(from)
  PROVE  Threads(from)'
<1>1. UNCHANGED <<entries, thash>> /\ Going
  BY DEF Fill, Stop, chains, Going
<1>2. CASE core' = core
  BY <1>1, <1>2, ThreadsKeep
<1>3. CASE core' # core
  <2>1. PICK n \in Name : \A a \in DOMAIN core : (\A r \in symbols[n].refs : r.at # a) => core'[a] = core[a]
    BY <1>3, FillWrites
  <2>2. Apart
    BY <1>1, ReadIsApart
  <2>3. /\ thash \in Nat /\ pc \in Nat /\ pc <= MAX_WORDS /\ LHV \in Nat /\ MAX_WORDS \in Nat
        /\ thash + LHV <= pc /\ DOMAIN core = 0 .. MAX_WORDS - 1
    BY AssemblerAssumption DEF IInv, TypeInv, ChainInv, Threaded, Fill
  <2>4. \A c \in 0 .. LHV - 1 : thash + c \in DOMAIN core
    BY <2>3
  <2>5. \A i \in DOMAIN entries : entries[i].at \in DOMAIN core
    <3>1. \A i \in DOMAIN entries : entries[i] \in Entry
      BY DEF IInv, TypeInv
    <3>2. \A i \in DOMAIN entries : entries[i].at \in Nat /\ entries[i].at < pc
      BY <3>1 DEF IInv, ChainInv, Threaded, Fill, Entry
    <3> QED
      BY <2>3, <3>2
  <2>6. \A c \in 0 .. LHV - 1 : core'[thash + c].value = core[thash + c].value
    BY <2>1, <2>2, <2>4 DEF Apart
  <2>7. \A i \in DOMAIN entries : core'[entries[i].at].value = core[entries[i].at].value
    BY <2>1, <2>2, <2>5 DEF Apart
  <2> QED
    BY <1>1, <2>6, <2>7, ThreadsKeep
<1> QED
  BY <1>2, <1>3

\* Every step keeps the chains.
LEMMA ChainedKeeps ==
  ASSUME IInv, Read, Tabled, Blank, Chained, [Next]_vars
  PROVE  Chained'
<1>1. entries \in Seq(Entry)
  BY DEF IInv, TypeInv
<1>2. CASE UNCHANGED <<core, entries, thash, linked>>
           /\ (status' \in {"linking", "filling", "done"} => status \in {"linking", "filling", "done"})
           /\ (status' \in {"filling", "done"} => linked = Len(entries))
  <2>1. thash # 0 /\ status' \in {"linking", "filling", "done"} => Threads(Len(entries) - linked)
    BY <1>2 DEF Chained
  <2>2. Threads(Len(entries) - linked) => Threads(Len(entries) - linked)'
    <3>1. PICK from : from = Len(entries) - linked
      OBVIOUS
    <3>2. Threads(from) => Threads(from)'
      BY <1>2, ThreadsKeep
    <3>3. Threads(from)' => Threads(Len(entries) - linked)'
      BY <1>2, <3>1 DEF Threads
    <3> QED
      BY <3>1, <3>2, <3>3
  <2> QED
    BY <1>2, <2>1, <2>2 DEF Chained
<1>3. CASE Statement
  <2>1. status' \notin {"linking", "filling", "done"}
    BY <1>3, StatementMoves
  <2> QED
    BY <2>1 DEF Chained
<1>4. CASE EndOfSource
  <2>1. CASE status' = "linking"
    <3>1. UNCHANGED <<core, entries, thash, linked>> /\ linked = 0 /\ status = "assembling"
      BY <1>4, <2>1 DEF EndOfSource, Stop, chains, Read, Bounds
    <3>2. ASSUME thash # 0
          PROVE  Threads(Len(entries) - linked)'
      <4>1. PICK n \in Nat : n = Len(entries) /\ DOMAIN entries = 1 .. n
        BY <1>1
      <4>2. Len(entries)' - linked' = n
        BY <3>1, <4>1
      <4>3. \A i \in 1 .. n : ~(i > n)
        OBVIOUS
      <4>4. \A c : After(c, n)' = {}
        BY <3>1, <4>1, <4>3 DEF After
      <4>5. \A c \in 0 .. LHV - 1 : core[thash + c].value = 0
        BY <3>1, <3>2 DEF Blank
      <4>6. \A c \in 0 .. LHV - 1 : Leads(thash + c, After(c, n))'
        BY <3>1, <4>4, <4>5 DEF Leads
      <4>7. \A i \in DOMAIN entries : ~(i > n)
        BY <4>1, <4>3
      <4> QED
        BY <3>1, <4>2, <4>6, <4>7 DEF Threads
    <3> QED
      BY <2>1, <3>1, <3>2 DEF Chained
  <2>2. CASE status' # "linking"
    <3>1. status' \notin {"linking", "filling", "done"}
      BY <1>4, <2>2 DEF EndOfSource, Stop
    <3> QED
      BY <3>1 DEF Chained
  <2> QED
    BY <2>1, <2>2
<1>5. CASE Link
  <2>1. status' = "linking" /\ status = "linking" /\ thash' = thash
    BY <1>5 DEF Link, chains
  <2>2. thash # 0 => Threads(Len(entries) - linked)
    BY <2>1 DEF Chained
  <2>3. thash # 0 => Threads(Len(entries) - linked)'
    BY <1>5, <2>2, LinkThreads
  <2> QED
    BY <2>1, <2>3 DEF Chained
<1>6. CASE Fill
  <2>1. /\ UNCHANGED <<entries, thash, linked>> /\ status = "filling"
        /\ status' \in {"filling", "error", "panic"}
    BY <1>6 DEF Fill, Stop, chains
  <2>2. thash # 0 => Threads(Len(entries) - linked)
    BY <2>1 DEF Chained
  <2>3. PICK from : from = Len(entries) - linked
    OBVIOUS
  <2>4. thash # 0 => Threads(from)'
    BY <1>6, <2>2, <2>3, FillThreads
  <2>5. Len(entries)' - linked' = from
    BY <2>1, <2>3
  <2>6. Threads(from)' => Threads(Len(entries) - linked)'
    BY <2>5 DEF Threads
  <2> QED
    BY <2>1, <2>4, <2>6 DEF Chained
<1>7. CASE CheckSymbols \/ Export \/ UNCHANGED vars
  <2>1. UNCHANGED <<core, entries, thash, linked>>
    BY <1>7 DEF CheckSymbols, Export, vars, chains, Stop
  <2>2. /\ status' \in {"linking", "filling", "done"} => status \in {"linking", "filling", "done"}
        /\ status' \in {"filling", "done"} => linked = Len(entries)
    BY <1>7 DEF CheckSymbols, Export, vars, Stop, Chained
  <2> QED
    BY <1>2, <2>1, <2>2
<1> QED
  BY <1>3, <1>4, <1>5, <1>6, <1>7 DEF Next

(***************************************************************************)
(* The entries are those of the source, and what has been linked of them   *)
(* is on its chain, in every assembly.  (HASH, THASH, the linking loop)    *)
(***************************************************************************)
THEOREM ChainedInductive == Spec => [](Tabled /\ Blank /\ Chained)
<1>1. Init => Tabled /\ Blank /\ Chained
  BY TabledStarts, BlankStarts DEF Init, Chained
<1>2. IInv /\ Read /\ (Tabled /\ Blank /\ Chained) /\ [Next]_vars => (Tabled /\ Blank /\ Chained)'
  BY TabledKeeps, BlankKeeps, ChainedKeeps
<1> QED
  BY <1>1, <1>2, Inductive, ReadInductive, PTL DEF Spec

(***************************************************************************)
(* When the chains have been linked, a search that starts at the head of   *)
(* one meets exactly the names that hash to it, in the order of the        *)
(* source, and then nought, and filling the queues leaves it so.  (the     *)
(* linking loop)                                                           *)
(***************************************************************************)
THEOREM ChainsExact == Spec => []ChainsAreExact
<1>1. ASSUME IInv, Chained
      PROVE  ChainsAreExact
  <2> SUFFICES ASSUME status \in {"filling", "done"}, thash # 0, NEW c \in 0 .. LHV - 1
               PROVE  LET chain == {i \in DOMAIN entries : HashName[entries[i].text] = c}
                          Later(i) == {j \in chain : j > i}
                      IN  /\ Leads(thash + c, chain)
                          /\ \A i \in chain : Leads(entries[i].at, Later(i))
    BY DEF ChainsAreExact, Leads
  <2>1. PICK n \in Nat : n = Len(entries) /\ DOMAIN entries = 1 .. n
    BY <1>1 DEF IInv, TypeInv
  <2>2. linked = n
    BY <1>1, <2>1 DEF Chained
  <2>3. Len(entries) - linked = 0
    BY <2>1, <2>2
  <2>4. Threads(0)
    BY <1>1, <2>3 DEF Chained
  <2>5. \A i \in 1 .. n : i > 0
    OBVIOUS
  <2>6. {i \in DOMAIN entries : HashName[entries[i].text] = c} = After(c, 0)
    BY <2>1, <2>5 DEF After
  <2>7. \A i \in After(c, 0) : /\ i \in DOMAIN entries /\ i > 0 /\ HashName[entries[i].text] = c
                               /\ {j \in After(c, 0) : j > i} = After(c, i)
    BY <2>1, <2>5 DEF After
  <2>8. Leads(thash + c, After(c, 0))
    BY <2>4 DEF Threads
  <2>9. \A i \in After(c, 0) : Leads(entries[i].at, {j \in After(c, 0) : j > i})
    BY <2>4, <2>7 DEF Threads
  <2> QED
    BY <2>6, <2>8, <2>9
<1> QED
  BY <1>1, Inductive, ChainedInductive, PTL
-----------------------------------------------------------------------------
(***************************************************************************)
(* An acceptable program goes on: every name whose definition has been     *)
(* read is settled, for EQU and IDENT come before what they define is used.*)
(***************************************************************************)
Complete == \A n \in Name : \A j \in Definitions(nodes, n) : j < next => symbols[n].kind # "undefined"
Accepted == Acceptable(nodes) => Going /\ Complete

\* What the table says of a name whose definition has been read.
LEMMA Looked ==
  ASSUME IInv, Read, Known, Accepted, Acceptable(nodes), NEW n \in Name
  PROVE  /\ Defined(n) => HasMeaning(nodes, n)
         /\ symbols[n].kind = "alias" =>
              /\ symbols[n].alias \in Name /\ symbols[n].alias = Target(nodes, n) /\ Alias(nodes, n)
              /\ HasMeaning(nodes, symbols[n].alias) /\ ~Alias(nodes, symbols[n].alias)
         /\ Before(nodes, next, n) =>
              /\ IsLabel(nodes, n) => symbols[n].kind = "address"
              /\ Alias(nodes, n) => symbols[n].kind = "alias"
              /\ ~Alias(nodes, n) => symbols[n].kind \in {"address", "constant"}
              /\ ~Alias(nodes, n) /\ ~IsLabel(nodes, n) => symbols[n].kind = "constant"
<1>1. nodes \in Seq(Node) /\ next \in Nat \ {0}
  BY DEF IInv, TypeInv
<1>2. PICK p, s : p = nodes /\ s = symbols[n]
  OBVIOUS
<1>3. DefinedOnce(p) /\ KnownName(n) /\ Complete /\ \A k \in DOMAIN p : AcceptableStatement(p, k)
  BY <1>2 DEF Known, Accepted, Acceptable
<1>4. symbols[n].kind = "alias" => symbols[n].alias \in Name
  BY DEF IInv, Consistent
<1>5. CASE n \in DOMAIN Predefined
  <2>1. Definitions(p, n) = {}
    BY <1>1, <1>2, <1>3, <1>5, OneDefinition
  <2>2. s.kind = "constant"
    BY <1>2, <1>3, <1>5 DEF KnownName
  <2> QED
    BY <1>2, <1>5, <2>1, <2>2 DEF Alias, HasMeaning, IsLabel
<1>6. ASSUME n \notin DOMAIN Predefined, NEW j \in Definitions(p, n), j < next
      PROVE  /\ HasMeaning(p, n) /\ p[j].op \in Defining /\ (Alias(p, n) <=> p[j].op = "EQU")
             /\ IsLabel(p, n) <=> p[j].op \in Labelling
             /\ p[j].op \in Labelling => s.kind = "address"
             /\ p[j].op = "EQU" => s.kind = "alias" /\ s.alias = p[j].of /\ Target(p, n) = p[j].of
             /\ p[j].op = "IDENT" => s.kind = "constant"
  <2>1. Settled(s, p[j], Place(p)[j]) /\ s.kind # "undefined"
    BY <1>2, <1>3, <1>6 DEF KnownName, Complete
  <2>2. \A i \in Definitions(p, n) : i = j
    BY <1>1, <1>2, <1>3, OneDefinition
  <2>3. j = Definition(p, n) /\ p[j].op \in Defining
    BY <1>1, <1>2, <1>3, OneDefinition DEF Definitions
  <2>4. HasMeaning(p, n) /\ (Alias(p, n) <=> p[j].op = "EQU")
    BY <2>2 DEF HasMeaning, Alias
  <2>5. IsLabel(p, n) <=> p[j].op \in Labelling
    BY <2>2 DEF IsLabel, Labelling
  <2> QED
    BY <2>1, <2>3, <2>4, <2>5 DEF Settled, Target
<1>7. CASE n \notin DOMAIN Predefined /\ \E j \in Definitions(p, n) : j < next
  <2>1. PICK j \in Definitions(p, n) : j < next
    BY <1>7
  <2>2. /\ HasMeaning(p, n) /\ p[j].op \in Defining /\ (Alias(p, n) <=> p[j].op = "EQU")
        /\ IsLabel(p, n) <=> p[j].op \in Labelling
        /\ p[j].op \in Labelling => s.kind = "address"
        /\ p[j].op = "EQU" => s.kind = "alias" /\ s.alias = p[j].of /\ Target(p, n) = p[j].of
        /\ p[j].op = "IDENT" => s.kind = "constant"
    BY <1>6, <1>7, <2>1
  <2>3. p[j].op = "EQU" => HasMeaning(p, p[j].of) /\ ~Alias(p, p[j].of)
    <3>1. AcceptableStatement(p, j)
      BY <1>3, <2>1 DEF Definitions
    <3> QED
      BY <3>1 DEF AcceptableStatement
  <2>4. p[j].op \in Labelling \/ p[j].op = "EQU" \/ p[j].op = "IDENT"
    BY <2>2 DEF Labelling
  <2>5. p[j].op \in Labelling => p[j].op # "EQU" /\ p[j].op # "IDENT"
    BY DEF Labelling
  <2> QED
    BY <1>2, <1>4, <2>2, <2>3, <2>4, <2>5
<1>8. CASE n \notin DOMAIN Predefined /\ ~\E j \in Definitions(p, n) : j < next
  <2>1. \A j \in Definitions(p, n) : j >= next
    BY <1>1, <1>2, <1>8 DEF Definitions
  <2>2. Unsettled(n)
    BY <1>2, <1>3, <1>8, <2>1 DEF KnownName
  <2>3. ~Before(p, next, n)
    BY <1>8 DEF Before
  <2> QED
    BY <1>2, <2>2, <2>3 DEF Unsettled, Defined
<1> QED
  BY <1>5, <1>7, <1>8

\* What has a meaning has been read when the program has.
LEMMA AllRead ==
  ASSUME IInv, Read, next > Len(nodes), NEW n
  PROVE  HasMeaning(nodes, n) => Before(nodes, next, n)
<1>1. PICK last \in Nat : last = Len(nodes) /\ DOMAIN nodes = 1 .. last
  BY DEF IInv, TypeInv
<1>2. \A j \in Definitions(nodes, n) : j < next
  BY <1>1 DEF Definitions, IInv, TypeInv
<1> QED
  BY <1>2 DEF HasMeaning, Before

\* A queued word was queued by a statement that has been read.
LEMMA QueuedBefore ==
  ASSUME IInv, Read, Going, NEW n \in Name, NEW r \in symbols[n].refs
  PROVE  \E k \in 1 .. next - 1 : /\ k \in 1 .. Len(nodes)
                                  /\ n \in Uses(nodes[k]) /\ r.at = Place(nodes)[k]
                                  /\ IsReference(r, Place(nodes)[k], nodes[k])
<1>1. nodes \in Seq(Node) /\ next \in Nat \ {0} /\ pc \in Nat /\ symbols \in [Name -> Symbol]
  BY DEF IInv, TypeInv
<1>2. PICK k \in 1 .. Len(nodes) : k <= next /\ Operand(nodes[k]) = n /\ r.at = Place(nodes)[k]
  BY DEF Read, Queued
<1>3. r.at < pc
  BY DEF IInv, Consistent, Limit, Going
<1>4. k # next
  BY <1>1, <1>2, <1>3 DEF Read, Reading
<1>5. k \in 1 .. next - 1
  <2>1. k \in Nat \ {0}
    OBVIOUS
  <2> QED
    BY <1>1, <1>2, <1>4, <2>1
<1>6. Operand(nodes[k]) # "" /\ n \in Uses(nodes[k])
  BY <1>2, NameAssumption DEF Uses
<1>7. PICK q \in symbols[n].refs : IsReference(q, Place(nodes)[k], nodes[k])
  BY <1>2, <1>5, <1>6 DEF Read, Queued
<1>8. q.at = r.at
  BY <1>2, <1>7 DEF IsReference
<1>9. q = r
  BY <1>8 DEF IInv, Consistent
<1> QED
  BY <1>2, <1>5, <1>6, <1>7, <1>9

\* The words of an acceptable program fit.
LEMMA Room ==
  ASSUME IInv, Read, Acceptable(nodes), next <= Len(nodes)
  PROVE  Fits(Size(node))
<1>1. nodes \in Seq(Node) /\ next \in Nat \ {0}
  BY DEF IInv, TypeInv
<1>0. PICK n \in Nat : n = Len(nodes)
  BY <1>1
<1>2. PICK p, k : p = nodes /\ k = next /\ n = Len(p)
  BY <1>0
<1>3. k \in 1 .. n + 1 /\ n + 1 \in 1 .. n + 1 /\ k < n + 1
  BY <1>1, <1>2
<1>4. Place(p)[k] + Size(p[k]) <= Place(p)[n + 1]
  BY <1>1, <1>2, <1>3, PlacesGrow
<1>5. PICK a \in Nat, b \in Nat, s \in Nat : a = Place(p)[k] /\ b = Place(p)[n + 1] /\ s = Size(p[k])
  BY <1>1, <1>2, <1>3, Placed, SizeIsNat
<1>6. b <= MAX_WORDS /\ MAX_WORDS \in Nat
  BY <1>2, <1>5, AssemblerAssumption DEF Acceptable
<1>7. a + s <= MAX_WORDS
  BY <1>4, <1>5, <1>6
<1>8. pc = a /\ node = p[k]
  BY <1>2, <1>5 DEF Read, Reading, node
<1> QED
  BY <1>5, <1>7, <1>8 DEF Fits

\* A statement that defines a name finds it unsettled, and unused if it is
\* EQU or IDENT.
LEMMA Fresh ==
  ASSUME IInv, Read, Known, Acceptable(nodes), status = "assembling", next <= Len(nodes),
         node.op \in Defining
  PROVE  /\ node.name \in Name /\ Unsettled(node.name)
         /\ \A j \in Definitions(nodes, node.name) : j = next
         /\ node.op \in {"EQU", "IDENT"} => symbols[node.name].kind = "absent"
<1>1. nodes \in Seq(Node) /\ next \in Nat \ {0} /\ Going
  BY DEF IInv, TypeInv, Going
<1>2. PICK p, k, n : p = nodes /\ k = next /\ n = node.name
  OBVIOUS
<1>3. /\ DefinedOnce(p) /\ k \in 1 .. Len(p) /\ k \in Nat \ {0} /\ node = p[k]
      /\ \A j \in DOMAIN p : AcceptableStatement(p, j)
  BY <1>1, <1>2 DEF Acceptable, node
<1>4. /\ n \in Name /\ k \in Definitions(p, n) /\ \A j \in Definitions(p, n) : j = k
      /\ n \notin DOMAIN Predefined
  BY <1>1, <1>2, <1>3, Defines, OneDefinition
<1>5. \A j \in Definitions(p, n) : j >= k
  BY <1>3, <1>4
<1>6. KnownName(n) /\ Unsettled(n)
  BY <1>1, <1>2, <1>3, <1>4, <1>5 DEF Known, KnownName
<1>7. ASSUME node.op \in {"EQU", "IDENT"}, symbols[n].kind = "undefined"
      PROVE  FALSE
  <2>1. PICK r \in symbols[n].refs : TRUE
    BY <1>6, <1>7 DEF KnownName
  <2>2. PICK i \in 1 .. k - 1 : i \in 1 .. Len(p) /\ n \in Uses(p[i])
    BY <1>1, <1>2, <1>4, QueuedBefore
  <2>3. AcceptableStatement(p, i)
    BY <1>1, <1>2, <1>3, <2>2
  <2>4. IsLabel(p, n) \/ Before(p, i, n)
    BY <2>2, <2>3 DEF AcceptableStatement
  <2>5. ~IsLabel(p, n)
    BY <1>3, <1>4, <1>7 DEF IsLabel
  <2>6. ~Before(p, i, n)
    <3>1. ~(k < i)
      BY <1>3, <2>2
    <3> QED
      BY <1>4, <3>1 DEF Before
  <2> QED
    BY <2>4, <2>5, <2>6
<1> QED
  BY <1>2, <1>4, <1>6, <1>7 DEF Unsettled

\* And what it finds when it looks names up.
LEMMA Lookups ==
  ASSUME IInv, Read, Known, Accepted, Acceptable(nodes), status = "assembling", next <= Len(nodes)
  PROVE  /\ node.op = "CON" => IsConstant(node.name)
         /\ node.op = "MOVE" => Found("SRCPT") /\ Found("DSTPT")
         /\ node.op = "STACK" => Found("FFPT") /\ Found("LFPT")
         /\ node.op = "EQU" => symbols[node.of].kind # "alias"
         /\ node.op = "EXIT" => MayExit
<1>1. nodes \in Seq(Node) /\ next \in Nat \ {0} /\ Going
  BY DEF IInv, TypeInv, Going
<1>2. PICK p, k : p = nodes /\ k = next
  OBVIOUS
<1>3. node = p[k] /\ AcceptableStatement(p, k)
  BY <1>1, <1>2 DEF Acceptable, node
<1>4. {"SRCPT", "DSTPT", "FFPT", "LFPT"} \subseteq Name
  BY AssemblerAssumption DEF Special, Reserved
<1>5. ASSUME NEW n \in Name, Before(p, k, n), ~Alias(p, n)
      PROVE  Found(n) /\ Resolved(n) = n
  <2>1. symbols[n].kind \in {"address", "constant"}
    BY <1>2, <1>5, Looked
  <2> QED
    BY <2>1 DEF Found, Resolved, Defined
<1>6. ASSUME node.op = "CON"
      PROVE  IsConstant(node.name)
  <2>1. node.name \in Name
    BY <1>6, Operands DEF IInv
  <2>2. PICK n \in Name : n = node.name
    BY <2>1
  <2>3. /\ Before(p, k, n) /\ ~IsLabel(p, n)
        /\ Alias(p, n) => Before(p, k, Target(p, n)) /\ ~IsLabel(p, Target(p, n))
    BY <1>3, <1>6, <2>2 DEF AcceptableStatement
  <2>4. CASE Alias(p, n)
    <3>1. symbols[n].kind = "alias"
      BY <1>2, <2>3, <2>4, Looked
    <3>2. PICK t \in Name : t = symbols[n].alias /\ t = Target(p, n) /\ ~Alias(p, t)
      BY <1>2, <3>1, Looked
    <3>3. symbols[t].kind = "constant"
      BY <1>2, <2>3, <2>4, <3>2, Looked
    <3>4. Resolved(n) = t
      BY <3>1, <3>2 DEF Resolved
    <3> QED
      BY <2>2, <3>3, <3>4 DEF IsConstant, Found, Defined
  <2>5. CASE ~Alias(p, n)
    <3>1. symbols[n].kind = "constant"
      BY <1>2, <2>3, <2>5, Looked
    <3> QED
      BY <2>2, <3>1 DEF IsConstant, Found, Defined, Resolved
  <2> QED
    BY <2>4, <2>5
<1>7. node.op = "MOVE" => Found("SRCPT") /\ Found("DSTPT")
  <2>1. node.op = "MOVE" => \A n \in {"SRCPT", "DSTPT"} : Before(p, k, n) /\ ~Alias(p, n)
    BY <1>3 DEF AcceptableStatement
  <2> QED
    BY <1>4, <1>5, <2>1
<1>8. node.op = "STACK" => Found("FFPT") /\ Found("LFPT")
  <2>1. node.op = "STACK" => \A n \in {"FFPT", "LFPT"} : Before(p, k, n) /\ ~Alias(p, n)
    BY <1>3 DEF AcceptableStatement
  <2> QED
    BY <1>4, <1>5, <2>1
<1>9. ASSUME node.op = "EQU"
      PROVE  symbols[node.of].kind # "alias"
  <2>1. node.of \in Name
    BY <1>9, Operands DEF IInv
  <2>2. ~Alias(p, node.of)
    BY <1>3, <1>9 DEF AcceptableStatement
  <2> QED
    BY <1>2, <2>1, <2>2, Looked
<1>10. ASSUME node.op = "EXIT"
       PROVE  MayExit
  <2>1. MayStand(p, k)
    BY <1>3, <1>10 DEF AcceptableStatement
  <2>2. Within(p, k) # {} /\ Enclosing(p, k).name = node.name /\ node.number \in 1 .. Enclosing(p, k).exits
    BY <1>3, <2>1 DEF MayStand
  <2>3. sub = [name |-> Enclosing(p, k).name, exits |-> Enclosing(p, k).exits]
    BY <1>1, <1>2, <2>2 DEF Read, Reading
  <2>4. sub.name = Enclosing(p, k).name /\ sub.exits = Enclosing(p, k).exits
    BY <2>3
  <2> QED
    BY <2>2, <2>4 DEF MayExit
<1> QED
  BY <1>6, <1>7, <1>8, <1>9, <1>10

\* There is one THASH.
LEMMA OneTable ==
  ASSUME IInv, Read, Tabled, Acceptable(nodes), status = "assembling", next <= Len(nodes),
         node.op = "THASH"
  PROVE  thash = 0
<1>1. nodes \in Seq(Node) /\ next \in Nat \ {0} /\ Going
  BY DEF IInv, TypeInv, Going
<1>2. PICK n \in Nat : n = Len(nodes) /\ DOMAIN nodes = 1 .. n
  BY <1>1
<1>3. SUFFICES ASSUME thash # 0
               PROVE  FALSE
  OBVIOUS
<1>4. PICK j \in 1 .. next - 1 : nodes[j].op = "THASH"
  BY <1>1, <1>3 DEF Tabled, Headed, IsHeads
<1>5. j \in DOMAIN nodes /\ next \in DOMAIN nodes /\ j # next
  BY <1>1, <1>2
<1> QED
  BY <1>4, <1>5 DEF Acceptable, node

\* Every statement of an acceptable program is accepted.
LEMMA StatementAccepted ==
  ASSUME IInv, Read, Known, Tabled, Accepted, Acceptable(nodes), Statement
  PROVE  status' = "assembling"
<1>1. status = "assembling" /\ next <= Len(nodes)
  BY StatementMoves
<1>2. Fits(Size(node))
  BY <1>1, Room
<1>3. ASSUME Advance
      PROVE  status' = "assembling"
  BY <1>1, <1>3 DEF Advance
<1>4. ASSUME Size(node) = 1, NEW v, NEW w, Emit(v, w)
      PROVE  status' = "assembling"
  BY <1>2, <1>3, <1>4 DEF Emit
<1>5. Unsettled(node.name) => Insertable(node.name) /\ ~Found(node.name)
  BY DEF Unsettled, Insertable, Found, Resolved, Defined
<1>6. CASE Word \/ REF \/ RL \/ GOSUB \/ GOADD \/ GO \/ HASH
  <2>1. node.op \in {"WORD", "REF", "RL", "GOSUB", "GOADD", "GO", "HASH"}
    BY <1>6 DEF Word, REF, RL, GOSUB, GOADD, GO, HASH, At
  <2>2. \E v, w : Emit(v, w)
    BY <1>6, Zenon DEF Word, REF, RL, GOSUB, GOADD, GO, HASH
  <2> QED
    BY <1>4, <2>1, <2>2 DEF Size
<1>7. CASE DCL \/ SUBR \/ LINKR
  <2>1. node.op \in {"DCL", "SUBR", "LINKR"}
    BY <1>7 DEF DCL, SUBR, LINKR, At
  <2>2. Insertable(node.name)
    BY <1>1, <1>5, <2>1, Fresh DEF Defining
  <2>3. Emit(0, 0)
    BY <1>7, <2>2, Zenon DEF DCL, SUBR, LINKR
  <2> QED
    BY <1>4, <2>1, <2>3 DEF Size
<1>8. CASE MDLABEL
  <2>1. node.op = "MDLABEL"
    BY <1>8 DEF MDLABEL, At
  <2>2. ~Found(node.name)
    BY <1>1, <1>5, <2>1, Fresh DEF Defining
  <2> QED
    BY <1>3, <1>8, <2>2 DEF MDLABEL, Silent
<1>9. CASE EQU
  <2>1. node.op = "EQU"
    BY <1>9 DEF EQU, At
  <2>2. ~Found(node.name)
    BY <1>1, <1>5, <2>1, Fresh DEF Defining
  <2>3. symbols[node.of].kind # "alias"
    BY <1>1, <2>1, Lookups
  <2> QED
    BY <1>3, <1>9, <2>2, <2>3 DEF EQU, Silent
<1>10. CASE IDENT
  BY <1>3, <1>10 DEF IDENT, Silent
<1>11. CASE CON \/ MOVE \/ STACK \/ EXIT
  <2>1. node.op \in {"CON", "MOVE", "STACK", "EXIT"}
    BY <1>11 DEF CON, MOVE, STACK, EXIT, At
  <2>2. \E v, w : Emit(v, w)
    <3>1. CASE CON
      <4>1. node.op = "CON"
        BY <3>1 DEF CON, At
      <4> QED
        BY <1>1, <3>1, <4>1, Lookups DEF CON
    <3>2. CASE MOVE
      <4>1. node.op = "MOVE"
        BY <3>2 DEF MOVE, At
      <4> QED
        BY <1>1, <3>2, <4>1, Lookups DEF MOVE
    <3>3. CASE STACK
      <4>1. node.op = "STACK"
        BY <3>3 DEF STACK, At
      <4> QED
        BY <1>1, <3>3, <4>1, Lookups DEF STACK
    <3>4. CASE EXIT
      <4>1. node.op = "EXIT"
        BY <3>4 DEF EXIT, At
      <4> QED
        BY <1>1, <3>4, <4>1, Lookups DEF EXIT
    <3> QED
      BY <1>11, <3>1, <3>2, <3>3, <3>4
  <2> QED
    BY <1>4, <2>1, <2>2 DEF Size
<1>12. CASE THASH
  <2>1. node.op = "THASH"
    BY <1>12 DEF THASH, At
  <2>2. thash = 0
    BY <1>1, <2>1, OneTable
  <2>3. Fits(LHV)
    BY <1>2, <2>1 DEF Size
  <2> QED
    BY <1>3, <1>12, <2>2, <2>3 DEF THASH
<1> QED
  BY <1>6, <1>7, <1>8, <1>9, <1>10, <1>11, <1>12 DEF Statement

\* Nor is anything refused when the source has been read.
LEMMA SourceAccepted ==
  ASSUME IInv, Read, Tabled, Acceptable(nodes), EndOfSource
  PROVE  status' = "linking"
<1>1. nodes \in Seq(Node) /\ next \in Nat \ {0} /\ entries \in Seq(Entry) /\ status = "assembling"
  BY DEF IInv, TypeInv, EndOfSource
<1>2. PICK n \in Nat : n = Len(nodes) /\ DOMAIN nodes = 1 .. n
  BY <1>1
<1>3. next = n + 1 /\ 1 .. next - 1 = 1 .. n
  <2>1. next > n /\ next <= n + 1
    BY <1>2 DEF EndOfSource, Read, Reading
  <2> QED
    BY <1>1, <1>2, <2>1
<1>4. PICK p : p = nodes
  OBVIOUS
<1>5. Listed /\ Headed
  BY <1>1 DEF Tabled, Going
<1>6. PICK m \in Nat : DOMAIN entries = 1 .. m /\ m = Len(entries)
  BY <1>1
<1>7. entries = << >> <=> DOMAIN entries = {}
  BY <1>1
<1>8. entries # << >> <=> \E k \in 1 .. n : p[k].op = "HASH"
  <2>1. ASSUME entries # << >>
        PROVE  \E k \in 1 .. n : p[k].op = "HASH"
    <3>1. PICK i \in DOMAIN entries : TRUE
      BY <1>7, <2>1
    <3> QED
      BY <1>3, <1>4, <1>5 DEF Listed, IsEntry
  <2>2. ASSUME NEW k \in 1 .. n, p[k].op = "HASH"
        PROVE  entries # << >>
    BY <1>3, <1>4, <1>5, <1>7, <2>2 DEF Listed
  <2> QED
    BY <2>1, <2>2
<1>9. thash # 0 <=> \E k \in 1 .. n : p[k].op = "THASH"
  <2>1. thash # 0 => \E k \in 1 .. n : p[k].op = "THASH"
    BY <1>3, <1>4, <1>5 DEF Headed, IsHeads
  <2>2. ASSUME NEW k \in 1 .. n, p[k].op = "THASH"
        PROVE  thash # 0
    <3>1. thash = Place(p)[k]
      BY <1>3, <1>4, <1>5, <2>2 DEF Headed, IsHeads
    <3>2. 1 \in 1 .. Len(p) + 1 /\ k \in 1 .. Len(p) + 1 /\ 1 <= k
      BY <1>2, <1>4
    <3>3. Place(p) \in [1 .. Len(p) + 1 -> Nat] /\ Place(p)[1] = Last0
      BY <1>1, <1>4, Placed
    <3>4. Place(p)[1] <= Place(p)[k]
      BY <1>1, <1>4, <3>2, PlacesGrow
    <3>5. Last0 <= Place(p)[k] /\ Place(p)[k] \in Nat
      BY <3>2, <3>3, <3>4
    <3>6. Last0 \in Nat /\ Last0 > 0
      BY DEF Last0, Reserved, MaxNumberText
    <3> QED
      BY <3>1, <3>5, <3>6
  <2> QED
    BY <2>1, <2>2
<1>10. (\E k \in 1 .. n : p[k].op = "HASH") <=> (\E k \in 1 .. n : p[k].op = "THASH")
  BY <1>2, <1>4 DEF Acceptable
<1>11. ASSUME NEW j \in 1 .. n, NEW k \in 1 .. n, j < k, p[j].op = "HASH", p[k].op = "HASH"
       PROVE  p[j].text # p[k].text
  <2>1. AcceptableStatement(p, k)
    BY <1>2, <1>4 DEF Acceptable
  <2>2. j \in 1 .. k - 1
    BY <1>11
  <2> QED
    BY <1>11, <2>1, <2>2 DEF AcceptableStatement
<1>12. ~Repeated
  <2>1. ASSUME NEW g \in DOMAIN entries, NEW i \in DOMAIN entries, g # i, entries[g].text = entries[i].text
        PROVE  FALSE
    <3>1. PICK j \in 1 .. n : IsEntry(entries[g], p, j)
      BY <1>3, <1>4, <1>5 DEF Listed
    <3>2. PICK k \in 1 .. n : IsEntry(entries[i], p, k)
      BY <1>3, <1>4, <1>5 DEF Listed
    <3>3. Apart
      BY <1>1, ReadIsApart DEF Going
    <3>4. entries[g].at # entries[i].at
      BY <2>1, <3>3 DEF Apart
    <3>5. j # k /\ p[j].op = "HASH" /\ p[k].op = "HASH" /\ p[j].text = p[k].text
      BY <2>1, <3>1, <3>2, <3>4 DEF IsEntry
    <3>6. j < k \/ k < j
      BY <3>5
    <3> QED
      BY <1>11, <3>5, <3>6
  <2> QED
    BY <2>1 DEF Repeated
<1>13. ~(entries = << >> <=> thash # 0)
  BY <1>8, <1>9, <1>10
<1> QED
  BY <1>12, <1>13 DEF EndOfSource

\* Every name of an acceptable program is defined, and BEGIN is a label.
LEMMA SymbolsAccepted ==
  ASSUME IInv, Read, Known, Accepted, Acceptable(nodes), CheckSymbols
  PROVE  status' = "filling"
<1>1. Going /\ nodes \in Seq(Node) /\ next > Len(nodes)
  <2>1. Going /\ next = Len(nodes) + 1 /\ nodes \in Seq(Node)
    BY DEF CheckSymbols, Going, Read, Reading, IInv, TypeInv
  <2>2. PICK n \in Nat : n = Len(nodes)
    BY <2>1
  <2> QED
    BY <2>1, <2>2
<1>2. "BEGIN" \in Name
  BY AssemblerAssumption
<1>3. Found("BEGIN") => symbols[Resolved("BEGIN")].kind = "address"
  <2>1. SUFFICES ASSUME Found("BEGIN")
                 PROVE  symbols[Resolved("BEGIN")].kind = "address"
    OBVIOUS
  <2>2. Defined("BEGIN")
    BY <2>1 DEF Found, Resolved, Defined
  <2>3. HasMeaning(nodes, "BEGIN")
    BY <1>2, <2>2, Looked
  <2>4. IsLabel(nodes, "BEGIN")
    BY <2>3 DEF Acceptable
  <2>5. symbols["BEGIN"].kind = "address"
    BY <1>1, <1>2, <2>3, <2>4, AllRead, Looked
  <2> QED
    BY <2>5 DEF Resolved
<1>4. Undefined = {}
  <2>1. ASSUME NEW n \in Name, symbols[n].kind = "undefined"
        PROVE  FALSE
    <3>1. KnownName(n)
      BY <1>1 DEF Known, Acceptable
    <3>2. PICK r \in symbols[n].refs : TRUE
      BY <2>1, <3>1 DEF KnownName
    <3>3. PICK k \in 1 .. Len(nodes) : n \in Uses(nodes[k])
      BY <1>1, QueuedBefore
    <3>4. AcceptableStatement(nodes, k)
      BY <1>1, <3>3 DEF Acceptable
    <3>5. HasMeaning(nodes, n)
      BY <3>3, <3>4 DEF AcceptableStatement
    <3>6. Before(nodes, next, n)
      BY <1>1, <3>5, AllRead
    <3> QED
      BY <2>1, <3>6, Looked
  <2> QED
    BY <2>1 DEF Undefined
<1> QED
  BY <1>3, <1>4 DEF CheckSymbols


\* Every queue can be filled, and every RL stands where it says.  (fill)
LEMMA FillAccepted ==
  ASSUME IInv, Read, Known, Accepted, Acceptable(nodes), Fill
  PROVE  status' = "filling"
<1>1. Going /\ status = "filling" /\ nodes \in Seq(Node) /\ next > Len(nodes) /\ DefinedOnce(nodes)
  <2>1. Going /\ next = Len(nodes) + 1 /\ nodes \in Seq(Node)
    BY DEF Fill, Going, Read, Reading, IInv, TypeInv
  <2>2. PICK n \in Nat : n = Len(nodes)
    BY <2>1
  <2> QED
    BY <2>1, <2>2 DEF Fill, Acceptable
<1>2. SUFFICES ASSUME NEW n \in Name, Defined(n)
               PROVE  /\ symbols[Meant(n)].kind \in {"address", "constant"}
                      /\ ~Misplaced(n)
  <2>1. \A n \in Name : Defined(n) => Defined(Meant(n)) /\ symbols[Meant(n)].kind # "alias" /\ ~Misplaced(n)
    BY <1>2 DEF Defined
  <2> QED
    BY <1>1, <2>1, Zenon DEF Fill
<1>3. HasMeaning(nodes, n) /\ Before(nodes, next, n)
  BY <1>1, <1>2, Looked, AllRead
<1>4. symbols[Meant(n)].kind \in {"address", "constant"}
  <2>1. CASE symbols[n].kind = "alias"
    <3>1. PICK t \in Name : t = symbols[n].alias /\ HasMeaning(nodes, t) /\ ~Alias(nodes, t)
      BY <2>1, Looked
    <3>2. symbols[t].kind \in {"address", "constant"}
      BY <1>1, <3>1, AllRead, Looked
    <3>3. Meant(n) = t
      BY <2>1, <3>1, <3>2 DEF Meant, Resolved
    <3> QED
      BY <3>2, <3>3
  <2>2. CASE symbols[n].kind # "alias"
    <3>1. symbols[n].kind \in {"address", "constant"}
      BY <1>3, <2>2, Looked
    <3> QED
      BY <2>2, <3>1 DEF Meant
  <2> QED
    BY <2>1, <2>2
<1>5. Value(n) = Meaning(nodes, n)
  BY <1>1, <1>2, <1>4, ValueIsMeaning
<1>6. ASSUME NEW r \in symbols[n].refs, r.relative
      PROVE  Value(n) - r.at = r.offset
  <2>1. PICK k \in 1 .. Len(nodes) : /\ n \in Uses(nodes[k]) /\ r.at = Place(nodes)[k]
                                    /\ IsReference(r, Place(nodes)[k], nodes[k])
    BY <1>1, QueuedBefore
  <2>2. nodes[k].op = "RL" /\ r.offset = nodes[k].offset
    BY <1>6, <2>1 DEF IsReference
  <2>3. n = nodes[k].name
    BY <2>1, <2>2 DEF Uses, Operand
  <2>4. AcceptableStatement(nodes, k)
    BY <1>1 DEF Acceptable
  <2>5. Meaning(nodes, nodes[k].name) - Place(nodes)[k] = nodes[k].offset
    BY <2>2, <2>4 DEF AcceptableStatement
  <2> QED
    BY <1>5, <2>1, <2>2, <2>3, <2>5
<1> QED
  BY <1>4, <1>6 DEF Misplaced

\* Every step of an acceptable program is accepted.
LEMMA AcceptedKeeps ==
  ASSUME IInv, Read, Known, Tabled, Accepted, [Next]_vars
  PROVE  Accepted'
<1>1. /\ nodes \in Seq(Node) /\ next \in Nat \ {0} /\ UNCHANGED nodes
  BY StatementMoves, RestMoves DEF IInv, TypeInv, Next
<1> SUFFICES ASSUME Acceptable(nodes)
             PROVE  Going' /\ Complete'
  BY <1>1 DEF Accepted
<1>2. CASE Statement
  <2>1. status' = "assembling" /\ Going'
    BY <1>2, StatementAccepted DEF Going
  <2>2. /\ status = "assembling" /\ next <= Len(nodes) /\ next' = next + 1
        /\ Layout
    BY <1>2, <2>1, StatementMoves, StatementLays DEF IInv, Layout
  <2>3. Settles
    <3>1. ~Stop("error") /\ ~Stop("panic")
      BY <2>1 DEF Stop
    <3>2. node.op \in Defining => Unsettled(node.name)
      BY <2>2, Fresh
    <3> QED
      BY <1>2, <3>1, <3>2, StatementSettles DEF IInv
  <2>4. ASSUME NEW n \in Name, NEW j \in Definitions(nodes, n), j < next + 1
        PROVE  symbols'[n].kind # "undefined"
    <3>1. j \in Nat /\ nodes[j].op \in Defining /\ nodes[j].name = n
      BY <1>1 DEF Definitions
    <3>2. CASE j = next
      <4>1. /\ node.op \in Defining /\ node.name = n
            /\ node.op \in {"EQU", "IDENT"} => symbols[n].kind = "absent"
        BY <2>2, <3>1, <3>2, Fresh DEF node
      <4>2. node.op \in Labelling \/ node.op \in {"EQU", "IDENT"}
        BY <4>1 DEF Labelling
      <4> QED
        BY <2>3, <4>1, <4>2 DEF Settles
    <3>3. CASE j # next
      <4>1. j < next
        BY <1>1, <2>4, <3>1, <3>3
      <4>2. symbols[n].kind # "undefined" /\ KnownName(n)
        BY <2>2, <4>1 DEF Accepted, Complete, Known, Acceptable, Going
      <4>3. symbols[n].kind # "absent"
        <5>1. Settled(symbols[n], nodes[j], Place(nodes)[j])
          BY <4>1, <4>2 DEF KnownName
        <5> QED
          BY <3>1, <4>2, <5>1 DEF Settled, Defining, Labelling
      <4>4. node.op \in Defining => n # node.name
        BY <2>2, <3>3, Fresh
      <4>5. symbols'[n].kind = symbols[n].kind
        BY <2>3, <4>3, <4>4 DEF Settles, Referred
      <4> QED
        BY <4>2, <4>5
    <3> QED
      BY <3>2, <3>3
  <2> QED
    BY <1>1, <2>1, <2>2, <2>4 DEF Complete
<1>3. CASE EndOfSource \/ Link \/ CheckSymbols \/ Fill \/ Export \/ UNCHANGED vars
  <2>1. UNCHANGED <<nodes, next, symbols>>
    BY <1>3, RestMoves
  <2>2. Complete'
    BY <2>1 DEF Accepted, Complete
  <2>3. Going'
    <3>1. CASE EndOfSource \/ CheckSymbols \/ Fill
      BY <3>1, SourceAccepted, SymbolsAccepted, FillAccepted DEF Going
    <3>2. CASE Link \/ Export \/ UNCHANGED vars
      BY <3>2 DEF Link, Export, vars, Going, Accepted
    <3> QED
      BY <1>3, <3>1, <3>2
  <2> QED
    BY <2>2, <2>3
<1> QED
  BY <1>2, <1>3 DEF Next

\* Nothing is refused before it is read.
LEMMA AcceptedStarts ==
  ASSUME Init
  PROVE  Accepted
<1>1. nodes \in Seq(Node) /\ next = 1 /\ status = "assembling"
  BY AssemblerAssumption DEF Init
<1>2. \A n : \A j \in Definitions(nodes, n) : ~(j < 1)
  BY <1>1 DEF Definitions
<1> QED
  BY <1>1, <1>2 DEF Accepted, Going, Complete

(***************************************************************************)
(* No program that is acceptable by the reference definition is refused,   *)
(* at any stage, and none makes the assembler panic.  (Assemble)           *)
(***************************************************************************)
THEOREM AcceptableIsAssembled == Spec => []AcceptableAssembles
<1>1. Init => Accepted
  BY AcceptedStarts
<1>2. IInv /\ Read /\ (Known /\ Meaningful) /\ (Tabled /\ Blank /\ Chained) /\ Accepted /\ [Next]_vars
        => Accepted'
  BY AcceptedKeeps
<1>3. Accepted => AcceptableAssembles
  BY DEF Accepted, AcceptableAssembles, Going
<1> QED
  BY <1>1, <1>2, <1>3, Inductive, ReadInductive, KnownInductive, ChainedInductive, PTL DEF Spec
-----------------------------------------------------------------------------
(***************************************************************************)
(* The machine that is returned, as a function of the program.  A branch   *)
(* of a jump table carries its number, counted from the statement that     *)
(* begins the table; a HASH word leads to the next name on its chain; and  *)
(* what no statement lays out stays nought.                                *)
(***************************************************************************)
Begins(s) == s.op \in {"GOSUB", "GOADD"} \/ (s.op = "GO" /\ s.flag = "X")
Branches(p, k) ==
  {j \in 1 .. k - 1 : p[j].op = "GO" /\ p[j].flag # "X" /\ \A i \in j .. k - 1 : ~Begins(p[i])}

\* The names of chain c that stand after statement k.
Later(p, k, c) == {j \in DOMAIN p : k < j /\ p[j].op = "HASH" /\ HashName[p[j].text] = c}
LinkOf(p, k, c) ==
  IF Later(p, k, c) = {} THEN 0
  ELSE Place(p)[CHOOSE j \in Later(p, k, c) : \A i \in Later(p, k, c) : j <= i]

Emits(s) == s.op \notin {"MDLABEL", "EQU", "IDENT", "THASH"}

\* The value of the word, but for the names and the links.
Plain(p, k) ==
  IF p[k].op = "CON" THEN Meaning(p, p[k].name)
  ELSE IF p[k].op = "MOVE" THEN Own(p, "SRCPT")
  ELSE IF p[k].op = "EXIT" THEN p[k].number
  ELSE 0

FirstOf(p, k) ==
  IF Operand(p[k]) # "" THEN Meaning(p, Operand(p[k])) - (IF p[k].op = "RL" THEN Place(p)[k] ELSE 0)
  ELSE IF p[k].op = "HASH" THEN LinkOf(p, k, HashName[p[k].text])
  ELSE Plain(p, k)

SecondOf(p, k) ==
  IF p[k].op = "GO" /\ p[k].flag = "C" THEN Cardinality(Branches(p, k)) + 1
  ELSE IF p[k].op = "GO" /\ p[k].flag = "T" THEN Cardinality(Branches(p, k))
  ELSE IF p[k].op = "MOVE" THEN Own(p, "DSTPT")
  ELSE 0

\* BMOVE and FMOVE move between two variables.
MovesVariables(p, k) == p[k].op = "MOVE" => IsLabel(p, "SRCPT") /\ IsLabel(p, "DSTPT")

\* A register is where its variable is declared, or where the symbol table
\* put it first.
Declared(p, k, n) == \E j \in 1 .. k - 1 : p[j].op = "DCL" /\ p[j].name = n
Register(p, k, n) ==
  IF Declared(p, k, n) THEN Own(p, n) ELSE CHOOSE i \in 1 .. Len(Reserved) : Reserved[i] = n

\* The labels, and the names that EQU gives them.
Visible(p, n) == IsLabel(p, n) \/ (Alias(p, n) /\ IsLabel(p, Target(p, n)))

\* One more statement read: one more branch, or none of them any longer.
LEMMA BranchesGrow ==
  ASSUME NEW p, NEW k \in Nat \ {0}
  PROVE  /\ Cardinality(Branches(p, 1)) = 0
         /\ Cardinality(Branches(p, k)) \in Nat
         /\ Cardinality(Branches(p, k + 1)) =
              IF Begins(p[k]) THEN 0
              ELSE Cardinality(Branches(p, k)) + (IF p[k].op = "GO" THEN 1 ELSE 0)
<1> DEFINE S == Branches(p, k)
           T == Branches(p, k + 1)
<1>1. Branches(p, 1) = {}
  BY DEF Branches
<1>2. IsFiniteSet(S)
  <2>1. S \in SUBSET Nat /\ \A j \in S : j <= k
    BY DEF Branches
  <2> QED
    BY <2>1, FS_BoundedSetOfNaturals
<1>3. k \notin S
  BY DEF Branches
<1>4. Begins(p[k]) => T = {}
  BY DEF Branches
<1>5. ASSUME ~Begins(p[k])
      PROVE  T = IF p[k].op = "GO" THEN S \cup {k} ELSE S
  <2>1. \A j \in 1 .. k : j .. (k + 1) - 1 = (j .. k - 1) \cup {k}
    OBVIOUS
  <2>2. 1 .. (k + 1) - 1 = (1 .. k - 1) \cup {k} /\ k .. k - 1 = {}
    OBVIOUS
  <2>3. ASSUME NEW j \in 1 .. k - 1
        PROVE  j \in T <=> j \in S
    BY <1>5, <2>1, <2>2 DEF Branches
  <2>4. k \in T <=> p[k].op = "GO" /\ p[k].flag # "X"
    BY <1>5, <2>1, <2>2 DEF Branches
  <2>5. T \subseteq (1 .. k - 1) \cup {k} /\ S \subseteq 1 .. k - 1
    BY <2>2 DEF Branches
  <2>6. p[k].op = "GO" => p[k].flag # "X"
    BY <1>5 DEF Begins
  <2> HIDE DEF S, T
  <2>7. CASE p[k].op = "GO"
    <3>1. k \in T
      BY <2>4, <2>6, <2>7
    <3>2. T = S \cup {k}
      BY <2>3, <2>5, <3>1
    <3> QED
      BY <2>7, <3>2
  <2>8. CASE p[k].op # "GO"
    <3>1. k \notin T
      BY <2>4, <2>8
    <3>2. T = S
      BY <2>3, <2>5, <3>1
    <3> QED
      BY <2>8, <3>2
  <2> QED
    BY <2>7, <2>8
<1> HIDE DEF S, T
<1>6. Cardinality({}) = 0
  BY FS_EmptySet
<1>7. Cardinality(S) \in Nat /\ Cardinality(S \cup {k}) = Cardinality(S) + 1
  BY <1>2, <1>3, FS_CardinalityType, FS_AddElement
<1>8. ASSUME ~Begins(p[k])
      PROVE  Cardinality(T) = Cardinality(S) + (IF p[k].op = "GO" THEN 1 ELSE 0)
  BY <1>5, <1>7, <1>8
<1>9. Begins(p[k]) => Cardinality(T) = 0
  BY <1>4, <1>6
<1> QED
  BY <1>1, <1>6, <1>7, <1>8, <1>9 DEF S, T

(***************************************************************************)
(* What a statement writes: its word, the number of the next branch, and   *)
(* the register of a variable that it declares.                            *)
(***************************************************************************)
FirstEmitted ==
  IF node.op = "CON" THEN symbols[Resolved(node.name)].constant
  ELSE IF node.op = "MOVE" THEN symbols[Resolved("SRCPT")].address
  ELSE IF node.op = "EXIT" THEN node.number
  ELSE 0

SecondEmitted ==
  IF node.op = "GO" /\ node.flag = "C" THEN jumpTable + 1
  ELSE IF node.op = "GO" /\ node.flag = "T" THEN jumpTable
  ELSE IF node.op = "MOVE" THEN symbols[Resolved("DSTPT")].address
  ELSE 0

Wrote(v, w) == pc \in DOMAIN core /\ core'[pc].value = v /\ core'[pc].two = w

Writes ==
  /\ Emits(node) => Wrote(FirstEmitted, SecondEmitted)
  /\ node.op = "CON" => IsConstant(node.name)
  /\ node.op = "MOVE" => Found("SRCPT") /\ Found("DSTPT")
  /\ jumpTable' = IF Begins(node) THEN 0 ELSE jumpTable + (IF node.op = "GO" THEN 1 ELSE 0)
  /\ registers' = IF node.op = "DCL" THEN [n \in Special |-> IF n = node.name THEN pc ELSE registers[n]]
                  ELSE registers

\* A word that is emitted is where the program counter was.
LEMMA EmitWrites ==
  ASSUME TypeInv, NEW v, NEW w, Emit(v, w), status = "assembling", status' = "assembling"
  PROVE  Wrote(v, w)
<1> DEFINE word == [value |-> v, two |-> w]
<1>1. ~Panic
  BY DEF Panic
<1>2. Fits(1) /\ core' = [core EXCEPT ![pc] = word]
  BY <1>1, Zenon DEF Emit
<1>3. pc \in DOMAIN core /\ DOMAIN core = 0 .. MAX_WORDS - 1
  BY <1>2, AssemblerAssumption DEF Fits, TypeInv
<1> HIDE DEF word
<1>4. core'[pc] = word
  BY <1>2, <1>3
<1>5. word.value = v /\ word.two = w
  BY DEF word
<1> QED
  BY <1>3, <1>4, <1>5 DEF Wrote

\* Every statement that is not refused writes that.
LEMMA StatementWrites ==
  ASSUME TypeInv, Statement, status' = "assembling"
  PROVE  Writes
<1>1. status = "assembling" /\ jumpTable \in Nat /\ ~Stop("error") /\ ~Stop("panic")
  BY StatementMoves DEF Stop, TypeInv
<1>2. ASSUME NEW v, NEW w, Emit(v, w)
      PROVE  Wrote(v, w)
  BY <1>1, <1>2, EmitWrites
<1>3. CASE Word \/ SUBR \/ LINKR \/ REF \/ RL \/ STACK \/ HASH
  <2>1. node.op \in {"WORD", "SUBR", "LINKR", "REF", "RL", "STACK", "HASH"}
    BY <1>3 DEF Word, SUBR, LINKR, REF, RL, STACK, HASH, At
  <2>2. Emit(0, 0) /\ UNCHANGED <<jumpTable, registers>>
    BY <1>1, <1>3, Zenon DEF Word, SUBR, LINKR, REF, RL, STACK, HASH, table
  <2>3. Wrote(0, 0)
    BY <1>2, <2>2
  <2> QED
    BY <1>1, <2>1, <2>2, <2>3 DEF Writes, FirstEmitted, SecondEmitted, Begins
<1>4. CASE DCL
  <2>1. node.op = "DCL" /\ Emit(0, 0) /\ jumpTable' = jumpTable
        /\ registers' = [n \in Special |-> IF n = node.name THEN pc ELSE registers[n]]
    BY <1>1, <1>4, Zenon DEF DCL, At
  <2>2. Wrote(0, 0)
    BY <1>2, <2>1
  <2> QED
    BY <1>1, <2>1, <2>2 DEF Writes, FirstEmitted, SecondEmitted, Begins
<1>5. CASE CON
  <2>1. node.op = "CON" /\ IsConstant(node.name) /\ UNCHANGED <<jumpTable, registers>>
        /\ Emit(symbols[Resolved(node.name)].constant, 0)
    BY <1>1, <1>5, Zenon DEF CON, At, table
  <2>2. Wrote(symbols[Resolved(node.name)].constant, 0)
    BY <1>2, <2>1
  <2> QED
    BY <1>1, <2>1, <2>2 DEF Writes, FirstEmitted, SecondEmitted, Begins
<1>6. CASE MOVE
  <2>1. node.op = "MOVE" /\ Found("SRCPT") /\ Found("DSTPT") /\ UNCHANGED <<jumpTable, registers>>
        /\ Emit(symbols[Resolved("SRCPT")].address, symbols[Resolved("DSTPT")].address)
    BY <1>1, <1>6, Zenon DEF MOVE, At, table
  <2>2. Wrote(symbols[Resolved("SRCPT")].address, symbols[Resolved("DSTPT")].address)
    BY <1>2, <2>1
  <2> QED
    BY <1>1, <2>1, <2>2 DEF Writes, FirstEmitted, SecondEmitted, Begins
<1>7. CASE EXIT
  <2>1. node.op = "EXIT" /\ UNCHANGED <<jumpTable, registers>> /\ Emit(node.number, 0)
    BY <1>1, <1>7, Zenon DEF EXIT, At, table
  <2>2. Wrote(node.number, 0)
    BY <1>2, <2>1
  <2> QED
    BY <1>1, <2>1, <2>2 DEF Writes, FirstEmitted, SecondEmitted, Begins
<1>8. CASE GOSUB \/ GOADD
  <2>1. node.op \in {"GOSUB", "GOADD"} /\ Emit(0, 0) /\ jumpTable' = 0 /\ registers' = registers
    BY <1>8 DEF GOSUB, GOADD, At
  <2>2. Wrote(0, 0)
    BY <1>2, <2>1
  <2> QED
    BY <2>1, <2>2 DEF Writes, FirstEmitted, SecondEmitted, Begins
<1>9. CASE GO
  <2>1. node.op = "GO" /\ registers' = registers
    BY <1>9 DEF GO, At
  <2>2. \/ node.flag = "C" /\ Emit(0, jumpTable + 1) /\ jumpTable' = jumpTable + 1
        \/ node.flag = "T" /\ Emit(0, jumpTable) /\ jumpTable' = jumpTable + 1
        \/ node.flag = "X" /\ Emit(0, 0) /\ jumpTable' = 0
    BY <1>9, Zenon DEF GO, ExitNumber
  <2>3. CASE node.flag = "C" /\ Emit(0, jumpTable + 1) /\ jumpTable' = jumpTable + 1
    <3>1. Wrote(0, jumpTable + 1)
      BY <1>2, <2>3
    <3> QED
      BY <2>1, <2>3, <3>1 DEF Writes, FirstEmitted, SecondEmitted, Begins
  <2>4. CASE node.flag = "T" /\ Emit(0, jumpTable) /\ jumpTable' = jumpTable + 1
    <3>1. Wrote(0, jumpTable)
      BY <1>2, <2>4
    <3> QED
      BY <2>1, <2>4, <3>1 DEF Writes, FirstEmitted, SecondEmitted, Begins
  <2>5. CASE node.flag = "X" /\ Emit(0, 0) /\ jumpTable' = 0
    <3>1. Wrote(0, 0)
      BY <1>2, <2>5
    <3> QED
      BY <2>1, <2>5, <3>1 DEF Writes, FirstEmitted, SecondEmitted, Begins
  <2> QED
    BY <2>2, <2>3, <2>4, <2>5
<1>10. CASE MDLABEL \/ EQU \/ IDENT \/ THASH
  <2>1. node.op \in {"MDLABEL", "EQU", "IDENT", "THASH"} /\ UNCHANGED <<jumpTable, registers>>
    BY <1>1, <1>10 DEF MDLABEL, EQU, IDENT, THASH, At, table
  <2> QED
    BY <1>1, <2>1 DEF Writes, Emits, Begins
<1> QED
  BY <1>3, <1>4, <1>5, <1>6, <1>7, <1>8, <1>9, <1>10 DEF Statement
-----------------------------------------------------------------------------
(***************************************************************************)
(* The words that linking and filling write to, and whose they are.        *)
(***************************************************************************)
Touched(a) ==
  \/ \E n \in Name : \E r \in symbols[n].refs : r.at = a
  \/ \E i \in DOMAIN entries : entries[i].at = a
  \/ thash # 0 /\ \E c \in 0 .. LHV - 1 : thash + c = a

\* They write to no others, and to no second value.
LEMMA LateWrites ==
  ASSUME IInv, EndOfSource \/ Link \/ CheckSymbols \/ Fill \/ Export \/ UNCHANGED vars
  PROVE  \A a \in DOMAIN core : core'[a].two = core[a].two /\ (~Touched(a) => core'[a] = core[a])
<1>1. core \in [0 .. MAX_WORDS - 1 -> [value : Int, two : Nat]]
  BY DEF IInv, TypeInv
<1>2. CASE core' = core
  BY <1>2
<1>3. CASE Link
  <2>1. PICK x, y : x = LinkedNext.at /\ y = ChainHead(LinkedNext.text)
    OBVIOUS
  <2>2. PICK u, v : core' = [core EXCEPT ![x].value = u, ![y].value = v]
    BY <1>3, <2>1, Zenon DEF Link
  <2>3. \A a \in DOMAIN core : core'[a].two = core[a].two /\ (a # x /\ a # y => core'[a] = core[a])
    BY <1>1, <2>2
  <2>4. PICK n \in Nat : n = Len(entries) /\ DOMAIN entries = 1 .. n /\ entries \in [1 .. n -> Entry]
    BY DEF IInv, TypeInv
  <2>5. n - linked \in 1 .. n
    BY <1>3, <2>4 DEF Link, IInv, TypeInv
  <2>6. Touched(x)
    BY <2>1, <2>4, <2>5 DEF Touched, LinkedNext
  <2>7. Touched(y)
    <3>1. LinkedNext \in Entry
      BY <2>4, <2>5 DEF LinkedNext
    <3>2. HashName[LinkedNext.text] \in 0 .. LHV - 1
      BY <3>1, AssemblerAssumption DEF Entry
    <3>3. entries # << >>
      BY <2>4, <2>5
    <3>4. thash # 0
      BY <1>3, <3>3 DEF Link, IInv, ChainInv
    <3> QED
      BY <2>1, <3>2, <3>4 DEF Touched, ChainHead
  <2> QED
    BY <2>3, <2>6, <2>7
<1>4. CASE Fill /\ core' # core
  <2>1. ~Stop("error") /\ ~Stop("panic")
    BY <1>4 DEF Stop
  <2>2. PICK n \in Name :
          core' = [a \in DOMAIN core |->
                     IF \E r \in symbols[n].refs : r.at = a
                     THEN [core[a] EXCEPT !.value =
                             Filled(n, CHOOSE r \in symbols[n].refs : r.at = a)]
                     ELSE core[a]]
    BY <1>4, <2>1, Zenon DEF Fill
  <2>3. ASSUME NEW a \in DOMAIN core
        PROVE  core'[a].two = core[a].two /\ (~Touched(a) => core'[a] = core[a])
    <3>1. CASE \E r \in symbols[n].refs : r.at = a
      <4>1. PICK v : core'[a] = [core[a] EXCEPT !.value = v]
        BY <2>2, <2>3, <3>1, Zenon
      <4>2. core[a] \in [value : Int, two : Nat]
        BY <1>1, <2>3
      <4>3. core'[a].two = core[a].two
        BY <4>1, <4>2
      <4> QED
        BY <3>1, <4>3 DEF Touched
    <3>2. CASE ~\E r \in symbols[n].refs : r.at = a
      BY <2>2, <2>3, <3>2, Zenon
    <3> QED
      BY <3>1, <3>2
  <2> QED
    BY <2>3
<1>5. CASE EndOfSource \/ CheckSymbols \/ Export \/ UNCHANGED vars
  <2>1. core' = core
    BY <1>5 DEF EndOfSource, CheckSymbols, Export, vars, Stop
  <2> QED
    BY <1>2, <2>1
<1> QED
  BY <1>2, <1>3, <1>4, <1>5

\* Those words refer to names, are links, or are the heads of the chains.
LEMMA TouchedWords ==
  ASSUME IInv, Read, Tabled, Going, NEW a, Touched(a)
  PROVE  \E k \in 1 .. next - 1, d \in Nat :
           /\ k \in 1 .. Len(nodes) /\ d < Size(nodes[k]) /\ a = Place(nodes)[k] + d
           /\ Operand(nodes[k]) # "" \/ nodes[k].op \in {"HASH", "THASH"}
<1>1. nodes \in Seq(Node) /\ next \in Nat \ {0}
  BY DEF IInv, TypeInv
<1>2. PICK p \in Seq(Node) : p = nodes
  BY <1>1
<1>3. PICK n \in Nat : n = Len(p)
  BY <1>2
<1>4. next <= n + 1
  BY <1>2, <1>3 DEF Read, Reading
<1>5. \A k \in 1 .. next - 1 : k \in 1 .. n /\ k \in 1 .. n + 1
  BY <1>1, <1>4
<1>6. \A k \in 1 .. next - 1 : Place(p)[k] = Place(p)[k] + 0
  <2>1. PICK place \in [1 .. n + 1 -> Nat] : place = Place(p)
    BY <1>3, Placed
  <2> QED
    BY <1>5, <2>1
<1>7. CASE \E m \in Name : \E r \in symbols[m].refs : r.at = a
  <2>1. PICK m \in Name : \E r \in symbols[m].refs : r.at = a
    BY <1>7
  <2>2. PICK k \in 1 .. next - 1 : m \in Uses(p[k]) /\ a = Place(p)[k]
    BY <1>2, <2>1, QueuedBefore
  <2>3. Operand(p[k]) # ""
    BY <2>2 DEF Uses
  <2>4. a = Place(p)[k] + 0
    BY <1>6, <2>2, Zenon
  <2>5. Size(p[k]) = 1
    BY <2>3 DEF Operand, Size
  <2>6. 0 < Size(p[k]) /\ 0 \in Nat
    BY <2>5
  <2> QED
    BY <1>2, <1>3, <1>5, <2>3, <2>4, <2>6
<1>8. CASE \E i \in DOMAIN entries : entries[i].at = a
  <2>1. PICK k \in 1 .. next - 1 : p[k].op = "HASH" /\ a = Place(p)[k]
    BY <1>2, <1>8 DEF Tabled, Listed, IsEntry
  <2>2. Size(p[k]) = 1
    BY <2>1 DEF Size
  <2>3. a = Place(p)[k] + 0 /\ 0 < Size(p[k]) /\ 0 \in Nat
    BY <1>6, <2>1, <2>2
  <2> QED
    BY <1>2, <1>3, <1>5, <2>1, <2>3
<1>9. CASE thash # 0 /\ \E c \in 0 .. LHV - 1 : thash + c = a
  <2>1. PICK c \in 0 .. LHV - 1 : thash + c = a
    BY <1>9
  <2>2. PICK k \in 1 .. next - 1 : p[k].op = "THASH" /\ thash = Place(p)[k]
    BY <1>2, <1>9 DEF Tabled, Headed, IsHeads
  <2>3. Size(p[k]) = LHV /\ c \in Nat /\ c < LHV
    BY <2>1, <2>2, AssemblerAssumption DEF Size
  <2> QED
    BY <1>2, <1>3, <1>5, <2>1, <2>2, <2>3
<1> QED
  BY <1>7, <1>8, <1>9 DEF Touched

\* So the word of any other statement is left as it was emitted, and so is
\* what lies outside the program.
LEMMA Untouched ==
  ASSUME IInv, Read, Tabled, Going
  PROVE  /\ \A k \in 1 .. next - 1 :
              Emits(nodes[k]) /\ Operand(nodes[k]) = "" /\ nodes[k].op # "HASH"
                => ~Touched(Place(nodes)[k])
         /\ \A a \in Int : a < Last0 \/ pc <= a => ~Touched(a)
<1>1. nodes \in Seq(Node) /\ next \in Nat \ {0} /\ pc = Place(nodes)[next]
  BY DEF IInv, TypeInv, Read, Reading
<1>2. PICK p \in Seq(Node) : p = nodes
  BY <1>1
<1>3. PICK n \in Nat : n = Len(p)
  BY <1>2
<1>4. next \in 1 .. n + 1
  BY <1>1, <1>2, <1>3 DEF Read, Reading
<1>5. PICK place \in [1 .. n + 1 -> Nat] : place = Place(p)
  BY <1>3, Placed
<1>6. ASSUME NEW k \in 1 .. next - 1, Emits(p[k]), Operand(p[k]) = "", p[k].op # "HASH",
             Touched(place[k])
      PROVE  FALSE
  <2>1. PICK j \in 1 .. next - 1, d \in Nat :
          /\ j \in 1 .. n /\ d < Size(p[j]) /\ place[k] = place[j] + d
          /\ Operand(p[j]) # "" \/ p[j].op \in {"HASH", "THASH"}
    BY <1>2, <1>3, <1>5, <1>6, TouchedWords
  <2>2. j # k
    BY <1>6, <2>1 DEF Emits
  <2>3. Size(p[k]) = 1
    BY <1>6 DEF Emits, Size
  <2>4. k \in 1 .. n /\ k \in 1 .. n + 1
    BY <1>4
  <2>5. PICK zero \in Nat : zero = 0 /\ zero < Size(p[k])
    BY <2>3
  <2>6. Place(p)[k] + zero # Place(p)[j] + d
    BY <1>3, <2>1, <2>2, <2>4, <2>5, WordsApart
  <2>7. place[k] + zero = place[k]
    BY <1>5, <2>4, <2>5
  <2> QED
    BY <1>5, <2>1, <2>6, <2>7
<1>7. ASSUME NEW a \in Int, a < Last0 \/ pc <= a, Touched(a)
      PROVE  FALSE
  <2>1. PICK j \in 1 .. next - 1, d \in Nat :
          j \in 1 .. n /\ d < Size(p[j]) /\ a = place[j] + d
    BY <1>2, <1>3, <1>5, <1>7, TouchedWords
  <2>2. j \in 1 .. n + 1 /\ 1 \in 1 .. n + 1 /\ 1 <= j /\ j < next
    BY <1>4, <2>1
  <2>3. place[1] = Last0 /\ place[1] <= place[j] /\ place[j] + Size(p[j]) <= place[next]
    <3>1. place[1] = Last0
      BY <1>5, Placed
    <3>2. place[1] <= place[j]
      BY <1>3, <1>5, <2>2, PlacesGrow
    <3>3. place[j] + Size(p[j]) <= place[next]
      BY <1>3, <1>4, <1>5, <2>2, PlacesGrow
    <3> QED
      BY <3>1, <3>2, <3>3
  <2>4. PICK x \in Nat, y \in Nat, s \in Nat : x = place[j] /\ y = place[next] /\ s = Size(p[j])
    BY <1>4, <1>5, <2>2, SizeIsNat
  <2>5. Last0 <= x /\ x + s <= y /\ a = x + d /\ d < s
    BY <2>1, <2>3, <2>4
  <2>6. y = pc
    BY <1>1, <1>2, <1>5, <2>4
  <2>7. Last0 \in Nat
    BY DEF Last0, Reserved, MaxNumberText
  <2>8. Last0 <= a /\ a < pc
    <3>1. Last0 <= a
      BY <2>4, <2>5, <2>7
    <3>2. a < y
      BY <2>4, <2>5
    <3> QED
      BY <2>6, <3>1, <3>2
  <2> QED
    BY <1>7, <2>6, <2>7, <2>8
<1> QED
  BY <1>2, <1>5, <1>6, <1>7
-----------------------------------------------------------------------------
(***************************************************************************)
(* What has been laid out so far is what the program says.                 *)
(***************************************************************************)
Numbered == jumpTable = Cardinality(Branches(nodes, next))

Written(p, k, w) ==
  MovesVariables(p, k) =>
    /\ w.two = SecondOf(p, k)
    /\ Operand(p[k]) = "" /\ p[k].op # "HASH" => w.value = Plain(p, k)

Words == \A k \in 1 .. next - 1 : Emits(nodes[k]) => Written(nodes, k, core[Place(nodes)[k]])

Bare ==
  /\ \A a \in DOMAIN core : a < Last0 \/ pc <= a => core[a].value = 0 /\ core[a].two = 0
  /\ \A k \in 1 .. next - 1 : nodes[k].op = "THASH" =>
       \A c \in 0 .. LHV - 1 : core[Place(nodes)[k] + c].two = 0

Registered == \A n \in Special : registers[n] = Register(nodes, next, n)

Laid == Going /\ DefinedOnce(nodes) => Numbered /\ Words /\ Bare /\ Registered

\* The pointers of a block move are names.
LEMMA PointersAreNames == "SRCPT" \in Name /\ "DSTPT" \in Name
<1>1. "SRCPT" = Reserved[5] /\ "DSTPT" = Reserved[1] /\ 1 \in 1 .. Len(Reserved) /\ 5 \in 1 .. Len(Reserved)
  BY DEF Reserved
<1>2. "SRCPT" \in Special /\ "DSTPT" \in Special
  BY <1>1 DEF Special
<1> QED
  BY <1>2, AssemblerAssumption

\* A constant that is found is what its name means.
LEMMA ConstantIsMeant ==
  ASSUME IInv, Read, Known, Going, DefinedOnce(nodes), NEW n \in Name, IsConstant(n)
  PROVE  symbols[Resolved(n)].constant = Meaning(nodes, n)
<1>1. symbols[Resolved(n)].kind = "constant"
  BY DEF IsConstant
<1>2. CASE symbols[n].kind = "alias"
  <2>1. PICK t \in Name : t = symbols[n].alias
    BY <1>2 DEF IInv, Consistent
  <2>2. Alias(nodes, n) /\ Target(nodes, n) = t /\ Resolved(n) = t
    BY <1>2, <2>1, Agrees DEF Resolved
  <2>3. ~Alias(nodes, t) /\ Own(nodes, t) = symbols[t].constant
    BY <1>1, <2>2, Agrees
  <2> QED
    BY <2>2, <2>3 DEF Meaning
<1>3. CASE symbols[n].kind # "alias"
  <2>1. Resolved(n) = n
    BY <1>3 DEF Resolved
  <2>2. ~Alias(nodes, n) /\ Own(nodes, n) = symbols[n].constant
    BY <1>1, <2>1, Agrees
  <2> QED
    BY <2>1, <2>2 DEF Meaning
<1> QED
  BY <1>2, <1>3

\* A label that is found is where it stands.
LEMMA LabelIsOwn ==
  ASSUME IInv, Read, Known, Going, DefinedOnce(nodes), NEW n \in Name, IsLabel(nodes, n), Found(n)
  PROVE  symbols[Resolved(n)].address = Own(nodes, n)
<1>1. symbols[n].kind # "alias"
  BY Agrees
<1>2. Resolved(n) = n
  BY <1>1 DEF Resolved
<1>3. symbols[n].kind \in {"address", "constant"}
  <2>1. symbols[n] \in Symbol
    BY DEF IInv, TypeInv
  <2>2. symbols[n].kind \in Kind /\ symbols[n].kind \notin {"absent", "undefined"}
    BY <1>2, <2>1 DEF Symbol, Found, Defined
  <2> QED
    BY <1>1, <2>2 DEF Kind
<1>4. symbols[n].kind = "address" /\ Own(nodes, n) = symbols[n].address
  BY <1>3, Agrees
<1> QED
  BY <1>2, <1>4

\* So a statement emits what the program says.
LEMMA EmittedIsWritten ==
  ASSUME IInv, Read, Known, Going, DefinedOnce(nodes), next <= Len(nodes), Numbered, Writes, Emits(node)
  PROVE  Written(nodes, next, core'[pc])
<1>1. PICK p, k : p = nodes /\ k = next
  OBVIOUS
<1>2. node = p[k] /\ node \in Node
  <2>1. PICK n \in Nat : n = Len(nodes) /\ nodes \in [1 .. n -> Node]
    BY DEF IInv, TypeInv
  <2>2. next \in 1 .. n
    BY <2>1 DEF IInv, TypeInv
  <2> QED
    BY <1>1, <2>1, <2>2 DEF node
<1>3. core'[pc].value = FirstEmitted /\ core'[pc].two = SecondEmitted
  BY DEF Writes, Wrote
<1>4. ASSUME MovesVariables(p, k)
      PROVE  SecondEmitted = SecondOf(p, k)
  <2>1. CASE node.op = "MOVE"
    <3>1. symbols[Resolved("DSTPT")].address = Own(p, "DSTPT")
      BY <1>1, <1>2, <1>4, <2>1, PointersAreNames, LabelIsOwn DEF MovesVariables, Writes
    <3> QED
      BY <1>2, <2>1, <3>1 DEF SecondEmitted, SecondOf
  <2>2. CASE node.op # "MOVE"
    BY <1>1, <1>2, <2>2 DEF SecondEmitted, SecondOf, Numbered
  <2> QED
    BY <2>1, <2>2
<1>5. ASSUME MovesVariables(p, k)
      PROVE  FirstEmitted = Plain(p, k)
  <2>1. CASE node.op = "MOVE"
    <3>1. symbols[Resolved("SRCPT")].address = Own(p, "SRCPT")
      BY <1>1, <1>2, <1>5, <2>1, PointersAreNames, LabelIsOwn DEF MovesVariables, Writes
    <3> QED
      BY <1>2, <2>1, <3>1 DEF FirstEmitted, Plain
  <2>2. CASE node.op = "CON"
    <3>1. node.name \in Name
      BY <1>2, <2>2 DEF Node
    <3>2. symbols[Resolved(node.name)].constant = Meaning(p, node.name)
      BY <1>1, <2>2, <3>1, ConstantIsMeant DEF Writes
    <3> QED
      BY <1>2, <2>2, <3>2 DEF FirstEmitted, Plain
  <2>3. CASE node.op \notin {"CON", "MOVE"}
    BY <1>2, <2>3 DEF FirstEmitted, Plain
  <2> QED
    BY <2>1, <2>2, <2>3
<1> QED
  BY <1>1, <1>3, <1>4, <1>5 DEF Written

\* Reading on numbers the branches on.
LEMMA NumberedKeeps ==
  ASSUME TypeInv, Numbered, Writes, Layout, UNCHANGED nodes
  PROVE  Numbered'
<1>1. PICK k \in Nat \ {0} : k = next
  BY DEF TypeInv
<1>2. next' = k + 1 /\ node = nodes[k]
  BY <1>1 DEF Layout, node
<1>3. jumpTable' = Cardinality(Branches(nodes, k + 1))
  BY <1>1, <1>2, BranchesGrow DEF Numbered, Writes
<1> QED
  BY <1>2, <1>3 DEF Numbered

\* And a variable that is declared moves its register, once.
LEMMA RegisteredKeeps ==
  ASSUME IInv, Read, Registered, Writes, Layout, UNCHANGED nodes, DefinedOnce(nodes)
  PROVE  Registered'
<1>1. PICK p \in Seq(Node), k \in Nat \ {0} : p = nodes /\ k = next
  BY DEF IInv, TypeInv
<1>2. next' = k + 1 /\ node = p[k] /\ pc = Place(p)[k] /\ k \in 1 .. Len(p)
  BY <1>1 DEF Layout, node, Read, Reading
<1>3. (k + 1) - 1 = k /\ 1 .. k = (1 .. k - 1) \cup {k}
  BY <1>1
<1>4. ASSUME NEW n \in Special
      PROVE  registers'[n] = Register(p, k + 1, n)
  <2>1. registers[n] = Register(p, k, n)
    BY <1>1, <1>4 DEF Registered
  <2>2. CASE node.op = "DCL" /\ n = node.name
    <3>1. registers'[n] = Place(p)[k]
      BY <1>2, <1>4, <2>2 DEF Writes
    <3>2. n \in Name /\ k \in Definitions(p, n)
      BY <1>2, <2>2, Defines DEF Defining
    <3>3. n \notin DOMAIN Predefined /\ k = Definition(p, n)
      BY <1>1, <3>2, OneDefinition
    <3>4. Own(p, n) = Place(p)[k]
      BY <1>2, <2>2, <3>3 DEF Own
    <3>5. Declared(p, k + 1, n)
      BY <1>2, <1>3, <2>2 DEF Declared
    <3> QED
      BY <3>1, <3>4, <3>5 DEF Register
  <2>3. CASE ~(node.op = "DCL" /\ n = node.name)
    <3>1. registers'[n] = registers[n]
      BY <1>4, <2>3 DEF Writes
    <3>2. Declared(p, k + 1, n) <=> Declared(p, k, n)
      BY <1>2, <1>3, <2>3 DEF Declared
    <3> QED
      BY <2>1, <3>1, <3>2 DEF Register
  <2> QED
    BY <2>2, <2>3
<1> QED
  BY <1>1, <1>2, <1>4 DEF Registered

\* The words of the statements that have been read lie before the program
\* counter and after the symbol table's own.
LEMMA WordsBelow ==
  ASSUME IInv, Read, NEW k \in 1 .. next - 1
  PROVE  /\ k \in 1 .. Len(nodes) /\ Place(nodes)[k] \in Nat
         /\ Last0 <= Place(nodes)[k] /\ Last0 \in Nat
         /\ Place(nodes)[k] + Size(nodes[k]) <= pc
<1>1. nodes \in Seq(Node) /\ next \in Nat \ {0} /\ pc = Place(nodes)[next]
  BY DEF IInv, TypeInv, Read, Reading
<1>2. PICK p \in Seq(Node), n \in Nat : p = nodes /\ n = Len(p)
  BY <1>1
<1>3. k \in 1 .. n /\ k \in 1 .. n + 1 /\ 1 \in 1 .. n + 1 /\ next \in 1 .. n + 1 /\ k < next /\ 1 <= k
  BY <1>1, <1>2 DEF Read, Reading
<1>4. PICK place \in [1 .. n + 1 -> Nat] : place = Place(p)
  BY <1>2, Placed
<1>5. place[1] = Last0 /\ place[1] <= place[k] /\ place[k] + Size(p[k]) <= place[next]
  BY <1>2, <1>3, <1>4, Placed, PlacesGrow
<1> QED
  BY <1>1, <1>2, <1>3, <1>4, <1>5

\* They are as they were when the next statement has been read.
LEMMA WordsStay ==
  ASSUME IInv, Read, Layout, NEW k \in 1 .. next - 1, NEW d \in Nat, d < Size(nodes[k])
  PROVE  core'[Place(nodes)[k] + d] = core[Place(nodes)[k] + d]
<1>1. PICK a \in Nat, s \in Nat : a = Place(nodes)[k] /\ s = Size(nodes[k])
  BY WordsBelow, SizeIsNat
<1>2. a + s <= pc /\ pc \in Nat /\ pc <= MAX_WORDS /\ MAX_WORDS \in Nat /\ DOMAIN core = 0 .. MAX_WORDS - 1
  BY <1>1, WordsBelow, AssemblerAssumption DEF IInv, TypeInv
<1>3. a + d # pc /\ a + d \in DOMAIN core
  BY <1>1, <1>2
<1>4. core'[a + d] = core[a + d]
  BY <1>3 DEF Layout
<1> QED
  BY <1>1, <1>4

\* Reading on leaves the words of the statements before, and adds the next.
LEMMA WordsKeep ==
  ASSUME IInv, Read, Known, Going, DefinedOnce(nodes), Numbered, Words, Writes, Layout,
         UNCHANGED nodes
  PROVE  Words'
<1>1. PICK k \in Nat \ {0} : k = next
  BY DEF IInv, TypeInv
<1>2. next' = k + 1 /\ node = nodes[k] /\ (k + 1) - 1 = k /\ pc = Place(nodes)[k] /\ next <= Len(nodes)
  BY <1>1 DEF Layout, node, Read, Reading
<1>3. ASSUME NEW j \in 1 .. k, Emits(nodes[j])
      PROVE  Written(nodes, j, core'[Place(nodes)[j]])
  <2>1. CASE j = k
    BY <1>1, <1>2, <1>3, <2>1, EmittedIsWritten
  <2>2. CASE j # k
    <3>1. j \in 1 .. next - 1
      BY <1>1, <2>2
    <3>2. Written(nodes, j, core[Place(nodes)[j]])
      BY <1>3, <3>1 DEF Words
    <3>3. Size(nodes[j]) = 1
      BY <1>3 DEF Emits, Size
    <3>4. PICK zero \in Nat : zero = 0 /\ zero < Size(nodes[j])
      BY <3>3
    <3>5. core'[Place(nodes)[j] + zero] = core[Place(nodes)[j] + zero]
      BY <3>1, <3>4, WordsStay
    <3>6. Place(nodes)[j] + zero = Place(nodes)[j]
      BY <3>1, <3>4, WordsBelow
    <3> QED
      BY <3>2, <3>5, <3>6
  <2> QED
    BY <2>1, <2>2
<1> QED
  BY <1>2, <1>3 DEF Words

\* What lies outside the program stays nought.
LEMMA BareKeeps ==
  ASSUME IInv, Read, Bare, Writes, Layout, UNCHANGED nodes, pc' <= MAX_WORDS
  PROVE  Bare'
<1>1. PICK k \in Nat \ {0} : k = next
  BY DEF IInv, TypeInv
<1>2. /\ next' = k + 1 /\ node = nodes[k] /\ (k + 1) - 1 = k /\ pc = Place(nodes)[k]
      /\ pc \in Nat /\ MAX_WORDS \in Nat /\ DOMAIN core = 0 .. MAX_WORDS - 1 /\ DOMAIN core' = DOMAIN core
  BY <1>1, AssemblerAssumption DEF Layout, node, Read, Reading, IInv, TypeInv
<1>3. Last0 <= pc /\ Last0 \in Nat
  <2>1. PICK p \in Seq(Node), n \in Nat : p = nodes /\ n = Len(p)
    BY DEF IInv, TypeInv
  <2>2. 1 \in 1 .. n + 1 /\ k \in 1 .. n + 1 /\ 1 <= k
    BY <1>1, <2>1 DEF Read, Reading
  <2>3. Place(p)[1] = Last0 /\ Place(p)[1] <= Place(p)[k]
    BY <2>1, <2>2, Placed, PlacesGrow
  <2> QED
    BY <1>2, <2>1, <2>3 DEF Last0, Reserved, MaxNumberText
<1>4. PICK s \in Nat : s = Size(node)
  BY SizeIsNat
<1>5. pc' = pc + s
  BY <1>4 DEF Layout
<1>6. ASSUME NEW a \in DOMAIN core', a < Last0 \/ pc' <= a
      PROVE  core'[a].value = 0 /\ core'[a].two = 0
  <2>1. a \in Nat /\ a \in DOMAIN core /\ (a < Last0 \/ pc <= a)
    BY <1>2, <1>3, <1>4, <1>5, <1>6
  <2>2. core[a].value = 0 /\ core[a].two = 0
    BY <2>1 DEF Bare
  <2>3. CASE a # pc
    BY <2>1, <2>2, <2>3 DEF Layout
  <2>4. CASE a = pc
    <3>1. pc' # pc + 1
      BY <1>2, <1>3, <1>4, <1>5, <1>6, <2>4
    <3> QED
      BY <2>1, <2>2, <2>4, <3>1 DEF Layout
  <2> QED
    BY <2>3, <2>4
<1>7. ASSUME NEW j \in 1 .. k, nodes[j].op = "THASH", NEW c \in 0 .. LHV - 1
      PROVE  core'[Place(nodes)[j] + c].two = 0
  <2>1. Size(nodes[j]) = LHV /\ c \in Nat /\ c < LHV /\ LHV \in Nat
    BY <1>7, AssemblerAssumption DEF Size
  <2>2. CASE j = k
    <3>1. core' = core
      BY <1>2, <1>7, <2>2 DEF Layout
    <3>2. pc + c \in DOMAIN core /\ pc <= pc + c
      BY <1>2, <1>4, <1>5, <2>1, <2>2
    <3> QED
      BY <1>2, <2>2, <3>1, <3>2 DEF Bare
  <2>3. CASE j # k
    <3>1. j \in 1 .. next - 1
      BY <1>1, <2>3
    <3>2. core'[Place(nodes)[j] + c] = core[Place(nodes)[j] + c]
      BY <2>1, <3>1, WordsStay
    <3> QED
      BY <1>7, <3>1, <3>2 DEF Bare
  <2> QED
    BY <2>2, <2>3
<1> QED
  BY <1>2, <1>6, <1>7 DEF Bare

\* Linking and filling leave it all so.
LEMMA LateKeeps ==
  ASSUME IInv, Read, Tabled, Going, Words, Bare,
         EndOfSource \/ Link \/ CheckSymbols \/ Fill \/ Export \/ UNCHANGED vars
  PROVE  Words' /\ Bare'
<1>1. UNCHANGED <<nodes, next, pc>>
  BY RestMoves
<1>2. \A a \in DOMAIN core : core'[a].two = core[a].two /\ (~Touched(a) => core'[a] = core[a])
  BY LateWrites
<1>3. /\ DOMAIN core = 0 .. MAX_WORDS - 1 /\ DOMAIN core' = DOMAIN core
      /\ pc \in Nat /\ pc <= MAX_WORDS /\ MAX_WORDS \in Nat
  <2>1. DOMAIN core' = 0 .. MAX_WORDS - 1
    BY EndOfSourceKeeps, LinkKeeps, CheckSymbolsKeeps, FillKeeps, ExportKeeps, NothingKeeps
       DEF IInv, TypeInv
  <2> QED
    BY <2>1, AssemblerAssumption DEF IInv, TypeInv
<1>4. ASSUME NEW k \in 1 .. next - 1, NEW d \in Nat, d < Size(nodes[k])
      PROVE  Place(nodes)[k] + d \in DOMAIN core
  <2>1. PICK a \in Nat, s \in Nat : a = Place(nodes)[k] /\ s = Size(nodes[k]) /\ a + s <= pc
    BY WordsBelow, SizeIsNat
  <2> QED
    BY <1>3, <1>4, <2>1
<1>5. ASSUME NEW k \in 1 .. next - 1, Emits(nodes[k])
      PROVE  Written(nodes, k, core'[Place(nodes)[k]])
  <2>1. Written(nodes, k, core[Place(nodes)[k]])
    BY <1>5 DEF Words
  <2>2. Place(nodes)[k] \in DOMAIN core
    <3>1. Size(nodes[k]) = 1
      BY <1>5 DEF Emits, Size
    <3>2. PICK zero \in Nat : zero = 0 /\ zero < Size(nodes[k])
      BY <3>1
    <3>3. Place(nodes)[k] + zero \in DOMAIN core
      BY <1>4, <3>2
    <3>4. Place(nodes)[k] + zero = Place(nodes)[k]
      BY <3>2, WordsBelow
    <3> QED
      BY <3>3, <3>4
  <2>3. CASE Operand(nodes[k]) = "" /\ nodes[k].op # "HASH"
    <3>1. ~Touched(Place(nodes)[k])
      BY <1>5, <2>3, Untouched
    <3> QED
      BY <1>2, <2>1, <2>2, <3>1
  <2>4. CASE ~(Operand(nodes[k]) = "" /\ nodes[k].op # "HASH")
    BY <1>2, <2>1, <2>2, <2>4 DEF Written
  <2> QED
    BY <2>3, <2>4
<1>6. ASSUME NEW a \in DOMAIN core, a < Last0 \/ pc <= a
      PROVE  core'[a].value = 0 /\ core'[a].two = 0
  <2>1. a \in Int
    BY <1>3
  <2>2. ~Touched(a)
    BY <1>6, <2>1, Untouched
  <2> QED
    BY <1>2, <1>6, <2>2 DEF Bare
<1>7. ASSUME NEW k \in 1 .. next - 1, nodes[k].op = "THASH", NEW c \in 0 .. LHV - 1
      PROVE  core'[Place(nodes)[k] + c].two = 0
  <2>1. Place(nodes)[k] + c \in DOMAIN core
    <3>1. Size(nodes[k]) = LHV /\ c \in Nat /\ c < LHV
      BY <1>7, AssemblerAssumption DEF Size
    <3> QED
      BY <1>4, <3>1
  <2> QED
    BY <1>2, <1>7, <2>1 DEF Bare
<1> QED
  BY <1>1, <1>3, <1>5, <1>6, <1>7 DEF Words, Bare

\* Every step keeps what has been laid out.
LEMMA LaidKeeps ==
  ASSUME IInv, Read, Known, Tabled, Laid, [Next]_vars
  PROVE  Laid'
<1>1. CASE Statement /\ status' = "assembling"
  <2>1. Layout /\ Writes /\ UNCHANGED nodes /\ Going
    BY <1>1, StatementLays, StatementWrites, StatementMoves DEF IInv, Going
  <2>2. pc' <= MAX_WORDS
    BY <1>1, StatementKeeps DEF IInv, TypeInv
  <2>3. ASSUME DefinedOnce(nodes)
        PROVE  Numbered' /\ Words' /\ Bare' /\ Registered'
    <3>1. Numbered /\ Words /\ Bare /\ Registered
      BY <2>1, <2>3 DEF Laid
    <3> QED
      BY <2>1, <2>2, <2>3, <3>1, NumberedKeeps, WordsKeep, BareKeeps, RegisteredKeeps DEF IInv
  <2> QED
    BY <2>1, <2>3 DEF Laid
<1>2. CASE Statement /\ status' # "assembling"
  <2>1. ~Going'
    BY <1>2, StatementMoves DEF Going
  <2> QED
    BY <2>1 DEF Laid
<1>3. CASE EndOfSource \/ Link \/ CheckSymbols \/ Fill \/ Export \/ UNCHANGED vars
  <2>1. UNCHANGED <<nodes, next, registers, jumpTable>> /\ (Going' => Going)
    <3>1. jumpTable' = jumpTable
      BY <1>3 DEF EndOfSource, Link, CheckSymbols, Fill, Export, vars, Stop
    <3> QED
      BY <1>3, <3>1, RestMoves
  <2>2. ASSUME Going, DefinedOnce(nodes)
        PROVE  Numbered' /\ Words' /\ Bare' /\ Registered'
    <3>1. Numbered /\ Words /\ Bare /\ Registered
      BY <2>2 DEF Laid
    <3>2. Words' /\ Bare'
      BY <1>3, <2>2, <3>1, LateKeeps
    <3> QED
      BY <2>1, <3>1, <3>2 DEF Numbered, Registered
  <2> QED
    BY <2>1, <2>2 DEF Laid
<1> QED
  BY <1>1, <1>2, <1>3 DEF Next

\* At first nothing has been laid out.
LEMMA LaidStarts ==
  ASSUME Init
  PROVE  Laid
<1>0. 1 .. 1 - 1 = {}
  OBVIOUS
<1>1. next = 1 /\ jumpTable = 0
  BY DEF Init
<1>2. Numbered
  <2>1. Cardinality(Branches(nodes, 1)) = 0
    BY BranchesGrow
  <2> QED
    BY <1>1, <2>1 DEF Numbered
<1>3. Bare
  <2>1. \A a \in DOMAIN core : core[a].value = 0 /\ core[a].two = 0
    BY DEF Init
  <2> QED
    BY <1>0, <1>1, <2>1 DEF Bare
<1>4. Registered
  <2>1. \A n : ~Declared(nodes, 1, n)
    BY <1>0 DEF Declared
  <2>2. registers = [n \in Special |-> CHOOSE i \in 1 .. Len(Reserved) : Reserved[i] = n]
    BY DEF Init
  <2>3. ASSUME NEW n \in Special
        PROVE  registers[n] = Register(nodes, 1, n)
    <3>1. registers[n] = CHOOSE i \in 1 .. Len(Reserved) : Reserved[i] = n
      BY <2>2
    <3>2. Register(nodes, 1, n) = CHOOSE i \in 1 .. Len(Reserved) : Reserved[i] = n
      BY <2>1 DEF Register
    <3> QED
      BY <3>1, <3>2, Zenon
  <2> QED
    BY <1>1, <2>3 DEF Registered
<1> QED
  BY <1>0, <1>1, <1>2, <1>3, <1>4 DEF Laid, Words

\* A machine that is returned has all of its tables or none of them, and the
\* symbols it exports are those of the symbol table.
Sealed ==
  /\ status \in {"linking", "filling", "done"} => (entries = << >> <=> thash = 0)
  /\ status = "done" => exported = [n \in Exported |-> symbols[Resolved(n)].address]

\* Every step keeps that.
LEMMA SealedKeeps ==
  ASSUME Sealed, [Next]_vars
  PROVE  Sealed'
<1>1. CASE Statement
  <2>1. status' \notin {"linking", "filling", "done"}
    BY <1>1, StatementMoves
  <2> QED
    BY <2>1 DEF Sealed
<1>2. CASE EndOfSource
  <2>1. status' = "linking" => (entries = << >> <=> thash = 0) /\ UNCHANGED chains
    BY <1>2 DEF EndOfSource, Stop
  <2>2. status' \in {"linking", "error"}
    BY <1>2 DEF EndOfSource, Stop
  <2> QED
    BY <2>1, <2>2 DEF Sealed, chains
<1>3. CASE Link \/ CheckSymbols \/ Fill
  <2>1. UNCHANGED chains /\ status \in {"linking", "filling"} /\ status' # "done"
    BY <1>3 DEF Link, CheckSymbols, Fill, Stop
  <2> QED
    BY <2>1 DEF Sealed, chains
<1>4. CASE Export
  <2>1. UNCHANGED <<table, chains>> /\ status = "filling" /\ status' = "done"
        /\ exported' = [n \in Exported |-> symbols[Resolved(n)].address]
    BY <1>4 DEF Export
  <2>2. symbols' = symbols
    BY <2>1 DEF table
  <2>3. Exported' = Exported /\ \A n : Resolved(n)' = Resolved(n)
    BY <2>2 DEF Exported, Found, Defined, Resolved
  <2> QED
    BY <2>1, <2>2, <2>3 DEF Sealed, chains
<1>5. CASE UNCHANGED vars
  <2>1. UNCHANGED <<status, exported, symbols, entries, thash>>
    BY <1>5 DEF vars, table, chains
  <2>2. Exported' = Exported /\ \A n : Resolved(n)' = Resolved(n)
    BY <2>1 DEF Exported, Found, Defined, Resolved
  <2> QED
    BY <2>1, <2>2 DEF Sealed
<1> QED
  BY <1>1, <1>2, <1>3, <1>4, <1>5 DEF Next

(***************************************************************************)
(* What has been laid out is what the program says, in every assembly of a *)
(* program that defines no name twice.                                     *)
(***************************************************************************)
THEOREM LaidInductive == Spec => [](Laid /\ Sealed)
<1>1. Init => Laid /\ Sealed
  BY LaidStarts DEF Init, Sealed
<1>2. IInv /\ Read /\ (Known /\ Meaningful) /\ (Tabled /\ Blank /\ Chained) /\ (Laid /\ Sealed) /\ [Next]_vars
        => (Laid /\ Sealed)'
  BY LaidKeeps, SealedKeeps
<1> QED
  BY <1>1, <1>2, Inductive, ReadInductive, KnownInductive, ChainedInductive, PTL DEF Spec
-----------------------------------------------------------------------------
\* The entries of chain c behind address a, and the statement that stands
\* there.
Behind(a, c) == {i \in DOMAIN entries : a < entries[i].at /\ HashName[entries[i].text] = c}
Divides(k, a) == \A j \in DOMAIN nodes : nodes[j].op = "HASH" => (k < j <=> a < Place(nodes)[j])

\* The first entry of a chain behind a word is the first HASH statement of
\* that chain behind its statement.
LEMMA LinkIsStatement ==
  ASSUME IInv, Read, Tabled, Going, next = Len(nodes) + 1, NEW k, NEW a, NEW c, Divides(k, a),
         NEW w, Leads(w, Behind(a, c))
  PROVE  core[w].value = LinkOf(nodes, k, c)
<1>0. PICK later : later = Behind(a, c)
  OBVIOUS
<1>1. PICK p \in Seq(Node), n \in Nat : p = nodes /\ n = Len(p) /\ DOMAIN p = 1 .. n /\ next = n + 1
  BY DEF IInv, TypeInv
<1>2. PICK place \in [1 .. n + 1 -> Nat] : place = Place(p)
  BY <1>1, Placed
<1>3. next - 1 = n /\ \A j \in 1 .. n : j \in 1 .. n + 1
  BY <1>1
<1>4. /\ \A i \in DOMAIN entries : \E j \in 1 .. n : IsEntry(entries[i], p, j)
      /\ \A j \in 1 .. n : p[j].op = "HASH" => \E i \in DOMAIN entries : IsEntry(entries[i], p, j)
      /\ \A i, j \in DOMAIN entries : i < j => entries[i].at < entries[j].at
  BY <1>1, <1>3 DEF Tabled, Listed
<1>5. PICK m \in Nat : DOMAIN entries = 1 .. m
  BY DEF IInv, TypeInv
<1>6. PICK L : L = Later(p, k, c)
  OBVIOUS
<1>7. L = {j \in 1 .. n : k < j /\ p[j].op = "HASH" /\ HashName[p[j].text] = c}
  BY <1>1, <1>6 DEF Later
<1>8. ASSUME NEW i \in 1 .. m, NEW j \in 1 .. n, IsEntry(entries[i], p, j)
      PROVE  (i \in later <=> j \in L) /\ entries[i].at = place[j]
  <2>1. p[j].op = "HASH" /\ entries[i].at = place[j] /\ entries[i].text = p[j].text
    BY <1>2, <1>8 DEF IsEntry
  <2>2. k < j <=> a < place[j]
    BY <1>1, <1>2, <2>1 DEF Divides
  <2> QED
    BY <1>0, <1>5, <1>7, <2>1, <2>2 DEF Behind
<1>9. CASE later = {}
  <2>1. ASSUME NEW j \in L
        PROVE  FALSE
    <3>1. PICK i \in 1 .. m : IsEntry(entries[i], p, j) /\ j \in 1 .. n
      BY <1>4, <1>5, <1>7
    <3> QED
      BY <1>8, <1>9, <3>1
  <2>2. L = {}
    BY <2>1
  <2> QED
    BY <1>0, <1>1, <1>6, <1>9, <2>2 DEF LinkOf, Leads
<1>10. CASE later # {}
  <2>1. PICK e \in later : \A i \in later : e <= i
    <3>1. later \in SUBSET Nat
      BY <1>0, <1>5 DEF Behind
    <3> QED
      BY <1>10, <3>1, Pure!Least
  <2>2. e \in 1 .. m /\ \A i \in later : i \in 1 .. m
    BY <1>0, <1>5 DEF Behind
  <2>3. PICK d \in 1 .. n : IsEntry(entries[e], p, d)
    BY <1>4, <1>5, <2>2
  <2>4. d \in L /\ entries[e].at = place[d]
    BY <1>8, <2>1, <2>2, <2>3
  <2>5. ASSUME NEW j \in L
        PROVE  d <= j
    <3>1. j \in 1 .. n /\ p[j].op = "HASH"
      BY <1>7
    <3>2. PICK i \in 1 .. m : IsEntry(entries[i], p, j)
      BY <1>4, <1>5, <3>1
    <3>3. i \in later /\ entries[i].at = place[j]
      BY <1>8, <2>5, <3>1, <3>2
    <3>4. e <= i
      BY <2>1, <3>3
    <3>5. place[d] <= place[j]
      <4>1. place[d] \in Nat /\ place[j] \in Nat
        BY <1>2, <1>3, <3>1
      <4>2. CASE e = i
        BY <2>4, <3>3, <4>1, <4>2
      <4>3. CASE e < i
        <5>1. entries[e].at < entries[i].at
          BY <1>4, <1>5, <2>2, <3>2, <4>3
        <5> QED
          BY <2>4, <3>3, <4>1, <5>1
      <4> QED
        BY <2>2, <3>4, <4>2, <4>3
    <3>6. j < d => place[j] + Size(p[j]) <= place[d]
      BY <1>1, <1>2, <1>3, <3>1, PlacesGrow
    <3>7. Size(p[j]) = 1
      BY <3>1 DEF Size
    <3>8. place[d] \in Nat /\ place[j] \in Nat
      BY <1>2, <1>3, <3>1
    <3> QED
      BY <3>1, <3>5, <3>6, <3>7, <3>8
  <2>6. (CHOOSE j \in later : \A i \in later : j <= i) = e
    <3>1. \A j \in later : (\A i \in later : j <= i) => j = e
      BY <2>1, <2>2
    <3> QED
      BY <2>1, <3>1
  <2>7. (CHOOSE j \in L : \A i \in L : j <= i) = d
    <3>1. \A j \in L : j \in Nat
      BY <1>7
    <3>2. \A j \in L : (\A i \in L : j <= i) => j = d
      BY <2>4, <2>5, <3>1
    <3> QED
      BY <2>4, <2>5, <3>2
  <2>8. L # {}
    BY <2>4
  <2>9. LinkOf(nodes, k, c) = place[d]
    BY <1>1, <1>2, <1>6, <2>7, <2>8 DEF LinkOf
  <2>10. entries[CHOOSE j \in later : \A i \in later : j <= i].at = place[d]
    BY <2>4, <2>6
  <2> QED
    BY <1>0, <1>10, <2>9, <2>10 DEF Leads
<1> QED
  BY <1>9, <1>10

\* So the links of the machine are those of the program.
LEMMA LinksAreStatements ==
  ASSUME IInv, Read, Tabled, Chained, Sealed, status = "done"
  PROVE  \A k \in DOMAIN nodes :
           /\ nodes[k].op = "HASH" =>
                core[Place(nodes)[k]].value = LinkOf(nodes, k, HashName[nodes[k].text])
           /\ nodes[k].op = "THASH" =>
                \A c \in 0 .. LHV - 1 : core[Place(nodes)[k] + c].value = LinkOf(nodes, 0, c)
<1>1. PICK p \in Seq(Node), n \in Nat : p = nodes /\ n = Len(p) /\ DOMAIN p = 1 .. n
  BY DEF IInv, TypeInv
<1>2. next = Len(nodes) + 1 /\ next - 1 = n /\ Going
  BY <1>1 DEF Read, Reading, Going
<1>3. PICK place \in [1 .. n + 1 -> Nat] : place = Place(p)
  BY <1>1, Placed
<1>4. PICK m \in Nat : m = Len(entries) /\ DOMAIN entries = 1 .. m /\ entries \in [1 .. m -> Entry]
  BY DEF IInv, TypeInv
<1>5. thash # 0 => Threads(0)
  <2>1. linked = m /\ m - m = 0
    BY <1>4 DEF Chained
  <2> QED
    BY <1>4, <2>1 DEF Chained
<1>6. ASSUME NEW k \in 1 .. n, p[k].op = "HASH"
      PROVE  core[place[k]].value = LinkOf(p, k, HashName[p[k].text])
  <2>1. PICK i \in 1 .. m : IsEntry(entries[i], p, k)
    BY <1>1, <1>2, <1>4, <1>6 DEF Tabled, Listed
  <2>2. entries[i].at = place[k] /\ entries[i].text = p[k].text
    BY <1>3, <2>1 DEF IsEntry
  <2>3. thash # 0
    BY <1>4, <2>1 DEF Sealed
  <2>4. PICK c : c = HashName[p[k].text]
    OBVIOUS
  <2>5. Leads(place[k], After(c, i))
    <3>1. i > 0
      BY <2>1
    <3> QED
      BY <1>4, <1>5, <2>2, <2>3, <2>4, <3>1 DEF Threads
  <2>6. \A j \in 1 .. m : j > i <=> place[k] < entries[j].at
    <3>1. \A j \in 1 .. m : entries[j].at \in Nat
      BY <1>4 DEF Entry
    <3>2. \A g, h \in 1 .. m : g < h => entries[g].at < entries[h].at
      BY <1>2, <1>4 DEF Tabled, Listed
    <3>3. ASSUME NEW j \in 1 .. m
          PROVE  j > i <=> entries[i].at < entries[j].at
      <4>1. CASE j > i
        BY <2>1, <3>2, <4>1
      <4>2. CASE j = i
        BY <3>1, <4>2
      <4>3. CASE j < i
        <5>1. entries[j].at < entries[i].at
          BY <2>1, <3>2, <4>3
        <5>2. ~(entries[i].at < entries[j].at)
          BY <2>1, <3>1, <5>1
        <5> QED
          BY <2>1, <4>3, <5>2
      <4> QED
        BY <2>1, <4>1, <4>2, <4>3
    <3> QED
      BY <2>2, <3>3
  <2>7. After(c, i) = Behind(place[k], c)
    BY <1>4, <2>6 DEF After, Behind
  <2>8. Divides(k, place[k])
    <3>1. ASSUME NEW j \in 1 .. n
          PROVE  k < j <=> place[k] < place[j]
      <4>1. j \in 1 .. n + 1 /\ k \in 1 .. n + 1 /\ place[j] \in Nat /\ place[k] \in Nat
        BY <1>3, <1>6
      <4>2. k < j => place[k] + Size(p[k]) <= place[j]
        BY <1>1, <1>3, <4>1, PlacesGrow
      <4>3. j <= k => place[j] <= place[k]
        BY <1>1, <1>3, <4>1, PlacesGrow
      <4>4. Size(p[k]) = 1
        BY <1>6 DEF Size
      <4> QED
        BY <4>1, <4>2, <4>3, <4>4
    <3> QED
      BY <1>1, <1>3, <3>1 DEF Divides
  <2>9. Leads(place[k], Behind(place[k], c))
    BY <2>5, <2>7
  <2> QED
    BY <1>1, <1>2, <2>4, <2>8, <2>9, LinkIsStatement
<1>7. ASSUME NEW k \in 1 .. n, p[k].op = "THASH", NEW c \in 0 .. LHV - 1
      PROVE  core[place[k] + c].value = LinkOf(p, 0, c)
  <2>1. thash = place[k]
    BY <1>1, <1>2, <1>3, <1>7 DEF Tabled, Headed, IsHeads
  <2>2. thash # 0
    <3>1. Last0 <= place[k] /\ Last0 > 0 /\ Last0 \in Nat
      BY <1>1, <1>2, <1>3, WordsBelow DEF Last0, Reserved, MaxNumberText
    <3>2. place[k] \in Nat
      BY <1>3
    <3> QED
      BY <2>1, <3>1, <3>2
  <2>3. Leads(place[k] + c, After(c, 0))
    BY <1>5, <2>1, <2>2 DEF Threads
  <2>4. After(c, 0) = Behind(0, c)
    <3>1. ASSUME NEW j \in 1 .. m
          PROVE  j > 0 /\ entries[j].at \in Nat /\ \E h \in 1 .. n : entries[j].at = place[h]
      <4>1. PICK h \in 1 .. next - 1 : IsEntry(entries[j], p, h)
        BY <1>1, <1>2, <1>4 DEF Tabled, Listed
      <4>2. h \in 1 .. n /\ entries[j].at = place[h]
        BY <1>1, <1>2, <1>3, <4>1 DEF IsEntry
      <4>3. entries[j].at \in Nat
        BY <1>4 DEF Entry
      <4> QED
        BY <4>2, <4>3
    <3>2. \A h \in 1 .. n : 0 < place[h]
      <4>1. ASSUME NEW h \in 1 .. n
            PROVE  0 < place[h]
        <5>1. Last0 <= place[h] /\ Last0 > 0 /\ Last0 \in Nat
          BY <1>1, <1>2, <1>3, WordsBelow DEF Last0, Reserved, MaxNumberText
        <5>2. place[h] \in Nat
          BY <1>3
        <5> QED
          BY <5>1, <5>2
      <4> QED
        BY <4>1
    <3> QED
      BY <1>4, <3>1, <3>2 DEF After, Behind
  <2>5. Divides(0, 0)
    <3>1. ASSUME NEW h \in 1 .. n
          PROVE  0 < place[h]
      <4>1. Last0 <= place[h] /\ Last0 > 0 /\ Last0 \in Nat
        BY <1>1, <1>2, <1>3, WordsBelow DEF Last0, Reserved, MaxNumberText
      <4>2. place[h] \in Nat
        BY <1>3
      <4> QED
        BY <4>1, <4>2
    <3> QED
      BY <1>1, <1>3, <3>1 DEF Divides
  <2>6. Leads(place[k] + c, Behind(0, c))
    BY <2>3, <2>4
  <2> QED
    BY <1>1, <1>2, <2>5, <2>6, LinkIsStatement
<1> QED
  BY <1>1, <1>3, <1>6, <1>7

\* A word of core.
Pair(first, second) == [value |-> first, two |-> second]

ImageIsExact ==
  status = "done" /\ DefinedOnce(nodes) =>
    /\ \A k \in DOMAIN nodes : Emits(nodes[k]) /\ MovesVariables(nodes, k) =>
         core[Place(nodes)[k]] = Pair(FirstOf(nodes, k), SecondOf(nodes, k))
    /\ \A k \in DOMAIN nodes : nodes[k].op = "THASH" =>
         \A c \in 0 .. LHV - 1 : core[Place(nodes)[k] + c] = Pair(LinkOf(nodes, 0, c), 0)
    /\ \A a \in DOMAIN core : a < Last0 \/ Place(nodes)[Len(nodes) + 1] <= a => core[a] = Pair(0, 0)

\* A word is its two values.
LEMMA WordIs ==
  ASSUME TypeInv, NEW a \in DOMAIN core
  PROVE  core[a].value \in Int /\ core[a] = Pair(core[a].value, core[a].two)
<1>1. core[a] \in [value : Int, two : Nat]
  BY DEF TypeInv
<1> QED
  BY <1>1 DEF Pair

(***************************************************************************)
(* When Assemble returns a machine, core is a function of the program, if  *)
(* that defines no name twice: each word holds what its statement says,    *)
(* the exits of a call are numbered from one and the ways of a jump table  *)
(* from nought, each HASH word and each head leads to the next name of its *)
(* chain, and the words of no statement are nought.  Neither the order in  *)
(* which the queues were filled nor what was known when a word was emitted *)
(* shows in it.  (Assemble)                                                *)
(***************************************************************************)
THEOREM ImageExact == Spec => []ImageIsExact
<1>1. ASSUME IInv, Read, Known, Tabled, Chained, Laid, Sealed, ReferencesMeanDefinitions
      PROVE  ImageIsExact
  <2> SUFFICES ASSUME status = "done", DefinedOnce(nodes)
               PROVE  ImageIsExact
    BY DEF ImageIsExact
  <2>1. PICK n \in Nat : n = Len(nodes) /\ DOMAIN nodes = 1 .. n
    BY <1>1 DEF IInv, TypeInv
  <2>2. next = n + 1 /\ next - 1 = n /\ pc = Place(nodes)[n + 1] /\ Going
    BY <1>1, <2>1 DEF Read, Reading, Going
  <2>3. Words /\ Bare
    BY <1>1, <2>2 DEF Laid
  <2>4. ASSUME NEW k \in 1 .. n, NEW d \in Nat, d < Size(nodes[k])
        PROVE  Place(nodes)[k] + d \in DOMAIN core
    <3>1. PICK a \in Nat, s \in Nat : a = Place(nodes)[k] /\ s = Size(nodes[k]) /\ a + s <= pc
      BY <1>1, <2>2, WordsBelow, SizeIsNat
    <3>2. pc \in Nat /\ pc <= MAX_WORDS /\ MAX_WORDS \in Nat /\ DOMAIN core = 0 .. MAX_WORDS - 1
      BY <1>1, AssemblerAssumption DEF IInv, TypeInv
    <3> QED
      BY <2>4, <3>1, <3>2
  <2>5. ASSUME NEW k \in 1 .. n, Emits(nodes[k]), MovesVariables(nodes, k)
        PROVE  core[Place(nodes)[k]] = Pair(FirstOf(nodes, k), SecondOf(nodes, k))
    <3>1. PICK a \in Nat : a = Place(nodes)[k]
      BY <1>1, <2>2, WordsBelow
    <3>2. a \in DOMAIN core
      <4>1. Size(nodes[k]) = 1
        BY <2>5 DEF Emits, Size
      <4>2. PICK zero \in Nat : zero = 0 /\ zero < Size(nodes[k])
        BY <4>1
      <4>3. a + zero \in DOMAIN core
        BY <2>4, <3>1, <4>2
      <4> QED
        BY <4>2, <4>3
    <3>3. core[a].value \in Int /\ core[a] = Pair(core[a].value, core[a].two)
      BY <1>1, <3>2, WordIs DEF IInv
    <3>4. Written(nodes, k, core[a])
      BY <2>2, <2>3, <2>5, <3>1 DEF Words
    <3>5. core[a].two = SecondOf(nodes, k)
      BY <2>5, <3>4 DEF Written
    <3>6. core[a].value = FirstOf(nodes, k)
      <4>1. CASE Operand(nodes[k]) # ""
        <5>1. (IF nodes[k].op = "RL" THEN a ELSE 0) + core[a].value = Meaning(nodes, Operand(nodes[k]))
          BY <1>1, <2>1, <3>1, <4>1 DEF ReferencesMeanDefinitions
        <5>2. FirstOf(nodes, k) = Meaning(nodes, Operand(nodes[k])) - (IF nodes[k].op = "RL" THEN a ELSE 0)
          BY <3>1, <4>1 DEF FirstOf
        <5> HIDE DEF FirstOf, Meaning, Operand
        <5> QED
          BY <3>1, <3>3, <5>1, <5>2
      <4>2. CASE Operand(nodes[k]) = "" /\ nodes[k].op = "HASH"
        BY <1>1, <2>1, <3>1, <4>2, LinksAreStatements DEF FirstOf
      <4>3. CASE Operand(nodes[k]) = "" /\ nodes[k].op # "HASH"
        BY <2>5, <3>4, <4>3 DEF Written, FirstOf
      <4> QED
        BY <4>1, <4>2, <4>3
    <3> QED
      BY <3>1, <3>3, <3>5, <3>6
  <2>6. ASSUME NEW k \in 1 .. n, nodes[k].op = "THASH", NEW c \in 0 .. LHV - 1
        PROVE  core[Place(nodes)[k] + c] = Pair(LinkOf(nodes, 0, c), 0)
    <3>1. Place(nodes)[k] + c \in DOMAIN core
      <4>1. Size(nodes[k]) = LHV /\ c \in Nat /\ c < LHV
        BY <2>6, AssemblerAssumption DEF Size
      <4> QED
        BY <2>4, <4>1
    <3>2. core[Place(nodes)[k] + c].value = LinkOf(nodes, 0, c)
      BY <1>1, <2>1, <2>6, LinksAreStatements
    <3>3. core[Place(nodes)[k] + c].two = 0
      BY <2>2, <2>3, <2>6 DEF Bare
    <3> QED
      BY <1>1, <3>1, <3>2, <3>3, WordIs DEF IInv
  <2>7. ASSUME NEW a \in DOMAIN core, a < Last0 \/ pc <= a
        PROVE  core[a] = Pair(0, 0)
    <3>1. core[a].value = 0 /\ core[a].two = 0
      BY <2>3, <2>7 DEF Bare
    <3> QED
      BY <1>1, <3>1, WordIs DEF IInv
  <2> QED
    BY <2>1, <2>2, <2>5, <2>6, <2>7 DEF ImageIsExact
<1> QED
  BY <1>1, Inductive, ReadInductive, KnownInductive, ChainedInductive, LaidInductive, ReferencesMean, PTL

\* The tables that are returned beside core.
TablesAreExact ==
  status = "done" /\ DefinedOnce(nodes) =>
    /\ exported = [n \in {m \in Name : Visible(nodes, m)} |-> Meaning(nodes, n)]
    /\ \A n \in Special : registers[n] = Register(nodes, Len(nodes) + 1, n)

\* A name that the program defines is defined when it has been read.
LEMMA VisibleIsExported ==
  ASSUME IInv, Read, Known, status = "done", DefinedOnce(nodes), NEW n \in Name
  PROVE  /\ n \in Exported <=> Visible(nodes, n)
         /\ n \in Exported => symbols[Resolved(n)].address = Meaning(nodes, n)
<1>1. PICK p \in Seq(Node) : p = nodes
  BY DEF IInv, TypeInv
<1>2. Going /\ \A m \in Name : symbols[m].kind # "undefined" /\ KnownName(m)
  BY DEF Going, IInv, FillInv, Known
<1>3. \A m : \A j \in Definitions(p, m) : j < next
  <2>1. PICK last \in Nat : last = Len(p) /\ next = last + 1 /\ DOMAIN p = 1 .. last
    BY <1>1 DEF Read, Reading
  <2> QED
    BY <2>1 DEF Definitions
<1>4. ASSUME NEW m \in Name
      PROVE  symbols[m].kind = "address" <=> IsLabel(p, m)
  <2>1. ASSUME IsLabel(p, m)
        PROVE  symbols[m].kind = "address"
    <3>1. PICK j \in Definitions(p, m) : p[j].op \in Labelling
      BY <2>1 DEF IsLabel, Labelling
    <3>2. Settled(symbols[m], p[j], Place(p)[j])
      BY <1>1, <1>2, <1>3 DEF KnownName
    <3> QED
      BY <3>1, <3>2 DEF Settled
  <2> QED
    BY <1>1, <1>2, <2>1, Agrees
<1>5. ASSUME Alias(p, n)
      PROVE  symbols[n].kind = "alias"
  <2>1. PICK j \in Definitions(p, n) : p[j].op = "EQU"
    BY <1>5 DEF Alias
  <2>2. Settled(symbols[n], p[j], Place(p)[j])
    BY <1>1, <1>2, <1>3 DEF KnownName
  <2> QED
    BY <1>2, <2>1, <2>2 DEF Settled
<1>6. n \in Exported <=> Found(n) /\ symbols[Resolved(n)].kind = "address"
  BY DEF Exported
<1>7. CASE symbols[n].kind = "alias"
  <2>1. PICK t \in Name : t = symbols[n].alias
    BY <1>7 DEF IInv, Consistent
  <2>2. Alias(p, n) /\ ~IsLabel(p, n) /\ Target(p, n) = t /\ Resolved(n) = t
    BY <1>1, <1>2, <1>7, <2>1, Agrees DEF Resolved
  <2>3. symbols[t].kind = "address" <=> IsLabel(p, t)
    BY <1>4
  <2>4. n \in Exported <=> symbols[t].kind = "address"
    BY <1>6, <2>2 DEF Found, Defined
  <2>5. symbols[t].kind = "address" => ~Alias(p, t) /\ Own(p, t) = symbols[t].address
    BY <1>1, <1>2, Agrees
  <2> QED
    BY <1>1, <2>2, <2>3, <2>4, <2>5 DEF Visible, Meaning
<1>8. CASE symbols[n].kind # "alias"
  <2>1. Resolved(n) = n /\ ~Alias(p, n)
    BY <1>5, <1>8 DEF Resolved
  <2>2. n \in Exported <=> symbols[n].kind = "address"
    BY <1>6, <2>1 DEF Found, Defined
  <2>3. symbols[n].kind = "address" => Own(p, n) = symbols[n].address
    BY <1>1, <1>2, Agrees
  <2> QED
    BY <1>1, <1>4, <2>1, <2>2, <2>3 DEF Visible, Meaning
<1> QED
  BY <1>7, <1>8

(***************************************************************************)
(* So are the tables beside core: the symbols that a machine exports are   *)
(* exactly the labels of the program and the names EQU gives to labels,    *)
(* with what they mean, and a register is the word of the DCL that         *)
(* declares it, wherever that stands.  (Assemble, Machine.Symbols)         *)
(***************************************************************************)
THEOREM TablesExact == Spec => []TablesAreExact
<1>1. ASSUME IInv, Read, Known, Laid, Sealed
      PROVE  TablesAreExact
  <2> SUFFICES ASSUME status = "done", DefinedOnce(nodes)
               PROVE  TablesAreExact
    BY DEF TablesAreExact
  <2>1. next = Len(nodes) + 1 /\ Going
    BY <1>1 DEF Read, Reading, Going
  <2>2. exported = [n \in Exported |-> symbols[Resolved(n)].address]
    BY <1>1 DEF Sealed
  <2>3. Exported \subseteq Name
    BY DEF Exported
  <2>4. Exported = {m \in Name : Visible(nodes, m)}
    BY <1>1, <2>3, VisibleIsExported
  <2>5. \A n \in Exported : symbols[Resolved(n)].address = Meaning(nodes, n)
    BY <1>1, <2>3, VisibleIsExported
  <2>6. exported = [n \in Exported |-> Meaning(nodes, n)]
    BY <2>2, <2>5, Zenon
  <2>7. \A n \in Special : registers[n] = Register(nodes, Len(nodes) + 1, n)
    BY <1>1, <2>1 DEF Laid, Registered
  <2> QED
    BY <2>4, <2>6, <2>7 DEF TablesAreExact
<1> QED
  BY <1>1, Inductive, ReadInductive, KnownInductive, ChainedInductive, LaidInductive, PTL
=============================================================================
