---------------------------- MODULE FetchProofs ----------------------------
(***************************************************************************)
(* The safety of the fetcher, for any number of commands, archives and     *)
(* files, whatever fails or dies and whatever is edited in between.        *)
(*                                                                         *)
(* What the fetcher promises, it promises when every command has ended.    *)
(* The inductive invariant says what holds while commands run: which       *)
(* checks a command has passed at each place (Checked), and, as long as    *)
(* nothing has failed, that a file a command has seen to is right or is    *)
(* being written by some command that will not end before it is            *)
(* (TargetsSeenTo, EnginesSeenTo).                                         *)
(*                                                                         *)
(* And why each command ends: a number of steps that nobody else adds to.  *)
(***************************************************************************)
EXTENDS FetchProperties, FiniteSetTheorems, TLAPS

Pure == INSTANCE OperatorProofs

Labels == {"ended", "check", "bytes", "store", "storing", "unpack", "install", "installing",
           "engines", "embed", "emptying", "filling"}
AtEngines == {"engines", "embed", "emptying", "filling"}

TypeInv ==
  /\ world \in Worlds
  /\ target \in [Archive -> [Name -> Content]]
  /\ cache \in [Archive -> Content]
  /\ embed \in [Name -> Content]
  /\ pc \in [Process -> Labels]
  /\ opt \in [Process -> [force : BOOLEAN, verifyOnly : BOOLEAN]]
  /\ at \in [Process -> Archive]
  /\ todo \in [Process -> SUBSET Name]
  /\ file \in [Process -> Name \cup {0}]
  /\ held \in [Process -> Content]
  /\ out \in [Process -> {"none", "ok", "error", "crash"}]
  /\ upset \in BOOLEAN /\ mixed \in BOOLEAN

\* The checks a command has passed, by where it is.
CheckedAt(p) ==
  /\ at[p] <= world.selected
  /\ pc[p] = "ended" => at[p] = 1
  /\ pc[p] \in {"bytes", "store", "storing", "unpack", "install", "installing"} =>
       ~opt[p].verifyOnly /\ ~Refuses("target")
  /\ pc[p] \in {"install", "installing"} =>
       todo[p] \subseteq Listed[at[p]] /\ Verifies(at[p], Unpacked(at[p]))
  /\ pc[p] = "installing" => file[p] \in Listed[at[p]]
  /\ pc[p] \in {"embed", "emptying", "filling"} =>
       ~opt[p].verifyOnly /\ ~Refuses("embed") /\ todo[p] \subseteq Lwl \cap (Listed[at[p]] \cup Strays)
  /\ pc[p] \in {"emptying", "filling"} => file[p] \in Lwl \cap (Listed[at[p]] \cup Strays)
Checked == \A p \in Process : CheckedAt(p)

\* No directory holds a member of another archive.
Apart == \A a \in Archive : \A n \in Name : target[a][n] # None => n \in Listed[a] \cup Strays

\* Commands that run at the same time are known to.
Mixed == \A p, q \in Process : pc[p] # "ended" /\ pc[q] # "ended" /\ p # q => mixed

\* A member is there, or some command is just writing it.
InTarget(a, n) ==
  \/ target[a][n] = Good
  \/ /\ target[a][n] = Part
     /\ \E q \in Process : pc[q] = "installing" /\ at[q] = a /\ file[q] = n

TargetsOf(p) ==
  /\ \A a \in Archive : a < at[p] \/ (a = at[p] /\ pc[p] \in AtEngines) =>
       \A n \in Listed[a] : InTarget(a, n)
  /\ pc[p] \in {"install", "installing"} =>
       \A n \in Listed[at[p]] \ todo[p] : InTarget(at[p], n)

TargetsSeenTo ==
  /\ \A p \in Process : pc[p] # "ended" => TargetsOf(p)
  /\ (\A p \in Process : pc[p] = "ended") =>
       \A a \in 1 .. world.selected : \A n \in Listed[a] : InTarget(a, n)

Acceptable(content) == content = Good \/ (mixed /\ content = Part)
InEmbed(n) ==
  \/ Acceptable(embed[n])
  \/ embed[n] = Part /\ \E q \in Process : pc[q] = "filling" /\ file[q] = n

\* The engine names that a command has seen to, and those it is at.
AllEngines(last) == {n \in Lwl : \E a \in Engines : a <= last /\ n \in Listed[a]}
UnderWay(p) == todo[p] \cup (IF pc[p] = "emptying" THEN {file[p]} ELSE {})

EnginesOf(p) ==
  ~opt[p].verifyOnly =>
    /\ \A n \in AllEngines(at[p] - 1) : InEmbed(n)
    /\ pc[p] \in {"embed", "emptying", "filling"} =>
         \A n \in (Lwl \cap Listed[at[p]]) \ UnderWay(p) : InEmbed(n)
    /\ pc[p] \in {"emptying", "filling"} /\ file[p] \notin Strays => Acceptable(held[p])

EnginesSeenTo ==
  Embeds =>
    /\ \A p \in Process : pc[p] # "ended" => EnginesOf(p)
    /\ (\A p \in Process : pc[p] = "ended") /\ (\A p \in Process : ~opt[p].verifyOnly) =>
         \A n \in AllEngines(world.selected) : InEmbed(n)

IInv ==
  /\ TypeInv /\ Checked /\ Apart /\ Mixed
  /\ ~upset => TargetsSeenTo /\ EnginesSeenTo
-----------------------------------------------------------------------------
LEMMA Archives ==
  /\ Archive \subseteq Nat \ {0} /\ 1 \in Archive /\ Name \subseteq Nat /\ Lwl \subseteq Name
  /\ \A a \in Archive : Listed[a] \subseteq Name /\ Listed[a] \cap Strays = {}
  /\ \A a \in Archive : 1 .. a \subseteq Archive
<1>1. PICK last \in Nat : last = Len(Listed) /\ Archive = 1 .. last /\ last # 0
  BY FetchAssumption DEF Archive
<1>2. \A a \in Archive : Listed[a] \in SUBSET Nat
  BY <1>1, FetchAssumption DEF Archive
<1>3. \A a \in Archive : Listed[a] \subseteq Name
  BY DEF Name
<1>4. Name \subseteq Nat
  <2>1. ASSUME NEW n \in Name
        PROVE  n \in Strays \/ \E a \in Archive : n \in Listed[a]
    BY DEF Name
  <2> QED
    BY <1>2, <2>1, FetchAssumption
<1> QED
  BY <1>1, <1>3, <1>4, FetchAssumption

LEMMA Selected ==
  ASSUME TypeInv
  PROVE  /\ world.selected \in Archive /\ 1 .. world.selected \subseteq Archive
         /\ \A a \in Archive : a < world.selected => a + 1 \in Archive
<1>1. world.selected \in Archive
  BY FetchAssumption DEF TypeInv
<1>2. PICK last \in Nat : Archive = 1 .. last
  BY FetchAssumption DEF Archive
<1>3. 1 .. world.selected \subseteq Archive
  BY <1>1, Archives, Zenon
<1>4. world.selected \in Nat /\ world.selected <= last
  BY <1>1, <1>2
<1>5. ASSUME NEW a \in Archive, a < world.selected
      PROVE  a + 1 \in Archive
  <2>1. a \in Nat /\ a >= 1
    BY <1>2
  <2> QED
    BY <1>2, <1>4, <1>5, <2>1
<1> QED
  BY <1>1, <1>3, <1>5

LEMMA UnpackedTypes ==
  ASSUME NEW a \in Archive
  PROVE  Unpacked(a) \in [Name -> Content]
BY DEF Unpacked, Content

LEMMA LeastFile ==
  ASSUME NEW names \in SUBSET Nat, names # {}
  PROVE  Min(names) \in names
BY Pure!Least DEF Min
-----------------------------------------------------------------------------
(***************************************************************************)
(* A step of the command p that goes on: what it changes is its own, the   *)
(* directories and the cache.                                              *)
(***************************************************************************)
Moves(p, label, a, names, n, content) ==
  /\ pc' = [pc EXCEPT ![p] = label]
  /\ at' = [at EXCEPT ![p] = a]
  /\ todo' = [todo EXCEPT ![p] = names]
  /\ file' = [file EXCEPT ![p] = n]
  /\ held' = [held EXCEPT ![p] = content]
  /\ UNCHANGED <<world, opt, out, history>>

TargetsPersist == \A a \in Archive : \A n \in Listed[a] : InTarget(a, n) => InTarget(a, n)'
EmbedPersists == \A n \in Lwl \ Strays : InEmbed(n) => InEmbed(n)'

LEMMA MoveKeeps ==
  ASSUME IInv, NEW p \in Process, pc[p] # "ended",
         NEW label \in Labels \ {"ended"}, NEW a \in Archive, NEW names \in SUBSET Name,
         NEW n \in Name \cup {0}, NEW content \in Content, Moves(p, label, a, names, n, content),
         target' \in [Archive -> [Name -> Content]], cache' \in [Archive -> Content], embed' \in [Name -> Content],
         CheckedAt(p)', Apart',
         ~upset => TargetsPersist /\ TargetsOf(p)',
         ~upset /\ Embeds => EmbedPersists /\ EnginesOf(p)'
  PROVE  IInv'
<1> USE DEF IInv
<1>1. /\ pc' \in [Process -> Labels] /\ pc'[p] = label /\ UNCHANGED <<world, opt, out, upset, mixed>>
      /\ \A q \in Process : q # p =>
           pc'[q] = pc[q] /\ at'[q] = at[q] /\ todo'[q] = todo[q] /\ file'[q] = file[q] /\ held'[q] = held[q]
  BY DEF Moves, TypeInv, history
<1>2. TypeInv'
  BY DEF Moves, TypeInv, history
<1>3. Checked'
  <2>1. ASSUME NEW q \in Process, q # p
        PROVE  CheckedAt(q)'
    BY <1>1, <2>1 DEF Checked, CheckedAt, Refuses, Verifies, Unpacked
  <2> QED
    BY <2>1 DEF Checked
<1>4. Mixed'
  BY <1>1 DEF Mixed
<1>5. ASSUME ~upset
      PROVE  TargetsSeenTo'
  <2>1. ASSUME NEW q \in Process, q # p, pc'[q] # "ended"
        PROVE  TargetsOf(q)'
    <3>1. TargetsOf(q) /\ at[q] \in Archive
      BY <1>1, <1>5, <2>1 DEF TargetsSeenTo, TypeInv
    <3> QED
      BY <1>1, <1>5, <2>1, <3>1 DEF TargetsOf, TargetsPersist
  <2> QED
    BY <1>1, <1>5, <2>1 DEF TargetsSeenTo
<1>6. ASSUME ~upset
      PROVE  EnginesSeenTo'
  <2> SUFFICES ASSUME Embeds PROVE EnginesSeenTo'
    BY DEF EnginesSeenTo
  <2>1. ASSUME NEW q \in Process, q # p, pc'[q] # "ended"
        PROVE  EnginesOf(q)'
    <3>1. EnginesOf(q) /\ at[q] \in Archive
      BY <1>1, <1>6, <2>1 DEF EnginesSeenTo, TypeInv
    <3>2. AllEngines(at[q] - 1) \subseteq Lwl \ Strays /\ (Lwl \cap Listed[at[q]]) \subseteq Lwl \ Strays
      BY <3>1, Archives, FetchAssumption DEF AllEngines
    <3>3. UnderWay(q)' = UnderWay(q)
      BY <1>1, <2>1 DEF UnderWay
    <3> QED
      BY <1>1, <1>6, <2>1, <3>1, <3>2, <3>3 DEF EnginesOf, EmbedPersists, Acceptable
  <2> QED
    BY <1>1, <1>6, <2>1 DEF EnginesSeenTo
<1> QED
  BY <1>1, <1>2, <1>3, <1>4, <1>5, <1>6

LEMMA Still ==
  ASSUME TypeInv, NEW p \in Process
  PROVE  /\ at = [at EXCEPT ![p] = at[p]] /\ todo = [todo EXCEPT ![p] = todo[p]]
         /\ file = [file EXCEPT ![p] = file[p]] /\ held = [held EXCEPT ![p] = held[p]]
         /\ at[p] \in Archive /\ todo[p] \in SUBSET Name /\ file[p] \in Name \cup {0} /\ held[p] \in Content
         /\ opt[p].verifyOnly \in BOOLEAN /\ opt[p].force \in BOOLEAN /\ pc[p] \in Labels
  BY DEF TypeInv

LEMMA NothingMoves ==
  ASSUME TypeInv, NEW p \in Process, pc[p] \notin {"installing", "filling"}, UNCHANGED <<target, embed, mixed>>,
         \A q \in Process : q # p => pc'[q] = pc[q] /\ at'[q] = at[q] /\ file'[q] = file[q]
  PROVE  TargetsPersist /\ EmbedPersists
<1>1. ASSUME NEW q \in Process
      PROVE  /\ pc[q] = "installing" => pc'[q] = "installing" /\ at'[q] = at[q] /\ file'[q] = file[q]
             /\ pc[q] = "filling" => pc'[q] = "filling" /\ file'[q] = file[q]
  OBVIOUS
<1> QED
  BY <1>1 DEF TargetsPersist, EmbedPersists, InTarget, InEmbed, Acceptable

(***************************************************************************)
(* The steps that only move a command on.  What it has still to see to is  *)
(* what it had, unless it comes to the engines, and then it must have seen *)
(* to all the members.                                                     *)
(***************************************************************************)
LEMMA MovesOnKeeps ==
  ASSUME IInv, NEW p \in Process, NEW label \in Labels \ {"ended"},
         Moves(p, label, at[p], todo[p], file[p], held[p]), UNCHANGED <<target, embed>>,
         cache' \in [Archive -> Content],
         \/ pc[p] = "check" /\ label = "bytes" /\ ~Refuses("target") /\ ~opt[p].verifyOnly
         \/ pc[p] \in {"bytes", "store", "storing"} /\ label \in {"store", "storing", "unpack"}
         \/ /\ pc[p] \in {"check", "install"} /\ label = "engines"
            /\ ~upset => \A n \in Listed[at[p]] : InTarget(at[p], n)
  PROVE  IInv'
<1> USE DEF IInv
<1>1. /\ pc'[p] = label /\ at'[p] = at[p] /\ todo'[p] = todo[p] /\ file'[p] = file[p]
      /\ UNCHANGED <<world, opt, upset, mixed>>
      /\ \A q \in Process : q # p => pc'[q] = pc[q] /\ at'[q] = at[q] /\ file'[q] = file[q]
  BY DEF Moves, TypeInv, history
<1>2. TargetsPersist /\ EmbedPersists
  BY <1>1, NothingMoves
<1>3. at[p] \in Archive /\ CheckedAt(p)
  BY DEF TypeInv, Checked
<1>4. CheckedAt(p)' /\ Apart'
  BY <1>1, <1>3 DEF CheckedAt, Refuses, Apart
<1>5. ASSUME ~upset
      PROVE  TargetsOf(p)'
  <2>1. TargetsOf(p)
    BY <1>5 DEF TargetsSeenTo
  <2> QED
    BY <1>1, <1>2, <1>3, <1>5, <2>1 DEF TargetsOf, TargetsPersist, AtEngines
<1>6. ASSUME ~upset, Embeds
      PROVE  EnginesOf(p)'
  <2>1. EnginesOf(p)
    BY <1>6 DEF EnginesSeenTo
  <2>2. AllEngines(at[p] - 1) \subseteq Lwl \ Strays
    BY <1>3, Archives, FetchAssumption DEF AllEngines
  <2> QED
    BY <1>1, <1>2, <2>1, <2>2 DEF EnginesOf, EmbedPersists
<1>7. /\ at[p] \in Archive /\ todo[p] \in SUBSET Name /\ file[p] \in Name \cup {0} /\ held[p] \in Content
      /\ target' \in [Archive -> [Name -> Content]] /\ embed' \in [Name -> Content]
  BY Still DEF TypeInv
<1> QED
  BY <1>2, <1>4, <1>5, <1>6, <1>7, MoveKeeps

LEMMA EndsKeep ==
  ASSUME IInv, NEW p \in Process, NEW result \in {"ok", "error", "crash"}, End(p, result), UNCHANGED world,
         result = "ok" /\ ~upset =>
           /\ pc[p] \notin {"installing", "filling"}
           /\ \A a \in 1 .. world.selected : \A n \in Listed[a] : InTarget(a, n)
           /\ Embeds /\ ~opt[p].verifyOnly => \A n \in AllEngines(world.selected) : InEmbed(n)
  PROVE  IInv'
<1> USE DEF IInv
<1>1. /\ pc'[p] = "ended" /\ at'[p] = 1 /\ UNCHANGED <<world, opt, disk, mixed>>
      /\ upset' = (upset \/ result # "ok")
      /\ \A q \in Process : q # p =>
           pc'[q] = pc[q] /\ at'[q] = at[q] /\ todo'[q] = todo[q] /\ file'[q] = file[q] /\ held'[q] = held[q]
  BY DEF End, TypeInv
<1>2. TypeInv'
  BY Archives DEF End, TypeInv, disk, Content, Labels
<1>3. Checked'
  <2>1. CheckedAt(p)'
    <3>1. world.selected \in Nat /\ world.selected # 0
      BY Archives, Selected
    <3> QED
      BY <1>1, <3>1 DEF CheckedAt
  <2>2. ASSUME NEW q \in Process, q # p
        PROVE  CheckedAt(q)'
    BY <1>1, <2>2 DEF Checked, CheckedAt, Refuses, Verifies, Unpacked
  <2> QED
    BY <2>1, <2>2 DEF Checked
<1>4. Apart' /\ Mixed'
  BY <1>1 DEF Apart, Mixed, disk
<1>5. ASSUME ~upset'
      PROVE  TargetsSeenTo' /\ EnginesSeenTo'
  <2>1. result = "ok" /\ ~upset /\ pc[p] \notin {"installing", "filling"}
    BY <1>1, <1>5
  <2>2. TargetsPersist /\ EmbedPersists
    BY <1>1, <2>1, NothingMoves DEF disk
  <2>3. TargetsSeenTo'
    <3>1. ASSUME NEW q \in Process, q # p, pc'[q] # "ended"
          PROVE  TargetsOf(q)'
      <4>1. TargetsOf(q) /\ at[q] \in Archive
        BY <1>1, <2>1, <3>1 DEF TargetsSeenTo, TypeInv
      <4> QED
        BY <1>1, <2>2, <3>1, <4>1 DEF TargetsOf, TargetsPersist
    <3>2. \A a \in 1 .. world.selected : \A n \in Listed[a] : InTarget(a, n)'
      BY <2>1, <2>2, Selected DEF TargetsPersist
    <3> QED
      BY <1>1, <3>1, <3>2 DEF TargetsSeenTo
  <2>4. EnginesSeenTo'
    <3> SUFFICES ASSUME Embeds PROVE EnginesSeenTo'
      BY DEF EnginesSeenTo
    <3>1. ASSUME NEW q \in Process, q # p, pc'[q] # "ended"
          PROVE  EnginesOf(q)'
      <4>1. EnginesOf(q) /\ at[q] \in Archive
        BY <1>1, <2>1, <3>1 DEF EnginesSeenTo, TypeInv
      <4>2. AllEngines(at[q] - 1) \subseteq Lwl \ Strays /\ (Lwl \cap Listed[at[q]]) \subseteq Lwl \ Strays
        BY <4>1, Archives, FetchAssumption DEF AllEngines
      <4>3. UnderWay(q)' = UnderWay(q)
        BY <1>1, <3>1 DEF UnderWay
      <4> QED
        BY <1>1, <2>2, <3>1, <4>1, <4>2, <4>3 DEF EnginesOf, EmbedPersists, Acceptable
    <3>2. ~opt[p].verifyOnly => \A n \in AllEngines(world.selected) : InEmbed(n)'
      <4>1. AllEngines(world.selected) \subseteq Lwl \ Strays
        BY Archives, FetchAssumption DEF AllEngines
      <4> QED
        BY <2>1, <2>2, <4>1 DEF EmbedPersists
    <3> QED
      BY <1>1, <3>1, <3>2 DEF EnginesSeenTo
  <2> QED
    BY <2>3, <2>4
<1> QED
  BY <1>2, <1>3, <1>4, <1>5
-----------------------------------------------------------------------------
LEMMA FailKeeps ==
  ASSUME IInv, NEW p \in Process, Fail(p), UNCHANGED world
  PROVE  IInv'
  BY EndsKeep DEF Fail

(***************************************************************************)
(* A directory that verifies holds every member, whole and right.          *)
(***************************************************************************)
LEMMA CheckKeeps ==
  ASSUME IInv, NEW p \in Process, Check(p), UNCHANGED world
  PROVE  IInv'
<1> USE DEF IInv
<1>1. at[p] \in Archive /\ pc[p] = "check"
  BY DEF TypeInv, Check
<1>2. CASE UpToDate(p)
  <2>1. Moves(p, "engines", at[p], todo[p], file[p], held[p]) /\ UNCHANGED <<target, embed, cache>>
    BY <1>2, Still DEF UpToDate, Goto, Moves, local, disk
  <2>2. \A n \in Listed[at[p]] : InTarget(at[p], n)
    BY <1>1, <1>2, Archives DEF UpToDate, OnDisk, Verifies, InTarget
  <2> QED
    BY <1>1, <2>1, <2>2, MovesOnKeeps DEF TypeInv, Labels
<1>3. CASE DoesNotVerify(p) /\ ~opt[p].verifyOnly /\ Goto(p, "bytes") /\ UNCHANGED <<disk, local>>
  <2>1. Moves(p, "bytes", at[p], todo[p], file[p], held[p]) /\ UNCHANGED <<target, embed, cache>>
    BY <1>3, Still DEF Goto, Moves, local, disk
  <2>2. ~Refuses("target")
    BY <1>3 DEF DoesNotVerify, Refused
  <2> QED
    BY <1>1, <1>3, <2>1, <2>2, MovesOnKeeps DEF TypeInv, Labels
<1>4. CASE Fail(p)
  BY <1>4, FailKeeps
<1> QED
  BY <1>2, <1>3, <1>4 DEF Check, RefuseToInstall, DoesNotVerify

LEMMA BytesKeep ==
  ASSUME IInv, NEW p \in Process, FromCache(p) \/ Download(p) \/ Store(p), UNCHANGED world
  PROVE  IInv'
<1> USE DEF IInv
<1>1. CASE Fail(p)
  BY <1>1, FailKeeps
<1>2. CASE ~Fail(p)
  <2>1. PICK label \in {"store", "storing", "unpack"} :
          /\ pc[p] \in {"bytes", "store", "storing"} /\ Goto(p, label)
          /\ UNCHANGED <<target, embed, local>>
    BY <1>2 DEF FromCache, Download, Store, disk
  <2>2. Moves(p, label, at[p], todo[p], file[p], held[p])
    BY <2>1, Still DEF Goto, Moves, local
  <2>3. cache' \in [Archive -> Content]
    BY DEF FromCache, Download, Store, Fail, End, disk, TypeInv, Content
  <2> QED
    BY <2>1, <2>2, <2>3, MovesOnKeeps DEF Labels
<1> QED
  BY <1>1, <1>2

(***************************************************************************)
(* What comes out of an archive is written only if it verifies; then all   *)
(* of it has still to be written.                                          *)
(***************************************************************************)
LEMMA UnpackKeeps ==
  ASSUME IInv, NEW p \in Process, Unpack(p), UNCHANGED world
  PROVE  IInv'
<1> USE DEF IInv
<1>1. CASE Fail(p)
  BY <1>1, FailKeeps
<1>2. CASE ~Fail(p)
  <2>1. /\ pc[p] = "unpack" /\ Verifies(at[p], Unpacked(at[p]))
        /\ Moves(p, "install", at[p], Listed[at[p]], file[p], held[p]) /\ UNCHANGED <<target, embed, cache>>
    BY <1>2, Still DEF Unpack, Goto, Moves, disk
  <2>2. /\ pc'[p] = "install" /\ at'[p] = at[p] /\ todo'[p] = Listed[at[p]] /\ UNCHANGED <<world, opt, upset, mixed>>
        /\ \A q \in Process : q # p => pc'[q] = pc[q] /\ at'[q] = at[q] /\ file'[q] = file[q]
    BY <2>1 DEF Moves, TypeInv, history
  <2>3. TargetsPersist /\ EmbedPersists
    BY <2>1, <2>2, NothingMoves
  <2>4. CheckedAt(p)' /\ Apart'
    <3>1. CheckedAt(p)
      BY DEF Checked
    <3>2. Verifies(at'[p], Unpacked(at[p])')
      BY <2>1, <2>2 DEF Verifies, Unpacked
    <3> QED
      BY <2>1, <2>2, <3>1, <3>2 DEF CheckedAt, Refuses, Apart, Verifies, Unpacked
  <2>5. ASSUME ~upset
        PROVE  TargetsOf(p)'
    <3>1. TargetsOf(p)
      BY <2>1, <2>5 DEF TargetsSeenTo
    <3> QED
      BY <2>2, <2>3, <3>1 DEF TargetsOf, TargetsPersist, AtEngines
  <2>6. ASSUME ~upset, Embeds
        PROVE  EnginesOf(p)'
    <3>1. EnginesOf(p)
      BY <2>1, <2>6 DEF EnginesSeenTo
    <3>2. AllEngines(at[p] - 1) \subseteq Lwl \ Strays
      BY Archives, FetchAssumption DEF AllEngines
    <3> QED
      BY <2>2, <2>3, <3>1, <3>2 DEF EnginesOf, EmbedPersists
  <2>7. Listed[at[p]] \in SUBSET Name
    BY Still, Archives
  <2>8. target' \in [Archive -> [Name -> Content]] /\ cache' \in [Archive -> Content] /\ embed' \in [Name -> Content]
    BY <2>1 DEF TypeInv
  <2> QED
    BY <2>1, <2>3, <2>4, <2>5, <2>6, <2>7, <2>8, Still, MoveKeeps DEF Labels
<1> QED
  BY <1>1, <1>2

(***************************************************************************)
(* Writing a member empties the file before it fills it: in between, the   *)
(* member is in the hands of the command.                                  *)
(***************************************************************************)
LEMMA OpenMemberKeeps ==
  ASSUME IInv, NEW p \in Process, OpenMember(p), UNCHANGED world
  PROVE  IInv'
<1> USE DEF IInv
<1>1. PICK n \in todo[p] : target' = [target EXCEPT ![at[p]][n] = Part] /\ file' = [file EXCEPT ![p] = n]
                         /\ todo' = [todo EXCEPT ![p] = @ \ {n}]
  BY DEF OpenMember
<1>2. /\ pc[p] = "install" /\ at[p] \in Archive /\ CheckedAt(p) /\ UNCHANGED <<cache, embed>>
      /\ n \in Listed[at[p]] /\ n \in Name
  BY <1>1 DEF OpenMember, TypeInv, Checked, CheckedAt
<1>3. Moves(p, "installing", at[p], todo[p] \ {n}, n, held[p])
  BY <1>1, Still DEF OpenMember, Goto, Moves
<1>4. /\ pc'[p] = "installing" /\ at'[p] = at[p] /\ todo'[p] = todo[p] \ {n} /\ file'[p] = n
      /\ UNCHANGED <<world, opt, upset, mixed>>
      /\ \A q \in Process : q # p => pc'[q] = pc[q] /\ at'[q] = at[q] /\ file'[q] = file[q]
  BY <1>3 DEF Moves, TypeInv, history
<1>5. /\ target' \in [Archive -> [Name -> Content]] /\ target'[at[p]][n] = Part
      /\ \A a \in Archive : \A m \in Name : a # at[p] \/ m # n => target'[a][m] = target[a][m]
  <2>1. target[at[p]] \in [Name -> Content] /\ Part \in Content
    BY <1>2 DEF TypeInv, Content
  <2> QED
    BY <1>1, <1>2, <2>1 DEF TypeInv
<1>6. InTarget(at[p], n)'
  BY <1>4, <1>5 DEF InTarget
<1>7. TargetsPersist
  <2>1. ASSUME NEW a \in Archive, NEW m \in Listed[a], InTarget(a, m)
        PROVE  InTarget(a, m)'
    <3>1. CASE a = at[p] /\ m = n
      BY <1>6, <3>1, <1>4 DEF InTarget
    <3>2. CASE a # at[p] \/ m # n
      <4>1. m \in Name /\ target'[a][m] = target[a][m]
        BY <1>5, <3>2, Archives
      <4>2. \A q \in Process : pc[q] = "installing" => pc'[q] = "installing" /\ at'[q] = at[q] /\ file'[q] = file[q]
        BY <1>2, <1>4
      <4> QED
        BY <2>1, <4>1, <4>2 DEF InTarget
    <3> QED
      BY <3>1, <3>2
  <2> QED
    BY <2>1 DEF TargetsPersist
<1>8. EmbedPersists
  BY <1>2, <1>4 DEF EmbedPersists, InEmbed, Acceptable
<1>9. CheckedAt(p)'
  BY <1>2, <1>4 DEF CheckedAt, Refuses, Verifies, Unpacked
<1>10. Apart'
  BY <1>2, <1>5 DEF Apart
<1>11. ASSUME ~upset
       PROVE  TargetsOf(p)'
  <2>1. TargetsOf(p)
    BY <1>2, <1>11 DEF TargetsSeenTo
  <2> QED
    BY <1>2, <1>4, <1>6, <1>7, <2>1 DEF TargetsOf, TargetsPersist, AtEngines
<1>12. ASSUME ~upset, Embeds
       PROVE  EnginesOf(p)'
  <2>1. EnginesOf(p)
    BY <1>2, <1>12 DEF EnginesSeenTo
  <2>2. AllEngines(at[p] - 1) \subseteq Lwl \ Strays
    BY Archives, FetchAssumption DEF AllEngines
  <2> QED
    BY <1>4, <1>8, <2>1, <2>2 DEF EnginesOf, EmbedPersists
<1>13. cache' \in [Archive -> Content] /\ embed' \in [Name -> Content] /\ todo[p] \ {n} \in SUBSET Name
  BY <1>2 DEF TypeInv
<1> QED
  BY <1>2, <1>3, <1>5, <1>7, <1>8, <1>9, <1>10, <1>11, <1>12, <1>13, Still, MoveKeeps DEF Labels

LEMMA WriteMemberKeeps ==
  ASSUME IInv, NEW p \in Process, WriteMember(p), UNCHANGED world
  PROVE  IInv'
<1> USE DEF IInv
<1>1. /\ pc[p] = "installing" /\ at[p] \in Archive /\ CheckedAt(p) /\ UNCHANGED <<cache, embed>>
      /\ file[p] \in Listed[at[p]] /\ file[p] \in Name
  BY Archives DEF WriteMember, TypeInv, Checked, CheckedAt
<1>2. Unpacked(at[p])[file[p]] = Good
  BY <1>1 DEF CheckedAt, Verifies
<1>3. Moves(p, "install", at[p], todo[p], file[p], held[p])
  BY Still DEF WriteMember, Goto, Moves, local
<1>4. /\ pc'[p] = "install" /\ at'[p] = at[p] /\ todo'[p] = todo[p]
      /\ UNCHANGED <<world, opt, upset, mixed>>
      /\ \A q \in Process : q # p => pc'[q] = pc[q] /\ at'[q] = at[q] /\ file'[q] = file[q]
  BY <1>3 DEF Moves, TypeInv, history
<1>5. /\ target' \in [Archive -> [Name -> Content]] /\ target'[at[p]][file[p]] = Good
      /\ \A a \in Archive : \A m \in Name : a # at[p] \/ m # file[p] => target'[a][m] = target[a][m]
  <2>1. target[at[p]] \in [Name -> Content] /\ Good \in Content
    BY <1>1 DEF TypeInv, Content
  <2>2. target' = [target EXCEPT ![at[p]][file[p]] = Good]
    BY <1>2 DEF WriteMember
  <2> QED
    BY <1>1, <2>1, <2>2 DEF TypeInv
<1>6. TargetsPersist
  <2>1. ASSUME NEW a \in Archive, NEW m \in Listed[a], InTarget(a, m)
        PROVE  InTarget(a, m)'
    <3>1. CASE a = at[p] /\ m = file[p]
      BY <1>5, <3>1 DEF InTarget
    <3>2. CASE a # at[p] \/ m # file[p]
      <4>1. m \in Name /\ target'[a][m] = target[a][m]
        BY <1>5, <3>2, Archives
      <4>2. \A q \in Process : pc[q] = "installing" /\ at[q] = a /\ file[q] = m =>
              pc'[q] = "installing" /\ at'[q] = at[q] /\ file'[q] = file[q]
        BY <1>4, <3>2
      <4> QED
        BY <2>1, <4>1, <4>2 DEF InTarget
    <3> QED
      BY <3>1, <3>2
  <2> QED
    BY <2>1 DEF TargetsPersist
<1>7. EmbedPersists
  BY <1>1, <1>4 DEF EmbedPersists, InEmbed, Acceptable
<1>8. CheckedAt(p)'
  BY <1>1, <1>4 DEF CheckedAt, Refuses, Verifies, Unpacked
<1>9. Apart'
  BY <1>1, <1>5 DEF Apart
<1>10. ASSUME ~upset
       PROVE  TargetsOf(p)'
  <2>1. TargetsOf(p)
    BY <1>1, <1>10 DEF TargetsSeenTo
  <2> QED
    BY <1>1, <1>4, <1>6, <2>1 DEF TargetsOf, TargetsPersist, AtEngines
<1>11. ASSUME ~upset, Embeds
       PROVE  EnginesOf(p)'
  <2>1. EnginesOf(p)
    BY <1>1, <1>11 DEF EnginesSeenTo
  <2>2. AllEngines(at[p] - 1) \subseteq Lwl \ Strays
    BY Archives, FetchAssumption DEF AllEngines
  <2> QED
    BY <1>4, <1>7, <2>1, <2>2 DEF EnginesOf, EmbedPersists
<1>12. cache' \in [Archive -> Content] /\ embed' \in [Name -> Content]
  BY <1>1 DEF TypeInv
<1> QED
  BY <1>1, <1>3, <1>5, <1>6, <1>7, <1>8, <1>9, <1>10, <1>11, <1>12, Still, MoveKeeps DEF Labels

LEMMA InstalledKeeps ==
  ASSUME IInv, NEW p \in Process, Installed(p), UNCHANGED world
  PROVE  IInv'
<1> USE DEF IInv
<1>1. pc[p] = "install" /\ todo[p] = {} /\ UNCHANGED <<target, embed, cache>>
  BY DEF Installed, disk
<1>2. Moves(p, "engines", at[p], todo[p], file[p], held[p])
  BY Still DEF Installed, Goto, Moves, local
<1>3. ~upset => \A n \in Listed[at[p]] : InTarget(at[p], n)
  BY <1>1 DEF TargetsSeenTo, TargetsOf
<1> QED
  BY <1>1, <1>2, <1>3, MovesOnKeeps DEF TypeInv, Labels
-----------------------------------------------------------------------------
(***************************************************************************)
(* A command leaves an archive when it has seen to its members and, where  *)
(* it embeds engines, to those of them that are engines.                   *)
(***************************************************************************)
LEMMA NextArchiveKeeps ==
  ASSUME IInv, NEW p \in Process, pc[p] \in {"engines", "embed"}, NextArchive(p), UNCHANGED world,
         ~upset /\ Embeds /\ ~opt[p].verifyOnly /\ at[p] \in Engines =>
           \A n \in Lwl \cap Listed[at[p]] : InEmbed(n)
  PROVE  IInv'
<1> USE DEF IInv
<1>0. Archive \subseteq Nat /\ \A a \in Archive : a \in Nat
  BY Archives
<1>1. at[p] \in Archive /\ at[p] \in Nat /\ at[p] <= world.selected /\ world.selected \in Archive /\ world.selected \in Nat
  BY <1>0, Selected DEF TypeInv, Checked, CheckedAt
<1>2. ~upset => \A a \in Archive : a <= at[p] => \A n \in Listed[a] : InTarget(a, n)
  <2>1. ~upset => TargetsOf(p)
    BY DEF TargetsSeenTo
  <2>2. \A a \in Archive : a <= at[p] => a < at[p] \/ a = at[p]
    <3>1. \A x, y \in Nat : x <= y => x < y \/ x = y
      OBVIOUS
    <3> QED
      BY <1>0, <1>1, <3>1, Zenon
  <2> QED
    BY <2>1, <2>2 DEF TargetsOf, AtEngines
<1>3. ~upset /\ Embeds /\ ~opt[p].verifyOnly => \A n \in AllEngines(at[p]) : InEmbed(n)
  <2> SUFFICES ASSUME ~upset, Embeds, ~opt[p].verifyOnly, NEW n \in AllEngines(at[p]) PROVE InEmbed(n)
    OBVIOUS
  <2>1. \A m \in AllEngines(at[p] - 1) : InEmbed(m)
    BY DEF EnginesSeenTo, EnginesOf
  <2>2. PICK a \in Engines : a <= at[p] /\ n \in Listed[a] /\ n \in Lwl
    BY DEF AllEngines
  <2>3. a \in Nat /\ (a <= at[p] - 1 \/ a = at[p])
    <3>1. a \in Nat
      BY <1>0, FetchAssumption
    <3>2. \A x, y \in Nat : x <= y => x <= y - 1 \/ x = y
      OBVIOUS
    <3> QED
      BY <1>1, <2>2, <3>1, <3>2, Zenon
  <2> QED
    BY <2>1, <2>2, <2>3 DEF AllEngines
<1>4. CASE at[p] = world.selected /\ End(p, "ok")
  <2>1. ~upset => \A a \in 1 .. world.selected : \A n \in Listed[a] : InTarget(a, n)
    BY <1>1, <1>2, <1>4, Selected
  <2> QED
    BY <1>3, <1>4, <2>1, EndsKeep
<1>5. CASE /\ at[p] < world.selected /\ Goto(p, "check") /\ at' = [at EXCEPT ![p] = @ + 1]
           /\ UNCHANGED <<disk, opt, todo, file, held>>
  <2>1. at[p] + 1 \in Archive
    BY <1>1, <1>5, Selected
  <2>2. Moves(p, "check", at[p] + 1, todo[p], file[p], held[p]) /\ UNCHANGED <<target, embed, cache>>
    BY <1>5, Still DEF Goto, Moves, disk
  <2>3. /\ pc'[p] = "check" /\ at'[p] = at[p] + 1 /\ UNCHANGED <<world, opt, upset, mixed>>
        /\ \A q \in Process : q # p => pc'[q] = pc[q] /\ at'[q] = at[q] /\ file'[q] = file[q]
    BY <2>2 DEF Moves, TypeInv, history
  <2>4. TargetsPersist /\ EmbedPersists
    BY <2>2, <2>3, NothingMoves
  <2>5. CheckedAt(p)' /\ Apart'
    <3>1. at[p] + 1 <= world.selected
      BY <1>1, <1>5
    <3> QED
      BY <2>2, <2>3, <3>1 DEF CheckedAt, Apart
  <2>6. ~upset => TargetsOf(p)'
    <3>1. \A a \in Archive : a < at[p] + 1 => a <= at[p]
      <4>1. \A x, y \in Nat : x < y + 1 => x <= y
        OBVIOUS
      <4> QED
        BY <1>0, <1>1, <4>1, Zenon
    <3>2. at'[p] = at[p] + 1 /\ pc'[p] \notin AtEngines \cup {"install", "installing"}
      <4>1. at'[p] = at[p] + 1 /\ pc'[p] = "check"
        BY <2>3, Zenon
      <4> QED
        BY <4>1 DEF AtEngines
    <3>3. ~upset => \A a \in Archive : a < at'[p] => \A n \in Listed[a] : InTarget(a, n)'
      BY <1>2, <2>4, <3>1, <3>2, Zenon DEF TargetsPersist
    <3> QED
      BY <3>2, <3>3, Zenon DEF TargetsOf
  <2>7. ~upset /\ Embeds => EnginesOf(p)'
    <3>1. at'[p] - 1 = at[p]
      BY <1>1, <2>3
    <3>2. AllEngines(at[p]) \subseteq Lwl \ Strays
      BY Archives, FetchAssumption DEF AllEngines
    <3> QED
      BY <1>3, <2>3, <2>4, <3>1, <3>2 DEF EnginesOf, EmbedPersists
  <2>8. target' \in [Archive -> [Name -> Content]] /\ cache' \in [Archive -> Content] /\ embed' \in [Name -> Content]
    BY <2>2 DEF TypeInv
  <2> QED
    BY <2>1, <2>2, <2>4, <2>5, <2>6, <2>7, <2>8, Still, MoveKeeps DEF Labels
<1> QED
  BY <1>4, <1>5 DEF NextArchive

LEMMA NoEnginesKeep ==
  ASSUME IInv, NEW p \in Process, NoEngines(p), UNCHANGED world
  PROVE  IInv'
  BY NextArchiveKeeps DEF NoEngines

LEMMA EmbeddedKeeps ==
  ASSUME IInv, NEW p \in Process, Embedded(p), UNCHANGED world
  PROVE  IInv'
<1>1. pc[p] = "embed" /\ todo[p] = {} /\ NextArchive(p)
  BY DEF Embedded
<1>2. ~upset /\ Embeds /\ ~opt[p].verifyOnly => \A n \in Lwl \cap Listed[at[p]] : InEmbed(n)
  BY <1>1 DEF IInv, EnginesSeenTo, EnginesOf, UnderWay
<1> QED
  BY <1>1, <1>2, NextArchiveKeeps

(***************************************************************************)
(* Every engine a command has just seen to is among those it copies.       *)
(***************************************************************************)
LEMMA SomeEnginesKeep ==
  ASSUME IInv, NEW p \in Process, SomeEngines(p), UNCHANGED world
  PROVE  IInv'
<1> USE DEF IInv
<1>1. CASE Fail(p)
  BY <1>1, FailKeeps
<1>2. CASE ~Fail(p)
  <2>1. /\ pc[p] = "engines" /\ ~opt[p].verifyOnly /\ ~Refuses("embed")
        /\ Moves(p, "embed", at[p], Sources(p), file[p], held[p]) /\ UNCHANGED <<target, embed, cache>>
    BY <1>2, Still DEF SomeEngines, Goto, Moves, disk
  <2>2. /\ pc'[p] = "embed" /\ at'[p] = at[p] /\ todo'[p] = Sources(p) /\ UNCHANGED <<world, opt, upset, mixed>>
        /\ \A q \in Process : q # p => pc'[q] = pc[q] /\ at'[q] = at[q] /\ file'[q] = file[q]
    <3>1. Sources(p) \in SUBSET Name
      BY FetchAssumption DEF Sources
    <3> QED
      BY <2>1, <3>1 DEF Moves, TypeInv, history
  <2>3. TargetsPersist /\ EmbedPersists
    BY <2>1, <2>2, NothingMoves
  <2>4. at[p] \in Archive /\ Sources(p) \in SUBSET Name /\ Sources(p) \subseteq Lwl \cap (Listed[at[p]] \cup Strays)
    BY FetchAssumption DEF Sources, Apart, TypeInv
  <2>5. CheckedAt(p)' /\ Apart'
    <3>1. CheckedAt(p)
      BY DEF Checked
    <3> QED
      BY <2>1, <2>2, <2>4, <3>1 DEF CheckedAt, Refuses, Apart
  <2>6. ASSUME ~upset
        PROVE  TargetsOf(p)' /\ Lwl \cap Listed[at[p]] \subseteq Sources(p)
    <3>1. TargetsOf(p)
      BY <2>1, <2>6 DEF TargetsSeenTo
    <3>2. \A n \in Listed[at[p]] : InTarget(at[p], n)
      BY <2>1, <2>4, <3>1 DEF TargetsOf, AtEngines
    <3>3. \A n \in Listed[at[p]] : target[at[p]][n] # None
      BY <3>2 DEF InTarget, Good, Part, None
    <3> QED
      BY <2>1, <2>2, <2>3, <3>1, <3>3 DEF TargetsOf, TargetsPersist, AtEngines, Sources
  <2>7. ASSUME ~upset, Embeds
        PROVE  EnginesOf(p)'
    <3>1. EnginesOf(p)
      BY <2>1, <2>7 DEF EnginesSeenTo
    <3>2. AllEngines(at[p] - 1) \subseteq Lwl \ Strays
      BY Archives, FetchAssumption DEF AllEngines
    <3>3. Lwl \cap Listed[at[p]] \subseteq UnderWay(p)'
      BY <2>2, <2>6, <2>7 DEF UnderWay
    <3> QED
      BY <2>2, <2>3, <3>1, <3>2, <3>3 DEF EnginesOf, EmbedPersists
  <2>8. target' \in [Archive -> [Name -> Content]] /\ cache' \in [Archive -> Content] /\ embed' \in [Name -> Content]
    BY <2>1 DEF TypeInv
  <2> QED
    BY <2>1, <2>3, <2>4, <2>5, <2>6, <2>7, <2>8, Still, MoveKeeps DEF Labels
<1> QED
  BY <1>1, <1>2

(***************************************************************************)
(* What a command reads of an engine it has seen to is right, or another   *)
(* command is just writing it; and what it writes is what it read.         *)
(***************************************************************************)
LEMMA ReadEngineKeeps ==
  ASSUME IInv, NEW p \in Process, ReadEngine(p), UNCHANGED world
  PROVE  IInv'
<1> USE DEF IInv
<1>1. PICK n : n = Min(todo[p])
  OBVIOUS
<1>2. /\ pc[p] = "embed" /\ at[p] \in Archive /\ CheckedAt(p) /\ UNCHANGED <<cache, embed, target>>
      /\ todo[p] # {} /\ todo[p] \in SUBSET Nat /\ n \in todo[p] /\ n \in Name
  <2>1. todo[p] # {} /\ todo[p] \in SUBSET Nat /\ todo[p] \in SUBSET Name
    BY Still, Archives DEF ReadEngine
  <2> QED
    BY <1>1, <2>1, LeastFile DEF ReadEngine, disk, TypeInv, Checked
<1>3. n \in Lwl \cap (Listed[at[p]] \cup Strays) /\ target[at[p]][n] \in Content
  BY <1>2 DEF CheckedAt, TypeInv
<1>4. Moves(p, "emptying", at[p], todo[p] \ {n}, n, target[at[p]][n])
  BY <1>1, Still DEF ReadEngine, Goto, Moves
<1>5. /\ pc'[p] = "emptying" /\ at'[p] = at[p] /\ todo'[p] = todo[p] \ {n} /\ file'[p] = n /\ held'[p] = target[at[p]][n]
      /\ UNCHANGED <<world, opt, upset, mixed>>
      /\ \A q \in Process : q # p => pc'[q] = pc[q] /\ at'[q] = at[q] /\ file'[q] = file[q]
  BY <1>2, <1>3, <1>4 DEF Moves, TypeInv, history
<1>6. TargetsPersist /\ EmbedPersists
  BY <1>2, <1>5, NothingMoves
<1>7. CheckedAt(p)' /\ Apart'
  BY <1>2, <1>3, <1>5 DEF CheckedAt, Refuses, Apart
<1>8. ASSUME ~upset
      PROVE  TargetsOf(p)' /\ (n \notin Strays => Acceptable(target[at[p]][n]))
  <2>1. TargetsOf(p)
    BY <1>2, <1>8 DEF TargetsSeenTo
  <2>2. n \notin Strays => InTarget(at[p], n)
    BY <1>2, <1>3, <2>1 DEF TargetsOf, AtEngines
  <2>3. n \notin Strays => Acceptable(target[at[p]][n])
    BY <1>2, <2>2 DEF InTarget, Acceptable, Mixed
  <2> QED
    BY <1>2, <1>5, <1>6, <2>1, <2>3 DEF TargetsOf, TargetsPersist, AtEngines
<1>9. ASSUME ~upset, Embeds
      PROVE  EnginesOf(p)'
  <2>1. EnginesOf(p)
    BY <1>2, <1>9 DEF EnginesSeenTo
  <2>2. AllEngines(at[p] - 1) \subseteq Lwl \ Strays /\ (Lwl \cap Listed[at[p]]) \subseteq Lwl \ Strays
    BY <1>2, Archives, FetchAssumption DEF AllEngines
  <2>3. UnderWay(p)' = todo[p] /\ UnderWay(p) = todo[p]
    BY <1>2, <1>5 DEF UnderWay
  <2>4. n \notin Strays => held'[p] = Good \/ (mixed' /\ held'[p] = Part)
    BY <1>5, <1>8, <1>9 DEF Acceptable
  <2> QED
    BY <1>2, <1>5, <1>6, <2>1, <2>2, <2>3, <2>4 DEF EnginesOf, EmbedPersists, Acceptable
<1>10. /\ target' \in [Archive -> [Name -> Content]] /\ cache' \in [Archive -> Content] /\ embed' \in [Name -> Content]
       /\ todo[p] \ {n} \in SUBSET Name
  BY <1>2 DEF TypeInv
<1> QED
  BY <1>2, <1>3, <1>4, <1>6, <1>7, <1>8, <1>9, <1>10, Still, MoveKeeps DEF Labels

LEMMA WriteEngineKeeps ==
  ASSUME IInv, NEW p \in Process, WriteEngine(p), UNCHANGED world
  PROVE  IInv'
<1> USE DEF IInv
<1>1. PICK label, content :
        /\ \/ pc[p] = "emptying" /\ label = "filling" /\ content = Part
           \/ pc[p] = "filling" /\ label = "embed" /\ content = held[p]
        /\ embed' = [embed EXCEPT ![file[p]] = content]
        /\ Goto(p, label) /\ UNCHANGED <<target, cache, local>>
  BY DEF WriteEngine
<1>2. /\ at[p] \in Archive /\ CheckedAt(p) /\ file[p] \in Name /\ content \in Content
      /\ ~opt[p].verifyOnly /\ pc[p] # "ended" /\ label \in Labels \ {"ended"}
  BY <1>1, Archives, Still, FetchAssumption DEF TypeInv, Checked, CheckedAt, Content, Labels
<1>3. Moves(p, label, at[p], todo[p], file[p], held[p])
  BY <1>1, Still DEF Goto, Moves, local
<1>4. /\ pc'[p] = label /\ at'[p] = at[p] /\ todo'[p] = todo[p] /\ file'[p] = file[p] /\ held'[p] = held[p]
      /\ UNCHANGED <<world, opt, upset, mixed>>
      /\ \A q \in Process : q # p => pc'[q] = pc[q] /\ at'[q] = at[q] /\ file'[q] = file[q]
  BY <1>2, <1>3 DEF Moves, TypeInv, history
<1>5. /\ embed' \in [Name -> Content] /\ embed'[file[p]] = content
      /\ \A m \in Name : m # file[p] => embed'[m] = embed[m]
  BY <1>1, <1>2 DEF TypeInv
<1>6. TargetsPersist
  BY <1>1, <1>4 DEF TargetsPersist, InTarget
<1>7. CheckedAt(p)' /\ Apart'
  BY <1>1, <1>2, <1>4 DEF CheckedAt, Refuses, Apart
<1>8. ASSUME ~upset
      PROVE  TargetsOf(p)'
  <2>1. TargetsOf(p)
    BY <1>2, <1>8 DEF TargetsSeenTo
  <2> QED
    BY <1>1, <1>2, <1>4, <1>6, <2>1 DEF TargetsOf, TargetsPersist, AtEngines
<1>9. ASSUME ~upset, Embeds
      PROVE  EmbedPersists /\ EnginesOf(p)'
  <2>1. EnginesOf(p)
    BY <1>2, <1>9 DEF EnginesSeenTo
  <2>2. AllEngines(at[p] - 1) \subseteq Lwl \ Strays /\ (Lwl \cap Listed[at[p]]) \subseteq Lwl \ Strays
    BY <1>2, Archives, FetchAssumption DEF AllEngines
  <2>3. file[p] \notin Strays => Acceptable(held[p]) /\ Acceptable(held[p])'
    BY <1>1, <1>2, <1>4, <2>1 DEF EnginesOf, Acceptable
  <2>4. file[p] \notin Strays => InEmbed(file[p])'
    BY <1>1, <1>4, <1>5, <2>3 DEF InEmbed, Acceptable
  <2>5. \A m \in Lwl \ Strays : m # file[p] /\ InEmbed(m) => InEmbed(m)'
    <3>1. \A m \in Lwl \ Strays : m \in Name
      BY FetchAssumption
    <3> QED
      BY <1>4, <1>5, <3>1 DEF InEmbed, Acceptable
  <2>6. EmbedPersists
    <3>1. ASSUME NEW m \in Lwl \ Strays, InEmbed(m)
          PROVE  InEmbed(m)'
      <4>1. CASE m = file[p]
        BY <1>4, <2>4, <4>1 DEF InEmbed
      <4>2. CASE m # file[p]
        BY <2>5, <3>1, <4>2
      <4> QED
        BY <4>1, <4>2
    <3> QED
      BY <3>1 DEF EmbedPersists
  <2>7. \A m \in (Lwl \cap Listed[at[p]]) \ todo[p] : InEmbed(m)'
    <3>1. ASSUME NEW m \in (Lwl \cap Listed[at[p]]) \ todo[p]
          PROVE  InEmbed(m)'
      <4>1. CASE m = file[p]
        BY <1>4, <2>2, <2>4, <4>1 DEF InEmbed
      <4>2. CASE m # file[p]
        <5>1. m \notin UnderWay(p) /\ InEmbed(m)
          BY <1>1, <1>2, <2>1, <4>2 DEF UnderWay, EnginesOf
        <5> QED
          BY <2>2, <2>5, <4>2, <5>1
      <4> QED
        BY <4>1, <4>2
    <3> QED
      BY <3>1
  <2>8. UnderWay(p)' = todo[p]
    BY <1>1, <1>4 DEF UnderWay
  <2>9. EnginesOf(p)'
    BY <1>2, <1>4, <2>1, <2>2, <2>3, <2>6, <2>7, <2>8 DEF EnginesOf, EmbedPersists
  <2> QED
    BY <2>6, <2>9
<1>10. target' \in [Archive -> [Name -> Content]] /\ cache' \in [Archive -> Content]
  BY <1>1 DEF TypeInv
<1> QED
  BY <1>2, <1>3, <1>5, <1>6, <1>7, <1>8, <1>9, <1>10, Still, MoveKeeps
-----------------------------------------------------------------------------
LEMMA AdvanceKeeps ==
  ASSUME IInv, NEW p \in Process, Advance(p)
  PROVE  IInv'
<1>1. CASE FileFault(p)
  BY <1>1, FailKeeps DEF FileFault, Advance
<1>2. CASE ~FileFault(p)
  BY <1>2, CheckKeeps, BytesKeep, UnpackKeeps, OpenMemberKeeps, WriteMemberKeeps, InstalledKeeps,
     NoEnginesKeep, SomeEnginesKeep, ReadEngineKeeps, WriteEngineKeeps, EmbeddedKeeps DEF Advance
<1> QED
  BY <1>1, <1>2

LEMMA CrashKeeps ==
  ASSUME IInv, NEW p \in Process, Crash(p), UNCHANGED world
  PROVE  IInv'
BY EndsKeep DEF Crash

(***************************************************************************)
(* A command that begins alone begins a new history, and has yet to see to *)
(* everything; one that joins others takes their history over.             *)
(***************************************************************************)
LEMMA StartKeeps ==
  ASSUME IInv, NEW p \in Process, Start(p), UNCHANGED world
  PROVE  IInv'
<1> USE DEF IInv
<1>1. /\ pc[p] = "ended" /\ at[p] = 1 /\ pc'[p] = "check" /\ UNCHANGED <<world, target, cache, embed, at, todo, file, held>>
      /\ mixed' = (\E q \in Process : pc[q] # "ended") /\ upset' = (upset /\ mixed')
      /\ \A q \in Process : q # p => pc'[q] = pc[q] /\ opt'[q] = opt[q]
  BY DEF Start, TypeInv, Checked, CheckedAt, disk
<1>2. TypeInv'
  BY <1>1 DEF Start, TypeInv, disk, Labels
<1>3. Checked'
  <2>1. CheckedAt(p)'
    BY <1>1 DEF Checked, CheckedAt
  <2>2. ASSUME NEW q \in Process, q # p
        PROVE  CheckedAt(q)'
    BY <1>1, <2>2 DEF Checked, CheckedAt, Refuses, Verifies, Unpacked
  <2> QED
    BY <2>1, <2>2 DEF Checked
<1>4. Apart' /\ Mixed'
  BY <1>1 DEF Apart, Mixed
<1>5. ASSUME NEW q \in Process, q # p, pc'[q] # "ended", ~upset'
      PROVE  ~upset /\ mixed' /\ pc[q] # "ended" /\ at[q] \in Archive
  BY <1>1, <1>5 DEF TypeInv
<1>6. ASSUME ~upset'
      PROVE  TargetsSeenTo'
  <2>1. TargetsPersist
    <3>1. ASSUME NEW q \in Process, pc[q] = "installing"
          PROVE  pc'[q] = "installing"
      BY <1>1, <3>1
    <3> QED
      BY <1>1, <3>1 DEF TargetsPersist, InTarget
  <2>2. TargetsOf(p)'
    <3>1. \A a \in Archive : ~(a < 1)
      BY Archives
    <3> QED
      BY <1>1, <3>1 DEF TargetsOf, AtEngines
  <2>3. ASSUME NEW q \in Process, q # p, pc'[q] # "ended"
        PROVE  TargetsOf(q)'
    <3>1. TargetsOf(q) /\ at[q] \in Archive
      BY <1>5, <1>6, <2>3 DEF TargetsSeenTo
    <3> QED
      BY <1>1, <2>1, <2>3, <3>1 DEF TargetsOf, TargetsPersist
  <2> QED
    BY <1>1, <2>2, <2>3 DEF TargetsSeenTo
<1>7. ASSUME ~upset', Embeds
      PROVE  EnginesSeenTo'
  <2>1. EnginesOf(p)'
    <3>1. AllEngines(at[p] - 1) = {}
      BY <1>1, Archives, FetchAssumption DEF AllEngines
    <3> QED
      BY <1>1, <3>1 DEF EnginesOf
  <2>2. ASSUME NEW q \in Process, q # p, pc'[q] # "ended"
        PROVE  EnginesOf(q)'
    <3>1. EnginesOf(q) /\ at[q] \in Archive /\ mixed'
      BY <1>5, <1>7, <2>2 DEF EnginesSeenTo
    <3>2. ASSUME NEW r \in Process, pc[r] = "filling"
          PROVE  pc'[r] = "filling"
      BY <1>1, <3>2
    <3>3. EmbedPersists
      BY <1>1, <3>1, <3>2 DEF EmbedPersists, InEmbed, Acceptable
    <3>4. AllEngines(at[q] - 1) \subseteq Lwl \ Strays /\ (Lwl \cap Listed[at[q]]) \subseteq Lwl \ Strays
      BY <3>1, Archives, FetchAssumption DEF AllEngines
    <3>5. UnderWay(q)' = UnderWay(q)
      BY <1>1, <2>2 DEF UnderWay
    <3> QED
      BY <1>1, <2>2, <3>1, <3>3, <3>4, <3>5 DEF EnginesOf, EmbedPersists, Acceptable
  <2> QED
    BY <1>1, <2>1, <2>2 DEF EnginesSeenTo
<1> QED
  BY <1>2, <1>3, <1>4, <1>6, <1>7 DEF EnginesSeenTo

LEMMA EditKeeps ==
  ASSUME IInv, Edit, UNCHANGED world
  PROVE  IInv'
<1> USE DEF IInv
<1>1. upset' = TRUE /\ UNCHANGED <<world, pc, opt, at, todo, file, held, out, mixed>>
  BY DEF Edit, local
<1>2. PICK c \in {None, Bad} :
        \/ \E a \in world.edited : \E n \in Listed[a] \cup Strays :
             target' = [target EXCEPT ![a][n] = c] /\ UNCHANGED <<cache, embed>>
        \/ \E a \in world.edited : cache' = [cache EXCEPT ![a] = c] /\ UNCHANGED <<target, embed>>
        \/ \E n \in Lwl : embed' = [embed EXCEPT ![n] = c] /\ UNCHANGED <<target, cache>>
  BY DEF Edit
<1>3. world.edited \subseteq Archive /\ c \in Content
  BY FetchAssumption DEF TypeInv, Content
<1>4. target' \in [Archive -> [Name -> Content]] /\ Apart'
  <2>1. CASE UNCHANGED target
    BY <2>1 DEF TypeInv, Apart
  <2>2. CASE \E a \in world.edited : \E n \in Listed[a] \cup Strays : target' = [target EXCEPT ![a][n] = c]
    <3>1. PICK a \in Archive : \E n \in Listed[a] \cup Strays : target' = [target EXCEPT ![a][n] = c]
      BY <1>3, <2>2
    <3>2. PICK n \in Listed[a] \cup Strays : target' = [target EXCEPT ![a][n] = c]
      BY <3>1
    <3>3. n \in Name
      BY <3>1, <3>2, Archives DEF Name
    <3> QED
      BY <1>3, <3>1, <3>2, <3>3 DEF TypeInv, Apart
  <2> QED
    BY <1>2, <2>1, <2>2
<1>5. cache' \in [Archive -> Content] /\ embed' \in [Name -> Content]
  BY <1>2, <1>3 DEF TypeInv
<1>6. TypeInv'
  BY <1>1, <1>4, <1>5 DEF TypeInv
<1>7. Checked' /\ Mixed'
  BY <1>1 DEF Checked, CheckedAt, Refuses, Verifies, Unpacked, Mixed
<1> QED
  BY <1>1, <1>4, <1>6, <1>7
-----------------------------------------------------------------------------
LEMMA Starts == Init => IInv
<1> SUFFICES ASSUME Init PROVE IInv
  OBVIOUS
<1>1. TypeInv
  BY Archives DEF Init, TypeInv, Absent, Content, Labels
<1>2. world.selected \in Nat /\ world.selected # 0
  BY <1>1, Archives, Selected
<1>3. Checked
  BY <1>2 DEF Init, Checked, CheckedAt
<1>4. Apart /\ Mixed
  BY DEF Init, Apart, Mixed, Absent
<1> QED
  BY <1>1, <1>3, <1>4 DEF Init, IInv

LEMMA StutterKeeps ==
  ASSUME IInv, UNCHANGED vars
  PROVE  IInv'
<1> USE DEF IInv, vars, disk, local, history
<1>1. TypeInv' /\ Checked' /\ Apart' /\ Mixed'
  BY DEF TypeInv, Checked, CheckedAt, Refuses, Verifies, Unpacked, Apart, Mixed
<1>2. TargetsSeenTo => TargetsSeenTo'
  BY DEF TargetsSeenTo, TargetsOf, InTarget
<1>3. EnginesSeenTo => EnginesSeenTo'
  BY DEF EnginesSeenTo, EnginesOf, InEmbed, Acceptable, UnderWay
<1> QED
  BY <1>1, <1>2, <1>3

\* The inductive invariant: every action of every command keeps it, and so
\* do the deaths of commands and the edits between them.  (fetch.go)
THEOREM Inductive == Spec => []IInv
<1>1. IInv /\ [Next]_vars => IInv'
  <2> SUFFICES ASSUME IInv, [Next]_vars PROVE IInv'
    OBVIOUS
  <2>1. CASE \E p \in Process : Start(p) \/ Crash(p) \/ Advance(p)
    BY <2>1, StartKeeps, CrashKeeps, AdvanceKeeps DEF Next, vars, Advance
  <2>2. CASE Edit
    BY <2>2, EditKeeps DEF Next, vars
  <2>3. CASE UNCHANGED vars
    BY <2>3, StutterKeeps
  <2> QED
    BY <2>1, <2>2, <2>3 DEF Next
<1> QED
  BY Starts, <1>1, PTL DEF Spec

\* Each directory holds files, each command is at one archive.  (fetch.go)
THEOREM TypeCorrect == Spec => []TypeOK
<1>1. IInv => TypeOK
  BY DEF IInv, TypeInv, TypeOK
<1> QED
  BY Inductive, <1>1, PTL

\* Success means that every member of every selected archive is on disk,
\* whole and right, for any number of commands that ran together.  (Install)
THEOREM TargetsAlwaysRight == Spec => []TargetsAreRight
<1>1. IInv => TargetsAreRight
  <2> SUFFICES ASSUME IInv, Settled, NEW a \in 1 .. world.selected, NEW n \in Listed[a]
               PROVE  target[a][n] = Good
    BY DEF TargetsAreRight
  <2>1. InTarget(a, n)
    BY DEF IInv, Settled, TargetsSeenTo
  <2> QED
    BY <2>1 DEF InTarget, Settled
<1> QED
  BY Inductive, <1>1, PTL

\* After a successful command that was allowed to write, the next maclo
\* embeds every engine, or the beginning of one where commands overlapped.
\* (InstallEngines)
THEOREM EnginesAlwaysEmbedded == Spec => []EnginesAreEmbedded
<1>1. IInv => EnginesAreEmbedded
  <2> SUFFICES ASSUME IInv, Settled, Embeds, \A p \in Process : ~opt[p].verifyOnly,
                      NEW a \in Engines \cap 1 .. world.selected, NEW n \in Listed[a] \cap Lwl
               PROVE  embed[n] = Good \/ (mixed /\ embed[n] = Part)
    BY DEF EnginesAreEmbedded
  <2>1. n \in AllEngines(world.selected)
    BY DEF AllEngines
  <2>2. InEmbed(n)
    BY <2>1 DEF IInv, Settled, EnginesSeenTo
  <2> QED
    BY <2>2 DEF InEmbed, Acceptable, Settled
<1> QED
  BY Inductive, <1>1, PTL
-----------------------------------------------------------------------------
(***************************************************************************)
(* What a step of a command may write.                                     *)
(***************************************************************************)
WritesChecked ==
  \A a \in Archive : \A n \in Name :
    target'[a][n] # target[a][n] => n \in Listed[a] /\ target'[a][n] \in {Part, Good}

LEMMA MembersAreChecked ==
  ASSUME IInv, NEW p \in Process, OpenMember(p) \/ WriteMember(p)
  PROVE  /\ WritesChecked /\ UNCHANGED <<cache, embed>>
         /\ ~opt[p].verifyOnly /\ ~Refuses("target") /\ pc'[p] # "bytes"
         /\ \A q \in Process : q # p => pc'[q] = pc[q]
<1>1. /\ at[p] \in Archive /\ todo[p] \subseteq Listed[at[p]] /\ CheckedAt(p)
      /\ Verifies(at[p], Unpacked(at[p])) /\ ~opt[p].verifyOnly /\ ~Refuses("target")
  BY DEF IInv, TypeInv, Checked, CheckedAt, OpenMember, WriteMember
<1>2. CASE OpenMember(p)
  <2>1. PICK n \in todo[p] : target' = [target EXCEPT ![at[p]][n] = Part]
    BY <1>2 DEF OpenMember
  <2>2. WritesChecked
    BY <1>1, <2>1 DEF WritesChecked, IInv, TypeInv
  <2> QED
    BY <1>1, <1>2, <2>2 DEF OpenMember, Goto, IInv, TypeInv
<1>3. CASE WriteMember(p)
  <2>1. file[p] \in Listed[at[p]] /\ file[p] \in Name
    BY <1>1, <1>3, Archives DEF WriteMember, CheckedAt
  <2>2. Unpacked(at[p])[file[p]] = Good
    BY <1>1, <2>1 DEF Verifies
  <2>3. WritesChecked
    BY <1>1, <1>3, <2>1, <2>2 DEF WriteMember, WritesChecked, IInv, TypeInv
  <2> QED
    BY <1>1, <1>3, <2>3 DEF WriteMember, Goto, IInv, TypeInv
<1> QED
  BY <1>2, <1>3

LEMMA EnginesAreChecked ==
  ASSUME IInv, NEW p \in Process, WriteEngine(p)
  PROVE  /\ UNCHANGED <<target, cache>>
         /\ ~opt[p].verifyOnly /\ ~Refuses("embed") /\ pc'[p] # "bytes"
         /\ \A q \in Process : q # p => pc'[q] = pc[q]
BY DEF IInv, TypeInv, Checked, CheckedAt, WriteEngine, Goto

LEMMA TheRestWritesNothing ==
  ASSUME IInv, NEW p \in Process, Advance(p), ~OpenMember(p), ~WriteMember(p), ~WriteEngine(p)
  PROVE  /\ UNCHANGED <<target, embed>>
         /\ opt[p].verifyOnly => UNCHANGED cache /\ pc'[p] # "bytes"
         /\ \A q \in Process : q # p => pc'[q] = pc[q]
<1>1. pc \in [Process -> Labels] /\ (pc[p] \in {"store", "storing"} => ~opt[p].verifyOnly)
  BY DEF IInv, TypeInv, Checked, CheckedAt
<1>2. CASE Fail(p)
  BY <1>1, <1>2 DEF Fail, End, disk
<1>3. CASE End(p, "ok")
  BY <1>1, <1>3 DEF End, disk
<1>4. CASE Store(p)
  BY <1>1, <1>4 DEF Store, Goto
<1>5. CASE ~Fail(p) /\ ~End(p, "ok") /\ ~Store(p)
  <2>1. UNCHANGED disk /\ \E label \in Labels : Goto(p, label) /\ (label = "bytes" => ~opt[p].verifyOnly)
    BY <1>5 DEF Advance, Check, RefuseToInstall, UpToDate, DoesNotVerify, FromCache, Download, Unpack, Installed,
                NoEngines, NextArchive, SomeEngines, ReadEngine, Embedded, FileFault, Labels
  <2> QED
    BY <1>1, <2>1 DEF Goto, disk
<1> QED
  BY <1>2, <1>3, <1>4, <1>5

\* Nothing reaches a target directory but checked members, nothing at all a
\* directory that git tracks, and a command that may only verify writes
\* nothing.  (Install, bytes, requireUntracked, Options.VerifyOnly)
THEOREM OnlyVerified == Spec => OnlyVerifiedIsInstalled
<1> DEFINE Allowed ==
      /\ \A a \in Archive : \A n \in Name :
           target'[a][n] # target[a][n] => n \in Listed[a] /\ target'[a][n] \in {Part, Good}
      /\ "target" \in world.tracked => UNCHANGED target
      /\ "embed" \in world.tracked => UNCHANGED embed
      /\ \A p \in Process : opt[p].verifyOnly /\ pc[p] # "ended" /\ pc'[p] # pc[p] =>
           UNCHANGED disk /\ pc'[p] # "bytes"
<1>1. ASSUME IInv, Next, Commanded
      PROVE  Allowed
  <2>1. PICK p \in Process : Start(p) \/ Crash(p) \/ Advance(p)
    BY <1>1 DEF Next, Edit, Commanded
  <2>2. CASE Start(p)
    BY <1>1, <2>2 DEF IInv, TypeInv, Start, disk
  <2>3. CASE Crash(p)
    BY <1>1, <2>3 DEF IInv, TypeInv, Crash, End, disk
  <2>4. CASE OpenMember(p) \/ WriteMember(p)
    BY <1>1, <2>4, MembersAreChecked DEF WritesChecked, Refuses
  <2>5. CASE WriteEngine(p)
    BY <1>1, <2>5, EnginesAreChecked DEF Refuses
  <2>6. CASE Advance(p) /\ ~OpenMember(p) /\ ~WriteMember(p) /\ ~WriteEngine(p)
    BY <1>1, <2>6, TheRestWritesNothing DEF disk
  <2> QED
    BY <2>1, <2>2, <2>3, <2>4, <2>5, <2>6
<1>2. IInv /\ [Next]_vars => [Commanded => Allowed]_vars
  BY <1>1
<1> QED
  BY Inductive, <1>2, PTL DEF Spec, OnlyVerifiedIsInstalled
-----------------------------------------------------------------------------
(***************************************************************************)
(* Why a command ends: each of its steps takes from a number that nothing  *)
(* else changes.  What it has to do at one archive is bounded by the names *)
(* there are, whatever the directories hold and whoever writes there at    *)
(* the same time, and it goes through the archives once.                   *)
(***************************************************************************)
Names == Cardinality(Name)
PerArchive == 5 * Names + 10

StepsHere(p) ==
  LET files == Cardinality(todo[p]) IN
  CASE pc[p] = "check"      -> 5 * Names + 9
    [] pc[p] = "bytes"      -> 5 * Names + 8
    [] pc[p] = "store"      -> 5 * Names + 7
    [] pc[p] = "storing"    -> 5 * Names + 6
    [] pc[p] = "unpack"     -> 5 * Names + 5
    [] pc[p] = "installing" -> 3 * Names + 2 * files + 4
    [] pc[p] = "install"    -> 3 * Names + 2 * files + 3
    [] pc[p] = "engines"    -> 3 * Names + 2
    [] pc[p] = "emptying"   -> 3 * files + 3
    [] pc[p] = "filling"    -> 3 * files + 2
    [] pc[p] = "embed"      -> 3 * files + 1
    [] pc[p] = "ended"      -> 0

StepsLeft(p) ==
  IF pc[p] = "ended" THEN 0 ELSE (world.selected - at[p]) * PerArchive + StepsHere(p)

LEMMA NamesAreFinite ==
  /\ Names \in Nat /\ PerArchive \in Nat
  /\ \A names \in SUBSET Name :
       /\ IsFiniteSet(names) /\ Cardinality(names) \in Nat /\ Cardinality(names) <= Names
       /\ \A n \in names : Cardinality(names \ {n}) = Cardinality(names) - 1 /\ Cardinality(names) >= 1
<1>1. IsFiniteSet(Name)
  BY FetchAssumption
<1>2. Names \in Nat
  BY <1>1, FS_CardinalityType DEF Names
<1>3. ASSUME NEW names \in SUBSET Name
      PROVE  /\ IsFiniteSet(names) /\ Cardinality(names) \in Nat /\ Cardinality(names) <= Names
             /\ \A n \in names :
                  Cardinality(names \ {n}) = Cardinality(names) - 1 /\ Cardinality(names) >= 1
  <2>1. IsFiniteSet(names) /\ Cardinality(names) <= Names
    BY <1>1, FS_Subset DEF Names
  <2>2. Cardinality(names) \in Nat
    BY <2>1, FS_CardinalityType
  <2>3. ASSUME NEW n \in names
        PROVE  Cardinality(names \ {n}) = Cardinality(names) - 1 /\ Cardinality(names) >= 1
    <3>1. Cardinality(names \ {n}) = Cardinality(names) - 1
      BY <2>1, FS_RemoveElement
    <3>2. Cardinality(names) # 0
      BY <2>1, FS_EmptySet
    <3> QED
      BY <2>2, <3>1, <3>2
  <2> QED
    BY <2>1, <2>2, <2>3
<1> QED
  BY <1>2, <1>3 DEF PerArchive

\* The steps at one archive are fewer than PerArchive, and there are some.
LEMMA StepsHereType ==
  ASSUME IInv, NEW p \in Process
  PROVE  StepsHere(p) \in Nat /\ (pc[p] # "ended" => 1 <= StepsHere(p)) /\ StepsHere(p) < PerArchive
<1>1. pc[p] \in Labels /\ todo[p] \in SUBSET Name
  BY DEF IInv, TypeInv
<1>2. PICK files \in Nat, names \in Nat : files = Cardinality(todo[p]) /\ names = Names /\ files <= names
  BY <1>1, NamesAreFinite
<1>3. PerArchive = 5 * names + 10
  BY <1>2 DEF PerArchive
<1> QED
  BY <1>1, <1>2, <1>3 DEF StepsHere, Labels

LEMMA OneArchiveLess ==
  ASSUME NEW k \in Nat, NEW w \in Nat
  PROVE  k * w \in Nat /\ (k >= 1 => k * w = (k - 1) * w + w)
  OBVIOUS

LEMMA AtMostAll ==
  ASSUME NEW all \in Nat, NEW a \in Nat, 1 <= a, a <= all, NEW w \in Nat
  PROVE  all * w \in Nat /\ (all - a) * w + w <= all * w
<1>1. PICK k \in Nat, b \in Nat : k = all - a /\ b = a - 1 /\ all = k + 1 + b
  OBVIOUS
<1>2. k * w \in Nat /\ b * w \in Nat
  BY OneArchiveLess
<1>3. all * w = k * w + w + b * w
  BY <1>1, <1>2
<1> QED
  BY <1>1, <1>2, <1>3

LEMMA StepsLeftType ==
  ASSUME IInv, NEW p \in Process
  PROVE  StepsLeft(p) \in Nat
<1>1. PICK k \in Nat : k = world.selected - at[p]
  <2>1. CheckedAt(p) /\ at[p] \in Archive /\ world.selected \in Archive
    BY Selected DEF IInv, TypeInv, Checked
  <2>2. at[p] \in Nat /\ world.selected \in Nat /\ at[p] <= world.selected
    BY <2>1, Archives DEF CheckedAt
  <2> QED
    BY <2>2
<1>2. k * PerArchive \in Nat
  BY <1>1, NamesAreFinite, OneArchiveLess
<1> QED
  BY <1>1, <1>2, StepsHereType DEF StepsLeft

\* A command that ends has nothing left to do.
LEMMA EndingRunsOut ==
  ASSUME IInv, NEW p \in Process, pc[p] # "ended", NEW result \in {"ok", "error", "crash"}, End(p, result)
  PROVE  StepsLeft(p)' < StepsLeft(p)
<1>1. pc'[p] = "ended"
  BY DEF End, IInv, TypeInv
<1>2. StepsLeft(p)' = 0
  BY <1>1 DEF StepsLeft
<1>3. PICK k \in Nat : k = world.selected - at[p]
  <2>1. CheckedAt(p) /\ at[p] \in Archive /\ world.selected \in Archive
    BY Selected DEF IInv, TypeInv, Checked
  <2>2. at[p] \in Nat /\ world.selected \in Nat /\ at[p] <= world.selected
    BY <2>1, Archives DEF CheckedAt
  <2> QED
    BY <2>2
<1>4. k * PerArchive \in Nat
  BY <1>3, NamesAreFinite, OneArchiveLess
<1> QED
  BY <1>2, <1>3, <1>4, StepsHereType DEF StepsLeft

\* A command that stays at its archive has less to do there.
LEMMA StayingRunsOut ==
  ASSUME IInv, IInv', NEW p \in Process, UNCHANGED <<world, at>>, pc[p] # "ended", pc'[p] # "ended",
         StepsHere(p)' < StepsHere(p)
  PROVE  StepsLeft(p)' < StepsLeft(p)
<1>1. PICK k \in Nat : k = world.selected - at[p]
  <2>1. CheckedAt(p) /\ at[p] \in Archive /\ world.selected \in Archive
    BY Selected DEF IInv, TypeInv, Checked
  <2>2. at[p] \in Nat /\ world.selected \in Nat /\ at[p] <= world.selected
    BY <2>1, Archives DEF CheckedAt
  <2> QED
    BY <2>2
<1>2. PICK rest \in Nat : rest = k * PerArchive
  BY <1>1, NamesAreFinite, OneArchiveLess
<1>3. StepsLeft(p) = rest + StepsHere(p)
  BY <1>1, <1>2 DEF StepsLeft
<1>4. StepsLeft(p)' = rest + StepsHere(p)'
  BY <1>1, <1>2 DEF StepsLeft, PerArchive, Names
<1>5. PICK x \in Nat, y \in Nat : x = StepsHere(p) /\ y = StepsHere(p)'
  <2>1. pc'[p] \in Labels /\ todo'[p] \in SUBSET Name
    BY DEF IInv, TypeInv
  <2>2. PICK files \in Nat, names \in Nat : files = Cardinality(todo'[p]) /\ names = Names
    BY <2>1, NamesAreFinite
  <2>3. StepsHere(p)' \in Nat
    BY <2>1, <2>2 DEF StepsHere, Labels, Names
  <2> QED
    BY <2>3, StepsHereType
<1> QED
  BY <1>3, <1>4, <1>5

\* Going on to the next archive costs more than is to be done there.
LEMMA NextRunsOut ==
  ASSUME IInv, NEW p \in Process, pc[p] # "ended", NextArchive(p), UNCHANGED world
  PROVE  StepsLeft(p)' < StepsLeft(p)
<1>1. CASE End(p, "ok")
  BY <1>1, EndingRunsOut
<1>2. CASE at[p] < world.selected /\ Goto(p, "check") /\ at' = [at EXCEPT ![p] = @ + 1]
  <2>1. at[p] \in Archive /\ world.selected \in Archive
    BY Selected DEF IInv, TypeInv
  <2>2. PICK k \in Nat : k = world.selected - at[p] /\ k >= 1
    BY <1>2, <2>1, Archives
  <2>3. pc'[p] = "check" /\ world.selected - at'[p] = k - 1
    <3>1. at'[p] = at[p] + 1 /\ pc'[p] = "check"
      BY <1>2 DEF Goto, IInv, TypeInv
    <3>2. at[p] \in Nat /\ world.selected \in Nat
      BY <2>1, Archives
    <3> QED
      BY <2>2, <3>1, <3>2
  <2>4. PICK w \in Nat, here \in Nat : w = PerArchive /\ here = StepsHere(p) /\ 1 <= here
    BY NamesAreFinite, StepsHereType
  <2>5. PICK rest \in Nat : rest = (k - 1) * w /\ k * w = rest + w
    <3>1. k - 1 \in Nat
      BY <2>2
    <3> QED
      BY <2>2, <3>1, OneArchiveLess
  <2>6. StepsLeft(p) = rest + w + here
    BY <2>2, <2>4, <2>5 DEF StepsLeft
  <2>7. StepsLeft(p)' = rest + StepsHere(p)'
    BY <2>3, <2>4, <2>5 DEF StepsLeft, PerArchive, Names
  <2>8. StepsHere(p)' = w - 1
    BY <2>3, <2>4, NamesAreFinite DEF StepsHere, PerArchive, Names
  <2> QED
    BY <2>4, <2>5, <2>6, <2>7, <2>8
<1> QED
  BY <1>1, <1>2 DEF NextArchive

\* What the steps that stay at an archive have left to do there.
LEMMA AdvanceRunsOut ==
  ASSUME IInv, NEW p \in Process, Advance(p)
  PROVE  StepsLeft(p)' < StepsLeft(p)
<1>1. IInv' /\ UNCHANGED world
  BY AdvanceKeeps DEF Advance
<1>2. pc \in [Process -> Labels] /\ todo \in [Process -> SUBSET Name] /\ CheckedAt(p) /\ at[p] \in Archive
  BY DEF IInv, TypeInv, Checked
<1>3. PICK names \in Nat : names = Names /\ \A ns \in SUBSET Name : Cardinality(ns) <= names
  BY NamesAreFinite
<1>4. PICK files \in Nat : files = Cardinality(todo[p]) /\ files <= names
  BY <1>2, <1>3, NamesAreFinite
<1>5. CASE Fail(p)
  <2>1. pc[p] # "ended"
    BY DEF Advance, Check, FromCache, Download, Store, Unpack, OpenMember, WriteMember, Installed,
           NoEngines, SomeEngines, ReadEngine, WriteEngine, Embedded, FileFault
  <2> QED
    BY <1>5, <2>1, EndingRunsOut DEF Fail
<1>6. CASE NoEngines(p) \/ Embedded(p)
  BY <1>1, <1>6, NextRunsOut DEF NoEngines, Embedded
<1>7. CASE ~Fail(p) /\ (Check(p) \/ FromCache(p) \/ Download(p) \/ Store(p) \/ Installed(p))
  <2>1. UNCHANGED <<at, todo>>
    BY <1>7 DEF Check, RefuseToInstall, UpToDate, DoesNotVerify, FromCache, Download, Store, Installed, local
  <2>2. \/ pc[p] = "check" /\ pc'[p] \in {"engines", "bytes"}
        \/ pc[p] = "bytes" /\ pc'[p] \in {"store", "unpack"}
        \/ pc[p] = "store" /\ pc'[p] = "storing"
        \/ pc[p] = "storing" /\ pc'[p] = "unpack"
        \/ pc[p] = "install" /\ pc'[p] = "engines"
    BY <1>2, <1>7 DEF Check, RefuseToInstall, UpToDate, DoesNotVerify, FromCache, Download, Store, Installed, Goto
  <2>3. StepsHere(p)' < StepsHere(p)
    BY <1>3, <1>4, <2>1, <2>2 DEF StepsHere, Names
  <2> QED
    BY <1>1, <2>1, <2>2, <2>3, StayingRunsOut
<1>8. CASE ~Fail(p) /\ (Unpack(p) \/ SomeEngines(p))
  <2>1. UNCHANGED at
    BY <1>8 DEF Unpack, SomeEngines
  <2>2. \/ pc[p] = "unpack" /\ pc'[p] = "install"
        \/ pc[p] = "engines" /\ pc'[p] = "embed"
    BY <1>2, <1>8 DEF Unpack, SomeEngines, Goto
  <2>3. PICK later \in Nat : later = Cardinality(todo'[p]) /\ later <= names
    <3>1. todo'[p] \in SUBSET Name
      BY <1>1 DEF IInv, TypeInv
    <3> QED
      BY <1>3, <3>1, NamesAreFinite
  <2>4. StepsHere(p)' < StepsHere(p)
    BY <1>3, <1>4, <2>2, <2>3 DEF StepsHere, Names
  <2> QED
    BY <1>1, <2>1, <2>2, <2>4, StayingRunsOut
<1>9. CASE OpenMember(p) \/ ReadEngine(p)
  <2>1. UNCHANGED at
    BY <1>9 DEF OpenMember, ReadEngine
  <2>2. \/ pc[p] = "install" /\ pc'[p] = "installing"
        \/ pc[p] = "embed" /\ pc'[p] = "emptying"
    BY <1>2, <1>9 DEF OpenMember, ReadEngine, Goto
  <2>3. \E n \in todo[p] : todo'[p] = todo[p] \ {n}
    <3>1. CASE OpenMember(p)
      BY <1>2, <3>1 DEF OpenMember
    <3>2. CASE ReadEngine(p)
      <4>1. Min(todo[p]) \in todo[p]
        BY <1>2, <3>2, Archives, LeastFile DEF ReadEngine
      <4> QED
        BY <1>2, <3>2, <4>1 DEF ReadEngine
    <3> QED
      BY <1>9, <3>1, <3>2
  <2>4. Cardinality(todo'[p]) = files - 1 /\ files >= 1
    BY <1>2, <1>4, <2>3, NamesAreFinite
  <2>5. StepsHere(p)' < StepsHere(p)
    BY <1>3, <1>4, <2>2, <2>4 DEF StepsHere, Names
  <2> QED
    BY <1>1, <2>1, <2>2, <2>5, StayingRunsOut
<1>10. CASE WriteMember(p) \/ WriteEngine(p)
  <2>1. UNCHANGED <<at, todo>>
    BY <1>10 DEF WriteMember, WriteEngine, local
  <2>2. \/ pc[p] = "installing" /\ pc'[p] = "install"
        \/ pc[p] = "emptying" /\ pc'[p] = "filling"
        \/ pc[p] = "filling" /\ pc'[p] = "embed"
    BY <1>2, <1>10 DEF WriteMember, WriteEngine, Goto
  <2>3. StepsHere(p)' < StepsHere(p)
    BY <1>3, <1>4, <2>1, <2>2 DEF StepsHere, Names
  <2> QED
    BY <1>1, <2>1, <2>2, <2>3, StayingRunsOut
<1> QED
  BY <1>5, <1>6, <1>7, <1>8, <1>9, <1>10 DEF Advance, FileFault

LEMMA OthersStand ==
  ASSUME IInv, NEW p \in Process, Start(p) \/ Crash(p) \/ Advance(p), UNCHANGED world,
         NEW q \in Process, q # p
  PROVE  StepsLeft(q)' = StepsLeft(q)
<1>1. pc'[q] = pc[q] /\ at'[q] = at[q] /\ todo'[q] = todo[q]
  <2>1. pc \in [Process -> Labels] /\ at \in [Process -> Archive] /\ todo \in [Process -> SUBSET Name]
    BY DEF IInv, TypeInv
  <2>2. \/ Start(p) \/ Crash(p) \/ Fail(p) \/ NextArchive(p)
        \/ OpenMember(p) \/ Unpack(p) \/ SomeEngines(p) \/ ReadEngine(p)
        \/ UNCHANGED local /\ \E label \in Labels : Goto(p, label)
    BY DEF Advance, Check, RefuseToInstall, UpToDate, DoesNotVerify, FromCache, Download, Store, Installed,
           WriteMember, NoEngines, Embedded, WriteEngine, FileFault, Labels
  <2>3. CASE Start(p) \/ Crash(p) \/ Fail(p) \/ NextArchive(p)
    BY <2>1, <2>3 DEF Start, Crash, Fail, End, NextArchive, Goto
  <2>4. CASE OpenMember(p) \/ Unpack(p) \/ SomeEngines(p) \/ ReadEngine(p)
    BY <2>1, <2>4 DEF OpenMember, Unpack, SomeEngines, ReadEngine, Goto, Fail, End
  <2>5. CASE UNCHANGED local /\ \E label \in Labels : Goto(p, label)
    BY <2>1, <2>5 DEF Goto, local
  <2> QED
    BY <2>2, <2>3, <2>4, <2>5
<1>2. StepsHere(q)' = StepsHere(q)
  BY <1>1 DEF StepsHere, Names
<1> QED
  BY <1>1, <1>2 DEF StepsLeft, PerArchive, Names

(***************************************************************************)
(* A command runs out of steps: each that it takes leaves it fewer, and    *)
(* none of another command, its crash included, and no edit gives it more. *)
(* It starts with at most PerArchive for each archive it selects.          *)
(* (Install, InstallEngines, realMain)                                     *)
(***************************************************************************)
THEOREM CommandsRunOut ==
  Spec => /\ [](\A p \in Process : StepsLeft(p) \in 0 .. world.selected * PerArchive)
          /\ [][\A p \in Process :
                  /\ Advance(p) => StepsLeft(p)' < StepsLeft(p)
                  /\ StepsLeft(p)' > StepsLeft(p) => Start(p)]_vars
<1> DEFINE Bounded == \A p \in Process : StepsLeft(p) \in 0 .. world.selected * PerArchive
           RunsOut == \A p \in Process :
             /\ Advance(p) => StepsLeft(p)' < StepsLeft(p)
             /\ StepsLeft(p)' > StepsLeft(p) => Start(p)
<1>1. ASSUME IInv, NEW p \in Process
      PROVE  StepsLeft(p) \in 0 .. world.selected * PerArchive
  <2>1. PICK a \in Nat, sel \in Nat : a = at[p] /\ sel = world.selected /\ 1 <= a /\ a <= sel
    <3>1. CheckedAt(p) /\ at[p] \in Archive /\ world.selected \in Archive
      BY <1>1, Selected DEF IInv, TypeInv, Checked
    <3>2. at[p] \in Nat \ {0} /\ world.selected \in Nat
      BY <3>1, Archives
    <3>3. at[p] <= world.selected
      BY <3>1 DEF CheckedAt
    <3> QED
      BY <3>2, <3>3
  <2>2. PICK w \in Nat : w = PerArchive
    BY NamesAreFinite
  <2>3. (sel - a) * w + w <= sel * w /\ sel * w \in Nat
    BY <2>1, AtMostAll
  <2>4. StepsLeft(p) \in Nat
    BY <1>1, StepsLeftType
  <2>5. StepsLeft(p) <= sel * w
    <3>1. CASE pc[p] = "ended"
      BY <2>3, <3>1 DEF StepsLeft
    <3>2. CASE pc[p] # "ended"
      <4>1. PICK rest \in Nat : rest = (sel - a) * w
        <5>1. sel - a \in Nat
          BY <2>1
        <5> QED
          BY <5>1, OneArchiveLess
      <4>2. PICK all \in Nat : all = sel * w
        BY <2>3
      <4>3. StepsLeft(p) = rest + StepsHere(p) /\ StepsHere(p) \in Nat /\ StepsHere(p) < w
        BY <1>1, <2>1, <2>2, <3>2, <4>1, StepsHereType DEF StepsLeft
      <4> QED
        BY <2>3, <4>1, <4>2, <4>3
    <3> QED
      BY <3>1, <3>2
  <2> QED
    BY <2>1, <2>2, <2>3, <2>4, <2>5
<1>2. ASSUME IInv, Bounded, Bounded', Next, NEW p \in Process
      PROVE  /\ Advance(p) => StepsLeft(p)' < StepsLeft(p)
             /\ StepsLeft(p)' > StepsLeft(p) => Start(p)
  <2>1. Advance(p) => StepsLeft(p)' < StepsLeft(p)
    BY <1>2, AdvanceRunsOut
  <2>2. StepsLeft(p) \in Int /\ StepsLeft(p)' \in Int /\ UNCHANGED world
    BY <1>2 DEF Next
  <2>3. CASE Edit
    <3>1. StepsLeft(p)' = StepsLeft(p)
      BY <2>2, <2>3 DEF Edit, StepsLeft, StepsHere, PerArchive, Names, local
    <3> QED
      BY <2>1, <2>2, <3>1
  <2>4. CASE \E q \in Process : Start(q) \/ Crash(q) \/ Advance(q)
    <3>1. PICK q \in Process : Start(q) \/ Crash(q) \/ Advance(q)
      BY <2>4
    <3>2. CASE q # p
      <4>1. StepsLeft(p)' = StepsLeft(p)
        BY <1>2, <2>2, <3>1, <3>2, OthersStand
      <4> QED
        BY <2>1, <2>2, <4>1
    <3>3. CASE q = p /\ Crash(p)
      <4>1. StepsLeft(p)' < StepsLeft(p)
        BY <1>2, <3>3, EndingRunsOut DEF Crash
      <4> QED
        BY <2>1, <2>2, <4>1
    <3>4. CASE q = p /\ Advance(p)
      BY <2>1, <2>2, <3>4
    <3> QED
      BY <2>1, <3>1, <3>2, <3>3, <3>4
  <2> QED
    BY <1>2, <2>3, <2>4 DEF Next
<1>3. IInv => Bounded
  BY <1>1
<1>4. IInv /\ Bounded /\ Bounded' /\ [Next]_vars => [RunsOut]_vars
  BY <1>2
<1> HIDE DEF Bounded, RunsOut
<1>5. Spec => []Bounded /\ [][RunsOut]_vars
  BY Inductive, <1>3, <1>4, PTL DEF Spec
<1> QED
  BY <1>5 DEF Bounded, RunsOut
=============================================================================
