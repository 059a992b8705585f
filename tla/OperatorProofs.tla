---------------------------- MODULE OperatorProofs ----------------------------
(***************************************************************************)
(* What is proved of operators that need no state.  First the facts about  *)
(* sets of natural numbers that the proofs of several components cite;     *)
(* then the block structure of a program in L: Build finds the one way to  *)
(* pair the opening and the closing lines, and refuses exactly the         *)
(* programs that have none; and counting lines, as the reading of L does,  *)
(* finds the same pairs.                                                   *)
(***************************************************************************)
EXTENDS Integers, LBuild, FiniteSetTheorems, SequenceTheorems, WellFoundedInduction, TLAPS

Less == {ss \in Nat \X Nat : ss[1] < ss[2]}

LEMMA LessIsWellFounded == IsWellFoundedOn(Less, Nat)
<1>1. OpToRel(<, Nat) = Less
  BY Zenon DEF OpToRel, Less
<1> QED
  BY <1>1, NatLessThanWellFounded, Zenon

(***************************************************************************)
(* Every set of natural numbers that is not empty has a least member.      *)
(***************************************************************************)
LEMMA Least ==
  ASSUME NEW S \in SUBSET Nat, S # {}
  PROVE  \E n \in S : \A m \in S : n <= m
<1>1. \E n \in S : \A m \in S : ~(<<m, n>> \in Less)
  BY WFMin, LessIsWellFounded, Zenon
<1>2. PICK n \in S : \A m \in S : ~(<<m, n>> \in Less)
  BY <1>1
<1>3. \A m \in S : ~(m < n)
  BY <1>2 DEF Less
<1> QED
  BY <1>3

(***************************************************************************)
(* What holds of the first number of an interval, and of each number after *)
(* one of which it holds, holds of all the interval.                       *)
(***************************************************************************)
LEMMA UpTo ==
  ASSUME NEW first \in Int, NEW last \in Int, NEW S, first \in S,
         \A k \in first + 1 .. last : k - 1 \in S => k \in S
  PROVE  \A k \in first .. last : k \in S
<1> DEFINE missing == {n \in Nat : first + n <= last /\ first + n \notin S}
<1>1. ASSUME missing # {}
      PROVE  FALSE
  <2>1. missing \in SUBSET Nat
    OBVIOUS
  <2> HIDE DEF missing
  <2>2. PICK n \in missing : \A m \in missing : n <= m
    BY <1>1, <2>1, Least
  <2> USE DEF missing
  <2>3. n # 0 /\ n - 1 \in Nat /\ n - 1 \notin missing
    BY <2>2
  <2>4. first + (n - 1) \in S
    BY <2>2, <2>3
  <2>5. first + (n - 1) = (first + n) - 1 /\ first + n \in first + 1 .. last
    BY <2>2, <2>3
  <2> QED
    BY <2>2, <2>4, <2>5
<1>2. ASSUME NEW k \in first .. last, k \notin S
      PROVE  k - first \in missing
  BY <1>2
<1> QED
  BY <1>1, <1>2

(***************************************************************************)
(* A step can be repeated along an interval.                               *)
(***************************************************************************)
Repeats(g, first, last, start, step) ==
  g[first] = start /\ \A k \in first + 1 .. last : g[k] = step[k][g[k - 1]]

LEMMA Repetition ==
  ASSUME NEW first \in Int, NEW last \in Int, first <= last,
         NEW D, NEW start \in D, NEW step \in [first + 1 .. last -> [D -> D]]
  PROVE  \E g \in [first .. last -> D] : Repeats(g, first, last, start, step)
<1> DEFINE Along(n, g) == Repeats(g, first, n, start, step)
           reached == {n \in first .. last : \E g \in [first .. n -> D] : Along(n, g)}
<1> USE DEF Repeats
<1>1. first \in reached
  <2>1. [k \in first .. first |-> start] \in [first .. first -> D]
    OBVIOUS
  <2>2. Along(first, [k \in first .. first |-> start])
    OBVIOUS
  <2>3. \E g \in [first .. first -> D] : Along(first, g)
    <3> HIDE DEF Along
    <3> QED
      BY <2>1, <2>2
  <2> QED
    BY <2>3
<1>2. ASSUME NEW k \in first + 1 .. last, k - 1 \in reached
      PROVE  k \in reached
  <2>1. PICK g \in [first .. k - 1 -> D] : Along(k - 1, g)
    BY <1>2
  <2>2. g[k - 1] \in D
    OBVIOUS
  <2>3. PICK h : h = [j \in first .. k |-> IF j = k THEN step[k][g[k - 1]] ELSE g[j]]
    OBVIOUS
  <2>4. h \in [first .. k -> D] /\ h[k] = step[k][g[k - 1]] /\ \A j \in first .. k - 1 : h[j] = g[j]
    BY <2>2, <2>3
  <2>5. Along(k, h)
    <3>1. h[first] = start
      BY <2>1, <2>4
    <3>2. ASSUME NEW j \in first + 1 .. k
          PROVE  h[j] = step[j][h[j - 1]]
      <4>1. CASE j = k
        BY <2>4, <4>1
      <4>2. CASE j # k
        BY <2>1, <2>4, <4>2
      <4> QED
        BY <4>1, <4>2
    <3> QED
      BY <3>1, <3>2
  <2> QED
    BY <2>4, <2>5
<1> HIDE DEF reached, Repeats
<1>3. \A k \in first .. last : k \in reached
  BY <1>1, <1>2, UpTo
<1>4. last \in reached
  BY <1>3
<1> QED
  BY <1>4 DEF reached
-----------------------------------------------------------------------------
(***************************************************************************)
(* A pairing of a program's lines, as the stack of ast.Build looks for: each *)
(* closing line ends one opening line above it, of the kind that it        *)
(* closes; every opening line is ended, by one line; and of two blocks one *)
(* is within the other or they have no line in common.                     *)
(***************************************************************************)
Opening(p) == {i \in DOMAIN p : Op(p, i) \in DOMAIN Closing}
Ending(p) == {j \in DOMAIN p : Op(p, j) \in Closers}

Pairing(p, m) ==
  /\ m \in [Ending(p) -> Opening(p)]
  /\ \A j \in Ending(p) : m[j] < j /\ Closing[Op(p, m[j])] = Op(p, j)
  /\ \A i \in Opening(p) : \E j \in Ending(p) : m[j] = i
  /\ \A j, k \in Ending(p) : m[j] = m[k] => j = k
  /\ \A j, k \in Ending(p) : m[j] < m[k] /\ m[k] < j => k < j

(***************************************************************************)
(* What each opening statement is closed by; no statement opens and        *)
(* closes.                                                                 *)
(***************************************************************************)
LEMMA ClosingTable ==
  /\ DOMAIN Closing = {"IF", "CHAIN", "SUBROUTINE", "LINKROUTINE", "SECTION", "BLOCKDEC"}
  /\ Closing["IF"] = "END" /\ Closing["CHAIN"] = "ENDCH" /\ Closing["SUBROUTINE"] = "ENDSUB"
  /\ Closing["LINKROUTINE"] = "ENDSUB" /\ Closing["SECTION"] = "ENDSECT" /\ Closing["BLOCKDEC"] = "ENDBLOCK"
BY DEF Closing

(***************************************************************************)
(* Build goes over the lines one by one: its state after each line comes   *)
(* from AtLine and the state before.                                       *)
(***************************************************************************)
Reading(p) == [open : Seq(DOMAIN p), opener : [DOMAIN p -> {0} \cup DOMAIN p], errors : BOOLEAN]
Read(p, at) == at[0] = Unread(p) /\ \A j \in 1 .. Len(p) : at[j] = AtLine(p, at[j - 1], j)

Fields(t) == t = [open |-> t.open, opener |-> t.opener, errors |-> t.errors]

LEMMA ClosersOpenNothing == DOMAIN Closing \cap Closers = {}
BY ClosingTable DEF Closers, Range

LEMMA AtOpening ==
  ASSUME NEW p, NEW t, Fields(t), NEW j, Op(p, j) \in DOMAIN Closing
  PROVE  AtLine(p, t, j) = [open |-> Append(t.open, j), opener |-> t.opener, errors |-> t.errors]
<1>1. AtLine(p, t, j) = [t EXCEPT !.open = Append(t.open, j)]
  BY ClosersOpenNothing DEF AtLine
<1> QED
  BY <1>1 DEF Fields

LEMMA AtClosing ==
  ASSUME NEW p, NEW t, Fields(t), NEW j, Op(p, j) \in Closers, ClosesTop(p, j, t.open)
  PROVE  AtLine(p, t, j) = [open |-> Front(t.open), opener |-> [t.opener EXCEPT ![j] = Last(t.open)],
                            errors |-> t.errors]
<1>1. AtLine(p, t, j) = [t EXCEPT !.open = Front(t.open), !.opener[j] = Last(t.open)]
  BY ClosersOpenNothing DEF AtLine
<1> QED
  BY <1>1 DEF Fields

LEMMA AtWrongClosing ==
  ASSUME NEW p, NEW t, Fields(t), NEW j, Op(p, j) \in Closers, ~ClosesTop(p, j, t.open)
  PROVE  AtLine(p, t, j) = [open |-> t.open, opener |-> t.opener, errors |-> TRUE]
<1>1. AtLine(p, t, j) = [t EXCEPT !.errors = TRUE]
  BY ClosersOpenNothing DEF AtLine
<1> QED
  BY <1>1 DEF Fields

LEMMA AtOther ==
  ASSUME NEW p, NEW t, NEW j, Op(p, j) \notin DOMAIN Closing \cup Closers
  PROVE  AtLine(p, t, j) = t
BY DEF AtLine

LEMMA TakenOff ==
  ASSUME NEW S, NEW s \in Seq(S), s # << >>
  PROVE  /\ Front(s) \in Seq(S) /\ Len(s) \in Nat \ {0} /\ Len(Front(s)) = Len(s) - 1
         /\ \A x \in 1 .. Len(s) - 1 : Front(s)[x] = s[x]
         /\ Last(s) = s[Len(s)] /\ Last(s) \in S
<1>1. Len(s) \in Nat /\ Len(s) # 0 /\ \A x \in 1 .. Len(s) : s[x] \in S
  OBVIOUS
<1>2. PICK n \in Nat : n = Len(s) - 1
  BY <1>1
<1>3. Front(s) = SubSeq(s, 1, n) /\ 1 \in Int /\ n \in Int /\ \A x \in 1 .. n : s[x] \in S
  BY <1>1, <1>2 DEF Front
<1>4. /\ Front(s) \in Seq(S) /\ Len(Front(s)) = IF 1 <= n THEN n - 1 + 1 ELSE 0
      /\ \A x \in 1 .. n - 1 + 1 : Front(s)[x] = s[1 + x - 1]
  BY <1>3, SubSeqProperties
<1>5. Len(Front(s)) = n
  BY <1>4
<1>6. \A x \in 1 .. n : Front(s)[x] = s[x]
  BY <1>4
<1> QED
  BY <1>1, <1>2, <1>4, <1>5, <1>6 DEF Last

LEMMA LineIsRead ==
  ASSUME NEW Line, NEW p \in Seq(Line), NEW t \in Reading(p), NEW j \in 1 .. Len(p)
  PROVE  AtLine(p, t, j) \in Reading(p)
<1>1. DOMAIN p = 1 .. Len(p)
  OBVIOUS
<1>2. /\ t.open \in Seq(DOMAIN p) /\ t.opener \in [DOMAIN p -> {0} \cup DOMAIN p] /\ t.errors \in BOOLEAN
      /\ Fields(t)
  BY DEF Reading, Fields
<1>3. CASE Op(p, j) \in DOMAIN Closing
  <2>1. Append(t.open, j) \in Seq(DOMAIN p)
    <3>1. j \in DOMAIN p
      BY <1>1
    <3>2. \A S : \A s \in Seq(S), i \in S : Append(s, i) \in Seq(S)
      OBVIOUS
    <3> QED
      BY <1>2, <3>1, <3>2, Zenon
  <2>2. AtLine(p, t, j) = [open |-> Append(t.open, j), opener |-> t.opener, errors |-> t.errors]
    <3>1. Fields(t)
      BY <1>2
    <3> QED
      BY <1>3, <3>1, AtOpening, Zenon
  <2>3. [open |-> Append(t.open, j), opener |-> t.opener, errors |-> t.errors] \in Reading(p)
    <3> DEFINE opened == Append(t.open, j)
    <3>1. opened \in Seq(DOMAIN p)
      BY <2>1
    <3> HIDE DEF opened
    <3>2. [open |-> opened, opener |-> t.opener, errors |-> t.errors] \in Reading(p)
      BY <1>2, <3>1 DEF Reading
    <3> QED
      BY <3>2 DEF opened
  <2> QED
    BY <2>2, <2>3
<1>4. CASE Op(p, j) \in Closers /\ ClosesTop(p, j, t.open)
  <2>1. Front(t.open) \in Seq(DOMAIN p) /\ Last(t.open) \in DOMAIN p
    BY <1>2, <1>4, TakenOff DEF ClosesTop
  <2>2. [t.opener EXCEPT ![j] = Last(t.open)] \in [DOMAIN p -> {0} \cup DOMAIN p]
    BY <1>2, <2>1
  <2>3. AtLine(p, t, j) = [open |-> Front(t.open), opener |-> [t.opener EXCEPT ![j] = Last(t.open)], errors |-> t.errors]
    BY <1>2, <1>4, AtClosing
  <2> QED
    BY <1>2, <2>1, <2>2, <2>3 DEF Reading
<1>5. CASE Op(p, j) \in Closers /\ ~ClosesTop(p, j, t.open)
  <2>1. AtLine(p, t, j) = [open |-> t.open, opener |-> t.opener, errors |-> TRUE]
    BY <1>2, <1>5, AtWrongClosing, Zenon
  <2> QED
    BY <1>2, <2>1 DEF Reading
<1>6. CASE Op(p, j) \notin DOMAIN Closing \cup Closers
  BY <1>6, AtOther
<1> QED
  BY <1>3, <1>4, <1>5, <1>6

LEMMA BuildReads ==
  ASSUME NEW Line, NEW p \in Seq(Line)
  PROVE  \E at \in [0 .. Len(p) -> Reading(p)] : Read(p, at) /\ Build(p) = at[Len(p)]
<1>0. PICK n \in Nat : n = Len(p)
  OBVIOUS
<1> DEFINE Reads(g) == g = [j \in 0 .. n |-> IF j = 0 THEN Unread(p) ELSE AtLine(p, g[j - 1], j)]
           at == CHOOSE g : Reads(g)
<1>1. Build(p) = at[n]
  BY <1>0 DEF Build
<1>2. Unread(p) \in Reading(p)
  BY DEF Unread, Reading
<1> HIDE DEF at, Reads
<1>3. PICK step \in [1 .. n -> [Reading(p) -> Reading(p)]] :
        \A j \in 1 .. n : \A t \in Reading(p) : step[j][t] = AtLine(p, t, j)
  <2>1. [j \in 1 .. n |-> [t \in Reading(p) |-> AtLine(p, t, j)]] \in [1 .. n -> [Reading(p) -> Reading(p)]]
    BY <1>0, LineIsRead
  <2> QED
    BY <2>1
<1>4. PICK zero \in Int : zero = 0
  OBVIOUS
<1>5. \E g \in [zero .. n -> Reading(p)] : Repeats(g, zero, n, Unread(p), step)
  <2>1. n \in Int /\ zero <= n /\ step \in [zero + 1 .. n -> [Reading(p) -> Reading(p)]]
    BY <1>4
  <2> QED
    BY <1>2, <2>1, Repetition
<1>6. PICK g \in [0 .. n -> Reading(p)] : g[0] = Unread(p) /\ \A j \in 1 .. n : g[j] = step[j][g[j - 1]]
  BY <1>4, <1>5 DEF Repeats
<1>7. \A j \in 1 .. n : g[j] = AtLine(p, g[j - 1], j)
  BY <1>3, <1>6
<1>8. Reads(g)
  BY <1>6, <1>7 DEF Reads
<1>9. Reads(at)
  BY <1>8 DEF at
<1>10. at[0] = Unread(p) /\ \A j \in 1 .. n : at[j] = AtLine(p, at[j - 1], j)
  BY <1>9 DEF Reads
<1>11. at \in [0 .. n -> Reading(p)]
  <2>1. PICK right : right = {j \in 0 .. n : at[j] \in Reading(p)}
    OBVIOUS
  <2>2. zero \in right /\ \A j \in zero + 1 .. n : j - 1 \in right => j \in right
    BY <1>0, <1>2, <1>4, <1>10, <2>1, LineIsRead
  <2>3. \A j \in zero .. n : j \in right
    BY <2>2, <1>4, n \in Int, UpTo
  <2> QED
    BY <1>4, <1>9, <2>1, <2>3 DEF Reads
<1> QED
  BY <1>0, <1>1, <1>10, <1>11 DEF Read

(***************************************************************************)
(* What is true of the pass after line n.  The open lines are stacked in   *)
(* the order of the program; an opening line is open or has been ended,    *)
(* and not both; no line is ended twice; and a block that is ended holds   *)
(* no line that is still open, nor one that is ended after it.             *)
(***************************************************************************)
Stacked(t) == {t.open[x] : x \in DOMAIN t.open}
Ended(t) == {j \in DOMAIN t.opener : t.opener[j] # 0}

Kept(p, n, t) ==
  /\ \A x, y \in DOMAIN t.open : x < y => t.open[x] < t.open[y]
  /\ \A i \in Stacked(t) : i \in Opening(p) /\ i <= n
  /\ \A j \in Ended(t) : /\ j \in Ending(p) /\ j <= n
                         /\ t.opener[j] \in Opening(p) /\ t.opener[j] < j
                         /\ Closing[Op(p, t.opener[j])] = Op(p, j)
                         /\ t.opener[j] \notin Stacked(t)
  /\ ~t.errors => \A j \in Ending(p) : j <= n => j \in Ended(t)
  /\ \A i \in Opening(p) : i <= n => i \in Stacked(t) \/ \E j \in Ended(t) : t.opener[j] = i
  /\ \A j, k \in Ended(t) : t.opener[j] = t.opener[k] => j = k
  /\ \A j \in Ended(t), i \in Stacked(t) : t.opener[j] < i => j < i
  /\ \A j, k \in Ended(t) : t.opener[j] < t.opener[k] /\ t.opener[k] < j => k < j

LEMMA PushOpens ==
  ASSUME NEW p, NEW n \in Nat, NEW t, NEW u, t.open \in Seq(Nat), u.open = Append(t.open, n + 1),
         \A x, y \in DOMAIN t.open : x < y => t.open[x] < t.open[y], \A i \in Stacked(t) : i <= n
  PROVE  /\ Stacked(u) = Stacked(t) \cup {n + 1}
         /\ \A x, y \in DOMAIN u.open : x < y => u.open[x] < u.open[y]
<1>1. PICK k \in Nat : k = Len(t.open)
  OBVIOUS
<1>2. /\ DOMAIN t.open = 1 .. k /\ DOMAIN u.open = 1 .. k + 1 /\ u.open[k + 1] = n + 1
      /\ \A x \in 1 .. k : u.open[x] = t.open[x] /\ t.open[x] <= n /\ t.open[x] \in Nat
  BY <1>1 DEF Stacked
<1>3. Stacked(u) = Stacked(t) \cup {n + 1}
  BY <1>2 DEF Stacked
<1>4. \A x, y \in DOMAIN u.open : x < y => u.open[x] < u.open[y]
  BY <1>2
<1> QED
  BY <1>3, <1>4

LEMMA PopEnds ==
  ASSUME NEW t, NEW u, t.open \in Seq(Nat), t.open # << >>, u.open = Front(t.open),
         \A x, y \in DOMAIN t.open : x < y => t.open[x] < t.open[y]
  PROVE  /\ Stacked(u) = Stacked(t) \ {Last(t.open)}
         /\ Last(t.open) \in Stacked(t) /\ \A i \in Stacked(t) : i <= Last(t.open)
         /\ \A x, y \in DOMAIN u.open : x < y => u.open[x] < u.open[y]
<1>1. PICK k \in Nat : k = Len(t.open) - 1
  OBVIOUS
<1>2. /\ u.open \in Seq(Nat) /\ Len(u.open) = k /\ \A x \in 1 .. k : u.open[x] = t.open[x]
      /\ Last(t.open) = t.open[k + 1]
  <2>1. PICK s \in Seq(Nat) : s = t.open
    OBVIOUS
  <2>2. /\ Front(s) \in Seq(Nat) /\ Len(s) \in Nat /\ Len(Front(s)) = Len(s) - 1
        /\ \A x \in 1 .. Len(s) - 1 : Front(s)[x] = s[x]
        /\ Last(s) = s[Len(s)]
    BY <2>1, TakenOff
  <2>3. Len(s) = k + 1 /\ u.open = Front(s)
    BY <1>1, <2>1, <2>2
  <2> QED
    BY <2>1, <2>2, <2>3
<1>3. DOMAIN t.open = 1 .. k + 1 /\ DOMAIN u.open = 1 .. k /\ \A x \in 1 .. k + 1 : t.open[x] \in Nat
  <2>1. Len(t.open) \in Nat /\ Len(t.open) = k + 1
    BY <1>1
  <2>2. \A s \in Seq(Nat) : DOMAIN s = 1 .. Len(s) /\ \A x \in 1 .. Len(s) : s[x] \in Nat
    OBVIOUS
  <2>3. DOMAIN u.open = 1 .. k
    BY <1>2, <2>2
  <2>4. DOMAIN t.open = 1 .. k + 1 /\ \A x \in 1 .. k + 1 : t.open[x] \in Nat
    BY <2>1, <2>2
  <2> QED
    BY <2>3, <2>4
<1>4. \A x \in 1 .. k : t.open[x] < t.open[k + 1]
  <2>1. k + 1 \in DOMAIN t.open /\ \A x \in 1 .. k : x \in DOMAIN t.open /\ x < k + 1
    BY <1>3
  <2> QED
    BY <2>1
<1>5. Last(t.open) \in Stacked(t) /\ \A i \in Stacked(t) : i <= Last(t.open)
  BY <1>2, <1>3, <1>4 DEF Stacked
<1>6. Stacked(u) = Stacked(t) \ {Last(t.open)}
  <2>1. ASSUME NEW i
        PROVE  i \in Stacked(u) <=> i \in Stacked(t) \ {Last(t.open)}
    <3>1. i \in Stacked(u) <=> \E x \in 1 .. k : i = t.open[x]
      BY <1>2, <1>3 DEF Stacked
    <3>2. i \in Stacked(t) <=> \E x \in 1 .. k + 1 : i = t.open[x]
      BY <1>3 DEF Stacked
    <3>3. \A x \in 1 .. k : t.open[x] # Last(t.open) /\ x \in 1 .. k + 1
      BY <1>2, <1>3, <1>4
    <3>4. \A x \in 1 .. k + 1 : x \in 1 .. k \/ t.open[x] = Last(t.open)
      <4>1. \A x \in 1 .. k + 1 : x \in 1 .. k \/ x = k + 1
        OBVIOUS
      <4> QED
        BY <1>2, <4>1
    <3> QED
      BY <3>1, <3>2, <3>3, <3>4
  <2> QED
    BY <2>1
<1>7. \A x, y \in DOMAIN u.open : x < y => u.open[x] < u.open[y]
  <2>1. ASSUME NEW x \in 1 .. k, NEW y \in 1 .. k, x < y
        PROVE  u.open[x] < u.open[y]
    <3>1. x \in DOMAIN t.open /\ y \in DOMAIN t.open
      BY <1>3
    <3>2. t.open[x] < t.open[y]
      BY <2>1, <3>1
    <3> QED
      BY <1>2, <3>2
  <2> QED
    BY <1>3, <2>1
<1> QED
  BY <1>5, <1>6, <1>7

LEMMA LineKeeps ==
  ASSUME NEW Line, NEW p \in Seq(Line), NEW n \in Nat, n + 1 <= Len(p), NEW t \in Reading(p), Kept(p, n, t)
  PROVE  Kept(p, n + 1, AtLine(p, t, n + 1))
<1>1. PICK u : u = AtLine(p, t, n + 1)
  OBVIOUS
<1>2. /\ DOMAIN p = 1 .. Len(p) /\ Len(p) \in Nat /\ n + 1 \in DOMAIN p
      /\ Opening(p) \subseteq Nat /\ Ending(p) \subseteq Nat
  BY DEF Opening, Ending
<1>3. /\ t.open \in Seq(DOMAIN p) /\ t.open \in Seq(Nat)
      /\ t.opener \in [DOMAIN p -> {0} \cup DOMAIN p] /\ t.errors \in BOOLEAN
      /\ Fields(t)
  BY <1>2 DEF Reading, Fields
<1>4. Ended(t) \subseteq DOMAIN p /\ n + 1 \notin Ended(t)
  BY <1>2, <1>3 DEF Ended, Kept
<1>5. CASE Op(p, n + 1) \in DOMAIN Closing
  <2>1. u.open = Append(t.open, n + 1) /\ u.opener = t.opener /\ u.errors = t.errors
    <3>1. u = [open |-> Append(t.open, n + 1), opener |-> t.opener, errors |-> t.errors]
      BY <1>1, <1>3, <1>5, AtOpening, Zenon
    <3> QED
      BY <3>1
  <2>2. n + 1 \in Opening(p) /\ n + 1 \notin Ending(p)
    BY <1>2, <1>5, ClosersOpenNothing DEF Opening, Ending
  <2>3. Stacked(u) = Stacked(t) \cup {n + 1} /\ \A x, y \in DOMAIN u.open : x < y => u.open[x] < u.open[y]
    BY <1>3, <2>1, PushOpens DEF Kept
  <2>4. Ended(u) = Ended(t)
    BY <2>1 DEF Ended
  <2>5. \A j \in Ended(t) : j < n + 1 /\ t.opener[j] < n + 1
    BY <1>2 DEF Kept
  <2>6. /\ \A i \in Stacked(u) : i \in Opening(p) /\ i <= n + 1
        /\ \A j \in Ended(u), i \in Stacked(u) : u.opener[j] < i => j < i
    BY <1>2, <2>1, <2>2, <2>3, <2>4, <2>5 DEF Kept
  <2>7. \A j \in Ended(u) : /\ j \in Ending(p) /\ j <= n + 1
                            /\ u.opener[j] \in Opening(p) /\ u.opener[j] < j
                            /\ Closing[Op(p, u.opener[j])] = Op(p, j)
                            /\ u.opener[j] \notin Stacked(u)
    BY <1>2, <2>1, <2>3, <2>4, <2>5 DEF Kept
  <2>8. ~u.errors => \A j \in Ending(p) : j <= n + 1 => j \in Ended(u)
    BY <1>2, <2>1, <2>2, <2>4 DEF Kept
  <2>9. \A i \in Opening(p) : i <= n + 1 => i \in Stacked(u) \/ \E j \in Ended(u) : u.opener[j] = i
    BY <1>2, <2>1, <2>3, <2>4 DEF Kept
  <2>10. /\ \A j, k \in Ended(u) : u.opener[j] = u.opener[k] => j = k
         /\ \A j, k \in Ended(u) : u.opener[j] < u.opener[k] /\ u.opener[k] < j => k < j
    BY <2>1, <2>4 DEF Kept
  <2> QED
    BY <1>1, <2>3, <2>6, <2>7, <2>8, <2>9, <2>10 DEF Kept
<1>6. CASE Op(p, n + 1) \in Closers /\ ClosesTop(p, n + 1, t.open)
  <2>1. PICK top : top = Last(t.open)
    OBVIOUS
  <2>2. t.open # << >> /\ Closing[Op(p, top)] = Op(p, n + 1)
    BY <1>6, <2>1 DEF ClosesTop
  <2>3. u.open = Front(t.open) /\ u.opener = [t.opener EXCEPT ![n + 1] = top] /\ u.errors = t.errors
    <3>1. u = [open |-> Front(t.open), opener |-> [t.opener EXCEPT ![n + 1] = Last(t.open)], errors |-> t.errors]
      BY <1>1, <1>3, <1>6, AtClosing, Zenon
    <3> QED
      BY <2>1, <3>1
  <2>4. n + 1 \notin Opening(p) /\ n + 1 \in Ending(p)
    BY <1>2, <1>6, ClosersOpenNothing DEF Opening, Ending
  <2>5. /\ Stacked(u) = Stacked(t) \ {top} /\ top \in Stacked(t) /\ \A i \in Stacked(t) : i <= top
        /\ \A x, y \in DOMAIN u.open : x < y => u.open[x] < u.open[y]
    BY <1>3, <2>1, <2>2, <2>3, PopEnds DEF Kept
  <2>6. top \in Opening(p) /\ top <= n /\ top \in Nat /\ top # 0
    BY <1>2, <2>5 DEF Kept, Opening
  <2>7. /\ Ended(u) = Ended(t) \cup {n + 1} /\ u.opener[n + 1] = top
        /\ \A j \in Ended(t) : u.opener[j] = t.opener[j] /\ j <= n /\ t.opener[j] \in Nat /\ t.opener[j] # top
    BY <1>2, <1>3, <1>4, <2>3, <2>5, <2>6 DEF Ended, Kept
  <2>8. /\ \A i \in Stacked(u) : i \in Opening(p) /\ i <= n + 1
        /\ \A j \in Ended(u), i \in Stacked(u) : u.opener[j] < i => j < i
    BY <1>2, <2>5, <2>6, <2>7 DEF Kept
  <2>9. \A j \in Ended(u) : /\ j \in Ending(p) /\ j <= n + 1
                            /\ u.opener[j] \in Opening(p) /\ u.opener[j] < j
                            /\ Closing[Op(p, u.opener[j])] = Op(p, j)
                            /\ u.opener[j] \notin Stacked(u)
    BY <1>2, <2>2, <2>4, <2>5, <2>6, <2>7 DEF Kept
  <2>10. ~u.errors => \A j \in Ending(p) : j <= n + 1 => j \in Ended(u)
    BY <1>2, <2>3, <2>4, <2>7 DEF Kept
  <2>11. \A i \in Opening(p) : i <= n + 1 => i \in Stacked(u) \/ \E j \in Ended(u) : u.opener[j] = i
    BY <1>2, <2>4, <2>5, <2>7 DEF Kept
  <2>12. \A j, k \in Ended(u) : u.opener[j] = u.opener[k] => j = k
    BY <2>7 DEF Kept
  <2>13. \A j, k \in Ended(u) : u.opener[j] < u.opener[k] /\ u.opener[k] < j => k < j
    <3>1. \A k \in Ended(t) : t.opener[k] < top => k < top
      BY <2>5 DEF Kept
    <3>2. \A j \in Ended(t) : ~(t.opener[j] < top /\ top < j)
      BY <1>2, <2>5, <2>6, <2>7, <3>1 DEF Kept
    <3> QED
      BY <1>2, <2>6, <2>7, <3>2 DEF Kept
  <2> QED
    BY <1>1, <2>5, <2>8, <2>9, <2>10, <2>11, <2>12, <2>13 DEF Kept
<1>7. CASE Op(p, n + 1) \in Closers /\ ~ClosesTop(p, n + 1, t.open)
  <2>1. u.open = t.open /\ u.opener = t.opener /\ u.errors
    <3>1. u = [open |-> t.open, opener |-> t.opener, errors |-> TRUE]
      BY <1>1, <1>3, <1>7, AtWrongClosing, Zenon
    <3> QED
      BY <3>1
  <2>2. n + 1 \notin Opening(p)
    BY <1>7, ClosersOpenNothing DEF Opening
  <2>3. Stacked(u) = Stacked(t) /\ Ended(u) = Ended(t)
    BY <2>1 DEF Stacked, Ended
  <2> QED
    BY <1>1, <1>2, <2>1, <2>2, <2>3 DEF Kept
<1>8. CASE Op(p, n + 1) \notin DOMAIN Closing \cup Closers
  <2>1. u = t
    BY <1>1, <1>8, AtOther
  <2>2. n + 1 \notin Opening(p) /\ n + 1 \notin Ending(p)
    BY <1>8 DEF Opening, Ending
  <2> QED
    BY <1>1, <1>2, <2>1, <2>2 DEF Kept
<1> QED
  BY <1>5, <1>6, <1>7, <1>8

LEMMA AllLinesKeep ==
  ASSUME NEW Line, NEW p \in Seq(Line)
  PROVE  \E at \in [0 .. Len(p) -> Reading(p)] :
            Read(p, at) /\ Build(p) = at[Len(p)] /\ \A n \in 0 .. Len(p) : Kept(p, n, at[n])
<1>1. PICK at \in [0 .. Len(p) -> Reading(p)] : Read(p, at) /\ Build(p) = at[Len(p)]
  BY BuildReads
<1>2. Kept(p, 0, at[0])
  <2>1. at[0].open = << >> /\ at[0].opener = [j \in DOMAIN p |-> 0]
    BY <1>1 DEF Read, Unread
  <2>2. Stacked(at[0]) = {} /\ Ended(at[0]) = {}
    BY <2>1 DEF Stacked, Ended
  <2>3. \A i \in DOMAIN p : ~(i <= 0)
    OBVIOUS
  <2> QED
    BY <2>1, <2>2, <2>3 DEF Kept, Opening, Ending
<1>3. PICK right : right = {n \in 0 .. Len(p) : Kept(p, n, at[n])}
  OBVIOUS
<1>4. PICK zero \in Int : zero = 0
  OBVIOUS
<1>5. ASSUME NEW k \in zero + 1 .. Len(p), k - 1 \in right
      PROVE  k \in right
  <2>1. k - 1 \in Nat /\ (k - 1) + 1 = k /\ k \in 1 .. Len(p) /\ at[k - 1] \in Reading(p) /\ Kept(p, k - 1, at[k - 1])
    BY <1>3, <1>4, <1>5
  <2>2. Kept(p, (k - 1) + 1, AtLine(p, at[k - 1], (k - 1) + 1))
    BY <2>1, LineKeeps
  <2>3. Kept(p, k, at[k])
    BY <1>1, <2>1, <2>2 DEF Read
  <2> QED
    BY <1>3, <2>1, <2>3
<1>6. zero \in right /\ Len(p) \in Int
  BY <1>2, <1>3, <1>4
<1>7. \A n \in zero .. Len(p) : n \in right
  BY <1>5, <1>6, UpTo
<1> QED
  BY <1>1, <1>3, <1>4, <1>7

(***************************************************************************)
(* When Build accepts a program, what it took each closing line to close   *)
(* is a pairing of its lines.                                              *)
(***************************************************************************)
Found(p) == [j \in Ending(p) |-> OpenedAt(p, j)]

THEOREM BuildPairs ==
  ASSUME NEW Line, NEW p \in Seq(Line), Builds(p)
  PROVE  Pairing(p, Found(p))
<1>1. PICK t : t = Build(p)
  OBVIOUS
<1>2. t \in Reading(p) /\ Kept(p, Len(p), t)
  BY <1>1, AllLinesKeep
<1>3. ~t.errors /\ t.open = << >> /\ \A j \in Ending(p) : Found(p)[j] = t.opener[j]
  BY <1>1 DEF Builds, Found, OpenedAt
<1>4. Stacked(t) = {}
  BY <1>3 DEF Stacked
<1>5. \A i \in DOMAIN p : i <= Len(p)
  OBVIOUS
<1>6. Ended(t) = Ending(p)
  BY <1>2, <1>3, <1>5 DEF Kept, Ending
<1>7. Found(p) \in [Ending(p) -> Opening(p)]
  BY <1>2, <1>3, <1>6 DEF Kept, Found
<1>8. \A i \in Opening(p) : \E j \in Ending(p) : Found(p)[j] = i
  BY <1>2, <1>3, <1>4, <1>5, <1>6 DEF Kept, Opening
<1> QED
  BY <1>2, <1>3, <1>6, <1>7, <1>8 DEF Kept, Pairing

(***************************************************************************)
(* Build misses no pairing: a program that has one is accepted, and the    *)
(* one Build found is the only one it has.                                 *)
(***************************************************************************)
Follows(p, m, n, t) ==
  /\ ~t.errors
  /\ Ended(t) = {j \in Ending(p) : j <= n}
  /\ \A j \in Ended(t) : t.opener[j] = m[j]

LEMMA LineFollows ==
  ASSUME NEW Line, NEW p \in Seq(Line), NEW m, Pairing(p, m), NEW n \in Nat, n + 1 <= Len(p),
         NEW t \in Reading(p), Kept(p, n, t), Follows(p, m, n, t)
  PROVE  Follows(p, m, n + 1, AtLine(p, t, n + 1))
<1>1. PICK u : u = AtLine(p, t, n + 1)
  OBVIOUS
<1>2. /\ DOMAIN p = 1 .. Len(p) /\ Len(p) \in Nat /\ n + 1 \in DOMAIN p
      /\ Opening(p) \subseteq Nat \ {0} /\ Ending(p) \subseteq Nat
  BY DEF Opening, Ending
<1>3. /\ t.open \in Seq(DOMAIN p) /\ t.open \in Seq(Nat)
      /\ t.opener \in [DOMAIN p -> {0} \cup DOMAIN p] /\ t.errors \in BOOLEAN
      /\ Fields(t)
  BY <1>2 DEF Reading, Fields
<1>4. CASE n + 1 \notin Ending(p)
  <2>1. Op(p, n + 1) \notin Closers
    BY <1>2, <1>4 DEF Ending
  <2>2. u.opener = t.opener /\ u.errors = t.errors
    <3>1. CASE Op(p, n + 1) \in DOMAIN Closing
      <4>1. u = [open |-> Append(t.open, n + 1), opener |-> t.opener, errors |-> t.errors]
        BY <1>1, <1>3, <3>1, AtOpening, Zenon
      <4> QED
        BY <4>1
    <3>2. CASE Op(p, n + 1) \notin DOMAIN Closing
      BY <1>1, <2>1, <3>2, AtOther
    <3> QED
      BY <3>1, <3>2
  <2>3. Ended(u) = Ended(t)
    BY <2>2 DEF Ended
  <2> QED
    BY <1>1, <1>2, <1>4, <2>2, <2>3 DEF Follows
<1>5. CASE n + 1 \in Ending(p)
  <2>1. Op(p, n + 1) \in Closers
    BY <1>5 DEF Ending
  <2>2. /\ m[n + 1] \in Opening(p) /\ m[n + 1] <= n /\ Closing[Op(p, m[n + 1])] = Op(p, n + 1)
        /\ \A j \in Ended(t) : m[j] # m[n + 1]
    BY <1>2, <1>5 DEF Pairing, Follows
  <2>3. m[n + 1] \in Stacked(t)
    BY <2>2 DEF Kept, Follows
  <2>4. t.open # << >>
    BY <2>3 DEF Stacked
  <2>5. PICK top : top = Last(t.open)
    OBVIOUS
  <2>6. PICK v : v.open = Front(t.open)
    <3>1. [open |-> Front(t.open)].open = Front(t.open)
      OBVIOUS
    <3> QED
      BY <3>1
  <2>7. top \in Stacked(t) /\ m[n + 1] <= top
    BY <1>3, <2>3, <2>4, <2>5, <2>6, PopEnds DEF Kept
  <2>8. PICK k \in Ending(p) : m[k] = top /\ top <= n /\ top \in Nat
    BY <1>2, <2>7 DEF Kept, Pairing
  <2>9. k \notin Ended(t)
    BY <2>7, <2>8 DEF Kept, Follows
  <2>10. n + 1 <= k
    BY <1>2, <2>8, <2>9 DEF Follows
  <2>11. top = m[n + 1]
    BY <1>2, <1>5, <2>2, <2>7, <2>8, <2>10 DEF Pairing
  <2>12. ClosesTop(p, n + 1, t.open)
    BY <2>2, <2>4, <2>5, <2>11 DEF ClosesTop
  <2>13. u.opener = [t.opener EXCEPT ![n + 1] = m[n + 1]] /\ u.errors = t.errors
    <3>1. u = [open |-> Front(t.open), opener |-> [t.opener EXCEPT ![n + 1] = Last(t.open)], errors |-> t.errors]
      BY <1>1, <1>3, <2>1, <2>12, AtClosing, Zenon
    <3> QED
      BY <2>5, <2>11, <3>1
  <2>14. m[n + 1] # 0 /\ u.opener[n + 1] = m[n + 1] /\ \A j \in DOMAIN p : j # n + 1 => u.opener[j] = t.opener[j]
    BY <1>2, <1>3, <2>2, <2>13
  <2>15. Ended(u) = Ended(t) \cup {n + 1}
    BY <1>2, <1>3, <2>13, <2>14 DEF Ended
  <2>16. n + 1 \notin Ended(t) /\ Ended(t) \subseteq DOMAIN p
    BY <1>2, <1>3 DEF Follows, Ended
  <2> QED
    BY <1>1, <1>2, <1>5, <2>13, <2>14, <2>15, <2>16 DEF Follows
<1> QED
  BY <1>4, <1>5

THEOREM BuildMissesNone ==
  ASSUME NEW Line, NEW p \in Seq(Line), NEW m, Pairing(p, m)
  PROVE  Builds(p) /\ m = Found(p)
<1>1. PICK at \in [0 .. Len(p) -> Reading(p)] :
        Read(p, at) /\ Build(p) = at[Len(p)] /\ \A n \in 0 .. Len(p) : Kept(p, n, at[n])
  BY AllLinesKeep
<1>2. PICK right : right = {n \in 0 .. Len(p) : Follows(p, m, n, at[n])}
  OBVIOUS
<1>3. PICK zero \in Int : zero = 0
  OBVIOUS
<1>4. 0 \in right
  <2>1. at[0] = Unread(p) /\ Ended(at[0]) = {} /\ ~at[0].errors
    BY <1>1 DEF Read, Unread, Ended
  <2>2. {j \in Ending(p) : j <= 0} = {}
    BY DEF Ending
  <2> QED
    BY <1>2, <2>1, <2>2 DEF Follows
<1>5. ASSUME NEW k \in zero + 1 .. Len(p), k - 1 \in right
      PROVE  k \in right
  <2>1. /\ k - 1 \in Nat /\ (k - 1) + 1 = k /\ k \in 1 .. Len(p) /\ k - 1 \in 0 .. Len(p)
        /\ at[k - 1] \in Reading(p) /\ Kept(p, k - 1, at[k - 1]) /\ Follows(p, m, k - 1, at[k - 1])
    BY <1>1, <1>2, <1>3, <1>5
  <2>2. Follows(p, m, (k - 1) + 1, AtLine(p, at[k - 1], (k - 1) + 1))
    BY <2>1, LineFollows
  <2>3. Follows(p, m, k, at[k])
    BY <1>1, <2>1, <2>2 DEF Read
  <2> QED
    BY <1>2, <2>1, <2>3
<1>6. \A n \in zero .. Len(p) : n \in right
  <2>1. zero \in right /\ Len(p) \in Int
    BY <1>2, <1>3, <1>4
  <2> QED
    BY <1>5, <2>1, UpTo
<1>7. PICK t \in Reading(p) : t = Build(p) /\ Kept(p, Len(p), t) /\ Follows(p, m, Len(p), t)
  BY <1>1, <1>2, <1>3, <1>6
<1>8. \A i \in DOMAIN p : i <= Len(p) /\ i \in Nat
  OBVIOUS
<1>9. Ended(t) = Ending(p)
  BY <1>7, <1>8 DEF Follows, Ending
<1>10. Stacked(t) = {}
  <2>1. ASSUME NEW i \in Stacked(t)
        PROVE  FALSE
    <3>1. i \in Opening(p)
      BY <1>7, <2>1 DEF Kept
    <3>2. PICK j \in Ending(p) : m[j] = i
      BY <3>1 DEF Pairing
    <3>3. t.opener[j] = i /\ j \in Ended(t)
      BY <1>7, <1>9, <3>2 DEF Follows
    <3> QED
      BY <1>7, <2>1, <3>3 DEF Kept
  <2> QED
    BY <2>1
<1>11. t.open = << >>
  <2>1. t.open \in Seq(DOMAIN p) /\ DOMAIN t.open = 1 .. Len(t.open) /\ Len(t.open) \in Nat
    BY <1>7 DEF Reading
  <2>2. 1 \notin DOMAIN t.open
    BY <1>10 DEF Stacked
  <2> QED
    BY <2>1, <2>2
<1>12. m = Found(p)
  <2>1. \A j \in Ending(p) : m[j] = OpenedAt(p, j)
    BY <1>7, <1>9 DEF Follows, OpenedAt
  <2>2. m = [j \in Ending(p) |-> m[j]]
    BY DEF Pairing
  <2> QED
    BY <2>1, <2>2 DEF Found
<1> QED
  BY <1>7, <1>11, <1>12 DEF Builds, Follows

(***************************************************************************)
(* The reading of L finds the end of a block by counting.  Of the lines    *)
(* from an opening one to a line no further than its end, each that closes *)
(* as its end does closes one of those lines: so the two counts are equal  *)
(* where every one of those is closed, which is at its end and not before. *)
(***************************************************************************)
LEMMA CountsMeetAtTheEnd ==
  ASSUME NEW Line, NEW p \in Seq(Line), NEW m, Pairing(p, m), NEW j \in Ending(p), NEW last \in m[j] + 1 .. j
  PROVE  LET opening == {k \in m[j] .. last : Needs(p, k, Op(p, j))}
             closing == {k \in m[j] .. last : Op(p, k) = Op(p, j)}
         IN  Cardinality(opening) = Cardinality(closing) <=> last = j
<1> DEFINE i == m[j]
           end == Op(p, j)
           opening == {k \in i .. last : Needs(p, k, end)}
           closing == {k \in i .. last : Op(p, k) = end}
           closes == [k \in closing |-> m[k]]
<1>1. /\ DOMAIN p = 1 .. Len(p) /\ Len(p) \in Nat
      /\ j \in DOMAIN p /\ end \in Closers /\ i \in DOMAIN p /\ Op(p, i) \in DOMAIN Closing /\ i < j
      /\ Closing[Op(p, i)] = end
  BY DEF Pairing, Opening, Ending
<1>2. opening \subseteq Opening(p) /\ closing \subseteq Ending(p)
  BY <1>1 DEF Opening, Ending, Needs
<1>3. \A k \in Ending(p) : k \in DOMAIN p /\ m[k] \in DOMAIN p /\ m[k] < k /\ Closing[Op(p, m[k])] = Op(p, k)
                           /\ Op(p, m[k]) \in DOMAIN Closing
  BY DEF Pairing, Opening, Ending
<1>4. \A k \in closing : m[k] \in opening
  <2>1. ASSUME NEW k \in closing
        PROVE  m[k] \in opening
    <3>1. k \in Ending(p) /\ k \in i .. last /\ Op(p, k) = end /\ k # i
      BY <1>1, <1>2, ClosersOpenNothing DEF Ending
    <3>2. ~(m[k] < i)
      BY <1>1, <1>3, <3>1 DEF Pairing
    <3>3. m[k] \in i .. last
      BY <1>1, <1>3, <3>1, <3>2
    <3>4. Needs(p, m[k], end)
      BY <1>3, <3>1 DEF Needs
    <3> QED
      BY <3>3, <3>4
  <2> QED
    BY <2>1
<1>5. closes \in Injection(closing, opening)
  <2>1. closes \in [closing -> opening]
    BY <1>4
  <2>2. \A k, l \in closing : closes[k] = closes[l] => k = l
    BY <1>2 DEF Pairing
  <2> QED
    BY <2>1, <2>2 DEF Injection, IsInjective
<1>6. i \in opening
  BY <1>1 DEF Needs
<1>7. IsFiniteSet(opening)
  <2>1. opening \in SUBSET Nat /\ \A k \in opening : k <= j
    BY <1>1
  <2> HIDE DEF opening
  <2> QED
    BY <1>1, <2>1, FS_BoundedSetOfNaturals
<1>8. Cardinality(closing) = Cardinality(opening) <=> closes \in Surjection(closing, opening)
  <2> HIDE DEF opening, closing, closes
  <2> QED
    BY <1>5, <1>7, FS_Injection
<1>9. ASSUME closes \in Surjection(closing, opening)
      PROVE  last = j
  <2>1. PICK k \in closing : closes[k] = i
    BY <1>6, <1>9 DEF Surjection
  <2>2. k = j
    BY <1>2, <2>1 DEF Pairing
  <2> QED
    BY <1>1, <2>1, <2>2
<1>10. ASSUME last = j
       PROVE  closes \in Surjection(closing, opening)
  <2>1. ASSUME NEW o \in opening
        PROVE  \E k \in closing : closes[k] = o
    <3>1. o \in Opening(p) /\ o \in i .. j /\ Closing[Op(p, o)] = end
      BY <1>2, <1>10 DEF Needs
    <3>2. PICK k \in Ending(p) : m[k] = o
      BY <3>1 DEF Pairing
    <3>3. Op(p, k) = end /\ o < k
      BY <1>3, <3>1, <3>2
    <3>4. o # j
      BY <1>1, <3>1, ClosersOpenNothing DEF Opening
    <3>5. k <= j
      BY <1>1, <1>3, <3>1, <3>2, <3>4 DEF Pairing
    <3>6. k \in closing
      BY <1>1, <1>3, <1>10, <3>1, <3>2, <3>3, <3>5
    <3> QED
      BY <3>2, <3>6
  <2>2. closes \in [closing -> opening]
    BY <1>4
  <2> QED
    BY <2>1, <2>2 DEF Surjection
<1> QED
  BY <1>8, <1>9, <1>10

(***************************************************************************)
(* The two ways to find the other end of a block agree on every program    *)
(* that Build accepts: what the mapper takes from the tree is where the    *)
(* reading of L goes.                                                      *)
(***************************************************************************)
THEOREM CountingFindsTheBlocks ==
  ASSUME NEW Line, NEW p \in Seq(Line), Builds(p)
  PROVE  /\ \A i \in Opening(p) : ClosedAt(p, i) \in Ending(p) /\ OpenedAt(p, ClosedAt(p, i)) = i
                                  /\ Closer(p, i) = ClosedAt(p, i)
         /\ \A j \in Ending(p) : OpenedAt(p, j) \in Opening(p) /\ ClosedAt(p, OpenedAt(p, j)) = j
                                 /\ Opener(p, j) = OpenedAt(p, j)
<1>1. PICK m : m = Found(p)
  OBVIOUS
<1>2. Pairing(p, m) /\ \A j \in Ending(p) : OpenedAt(p, j) = m[j]
  BY <1>1, BuildPairs DEF Found
<1>3. DOMAIN p = 1 .. Len(p) /\ Len(p) \in Nat
  OBVIOUS
<1>4. \A j \in Ending(p) : j \in DOMAIN p /\ m[j] \in Opening(p) /\ m[j] \in DOMAIN p /\ m[j] < j
                           /\ Op(p, m[j]) \in DOMAIN Closing
  BY <1>2 DEF Pairing, Opening, Ending
<1>5. ASSUME NEW j \in Ending(p)
      PROVE  Closer(p, m[j]) = j
  <2> DEFINE Meet(k) == Cardinality({l \in m[j] .. k : Needs(p, l, Op(p, j))}) = Cardinality({l \in m[j] .. k : Op(p, l) = Op(p, j)})
             candidates == {k \in m[j] + 1 .. Len(p) : Op(p, k) = Op(p, j) /\ Meet(k)}
  <2>1. Closing[Op(p, m[j])] = Op(p, j)
    BY <1>2 DEF Pairing
  <2>2. \A last \in m[j] + 1 .. j : Meet(last) <=> last = j
    BY <1>2, CountsMeetAtTheEnd
  <2>3. Closer(p, m[j]) = Min(candidates)
    BY <2>1 DEF Closer
  <2> HIDE DEF Meet
  <2>4. j \in candidates /\ \A k \in candidates : j <= k /\ k \in Nat
    BY <1>3, <1>4, <2>2
  <2>5. Min(candidates) = j
    <3> HIDE DEF candidates
    <3>1. \A k \in candidates : (\A l \in candidates : k <= l) <=> k = j
      BY <2>4
    <3> QED
      BY <2>4, <3>1 DEF Min
  <2> QED
    BY <2>3, <2>5
<1>6. ASSUME NEW i \in Opening(p)
      PROVE  ClosedAt(p, i) \in Ending(p) /\ m[ClosedAt(p, i)] = i
  <2>1. \E j \in DOMAIN p : OpenedAt(p, j) = i
    BY <1>2, <1>4 DEF Pairing
  <2>2. ClosedAt(p, i) \in DOMAIN p /\ OpenedAt(p, ClosedAt(p, i)) = i
    BY <2>1 DEF ClosedAt
  <2>3. ClosedAt(p, i) \in Ending(p)
    <3>1. Kept(p, Len(p), Build(p)) /\ Build(p) \in Reading(p)
      BY AllLinesKeep
    <3>2. i # 0
      BY <1>3 DEF Opening
    <3>3. ClosedAt(p, i) \in Ended(Build(p))
      BY <2>2, <3>1, <3>2 DEF OpenedAt, Reading, Ended
    <3> QED
      BY <3>1, <3>3 DEF Kept
  <2> QED
    BY <1>2, <2>2, <2>3
<1>7. ASSUME NEW j \in Ending(p)
      PROVE  ClosedAt(p, m[j]) = j /\ Opener(p, j) = m[j]
  <2>1. ClosedAt(p, m[j]) = j
    BY <1>2, <1>4, <1>6 DEF Pairing
  <2>2. m[j] \in 1 .. j - 1 /\ Op(p, m[j]) \in DOMAIN Closing /\ Closer(p, m[j]) = j
    BY <1>3, <1>4, <1>5
  <2>3. ASSUME NEW i \in 1 .. j - 1, Op(p, i) \in DOMAIN Closing, Closer(p, i) = j
        PROVE  i = m[j]
    <3>1. i \in Opening(p)
      BY <1>3, <1>4, <2>3 DEF Opening
    <3>2. ClosedAt(p, i) \in Ending(p) /\ m[ClosedAt(p, i)] = i
      BY <1>6, <3>1
    <3>3. Closer(p, i) = ClosedAt(p, i)
      BY <1>5, <3>2
    <3> QED
      BY <2>3, <3>2, <3>3
  <2> QED
    BY <2>1, <2>2, <2>3 DEF Opener
<1>8. \A i \in Opening(p) : Closer(p, i) = ClosedAt(p, i)
  BY <1>5, <1>6
<1> QED
  BY <1>2, <1>4, <1>6, <1>7, <1>8
=============================================================================
