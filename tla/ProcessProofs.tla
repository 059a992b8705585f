--------------------------- MODULE ProcessProofs ---------------------------
(***************************************************************************)
(* The safety of one run of the processor, for every program, width, quota *)
(* and cycle limit, and whatever writes fail.                              *)
(*                                                                         *)
(* The invariants that Process states are not inductive: they say nothing  *)
(* of where control is while the process is being wound up.  Control and   *)
(* Story say it: the program is at its logic only as long as nothing       *)
(* failed, and what the debugging stream holds tells how far the winding   *)
(* up has come.                                                            *)
(***************************************************************************)
EXTENDS Process, FiniteSetTheorems, TLAPS

OutP == INSTANCE OutputProofs WITH job <- [outputs |-> NOutputs, listing |-> HasListing]

Causes == {"illegal", "rewind", "read", "listing", "output", "debug", "quota"}
Phases == {"running", "statistics", "constructions"}
Token == [t : Phases \cup HostTexts \cup {"wrap"}, n : Nat, newline : BOOLEAN, unwrapped : BOOLEAN]
Letter == [t : HostTexts, n : Nat, ch : Chars]

TypeInv ==
  /\ OutP!TypeInv
  /\ s5 \in Nat /\ s12 \in Int /\ s18 \subseteq {"statistics", "constructions"}
  /\ phase \in Phases
  /\ fatal \in Causes \cup {"none"}
  /\ column \in Nat /\ cycles \in 0 .. CycleLimit
  /\ pc \in {"logic", "er7a", "report", "ended"}
  /\ err \in {"none", "nil", "errors", "aborted", "fault", "nostorage"} \cup Causes
  /\ debug \in Seq(Token) /\ writing \in Seq(Letter) /\ lost \in BOOLEAN
  /\ entries \in Programs

\* A write may fail once while the program is at its logic, and that is the
\* end of its logic; and once more, or twice in one call, and that is the end.
Control ==
  /\ pc = "logic" => fatal = "none" /\ phase = "running" /\ aborts = 0
  /\ pc = "er7a" => phase = "running" /\ aborts <= 1
  /\ pc = "report" => phase # "running" /\ aborts <= 1
  /\ aborts <= 2
  /\ fatal \in {"quota", "debug"} => pc = "ended"
  /\ fatal = "debug" => lost

-----------------------------------------------------------------------------
Has(d, t) == \E k \in DOMAIN d : d[k].t = t

\* The n tokens up to k are on one line, and the line d ends in has c of them.
OneLine(d, k, n) == n <= k /\ \A i \in k - n + 1 .. k : ~d[i].newline
LastLine(d, c) == \A n \in Nat : OneLine(d, Len(d), n) <=> n <= c

Fits(d) ==
  DebugWidth > 0 =>
    \A k \in DOMAIN d :
      /\ d[k].unwrapped <=> OneLine(d, k, DebugWidth + 1)
      /\ d[k].unwrapped => d[k].t \in HostTexts
      /\ d[k].t = "wrap" => OneLine(d, k - 1, DebugWidth)

\* Every text of the host that the stream holds is in order and in one piece,
\* so far: a piece that has begun is at the end, when more of it is to come.
InOrder(d) == \A j, k \in DOMAIN d : d[j].t \in HostTexts /\ d[k].t \in HostTexts /\ j < k => Precedes(d[j], d[k])
AtEnd(d, t) == \A j \in DOMAIN d : d[j].t = t => \A i \in j .. Len(d) : d[i].t \in {t, "wrap"}
OnePiece(d, t) == \A j, k \in DOMAIN d : d[j].t = t /\ d[k].t = t => \A i \in j .. k : d[i].t \in {t, "wrap"}

Winding == {"aborted", "wrap", "statistics", "constructions"}
Shaped(d) ==
  /\ InOrder(d)
  /\ OnePiece(d, "error") /\ OnePiece(d, "aborted")
  /\ \A j, k \in DOMAIN d : d[j].t = "aborted" /\ j < k => d[k].t \in Winding
  /\ \A j, k \in DOMAIN d : d[j].t \in {"statistics", "constructions"} /\ j < k => d[k].t # "running"

\* What is still to be written follows on what has been.
Follows(d, w) ==
  /\ InOrder(w)
  /\ \A k \in DOMAIN d, i \in DOMAIN w : d[k].t \in HostTexts => Precedes(d[k], w[i])
  /\ \A i \in DOMAIN w : AtEnd(d, w[i].t)

\* The characters of a text that have arrived, or are still to be written.
Numbers(d, t) == {d[k].n : k \in {k \in DOMAIN d : d[k].t = t}}
Told(d, w, t) == Numbers(d, t) \cup Numbers(w, t)

Story ==
  /\ LastLine(debug, column)
  /\ Fits(debug) /\ Shaped(debug) /\ Follows(debug, writing)
  /\ fatal = "none" => writing = << >> /\ \A t \in HostTexts : ~Has(debug, t)
  /\ fatal # "none" /\ ~lost => Told(debug, writing, "error") = DOMAIN ErrorText
  /\ Has(debug, "aborted") => pc = "ended" \/ phase # "running"
  /\ phase # "running" /\ fatal # "none" /\ ~lost =>
       Told(debug, writing, "aborted") = DOMAIN AbortedMessage
  /\ phase = "running" => ~Has(debug, "statistics") /\ ~Has(debug, "constructions")
  /\ Has(writing, "aborted") => pc = "ended" \/ phase # "running"

Reported ==
  pc = "ended" /\ fatal \notin {"none", "debug"} /\ err = fatal /\ ~lost /\ aborts < 2 =>
    Told(debug, writing, "aborted") = DOMAIN AbortedMessage

IInv == TypeInv /\ Control /\ Story /\ QuotaIsExact /\ Reported
-----------------------------------------------------------------------------
(***************************************************************************)
(* The facts of OutputProofs, in the words of Process.                     *)
(***************************************************************************)
LEMMA OutputsAreFew == OutP!OutputAssumption
<1>1. S21Values \subseteq SUBSET (1 .. 4) /\ NOutputs \in 0 .. 4 /\ HasListing \in BOOLEAN
  BY ProcessAssumption DEF Out!MaxOutputs
<1> QED
  BY <1>1 DEF OutP!OutputAssumption, OutP!MaxOutputs

LEMMA SameInit == Out!Init => OutP!Init
  BY DEF Out!Init, Out!Outputs, Out!MaxOutputs, OutP!Init, OutP!Outputs, OutP!MaxOutputs

LEMMA SameAssign == Out!Assign => OutP!Assign
  BY DEF Out!Assign, OutP!Assign

LEMMA SameWrites ==
  /\ Out!Outputs = OutP!Outputs /\ Out!Writes = OutP!Writes
  /\ \A fails, redirect :
       /\ Out!Completes(fails, redirect) <=> OutP!Completes(fails, redirect)
       /\ Out!Done(fails, redirect) = OutP!Done(fails, redirect)
       /\ Out!Failed(fails, redirect) = OutP!Failed(fails, redirect)
<1>1. Out!Outputs = OutP!Outputs
  BY DEF Out!Outputs, OutP!Outputs
<1>2. Out!Writes = OutP!Writes
  BY <1>1 DEF Out!Writes, Out!Selected, Out!Listed, Out!LineNumber, Out!listingNumbered,
              OutP!Writes, OutP!Selected, OutP!Listed, OutP!LineNumber, OutP!listingNumbered
<1>3. ASSUME NEW fails, NEW redirect
      PROVE  Out!StopsAt(fails, redirect) = OutP!StopsAt(fails, redirect)
  BY <1>1 DEF Out!StopsAt, OutP!StopsAt
<1>4. ASSUME NEW fails, NEW redirect
      PROVE  Out!Attempted(fails, redirect) = OutP!Attempted(fails, redirect)
  BY <1>2, <1>3 DEF Out!Attempted, OutP!Attempted
<1> QED
  BY <1>1, <1>2, <1>3, <1>4 DEF Out!Completes, Out!Done, Out!Failed, OutP!Completes, OutP!Done, OutP!Failed

LEMMA SameCardinality ==
  ASSUME NEW S
  PROVE  Out!Cardinality(S) = Cardinality(S) /\ OutP!Cardinality(S) = Cardinality(S)
  BY DEF Out!Cardinality, OutP!Cardinality, Cardinality

LEMMA SameWriteChar ==
  ASSUME NEW ch, NEW fails, NEW redirect, Out!WriteChar(ch, fails, redirect)
  PROVE  OutP!WriteChar(ch, fails, redirect)
<1>1. Out!OutputLine = OutP!OutputLine /\ Out!NL = OutP!NL /\ Out!Listed = OutP!Listed /\ Out!LineNumber = OutP!LineNumber
  BY DEF Out!OutputLine, OutP!OutputLine, Out!NL, OutP!NL, Out!Listed, OutP!Listed, Out!LineNumber, OutP!LineNumber
<1>2. \A done : Out!SetAtLineStart(done, ch) = OutP!SetAtLineStart(done, ch)
  BY <1>1 DEF Out!SetAtLineStart, OutP!SetAtLineStart
<1>3. /\ Out!Outputs = OutP!Outputs /\ Out!Writes = OutP!Writes
      /\ Out!Completes(fails, redirect) <=> OutP!Completes(fails, redirect)
      /\ Out!Done(fails, redirect) = OutP!Done(fails, redirect)
      /\ Out!Failed(fails, redirect) = OutP!Failed(fails, redirect)
  BY SameWrites
<1>4. Out!Cardinality(Out!Failed(fails, redirect)) = OutP!Cardinality(OutP!Failed(fails, redirect))
  BY <1>3, SameCardinality, Zenon
<1>5. s19' = OutP!OutputLine /\ s24' = OutP!SetAtLineStart(OutP!Done(fails, redirect) \cap OutP!Outputs, ch)
  BY <1>1, <1>2, <1>3, Zenon DEF Out!WriteChar
<1>6. atLineStart' = IF OutP!Completes(fails, redirect) THEN ch = OutP!NL ELSE atLineStart
  BY <1>1, <1>3, Zenon DEF Out!WriteChar
<1>7. aborts' = aborts + OutP!Cardinality(OutP!Failed(fails, redirect))
  BY <1>4, Zenon DEF Out!WriteChar
<1>8. files' = [i \in OutP!Outputs |-> IF i \in OutP!Done(fails, redirect) THEN Append(files[i], ch) ELSE files[i]]
  BY <1>3 DEF Out!WriteChar
<1>9. listing' = listing
          \o (IF OutP!LineNumber \in OutP!Done(fails, redirect) THEN <<[shows |-> "number", of |-> s19']>> ELSE << >>)
          \o (IF OutP!Listed \in OutP!Done(fails, redirect) THEN <<[shows |-> "char", of |-> Len(text) + 1]>> ELSE << >>)
  BY <1>1, <1>3 DEF Out!WriteChar
<1>10. /\ fails \subseteq OutP!Writes
       /\ text' = Append(text, [ch |-> ch, s20 |-> s20, s21 |-> s21, s22 |-> s22])
       /\ UNCHANGED <<[outputs |-> NOutputs, listing |-> HasListing], s20, s21, s22>>
  BY <1>3 DEF Out!WriteChar
<1> QED
  BY <1>5, <1>6, <1>7, <1>8, <1>9, <1>10 DEF OutP!WriteChar

LEMMA SameChars == Chars = OutP!Chars
  BY DEF Chars, NL, OutP!Chars, OutP!NL

LEMMA OutputTypes == OutP!TypeInv /\ aborts <= 2 => Out!TypeOK
<1> SUFFICES ASSUME OutP!TypeInv, aborts <= 2 PROVE Out!TypeOK
  OBVIOUS
<1> USE DEF OutP!TypeInv
<1>1. [outputs |-> NOutputs, listing |-> HasListing] \in [outputs : 0 .. Out!MaxOutputs, listing : BOOLEAN]
  BY ProcessAssumption
<1>2. \A i \in Out!Outputs : \A k \in DOMAIN files[i] : files[i][k] \in Out!Chars
  <2>1. files \in [Out!Outputs -> Seq(Out!Chars)]
    BY SameWrites DEF OutP!Chars, OutP!NL, Out!Chars, Out!NL
  <2> QED
    BY <2>1
<1> QED
  BY <1>1, <1>2 DEF Out!TypeOK, Out!MaxOutputs, OutP!MaxOutputs
-----------------------------------------------------------------------------
(***************************************************************************)
(* One more token on the debugging stream.                                 *)
(***************************************************************************)
LEMMA Longer ==
  ASSUME NEW S, NEW d \in Seq(S), NEW e \in S
  PROVE  /\ Append(d, e) \in Seq(S) /\ Len(d) \in Nat
         /\ DOMAIN d = 1 .. Len(d) /\ DOMAIN Append(d, e) = 1 .. Len(d) + 1
         /\ Len(Append(d, e)) = Len(d) + 1
         /\ \A k \in 1 .. Len(d) : Append(d, e)[k] = d[k]
         /\ Append(d, e)[Len(d) + 1] = e
  OBVIOUS

LEMMA Grows ==
  ASSUME NEW d \in Seq(Token), NEW e \in Token
  PROVE  /\ Append(d, e) \in Seq(Token)
         /\ \A t : Has(Append(d, e), t) <=> Has(d, t) \/ e.t = t
         /\ \A t : Numbers(Append(d, e), t) = Numbers(d, t) \cup (IF e.t = t THEN {e.n} ELSE {})
<1>1. PICK n \in Nat : n = Len(d)
  BY Longer
<1>2. /\ Append(d, e) \in Seq(Token) /\ DOMAIN d = 1 .. n /\ DOMAIN Append(d, e) = 1 .. n + 1
      /\ \A k \in 1 .. n : Append(d, e)[k] = d[k]
      /\ Append(d, e)[n + 1] = e
  BY <1>1, Longer
<1>3. PICK new : new = Append(d, e)
  OBVIOUS
<1>4. \A k : k \in 1 .. n + 1 <=> k \in 1 .. n \/ k = n + 1
  OBVIOUS
<1> QED
  BY <1>2, <1>3, <1>4, Zenon DEF Has, Numbers

\* The column counts the tokens of the last line.
LEMMA FitsLonger ==
  ASSUME NEW d \in Seq(Token), NEW e \in Token, NEW c \in Nat, Fits(d), LastLine(d, c),
         DebugWidth > 0 => (e.unwrapped <=> ~e.newline /\ c >= DebugWidth),
         e.unwrapped => e.t \in HostTexts,
         e.t = "wrap" => c >= DebugWidth
  PROVE  Fits(Append(d, e)) /\ LastLine(Append(d, e), IF e.newline THEN 0 ELSE c + 1)
<1>1. PICK m \in Nat : m = Len(d)
  BY Longer
<1>2. PICK new : new = Append(d, e)
  OBVIOUS
<1>3. /\ DOMAIN d = 1 .. m /\ DOMAIN new = 1 .. m + 1 /\ Len(new) = m + 1
      /\ \A k \in 1 .. m : new[k] = d[k]
      /\ new[m + 1] = e
  BY <1>1, <1>2, Longer
<1>4. \A k \in 0 .. m, n \in Nat : OneLine(new, k, n) <=> OneLine(d, k, n)
  BY <1>3 DEF OneLine
<1>5. \A n \in Nat : OneLine(new, m + 1, n) <=> n <= IF e.newline THEN 0 ELSE c + 1
  <2> SUFFICES ASSUME NEW n \in Nat PROVE OneLine(new, m + 1, n) <=> n <= IF e.newline THEN 0 ELSE c + 1
    OBVIOUS
  <2>1. CASE n = 0
    BY <2>1 DEF OneLine
  <2>2. CASE n # 0
    <3>1. PICK p \in Nat : n = p + 1
      BY <2>2
    <3>2. OneLine(d, m, p) <=> p <= c
      BY <1>1 DEF LastLine
    <3>3. OneLine(new, m, p) <=> p <= c
      BY <1>4, <3>2
    <3>4. OneLine(new, m + 1, n) <=> OneLine(new, m, p) /\ ~e.newline
      <4>1. \A i : i \in (m + 1) - n + 1 .. m + 1 <=> i \in m - p + 1 .. m \/ i = m + 1
        BY <3>1
      <4>2. n <= m + 1 <=> p <= m
        BY <3>1
      <4> QED
        BY <1>3, <4>1, <4>2 DEF OneLine
    <3> QED
      BY <3>1, <3>3, <3>4
  <2> QED
    BY <2>1, <2>2
<1>6. LastLine(new, IF e.newline THEN 0 ELSE c + 1)
  BY <1>3, <1>5 DEF LastLine
<1>7. Fits(new)
  <2> SUFFICES ASSUME DebugWidth > 0, NEW k \in 1 .. m + 1
      PROVE  /\ new[k].unwrapped <=> OneLine(new, k, DebugWidth + 1)
             /\ new[k].unwrapped => new[k].t \in HostTexts
             /\ new[k].t = "wrap" => OneLine(new, k - 1, DebugWidth)
    BY <1>3 DEF Fits
  <2>1. DebugWidth \in Nat /\ DebugWidth + 1 \in Nat
    BY ProcessAssumption
  <2>2. CASE k \in 1 .. m
    <3>1. k \in 0 .. m /\ k - 1 \in 0 .. m
      BY <2>2
    <3> QED
      BY <1>3, <1>4, <2>1, <2>2, <3>1 DEF Fits
  <2>3. CASE k = m + 1
    <3>1. e.newline \in BOOLEAN /\ e.unwrapped \in BOOLEAN
      BY DEF Token
    <3>2. OneLine(new, k, DebugWidth + 1) <=> ~e.newline /\ c >= DebugWidth
      BY <1>5, <2>1, <2>3, <3>1
    <3>3. OneLine(new, k - 1, DebugWidth) <=> c >= DebugWidth
      BY <1>1, <1>4, <2>1, <2>3 DEF LastLine
    <3> QED
      BY <1>3, <2>3, <3>1, <3>2, <3>3
  <2> QED
    BY <2>2, <2>3
<1> QED
  BY <1>2, <1>6, <1>7

LEMMA Stages == Stage("error") = 1 /\ Stage("blank") = 2 /\ Stage("aborted") = 3
  BY DEF Stage

LEMMA ShapedLonger ==
  ASSUME NEW d \in Seq(Token), NEW e \in Token, Shaped(d),
         e.t \in HostTexts => \A k \in DOMAIN d : d[k].t \in HostTexts => Precedes(d[k], e),
         e.t \in HostTexts => AtEnd(d, e.t),
         Has(d, "aborted") => e.t \in Winding,
         e.t = "running" => ~Has(d, "statistics") /\ ~Has(d, "constructions")
  PROVE  Shaped(Append(d, e))
<1>1. PICK n \in Nat : n = Len(d)
  BY Longer
<1>2. PICK new : new = Append(d, e)
  OBVIOUS
<1>3. /\ DOMAIN d = 1 .. n /\ DOMAIN new = 1 .. n + 1
      /\ \A k \in 1 .. n : new[k] = d[k]
      /\ new[n + 1] = e
  BY <1>1, <1>2, Longer
<1>4. InOrder(new)
  BY <1>3 DEF Shaped, InOrder
<1>5. ASSUME NEW t \in {"error", "aborted"} PROVE OnePiece(new, t)
  <2> SUFFICES ASSUME NEW j \in 1 .. n + 1, NEW k \in 1 .. n + 1, new[j].t = t, new[k].t = t,
                      NEW i \in j .. k
               PROVE  new[i].t \in {t, "wrap"}
    BY <1>3 DEF OnePiece
  <2>1. CASE k \in 1 .. n
    BY <1>3, <2>1 DEF Shaped, OnePiece
  <2>2. CASE k = n + 1 /\ i = n + 1
    BY <1>3, <2>2
  <2>3. CASE k = n + 1 /\ i # n + 1
    <3>1. j \in 1 .. n /\ i \in j .. n /\ d[j].t = t /\ new[i] = d[i] /\ e.t = t
      BY <1>3, <2>3
    <3>2. AtEnd(d, t)
      BY <3>1 DEF HostTexts
    <3> QED
      BY <1>1, <1>3, <3>1, <3>2 DEF AtEnd
  <2> QED
    BY <2>1, <2>2, <2>3
<1>6. \A j, k \in 1 .. n + 1 : new[j].t = "aborted" /\ j < k => new[k].t \in Winding
  BY <1>3 DEF Shaped, Has
<1>7. \A j, k \in 1 .. n + 1 : new[j].t \in {"statistics", "constructions"} /\ j < k => new[k].t # "running"
  BY <1>3 DEF Shaped, Has
<1> QED
  BY <1>2, <1>3, <1>4, <1>5, <1>6, <1>7 DEF Shaped

(***************************************************************************)
(* The host's own texts, as they are when nothing of them is written.      *)
(***************************************************************************)
LEMMA OneText ==
  ASSUME NEW t \in HostTexts, NEW chars \in Seq(Chars)
  PROVE  /\ Text(t, chars) \in Seq(Letter)
         /\ InOrder(Text(t, chars))
         /\ \A k \in DOMAIN Text(t, chars) : Text(t, chars)[k].t = t
         /\ Numbers(Text(t, chars), t) = DOMAIN chars
<1>1. PICK n \in Nat : DOMAIN chars = 1 .. n /\ \A k \in 1 .. n : chars[k] \in Chars
  OBVIOUS
<1>2. PICK w : w = Text(t, chars)
  OBVIOUS
<1>3. /\ w = [k \in 1 .. n |-> [t |-> t, n |-> k, ch |-> chars[k]]]
  BY <1>1, <1>2 DEF Text
<1>4. \A k \in 1 .. n : w[k] \in Letter /\ w[k].t = t /\ w[k].n = k
  BY <1>1, <1>3 DEF Letter
<1>5. w \in Seq(Letter) /\ DOMAIN w = 1 .. n
  BY <1>3, <1>4
<1>6. InOrder(w)
  BY <1>4, <1>5 DEF InOrder, Precedes
<1>7. Numbers(w, t) = 1 .. n
  <2>1. {k \in DOMAIN w : w[k].t = t} = 1 .. n
    BY <1>4, <1>5
  <2>2. Numbers(w, t) = {w[k].n : k \in 1 .. n}
    BY <2>1 DEF Numbers
  <2> QED
    BY <1>4, <2>2
<1> QED
  BY <1>1, <1>2, <1>4, <1>5, <1>6, <1>7

LEMMA LetterOfHost ==
  ASSUME NEW w \in Seq(Letter), NEW k \in DOMAIN w
  PROVE  w[k].t \in HostTexts
<1>1. w[k] \in Letter
  OBVIOUS
<1> QED
  BY <1>1 DEF Letter

LEMMA NumbersOf ==
  ASSUME NEW d, NEW t
  PROVE  \A x : x \in Numbers(d, t) <=> \E k \in DOMAIN d : d[k].t = t /\ x = d[k].n
  BY Zenon DEF Numbers

LEMMA Joined ==
  ASSUME NEW u \in Seq(Letter), NEW v \in Seq(Letter), InOrder(u), InOrder(v),
         \A i \in DOMAIN u, j \in DOMAIN v : Precedes(u[i], v[j])
  PROVE  /\ u \o v \in Seq(Letter) /\ InOrder(u \o v)
         /\ \A t : Numbers(u \o v, t) = Numbers(u, t) \cup Numbers(v, t)
         /\ \A k \in DOMAIN (u \o v) : (\E i \in DOMAIN u : (u \o v)[k] = u[i]) \/ \E j \in DOMAIN v : (u \o v)[k] = v[j]
<1>1. PICK m \in Nat, n \in Nat : m = Len(u) /\ n = Len(v)
  OBVIOUS
<1>2. PICK w : w = u \o v
  OBVIOUS
<1>3. /\ w \in Seq(Letter) /\ DOMAIN u = 1 .. m /\ DOMAIN v = 1 .. n /\ DOMAIN w = 1 .. m + n
      /\ \A i \in 1 .. m : w[i] = u[i]
      /\ \A j \in 1 .. n : w[m + j] = v[j]
  BY <1>1, <1>2
<1>4. \A k \in 1 .. m + n : k \in 1 .. m \/ \E j \in 1 .. n : k = m + j
  <2> SUFFICES ASSUME NEW k \in 1 .. m + n, k \notin 1 .. m PROVE \E j \in 1 .. n : k = m + j
    OBVIOUS
  <2>1. k - m \in 1 .. n /\ k = m + (k - m)
    OBVIOUS
  <2> QED
    BY <2>1
<1>5. InOrder(w)
  <2> SUFFICES ASSUME NEW j \in 1 .. m + n, NEW k \in 1 .. m + n, j < k,
                      w[j].t \in HostTexts, w[k].t \in HostTexts
               PROVE  Precedes(w[j], w[k])
    BY <1>3 DEF InOrder
  <2>1. CASE k \in 1 .. m
    BY <1>3, <2>1 DEF InOrder
  <2>2. CASE j \in 1 .. m /\ k \notin 1 .. m
    <3>1. PICK b \in 1 .. n : k = m + b
      BY <1>4, <2>2
    <3>2. w[j] = u[j] /\ w[k] = v[b]
      BY <1>3, <2>2, <3>1
    <3> QED
      BY <1>3, <2>2, <3>2
  <2>3. CASE j \notin 1 .. m
    <3>1. PICK a \in 1 .. n, b \in 1 .. n : j = m + a /\ k = m + b
      BY <1>4, <2>3
    <3>2. w[j] = v[a] /\ w[k] = v[b] /\ a < b
      BY <1>3, <3>1
    <3> QED
      BY <1>3, <3>1, <3>2 DEF InOrder
  <2> QED
    BY <2>1, <2>2, <2>3
<1>6. ASSUME NEW t PROVE Numbers(w, t) = Numbers(u, t) \cup Numbers(v, t)
  <2>1. \A k \in 1 .. m + n : w[k].t = t => w[k].n \in Numbers(u, t) \cup Numbers(v, t)
    <3> SUFFICES ASSUME NEW k \in 1 .. m + n, w[k].t = t PROVE w[k].n \in Numbers(u, t) \cup Numbers(v, t)
      OBVIOUS
    <3>1. CASE k \in 1 .. m
      BY <1>3, <3>1, NumbersOf
    <3>2. CASE k \notin 1 .. m
      <4>1. PICK j \in 1 .. n : k = m + j
        BY <1>4, <3>2
      <4>2. j \in DOMAIN v /\ v[j].t = t /\ w[k].n = v[j].n
        BY <1>3, <4>1
      <4> QED
        BY <4>2, NumbersOf
    <3> QED
      BY <3>1, <3>2
  <2>2. \A i \in 1 .. m : u[i].t = t => u[i].n \in Numbers(w, t)
    <3>1. \A i \in 1 .. m : i \in 1 .. m + n
      OBVIOUS
    <3> QED
      BY <1>3, <3>1, NumbersOf
  <2>3. \A j \in 1 .. n : v[j].t = t => v[j].n \in Numbers(w, t)
    <3>1. \A j \in 1 .. n : m + j \in 1 .. m + n
      OBVIOUS
    <3> QED
      BY <1>3, <3>1, NumbersOf
  <2> QED
    BY <1>3, <2>1, <2>2, <2>3, NumbersOf
<1>7. \A k \in 1 .. m + n : (\E i \in 1 .. m : w[k] = u[i]) \/ \E j \in 1 .. n : w[k] = v[j]
  BY <1>3, <1>4
<1> QED
  BY <1>2, <1>3, <1>5, <1>6, <1>7

LEMMA NoNumbers ==
  ASSUME NEW w, NEW t, \A k \in DOMAIN w : w[k].t # t
  PROVE  Numbers(w, t) = {} /\ ~Has(w, t)
  BY DEF Numbers, Has

LEMMA HostTextsLeft ==
  /\ ErrorTextLeft \in Seq(Letter) /\ InOrder(ErrorTextLeft)
  /\ StopTextLeft \in Seq(Letter) /\ InOrder(StopTextLeft)
  /\ AbortedTextLeft \in Seq(Letter) /\ InOrder(AbortedTextLeft)
  /\ \A k \in DOMAIN ErrorTextLeft : ErrorTextLeft[k].t = "error"
  /\ \A k \in DOMAIN AbortedTextLeft : AbortedTextLeft[k].t = "aborted"
  /\ Numbers(ErrorTextLeft, "error") = DOMAIN ErrorText
  /\ Numbers(StopTextLeft, "error") = DOMAIN ErrorText
  /\ Numbers(StopTextLeft, "aborted") = DOMAIN AbortedMessage
  /\ Numbers(AbortedTextLeft, "aborted") = DOMAIN AbortedMessage
<1>1. "error" \in HostTexts /\ "blank" \in HostTexts /\ "aborted" \in HostTexts
  BY DEF HostTexts
<1>2. ErrorText \in Seq(Chars) /\ AbortedMessage \in Seq(Chars)
  BY ProcessAssumption
<1>3. <<NL, NL>> \in Seq(Chars)
  BY DEF Chars
<1> DEFINE b == Text("blank", <<NL, NL>>)
<1>4. /\ ErrorTextLeft \in Seq(Letter) /\ InOrder(ErrorTextLeft)
      /\ \A k \in DOMAIN ErrorTextLeft : ErrorTextLeft[k].t = "error"
      /\ Numbers(ErrorTextLeft, "error") = DOMAIN ErrorText
  BY <1>1, <1>2, OneText DEF ErrorTextLeft
<1>5. /\ AbortedTextLeft \in Seq(Letter) /\ InOrder(AbortedTextLeft)
      /\ \A k \in DOMAIN AbortedTextLeft : AbortedTextLeft[k].t = "aborted"
      /\ Numbers(AbortedTextLeft, "aborted") = DOMAIN AbortedMessage
  BY <1>1, <1>2, OneText DEF AbortedTextLeft
<1>6. b \in Seq(Letter) /\ InOrder(b) /\ \A k \in DOMAIN b : b[k].t = "blank"
  BY <1>1, <1>3, OneText
<1> HIDE DEF b
<1>7. \A x, y : \/ x.t = "error" /\ y.t = "blank"
                \/ x.t = "error" /\ y.t = "aborted"
                \/ x.t = "blank" /\ y.t = "aborted"
                => Precedes(x, y)
  BY Stages DEF Precedes
<1>8. PICK u : u = ErrorTextLeft \o b
  OBVIOUS
<1>9. /\ u \in Seq(Letter) /\ InOrder(u)
      /\ \A t : Numbers(u, t) = Numbers(ErrorTextLeft, t) \cup Numbers(b, t)
      /\ \A k \in DOMAIN u : u[k].t \in {"error", "blank"}
  <2>1. \A i \in DOMAIN ErrorTextLeft, j \in DOMAIN b : Precedes(ErrorTextLeft[i], b[j])
    BY <1>4, <1>6, <1>7
  <2> QED
    BY <1>4, <1>6, <1>8, <2>1, Joined
<1>10. /\ u \o AbortedTextLeft \in Seq(Letter) /\ InOrder(u \o AbortedTextLeft)
       /\ \A t : Numbers(u \o AbortedTextLeft, t) = Numbers(u, t) \cup Numbers(AbortedTextLeft, t)
  <2>1. \A i \in DOMAIN u, j \in DOMAIN AbortedTextLeft : Precedes(u[i], AbortedTextLeft[j])
    BY <1>5, <1>7, <1>9
  <2> QED
    BY <1>5, <1>9, <2>1, Joined
<1>11. StopTextLeft = u \o AbortedTextLeft
  BY <1>8 DEF StopTextLeft, b
<1>12. Numbers(b, "error") = {} /\ Numbers(AbortedTextLeft, "error") = {} /\ Numbers(u, "aborted") = {}
  BY <1>5, <1>6, <1>9, NoNumbers
<1> QED
  BY <1>4, <1>5, <1>9, <1>10, <1>11, <1>12

\* A text that begins when nothing of it, or after it, is there.
LEMMA Begins ==
  ASSUME NEW d \in Seq(Token), NEW w \in Seq(Letter), InOrder(w),
         \A k \in DOMAIN d, i \in DOMAIN w : d[k].t \in HostTexts => d[k].t = "error" /\ w[i].t = "aborted"
  PROVE  Follows(d, w)
<1>1. \A k \in DOMAIN d, i \in DOMAIN w : d[k].t \in HostTexts => Precedes(d[k], w[i])
  BY Stages DEF Precedes
<1>2. \A i \in DOMAIN w : w[i].t \in HostTexts
  BY LetterOfHost
<1>3. \A i \in DOMAIN w : \A k \in DOMAIN d : d[k].t # w[i].t
  BY <1>2
<1> QED
  BY <1>1, <1>3 DEF Follows, AtEnd

LEMMA NothingFollows == ASSUME NEW d PROVE Follows(d, << >>)
  BY DEF Follows, InOrder

(***************************************************************************)
(* The next character of a text arrives, or does not.                      *)
(***************************************************************************)
LEMMA Skipped ==
  ASSUME NEW d \in Seq(Token), NEW w \in Seq(Letter), w # << >>, Follows(d, w)
  PROVE  /\ Tail(w) \in Seq(Letter) /\ Follows(d, Tail(w))
         /\ \A t : Numbers(w, t) = Numbers(Tail(w), t) \cup (IF w[1].t = t THEN {w[1].n} ELSE {})
         /\ \A t : Has(Tail(w), t) => Has(w, t)
         /\ \A k \in DOMAIN Tail(w) : w[1].t \in HostTexts /\ Tail(w)[k].t \in HostTexts => Precedes(w[1], Tail(w)[k])
         /\ \A k \in DOMAIN Tail(w) : AtEnd(d, Tail(w)[k].t)
         /\ w[1] \in Letter /\ 1 \in DOMAIN w
<1>1. PICK n \in Nat : Len(w) = n + 1 /\ w[1] \in Letter
  OBVIOUS
<1>2. PICK v : v = Tail(w)
  OBVIOUS
<1>3. /\ v \in Seq(Letter) /\ DOMAIN w = 1 .. n + 1 /\ DOMAIN v = 1 .. n
      /\ \A k \in 1 .. n : v[k] = w[k + 1] /\ k + 1 \in 1 .. n + 1 /\ 1 < k + 1
      /\ 1 \in 1 .. n + 1
      /\ \A k \in 1 .. n + 1 : k = 1 \/ \E j \in 1 .. n : k = j + 1
  <2>1. \A k \in 2 .. n + 1 : k - 1 \in 1 .. n /\ k = (k - 1) + 1
    OBVIOUS
  <2>2. \A k \in 1 .. n + 1 : k = 1 \/ \E j \in 1 .. n : k = j + 1
    BY <2>1
  <2>3. /\ v \in Seq(Letter) /\ DOMAIN w = 1 .. n + 1 /\ DOMAIN v = 1 .. n
        /\ \A k \in 1 .. n : v[k] = w[k + 1] /\ k + 1 \in 1 .. n + 1 /\ 1 < k + 1
        /\ 1 \in 1 .. n + 1
    BY <1>1, <1>2
  <2> QED
    BY <2>2, <2>3
<1>4. InOrder(v)
  <2> SUFFICES ASSUME NEW j \in 1 .. n, NEW k \in 1 .. n, j < k, v[j].t \in HostTexts, v[k].t \in HostTexts
               PROVE  Precedes(v[j], v[k])
    BY <1>3 DEF InOrder
  <2>1. /\ v[j] = w[j + 1] /\ v[k] = w[k + 1]
        /\ j + 1 \in DOMAIN w /\ k + 1 \in DOMAIN w /\ j + 1 < k + 1
    BY <1>3
  <2>2. InOrder(w)
    BY DEF Follows
  <2> QED
    BY <2>1, <2>2 DEF InOrder
<1>5. Follows(d, v)
  BY <1>3, <1>4 DEF Follows
<1>6. \A t : Has(v, t) => Has(w, t)
  BY <1>3 DEF Has
<1>7. ASSUME NEW t PROVE Numbers(w, t) = Numbers(v, t) \cup (IF w[1].t = t THEN {w[1].n} ELSE {})
  <2>1. \A k \in DOMAIN w : w[k].t = t => k = 1 \/ w[k].n \in Numbers(v, t)
    <3> SUFFICES ASSUME NEW k \in DOMAIN w, w[k].t = t, k # 1 PROVE w[k].n \in Numbers(v, t)
      OBVIOUS
    <3>1. PICK j \in 1 .. n : k = j + 1
      BY <1>3
    <3>2. j \in DOMAIN v /\ v[j].t = t /\ w[k].n = v[j].n
      BY <1>3, <3>1
    <3> QED
      BY <3>2, NumbersOf
  <2>2. \A k \in DOMAIN v : v[k].t = t => v[k].n \in Numbers(w, t)
    BY <1>3, NumbersOf
  <2>3. w[1].t = t => w[1].n \in Numbers(w, t)
    BY <1>3, NumbersOf
  <2> QED
    BY <2>1, <2>2, <2>3, NumbersOf
<1>8. \A k \in DOMAIN v : w[1].t \in HostTexts /\ v[k].t \in HostTexts => Precedes(w[1], v[k])
  <2>1. InOrder(w)
    BY DEF Follows
  <2> QED
    BY <1>3, <2>1 DEF InOrder
<1>9. \A k \in DOMAIN v : AtEnd(d, v[k].t)
  BY <1>3 DEF Follows
<1> QED
  BY <1>1, <1>2, <1>3, <1>5, <1>6, <1>7, <1>8, <1>9

LEMMA WrapKeepsOrder ==
  ASSUME NEW d \in Seq(Token), NEW e \in Token, NEW w \in Seq(Letter), e.t = "wrap", Shaped(d), Follows(d, w)
  PROVE  Shaped(Append(d, e)) /\ Follows(Append(d, e), w)
<1>1. PICK n \in Nat : n = Len(d)
  BY Longer
<1>2. PICK new : new = Append(d, e)
  OBVIOUS
<1>3. /\ DOMAIN d = 1 .. n /\ DOMAIN new = 1 .. n + 1 /\ Len(new) = n + 1
      /\ \A k \in 1 .. n : new[k] = d[k]
      /\ new[n + 1] = e
  BY <1>1, <1>2, Longer
<1>4. "wrap" \notin HostTexts /\ "wrap" \in Winding
  BY DEF HostTexts, Winding
<1>5. Shaped(Append(d, e))
  BY <1>4, ShapedLonger
<1>6. \A k \in DOMAIN new, i \in DOMAIN w : new[k].t \in HostTexts => Precedes(new[k], w[i])
  BY <1>3, <1>4 DEF Follows
<1>7. ASSUME NEW i \in DOMAIN w PROVE AtEnd(new, w[i].t)
  <2>1. w[i].t \in HostTexts
    BY LetterOfHost
  <2>2. AtEnd(d, w[i].t)
    BY DEF Follows
  <2> QED
    BY <1>1, <1>3, <1>4, <2>1, <2>2 DEF AtEnd
<1> QED
  BY <1>2, <1>5, <1>6, <1>7 DEF Follows

LEMMA Arrives ==
  ASSUME NEW d \in Seq(Token), NEW e \in Token, NEW w \in Seq(Letter), w # << >>,
         e.t = w[1].t, e.n = w[1].n, Shaped(d), Follows(d, w)
  PROVE  Shaped(Append(d, e)) /\ Follows(Append(d, e), Tail(w))
<1>1. PICK n \in Nat : n = Len(d)
  BY Longer
<1>2. PICK new : new = Append(d, e)
  OBVIOUS
<1>3. /\ DOMAIN d = 1 .. n /\ DOMAIN new = 1 .. n + 1 /\ Len(new) = n + 1
      /\ \A k \in 1 .. n : new[k] = d[k]
      /\ new[n + 1] = e
  BY <1>1, <1>2, Longer
<1>4. PICK v : v = Tail(w)
  OBVIOUS
<1>5. /\ v \in Seq(Letter) /\ Follows(d, v) /\ w[1] \in Letter /\ 1 \in DOMAIN w
      /\ \A k \in DOMAIN v : w[1].t \in HostTexts /\ v[k].t \in HostTexts => Precedes(w[1], v[k])
      /\ \A k \in DOMAIN v : AtEnd(d, v[k].t)
  BY <1>4, Skipped
<1>6. e.t \in HostTexts /\ \A k \in DOMAIN v : v[k].t \in HostTexts
  BY <1>5, LetterOfHost
<1>7. ASSUME NEW k \in DOMAIN d, d[k].t \in HostTexts PROVE Precedes(d[k], e)
  BY <1>5, <1>7 DEF Follows, Precedes
<1>8. ASSUME NEW k \in DOMAIN v PROVE Precedes(e, v[k])
  BY <1>5, <1>6 DEF Precedes
<1>9. Shaped(Append(d, e))
  <2>1. AtEnd(d, e.t)
    BY <1>5 DEF Follows
  <2>2. Has(d, "aborted") => e.t = "aborted"
    BY <1>6, <1>7, Stages DEF Has, HostTexts, Precedes
  <2>3. e.t # "running" /\ "aborted" \in Winding
    BY <1>6 DEF HostTexts, Winding
  <2> QED
    BY <1>7, <2>1, <2>2, <2>3, ShapedLonger
<1>10. ASSUME NEW i \in DOMAIN v PROVE AtEnd(new, v[i].t)
  <2> SUFFICES ASSUME NEW j \in 1 .. n + 1, new[j].t = v[i].t, NEW k \in j .. n + 1
               PROVE  new[k].t \in {v[i].t, "wrap"}
    BY <1>3 DEF AtEnd
  <2>1. CASE j = n + 1
    BY <2>1
  <2>2. CASE j \in 1 .. n /\ k \in 1 .. n
    BY <1>1, <1>3, <1>5, <2>2 DEF AtEnd
  <2>3. CASE j \in 1 .. n /\ k = n + 1
    <3>1. d[j].t = v[i].t /\ d[j].t \in HostTexts
      BY <1>3, <1>6, <2>3
    <3>2. Precedes(d[j], e) /\ Precedes(e, v[i])
      BY <1>3, <1>7, <1>8, <2>3, <3>1
    <3>3. e.t = v[i].t
      BY <1>6, <3>1, <3>2, Stages DEF Precedes, HostTexts
    <3> QED
      BY <1>3, <2>3, <3>3
  <2> QED
    BY <2>1, <2>2, <2>3
<1>11. \A k \in DOMAIN new, i \in DOMAIN v : new[k].t \in HostTexts => Precedes(new[k], v[i])
  BY <1>3, <1>5, <1>8 DEF Follows
<1> QED
  BY <1>2, <1>4, <1>5, <1>9, <1>10, <1>11 DEF Follows

(***************************************************************************)
(* What WriteMessage writes for a character.                               *)
(***************************************************************************)
LEMMA Messaged ==
  ASSUME TypeInv, Story, pc # "ended", writing = << >>, NEW ch \in Chars
  PROVE  /\ Written(ch) \in Seq(Token) /\ ColumnAfter(ch) \in Nat
         /\ Fits(Written(ch)) /\ Shaped(Written(ch)) /\ LastLine(Written(ch), ColumnAfter(ch))
         /\ \A t : Has(Written(ch), t) => Has(debug, t) \/ t = phase \/ t = "wrap"
         /\ \A t \in HostTexts : Numbers(Written(ch), t) = Numbers(debug, t)
<1> DEFINE wrapped == IF Wraps(ch) THEN Append(debug, Wrap) ELSE debug
           at == IF Wraps(ch) THEN 0 ELSE column
<1>1. /\ DebugWidth \in Nat /\ column \in Nat /\ debug \in Seq(Token) /\ phase \in Phases
      /\ LastLine(debug, column) /\ Fits(debug) /\ Shaped(debug) /\ Follows(debug, writing)
  BY ProcessAssumption DEF TypeInv, Story
<1>2. Wrap \in Token /\ Wrap.t = "wrap" /\ Wrap.newline /\ ~Wrap.unwrapped
  BY DEF Wrap, Token
<1>3. /\ Put(ch) \in Token /\ Put(ch).t = phase /\ (Put(ch).newline <=> ch = NL) /\ ~Put(ch).unwrapped
      /\ phase \notin HostTexts /\ phase # "wrap" /\ "wrap" \notin HostTexts
  BY <1>1 DEF Put, Token, Phases, HostTexts
<1>4. Written(ch) = Append(wrapped, Put(ch))
  BY DEF Written
<1>5. /\ wrapped \in Seq(Token) /\ Shaped(wrapped) /\ at \in Nat
      /\ \A t : Has(wrapped, t) <=> Has(debug, t) \/ (t = "wrap" /\ Wraps(ch))
      /\ \A t \in HostTexts : Numbers(wrapped, t) = Numbers(debug, t)
  <2>1. CASE Wraps(ch)
    <3>1. wrapped = Append(debug, Wrap) /\ at = 0 /\ << >> \in Seq(Letter) /\ Follows(debug, << >>)
      BY <1>1, <2>1
    <3>2. \A t : Numbers(wrapped, t) = Numbers(debug, t) \cup (IF "wrap" = t THEN {Wrap.n} ELSE {})
      BY <1>1, <1>2, <3>1, Grows
    <3>3. wrapped \in Seq(Token) /\ Shaped(wrapped) /\ \A t : Has(wrapped, t) <=> Has(debug, t) \/ "wrap" = t
      BY <1>1, <1>2, <3>1, Grows, WrapKeepsOrder
    <3> HIDE DEF wrapped, at
    <3> QED
      BY <1>3, <2>1, <3>1, <3>2, <3>3
  <2>2. CASE ~Wraps(ch)
    BY <1>1, <2>2
  <2> QED
    BY <2>1, <2>2
<1>6. Fits(wrapped) /\ LastLine(wrapped, at)
  <2>1. CASE Wraps(ch)
    <3>1. column >= DebugWidth
      BY <2>1 DEF Wraps
    <3> QED
      BY <1>1, <1>2, <2>1, <3>1, FitsLonger
  <2>2. CASE ~Wraps(ch)
    BY <1>1, <2>2
  <2> QED
    BY <2>1, <2>2
<1>7. ColumnAfter(ch) = IF Put(ch).newline THEN 0 ELSE at + 1
  BY <1>1, <1>3 DEF ColumnAfter, Put
<1>8. DebugWidth > 0 => (Put(ch).unwrapped <=> ~Put(ch).newline /\ at >= DebugWidth)
  BY <1>1, <1>3 DEF Wraps
<1> HIDE DEF wrapped, at
<1>9. Fits(Append(wrapped, Put(ch))) /\ LastLine(Append(wrapped, Put(ch)), ColumnAfter(ch)) /\ ColumnAfter(ch) \in Nat
  BY <1>3, <1>5, <1>6, <1>7, <1>8, FitsLonger
<1>10. /\ Append(wrapped, Put(ch)) \in Seq(Token)
       /\ \A t : Has(Append(wrapped, Put(ch)), t) <=> Has(wrapped, t) \/ t = phase
       /\ \A t \in HostTexts : Numbers(Append(wrapped, Put(ch)), t) = Numbers(wrapped, t)
  <2>1. \A t : Numbers(Append(wrapped, Put(ch)), t) = Numbers(wrapped, t) \cup (IF phase = t THEN {Put(ch).n} ELSE {})
    BY <1>3, <1>5, Grows
  <2>2. /\ Append(wrapped, Put(ch)) \in Seq(Token)
        /\ \A t : Has(Append(wrapped, Put(ch)), t) <=> Has(wrapped, t) \/ phase = t
    BY <1>3, <1>5, Grows
  <2> QED
    BY <1>3, <2>1, <2>2
<1>11. Shaped(Append(wrapped, Put(ch)))
  <2>1. Has(wrapped, "aborted") => phase \in Winding
    BY <1>1, <1>5 DEF Story, Phases, Winding
  <2>2. phase = "running" => ~Has(wrapped, "statistics") /\ ~Has(wrapped, "constructions")
    BY <1>5 DEF Story
  <2> QED
    BY <1>3, <1>5, <2>1, <2>2, ShapedLonger
<1> QED
  BY <1>4, <1>5, <1>9, <1>10, <1>11
-----------------------------------------------------------------------------
(***************************************************************************)
(* abort, called n times by a host method that a program at its logic, or  *)
(* at its report, has called.                                              *)
(***************************************************************************)
LEMMA AbortKeeps ==
  ASSUME IInv, pc \in {"logic", "report"}, writing = << >>,
         NEW why \in Causes \ {"debug", "quota"}, NEW n \in Nat, Abort(why, n),
         OutP!TypeInv', aborts' <= 2, n = 1 /\ pc = "logic" => aborts' <= 1, n > 1 => aborts' >= 2,
         entries' = entries, cycles' \in 0 .. CycleLimit
  PROVE  IInv'
<1> USE DEF IInv
<1>1. /\ debug \in Seq(Token) /\ s5 \in Nat /\ aborts' \in Nat
      /\ fatal \in Causes \cup {"none"} /\ fatal # "none" => fatal \notin {"quota", "debug"}
      /\ \A t : Numbers(<< >>, t) = {}
  <2>1. debug \in Seq(Token) /\ s5 \in Nat /\ fatal \in Causes \cup {"none"}
    BY DEF TypeInv
  <2>2. aborts' \in Nat
    BY DEF OutP!TypeInv
  <2>3. fatal # "none" => fatal \notin {"quota", "debug"}
    BY DEF Control
  <2> QED
    BY <2>1, <2>2, <2>3, NoNumbers
<1>2. CASE fatal # "none"
  <2>1. /\ pc' = "ended" /\ err' = fatal /\ UNCHANGED <<host, writing, stream>>
        /\ phase # "running"
    BY <1>2 DEF Abort, Ends, Diagnose, Control
  <2>2. TypeInv'
    BY <1>1, <1>2, <2>1 DEF TypeInv, host, stream
  <2>3. Control'
    BY <1>1, <1>2, <2>1 DEF Control, host, stream
  <2>4. Story'
    BY <2>1 DEF Story, host, stream
  <2>5. QuotaIsExact' /\ Reported'
    BY <1>2, <2>1 DEF QuotaIsExact, Reported, Story, host, stream
  <2> QED
    BY <2>2, <2>3, <2>4, <2>5
<1>3. CASE fatal = "none"
  <2>1. /\ fatal' = why /\ s5' = s5 + 1 /\ UNCHANGED <<s12, s18, phase, column, debug, lost>>
    BY <1>3 DEF Abort, Diagnose, stream
  <2>2. /\ \A k \in DOMAIN debug : debug[k].t \notin HostTexts
        /\ \A t \in HostTexts : ~Has(debug, t) /\ Numbers(debug, t) = {}
    <3>1. \A t \in HostTexts : ~Has(debug, t)
      BY <1>3 DEF Story
    <3> QED
      BY <3>1, NoNumbers DEF Has
  <2>3. QuotaIsExact'
    BY <1>3, <2>1 DEF QuotaIsExact
  <2>4. "error" \in HostTexts /\ "aborted" \in HostTexts
    BY DEF HostTexts
  <2>5. CASE CanRedirect
    <3>1. /\ pc = "logic" /\ phase = "running"
          /\ writing' = ErrorTextLeft
          /\ \/ n = 1 /\ pc' = "er7a" /\ err' = err
             \/ n > 1 /\ pc' = "ended" /\ err' = why
      BY <1>3, <2>5 DEF Abort, CanRedirect, Control, Ends
    <3>2. /\ writing' \in Seq(Letter) /\ Follows(debug, writing') /\ ~Has(writing', "aborted")
          /\ Numbers(writing', "error") = DOMAIN ErrorText
      BY <1>1, <2>2, <3>1, HostTextsLeft, Begins DEF Has
    <3>3. TypeInv'
      BY <1>1, <2>1, <3>1, <3>2 DEF TypeInv
    <3>4. Control'
      BY <1>1, <2>1, <3>1 DEF Control
    <3>5. Told(debug', writing', "error") = DOMAIN ErrorText
      BY <2>1, <2>2, <2>4, <3>2 DEF Told
    <3>6. Story'
      BY <2>1, <2>2, <2>4, <3>1, <3>2, <3>5 DEF Story, Causes
    <3>7. Reported'
      BY <1>1, <3>1 DEF Reported
    <3> QED
      BY <2>3, <3>3, <3>4, <3>6, <3>7
  <2>6. CASE ~CanRedirect
    <3>1. writing' = StopTextLeft /\ pc' = "ended" /\ err' = why
      BY <1>3, <2>6 DEF Abort, Ends
    <3>2. /\ writing' \in Seq(Letter) /\ Follows(debug, writing')
          /\ Numbers(writing', "error") = DOMAIN ErrorText
          /\ Numbers(writing', "aborted") = DOMAIN AbortedMessage
      BY <1>1, <2>2, <3>1, HostTextsLeft, Begins
    <3>3. TypeInv'
      BY <1>1, <2>1, <3>1, <3>2 DEF TypeInv
    <3>4. Control'
      BY <1>1, <2>1, <3>1 DEF Control
    <3>5. Told(debug', writing', "error") = DOMAIN ErrorText /\ Told(debug', writing', "aborted") = DOMAIN AbortedMessage
      BY <2>1, <2>2, <2>4, <3>2 DEF Told
    <3>6. Story'
      BY <2>1, <2>2, <2>4, <3>1, <3>2, <3>5 DEF Story, Causes
    <3>7. Reported'
      BY <3>5 DEF Reported
    <3> QED
      BY <2>3, <3>3, <3>4, <3>6, <3>7
  <2> QED
    BY <2>5, <2>6
<1> QED
  BY <1>2, <1>3

(***************************************************************************)
(* writeMessageText: a character of the host's own text, and the newline   *)
(* that may wrap the line before it.                                       *)
(***************************************************************************)
LEMMA TextKeeps == IInv /\ WriteMessageText => IInv'
<1> SUFFICES ASSUME IInv, WriteMessageText PROVE IInv'
  OBVIOUS
<1> USE DEF IInv
<1>1. PICK c : c = Head(writing)
  OBVIOUS
<1>2. /\ writing # << >> /\ writing \in Seq(Letter) /\ debug \in Seq(Token) /\ column \in Nat
      /\ c = writing[1] /\ c \in Letter /\ c.t \in HostTexts /\ c.n \in Nat /\ DebugWidth \in Nat
      /\ LastLine(debug, column) /\ Fits(debug) /\ Shaped(debug) /\ Follows(debug, writing)
  <2>1. writing # << >> /\ writing \in Seq(Letter) /\ DebugWidth \in Nat
    BY ProcessAssumption DEF WriteMessageText, TypeInv
  <2>2. c = writing[1] /\ c \in Letter
    BY <1>1, <2>1
  <2> QED
    BY <2>1, <2>2 DEF TypeInv, Story, Letter
<1>3. /\ UNCHANGED <<output, s5, s12, s18, phase, fatal, pc, cycles, err, entries>>
      /\ writing' = Tail(writing)
  BY DEF WriteMessageText
<1>4. PICK wrapped \in {Wraps(c.ch), Wraps(c.ch) /\ ~DebugFaults}, written \in {TRUE, ~DebugFaults} :
        LET after == IF wrapped THEN Append(debug, Wrap) ELSE debug
            unwrapped == Wraps(c.ch) /\ ~wrapped
        IN /\ lost' = (lost \/ unwrapped \/ ~written)
           /\ \/ /\ written
                 /\ debug' = Append(after, [t |-> c.t, n |-> c.n, newline |-> c.ch = NL, unwrapped |-> unwrapped])
                 /\ column' = IF c.ch = NL THEN 0 ELSE IF wrapped THEN 1 ELSE column + 1
              \/ /\ ~written
                 /\ debug' = after
                 /\ column' = IF wrapped THEN 0 ELSE column
  BY <1>1 DEF WriteMessageText
<1> DEFINE after == IF wrapped THEN Append(debug, Wrap) ELSE debug
           at == IF wrapped THEN 0 ELSE column
           new == [t |-> c.t, n |-> c.n, newline |-> c.ch = NL, unwrapped |-> Wraps(c.ch) /\ ~wrapped]
<1>5. Wraps(c.ch) <=> DebugWidth > 0 /\ c.ch # NL /\ column >= DebugWidth
  BY DEF Wraps
<1>6. wrapped \in BOOLEAN /\ written \in BOOLEAN /\ (wrapped => Wraps(c.ch))
  BY ProcessAssumption DEF Wraps
<1>7. /\ after \in Seq(Token) /\ at \in Nat /\ Shaped(after) /\ Follows(after, writing)
      /\ Fits(after) /\ LastLine(after, at)
      /\ \A t : t # "wrap" => (Has(after, t) <=> Has(debug, t)) /\ Numbers(after, t) = Numbers(debug, t)
  <2>1. Wrap \in Token /\ Wrap.t = "wrap" /\ Wrap.newline /\ ~Wrap.unwrapped
    BY DEF Wrap, Token
  <2>2. CASE wrapped
    <3>1. after = Append(debug, Wrap) /\ at = 0 /\ column >= DebugWidth
      BY <1>5, <1>6, <2>2
    <3>2. \A t : Numbers(after, t) = Numbers(debug, t) \cup (IF "wrap" = t THEN {Wrap.n} ELSE {})
      BY <1>2, <2>1, <3>1, Grows
    <3>3. /\ after \in Seq(Token) /\ Shaped(after) /\ Follows(after, writing)
          /\ \A t : Has(after, t) <=> Has(debug, t) \/ "wrap" = t
      BY <1>2, <2>1, <3>1, Grows, WrapKeepsOrder
    <3>4. Fits(after) /\ LastLine(after, 0)
      BY <1>2, <2>1, <3>1, FitsLonger
    <3> HIDE DEF after, at
    <3> QED
      BY <3>1, <3>2, <3>3, <3>4
  <2>3. CASE ~wrapped
    BY <1>2, <2>3
  <2> QED
    BY <1>6, <2>2, <2>3
<1>8. /\ lost' = (lost \/ (Wraps(c.ch) /\ ~wrapped) \/ ~written)
      /\ \/ written /\ debug' = Append(after, new) /\ column' = IF c.ch = NL THEN 0 ELSE at + 1
         \/ ~written /\ debug' = after /\ column' = at
  BY <1>2, <1>4
<1>9. /\ new \in Token /\ new.t = c.t /\ new.n = c.n /\ (new.newline <=> c.ch = NL)
      /\ (new.unwrapped <=> Wraps(c.ch) /\ ~wrapped)
  BY <1>2, <1>5, <1>6 DEF Token
<1>10. DebugWidth > 0 => (new.unwrapped <=> ~new.newline /\ at >= DebugWidth)
  BY <1>2, <1>5, <1>6, <1>9
<1>11. "wrap" \notin HostTexts /\ c.t # "wrap" /\ HostTexts \cap Phases = {}
  BY <1>2 DEF HostTexts, Phases
<1> HIDE DEF after, at, new
<1>12. /\ writing' \in Seq(Letter)
       /\ \A t : Numbers(writing, t) = Numbers(writing', t) \cup (IF c.t = t THEN {c.n} ELSE {})
       /\ \A t : Has(writing', t) => Has(writing, t)
  BY <1>2, <1>3, Skipped
<1>13. /\ debug' \in Seq(Token) /\ column' \in Nat /\ Fits(debug') /\ LastLine(debug', column')
       /\ Shaped(debug') /\ Follows(debug', writing')
       /\ \A t : t # "wrap" => (Has(debug', t) => Has(debug, t) \/ t = c.t)
       /\ ~lost' => ~lost /\ \A t \in HostTexts : Told(debug', writing', t) = Told(debug, writing, t)
  <2>1. CASE written
    <3>1. debug' = Append(after, new) /\ column' = IF new.newline THEN 0 ELSE at + 1
      BY <1>8, <1>9, <2>1
    <3>2. Fits(debug') /\ LastLine(debug', column') /\ column' \in Nat
      BY <1>2, <1>7, <1>9, <1>10, <1>11, <3>1, FitsLonger
    <3>3. Shaped(debug') /\ Follows(debug', writing')
      BY <1>2, <1>3, <1>7, <1>9, <3>1, Arrives
    <3>4. /\ debug' \in Seq(Token)
          /\ \A t : Has(debug', t) <=> Has(after, t) \/ c.t = t
          /\ \A t : Numbers(debug', t) = Numbers(after, t) \cup (IF c.t = t THEN {c.n} ELSE {})
      BY <1>7, <1>9, <3>1, Grows
    <3>5. \A t \in HostTexts : Told(debug', writing', t) = Told(debug, writing, t)
      <4> SUFFICES ASSUME NEW t \in HostTexts PROVE Told(debug', writing', t) = Told(debug, writing, t)
        OBVIOUS
      <4>1. Numbers(debug', t) = Numbers(debug, t) \cup (IF c.t = t THEN {c.n} ELSE {})
        BY <1>7, <1>11, <3>4
      <4>2. Numbers(writing, t) = Numbers(writing', t) \cup (IF c.t = t THEN {c.n} ELSE {})
        BY <1>12
      <4> QED
        BY <4>1, <4>2 DEF Told
    <3> QED
      BY <1>7, <1>8, <3>2, <3>3, <3>4, <3>5
  <2>2. CASE ~written
    <3>1. Follows(after, writing')
      BY <1>2, <1>3, <1>7, Skipped
    <3> QED
      BY <1>7, <1>8, <2>2, <3>1
  <2> QED
    BY <1>6, <2>1, <2>2
<1>14. Has(writing, c.t)
  <2>1. 1 \in DOMAIN writing
    BY <1>2, Skipped
  <2> QED
    BY <1>2, <2>1 DEF Has
<1>15. OutP!TypeInv' /\ aborts' = aborts
  BY <1>3 DEF TypeInv, output, OutP!TypeInv, OutP!Outputs
<1>16. lost' \in BOOLEAN /\ (lost => lost')
  BY <1>6, <1>8 DEF TypeInv
<1>17. TypeInv'
  BY <1>3, <1>12, <1>13, <1>15, <1>16 DEF TypeInv, output
<1>18. Control' /\ QuotaIsExact'
  BY <1>3, <1>15, <1>16 DEF Control, QuotaIsExact
<1>19. fatal # "none"
  BY <1>2 DEF Story
<1>20. Story'
  <2>1. "error" \in HostTexts /\ "aborted" \in HostTexts
    BY DEF HostTexts
  <2>2. Has(debug', "aborted") \/ Has(writing', "aborted") => pc = "ended" \/ phase # "running"
    BY <1>12, <1>13, <1>14 DEF Story
  <2>3. phase = "running" => ~Has(debug', "statistics") /\ ~Has(debug', "constructions")
    BY <1>2, <1>13 DEF Story, HostTexts
  <2> QED
    BY <1>3, <1>13, <1>19, <2>1, <2>2, <2>3 DEF Story
<1>21. Reported'
  BY <1>3, <1>13, <1>15 DEF Reported, HostTexts
<1> QED
  BY <1>17, <1>18, <1>20, <1>21

(***************************************************************************)
(* WriteMessage: the quota runs out once, and a stream that breaks ends    *)
(* the process.                                                            *)
(***************************************************************************)
LEMMA MessageKeeps ==
  ASSUME IInv, pc # "ended", writing = << >>, NEW ch \in Chars, WriteMessage(ch),
         entries' = entries, cycles' \in 0 .. CycleLimit
  PROVE  IInv'
<1> USE DEF IInv
<1>1. /\ debug \in Seq(Token) /\ s5 \in Nat /\ s12 \in Int /\ phase \in Phases
      /\ fatal \in Causes \cup {"none"} /\ fatal \notin {"quota", "debug"}
      /\ LastLine(debug, column) /\ Fits(debug) /\ Shaped(debug) /\ column \in Nat
      /\ \A d : Follows(d, << >>)
  BY NothingFollows DEF TypeInv, Control, Story
<1>2. UNCHANGED output /\ OutP!TypeInv' /\ aborts' = aborts
  <2>1. UNCHANGED output
    BY DEF WriteMessage
  <2> QED
    BY <2>1 DEF TypeInv, output, OutP!TypeInv, OutP!Outputs
<1>3. /\ Written(ch) \in Seq(Token) /\ ColumnAfter(ch) \in Nat
      /\ Fits(Written(ch)) /\ Shaped(Written(ch)) /\ LastLine(Written(ch), ColumnAfter(ch))
      /\ \A t : Has(Written(ch), t) => Has(debug, t) \/ t = phase \/ t = "wrap"
      /\ \A t \in HostTexts : Numbers(Written(ch), t) = Numbers(debug, t)
  BY <1>1, Messaged
<1>4. "wrap" \notin HostTexts /\ phase \notin HostTexts /\ "error" \in HostTexts /\ "aborted" \in HostTexts
  BY <1>1 DEF HostTexts, Phases
<1>5. \A t \in HostTexts : Told(Written(ch), writing, t) = Told(debug, writing, t)
  BY <1>3 DEF Told
<1>6. ASSUME UNCHANGED <<s5, s18, phase, fatal, writing, lost, pc, err>>, s12' \in Int, s12' < 0 <=> s12 < 0,
             debug' = Written(ch), column' = ColumnAfter(ch)
      PROVE  IInv'
  <2>1. TypeInv'
    BY <1>2, <1>3, <1>6 DEF TypeInv
  <2>2. Control' /\ QuotaIsExact'
    BY <1>2, <1>6 DEF Control, QuotaIsExact
  <2>3. Reported'
    BY <1>2, <1>4, <1>5, <1>6 DEF Reported
  <2>4. Story'
    BY <1>1, <1>3, <1>4, <1>5, <1>6 DEF Story, Phases
  <2> QED
    BY <2>1, <2>2, <2>3, <2>4
<1>7. CASE MessageIgnored
  <2>1. UNCHANGED <<host, writing, stream, pc, err>>
    BY <1>7 DEF MessageIgnored, RunsOn
  <2>2. TypeInv' /\ Control' /\ QuotaIsExact' /\ Reported' /\ Story'
    BY <1>2, <2>1 DEF TypeInv, Control, QuotaIsExact, Reported, Story, host, stream
  <2> QED
    BY <2>2
<1>8. CASE MessageWritten(ch)
  BY <1>1, <1>6, <1>8 DEF MessageWritten, RunsOn
<1>9. CASE ch = NL /\ LineCharged
  BY <1>1, <1>6, <1>9 DEF LineCharged, RunsOn, ColumnAfter
<1>10. CASE ch = NL /\ QuotaExhausted
  <2>1. /\ phase = "running" /\ fatal = "none" /\ s12' = s12 - 1 /\ s12 <= 0
        /\ s5' = s5 + 1 /\ fatal' = "quota" /\ pc' = "ended" /\ err' = "quota"
        /\ debug' = Written(ch) /\ column' = 0 /\ writing' = StopTextLeft
        /\ UNCHANGED <<s18, phase, lost>>
    BY <1>10 DEF QuotaExhausted, Charged, Ends
  <2>2. ColumnAfter(ch) = 0
    BY <1>10 DEF ColumnAfter
  <2>3. /\ \A t \in HostTexts : ~Has(debug', t) /\ Numbers(debug', t) = {}
        /\ ~Has(debug', "statistics") /\ ~Has(debug', "constructions")
    <3>1. /\ \A t \in HostTexts : ~Has(debug', t)
          /\ ~Has(debug', "statistics") /\ ~Has(debug', "constructions")
      BY <1>3, <1>4, <2>1 DEF Story
    <3> QED
      BY <3>1, NoNumbers DEF Has
  <2>4. /\ writing' \in Seq(Letter) /\ Follows(debug', writing')
        /\ Numbers(writing', "error") = DOMAIN ErrorText
        /\ Numbers(writing', "aborted") = DOMAIN AbortedMessage
    BY <1>3, <2>1, <2>3, HostTextsLeft, Begins DEF Has
  <2>5. Told(debug', writing', "error") = DOMAIN ErrorText /\ Told(debug', writing', "aborted") = DOMAIN AbortedMessage
    BY <1>4, <2>3, <2>4 DEF Told
  <2>6. TypeInv'
    BY <1>1, <1>2, <1>3, <2>1, <2>4 DEF TypeInv, Causes
  <2>7. Control' /\ QuotaIsExact' /\ Reported'
    BY <1>1, <1>2, <2>1, <2>5 DEF Control, QuotaIsExact, Reported
  <2>8. Story'
    BY <1>3, <1>4, <2>1, <2>2, <2>3, <2>4, <2>5 DEF Story
  <2> QED
    BY <2>6, <2>7, <2>8
<1>11. CASE DebugFails(ch)
  <2>1. /\ fatal' = DebugCause /\ pc' = "ended" /\ err' = fatal' /\ lost' = TRUE
        /\ UNCHANGED <<s5, s12, s18, phase, writing>>
        /\ \/ UNCHANGED <<debug, column>>
           \/ debug' = Append(debug, Wrap) /\ column' = 0 /\ Wraps(ch)
    BY <1>11 DEF DebugFails, Ends
  <2>2. fatal' \in Causes /\ (fatal' = "quota" <=> fatal = "quota")
    BY <1>1, <2>1 DEF DebugCause, Causes
  <2>3. Wrap \in Token /\ Wrap.t = "wrap" /\ Wrap.newline /\ ~Wrap.unwrapped
    BY DEF Wrap, Token
  <2>4. /\ debug' \in Seq(Token) /\ Fits(debug') /\ Shaped(debug') /\ LastLine(debug', column') /\ column' \in Nat
        /\ \A t : t # "wrap" => (Has(debug', t) <=> Has(debug, t))
    <3>1. CASE UNCHANGED <<debug, column>>
      BY <1>1, <3>1 DEF Story
    <3>2. CASE debug' = Append(debug, Wrap) /\ column' = 0 /\ Wraps(ch)
      <4>1. debug' \in Seq(Token) /\ \A t : Has(debug', t) <=> Has(debug, t) \/ t = "wrap"
        BY <1>1, <2>3, <3>2, Grows
      <4>2. column >= DebugWidth
        BY <3>2 DEF Wraps
      <4>3. Fits(debug') /\ LastLine(debug', column')
        BY <1>1, <2>3, <3>2, <4>2, FitsLonger
      <4>4. Shaped(debug')
        <5>1. << >> \in Seq(Letter)
          OBVIOUS
        <5> QED
          BY <1>1, <2>3, <3>2, <5>1, WrapKeepsOrder
      <4> QED
        BY <3>2, <4>1, <4>3, <4>4
    <3> QED
      BY <2>1, <3>1, <3>2
  <2>5. TypeInv'
    BY <1>1, <1>2, <2>1, <2>2, <2>4 DEF TypeInv
  <2>6. Control' /\ QuotaIsExact' /\ Reported'
    BY <1>2, <2>1, <2>2 DEF Control, QuotaIsExact, Reported
  <2>7. Story'
    BY <1>1, <2>1, <2>2, <2>4 DEF Story, Causes
  <2> QED
    BY <2>5, <2>6, <2>7
<1> QED
  BY <1>7, <1>8, <1>9, <1>10, <1>11 DEF WriteMessage

(***************************************************************************)
(* A character of the output text: what fails is counted, and the first    *)
(* failure is diagnosed.                                                   *)
(***************************************************************************)
LEMMA WriteCharKeepsAll ==
  ASSUME IInv, WriteChar, writing = << >>, entries' = entries, cycles' \in 0 .. CycleLimit
  PROVE  IInv'
<1> USE DEF IInv
<1> DEFINE redirect == CanRedirect /\ fatal = "none"
<1>1. PICK ch \in Chars, fails \in SUBSET Out!Writes :
        /\ Out!WriteChar(ch, fails, redirect)
        /\ \/ Out!Failed(fails, redirect) = {} /\ RunsOn /\ UNCHANGED <<host, writing, stream>>
           \/ /\ Out!Failed(fails, redirect) # {}
              /\ Abort(Culprit(Out!Failed(fails, redirect)), Cardinality(Out!Failed(fails, redirect)))
  BY DEF WriteChar
<1>2. pc \in {"logic", "report"} /\ redirect \in BOOLEAN
  BY DEF WriteChar, CanRedirect
<1> HIDE DEF redirect
<1>3. OutP!WriteChar(ch, fails, redirect) /\ ch \in OutP!Chars /\ OutP!OutputAssumption /\ OutP!TypeInv
  BY <1>1, SameWriteChar, SameChars, OutputsAreFew DEF TypeInv
<1>4. /\ OutP!TypeInv'
      /\ aborts' = aborts + OutP!Cardinality(OutP!Failed(fails, redirect))
  BY <1>2, <1>3, OutP!WriteCharTypes
<1>5. PICK n : n = Cardinality(Out!Failed(fails, redirect))
  OBVIOUS
<1>6. n = OutP!Cardinality(OutP!Failed(fails, redirect))
  BY <1>5, SameWrites, SameCardinality
<1>7. n \in 0 .. 2 /\ (~redirect => n \in 0 .. 1) /\ (n = 0 <=> fails = {})
  <2>1. fails \in SUBSET OutP!Writes
    BY <1>3 DEF OutP!WriteChar
  <2> QED
    BY <1>2, <1>3, <1>6, <2>1, OutP!FewFail
<1>8. aborts' = aborts + n /\ aborts \in Nat
  BY <1>3, <1>4, <1>6 DEF OutP!TypeInv
<1>9. n = 0 <=> Out!Failed(fails, redirect) = {}
  <2>1. Out!Failed({}, redirect) = {}
    BY DEF Out!Failed
  <2> QED
    BY <1>5, <1>7, <2>1, FS_EmptySet
<1>10. pc = "report" => ~redirect
  BY DEF redirect, CanRedirect, Control
<1>11. CASE n = 0
  <2>1. UNCHANGED <<host, writing, stream, pc, err>> /\ aborts' = aborts
    <3>1. RunsOn /\ UNCHANGED <<host, writing, stream>>
      BY <1>1, <1>9, <1>11
    <3> QED
      BY <1>8, <1>11, <3>1 DEF RunsOn
  <2> QED
    BY <1>4, <2>1 DEF TypeInv, Control, QuotaIsExact, Reported, Story, host, stream
<1>12. CASE n # 0
  <2>1. Abort(Culprit(Out!Failed(fails, redirect)), n)
    BY <1>1, <1>5, <1>9, <1>12
  <2>2. Culprit(Out!Failed(fails, redirect)) \in Causes \ {"debug", "quota"} /\ n \in Nat
    <3>1. Culprit(Out!Failed(fails, redirect)) \in {"output", "listing"}
      BY DEF Culprit
    <3> QED
      BY <1>7, <3>1 DEF Causes
  <2>3. aborts' <= 2 /\ (n = 1 /\ pc = "logic" => aborts' <= 1) /\ (n > 1 => aborts' >= 2)
    BY <1>2, <1>7, <1>8, <1>10 DEF Control
  <2> QED
    BY <1>2, <1>4, <2>1, <2>2, <2>3, AbortKeeps
<1> QED
  BY <1>11, <1>12

LEMMA ReadKeeps ==
  ASSUME IInv, ReadReturns \/ ReadAborts, writing = << >>, entries' = entries, cycles' \in 0 .. CycleLimit
  PROVE  IInv'
<1> USE DEF IInv
<1>1. UNCHANGED output /\ pc = "logic"
  BY DEF ReadReturns, ReadAborts
<1>2. OutP!TypeInv' /\ aborts' = aborts
  BY <1>1 DEF TypeInv, output, OutP!TypeInv, OutP!Outputs
<1>3. CASE ReadReturns
  <2>1. UNCHANGED <<host, writing, stream, pc, err>>
    BY <1>3 DEF ReadReturns, RunsOn
  <2> QED
    BY <1>2, <2>1 DEF TypeInv, Control, QuotaIsExact, Reported, Story, host, stream
<1>4. CASE ReadAborts
  <2>1. PICK why \in {"illegal", "rewind", "read"} : Abort(why, 1)
    BY <1>4 DEF ReadAborts
  <2>2. why \in Causes \ {"debug", "quota"}
    BY DEF Causes
  <2>3. aborts' <= 2 /\ aborts' <= 1
    BY <1>1, <1>2 DEF Control
  <2> QED
    BY <1>1, <1>2, <2>1, <2>2, <2>3, AbortKeeps
<1> QED
  BY <1>3, <1>4

(***************************************************************************)
(* finalise: a process that a condition has ended says so.                 *)
(***************************************************************************)
LEMMA FinaliseKeeps ==
  ASSUME IInv, Finalise, writing = << >>, entries' = entries, cycles' \in 0 .. CycleLimit
  PROVE  IInv'
<1> USE DEF IInv
<1>1. /\ UNCHANGED <<output, s5, s12, s18, fatal, column, err, debug, lost>> /\ pc \in {"logic", "er7a"} /\ pc' = "report"
      /\ phase = "running" /\ phase' = "statistics"
      /\ writing' = IF fatal = "none" THEN << >> ELSE AbortedTextLeft
  BY DEF Finalise, Control, stream
<1>2. OutP!TypeInv' /\ aborts' = aborts
  BY <1>1 DEF TypeInv, output, OutP!TypeInv, OutP!Outputs
<1>3. Control'
  BY <1>1, <1>2 DEF Control
<1>4. QuotaIsExact' /\ Reported'
  BY <1>1 DEF QuotaIsExact, Reported
<1>5. CASE fatal = "none"
  <2>1. TypeInv'
    BY <1>1, <1>2, <1>5 DEF TypeInv, Phases
  <2>2. Story'
    BY <1>1, <1>5, NothingFollows DEF Story
  <2> QED
    BY <1>3, <1>4, <2>1, <2>2
<1>6. CASE fatal # "none"
  <2>1. writing' = AbortedTextLeft
    BY <1>1, <1>6
  <2>2. Numbers(<< >>, "error") = {} /\ Numbers(writing', "error") = {}
    <3>1. \A k \in DOMAIN writing' : writing'[k].t # "error"
      BY <2>1, HostTextsLeft
    <3> QED
      BY <3>1, NoNumbers
  <2>3. /\ writing' \in Seq(Letter) /\ Follows(debug, writing')
        /\ Numbers(writing', "aborted") = DOMAIN AbortedMessage
    <3>1. \A k \in DOMAIN debug : debug[k].t # "aborted"
      BY <1>1 DEF Story, Has
    <3>2. AbortedTextLeft \in Seq(Letter) /\ InOrder(AbortedTextLeft) /\ debug \in Seq(Token)
      BY HostTextsLeft DEF TypeInv
    <3>3. \A k \in DOMAIN debug, i \in DOMAIN AbortedTextLeft :
            debug[k].t \in HostTexts => Precedes(debug[k], AbortedTextLeft[i])
      BY <3>1, HostTextsLeft, Stages DEF HostTexts, Precedes
    <3>4. \A i \in DOMAIN AbortedTextLeft : AtEnd(debug, AbortedTextLeft[i].t)
      BY <3>1, HostTextsLeft DEF AtEnd
    <3> QED
      BY <2>1, <3>2, <3>3, <3>4, HostTextsLeft DEF Follows
  <2>4. Numbers(debug, "aborted") = {}
    <3>1. ~Has(debug, "aborted")
      BY <1>1 DEF Story
    <3> QED
      BY <3>1, NoNumbers DEF Has
  <2>5. /\ ~lost => Told(debug, writing', "error") = DOMAIN ErrorText
        /\ Told(debug, writing', "aborted") = DOMAIN AbortedMessage
    <3>1. ~lost => Told(debug, << >>, "error") = DOMAIN ErrorText
      BY <1>6 DEF Story
    <3> QED
      BY <2>2, <2>3, <2>4, <3>1 DEF Told
  <2>6. TypeInv'
    BY <1>1, <1>2, <2>3 DEF TypeInv, Phases
  <2>7. Story'
    BY <1>1, <1>6, <2>3, <2>5 DEF Story
  <2> QED
    BY <1>3, <1>4, <2>6, <2>7
<1> QED
  BY <1>5, <1>6

(***************************************************************************)
(* The steps that write nothing.                                           *)
(***************************************************************************)
LEMMA QuietKeeps ==
  ASSUME IInv, CountError \/ NoStorage \/ Assign \/ Constructions \/ Quit \/ Fault,
         writing = << >>, entries' = entries, cycles' \in 0 .. CycleLimit
  PROVE  IInv'
<1> USE DEF IInv
<1>1. OutP!TypeInv' /\ aborts' = aborts
  <2>1. CASE Out!Assign
    BY <2>1, SameAssign, OutputsAreFew, OutP!AssignKeeps DEF TypeInv
  <2>2. CASE UNCHANGED output
    BY <2>2 DEF TypeInv, output, OutP!TypeInv, OutP!Outputs
  <2> QED
    BY <2>1, <2>2 DEF CountError, NoStorage, Assign, Constructions, Quit, Fault
<1>2. UNCHANGED <<fatal, debug, lost, column, writing>>
  BY DEF CountError, NoStorage, Assign, Constructions, Quit, Fault, host, stream
<1>3. CASE CountError \/ NoStorage \/ Assign
  <2>1. /\ pc = "logic" /\ pc' \in {"logic", "er7a", "ended"} /\ err' \in {err, "nostorage"}
        /\ UNCHANGED phase /\ s5' \in {s5, s5 + 1, 0} /\ s12' \in {s12} \cup S12Values
        /\ s18' \in {s18} \cup S18Values
    BY <1>3 DEF CountError, NoStorage, Assign, RunsOn, Ends
  <2>2. TypeInv'
    <3>1. s5' \in Nat /\ s12' \in Int
      BY <2>1, ProcessAssumption DEF TypeInv
    <3>2. s18' \subseteq {"statistics", "constructions"}
      BY <2>1, ProcessAssumption DEF TypeInv
    <3> QED
      BY <1>1, <1>2, <2>1, <3>1, <3>2 DEF TypeInv
  <2>3. Control' /\ Story'
    BY <1>1, <1>2, <2>1 DEF Control, Story
  <2>4. QuotaIsExact'
    <3>1. fatal = "none" /\ s12 \in Int /\ ~(s12 < 0)
      BY <2>1 DEF QuotaIsExact, Control, TypeInv
    <3>2. \A x \in S12Values : ~(x < 0)
      BY ProcessAssumption
    <3> QED
      BY <1>2, <2>1, <3>1, <3>2 DEF QuotaIsExact
  <2>5. Reported'
    BY <1>2, <2>1 DEF Reported, Control
  <2> QED
    BY <2>2, <2>3, <2>4, <2>5
<1>4. CASE Constructions
  <2>1. pc = "report" /\ phase' = "constructions" /\ UNCHANGED <<s5, s12, s18, pc, err>>
    BY <1>4 DEF Constructions
  <2> QED
    BY <1>1, <1>2, <2>1 DEF TypeInv, Control, Story, QuotaIsExact, Reported, Phases
<1>5. CASE Quit
  <2>1. pc = "report" /\ pc' = "ended" /\ err' = OrderlyEnd /\ UNCHANGED <<s5, s12, s18, phase>>
    BY <1>5 DEF Quit, Ends, host
  <2>2. TypeInv'
    BY <1>1, <1>2, <2>1 DEF TypeInv, OrderlyEnd
  <2>3. Control' /\ Story' /\ QuotaIsExact'
    BY <1>1, <1>2, <2>1 DEF Control, Story, QuotaIsExact
  <2>4. Reported'
    BY <1>2, <2>1 DEF Reported, Control, Story
  <2> QED
    BY <2>2, <2>3, <2>4
<1>6. CASE Fault
  <2>1. pc = "logic" /\ pc' = "ended" /\ err' = "fault" /\ UNCHANGED <<s5, s12, s18, phase>>
    BY <1>6 DEF Fault, Ends, host
  <2> QED
    BY <1>1, <1>2, <2>1 DEF TypeInv, Control, Story, QuotaIsExact, Reported
<1> QED
  BY <1>3, <1>4, <1>5, <1>6

LEMMA StartsInOrder == Init => IInv
<1> SUFFICES ASSUME Init PROVE IInv
  OBVIOUS
<1>1. OutP!TypeInv /\ aborts = 0
  BY SameInit, OutputsAreFew, OutP!OutputStarts DEF Init, OutP!OutInv, OutP!Init
<1>2. TypeInv
  <2>1. << >> \in Seq(Token) /\ << >> \in Seq(Letter) /\ DebugQuota \in Int /\ 0 \in 0 .. CycleLimit
    BY ProcessAssumption
  <2> QED
    BY <1>1, <2>1 DEF Init, TypeInv, Phases
<1>3. Control /\ QuotaIsExact /\ Reported
  BY <1>1, ProcessAssumption DEF Init, Control, QuotaIsExact, Reported
<1>4. Story
  <2>1. Fits(<< >>) /\ Shaped(<< >>) /\ Follows(<< >>, << >>) /\ \A t : ~Has(<< >>, t)
    BY NothingFollows DEF Fits, Shaped, InOrder, OnePiece, Has
  <2>2. LastLine(<< >>, 0)
    BY DEF LastLine, OneLine
  <2> QED
    BY <2>1, <2>2 DEF Init, Story
<1> QED
  BY <1>2, <1>3, <1>4 DEF IInv

LEMMA StepKeeps ==
  ASSUME IInv, [Next]_vars
  PROVE  IInv'
<1>1. CASE Step
  <2>1. Execute /\ entries' = entries /\ cycles' \in 0 .. CycleLimit /\ pc # "ended" /\ writing = << >>
    BY <1>1, ProcessAssumption DEF Step, IInv, TypeInv
  <2>2. CASE Message
    <3>1. PICK ch \in Chars : WriteMessage(ch)
      BY <2>2 DEF Message
    <3> QED
      BY <2>1, <3>1, MessageKeeps
  <2> QED
    BY <2>1, <2>2, ReadKeeps, WriteCharKeepsAll, QuietKeeps, FinaliseKeeps DEF Execute
<1>2. CASE LimitReached
  <2>1. /\ pc' = "ended" /\ err' = "aborted"
        /\ UNCHANGED <<output, host, writing, cycles, stream, entries>>
    BY <1>2 DEF LimitReached, Ends
  <2>2. OutP!TypeInv' /\ aborts' = aborts
    BY <2>1 DEF IInv, TypeInv, output, OutP!TypeInv, OutP!Outputs
  <2>3. TypeInv'
    BY <2>1, <2>2 DEF IInv, TypeInv, host, stream
  <2>4. Control' /\ Story' /\ QuotaIsExact'
    BY <2>1, <2>2 DEF IInv, Control, Story, QuotaIsExact, host, stream
  <2>5. Reported'
    BY <2>1 DEF IInv, TypeInv, Causes, Reported, host, stream
  <2> QED
    BY <2>3, <2>4, <2>5 DEF IInv
<1>3. CASE UNCHANGED vars
  BY <1>3 DEF IInv, TypeInv, Control, Story, QuotaIsExact, Reported,
              vars, output, host, stream, OutP!TypeInv, OutP!Outputs
<1>4. CASE WriteMessageText
  BY <1>4, TextKeeps
<1> QED
  BY <1>1, <1>2, <1>3, <1>4 DEF Next
-----------------------------------------------------------------------------
(***************************************************************************)
(* Where control is, what the debugging stream holds and how much has gone *)
(* wrong agree in every reachable state.                                   *)
(***************************************************************************)
THEOREM Inductive == Spec => []IInv
<1>1. Init => IInv
  BY StartsInOrder
<1>2. IInv /\ [Next]_vars => IInv'
  BY StepKeeps
<1> QED
  BY <1>1, <1>2, PTL DEF Spec

(***************************************************************************)
(* Every variable keeps its type, and a run makes at most two calls of     *)
(* abort for its output.                                                   *)
(***************************************************************************)
THEOREM TypeCorrect == Spec => []TypeOK
<1>1. IInv => TypeOK
  <2> SUFFICES ASSUME IInv PROVE TypeOK
    OBVIOUS
  <2>1. Out!TypeOK
    BY OutputTypes DEF IInv, TypeInv, Control
  <2> QED
    BY <2>1 DEF IInv, TypeInv, TypeOK, Phases, Causes, Letter
<1> QED
  BY <1>1, Inductive, PTL

(***************************************************************************)
(* The quota ends the process on exactly the line it does not have.        *)
(* (WriteMessage)                                                          *)
(***************************************************************************)
THEOREM QuotaExact == Spec => []QuotaIsExact
<1>1. IInv => QuotaIsExact
  BY DEF IInv
<1> QED
  BY <1>1, Inductive, PTL

(***************************************************************************)
(* Whatever the width is, whoever writes and whatever writes fail: a line  *)
(* of the debugging stream grows beyond DebugWidth only inside a text of   *)
(* the host's own and only where the newline that would have wrapped it    *)
(* was lost; and only a full line is wrapped.  (WriteMessage,              *)
(* writeMessageText, writeDebug)                                           *)
(***************************************************************************)
THEOREM LinesAlwaysFit == Spec => []LinesFit
<1>1. \A k, n : Reaches(k, n) <=> OneLine(debug, k, n)
  BY DEF Reaches, OneLine
<1>2. IInv => LinesFit
  BY <1>1 DEF IInv, Story, Fits, LinesFit
<1> QED
  BY <1>2, Inductive, PTL

(***************************************************************************)
(* The debugging stream of an aborted process reads in order: the error,   *)
(* the context print-out, one line that it was aborted, the report; and    *)
(* no text of the host's comes twice, out of order or in pieces, whatever  *)
(* writes fail.  (abort, stop, finalise, writeMessageText, drive)          *)
(***************************************************************************)
THEOREM DiagnosticInOrder == Spec => []DiagnosticShape
<1>1. IInv => DiagnosticShape
  <2> SUFFICES ASSUME IInv PROVE DiagnosticShape
    OBVIOUS
  <2>1. debug \in Seq(Token) /\ Shaped(debug) /\ DOMAIN debug = 1 .. Len(debug)
    BY DEF IInv, TypeInv, Story
  <2>2. /\ \A j, k \in Errors \cup At("blank") \cup Aborteds : j < k => Precedes(debug[j], debug[k])
        /\ \A j, k \in Errors : \A i \in j .. k : debug[i].t \in {"error", "wrap"}
        /\ \A j, k \in Aborteds : \A i \in j .. k : debug[i].t \in {"aborted", "wrap"}
    BY <2>1 DEF Shaped, InOrder, OnePiece, HostTexts, Errors, Aborteds, At
  <2>3. /\ \A a \in Aborteds : \A k \in a + 1 .. Len(debug) :
              debug[k].t \in {"aborted", "wrap", "statistics", "constructions"}
        /\ \A k \in At("statistics") \cup At("constructions") :
              \A j \in k + 1 .. Len(debug) : debug[j].t # "running"
    BY <2>1 DEF Shaped, Winding, Aborteds, At
  <2>4. ASSUME ~lost, Aborteds # {} PROVE Arrived("error") = DOMAIN ErrorText
    <3>1. PICK a \in DOMAIN debug : debug[a].t = "aborted"
      BY <2>4 DEF Aborteds, At
    <3>2. fatal # "none"
      BY <3>1 DEF IInv, Story, Has, HostTexts
    <3>3. \A i \in DOMAIN writing : writing[i].t # "error"
      <4>1. \A i \in DOMAIN writing : Precedes(debug[a], writing[i])
        BY <3>1 DEF IInv, Story, Follows, HostTexts
      <4> QED
        BY <3>1, <4>1, Stages DEF Precedes
    <3>4. Told(debug, writing, "error") = DOMAIN ErrorText
      BY <2>4, <3>2 DEF IInv, Story
    <3>5. Arrived("error") = Numbers(debug, "error")
      BY DEF Arrived, Numbers, At
    <3> QED
      BY <3>3, <3>4, <3>5, NoNumbers DEF Told
  <2> QED
    BY <2>2, <2>3, <2>4 DEF DiagnosticShape
<1> QED
  BY <1>1, Inductive, PTL

(***************************************************************************)
(* A process that ended early on a healthy debugging stream has said why,  *)
(* and that it was aborted, each in full.  (abort, finalise)               *)
(***************************************************************************)
THEOREM AbortReported == Spec => []AbortIsReported
<1>1. IInv => AbortIsReported
  <2> SUFFICES ASSUME IInv, AbortedInOrder, ~lost, aborts < 2
               PROVE  Arrived("error") = DOMAIN ErrorText /\ Arrived("aborted") = DOMAIN AbortedMessage
    BY DEF AbortIsReported
  <2>1. /\ Told(debug, << >>, "error") = DOMAIN ErrorText
        /\ Told(debug, << >>, "aborted") = DOMAIN AbortedMessage
    BY DEF IInv, Story, Reported, AbortedInOrder
  <2>2. \A t : Numbers(<< >>, t) = {}
    BY NoNumbers
  <2>3. \A t : Arrived(t) = Numbers(debug, t)
    BY DEF Arrived, Numbers, At
  <2> QED
    BY <2>1, <2>2, <2>3 DEF Told
<1> QED
  BY <1>1, Inductive, PTL

(***************************************************************************)
(* The exit status is 255 for every process that a fatal condition ended,  *)
(* and 0 only for one without errors and without a diagnostic.  (result,   *)
(* ExitStatus, run of cmd/ml1)                                             *)
(***************************************************************************)
THEOREM StatusTrue == Spec => []StatusIsTrue
<1>1. IInv => StatusIsTrue
  <2> SUFFICES ASSUME IInv PROVE StatusIsTrue
    OBVIOUS
  <2>1. fatal = "none" => Errors = {} /\ Aborteds = {}
    BY DEF IInv, Story, Has, HostTexts, Errors, Aborteds, At
  <2> QED
    BY <2>1 DEF StatusIsTrue, CommandStatus, ExitStatus
<1> QED
  BY <1>1, Inductive, PTL

(***************************************************************************)
(* The first fatal condition is the one the process dies of, counted once. *)
(* (abort, stop, writeDebug)                                               *)
(***************************************************************************)
THEOREM FirstCauseAlwaysWins == Spec => FirstCauseWins
<1>1. IInv /\ [Next]_vars => [fatal # "none" => fatal' = fatal /\ s5' = s5]_vars
  <2> SUFFICES ASSUME IInv, Next, fatal # "none" PROVE fatal' = fatal /\ s5' = s5
    OBVIOUS
  <2>1. pc # "logic"
    BY DEF IInv, Control
  <2>2. CASE LimitReached
    BY <2>2 DEF LimitReached, host
  <2>3. CASE Step /\ WriteChar
    <3>1. \/ UNCHANGED host
          \/ \E why, n : Abort(why, n)
      BY <2>3 DEF WriteChar
    <3> QED
      BY <3>1 DEF Abort, host
  <2>4. CASE Step /\ Message
    <3>1. PICK ch \in Chars : WriteMessage(ch)
      BY <2>4 DEF Message
    <3> QED
      BY <3>1 DEF WriteMessage, MessageIgnored, MessageWritten, LineCharged, QuotaExhausted, Charged,
                  DebugFails, DebugCause, host
  <2>5. CASE Step /\ (Finalise \/ Constructions \/ Quit)
    BY <2>5 DEF Finalise, Constructions, Quit, host
  <2>6. CASE WriteMessageText
    BY <2>6 DEF WriteMessageText
  <2> QED
    BY <2>1, <2>2, <2>3, <2>4, <2>5, <2>6 DEF Next, Step, Execute, ReadReturns, ReadAborts, CountError, NoStorage, Assign, Fault
<1> QED
  BY <1>1, Inductive, PTL DEF Spec, FirstCauseWins
=============================================================================
