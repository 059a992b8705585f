---------------------------- MODULE InputProofs ----------------------------
(***************************************************************************)
(* Whatever the streams hold and however the macros switch and rewind      *)
(* them, each delivers its own text with uniform line endings.  The        *)
(* argument: reading stops only where the next byte begins a line ending   *)
(* or an ordinary character, never between the two halves of a pair, but   *)
(* where the read of the second half failed and the first was taken alone; *)
(* so the next byte is always one of those that are kept.                  *)
(*                                                                         *)
(* And why a call of ReadChar comes back: a turn that does not end it goes *)
(* over to the revert stream, and a rewind code rewinds a stream with      *)
(* nothing in it only once, unless it can be opened again.                 *)
(***************************************************************************)
EXTENDS InputProperties, FiniteSetTheorems, TLAPS

\* The next byte is not the line feed of a pair whose return is consumed,
\* unless that return was taken alone.
OutsidePair(text, pos, lost) ==
  pos > 0 /\ pos < Len(text) /\ text[pos] = CR /\ text[pos + 1] = NL => pos \in lost

HistoryType == got \in [Stream -> Seq(Char)] /\ torn \in [Stream -> SUBSET Int]
Outside == \A i \in Stream : OutsidePair(Content[i], streams[i].pos, torn[i])
Behind == \A i \in Stream : \A k \in torn[i] : k <= streams[i].pos
EndIsEnd == \A i \in Stream : streams[i].eof => streams[i].pos = Len(Content[i])

\* A stream that must be opened has delivered nothing yet.
Fresh == call # "over" => \A i \in Stream : streams[i].open \/ streams[i].eof \/ got[i] = << >>
Pending == call = "reading" => result = NoResult

IInv ==
  /\ TypeOK /\ HistoryType
  /\ Outside /\ Behind /\ EndIsEnd /\ Fresh /\ Pending
  /\ DeliveredIsNormal /\ EndIsHonest
-----------------------------------------------------------------------------
(***************************************************************************)
(* The normal form of a text, one byte after another.                      *)
(***************************************************************************)
LEMMA KeptIsFinite ==
  ASSUME NEW text, NEW lost, NEW n \in Nat
  PROVE  IsFiniteSet(Kept(text, n, lost)) /\ Cardinality(Kept(text, n, lost)) \in Nat
<1>1. IsFiniteSet(1 .. n)
  BY FS_Interval
<1>2. Kept(text, n, lost) \subseteq 1 .. n
  BY DEF Kept
<1> QED
  BY <1>1, <1>2, FS_Subset, FS_CardinalityType

LEMMA NormalOfNothing == ASSUME NEW text, NEW lost PROVE IsNormal(<< >>, text, 0, lost)
<1>1. Kept(text, 0, lost) = {}
  BY DEF Kept
<1> QED
  BY <1>1, FS_EmptySet DEF IsNormal

\* A byte that is kept appends its character.
LEMMA NormalAppends ==
  ASSUME NEW text, NEW lost, NEW n \in Nat, NEW out \in Seq(Char), NEW ch \in Char,
         IsNormal(out, text, n, lost), n + 1 \in Kept(text, n + 1, lost), ch = Uniform(text[n + 1])
  PROVE  IsNormal(Append(out, ch), text, n + 1, lost)
<1>1. Kept(text, n + 1, lost) = Kept(text, n, lost) \cup {n + 1} /\ n + 1 \notin Kept(text, n, lost)
  BY DEF Kept
<1>2. Cardinality(Kept(text, n + 1, lost)) = Cardinality(Kept(text, n, lost)) + 1
  BY <1>1, KeptIsFinite, FS_AddElement
<1>3. Len(Append(out, ch)) = Cardinality(Kept(text, n + 1, lost))
  BY <1>2 DEF IsNormal
<1>4. ASSUME NEW k \in Kept(text, n, lost)
      PROVE  Append(out, ch)[Cardinality(Kept(text, k, lost))] = Uniform(text[k])
  <2>1. k \in Nat /\ k \in 1 .. n /\ k \in Kept(text, k, lost) /\ Kept(text, k, lost) \subseteq Kept(text, n, lost)
    BY DEF Kept
  <2>2. Cardinality(Kept(text, k, lost)) \in Nat /\ Cardinality(Kept(text, k, lost)) # 0
    BY <2>1, KeptIsFinite, FS_EmptySet
  <2>3. Cardinality(Kept(text, k, lost)) <= Cardinality(Kept(text, n, lost))
    BY <2>1, KeptIsFinite, FS_Subset
  <2>4. Cardinality(Kept(text, k, lost)) \in 1 .. Len(out)
    BY <2>2, <2>3, KeptIsFinite DEF IsNormal
  <2> QED
    BY <2>4 DEF IsNormal
<1>5. Append(out, ch)[Cardinality(Kept(text, n + 1, lost))] = Uniform(text[n + 1])
  BY <1>3
<1> QED
  BY <1>1, <1>3, <1>4, <1>5 DEF IsNormal

\* The line feed of a pair adds nothing.
LEMMA NormalSkips ==
  ASSUME NEW text, NEW lost, NEW n \in Nat, NEW out,
         IsNormal(out, text, n, lost), n + 1 \notin Kept(text, n + 1, lost)
  PROVE  IsNormal(out, text, n + 1, lost)
<1>1. Kept(text, n + 1, lost) = Kept(text, n, lost)
  BY DEF Kept
<1> QED
  BY <1>1 DEF IsNormal
-----------------------------------------------------------------------------
(***************************************************************************)
(* What read finds: a stream just opened, or one that was left at a legal  *)
(* place.                                                                  *)
(***************************************************************************)
StreamType == [open : BOOLEAN, pos : Nat, eof : BOOLEAN, used : BOOLEAN]

LEMMA Found ==
  ASSUME IInv, Valid
  PROVE  /\ Content \in [Stream -> Seq(Char)]
         /\ Selected \in Stream /\ Selected \in Int
         /\ AtRead \in StreamType /\ AtRead.pos <= Len(Content[Selected])
         /\ AtRead.open \/ AtRead.eof
         /\ AtRead.eof => AtRead.pos = Len(Content[Selected])
         /\ Delivered \in Seq(Char)
         /\ Torn \subseteq Int /\ \A k \in Torn : k <= AtRead.pos
         /\ IsNormal(Delivered, Content[Selected], AtRead.pos, Torn)
         /\ OutsidePair(Content[Selected], AtRead.pos, Torn)
<1>1. Content \in [Stream -> Seq(Char)]
  BY InputAssumption DEF Stream
<1>2. Selected \in Stream /\ Stream \subseteq Int
  BY InputAssumption DEF Valid, Stream
<1>3. CASE MustOpen
  <2>1. AtRead = Opened /\ Delivered = << >> /\ Torn = {}
    BY <1>3 DEF AtRead, Delivered, Torn
  <2>2. Opened \in StreamType /\ Opened.pos = 0 /\ Opened.open /\ ~Opened.eof
    BY DEF Opened, StreamType
  <2>3. OutsidePair(Content[Selected], 0, {})
    BY DEF OutsidePair
  <2>4. Len(Content[Selected]) \in Nat
    BY <1>1, <1>2
  <2> QED
    BY <1>1, <1>2, <2>1, <2>2, <2>3, <2>4, NormalOfNothing
<1>4. CASE ~MustOpen
  <2>1. AtRead = streams[Selected] /\ Delivered = got[Selected] /\ Torn = torn[Selected]
    BY <1>4 DEF AtRead, Delivered, Torn
  <2>2. streams[Selected].open \/ streams[Selected].eof
    BY <1>4 DEF MustOpen
  <2> QED
    BY <1>1, <1>2, <2>1, <2>2
    DEF IInv, TypeOK, HistoryType, StreamType, Outside, Behind, EndIsEnd, DeliveredIsNormal
<1> QED
  BY <1>3, <1>4

\* The invariants that speak of one stream at a time.
StreamsInv ==
  /\ streams \in [Stream -> StreamType] /\ got \in [Stream -> Seq(Char)] /\ torn \in [Stream -> SUBSET Int]
  /\ \A i \in Stream :
       /\ streams[i].pos <= Len(Content[i])
       /\ OutsidePair(Content[i], streams[i].pos, torn[i])
       /\ \A k \in torn[i] : k <= streams[i].pos
       /\ streams[i].eof => streams[i].pos = Len(Content[i])
       /\ IsNormal(got[i], Content[i], streams[i].pos, torn[i])

LEMMA StreamsHold == IInv => StreamsInv
  BY DEF IInv, TypeOK, HistoryType, StreamType, StreamsInv, Outside, Behind, EndIsEnd, DeliveredIsNormal

LEMMA OneStream ==
  ASSUME StreamsInv, NEW s \in Stream, NEW st \in StreamType, NEW out \in Seq(Char), NEW lost \in SUBSET Int,
         streams' = [streams EXCEPT ![s] = st], got' = [got EXCEPT ![s] = out], torn' = [torn EXCEPT ![s] = lost],
         st.pos <= Len(Content[s]), OutsidePair(Content[s], st.pos, lost),
         \A k \in lost : k <= st.pos,
         st.eof => st.pos = Len(Content[s]), IsNormal(out, Content[s], st.pos, lost)
  PROVE  StreamsInv'
  BY DEF StreamsInv

\* What is left to show of the invariant, once StreamsInv' is known.
RestInv ==
  /\ s10 \in Int /\ s23 \in Int
  /\ call \in {"idle", "reading", "over"}
  /\ result.kind \in {"none", "char", "eof", "abort"}
  /\ Fresh /\ Pending /\ EndIsHonest

LEMMA Parts == IInv <=> StreamsInv /\ RestInv
  BY DEF IInv, TypeOK, HistoryType, StreamType, StreamsInv, RestInv, Outside, Behind, EndIsEnd, DeliveredIsNormal

LEMMA PartsNext == StreamsInv' /\ RestInv' => IInv'
  BY DEF IInv, TypeOK, HistoryType, StreamType, StreamsInv, RestInv, Outside, Behind, EndIsEnd, DeliveredIsNormal
-----------------------------------------------------------------------------
LEMMA InitIInv == Init => IInv
<1> SUFFICES ASSUME Init PROVE IInv
  OBVIOUS
<1>1. \A i \in Stream : streams[i] = Closed /\ got[i] = << >> /\ torn[i] = {}
  BY DEF Init
<1>2. Closed \in StreamType /\ Closed.pos = 0 /\ ~Closed.eof
  BY DEF Closed, StreamType
<1>3. \A i \in Stream : Content[i] \in Seq(Char)
  BY InputAssumption DEF Stream
<1>4. \A i \in Stream : OutsidePair(Content[i], 0, {}) /\ IsNormal(<< >>, Content[i], 0, {})
  BY NormalOfNothing DEF OutsidePair
<1>5. StreamsInv
  BY <1>1, <1>2, <1>3, <1>4 DEF Init, StreamsInv
<1>6. RestInv
  BY <1>1 DEF Init, RestInv, NoResult, Fresh, Pending, EndIsHonest
<1> QED
  BY <1>5, <1>6, Parts

LEMMA CallKeeps == IInv /\ Call => IInv'
<1> SUFFICES ASSUME IInv, Call PROVE IInv'
  OBVIOUS
<1> USE DEF Call, NoResult
<1>1. StreamsInv'
  BY StreamsHold DEF StreamsInv
<1>2. RestInv'
  BY Parts DEF RestInv, Fresh, Pending, EndIsHonest
<1> QED
  BY <1>1, <1>2, PartsNext

LEMMA AssignKeeps == IInv /\ Assign => IInv'
<1> SUFFICES ASSUME IInv, Assign PROVE IInv'
  OBVIOUS
<1> USE DEF Assign, NoResult
<1>1. StreamsInv'
  BY StreamsHold DEF StreamsInv
<1>2. s10' \in Int /\ s23' \in Int
  BY Parts, InputAssumption DEF RestInv
<1>3. RestInv'
  BY <1>2, Parts DEF RestInv, Fresh, Pending, EndIsHonest
<1> QED
  BY <1>1, <1>3, PartsNext

\* The turns of the loop that read nothing.
LEMMA EndingKeeps ==
  IInv /\ call = "reading" /\ UNCHANGED s23 /\ (DeclaredEnd \/ IllegalStream \/ CannotOpen) => IInv'
<1> SUFFICES ASSUME IInv, call = "reading", UNCHANGED s23, DeclaredEnd \/ IllegalStream \/ CannotOpen PROVE IInv'
  OBVIOUS
<1> USE DEF DeclaredEnd, IllegalStream, CannotOpen, Return, Abort
<1>1. StreamsInv'
  BY StreamsHold DEF StreamsInv
<1>2. Selected \in Int
  BY Parts DEF RestInv, Selected, Rewinding, RewindCode, MaxInputs
<1>3. RestInv'
  BY <1>2, Parts DEF RestInv, Fresh, Pending, EndIsHonest
<1> QED
  BY <1>1, <1>3, PartsNext

LEMMA CannotRewindKeeps == IInv /\ UNCHANGED s23 /\ CannotRewind => IInv'
<1> SUFFICES ASSUME IInv, UNCHANGED s23, CannotRewind PROVE IInv'
  OBVIOUS
<1> USE DEF CannotRewind, Abort
<1>1. Selected \in Stream /\ Selected \in Int
  BY Found
<1>2. StreamsInv'
  <2>1. [streams[Selected] EXCEPT !.open = FALSE] \in StreamType
    BY <1>1, StreamsHold DEF StreamsInv, StreamType
  <2>2. streams' = [streams EXCEPT ![Selected] = [streams[Selected] EXCEPT !.open = FALSE]]
    OBVIOUS
  <2>3. got' = [got EXCEPT ![Selected] = got[Selected]] /\ torn' = [torn EXCEPT ![Selected] = torn[Selected]]
    BY StreamsHold DEF StreamsInv
  <2>4. /\ [streams[Selected] EXCEPT !.open = FALSE].pos = streams[Selected].pos
        /\ [streams[Selected] EXCEPT !.open = FALSE].eof = streams[Selected].eof
    BY <1>1, StreamsHold DEF StreamsInv, StreamType
  <2> QED
    BY <1>1, <2>1, <2>2, <2>3, <2>4, StreamsHold, OneStream DEF StreamsInv
<1>3. RestInv'
  BY <1>1, Parts DEF RestInv, Fresh, Pending, EndIsHonest
<1> QED
  BY <1>2, <1>3, PartsNext

LEMMA CannotReadKeeps == IInv /\ UNCHANGED s23 /\ CannotRead => IInv'
<1> SUFFICES ASSUME IInv, UNCHANGED s23, CannotRead PROVE IInv'
  OBVIOUS
<1>0. Valid
  BY DEF CannotRead, Readable
<1>1. StreamsInv'
  BY <1>0, Found, StreamsHold, OneStream DEF CannotRead
<1>2. RestInv'
  BY <1>0, Found, Parts DEF CannotRead, Abort, RestInv, Fresh, Pending, EndIsHonest
<1> QED
  BY <1>1, <1>2, PartsNext

LEMMA EndOfStreamKeeps == IInv /\ call = "reading" /\ UNCHANGED s23 /\ EndOfStream => IInv'
<1> SUFFICES ASSUME IInv, call = "reading", UNCHANGED s23, EndOfStream PROVE IInv'
  OBVIOUS
<1>0. Valid
  BY DEF EndOfStream, Readable
<1> DEFINE st == [AtRead EXCEPT !.eof = TRUE]
<1>1. st \in StreamType /\ st.pos = AtRead.pos /\ st.eof
  BY <1>0, Found DEF StreamType
<1>2. st.pos = Len(Content[Selected])
  BY <1>0, <1>1, Found DEF EndOfStream, AtEnd
<1>3. streams' = [streams EXCEPT ![Selected] = st] /\ got' = [got EXCEPT ![Selected] = Delivered]
      /\ torn' = [torn EXCEPT ![Selected] = Torn]
  BY DEF EndOfStream
<1> HIDE DEF st
<1>4. StreamsInv'
  BY <1>0, <1>1, <1>2, <1>3, Found, StreamsHold, OneStream
<1>5. Fresh'
  <2>1. \A i \in Stream : streams[i].open \/ streams[i].eof \/ got[i] = << >>
    BY Parts DEF RestInv, Fresh
  <2>2. streams'[Selected].eof
    BY <1>0, <1>1, <1>3, Found, StreamsHold DEF StreamsInv
  <2> QED
    BY <1>3, <2>1, <2>2, StreamsHold DEF StreamsInv, Fresh
<1>6. CASE Reverts /\ s10' = Selected /\ Return([kind |-> "eof"])
  <2>1. IsNormal(got'[s10'], Content[s10'], Len(Content[s10']), torn'[s10']) /\ s10' = s23'
    BY <1>0, <1>2, <1>1, <1>3, <1>6, Found, StreamsHold DEF StreamsInv, Reverts
  <2> QED
    BY <1>0, <1>4, <1>5, <1>6, <2>1, Found, Parts, PartsNext DEF RestInv, Return, Pending, EndIsHonest
<1>7. CASE ~Reverts /\ s10' = s23 /\ UNCHANGED <<call, result>>
  BY <1>4, <1>5, <1>7, Parts, PartsNext DEF RestInv, Pending, EndIsHonest, NoResult
<1> QED
  BY <1>6, <1>7 DEF EndOfStream

(***************************************************************************)
(* A byte is read.  It is not the second half of a pair whose return has   *)
(* been delivered for both, so its character is kept; a line feed taken    *)
(* along with it is not.  A return taken alone is marked, and what came    *)
(* before it is as it was.                                                 *)
(***************************************************************************)
LEMMA MarkedBeyond ==
  ASSUME NEW text, NEW lost, NEW n \in Nat, NEW out
  PROVE  IsNormal(out, text, n, lost \cup {n}) <=> IsNormal(out, text, n, lost)
<1>1. \A k \in 0 .. n : Kept(text, k, lost \cup {n}) = Kept(text, k, lost)
  BY DEF Kept
<1>2. Kept(text, n, lost) \subseteq 0 .. n /\ n \in 0 .. n
  BY DEF Kept
<1> QED
  BY <1>1, <1>2 DEF IsNormal

LEMMA DeliverKeeps ==
  ASSUME IInv, call = "reading", UNCHANGED s23, Readable, ~AtEnd,
         NEW n \in {1, 2}, NEW alone \in SUBSET {AtRead.pos + 1}, Deliver(n, alone),
         n = 2 => alone = {} /\ Byte = CR /\ PairFollows,
         n = 1 /\ Byte = CR /\ PairFollows => alone # {}
  PROVE  IInv'
<1> DEFINE text == Content[Selected]
           pos == AtRead.pos
           st == [AtRead EXCEPT !.pos = @ + n]
           out == Append(Delivered, Character)
           lost == Torn \cup alone
<1>0. Valid /\ ~AtEnd
  BY DEF Readable
<1>1. text \in Seq(Char) /\ pos \in Nat /\ pos < Len(text) /\ ~AtRead.eof
  BY <1>0, Found DEF AtEnd, StreamType
<1>2. /\ streams' = [streams EXCEPT ![Selected] = st]
      /\ got' = [got EXCEPT ![Selected] = out]
      /\ torn' = [torn EXCEPT ![Selected] = lost]
      /\ s10' = Selected
      /\ call' = "idle" /\ result' = [kind |-> "char", ch |-> Translated(Character)]
  BY DEF Deliver, Return
<1>3. Byte \in Char /\ Character \in Char /\ Character = Uniform(text[pos + 1]) /\ Byte = text[pos + 1]
  <2>1. pos + 1 \in 1 .. Len(text)
    BY <1>1
  <2>2. Byte = text[pos + 1] /\ Byte \in Char
    BY <1>1, <2>1 DEF Byte
  <2>3. NL \in Char
    BY DEF Char
  <2> QED
    BY <2>2, <2>3 DEF Character, Uniform
<1>4. st \in StreamType /\ st.pos = pos + n /\ ~st.eof /\ (st.open <=> AtRead.open)
  <2>1. AtRead \in StreamType /\ pos + n \in Nat
    BY <1>0, <1>1, Found
  <2>2. st = [AtRead EXCEPT !.pos = pos + n]
    OBVIOUS
  <2> QED
    BY <1>1, <2>1, <2>2 DEF StreamType
<1>5. AtRead.open
  BY <1>0, <1>1, Found
<1> HIDE DEF st
<1>6. IsNormal(out, text, pos + 1, lost)
  <2>1. pos + 1 \in Kept(text, pos + 1, Torn)
    BY <1>0, <1>1, Found DEF Kept, OutsidePair
  <2>2. IsNormal(out, text, pos + 1, Torn)
    BY <1>0, <1>1, <1>3, <2>1, Found, NormalAppends
  <2>3. lost = Torn \/ lost = Torn \cup {pos + 1}
    OBVIOUS
  <2>4. pos + 1 \in Nat
    BY <1>1
  <2> HIDE DEF out, lost, text, pos
  <2> QED
    BY <2>2, <2>3, <2>4, MarkedBeyond
<1>7. lost \in SUBSET Int /\ \A k \in lost : k <= st.pos
  <2>1. Torn \subseteq Int /\ (\A k \in Torn : k <= pos) /\ pos + 1 \in Int /\ st.pos \in Int /\ pos + 1 <= st.pos
    BY <1>0, <1>1, <1>4, Found
  <2>2. alone \subseteq {pos + 1}
    OBVIOUS
  <2> HIDE DEF pos
  <2>3. \A k \in lost : k \in Torn \/ k = pos + 1
    BY <2>2
  <2> HIDE DEF lost
  <2>4. lost \subseteq Int
    BY <2>1, <2>3
  <2>5. ASSUME NEW k \in lost PROVE k <= st.pos
    <3>1. CASE k \in Torn
      BY <1>1, <2>1, <3>1
    <3>2. CASE k = pos + 1
      BY <2>1, <3>2
    <3> QED
      BY <2>3, <3>1, <3>2
  <2> QED
    BY <2>4, <2>5
<1>8. /\ st.pos <= Len(text) /\ OutsidePair(text, st.pos, lost)
      /\ IsNormal(out, text, st.pos, lost)
  <2>1. CASE n = 2
    <3>1. text[pos + 1] = CR /\ text[pos + 2] = NL /\ pos + 2 <= Len(text)
      BY <2>1, <1>3 DEF PairFollows
    <3>2. pos + 1 \notin lost
      BY <1>0, <1>1, <2>1, Found
    <3>3. pos + 2 \notin Kept(text, pos + 2, lost)
      BY <1>1, <3>1, <3>2 DEF Kept
    <3>4. IsNormal(out, text, pos + 2, lost)
      <4>1. pos + 1 \in Nat /\ (pos + 1) + 1 = pos + 2
        BY <1>1
      <4> HIDE DEF out, lost, text
      <4> QED
        BY <1>6, <3>3, <4>1, NormalSkips
    <3>5. OutsidePair(text, pos + 2, lost)
      BY <1>1, <3>1 DEF OutsidePair, CR, NL
    <3> QED
      BY <1>4, <2>1, <3>1, <3>4, <3>5
  <2>2. CASE n = 1
    <3>1. OutsidePair(text, pos + 1, lost)
      <4>1. (pos + 1) + 1 = pos + 2 /\ (pos + 1 < Len(text) => pos + 2 <= Len(text))
        BY <1>1
      <4>2. PairFollows <=> pos + 2 <= Len(text) /\ text[pos + 2] = NL
        BY DEF PairFollows
      <4>3. Byte = CR /\ PairFollows => pos + 1 \in lost
        BY <2>2
      <4> QED
        BY <1>3, <4>1, <4>2, <4>3 DEF OutsidePair
    <3> QED
      BY <1>1, <1>4, <1>6, <2>2, <3>1
  <2> QED
    BY <2>1, <2>2
<1>9. StreamsInv'
  <2>1. out \in Seq(Char)
    BY <1>0, <1>3, Found
  <2> HIDE DEF out, lost
  <2> QED
    BY <1>0, <1>2, <1>4, <1>7, <1>8, <2>1, Found, StreamsHold, OneStream
<1>10. Fresh'
  <2>1. \A i \in Stream : streams[i].open \/ streams[i].eof \/ got[i] = << >>
    BY Parts DEF RestInv, Fresh
  <2>2. streams'[Selected].open
    BY <1>0, <1>2, <1>4, <1>5, Found, StreamsHold DEF StreamsInv
  <2> QED
    BY <1>2, <2>1, <2>2, StreamsHold DEF StreamsInv, Fresh
<1>11. RestInv'
  BY <1>0, <1>2, <1>10, Found, Parts DEF RestInv, Pending, EndIsHonest
<1> QED
  BY <1>9, <1>11, PartsNext

LEMMA CharacterKeeps ==
  IInv /\ call = "reading" /\ UNCHANGED s23 /\ (ReadCharacter \/ ReadTornPair) => IInv'
<1> SUFFICES ASSUME IInv, call = "reading", UNCHANGED s23, ReadCharacter \/ ReadTornPair PROVE IInv'
  OBVIOUS
<1>1. CASE ReadCharacter
  <2>1. /\ Readable /\ ~AtEnd /\ Deliver(Taken, {}) /\ Taken \in {1, 2}
        /\ Taken = 2 <=> Byte = CR /\ PairFollows
    BY <1>1 DEF ReadCharacter, Taken
  <2> QED
    BY <2>1, DeliverKeeps
<1>2. CASE ReadTornPair
  <2>1. Readable /\ ~AtEnd /\ Deliver(1, {AtRead.pos + 1})
    BY <1>2 DEF ReadTornPair
  <2> QED
    BY <2>1, DeliverKeeps
<1> QED
  BY <1>1, <1>2

LEMMA StepIInv == IInv /\ [Next]_vars => IInv'
<1> SUFFICES ASSUME IInv, [Next]_vars PROVE IInv'
  OBVIOUS
<1>1. CASE ReadStep
  <2>1. call = "reading" /\ UNCHANGED s23
    BY <1>1 DEF ReadStep
  <2> QED
    BY <1>1, <2>1, EndingKeeps, CannotRewindKeeps, CannotReadKeeps, EndOfStreamKeeps, CharacterKeeps
    DEF ReadStep
<1>2. CASE Call
  BY <1>2, CallKeeps
<1>3. CASE Assign
  BY <1>3, AssignKeeps
<1>4. CASE UNCHANGED vars
  <2>1. StreamsInv'
    BY <1>4, StreamsHold DEF StreamsInv, vars
  <2>2. RestInv'
    BY <1>4, Parts DEF RestInv, Fresh, Pending, EndIsHonest, vars
  <2> QED
    BY <2>1, <2>2, PartsNext
<1> QED
  BY <1>1, <1>2, <1>3, <1>4 DEF Next

THEOREM Inductive == Spec => []IInv
<1> QED
  BY InitIInv, StepIInv, PTL DEF Spec
-----------------------------------------------------------------------------
(***************************************************************************)
(* Stream numbers, positions and results are what ReadChar takes them for, *)
(* and no position is beyond the end of its stream.                        *)
(***************************************************************************)
THEOREM TypeCorrect == Spec => []TypeOK
<1>1. IInv => TypeOK
  BY DEF IInv
<1> QED
  BY <1>1, Inductive, PTL

(***************************************************************************)
(* Whatever the inputs hold, and however the macros switch between them,   *)
(* revert, translate and rewind: what a stream has delivered since it was  *)
(* opened is the normal form of what it has consumed, in which a pair is   *)
(* two newlines exactly where the read between its halves failed.          *)
(* (stream.read)                                                           *)
(***************************************************************************)
THEOREM DeliversNormalText == Spec => []DeliveredIsNormal
<1>1. IInv => DeliveredIsNormal
  BY DEF IInv
<1> QED
  BY <1>1, Inductive, PTL

(***************************************************************************)
(* ReadChar reports the end only when S10 declares it or all of the revert *)
(* stream has been delivered, whatever reads have failed on the way.       *)
(***************************************************************************)
THEOREM EndsHonestly == Spec => []EndIsHonest
<1>1. IInv => EndIsHonest
  BY DEF IInv
<1> QED
  BY <1>1, Inductive, PTL

LEMMA PrefixOfItself == ASSUME NEW s \in Seq(Char) PROVE IsPrefix(s, s)
  BY DEF IsPrefix

LEMMA PrefixOfLonger ==
  ASSUME NEW s \in Seq(Char), NEW ch \in Char
  PROVE  IsPrefix(s, Append(s, ch)) /\ IsPrefix(<< >>, s)
<1>1. SubSeq(s, 1, Len(s)) = s /\ SubSeq(Append(s, ch), 1, Len(s)) = s
  OBVIOUS
<1>2. SubSeq(<< >>, 1, 0) = SubSeq(s, 1, 0)
  OBVIOUS
<1> QED
  BY <1>1, <1>2 DEF IsPrefix

(***************************************************************************)
(* No step of the machine or of a macro repositions a stream, except the   *)
(* rewind code of that stream.  (stream.read, rewind)                      *)
(***************************************************************************)
THEOREM RewindRepositions == Spec => OnlyRewindRepositions
<1> DEFINE Goes == \A i \in Stream : IsPrefix(got[i], got'[i]) \/ s10 = 100 + i
<1>1. ASSUME IInv, Next PROVE Goes
  <2>1. \A i \in Stream : got[i] \in Seq(Char) /\ i \in Int
    <3>1. Stream \subseteq Int
      BY InputAssumption DEF Stream
    <3> QED
      BY <1>1, <3>1, StreamsHold DEF StreamsInv
  <2>2. CASE UNCHANGED got
    BY <2>1, <2>2, PrefixOfItself
  <2>3. ASSUME Valid, NEW d, got' = [got EXCEPT ![Selected] = d],
               d = Delivered \/ \E ch \in Char : d = Append(Delivered, ch),
               call = "reading"
        PROVE  Goes
    <3>1. CASE Rewinding
      <4>1. s10 = 100 + Selected
        BY <1>1, <3>1, Parts DEF Selected, RestInv
      <4> QED
        BY <2>1, <2>3, <4>1, PrefixOfItself
    <3>2. CASE ~Rewinding
      <4>1. Delivered = got[Selected]
        BY <1>1, <2>3, <3>2, Parts DEF Delivered, MustOpen, RestInv, Fresh, Valid
      <4>2. IsPrefix(got[Selected], d)
        BY <2>1, <2>3, <4>1, PrefixOfItself, PrefixOfLonger DEF Valid
      <4> QED
        BY <1>1, <2>1, <2>3, <4>2, StreamsHold, PrefixOfItself DEF StreamsInv
    <3> QED
      BY <3>1, <3>2
  <2>4. CASE ReadStep
    <3>1. call = "reading"
      BY <2>4 DEF ReadStep
    <3>2. CASE DeclaredEnd \/ IllegalStream \/ CannotRewind \/ CannotOpen
      BY <2>2, <3>2 DEF DeclaredEnd, IllegalStream, CannotRewind, CannotOpen
    <3>3. CASE CannotRead \/ EndOfStream
      BY <2>3, <3>1, <3>3 DEF CannotRead, EndOfStream, Readable
    <3>4. CASE ReadCharacter \/ ReadTornPair
      <4>1. Valid /\ ~AtEnd /\ got' = [got EXCEPT ![Selected] = Append(Delivered, Character)]
        BY <3>4 DEF ReadCharacter, ReadTornPair, Deliver, Readable
      <4>2. Character \in Char
        <5>1. AtRead.pos + 1 \in 1 .. Len(Content[Selected])
          BY <1>1, <4>1, Found DEF AtEnd, StreamType
        <5>2. Byte \in Char /\ NL \in Char
          BY <1>1, <4>1, <5>1, Found DEF Byte, Char
        <5> QED
          BY <5>2 DEF Character
      <4> QED
        BY <2>3, <3>1, <4>1, <4>2
    <3> QED
      BY <2>4, <3>2, <3>3, <3>4 DEF ReadStep
  <2> QED
    BY <1>1, <2>2, <2>4 DEF Next, Call, Assign
<1>2. IInv /\ [Next]_vars => [Goes]_vars
  BY <1>1
<1> QED
  BY <1>2, Inductive, PTL DEF Spec, OnlyRewindRepositions
-----------------------------------------------------------------------------
(***************************************************************************)
(* How often the loop of ReadChar can still go round: onto the revert      *)
(* stream, and once more when that is a rewind code whose stream has       *)
(* nothing in it and opens a last time.                                    *)
(***************************************************************************)
TurnsLeft ==
  IF call # "reading" THEN 0
  ELSE IF s10 # s23 THEN 3
  ELSE IF Valid /\ ~streams[Selected].used THEN 2
  ELSE 1

\* A stream that has been opened is used from then on.
LEMMA StaysUsed ==
  ASSUME IInv, EndOfStream, streams[Selected].used \/ MustOpen
  PROVE  Selected \in Stream /\ streams'[Selected].used
<1>1. Selected \in Stream /\ streams \in [Stream -> StreamType]
  BY StreamsHold DEF EndOfStream, Readable, Valid, StreamsInv
<1>2. AtRead.used
  <2>1. Opened.used
    BY DEF Opened
  <2> QED
    BY <2>1 DEF AtRead
<1>3. AtRead \in StreamType
  BY <1>1, Found DEF Valid
<1>4. PICK st : st = [AtRead EXCEPT !.eof = TRUE]
  OBVIOUS
<1>5. st.used
  BY <1>2, <1>3, <1>4 DEF StreamType
<1>6. streams' = [streams EXCEPT ![Selected] = st]
  BY <1>4, Zenon DEF EndOfStream
<1> QED
  BY <1>1, <1>5, <1>6

(***************************************************************************)
(* Every turn of the loop in ReadChar brings the call nearer to its end,   *)
(* so a call takes at most three of them, whatever the streams hold and    *)
(* whatever the macros have assigned, unless the revert stream is an empty *)
(* one named by its rewind code.  (ReadChar)                               *)
(***************************************************************************)
THEOREM TurnsRunOut ==
  Spec => [][call = "reading" /\ ~EmptyRevert => TurnsLeft' < TurnsLeft]_vars
<1>1. ASSUME IInv, [Next]_vars, ~UNCHANGED vars, call = "reading", ~EmptyRevert
      PROVE  TurnsLeft' < TurnsLeft
  <2>1. TurnsLeft > 0 /\ TurnsLeft \in {1, 2, 3}
    BY <1>1 DEF TurnsLeft
  <2>2. ReadStep /\ UNCHANGED s23
    BY <1>1 DEF Next, Call, Assign, ReadStep
  <2>3. CASE call' # "reading"
    <3>1. TurnsLeft' = 0
      BY <2>3 DEF TurnsLeft
    <3> QED
      BY <2>1, <3>1
  <2>4. CASE call' = "reading"
    <3>1. EndOfStream /\ ~Reverts /\ s10' = s23
      BY <2>2, <2>4 DEF ReadStep, DeclaredEnd, IllegalStream, CannotRewind, CannotOpen, CannotRead,
         EndOfStream, ReadCharacter, ReadTornPair, Deliver, Return, Abort
    <3>2. TurnsLeft' \in {1, 2}
      BY <2>2, <2>4, <3>1 DEF TurnsLeft
    <3>3. CASE s10 # s23
      <4>1. TurnsLeft = 3
        BY <1>1, <3>3 DEF TurnsLeft
      <4> QED
        BY <3>2, <4>1
    <3>4. CASE s10 = s23
      <4>1. Rewinding /\ MustOpen /\ AtRead = Opened /\ Selected = s10 - 100
        BY <3>1, <3>4 DEF Selected, Reverts, MustOpen, AtRead
      <4>2. Selected \in Stream /\ CanOpen(Selected)
        BY <3>1, <4>1 DEF EndOfStream, Readable, Valid
      <4>3. Content[Selected] = << >>
        <5>1. Content[Selected] \in Seq(Char)
          BY <1>1, <4>2, Found DEF Valid
        <5>2. Opened.pos = 0 /\ ~Opened.eof
          BY DEF Opened
        <5>3. Len(Content[Selected]) = 0
          BY <3>1, <4>1, <5>2 DEF EndOfStream, AtEnd
        <5> QED
          BY <5>1, <5>3
      <4>4. Selected \notin Rewindable
        <5>1. s23 = 100 + Selected
          BY <1>1, <3>4, <4>1 DEF IInv, TypeOK
        <5> QED
          BY <1>1, <4>3, <5>1 DEF EmptyRevert
      <4>5. ~streams[Selected].used
        BY <4>2, <4>4 DEF CanOpen
      <4>6. TurnsLeft = 2
        BY <1>1, <3>4, <4>2, <4>5 DEF TurnsLeft, Valid
      <4>7. streams'[Selected].used
        BY <1>1, <3>1, <4>1, StaysUsed
      <4>8. Selected' = Selected
        BY <3>1, <3>4 DEF Selected, Rewinding
      <4>9. TurnsLeft' = 1
        BY <2>2, <2>4, <3>1, <4>7, <4>8 DEF TurnsLeft
      <4> QED
        BY <4>6, <4>9
    <3> QED
      BY <3>3, <3>4
  <2> QED
    BY <2>3, <2>4
<1> QED
  BY <1>1, Inductive, PTL DEF Spec
=============================================================================
