---------------------------- MODULE InputStreams ----------------------------
(***************************************************************************)
(* The input side of the ML/I host: ReadChar (MDREAD) of pkg/ml1/host.go,  *)
(* the streams it reads and the Inputs behind them.  A call of ReadChar is *)
(* a loop, and one step of it is one action, because what the loop does    *)
(* depends on S10 and S23, which it also assigns.  Between two calls the   *)
(* macros of the user may assign S10, S16 and S23.                         *)
(***************************************************************************)
EXTENDS Integers, Sequences

CONSTANTS Content,      \* the bytes of each Input, stream 1 first
          Rewindable,   \* the streams whose Open succeeds more than once
          Faults,       \* Open and ReadByte may fail for reasons of their own
          S10Values, S16Values, S23Values,  \* what the macros assign
          S17           \* what S16 becomes

CR == "cr"
NL == "nl"
None == "none"   \* the code no character has: S16 = -1

Stream == DOMAIN Content
MaxInputs == 5
RewindCode == 101 .. 100 + MaxInputs

\* What can be delivered.
Char == {NL} \cup UNION {{Content[i][k] : k \in DOMAIN Content[i]} : i \in Stream}

ASSUME InputAssumption ==
  /\ Content \in Seq(Seq(Char)) /\ Len(Content) \in 1 .. MaxInputs
  /\ Rewindable \subseteq Stream
  /\ Faults \in BOOLEAN
  /\ S10Values \subseteq Int /\ S23Values \subseteq Int

VARIABLES s10, s16, s23,   \* input stream, translated character, revert stream
          streams,         \* the stream structs
          call,            \* "idle" between two calls, "reading", "over"
          result,          \* what the last call returned
          got,             \* history: what each stream has delivered since it was opened
          torn,            \* history: the returns in it whose line feed could not be read
          turn             \* history: the loop of ReadChar has gone round an odd number of times

vars == <<s10, s16, s23, streams, call, result, got, torn, turn>>

NoResult == [kind |-> "none"]
Closed == [open |-> FALSE, pos |-> 0, eof |-> FALSE, used |-> FALSE]

Init ==
  /\ s10 = 1 /\ s23 = 1 /\ s16 = None
  /\ streams = [i \in Stream |-> Closed]
  /\ call = "idle"
  /\ result = NoResult
  /\ got = [i \in Stream |-> << >>] /\ torn = [i \in Stream |-> {}]
  /\ turn = FALSE

\* StreamInput opens once; the other Inputs open as often as they are asked.
CanOpen(i) == i \in Rewindable \/ ~streams[i].used

\* stream.open: a new reader at the start of the data.
Opened == [open |-> TRUE, pos |-> 0, eof |-> FALSE, used |-> TRUE]

Rewinding == s10 \in RewindCode
Selected == IF Rewinding THEN s10 - 100 ELSE s10
Valid == Selected \in Stream

\* The stream that read finds: rewound, or opened on its first use.
MustOpenAgain ==  \* faulty variant: a stream is not held open at its end
  Rewinding \/ ~streams[Selected].open \/ streams[Selected].eof
MustOpen == Rewinding \/ ~(streams[Selected].open \/ streams[Selected].eof)
AtRead == IF MustOpen THEN Opened ELSE streams[Selected]
Delivered == IF MustOpen THEN << >> ELSE got[Selected]
Torn == IF MustOpen THEN {} ELSE torn[Selected]

Return(r) == call' = "idle" /\ result' = r
Abort(why) == call' = "over" /\ result' = [kind |-> "abort", why |-> why]

DeclaredEnd ==
  /\ s10 = 0
  /\ Return([kind |-> "eof"])
  /\ UNCHANGED <<s10, streams, got, torn>>

IllegalStream ==
  /\ s10 # 0
  /\ ~Valid
  /\ s10' = Selected
  /\ Abort("illegal")
  /\ UNCHANGED <<streams, got, torn>>

\* rewind closes before it opens, so a stream that cannot be opened again is
\* left closed; its end-of-file mark is not touched.
CannotRewind ==
  /\ Rewinding /\ Valid
  /\ ~CanOpen(Selected) \/ Faults
  /\ s10' = Selected
  /\ streams' = [streams EXCEPT ![Selected].open = FALSE]
  /\ Abort("rewind")
  /\ UNCHANGED <<got, torn>>

CannotOpen ==
  /\ ~Rewinding /\ Valid /\ MustOpen
  /\ ~CanOpen(Selected) \/ Faults
  /\ Abort("read")
  /\ UNCHANGED <<s10, streams, got, torn>>

Readable == Valid /\ (MustOpen => CanOpen(Selected))
AtEnd == AtRead.eof \/ AtRead.pos = Len(Content[Selected])

CannotRead ==
  /\ Readable /\ Faults /\ ~AtRead.eof
  /\ s10' = Selected
  /\ streams' = [streams EXCEPT ![Selected] = AtRead]
  /\ got' = [got EXCEPT ![Selected] = Delivered] /\ torn' = [torn EXCEPT ![Selected] = Torn]
  /\ Abort("read")

\* The end of a stream is the end of the process only when it is the revert
\* stream; otherwise the loop goes round again on the revert stream.
RevertsAlways == TRUE   \* faulty variant: the end of any stream is the end
RevertsNever == FALSE   \* faulty variant: the end is never recognised
Reverts == Selected = s23
EndOfStream ==
  /\ Readable /\ AtEnd
  /\ streams' = [streams EXCEPT ![Selected] = [AtRead EXCEPT !.eof = TRUE]]
  /\ got' = [got EXCEPT ![Selected] = Delivered] /\ torn' = [torn EXCEPT ![Selected] = Torn]
  /\ \/ Reverts /\ s10' = Selected /\ Return([kind |-> "eof"])
     \/ ~Reverts /\ s10' = s23 /\ UNCHANGED <<call, result>>

\* A carriage return takes the line feed after it along, if it can be read,
\* and one newline is delivered.
Byte == Content[Selected][AtRead.pos + 1]
PairFollows ==
  /\ AtRead.pos + 2 <= Len(Content[Selected])
  /\ Content[Selected][AtRead.pos + 2] = NL
TakenPair == IF Byte = CR THEN 2 ELSE 1  \* faulty variant: nothing is given back
TakenOne == 1                            \* faulty variant: the line feed is left
Taken == IF Byte = CR /\ PairFollows THEN 2 ELSE 1
Character == IF Byte = CR THEN NL ELSE Byte
Translated(ch) == IF s16 # None /\ ch = s16 THEN S17 ELSE ch

\* n bytes are consumed for one character; the returns in alone are among
\* them, and their line feeds are not.
Deliver(n, alone) ==
  /\ s10' = Selected
  /\ streams' = [streams EXCEPT ![Selected] = [AtRead EXCEPT !.pos = @ + n]]
  /\ got' = [got EXCEPT ![Selected] = Append(Delivered, Character)]
  /\ torn' = [torn EXCEPT ![Selected] = Torn \cup alone]
  /\ Return([kind |-> "char", ch |-> Translated(Character)])

ReadCharacter ==
  /\ Readable /\ ~AtEnd
  /\ Deliver(Taken, {})

\* The read that looks for the line feed fails, which read does not notice:
\* the return counts alone, and the line feed is there for the next read.
\* (Where no line feed follows, such a failure changes nothing.)
ReadTornPair ==
  /\ Readable /\ ~AtEnd
  /\ Faults /\ Byte = CR /\ PairFollows
  /\ Deliver(1, {AtRead.pos + 1})

\* One turn of the loop in ReadChar.
ReadStep ==
  /\ call = "reading"
  /\ \/ DeclaredEnd \/ IllegalStream \/ CannotRewind \/ CannotOpen
     \/ CannotRead \/ EndOfStream \/ ReadCharacter \/ ReadTornPair
  /\ turn' = ~turn
  /\ UNCHANGED <<s16, s23>>

\* The machine executes MDREAD.
Call ==
  /\ call = "idle"
  /\ call' = "reading"
  /\ result' = NoResult
  /\ turn' = FALSE
  /\ UNCHANGED <<s10, s16, s23, streams, got, torn>>

\* External: a macro assigns to a system variable between two characters.
Assign ==
  /\ call = "idle"
  /\ \/ s10' \in S10Values /\ UNCHANGED <<s16, s23>>
     \/ s16' \in S16Values /\ UNCHANGED <<s10, s23>>
     \/ s23' \in S23Values /\ UNCHANGED <<s10, s16>>
  /\ result' = NoResult
  /\ UNCHANGED <<streams, call, got, torn, turn>>

Next == ReadStep \/ Call \/ Assign

\* ReadChar is straight-line code on the processor that called it: once a
\* call is under way its loop keeps turning.
Spec == Init /\ [][Next]_vars /\ WF_vars(ReadStep)
=============================================================================
