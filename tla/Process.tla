------------------------------ MODULE Process ------------------------------
(***************************************************************************)
(* One run of the ML/I processor on its LOWL machine: the host's diagnosis *)
(* of fatal conditions (abort, stop, finalise, WriteMessage) of            *)
(* pkg/ml1/host.go, the loop that drives the machine (drive, runMachine,   *)
(* result) of pkg/ml1/lowl.go, and the output side composed from           *)
(* OutputStreams.  The program being run, ML/I itself, is distributed      *)
(* separately: it is the environment, known only by what drive and the     *)
(* host say of its entry points ER7A, ERLSO, LOHALT and PRENV.             *)
(***************************************************************************)
EXTENDS Integers, FiniteSets, Sequences

CONSTANTS NOutputs, HasListing, S20Values, S21Values, S22Values, MaxText,
          Programs,           \* which of ER7A and ERLSO the program may define
          DebugQuota,         \* the first value of S12
          S12Values,          \* what the macros assign to S12 and S18
          S18Values,
          DebugWidth,         \* Job.DebugWidth, 0 for NeverWrap
          ErrorText,          \* what writeError writes, for one condition or another
          AbortedMessage,     \* abortedMessage
          OutputFaults,       \* writes to the outputs and the listing may fail,
          DebugFaults,        \* and writes to the debugging stream
          CycleLimit          \* runCycleLimit

VARIABLES s19, s20, s21, s22, s24, atLineStart, files, listing, text, aborts

output == <<s19, s20, s21, s22, s24, atLineStart, files, listing, text, aborts>>

Out == INSTANCE OutputStreams WITH job <- [outputs |-> NOutputs, listing |-> HasListing]

NL == "nl"
Chars == {"x", NL}

ASSUME ProcessAssumption ==
  /\ NOutputs \in 0 .. Out!MaxOutputs /\ HasListing \in BOOLEAN
  /\ Programs \subseteq SUBSET {"ER7A", "ERLSO"}
  /\ OutputFaults \in BOOLEAN /\ DebugFaults \in BOOLEAN
  /\ S21Values \subseteq SUBSET (1 .. Out!MaxOutputs)
  /\ DebugQuota \in Nat /\ S12Values \subseteq Nat
  /\ S18Values \subseteq SUBSET {"statistics", "constructions"}
  /\ DebugWidth \in Nat /\ CycleLimit \in Nat
  /\ ErrorText \in Seq(Chars) /\ AbortedMessage \in Seq(Chars)

VARIABLES s5, s12, s18,  \* error count, lines left for debugging, report wanted
          phase,         \* which part of the end of process report
          fatal,         \* what ended the process early, "none" if nothing did
          column,        \* debugColumn
          writing,       \* what writeMessageText has still to write
          pc,            \* where control is, by the program's entry points
          cycles,        \* instructions drive has executed
          err,           \* what Run returned
          debug,         \* history: what the debugging stream has received
          lost,          \* history: a write to it has failed
          entries        \* the entry points the program defines

host == <<s5, s12, s18, phase, fatal, column>>
stream == <<debug, lost>>
vars == <<output, host, writing, pc, cycles, err, stream, entries>>

Init ==
  /\ Out!Init
  /\ s5 = 0 /\ s12 = DebugQuota /\ s18 = {}
  /\ phase = "running"
  /\ fatal = "none"
  /\ column = 0 /\ writing = << >>
  /\ pc = "logic"
  /\ cycles = 0
  /\ err = "none"
  /\ debug = << >> /\ lost = FALSE
  /\ entries \in Programs
-----------------------------------------------------------------------------
(***************************************************************************)
(* How the machine ends.  A host method that returns an error makes Step   *)
(* fail, and drive then returns the fatal condition.                       *)
(***************************************************************************)
Ends(e) == pc' = "ended" /\ err' = e
RunsOn == UNCHANGED <<pc, err>>

\* runMachine: a process that ended in order but counted errors says so.
OrderlyEnd == IF fatal # "none" THEN fatal ELSE IF s5 # 0 THEN "errors" ELSE "nil"

(***************************************************************************)
(* The host's own texts on the debugging stream.  The method that starts   *)
(* one goes on when it has been written; nothing it does until then is     *)
(* visible to the stream, so it does the rest at once.                     *)
(***************************************************************************)
Text(t, chars) == [n \in DOMAIN chars |-> [t |-> t, n |-> n, ch |-> chars[n]]]
ErrorTextLeft == Text("error", ErrorText)
AbortedTextLeft == Text("aborted", AbortedMessage)

\* What is written when control does not come back to the program.
StopTextLeft == ErrorTextLeft \o Text("blank", <<NL, NL>>) \o AbortedTextLeft

\* A line is full: a character that goes on it needs a newline before it.
WrapsLate(ch) ==  \* faulty variant: one column too many
  DebugWidth > 0 /\ ch # NL /\ column > DebugWidth
Wraps(ch) == DebugWidth > 0 /\ ch # NL /\ column >= DebugWidth
Wrap == [t |-> "wrap", n |-> 0, newline |-> TRUE, unwrapped |-> FALSE]

\* writeMessageText writes the next character.  The newline that wraps the
\* line may fail and so may the character: neither failure is looked at.
WriteMessageText ==
  /\ writing # << >>
  /\ writing' = Tail(writing)
  /\ LET c == Head(writing)
     IN \E wrapped \in {Wraps(c.ch), Wraps(c.ch) /\ ~DebugFaults}, written \in {TRUE, ~DebugFaults} :
          LET after == IF wrapped THEN Append(debug, Wrap) ELSE debug
              unwrapped == Wraps(c.ch) /\ ~wrapped
          IN /\ lost' = (lost \/ unwrapped \/ ~written)
             /\ \/ /\ written
                   /\ debug' = Append(after, [t |-> c.t, n |-> c.n, newline |-> c.ch = NL, unwrapped |-> unwrapped])
                   /\ column' = IF c.ch = NL THEN 0 ELSE IF wrapped THEN 1 ELSE column + 1
                \/ /\ ~written
                   /\ debug' = after
                   /\ column' = IF wrapped THEN 0 ELSE column
  /\ UNCHANGED <<output, s5, s12, s18, phase, fatal, pc, cycles, err, entries>>

\* writeError and the latch that abort and stop share.
Diagnose(why) ==
  /\ fatal' = why
  /\ s5' = s5 + 1
  /\ UNCHANGED <<s12, s18, phase>>

CanRedirectAlways == "ER7A" \in entries  \* faulty variant: also from the finalisation

\* Does abort hand control to ER7A (and return nil), or stop the machine?
CanRedirect == "ER7A" \in entries /\ phase = "running"

\* abort, when n calls of it are made by one method: the first one diagnoses,
\* and any after it only returns the condition already set.
Abort(why, n) ==
  \/ /\ fatal # "none"
     /\ Ends(fatal)
     /\ UNCHANGED <<host, writing, stream>>
  \/ /\ fatal = "none"
     /\ Diagnose(why)
     /\ UNCHANGED <<column, stream>>
     /\ \/ /\ CanRedirect
           /\ writing' = ErrorTextLeft
           /\ \/ n = 1 /\ pc' = "er7a" /\ UNCHANGED err
              \/ n > 1 /\ Ends(why)
        \/ /\ ~CanRedirect
           /\ writing' = StopTextLeft
           /\ Ends(why)

(***************************************************************************)
(* WriteMessage: the report is subject to S18, long lines are wrapped, and *)
(* a line of a process that is running and well is charged to the quota.   *)
(***************************************************************************)
WantMessage == phase = "running" \/ phase \in s18
ChargedDying(ch) == ch = NL /\ phase = "running"  \* faulty variant
Charged(ch) == ch = NL /\ phase = "running" /\ fatal = "none"

\* What writeDebug makes of the character, and where it leaves the line.
Put(ch) == [t |-> phase, n |-> 0, newline |-> ch = NL, unwrapped |-> FALSE]
ColumnAfter(ch) == IF ch = NL THEN 0 ELSE IF Wraps(ch) THEN 1 ELSE column + 1
Written(ch) == Append(IF Wraps(ch) THEN Append(debug, Wrap) ELSE debug, Put(ch))

MessageIgnored ==
  /\ ~WantMessage
  /\ RunsOn
  /\ UNCHANGED <<host, writing, stream>>

MessageWritten(ch) ==
  /\ WantMessage
  /\ ~Charged(ch)
  /\ debug' = Written(ch)
  /\ column' = ColumnAfter(ch)
  /\ RunsOn
  /\ UNCHANGED <<s5, s12, s18, phase, fatal, writing, lost>>

LineChargedLate ==  \* faulty variant: the test is one line late
  /\ Charged(NL)
  /\ s12 >= 0
  /\ s12' = s12 - 1
  /\ debug' = Written(NL)
  /\ column' = 0
  /\ RunsOn
  /\ UNCHANGED <<s5, s18, phase, fatal, writing, lost>>

LineCharged ==
  /\ Charged(NL)
  /\ s12 > 0
  /\ s12' = s12 - 1
  /\ debug' = Written(NL)
  /\ column' = 0
  /\ RunsOn
  /\ UNCHANGED <<s5, s18, phase, fatal, writing, lost>>

\* stop: the line that is one too many is written, and so is the diagnostic,
\* but nothing of the program's comes between its parts.
QuotaExhausted ==
  /\ Charged(NL)
  /\ s12 <= 0
  /\ s12' = s12 - 1
  /\ s5' = s5 + 1
  /\ fatal' = "quota"
  /\ debug' = Written(NL)
  /\ column' = 0
  /\ writing' = StopTextLeft
  /\ Ends("quota")
  /\ UNCHANGED <<s18, phase, lost>>

DebugCauseAlways == "debug"  \* faulty variant: an earlier cause is forgotten
DebugCause == IF fatal = "none" THEN "debug" ELSE fatal

\* writeDebug fails, on the character or on the newline that wraps the line
\* before it: there is no stream left for a diagnostic.
DebugFails(ch) ==
  /\ WantMessage
  /\ DebugFaults
  /\ fatal' = DebugCause
  /\ Ends(fatal')
  /\ lost' = TRUE
  /\ \/ UNCHANGED <<debug, column>>
     \/ Wraps(ch) /\ debug' = Append(debug, Wrap) /\ column' = 0
  /\ UNCHANGED <<s5, s12, s18, phase, writing>>

WriteMessage(ch) ==
  /\ \/ MessageIgnored
     \/ MessageWritten(ch)
     \/ ch = NL /\ LineCharged
     \/ ch = NL /\ QuotaExhausted
     \/ DebugFails(ch)
  /\ UNCHANGED output
-----------------------------------------------------------------------------
(***************************************************************************)
(* What the machine does in one cycle.  ReadChar is abstracted to what     *)
(* InputStreams says it may return.                                        *)
(***************************************************************************)
ReadReturns ==
  /\ pc = "logic"
  /\ RunsOn
  /\ UNCHANGED <<output, host, writing, stream>>

ReadAborts ==
  /\ pc = "logic"
  /\ \E why \in {"illegal", "rewind", "read"} : Abort(why, 1)
  /\ UNCHANGED output

Culprit(failed) == IF failed \subseteq Out!Outputs THEN "output" ELSE "listing"

WriteChar ==
  /\ pc \in {"logic", "report"}
  /\ Len(text) < MaxText
  /\ \E ch \in Chars, fails \in IF OutputFaults THEN SUBSET Out!Writes ELSE {{}} :
       LET redirect == CanRedirect /\ fatal = "none"
           failed == Out!Failed(fails, redirect)
       IN /\ Out!WriteChar(ch, fails, redirect)
          /\ \/ failed = {} /\ RunsOn /\ UNCHANGED <<host, writing, stream>>
             \/ failed # {} /\ Abort(Culprit(failed), Cardinality(failed))

\* The program writes: messages while it runs, the context print-out at
\* ER7A, the two parts of the report.
Message ==
  /\ pc # "ended"
  /\ \E ch \in Chars : WriteMessage(ch)

\* External: the MI-logic counts an error of its own, at PRERR or at ERLSO
\* (where FSTK, BSTK and CFSTK branch when the storage runs out).
CountError ==
  /\ pc = "logic"
  /\ s5' = s5 + 1
  /\ RunsOn
  /\ UNCHANGED <<output, s12, s18, phase, fatal, column, writing, stream>>

NoStorage ==
  /\ pc = "logic"
  /\ \/ "ERLSO" \in entries /\ s5' = s5 + 1 /\ pc' = "er7a" /\ UNCHANGED err
     \/ "ERLSO" \notin entries /\ Ends("nostorage") /\ UNCHANGED s5
  /\ UNCHANGED <<output, s12, s18, phase, fatal, column, writing, stream>>

\* External: a macro assigns to a system variable.
Assign ==
  /\ pc = "logic"
  /\ \/ s5' = 0 /\ UNCHANGED <<s12, s18, output>>
     \/ s12' \in S12Values /\ UNCHANGED <<s5, s18, output>>
     \/ s18' \in S18Values /\ UNCHANGED <<s5, s12, output>>
     \/ Out!Assign /\ UNCHANGED <<s5, s12, s18>>
  /\ RunsOn
  /\ UNCHANGED <<phase, fatal, column, writing, stream>>

\* Control reaches LOHALT: drive tells the host before the first instruction
\* there.  finalise does nothing the second time.
Finalise ==
  /\ pc \in {"logic", "er7a"}
  /\ pc' = "report"
  /\ \/ /\ phase = "running"
        /\ phase' = "statistics"
        /\ writing' = IF fatal = "none" THEN << >> ELSE AbortedTextLeft
     \/ phase # "running" /\ UNCHANGED <<phase, writing>>
  /\ UNCHANGED <<output, s5, s12, s18, fatal, column, err, stream>>

\* Control reaches PRENV.
Constructions ==
  /\ pc = "report"
  /\ phase' = "constructions"
  /\ UNCHANGED <<output, s5, s12, s18, fatal, column, writing, pc, err, stream>>

\* MDQUIT, at the end of the report.
Quit ==
  /\ pc = "report"
  /\ Ends(OrderlyEnd)
  /\ UNCHANGED <<output, host, writing, stream>>

\* An instruction the machine cannot execute: ErrStackUnderflow and the like.
Fault ==
  /\ pc = "logic"
  /\ Ends("fault")
  /\ UNCHANGED <<output, host, writing, stream>>

Execute ==
  \/ ReadReturns \/ ReadAborts \/ WriteChar \/ Message \/ CountError
  \/ NoStorage \/ Assign \/ Finalise \/ Constructions \/ Quit \/ Fault

StepLate ==  \* faulty variant: the limit is looked at one instruction late
  /\ pc # "ended" /\ writing = << >>
  /\ cycles <= CycleLimit
  /\ cycles' = cycles + 1
  /\ Execute
  /\ UNCHANGED entries

Step ==
  /\ pc # "ended" /\ writing = << >>
  /\ cycles < CycleLimit
  /\ cycles' = cycles + 1
  /\ Execute
  /\ UNCHANGED entries

\* drive gives up: ErrAborted.
LimitReached ==
  /\ pc # "ended" /\ writing = << >>
  /\ cycles = CycleLimit
  /\ Ends("aborted")
  /\ UNCHANGED <<output, host, writing, cycles, stream, entries>>

Next == Step \/ LimitReached \/ WriteMessageText

Spec == Init /\ [][Next]_vars
-----------------------------------------------------------------------------
\* Result.ExitStatus, and the switch of cmd/ml1 over what Run returned.
ExitStatusErrorsFirst ==  \* faulty variant: the cases in the other order
  IF s5 # 0 THEN 254 ELSE IF fatal # "none" THEN 255 ELSE 0
ExitStatus == IF fatal # "none" THEN 255 ELSE IF s5 # 0 THEN 254 ELSE 0
CommandStatus == IF err \in {"nil", "aborted", "errors"} THEN ExitStatus ELSE 255

HostTexts == {"error", "blank", "aborted"}

TypeOK ==
  /\ Out!TypeOK
  /\ s5 \in Nat /\ s12 \in Int /\ s18 \subseteq {"statistics", "constructions"}
  /\ phase \in {"running", "statistics", "constructions"}
  /\ fatal \in {"none", "illegal", "rewind", "read", "listing", "output", "debug", "quota"}
  /\ column \in Nat /\ cycles \in 0 .. CycleLimit
  /\ writing \in Seq([t : HostTexts, n : Nat, ch : Chars]) /\ lost \in BOOLEAN
  /\ pc \in {"logic", "er7a", "report", "ended"}
  /\ err \in {"none", "nil", "errors", "aborted", "fault", "nostorage",
              "illegal", "rewind", "read", "listing", "output", "debug", "quota"}

\* The tokens of the debugging stream that are the host's own.
At(t) == {k \in DOMAIN debug : debug[k].t = t}
Errors == At("error")
Aborteds == At("aborted")

(***************************************************************************)
(* The first fatal condition is the one the process dies of, and it is     *)
(* counted once: nothing that happens while the process is being wound up  *)
(* replaces it or adds to S5.  (abort, stop, writeDebug)                   *)
(***************************************************************************)
FirstCauseWins == [][fatal # "none" => fatal' = fatal /\ s5' = s5]_vars

\* Where the diagnostic's text has got to, and a character of it before another.
Stage(t) == CASE t = "error" -> 1 [] t = "blank" -> 2 [] t = "aborted" -> 3
Precedes(x, y) == Stage(x.t) < Stage(y.t) \/ (x.t = y.t /\ x.n < y.n)
Arrived(t) == {debug[k].n : k \in At(t)}

(***************************************************************************)
(* The debugging stream of an aborted process reads: what was written      *)
(* while it ran, the host's error, the context print-out alone, one line   *)
(* that says it was aborted, and after that only the report that S18 asked *)
(* for.  No character of the host's texts comes twice or out of order, and *)
(* nothing but the newlines that wrap it comes inside one of them, whatever*)
(* writes have failed; if none has, the whole error is there before the    *)
(* line.  (abort, stop, finalise, writeMessageText, drive)                 *)
(***************************************************************************)
DiagnosticShape ==
  /\ \A j, k \in Errors \cup At("blank") \cup Aborteds : j < k => Precedes(debug[j], debug[k])
  /\ \A j, k \in Errors : \A i \in j .. k : debug[i].t \in {"error", "wrap"}
  /\ \A j, k \in Aborteds : \A i \in j .. k : debug[i].t \in {"aborted", "wrap"}
  /\ ~lost /\ Aborteds # {} => Arrived("error") = DOMAIN ErrorText
  /\ \A a \in Aborteds : \A k \in a + 1 .. Len(debug) :
       debug[k].t \in {"aborted", "wrap", "statistics", "constructions"}
  /\ \A k \in At("statistics") \cup At("constructions") :
       \A j \in k + 1 .. Len(debug) : debug[j].t # "running"

\* Run came back with the condition itself: the machine was not cut off by
\* the cycle limit while it printed the context.
AbortedInOrder == pc = "ended" /\ writing = << >> /\ fatal \notin {"none", "debug"} /\ err = fatal

(***************************************************************************)
(* A process that ended early on a healthy debugging stream has said why   *)
(* and has said that it was aborted, each in full, unless a second write   *)
(* failed in the very call of WriteChar that was being reported.  (abort,  *)
(* finalise)                                                               *)
(***************************************************************************)
AbortIsReported ==
  AbortedInOrder /\ ~lost /\ aborts < 2 =>
    Arrived("error") = DOMAIN ErrorText /\ Arrived("aborted") = DOMAIN AbortedMessage

(***************************************************************************)
(* The quota ends the process on exactly the line it does not have, and a  *)
(* process that is already dying, or writing its report, is never charged  *)
(* for a line.  (WriteMessage; macros assign no negative quota here)       *)
(***************************************************************************)
QuotaIsExact == s12 < 0 <=> fatal = "quota"

\* The n tokens up to k are on one line.
Reaches(k, n) == n <= k /\ \A i \in k - n + 1 .. k : ~debug[i].newline

(***************************************************************************)
(* A line of the debugging stream grows beyond DebugWidth only where the   *)
(* newline that would have wrapped it could not be written, which happens  *)
(* only inside the host's own texts, and only a full line is wrapped:      *)
(* however those texts and the program's characters share a line, and      *)
(* whatever writes fail.  (WriteMessage, writeMessageText, writeDebug)     *)
(***************************************************************************)
LinesFit ==
  DebugWidth > 0 =>
    \A k \in DOMAIN debug :
      /\ debug[k].unwrapped <=> Reaches(k, DebugWidth + 1)
      /\ debug[k].unwrapped => debug[k].t \in HostTexts
      /\ debug[k].t = "wrap" => Reaches(k - 1, DebugWidth)

(***************************************************************************)
(* The exit status is 255 for every process a fatal condition ended, and 0 *)
(* only for one that counted no error and whose debugging stream holds no  *)
(* diagnostic.  (result, ExitStatus, run of cmd/ml1)                       *)
(***************************************************************************)
StatusIsTrue ==
  pc = "ended" =>
    /\ fatal # "none" => CommandStatus = 255
    /\ CommandStatus = 0 => s5 = 0 /\ Errors = {} /\ Aborteds = {}

(***************************************************************************)
(* ErrAborted's comment: "a fatal condition ended the process early ... It *)
(* maps to the exit status 255."                                           *)
(***************************************************************************)
AbortedIs255 == pc = "ended" /\ err = "aborted" => CommandStatus = 255
=============================================================================
