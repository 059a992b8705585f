------------------------------ MODULE Command ------------------------------
(***************************************************************************)
(* cmd/ml1: from the arguments to the exit status.  parseArgs reads the    *)
(* command line, job opens the files, ml1.Run runs the processor and run   *)
(* closes everything and chooses the status.  Between the processor and    *)
(* the files are the buffers of bufio: a failing write is noticed when a   *)
(* buffer is full, or when the process is over.                            *)
(*                                                                         *)
(* The characters of the output text and of the listing come from          *)
(* OutputStreams, which this module instantiates; what Process says of the *)
(* debugging stream is here one message and the failure of a host call.    *)
(***************************************************************************)
EXTENDS Integers, Sequences, FiniteSets, Functions

CONSTANTS FileNames,     \* besides "-"
          Columns,       \* the words option -c takes,
          WordCounts,    \* and -w
          Capacity,      \* of a buffer
          Cases,         \* command lines and the circumstances they are given in, see world
          S20Values, S21Values, S22Values

Std == "-"
StdErr == "standard error"
Unbuffered == {Std, StdErr}
MaxInputs == 5
MaxOutputs == 4

\* An argument is its text and, when it looks like an option, the letter in
\* lower case and what is attached to it.
Argument == [text : STRING, letter : STRING, attached : STRING]

ASSUME CommandAssumption ==
  /\ FileNames \cap Unbuffered = {}
  /\ Capacity \in Nat \ {0}
  /\ S21Values \subseteq SUBSET (1 .. MaxOutputs)
  /\ \A c \in Cases :
       /\ c.arguments \in Seq(Argument)
       /\ c.present \subseteq FileNames
       /\ c.unwritable \subseteq FileNames /\ c.removable \subseteq FileNames
       /\ c.engine \in BOOLEAN /\ c.faults \in BOOLEAN /\ c.macros \in BOOLEAN
       /\ c.characters \in Nat /\ c.messages \in Nat

VARIABLES world,    \* never changes: the arguments; the files there are, those that cannot be
                    \* created and those that may be taken away; whether an engine is found,
                    \* whether reads and writes may fail, whether macros assign to the controls
                    \* between two characters; and bounds on characters and messages
          config,   \* what parseArgs made of the arguments
          pc,       \* where run is
          at,       \* the name it is opening, the buffer it is flushing
          disk,     \* the text of each file, and of the two standard streams
          removed,  \* the files that somebody has taken away since
          writers,  \* job's buffers, in the order in which they were made
          sink,     \* for each name job opens for writing, its buffer
          sent,     \* history: what each name has been given, by calls that returned success
          said,     \* history: the messages written
          failed,   \* a call of the host has failed
          unclosed, \* closeAll's first error
          outcome,  \* what ml1.Run returns, as the status it stands for; 1 is no engine
          status    \* the exit status

VARIABLES s19, s20, s21, s22, s24, atLineStart, files, listing, text, aborts

output == <<s19, s20, s21, s22, s24, atLineStart, files, listing, text, aborts>>
stores == <<disk, writers, sent>>
vars == <<world, config, pc, at, stores, removed, sink, said, failed, unclosed, outcome, status, output>>
-----------------------------------------------------------------------------
(***************************************************************************)
(* parseArgs, from the first argument to the last.                         *)
(***************************************************************************)
NoConfig == [inputs |-> << >>, outputs |-> << >>, debug |-> "", listing |-> "",
             answers |-> {}, wants |-> "", bad |-> FALSE]
LongOptions == {"--help", "--engine", "--fetch-engine"}
Bad(cfg) == [cfg EXCEPT !.bad = TRUE]

AssignedFreely(cfg, letter, value) ==  \* faulty variant: outputs are not counted
  CASE letter \in {"c", "w", "s"} -> cfg
    [] letter = "d" -> [cfg EXCEPT !.debug = value]
    [] letter = "l" -> [cfg EXCEPT !.listing = value]
    [] letter = "o" -> [cfg EXCEPT !.outputs = Append(@, value)]

Assigned(cfg, letter, value) ==
  CASE letter = "c" -> [cfg EXCEPT !.bad = value \notin Columns]
    [] letter = "w" -> [cfg EXCEPT !.bad = value \notin WordCounts]
    [] letter = "d" -> [cfg EXCEPT !.debug = value]
    [] letter = "l" -> [cfg EXCEPT !.listing = value]
    [] letter = "o" -> IF Len(cfg.outputs) >= MaxOutputs THEN Bad(cfg)
                       ELSE [cfg EXCEPT !.outputs = Append(@, value)]
    [] letter = "s" -> cfg

\* A value is taken as it stands, also when it looks like an option.
TakeArgument(cfg, arg) ==
  IF cfg.bad THEN cfg
  ELSE IF cfg.wants # "" THEN Assigned([cfg EXCEPT !.wants = ""], cfg.wants, arg.text)
  ELSE IF arg.text \in LongOptions THEN [cfg EXCEPT !.answers = @ \cup {arg.text}]
  ELSE IF arg.letter = "" THEN
    IF Len(cfg.inputs) >= MaxInputs THEN Bad(cfg) ELSE [cfg EXCEPT !.inputs = Append(@, arg.text)]
  ELSE IF arg.letter = "v" THEN [cfg EXCEPT !.bad = arg.attached # ""]
  ELSE IF arg.letter \notin {"c", "d", "l", "o", "s", "w"} THEN Bad(cfg)
  ELSE IF arg.attached # "" THEN Assigned(cfg, arg.letter, arg.attached)
  ELSE [cfg EXCEPT !.wants = arg.letter]

Parsed(arguments) ==
  LET taken[k \in 0 .. Len(arguments)] ==
        IF k = 0 THEN NoConfig ELSE TakeArgument(taken[k - 1], arguments[k])
      cfg == taken[Len(arguments)]
  IN [cfg EXCEPT !.bad = @ \/ cfg.wants # ""]

\* FileNames has room for every name that is given for writing.
ASSUME NamesAssumption ==
  \A c \in Cases :
    LET cfg == Parsed(c.arguments)
    IN Range(cfg.outputs) \cup ({cfg.debug, cfg.listing} \ {""}) \subseteq FileNames \cup {Std}

\* No input is the standard input, no output the standard output, and no
\* debugging file the standard error.  Without -l there is no listing.
OrStd(names) == IF names = << >> THEN <<Std>> ELSE names
Inputs == OrStd(config.inputs)
OutputNames == OrStd(config.outputs)
Given(name) == IF name = "" THEN << >> ELSE <<name>>

\* The names job opens for writing, in its order.
Sinks == OutputNames \o Given(config.debug) \o Given(config.listing)
HasListing == config.listing # ""

Out == INSTANCE OutputStreams
         WITH job <- [outputs |-> Len(OutputNames), listing |-> HasListing]

Init ==
  /\ world \in Cases
  /\ config = Parsed(world.arguments)
  /\ pc = "start" /\ at = 1
  /\ disk = [n \in FileNames \cup Unbuffered |->
               IF n \in world.present THEN <<[from |-> "before"]>> ELSE << >>]
  /\ removed = {}
  /\ writers = << >> /\ sink = << >>
  /\ sent = [n \in DOMAIN disk |-> << >>]
  /\ said = 0 /\ failed = FALSE /\ unclosed = FALSE
  /\ outcome = -1 /\ status = -1
  /\ Out!Init

Goto(label) == pc' = label /\ at' = 1
Exit(code) == Goto("ended") /\ status' = code
-----------------------------------------------------------------------------
(***************************************************************************)
(* run as far as the job, and job: the inputs are opened and closed again, *)
(* then the sinks are created.  When one fails, what was done stays done.  *)
(***************************************************************************)
\* The statuses of a command that is asked for something else than to process
\* text: showEngine says whether there is an engine, and for fetchEngine see
\* Fetch.
Answers ==
  IF "--help" \in config.answers THEN {0}
  ELSE IF "--engine" \in config.answers THEN {IF world.engine THEN 0 ELSE 1}
  ELSE {0, 1}

Start ==
  /\ pc = "start"
  /\ \/ config.bad /\ Exit(1)
     \/ ~config.bad /\ config.answers # {} /\ \E code \in Answers : Exit(code)
     \/ ~config.bad /\ config.answers = {} /\ Goto("inputs") /\ UNCHANGED status
  /\ UNCHANGED <<stores, removed, sink, said, failed, unclosed, outcome, output>>

There(name) == name = Std \/ name \in world.present \ removed

OpenInputUnseen ==  \* faulty variant: left to the first read
  /\ pc = "inputs"
  /\ Goto("sinks")
  /\ UNCHANGED <<stores, removed, sink, said, failed, unclosed, outcome, status, output>>

OpenInput ==
  /\ pc = "inputs"
  /\ \/ ~There(Inputs[at]) /\ Exit(1)
     \/ There(Inputs[at]) /\ at = Len(Inputs) /\ Goto("sinks") /\ UNCHANGED status
     \/ There(Inputs[at]) /\ at < Len(Inputs) /\ at' = at + 1 /\ UNCHANGED <<pc, status>>
  /\ UNCHANGED <<stores, removed, sink, said, failed, unclosed, outcome, output>>

KnownNever(name) == {}  \* faulty variant: a name used again is opened again
Known(name) == {k \in DOMAIN writers : writers[k].name = name}

NextSink == IF at = Len(Sinks) THEN Goto("engine") ELSE at' = at + 1 /\ UNCHANGED pc

CreateSink ==
  /\ pc = "sinks"
  /\ LET name == Sinks[at]
     IN \/ /\ name = Std \/ Known(name) # {}
           /\ sink' = Append(sink, IF name = Std THEN 0 ELSE CHOOSE k \in Known(name) : TRUE)
           /\ NextSink
           /\ UNCHANGED <<disk, writers, status>>
        \/ /\ name # Std /\ Known(name) = {} /\ name \notin world.unwritable
           /\ disk' = [disk EXCEPT ![name] = << >>]
           /\ writers' = Append(writers, [name |-> name, buffer |-> << >>, broken |-> FALSE])
           /\ sink' = Append(sink, Len(writers'))
           /\ NextSink
           /\ UNCHANGED status
        \/ /\ name # Std /\ Known(name) = {} /\ name \in world.unwritable
           /\ Exit(1)
           /\ UNCHANGED <<disk, writers, sink>>
  /\ UNCHANGED <<sent, removed, said, failed, unclosed, outcome, output>>

Begin ==
  /\ pc = "engine"
  /\ \/ world.engine /\ Goto("running") /\ UNCHANGED outcome
     \/ ~world.engine /\ Goto("flush") /\ outcome' = 1
  /\ UNCHANGED <<stores, removed, sink, said, failed, unclosed, status, output>>
-----------------------------------------------------------------------------
(***************************************************************************)
(* One Write to a sink.  A file of its own, io says whether the system     *)
(* takes the bytes; a buffer asks it only when it is full, keeps what it   *)
(* could not get rid of, and from then on refuses everything.              *)
(***************************************************************************)
Store(st, name, token) ==
  [st EXCEPT !.disk[name] = Append(@, token), !.sent[name] = Append(@, token)]
Refuse(st, id) == [st EXCEPT !.fails = @ \cup {id}]

PutStd(st, name, id, token, io) == IF io THEN Store(st, name, token) ELSE Refuse(st, id)

Flushed(st, k) ==
  [st EXCEPT !.disk[st.writers[k].name] = @ \o st.writers[k].buffer, !.writers[k].buffer = << >>]
Broken(st, k) == [st EXCEPT !.writers[k].broken = TRUE]
Buffered(st, k, token) ==
  [st EXCEPT !.writers[k].buffer = Append(@, token), !.sent[st.writers[k].name] = Append(@, token)]

PutBuffered(st, k, id, token, io) ==
  IF st.writers[k].broken THEN Refuse(st, id)
  ELSE IF Len(st.writers[k].buffer) < Capacity THEN Buffered(st, k, token)
  ELSE IF io THEN Buffered(Flushed(st, k), k, token)
  ELSE Refuse(Broken(st, k), id)

Put(st, w, io) ==
  IF w.sink = 0 THEN PutStd(st, w.name, w.id, w.token, io)
  ELSE PutBuffered(st, w.sink, w.id, w.token, io)

Unwritten == [disk |-> disk, writers |-> writers, sent |-> sent, fails |-> {}]
Becomes(st) == disk' = st.disk /\ writers' = st.writers /\ sent' = st.sent

\* The writes of OutputStreams, each with the sink it goes to, in their order.
WriteOf(id, ch) ==
  LET place == IF id \in Out!Outputs THEN id ELSE Len(Sinks)
      what == IF id = Out!LineNumber THEN "number" ELSE ch
  IN [id |-> id, sink |-> sink[place], name |-> Sinks[place], token |-> [from |-> id, what |-> what]]
PutAll(ids, ch, faulty) ==
  LET upTo[id \in -2 .. MaxOutputs] ==
        IF id = -2 THEN Unwritten
        ELSE IF id \in ids THEN Put(upTo[id - 1], WriteOf(id, ch), id \notin faulty)
        ELSE upTo[id - 1]
  IN upTo[MaxOutputs]

WriteChar(ch) ==
  /\ Len(text) < world.characters
  /\ \E faulty \in IF world.faults THEN SUBSET Out!Writes ELSE {{}}, redirect \in BOOLEAN :
       LET fails == PutAll(Out!Writes, ch, faulty).fails
           attempted == Out!Attempted(fails, redirect)
       IN /\ faulty \subseteq fails
          /\ fails = {} => redirect
          /\ Out!WriteChar(ch, fails, redirect)
          /\ Becomes(PutAll(attempted, ch, faulty))
          /\ failed' = (fails # {})
  /\ UNCHANGED <<pc, at, said, outcome>>

\* The host's diagnostics, and the program's messages.
DebugWrite ==
  LET given == config.debug # ""
      place == Len(OutputNames) + 1
  IN [id |-> -2, sink |-> IF given THEN sink[place] ELSE 0,
      name |-> IF given THEN Sinks[place] ELSE StdErr, token |-> [from |-> -2, what |-> "message"]]

WriteMessage ==
  /\ said < world.messages
  /\ said' = said + 1
  /\ \E faulty \in IF world.faults THEN {{}, {-2}} ELSE {{}} :
       LET st == Put(Unwritten, DebugWrite, faulty = {})
       IN /\ faulty \subseteq st.fails
          /\ Becomes(st)
          /\ failed' = (failed \/ st.fails # {})
  /\ UNCHANGED <<pc, at, outcome, output>>

\* A stream is opened when it is first read, and again when it is rewound:
\* the file may be gone by then.
CannotRead ==
  /\ world.faults \/ \E i \in DOMAIN Inputs : ~There(Inputs[i])
  /\ failed' = TRUE
  /\ UNCHANGED <<pc, at, stores, said, outcome, output>>

\* ml1.Run returns.  What it returns when nothing has failed is the program's.
Quit ==
  /\ \E code \in {0, 254, 255} : (failed => code = 255) /\ outcome' = code
  /\ Goto("flush")
  /\ UNCHANGED <<stores, said, failed, output>>

\* Nothing that has aborted writes more output, see OutputStreams and Process.
Process ==
  /\ pc = "running"
  /\ \/ ~failed /\ \E ch \in Out!Chars : WriteChar(ch)
     \/ /\ ~failed /\ (text = << >> \/ world.macros) /\ Out!Assign
        /\ UNCHANGED <<pc, at, stores, said, failed, outcome>>
     \/ WriteMessage \/ CannotRead \/ Quit
  /\ UNCHANGED <<removed, sink, unclosed, status>>
-----------------------------------------------------------------------------
(***************************************************************************)
(* closeAll goes through all the buffers and all the files, and keeps the  *)
(* first error; then run chooses the status.                               *)
(***************************************************************************)
NextToClose(label) ==
  IF at < Len(writers) THEN at' = at + 1 /\ UNCHANGED pc ELSE Goto(label)

Flush ==
  /\ pc = "flush" /\ at <= Len(writers)
  /\ \/ /\ ~writers[at].broken
        /\ Becomes(Flushed([disk |-> disk, writers |-> writers, sent |-> sent], at))
        /\ UNCHANGED unclosed
     \/ /\ writers[at].broken \/ (world.faults /\ writers[at].buffer # << >>)
        /\ unclosed' = TRUE
        /\ UNCHANGED stores
  /\ NextToClose("close")
  /\ UNCHANGED <<removed, sink, said, failed, outcome, status, output>>

Close ==
  /\ pc = "close"
  /\ unclosed' \in {unclosed, unclosed \/ world.faults}
  /\ NextToClose("report")
  /\ UNCHANGED <<stores, removed, sink, said, failed, outcome, status, output>>

NothingToClose ==
  /\ pc = "flush" /\ writers = << >>
  /\ Goto("report")
  /\ UNCHANGED <<stores, removed, sink, said, failed, unclosed, outcome, status, output>>

Report ==
  /\ pc = "report"
  /\ Exit(IF unclosed THEN 255 ELSE outcome)
  /\ UNCHANGED <<stores, removed, sink, said, failed, unclosed, outcome, output>>

\* The process is killed, or the machine panics: nothing is flushed.
Die ==
  /\ pc \in {"sinks", "running", "flush"}
  /\ Exit(2)
  /\ UNCHANGED <<stores, removed, sink, said, failed, unclosed, outcome, output>>

\* External: somebody takes a file away.
TakeAway ==
  /\ pc \in {"inputs", "running"}
  /\ removed' \in {removed \cup {n} : n \in world.removable \cap Range(Inputs)}
  /\ UNCHANGED <<pc, at, stores, sink, said, failed, unclosed, outcome, status, output>>

Next ==
  /\ UNCHANGED <<world, config>>
  /\ \/ Start \/ OpenInput \/ CreateSink \/ Begin
     \/ Process
     \/ Flush \/ Close \/ NothingToClose \/ Report
     \/ Die \/ TakeAway

Spec == Init /\ [][Next]_vars
=============================================================================
