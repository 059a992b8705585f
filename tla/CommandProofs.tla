---------------------------- MODULE CommandProofs ----------------------------
(***************************************************************************)
(* The safety of the ml1 command, for every command line, every set of     *)
(* files, every capacity of the buffers, and whatever fails or dies.       *)
(***************************************************************************)
EXTENDS CommandProperties, FiniteSetTheorems, TLAPS

Pure == INSTANCE OperatorProofs

OutP == INSTANCE OutputProofs WITH job <- [outputs |-> Len(OutputNames), listing |-> HasListing]
-----------------------------------------------------------------------------
(***************************************************************************)
(* What parseArgs makes of any arguments.                                  *)
(***************************************************************************)
Texts == STRING \cup {""}
Config ==
  {cfg \in [inputs : Seq(Texts), outputs : Seq(Texts), debug : Texts, listing : Texts,
            answers : SUBSET LongOptions, wants : {"", "c", "d", "l", "o", "s", "w"}, bad : BOOLEAN] :
     Len(cfg.inputs) <= MaxInputs /\ Len(cfg.outputs) <= MaxOutputs}

LEMMA OneMore ==
  ASSUME NEW S, NEW s \in Seq(S), NEW x \in S, NEW most \in Nat, NEW n \in 0 .. most, n = Len(s), ~(n >= most)
  PROVE  Append(s, x) \in Seq(S) /\ Len(Append(s, x)) <= most
<1>1. Len(Append(s, x)) = n + 1
  OBVIOUS
<1> QED
  BY <1>1

LEMMA Lengths ==
  ASSUME NEW cfg \in Config
  PROVE  /\ cfg.inputs \in Seq(Texts) /\ Len(cfg.inputs) \in 0 .. MaxInputs
         /\ cfg.outputs \in Seq(Texts) /\ Len(cfg.outputs) \in 0 .. MaxOutputs
<1>1. cfg.inputs \in Seq(Texts) /\ cfg.outputs \in Seq(Texts)
  BY DEF Config
<1>2. PICK m \in Nat, n \in Nat : m = Len(cfg.inputs) /\ n = Len(cfg.outputs)
  BY <1>1
<1>3. m <= 5 /\ n <= 4
  BY <1>2 DEF Config, MaxInputs, MaxOutputs
<1>4. m \in 0 .. MaxInputs /\ n \in 0 .. MaxOutputs
  BY <1>3 DEF MaxInputs, MaxOutputs
<1> QED
  BY <1>1, <1>2, <1>4

LEMMA AssignedIsConfig ==
  ASSUME NEW cfg \in Config, NEW letter \in {"c", "d", "l", "o", "s", "w"}, NEW value \in Texts
  PROVE  Assigned(cfg, letter, value) \in Config
<1> USE DEF Config
<1>1. CASE letter = "o"
  <2>1. CASE Len(cfg.outputs) >= MaxOutputs
    BY <1>1, <2>1 DEF Assigned, Bad
  <2>2. CASE ~(Len(cfg.outputs) >= MaxOutputs)
    <3>1. PICK more : more = Append(cfg.outputs, value)
      OBVIOUS
    <3>2. PICK n \in 0 .. MaxOutputs : n = Len(cfg.outputs)
      BY Lengths
    <3>3. more \in Seq(Texts) /\ Len(more) <= MaxOutputs
      BY <2>2, <3>1, <3>2, OneMore, Lengths DEF MaxOutputs
    <3>4. Assigned(cfg, letter, value) = [cfg EXCEPT !.outputs = more]
      BY <1>1, <2>2, <3>1 DEF Assigned
    <3> QED
      BY <3>3, <3>4
  <2> QED
    BY <2>1, <2>2
<1>2. CASE letter \in {"c", "w"}
  BY <1>2 DEF Assigned
<1>3. CASE letter \in {"d", "l", "s"}
  BY <1>3 DEF Assigned
<1> QED
  BY <1>1, <1>2, <1>3

LEMMA TakenIsConfig ==
  ASSUME NEW cfg \in Config, NEW arg \in Argument
  PROVE  TakeArgument(cfg, arg) \in Config
<1>1. arg.text \in Texts /\ arg.attached \in Texts
  BY DEF Argument, Texts
<1>2. CASE ~cfg.bad /\ cfg.wants # ""
  <2>1. [cfg EXCEPT !.wants = ""] \in Config /\ cfg.wants \in {"c", "d", "l", "o", "s", "w"}
    BY <1>2 DEF Config
  <2> QED
    BY <1>1, <1>2, <2>1, AssignedIsConfig DEF TakeArgument
<1>3. CASE ~cfg.bad /\ cfg.wants = "" /\ arg.text \notin LongOptions /\ arg.letter = ""
  <2>1. CASE Len(cfg.inputs) >= MaxInputs
    BY <1>3, <2>1 DEF TakeArgument, Bad, Config
  <2>2. CASE ~(Len(cfg.inputs) >= MaxInputs)
    <3>1. PICK more : more = Append(cfg.inputs, arg.text)
      OBVIOUS
    <3>2. PICK n \in 0 .. MaxInputs : n = Len(cfg.inputs)
      BY Lengths
    <3>3. more \in Seq(Texts) /\ Len(more) <= MaxInputs
      BY <1>1, <2>2, <3>1, <3>2, OneMore, Lengths DEF MaxInputs
    <3>4. TakeArgument(cfg, arg) = [cfg EXCEPT !.inputs = more]
      BY <1>3, <2>2, <3>1 DEF TakeArgument
    <3> QED
      BY <3>3, <3>4 DEF Config
  <2> QED
    BY <2>1, <2>2
<1>4. CASE ~cfg.bad /\ cfg.wants = "" /\ arg.text \notin LongOptions /\ arg.letter # ""
  <2>1. CASE arg.letter \in {"c", "d", "l", "o", "s", "w"} /\ arg.attached # ""
    <3>1. TakeArgument(cfg, arg) = Assigned(cfg, arg.letter, arg.attached)
      BY <1>4, <2>1 DEF TakeArgument
    <3> QED
      BY <1>1, <2>1, <3>1, AssignedIsConfig
  <2>2. CASE arg.letter \in {"c", "d", "l", "o", "s", "w"} /\ arg.attached = ""
    <3>1. TakeArgument(cfg, arg) = [cfg EXCEPT !.wants = arg.letter]
      BY <1>4, <2>2 DEF TakeArgument
    <3> QED
      BY <2>2, <3>1 DEF Config
  <2>3. CASE arg.letter \notin {"c", "d", "l", "o", "s", "w"}
    BY <1>4, <2>3 DEF TakeArgument, Bad, Config
  <2> QED
    BY <2>1, <2>2, <2>3
<1>5. CASE cfg.bad \/ (cfg.wants = "" /\ arg.text \in LongOptions)
  BY <1>5 DEF TakeArgument, Config
<1> QED
  BY <1>2, <1>3, <1>4, <1>5 DEF Config

LEMMA ParsedIsConfig ==
  ASSUME NEW arguments \in Seq(Argument)
  PROVE  Parsed(arguments) \in Config
<1>0. PICK n \in Nat : n = Len(arguments)
  OBVIOUS
<1> DEFINE Takes(g) == g = [k \in 0 .. n |-> IF k = 0 THEN NoConfig ELSE TakeArgument(g[k - 1], arguments[k])]
           taken == CHOOSE g : Takes(g)
<1>1. Parsed(arguments) = [taken[n] EXCEPT !.bad = taken[n].bad \/ taken[n].wants # ""]
  BY <1>0 DEF Parsed
<1>2. NoConfig \in Config /\ \A k \in 1 .. n : arguments[k] \in Argument
  <2>1. << >> \in Seq(Texts) /\ Len(<< >>) = 0 /\ "" \in Texts
    BY DEF Texts
  <2>2. NoConfig.inputs = << >> /\ NoConfig.outputs = << >>
    BY DEF NoConfig
  <2>3. 0 <= MaxInputs /\ 0 <= MaxOutputs
    BY DEF MaxInputs, MaxOutputs
  <2>4. NoConfig \in Config
    BY <2>1, <2>2, <2>3 DEF NoConfig, Config
  <2> QED
    BY <1>0, <2>4
<1> HIDE DEF taken, Takes
<1>3. \E g : Takes(g)
  <2>1. PICK step \in [1 .. n -> [Config -> Config]] :
          \A k \in 1 .. n : \A cfg \in Config : step[k][cfg] = TakeArgument(cfg, arguments[k])
    <3>1. [k \in 1 .. n |-> [cfg \in Config |-> TakeArgument(cfg, arguments[k])]] \in [1 .. n -> [Config -> Config]]
      BY <1>2, TakenIsConfig
    <3> QED
      BY <3>1
  <2>2. PICK zero \in Int : zero = 0
    OBVIOUS
  <2>3. \E g \in [zero .. n -> Config] : Pure!Repeats(g, zero, n, NoConfig, step)
    <3>1. n \in Int /\ zero <= n /\ step \in [zero + 1 .. n -> [Config -> Config]] /\ NoConfig \in Config
      BY <1>2, <2>2
    <3> QED
      BY <3>1, Pure!Repetition
  <2>4. PICK g \in [0 .. n -> Config] : g[0] = NoConfig /\ \A k \in 1 .. n : g[k] = step[k][g[k - 1]]
    BY <2>2, <2>3 DEF Pure!Repeats
  <2>5. \A k \in 1 .. n : g[k] = TakeArgument(g[k - 1], arguments[k])
    BY <2>1, <2>4
  <2>6. \A k \in 0 .. n : g[k] = IF k = 0 THEN NoConfig ELSE TakeArgument(g[k - 1], arguments[k])
    BY <2>4, <2>5
  <2>7. Takes(g)
    BY <2>4, <2>6 DEF Takes
  <2> QED
    BY <2>7
<1>4. Takes(taken)
  BY <1>3 DEF taken
<1>5. taken[0] = NoConfig /\ \A k \in 1 .. n : taken[k] = TakeArgument(taken[k - 1], arguments[k])
  BY <1>4 DEF Takes
<1>6. PICK right : right = {j \in 0 .. n : taken[j] \in Config}
  OBVIOUS
<1>7. 0 \in right /\ \A k \in 0 + 1 .. n : k - 1 \in right => k \in right
  BY <1>2, <1>5, <1>6, TakenIsConfig
<1>8. taken[n] \in Config
  <2>1. \A k \in 0 .. n : k \in right
    BY <1>7, Pure!UpTo
  <2> QED
    BY <1>6, <2>1
<1> QED
  BY <1>1, <1>8 DEF Config
-----------------------------------------------------------------------------
(***************************************************************************)
(* The inductive invariant.  Held: what a name was given is in its file or *)
(* on the way to it.  Routed: every name that has a place among the sinks  *)
(* has its one buffer.  Refusals, Unsent and Progress say how far run has  *)
(* come, and what that means for the files and the status.                 *)
(***************************************************************************)
Labels == {"start", "inputs", "sinks", "engine", "running", "flush", "close", "report", "ended"}
Names == FileNames \cup Unbuffered
Token == [from : {"before"}] \cup [from : -2 .. MaxOutputs, what : {"message", "number"} \cup Out!Chars]
Writer == [name : FileNames, buffer : Seq(Token), broken : BOOLEAN]

TypeInv ==
  /\ world \in Cases /\ config = Parsed(world.arguments)
  /\ pc \in Labels /\ at \in Nat \ {0}
  /\ disk \in [Names -> Seq(Token)] /\ sent \in [Names -> Seq(Token)]
  /\ writers \in Seq(Writer) /\ sink \in Seq(Nat)
  /\ failed \in BOOLEAN /\ unclosed \in BOOLEAN
  /\ outcome \in {-1, 0, 1, 254, 255} /\ status \in {-1, 0, 1, 2, 254, 255}

Holds(stored, queues, given) ==
  /\ \A j, k \in DOMAIN queues : queues[j].name = queues[k].name => j = k
  /\ \A k \in DOMAIN queues :
       /\ stored[queues[k].name] \o queues[k].buffer = given[queues[k].name]
       /\ Len(queues[k].buffer) <= Capacity
  /\ \A n \in FileNames : (\A k \in DOMAIN queues : queues[k].name # n) =>
       stored[n] = Before(n) /\ given[n] = << >>
  /\ \A n \in Unbuffered : stored[n] = given[n]
Held == Holds(disk, writers, sent)

RoutedTo(k) ==
  /\ sink[k] \in 0 .. Len(writers)
  /\ Sinks[k] = IF sink[k] = 0 THEN Std ELSE writers[sink[k]].name
Routed ==
  /\ Len(sink) <= Len(Sinks)
  /\ \A k \in DOMAIN sink : RoutedTo(k)
  /\ \A k \in DOMAIN writers : writers[k].name \in Range(Sinks)
  /\ pc \in {"start", "inputs"} => sink = << >> /\ writers = << >>
  /\ pc = "sinks" => at <= Len(Sinks) /\ Len(sink) = at - 1
  /\ pc \in {"engine", "running", "flush", "close", "report"} => Len(sink) = Len(Sinks)

Named(i) == Inputs[i] \in {Std} \cup world.present
Refused == config.bad \/ (config.answers = {} /\ \E i \in DOMAIN Inputs : ~Named(i))
Refusals ==
  /\ pc \notin {"start", "ended"} => ~config.bad /\ config.answers = {}
  /\ pc = "inputs" => at <= Len(Inputs) /\ \A i \in DOMAIN Inputs : i < at => Named(i)
  /\ pc \notin {"start", "inputs", "ended"} => \A i \in DOMAIN Inputs : Named(i)
  /\ Refused => writers = << >> /\ sent = [n \in Names |-> << >>] /\ status \in {-1, 1}

Unsent ==
  pc \in {"start", "inputs", "sinks", "engine"} \/ 1 \in {outcome, status} =>
    sent = [n \in Names |-> << >>]

Empty(k) == writers[k].buffer = << >>
Progress ==
  /\ pc # "ended" => status = -1
  /\ pc \in {"start", "inputs", "sinks", "engine", "running"} => outcome = -1 /\ ~unclosed
  /\ pc \in {"start", "inputs", "sinks", "engine"} => ~failed
  /\ outcome \in {0, 254} => ~failed
  /\ pc = "flush" /\ ~unclosed => \A k \in DOMAIN writers : k < at => Empty(k)
  /\ pc \in {"close", "report"} /\ ~unclosed => \A k \in DOMAIN writers : Empty(k)
  /\ status \in {0, 254} /\ outcome # -1 =>
       /\ ~failed /\ Len(sink) = Len(Sinks)
       /\ \A k \in DOMAIN writers : Empty(k)

\* The output streams have aborted the process only when a call has failed.
OutputHolds == OutP!OutInv /\ aborts <= 2 /\ (~failed => aborts = 0)

IInv == TypeInv /\ Held /\ Routed /\ Refusals /\ Unsent /\ Progress /\ OutputHolds
-----------------------------------------------------------------------------
(***************************************************************************)
(* One write, to a file of its own or by way of a buffer.                  *)
(***************************************************************************)
LEMMA AfterQueue ==
  ASSUME NEW S, NEW front \in Seq(S), NEW queue \in Seq(S), NEW x \in S
  PROVE  /\ front \o queue \in Seq(S)
         /\ front \o Append(queue, x) = Append(front \o queue, x)
         /\ front \o << >> = front
<1>1. PICK m \in Nat, n \in Nat : m = Len(front) /\ n = Len(queue)
  OBVIOUS
<1>2. front \o Append(queue, x) \in Seq(S) /\ Append(front \o queue, x) \in Seq(S)
  OBVIOUS
<1>3. Len(front \o Append(queue, x)) = m + n + 1 /\ Len(Append(front \o queue, x)) = m + n + 1
  BY <1>1
<1>4. ASSUME NEW k \in 1 .. m + n + 1
      PROVE  (front \o Append(queue, x))[k] = Append(front \o queue, x)[k]
  BY <1>1
<1> QED
  BY <1>2, <1>3, <1>4

LEMMA Separate == FileNames \cap Unbuffered = {} /\ Std \in Names /\ Unbuffered \subseteq Names /\ FileNames \subseteq Names
  BY CommandAssumption DEF Names, Unbuffered

LEMMA WriterAt ==
  ASSUME NEW queues \in Seq(Writer), NEW k \in DOMAIN queues
  PROVE  /\ queues[k] \in Writer /\ queues[k].broken \in BOOLEAN /\ queues[k].buffer \in Seq(Token)
         /\ queues[k].name \in FileNames /\ queues[k].name \in Names /\ queues[k].name \notin Unbuffered
<1>1. queues[k] \in Writer
  OBVIOUS
<1>2. queues[k].broken \in BOOLEAN /\ queues[k].buffer \in Seq(Token) /\ queues[k].name \in FileNames
  BY <1>1 DEF Writer
<1> QED
  BY <1>1, <1>2, Separate

LEMMA WriterReplaced ==
  ASSUME NEW queues \in Seq(Writer), NEW k \in DOMAIN queues, NEW w \in Writer, NEW q, q = [queues EXCEPT ![k] = w]
  PROVE  /\ q \in Seq(Writer) /\ Len(q) = Len(queues) /\ DOMAIN q = DOMAIN queues /\ q[k] = w
         /\ \A j \in DOMAIN queues : j # k => q[j] = queues[j]
  OBVIOUS

Stored == [Names -> Seq(Token)]
SameNames(queues, others) ==
  Len(queues) = Len(others) /\ \A k \in DOMAIN others : queues[k].name = others[k].name

LEMMA StoreHolds ==
  ASSUME NEW stored \in Stored, NEW given \in Stored, NEW queues \in Seq(Writer), Holds(stored, queues, given),
         NEW n \in Unbuffered, NEW token \in Token
  PROVE  /\ [stored EXCEPT ![n] = Append(@, token)] \in Stored
         /\ [given EXCEPT ![n] = Append(@, token)] \in Stored
         /\ Holds([stored EXCEPT ![n] = Append(@, token)], queues, [given EXCEPT ![n] = Append(@, token)])
<1>1. n \in Names /\ n \notin FileNames
  BY Separate
<1>2. PICK d, g : d = [stored EXCEPT ![n] = Append(@, token)] /\ g = [given EXCEPT ![n] = Append(@, token)]
  OBVIOUS
<1>3. d \in Stored /\ g \in Stored
  BY <1>1, <1>2 DEF Stored
<1>4. /\ d[n] = Append(stored[n], token) /\ g[n] = Append(given[n], token)
      /\ \A m \in Names : m # n => d[m] = stored[m] /\ g[m] = given[m]
  BY <1>1, <1>2 DEF Stored
<1>5. \A k \in DOMAIN queues : queues[k].name \in FileNames
  BY WriterAt
<1>6. Holds(d, queues, g)
  BY <1>1, <1>4, <1>5, Separate DEF Holds
<1> QED
  BY <1>2, <1>3, <1>6

LEMMA BufferHolds ==
  ASSUME NEW stored \in Stored, NEW given \in Stored, NEW queues \in Seq(Writer), Holds(stored, queues, given),
         NEW k \in DOMAIN queues, Len(queues[k].buffer) < Capacity, NEW token \in Token
  PROVE  /\ [queues EXCEPT ![k].buffer = Append(@, token)] \in Seq(Writer)
         /\ SameNames([queues EXCEPT ![k].buffer = Append(@, token)], queues)
         /\ [given EXCEPT ![queues[k].name] = Append(@, token)] \in Stored
         /\ Holds(stored, [queues EXCEPT ![k].buffer = Append(@, token)],
                  [given EXCEPT ![queues[k].name] = Append(@, token)])
<1>1. PICK name, buffer : name = queues[k].name /\ buffer = queues[k].buffer
  OBVIOUS
<1>2. /\ queues[k] \in Writer /\ queues[k].broken \in BOOLEAN /\ buffer \in Seq(Token)
      /\ name \in FileNames /\ name \in Names /\ name \notin Unbuffered
  BY <1>1, WriterAt
<1>3. PICK q, g : q = [queues EXCEPT ![k].buffer = Append(@, token)] /\ g = [given EXCEPT ![name] = Append(@, token)]
  OBVIOUS
<1>4. /\ q \in Seq(Writer) /\ Len(q) = Len(queues) /\ DOMAIN q = DOMAIN queues
      /\ q[k].name = name /\ q[k].buffer = Append(buffer, token)
      /\ \A j \in DOMAIN queues : j # k => q[j] = queues[j]
  <2>1. PICK w : w = [queues[k] EXCEPT !.buffer = Append(buffer, token)]
    OBVIOUS
  <2>2. Append(buffer, token) \in Seq(Token)
    BY <1>2
  <2>3. w \in Writer /\ w.name = name /\ w.buffer = Append(buffer, token)
    BY <1>1, <1>2, <2>1, <2>2 DEF Writer
  <2>4. q = [queues EXCEPT ![k] = w]
    BY <1>1, <1>3, <2>1
  <2> QED
    BY <2>3, <2>4, WriterReplaced
<1>5. g \in Stored /\ g[name] = Append(given[name], token) /\ \A n \in Names : n # name => g[n] = given[n]
  BY <1>2, <1>3 DEF Stored
<1>6. \A j \in DOMAIN queues : q[j].name = queues[j].name
  BY <1>1, <1>4
<1>7. Holds(stored, q, g)
  <2>1. \A i, j \in DOMAIN q : q[i].name = q[j].name => i = j
    BY <1>4, <1>6 DEF Holds
  <2>2. stored[name] \o Append(buffer, token) = g[name] /\ Len(Append(buffer, token)) <= Capacity
    <3>1. stored[name] \o Append(buffer, token) = Append(stored[name] \o buffer, token)
      BY <1>2, AfterQueue DEF Stored
    <3>2. stored[name] \o buffer = given[name]
      BY <1>1 DEF Holds
    <3>3. PICK length \in Nat : length = Len(buffer)
      BY <1>2
    <3>4. Len(Append(buffer, token)) = length + 1 /\ length < Capacity
      BY <1>1, <1>2, <3>3
    <3> QED
      BY <1>5, <3>1, <3>2, <3>4, CommandAssumption
  <2>3. ASSUME NEW j \in DOMAIN q
        PROVE  stored[q[j].name] \o q[j].buffer = g[q[j].name] /\ Len(q[j].buffer) <= Capacity
    <3>1. CASE j = k
      BY <1>4, <2>2, <3>1
    <3>2. CASE j # k
      <4>1. q[j] = queues[j] /\ queues[j].name \in Names
        BY <1>4, <3>2, WriterAt
      <4>2. queues[j].name # name
        BY <1>1, <1>4, <3>2 DEF Holds
      <4>3. stored[queues[j].name] \o queues[j].buffer = given[queues[j].name] /\ Len(queues[j].buffer) <= Capacity
        BY <1>4, <3>2 DEF Holds
      <4>4. g[queues[j].name] = given[queues[j].name]
        BY <1>5, <4>1, <4>2
      <4> QED
        BY <4>1, <4>3, <4>4
    <3> QED
      BY <3>1, <3>2
  <2>4. ASSUME NEW n \in FileNames, \A j \in DOMAIN q : q[j].name # n
        PROVE  stored[n] = Before(n) /\ g[n] = << >>
    <3>1. n # name /\ n \in Names /\ \A j \in DOMAIN queues : queues[j].name # n
      BY <1>4, <1>6, <2>4, Separate
    <3>2. stored[n] = Before(n) /\ given[n] = << >>
      BY <3>1 DEF Holds
    <3> QED
      BY <1>5, <3>1, <3>2
  <2>5. \A n \in Unbuffered : stored[n] = g[n]
    BY <1>2, <1>5, Separate DEF Holds
  <2> QED
    BY <2>1, <2>3, <2>4, <2>5 DEF Holds
<1> QED
  BY <1>1, <1>3, <1>4, <1>5, <1>6, <1>7 DEF SameNames

LEMMA FlushHolds ==
  ASSUME NEW stored \in Stored, NEW given \in Stored, NEW queues \in Seq(Writer), Holds(stored, queues, given),
         NEW k \in DOMAIN queues
  PROVE  /\ [queues EXCEPT ![k].buffer = << >>] \in Seq(Writer)
         /\ SameNames([queues EXCEPT ![k].buffer = << >>], queues)
         /\ [stored EXCEPT ![queues[k].name] = @ \o queues[k].buffer] \in Stored
         /\ Holds([stored EXCEPT ![queues[k].name] = @ \o queues[k].buffer],
                  [queues EXCEPT ![k].buffer = << >>], given)
<1>1. PICK name, buffer : name = queues[k].name /\ buffer = queues[k].buffer
  OBVIOUS
<1>2. /\ queues[k] \in Writer /\ queues[k].broken \in BOOLEAN /\ buffer \in Seq(Token)
      /\ name \in FileNames /\ name \in Names /\ name \notin Unbuffered
  BY <1>1, WriterAt
<1>3. PICK q, d : q = [queues EXCEPT ![k].buffer = << >>] /\ d = [stored EXCEPT ![name] = @ \o buffer]
  OBVIOUS
<1>4. /\ q \in Seq(Writer) /\ Len(q) = Len(queues) /\ DOMAIN q = DOMAIN queues
      /\ q[k].name = name /\ q[k].buffer = << >>
      /\ \A j \in DOMAIN queues : j # k => q[j] = queues[j]
  <2>1. PICK w : w = [queues[k] EXCEPT !.buffer = << >>]
    OBVIOUS
  <2>2. << >> \in Seq(Token)
    OBVIOUS
  <2>3. w \in Writer /\ w.name = name /\ w.buffer = << >>
    BY <1>1, <1>2, <2>1, <2>2 DEF Writer
  <2>4. q = [queues EXCEPT ![k] = w]
    BY <1>1, <1>3, <2>1
  <2> QED
    BY <2>3, <2>4, WriterReplaced
<1>5. d \in Stored /\ d[name] = stored[name] \o buffer /\ \A n \in Names : n # name => d[n] = stored[n]
  BY <1>2, <1>3 DEF Stored
<1>6. \A j \in DOMAIN queues : q[j].name = queues[j].name
  BY <1>1, <1>4
<1>7. Holds(d, q, given)
  <2>1. \A i, j \in DOMAIN q : q[i].name = q[j].name => i = j
    BY <1>4, <1>6 DEF Holds
  <2>2. d[name] \o << >> = given[name] /\ Len(<< >>) <= Capacity
    <3>1. d[name] \in Seq(Token) /\ Len(<< >>) = 0
      BY <1>2, <1>5 DEF Stored
    <3>2. d[name] \o << >> = d[name]
      BY <3>1
    <3>3. 0 <= Capacity
      BY CommandAssumption
    <3> QED
      BY <1>1, <1>5, <3>1, <3>2, <3>3 DEF Holds
  <2>3. ASSUME NEW j \in DOMAIN q
        PROVE  d[q[j].name] \o q[j].buffer = given[q[j].name] /\ Len(q[j].buffer) <= Capacity
    <3>1. CASE j = k
      BY <1>4, <2>2, <3>1
    <3>2. CASE j # k
      <4>1. q[j] = queues[j] /\ queues[j].name \in Names
        BY <1>4, <3>2, WriterAt
      <4>2. queues[j].name # name
        BY <1>1, <1>4, <3>2 DEF Holds
      <4>3. stored[queues[j].name] \o queues[j].buffer = given[queues[j].name] /\ Len(queues[j].buffer) <= Capacity
        BY <1>4, <3>2 DEF Holds
      <4>4. d[queues[j].name] = stored[queues[j].name]
        BY <1>5, <4>1, <4>2
      <4> QED
        BY <4>1, <4>3, <4>4
    <3> QED
      BY <3>1, <3>2
  <2>4. ASSUME NEW n \in FileNames, \A j \in DOMAIN q : q[j].name # n
        PROVE  d[n] = Before(n) /\ given[n] = << >>
    <3>1. n # name /\ n \in Names /\ \A j \in DOMAIN queues : queues[j].name # n
      BY <1>4, <1>6, <2>4, Separate
    <3>2. stored[n] = Before(n) /\ given[n] = << >>
      BY <3>1 DEF Holds
    <3> QED
      BY <1>5, <3>1, <3>2
  <2>5. \A n \in Unbuffered : d[n] = given[n]
    BY <1>2, <1>5, Separate DEF Holds
  <2> QED
    BY <2>1, <2>3, <2>4, <2>5 DEF Holds
<1> QED
  BY <1>1, <1>3, <1>4, <1>5, <1>6, <1>7 DEF SameNames

LEMMA BreakHolds ==
  ASSUME NEW stored, NEW given, NEW queues \in Seq(Writer), Holds(stored, queues, given), NEW k \in DOMAIN queues
  PROVE  /\ [queues EXCEPT ![k].broken = TRUE] \in Seq(Writer)
         /\ SameNames([queues EXCEPT ![k].broken = TRUE], queues)
         /\ Holds(stored, [queues EXCEPT ![k].broken = TRUE], given)
<1>1. PICK q : q = [queues EXCEPT ![k].broken = TRUE]
  OBVIOUS
<1>2. /\ q \in Seq(Writer) /\ Len(q) = Len(queues) /\ DOMAIN q = DOMAIN queues
      /\ \A j \in DOMAIN queues : q[j].name = queues[j].name /\ q[j].buffer = queues[j].buffer
  <2>1. PICK w : w = [queues[k] EXCEPT !.broken = TRUE]
    OBVIOUS
  <2>2. w \in Writer /\ w.name = queues[k].name /\ w.buffer = queues[k].buffer
    BY <2>1, WriterAt DEF Writer
  <2>3. q = [queues EXCEPT ![k] = w]
    BY <1>1, <2>1
  <2> QED
    BY <2>2, <2>3, WriterReplaced
<1>3. Holds(stored, q, given)
  <2>1. \A i, j \in DOMAIN q : q[i].name = q[j].name => i = j
    BY <1>2 DEF Holds
  <2>2. ASSUME NEW j \in DOMAIN q
        PROVE  stored[q[j].name] \o q[j].buffer = given[q[j].name] /\ Len(q[j].buffer) <= Capacity
    <3>1. stored[queues[j].name] \o queues[j].buffer = given[queues[j].name] /\ Len(queues[j].buffer) <= Capacity
      BY <1>2 DEF Holds
    <3> QED
      BY <1>2, <3>1
  <2>3. ASSUME NEW n \in FileNames, \A j \in DOMAIN q : q[j].name # n
        PROVE  stored[n] = Before(n) /\ given[n] = << >>
    BY <1>2, <2>3 DEF Holds
  <2>4. \A n \in Unbuffered : stored[n] = given[n]
    BY DEF Holds
  <2> QED
    BY <2>1, <2>2, <2>3, <2>4 DEF Holds
<1> QED
  BY <1>1, <1>2, <1>3 DEF SameNames
-----------------------------------------------------------------------------
States ==
  {st \in [disk : Stored, writers : Seq(Writer), sent : Stored, fails : SUBSET Int] :
     Holds(st.disk, st.writers, st.sent) /\ SameNames(st.writers, writers)}
Aim == [id : -2 .. MaxOutputs, sink : 0 .. Len(writers), name : Names, token : Token]

LEMMA StateParts ==
  ASSUME NEW st \in States
  PROVE  /\ st.disk \in Stored /\ st.writers \in Seq(Writer) /\ st.sent \in Stored /\ st.fails \in SUBSET Int
         /\ Holds(st.disk, st.writers, st.sent) /\ SameNames(st.writers, writers)
  BY DEF States

State(d, q, g, f) == [disk |-> d, writers |-> q, sent |-> g, fails |-> f]

LEMMA StateWhole ==
  ASSUME NEW queues \in Seq(Writer), SameNames(queues, writers),
         NEW d \in Stored, NEW q \in Seq(Writer), NEW g \in Stored, NEW f \in SUBSET Int,
         Holds(d, q, g), SameNames(q, queues)
  PROVE  State(d, q, g, f) \in States
<1>1. SameNames(q, writers)
  <2>1. \A k \in DOMAIN writers : k \in DOMAIN queues
    BY DEF SameNames
  <2> QED
    BY <2>1 DEF SameNames
<1> QED
  BY <1>1 DEF State, States

LEMMA RefuseState ==
  ASSUME NEW st \in States, NEW id
  PROVE  Refuse(st, id) = State(st.disk, st.writers, st.sent, st.fails \cup {id})
<1>1. Refuse(st, id) = [st EXCEPT !.fails = st.fails \cup {id}]
  BY DEF Refuse
<1> QED
  BY <1>1 DEF State, States

LEMMA PutKeeps ==
  ASSUME writers \in Seq(Writer), NEW st \in States, NEW w \in Aim, w.sink = 0 => w.name \in Unbuffered, NEW io
  PROVE  Put(st, w, io) \in States
<1>1. PICK d, q, g, f : d = st.disk /\ q = st.writers /\ g = st.sent /\ f = st.fails
  OBVIOUS
<1>2. d \in Stored /\ q \in Seq(Writer) /\ g \in Stored /\ f \in SUBSET Int /\ Holds(d, q, g) /\ SameNames(q, writers)
  BY <1>1, StateParts
<1>3. PICK name, token, id, k : name = w.name /\ token = w.token /\ id = w.id /\ k = w.sink
  OBVIOUS
<1>4. token \in Token /\ id \in Int /\ k \in 0 .. Len(writers)
  BY <1>3 DEF Aim, MaxOutputs
<1>5. f \cup {id} \in SUBSET Int /\ SameNames(q, q)
  BY <1>2, <1>4 DEF SameNames
<1>6. Refuse(st, id) \in States
  <2>1. Refuse(st, id) = State(d, q, g, f \cup {id})
    BY <1>1, RefuseState
  <2> QED
    BY <1>2, <1>5, <2>1, StateWhole
<1>7. CASE k = 0
  <2>1. CASE ~io
    BY <1>3, <1>6, <1>7, <2>1 DEF Put, PutStd
  <2>2. CASE io
    <3>1. PICK d2, g2 : d2 = [d EXCEPT ![name] = Append(@, token)] /\ g2 = [g EXCEPT ![name] = Append(@, token)]
      OBVIOUS
    <3>2. d2 \in Stored /\ g2 \in Stored /\ Holds(d2, q, g2)
      BY <1>2, <1>3, <1>4, <1>7, <3>1, StoreHolds
    <3>3. Put(st, w, io) = State(d2, q, g2, f)
      BY <1>1, <1>3, <1>7, <2>2, <3>1 DEF Put, PutStd, Store, State, States
    <3> QED
      BY <1>1, <1>2, <1>5, <3>2, <3>3, StateWhole
  <2> QED
    BY <2>1, <2>2
<1>8. CASE k # 0
  <2>1. k \in DOMAIN q
    BY <1>2, <1>4, <1>8 DEF SameNames
  <2>2. Put(st, w, io) = PutBuffered(st, k, id, token, io)
    BY <1>3, <1>8 DEF Put
  <2>3. CASE q[k].broken
    BY <1>1, <1>6, <2>2, <2>3 DEF PutBuffered
  <2>4. CASE ~q[k].broken /\ Len(q[k].buffer) < Capacity
    <3>1. PICK q2, g2 : q2 = [q EXCEPT ![k].buffer = Append(@, token)] /\ g2 = [g EXCEPT ![q[k].name] = Append(@, token)]
      OBVIOUS
    <3>2. q2 \in Seq(Writer) /\ SameNames(q2, q) /\ g2 \in Stored /\ Holds(d, q2, g2)
      BY <1>2, <1>4, <2>1, <2>4, <3>1, BufferHolds
    <3>3. Put(st, w, io) = State(d, q2, g2, f)
      BY <1>1, <2>2, <2>4, <3>1 DEF PutBuffered, Buffered, State, States
    <3> QED
      BY <1>1, <1>2, <3>2, <3>3, StateWhole
  <2>5. CASE ~q[k].broken /\ ~(Len(q[k].buffer) < Capacity) /\ io
    <3>1. PICK q1, d1 : q1 = [q EXCEPT ![k].buffer = << >>] /\ d1 = [d EXCEPT ![q[k].name] = @ \o q[k].buffer]
      OBVIOUS
    <3>2. q1 \in Seq(Writer) /\ SameNames(q1, q) /\ d1 \in Stored /\ Holds(d1, q1, g)
      BY <1>2, <2>1, <3>1, FlushHolds
    <3>3. k \in DOMAIN q1 /\ q1[k].buffer = << >> /\ q1[k].name = q[k].name
      <4>1. k \in DOMAIN q1 /\ q1[k] = [q[k] EXCEPT !.buffer = << >>] /\ q[k] \in Writer
        BY <1>2, <2>1, <3>1, WriterAt
      <4> QED
        BY <4>1 DEF Writer
    <3>4. Len(<< >>) < Capacity
      BY CommandAssumption
    <3>5. PICK q2, g2 : q2 = [q1 EXCEPT ![k].buffer = Append(@, token)] /\ g2 = [g EXCEPT ![q1[k].name] = Append(@, token)]
      OBVIOUS
    <3>6. q2 \in Seq(Writer) /\ SameNames(q2, q1) /\ g2 \in Stored /\ Holds(d1, q2, g2)
      BY <1>2, <1>4, <3>2, <3>3, <3>4, <3>5, BufferHolds
    <3>7. SameNames(q2, q)
      BY <1>2, <3>2, <3>6 DEF SameNames
    <3>8. Flushed(st, k) = [st EXCEPT !.disk = d1, !.writers = q1]
      BY <1>1, <3>1 DEF Flushed, States
    <3>9. Put(st, w, io) = State(d1, q2, g2, f)
      BY <1>1, <2>2, <2>5, <3>5, <3>8 DEF PutBuffered, Buffered, State, States
    <3> QED
      BY <1>1, <1>2, <3>2, <3>6, <3>7, <3>9, StateWhole
  <2>6. CASE ~q[k].broken /\ ~(Len(q[k].buffer) < Capacity) /\ ~io
    <3>1. PICK q2 : q2 = [q EXCEPT ![k].broken = TRUE]
      OBVIOUS
    <3>2. q2 \in Seq(Writer) /\ SameNames(q2, q) /\ Holds(d, q2, g)
      BY <1>2, <2>1, <3>1, BreakHolds
    <3>3. Put(st, w, io) = State(d, q2, g, f \cup {id})
      BY <1>1, <2>2, <2>6, <3>1 DEF PutBuffered, Refuse, Broken, State, States
    <3> QED
      BY <1>1, <1>2, <1>5, <3>2, <3>3, StateWhole
  <2> QED
    BY <2>3, <2>4, <2>5, <2>6
<1> QED
  BY <1>7, <1>8
-----------------------------------------------------------------------------
(***************************************************************************)
(* What the names on the command line are good for.                        *)
(***************************************************************************)
LEMMA OrStdNames ==
  ASSUME NEW S, NEW names \in Seq(S), NEW most \in Nat \ {0}, Len(names) \in 0 .. most
  PROVE  OrStd(names) \in Seq(S \cup {Std}) /\ Len(OrStd(names)) \in 1 .. most
<1>1. PICK n \in 0 .. most : n = Len(names)
  OBVIOUS
<1>2. CASE names = << >>
  BY <1>2 DEF OrStd
<1>3. CASE names # << >>
  <2>1. n # 0
    BY <1>1, <1>3
  <2>2. n \in 1 .. most
    BY <2>1
  <2> QED
    BY <1>1, <1>3, <2>2 DEF OrStd
<1> QED
  BY <1>2, <1>3

LEMMA Configured ==
  ASSUME TypeInv
  PROVE  /\ config \in Config
         /\ OutputNames \in Seq(FileNames \cup {Std}) /\ Len(OutputNames) \in 1 .. MaxOutputs
         /\ Sinks \in Seq(FileNames \cup {Std}) /\ Len(OutputNames) <= Len(Sinks)
         /\ config.debug # "" => Len(OutputNames) + 1 <= Len(Sinks)
         /\ Len(Inputs) \in Nat \ {0} /\ DOMAIN Inputs = 1 .. Len(Inputs)
<1>1. config \in Config
  BY ParsedIsConfig, CommandAssumption DEF TypeInv
<1>2. Range(config.outputs) \cup ({config.debug, config.listing} \ {""}) \subseteq FileNames \cup {Std}
  BY NamesAssumption DEF TypeInv
<1>3. OutputNames \in Seq(FileNames \cup {Std}) /\ Len(OutputNames) \in 1 .. MaxOutputs
  <2>1. config.outputs \in Seq(FileNames \cup {Std})
    <3>1. config.outputs \in Seq(Texts)
      BY <1>1, Lengths
    <3>2. \A k \in DOMAIN config.outputs : config.outputs[k] \in FileNames \cup {Std}
      BY <1>2 DEF Range
    <3> QED
      BY <3>1, <3>2
  <2>2. Len(config.outputs) \in 0 .. MaxOutputs /\ MaxOutputs \in Nat \ {0}
    BY <1>1, Lengths DEF MaxOutputs
  <2>3. (FileNames \cup {Std}) \cup {Std} = FileNames \cup {Std}
    OBVIOUS
  <2> QED
    BY <2>1, <2>2, <2>3, OrStdNames DEF OutputNames
<1>4. /\ Given(config.debug) \in Seq(FileNames \cup {Std}) /\ Given(config.listing) \in Seq(FileNames \cup {Std})
      /\ config.debug # "" => Len(Given(config.debug)) = 1
  <2>1. PICK S : S = FileNames \cup {Std}
    OBVIOUS
  <2>2. /\ config.debug = "" \/ config.debug \in S
        /\ config.listing = "" \/ config.listing \in S
    BY <1>2, <2>1
  <2>3. << >> \in Seq(S) /\ \A x \in S : <<x>> \in Seq(S) /\ Len(<<x>>) = 1
    OBVIOUS
  <2>4. \A name : Given(name) = IF name = "" THEN << >> ELSE <<name>>
    BY DEF Given
  <2> QED
    BY <2>1, <2>2, <2>3, <2>4, Zenon
<1>5. /\ Sinks \in Seq(FileNames \cup {Std}) /\ Len(OutputNames) <= Len(Sinks)
      /\ config.debug # "" => Len(OutputNames) + 1 <= Len(Sinks)
  <2>1. PICK a, b, c : a = OutputNames /\ b = Given(config.debug) /\ c = Given(config.listing)
    OBVIOUS
  <2>2. a \in Seq(FileNames \cup {Std}) /\ b \in Seq(FileNames \cup {Std}) /\ c \in Seq(FileNames \cup {Std})
    BY <1>3, <1>4, <2>1
  <2>3. PICK l \in Nat, m \in Nat, n \in Nat : l = Len(a) /\ m = Len(b) /\ n = Len(c)
    BY <2>2
  <2>4. Len((a \o b) \o c) = (l + m) + n /\ (a \o b) \o c \in Seq(FileNames \cup {Std})
    <3>0. a \o b \in Seq(FileNames \cup {Std})
      BY <2>2
    <3>1. PICK ab \in Seq(FileNames \cup {Std}) : ab = a \o b
      BY <3>0, Zenon
    <3>2. Len(ab) = l + m
      BY <2>2, <2>3, <3>1
    <3>3. Len(ab \o c) = (l + m) + n /\ ab \o c \in Seq(FileNames \cup {Std})
      BY <2>2, <2>3, <3>2
    <3> QED
      BY <3>1, <3>3
  <2>5. config.debug # "" => m = 1
    BY <1>4, <2>1, <2>3
  <2>6. Sinks = a \o b \o c
    BY <2>1 DEF Sinks
  <2>7. l <= l + m + n /\ (m = 1 => l + 1 <= l + m + n)
    OBVIOUS
  <2> QED
    BY <2>1, <2>3, <2>4, <2>5, <2>6, <2>7
<1>6. Len(Inputs) \in Nat \ {0} /\ DOMAIN Inputs = 1 .. Len(Inputs)
  <2>1. config.inputs \in Seq(Texts) /\ Len(config.inputs) \in 0 .. MaxInputs /\ MaxInputs \in Nat \ {0}
    BY <1>1, Lengths DEF MaxInputs
  <2>2. Inputs \in Seq(Texts \cup {Std}) /\ Len(Inputs) \in 1 .. MaxInputs
    BY <2>1, OrStdNames DEF Inputs
  <2> QED
    BY <2>1, <2>2
<1> QED
  BY <1>1, <1>3, <1>5, <1>6

LEMMA Enough ==
  ASSUME TypeInv
  PROVE  1 <= Len(Inputs) /\ 1 <= Len(Sinks)
<1>1. Len(Inputs) \in Nat \ {0} /\ Len(OutputNames) \in 1 .. MaxOutputs /\ Len(OutputNames) <= Len(Sinks)
  BY Configured
<1>2. PICK l, m, n : l = Len(Inputs) /\ m = Len(OutputNames) /\ n = Len(Sinks)
  OBVIOUS
<1>3. n \in Nat
  <2>1. Sinks \in Seq(FileNames \cup {Std})
    BY Configured
  <2> QED
    BY <1>2, <2>1
<1>4. l \in Nat \ {0} /\ m \in 1 .. MaxOutputs /\ m <= n
  BY <1>1, <1>2
<1>5. 1 <= l /\ 1 <= n
  BY <1>3, <1>4 DEF MaxOutputs
<1> QED
  BY <1>2, <1>5

LEMMA Settled ==
  ASSUME UNCHANGED <<world, config>>
  PROVE  /\ Sinks' = Sinks /\ Inputs' = Inputs /\ OutputNames' = OutputNames /\ HasListing' = HasListing
         /\ \A n : Before(n)' = Before(n)
         /\ \A i : Named(i)' <=> Named(i)
         /\ Refused' <=> Refused
  BY DEF Sinks, Inputs, OutputNames, HasListing, OrStd, Given, Before, Named, Refused

LEMMA HeldAfter ==
  ASSUME UNCHANGED <<world, config>>, Holds(disk', writers', sent')
  PROVE  Held'
  BY Settled DEF Held, Holds
-----------------------------------------------------------------------------
(***************************************************************************)
(* The writes of a character, from the first to the last.                  *)
(***************************************************************************)
LEMMA AimedAt ==
  ASSUME TypeInv, Routed, pc = "running", NEW id \in -1 .. MaxOutputs, NEW ch \in Out!Chars
  PROVE  WriteOf(id, ch) \in Aim /\ (WriteOf(id, ch).sink = 0 => WriteOf(id, ch).name \in Unbuffered)
<1>1. PICK place : place = IF id \in Out!Outputs THEN id ELSE Len(Sinks)
  OBVIOUS
<1>2. PICK n \in Nat : n = Len(Sinks)
  <2>1. Sinks \in Seq(FileNames \cup {Std})
    BY Configured
  <2>2. Len(Sinks) \in Nat
    BY <2>1
  <2> QED
    BY <2>2, Zenon
<1>3. PICK m \in 1 .. MaxOutputs : m = Len(OutputNames)
  <2>1. Len(OutputNames) \in 1 .. MaxOutputs
    BY Configured
  <2> QED
    BY <2>1, Zenon
<1>4. Out!Outputs = 1 .. m /\ m <= n
  BY <1>2, <1>3, Configured DEF Out!Outputs
<1>5. place \in 1 .. n
  <2>1. m \in Nat /\ m >= 1
    BY <1>3 DEF MaxOutputs
  <2>2. place \in 1 .. m \/ place = n
    BY <1>1, <1>2, <1>4
  <2>3. n >= 1
    BY <1>4, <2>1
  <2> QED
    BY <1>4, <2>1, <2>2, <2>3
<1>6. place \in DOMAIN Sinks /\ place \in DOMAIN sink /\ Sinks[place] \in FileNames \cup {Std}
  <2>1. Sinks \in Seq(FileNames \cup {Std}) /\ sink \in Seq(Nat)
    BY Configured DEF TypeInv
  <2>2. place \in DOMAIN Sinks /\ Sinks[place] \in FileNames \cup {Std}
    BY <1>2, <1>5, <2>1
  <2>3. Len(sink) = n
    BY <1>2 DEF Routed
  <2> QED
    BY <1>5, <2>1, <2>2, <2>3
<1>7. RoutedTo(place)
  BY <1>6 DEF Routed
<1>8. sink[place] \in 0 .. Len(writers) /\ (sink[place] = 0 => Sinks[place] = Std) /\ Sinks[place] \in Names
  BY <1>6, <1>7, Separate DEF RoutedTo
<1>9. PICK token : token = [from |-> id, what |-> IF id = Out!LineNumber THEN "number" ELSE ch]
  OBVIOUS
<1>10. token \in Token
  BY <1>9 DEF Token, MaxOutputs
<1>11. WriteOf(id, ch) = [id |-> id, sink |-> sink[place], name |-> Sinks[place], token |-> token]
  BY <1>1, <1>9 DEF WriteOf
<1>12. id \in -2 .. MaxOutputs
  BY DEF MaxOutputs
<1> QED
  BY <1>8, <1>10, <1>11, <1>12 DEF Aim, Unbuffered

LEMMA PutAllKeeps ==
  ASSUME TypeInv, Routed, Held, pc = "running", NEW ids, NEW ch \in Out!Chars, NEW faulty
  PROVE  PutAll(ids, ch, faulty) \in States
<1> DEFINE PutNext(st, id) == IF id \in ids THEN Put(st, WriteOf(id, ch), id \notin faulty) ELSE st
           Puts(g) == g = [id \in -2 .. MaxOutputs |->
                             IF id = -2 THEN Unwritten
                             ELSE IF id \in ids THEN Put(g[id - 1], WriteOf(id, ch), id \notin faulty)
                             ELSE g[id - 1]]
           upTo == CHOOSE g : Puts(g)
<1>1. PutAll(ids, ch, faulty) = upTo[MaxOutputs]
  BY DEF PutAll
<1>2. Unwritten \in States
  BY DEF Unwritten, States, TypeInv, Held, SameNames, Stored
<1>3. \A st \in States : \A id \in -1 .. MaxOutputs : PutNext(st, id) \in States
  <2>1. ASSUME NEW st \in States, NEW id \in -1 .. MaxOutputs
        PROVE  PutNext(st, id) \in States
    <3>1. PICK w : w = WriteOf(id, ch)
      OBVIOUS
    <3>2. w \in Aim /\ (w.sink = 0 => w.name \in Unbuffered)
      BY <3>1, AimedAt
    <3>3. Put(st, w, id \notin faulty) \in States
      BY <3>2, PutKeeps DEF TypeInv
    <3> QED
      BY <3>1, <3>3
  <2> QED
    BY <2>1
<1>4. PICK first \in Int, last \in Int : first = -2 /\ last = MaxOutputs /\ first <= last
  BY DEF MaxOutputs
<1>5. first + 1 .. last = -1 .. MaxOutputs /\ first .. last = -2 .. MaxOutputs
  BY <1>4
<1> HIDE DEF PutNext, Puts, upTo
<1>6. \E g : Puts(g)
  <2>1. PICK step : step = [id \in first + 1 .. last |-> [st \in States |-> PutNext(st, id)]]
    OBVIOUS
  <2>2. step \in [first + 1 .. last -> [States -> States]]
    BY <1>3, <1>5, <2>1
  <2>3. PICK g \in [first .. last -> States] : Pure!Repeats(g, first, last, Unwritten, step)
    BY <1>2, <1>4, <2>2, Pure!Repetition
  <2>4. g[-2] = Unwritten /\ \A id \in -1 .. MaxOutputs : g[id] = step[id][g[id - 1]]
    BY <1>4, <1>5, <2>3 DEF Pure!Repeats
  <2>5. \A id \in -1 .. MaxOutputs : g[id] = PutNext(g[id - 1], id)
    <3>1. ASSUME NEW id \in -1 .. MaxOutputs
          PROVE  g[id - 1] \in States /\ g[id] = PutNext(g[id - 1], id)
      <4>1. id - 1 \in first .. last
        BY <1>4 DEF MaxOutputs
      <4> QED
        BY <1>5, <2>1, <2>4, <4>1
    <3> QED
      BY <3>1
  <2>6. ASSUME NEW id \in -2 .. MaxOutputs
        PROVE  g[id] = IF id = -2 THEN Unwritten
                       ELSE IF id \in ids THEN Put(g[id - 1], WriteOf(id, ch), id \notin faulty)
                       ELSE g[id - 1]
    <3>1. id = -2 \/ (id # -2 /\ id \in -1 .. MaxOutputs)
      BY DEF MaxOutputs
    <3> QED
      BY <2>4, <2>5, <3>1 DEF PutNext
  <2>7. DOMAIN g = -2 .. MaxOutputs
    BY <1>5
  <2>8. Puts(g)
    BY <2>6, <2>7 DEF Puts
  <2> QED
    BY <2>8
<1>7. Puts(upTo)
  BY <1>6 DEF upTo
<1>8. upTo[-2] = Unwritten /\ \A id \in -1 .. MaxOutputs : upTo[id] = PutNext(upTo[id - 1], id)
  BY <1>7 DEF Puts, PutNext, MaxOutputs
<1>9. PICK right : right = {id \in first .. last : upTo[id] \in States}
  OBVIOUS
<1>10. first \in right /\ \A id \in first + 1 .. last : id - 1 \in right => id \in right
  <2>1. first \in right
    BY <1>2, <1>4, <1>8, <1>9
  <2>2. \A id \in first + 1 .. last : id - 1 \in right => id \in right
    BY <1>3, <1>4, <1>5, <1>8, <1>9
  <2> QED
    BY <2>1, <2>2
<1>11. \A id \in first .. last : id \in right
  BY <1>10, Pure!UpTo
<1> QED
  BY <1>1, <1>4, <1>9, <1>11
-----------------------------------------------------------------------------
(***************************************************************************)
(* The facts of OutputProofs, in the words of Command.                     *)
(***************************************************************************)
LEMMA OutputsAreFew == TypeInv => OutP!OutputAssumption
<1> SUFFICES ASSUME TypeInv PROVE OutP!OutputAssumption
  OBVIOUS
<1>1. Len(OutputNames) \in 1 .. MaxOutputs
  BY Configured
<1>2. PICK n : n = Len(OutputNames)
  OBVIOUS
<1>3. n \in 0 .. MaxOutputs
  BY <1>1, <1>2 DEF MaxOutputs
<1>4. HasListing \in BOOLEAN /\ S21Values \subseteq SUBSET (1 .. MaxOutputs)
  BY CommandAssumption DEF HasListing
<1> QED
  BY <1>2, <1>3, <1>4 DEF OutP!OutputAssumption, OutP!MaxOutputs, MaxOutputs

LEMMA SameInit == Out!Init => OutP!Init
  BY DEF Out!Init, Out!Outputs, Out!MaxOutputs, OutP!Init, OutP!Outputs, OutP!MaxOutputs

LEMMA SameAssign == Out!Assign => OutP!Assign
  BY DEF Out!Assign, OutP!Assign

LEMMA SameWrites ==
  /\ Out!Outputs = OutP!Outputs /\ Out!Writes = OutP!Writes
  /\ \A fails, redirect :
       /\ Out!Completes(fails, redirect) <=> OutP!Completes(fails, redirect)
       /\ Out!Done(fails, redirect) = OutP!Done(fails, redirect)
       /\ Out!Failed(fails, redirect) = OutP!Failed(fails, redirect)
<1>1. Out!Outputs = OutP!Outputs
  BY DEF Out!Outputs, OutP!Outputs
<1>2. Out!Writes = OutP!Writes
  BY <1>1 DEF Out!Writes, Out!Selected, Out!Listed, Out!LineNumber, Out!listingNumbered,
              OutP!Writes, OutP!Selected, OutP!Listed, OutP!LineNumber, OutP!listingNumbered
<1>3. ASSUME NEW fails, NEW redirect
      PROVE  Out!StopsAt(fails, redirect) = OutP!StopsAt(fails, redirect)
  BY <1>1 DEF Out!StopsAt, OutP!StopsAt
<1>4. ASSUME NEW fails, NEW redirect
      PROVE  Out!Attempted(fails, redirect) = OutP!Attempted(fails, redirect)
  BY <1>2, <1>3 DEF Out!Attempted, OutP!Attempted
<1> QED
  BY <1>1, <1>2, <1>3, <1>4 DEF Out!Completes, Out!Done, Out!Failed, OutP!Completes, OutP!Done, OutP!Failed

LEMMA SameCardinality ==
  ASSUME NEW S
  PROVE  Out!Cardinality(S) = Cardinality(S) /\ OutP!Cardinality(S) = Cardinality(S)
  BY DEF Out!Cardinality, OutP!Cardinality, Cardinality

LEMMA SameWriteChar ==
  ASSUME NEW ch, NEW fails, NEW redirect, Out!WriteChar(ch, fails, redirect)
  PROVE  OutP!WriteChar(ch, fails, redirect)
<1>1. Out!OutputLine = OutP!OutputLine /\ Out!NL = OutP!NL /\ Out!Listed = OutP!Listed /\ Out!LineNumber = OutP!LineNumber
  BY DEF Out!OutputLine, OutP!OutputLine, Out!NL, OutP!NL, Out!Listed, OutP!Listed, Out!LineNumber, OutP!LineNumber
<1>2. \A done : Out!SetAtLineStart(done, ch) = OutP!SetAtLineStart(done, ch)
  BY <1>1 DEF Out!SetAtLineStart, OutP!SetAtLineStart
<1>3. /\ Out!Outputs = OutP!Outputs /\ Out!Writes = OutP!Writes
      /\ Out!Completes(fails, redirect) <=> OutP!Completes(fails, redirect)
      /\ Out!Done(fails, redirect) = OutP!Done(fails, redirect)
      /\ Out!Failed(fails, redirect) = OutP!Failed(fails, redirect)
  BY SameWrites
<1>4. Out!Cardinality(Out!Failed(fails, redirect)) = OutP!Cardinality(OutP!Failed(fails, redirect))
  BY <1>3, SameCardinality, Zenon
<1>5. s19' = OutP!OutputLine /\ s24' = OutP!SetAtLineStart(OutP!Done(fails, redirect) \cap OutP!Outputs, ch)
  BY <1>1, <1>2, <1>3, Zenon DEF Out!WriteChar
<1>6. atLineStart' = IF OutP!Completes(fails, redirect) THEN ch = OutP!NL ELSE atLineStart
  BY <1>1, <1>3, Zenon DEF Out!WriteChar
<1>7. aborts' = aborts + OutP!Cardinality(OutP!Failed(fails, redirect))
  BY <1>4, Zenon DEF Out!WriteChar
<1>8. files' = [i \in OutP!Outputs |-> IF i \in OutP!Done(fails, redirect) THEN Append(files[i], ch) ELSE files[i]]
  BY <1>3 DEF Out!WriteChar
<1>9. listing' = listing
          \o (IF OutP!LineNumber \in OutP!Done(fails, redirect) THEN <<[shows |-> "number", of |-> s19']>> ELSE << >>)
          \o (IF OutP!Listed \in OutP!Done(fails, redirect) THEN <<[shows |-> "char", of |-> Len(text) + 1]>> ELSE << >>)
  BY <1>1, <1>3 DEF Out!WriteChar
<1>10. /\ fails \subseteq OutP!Writes
       /\ text' = Append(text, [ch |-> ch, s20 |-> s20, s21 |-> s21, s22 |-> s22])
       /\ UNCHANGED <<[outputs |-> Len(OutputNames), listing |-> HasListing], s20, s21, s22>>
  BY <1>3 DEF Out!WriteChar
<1> QED
  BY <1>5, <1>6, <1>7, <1>8, <1>9, <1>10 DEF OutP!WriteChar

LEMMA SameChars == Out!Chars = OutP!Chars
  BY DEF Out!Chars, Out!NL, OutP!Chars, OutP!NL

LEMMA OutputRests ==
  ASSUME OutputHolds, UNCHANGED <<world, config, output>>, failed => failed'
  PROVE  OutputHolds'
<1>1. OutputNames' = OutputNames /\ HasListing' = HasListing
  BY Settled
<1>2. UNCHANGED OutP!vars
  BY <1>1 DEF OutP!vars, output
<1>3. OutP!OutInv'
  BY <1>2, OutP!NothingHappens DEF OutputHolds
<1>4. aborts' = aborts
  BY DEF output
<1> QED
  BY <1>3, <1>4 DEF OutputHolds
-----------------------------------------------------------------------------
(***************************************************************************)
(* What a step leaves alone.                                               *)
(***************************************************************************)
LEMMA Rests ==
  ASSUME IInv, UNCHANGED <<world, config, stores, output>>, failed => failed'
  PROVE  Held' /\ OutputHolds' /\ SameNames(writers', writers)
<1>1. disk' = disk /\ writers' = writers /\ sent' = sent
  BY DEF stores
<1>2. Held'
  BY <1>1, HeldAfter DEF IInv, Held
<1>3. OutputHolds'
  BY OutputRests DEF IInv
<1> QED
  BY <1>1, <1>2, <1>3 DEF SameNames

LEMMA RoutedAfter ==
  ASSUME TypeInv, Routed, UNCHANGED <<world, config, sink>>, SameNames(writers', writers), writers' \in Seq(Writer),
         pc' \in {"start", "inputs"} => sink = << >> /\ writers' = << >>,
         pc' = "sinks" => at' <= Len(Sinks) /\ Len(sink) = at' - 1,
         pc' \in {"engine", "running", "flush", "close", "report"} => Len(sink) = Len(Sinks)
  PROVE  Routed'
<1>1. Sinks' = Sinks /\ sink' = sink
  BY Settled
<1>2. DOMAIN writers' = DOMAIN writers /\ Len(writers') = Len(writers)
  BY DEF SameNames, TypeInv
<1>3. \A k \in DOMAIN writers : writers'[k].name = writers[k].name
  BY DEF SameNames
<1>4. ASSUME NEW k \in DOMAIN sink
      PROVE  RoutedTo(k)'
  <2>1. RoutedTo(k)
    BY DEF Routed
  <2>2. sink[k] # 0 => sink[k] \in DOMAIN writers
    BY <2>1 DEF RoutedTo, TypeInv
  <2> QED
    BY <1>1, <1>2, <1>3, <2>1, <2>2 DEF RoutedTo
<1> QED
  BY <1>1, <1>2, <1>3, <1>4 DEF Routed

\* Whatever is refused is refused before job has opened its inputs.
LEMMA Accepted ==
  ASSUME Refusals, pc \notin {"start", "inputs", "ended"}
  PROVE  ~config.bad /\ config.answers = {} /\ (\A i \in DOMAIN Inputs : Named(i)) /\ ~Refused
  BY DEF Refusals, Refused

LEMMA RefusalsAfter ==
  ASSUME Refusals, UNCHANGED <<world, config>>, pc \notin {"start", "inputs", "ended"}, pc' \notin {"start", "inputs"}
  PROVE  Refusals'
<1>1. ~config.bad /\ config.answers = {} /\ (\A i \in DOMAIN Inputs : Named(i)) /\ ~Refused
  BY Accepted
<1> QED
  BY <1>1, Settled DEF Refusals

LEMMA StillnessKeeps ==
  ASSUME IInv, UNCHANGED <<world, config, pc, at, stores, sink, failed, unclosed, outcome, status, output>>
  PROVE  IInv'
<1>1. disk' = disk /\ writers' = writers /\ sent' = sent
  BY DEF stores
<1>2. Held' /\ OutputHolds' /\ SameNames(writers', writers)
  BY Rests
<1>3. TypeInv'
  BY <1>1 DEF IInv, TypeInv
<1>4. Routed'
  BY <1>1, <1>2, <1>3, RoutedAfter DEF IInv, Routed, TypeInv
<1>5. Refusals'
  BY <1>1, Settled DEF IInv, Refusals
<1>6. Unsent' /\ Progress'
  BY <1>1, Settled DEF IInv, Unsent, Progress, Empty
<1> QED
  BY <1>2, <1>3, <1>4, <1>5, <1>6 DEF IInv
-----------------------------------------------------------------------------
(***************************************************************************)
(* run as far as the processor.                                            *)
(***************************************************************************)
LEMMA StartKeeps ==
  ASSUME IInv, UNCHANGED <<world, config>>, Start
  PROVE  IInv'
<1>1. disk' = disk /\ writers' = writers /\ sent' = sent
  BY DEF Start, stores
<1>2. Held' /\ OutputHolds' /\ SameNames(writers', writers)
  BY Rests DEF Start
<1>3. TypeInv'
  BY <1>1 DEF IInv, TypeInv, Start, Answers, Goto, Exit, Labels
<1>4. Routed'
  <2>1. pc = "start" /\ pc' \in {"inputs", "ended"} /\ sink' = sink /\ sink = << >> /\ writers = << >>
    BY DEF IInv, Routed, Start, Goto, Exit
  <2> QED
    BY <1>1, <1>2, <1>3, <2>1, RoutedAfter DEF IInv, TypeInv
<1>5. Refusals'
  <2>1. 1 <= Len(Inputs) /\ \A i \in DOMAIN Inputs : ~(i < 1)
    <3>1. 1 <= Len(Inputs) /\ DOMAIN Inputs = 1 .. Len(Inputs)
      BY Configured, Enough DEF IInv
    <3> QED
      BY <3>1
  <2> QED
    BY <1>1, <2>1, Settled DEF IInv, Refusals, Refused, Start, Goto, Exit
<1>6. Unsent' /\ Progress'
  BY <1>1 DEF IInv, Unsent, Progress, Start, Goto, Exit
<1> QED
  BY <1>2, <1>3, <1>4, <1>5, <1>6 DEF IInv

LEMMA OpenInputKeeps ==
  ASSUME IInv, UNCHANGED <<world, config>>, OpenInput
  PROVE  IInv'
<1>1. disk' = disk /\ writers' = writers /\ sent' = sent
  BY DEF OpenInput, stores
<1>2. Held' /\ OutputHolds' /\ SameNames(writers', writers)
  BY Rests DEF OpenInput
<1>3. at \in Nat \ {0} /\ DOMAIN Inputs = 1 .. Len(Inputs) /\ Len(Inputs) \in Nat \ {0}
  BY Configured DEF IInv, TypeInv
<1>4. TypeInv'
  <2>1. at + 1 \in Nat \ {0} /\ 1 \in Nat \ {0}
    BY <1>3
  <2>2. at' \in {at, at + 1, 1} /\ pc' \in Labels /\ status' \in {status, 1}
    BY DEF OpenInput, Goto, Exit, Labels
  <2> QED
    BY <1>1, <2>1, <2>2 DEF IInv, TypeInv, OpenInput
<1>5. Routed'
  <2>1. /\ pc = "inputs" /\ pc' \in {"inputs", "sinks", "ended"} /\ sink' = sink /\ sink = << >> /\ writers = << >>
        /\ pc' = "sinks" => at' = 1
    BY DEF IInv, Routed, OpenInput, Goto, Exit
  <2>2. Len(sink) = 0
    BY <2>1
  <2>3. 1 <= Len(Sinks)
    BY Enough DEF IInv
  <2> QED
    BY <1>1, <1>2, <1>4, <2>1, <2>2, <2>3, RoutedAfter DEF IInv, TypeInv
<1>6. Refusals'
  <2>1. at <= Len(Inputs) /\ (\A i \in DOMAIN Inputs : i < at => Named(i)) /\ ~config.bad /\ config.answers = {}
    BY DEF IInv, Refusals, OpenInput
  <2>2. There(Inputs[at]) => Named(at)
    BY DEF There, Named
  <2>3. CASE ~There(Inputs[at]) /\ Exit(1)
    BY <1>1, <2>3, Settled DEF IInv, Refusals, OpenInput, Goto, Exit
  <2>4. CASE There(Inputs[at]) /\ at = Len(Inputs) /\ Goto("sinks") /\ UNCHANGED status
    <3>1. \A i \in DOMAIN Inputs : Named(i)
      BY <1>3, <2>1, <2>2, <2>4
    <3> QED
      BY <1>1, <2>1, <2>4, <3>1, Settled DEF IInv, Refusals, Goto
  <2>5. CASE There(Inputs[at]) /\ at < Len(Inputs) /\ at' = at + 1 /\ UNCHANGED <<pc, status>>
    <3>1. (\A i \in DOMAIN Inputs : i < at' => Named(i)) /\ at' <= Len(Inputs)
      BY <1>3, <2>1, <2>2, <2>5
    <3> QED
      BY <1>1, <2>1, <2>5, <3>1, Settled DEF IInv, Refusals, OpenInput
  <2> QED
    BY <2>3, <2>4, <2>5 DEF OpenInput
<1>7. Unsent' /\ Progress'
  BY <1>1 DEF IInv, Unsent, Progress, OpenInput, Goto, Exit
<1> QED
  BY <1>2, <1>4, <1>5, <1>6, <1>7 DEF IInv

LEMMA CreatedHolds ==
  ASSUME NEW stored \in Stored, NEW given \in Stored, NEW queues \in Seq(Writer), Holds(stored, queues, given),
         NEW name \in FileNames, \A k \in DOMAIN queues : queues[k].name # name,
         NEW w, w = [name |-> name, buffer |-> << >>, broken |-> FALSE]
  PROVE  /\ w \in Writer /\ Append(queues, w) \in Seq(Writer)
         /\ [stored EXCEPT ![name] = << >>] \in Stored
         /\ Holds([stored EXCEPT ![name] = << >>], Append(queues, w), given)
<1>1. w \in Writer /\ w.name = name /\ w.buffer = << >>
  BY DEF Writer
<1>2. PICK n \in Nat : n = Len(queues)
  OBVIOUS
<1>3. PICK d, q : d = [stored EXCEPT ![name] = << >>] /\ q = Append(queues, w)
  OBVIOUS
<1>4. /\ q \in Seq(Writer) /\ DOMAIN queues = 1 .. n /\ DOMAIN q = 1 .. n + 1 /\ q[n + 1] = w
      /\ \A k \in 1 .. n : q[k] = queues[k]
  BY <1>1, <1>2, <1>3
<1>5. name \in Names /\ name \notin Unbuffered
  BY Separate
<1>6. d \in Stored /\ d[name] = << >> /\ \A n1 \in Names : n1 # name => d[n1] = stored[n1]
  BY <1>5, <1>3 DEF Stored
<1>7. Holds(d, q, given)
  <2>1. \A i, j \in DOMAIN q : q[i].name = q[j].name => i = j
    BY <1>1, <1>4 DEF Holds
  <2>2. ASSUME NEW j \in DOMAIN q
        PROVE  d[q[j].name] \o q[j].buffer = given[q[j].name] /\ Len(q[j].buffer) <= Capacity
    <3>1. CASE j = n + 1
      <4>1. given[name] = << >> /\ Capacity \in Nat
        BY CommandAssumption DEF Holds
      <4>2. << >> \o << >> = << >> /\ Len(<< >>) = 0
        OBVIOUS
      <4>3. Len(<< >>) <= Capacity
        BY <4>1
      <4> QED
        BY <1>1, <1>4, <1>6, <3>1, <4>1, <4>2, <4>3
    <3>2. CASE j \in 1 .. n
      <4>1. stored[queues[j].name] \o queues[j].buffer = given[queues[j].name] /\ Len(queues[j].buffer) <= Capacity
        BY <1>4, <3>2 DEF Holds
      <4>2. queues[j].name \in Names /\ queues[j].name # name
        BY <1>4, <3>2, WriterAt
      <4> QED
        BY <1>4, <1>6, <3>2, <4>1, <4>2
    <3>3. j = n + 1 \/ j \in 1 .. n
      BY <1>4
    <3> QED
      BY <3>1, <3>2, <3>3, Zenon
  <2>3. ASSUME NEW n1 \in FileNames, \A j \in DOMAIN q : q[j].name # n1
        PROVE  d[n1] = Before(n1) /\ given[n1] = << >>
    <3>1. n1 # name /\ (\A j \in DOMAIN queues : queues[j].name # n1) /\ n1 \in Names
      BY <1>1, <1>4, <2>3, Separate
    <3>2. stored[n1] = Before(n1) /\ given[n1] = << >>
      BY <3>1 DEF Holds
    <3> QED
      BY <1>6, <3>1, <3>2
  <2>4. \A n1 \in Unbuffered : d[n1] = given[n1]
    BY <1>5, <1>6, Separate DEF Holds
  <2> QED
    BY <2>1, <2>2, <2>3, <2>4 DEF Holds
<1> QED
  BY <1>1, <1>4, <1>6, <1>7, <1>3

\* A name that job comes to a second time gets the buffer that it has.
LEMMA NextSinkRoutes ==
  ASSUME TypeInv, Routed, pc = "sinks", UNCHANGED <<world, config>>, NextSink,
         NEW id, sink' = Append(sink, id),
         writers' \in Seq(Writer), Len(writers) <= Len(writers'),
         \A k \in DOMAIN writers : writers'[k].name = writers[k].name,
         \A k \in DOMAIN writers' : writers'[k].name \in Range(Sinks),
         id \in 0 .. Len(writers'), Sinks[at] = IF id = 0 THEN Std ELSE writers'[id].name
  PROVE  Routed' /\ sink' \in Seq(Nat) /\ at' \in Nat \ {0} /\ pc' \in {"sinks", "engine"}
<1>1. Sinks' = Sinks
  BY Settled
<1>2. PICK n \in Nat, m \in Nat, l \in Nat : n = Len(writers) /\ m = Len(writers') /\ l = Len(Sinks)
  <2>1. Sinks \in Seq(FileNames \cup {Std})
    BY Configured
  <2>2. Len(Sinks) \in Nat
    BY <2>1
  <2>3. Len(writers) \in Nat /\ Len(writers') \in Nat
    BY DEF TypeInv
  <2> QED
    BY <2>2, <2>3, Zenon
<1>3. /\ n <= m /\ DOMAIN writers = 1 .. n /\ DOMAIN writers' = 1 .. m
      /\ sink \in Seq(Nat) /\ at \in Nat \ {0} /\ at <= l /\ Len(sink) = at - 1 /\ id \in Nat
  BY <1>2 DEF TypeInv, Routed
<1>4. /\ sink' \in Seq(Nat) /\ Len(sink') = at /\ DOMAIN sink = 1 .. at - 1 /\ DOMAIN sink' = 1 .. at
      /\ sink'[at] = id /\ \A k \in 1 .. at - 1 : sink'[k] = sink[k]
  BY <1>3
<1>5. ASSUME NEW k \in 1 .. at
      PROVE  RoutedTo(k)'
  <2>1. CASE k = at
    BY <1>1, <1>4, <2>1 DEF RoutedTo
  <2>2. CASE k \in 1 .. at - 1
    <3>1. RoutedTo(k)
      BY <1>4, <2>2 DEF Routed
    <3>2. sink[k] \in 0 .. n /\ Sinks[k] = IF sink[k] = 0 THEN Std ELSE writers[sink[k]].name
      BY <1>2, <3>1 DEF RoutedTo
    <3>3. sink[k] \in 0 .. m /\ (sink[k] # 0 => sink[k] \in 1 .. n)
      BY <1>3, <3>2
    <3>4. Sinks[k] = IF sink[k] = 0 THEN Std ELSE writers'[sink[k]].name
      BY <1>3, <3>2, <3>3
    <3> QED
      BY <1>1, <1>2, <1>4, <2>2, <3>3, <3>4 DEF RoutedTo
  <2> QED
    BY <1>3, <2>1, <2>2
<1>6. \/ at = l /\ pc' = "engine" /\ at' = 1
      \/ at # l /\ pc' = "sinks" /\ at' = at + 1
  BY <1>2 DEF NextSink, Goto
<1>7. at' \in Nat \ {0} /\ pc' \in {"sinks", "engine"}
  BY <1>3, <1>6
<1>8. pc' = "sinks" => at' <= l /\ at = at' - 1
  BY <1>2, <1>3, <1>6
<1>9. pc' = "engine" => at = l
  BY <1>6
<1> QED
  BY <1>1, <1>2, <1>3, <1>4, <1>5, <1>7, <1>8, <1>9 DEF Routed

LEMMA CreateSinkKeeps ==
  ASSUME IInv, UNCHANGED <<world, config>>, CreateSink
  PROVE  IInv'
<1>1. PICK name : name = Sinks[at]
  OBVIOUS
<1>2. at \in DOMAIN Sinks /\ name \in FileNames \cup {Std} /\ name \in Range(Sinks)
  <2>1. Sinks \in Seq(FileNames \cup {Std}) /\ at \in Nat \ {0} /\ at <= Len(Sinks)
    BY Configured DEF IInv, TypeInv, Routed, CreateSink
  <2> QED
    BY <1>1, <2>1 DEF Range
<1>3. pc = "sinks" /\ TypeInv /\ Routed /\ writers \in Seq(Writer) /\ disk \in Stored /\ sent \in Stored
  BY DEF IInv, CreateSink, TypeInv, Stored
<1>4. PICK n \in Nat : n = Len(writers)
  BY <1>3
<1>5. DOMAIN writers = 1 .. n /\ \A k \in DOMAIN writers : writers[k].name \in Range(Sinks)
  BY <1>3, <1>4 DEF Routed
<1>6. sent' = sent /\ UNCHANGED <<removed, said, failed, unclosed, outcome, output>>
  BY DEF CreateSink
<1>7. OutputHolds'
  BY <1>6, OutputRests DEF IInv
<1>8. pc' \in {"sinks", "engine", "ended"} => Refusals'
  BY <1>3, RefusalsAfter DEF IInv
<1>9. sent = [m \in Names |-> << >>] /\ status = -1 /\ outcome = -1 /\ ~unclosed /\ ~failed
  BY <1>3 DEF IInv, Unsent, Progress
<1>10. Unsent' /\ ((pc' \in {"sinks", "engine"} /\ status' = status) \/ pc' = "ended" => Progress')
  BY <1>6, <1>9 DEF Unsent, Progress
<1>11. CASE (name = Std \/ Known(name) # {}) /\ UNCHANGED <<disk, writers, status>>
  <2>1. PICK id : id = IF name = Std THEN 0 ELSE CHOOSE k \in Known(name) : TRUE
    OBVIOUS
  <2>2. sink' = Append(sink, id) /\ NextSink
    BY <1>1, <1>11, <2>1 DEF CreateSink
  <2>3. id \in 0 .. n /\ name = IF id = 0 THEN Std ELSE writers[id].name
    BY <1>2, <1>5, <1>11, <2>1 DEF Known
  <2>4. Routed' /\ sink' \in Seq(Nat) /\ at' \in Nat \ {0} /\ pc' \in {"sinks", "engine"}
    BY <1>1, <1>3, <1>4, <1>5, <1>11, <2>2, <2>3, NextSinkRoutes
  <2>5. TypeInv'
    BY <1>6, <1>11, <2>4 DEF IInv, TypeInv, Labels
  <2>6. Held'
    BY <1>6, <1>11, HeldAfter DEF IInv, Held
  <2> QED
    BY <1>7, <1>8, <1>10, <1>11, <2>4, <2>5, <2>6 DEF IInv
<1>12. CASE name # Std /\ Known(name) = {} /\ name \notin world.unwritable
  <2>1. PICK w : w = [name |-> name, buffer |-> << >>, broken |-> FALSE]
    OBVIOUS
  <2>2. /\ disk' = [disk EXCEPT ![name] = << >>] /\ writers' = Append(writers, w)
        /\ sink' = Append(sink, Len(writers')) /\ NextSink /\ UNCHANGED status
    BY <1>1, <1>12, <2>1 DEF CreateSink
  <2>3. name \in FileNames /\ \A k \in DOMAIN writers : writers[k].name # name
    BY <1>2, <1>12 DEF Known
  <2>4. w \in Writer /\ writers' \in Seq(Writer) /\ disk' \in Stored /\ Holds(disk', writers', sent)
    BY <1>3, <2>1, <2>2, <2>3, CreatedHolds DEF IInv, Held
  <2>5. /\ Len(writers') = n + 1 /\ writers'[n + 1] = w /\ w.name = name
        /\ \A k \in 1 .. n : writers'[k] = writers[k]
    BY <1>3, <1>4, <2>1, <2>2, <2>4
  <2>6. \A k \in DOMAIN writers' : writers'[k].name \in Range(Sinks)
    <3>1. DOMAIN writers' = 1 .. n + 1
      BY <2>4, <2>5
    <3> QED
      BY <1>2, <1>5, <2>5, <3>1
  <2>7. n + 1 \in 0 .. n + 1 /\ n <= n + 1 /\ n + 1 # 0
    OBVIOUS
  <2>8. Routed' /\ sink' \in Seq(Nat) /\ at' \in Nat \ {0} /\ pc' \in {"sinks", "engine"}
    BY <1>1, <1>3, <1>4, <1>5, <2>2, <2>4, <2>5, <2>6, <2>7, NextSinkRoutes
  <2>9. TypeInv'
    BY <1>6, <2>2, <2>4, <2>8 DEF IInv, TypeInv, Labels, Stored
  <2>10. Held'
    BY <1>6, <2>4, HeldAfter
  <2> QED
    BY <1>7, <1>8, <1>10, <2>2, <2>8, <2>9, <2>10 DEF IInv
<1>13. CASE Exit(1) /\ UNCHANGED <<disk, writers, sink>>
  <2>1. pc' = "ended" /\ at' = 1 /\ status' = 1
    BY <1>13 DEF Exit, Goto
  <2>2. TypeInv'
    BY <1>6, <1>13, <2>1 DEF IInv, TypeInv, Labels
  <2>3. Held'
    BY <1>6, <1>13, HeldAfter DEF IInv, Held
  <2>4. Routed'
    <3>1. SameNames(writers', writers)
      BY <1>13 DEF SameNames
    <3> QED
      BY <1>3, <1>13, <2>1, <3>1, RoutedAfter
  <2> QED
    BY <1>7, <1>8, <1>10, <2>1, <2>2, <2>3, <2>4 DEF IInv
<1> QED
  BY <1>1, <1>11, <1>12, <1>13 DEF CreateSink

LEMMA BeginKeeps ==
  ASSUME IInv, UNCHANGED <<world, config>>, Begin
  PROVE  IInv'
<1>1. disk' = disk /\ writers' = writers /\ sent' = sent /\ pc = "engine" /\ sink' = sink
  BY DEF Begin, stores
<1>2. Held' /\ OutputHolds' /\ SameNames(writers', writers)
  BY Rests DEF Begin
<1>3. pc' \in {"running", "flush"} /\ at' = 1
  BY DEF Begin, Goto
<1>4. TypeInv'
  BY <1>1, <1>3 DEF IInv, TypeInv, Labels, Begin
<1>5. Routed'
  BY <1>1, <1>2, <1>3, <1>4, RoutedAfter DEF IInv, Routed, TypeInv
<1>6. Refusals'
  BY <1>1, <1>3, RefusalsAfter DEF IInv
<1>7. \A k \in DOMAIN writers : ~(k < 1)
  BY DEF IInv, TypeInv
<1>8. Unsent' /\ Progress'
  BY <1>1, <1>3, <1>7 DEF IInv, Unsent, Progress, Begin, Goto
<1> QED
  BY <1>2, <1>4, <1>5, <1>6, <1>8 DEF IInv
-----------------------------------------------------------------------------
(***************************************************************************)
(* The processor at work.                                                  *)
(***************************************************************************)
LEMMA WritesKeep ==
  ASSUME IInv, UNCHANGED <<world, config, pc, at, sink, unclosed, outcome, status>>, pc = "running",
         NEW st \in States, Becomes(st), failed' \in BOOLEAN, OutputHolds'
  PROVE  IInv'
<1>1. /\ disk' = st.disk /\ writers' = st.writers /\ sent' = st.sent
      /\ disk' \in Stored /\ writers' \in Seq(Writer) /\ sent' \in Stored
      /\ Holds(disk', writers', sent') /\ SameNames(writers', writers)
  BY StateParts DEF Becomes
<1>2. TypeInv'
  BY <1>1 DEF IInv, TypeInv, Stored
<1>3. Held'
  BY <1>1, HeldAfter
<1>4. Routed'
  BY <1>1, RoutedAfter DEF IInv, Routed
<1>5. Refusals'
  BY RefusalsAfter DEF IInv
<1>6. status = -1 /\ outcome = -1 /\ ~unclosed
  BY DEF IInv, Progress
<1>7. Unsent' /\ Progress'
  BY <1>6 DEF Unsent, Progress
<1> QED
  BY <1>2, <1>3, <1>4, <1>5, <1>7 DEF IInv

LEMMA WriteCharKeeps ==
  ASSUME IInv, UNCHANGED <<world, config, removed, sink, unclosed, status>>, pc = "running", ~failed,
         NEW ch \in Out!Chars, WriteChar(ch)
  PROVE  IInv'
<1>1. PICK faulty \in IF world.faults THEN SUBSET Out!Writes ELSE {{}}, redirect \in BOOLEAN :
        /\ Out!WriteChar(ch, PutAll(Out!Writes, ch, faulty).fails, redirect)
        /\ Becomes(PutAll(Out!Attempted(PutAll(Out!Writes, ch, faulty).fails, redirect), ch, faulty))
        /\ failed' = (PutAll(Out!Writes, ch, faulty).fails # {})
  BY Zenon DEF WriteChar
<1>2. PICK fails : fails = PutAll(Out!Writes, ch, faulty).fails
  OBVIOUS
<1>3. Out!WriteChar(ch, fails, redirect) /\ failed' = (fails # {})
  BY <1>1, <1>2
<1>4. PICK st \in States : st = PutAll(Out!Attempted(fails, redirect), ch, faulty)
  BY PutAllKeeps DEF IInv
<1>5. Becomes(st)
  BY <1>1, <1>2, <1>4
<1>6. OutputHolds'
  <2>1. OutP!OutputAssumption /\ OutP!OutInv /\ aborts = 0 /\ ch \in OutP!Chars
    BY OutputsAreFew, SameChars DEF IInv, OutputHolds
  <2>2. OutP!WriteChar(ch, fails, redirect)
    BY <1>3, SameWriteChar
  <2>3. OutP!OutInv'
    BY <2>1, <2>2, OutP!WriteCharKeeps
  <2>4. OutP!TypeInv /\ fails \in SUBSET OutP!Writes
    BY <2>1, <2>2 DEF OutP!OutInv, OutP!WriteChar
  <2>5. aborts' = aborts + OutP!Cardinality(OutP!Failed(fails, redirect)) /\ (aborts' = aborts <=> fails = {})
    BY <2>1, <2>2, <2>4, OutP!WriteCharTypes
  <2>6. OutP!Cardinality(OutP!Failed(fails, redirect)) \in 0 .. 2
    BY <2>1, <2>4, OutP!FewFail
  <2>7. aborts' <= 2
    BY <2>1, <2>5, <2>6
  <2>8. ~failed' => aborts' = 0
    BY <1>3, <2>1, <2>5, Zenon
  <2> QED
    BY <2>3, <2>7, <2>8 DEF OutputHolds
<1> QED
  BY <1>3, <1>4, <1>5, <1>6, WritesKeep DEF WriteChar

LEMMA WriteMessageKeeps ==
  ASSUME IInv, UNCHANGED <<world, config, removed, sink, unclosed, status>>, pc = "running", WriteMessage
  PROVE  IInv'
<1>1. PICK faulty : /\ Becomes(Put(Unwritten, DebugWrite, faulty = {}))
                    /\ failed' = (failed \/ Put(Unwritten, DebugWrite, faulty = {}).fails # {})
  BY DEF WriteMessage
<1>2. Unwritten \in States
  BY DEF IInv, Unwritten, States, TypeInv, Held, SameNames, Stored
<1>3. PICK w : w = DebugWrite
  OBVIOUS
<1>4. w \in Aim /\ (w.sink = 0 => w.name \in Unbuffered)
  <2>1. [from |-> -2, what |-> "message"] \in Token /\ -2 \in -2 .. MaxOutputs
    BY DEF Token, MaxOutputs
  <2>2. CASE config.debug = ""
    <3>1. w = [id |-> -2, sink |-> 0, name |-> StdErr, token |-> [from |-> -2, what |-> "message"]]
      BY <1>3, <2>2 DEF DebugWrite
    <3>2. 0 \in 0 .. Len(writers) /\ StdErr \in Names /\ StdErr \in Unbuffered
      BY Separate DEF IInv, TypeInv, Unbuffered
    <3> QED
      BY <2>1, <3>1, <3>2 DEF Aim
  <2>3. CASE config.debug # ""
    <3>1. PICK place : place = Len(OutputNames) + 1
      OBVIOUS
    <3>2. w = [id |-> -2, sink |-> sink[place], name |-> Sinks[place], token |-> [from |-> -2, what |-> "message"]]
      BY <1>3, <2>3, <3>1 DEF DebugWrite
    <3>3. place \in DOMAIN Sinks /\ place \in DOMAIN sink /\ Sinks[place] \in FileNames \cup {Std}
      <4>1. /\ Sinks \in Seq(FileNames \cup {Std}) /\ sink \in Seq(Nat) /\ Len(sink) = Len(Sinks)
            /\ place <= Len(Sinks) /\ Len(OutputNames) \in 1 .. MaxOutputs
        BY <2>3, <3>1, Configured DEF IInv, TypeInv, Routed
      <4>2. place \in Nat \ {0}
        <5>1. PICK n : n = Len(OutputNames)
          OBVIOUS
        <5>2. n \in 1 .. MaxOutputs
          BY <4>1, <5>1
        <5> QED
          BY <3>1, <5>1, <5>2 DEF MaxOutputs
      <4> QED
        BY <4>1, <4>2
    <3>4. sink[place] \in 0 .. Len(writers) /\ (sink[place] = 0 => Sinks[place] = Std)
      BY <3>3 DEF IInv, Routed, RoutedTo
    <3>5. Sinks[place] \in Names
      BY <3>3, Separate
    <3> QED
      BY <2>1, <3>2, <3>4, <3>5 DEF Aim, Unbuffered
  <2> QED
    BY <2>2, <2>3
<1>5. PICK st \in States : st = Put(Unwritten, DebugWrite, faulty = {})
  BY <1>2, <1>3, <1>4, PutKeeps DEF IInv, TypeInv
<1>6. Becomes(st) /\ failed' \in BOOLEAN /\ (failed => failed')
  BY <1>1, <1>5 DEF IInv, TypeInv
<1>7. OutputHolds'
  BY <1>6, OutputRests DEF IInv, WriteMessage
<1> QED
  BY <1>6, <1>7, WritesKeep DEF WriteMessage

LEMMA AssignKeeps ==
  ASSUME IInv, UNCHANGED <<world, config, pc, at, stores, sink, failed, unclosed, outcome, status>>, pc = "running",
         Out!Assign
  PROVE  IInv'
<1>1. disk' = disk /\ writers' = writers /\ sent' = sent
  BY DEF stores
<1>2. OutputHolds'
  <2>1. OutP!Assign /\ OutP!OutputAssumption /\ OutP!OutInv
    BY SameAssign, OutputsAreFew DEF IInv, OutputHolds
  <2>2. OutP!OutInv' /\ aborts' = aborts
    BY <2>1, OutP!AssignKeeps
  <2> QED
    BY <2>2 DEF IInv, OutputHolds
<1>3. Unwritten \in States /\ Becomes(Unwritten)
  BY <1>1 DEF IInv, Unwritten, States, TypeInv, Held, SameNames, Stored, Becomes
<1> QED
  BY <1>2, <1>3, WritesKeep DEF IInv, TypeInv

LEMMA CannotReadKeeps ==
  ASSUME IInv, UNCHANGED <<world, config, removed, sink, unclosed, status>>, pc = "running", CannotRead
  PROVE  IInv'
<1>1. disk' = disk /\ writers' = writers /\ sent' = sent /\ failed' = TRUE
  BY DEF CannotRead, stores
<1>2. Unwritten \in States /\ Becomes(Unwritten)
  BY <1>1 DEF IInv, Unwritten, States, TypeInv, Held, SameNames, Stored, Becomes
<1>3. OutputHolds'
  BY <1>1, OutputRests DEF IInv, CannotRead
<1> QED
  BY <1>1, <1>2, <1>3, WritesKeep DEF CannotRead

LEMMA QuitKeeps ==
  ASSUME IInv, UNCHANGED <<world, config, removed, sink, unclosed, status>>, pc = "running", Quit
  PROVE  IInv'
<1>1. /\ disk' = disk /\ writers' = writers /\ sent' = sent /\ failed' = failed
      /\ pc' = "flush" /\ at' = 1 /\ outcome' \in {0, 254, 255} /\ (failed => outcome' = 255)
  BY DEF Quit, stores, Goto
<1>2. Held' /\ OutputHolds' /\ SameNames(writers', writers)
  BY Rests DEF Quit
<1>3. TypeInv'
  BY <1>1 DEF IInv, TypeInv, Labels
<1>4. Routed'
  BY <1>1, <1>2, <1>3, RoutedAfter DEF IInv, Routed, TypeInv
<1>5. Refusals'
  BY <1>1, RefusalsAfter DEF IInv
<1>6. \A k \in DOMAIN writers : ~(k < 1)
  BY DEF IInv, TypeInv
<1>7. Unsent' /\ Progress'
  BY <1>1, <1>6 DEF IInv, Unsent, Progress
<1> QED
  BY <1>2, <1>3, <1>4, <1>5, <1>7 DEF IInv

LEMMA ProcessKeeps ==
  ASSUME IInv, UNCHANGED <<world, config>>, Process
  PROVE  IInv'
<1>1. pc = "running" /\ UNCHANGED <<removed, sink, unclosed, status>>
  BY DEF Process
<1>2. CASE ~failed /\ \E ch \in Out!Chars : WriteChar(ch)
  BY <1>1, <1>2, WriteCharKeeps
<1>3. CASE Out!Assign /\ UNCHANGED <<pc, at, stores, said, failed, outcome>>
  BY <1>1, <1>3, AssignKeeps
<1> QED
  BY <1>1, <1>2, <1>3, WriteMessageKeeps, CannotReadKeeps, QuitKeeps DEF Process
-----------------------------------------------------------------------------
(***************************************************************************)
(* closeAll, the status, and the end that comes from outside.              *)
(***************************************************************************)
LEMMA FlushKeeps ==
  ASSUME IInv, UNCHANGED <<world, config>>, Flush
  PROVE  IInv'
<1>1. /\ pc = "flush" /\ at <= Len(writers) /\ UNCHANGED <<sink, failed, outcome, status, output>>
      /\ \/ at < Len(writers) /\ at' = at + 1 /\ pc' = pc
         \/ at >= Len(writers) /\ at' = 1 /\ pc' = "close"
  BY DEF Flush, NextToClose, Goto, IInv, TypeInv
<1>2. PICK n \in Nat : n = Len(writers)
  BY DEF IInv, TypeInv
<1>3. at \in 1 .. n /\ DOMAIN writers = 1 .. n
  BY <1>1, <1>2 DEF IInv, TypeInv
<1>4. at' \in Nat \ {0} /\ pc' \in {"flush", "close"}
  BY <1>1, <1>3
<1>5. OutputHolds'
  BY <1>1, OutputRests DEF IInv
<1>6. Refusals'
  BY <1>1, <1>4, RefusalsAfter DEF IInv
<1>7. status = -1 /\ Len(sink) = Len(Sinks)
  BY <1>1 DEF IInv, Progress, Routed
<1>8. Unsent' \/ sent' # sent
  BY <1>1, <1>4 DEF IInv, Unsent
<1>9. CASE UNCHANGED stores /\ unclosed' = TRUE
  <2>1. disk' = disk /\ writers' = writers /\ sent' = sent
    BY <1>9 DEF stores
  <2>2. Held' /\ SameNames(writers', writers)
    BY <1>1, <1>9, Rests
  <2>3. TypeInv'
    BY <1>1, <1>4, <1>9, <2>1 DEF IInv, TypeInv, Labels
  <2>4. Routed'
    BY <1>1, <1>4, <1>7, <2>1, <2>2, RoutedAfter DEF IInv, TypeInv
  <2>5. Progress'
    BY <1>1, <1>4, <1>7, <1>9 DEF IInv, Progress
  <2> QED
    BY <1>5, <1>6, <1>8, <2>1, <2>2, <2>3, <2>4, <2>5 DEF IInv
<1>10. CASE Becomes(Flushed([disk |-> disk, writers |-> writers, sent |-> sent], at)) /\ UNCHANGED unclosed
  <2>1. /\ disk' = [disk EXCEPT ![writers[at].name] = @ \o writers[at].buffer]
        /\ writers' = [writers EXCEPT ![at].buffer = << >>] /\ sent' = sent
    BY <1>10 DEF Becomes, Flushed
  <2>2. disk \in Stored /\ sent \in Stored /\ writers \in Seq(Writer) /\ Holds(disk, writers, sent)
    BY DEF IInv, TypeInv, Held, Stored
  <2>3. disk' \in Stored /\ writers' \in Seq(Writer) /\ SameNames(writers', writers) /\ Holds(disk', writers', sent)
    BY <1>3, <2>1, <2>2, FlushHolds
  <2>4. Held'
    BY <2>1, <2>3, HeldAfter
  <2>5. TypeInv'
    BY <1>1, <1>4, <1>10, <2>1, <2>3 DEF IInv, TypeInv, Labels, Stored
  <2>6. Routed'
    BY <1>1, <1>4, <1>7, <2>3, RoutedAfter DEF IInv
  <2>7. /\ DOMAIN writers' = 1 .. n /\ writers'[at].buffer = << >>
        /\ \A k \in 1 .. n : k # at => writers'[k] = writers[k]
    <3>1. PICK w : w = [writers[at] EXCEPT !.buffer = << >>]
      OBVIOUS
    <3>2. w \in Writer /\ w.buffer = << >>
      <4>1. writers[at] \in Writer /\ writers[at].broken \in BOOLEAN /\ writers[at].name \in FileNames
        BY <1>3, <2>2, WriterAt
      <4>2. << >> \in Seq(Token)
        OBVIOUS
      <4>3. PICK old : old = writers[at]
        OBVIOUS
      <4>4. w = [old EXCEPT !.buffer = << >>] /\ old \in Writer
        BY <3>1, <4>1, <4>3
      <4> QED
        BY <4>2, <4>4 DEF Writer
    <3>3. writers' = [writers EXCEPT ![at] = w]
      BY <2>1, <3>1
    <3> QED
      BY <1>3, <2>2, <3>2, <3>3, WriterReplaced
  <2>8. ~unclosed' => \A k \in 1 .. n : k < at \/ k = at => Empty(k)'
    <3>1. ~unclosed => \A k \in 1 .. n : k < at => Empty(k)
      BY <1>1, <1>3 DEF IInv, Progress
    <3>2. unclosed' = unclosed /\ \A k \in 1 .. n : k < at => k # at
      BY <1>3, <1>10
    <3> QED
      BY <2>7, <3>1, <3>2 DEF Empty
  <2>9. Progress'
    <3>1. outcome' = outcome /\ failed' = failed /\ status' = -1 /\ (outcome \in {0, 254} => ~failed)
      BY <1>1, <1>7 DEF IInv, Progress
    <3>2. pc' = "flush" => at' = at + 1
      BY <1>1
    <3>3. pc' = "flush" /\ ~unclosed' => \A k \in 1 .. n : k < at' => Empty(k)'
      BY <1>3, <2>8, <3>2
    <3>4. pc' = "close" => at = n
      BY <1>1, <1>2, <1>3
    <3>5. pc' = "close" /\ ~unclosed' => \A k \in 1 .. n : Empty(k)'
      BY <1>3, <2>8, <3>4
    <3> QED
      BY <1>4, <2>7, <3>1, <3>3, <3>5 DEF Progress
  <2> QED
    BY <1>5, <1>6, <1>8, <2>1, <2>4, <2>5, <2>6, <2>9 DEF IInv
<1> QED
  BY <1>9, <1>10 DEF Flush

\* The steps to the end that write nothing.
LEMMA ClosingKeeps ==
  ASSUME IInv, UNCHANGED <<world, config, stores, sink, failed, outcome, output>>,
         pc \in {"sinks", "running", "flush", "close", "report"}, pc' \in {"close", "report", "ended"},
         at' \in Nat \ {0}, unclosed' \in BOOLEAN, status' \in {-1, 1, 2, 0, 254, 255},
         pc' # "ended" => Len(sink) = Len(Sinks) /\ status' = -1,
         1 = status' => outcome = 1,
         pc' \in {"close", "report"} /\ ~unclosed' => \A k \in DOMAIN writers : Empty(k),
         status' \in {0, 254} => ~failed /\ Len(sink) = Len(Sinks) /\ \A k \in DOMAIN writers : Empty(k)
  PROVE  IInv'
<1>1. disk' = disk /\ writers' = writers /\ sent' = sent /\ Sinks' = Sinks
  BY Settled DEF stores
<1>2. Held' /\ OutputHolds' /\ SameNames(writers', writers)
  BY Rests
<1>3. TypeInv'
  BY <1>1 DEF IInv, TypeInv, Labels
<1>4. Routed'
  BY <1>1, <1>2, <1>3, RoutedAfter DEF IInv, TypeInv
<1>5. Refusals'
  BY RefusalsAfter DEF IInv
<1>6. Unsent'
  BY <1>1 DEF IInv, Unsent
<1>7. Progress'
  BY <1>1 DEF IInv, Progress, Empty
<1> QED
  BY <1>2, <1>3, <1>4, <1>5, <1>6, <1>7 DEF IInv

LEMMA CloseKeeps ==
  ASSUME IInv, UNCHANGED <<world, config>>, Close
  PROVE  IInv'
<1>1. /\ pc = "close" /\ UNCHANGED <<stores, sink, failed, outcome, status, output>>
      /\ at' \in {at + 1, 1} /\ pc' \in {"close", "report"} /\ at + 1 \in Nat \ {0}
  BY DEF Close, NextToClose, Goto, IInv, TypeInv
<1>2. unclosed' \in BOOLEAN /\ (~unclosed' => ~unclosed)
  BY CommandAssumption DEF Close, IInv, TypeInv
<1>3. status = -1 /\ Len(sink) = Len(Sinks) /\ (~unclosed => \A k \in DOMAIN writers : Empty(k))
  BY <1>1 DEF IInv, Progress, Routed
<1> QED
  BY <1>1, <1>2, <1>3, ClosingKeeps

LEMMA NothingToCloseKeeps ==
  ASSUME IInv, UNCHANGED <<world, config>>, NothingToClose
  PROVE  IInv'
<1>1. /\ pc = "flush" /\ UNCHANGED <<stores, sink, failed, unclosed, outcome, status, output>>
      /\ at' = 1 /\ pc' = "report" /\ unclosed \in BOOLEAN /\ writers = << >>
  BY DEF NothingToClose, Goto, IInv, TypeInv
<1>2. status = -1 /\ Len(sink) = Len(Sinks) /\ \A k \in DOMAIN writers : Empty(k)
  BY <1>1 DEF IInv, Progress, Routed
<1> QED
  BY <1>1, <1>2, ClosingKeeps

LEMMA ReportKeeps ==
  ASSUME IInv, UNCHANGED <<world, config>>, Report
  PROVE  IInv'
<1>1. /\ pc = "report" /\ UNCHANGED <<stores, sink, failed, unclosed, outcome, output>>
      /\ at' = 1 /\ pc' = "ended" /\ status' = IF unclosed THEN 255 ELSE outcome
      /\ unclosed \in BOOLEAN /\ outcome \in {-1, 0, 1, 254, 255}
  BY DEF Report, Exit, Goto, IInv, TypeInv
<1>2. /\ Len(sink) = Len(Sinks) /\ (~unclosed => \A k \in DOMAIN writers : Empty(k))
      /\ outcome \in {0, 254} => ~failed
  BY <1>1 DEF IInv, Progress, Routed
<1> QED
  BY <1>1, <1>2, ClosingKeeps

LEMMA DieKeeps ==
  ASSUME IInv, UNCHANGED <<world, config>>, Die
  PROVE  IInv'
<1>1. /\ pc \in {"sinks", "running", "flush"} /\ UNCHANGED <<stores, sink, failed, unclosed, outcome, output>>
      /\ at' = 1 /\ pc' = "ended" /\ status' = 2 /\ unclosed \in BOOLEAN
  BY DEF Die, Exit, Goto, IInv, TypeInv
<1> QED
  BY <1>1, ClosingKeeps
-----------------------------------------------------------------------------
LEMMA Starts == Init => IInv
<1> SUFFICES ASSUME Init PROVE IInv
  OBVIOUS
<1>1. TypeInv
  <2>1. [from |-> "before"] \in Token
    BY DEF Token
  <2>2. << >> \in Seq(Token) /\ <<[from |-> "before"]>> \in Seq(Token) /\ << >> \in Seq(Writer) /\ << >> \in Seq(Nat)
    BY <2>1
  <2>3. disk \in [Names -> Seq(Token)] /\ sent \in [Names -> Seq(Token)]
    BY <2>2 DEF Init, Names
  <2>4. writers \in Seq(Writer) /\ sink \in Seq(Nat)
    BY <2>2 DEF Init
  <2>5. world \in Cases /\ config = Parsed(world.arguments)
    BY DEF Init
  <2>6. /\ pc \in Labels /\ at \in Nat \ {0} /\ failed \in BOOLEAN /\ unclosed \in BOOLEAN
        /\ outcome \in {-1, 0, 1, 254, 255} /\ status \in {-1, 0, 1, 2, 254, 255}
    <3>1. pc = "start" /\ at = 1 /\ failed = FALSE /\ unclosed = FALSE /\ outcome = -1 /\ status = -1
      BY DEF Init
    <3>2. failed \in BOOLEAN /\ unclosed \in BOOLEAN
      BY <3>1, Zenon
    <3>3. pc \in Labels /\ at \in Nat \ {0}
      BY <3>1 DEF Labels
    <3>4. outcome \in {-1, 0, 1, 254, 255} /\ status \in {-1, 0, 1, 2, 254, 255}
      BY <3>1
    <3> QED
      BY <3>2, <3>3, <3>4
  <2> QED
    BY <2>3, <2>4, <2>5, <2>6 DEF TypeInv
<1>2. Held
  <2>1. \A n \in Names : disk[n] = Before(n) /\ sent[n] = << >>
    BY DEF Init, Before, Names
  <2>2. \A n \in Unbuffered : Before(n) = << >>
    BY CommandAssumption DEF Init, Before
  <2>3. DOMAIN writers = {}
    BY DEF Init
  <2> QED
    BY <2>1, <2>2, <2>3, Separate DEF Held, Holds
<1>3. Routed
  BY <1>1, Enough DEF Init, Routed
<1>4. sent = [n \in Names |-> << >>]
  BY DEF Init, Names
<1>5. Refusals /\ Unsent /\ Progress
  BY <1>4 DEF Init, Refusals, Unsent, Progress
<1>6. OutputHolds
  <2>1. OutP!OutInv
    BY <1>1, SameInit, OutputsAreFew, OutP!OutputStarts DEF Init
  <2> QED
    BY <2>1 DEF Init, Out!Init, OutputHolds
<1> QED
  BY <1>1, <1>2, <1>3, <1>5, <1>6 DEF IInv

(***************************************************************************)
(* The inductive invariant holds always.                                   *)
(***************************************************************************)
THEOREM Inductive == Spec => []IInv
<1>1. IInv /\ [Next]_vars => IInv'
  <2> SUFFICES ASSUME IInv, [Next]_vars PROVE IInv'
    OBVIOUS
  <2>1. CASE UNCHANGED vars
    BY <2>1, StillnessKeeps DEF vars
  <2>2. CASE TakeAway /\ UNCHANGED <<world, config>>
    BY <2>2, StillnessKeeps DEF TakeAway
  <2> QED
    BY <2>1, <2>2, StartKeeps, OpenInputKeeps, CreateSinkKeeps, BeginKeeps, ProcessKeeps, FlushKeeps,
       CloseKeeps, NothingToCloseKeeps, ReportKeeps, DieKeeps DEF Next
<1> QED
  BY <1>1, Starts, PTL DEF Spec

(***************************************************************************)
(* The types, of the output streams as well.                               *)
(***************************************************************************)
THEOREM TypeCorrect == Spec => []TypeOK
<1>1. IInv => TypeOK
  <2> SUFFICES ASSUME IInv PROVE TypeOK
    OBVIOUS
  <2>1. TypeInv /\ Held
    BY DEF IInv
  <2>2. Len(config.inputs) <= MaxInputs
    <3>1. PICK m : m = Len(config.inputs)
      OBVIOUS
    <3>2. m \in 0 .. MaxInputs
      BY <2>1, <3>1, Configured, Lengths
    <3>3. m <= MaxInputs
      BY <3>2 DEF MaxInputs
    <3> QED
      BY <3>1, <3>3
  <2>3. \A k \in DOMAIN writers : writers[k].name \in FileNames /\ Len(writers[k].buffer) <= Capacity
    BY <2>1, WriterAt DEF TypeInv, Held, Holds
  <2>4. \A k \in DOMAIN sink : sink[k] \in 0 .. Len(writers)
    BY DEF IInv, Routed, RoutedTo
  <2>5. Out!TypeOK
    <3>1. OutP!TypeInv /\ aborts \in 0 .. 2
      BY DEF IInv, OutputHolds, OutP!OutInv, OutP!TypeInv
    <3>2. OutP!OutputAssumption
      BY <2>1, OutputsAreFew
    <3>3. \A i \in Out!Outputs : \A k \in DOMAIN files[i] : files[i][k] \in Out!Chars
      <4>1. files \in [Out!Outputs -> Seq(Out!Chars)]
        BY <3>1, SameWrites, SameChars DEF OutP!TypeInv
      <4> QED
        BY <4>1
    <3> QED
      BY <3>1, <3>2, <3>3 DEF OutP!TypeInv, OutP!OutputAssumption, Out!TypeOK, Out!MaxOutputs, OutP!MaxOutputs
  <2> QED
    BY <2>1, <2>2, <2>3, <2>4, <2>5 DEF TypeOK, TypeInv, Labels
<1> QED
  BY <1>1, Inductive, PTL

(***************************************************************************)
(* A status that reports no fatal error is true: no call failed, and each  *)
(* file holds all that was written to its name, in the order of the calls, *)
(* whatever shares it and however large the buffers are.  (run, job,       *)
(* closeAll)                                                               *)
(***************************************************************************)
THEOREM NothingEverLost == Spec => []NothingIsLost
<1>1. IInv => NothingIsLost
  <2> SUFFICES ASSUME IInv, status \in {0, 254}, outcome # -1
               PROVE  /\ ~failed
                      /\ \A n \in DOMAIN disk :
                           disk[n] = IF n \in FileNames \ Range(Sinks) THEN Before(n) ELSE sent[n]
    BY DEF NothingIsLost
  <2>1. /\ TypeInv /\ Held /\ Routed
        /\ ~failed /\ Len(sink) = Len(Sinks) /\ \A k \in DOMAIN writers : Empty(k)
    BY DEF IInv, Progress
  <2>2. DOMAIN disk = Names /\ Names = FileNames \cup Unbuffered
    BY <2>1 DEF TypeInv, Names
  <2>3. ASSUME NEW n \in FileNames, n \notin Range(Sinks)
        PROVE  disk[n] = Before(n)
    <3>1. \A k \in DOMAIN writers : writers[k].name # n
      BY <2>1, <2>3 DEF Routed
    <3> QED
      BY <2>1, <3>1 DEF Held, Holds
  <2>4. ASSUME NEW n \in FileNames, n \in Range(Sinks)
        PROVE  disk[n] = sent[n]
    <3>1. PICK k \in DOMAIN Sinks : Sinks[k] = n
      BY <2>4 DEF Range
    <3>2. k \in DOMAIN sink
      <4>1. Sinks \in Seq(FileNames \cup {Std}) /\ sink \in Seq(Nat)
        BY <2>1, Configured DEF TypeInv
      <4> QED
        BY <2>1, <4>1
    <3>3. RoutedTo(k) /\ n # Std
      BY <2>1, <3>2, Separate DEF Routed, Unbuffered
    <3>4. PICK j : j = sink[k]
      OBVIOUS
    <3>5. j \in DOMAIN writers /\ writers[j].name = n
      BY <2>1, <3>1, <3>3, <3>4 DEF RoutedTo, TypeInv
    <3>6. disk[n] \o writers[j].buffer = sent[n] /\ writers[j].buffer = << >>
      BY <2>1, <3>5 DEF Held, Holds, Empty
    <3>7. disk[n] \in Seq(Token)
      BY <2>1, <2>2 DEF TypeInv
    <3>8. \A s \in Seq(Token) : s \o << >> = s
      OBVIOUS
    <3> QED
      BY <3>6, <3>7, <3>8
  <2>5. \A n \in Unbuffered : disk[n] = sent[n] /\ n \notin FileNames
    BY <2>1, Separate DEF Held, Holds
  <2> QED
    BY <2>1, <2>2, <2>3, <2>4, <2>5
<1> QED
  BY <1>1, Inductive, PTL

(***************************************************************************)
(* What is refused is refused before a file is emptied, and status 1 means *)
(* that nothing was written.  (run, job)                                   *)
(***************************************************************************)
THEOREM RefusalAlwaysClean == Spec => []RefusalIsClean
<1>1. IInv => RefusalIsClean
  <2> SUFFICES ASSUME IInv PROVE RefusalIsClean
    OBVIOUS
  <2>1. TypeInv /\ Held /\ Refusals /\ Unsent
    BY DEF IInv
  <2>2. DOMAIN disk = Names /\ Names = FileNames \cup Unbuffered
    BY <2>1 DEF TypeInv, Names
  <2>3. \A n \in Unbuffered : Before(n) = << >>
    BY <2>1, CommandAssumption DEF TypeInv, Before
  <2>4. ASSUME Refused
        PROVE  status \in {-1, 1, 2} /\ \A n \in DOMAIN disk : Untouched(n)
    <3>1. writers = << >> /\ sent = [n \in Names |-> << >>] /\ status \in {-1, 1}
      BY <2>1, <2>4 DEF Refusals
    <3>2. DOMAIN writers = {}
      BY <3>1
    <3>3. \A n \in FileNames : disk[n] = Before(n)
      BY <2>1, <3>2 DEF Held, Holds
    <3>4. \A n \in Unbuffered : disk[n] = << >>
      BY <2>1, <2>2, <3>1 DEF Held, Holds
    <3> QED
      BY <2>2, <2>3, <3>1, <3>3, <3>4 DEF Untouched
  <2>5. ASSUME status = 1, NEW n \in DOMAIN disk
        PROVE  sent[n] = << >> /\ disk[n] \in {<< >>, Before(n)}
    <3>1. sent[n] = << >>
      BY <2>1, <2>2, <2>5 DEF Unsent
    <3>2. CASE n \in Unbuffered
      BY <2>1, <3>1, <3>2 DEF Held, Holds
    <3>3. CASE n \in FileNames /\ \A k \in DOMAIN writers : writers[k].name # n
      BY <2>1, <3>3 DEF Held, Holds
    <3>4. CASE \E k \in DOMAIN writers : writers[k].name = n
      <4>1. PICK k \in DOMAIN writers : writers[k].name = n
        BY <3>4
      <4>2. disk[n] \o writers[k].buffer = << >>
        BY <2>1, <3>1, <4>1 DEF Held, Holds
      <4>3. disk[n] \in Seq(Token) /\ writers[k].buffer \in Seq(Token)
        BY <2>1, <2>2, WriterAt DEF TypeInv
      <4>4. \A s, t \in Seq(Token) : s \o t = << >> => s = << >>
        OBVIOUS
      <4> QED
        BY <3>1, <4>2, <4>3, <4>4
    <3> QED
      BY <2>2, <3>2, <3>3, <3>4
  <2>6. Refused <=> config.bad \/ (config.answers = {} /\ \E i \in DOMAIN Inputs : Inputs[i] \notin {Std} \cup world.present)
    BY DEF Refused, Named
  <2> QED
    BY <2>4, <2>5, <2>6 DEF RefusalIsClean
<1> QED
  BY <1>1, Inductive, PTL
-----------------------------------------------------------------------------
(***************************************************************************)
(* What OutputStreams says holds of ml1, for every arrangement of outputs  *)
(* and listing, every way of sharing files, and whenever a buffer notices  *)
(* a failure: S24 is true of the text each stream was given.               *)
(* (setAtLineStart)                                                        *)
(***************************************************************************)
THEOREM AtLineStartAlwaysTrue == Spec => []AtLineStartIsTrue
<1>1. IInv => AtLineStartIsTrue
  <2>1. Out!MaxOutputs = OutP!MaxOutputs /\ Out!Outputs = OutP!Outputs /\ Out!NL = OutP!NL
    BY SameWrites DEF Out!MaxOutputs, OutP!MaxOutputs, Out!NL, OutP!NL
  <2> QED
    BY <2>1 DEF IInv, OutputHolds, OutP!OutInv, OutP!AtLineStartIsTrue, AtLineStartIsTrue, Out!AtLineStartIsTrue
<1> QED
  BY <1>1, Inductive, PTL

(***************************************************************************)
(* Each stream is given, once and in order, the characters aimed at it.    *)
(* (WriteChar)                                                             *)
(***************************************************************************)
THEOREM FilesAlwaysFollowMask == Spec => []FilesFollowMask
<1>1. IInv => FilesFollowMask
  <2>1. \A i, n : Out!Aimed(i, n) = OutP!Aimed(i, n)
    BY DEF Out!Aimed, OutP!Aimed
  <2>2. \A i, n : Out!Cardinality(Out!Aimed(i, n)) = OutP!Cardinality(OutP!Aimed(i, n))
    BY <2>1, SameCardinality, Zenon
  <2>3. Out!Outputs = OutP!Outputs
    BY SameWrites
  <2> QED
    BY <2>1, <2>2, <2>3 DEF IInv, OutputHolds, OutP!OutInv, OutP!FilesFollowMask, FilesFollowMask, Out!FilesFollowMask
<1> QED
  BY <1>1, Inductive, PTL

(***************************************************************************)
(* S19 counts the lines of the text, and the listing shows the text before *)
(* the mask, with the number of each line.  (WriteChar, list)              *)
(***************************************************************************)
THEOREM ListingAlwaysTrue == Spec => []ListingIsTrue
<1>1. IInv => ListingIsTrue
  <2>1. \A n : Out!LinesBegun(n) = OutP!LinesBegun(n)
    BY SameCardinality, Zenon DEF Out!LinesBegun, OutP!LinesBegun, Out!NL, OutP!NL
  <2> QED
    BY <2>1 DEF IInv, OutputHolds, OutP!OutInv, OutP!ListingIsTrue, ListingIsTrue, Out!ListingIsTrue
<1> QED
  BY <1>1, Inductive, PTL
=============================================================================
