------------------------------ MODULE Machine ------------------------------
(***************************************************************************)
(* The LOWL machine of pkg/lowl/vm: one step per instruction.  Core is one *)
(* array of words; the value of a word, which every store writes, is kept  *)
(* apart from the rest of it, which only a block move writes.              *)
(*                                                                         *)
(* The instructions are those that the statements of LMap compile into.    *)
(* LNM and LCH are one, as New sets them.                                  *)
(***************************************************************************)
EXTENDS Integers, Sequences

CONSTANTS Address,  \* the indexes of Core
          Atom,     \* the characters GOPC does not take for punctuation
          Cycles,   \* how many instructions Run executes before it gives up
          NumberText, MaxNumberText  \* where MDCONV writes, and how many words it has

VARIABLES text,     \* of each word, the operation and the second value
          core,     \* of each word, the value
          symbols,  \* machine.Symbols
          pc, A, B, C,
          cmp,      \* Registers.Cmp
          jump,     \* Registers.JumpValue
          rs,       \* the return stack
          messages, \* what has been written on the messages stream
          status,   \* "running", or how Run ended
          cycles    \* how many instructions Run may still execute

registers == <<A, B, C, cmp, jump>>
vars == <<text, symbols, core, pc, registers, rs, messages, status, cycles>>

Start(at) ==
  /\ pc = at
  /\ A = 0 /\ B = 0 /\ C = 0
  /\ cmp = "IS_EQ" /\ jump = 0
  /\ rs = <<>> /\ messages = <<>>
  /\ status = "running"
  /\ cycles = Cycles

operation == text[pc].op
value == core[pc]
Direct == core[value]
Indirect == core[Direct]
Indexed == core[B + value]

(***************************************************************************)
(* An instruction that reaches outside Core panics.                        *)
(***************************************************************************)
ThroughVariable == {"LAI", "LCI", "CAI", "CCI", "STI"}
OfVariable == {"LAV", "LBV", "AAV", "SAV", "ANDV", "CAV", "STV", "BUMP", "GOADD", "LINKR", "LINKB"}
Copies == {"FMOVE", "BMOVE"}
Source == core[value]
Destination == core[text[pc].two]
Top == core[symbols["LFPT"]]
Free == core[symbols["FFPT"]]

Reach ==
  CASE operation \in OfVariable -> {value}
    [] operation \in ThroughVariable -> {value} \cup (IF value \in Address THEN {Direct} ELSE {})
    [] operation = "LAM" -> {B + value}
    [] operation \in Copies -> (Source .. Source + A - 1) \cup (Destination .. Destination + A - 1)
    [] operation \in {"FSTK", "CFSTK"} -> {Free}
    [] operation = "BSTK" -> {Top - 1}
    [] operation = "UNSTK" -> {Top, value}
    [] OTHER -> {}

Running == status = "running" /\ cycles > 0
InCore == pc \in Address /\ Reach \subseteq Address /\ (operation \in Copies => A >= 0)

\* Step has read an instruction it can execute.
Reads(operations) ==
  /\ Running /\ InCore
  /\ operation \in operations
  /\ cycles' = cycles - 1
  /\ UNCHANGED symbols
Executes(operations) == Reads(operations) /\ UNCHANGED <<text, messages>>
Continues(operations) == Executes(operations) /\ pc' = pc + 1 /\ UNCHANGED <<rs, status>>
BranchesTo(at) == pc' = at /\ UNCHANGED status
Fails == status' = "error" /\ UNCHANGED <<core, pc, registers, rs>>
-----------------------------------------------------------------------------
(* The registers. *)

\* Bitwise AND of numbers in two's complement; OR follows from it.
And[x \in Int, y \in Int] ==
  IF x = 0 \/ y = 0 THEN 0
  ELSE IF x = -1 THEN y
  ELSE IF y = -1 THEN x
  ELSE 2 * And[x \div 2, y \div 2] + (x % 2) * (y % 2)
Or(x, y) == x + y - And[x, y]

LoadA ==
  /\ Continues({"LAL", "LAA", "LAV", "LAI", "LAM"})
  /\ A' = CASE operation \in {"LAL", "LAA"} -> value
            [] operation = "LAV" -> Direct
            [] operation = "LAI" -> Indirect
            [] operation = "LAM" -> Indexed
  /\ UNCHANGED <<core, B, C, cmp, jump>>

LoadB == Continues({"LBV"}) /\ B' = Direct /\ UNCHANGED <<core, A, C, cmp, jump>>
LoadC ==
  /\ Continues({"LCI", "LCN"})
  /\ C' = IF operation = "LCI" THEN Indirect ELSE value
  /\ UNCHANGED <<core, A, B, cmp, jump>>

Arithmetic ==
  /\ Continues({"AAL", "AAV", "SAL", "SAV", "MULTL", "ANDL", "ANDV", "ORL"})
  /\ A' = CASE operation = "AAL" -> A + value
            [] operation = "AAV" -> A + Direct
            [] operation = "SAL" -> A - value
            [] operation = "SAV" -> A - Direct
            [] operation = "MULTL" -> A * value
            [] operation = "ANDL" -> And[A, value]
            [] operation = "ANDV" -> And[A, Direct]
            [] operation = "ORL" -> Or(A, value)
  /\ UNCHANGED <<core, B, C, cmp, jump>>

Against(x, y) == IF x < y THEN "IS_LT" ELSE IF x = y THEN "IS_EQ" ELSE "IS_GR"

Compare ==
  /\ Continues({"CAL", "CAV", "CAI", "CCL", "CCN", "CCI"})
  /\ cmp' = CASE operation = "CAL" -> Against(A, value)
              [] operation = "CAV" -> Against(A, Direct)
              [] operation = "CAI" -> Against(A, Indirect)
              [] operation \in {"CCL", "CCN"} -> Against(C, value)
              [] operation = "CCI" -> Against(C, Indirect)
  /\ UNCHANGED <<core, A, B, C, jump>>

Store ==
  /\ Continues({"STV", "STI"})
  /\ core' = [core EXCEPT ![IF operation = "STV" THEN value ELSE Direct] = A]
  /\ UNCHANGED registers

Bump ==
  /\ Continues({"BUMP"})
  /\ core' = [core EXCEPT ![value] = @ + text[pc].two]
  /\ UNCHANGED registers
NoOp == Continues({"NOOP"}) /\ UNCHANGED <<core, registers>>
-----------------------------------------------------------------------------
(* Control. *)

Outcomes == [GO |-> {"IS_LT", "IS_EQ", "IS_GR"}, GOEQ |-> {"IS_EQ"}, GONE |-> {"IS_LT", "IS_GR"},
             GOGR |-> {"IS_GR"}, GOGE |-> {"IS_GR", "IS_EQ"},
             GOLE |-> {"IS_LT", "IS_EQ"}, GOLT |-> {"IS_LT"}]

Branch ==
  /\ Executes(DOMAIN Outcomes)
  /\ BranchesTo(IF cmp \in Outcomes[operation] THEN value ELSE pc + 1)
  /\ UNCHANGED <<core, registers, rs>>
BranchPunctuation ==
  /\ Executes({"GOPC"})
  /\ BranchesTo(IF C \notin Atom THEN value ELSE pc + 1)
  /\ UNCHANGED <<core, registers, rs>>

\* A digit that is no reason to branch is left in A as a number.
IsDigit(c) == c \in 48 .. 57
BranchNoDigit ==
  /\ Executes({"GOND"})
  /\ \/ ~IsDigit(C) /\ BranchesTo(value) /\ UNCHANGED A
     \/ IsDigit(C) /\ BranchesTo(pc + 1) /\ A' = C - 48
  /\ UNCHANGED <<core, B, C, cmp, jump, rs>>

\* The words after a call or a GOADD are taken one by one.
Select == Continues({"GOADD"}) /\ jump' = Direct /\ UNCHANGED <<core, A, B, C, cmp>>
TableEntry ==
  /\ Executes({"GOTBL"})
  /\ BranchesTo(IF text[pc].two = jump THEN value ELSE pc + 1)
  /\ UNCHANGED <<core, registers, rs>>

GoSubHere ==  \* faulty variant: the call itself is what it returns to
  /\ Executes({"GOSUB"})
  /\ BranchesTo(value)
  /\ rs' = Append(rs, pc)
  /\ UNCHANGED <<core, registers>>
GoSub ==
  /\ Executes({"GOSUB"})
  /\ BranchesTo(value)
  /\ rs' = Append(rs, pc + 1)
  /\ UNCHANGED <<core, registers>>

Pops == rs' = SubSeq(rs, 1, Len(rs) - 1)
Exit ==
  /\ Executes({"EXIT"})
  /\ \/ /\ rs # <<>>
        /\ BranchesTo(rs[Len(rs)]) /\ Pops
        /\ jump' = value
        /\ UNCHANGED <<core, A, B, C, cmp>>
     \/ rs = <<>> /\ Fails

\* A linkroutine moves its return address off the stack into LINKPT.
EnterLink ==
  /\ Executes({"LINKR"})
  /\ \/ /\ rs # <<>>
        /\ core' = [core EXCEPT ![value] = rs[Len(rs)]] /\ Pops
        /\ BranchesTo(pc + 1)
        /\ UNCHANGED registers
     \/ rs = <<>> /\ Fails
LeaveLink == Executes({"LINKB"}) /\ BranchesTo(Direct) /\ UNCHANGED <<core, registers, rs>>
ClearStack ==
  /\ Executes({"CSS"})
  /\ BranchesTo(pc + 1)
  /\ rs' = <<>>
  /\ UNCHANGED <<core, registers>>

\* A word that is data.
NotExecutable == Executes({"DATA"}) /\ Fails
Quit == Executes({"MDQUIT"}) /\ status' = "quit" /\ UNCHANGED <<core, pc, registers, rs>>
-----------------------------------------------------------------------------
(* The stacks in the workspace, block moves, and the machine's own division. *)

\* A push leaves the pointer it compared in A; if the stacks have met it goes to
\* ERLSO, and fails when the program has none.
Compared ==
  LET free == core'[symbols["FFPT"]]
      top == core'[symbols["LFPT"]]
  IN  /\ A' = free /\ cmp' = Against(free, top)
      /\ UNCHANGED <<B, C, jump, rs>>
      /\ \/ free < top /\ BranchesTo(pc + 1)
         \/ free >= top /\ "ERLSO" \in DOMAIN symbols /\ BranchesTo(symbols["ERLSO"])
         \/ free >= top /\ "ERLSO" \notin DOMAIN symbols /\ status' = "error" /\ UNCHANGED pc
PushForwards ==
  LET stored == [core EXCEPT ![Free] = IF operation = "FSTK" THEN A ELSE C]
  IN  /\ Executes({"FSTK", "CFSTK"})
      /\ core' = [stored EXCEPT ![symbols["FFPT"]] = @ + 1]
      /\ Compared
PushBackwards ==
  /\ Executes({"BSTK"})
  /\ core' = [core EXCEPT ![symbols["LFPT"]] = Top - 1, ![Top - 1] = A]
  /\ Compared

Unstack ==
  LET popped == [core EXCEPT ![value] = core[Top]]
  IN  /\ Continues({"UNSTK"})
      /\ A' = core[Top]
      /\ core' = [popped EXCEPT ![symbols["LFPT"]] = @ + 1]
      /\ UNCHANGED <<B, C, cmp, jump>>

\* The whole source is read before any of it is written, and words are moved
\* with all that is in them.
Moved(words) == [a \in Address |-> IF a \in Destination .. Destination + A - 1
                                   THEN words[Source + (a - Destination)] ELSE words[a]]
MoveBlock ==
  /\ Reads(Copies)
  /\ core' = Moved(core) /\ text' = Moved(text) /\ UNCHANGED messages
  /\ BranchesTo(pc + 1)
  /\ UNCHANGED <<registers, rs>>

FloorDiv(x, y) == IF y > 0 THEN x \div y ELSE (-x) \div (-y)
Multiply == core[symbols["OPSW"]] = 1
left == core[symbols["OP1"]]
right == core[symbols["MEVAL"]]
MultiplyOrDivide ==
  LET Answers(v) == core' = [core EXCEPT ![symbols["MEVAL"]] = v] /\ jump' = 2
  IN  /\ Continues({"MDOP"})
      /\ \/ Multiply /\ Answers(left * right)
         \/ ~Multiply /\ right # 0 /\ Answers(FloorDiv(left, right))
         \/ ~Multiply /\ right = 0 /\ jump' = 1 /\ UNCHANGED core
      /\ UNCHANGED <<A, B, C, cmp>>

\* The decimal digits of MEVAL, in the words New put by; IDPT and IDLEN say where.
Digits[n \in Nat] == IF n < 10 THEN <<48 + n>> ELSE Append(Digits[n \div 10], 48 + (n % 10))
Decimal == IF right < 0 THEN <<45>> \o Digits[-right] ELSE Digits[right]
ConvertNumber ==
  /\ Executes({"MDCONV"})
  /\ \/ /\ Len(Decimal) <= MaxNumberText
        /\ core' = [a \in Address |->
                      CASE a = symbols["IDPT"] -> NumberText
                        [] a = symbols["IDLEN"] -> Len(Decimal)
                        [] a - NumberText + 1 \in DOMAIN Decimal -> Decimal[a - NumberText + 1]
                        [] OTHER -> core[a]]
        /\ BranchesTo(pc + 1)
        /\ UNCHANGED <<registers, rs>>
     \/ Len(Decimal) > MaxNumberText /\ Fails
-----------------------------------------------------------------------------
(* The messages stream; the host behind it is not part of this module. *)

Writes(operations, characters) ==
  /\ Reads(operations)
  /\ messages' = messages \o characters
  /\ BranchesTo(pc + 1)
  /\ UNCHANGED <<text, core, registers, rs>>
WriteCharacter == Writes({"MDERCH"}, <<C>>)
\* A dollar sign in the text of a MESS is a newline.
WriteText == Writes({"MESS"}, [k \in DOMAIN text[pc].two |-> IF text[pc].two[k] = 36 THEN 10 ELSE text[pc].two[k]])
-----------------------------------------------------------------------------
Instruction ==
  \/ LoadA \/ LoadB \/ LoadC \/ Arithmetic \/ Compare \/ Store \/ Bump \/ NoOp
  \/ Branch \/ BranchPunctuation \/ BranchNoDigit \/ Select \/ TableEntry \/ GoSub \/ Exit
  \/ EnterLink \/ LeaveLink \/ ClearStack \/ NotExecutable \/ Quit
  \/ PushForwards \/ PushBackwards \/ Unstack \/ MoveBlock \/ MultiplyOrDivide
  \/ ConvertNumber \/ WriteCharacter \/ WriteText
Panic ==
  /\ Running /\ ~InCore
  /\ status' = "panic"
  /\ UNCHANGED <<text, symbols, core, pc, registers, rs, messages, cycles>>
OutOfCycles ==
  /\ status = "running" /\ cycles = 0
  /\ status' = "limit"
  /\ UNCHANGED <<text, symbols, core, pc, registers, rs, messages, cycles>>
Next == Instruction \/ Panic \/ OutOfCycles
-----------------------------------------------------------------------------
\* Every return address is the word after a call.
ReturnsFollowCalls == \A k \in DOMAIN rs : rs[k] - 1 \in Address /\ text[rs[k] - 1].op = "GOSUB"
=============================================================================
