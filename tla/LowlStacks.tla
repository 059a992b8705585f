----------------------------- MODULE LowlStacks -----------------------------
(***************************************************************************)
(* The two stacks of a LOWL program, as pkg/lowl/vm keeps them: the        *)
(* forwards stack grows up from FFPT and the backwards stack grows down    *)
(* from LFPT, both in core, behind the S-variable block that the host      *)
(* laid out.  One action per stack instruction of Step.  What the program  *)
(* does between two of them (loading a register, cutting the forwards      *)
(* stack back by assigning FFPT) is the external program.                  *)
(***************************************************************************)
EXTENDS Integers

CONSTANTS MaxWords,   \* MAX_WORDS: the size of Core
          Last,       \* Registers.Last: the last address of the program
          NVars,      \* how many S-variables the host lays out
          SVars,      \* their values, S1 first
          ReqWords,   \* Job.Workspace
          Literal,    \* what the program loads into A and C
          HasERLSO    \* the program defines ERLSO

ASSUME StacksAssumption ==
  /\ MaxWords \in Nat /\ Last \in Nat /\ NVars \in Nat /\ ReqWords \in Nat
  /\ Last + 1 + NVars < MaxWords
  /\ SVars \in [1 .. NVars -> Int]
  /\ Literal \subseteq Int
  /\ HasERLSO \in BOOLEAN

VARIABLES core,   \* Core[a].Value
          ffpt,   \* the word FFPT names: first free word of the forwards stack
          lfpt,   \* the word LFPT names: last word in use on the backwards stack
          A, C,   \* registers
          cmp,    \* Registers.Cmp
          v,      \* the variable UNSTK stores into
          at      \* where control is

vars == <<core, ffpt, lfpt, A, C, cmp, v, at>>

LNM == 1
LCH == 1
DefaultWorkspace == 5000
Address == 0 .. MaxWords - 1

(***************************************************************************)
(* SetSystemVariables: S1 last, the count above it, SVARPT at the count.   *)
(***************************************************************************)
SVarPt == Last + 1 + NVars * LNM
SystemBlock == [a \in Address |->
  CASE a = SVarPt -> NVars
    [] a \in Last + 1 .. SVarPt - 1 -> SVars[SVarPt - a]
    [] OTHER -> 0]

\* SetWorkspace is given the address SetSystemVariables returned.
BaseOnCount == SVarPt  \* faulty variant: the workspace starts on the count itself
Base == SVarPt + LNM
Words == IF ReqWords = 0 THEN DefaultWorkspace ELSE ReqWords
Top == Base + Words

Init ==
  /\ core = SystemBlock
  /\ ffpt = Base /\ lfpt = Top
  /\ A = 0 /\ C = 0 /\ v = 0
  /\ cmp = "EQ"
  /\ at = "logic"

CompareTwoWay(r, x) == IF r < x THEN "LT" ELSE "GE"  \* faulty variant
Compare(r, x) == IF r < x THEN "LT" ELSE IF r = x THEN "EQ" ELSE "GR"

\* The end of FSTK, BSTK and CFSTK: GOGE ERLSO when the stacks have met.
MetLate == cmp' = "GR"    \* faulty variant: GOGR instead of GOGE
Met == cmp' \in {"EQ", "GR"}
StackOverflow == IF HasERLSO THEN "erlso" ELSE "stopped"
Branch == at' = IF Met THEN StackOverflow ELSE "logic"

\* An index outside Core stops the Go program where it stands.
Panic == at' = "panic" /\ UNCHANGED <<core, A, C, cmp, v>>

FSTK ==
  /\ at = "logic"
  /\ \/ /\ ffpt \in Address
        /\ core' = [core EXCEPT ![ffpt] = A]
        /\ ffpt' = ffpt + LNM
        /\ A' = ffpt'
        /\ cmp' = Compare(A', lfpt)
        /\ Branch
        /\ UNCHANGED <<lfpt, C, v>>
     \/ ffpt \notin Address /\ Panic /\ UNCHANGED <<ffpt, lfpt>>

CFSTK ==
  /\ at = "logic"
  /\ \/ /\ ffpt \in Address
        /\ core' = [core EXCEPT ![ffpt] = C]
        /\ ffpt' = ffpt + LCH
        /\ A' = ffpt'
        /\ cmp' = Compare(A', lfpt)
        /\ Branch
        /\ UNCHANGED <<lfpt, C, v>>
     \/ ffpt \notin Address /\ Panic /\ UNCHANGED <<ffpt, lfpt>>

\* Faulty variant: the store comes before LFPT has moved.
BSTKStoresFirst ==
  /\ at = "logic"
  /\ lfpt' = lfpt - LNM
  /\ core' = [core EXCEPT ![lfpt] = A]
  /\ A' = ffpt
  /\ cmp' = Compare(A', lfpt')
  /\ Branch
  /\ UNCHANGED <<ffpt, C, v>>

\* LFPT moves first: the word stored is the one it then points at.
BSTK ==
  /\ at = "logic"
  /\ lfpt' = lfpt - LNM
  /\ UNCHANGED ffpt
  /\ \/ /\ lfpt' \in Address
        /\ core' = [core EXCEPT ![lfpt'] = A]
        /\ A' = ffpt
        /\ cmp' = Compare(A', lfpt')
        /\ Branch
        /\ UNCHANGED <<C, v>>
     \/ lfpt' \notin Address /\ Panic

\* Faulty variant: the BUMP of LFPT is missing.
UNSTKKeeps ==
  /\ at = "logic"
  /\ lfpt < Top
  /\ A' = core[lfpt]
  /\ v' = A'
  /\ UNCHANGED <<core, ffpt, lfpt, C, cmp, at>>

\* Nothing checks that there is something to unstack: the program is relied
\* on to unstack only what it has stacked, so a BSTK has been at this word.
UNSTK ==
  /\ at = "logic"
  /\ lfpt < Top
  /\ A' = core[lfpt]
  /\ v' = A'
  /\ lfpt' = lfpt + LNM
  /\ UNCHANGED <<core, ffpt, C, cmp, at>>

\* External: the program loads a register, or cuts the forwards stack back.
Load(x) ==
  /\ at = "logic"
  /\ \/ A' = x /\ UNCHANGED C
     \/ C' = x /\ UNCHANGED A
  /\ UNCHANGED <<core, ffpt, lfpt, cmp, v, at>>

Cut(a) ==
  /\ at = "logic"
  /\ A' = a
  /\ ffpt' = a
  /\ UNCHANGED <<core, lfpt, C, cmp, v, at>>

Next ==
  \/ FSTK \/ CFSTK \/ BSTK \/ UNSTK
  \/ \E x \in Literal : Load(x)
  \/ \E a \in Base .. ffpt : Cut(a)

Spec == Init /\ [][Next]_vars
-----------------------------------------------------------------------------
TypeOK ==
  /\ core \in [Address -> Int]
  /\ ffpt \in Nat /\ lfpt \in Int
  /\ A \in Int /\ C \in Int /\ v \in Int
  /\ cmp \in {"LT", "EQ", "GR"}
  /\ at \in {"logic", "erlso", "stopped", "panic"}

\* The workspace that was asked for lies inside Core.
Fits == Top <= MaxWords

(***************************************************************************)
(* The stacks share the workspace without overlapping, and the overflow    *)
(* branch is taken at exactly the push that uses its last word: neither a  *)
(* push late, when a word of the other stack is already gone, nor while a  *)
(* word is free.  (FSTK, CFSTK, BSTK, stackOverflow)                       *)
(***************************************************************************)
OverflowIsExact ==
  /\ Base <= ffpt /\ ffpt <= lfpt /\ lfpt <= Top
  /\ at = "logic" => ffpt < lfpt
  /\ at \in {"erlso", "stopped"} => ffpt = lfpt

\* No stack instruction indexes outside Core: running out of storage is the
\* program's diagnostic, never a crash of the machine.  (stackOverflow's
\* comment: it is not a fault the machine stops on, it is a branch.)
NeverPanics == at # "panic"

(***************************************************************************)
(* A stack instruction changes at most words that are free at the time, so *)
(* neither stack, nor the program below the workspace, nor the S-variables *)
(* between them, is ever overwritten.  (SetWorkspace, Step)                *)
(***************************************************************************)
OnlyFreeWords ==
  [][\A a \in Address : core'[a] # core[a] => ffpt <= a /\ a < lfpt]_vars

\* The S-variable block is where SVARPT says for as long as the program runs.
SystemVariablesIntact ==
  /\ core[SVarPt] = NVars
  /\ \A n \in 1 .. NVars : core[SVarPt - n * LNM] = SVars[n]

(***************************************************************************)
(* Read through this mapping the machine is the two stacks of TwoStacks.   *)
(***************************************************************************)
Abstract == INSTANCE TwoStacks WITH
  Item  <- Literal \cup {0} \cup 0 .. MaxWords,
  fwd   <- [i \in 1 .. ffpt - Base |-> core[Base + i - 1]],
  bwd   <- [i \in 1 .. Top - lfpt |-> core[Top - i]],
  met   <- at \in {"erlso", "stopped"},
  out   <- v

ImplementsTwoStacks == Abstract!Spec
=============================================================================
