-------------------------- MODULE LowlStacksProofs --------------------------
(***************************************************************************)
(* Theorems about the stacks of a LOWL program, for every core size, every *)
(* program length, every S-variable block and every workspace; and about   *)
(* the rest of Step, as Machine has it: whose stack instructions are these *)
(* (StackInstructionsAgree), and where its calls return to.                *)
(***************************************************************************)
EXTENDS LowlStacks, SequenceTheorems, TLAPS

\* Where the words are: the S-variables above the program, the workspace
\* above them, with at least one word in it.
LEMMA Layout ==
  /\ SVarPt \in Nat /\ Base \in Nat /\ Top \in Nat
  /\ Base = SVarPt + 1 /\ SVarPt = Last + 1 + NVars
  /\ Base < Top /\ Base <= MaxWords
BY StacksAssumption DEF SVarPt, Base, Top, Words, DefaultWorkspace, LNM

\* What TypeOK, OverflowIsExact and SystemVariablesIntact need to be
\* inductive: once a word is on the backwards stack, all of the workspace lies
\* inside Core (its first word is the highest of all).
UnstackableInCore == at = "logic" /\ lfpt < Top => Top <= MaxWords

IInv ==
  /\ TypeOK
  /\ OverflowIsExact
  /\ SystemVariablesIntact
  /\ UnstackableInCore

LEMMA InitIInv == Init => IInv
<1> SUFFICES ASSUME Init PROVE IInv
  OBVIOUS
<1> USE StacksAssumption, Layout
<1>1. SystemBlock \in [Address -> Int]
  <2>1. ASSUME NEW a \in Address
        PROVE  SystemBlock[a] \in Int
    <3>1. CASE a = SVarPt
      BY <3>1 DEF SystemBlock
    <3>2. CASE a \in Last + 1 .. SVarPt - 1
      <4>1. SVarPt - a \in 1 .. NVars
        BY <3>2
      <4>2. SystemBlock[a] = SVars[SVarPt - a]
        BY <3>2 DEF SystemBlock, Address
      <4> QED BY <4>1, <4>2
    <3>3. CASE a # SVarPt /\ a \notin Last + 1 .. SVarPt - 1
      BY <3>3 DEF SystemBlock
    <3> QED BY <3>1, <3>2, <3>3
  <2> QED BY <2>1 DEF SystemBlock
<1>2. TypeOK
  BY <1>1 DEF Init, TypeOK
<1>3. OverflowIsExact
  BY DEF Init, OverflowIsExact
<1>4. SystemVariablesIntact
  <2>1. core[SVarPt] = NVars
    BY DEF Init, SystemBlock, Address
  <2>2. ASSUME NEW n \in 1 .. NVars
        PROVE  core[SVarPt - n * LNM] = SVars[n]
    <3> DEFINE a == SVarPt - n * LNM
    <3>1. a \in Address /\ a # SVarPt /\ a \in Last + 1 .. SVarPt - 1 /\ SVarPt - a = n
      BY DEF Address, LNM
    <3> HIDE DEF a
    <3>2. core[a] = SVars[SVarPt - a]
      BY <3>1 DEF Init, SystemBlock
    <3> QED BY <3>1, <3>2 DEF a
  <2> QED BY <2>1, <2>2 DEF SystemVariablesIntact
<1>5. UnstackableInCore
  BY DEF Init, UnstackableInCore
<1> QED BY <1>2, <1>3, <1>4, <1>5 DEF IInv

(***************************************************************************)
(* One step changes only words that are free when it starts.               *)
(***************************************************************************)
WritesOnlyFree == \A a \in Address : core'[a] # core[a] => ffpt <= a /\ a < lfpt

LEMMA StepWritesOnlyFree == IInv /\ [Next]_vars => WritesOnlyFree
<1> SUFFICES ASSUME IInv, [Next]_vars PROVE WritesOnlyFree
  OBVIOUS
<1> USE StacksAssumption, Layout DEF IInv, TypeOK, OverflowIsExact, WritesOnlyFree
<1>1. CASE FSTK
  BY <1>1 DEF FSTK, Panic, Address
<1>2. CASE CFSTK
  BY <1>2 DEF CFSTK, Panic, Address
<1>3. CASE BSTK
  BY <1>3 DEF BSTK, Panic, Address, LNM
<1>4. CASE UNSTK
  BY <1>4 DEF UNSTK
<1>5. ASSUME NEW x \in Literal, Load(x)
      PROVE  WritesOnlyFree
  BY <1>5 DEF Load
<1>6. ASSUME NEW a \in Base .. ffpt, Cut(a)
      PROVE  WritesOnlyFree
  BY <1>6 DEF Cut
<1>7. CASE UNCHANGED vars
  BY <1>7 DEF vars
<1> QED BY <1>1, <1>2, <1>3, <1>4, <1>5, <1>6, <1>7 DEF Next

LEMMA StepType == IInv /\ [Next]_vars => TypeOK'
<1> SUFFICES ASSUME IInv, [Next]_vars PROVE TypeOK'
  OBVIOUS
<1> USE StacksAssumption, Layout DEF IInv, TypeOK, OverflowIsExact
<1>1. CASE FSTK
  BY <1>1 DEF FSTK, Panic, Branch, StackOverflow, Compare, LNM
<1>2. CASE CFSTK
  BY <1>2 DEF CFSTK, Panic, Branch, StackOverflow, Compare, LCH
<1>3. CASE BSTK
  BY <1>3 DEF BSTK, Panic, Branch, StackOverflow, Compare, LNM
<1>4. CASE UNSTK
  <2>1. lfpt \in Address
    BY <1>4 DEF UNSTK, UnstackableInCore, Address
  <2> QED BY <1>4, <2>1 DEF UNSTK, LNM
<1>5. ASSUME NEW x \in Literal, Load(x)
      PROVE  TypeOK'
  BY <1>5 DEF Load
<1>6. ASSUME NEW a \in Base .. ffpt, Cut(a)
      PROVE  TypeOK'
  BY <1>6 DEF Cut
<1>7. CASE UNCHANGED vars
  BY <1>7 DEF vars
<1> QED BY <1>1, <1>2, <1>3, <1>4, <1>5, <1>6, <1>7 DEF Next

LEMMA StepExact == IInv /\ [Next]_vars => OverflowIsExact' /\ UnstackableInCore'
<1> SUFFICES ASSUME IInv, [Next]_vars
             PROVE  OverflowIsExact' /\ UnstackableInCore'
  OBVIOUS
<1> USE StacksAssumption, Layout
    DEF IInv, TypeOK, OverflowIsExact, UnstackableInCore, Address
<1>1. CASE FSTK
  <2>1. CASE at' = "panic" /\ UNCHANGED <<ffpt, lfpt>>
    BY <2>1
  <2>2. CASE ffpt' = ffpt + 1 /\ lfpt' = lfpt /\ cmp' = Compare(ffpt + 1, lfpt) /\ Branch
    <3>1. ffpt + 1 <= lfpt
      BY <1>1 DEF FSTK
    <3>2. at' = IF ffpt + 1 = lfpt THEN StackOverflow ELSE "logic"
      BY <2>2, <3>1 DEF Branch, Met, Compare
    <3> QED BY <1>1, <2>2, <3>1, <3>2 DEF FSTK, StackOverflow
  <2> QED BY <1>1, <2>1, <2>2 DEF FSTK, Panic, LNM
<1>2. CASE CFSTK
  <2>1. CASE at' = "panic" /\ UNCHANGED <<ffpt, lfpt>>
    BY <2>1
  <2>2. CASE ffpt' = ffpt + 1 /\ lfpt' = lfpt /\ cmp' = Compare(ffpt + 1, lfpt) /\ Branch
    <3>1. ffpt + 1 <= lfpt
      BY <1>2 DEF CFSTK
    <3>2. at' = IF ffpt + 1 = lfpt THEN StackOverflow ELSE "logic"
      BY <2>2, <3>1 DEF Branch, Met, Compare
    <3> QED BY <1>2, <2>2, <3>1, <3>2 DEF CFSTK, StackOverflow
  <2> QED BY <1>2, <2>1, <2>2 DEF CFSTK, Panic, LCH
<1>3. CASE BSTK
  BY <1>3 DEF BSTK, Panic, Branch, Met, StackOverflow, Compare, LNM
<1>4. CASE UNSTK
  BY <1>4 DEF UNSTK, LNM
<1>5. ASSUME NEW x \in Literal, Load(x)
      PROVE  OverflowIsExact' /\ UnstackableInCore'
  BY <1>5 DEF Load
<1>6. ASSUME NEW a \in Base .. ffpt, Cut(a)
      PROVE  OverflowIsExact' /\ UnstackableInCore'
  BY <1>6 DEF Cut
<1>7. CASE UNCHANGED vars
  BY <1>7 DEF vars
<1> QED BY <1>1, <1>2, <1>3, <1>4, <1>5, <1>6, <1>7 DEF Next

\* The S-variables lie below the first free word, so no push reaches them.
LEMMA StepSystemVariables == IInv /\ [Next]_vars => SystemVariablesIntact'
<1> SUFFICES ASSUME IInv, [Next]_vars PROVE SystemVariablesIntact'
  OBVIOUS
<1>1. ASSUME NEW a \in Address, a < Base
      PROVE  core'[a] = core[a]
  <2>1. Base <= ffpt /\ ffpt \in Int /\ Base \in Int /\ a \in Int
    BY Layout DEF IInv, OverflowIsExact, TypeOK, Address
  <2>2. ~(ffpt <= a)
    BY <1>1, <2>1
  <2> QED BY <2>2, StepWritesOnlyFree DEF WritesOnlyFree
<1>2. SVarPt \in Address /\ SVarPt < Base
  BY Layout, StacksAssumption DEF Address
<1>3. ASSUME NEW n \in 1 .. NVars
      PROVE  SVarPt - n * LNM \in Address /\ SVarPt - n * LNM < Base
  BY Layout, StacksAssumption DEF Address, LNM
<1>4. core'[SVarPt] = NVars
  BY <1>1, <1>2 DEF IInv, SystemVariablesIntact
<1>5. ASSUME NEW n \in 1 .. NVars
      PROVE  core'[SVarPt - n * LNM] = SVars[n]
  BY <1>1, <1>3 DEF IInv, SystemVariablesIntact
<1> QED BY <1>4, <1>5 DEF SystemVariablesIntact

LEMMA StepIInv == IInv /\ [Next]_vars => IInv'
BY StepType, StepExact, StepSystemVariables DEF IInv

THEOREM Inductive == Spec => []IInv
BY InitIInv, StepIInv, PTL DEF Spec

(***************************************************************************)
(* Registers, pointers and core hold numbers, whatever the program does.   *)
(***************************************************************************)
THEOREM TypeCorrect == Spec => []TypeOK
<1>1. IInv => TypeOK
  BY DEF IInv
<1> QED BY Inductive, <1>1, PTL

(***************************************************************************)
(* The stacks never overlap, and FSTK, CFSTK and BSTK branch to ERLSO at   *)
(* exactly the push that takes the last free word.                         *)
(***************************************************************************)
THEOREM OverflowExact == Spec => []OverflowIsExact
<1>1. IInv => OverflowIsExact
  BY DEF IInv
<1> QED BY Inductive, <1>1, PTL

(***************************************************************************)
(* The stacks never reach the S-variable block the host laid out.          *)
(***************************************************************************)
THEOREM SystemVariablesSafe == Spec => []SystemVariablesIntact
<1>1. IInv => SystemVariablesIntact
  BY DEF IInv
<1> QED BY Inductive, <1>1, PTL

(***************************************************************************)
(* No stack instruction overwrites a word that is in use.                  *)
(***************************************************************************)
THEOREM NothingOverwritten == Spec => OnlyFreeWords
<1>1. IInv /\ [Next]_vars => [WritesOnlyFree]_vars
  BY StepWritesOnlyFree
<1>2. Spec => [][WritesOnlyFree]_vars
  BY Inductive, <1>1, PTL DEF Spec
<1> QED BY <1>2 DEF OnlyFreeWords, WritesOnlyFree

(***************************************************************************)
(* A workspace that lies inside Core is never left: running out of storage *)
(* is always the branch, never a crash.                                    *)
(***************************************************************************)
THEOREM NoPanic == ASSUME Fits PROVE Spec => []NeverPanics
<1>1. Init => NeverPanics
  BY DEF Init, NeverPanics
<1>2. IInv /\ NeverPanics /\ [Next]_vars => NeverPanics'
  <2> SUFFICES ASSUME IInv, NeverPanics, [Next]_vars PROVE NeverPanics'
    OBVIOUS
  <2> USE StacksAssumption, Layout, Fits
      DEF IInv, TypeOK, OverflowIsExact, NeverPanics, Fits, Address
  <2>1. CASE FSTK
    BY <2>1 DEF FSTK, Branch, StackOverflow
  <2>2. CASE CFSTK
    BY <2>2 DEF CFSTK, Branch, StackOverflow
  <2>3. CASE BSTK
    BY <2>3 DEF BSTK, Branch, StackOverflow, LNM
  <2>4. CASE UNSTK
    BY <2>4 DEF UNSTK
  <2>5. ASSUME NEW x \in Literal, Load(x) PROVE NeverPanics'
    BY <2>5 DEF Load
  <2>6. ASSUME NEW a \in Base .. ffpt, Cut(a) PROVE NeverPanics'
    BY <2>6 DEF Cut
  <2>7. CASE UNCHANGED vars
    BY <2>7 DEF vars
  <2> QED BY <2>1, <2>2, <2>3, <2>4, <2>5, <2>6, <2>7 DEF Next
<1> QED BY Inductive, <1>1, <1>2, PTL DEF Spec
-----------------------------------------------------------------------------
(***************************************************************************)
(* The refinement of TwoStacks.                                            *)
(***************************************************************************)
Items == Literal \cup {0} \cup 0 .. MaxWords

Forwards == [i \in 1 .. ffpt - Base |-> core[Base + i - 1]]
Backwards == [i \in 1 .. Top - lfpt |-> core[Top - i]]

\* Whatever is stacked came out of a register.
HoldsItems ==
  /\ A \in Items /\ C \in Items
  /\ \A a \in Address : a >= Base => core[a] \in Items

LEMMA InitHoldsItems == Init => HoldsItems
BY Layout, StacksAssumption DEF Init, HoldsItems, Items, SystemBlock, Address

LEMMA StepHoldsItems ==
  ASSUME Fits
  PROVE  IInv /\ HoldsItems /\ [Next]_vars => HoldsItems'
<1> SUFFICES ASSUME IInv, HoldsItems, [Next]_vars PROVE HoldsItems'
  OBVIOUS
<1> USE StacksAssumption, Layout DEF IInv, TypeOK, OverflowIsExact
<1>0. \A n \in Nat : n <= MaxWords => n \in Items
  BY DEF Items
<1>1. ffpt \in Items /\ (ffpt < lfpt => ffpt + 1 \in Items)
  <2>1. ffpt <= MaxWords /\ (ffpt < lfpt => ffpt + 1 <= MaxWords)
    BY Fits DEF Fits
  <2> QED BY <2>1, <1>0
<1>2. CASE FSTK
  <2>1. CASE Panic
    BY <2>1 DEF Panic, HoldsItems
  <2>2. CASE core' = [core EXCEPT ![ffpt] = A] /\ A' = ffpt + 1 /\ C' = C
    BY <1>1, <1>2, <2>2 DEF HoldsItems, FSTK
  <2> QED BY <1>2, <2>1, <2>2 DEF FSTK, LNM
<1>3. CASE CFSTK
  <2>1. CASE Panic
    BY <2>1 DEF Panic, HoldsItems
  <2>2. CASE core' = [core EXCEPT ![ffpt] = C] /\ A' = ffpt + 1 /\ C' = C
    BY <1>1, <1>3, <2>2 DEF HoldsItems, CFSTK
  <2> QED BY <1>3, <2>1, <2>2 DEF CFSTK, LCH
<1>4. CASE BSTK
  <2>1. CASE Panic
    BY <2>1 DEF Panic, HoldsItems
  <2>2. CASE core' = [core EXCEPT ![lfpt'] = A] /\ A' = ffpt /\ C' = C
    BY <1>1, <2>2 DEF HoldsItems
  <2> QED BY <1>4, <2>1, <2>2 DEF BSTK
<1>5. CASE UNSTK
  <2>1. lfpt \in Address /\ lfpt >= Base
    BY <1>5, Fits DEF UNSTK, Fits, Address
  <2> QED BY <1>5, <2>1 DEF UNSTK, HoldsItems
<1>6. ASSUME NEW x \in Literal, Load(x) PROVE HoldsItems'
  <2>1. x \in Items
    BY DEF Items
  <2> QED BY <1>6, <2>1 DEF Load, HoldsItems
<1>7. ASSUME NEW a \in Base .. ffpt, Cut(a) PROVE HoldsItems'
  <2>1. a \in Items
    BY <1>0, <1>7, Fits DEF Cut, Fits
  <2> QED BY <1>7, <2>1 DEF Cut, HoldsItems
<1>8. CASE UNCHANGED vars
  BY <1>8 DEF vars, HoldsItems
<1> QED BY <1>2, <1>3, <1>4, <1>5, <1>6, <1>7, <1>8 DEF Next

LEMMA InitImplements == Init => Abstract!Init
<1> SUFFICES ASSUME Init PROVE Abstract!Init
  OBVIOUS
<1>1. ffpt - Base = 0 /\ Top - lfpt = 0
  BY Layout DEF Init
<1>2. Forwards = << >> /\ Backwards = << >>
  BY <1>1 DEF Forwards, Backwards
<1> QED BY <1>2 DEF Init, Abstract!Init, Forwards, Backwards

\* The three shapes a step gives the mapped stacks: a push at either end, and
\* a change that leaves the words of a stack alone.
LEMMA PushedForwards ==
  ASSUME Fits, IInv, ffpt < lfpt, NEW x \in Int,
         core' = [core EXCEPT ![ffpt] = x], ffpt' = ffpt + 1, lfpt' = lfpt
  PROVE  Forwards' = Append(Forwards, x) /\ Backwards' = Backwards
<1> USE StacksAssumption, Layout, Fits DEF IInv, TypeOK, OverflowIsExact, Fits, Address
<1>1. ASSUME NEW i \in 1 .. ffpt - Base
      PROVE  core'[Base + i - 1] = core[Base + i - 1]
  OBVIOUS
<1>2. core'[ffpt] = x
  OBVIOUS
<1>3. ASSUME NEW i \in 1 .. Top - lfpt
      PROVE  core'[Top - i] = core[Top - i]
  OBVIOUS
<1>4. Backwards' = Backwards
  BY <1>3 DEF Backwards
<1>5. Forwards' = Append(Forwards, x)
  <2>1. Len(Forwards) = ffpt - Base /\ Forwards \in Seq(Int)
    BY DEF Forwards
  <2>2. /\ Append(Forwards, x) \in Seq(Int)
        /\ Len(Append(Forwards, x)) = ffpt - Base + 1
        /\ \A i \in 1 .. ffpt - Base : Append(Forwards, x)[i] = Forwards[i]
        /\ Append(Forwards, x)[ffpt - Base + 1] = x
    BY <2>1, AppendProperties
  <2>3. Forwards' = [i \in 1 .. ffpt - Base + 1 |-> core'[Base + i - 1]]
    BY DEF Forwards
  <2>4. ASSUME NEW i \in 1 .. ffpt - Base + 1
        PROVE  core'[Base + i - 1] = Append(Forwards, x)[i] /\ core'[Base + i - 1] \in Int
    <3>1. CASE i = ffpt - Base + 1
      <4>1. Base + i - 1 = ffpt
        BY <3>1
      <4> QED BY <1>2, <2>2, <3>1, <4>1
    <3>2. CASE i # ffpt - Base + 1
      <4>1. i \in 1 .. ffpt - Base
        BY <3>2
      <4>2. Forwards[i] = core[Base + i - 1] /\ core[Base + i - 1] \in Int
        BY <4>1 DEF Forwards
      <4> QED BY <1>1, <2>2, <4>1, <4>2
    <3> QED BY <3>1, <3>2
  <2>5. Forwards' \in Seq(Int) /\ Len(Forwards') = ffpt - Base + 1
    BY <2>3, <2>4
  <2>6. \A i \in 1 .. Len(Forwards') : Forwards'[i] = Append(Forwards, x)[i]
    BY <2>3, <2>4, <2>5
  <2> QED BY <2>2, <2>5, <2>6, SeqEqual
<1> QED BY <1>4, <1>5

LEMMA PushedBackwards ==
  ASSUME Fits, IInv, ffpt < lfpt, NEW x \in Int,
         core' = [core EXCEPT ![lfpt - 1] = x], ffpt' = ffpt, lfpt' = lfpt - 1
  PROVE  Backwards' = Append(Backwards, x) /\ Forwards' = Forwards
<1> USE StacksAssumption, Layout, Fits DEF IInv, TypeOK, OverflowIsExact, Fits, Address
<1>1. ASSUME NEW i \in 1 .. Top - lfpt
      PROVE  core'[Top - i] = core[Top - i]
  OBVIOUS
<1>2. core'[lfpt - 1] = x
  OBVIOUS
<1>3. ASSUME NEW i \in 1 .. ffpt - Base
      PROVE  core'[Base + i - 1] = core[Base + i - 1]
  OBVIOUS
<1>4. Forwards' = Forwards
  BY <1>3 DEF Forwards
<1>5. Backwards' = Append(Backwards, x)
  <2>1. Len(Backwards) = Top - lfpt /\ Backwards \in Seq(Int)
    BY DEF Backwards
  <2>2. /\ Append(Backwards, x) \in Seq(Int)
        /\ Len(Append(Backwards, x)) = Top - lfpt + 1
        /\ \A i \in 1 .. Top - lfpt : Append(Backwards, x)[i] = Backwards[i]
        /\ Append(Backwards, x)[Top - lfpt + 1] = x
    <3> HIDE DEF IInv, TypeOK, OverflowIsExact
    <3> QED BY ONLY <2>1, x \in Int, AppendProperties
  <2>3. Backwards' = [i \in 1 .. Top - lfpt + 1 |-> core'[Top - i]]
    <3>1. Top - lfpt' = Top - lfpt + 1
      OBVIOUS
    <3> QED BY <3>1 DEF Backwards
  <2>4. ASSUME NEW i \in 1 .. Top - lfpt + 1
        PROVE  core'[Top - i] = Append(Backwards, x)[i] /\ core'[Top - i] \in Int
    <3>1. CASE i = Top - lfpt + 1
      <4>1. Top - i = lfpt - 1
        BY <3>1
      <4> QED BY <1>2, <2>2, <3>1, <4>1
    <3>2. CASE i # Top - lfpt + 1
      <4>1. i \in 1 .. Top - lfpt
        BY <3>2
      <4>2. Backwards[i] = core[Top - i] /\ core[Top - i] \in Int
        BY <4>1 DEF Backwards
      <4> QED BY <1>1, <2>2, <4>1, <4>2
    <3> QED BY <3>1, <3>2
  <2>5. Backwards' \in Seq(Int) /\ Len(Backwards') = Top - lfpt + 1
    BY <2>3, <2>4
  <2>6. \A i \in 1 .. Len(Backwards') : Backwards'[i] = Append(Backwards, x)[i]
    BY <2>3, <2>4, <2>5
  <2> QED BY <2>2, <2>5, <2>6, SeqEqual
<1> QED BY <1>4, <1>5

\* The words the two stacks use are exactly the words that are not free.
LEMMA UsedWords ==
  IInv => /\ Len(Forwards) = ffpt - Base
          /\ Len(Backwards) = Top - lfpt
          /\ Words - (Len(Forwards) + Len(Backwards)) = lfpt - ffpt
BY Layout, StacksAssumption
   DEF IInv, TypeOK, OverflowIsExact, Forwards, Backwards, Top, Words, DefaultWorkspace

LEMMA StepImplements ==
  ASSUME Fits
  PROVE  IInv /\ HoldsItems /\ NeverPanics /\ NeverPanics' /\ [Next]_vars
           => [Abstract!Next]_(Abstract!vars)
<1> SUFFICES ASSUME IInv, HoldsItems, NeverPanics, NeverPanics', [Next]_vars
             PROVE  [Abstract!Next]_(Abstract!vars)
  OBVIOUS
<1> DEFINE met == at \in {"erlso", "stopped"}
<1>1. \A x \in Items :
     (/\ at = "logic" /\ core' = [core EXCEPT ![ffpt] = x]
      /\ ffpt' = ffpt + 1 /\ lfpt' = lfpt
      /\ cmp' = Compare(ffpt + 1, lfpt) /\ Branch /\ v' = v)
     => Abstract!PushForwards(x)
  <2> SUFFICES ASSUME NEW x \in Items, at = "logic",
                      core' = [core EXCEPT ![ffpt] = x], ffpt' = ffpt + 1, lfpt' = lfpt,
                      cmp' = Compare(ffpt + 1, lfpt), Branch, v' = v
               PROVE  Abstract!PushForwards(x)
    OBVIOUS
  <2>1. ffpt < lfpt /\ ffpt \in Int /\ lfpt \in Int
    BY DEF IInv, OverflowIsExact, TypeOK
  <2>2. Forwards' = Append(Forwards, x) /\ Backwards' = Backwards
    <3>1. x \in Int
      BY StacksAssumption DEF Items
    <3> QED BY <2>1, <3>1, PushedForwards, Fits
  <2>3. Branch <=> at' = IF ffpt + 1 = lfpt THEN StackOverflow ELSE "logic"
    BY <2>1 DEF Branch, Met, Compare
  <2>4. (Len(Forwards) + Len(Backwards) + 1 = Words) <=> ffpt + 1 = lfpt
    BY UsedWords, <2>1, Layout, StacksAssumption DEF Words, DefaultWorkspace, IInv, TypeOK
  <2>5. met' = (Len(Forwards) + Len(Backwards) + 1 = Words)
    BY <2>3, <2>4 DEF StackOverflow
  <2> QED BY <2>2, <2>5 DEF Abstract!PushForwards, Abstract!Used, Forwards, Backwards
<1>2. \A x \in Items :
     (/\ at = "logic" /\ core' = [core EXCEPT ![lfpt - 1] = x]
      /\ ffpt' = ffpt /\ lfpt' = lfpt - 1
      /\ cmp' = Compare(ffpt, lfpt - 1) /\ Branch /\ v' = v)
     => Abstract!PushBackwards(x)
  <2> SUFFICES ASSUME NEW x \in Items, at = "logic",
                      core' = [core EXCEPT ![lfpt - 1] = x], ffpt' = ffpt, lfpt' = lfpt - 1,
                      cmp' = Compare(ffpt, lfpt - 1), Branch, v' = v
               PROVE  Abstract!PushBackwards(x)
    OBVIOUS
  <2>1. ffpt < lfpt /\ ffpt \in Int /\ lfpt \in Int
    BY DEF IInv, OverflowIsExact, TypeOK
  <2>2. Backwards' = Append(Backwards, x) /\ Forwards' = Forwards
    <3>1. x \in Int
      BY StacksAssumption DEF Items
    <3> QED BY <2>1, <3>1, PushedBackwards, Fits
  <2>3. Branch <=> at' = IF ffpt = lfpt - 1 THEN StackOverflow ELSE "logic"
    BY <2>1 DEF Branch, Met, Compare
  <2>4. (Len(Forwards) + Len(Backwards) + 1 = Words) <=> ffpt = lfpt - 1
    BY UsedWords, <2>1, Layout, StacksAssumption DEF Words, DefaultWorkspace, IInv, TypeOK
  <2>5. met' = (Len(Forwards) + Len(Backwards) + 1 = Words)
    BY <2>3, <2>4 DEF StackOverflow
  <2> QED BY <2>2, <2>5 DEF Abstract!PushBackwards, Abstract!Used, Forwards, Backwards
<1>3. CASE FSTK
  <2>1. /\ at = "logic" /\ core' = [core EXCEPT ![ffpt] = A]
        /\ ffpt' = ffpt + 1 /\ lfpt' = lfpt
        /\ cmp' = Compare(ffpt + 1, lfpt) /\ Branch /\ v' = v
    BY <1>3 DEF FSTK, Panic, NeverPanics, LNM
  <2>2. A \in Items
    BY DEF HoldsItems
  <2>3. Abstract!PushForwards(A)
    BY <1>1, <2>1, <2>2 DEF Abstract!PushForwards
  <2> QED BY <2>2, <2>3 DEF Abstract!Next, Abstract!PushForwards, Abstract!PushBackwards, Items
<1>4. CASE CFSTK
  <2>1. /\ at = "logic" /\ core' = [core EXCEPT ![ffpt] = C]
        /\ ffpt' = ffpt + 1 /\ lfpt' = lfpt
        /\ cmp' = Compare(ffpt + 1, lfpt) /\ Branch /\ v' = v
    BY <1>4 DEF CFSTK, Panic, NeverPanics, LCH
  <2>2. C \in Items
    BY DEF HoldsItems
  <2>3. Abstract!PushForwards(C)
    BY <1>1, <2>1, <2>2 DEF Abstract!PushForwards
  <2> QED BY <2>2, <2>3 DEF Abstract!Next, Abstract!PushForwards, Abstract!PushBackwards, Items
<1>5. CASE BSTK
  <2>1. /\ at = "logic" /\ core' = [core EXCEPT ![lfpt - 1] = A]
        /\ ffpt' = ffpt /\ lfpt' = lfpt - 1
        /\ cmp' = Compare(ffpt, lfpt - 1) /\ Branch /\ v' = v
    BY <1>5 DEF BSTK, Panic, NeverPanics, LNM
  <2>2. A \in Items
    BY DEF HoldsItems
  <2>3. Abstract!PushBackwards(A)
    BY <1>2, <2>1, <2>2 DEF Abstract!PushBackwards
  <2> QED BY <2>2, <2>3 DEF Abstract!Next, Abstract!PushForwards, Abstract!PushBackwards, Items
<1>6. CASE UNSTK
  <2>1. ffpt \in Int /\ lfpt \in Int /\ lfpt < Top /\ Top \in Nat
    BY <1>6, Layout DEF UNSTK, IInv, TypeOK
  <2>2. Backwards # << >> /\ Len(Backwards) = Top - lfpt
    BY <2>1, UsedWords
  <2>3. v' = Backwards[Len(Backwards)]
    BY <1>6, <2>1, <2>2 DEF UNSTK, Backwards
  <2>4. Backwards' = SubSeq(Backwards, 1, Len(Backwards) - 1)
    <3>1. Top - lfpt' = Len(Backwards) - 1 /\ core' = core
      BY <1>6, <2>1, <2>2 DEF UNSTK, LNM
    <3> QED BY <2>1, <2>2, <3>1 DEF Backwards
  <2>5. Forwards' = Forwards
    BY <1>6 DEF UNSTK, Forwards
  <2>6. Abstract!PopBackwards
    BY <1>6, <2>2, <2>3, <2>4, <2>5
       DEF UNSTK, Abstract!PopBackwards, Forwards, Backwards
  <2> QED BY <2>6 DEF Abstract!Next
<1>7. ASSUME NEW x \in Literal, Load(x)
      PROVE  UNCHANGED Abstract!vars
  BY <1>7 DEF Load, Abstract!vars
<1>8. ASSUME NEW a \in Base .. ffpt, Cut(a)
      PROVE  Abstract!CutForwards(a - Base)
  <2>1. ffpt \in Int /\ Base \in Nat /\ Len(Forwards) = ffpt - Base
    BY UsedWords, Layout DEF IInv, TypeOK
  <2>2. Forwards' = SubSeq(Forwards, 1, a - Base)
    <3>1. ffpt' - Base = a - Base /\ core' = core /\ a - Base \in 0 .. Len(Forwards)
      BY <1>8, <2>1 DEF Cut
    <3> QED BY <2>1, <3>1 DEF Forwards
  <2>3. Backwards' = Backwards
    BY <1>8 DEF Cut, Backwards
  <2> QED BY <1>8, <2>2, <2>3 DEF Cut, Abstract!CutForwards, Forwards, Backwards
<1>9. ASSUME NEW a \in Base .. ffpt, Cut(a)
      PROVE  Abstract!Next
  <2>1. a - Base \in 0 .. Len(Forwards)
    BY UsedWords, Layout DEF IInv, TypeOK
  <2> QED BY <1>8, <1>9, <2>1 DEF Abstract!Next, Forwards
<1>10. CASE UNCHANGED vars
  BY <1>10 DEF vars, Abstract!vars
<1> QED BY <1>3, <1>4, <1>5, <1>6, <1>7, <1>9, <1>10 DEF Next

(***************************************************************************)
(* Inside a workspace that fits in Core the machine implements two         *)
(* last-in first-out stacks that meet when their shared words run out.     *)
(***************************************************************************)
THEOREM Refines == ASSUME Fits PROVE Spec => ImplementsTwoStacks
<1>1. Spec => []HoldsItems
  BY Inductive, InitHoldsItems, StepHoldsItems, Fits, PTL DEF Spec
<1>2. Init => Abstract!Init
  BY InitImplements
<1>3. IInv /\ HoldsItems /\ NeverPanics /\ NeverPanics' /\ [Next]_vars
        => [Abstract!Next]_(Abstract!vars)
  BY StepImplements, Fits
<1>4. Spec => []NeverPanics
  BY NoPanic, Fits
<1> QED BY Inductive, <1>1, <1>2, <1>3, <1>4, PTL DEF Spec, ImplementsTwoStacks, Abstract!Spec
-----------------------------------------------------------------------------
(***************************************************************************)
(* Machine is the whole of Step, and what follows is about it.  Its words  *)
(* are word, its comparison is compared; the registers A and C are those   *)
(* of above.                                                               *)
(***************************************************************************)
CONSTANTS Atom, Cycles, NumberText, MaxNumberText
VARIABLES text, word, symbols, pc, B, compared, jump, rs, messages, status, cycles

M == INSTANCE Machine WITH core <- word, cmp <- compared

\* A program that does not move blocks over its own calls.
CallsStand == \A a \in Address : text[a].op = "GOSUB" => text'[a].op = "GOSUB"
Runs == (\E a \in Address : M!Start(a)) /\ [][M!Next /\ CallsStand]_(M!vars)

ReturnStack == rs \in Seq(Int) /\ M!ReturnsFollowCalls

LEMMA Popped ==
  ASSUME ReturnStack, rs # << >>, M!Pops
  PROVE  rs' \in Seq(Int) /\ \A k \in DOMAIN rs' : k \in DOMAIN rs /\ rs'[k] = rs[k]
<1>1. PICK n \in Nat : n = Len(rs) /\ n >= 1
  BY EmptySeq DEF ReturnStack
<1>2. rs' = SubSeq(rs, 1, n - 1)
  BY <1>1 DEF M!Pops
<1>3. rs' \in Seq(Int) /\ Len(rs') = n - 1 /\ \A k \in 1 .. n - 1 : rs'[k] = rs[k]
  BY <1>1, <1>2, SubSeqProperties DEF ReturnStack
<1>4. DOMAIN rs = 1 .. n /\ DOMAIN rs' = 1 .. n - 1
  BY <1>1, <1>3 DEF ReturnStack
<1>5. 1 .. n - 1 \subseteq 1 .. n
  BY <1>1
<1> QED
  BY <1>3, <1>4, <1>5

\* What becomes of the return stack.
LEMMA StackMoves ==
  ASSUME M!Next
  PROVE  \/ rs' = rs \/ rs' = << >>
         \/ /\ rs' = Append(rs, pc + 1) /\ pc \in Address /\ text[pc].op = "GOSUB"
         \/ rs # << >> /\ M!Pops
<1>1. CASE M!Instruction
  <2>1. CASE M!GoSub
    BY <2>1 DEF M!GoSub, M!Executes, M!Reads, M!InCore, M!operation
  <2>2. CASE M!Exit \/ M!EnterLink \/ M!ClearStack
    BY <2>2 DEF M!Exit, M!EnterLink, M!ClearStack, M!Fails
  <2>3. CASE M!LoadA \/ M!LoadB \/ M!LoadC \/ M!Arithmetic \/ M!Compare \/ M!Store \/ M!Bump \/ M!NoOp
             \/ M!Select \/ M!Unstack \/ M!MultiplyOrDivide
    BY <2>3, Zenon DEF M!LoadA, M!LoadB, M!LoadC, M!Arithmetic, M!Compare, M!Store, M!Bump, M!NoOp, M!Select, M!Unstack,
                M!MultiplyOrDivide, M!Continues
  <2>4. CASE M!Branch \/ M!BranchPunctuation \/ M!BranchNoDigit \/ M!TableEntry \/ M!LeaveLink
             \/ M!NotExecutable \/ M!Quit
    BY <2>4 DEF M!Branch, M!BranchPunctuation, M!BranchNoDigit, M!TableEntry, M!LeaveLink, M!NotExecutable, M!Quit,
                M!Fails
  <2>5. CASE M!PushForwards \/ M!PushBackwards \/ M!MoveBlock \/ M!ConvertNumber \/ M!WriteCharacter \/ M!WriteText
    BY <2>5, Zenon DEF M!PushForwards, M!PushBackwards, M!Compared, M!MoveBlock, M!ConvertNumber, M!WriteCharacter,
                M!WriteText, M!Writes, M!Fails
  <2> QED
    BY <1>1, <2>1, <2>2, <2>3, <2>4, <2>5 DEF M!Instruction
<1>2. CASE M!Panic \/ M!OutOfCycles
  BY <1>2 DEF M!Panic, M!OutOfCycles
<1> QED
  BY <1>1, <1>2 DEF M!Next

LEMMA ReturnStackKeeps ==
  ASSUME ReturnStack, M!Next, CallsStand
  PROVE  ReturnStack'
<1>1. \A k \in DOMAIN rs : rs[k] - 1 \in Address /\ text'[rs[k] - 1].op = "GOSUB"
  BY DEF ReturnStack, M!ReturnsFollowCalls, CallsStand
<1>2. CASE rs' = rs
  BY <1>1, <1>2 DEF ReturnStack, M!ReturnsFollowCalls
<1>3. CASE rs' = << >>
  BY <1>3 DEF ReturnStack, M!ReturnsFollowCalls
<1>4. CASE rs' = Append(rs, pc + 1) /\ pc \in Address /\ text[pc].op = "GOSUB"
  <2>1. PICK n \in Nat : n = Len(rs) /\ DOMAIN rs = 1 .. n
    BY DEF ReturnStack
  <2>2. pc + 1 \in Int /\ (pc + 1) - 1 = pc
    BY <1>4, StacksAssumption DEF Address
  <2>3. rs' \in Seq(Int) /\ DOMAIN rs' = 1 .. n + 1 /\ rs'[n + 1] = pc + 1 /\ \A k \in 1 .. n : rs'[k] = rs[k]
    BY <1>4, <2>1, <2>2 DEF ReturnStack
  <2>4. text'[pc].op = "GOSUB"
    BY <1>4 DEF CallsStand
  <2>5. ASSUME NEW k \in DOMAIN rs'
        PROVE  rs'[k] - 1 \in Address /\ text'[rs'[k] - 1].op = "GOSUB"
    <3>1. k \in 1 .. n \/ k = n + 1
      BY <2>1, <2>3
    <3>2. CASE k \in 1 .. n
      BY <1>1, <2>1, <2>3, <3>2
    <3>3. CASE k = n + 1
      BY <1>4, <2>2, <2>3, <2>4, <3>3
    <3> QED
      BY <3>1, <3>2, <3>3
  <2> QED
    BY <2>3, <2>5 DEF ReturnStack, M!ReturnsFollowCalls
<1>5. CASE rs # << >> /\ M!Pops
  BY <1>1, <1>5, Popped DEF ReturnStack, M!ReturnsFollowCalls
<1> QED
  BY <1>2, <1>3, <1>4, <1>5, StackMoves

(***************************************************************************)
(* Whatever the program, and wherever it jumps: every address on the       *)
(* return stack is that of a word after a call, so an EXIT never goes to   *)
(* any other word, and no linkroutine saves any other; unless the program  *)
(* moves a block over its own calls.  (Step: GOSUB, EXIT, LINKR, CSS)      *)
(***************************************************************************)
Returning == M!Exit /\ status' = "running"

THEOREM ReturnsAreCalls ==
  Runs => /\ []M!ReturnsFollowCalls
          /\ [][Returning => pc' - 1 \in Address /\ text[pc' - 1].op = "GOSUB"]_(M!vars)
<1> DEFINE Right == pc' - 1 \in Address /\ text[pc' - 1].op = "GOSUB"
<1>1. (\E a \in Address : M!Start(a)) => ReturnStack
  BY DEF M!Start, ReturnStack, M!ReturnsFollowCalls
<1>2. ReturnStack /\ [M!Next /\ CallsStand]_(M!vars) => ReturnStack'
  <2>1. ReturnStack /\ UNCHANGED M!vars => ReturnStack'
    BY DEF ReturnStack, M!ReturnsFollowCalls, M!vars
  <2> QED
    BY <2>1, ReturnStackKeeps
<1>3. ReturnStack /\ Returning => Right
  <2> SUFFICES ASSUME ReturnStack, Returning PROVE Right
    OBVIOUS
  <2>1. status = "running"
    BY DEF Returning, M!Exit, M!Executes, M!Reads, M!Running
  <2>2. rs # << >> /\ pc' = rs[Len(rs)]
    BY DEF Returning, M!Exit, M!Fails, M!BranchesTo
  <2>3. Len(rs) \in DOMAIN rs
    <3>1. Len(rs) \in Nat /\ Len(rs) # 0 /\ DOMAIN rs = 1 .. Len(rs)
      BY <2>2, EmptySeq DEF ReturnStack
    <3> QED
      BY <3>1
  <2> QED
    BY <2>2, <2>3 DEF ReturnStack, M!ReturnsFollowCalls
<1>4. ReturnStack => M!ReturnsFollowCalls
  BY DEF ReturnStack
<1>5. Runs => []ReturnStack
  BY <1>1, <1>2, PTL DEF Runs
<1>6. ReturnStack /\ [M!Next /\ CallsStand]_(M!vars) => [Returning => Right]_(M!vars)
  BY <1>3
<1> QED
  BY <1>4, <1>5, <1>6, PTL DEF Runs
-----------------------------------------------------------------------------
(***************************************************************************)
(* What the variables of LowlStacks are of the machine, when the program   *)
(* uses the word var for what it unstacks: the pointers are words of the   *)
(* program, and only what lies above the program is kept of its words.     *)
(***************************************************************************)
Pointer(name) == symbols[name]
Ordering == [IS_LT |-> "LT", IS_EQ |-> "EQ", IS_GR |-> "GR"]
Control ==
  IF status = "error" THEN "stopped"
  ELSE IF "ERLSO" \in DOMAIN symbols /\ pc = symbols["ERLSO"] THEN "erlso"
  ELSE "logic"

Holds(var) ==
  /\ core = [a \in Address |-> IF a <= Last THEN 0 ELSE word[a]]
  /\ ffpt = word[Pointer("FFPT")] /\ lfpt = word[Pointer("LFPT")]
  /\ v = word[var]
  /\ cmp = Ordering[compared]
  /\ at = Control

\* The program as it is laid out: the pointers and the variable are different
\* words of it.  The handler of an overflow is not what follows the instruction.
LaidOut(var) ==
  /\ word \in [Address -> Int] /\ pc \in Int
  /\ {Pointer("FFPT"), Pointer("LFPT"), var} \subseteq 0 .. Last
  /\ Pointer("FFPT") # Pointer("LFPT") /\ var \notin {Pointer("FFPT"), Pointer("LFPT")}
  /\ HasERLSO <=> "ERLSO" \in DOMAIN symbols
  /\ HasERLSO => symbols["ERLSO"] # pc + 1

\* A push leaves the registers and goes where LowlStacks says.
LEMMA ComparedAgrees ==
  ASSUME IInv, NEW var, LaidOut(var), Holds(var), Holds(var)', UNCHANGED symbols,
         status = "running", M!Compared, ffpt' \in Int, lfpt' \in Int
  PROVE  A' = ffpt' /\ C' = C /\ cmp' = Compare(ffpt', lfpt') /\ Branch
<1>1. ffpt' = word'[symbols["FFPT"]] /\ lfpt' = word'[symbols["LFPT"]]
  BY DEF Holds, Pointer
<1>2. A' = ffpt' /\ C' = C /\ compared' = M!Against(ffpt', lfpt')
  BY <1>1 DEF M!Compared
<1>3. cmp' = Compare(ffpt', lfpt')
  BY <1>2 DEF Holds, Ordering, M!Against, Compare
<1>4. Met <=> ffpt' >= lfpt'
  BY <1>3 DEF Met, Compare
<1>5. at' = (IF status' = "error" THEN "stopped"
             ELSE IF HasERLSO /\ pc' = symbols["ERLSO"] THEN "erlso" ELSE "logic")
  BY DEF Holds, Control, LaidOut
<1>6. CASE ffpt' < lfpt'
  <2>1. pc' = pc + 1 /\ status' = "running"
    BY <1>1, <1>6 DEF M!Compared, M!BranchesTo
  <2> QED
    BY <1>2, <1>3, <1>4, <1>5, <1>6, <2>1 DEF Branch, LaidOut
<1>7. CASE ffpt' >= lfpt' /\ HasERLSO
  <2>1. pc' = symbols["ERLSO"] /\ status' = "running"
    BY <1>1, <1>7 DEF M!Compared, M!BranchesTo, LaidOut
  <2> QED
    BY <1>2, <1>3, <1>4, <1>5, <1>7, <2>1 DEF Branch, StackOverflow
<1>8. CASE ffpt' >= lfpt' /\ ~HasERLSO
  <2>1. status' = "error"
    BY <1>1, <1>8 DEF M!Compared, LaidOut
  <2> QED
    BY <1>2, <1>3, <1>4, <1>5, <1>8, <2>1 DEF Branch, StackOverflow
<1> QED
  BY <1>6, <1>7, <1>8

(***************************************************************************)
(* The two models of Step agree: the stack instructions of Machine, in a   *)
(* program that stands below its stacks and has not run out of storage,    *)
(* are those of LowlStacks, whose promises are therefore theirs.           *)
(* (Step: FSTK, CFSTK, BSTK, UNSTK)                                        *)
(***************************************************************************)
THEOREM StackInstructionsAgree ==
  ASSUME IInv, at = "logic", NEW var, LaidOut(var), Holds(var), Holds(var)'
  PROVE  /\ M!PushForwards => (M!operation = "FSTK" /\ FSTK) \/ (M!operation = "CFSTK" /\ CFSTK)
         /\ M!PushBackwards => BSTK
         /\ M!Unstack /\ M!value = var /\ lfpt < Top => UNSTK
<1>1. /\ ffpt \in Nat /\ lfpt \in Int /\ Last \in Nat /\ Base > Last /\ Base \in Nat
      /\ Base <= ffpt /\ ffpt < lfpt /\ A \in Int /\ C \in Int
  BY Layout, StacksAssumption DEF IInv, TypeOK, OverflowIsExact
<1>2. PICK f \in 0 .. Last, l \in 0 .. Last : f = symbols["FFPT"] /\ l = symbols["LFPT"] /\ f # l
  BY DEF LaidOut, Pointer
<1>3. f \in Address /\ l \in Address /\ var \in Address /\ var \in 0 .. Last /\ var # f /\ var # l
      /\ Address \subseteq Int
  BY <1>2, StacksAssumption DEF LaidOut, Pointer, Address
<1>4. word \in [Address -> Int] /\ ffpt = word[f] /\ lfpt = word[l] /\ v = word[var]
  BY <1>2 DEF LaidOut, Holds, Pointer
<1>5. ASSUME M!PushForwards
      PROVE  (M!operation = "FSTK" /\ FSTK) \/ (M!operation = "CFSTK" /\ CFSTK)
  <2>1. /\ status = "running" /\ UNCHANGED symbols /\ M!operation \in {"FSTK", "CFSTK"}
        /\ M!Reach \subseteq Address /\ M!Compared
    BY <1>5 DEF M!PushForwards, M!Executes, M!Reads, M!Running, M!InCore
  <2>2. ffpt \in Address
    BY <1>2, <1>4, <2>1 DEF M!Reach, M!Free, M!OfVariable, M!ThroughVariable, M!Copies
  <2>3. PICK x \in Int : /\ x = IF M!operation = "FSTK" THEN A ELSE C
                         /\ word' = [[word EXCEPT ![ffpt] = x] EXCEPT ![f] = @ + 1]
    BY <1>1, <1>2, <1>4, <1>5 DEF M!PushForwards, M!Free
  <2>4. ffpt # f /\ ffpt # l /\ ffpt # var /\ ffpt > Last
    BY <1>1, <1>2, <1>3
  <2>5. word'[f] = ffpt + 1 /\ word'[l] = lfpt /\ word'[var] = v
    BY <1>2, <1>3, <1>4, <2>2, <2>3, <2>4
  <2>6. ffpt' = ffpt + 1 /\ lfpt' = lfpt /\ v' = v
    BY <1>2, <2>1, <2>5 DEF Holds, Pointer
  <2>7. core' = [core EXCEPT ![ffpt] = x]
    <3>1. core' = [a \in Address |-> IF a <= Last THEN 0 ELSE word'[a]]
      BY DEF Holds
    <3>2. ASSUME NEW a \in Address
          PROVE  core'[a] = IF a = ffpt THEN x ELSE core[a]
      <4>1. a > Last => word'[a] = IF a = ffpt THEN x ELSE word[a]
        <5>1. a > Last => a # f /\ a # l
          BY <1>1, <1>2, <1>3
        <5> QED
          BY <1>3, <1>4, <2>2, <2>3, <5>1
      <4>2. core'[a] = (IF a <= Last THEN 0 ELSE word'[a]) /\ core[a] = (IF a <= Last THEN 0 ELSE word[a])
        BY <3>1 DEF Holds
      <4> QED
        BY <1>1, <1>3, <1>4, <2>4, <4>1, <4>2
    <3>3. core = [a \in Address |-> core[a]]
      BY DEF Holds
    <3> QED
      BY <2>2, <3>1, <3>2, <3>3
  <2>8. A' = ffpt' /\ C' = C /\ cmp' = Compare(ffpt', lfpt') /\ Branch
    BY <1>1, <2>1, <2>6, ComparedAgrees
  <2>9. CASE M!operation = "FSTK"
    BY <2>2, <2>3, <2>6, <2>7, <2>8, <2>9 DEF FSTK, LNM
  <2>10. CASE M!operation = "CFSTK"
    BY <2>2, <2>3, <2>6, <2>7, <2>8, <2>10 DEF CFSTK, LCH
  <2> QED
    BY <2>1, <2>9, <2>10
<1>6. ASSUME M!PushBackwards
      PROVE  BSTK
  <2>1. /\ status = "running" /\ UNCHANGED symbols /\ M!operation = "BSTK"
        /\ M!Reach \subseteq Address /\ M!Compared
    BY <1>6 DEF M!PushBackwards, M!Executes, M!Reads, M!Running, M!InCore
  <2>2. PICK top \in Int : top = lfpt - 1 /\ top >= ffpt
    BY <1>1
  <2>3. top \in Address
    BY <1>2, <1>4, <2>1, <2>2 DEF M!Reach, M!Top, M!OfVariable, M!ThroughVariable, M!Copies
  <2>4. word' = [word EXCEPT ![l] = top, ![top] = A]
    BY <1>2, <1>4, <1>6, <2>2 DEF M!PushBackwards, M!Top
  <2>5. top # f /\ top # l /\ top # var /\ top > Last
    BY <1>1, <1>2, <1>3, <2>2
  <2>6. word'[f] = ffpt /\ word'[l] = top /\ word'[var] = v
    BY <1>2, <1>3, <1>4, <2>3, <2>4, <2>5
  <2>7. ffpt' = ffpt /\ lfpt' = top /\ v' = v
    BY <1>2, <2>1, <2>6 DEF Holds, Pointer
  <2>8. core' = [core EXCEPT ![top] = A]
    <3>1. core' = [a \in Address |-> IF a <= Last THEN 0 ELSE word'[a]]
      BY DEF Holds
    <3>2. ASSUME NEW a \in Address
          PROVE  core'[a] = IF a = top THEN A ELSE core[a]
      <4>1. a > Last => word'[a] = IF a = top THEN A ELSE word[a]
        <5>1. a > Last => a # f /\ a # l
          BY <1>1, <1>2, <1>3
        <5> QED
          BY <1>3, <1>4, <2>3, <2>4, <5>1
      <4>2. core'[a] = (IF a <= Last THEN 0 ELSE word'[a]) /\ core[a] = (IF a <= Last THEN 0 ELSE word[a])
        BY <3>1 DEF Holds
      <4> QED
        BY <1>1, <1>3, <2>2, <2>5, <4>1, <4>2
    <3>3. core = [a \in Address |-> core[a]]
      BY DEF Holds
    <3> QED
      BY <2>3, <3>1, <3>2, <3>3
  <2>9. A' = ffpt' /\ C' = C /\ cmp' = Compare(ffpt', lfpt') /\ Branch
    BY <1>1, <2>1, <2>2, <2>7, ComparedAgrees
  <2> QED
    BY <2>2, <2>3, <2>7, <2>8, <2>9 DEF BSTK, LNM
<1>7. ASSUME M!Unstack, M!value = var, lfpt < Top
      PROVE  UNSTK
  <2>1. /\ status = "running" /\ UNCHANGED <<symbols, status, C, compared>> /\ M!operation = "UNSTK"
        /\ M!Reach \subseteq Address /\ pc' = pc + 1
    BY <1>7 DEF M!Unstack, M!Continues, M!Executes, M!Reads, M!Running, M!InCore
  <2>2. lfpt \in Address /\ lfpt > Last
    BY <1>1, <1>2, <1>4, <2>1 DEF M!Reach, M!Top, M!OfVariable, M!ThroughVariable, M!Copies
  <2>3. word' = [[word EXCEPT ![var] = word[lfpt]] EXCEPT ![l] = @ + 1] /\ A' = word[lfpt]
    BY <1>2, <1>4, <1>7 DEF M!Unstack, M!Top
  <2>4. word'[f] = ffpt /\ word'[l] = lfpt + 1 /\ word'[var] = word[lfpt]
    BY <1>2, <1>3, <1>4, <2>2, <2>3
  <2>5. ffpt' = ffpt /\ lfpt' = lfpt + 1 /\ v' = word[lfpt]
    BY <1>2, <2>1, <2>4 DEF Holds, Pointer
  <2>6. core[lfpt] = word[lfpt]
    BY <1>1, <2>2 DEF Holds
  <2>7. core' = core
    <3>1. core' = [a \in Address |-> IF a <= Last THEN 0 ELSE word'[a]]
      BY DEF Holds
    <3>2. ASSUME NEW a \in Address
          PROVE  core'[a] = core[a]
      <4>1. a > Last => word'[a] = word[a]
        <5>1. a > Last => a # l /\ a # var
          BY <1>1, <1>2, <1>3
        <5> QED
          BY <1>3, <1>4, <2>3, <5>1
      <4>2. core'[a] = (IF a <= Last THEN 0 ELSE word'[a]) /\ core[a] = (IF a <= Last THEN 0 ELSE word[a])
        BY <3>1 DEF Holds
      <4> QED
        BY <1>1, <1>3, <4>1, <4>2
    <3>3. core = [a \in Address |-> core[a]]
      BY DEF Holds
    <3> QED
      BY <3>1, <3>2, <3>3
  <2>8. cmp' = cmp /\ at' = "logic"
    BY <2>1 DEF Holds, Control, LaidOut
  <2> QED
    BY <1>7, <2>1, <2>3, <2>5, <2>6, <2>7, <2>8 DEF UNSTK, LNM
<1> QED
  BY <1>5, <1>6, <1>7
=============================================================================
