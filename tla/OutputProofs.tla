---------------------------- MODULE OutputProofs ----------------------------
(***************************************************************************)
(* What WriteChar and the macros do to the output streams and the listing, *)
(* whatever fails.  These are facts about single steps: the modules that   *)
(* take the steps, Process and Command, say when a step may be taken.      *)
(***************************************************************************)
EXTENDS OutputStreams, FiniteSetTheorems, TLAPS

Pure == INSTANCE OperatorProofs

(***************************************************************************)
(* A set that is bounded is finite, and counts one more with a new bound.  *)
(***************************************************************************)
LEMMA Counted ==
  ASSUME NEW S \in SUBSET Nat, NEW n \in Nat, \A k \in S : k <= n
  PROVE  /\ IsFiniteSet(S) /\ Cardinality(S) \in Nat
         /\ \A T \in SUBSET S : IsFiniteSet(T) /\ Cardinality(T) \in Nat /\ Cardinality(T) <= Cardinality(S)
         /\ Cardinality(S \cup {n + 1}) = Cardinality(S) + 1
<1>1. IsFiniteSet(S)
  BY FS_BoundedSetOfNaturals
<1>2. n + 1 \notin S
  OBVIOUS
<1>3. \A T \in SUBSET S : IsFiniteSet(T) /\ Cardinality(T) <= Cardinality(S)
  BY <1>1, FS_Subset
<1> QED
  BY <1>1, <1>2, <1>3, FS_CardinalityType, FS_AddElement

Line == [shows : {"number", "char"}, of : Nat]
Said == [ch : Chars, s20 : S20Values \cup {0}, s21 : SUBSET (1 .. MaxOutputs), s22 : S22Values \cup {0}]

OutputAssumption ==
  /\ job \in [outputs : 0 .. MaxOutputs, listing : BOOLEAN]
  /\ S21Values \subseteq SUBSET (1 .. MaxOutputs)

TypeInv ==
  /\ s19 \in Nat
  /\ s20 \in S20Values \cup {0} /\ s22 \in S22Values \cup {0}
  /\ s21 \subseteq 1 .. MaxOutputs /\ s24 \subseteq 1 .. MaxOutputs
  /\ atLineStart \in BOOLEAN
  /\ files \in [Outputs -> Seq(Chars)]
  /\ listing \in Seq(Line)
  /\ text \in Seq(Said)
  /\ aborts \in Nat

\* While no write has failed the flag is that of the text, and the listing
\* shows nothing that is not in the text.
LineStart ==
  aborts = 0 =>
    /\ atLineStart <=> text = << >> \/ text[Len(text)].ch = NL
    /\ \A k \in DOMAIN listing : listing[k].shows = "char" => listing[k].of \in DOMAIN text

OutInv == TypeInv /\ LineStart /\ AtLineStartIsTrue /\ FilesFollowMask /\ ListingIsTrue
-----------------------------------------------------------------------------
(***************************************************************************)
(* The writes are few, and the least of them that fails is attempted.      *)
(***************************************************************************)
LEMMA WritesAreFew ==
  ASSUME OutputAssumption
  PROVE  /\ Writes \subseteq -1 .. MaxOutputs /\ IsFiniteSet(Writes)
         /\ Outputs \subseteq 1 .. MaxOutputs
<1>1. Writes \subseteq -1 .. MaxOutputs /\ Outputs \subseteq 1 .. MaxOutputs
  BY DEF OutputAssumption, Writes, Outputs, MaxOutputs, Listed, LineNumber
<1>2. IsFiniteSet(-1 .. MaxOutputs)
  <2>1. -1 \in Int /\ MaxOutputs \in Int
    BY DEF MaxOutputs
  <2> QED
    BY <2>1, FS_Interval, Zenon
<1> QED
  BY <1>1, <1>2, FS_Subset

LEMMA FirstFailure ==
  ASSUME OutputAssumption, NEW fails \in SUBSET Writes, NEW redirect, fails # {}
  PROVE  Failed(fails, redirect) # {}
<1> DEFINE shifted == {n \in Nat : n - 1 \in fails}
<1>1. \A w \in fails : w \in Int /\ w + 1 \in Nat
  BY WritesAreFew DEF MaxOutputs
<1>2. shifted # {} /\ shifted \in SUBSET Nat
  BY <1>1
<1>3. PICK n \in shifted : \A m \in shifted : n <= m
  BY <1>2, Pure!Least
<1>4. n - 1 \in fails /\ \A w \in fails : n - 1 <= w
  BY <1>1, <1>3
<1>5. n - 1 \in Attempted(fails, redirect)
  BY <1>4 DEF Attempted, StopsAt
<1> QED
  BY <1>4, <1>5 DEF Failed

(***************************************************************************)
(* A call of WriteChar fails at one write at most when abort stops the     *)
(* machine, and at two at most when it does not.  (WriteChar, list)        *)
(***************************************************************************)
LEMMA FewFail ==
  ASSUME OutputAssumption, NEW fails \in SUBSET Writes, NEW redirect \in BOOLEAN
  PROVE  /\ IsFiniteSet(Failed(fails, redirect))
         /\ Cardinality(Failed(fails, redirect)) \in 0 .. 2
         /\ ~redirect => Cardinality(Failed(fails, redirect)) \in 0 .. 1
         /\ Cardinality(Failed(fails, redirect)) = 0 <=> fails = {}
<1> DEFINE F == Failed(fails, redirect)
<1>1. F \subseteq fails /\ \A w \in fails : w \in Int
  BY WritesAreFew DEF Failed, MaxOutputs
<1>2. IsFiniteSet(F)
  BY <1>1, WritesAreFew, FS_Subset
<1>3. Cardinality(F) = 0 <=> fails = {}
  BY <1>1, <1>2, FirstFailure, FS_EmptySet
<1>4. \A u, v, w \in F : u < v /\ v < w => FALSE
  <2>1. \A u, v, w \in F : u < v => v \in StopsAt(fails, redirect) /\ w <= v
    BY <1>1 DEF Failed, Attempted, StopsAt
  <2> QED
    BY <1>1, <2>1
<1>5. ~redirect => \A v, w \in F : v = w
  BY <1>1 DEF Failed, Attempted, StopsAt
<1>6. Cardinality(F) \in 0 .. 2 /\ (~redirect => Cardinality(F) \in 0 .. 1)
  <2> HIDE DEF F
  <2>1. CASE F = {}
    BY <2>1, FS_EmptySet
  <2>2. CASE \E u \in F : F = {u}
    <3>1. PICK u \in F : F = {u}
      BY <2>2
    <3>2. Cardinality({u}) = 1
      BY FS_Singleton
    <3> QED
      BY <3>1, <3>2
  <2>3. CASE \E u, v \in F : u # v
    <3>1. PICK u \in F, v \in F : u # v
      BY <2>3
    <3>2. F = {u} \cup {v} /\ redirect
      BY <1>1, <1>4, <1>5, <3>1
    <3>3. Cardinality({u} \cup {v}) = 2
      <4>1. IsFiniteSet({u}) /\ Cardinality({u}) = 1
        BY FS_Singleton
      <4> QED
        BY <3>1, <4>1, FS_AddElement
    <3>4. Cardinality(F) = 2
      BY <3>2, <3>3, Zenon
    <3> QED
      BY <3>2, <3>4
  <2> QED
    BY <2>1, <2>2, <2>3
<1> QED
  BY <1>2, <1>3, <1>6
-----------------------------------------------------------------------------
LEMMA NothingFails ==
  ASSUME NEW redirect
  PROVE  Completes({}, redirect) /\ Done({}, redirect) = Writes
  BY DEF Completes, Done, Attempted, StopsAt

LEMMA WriteCharTypes ==
  ASSUME OutputAssumption, TypeInv,
         NEW ch \in Chars, NEW fails, NEW redirect \in BOOLEAN, WriteChar(ch, fails, redirect)
  PROVE  /\ TypeInv'
         /\ aborts' = aborts + Cardinality(Failed(fails, redirect))
         /\ aborts' >= aborts /\ (aborts' = aborts <=> fails = {})
<1> USE DEF TypeInv
<1>1. fails \in SUBSET Writes
  BY DEF WriteChar
<1>2. /\ aborts' = aborts + Cardinality(Failed(fails, redirect)) /\ aborts' \in Nat
      /\ aborts' >= aborts /\ (aborts' = aborts <=> fails = {})
  <2>1. aborts' = aborts + Cardinality(Failed(fails, redirect))
    BY DEF WriteChar
  <2>2. /\ Cardinality(Failed(fails, redirect)) \in Nat
        /\ Cardinality(Failed(fails, redirect)) = 0 <=> fails = {}
    BY <1>1, FewFail
  <2> QED
    BY <2>1, <2>2
<1>3. s19' \in Nat
  BY DEF WriteChar, OutputLine
<1>4. text' \in Seq(Said)
  <2>1. [ch |-> ch, s20 |-> s20, s21 |-> s21, s22 |-> s22] \in Said
    BY DEF Said
  <2> QED
    BY <2>1 DEF WriteChar
<1>5. files' \in [Outputs' -> Seq(Chars)]
  <2>1. Outputs' = Outputs
    BY DEF WriteChar, Outputs
  <2>2. \A i \in Outputs : files[i] \in Seq(Chars) /\ Append(files[i], ch) \in Seq(Chars)
    OBVIOUS
  <2> QED
    BY <2>1, <2>2 DEF WriteChar
<1>6. s24' \subseteq 1 .. MaxOutputs
  BY WritesAreFew DEF WriteChar, SetAtLineStart
<1>7. atLineStart' \in BOOLEAN
  BY DEF WriteChar
<1>8. listing' \in Seq(Line)
  <2>1. [shows |-> "number", of |-> s19'] \in Line /\ [shows |-> "char", of |-> Len(text) + 1] \in Line
    BY <1>3 DEF Line
  <2>2. \A x \in Line : <<x>> \in Seq(Line)
    OBVIOUS
  <2>3. << >> \in Seq(Line) /\ \A s, t \in Seq(Line) : s \o t \in Seq(Line)
    OBVIOUS
  <2>4. /\ (IF LineNumber \in Done(fails, redirect) THEN <<[shows |-> "number", of |-> s19']>> ELSE << >>) \in Seq(Line)
        /\ (IF Listed \in Done(fails, redirect) THEN <<[shows |-> "char", of |-> Len(text) + 1]>> ELSE << >>) \in Seq(Line)
    BY <2>1, <2>2, <2>3
  <2> QED
    BY <2>3, <2>4 DEF WriteChar
<1>9. UNCHANGED <<s20, s21, s22>>
  BY DEF WriteChar
<1> QED
  BY <1>2, <1>3, <1>4, <1>5, <1>6, <1>7, <1>8, <1>9

(***************************************************************************)
(* S24 follows each write, also of a call that fails half way.             *)
(* (setAtLineStart)                                                        *)
(***************************************************************************)
LEMMA WriteCharStarts ==
  ASSUME OutputAssumption, TypeInv, AtLineStartIsTrue,
         NEW ch \in Chars, NEW fails, NEW redirect \in BOOLEAN, WriteChar(ch, fails, redirect)
  PROVE  AtLineStartIsTrue'
<1> DEFINE done == Done(fails, redirect) \cap Outputs
<1>1. Outputs' = Outputs /\ Outputs \subseteq 1 .. MaxOutputs
  BY WritesAreFew DEF WriteChar, Outputs
<1>2. s24' = IF ch = NL THEN s24 \cup done ELSE s24 \ done
  BY DEF WriteChar, SetAtLineStart
<1>3. ASSUME NEW i \in 1 .. MaxOutputs
      PROVE  (i \in s24' <=> \/ i \notin Outputs'
                             \/ files'[i] = << >>
                             \/ files'[i][Len(files'[i])] = NL)
  <2>1. CASE i \notin Outputs
    BY <1>1, <1>2, <2>1 DEF AtLineStartIsTrue
  <2>2. CASE i \in Outputs /\ i \in Done(fails, redirect)
    <3>1. files'[i] = Append(files[i], ch) /\ files[i] \in Seq(Chars)
      BY <2>2 DEF WriteChar, TypeInv
    <3>2. files'[i] # << >> /\ files'[i][Len(files'[i])] = ch
      BY <3>1
    <3> QED
      BY <1>1, <1>2, <2>2, <3>2
  <2>3. CASE i \in Outputs /\ i \notin Done(fails, redirect)
    <3>1. files'[i] = files[i]
      BY <2>3 DEF WriteChar
    <3> QED
      BY <1>1, <1>2, <2>3, <3>1 DEF AtLineStartIsTrue
  <2> QED
    BY <2>1, <2>2, <2>3
<1> QED
  BY <1>3 DEF AtLineStartIsTrue
-----------------------------------------------------------------------------
(***************************************************************************)
(* A character aimed at a file arrives there or fails, and a file it is    *)
(* not aimed at does not change.  (WriteChar)                              *)
(***************************************************************************)
LEMMA WriteCharFollows ==
  ASSUME OutputAssumption, TypeInv, FilesFollowMask, aborts = 0,
         NEW ch \in Chars, NEW fails, NEW redirect \in BOOLEAN, WriteChar(ch, fails, redirect)
  PROVE  FilesFollowMask'
<1>0. PICK n \in Nat : n = Len(text)
  BY DEF TypeInv
<1>1. /\ text' = Append(text, [ch |-> ch, s20 |-> s20, s21 |-> s21, s22 |-> s22])
      /\ Len(text') = n + 1 /\ text'[n + 1] = [ch |-> ch, s20 |-> s20, s21 |-> s21, s22 |-> s22]
      /\ \A k \in 1 .. n : text'[k] = text[k]
  BY <1>0 DEF WriteChar, TypeInv
<1>2. Outputs' = Outputs /\ fails \in SUBSET Writes
  BY DEF WriteChar, Outputs
<1>3. aborts' \in Nat /\ (aborts' = 0 <=> fails = {})
  BY WriteCharTypes DEF TypeInv
<1>4. SUFFICES ASSUME NEW i \in Outputs
      PROVE  /\ Len(files'[i]) \in Cardinality(Aimed(i, n + 1)') - aborts' .. Cardinality(Aimed(i, n + 1)')
             /\ \A k \in Aimed(i, n + 1)' :
                  Cardinality(Aimed(i, k)') <= Len(files'[i]) => files'[i][Cardinality(Aimed(i, k)')] = text'[k].ch
  BY <1>1, <1>2 DEF FilesFollowMask
<1>5. \A k \in 1 .. n : Aimed(i, k)' = Aimed(i, k)
  BY <1>1 DEF Aimed
<1>6. Aimed(i, n)' = Aimed(i, n)
  BY <1>1 DEF Aimed
<1>7. Aimed(i, n + 1)' = IF Selected(i) THEN Aimed(i, n) \cup {n + 1} ELSE Aimed(i, n)
  BY <1>1, <1>6 DEF Aimed, Selected
<1>8. /\ Aimed(i, n) \in SUBSET Nat /\ Aimed(i, n) \subseteq 1 .. n
      /\ \A k \in Aimed(i, n) : k <= n /\ k \in Aimed(i, k) /\ Aimed(i, k) \in SUBSET Aimed(i, n)
  BY DEF Aimed
<1>9. /\ Cardinality(Aimed(i, n)) \in Nat /\ Cardinality(Aimed(i, n) \cup {n + 1}) = Cardinality(Aimed(i, n)) + 1
      /\ \A k \in Aimed(i, n) : Cardinality(Aimed(i, k)) \in 1 .. Cardinality(Aimed(i, n))
  <2>1. \A T \in SUBSET Aimed(i, n) : IsFiniteSet(T) /\ Cardinality(T) \in Nat /\ Cardinality(T) <= Cardinality(Aimed(i, n))
    BY <1>8, Counted
  <2>2. \A k \in Aimed(i, n) : Cardinality(Aimed(i, k)) # 0
    BY <1>8, <2>1, FS_EmptySet
  <2> QED
    BY <1>8, <2>1, <2>2, Counted
<1>10. files[i] \in Seq(Chars) /\ Len(files[i]) = Cardinality(Aimed(i, n))
  BY <1>0, <1>9 DEF FilesFollowMask, TypeInv
<1>11. \A k \in Aimed(i, n) : files[i][Cardinality(Aimed(i, k))] = text[k].ch
  BY <1>0, <1>9, <1>10 DEF FilesFollowMask
<1>12. CASE i \in Done(fails, redirect)
  <2>1. files'[i] = Append(files[i], ch) /\ Selected(i)
    BY <1>12, WritesAreFew DEF WriteChar, Done, Attempted, Writes, Listed, LineNumber
  <2>2. /\ Aimed(i, n + 1)' = Aimed(i, n) \cup {n + 1}
        /\ Cardinality(Aimed(i, n + 1)') = Cardinality(Aimed(i, n)) + 1
    BY <1>7, <1>9, <2>1, Zenon
  <2>3. Len(files'[i]) = Cardinality(Aimed(i, n + 1)')
    BY <1>9, <1>10, <2>1, <2>2
  <2>4. \A k \in Aimed(i, n) : files'[i][Cardinality(Aimed(i, k)')] = text'[k].ch
    BY <1>1, <1>5, <1>8, <1>9, <1>10, <1>11, <2>1
  <2>5. files'[i][Cardinality(Aimed(i, n + 1)')] = text'[n + 1].ch
    BY <1>1, <1>9, <1>10, <2>1, <2>2
  <2> QED
    BY <1>3, <1>9, <2>2, <2>3, <2>4, <2>5
<1>13. CASE i \notin Done(fails, redirect)
  <2>1. files'[i] = files[i]
    BY <1>13 DEF WriteChar
  <2>2. \A k \in Aimed(i, n) : files'[i][Cardinality(Aimed(i, k)')] = text'[k].ch
    BY <1>1, <1>5, <1>8, <1>11, <2>1
  <2>3. CASE ~Selected(i)
    BY <1>3, <1>7, <1>9, <1>10, <2>1, <2>2, <2>3
  <2>4. CASE Selected(i)
    <3>1. fails # {}
      BY <1>13, <2>4, NothingFails DEF Writes
    <3>2. aborts' >= 1
      BY <1>3, <3>1
    <3>3. /\ Aimed(i, n + 1)' = Aimed(i, n) \cup {n + 1}
          /\ Cardinality(Aimed(i, n + 1)') = Cardinality(Aimed(i, n)) + 1
      BY <1>7, <1>9, <2>4, Zenon
    <3>4. Len(files'[i]) \in Cardinality(Aimed(i, n + 1)') - aborts' .. Cardinality(Aimed(i, n + 1)')
      BY <1>3, <1>9, <1>10, <2>1, <3>2, <3>3
    <3>5. Cardinality(Aimed(i, n + 1)') > Len(files'[i])
      BY <1>9, <1>10, <2>1, <3>3
    <3> QED
      BY <1>9, <1>10, <2>1, <2>2, <3>3, <3>4, <3>5
  <2> QED
    BY <2>3, <2>4
<1> QED
  BY <1>12, <1>13
-----------------------------------------------------------------------------
(***************************************************************************)
(* A listing that shows the characters in shown, in order, each number     *)
(* that of the line the character after it begins; begun says how many     *)
(* lines the first characters of the text have begun.                      *)
(***************************************************************************)
ShownIn(list) == {k \in DOMAIN list : list[k].shows = "char"}
Lists(list, shown, begun) ==
  /\ {list[k].of : k \in ShownIn(list)} = shown
  /\ \A j, k \in ShownIn(list) : j < k => list[j].of < list[k].of
  /\ \A k \in DOMAIN list \ ShownIn(list) :
       /\ k + 1 \in ShownIn(list)
       /\ list[k].of = begun[list[k + 1].of]
       /\ begun[list[k + 1].of - 1] < list[k].of

CharLine(n) == [shows |-> "char", of |-> n]
NumberLine(n) == [shows |-> "number", of |-> n]

LEMMA ListsLonger ==
  ASSUME NEW list \in Seq(Line), NEW n \in Nat, NEW shown \in SUBSET (1 .. n),
         NEW begun, NEW more, \A m \in 0 .. n : more[m] = begun[m], Lists(list, shown, begun)
  PROVE  Lists(list, shown, more)
<1>1. \A k \in ShownIn(list) : list[k].of \in 1 .. n
  BY DEF Lists
<1>2. \A k \in DOMAIN list \ ShownIn(list) : list[k + 1].of \in 1 .. n
  BY <1>1 DEF Lists
<1>3. \A k \in DOMAIN list \ ShownIn(list) :
        more[list[k + 1].of] = begun[list[k + 1].of] /\ more[list[k + 1].of - 1] = begun[list[k + 1].of - 1]
  BY <1>2
<1> QED
  BY <1>3 DEF Lists

LEMMA ListsCharacter ==
  ASSUME NEW list \in Seq(Line), NEW n \in Nat, NEW shown \in SUBSET (1 .. n),
         NEW begun, Lists(list, shown, begun)
  PROVE  Lists(Append(list, CharLine(n + 1)), shown \cup {n + 1}, begun)
<1> DEFINE new == Append(list, CharLine(n + 1))
<1>1. PICK m \in Nat : m = Len(list)
  OBVIOUS
<1>2. /\ DOMAIN list = 1 .. m /\ DOMAIN new = 1 .. m + 1
      /\ \A k \in 1 .. m : new[k] = list[k]
      /\ new[m + 1].shows = "char" /\ new[m + 1].of = n + 1
  BY <1>1 DEF CharLine
<1>3. ShownIn(new) = ShownIn(list) \cup {m + 1} /\ ShownIn(list) \subseteq 1 .. m
  BY <1>2 DEF ShownIn
<1> HIDE DEF new
<1>4. \A k \in ShownIn(list) : list[k].of \in 1 .. n
  BY DEF Lists
<1>5. {new[k].of : k \in ShownIn(new)} = shown \cup {n + 1}
  BY <1>2, <1>3 DEF Lists
<1>6. \A j, k \in ShownIn(new) : j < k => new[j].of < new[k].of
  BY <1>2, <1>3, <1>4 DEF Lists
<1>7. DOMAIN new \ ShownIn(new) = DOMAIN list \ ShownIn(list)
  BY <1>2, <1>3
<1>8. \A k \in DOMAIN list \ ShownIn(list) : k \in 1 .. m /\ k + 1 \in 1 .. m
  BY <1>2, <1>3 DEF Lists
<1>9. \A k \in DOMAIN new \ ShownIn(new) :
         /\ k + 1 \in ShownIn(new)
         /\ new[k].of = begun[new[k + 1].of]
         /\ begun[new[k + 1].of - 1] < new[k].of
  BY <1>2, <1>3, <1>7, <1>8 DEF Lists
<1> QED
  BY <1>5, <1>6, <1>9 DEF Lists, new

LEMMA ListsNumbered ==
  ASSUME NEW list \in Seq(Line), NEW n \in Nat, NEW shown \in SUBSET (1 .. n),
         NEW begun, Lists(list, shown, begun),
         NEW number \in Nat, number = begun[n + 1], begun[n] < number
  PROVE  Lists(Append(Append(list, NumberLine(number)), CharLine(n + 1)), shown \cup {n + 1}, begun)
<1> DEFINE new == Append(Append(list, NumberLine(number)), CharLine(n + 1))
<1>1. PICK m \in Nat : m = Len(list)
  OBVIOUS
<1>2. /\ DOMAIN list = 1 .. m /\ DOMAIN new = 1 .. m + 2
      /\ \A k \in 1 .. m : new[k] = list[k]
      /\ new[m + 1].shows = "number" /\ new[m + 1].of = number
      /\ new[m + 2].shows = "char" /\ new[m + 2].of = n + 1
  BY <1>1 DEF CharLine, NumberLine, Line
<1>3. ShownIn(new) = ShownIn(list) \cup {m + 2} /\ ShownIn(list) \subseteq 1 .. m
  BY <1>2 DEF ShownIn
<1> HIDE DEF new
<1>4. \A k \in ShownIn(list) : list[k].of \in 1 .. n
  BY DEF Lists
<1>5. {new[k].of : k \in ShownIn(new)} = shown \cup {n + 1}
  BY <1>2, <1>3 DEF Lists
<1>6. \A j, k \in ShownIn(new) : j < k => new[j].of < new[k].of
  BY <1>2, <1>3, <1>4 DEF Lists
<1>7. DOMAIN new \ ShownIn(new) = (DOMAIN list \ ShownIn(list)) \cup {m + 1}
  BY <1>2, <1>3
<1>8. \A k \in DOMAIN list \ ShownIn(list) : k \in 1 .. m /\ k + 1 \in 1 .. m
  BY <1>2, <1>3 DEF Lists
<1>9. ASSUME NEW k \in DOMAIN new \ ShownIn(new)
      PROVE  /\ k + 1 \in ShownIn(new)
             /\ new[k].of = begun[new[k + 1].of]
             /\ begun[new[k + 1].of - 1] < new[k].of
  <2>1. CASE k \in DOMAIN list \ ShownIn(list)
    BY <1>2, <1>3, <1>8, <2>1 DEF Lists
  <2>2. CASE k = m + 1
    BY <1>2, <1>3, <2>2
  <2> QED
    BY <1>7, <2>1, <2>2
<1> QED
  BY <1>5, <1>6, <1>9 DEF Lists, new

(***************************************************************************)
(* The number that goes before a character is that of the line it begins,  *)
(* and it is S19.  (WriteChar, list)                                       *)
(***************************************************************************)
LEMMA WriteCharLists ==
  ASSUME OutputAssumption, TypeInv, LineStart, ListingIsTrue, aborts = 0,
         NEW ch \in Chars, NEW fails, NEW redirect \in BOOLEAN, WriteChar(ch, fails, redirect)
  PROVE  LineStart' /\ ListingIsTrue'
<1>0. PICK n \in Nat : n = Len(text)
  BY DEF TypeInv
<1>1. /\ text' = Append(text, [ch |-> ch, s20 |-> s20, s21 |-> s21, s22 |-> s22])
      /\ Len(text') = n + 1 /\ text'[n + 1] = [ch |-> ch, s20 |-> s20, s21 |-> s21, s22 |-> s22]
      /\ \A k \in 1 .. n : text'[k] = text[k]
      /\ DOMAIN text = 1 .. n /\ DOMAIN text' = 1 .. n + 1
  BY <1>0 DEF WriteChar, TypeInv
<1>2. job' = job /\ fails \in SUBSET Writes
  BY DEF WriteChar
<1>3. aborts' \in Nat /\ (aborts' = 0 <=> fails = {})
  BY WriteCharTypes DEF TypeInv
<1>4. \A m \in 0 .. n + 1 : LinesBegun(m)' = Cardinality({k \in 1 .. m : k = 1 \/ text[k - 1].ch = NL})
  <2>1. ASSUME NEW m \in 0 .. n + 1
        PROVE  {k \in 1 .. m : k = 1 \/ text'[k - 1].ch = NL} = {k \in 1 .. m : k = 1 \/ text[k - 1].ch = NL}
    BY <1>1
  <2> QED
    BY <2>1 DEF LinesBegun
<1>5. \A m \in 0 .. n : LinesBegun(m)' = LinesBegun(m)
  BY <1>4 DEF LinesBegun
<1>6. LinesBegun(n) = s19 /\ LinesBegun(n)' = s19
  BY <1>0, <1>5 DEF ListingIsTrue
<1>7. atLineStart <=> n = 0 \/ text[n].ch = NL
  BY <1>0 DEF LineStart, TypeInv
<1>8. LinesBegun(n + 1)' = s19' /\ s19' = IF atLineStart THEN s19 + 1 ELSE s19
  <2> DEFINE begun == {k \in 1 .. n : k = 1 \/ text[k - 1].ch = NL}
  <2>1. {k \in 1 .. n + 1 : k = 1 \/ text[k - 1].ch = NL} = IF atLineStart THEN begun \cup {n + 1} ELSE begun
    BY <1>7
  <2>2. Cardinality(begun) = s19
    BY <1>6 DEF LinesBegun
  <2>3. Cardinality(begun \cup {n + 1}) = Cardinality(begun) + 1
    <3>1. begun \in SUBSET Nat /\ \A k \in begun : k <= n
      OBVIOUS
    <3> HIDE DEF begun
    <3> QED
      BY <3>1, Counted
  <2>4. s19' = IF atLineStart THEN s19 + 1 ELSE s19
    BY DEF WriteChar, OutputLine
  <2>5. n + 1 \in 0 .. n + 1
    OBVIOUS
  <2>6. LinesBegun(n + 1)' = Cardinality(IF atLineStart THEN begun \cup {n + 1} ELSE begun)
    BY <1>4, <2>1, <2>5
  <2> HIDE DEF begun
  <2> QED
    BY <2>2, <2>3, <2>4, <2>6
<1>9. CASE fails # {}
  <2>1. aborts' # 0
    BY <1>3, <1>9
  <2>2. s19' = LinesBegun(Len(text))'
    BY <1>1, <1>8
  <2> QED
    BY <2>1, <2>2 DEF LineStart, ListingIsTrue
<1>10. CASE fails = {}
  <2> DEFINE begun == [m \in 0 .. n |-> LinesBegun(m)]
             more == [m \in 0 .. n + 1 |-> LinesBegun(m)']
             shown == {k \in 1 .. n : job.listing /\ text[k].s20 # 0}
             takes == job.listing /\ s20 # 0
             numbers == job.listing /\ s20 = listingNumbered /\ atLineStart
  <2>1. Completes(fails, redirect) /\ Done(fails, redirect) = Writes /\ aborts' = 0
    BY <1>3, <1>10, NothingFails
  <2>2. (Listed \in Writes <=> takes) /\ (LineNumber \in Writes <=> numbers)
    BY WritesAreFew DEF Writes, Listed, LineNumber, Outputs, OutputAssumption
  <2>3. atLineStart' <=> ch = NL
    BY <2>1 DEF WriteChar
  <2>4. shown \in SUBSET (1 .. n) /\ listing \in Seq(Line) /\ s19' \in Nat
    BY WriteCharTypes DEF TypeInv
  <2>5. \A k \in ShownIn(listing) : listing[k].of \in 1 .. n
    BY <1>0, <1>1 DEF LineStart, ShownIn
  <2>6. Lists(listing, shown, begun)
    <3>1. /\ {listing[k].of : k \in ShownIn(listing)} = shown
          /\ \A j, k \in ShownIn(listing) : j < k => listing[j].of < listing[k].of
          /\ \A k \in DOMAIN listing \ ShownIn(listing) :
               /\ k + 1 \in ShownIn(listing)
               /\ listing[k].of = LinesBegun(listing[k + 1].of)
               /\ LinesBegun(listing[k + 1].of - 1) < listing[k].of
      BY <1>1 DEF ListingIsTrue, ShownIn
    <3>2. \A m \in 1 .. n : begun[m] = LinesBegun(m) /\ begun[m - 1] = LinesBegun(m - 1)
      OBVIOUS
    <3> HIDE DEF begun, shown
    <3> QED
      BY <2>5, <3>1, <3>2 DEF Lists
  <2>7. \A m \in 0 .. n : more[m] = begun[m]
    BY <1>5
  <2>8. Lists(listing, shown, more)
    <3> HIDE DEF more, begun, shown
    <3> QED
      BY <2>4, <2>6, <2>7, ListsLonger
  <2>9. {k \in 1 .. n + 1 : job.listing /\ text'[k].s20 # 0} = IF takes THEN shown \cup {n + 1} ELSE shown
    BY <1>1
  <2>10. listing' = IF takes THEN IF numbers THEN Append(Append(listing, NumberLine(s19')), CharLine(n + 1))
                                  ELSE Append(listing, CharLine(n + 1))
                    ELSE listing
    <3>1. listing' = listing \o (IF numbers THEN <<NumberLine(s19')>> ELSE << >>)
                             \o (IF takes THEN <<CharLine(n + 1)>> ELSE << >>)
      BY <1>0, <2>1, <2>2 DEF WriteChar, NumberLine, CharLine
    <3>2. numbers => takes
      BY DEF listingNumbered
    <3>3. NumberLine(s19') \in Line /\ CharLine(n + 1) \in Line
      BY <2>4 DEF NumberLine, CharLine, Line
    <3> HIDE DEF numbers, takes
    <3>4. \A x, y \in Line : /\ listing \o <<x>> \o <<y>> = Append(Append(listing, x), y)
                             /\ listing \o << >> \o <<y>> = Append(listing, y)
                             /\ listing \o << >> \o << >> = listing
      BY <2>4
    <3> QED
      BY <3>1, <3>2, <3>3, <3>4
  <2>11. numbers => s19' = more[n + 1] /\ more[n] < s19'
    BY <1>6, <1>8 DEF TypeInv
  <2>12. Lists(listing', {k \in 1 .. n + 1 : job.listing /\ text'[k].s20 # 0}, more)
    <3> HIDE DEF more, begun, shown, takes, numbers
    <3>1. CASE ~takes
      BY <2>8, <2>9, <2>10, <3>1
    <3>2. CASE takes /\ ~numbers
      BY <2>4, <2>8, <2>9, <2>10, <3>2, ListsCharacter
    <3>3. CASE takes /\ numbers
      BY <2>4, <2>8, <2>9, <2>10, <2>11, <3>3, ListsNumbered
    <3> QED
      BY <3>1, <3>2, <3>3
  <2>13. \A k \in ShownIn(listing') : listing'[k].of \in 1 .. n + 1
    BY <2>12 DEF Lists
  <2>14. LineStart'
    BY <1>1, <2>3, <2>13 DEF LineStart, ShownIn
  <2>15. \A m \in 1 .. n + 1 : more[m] = LinesBegun(m)' /\ more[m - 1] = LinesBegun(m - 1)'
    OBVIOUS
  <2>16. ListingIsTrue'
    <3> HIDE DEF more
    <3>1. {k \in DOMAIN text : job.listing /\ text[k].s20 # 0}' = {k \in 1 .. n + 1 : job.listing /\ text'[k].s20 # 0}
      BY <1>1, <1>2
    <3>2. \A k \in DOMAIN listing' \ ShownIn(listing') :
            /\ k + 1 \in ShownIn(listing')
            /\ listing'[k + 1].of \in 1 .. n + 1
            /\ listing'[k].of = more[listing'[k + 1].of]
            /\ more[listing'[k + 1].of - 1] < listing'[k].of
      BY <2>12, <2>13 DEF Lists
    <3>3. /\ {listing'[k].of : k \in ShownIn(listing')} = {k \in DOMAIN text : job.listing /\ text[k].s20 # 0}'
          /\ \A j, k \in ShownIn(listing') : j < k => listing'[j].of < listing'[k].of
      BY <2>12, <3>1 DEF Lists
    <3> QED
      BY <1>1, <1>8, <2>15, <3>2, <3>3 DEF ListingIsTrue, ShownIn
  <2> QED
    BY <2>14, <2>16
<1> QED
  BY <1>9, <1>10
-----------------------------------------------------------------------------
LEMMA OutputStarts ==
  ASSUME OutputAssumption, Init
  PROVE  OutInv
<1> USE DEF Init, TypeInv
<1>1. TypeInv
  BY DEF OutputAssumption, MaxOutputs
<1>2. LineStart /\ AtLineStartIsTrue
  BY DEF LineStart, AtLineStartIsTrue
<1>3. text = << >> /\ Len(text) = 0 /\ DOMAIN text = {} /\ DOMAIN listing = {}
  OBVIOUS
<1>4. \A i \in Outputs : Cardinality(Aimed(i, 0)) = 0 /\ Aimed(i, 0) = {}
  <2>1. \A i \in Outputs : Aimed(i, 0) = {}
    BY DEF Aimed
  <2> QED
    BY <2>1, FS_EmptySet
<1>5. FilesFollowMask
  <2>1. \A i \in Outputs : Len(files[i]) = 0
    OBVIOUS
  <2> QED
    BY <1>3, <1>4, <2>1 DEF FilesFollowMask
<1>6. ListingIsTrue
  <2>1. LinesBegun(0) = 0
    <3>1. {k \in 1 .. 0 : k = 1 \/ text[k - 1].ch = NL} = {}
      OBVIOUS
    <3> QED
      BY <3>1, FS_EmptySet, Zenon DEF LinesBegun
  <2> QED
    BY <1>3, <2>1 DEF ListingIsTrue
<1> QED
  BY <1>1, <1>2, <1>5, <1>6 DEF OutInv

(***************************************************************************)
(* Macros change the controls, and nothing that has been written.          *)
(***************************************************************************)
LEMMA AssignKeeps ==
  ASSUME OutputAssumption, Assign
  PROVE  /\ TypeInv => TypeInv'
         /\ AtLineStartIsTrue => AtLineStartIsTrue'
         /\ aborts' = aborts
         /\ OutInv => OutInv'
<1>1. UNCHANGED <<job, s19, s24, atLineStart, files, listing, text, aborts>> /\ Outputs' = Outputs
  BY DEF Assign, Outputs
<1>2. TypeInv => TypeInv'
  BY <1>1 DEF Assign, TypeInv, OutputAssumption
<1>3. AtLineStartIsTrue => AtLineStartIsTrue'
  BY <1>1 DEF AtLineStartIsTrue
<1>4. LineStart => LineStart'
  BY <1>1 DEF LineStart
<1>5. \A i, n : Aimed(i, n)' = Aimed(i, n)
  BY <1>1 DEF Aimed
<1>6. FilesFollowMask => FilesFollowMask'
  BY <1>1, <1>5 DEF FilesFollowMask
<1>7. \A n : LinesBegun(n)' = LinesBegun(n)
  BY <1>1 DEF LinesBegun
<1>8. ListingIsTrue => ListingIsTrue'
  <2> SUFFICES ASSUME ListingIsTrue PROVE ListingIsTrue'
    OBVIOUS
  <2> DEFINE chars == {k \in DOMAIN listing : listing[k].shows = "char"}
  <2>1. s19' = LinesBegun(Len(text))'
    BY <1>1, <1>7 DEF ListingIsTrue
  <2>2. ASSUME aborts = 0, NEW k \in DOMAIN listing \ chars
        PROVE  /\ k + 1 \in chars
               /\ listing'[k].of = LinesBegun(listing[k + 1].of)'
               /\ LinesBegun(listing[k + 1].of - 1)' < listing'[k].of
    BY <1>1, <1>7, <2>2 DEF ListingIsTrue
  <2> QED
    BY <1>1, <2>1, <2>2 DEF ListingIsTrue
<1> QED
  BY <1>1, <1>2, <1>3, <1>4, <1>6, <1>8 DEF OutInv

(***************************************************************************)
(* As long as no write has failed, a character keeps all of it true; when  *)
(* one fails, what has been written stays true.                            *)
(***************************************************************************)
LEMMA WriteCharKeeps ==
  ASSUME OutputAssumption, OutInv, aborts = 0,
         NEW ch \in Chars, NEW fails, NEW redirect \in BOOLEAN, WriteChar(ch, fails, redirect)
  PROVE  OutInv'
<1>1. TypeInv'
  BY WriteCharTypes DEF OutInv
<1>2. AtLineStartIsTrue'
  BY WriteCharStarts DEF OutInv
<1>3. FilesFollowMask'
  BY WriteCharFollows DEF OutInv
<1>4. LineStart' /\ ListingIsTrue'
  BY WriteCharLists DEF OutInv
<1> QED
  BY <1>1, <1>2, <1>3, <1>4 DEF OutInv

LEMMA NothingHappens ==
  ASSUME OutInv, UNCHANGED vars
  PROVE  OutInv'
<1>1. UNCHANGED <<job, s19, s20, s21, s22, s24, atLineStart, files, listing, text, aborts>> /\ Outputs' = Outputs
  BY DEF vars, Outputs
<1>2. TypeInv'
  BY <1>1 DEF OutInv, TypeInv
<1>3. LineStart' /\ AtLineStartIsTrue'
  BY <1>1 DEF OutInv, LineStart, AtLineStartIsTrue
<1>4. FilesFollowMask'
  <2>1. \A i, n : Aimed(i, n)' = Aimed(i, n)
    BY <1>1 DEF Aimed
  <2> QED
    BY <1>1, <2>1 DEF OutInv, FilesFollowMask
<1>5. ListingIsTrue'
  <2>1. \A n : LinesBegun(n)' = LinesBegun(n)
    BY <1>1 DEF LinesBegun
  <2> QED
    BY <1>1, <2>1 DEF OutInv, ListingIsTrue
<1> QED
  BY <1>2, <1>3, <1>4, <1>5 DEF OutInv
=============================================================================
