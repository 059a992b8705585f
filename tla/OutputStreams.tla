--------------------------- MODULE OutputStreams ---------------------------
(***************************************************************************)
(* The output side of the ML/I host: WriteChar (MDOUCH), list and          *)
(* setAtLineStart of pkg/ml1/host.go.  A character goes to the listing and *)
(* then to every output stream that S21 and S22 select, in that order, and *)
(* any of these writes may fail.                                           *)
(*                                                                         *)
(* What the process does about a failure is the business of Process; here  *)
(* it is the parameter redirect: whether the first failure leaves the      *)
(* machine running (abort returns nil), so that WriteChar carries on.      *)
(***************************************************************************)
EXTENDS Integers, FiniteSets, Sequences

CONSTANTS S20Values, S21Values, S22Values  \* what the macros assign

NL == "nl"
Chars == {"x", NL}
MaxOutputs == 4

VARIABLES job,           \* never changes: how many outputs there are, and whether a listing
          s19,           \* current output line
          s20,           \* listing control
          s21,           \* output mask: the streams whose bit is set
          s22,           \* deprecated second-file switch
          s24,           \* the streams at the start of a line
          atLineStart,   \* the next character is the first of a line
          files,         \* what each output stream has received
          listing,       \* what the listing has received: characters, by their places in
                         \* the text, and line numbers
          text,          \* history: the characters handed to WriteChar, and the controls in force
          aborts         \* calls of abort made by WriteChar

Outputs == 1 .. job.outputs
vars == <<job, s19, s20, s21, s22, s24, atLineStart, files, listing, text, aborts>>

Init ==
  /\ s19 = 0 /\ s20 = 0 /\ s21 = {1} /\ s22 = 0
  /\ s24 = 1 .. MaxOutputs
  /\ atLineStart = TRUE
  /\ files = [i \in Outputs |-> << >>]
  /\ listing = << >>
  /\ text = << >>
  /\ aborts = 0

(***************************************************************************)
(* The writes one call makes, numbered in the order it makes them: the     *)
(* line number and the character on the listing, then the output streams.  *)
(***************************************************************************)
LineNumber == -1
Listed == 0
listingNumbered == 2

SelectedByMask(i) == i \in s21  \* faulty variant: S22 is forgotten
Selected(i) == i \in s21 \/ (i = 2 /\ s22 # 0)

\* Faulty variant: the listing is taken after the mask.
WritesMasked ==
     {i \in Outputs : Selected(i)}
  \cup {w \in {Listed} : job.listing /\ s20 # 0 /\ \E i \in Outputs : Selected(i)}
  \cup {w \in {LineNumber} : job.listing /\ s20 = listingNumbered /\ atLineStart}

Writes ==
     {i \in Outputs : Selected(i)}
  \cup {w \in {Listed} : job.listing /\ s20 # 0}
  \cup {w \in {LineNumber} : job.listing /\ s20 = listingNumbered /\ atLineStart}

\* Faulty variant: no failure ends the call.
StopsNever(fails, redirect) == {}

\* WriteChar returns at a failed write to an output stream, at the second
\* failure, and at the first when abort does not redirect the machine.
StopsAt(fails, redirect) ==
  {w \in fails : ~redirect \/ w \in Outputs \/ \E earlier \in fails : earlier < w}
Completes(fails, redirect) == StopsAt(fails, redirect) = {}
Attempted(fails, redirect) ==
  {w \in Writes : \A stop \in StopsAt(fails, redirect) : w <= stop}
Done(fails, redirect) == Attempted(fails, redirect) \ fails
Failed(fails, redirect) == Attempted(fails, redirect) \cap fails

\* Faulty variant: the bit is set and never cleared.
SetAtLineStartOnly(done, ch) == IF ch = NL THEN s24 \cup done ELSE s24

SetAtLineStart(done, ch) == IF ch = NL THEN s24 \cup done ELSE s24 \ done

\* Faulty variant: a line that is masked away is not counted.
OutputLine == IF atLineStart THEN s19 + 1 ELSE s19

WriteChar(ch, fails, redirect) ==
  LET done == Done(fails, redirect)
      position == Len(text) + 1
  IN /\ fails \subseteq Writes
     /\ s19' = OutputLine
     /\ listing' = listing
          \o (IF LineNumber \in done THEN <<[shows |-> "number", of |-> s19']>> ELSE << >>)
          \o (IF Listed \in done THEN <<[shows |-> "char", of |-> position]>> ELSE << >>)
     /\ files' = [i \in Outputs |-> IF i \in done THEN Append(files[i], ch) ELSE files[i]]
     /\ s24' = SetAtLineStart(done \cap Outputs, ch)
     /\ atLineStart' = IF Completes(fails, redirect) THEN ch = NL ELSE atLineStart
     /\ text' = Append(text, [ch |-> ch, s20 |-> s20, s21 |-> s21, s22 |-> s22])
     /\ aborts' = aborts + Cardinality(Failed(fails, redirect))
     /\ UNCHANGED <<job, s20, s21, s22>>

\* External: a macro assigns to one of the controls between two characters.
Assign ==
  /\ \/ s20' \in S20Values /\ UNCHANGED <<s21, s22>>
     \/ s21' \in S21Values /\ UNCHANGED <<s20, s22>>
     \/ s22' \in S22Values /\ UNCHANGED <<s20, s21>>
  /\ UNCHANGED <<job, s19, s24, atLineStart, files, listing, text, aborts>>

-----------------------------------------------------------------------------
TypeOK ==
  /\ job \in [outputs : 0 .. MaxOutputs, listing : BOOLEAN]
  /\ s19 \in Nat
  /\ s21 \subseteq 1 .. MaxOutputs /\ s24 \subseteq 1 .. MaxOutputs
  /\ atLineStart \in BOOLEAN
  /\ \A i \in Outputs : \A k \in DOMAIN files[i] : files[i][k] \in Chars
  /\ aborts \in 0 .. 2

\* The lines that the first n characters of the text have begun.
LinesBegun(n) == Cardinality({k \in 1 .. n : k = 1 \/ text[k - 1].ch = NL})

(***************************************************************************)
(* S24 tells the truth about each file: its bit is set exactly when the    *)
(* next character would begin a line of that file, also when some of the   *)
(* writes of a character succeeded and a later one failed, and always for  *)
(* a stream the user did not ask for.  (setAtLineStart)                    *)
(***************************************************************************)
AtLineStartIsTrue ==
  \A i \in 1 .. MaxOutputs :
    i \in s24 <=> \/ i \notin Outputs
                  \/ files[i] = << >>
                  \/ files[i][Len(files[i])] = NL

(***************************************************************************)
(* Each file receives, once and in order, the characters that were aimed   *)
(* at it when they were written; a failure loses at most the last one.     *)
(* (WriteChar)                                                             *)
(***************************************************************************)
Aimed(i, n) == {k \in 1 .. n : i \in text[k].s21 \/ (i = 2 /\ text[k].s22 # 0)}
FilesFollowMask ==
  \A i \in Outputs :
    LET aimed == Cardinality(Aimed(i, Len(text)))
    IN /\ Len(files[i]) \in aimed - aborts .. aimed
       /\ \A k \in Aimed(i, Len(text)) :
            LET place == Cardinality(Aimed(i, k))
            IN place <= Len(files[i]) => files[i][place] = text[k].ch

(***************************************************************************)
(* S19 counts the lines of the text as it is written, also when a write of *)
(* the first character of a line fails.  The listing shows the text before *)
(* the mask is applied: every character written while S20 was not zero, in *)
(* order, and every number is that of the line the character after it      *)
(* begins.  (WriteChar, list)                                              *)
(***************************************************************************)
ListingIsTrue ==
  /\ s19 = LinesBegun(Len(text))
  /\ aborts = 0 =>
    LET chars == {k \in DOMAIN listing : listing[k].shows = "char"}
    IN /\ {listing[k].of : k \in chars} = {k \in DOMAIN text : job.listing /\ text[k].s20 # 0}
       /\ \A j, k \in chars : j < k => listing[j].of < listing[k].of
       /\ \A k \in DOMAIN listing \ chars :
            /\ k + 1 \in chars
            /\ listing[k].of = LinesBegun(listing[k + 1].of)
            /\ LinesBegun(listing[k + 1].of - 1) < listing[k].of
=============================================================================
