-------------------------- MODULE InputProperties --------------------------
(***************************************************************************)
(* What ReadChar promises the MI-logic.                                    *)
(***************************************************************************)
EXTENDS InputStreams, FiniteSets, SequencesExt

TypeOK ==
  /\ s10 \in Int /\ s23 \in Int
  /\ streams \in [Stream -> [open : BOOLEAN, pos : Nat, eof : BOOLEAN, used : BOOLEAN]]
  /\ \A i \in Stream : streams[i].pos <= Len(Content[i])
  /\ call \in {"idle", "reading", "over"}
  /\ result.kind \in {"none", "char", "eof", "abort"}

\* Reference definition of a text with its line endings made uniform: a line
\* feed right after a carriage return is not there, unless that return is one
\* of those that lost it; a carriage return is a newline; and everything else
\* is what and where it was.
Kept(text, n, lost) ==
  {k \in 1 .. n : ~(text[k] = NL /\ k > 1 /\ text[k - 1] = CR /\ k - 1 \notin lost)}
Uniform(ch) == IF ch = CR THEN NL ELSE ch

\* out is the normal form of the first n characters of text.
IsNormal(out, text, n, lost) ==
  /\ Len(out) = Cardinality(Kept(text, n, lost))
  /\ \A k \in Kept(text, n, lost) : out[Cardinality(Kept(text, k, lost))] = Uniform(text[k])

(***************************************************************************)
(* However the macros switch between streams and rewind them, each stream  *)
(* delivers its own text, in order, once, with every CR, LF and CRLF a     *)
(* single newline: what it has delivered is the normal form of what it has *)
(* consumed.  A pair is two newlines exactly where the read between its    *)
(* two halves failed.  (stream.read, ReadChar)                             *)
(***************************************************************************)
DeliveredIsNormal ==
  \A i \in Stream : IsNormal(got[i], Content[i], streams[i].pos, torn[i])

(***************************************************************************)
(* The process is told its input has ended only when S10 declares it, or   *)
(* when the revert stream has delivered all of its text, with every line   *)
(* ending once but for those a failed read took apart.  (ReadChar)         *)
(***************************************************************************)
EndIsHonest ==
  result.kind = "eof" =>
    \/ s10 = 0
    \/ s10 = s23 /\ IsNormal(got[s10], Content[s10], Len(Content[s10]), torn[s10])

(***************************************************************************)
(* A stream is held open across a switch, so that coming back to it        *)
(* carries on where it left off: only its own rewind code repositions it.  *)
(***************************************************************************)
OnlyRewindRepositions ==
  [][\A i \in Stream : IsPrefix(got[i], got'[i]) \/ s10 = 100 + i]_vars

\* The revert stream is named by the rewind code of an input with no text in
\* it: the end of every stream starts it again, and it ends at once.
EmptyRevert == \E i \in Rewindable : s23 = 100 + i /\ Content[i] = << >>

(***************************************************************************)
(* A call of ReadChar returns, whatever the macros have assigned, unless   *)
(* the revert stream is an empty one named by its rewind code.  (ReadChar) *)
(***************************************************************************)
ReadReturns == call = "reading" /\ ~EmptyRevert ~> call # "reading"

(***************************************************************************)
(* pkg/ml1/lowl.go says of its cycle limit that "a stuck machine is caught *)
(* in a few seconds".  The limit counts instructions, so it is right only  *)
(* if every instruction, MDREAD among them, comes to an end.               *)
(***************************************************************************)
EveryReadReturns == call = "reading" ~> call # "reading"
=============================================================================
