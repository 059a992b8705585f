------------------------- MODULE CommandProperties -------------------------
(***************************************************************************)
(* What ml1 promises of the files it is given, and OutputStreams of what   *)
(* it writes to them.                                                      *)
(***************************************************************************)
EXTENDS Command

TypeOK ==
  /\ Len(config.inputs) <= MaxInputs
  /\ pc \in {"start", "inputs", "sinks", "engine", "running", "flush", "close", "report", "ended"}
  /\ \A k \in DOMAIN writers :
       /\ writers[k].name \in FileNames
       /\ Len(writers[k].buffer) <= Capacity
  /\ \A k \in DOMAIN sink : sink[k] \in 0 .. Len(writers)
  /\ status \in {-1, 0, 1, 2, 254, 255}
  /\ Out!TypeOK

Before(n) == IF n \in world.present THEN <<[from |-> "before"]>> ELSE << >>
Untouched(n) == disk[n] = Before(n)

(***************************************************************************)
(* A status that reports no fatal error is true: every call succeeded, and *)
(* each file holds everything written to its name, once and in the order   *)
(* of the calls, also when outputs, listing and messages share it.  Files  *)
(* that were not named for writing are as they were.  (run, job)           *)
(***************************************************************************)
NothingIsLost ==
  status \in {0, 254} /\ outcome # -1 =>
    /\ ~failed
    /\ \A n \in DOMAIN disk :
         disk[n] = IF n \in FileNames \ Range(Sinks) THEN Before(n) ELSE sent[n]

(***************************************************************************)
(* A command line that is refused, or that names an input that is not      *)
(* there, ends with status 1 before any file is emptied; and whenever the  *)
(* status is 1 nothing has been written anywhere.  (run, job)              *)
(***************************************************************************)
RefusalIsClean ==
  /\ config.bad \/ (config.answers = {} /\ \E i \in DOMAIN Inputs :
                      Inputs[i] \notin {Std} \cup world.present) =>
       /\ status \in {-1, 1, 2}
       /\ \A n \in DOMAIN disk : Untouched(n)
  /\ status = 1 => \A n \in DOMAIN disk : sent[n] = << >> /\ disk[n] \in {<< >>, Before(n)}

\* What OutputStreams says of S24, S21, S22, S19 and S20, whatever the sinks
\* are and whenever their failures are noticed.
AtLineStartIsTrue == Out!AtLineStartIsTrue
FilesFollowMask == Out!FilesFollowMask
ListingIsTrue == Out!ListingIsTrue
=============================================================================
