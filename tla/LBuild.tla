------------------------------- MODULE LBuild -------------------------------
(***************************************************************************)
(* ast.Build: the block structure of a program.  One pass with a stack of  *)
(* the statements that are open; a closing statement that does not close   *)
(* the innermost of them is an error and closes nothing.                   *)
(***************************************************************************)
EXTENDS SequencesExt, LText

Closers == Range(Closing)
ClosesTop(p, j, open) == open # <<>> /\ Closing[Op(p, Last(open))] = Op(p, j)

AtLine(p, t, j) ==
  CASE Op(p, j) \in DOMAIN Closing -> [t EXCEPT !.open = Append(@, j)]
    [] Op(p, j) \notin DOMAIN Closing \cup Closers -> t
    [] Op(p, j) \in Closers ->
         IF ClosesTop(p, j, t.open) THEN [t EXCEPT !.open = Front(@), !.opener[j] = Last(t.open)]
         ELSE [t EXCEPT !.errors = TRUE]
Unread(p) == [open |-> <<>>, opener |-> [j \in DOMAIN p |-> 0], errors |-> FALSE]
Build(p) ==
  LET at[j \in 0 .. Len(p)] == IF j = 0 THEN Unread(p) ELSE AtLine(p, at[j - 1], j)
  IN  at[Len(p)]

Builds(p) == ~Build(p).errors /\ Build(p).open = <<>>
OpenedAt(p, j) == Build(p).opener[j]
ClosedAt(p, i) == CHOOSE j \in DOMAIN p : OpenedAt(p, j) = i
=============================================================================
