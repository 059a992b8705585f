----------------------------- MODULE TwoStacks -----------------------------
(***************************************************************************)
(* What the storage of a LOWL program promises, with no addresses in it:   *)
(* two last-in first-out stacks that share a fixed number of words, and a  *)
(* single moment, latched in met, at which they have met.  LowlStacks      *)
(* (pkg/lowl/vm) implements this specification.                            *)
(***************************************************************************)
EXTENDS Integers, Sequences

CONSTANTS Item,    \* what a word can hold
          Words    \* how many words the two stacks share

VARIABLES fwd,   \* the forwards stack, its top last
          bwd,   \* the backwards stack, its top last
          met,   \* the stacks have met: storage is exhausted
          out    \* the item the last pop delivered

vars == <<fwd, bwd, met, out>>

Used == Len(fwd) + Len(bwd)

Init ==
  /\ fwd = << >> /\ bwd = << >>
  /\ met = FALSE
  /\ out = 0

PushForwards(x) ==
  /\ ~met
  /\ fwd' = Append(fwd, x)
  /\ met' = (Used + 1 = Words)
  /\ UNCHANGED <<bwd, out>>

PushBackwards(x) ==
  /\ ~met
  /\ bwd' = Append(bwd, x)
  /\ met' = (Used + 1 = Words)
  /\ UNCHANGED <<fwd, out>>

PopBackwards ==
  /\ ~met
  /\ bwd # << >>
  /\ out' = bwd[Len(bwd)]
  /\ bwd' = SubSeq(bwd, 1, Len(bwd) - 1)
  /\ UNCHANGED <<fwd, met>>

\* A program takes things off the forwards stack by cutting it back.
CutForwards(n) ==
  /\ ~met
  /\ fwd' = SubSeq(fwd, 1, n)
  /\ UNCHANGED <<bwd, met, out>>

Next ==
  \/ \E x \in Item : PushForwards(x) \/ PushBackwards(x)
  \/ PopBackwards
  \/ \E n \in 0 .. Len(fwd) : CutForwards(n)

Spec == Init /\ [][Next]_vars
=============================================================================
