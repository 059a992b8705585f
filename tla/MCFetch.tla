------------------------------ MODULE MCFetch ------------------------------
EXTENDS FetchProperties
\* An engine archive (its MANIFEST is 1, its LOWL source 2) and a suite.
EngineAndSuite == <<{1, 2}, {3}>>
EngineOnly == <<{1, 2}>>
\* One command after another, with every fault.
Alone == [commands |-> {"first"}, selected |-> 2, tracked |-> {}, damaged |-> {},
          edited |-> {1}, faults |-> TRUE]
AloneInAnyWorld ==
  {Alone, [Alone EXCEPT !.damaged = {1}],
   [Alone EXCEPT !.tracked = {"embed"}], [Alone EXCEPT !.tracked = {"target"}]}
\* Two at the same time on the engine.
Together == [Alone EXCEPT !.commands = {"first", "second"}, !.selected = 1, !.edited = {}]
AloneOrTogether == AloneInAnyWorld \cup {Together}
JustTheEngine == {[Alone EXCEPT !.selected = 1]}
=============================================================================
