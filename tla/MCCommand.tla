----------------------------- MODULE MCCommand -----------------------------
EXTENDS CommandProperties
\* Arguments: a name or number, an option alone, an option with its value.
Word(name) == [text |-> name, letter |-> "", attached |-> ""]
Option(letter) == [text |-> "-?", letter |-> letter, attached |-> ""]
Joined(letter, value) == [text |-> "-?", letter |-> letter, attached |-> value]
Long(name) == [text |-> name, letter |-> "-", attached |-> "?"]

Separate == <<Option("o"), Word("a"), Word("x"), Joined("o", "b"), Option("d"), Word("d"), Joined("l", "c")>>
Shared == <<Word("x"), Joined("o", "a"), Joined("o", "a"), Joined("d", "a"), Joined("l", "a")>>
Unbuffereds == <<Word("x"), Joined("o", Std), Joined("o", Std), Joined("l", Std)>>
ThreeOutputs == <<Joined("o", "a"), Joined("o", "-?"), Joined("o", "b")>>
OntoInput == <<Word("x"), Word("y"), Joined("o", "x"), Joined("c", "0")>>
ValueLikeOption == <<Option("o"), Option("l"), Option("v"), Joined("w", "5000")>>
Unusable ==
  {<<Word("x"), Option("o")>>, <<Option("q")>>, <<Joined("v", "1")>>, <<Option("w"), Word("x")>>,
   <<Option("c"), Word("x"), Word("a")>>,
   [k \in 1 .. 6 |-> Word("x")], [k \in 1 .. 5 |-> Joined("o", "a")]}
Others == {<< >>, <<Joined("d", Std), Joined("s", "e")>>, <<Word("missing"), Joined("o", "a")>>,
           <<Long("--help"), Joined("o", "a")>>, <<Long("--nothing")>>}

Usual == [arguments |-> << >>, present |-> {"x", "y", "a"}, unwritable |-> {}, removable |-> {},
          engine |-> TRUE, faults |-> TRUE, macros |-> FALSE, characters |-> 2, messages |-> 1]
With(lines) == {[Usual EXCEPT !.arguments = line] : line \in lines}
Tried ==
       With({ValueLikeOption} \cup Unusable \cup Others)
  \cup {[Usual EXCEPT !.arguments = OntoInput, !.removable = {"y"}],
        [Usual EXCEPT !.arguments = Separate],
        [Usual EXCEPT !.arguments = ThreeOutputs],
        [Usual EXCEPT !.arguments = Unbuffereds, !.macros = TRUE],
        [Usual EXCEPT !.arguments = Unbuffereds, !.characters = 4],
        [Usual EXCEPT !.arguments = Shared, !.characters = 3]}
  \cup {[Usual EXCEPT !.arguments = line, !.engine = FALSE] :
            line \in {Separate, Shared, <<Long("--engine")>>, <<Word("missing"), Long("--fetch-engine")>>}}
  \cup {[Usual EXCEPT !.arguments = line, !.unwritable = {"b"}] : line \in {Separate, ThreeOutputs}}
Masks == {{}, {2}, {1, 2, 3}}
=============================================================================
