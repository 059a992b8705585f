------------------------------ MODULE MCInput ------------------------------
\* Streams small enough to enumerate, with the line endings that are hard: a
\* pair, a pair after a lone return, a return at the very end.
EXTENDS InputProperties

ThreeStreams == << <<"a", CR, NL>>, << >>, <<CR, CR, NL, "b", CR>> >>
=============================================================================
