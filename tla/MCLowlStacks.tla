---------------------------- MODULE MCLowlStacks ----------------------------
\* A machine of 10 words: two of program, two S-variables and their count,
\* and a workspace of four or five.
EXTENDS LowlStacks

MCSVars == [n \in 1 .. NVars |-> 70 + n]
=============================================================================
