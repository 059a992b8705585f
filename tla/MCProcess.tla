----------------------------- MODULE MCProcess -----------------------------
EXTENDS Process
Reports == {{}, {"statistics", "constructions"}}
FullProgram == {{"ER7A", "ERLSO"}}
TwoPrograms == {{}, {"ER7A", "ERLSO"}}

\* Texts that leave a line open and that close one, the first of them longer
\* than a line is wide.
Error == <<NL, "x", "x", "x">>
Aborted == <<"x", NL>>
=============================================================================
