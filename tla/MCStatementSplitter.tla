------------------------ MODULE MCStatementSplitter ------------------------
(***************************************************************************)
(* Short scripts over the characters that interact, and all the shorter    *)
(* ones.                                                                   *)
(***************************************************************************)
EXTENDS StatementSplitter

\* An E-string with an escaped quote takes six characters, a body in dollar
\* quotes seven, a comment in a comment eight.
MCScripts ==
  BoundedSeq({"x", "e", "'", "\\", ";", "\n"}, 6)
    \cup BoundedSeq({"x", "$", ";"}, 8)
    \cup BoundedSeq({"x", "1", "$", ";"}, 6)
    \cup BoundedSeq({"1", "e", "'", "\\", ";"}, 6)
    \cup BoundedSeq({"/", "*", ";"}, 9)
    \cup BoundedSeq({"x", ";", "Begin", "End", "\n"}, 6)
    \cup BoundedSeq({"x", "-", "/", "*", ";", "\n"}, 5)
    \cup BoundedSeq(Chars \ {"Long"}, 3)

\* A text that does not fit into a scanner's buffer.
LongScripts == BoundedSeq({"Long", "-", ";", "\n"}, 3)
=============================================================================
