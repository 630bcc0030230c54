----------------------------- MODULE MCConsole -----------------------------
(***************************************************************************)
(* Instances of Console for TLC.                                           *)
(***************************************************************************)
EXTENDS Console, TLC

CONSTANTS short, long, warning

\* Lines shorter and longer than the prompt and a typed character.
Lengths == (short :> 1) @@ (long :> 3) @@ (warning :> 2)

CrLf == <<"cr", "lf">>

WriterSymmetry == Permutations(Writer)

\* The claim of log.cpp, with no exception for the moments between a change of
\* the line and its echo.
ShellAlwaysShows ==
  Polls /\ host = << >> /\ sink = Nobody => row = <<Prompt>> \o buffer
=============================================================================
