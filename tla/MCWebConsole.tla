---------------------------- MODULE MCWebConsole ----------------------------
(***************************************************************************)
(* Instances of WebConsole for TLC.                                        *)
(***************************************************************************)
EXTENDS WebConsole, TLC

\* The tasks that log are alike.
Loggers == Permutations(Logger)

\* "Safe from any task", as mod_web.cpp says of textAll: no queue overflows,
\* and no connection ends while a log call uses it.
NeverOverflows == ~(reset /\ handler.pc # "leave")
NeverResets    == ~reset
=============================================================================
