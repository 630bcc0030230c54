------------------------------ MODULE MCFiles ------------------------------
(***************************************************************************)
(* Instances of Files for TLC: two tasks; contents of one chunk, so that   *)
(* what is left of an unfinished write is the empty file, with room for an *)
(* append.                                                                 *)
(***************************************************************************)
EXTENDS Files, TLC

CONSTANTS t1, t2, a, b, ta, tb

MCTemp == (a :> ta) @@ (b :> tb)
MCData == {<<"x">>, <<"y">>}
OneFile == (a :> ta)
AllCalls == CallName
AtomicCalls == {"atomic", "read", "mount", "format"}

=============================================================================
