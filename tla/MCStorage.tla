----------------------------- MODULE MCStorage -----------------------------
(***************************************************************************)
(* Instances of Storage for TLC.                                           *)
(***************************************************************************)
EXTENDS Storage

AllFunctions == Mandatory \cup Wide

\* A set complete, without a wide line, or without a mandatory one.
SomeMaps == {AllFunctions, AllFunctions \ {"d3"}, AllFunctions \ {"cmd"}}

\* The backends start independently: what mod_storage.cpp says of itself, with
\* no exception for a failure of FilesInit.
BackendsIndependent ==
  <>[](slot.in /\ slot.good /\ \E s \in PinSet : Usable(s)) => <>mounted
=============================================================================
