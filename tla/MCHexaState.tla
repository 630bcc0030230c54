---------------------------- MODULE MCHexaState ----------------------------
(***************************************************************************)
(* Instances of HexaState for TLC: which task makes which calls.           *)
(***************************************************************************)
EXTENDS StateRefinement, TLC

CONSTANTS loop, web, k1, k2, k3

\* One task making every call.
SequentialCalls == [t \in Task |-> CallName]

\* The loop task makes every call that commits; the web console only writes
\* values, which with a commit delay are left for StateLoop to commit.
SingleCommitterCalls ==
  [t \in Task |-> IF t = LoopTask THEN {"set", "erase", "create", "delete", "loop"}
                                  ELSE {"set", "dec"}]

\* One task, and no call whose failure gives up a write it staged.
LivenessCalls == [t \in Task |-> {"set", "inc", "create", "format", "loop"}]

\* Both tasks increment.
IncrementCalls ==
  [t \in Task |-> IF t = LoopTask THEN {"create", "inc", "loop"} ELSE {"inc"}]

\* Both tasks create keys.
CreateCalls ==
  [t \in Task |-> IF t = LoopTask THEN {"create", "loop"} ELSE {"create"}]

\* The loop task creates a key and commits; the web console writes it.
WriterCalls ==
  [t \in Task |-> IF t = LoopTask THEN {"create", "loop"} ELSE {"set"}]

KeySymmetry == Permutations(RuntimeKey)
=============================================================================
