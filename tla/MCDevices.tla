----------------------------- MODULE MCDevices -----------------------------
(***************************************************************************)
(* Instances of Devices for TLC: which task makes which calls.             *)
(***************************************************************************)
EXTENDS Devices, TLC

CONSTANTS loop, web, shared, own

\* Drivers are registered by one task; both use them, and recovery is asked
\* for by the console of the other.
OneRegistrarCalls ==
  [t \in Task |-> IF t = loop THEN {"register", "unregister", "transact"}
                              ELSE {"transact", "recover", "reenable"}]

\* One device is used by both tasks, the other by one.
SharedOrWeb == (shared :> {loop, web}) @@ (own :> {web})

\* Both tasks register drivers.
TwoRegistrarsCalls == [t \in Task |-> {"register", "unregister"}]

ObjectSymmetry == Permutations(Object)
=============================================================================
