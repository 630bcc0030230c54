------------------------------ MODULE MCConfig ------------------------------
(***************************************************************************)
(* Instances of Config for TLC.  Two keys: the first is a log level, the   *)
(* second is not applied (the pinmap, the WiFi credentials).               *)
(***************************************************************************)
EXTENDS Config

CONSTANTS loop, web

MCDefault == [k \in Key |-> 0]

\* The web task (routes and WebSocket console) makes every call, the console on
\* the loop task saves.
SingleWriterCalls == [t \in Task |-> IF t = LoopTask THEN {"save"} ELSE CallName]

\* Both change settings.
SetCalls == [t \in Task |-> IF t = LoopTask THEN {"set"} ELSE {"post"}]

\* Both make every call.
AllCalls == [t \in Task |-> CallName]
=============================================================================
