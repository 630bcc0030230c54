-------------------------- MODULE StateRefinement --------------------------
(***************************************************************************)
(* The state service implements KeyValueStore: the buffer of staged writes *)
(* and the snapshots of the commits, taken together with what NVS has not  *)
(* flushed, are the writes that are current and not durable yet.           *)
(***************************************************************************)
EXTENDS HexaState

\* The writes of k a power loss may find in flash: those a commit can still
\* bring there or NVS holds without having flushed them.
InFlight(k) ==
  {w \in {nvs[k]}
         \cup {[content |-> pending[i].content, seq |-> pending[i].seq] :
                 i \in {j \in Slot : pending[j].key = k}}
         \cup UNION {{[content |-> task[t].snap[i].content, seq |-> task[t].snap[i].seq] :
                        i \in {j \in task[t].todo : task[t].snap[j].key = k}} : t \in Task}
     : w.seq > durable[k].seq}

Doing(call) == {task[t].key : t \in {u \in Task : task[u].op = call}}

Store == INSTANCE KeyValueStore WITH
  Key        <- StorageKey,
  Catalog    <- CatalogKey,
  Blank      <- NoEntry,
  keys       <- registry,
  value      <- [k \in StorageKey |-> Visible(k)],
  saved      <- durable,
  unsaved    <- [k \in StorageKey |-> InFlight(k)],
  creating   <- Doing("create"),
  deleting   <- Doing("delete"),
  formatting <- \E t \in Task : task[t].op = "format"

\* Every step of the service is a step of the store it promises: a write is
\* current at once, becomes durable after the earlier ones of its key, is never
\* lost or undone but by the call that made it, and a deleted key leaves the
\* durable catalog before it is unregistered, whatever the other task stages
\* between the steps of a commit.
ImplementsStore == Store!StoreSpec
=============================================================================
