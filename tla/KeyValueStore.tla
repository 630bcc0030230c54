---------------------------- MODULE KeyValueStore ----------------------------
(***************************************************************************)
(* What the state service promises its callers (state.h), without the      *)
(* buffer, the commit window and NVS: a store of values that are current   *)
(* at once and become durable later, in the order of the writes, and of    *)
(* which none is lost except by a power loss or by the call that gives it  *)
(* up.  HexaState is shown to implement it in StateRefinement.             *)
(*                                                                         *)
(* A write is a record [content, seq]; seq numbers the writes.  The        *)
(* catalog of the registered keys is a key of the store like the others.   *)
(***************************************************************************)
EXTENDS Naturals

CONSTANTS
  Key,      \* the keys that can be written
  Catalog,  \* the one of them that holds the catalog of registered keys
  Blank     \* the write of a key that was never written

VARIABLES
  keys,     \* the registered keys
  value,    \* the current write of each key, which every read returns
  saved,    \* the write that survives a power loss
  unsaved,  \* later writes, any of which a power loss may leave behind
  creating, deleting,  \* keys a create or a delete is at work on
  formatting           \* the whole store is being formatted

data  == <<value, saved, unsaved>>
calls == <<creating, deleting, formatting>>

\* What a power loss may leave of k.
Possible(k) == unsaved[k] \cup {saved[k]}

Others(k) ==
  \A j \in Key \ {k} : /\ value'[j] = value[j] /\ saved'[j] = saved[j]
                       /\ unsaved'[j] = unsaved[j]

\* The last write of k may be given up by the call that made it.
MayGiveUp(k) ==
  \/ formatting
  \/ k \in deleting
  \/ k = Catalog /\ creating \cup deleting # {}

StoreInit ==
  /\ keys = {}
  /\ value = [k \in Key |-> Blank] /\ saved = [k \in Key |-> Blank]
  /\ unsaved = [k \in Key |-> {}]
  /\ creating = {} /\ deleting = {} /\ ~formatting

\* A write is newer than all there is of its key, and a catalog lists the
\* registered keys, without one that is being deleted.
Write(k) ==
  /\ \A w \in Possible(k) \cup {value[k]} : w.seq < value'[k].seq
  /\ k = Catalog => \/ value'[k].content = keys
                    \/ \E d \in deleting : value'[k].content = keys \ {d}
  /\ unsaved'[k] \subseteq unsaved[k] \cup {value'[k]}
  /\ value'[k] \in unsaved'[k]
  /\ saved'[k] = saved[k]
  /\ Others(k)
  /\ UNCHANGED keys

\* Any writes become durable, in order for each key; what is current stays so.
Persist ==
  /\ \A k \in Key :
       /\ saved'[k] \in Possible(k) /\ saved[k].seq <= saved'[k].seq
       /\ unsaved'[k] \subseteq {w \in unsaved[k] : saved'[k].seq < w.seq}
       /\ value'[k] = value[k]
       /\ value[k] \in Possible(k)'
  /\ UNCHANGED keys

\* A create, a delete or a format goes back to a write from before.
GiveUp(k) ==
  /\ MayGiveUp(k)
  /\ value'[k] \in Possible(k)
  /\ unsaved'[k] \subseteq unsaved[k]
  /\ saved'[k] = saved[k]
  /\ Others(k)
  /\ UNCHANGED keys

Register(k) ==
  /\ k \in creating \ keys
  /\ keys' = keys \cup {k}
  /\ UNCHANGED data

\* A key that was deleted is gone from the durable catalog before it is
\* unregistered: no power loss brings it back.
Unregister(k) ==
  /\ k \in keys
  /\ \/ k \in creating
     \/ k \in deleting /\ \A w \in Possible(Catalog) : k \notin w.content
  /\ keys' = keys \ {k}
  /\ UNCHANGED data

\* A format forgets what was not saved, the keys, and what was saved.
Forget ==
  /\ formatting
  /\ \A k \in Key : /\ value'[k] \in Possible(k) /\ saved'[k] = saved[k]
                    /\ unsaved'[k] \subseteq unsaved[k]
  /\ UNCHANGED keys
ForgetKeys == formatting /\ keys' = {} /\ UNCHANGED data
Wipe ==
  /\ formatting
  /\ value' = [k \in Key |-> Blank] /\ saved' = value'
  /\ unsaved' = [k \in Key |-> {}]
  /\ UNCHANGED keys

\* Every key keeps what was saved or a later write, and the registered keys
\* are those of the catalog; the numbers start again.
PowerLoss ==
  /\ \A k \in Key : \E w \in Possible(k) :
       saved'[k] = [content |-> w.content, seq |-> 0]
  /\ value' = saved' /\ unsaved' = [k \in Key |-> {}]
  /\ keys' = saved'[Catalog].content
  /\ creating' = {} /\ deleting' = {} /\ ~formatting'

\* The calls in progress come and go freely.
StoreNext ==
  \/ \E k \in Key : Write(k) \/ GiveUp(k) \/ Register(k) \/ Unregister(k)
  \/ Persist \/ Forget \/ ForgetKeys \/ Wipe \/ PowerLoss
  \/ UNCHANGED <<keys, data>>

StoreSpec == StoreInit /\ [][StoreNext]_<<keys, data, calls>>
=============================================================================
