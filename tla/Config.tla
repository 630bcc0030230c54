------------------------------- MODULE Config -------------------------------
(***************************************************************************)
(* The configuration service (src/src/system/core/config.cpp) and the      *)
(* commands and web routes that use it.  The configuration is a structure  *)
(* in RAM; NVS holds the values that differ from the build defaults.  The  *)
(* spinlock protects one copy of the structure at a time, so a set copies  *)
(* it, changes the copy and copies it back, and a save works from a copy.  *)
(*                                                                         *)
(* A call is the sequence of stages that its command goes through; a stage *)
(* is one critical section or, in a save or a load, one key of the table   *)
(* kHxConfigKeys.                                                          *)
(*                                                                         *)
(* Abstractions.  The keys are numbered in the order of the table and have *)
(* one set of values; a stored entry of the wrong type or out of range is  *)
(* Junk.  Hx.config_loaded, which is only displayed, is left out, and so   *)
(* is a ConfigInit that cannot open NVS, after which every call fails.     *)
(***************************************************************************)
EXTENDS Naturals, Sequences

CONSTANTS
  Task,         \* the tasks that run commands and web routes
  LoopTask,     \* the one that boots
  KeyCount,     \* number of keys in kHxConfigKeys
  Value,        \* values that a key accepts
  Default,      \* HxConfigDefaults
  LiveKey,      \* keys that ConfigApply hands to the running system
  NoOverride,   \* there is no entry for the key in NVS
  Junk,         \* an entry that the key does not accept
  Calls,        \* Calls[t]: the calls task t makes
  MaxCalls,     \* bound: calls made
  MaxFaults,    \* bound: NVS accesses that fail
  MaxCrashes    \* bound: resets and power losses

Key      == 1 .. KeyCount
CallName == {"set", "toggle", "level", "post", "pinmap", "save",
             "load", "default", "format", "connect"}

ASSUME ConfigAssumption ==
  /\ LoopTask \in Task
  /\ KeyCount \in Nat \ {0}
  /\ Default \in [Key -> Value]
  /\ LiveKey \subseteq Key
  /\ NoOverride \notin Value /\ Junk \notin Value /\ NoOverride # Junk
  /\ Calls \in [Task -> SUBSET CallName]
  /\ MaxCalls \in Nat /\ MaxFaults \in Nat /\ MaxCrashes \in Nat

VARIABLES
  config,    \* HxConfigData
  applied,   \* what ConfigApply has handed on
  open,      \* the NVS handle is open
  nvs,       \* what an NVS read returns
  durable,   \* what is certain to survive a power loss
  task,      \* where every task is in its call
  offers,    \* history: for every key the values that may be stored for it
  last,      \* history: the value given to every key by the last call
  calls, faults, crashes

store  == <<nvs, durable>>
bounds == <<calls, faults, crashes>>
vars   == <<config, applied, open, store, task, offers, last, bounds>>

-----------------------------------------------------------------------------
(* Entries.                                                                *)

\* Mistake: a default leaves what is stored.
EncodeOverridesOnly(k, v) == IF v = Default[k] THEN nvs[k] ELSE v
\* ConfigStoreItemOverrideFromConfig: a default is stored by erasing the key.
Encode(k, v) == IF v = Default[k] THEN NoOverride ELSE v

\* ConfigReadItemFromNvs, for a read that works.
Decode(k, e) == IF e \in Value THEN e ELSE Default[k]

-----------------------------------------------------------------------------
(* Calls.                                                                  *)

Applying == <<"apply", "push">>
Saving   == <<"snap", "store", "flush">>
Loading  == <<"read", "repair", "install">>

\* Mistake: "config default" does not apply what it sets.
CmdDefaultUnapplied == <<"defaults">>
CmdDefault          == <<"defaults">> \o Applying

\* set and toggle: "config set", "config toggle"; level: the log commands;
\* post: the web page of the settings; pinmap: the web routes that set or
\* reset the pinmap; format: "config factoryformat"; connect: NetworkConnect
\* keeping one of the two credentials.
Plan(call) ==
  CASE call \in {"set", "toggle"} -> <<"copy", "put">> \o Applying
    [] call = "level"   -> <<"copy", "put">> \o Applying \o Saving
    [] call = "post"    -> <<"copy", "put">> \o Saving \o Applying
    [] call = "pinmap"  -> <<"copy", "put">> \o Saving
    [] call = "connect" -> <<"copy", "put">>
    [] call = "save"    -> Saving
    [] call \in {"load", "boot"} -> Loading \o Applying
    [] call = "default" -> CmdDefault
    [] call = "format"  -> <<"close", "wipe", "defaults">> \o Saving \o Applying

Idle == [call |-> "none", todo |-> <<"idle">>, key |-> 1, val |-> Default[1],
         snap |-> Default, next |-> 1, dirty |-> FALSE, alone |-> FALSE]

At(t, stage) == Head(task[t].todo) = stage
InSave(t)    == At(t, "store") \/ At(t, "flush")
Rest(t)      == LET left == Tail(task[t].todo) IN
                IF left = <<>> THEN Idle ELSE [task[t] EXCEPT !.todo = left]
Advance(t)   == task' = [task EXCEPT ![t] = Rest(t)]
Return(t)    == task' = [task EXCEPT ![t] = Idle]
Fault        == faults < MaxFaults /\ faults' = faults + 1

\* The next key of the table, or the next stage after the last.
NextKey(r) == IF r.next < KeyCount THEN [r EXCEPT !.next = @ + 1]
                                   ELSE [r EXCEPT !.todo = Tail(@), !.next = 1]

\* History: t, now r, writes to the store while others are in a save.
Overlap(t, r) == [u \in Task |-> IF u = t THEN r ELSE [task[u] EXCEPT !.alone = FALSE]]

\* Every task waits for the boot to finish.
Booting == task[LoopTask].call = "boot"

Call(t) ==
  /\ At(t, "idle") /\ ~Booting /\ calls < MaxCalls
  /\ calls' = calls + 1
  /\ \E call \in Calls[t], k \in Key, v \in Value :
       /\ call \in {"pinmap", "connect"} => k \notin LiveKey
       /\ call = "level" => k \in LiveKey
       /\ call \notin {"set", "toggle", "level", "post", "pinmap", "connect"}
            => k = 1 /\ v = Default[1]
       /\ task' = [task EXCEPT ![t] =
            [Idle EXCEPT !.call = call, !.todo = Plan(call), !.key = k, !.val = v]]
  /\ UNCHANGED <<config, applied, open, store, offers, last, faults, crashes>>

-----------------------------------------------------------------------------
(* ConfigSetValueFromString, ConfigToggleBool, ConfigResetValue and        *)
(* ConfigResetToDefaults.                                                  *)

\* ConfigCopyCurrent.  A toggle finds its value in the copy.
Copy(t) ==
  /\ At(t, "copy")
  /\ \E v \in IF task[t].call = "toggle" THEN Value \ {config[task[t].key]}
                                         ELSE {task[t].val} :
       task' = [task EXCEPT ![t] = [Rest(t) EXCEPT !.snap = config, !.val = v]]
  /\ UNCHANGED <<config, applied, open, store, offers, last, bounds>>

\* ConfigCommitCurrent
Put(t) ==
  /\ At(t, "put")
  /\ config' = [task[t].snap EXCEPT ![task[t].key] = task[t].val]
  /\ last' = [last EXCEPT ![task[t].key] = task[t].val]
  /\ Advance(t)
  /\ UNCHANGED <<applied, open, store, offers, bounds>>

Defaults(t) ==
  /\ At(t, "defaults")
  /\ config' = Default
  /\ last' = Default
  /\ Advance(t)
  /\ UNCHANGED <<applied, open, store, offers, bounds>>

\* ConfigApply: a copy, then the log levels and the safeboot flag.
CopyToApply(t) ==
  /\ At(t, "apply")
  /\ task' = [task EXCEPT ![t] = [Rest(t) EXCEPT !.snap = config]]
  /\ UNCHANGED <<config, applied, open, store, offers, last, bounds>>

ConfigApply(t) ==
  /\ At(t, "push")
  /\ applied' = [k \in LiveKey |-> task[t].snap[k]]
  /\ Advance(t)
  /\ UNCHANGED <<config, open, store, offers, last, bounds>>

-----------------------------------------------------------------------------
(* ConfigSave.                                                             *)

\* The history notes whether the save has the store to itself.
SaveBegin(t) ==
  LET others == {u \in Task \ {t} : InSave(u)} IN
  /\ At(t, "snap")
  /\ task' = Overlap(t, [Rest(t) EXCEPT !.snap = config, !.next = 1,
                                         !.alone = (others = {})])
  /\ offers' = [k \in Key |-> offers[k] \cup {config[k]}]
  /\ UNCHANGED <<config, applied, open, store, last, bounds>>

\* A save that fails leaves the keys stored so far.  Only the web route goes
\* on, it does not look at the result.
SaveFails(t) ==
  IF task[t].call = "post"
  THEN task' = [task EXCEPT ![t].todo = Applying]
  ELSE Return(t)

StoreKey(t) ==
  LET n == task[t].next IN
  /\ At(t, "store")
  /\ \/ /\ open
        /\ nvs' = [nvs EXCEPT ![n] = Encode(n, task[t].snap[n])]
        /\ task' = [task EXCEPT ![t] = NextKey(@)]
        /\ UNCHANGED faults
     \/ open /\ Fault /\ SaveFails(t) /\ UNCHANGED nvs
     \/ ~open /\ SaveFails(t) /\ UNCHANGED <<nvs, faults>>
  /\ UNCHANGED <<config, applied, open, durable, offers, last, calls, crashes>>

Flush(t) ==
  /\ At(t, "flush")
  /\ \/ /\ open
        /\ durable' = nvs
        /\ offers' = IF task[t].alone THEN [k \in Key |-> {task[t].snap[k]}]
                                      ELSE offers
        /\ Advance(t)
        /\ UNCHANGED faults
     \/ open /\ Fault /\ SaveFails(t) /\ UNCHANGED <<durable, offers>>
     \/ ~open /\ SaveFails(t) /\ UNCHANGED <<durable, offers, faults>>
  /\ UNCHANGED <<config, applied, open, nvs, last, calls, crashes>>

-----------------------------------------------------------------------------
(* ConfigLoad and ConfigFactoryFormat.                                     *)

\* One key: the value stored, or the default when there is none, it is invalid
\* or the read fails.  An invalid one is erased, by a call of its own.
ReadKey(t) ==
  LET r == task[t]
      n == r.next
      Read(v) == [r EXCEPT !.snap[n] = v]
      Take(v) == task' = [task EXCEPT ![t] = NextKey(Read(v))]
  IN
  /\ At(t, "read")
  /\ \/ open /\ nvs[n] # Junk /\ Take(Decode(n, nvs[n])) /\ UNCHANGED faults
     \/ /\ open /\ nvs[n] = Junk
        /\ task' = [task EXCEPT ![t] =
             [Read(Decode(n, Junk)) EXCEPT !.todo = <<"erase">> \o @]]
        /\ UNCHANGED faults
     \/ open /\ Fault /\ Take(Default[n])
     \/ ~open /\ Take(Default[n]) /\ UNCHANGED faults
  /\ UNCHANGED <<config, applied, open, store, offers, last, calls, crashes>>

\* Whatever the entry is by now.
EraseKey(t) ==
  LET n == task[t].next
      Done(dirty) == NextKey([task[t] EXCEPT !.todo = Tail(@),
                                             !.dirty = @ \/ dirty])
  IN
  /\ At(t, "erase")
  /\ \/ /\ open
        /\ nvs' = [nvs EXCEPT ![n] = NoOverride]
        /\ offers' = [offers EXCEPT ![n] = @ \cup {Default[n]}]
        /\ task' = Overlap(t, Done(TRUE))
        /\ UNCHANGED faults
     \/ /\ open /\ Fault
        /\ task' = [task EXCEPT ![t] = Done(FALSE)]
        /\ UNCHANGED <<nvs, offers>>
     \/ /\ ~open
        /\ task' = [task EXCEPT ![t] = Done(FALSE)]
        /\ UNCHANGED <<nvs, offers, faults>>
  /\ UNCHANGED <<config, applied, open, durable, last, calls, crashes>>

\* The erased entries are committed; a failure is logged and ignored.
Repair(t) ==
  /\ At(t, "repair")
  /\ Advance(t)
  /\ \/ task[t].dirty /\ open /\ durable' = nvs /\ UNCHANGED faults
     \/ task[t].dirty /\ open /\ Fault /\ UNCHANGED durable
     \/ ~(task[t].dirty /\ open) /\ UNCHANGED <<durable, faults>>
  /\ UNCHANGED <<config, applied, open, nvs, offers, last, calls, crashes>>

Install(t) ==
  /\ At(t, "install")
  /\ config' = task[t].snap
  /\ last' = task[t].snap
  /\ Advance(t)
  /\ UNCHANGED <<applied, open, store, offers, bounds>>

Blank == [k \in Key |-> NoOverride]

\* HxNvsFormat closes the handle, erases the partition and opens it again.
CloseStore(t) ==
  /\ At(t, "close")
  /\ open' = FALSE
  /\ Advance(t)
  /\ UNCHANGED <<config, applied, store, offers, last, bounds>>

\* A failure leaves it closed, with the partition erased or not, and
\* g_config_ready set.
Wipe(t) ==
  /\ At(t, "wipe")
  /\ \/ /\ nvs' = Blank /\ durable' = Blank /\ open' = TRUE
        /\ task' = Overlap(t, Rest(t))
        /\ UNCHANGED faults
     \/ /\ Fault
        /\ UNCHANGED open
        /\ \/ nvs' = Blank /\ durable' = Blank
           \/ UNCHANGED store
        /\ task' = Overlap(t, Idle)
  /\ offers' = [k \in Key |-> offers[k] \cup {Default[k]}]
  /\ UNCHANGED <<config, applied, last, calls, crashes>>

\* A reset (the web routes of the pinmap ask for one) or a power loss: of the
\* entries written since the last commit any may have reached flash.
Crash ==
  /\ crashes < MaxCrashes
  /\ crashes' = crashes + 1
  /\ \E kept \in SUBSET Key :
       LET found == [k \in Key |-> IF k \in kept THEN nvs[k] ELSE durable[k]]
       IN nvs' = found /\ durable' = found
  /\ open' = TRUE
  /\ config' = Default /\ last' = Default
  /\ applied' = [k \in LiveKey |-> Default[k]]
  /\ task' = [t \in Task |-> IF t = LoopTask
                             THEN [Idle EXCEPT !.call = "boot", !.todo = Plan("boot")]
                             ELSE Idle]
  /\ UNCHANGED <<offers, calls, faults>>

-----------------------------------------------------------------------------

\* The system boots with whatever an earlier firmware has stored.
Init ==
  /\ config = Default /\ last = Default
  /\ applied = [k \in LiveKey |-> Default[k]]
  /\ open = TRUE
  /\ nvs \in [Key -> Value \cup {NoOverride, Junk}]
  /\ durable = nvs
  /\ offers = [k \in Key |-> {Decode(k, nvs[k])}]
  /\ task = [t \in Task |-> IF t = LoopTask
                            THEN [Idle EXCEPT !.call = "boot", !.todo = Plan("boot")]
                            ELSE Idle]
  /\ calls = 0 /\ faults = 0 /\ crashes = 0

Step(t) ==
  \/ Copy(t) \/ Put(t) \/ Defaults(t) \/ CopyToApply(t) \/ ConfigApply(t)
  \/ SaveBegin(t) \/ StoreKey(t) \/ Flush(t)
  \/ ReadKey(t) \/ EraseKey(t) \/ Repair(t) \/ Install(t) \/ CloseStore(t) \/ Wipe(t)

Next == (\E t \in Task : Call(t) \/ Step(t)) \/ Crash

Spec == Init /\ [][Next]_vars

-----------------------------------------------------------------------------
(* Properties.                                                             *)

Stage == {"idle", "copy", "put", "apply", "push", "snap", "store", "flush",
          "read", "erase", "repair", "install", "defaults", "close", "wipe"}

Record == [call : CallName \cup {"none", "boot"}, todo : Seq(Stage), key : Key, val : Value,
           snap : [Key -> Value], next : Key, dirty : BOOLEAN, alone : BOOLEAN]

\* Every variable has its type: in particular the configuration in RAM and
\* every copy of it are valid, whatever NVS holds or returns.
TypeOK ==
  /\ config \in [Key -> Value] /\ last \in [Key -> Value]
  /\ applied \in [LiveKey -> Value]
  /\ open \in BOOLEAN
  /\ nvs \in [Key -> Value \cup {NoOverride, Junk}]
  /\ durable \in [Key -> Value \cup {NoOverride, Junk}]
  /\ task \in [Task -> Record] /\ \A t \in Task : task[t].todo # <<>>
  /\ offers \in [Key -> SUBSET Value]
  /\ calls \in Nat /\ faults \in Nat /\ crashes \in Nat

\* What a reboot would load for a key is the value it had in the last save
\* that returned true, or one it had in a save that has begun since, failed,
\* was cut off by a reset or overlapped another, or the default if the entry
\* was erased since as invalid or by a format: a save that succeeds with the
\* store to itself leaves nothing of what was stored before.
RebootFindsSaved ==
  TypeOK /\ \A k \in Key : Decode(k, nvs[k]) \in offers[k] /\ Decode(k, durable[k]) \in offers[k]

\* With no call under way the log levels and the safeboot flag in use are the
\* configured ones, with one task changing the configuration and no failed
\* NVS access: a format whose save fails leaves the defaults set, not applied.
AppliedIsConfigured ==
  faults = 0 /\ (\A t \in Task : At(t, "idle")) => \A k \in LiveKey : applied[k] = config[k]

\* docs/Config_State_Schema.md: "setcfg updates HxConfigData in RAM".  With no
\* call under way every key has the value that the last call for it gave it.
SetsAreKept == (\A t \in Task : At(t, "idle")) => config = last
=============================================================================
