------------------------------ MODULE HexaState ------------------------------
(***************************************************************************)
(* The persistent state service of HexaOS (src/src/system/core/state.cpp): *)
(* the registry of runtime keys, the buffer of staged writes, the delayed  *)
(* commit window and the NVS store behind them.                            *)
(*                                                                         *)
(* The service has three spinlocks (registry, pending, commit window) and  *)
(* no lock spans a call, so an API call is a sequence of steps, one per    *)
(* critical section or NVS access.  Several FreeRTOS tasks make calls: the *)
(* Arduino loop task (StateLoop, the serial console) and the AsyncTCP task *)
(* (the WebSocket console, which runs the same commands).                  *)
(*                                                                         *)
(* Abstractions.  All runtime keys are int32 keys with one range; a        *)
(* logical key and its hashed storage key are one thing; the two static    *)
(* keys, which users may not write, are left out.  What a storage key      *)
(* holds is a set: {} when it is absent, {v} for a value, and the          *)
(* registered keys for the catalog, so that staging {} is the ERASE kind,  *)
(* which is what the code stages for an empty catalog too.                 *)
(***************************************************************************)
EXTENDS Integers, FiniteSets

CONSTANTS
  Task,         \* the tasks that call the state API
  LoopTask,     \* the one that also runs StateLoop
  RuntimeKey,   \* keys that can be created at run time
  CatalogKey,   \* "CATALOG_STATE", the storage key of the runtime catalog
  NoKey,        \* the key of an unused slot
  MinValue,     \* range of a runtime key: def.min_i32 ..
  MaxValue,     \*                         .. def.max_i32
  PendingMax,   \* HX_STATE_PENDING_MAX
  RuntimeMax,   \* HX_STATE_RUNTIME_MAX
  Delays,       \* values of states.delay: 0 commits at once, others later
  Calls,        \* Calls[t]: the API calls task t makes
  MaxSeq,       \* bound: no call starts once MaxSeq writes were staged
  MaxFaults,    \* bound: NVS accesses and allocations that fail
  MaxCrashes    \* bound: resets and power losses

CallName == {"set", "inc", "dec", "erase", "create", "delete", "format", "loop"}

ASSUME KeyAssumption ==
  /\ CatalogKey \notin RuntimeKey
  /\ NoKey \notin RuntimeKey \cup {CatalogKey}
ASSUME TaskAssumption ==
  /\ LoopTask \in Task
  /\ Calls \in [Task -> SUBSET CallName]
ASSUME NumberAssumption ==
  /\ MinValue \in Int /\ MaxValue \in Int /\ MinValue <= MaxValue
  /\ PendingMax \in Nat /\ RuntimeMax \in Nat
  /\ Delays \subseteq Nat /\ Delays # {}
  /\ MaxSeq \in Nat /\ MaxFaults \in Nat /\ MaxCrashes \in Nat

Value      == MinValue .. MaxValue
StorageKey == RuntimeKey \cup {CatalogKey}
Slot       == 1 .. PendingMax

VARIABLES
  ready,       \* g_state_ready: the NVS handle is open
  registry,    \* g_runtime_states: the registered runtime keys
  pending,     \* g_state_pending: the slots of staged writes
  pendingSeq,  \* g_state_pending_seq: number of the last staged write
  delay,       \* HxConfigData.states_delay, which users change at run time
  window,      \* commit window: idle, armed, or due (its deadline passed)
  nvs,         \* what an NVS read returns
  durable,     \* what is certain to survive a power loss
  task,        \* where each task stands in its call
  latest,      \* history: the last write staged for each key
  faults,      \* history: failures so far
  crashes      \* history: resets so far

buffer == <<pending, pendingSeq>>
store  == <<nvs, durable>>
env    == <<delay, faults, crashes>>
vars   == <<ready, registry, buffer, window, store, task, latest, env>>

(***************************************************************************)
(* Data.  seq is kept in nvs entries as well: there it is a history tag,   *)
(* the number of the write the entry came from.                            *)
(***************************************************************************)
FreeSlot    == [key |-> NoKey, content |-> {}, seq |-> 0]
EmptyBuffer == [i \in Slot |-> FreeSlot]
NoEntry     == [content |-> {}, seq |-> 0]
Blank       == [k \in StorageKey |-> NoEntry]

Idle == [pc |-> "idle", op |-> "none", key |-> NoKey, val |-> {},
         cont |-> "idle", snap |-> EmptyBuffer, todo |-> {}]

\* i is the slot that a first-match scan for key k stops at.
IsFirst(i, k) == pending[i].key = k /\ \A j \in 1 .. i - 1 : pending[j].key # k

Staged(k)     == \E i \in Slot : pending[i].key = k
StagedSlot(k) == CHOOSE i \in Slot : IsFirst(i, k)
Used(buf)     == {i \in Slot : buf[i].key # NoKey}

\* The entry a read of k sees: the staged write hides the stored value.
Visible(k) ==
  IF Staged(k) THEN [content |-> pending[StagedSlot(k)].content,
                     seq     |-> pending[StagedSlot(k)].seq]
               ELSE nvs[k]

\* Mistake: a stage always takes a free slot.
StageTargetFresh(k) == NoKey

\* StateStagePending*Value: the slot of the key if it has one, else the first
\* free slot, takes the content and a new sequence number.
StageTarget(k) == IF Staged(k) THEN k ELSE NoKey
CanStage(k)    == \E i \in Slot : IsFirst(i, StageTarget(k))
\* Mistake: the count does not advance when a slot is reused.
StageSameNumber(k, c) ==
  \E i \in Slot :
    LET seq == IF Staged(k) THEN pending[i].seq ELSE pendingSeq + 1 IN
    /\ IsFirst(i, StageTarget(k))
    /\ pendingSeq' = pendingSeq + 1
    /\ pending' = [pending EXCEPT ![i] = [key |-> k, content |-> c, seq |-> seq]]

Stage(k, c) ==
  \E i \in Slot :
    /\ IsFirst(i, StageTarget(k))
    /\ pendingSeq' = pendingSeq + 1
    /\ pending' = [pending EXCEPT ![i] =
                     [key |-> k, content |-> c, seq |-> pendingSeq + 1]]

\* StateDiscardPendingValue
Discard(k) ==
  /\ pending' = [i \in Slot |-> IF IsFirst(i, k) THEN FreeSlot ELSE pending[i]]
  /\ UNCHANGED pendingSeq

\* Mistake: a write does not open the commit window.
ArmNothing == UNCHANGED window

\* StateArmCommitWindow, which never moves the deadline of an armed window.
Arm == window' = IF window = "idle" THEN "armed" ELSE window

(***************************************************************************)
(* Control.                                                                *)
(***************************************************************************)
At(t, label)   == task[t].pc = label
Goto(t, label) == task' = [task EXCEPT ![t].pc = label]
Return(t)      == task' = [task EXCEPT ![t] = Idle]

Begin(t, call, k, c, label) ==
  /\ At(t, "idle")
  /\ call \in Calls[t]
  /\ pendingSeq < MaxSeq
  /\ task' = [task EXCEPT ![t] = [Idle EXCEPT !.pc = label, !.op = call,
                                             !.key = k, !.val = c]]
  /\ UNCHANGED <<ready, registry, buffer, window, store, latest, env>>

\* Enter StateCommit and continue at label if it returns true.
CallCommit(t, label) == task' = [task EXCEPT ![t].pc = "clone", ![t].cont = label]

\* The call fails; a create that fails after registering deletes the key again.
Fail(t) ==
  task' = [task EXCEPT ![t] =
             IF @.op = "create"
             THEN [Idle EXCEPT !.pc = "delete", !.op = "delete", !.key = task[t].key]
             ELSE Idle]

\* StateWriteRuntimeCatalog returned false.
CatalogFailed(t) ==
  Goto(t, IF task[t].op = "create" THEN "rollback" ELSE "discard")

\* StateCommit returned false, at each of its call sites.
CommitFailed(t) ==
  LET r == task[t] IN
  \/ /\ r.op = "create" /\ r.cont = "lookup"
     /\ task' = [task EXCEPT ![t] = [r EXCEPT !.pc = "uncat",
                                       !.snap = EmptyBuffer, !.todo = {}]]
  \/ /\ r.op = "delete" /\ r.cont = "remove"
     /\ task' = [task EXCEPT ![t] = [r EXCEPT !.pc = "discard",
                                       !.snap = EmptyBuffer, !.todo = {}]]
  \/ /\ <<r.op, r.cont>> \notin {<<"create", "lookup">>, <<"delete", "remove">>}
     /\ Fail(t)

\* StateCommit returned true.  "again" is the second commit that StateCreate
\* asks for after a write that has committed by itself.
CommitDone(t) ==
  LET r == [task[t] EXCEPT !.snap = EmptyBuffer, !.todo = {}] IN
  task' = [task EXCEPT ![t] =
             CASE r.cont = "idle"  -> Idle
               [] r.cont = "again" -> [r EXCEPT !.pc = "clone", !.cont = "idle"]
               [] OTHER            -> [r EXCEPT !.pc = r.cont]]

(***************************************************************************)
(* Writes: StateSetIntEx, StateEraseEx, StateIncrementInt and              *)
(* StateDecrementInt.                                                      *)
(***************************************************************************)
Tried == MinValue - 1 .. MaxValue + 1  \* values callers pass, two out of range

Set(t, k, v) == Begin(t, "set", k, {v}, "resolve")

Erase(t, k) ==
  /\ ready /\ k \in registry
  /\ Begin(t, "erase", k, {}, "stage")

Increment(t, k) == k \in registry /\ Begin(t, "inc", k, {}, "lookup")
Decrement(t, k) == k \in registry /\ Begin(t, "dec", k, {}, "lookup")

\* What the caller of StateReadInt does with the value read, {} if there is none
\* or, as StateReadInt has it, none in range.
Current(c) == IF c = {} THEN 0 ELSE CHOOSE v \in c : TRUE
Initial    == IF 0 < MinValue THEN MinValue ELSE IF 0 > MaxValue THEN MaxValue ELSE 0
Resolved(t, c) == task' = [task EXCEPT ![t].pc = "resolve", ![t].val = c]
UseValue(t, c) ==
  \/ task[t].op = "create" /\ c # {} /\ Return(t)
  \/ task[t].op = "create" /\ c = {} /\ Resolved(t, {Initial})
  \/ task[t].op = "inc" /\ Current(c) >= MaxValue /\ Return(t)
  \/ task[t].op = "inc" /\ Current(c) <  MaxValue /\ Resolved(t, {Current(c) + 1})
  \/ task[t].op = "dec" /\ Current(c) <= MinValue /\ Return(t)
  \/ task[t].op = "dec" /\ Current(c) >  MinValue /\ Resolved(t, {Current(c) - 1})

\* StateReadInt up to the pending buffer: a staged write answers the read.
Lookup(t) ==
  LET k == task[t].key IN
  /\ At(t, "lookup")
  /\ \/ (~ready \/ k \notin registry) /\ UseValue(t, {})
     \/ ready /\ k \in registry /\ Staged(k) /\ UseValue(t, Visible(k).content \cap Value)
     \/ ready /\ k \in registry /\ ~Staged(k) /\ Goto(t, "nvsread")
  /\ UNCHANGED <<ready, registry, buffer, window, store, latest, env>>

\* ... and its fallback to NVS.
ReadNvs(t) ==
  /\ At(t, "nvsread")
  /\ UseValue(t, IF ready THEN nvs[task[t].key].content \cap Value ELSE {})
  /\ UNCHANGED <<ready, registry, buffer, window, store, latest, env>>

\* Mistake: no range check.
ResolveUnranged(t) ==
  /\ At(t, "resolve")
  /\ IF ready /\ task[t].key \in registry THEN Goto(t, "stage") ELSE Fail(t)
  /\ UNCHANGED <<ready, registry, buffer, window, store, latest, env>>

\* StateSetIntEx looks the key up (again) and checks the range.
Resolve(t) ==
  /\ At(t, "resolve")
  /\ IF ready /\ task[t].key \in registry /\ task[t].val \subseteq Value
     THEN Goto(t, "stage")
     ELSE Fail(t)
  /\ UNCHANGED <<ready, registry, buffer, window, store, latest, env>>

StageValue(t) ==
  LET k == task[t].key IN
  /\ At(t, "stage")
  /\ \/ /\ CanStage(k)
        /\ Stage(k, task[t].val)
        /\ latest' = [latest EXCEPT ![k] = [content |-> task[t].val,
                                            seq |-> pendingSeq + 1]]
        /\ IF task[t].op = "erase" THEN CallCommit(t, "idle") ELSE Goto(t, "schedule")
     \/ /\ ~CanStage(k)
        /\ Fail(t)
        /\ UNCHANGED <<buffer, latest>>
  /\ UNCHANGED <<ready, registry, window, store, env>>

\* Mistake: the task that writes also commits, delay or not.
ScheduleAtOnce(t) ==
  /\ At(t, "schedule")
  /\ CallCommit(t, "idle")
  /\ UNCHANGED <<ready, registry, buffer, window, store, latest, env>>

\* StateScheduleValueCommit; StateCreate commits its initial value in any case.
Schedule(t) ==
  /\ At(t, "schedule")
  /\ \/ ~ready /\ Fail(t) /\ UNCHANGED window
     \/ /\ ready /\ delay = 0
        /\ CallCommit(t, IF task[t].op = "create" THEN "again" ELSE "idle")
        /\ UNCHANGED window
     \/ /\ ready /\ delay > 0
        /\ Arm
        /\ IF task[t].op = "create" THEN CallCommit(t, "idle") ELSE Return(t)
  /\ UNCHANGED <<ready, registry, buffer, store, latest, env>>

(***************************************************************************)
(* StateCommit: snapshot the buffer, apply it to NVS in slot order, flush, *)
(* clear the slots whose sequence number is still the snapshot's.          *)
(***************************************************************************)
Clone(t) ==
  /\ At(t, "clone")
  /\ \/ ~ready /\ CommitFailed(t)
     \/ /\ ready
        /\ task' = [task EXCEPT ![t].pc   = IF Used(pending) = {} THEN "reset" ELSE "apply",
                                ![t].snap = pending,
                                ![t].todo = Used(pending)]
  /\ UNCHANGED <<ready, registry, buffer, window, store, latest, env>>

Apply(t) ==
  /\ At(t, "apply")
  /\ \/ ~ready /\ CommitFailed(t) /\ UNCHANGED nvs
     \/ /\ ready
        /\ \E i \in task[t].todo :
             /\ \A j \in task[t].todo : i <= j
             /\ nvs' = [nvs EXCEPT ![task[t].snap[i].key] =
                          [content |-> task[t].snap[i].content,
                           seq     |-> task[t].snap[i].seq]]
             /\ task' = [task EXCEPT ![t].todo = @ \ {i},
                                     ![t].pc = IF task[t].todo = {i} THEN "flush"
                                               ELSE "apply"]
  /\ UNCHANGED <<ready, registry, buffer, window, durable, latest, env>>

\* Mistake: HxNvsCommit is not called.
FlushSkipped(t) ==
  /\ At(t, "flush")
  /\ Goto(t, "clear")
  /\ UNCHANGED <<ready, registry, buffer, window, store, latest, env>>

Flush(t) ==
  /\ At(t, "flush")
  /\ \/ ~ready /\ CommitFailed(t) /\ UNCHANGED durable
     \/ ready /\ durable' = nvs /\ Goto(t, "clear")
  /\ UNCHANGED <<ready, registry, buffer, window, nvs, latest, env>>

\* Mistake: the window is closed although the commit failed.
StoreFaultForgets(t) ==
  /\ faults < MaxFaults
  /\ task[t].pc \in {"clone", "apply", "flush"}
  /\ CommitFailed(t)
  /\ faults' = faults + 1
  /\ window' = "idle"
  /\ UNCHANGED <<ready, registry, buffer, store, latest, delay, crashes>>

\* The snapshot cannot be allocated, or NVS refuses a write or the flush.
StoreFault(t) ==
  /\ faults < MaxFaults
  /\ task[t].pc \in {"clone", "apply", "flush"}
  /\ CommitFailed(t)
  /\ faults' = faults + 1
  /\ UNCHANGED <<ready, registry, buffer, window, store, latest, delay, crashes>>

\* Mistake: the sequence number is not compared.
CommittedByKey(t, p) == \E i \in Slot : task[t].snap[i].key = p.key

\* StateClearCommittedPendingItems
Committed(t, p) ==
  \E i \in Slot : task[t].snap[i].key = p.key /\ task[t].snap[i].seq = p.seq
Clear(t) ==
  /\ At(t, "clear")
  /\ pending' = [i \in Slot |-> IF Committed(t, pending[i]) THEN FreeSlot ELSE pending[i]]
  /\ Goto(t, "count")
  /\ UNCHANGED <<ready, registry, pendingSeq, window, store, latest, env>>

CountRemaining(t) ==
  /\ At(t, "count")
  /\ Goto(t, IF Used(pending) = {} THEN "reset" ELSE "rearm")
  /\ UNCHANGED <<ready, registry, buffer, window, store, latest, env>>

ResetWindow(t) ==
  /\ At(t, "reset")
  /\ window' = "idle"
  /\ CommitDone(t)
  /\ UNCHANGED <<ready, registry, buffer, store, latest, env>>

RearmWindow(t) ==
  /\ At(t, "rearm")
  /\ window' = "armed"
  /\ CommitDone(t)
  /\ UNCHANGED <<ready, registry, buffer, store, latest, env>>

\* StateLoop finds the deadline passed.
LoopDue(t) ==
  /\ t = LoopTask /\ At(t, "idle") /\ "loop" \in Calls[t]
  /\ ready /\ window = "due"
  /\ task' = [task EXCEPT ![t] = [Idle EXCEPT !.pc = "clone", !.op = "loop"]]
  /\ UNCHANGED <<ready, registry, buffer, window, store, latest, env>>

TimePasses ==
  /\ window = "armed"
  /\ window' = "due"
  /\ UNCHANGED <<ready, registry, buffer, store, task, latest, env>>

\* StateGetCommitDelayMs reads the configuration at every use.
ChangeDelay ==
  /\ \E d \in Delays \ {delay} : delay' = d
  /\ UNCHANGED <<ready, registry, buffer, window, store, task, latest, faults, crashes>>

(***************************************************************************)
(* StateCreate, StateDelete and the persistent catalog.                    *)
(***************************************************************************)
Create(t, k) == k \notin registry /\ Begin(t, "create", k, {}, "insert")

\* StateInsertRuntimeDef: checked again under the lock.
Insert(t) ==
  LET k == task[t].key IN
  /\ At(t, "insert")
  /\ \/ /\ k \in registry \/ Cardinality(registry) >= RuntimeMax
        /\ Return(t)
        /\ UNCHANGED registry
     \/ /\ k \notin registry /\ Cardinality(registry) < RuntimeMax
        /\ registry' = registry \cup {k}
        /\ Goto(t, "catalog")
  /\ UNCHANGED <<ready, buffer, window, store, latest, env>>

\* Mistake: a delete writes the catalog with its key.
BuildCatalogWhole(t) ==
  /\ At(t, "catalog")
  /\ task' = [task EXCEPT ![t].pc = "stagecat", ![t].val = registry]
  /\ UNCHANGED <<ready, registry, buffer, window, store, latest, env>>

\* StateBuildRuntimeCatalog; a delete leaves its key out.  The code locks once
\* for every slot of the registry, this step reads them all at one time.
BuildCatalog(t) ==
  LET gone == IF task[t].op = "delete" THEN {task[t].key} ELSE {} IN
  /\ At(t, "catalog")
  /\ \/ ~ready /\ CatalogFailed(t)
     \/ ready /\ task' = [task EXCEPT ![t].pc = "stagecat", ![t].val = registry \ gone]
  /\ UNCHANGED <<ready, registry, buffer, window, store, latest, env>>

StageCatalog(t) ==
  /\ At(t, "stagecat")
  /\ \/ /\ CanStage(CatalogKey)
        /\ Stage(CatalogKey, task[t].val)
        /\ CallCommit(t, IF task[t].op = "create" THEN "lookup" ELSE "remove")
     \/ ~CanStage(CatalogKey) /\ CatalogFailed(t) /\ UNCHANGED buffer
  /\ UNCHANGED <<ready, registry, window, store, latest, env>>

\* A registration whose catalog was not committed is taken back.
Rollback(t) ==
  /\ At(t, "rollback")
  /\ registry' = registry \ {task[t].key}
  /\ Return(t)
  /\ UNCHANGED <<ready, buffer, window, store, latest, env>>

Delete(t, k) == ready /\ k \in registry /\ Begin(t, "delete", k, {}, "delete")

\* Writes already staged for the key or the catalog are committed first.
FlushBeforeDelete(t) ==
  LET k == task[t].key IN
  /\ At(t, "delete")
  /\ \/ (~ready \/ k \notin registry) /\ Return(t)
     \/ /\ ready /\ k \in registry
        /\ IF Staged(k) \/ Staged(CatalogKey) THEN CallCommit(t, "erase")
                                              ELSE Goto(t, "erase")
  /\ UNCHANGED <<ready, registry, buffer, window, store, latest, env>>

StageErase(t) ==
  /\ At(t, "erase")
  /\ \/ CanStage(task[t].key) /\ Stage(task[t].key, {}) /\ Goto(t, "catalog")
     \/ ~CanStage(task[t].key) /\ Return(t) /\ UNCHANGED buffer
  /\ UNCHANGED <<ready, registry, window, store, latest, env>>

Remove(t) ==
  LET k == task[t].key IN
  /\ At(t, "remove")
  /\ registry' = registry \ {k}
  /\ latest' = [latest EXCEPT ![k] = Visible(k)]
  /\ Return(t)
  /\ UNCHANGED <<ready, buffer, window, store, env>>

\* A delete that fails leaves the key registered with what NVS holds by then,
\* the erased value if the erase had been applied; latest follows it.
DiscardValue(t) ==
  /\ At(t, "discard")
  /\ Discard(task[t].key)
  /\ latest' = [latest EXCEPT ![task[t].key] = nvs[task[t].key]]
  /\ Goto(t, "uncat")
  /\ UNCHANGED <<ready, registry, window, store, env>>

DiscardCatalog(t) ==
  /\ At(t, "uncat")
  /\ Discard(CatalogKey)
  /\ IF task[t].op = "create" THEN Goto(t, "rollback") ELSE Return(t)
  /\ UNCHANGED <<ready, registry, window, store, latest, env>>

(***************************************************************************)
(* StateFormat, and a reset or power loss followed by StateInit.           *)
(***************************************************************************)
Format(t) == ready /\ Begin(t, "format", NoKey, {}, "format")

FormatBuffer(t) ==
  /\ At(t, "format")
  /\ pending' = EmptyBuffer
  /\ pendingSeq' = 0
  /\ latest' = nvs
  /\ Goto(t, "fmtreg")
  /\ UNCHANGED <<ready, registry, window, store, env>>

FormatRegistry(t) ==
  /\ At(t, "fmtreg")
  /\ registry' = {}
  /\ Goto(t, "fmtwin")
  /\ UNCHANGED <<ready, buffer, window, store, latest, env>>

FormatWindow(t) ==
  /\ At(t, "fmtwin")
  /\ window' = "idle"
  /\ ready' = FALSE
  /\ Goto(t, "fmtnvs")
  /\ UNCHANGED <<registry, buffer, store, latest, env>>

\* HxNvsFormat; a failure leaves the service not ready until the next boot,
\* with the partition erased or not.
FormatStore(t) ==
  /\ At(t, "fmtnvs")
  /\ Return(t)
  /\ \/ /\ nvs' = Blank /\ durable' = Blank /\ latest' = Blank
        /\ ready' = TRUE
        /\ UNCHANGED faults
     \/ /\ faults < MaxFaults /\ faults' = faults + 1
        /\ \/ nvs' = Blank /\ durable' = Blank /\ latest' = Blank
           \/ UNCHANGED <<store, latest>>
        /\ UNCHANGED ready
  /\ UNCHANGED <<registry, buffer, window, delay, crashes>>

\* Of the entries written since the last flush, any may have reached flash.
\* StateInit registers the keys of the catalog it finds there.
Crash ==
  /\ crashes < MaxCrashes
  /\ crashes' = crashes + 1
  /\ \E kept \in SUBSET StorageKey :
       LET found == [k \in StorageKey |->
                       [content |-> IF k \in kept THEN nvs[k].content
                                                  ELSE durable[k].content,
                        seq |-> 0]]
       IN /\ nvs' = found /\ durable' = found /\ latest' = found
          /\ registry' = found[CatalogKey].content
  /\ ready' = TRUE
  /\ pending' = EmptyBuffer /\ pendingSeq' = 0
  /\ window' = "idle"
  /\ task' = [t \in Task |-> Idle]
  /\ UNCHANGED <<delay, faults>>

(***************************************************************************)
(* Specification.                                                          *)
(***************************************************************************)
Init ==
  /\ ready = TRUE /\ registry = {}
  /\ pending = EmptyBuffer /\ pendingSeq = 0 /\ window = "idle"
  /\ nvs = Blank /\ durable = Blank /\ latest = Blank
  /\ task = [t \in Task |-> Idle]
  /\ delay \in Delays /\ faults = 0 /\ crashes = 0

\* A new call by task t.
Call(t) ==
  \E k \in RuntimeKey :
    \/ \E v \in Tried : Set(t, k, v)
    \/ Erase(t, k)
    \/ Increment(t, k)
    \/ Decrement(t, k)
    \/ Create(t, k)
    \/ Delete(t, k)

CommitStep(t) ==
  \/ Clone(t) \/ Apply(t) \/ Flush(t) \/ Clear(t)
  \/ CountRemaining(t) \/ ResetWindow(t) \/ RearmWindow(t)

WriteStep(t) == Lookup(t) \/ ReadNvs(t) \/ Resolve(t) \/ StageValue(t) \/ Schedule(t)

CatalogStep(t) ==
  \/ Insert(t) \/ BuildCatalog(t) \/ StageCatalog(t) \/ Rollback(t)
  \/ FlushBeforeDelete(t) \/ StageErase(t) \/ Remove(t)
  \/ DiscardValue(t) \/ DiscardCatalog(t)

FormatStep(t) == FormatBuffer(t) \/ FormatRegistry(t) \/ FormatWindow(t) \/ FormatStore(t)

\* The next step of a call in progress.
Step(t) == CommitStep(t) \/ WriteStep(t) \/ CatalogStep(t) \/ FormatStep(t)

AtRest == \A t \in Task : At(t, "idle")

\* Nothing left to do within the bounds.
Rest == AtRest /\ UNCHANGED vars

Next ==
  \/ \E t \in Task : Call(t) \/ Format(t) \/ LoopDue(t) \/ Step(t) \/ StoreFault(t)
  \/ TimePasses
  \/ ChangeDelay
  \/ Crash
  \/ Rest

Spec == Init /\ [][Next]_vars

\* The scheduling the code relies on: the tasks run, the loop task calls
\* StateLoop in every pass, whatever calls it makes in between (hence SF), and
\* millis() advances.
Fairness ==
  /\ \A t \in Task : WF_vars(Step(t)) /\ SF_vars(LoopDue(t))
  /\ WF_vars(TimePasses)

FairSpec == Spec /\ Fairness

(***************************************************************************)
(* Properties.                                                             *)
(***************************************************************************)
Pc == {"idle", "lookup", "nvsread", "resolve", "stage", "schedule",
       "clone", "apply", "flush", "clear", "count", "reset", "rearm",
       "insert", "catalog", "stagecat", "rollback", "delete", "erase",
       "remove", "discard", "uncat", "format", "fmtreg", "fmtwin", "fmtnvs"}

\* What a storage key may hold: the catalog, or nothing or one value in range.
ContentOf(k) == IF k = CatalogKey THEN SUBSET RuntimeKey
                                  ELSE {{}} \cup {{v} : v \in Value}
KeyOp        == {"set", "inc", "dec", "erase", "create", "delete"}
Content      == SUBSET (RuntimeKey \cup Int)
SlotRecord   == [key : StorageKey \cup {NoKey}, content : Content, seq : Nat]
Entry        == [content : Content, seq : Nat]
TaskRecord   == [pc : Pc, op : CallName \cup {"none"}, key : RuntimeKey \cup {NoKey},
                 val : Content, cont : {"idle", "again", "lookup", "erase", "remove"},
                 snap : [Slot -> SlotRecord], todo : SUBSET Slot]

GoodBuffer(buf) ==
  \A i \in Slot : buf[i] # FreeSlot =>
    buf[i].key \in StorageKey /\ buf[i].seq > 0 /\ buf[i].content \in ContentOf(buf[i].key)
GoodStore(map) == \A k \in StorageKey : map[k].content \in ContentOf(k)

\* Where a call can be, by the operation, and what it holds there.
CallOK(r) ==
  /\ r.op \in KeyOp => r.key \in RuntimeKey
  /\ r.pc \in {"lookup", "nvsread", "resolve", "stage", "schedule"}
       => r.op \in KeyOp \ {"delete"}
  /\ r.pc \in {"insert", "rollback"} \/ r.cont \in {"again", "lookup"} => r.op = "create"
  /\ r.pc \in {"delete", "erase", "remove", "discard"} \/ r.cont \in {"erase", "remove"}
       => r.op = "delete"
  /\ r.pc \in {"catalog", "stagecat", "uncat"} => r.op \in {"create", "delete"}
  /\ r.pc = "resolve"  => \E v \in r.val : r.val = {v}
  /\ r.pc = "stage"    => r.val \in ContentOf(r.key)
  /\ r.pc = "stagecat" => r.val \in ContentOf(CatalogKey)
  /\ \A i \in r.todo : r.snap[i].key # NoKey

DataOK ==
  /\ ready \in BOOLEAN
  /\ registry \in SUBSET RuntimeKey
  /\ pending \in [Slot -> SlotRecord] /\ GoodBuffer(pending)
  /\ pendingSeq \in Nat
  /\ window \in {"idle", "armed", "due"}
  /\ nvs \in [StorageKey -> Entry] /\ GoodStore(nvs)
  /\ durable \in [StorageKey -> Entry] /\ GoodStore(durable)
  /\ latest \in [StorageKey -> Entry]
  /\ delay \in Delays /\ faults \in Nat /\ crashes \in Nat

TaskOK(r) == r \in TaskRecord /\ GoodBuffer(r.snap) /\ CallOK(r)
TasksOK   == task \in [Task -> TaskRecord] /\ \A t \in Task : TaskOK(task[t])

\* Every variable has its type, and whatever is staged, in the hands of a
\* commit or stored is a value its key may hold: what StateSetIntEx lets
\* through is what StateReadInt accepts.
TypeOK == DataOK /\ TasksOK

\* No key ever has two slots, in the buffer or in a snapshot a commit works
\* from: a stage reuses the slot of its key, whatever other tasks staged,
\* cleared or discarded in between (first-match scans would otherwise read
\* one write and commit the other).
OneKey(buf) ==
  \A i, j \in Slot : buf[i].key = buf[j].key /\ buf[i].key # NoKey => i = j
OneSlotPerKey == OneKey(pending) /\ \A t \in Task : OneKey(task[t].snap)

\* A sequence number names one write: when a commit finds the number of its
\* snapshot in a slot again, the slot still holds the very write it applied.
\* StateClearCommittedPendingItems compares only key and number, so this is
\* what makes it safe while other tasks keep staging.
SeqNamesWrite ==
  \A t \in Task : \A i, j \in Slot :
    task[t].snap[i].seq = pending[j].seq /\ pending[j].key # NoKey
      => task[t].snap[i] = pending[j]

\* A commit frees a slot only when the write in it is what NVS holds, and
\* holds durably: no staged write disappears between the snapshot and the
\* clear, however many writes other tasks stage meanwhile (a reset, which
\* empties the buffer, excepted).
ClearsOnlyDurable ==
  [][\A t \in Task : At(t, "clear") /\ ~At(t, "clear")' /\ crashes' = crashes =>
       \A i \in Slot : pending[i].key # NoKey /\ pending'[i] = FreeSlot =>
         durable[pending[i].key] = [content |-> pending[i].content,
                                    seq |-> pending[i].seq]]_vars

\* NVS moves forward along the writes of a key: an entry is never replaced by
\* an older write of the same key (resets, which renumber, excepted).
NvsNeverGoesBack ==
  [][crashes' = crashes => \A k \in StorageKey : nvs'[k].seq >= nvs[k].seq]_vars

\* A read of a registered key sees the last write staged for it, before,
\* during and after the commits that carry it to NVS and the calls that fail.
Deleting(k) == \E t \in Task : task[t].op = "delete" /\ task[t].key = k
ReadsLatestWrite ==
  \A k \in registry : ~Deleting(k) => Visible(k) = latest[k]

\* At rest the catalog in NVS lists exactly the registered keys, so that a
\* key created is there after a reboot and a deleted one is not.
RegistryPersisted ==
  AtRest /\ ready =>
    /\ registry = nvs[CatalogKey].content
    /\ registry = durable[CatalogKey].content

StagedIsScheduled == Used(pending) # {} => window # "idle"
StagedIsRegistered == \A i \in Used(pending) : pending[i].key \in registry
RoomToStage ==
  \A t \in Task :
    /\ At(t, "stage") \/ At(t, "erase") => CanStage(task[t].key)
    /\ At(t, "stagecat") => CanStage(CatalogKey)

\* The buffer, the registry and the window agree.  At rest a staged write has a
\* commit scheduled for it, and its key is registered (the catalog, which is
\* always committed at once, is not staged at all).  And a write always finds a
\* slot, so that staging never fails for want of one: HX_STATE_PENDING_MAX
\* covers the registered keys and the catalog.
BufferAgrees == RoomToStage /\ (AtRest => StagedIsScheduled /\ StagedIsRegistered)

\* When a commit is about to report success, nothing the store promised is
\* volatile any more (with no other task writing meanwhile).
CommitPersists ==
  (\E t \in Task : task[t].pc \in {"reset", "rearm"})
    => \A k \in registry : ~Deleting(k) => durable[k] = latest[k]

\* An increment adds one to the value that is current when it is staged.
IncrementAtomic ==
  [][\A t \in Task :
       At(t, "stage") /\ task[t].op = "inc" /\ At(t, "schedule")' =>
         LET k == task[t].key IN
         Current(Visible(k).content)' = Current(Visible(k).content) + 1]_vars

\* Every write reaches NVS durably, or a later write of its key does: delayed
\* commits are not forgotten, and one that NVS refused is tried again.
WritesReachNvs ==
  \A k \in RuntimeKey : (latest[k] # durable[k]) ~> (latest[k] = durable[k])
=============================================================================
