---------------------------- MODULE DevicesProofs ----------------------------
(***************************************************************************)
(* What holds of the device registries for every number of tasks, ports,   *)
(* devices and slots, as long as one task registers.                       *)
(***************************************************************************)
EXTENDS Devices, TLAPS

USE CallAssumption, BusAssumption, UserAssumption, ObjectAssumption, NumberAssumption

\* Drivers are registered by one task, whichever tasks release and use them.
OneRegistrar ==
  \A t, u \in Task : "register" \in Calls[t] /\ "register" \in Calls[u] => t = u

(***************************************************************************)
(* The inductive invariant.                                                *)
(***************************************************************************)
TaskRecord == [pc : Pc, device : [port : Port \cup {"none"}, addr : Addr \cup {"none"}],
               slot : Slot \cup {0}, object : Object \cup {NoObject}, fails : Nat, left : Nat]

TasksOK == task \in [Task -> TaskRecord]

Registers(t) == task[t].pc \in {"find", "add", "claim"}
Releases(t)  == task[t].pc \in {"remove", "release"}
Transacts(t) == task[t].pc \in {"transfer", "zero", "load", "store", "park"}

\* What a task may rely on at each place of its call.
RegisterOK(t) ==
  /\ Registers(t) => "register" \in Calls[t] /\ task[t].device \in Device
  /\ task[t].pc \in {"add", "claim"} =>
       /\ task[t].slot \in Slot /\ ~devices[task[t].slot].active
       /\ ~Registered(task[t].device)
ReleaseOK(t) ==
  Releases(t) =>
    /\ task[t].slot \in Slot /\ devices[task[t].slot].active
    /\ \A h \in held : h.slot # task[t].slot
    /\ \A u \in Task : u # t => task[u].slot # task[t].slot
TransactOK(t) ==
  Transacts(t) => \E h \in held : h.slot = task[t].slot /\ t \in Users[h.device.addr]
PlaceOK ==
  \A t \in Task : /\ RegisterOK(t) /\ ReleaseOK(t) /\ TransactOK(t)
                  /\ task[t].pc \in {"idle", "find", "enable"} => task[t].slot = 0

\* A slot has a driver object of its own from its claim until the object is
\* removed, one step before the slot is released.
Live(s) ==
  devices[s].active /\ \A t \in Task : ~(task[t].pc = "release" /\ task[t].slot = s)
Pending(o) == \E t \in Task : task[t].pc = "claim" /\ task[t].object = o

SlotsOK ==
  /\ \A s \in Slot : Live(s) =>
       devices[s].object \in Object /\ objects[devices[s].object] = devices[s].device
  /\ \A s \in Slot : devices[s].active => devices[s].device \in Device
  /\ \A r, s \in Slot :
       Live(r) /\ Live(s) /\ devices[r].object = devices[s].object => r = s
  /\ \A r, s \in Slot :
       devices[r].active /\ devices[s].active /\ devices[r].device = devices[s].device => r = s
ObjectsOK ==
  /\ \A o \in Object : objects[o] # NoDevice =>
       Pending(o) \/ \E s \in Slot : Live(s) /\ devices[s].object = o
  /\ \A t \in Task : task[t].pc = "claim" =>
       /\ task[t].object \in Object /\ objects[task[t].object] = task[t].device
       /\ \A s \in Slot : Live(s) => devices[s].object # task[t].object
HeldOK ==
  \A h \in held : devices[h.slot].active /\ devices[h.slot].device = h.device

Inv == TypeOK /\ TasksOK /\ PlaceOK /\ SlotsOK /\ ObjectsOK /\ HeldOK

\* Counted failures, for the device of handle h that only task t uses: the
\* counter stays within the failures counted since the last success, also while
\* t holds a copy of it, and only an available device can succeed.
CauseAt(h, t) ==
  LET s == h.slot IN
  /\ devices[s].fails <= units[s] \/ units[s] = Threshold
  /\ ~devices[s].available => units[s] = Threshold
  /\ task[t].slot = s /\ task[t].pc \in {"transfer", "zero"} => devices[s].available
  /\ task[t].slot = s /\ task[t].pc = "store" =>
       task[t].fails <= units[s] \/ units[s] = Threshold
CauseOK ==
  \A h \in held : \A t \in Task : Users[h.device.addr] = {t} => CauseAt(h, t)

(***************************************************************************)
(* Tasks.                                                                  *)
(***************************************************************************)
LEMMA NoDeviceIsNone == NoDevice \notin Device
BY DEF NoDevice, Device

LEMMA IdleType == Idle \in TaskRecord
BY DEF Idle, NoDevice, TaskRecord, Pc

LEMMA SetTask ==
  ASSUME TasksOK, NEW t \in Task, NEW r \in TaskRecord, task' = [task EXCEPT ![t] = r]
  PROVE  /\ TasksOK' /\ task'[t] = r
         /\ \A u \in Task : u # t => task'[u] = task[u]
BY DEF TasksOK

LEMMA Initially == Init => Inv
<1> SUFFICES ASSUME Init PROVE Inv
  OBVIOUS
<1>1. TasksOK /\ \A t \in Task : task[t] = Idle
  BY IdleType DEF Init, TasksOK
<1>2. TypeOK
  <2>1. FreeSlot \in SlotRecord
    BY DEF FreeSlot, SlotRecord
  <2>2. devices \in [Slot -> SlotRecord] /\ units \in [Slot -> 0 .. Threshold]
    BY <2>1 DEF Init
  <2>3. QED
    BY <1>1, <2>2 DEF Init, TypeOK, TasksOK, TaskRecord
<1>3. PlaceOK
  BY <1>1 DEF PlaceOK, RegisterOK, ReleaseOK, TransactOK, Registers, Releases, Transacts, Idle
<1>4. \A s \in Slot : ~devices[s].active
  BY DEF Init, FreeSlot
<1>5. SlotsOK
  BY <1>4 DEF SlotsOK, Live
<1>6. ObjectsOK
  BY <1>1 DEF Init, ObjectsOK, Idle
<1>7. HeldOK
  BY DEF Init, HeldOK
<1>8. QED
  BY <1>1, <1>2, <1>3, <1>5, <1>6, <1>7 DEF Inv

(***************************************************************************)
(* Steps that claim and release nothing.                                   *)
(***************************************************************************)
LEMMA Bookkeeping ==
  ASSUME Inv, NEW t \in Task, NEW r \in TaskRecord, task' = [task EXCEPT ![t] = r],
         UNCHANGED <<busReady, objects, dead, held>>,
         devices' \in [Slot -> SlotRecord],
         \A s \in Slot : /\ devices'[s].active = devices[s].active
                         /\ devices'[s].device = devices[s].device
                         /\ devices'[s].object = devices[s].object,
         units' \in [Slot -> 0 .. Threshold], resets' \in 0 .. MaxResets,
         task[t].pc \notin {"claim", "release"}, r.pc \notin {"claim", "release"},
         RegisterOK(t)', ReleaseOK(t)', TransactOK(t)',
         r.pc \in {"idle", "find", "enable"} => r.slot = 0,
         \A u \in Task : u # t /\ Releases(u) => r.slot # task[u].slot
  PROVE  Inv'
<1>1. /\ TasksOK' /\ task'[t] = r
      /\ \A u \in Task : u # t => task'[u] = task[u]
  BY SetTask DEF Inv
<1>2. TypeOK'
  BY <1>1 DEF Inv, TypeOK, TasksOK, TaskRecord
<1>3. \A d : Registered(d)' <=> Registered(d)
  BY DEF Registered
<1>4. PlaceOK'
  <2> SUFFICES ASSUME NEW u \in Task, u # t
               PROVE  /\ RegisterOK(u)' /\ ReleaseOK(u)' /\ TransactOK(u)'
                      /\ task'[u].pc \in {"idle", "find", "enable"} => task'[u].slot = 0
    BY <1>1 DEF PlaceOK
  <2>1. /\ RegisterOK(u) /\ ReleaseOK(u) /\ TransactOK(u)
        /\ task[u].pc \in {"idle", "find", "enable"} => task[u].slot = 0
    BY DEF Inv, PlaceOK
  <2>2. task'[u] = task[u]
    BY <1>1
  <2>3. RegisterOK(u)'
    BY <1>3, <2>1, <2>2 DEF RegisterOK, Registers
  <2>4. ReleaseOK(u)'
    BY <1>1, <2>1, <2>2 DEF ReleaseOK, Releases
  <2>5. TransactOK(u)'
    BY <2>1, <2>2 DEF TransactOK, Transacts
  <2>6. QED
    BY <2>1, <2>2, <2>3, <2>4, <2>5
<1>5. \A s \in Slot : Live(s)' <=> Live(s)
  BY <1>1 DEF Live
<1>6. \A o : Pending(o)' <=> Pending(o)
  BY <1>1 DEF Pending
<1>7. SlotsOK'
  BY <1>5 DEF Inv, SlotsOK
<1>8. ObjectsOK'
  BY <1>1, <1>5, <1>6 DEF Inv, ObjectsOK
<1>9. HeldOK'
  BY DEF Inv, HeldOK, TypeOK
<1>10. QED
  BY <1>1, <1>2, <1>4, <1>7, <1>8, <1>9 DEF Inv
LEMMA OnlyTask ==
  ASSUME Inv, NEW t \in Task, NEW r \in TaskRecord, task' = [task EXCEPT ![t] = r],
         UNCHANGED <<busReady, devices, objects, dead, held, units>>,
         resets' \in 0 .. MaxResets,
         task[t].pc \notin {"claim", "release"}, r.pc \notin {"claim", "release"},
         RegisterOK(t)', ReleaseOK(t)', TransactOK(t)',
         r.pc \in {"idle", "find", "enable"} => r.slot = 0,
         \A u \in Task : u # t /\ Releases(u) => r.slot # task[u].slot
  PROVE  Inv'
BY Bookkeeping DEF Inv, TypeOK

\* A slot that is being released is a claimed one.
LEMMA ReleasedIsActive ==
  ASSUME Inv, NEW u \in Task, Releases(u)
  PROVE  task[u].slot # 0 /\ devices[task[u].slot].active
BY DEF Inv, PlaceOK, ReleaseOK, Slot

\* A call ends that holds neither an object nor a slot.
LEMMA ReturnStep ==
  ASSUME Inv, NEW t \in Task, Return(t), task[t].pc \notin {"claim", "release"},
         UNCHANGED <<busReady, objects, dead, held>>,
         devices' \in [Slot -> SlotRecord],
         \A s \in Slot : /\ devices'[s].active = devices[s].active
                         /\ devices'[s].device = devices[s].device
                         /\ devices'[s].object = devices[s].object,
         units' \in [Slot -> 0 .. Threshold], resets' \in 0 .. MaxResets
  PROVE  Inv'
<1>1. task' = [task EXCEPT ![t] = Idle] /\ task'[t] = Idle
  BY IdleType, SetTask DEF Return, Inv
<1>2. Idle.pc = "idle" /\ Idle.slot = 0
  BY DEF Idle
<1>3. RegisterOK(t)' /\ ReleaseOK(t)' /\ TransactOK(t)'
  BY <1>1, <1>2 DEF RegisterOK, ReleaseOK, TransactOK, Registers, Releases, Transacts
<1>4. \A u \in Task : u # t /\ Releases(u) => Idle.slot # task[u].slot
  BY <1>2, ReleasedIsActive
<1>5. QED
  BY <1>1, <1>2, <1>3, <1>4, IdleType, Bookkeeping

LEMMA RegisterStep ==
  ASSUME Inv, NEW t \in Task, Register(t)
  PROVE  Inv'
<1>1. PICK d \in Device : task' = [task EXCEPT ![t] = [Idle EXCEPT !.pc = "find", !.device = d]]
  BY DEF Register
<1> DEFINE r == [Idle EXCEPT !.pc = "find", !.device = d]
<1>2. r \in TaskRecord /\ r.pc = "find" /\ r.slot = 0 /\ r.device = d
  BY IdleType DEF TaskRecord, Pc, Device, Idle
<1>3. task[t].pc = "idle" /\ "register" \in Calls[t] /\ task'[t] = r
  BY <1>1, <1>2, SetTask DEF Register, Enters, At, Inv
<1>4. RegisterOK(t)' /\ ReleaseOK(t)' /\ TransactOK(t)'
  BY <1>2, <1>3 DEF RegisterOK, ReleaseOK, TransactOK, Registers, Releases, Transacts
<1>5. task' = [task EXCEPT ![t] = r] /\ resets' \in 0 .. MaxResets
  BY <1>1 DEF Register, Inv, TypeOK
<1> HIDE DEF r
<1>6. \A u \in Task : Releases(u) => r.slot # task[u].slot
  BY <1>2, ReleasedIsActive
<1>7. QED
  BY <1>2, <1>3, <1>4, <1>5, <1>6, OnlyTask DEF Register

LEMMA FindSlotStep ==
  ASSUME Inv, NEW t \in Task, FindSlot(t)
  PROVE  Inv'
<1>1. task[t].pc = "find" /\ task[t].slot = 0 /\ task[t] \in TaskRecord
  BY DEF FindSlot, At, Inv, PlaceOK, TasksOK
<1>2. /\ UNCHANGED <<busReady, devices, objects, dead, held, units>>
      /\ resets' \in 0 .. MaxResets
  BY DEF FindSlot, Inv, TypeOK
<1>3. CASE Return(t)
  BY <1>1, <1>2, <1>3, ReturnStep DEF Inv, TypeOK
<1>4. CASE /\ ~Registered(task[t].device)
           /\ \E s \in Slot : /\ ~devices[s].active
                             /\ task' = [task EXCEPT ![t].pc = "add", ![t].slot = s]
  <2>1. PICK s \in Slot : ~devices[s].active
                           /\ task' = [task EXCEPT ![t].pc = "add", ![t].slot = s]
    BY <1>4
  <2> DEFINE r == [task[t] EXCEPT !.pc = "add", !.slot = s]
  <2>2. r \in TaskRecord /\ r.pc = "add" /\ r.slot = s /\ r.device = task[t].device
    BY <1>1 DEF TaskRecord, Pc
  <2>3. task' = [task EXCEPT ![t] = r]
    BY <2>1 DEF Inv, TasksOK
  <2>4. task'[t] = r
    BY <2>2, <2>3, SetTask DEF Inv
  <2>5. RegisterOK(t) /\ UNCHANGED devices
    BY DEF Inv, PlaceOK, FindSlot
  <2>6. RegisterOK(t)' /\ ReleaseOK(t)' /\ TransactOK(t)'
    BY <1>1, <1>4, <2>1, <2>2, <2>4, <2>5
    DEF RegisterOK, ReleaseOK, TransactOK, Registers, Releases, Transacts, Registered
  <2> HIDE DEF r
  <2>7. \A u \in Task : Releases(u) => r.slot # task[u].slot
    BY <2>1, <2>2, ReleasedIsActive
  <2>8. QED
    BY <1>1, <1>2, <2>2, <2>3, <2>6, <2>7, OnlyTask
<1>5. QED
  BY <1>3, <1>4 DEF FindSlot
(***************************************************************************)
(* Transactions and recovery.                                              *)
(***************************************************************************)
\* A step into or inside a transaction on a slot whose handle is held.
LEMMA TransactionStep ==
  ASSUME Inv, NEW t \in Task, NEW r \in TaskRecord, task' = [task EXCEPT ![t] = r],
         UNCHANGED <<busReady, objects, dead, held>>,
         devices' \in [Slot -> SlotRecord],
         \A s \in Slot : /\ devices'[s].active = devices[s].active
                         /\ devices'[s].device = devices[s].device
                         /\ devices'[s].object = devices[s].object,
         units' \in [Slot -> 0 .. Threshold], resets' \in 0 .. MaxResets,
         task[t].pc \notin {"claim", "release"},
         r.pc \in {"transfer", "zero", "load", "store", "park"},
         \E h \in held : h.slot = r.slot /\ t \in Users[h.device.addr]
  PROVE  Inv'
<1>1. task'[t] = r
  BY SetTask DEF Inv
<1>2. RegisterOK(t)' /\ ReleaseOK(t)' /\ TransactOK(t)'
  BY <1>1 DEF RegisterOK, ReleaseOK, TransactOK, Registers, Releases, Transacts
<1>3. \A u \in Task : u # t /\ Releases(u) => r.slot # task[u].slot
  BY DEF Inv, PlaceOK, ReleaseOK
<1>4. QED
  BY <1>2, <1>3, Bookkeeping

\* A task in a transaction has a slot with a held handle.
LEMMA TransactionHandle ==
  ASSUME Inv, NEW t \in Task, Transacts(t)
  PROVE  /\ task[t] \in TaskRecord /\ task[t].slot \in Slot
         /\ \E h \in held : h.slot = task[t].slot /\ t \in Users[h.device.addr]
         /\ devices[task[t].slot] \in SlotRecord /\ units[task[t].slot] \in 0 .. Threshold
BY DEF Inv, PlaceOK, TransactOK, TypeOK, TasksOK

LEMMA TransactStep ==
  ASSUME Inv, NEW t \in Task, NEW s \in Slot, Transact(t, s)
  PROVE  Inv'
<1>1. PICK n \in Counts :
        task' = [task EXCEPT ![t] = [Idle EXCEPT !.pc = "transfer", !.slot = s, !.left = n,
                                                 !.object = devices[s].object]]
  BY DEF Transact
<1> DEFINE r == [Idle EXCEPT !.pc = "transfer", !.slot = s, !.left = n,
                             !.object = devices[s].object]
<1>2. r \in TaskRecord /\ r.pc = "transfer" /\ r.slot = s
  BY IdleType DEF TaskRecord, Pc, Idle, Inv, TypeOK, SlotRecord
<1>3. task' = [task EXCEPT ![t] = r] /\ task[t].pc = "idle"
  BY <1>1 DEF Transact, Enters, At
<1> HIDE DEF r
<1>4. \E h \in held : h.slot = r.slot /\ t \in Users[h.device.addr]
  BY <1>2 DEF Transact
<1>5. /\ UNCHANGED <<busReady, devices, objects, dead, held>>
      /\ devices \in [Slot -> SlotRecord]
      /\ units' \in [Slot -> 0 .. Threshold] /\ resets' \in 0 .. MaxResets
  BY DEF Transact, Inv, TypeOK
<1>6. QED
  BY <1>2, <1>3, <1>4, <1>5, TransactionStep

\* A step that only moves a task on inside its transaction.
LEMMA MoveStep ==
  ASSUME Inv, NEW t \in Task, Transacts(t),
         NEW pc \in {"transfer", "zero", "load", "store", "park"},
         NEW fails \in Nat, NEW left \in Nat,
         task' = [task EXCEPT ![t].pc = pc, ![t].fails = fails, ![t].left = left],
         UNCHANGED <<busReady, objects, dead, held>>,
         devices' \in [Slot -> SlotRecord],
         \A s \in Slot : /\ devices'[s].active = devices[s].active
                         /\ devices'[s].device = devices[s].device
                         /\ devices'[s].object = devices[s].object,
         units' \in [Slot -> 0 .. Threshold], resets' \in 0 .. MaxResets
  PROVE  Inv'
<1> DEFINE r == [task[t] EXCEPT !.pc = pc, !.fails = fails, !.left = left]
<1>1. task[t] \in TaskRecord
  BY TransactionHandle
<1>2. r \in TaskRecord /\ r.pc = pc /\ r.slot = task[t].slot
  BY <1>1 DEF TaskRecord, Pc
<1>3. task' = [task EXCEPT ![t] = r]
  BY DEF Inv, TasksOK
<1>4. task[t].pc \notin {"claim", "release"}
  BY DEF Transacts
<1>5. \E h \in held : h.slot = r.slot /\ t \in Users[h.device.addr]
  BY <1>2, TransactionHandle
<1> HIDE DEF r
<1>6. QED
  BY <1>2, <1>3, <1>4, <1>5, TransactionStep

LEMMA TransferStep ==
  ASSUME Inv, NEW t \in Task, Transfer(t)
  PROVE  Inv'
<1>1. Transacts(t) /\ task[t] \in TaskRecord
  BY TransactionHandle DEF Transfer, At, Transacts
<1>2. PICK pc \in {"zero", "load"} : task' = [task EXCEPT ![t].pc = pc]
  BY DEF Transfer, Goto
<1>3. task' = [task EXCEPT ![t].pc = pc, ![t].fails = task[t].fails, ![t].left = task[t].left]
  BY <1>1, <1>2 DEF Inv, TasksOK, TaskRecord
<1>4. task[t].fails \in Nat /\ task[t].left \in Nat
  BY <1>1 DEF TaskRecord
<1>5. QED
  BY <1>1, <1>3, <1>4, MoveStep DEF Transfer, Inv, TypeOK

\* What a transaction does to the counter and to the available flag of a slot.
LEMMA SlotCounter ==
  ASSUME Inv, NEW s \in Slot, NEW a \in BOOLEAN, NEW n \in Nat,
         devices' = [devices EXCEPT ![s].available = a, ![s].fails = n]
  PROVE  /\ devices' \in [Slot -> SlotRecord]
         /\ \A q \in Slot : /\ devices'[q].active = devices[q].active
                            /\ devices'[q].device = devices[q].device
                            /\ devices'[q].object = devices[q].object
<1>1. devices \in [Slot -> SlotRecord]
  BY DEF Inv, TypeOK
<1>2. [devices[s] EXCEPT !.available = a, !.fails = n] \in SlotRecord
  BY <1>1 DEF SlotRecord
<1>3. devices' = [devices EXCEPT ![s] = [devices[s] EXCEPT !.available = a, !.fails = n]]
  BY <1>1
<1>4. devices' \in [Slot -> SlotRecord]
  BY <1>1, <1>2, <1>3
<1>5. QED
  BY <1>1, <1>4 DEF SlotRecord

LEMMA CountSuccessStep ==
  ASSUME Inv, NEW t \in Task, CountSuccess(t)
  PROVE  Inv'
<1>1. Transacts(t) /\ task[t].pc = "zero"
  BY DEF CountSuccess, At, Transacts
<1>2. task[t] \in TaskRecord /\ task[t].slot \in Slot /\ devices[task[t].slot] \in SlotRecord
  BY <1>1, TransactionHandle
<1> DEFINE s == task[t].slot
<1>3. devices' = [devices EXCEPT ![s].available = devices[s].available, ![s].fails = 0]
  BY <1>2 DEF CountSuccess, SlotRecord, Inv, TypeOK
<1>4. /\ devices' \in [Slot -> SlotRecord]
      /\ \A q \in Slot : /\ devices'[q].active = devices[q].active
                         /\ devices'[q].device = devices[q].device
                         /\ devices'[q].object = devices[q].object
  <2>1. devices[s].available \in BOOLEAN
    BY <1>2 DEF SlotRecord
  <2>2. QED
    BY <1>2, <1>3, <2>1, SlotCounter
<1>5. /\ units' \in [Slot -> 0 .. Threshold] /\ resets' \in 0 .. MaxResets
      /\ UNCHANGED <<busReady, objects, dead, held>>
  BY <1>2 DEF CountSuccess, Inv, TypeOK
<1>6. CASE Return(t)
  BY <1>1, <1>4, <1>5, <1>6, ReturnStep
<1>7. CASE task[t].left > 1 /\ task' = [task EXCEPT ![t].left = @ - 1]
  <2>1. task[t].left \in Nat /\ task[t].fails \in Nat /\ task[t].left - 1 \in Nat
    BY <1>2, <1>7 DEF TaskRecord
  <2>2. task' = [task EXCEPT ![t].pc = "zero", ![t].fails = task[t].fails,
                             ![t].left = task[t].left - 1]
    BY <1>1, <1>2, <1>7 DEF Inv, TasksOK, TaskRecord
  <2>3. QED
    BY <1>1, <1>4, <1>5, <2>1, <2>2, MoveStep
<1>8. QED
  BY <1>6, <1>7 DEF CountSuccess

LEMMA LoadCountStep ==
  ASSUME Inv, NEW t \in Task, LoadCount(t)
  PROVE  Inv'
<1>1. Transacts(t) /\ task[t].pc = "load"
  BY DEF LoadCount, At, Transacts
<1>2. task[t] \in TaskRecord /\ devices[task[t].slot] \in SlotRecord
  BY <1>1, TransactionHandle
<1>3. devices[task[t].slot].fails \in Nat /\ task[t].left \in Nat
  BY <1>2 DEF SlotRecord, TaskRecord
<1>4. task' = [task EXCEPT ![t].pc = "store", ![t].fails = devices[task[t].slot].fails,
                           ![t].left = task[t].left]
  BY <1>2 DEF LoadCount, Inv, TasksOK, TaskRecord
<1>5. /\ UNCHANGED <<busReady, devices, objects, dead, held>> /\ devices \in [Slot -> SlotRecord]
      /\ units' \in [Slot -> 0 .. Threshold] /\ resets' \in 0 .. MaxResets
  BY DEF LoadCount, Inv, TypeOK
<1>6. QED
  BY <1>1, <1>3, <1>4, <1>5, MoveStep

LEMMA StoreCountStep ==
  ASSUME Inv, NEW t \in Task, StoreCount(t)
  PROVE  Inv'
<1>1. Transacts(t) /\ task[t].pc = "store"
  BY DEF StoreCount, At, Transacts
<1>2. /\ task[t] \in TaskRecord /\ task[t].slot \in Slot /\ devices[task[t].slot] \in SlotRecord
      /\ units[task[t].slot] \in 0 .. Threshold
  BY <1>1, TransactionHandle
<1> DEFINE s == task[t].slot
<1>3. task[t].fails \in Nat /\ task[t].left \in Nat /\ devices[s].available \in BOOLEAN
      /\ task[t].fails + 1 \in Nat
  BY <1>2 DEF TaskRecord, SlotRecord
<1>4. devices' = [devices EXCEPT ![s].available = devices[s].available,
                                 ![s].fails = task[t].fails + 1]
  BY <1>2 DEF StoreCount, SlotRecord, Inv, TypeOK
<1>5. /\ devices' \in [Slot -> SlotRecord]
      /\ \A q \in Slot : /\ devices'[q].active = devices[q].active
                         /\ devices'[q].device = devices[q].device
                         /\ devices'[q].object = devices[q].object
  BY <1>2, <1>3, <1>4, SlotCounter
<1>6. units' \in [Slot -> 0 .. Threshold]
  <2>1. (IF units[s] < Threshold THEN units[s] + 1 ELSE units[s]) \in 0 .. Threshold
    BY <1>2
  <2>2. QED
    BY <2>1 DEF StoreCount, Inv, TypeOK
<1>7. task' = [task EXCEPT ![t].pc = "park", ![t].fails = task[t].fails,
                           ![t].left = task[t].left]
  BY <1>2 DEF StoreCount, Goto, Inv, TasksOK, TaskRecord
<1>8. resets' \in 0 .. MaxResets /\ UNCHANGED <<busReady, objects, dead, held>>
  BY DEF StoreCount, Inv, TypeOK
<1>9. QED
  BY <1>1, <1>3, <1>5, <1>6, <1>7, <1>8, MoveStep

LEMMA ParkStep ==
  ASSUME Inv, NEW t \in Task, Park(t)
  PROVE  Inv'
<1>1. Transacts(t) /\ task[t].pc = "park"
  BY DEF Park, At, Transacts
<1>2. task[t] \in TaskRecord /\ task[t].slot \in Slot /\ devices[task[t].slot] \in SlotRecord
  BY <1>1, TransactionHandle
<1> DEFINE s == task[t].slot
           a == devices[s].available /\ devices[s].fails < Threshold
<1>3. devices[s].fails \in Nat /\ a \in BOOLEAN
  BY <1>2 DEF SlotRecord
<1>4. devices' = [devices EXCEPT ![s].available = a, ![s].fails = devices[s].fails]
  BY <1>2 DEF Park, SlotRecord, Inv, TypeOK
<1> HIDE DEF a
<1>5. /\ devices' \in [Slot -> SlotRecord]
      /\ \A q \in Slot : /\ devices'[q].active = devices[q].active
                         /\ devices'[q].device = devices[q].device
                         /\ devices'[q].object = devices[q].object
  BY <1>2, <1>3, <1>4, SlotCounter
<1>6. /\ units' \in [Slot -> 0 .. Threshold] /\ resets' \in 0 .. MaxResets
      /\ UNCHANGED <<busReady, objects, dead, held>>
  BY DEF Park, Inv, TypeOK
<1>7. CASE Return(t)
  BY <1>1, <1>5, <1>6, <1>7, ReturnStep
<1>8. CASE task[t].left > 1 /\ task' = [task EXCEPT ![t].pc = "load", ![t].left = @ - 1]
  <2>1. task[t].left \in Nat /\ task[t].fails \in Nat /\ task[t].left - 1 \in Nat
    BY <1>2, <1>8 DEF TaskRecord
  <2>2. task' = [task EXCEPT ![t].pc = "load", ![t].fails = task[t].fails,
                             ![t].left = task[t].left - 1]
    BY <1>1, <1>2, <1>8 DEF Inv, TasksOK, TaskRecord
  <2>3. QED
    BY <1>1, <1>5, <1>6, <2>1, <2>2, MoveStep
<1>9. QED
  BY <1>7, <1>8 DEF Park

LEMMA RecoverBusStep ==
  ASSUME Inv, NEW t \in Task, RecoverBus(t)
  PROVE  Inv'
<1>1. PICK p \in Port : task' = [task EXCEPT ![t] = [Idle EXCEPT !.pc = "enable", !.device.port = p]]
  BY DEF RecoverBus
<1> DEFINE r == [Idle EXCEPT !.pc = "enable", !.device.port = p]
<1>2. r \in TaskRecord /\ r.pc = "enable" /\ r.slot = 0
  BY IdleType DEF TaskRecord, Pc, Idle, NoDevice
<1>3. task' = [task EXCEPT ![t] = r] /\ task[t].pc = "idle"
  BY <1>1 DEF RecoverBus, Enters, At
<1> HIDE DEF r
<1>4. task'[t] = r
  BY <1>2, <1>3, SetTask DEF Inv
<1>5. RegisterOK(t)' /\ ReleaseOK(t)' /\ TransactOK(t)'
  BY <1>2, <1>4 DEF RegisterOK, ReleaseOK, TransactOK, Registers, Releases, Transacts
<1>6. \A u \in Task : Releases(u) => r.slot # task[u].slot
  BY <1>2, ReleasedIsActive
<1>7. resets' \in 0 .. MaxResets
  BY DEF RecoverBus, Inv, TypeOK
<1>8. QED
  BY <1>2, <1>3, <1>5, <1>6, <1>7, OnlyTask DEF RecoverBus

LEMMA EnableAllStep ==
  ASSUME Inv, NEW t \in Task, EnableAll(t)
  PROVE  Inv'
<1>1. devices \in [Slot -> SlotRecord]
  BY DEF Inv, TypeOK
<1>2. \A s \in Slot : [devices[s] EXCEPT !.available = TRUE, !.fails = 0] \in SlotRecord
  BY <1>1 DEF SlotRecord
<1>3. \A s \in Slot : \/ devices'[s] = devices[s]
                      \/ devices'[s] = [devices[s] EXCEPT !.available = TRUE, !.fails = 0]
  BY DEF EnableAll
<1>4. devices' \in [Slot -> SlotRecord]
  BY <1>1, <1>2 DEF EnableAll
<1>5. \A s \in Slot : /\ devices'[s].active = devices[s].active
                      /\ devices'[s].device = devices[s].device
                      /\ devices'[s].object = devices[s].object
  BY <1>1, <1>3 DEF SlotRecord
<1>6. /\ units' \in [Slot -> 0 .. Threshold] /\ resets' \in 0 .. MaxResets
      /\ UNCHANGED <<busReady, objects, dead, held>>
      /\ Return(t) /\ task[t].pc = "enable"
  BY DEF EnableAll, At, Inv, TypeOK
<1>7. QED
  BY <1>4, <1>5, <1>6, ReturnStep

LEMMA ReenableDeviceStep ==
  ASSUME Inv, NEW t \in Task, ReenableDevice(t)
  PROVE  Inv'
<1>1. PICK h \in held :
        devices' = [devices EXCEPT ![h.slot].available = TRUE, ![h.slot].fails = 0]
  BY DEF ReenableDevice
<1>2. h.slot \in Slot
  BY DEF Inv, TypeOK
<1>3. /\ devices' \in [Slot -> SlotRecord]
      /\ \A s \in Slot : /\ devices'[s].active = devices[s].active
                         /\ devices'[s].device = devices[s].device
                         /\ devices'[s].object = devices[s].object
  BY <1>1, <1>2, SlotCounter
<1>4. task[t].pc = "idle" /\ task[t] \in TaskRecord /\ task' = [task EXCEPT ![t] = task[t]]
  BY DEF ReenableDevice, Enters, At, Inv, TasksOK
<1>5. RegisterOK(t)' /\ ReleaseOK(t)' /\ TransactOK(t)' /\ task[t].slot = 0
  BY <1>4 DEF RegisterOK, ReleaseOK, TransactOK, Registers, Releases, Transacts, Inv, PlaceOK,
              ReenableDevice
<1>6. \A u \in Task : Releases(u) => task[t].slot # task[u].slot
  BY <1>5, ReleasedIsActive
<1>7. /\ units' \in [Slot -> 0 .. Threshold] /\ resets' \in 0 .. MaxResets
      /\ UNCHANGED <<busReady, objects, dead, held>>
  BY DEF ReenableDevice, Inv, TypeOK
<1>8. QED
  BY <1>3, <1>4, <1>5, <1>6, <1>7, Bookkeeping

LEMMA DiesStep ==
  ASSUME Inv, Dies
  PROVE  Inv'
<1>1. UNCHANGED <<busReady, devices, objects, held, task, units, resets>>
  BY DEF Dies
<1>2. dead' \subseteq Device
  BY DEF Dies, Inv, TypeOK, Device
<1>3. TypeOK' /\ TasksOK'
  BY <1>1, <1>2 DEF Inv, TypeOK, TasksOK
<1>4. PlaceOK'
  BY <1>1 DEF Inv, PlaceOK, RegisterOK, ReleaseOK, TransactOK, Registers, Releases, Transacts,
              Registered
<1>5. SlotsOK' /\ ObjectsOK' /\ HeldOK'
  BY <1>1 DEF Inv, SlotsOK, ObjectsOK, HeldOK, Live, Pending
<1>6. QED
  BY <1>3, <1>4, <1>5 DEF Inv

(***************************************************************************)
(* Registration and release.                                               *)
(***************************************************************************)
LEMMA AddDeviceStep ==
  ASSUME Inv, NEW t \in Task, AddDevice(t)
  PROVE  Inv'
<1>1. /\ task[t].pc = "add" /\ task[t] \in TaskRecord /\ RegisterOK(t)
      /\ UNCHANGED <<busReady, devices, dead, held, units, resets>>
  BY DEF AddDevice, At, Inv, TasksOK, PlaceOK
<1>2. CASE Return(t) /\ UNCHANGED objects
  BY <1>1, <1>2, ReturnStep DEF Inv, TypeOK
<1>3. CASE \E o \in Object :
             /\ objects[o] = NoDevice
             /\ objects' = [objects EXCEPT ![o] = task[t].device]
             /\ task' = [task EXCEPT ![t].pc = "claim", ![t].object = o]
  <2>1. PICK o \in Object :
             /\ objects[o] = NoDevice
             /\ objects' = [objects EXCEPT ![o] = task[t].device]
             /\ task' = [task EXCEPT ![t].pc = "claim", ![t].object = o]
    BY <1>3
  <2> DEFINE r == [task[t] EXCEPT !.pc = "claim", !.object = o]
  <2>2. /\ r \in TaskRecord /\ r.pc = "claim" /\ r.object = o
        /\ r.device = task[t].device /\ r.slot = task[t].slot
    BY <1>1 DEF TaskRecord, Pc
  <2>3. task' = [task EXCEPT ![t] = r]
    BY <2>1 DEF Inv, TasksOK
  <2> HIDE DEF r
  <2>4. TasksOK' /\ task'[t] = r /\ \A u \in Task : u # t => task'[u] = task[u]
    BY <2>2, <2>3, SetTask DEF Inv
  <2>5. task[t].device \in Device /\ task[t].slot \in Slot
    BY <1>1 DEF RegisterOK, Registers
  <2>6. /\ objects' \in [Object -> Device \cup {NoDevice}]
        /\ objects'[o] = task[t].device
        /\ \A q \in Object : q # o => objects'[q] = objects[q]
    BY <2>1, <2>5 DEF Inv, TypeOK
  <2>7. TypeOK'
    BY <1>1, <2>4, <2>6 DEF Inv, TypeOK, TasksOK, TaskRecord
  <2>8. \A s \in Slot : Live(s)' <=> Live(s)
    BY <1>1, <2>2, <2>4 DEF Live
  <2>9. \A d : Registered(d)' <=> Registered(d)
    BY <1>1 DEF Registered
  <2>10. PlaceOK'
    <3>1. RegisterOK(t)' /\ ReleaseOK(t)' /\ TransactOK(t)'
      BY <1>1, <2>2, <2>4, <2>9
      DEF RegisterOK, ReleaseOK, TransactOK, Registers, Releases, Transacts
    <3> SUFFICES ASSUME NEW u \in Task, u # t
                 PROVE  /\ RegisterOK(u)' /\ ReleaseOK(u)' /\ TransactOK(u)'
                        /\ task'[u].pc \in {"idle", "find", "enable"} => task'[u].slot = 0
      BY <2>2, <2>4, <3>1 DEF PlaceOK
    <3>2. /\ RegisterOK(u) /\ ReleaseOK(u) /\ TransactOK(u)
          /\ task[u].pc \in {"idle", "find", "enable"} => task[u].slot = 0
      BY DEF Inv, PlaceOK
    <3>3. RegisterOK(u)'
      BY <1>1, <2>4, <2>9, <3>2 DEF RegisterOK, Registers
    <3>4. ReleaseOK(u)'
      BY <1>1, <2>2, <2>4, <3>2 DEF ReleaseOK, Releases
    <3>5. TransactOK(u)'
      BY <1>1, <2>4, <3>2 DEF TransactOK, Transacts
    <3>6. QED
      BY <2>4, <3>2, <3>3, <3>4, <3>5
  <2>11. \A s \in Slot : Live(s) => devices[s].object \in Object /\ devices[s].object # o
    BY <2>1, NoDeviceIsNone DEF Inv, SlotsOK, Live
  <2>12. SlotsOK'
    BY <1>1, <2>6, <2>8, <2>11 DEF Inv, SlotsOK
  <2>13. ObjectsOK'
    <3>1. ASSUME NEW q \in Object, objects'[q] # NoDevice
          PROVE  Pending(q)' \/ \E s \in Slot : Live(s)' /\ devices'[s].object = q
      <4>1. CASE q = o
        BY <2>2, <2>4, <4>1 DEF Pending
      <4>2. CASE q # o
        <5>1. Pending(q) \/ \E s \in Slot : Live(s) /\ devices[s].object = q
          BY <2>6, <3>1, <4>2 DEF Inv, ObjectsOK
        <5>2. Pending(q) => Pending(q)'
          BY <1>1, <2>4 DEF Pending
        <5>3. QED
          BY <1>1, <2>8, <5>1, <5>2
      <4>3. QED
        BY <4>1, <4>2
    <3>2. ASSUME NEW u \in Task, task'[u].pc = "claim"
          PROVE  /\ task'[u].object \in Object /\ objects'[task'[u].object] = task'[u].device
                 /\ \A s \in Slot : Live(s)' => devices'[s].object # task'[u].object
      <4>1. CASE u = t
        BY <1>1, <2>2, <2>4, <2>6, <2>8, <2>11, <4>1
      <4>2. CASE u # t
        <5>1. /\ task[u].object \in Object /\ objects[task[u].object] = task[u].device
              /\ \A s \in Slot : Live(s) => devices[s].object # task[u].object
              /\ task[u].device \in Device
          BY <2>4, <3>2, <4>2 DEF Inv, ObjectsOK, PlaceOK, RegisterOK, Registers
        <5>2. task[u].object # o
          BY <2>1, <5>1, NoDeviceIsNone
        <5>3. QED
          BY <1>1, <2>4, <2>6, <2>8, <4>2, <5>1, <5>2
      <4>3. QED
        BY <4>1, <4>2
    <3>3. QED
      BY <3>1, <3>2 DEF ObjectsOK
  <2>14. HeldOK'
    BY <1>1 DEF Inv, HeldOK
  <2>15. QED
    BY <2>4, <2>7, <2>10, <2>12, <2>13, <2>14 DEF Inv
<1>4. QED
  BY <1>2, <1>3 DEF AddDevice

LEMMA ClaimSlotStep ==
  ASSUME OneRegistrar, Inv, NEW t \in Task, ClaimSlot(t)
  PROVE  Inv'
<1>0. PICK s, d : s = task[t].slot /\ d = task[t].device
  OBVIOUS
<1> DEFINE h == [slot |-> s, device |-> d]
<1>1. /\ task[t].pc = "claim" /\ task[t] \in TaskRecord /\ RegisterOK(t)
      /\ UNCHANGED <<busReady, objects, dead, resets>>
  BY DEF ClaimSlot, At, Inv, TasksOK, PlaceOK
<1>2. s \in Slot /\ ~devices[s].active /\ ~Registered(d) /\ d \in Device /\ "register" \in Calls[t]
  BY <1>0, <1>1 DEF RegisterOK, Registers
<1>3. /\ task[t].object \in Object /\ objects[task[t].object] = d
      /\ \A q \in Slot : Live(q) => devices[q].object # task[t].object
  BY <1>0, <1>1 DEF Inv, ObjectsOK
<1>4. TasksOK' /\ task'[t] = Idle /\ \A u \in Task : u # t => task'[u] = task[u]
  BY IdleType, SetTask DEF ClaimSlot, Return, Inv
<1> DEFINE e == [active |-> TRUE, device |-> d, object |-> task[t].object,
                 available |-> TRUE, fails |-> 0]
<1>5. devices' = [devices EXCEPT ![s] = e] /\ held' = held \cup {h} /\ units' = [units EXCEPT ![s] = 0]
  BY <1>0 DEF ClaimSlot
<1>6. /\ e \in SlotRecord /\ e.active = TRUE /\ e.device = d /\ e.object = task[t].object
      /\ h.slot = s /\ h.device = d /\ h \in [slot : Slot, device : Device]
  BY <1>2, <1>3 DEF SlotRecord
<1>7. devices' \in [Slot -> SlotRecord] /\ devices'[s] = e /\ \A q \in Slot : q # s => devices'[q] = devices[q]
  BY <1>2, <1>5, <1>6 DEF Inv, TypeOK
<1> HIDE DEF e, h
<1>8. TypeOK'
  <2>1. units' \in [Slot -> 0 .. Threshold] /\ held' \subseteq [slot : Slot, device : Device]
    BY <1>5, <1>6 DEF Inv, TypeOK
  <2>2. QED
    BY <1>1, <1>4, <1>7, <2>1 DEF Inv, TypeOK, TasksOK, TaskRecord
\* No task is elsewhere in a registration or releases this slot.
<1>9. \A u \in Task : u # t => ~Registers(u)
  BY <1>2 DEF OneRegistrar, Inv, PlaceOK, RegisterOK
<1>10. \A u \in Task : Releases(u) => task[u].slot # s
  BY <1>2, ReleasedIsActive
<1>11. Idle.pc = "idle" /\ Idle.slot = 0
  BY DEF Idle
<1>12. PlaceOK'
  <2>1. RegisterOK(t)' /\ ReleaseOK(t)' /\ TransactOK(t)'
    BY <1>4, <1>11 DEF RegisterOK, ReleaseOK, TransactOK, Registers, Releases, Transacts
  <2> SUFFICES ASSUME NEW u \in Task, u # t
               PROVE  /\ RegisterOK(u)' /\ ReleaseOK(u)' /\ TransactOK(u)'
                      /\ task'[u].pc \in {"idle", "find", "enable"} => task'[u].slot = 0
    BY <1>4, <1>11, <2>1 DEF PlaceOK
  <2>2. /\ RegisterOK(u) /\ ReleaseOK(u) /\ TransactOK(u) /\ task'[u] = task[u]
        /\ task[u].pc \in {"idle", "find", "enable"} => task[u].slot = 0
    BY <1>4 DEF Inv, PlaceOK
  <2>3. RegisterOK(u)'
    BY <1>9, <2>2 DEF RegisterOK, Registers
  <2>4. ReleaseOK(u)'
    <3> SUFFICES ASSUME Releases(u) PROVE ReleaseOK(u)'
      BY <2>2 DEF ReleaseOK, Releases
    <3>1. task[u].slot # s /\ task[u].slot # 0
      BY <1>10, ReleasedIsActive
    <3>2. \A g \in held' : g.slot # task[u].slot
      BY <1>5, <1>6, <2>2, <3>1 DEF ReleaseOK
    <3>3. \A v \in Task : v # u => task'[v].slot # task[u].slot
      BY <1>4, <1>11, <2>2, <3>1 DEF ReleaseOK
    <3>4. QED
      BY <1>7, <2>2, <3>1, <3>2, <3>3 DEF ReleaseOK
  <2>5. TransactOK(u)'
    BY <1>5, <2>2 DEF TransactOK, Transacts
  <2>6. QED
    BY <2>2, <2>3, <2>4, <2>5
<1>13. Live(s)' /\ ~Live(s)
  BY <1>2, <1>4, <1>6, <1>7, <1>10, <1>11 DEF Live, Releases
<1>14. \A q \in Slot : q # s => (Live(q)' <=> Live(q))
  BY <1>1, <1>4, <1>7, <1>11 DEF Live
<1>15. SlotsOK'
  <2>1. \A q \in Slot : Live(q)' =>
          devices'[q].object \in Object /\ objects'[devices'[q].object] = devices'[q].device
    BY <1>1, <1>3, <1>6, <1>7, <1>14 DEF Inv, SlotsOK
  <2>2. \A q \in Slot : devices'[q].active => devices'[q].device \in Device
    BY <1>2, <1>6, <1>7 DEF Inv, SlotsOK
  <2>3. \A p, q \in Slot :
          Live(p)' /\ Live(q)' /\ devices'[p].object = devices'[q].object => p = q
    BY <1>3, <1>6, <1>7, <1>14 DEF Inv, SlotsOK
  <2>4. \A q \in Slot : devices[q].active => devices[q].device # d
    BY <1>2 DEF Registered
  <2>5. \A p, q \in Slot :
          devices'[p].active /\ devices'[q].active /\ devices'[p].device = devices'[q].device
            => p = q
    BY <1>6, <1>7, <2>4 DEF Inv, SlotsOK
  <2>6. QED
    BY <2>1, <2>2, <2>3, <2>5 DEF SlotsOK
<1>16. ObjectsOK'
  <2>1. ASSUME NEW o \in Object, objects'[o] # NoDevice
        PROVE  Pending(o)' \/ \E q \in Slot : Live(q)' /\ devices'[q].object = o
    <3>1. CASE o = task[t].object
      BY <1>2, <1>6, <1>7, <1>13, <3>1
    <3>2. CASE o # task[t].object
      <4>1. ~Pending(o)
        BY <1>9, <3>2 DEF Pending, Registers
      <4>2. PICK q \in Slot : Live(q) /\ devices[q].object = o
        BY <1>1, <2>1, <4>1 DEF Inv, ObjectsOK
      <4>3. q # s
        BY <1>13, <4>2
      <4>4. QED
        BY <1>7, <1>14, <4>2, <4>3
    <3>3. QED
      BY <3>1, <3>2
  <2>2. \A u \in Task : task'[u].pc # "claim"
    BY <1>4, <1>9, <1>11 DEF Registers
  <2>3. QED
    BY <2>1, <2>2 DEF ObjectsOK
<1>17. HeldOK'
  <2>1. \A g \in held : g.slot \in Slot /\ g.slot # s
    BY <1>2 DEF Inv, HeldOK, TypeOK
  <2>2. QED
    BY <1>5, <1>6, <1>7, <2>1 DEF Inv, HeldOK
<1>18. QED
  BY <1>4, <1>8, <1>12, <1>15, <1>16, <1>17 DEF Inv

\* A release starts on a slot that no other task is using.
LEMMA UnregisterStep ==
  ASSUME Inv, NEW t \in Task, Unregister(t)
  PROVE  Inv'
<1>1. PICK h \in held :
        /\ Using(h.slot) = {}
        /\ held' = held \ {h}
        /\ IF devices[h.slot].active
           THEN task' = [task EXCEPT ![t] = [Idle EXCEPT !.pc = "remove", !.slot = h.slot]]
           ELSE UNCHANGED task
  BY DEF Unregister
<1>2. PICK s : s = h.slot
  OBVIOUS
<1> DEFINE r == [Idle EXCEPT !.pc = "remove", !.slot = s]
<1>3. /\ s \in Slot /\ devices[s].active /\ devices[s].device = h.device
      /\ task[t].pc = "idle" /\ UNCHANGED <<busReady, devices, objects, dead, units, resets>>
  BY <1>2 DEF Unregister, Enters, At, Inv, TypeOK, HeldOK
<1>4. r \in TaskRecord /\ r.pc = "remove" /\ r.slot = s
  BY <1>3, IdleType DEF TaskRecord, Pc, Idle
<1>5. task' = [task EXCEPT ![t] = r]
  BY <1>1, <1>2, <1>3
<1> HIDE DEF r
<1>6. TasksOK' /\ task'[t] = r /\ \A u \in Task : u # t => task'[u] = task[u]
  BY <1>4, <1>5, SetTask DEF Inv
<1>7. \A u \in Task : task[u].slot # s
  <2>1. s # 0
    BY <1>3 DEF Slot
  <2>2. QED
    BY <1>1, <1>2, <2>1 DEF Using, At, Inv, PlaceOK
<1>8. \A g \in held : g # h => g.slot # s
  BY <1>2, <1>3 DEF Inv, HeldOK, TypeOK
<1>9. held' \subseteq held /\ \A g \in held' : g.slot # s
  BY <1>1, <1>8
<1>10. TypeOK'
  BY <1>3, <1>6, <1>9 DEF Inv, TypeOK, TasksOK, TaskRecord
<1>11. \A d : Registered(d)' <=> Registered(d)
  BY <1>3 DEF Registered
<1>12. PlaceOK'
  <2>1. RegisterOK(t)' /\ TransactOK(t)'
    BY <1>4, <1>6 DEF RegisterOK, TransactOK, Registers, Transacts
  <2>2. ReleaseOK(t)'
    BY <1>3, <1>4, <1>6, <1>7, <1>9 DEF ReleaseOK
  <2> SUFFICES ASSUME NEW u \in Task, u # t
               PROVE  /\ RegisterOK(u)' /\ ReleaseOK(u)' /\ TransactOK(u)'
                      /\ task'[u].pc \in {"idle", "find", "enable"} => task'[u].slot = 0
    BY <1>4, <1>6, <2>1, <2>2 DEF PlaceOK
  <2>3. /\ RegisterOK(u) /\ ReleaseOK(u) /\ TransactOK(u) /\ task'[u] = task[u]
        /\ task[u].pc \in {"idle", "find", "enable"} => task[u].slot = 0
    BY <1>6 DEF Inv, PlaceOK
  <2>4. RegisterOK(u)'
    BY <1>3, <1>11, <2>3 DEF RegisterOK, Registers
  <2>5. ReleaseOK(u)'
    BY <1>3, <1>4, <1>6, <1>7, <1>9, <2>3 DEF ReleaseOK, Releases
  <2>6. TransactOK(u)'
    BY <1>1, <1>2, <1>7, <2>3 DEF TransactOK, Transacts
  <2>7. QED
    BY <2>3, <2>4, <2>5, <2>6
<1>13. \A q \in Slot : Live(q)' <=> Live(q)
  BY <1>3, <1>4, <1>6 DEF Live
<1>14. \A o : Pending(o)' <=> Pending(o)
  BY <1>3, <1>4, <1>6 DEF Pending
<1>15. SlotsOK'
  BY <1>3, <1>13 DEF Inv, SlotsOK
<1>16. ObjectsOK'
  BY <1>3, <1>4, <1>6, <1>13, <1>14 DEF Inv, ObjectsOK
<1>17. HeldOK'
  BY <1>3, <1>9 DEF Inv, HeldOK
<1>18. QED
  BY <1>6, <1>10, <1>12, <1>15, <1>16, <1>17 DEF Inv

LEMMA RemoveDeviceStep ==
  ASSUME Inv, NEW t \in Task, RemoveDevice(t)
  PROVE  Inv'
<1>1. PICK s : s = task[t].slot
  OBVIOUS
<1>2. /\ task[t].pc = "remove" /\ task[t] \in TaskRecord /\ ReleaseOK(t)
      /\ UNCHANGED <<busReady, devices, dead, held, units, resets>>
  BY DEF RemoveDevice, At, Inv, TasksOK, PlaceOK
<1>3. s \in Slot /\ devices[s].active /\ \A u \in Task : u # t => task[u].slot # s
  BY <1>1, <1>2 DEF ReleaseOK, Releases
<1> DEFINE r == [task[t] EXCEPT !.pc = "release"]
<1>4. r \in TaskRecord /\ r.pc = "release" /\ r.slot = s
  BY <1>1, <1>2 DEF TaskRecord, Pc
<1>5. task' = [task EXCEPT ![t] = r]
  BY DEF RemoveDevice, Goto, Inv, TasksOK
<1> HIDE DEF r
<1>6. TasksOK' /\ task'[t] = r /\ \A u \in Task : u # t => task'[u] = task[u]
  BY <1>4, <1>5, SetTask DEF Inv
<1>7. PICK o : o = devices[s].object
  OBVIOUS
<1>8. objects' = [q \in Object |-> IF q = o THEN NoDevice ELSE objects[q]]
  BY <1>1, <1>7 DEF RemoveDevice
<1>9. TypeOK'
  BY <1>2, <1>6, <1>8 DEF Inv, TypeOK, TasksOK, TaskRecord
<1>10. \A d : Registered(d)' <=> Registered(d)
  BY <1>2 DEF Registered
<1>11. PlaceOK'
  <2>1. RegisterOK(t)' /\ ReleaseOK(t)' /\ TransactOK(t)'
    BY <1>1, <1>2, <1>4, <1>6
    DEF RegisterOK, ReleaseOK, TransactOK, Registers, Releases, Transacts
  <2> SUFFICES ASSUME NEW u \in Task, u # t
               PROVE  /\ RegisterOK(u)' /\ ReleaseOK(u)' /\ TransactOK(u)'
                      /\ task'[u].pc \in {"idle", "find", "enable"} => task'[u].slot = 0
    BY <1>4, <1>6, <2>1 DEF PlaceOK
  <2>2. /\ RegisterOK(u) /\ ReleaseOK(u) /\ TransactOK(u) /\ task'[u] = task[u]
        /\ task[u].pc \in {"idle", "find", "enable"} => task[u].slot = 0
    BY <1>6 DEF Inv, PlaceOK
  <2>3. RegisterOK(u)'
    BY <1>2, <1>10, <2>2 DEF RegisterOK, Registers
  <2>4. ReleaseOK(u)'
    BY <1>1, <1>2, <1>4, <1>6, <2>2 DEF ReleaseOK, Releases
  <2>5. TransactOK(u)'
    BY <1>2, <2>2 DEF TransactOK, Transacts
  <2>6. QED
    BY <2>2, <2>3, <2>4, <2>5
<1>12. Live(s) /\ \A q \in Slot : Live(q)' <=> Live(q) /\ q # s
  BY <1>1, <1>2, <1>3, <1>4, <1>6 DEF Live
<1>13. \A q : Pending(q)' <=> Pending(q)
  BY <1>2, <1>4, <1>6 DEF Pending
<1>14. \A q \in Slot : Live(q) /\ q # s => devices[q].object # o
  BY <1>3, <1>7, <1>12 DEF Inv, SlotsOK
<1>15. SlotsOK'
  BY <1>2, <1>8, <1>12, <1>14 DEF Inv, SlotsOK
<1>16. ObjectsOK'
  <2>1. \A u \in Task : task[u].pc = "claim" => task[u].object # o
    BY <1>3, <1>7, <1>12 DEF Inv, ObjectsOK
  <2>2. \A q \in Object : objects'[q] # NoDevice => q # o /\ objects[q] # NoDevice
    BY <1>8
  <2>3. \A q \in Object : objects'[q] # NoDevice =>
          Pending(q)' \/ \E p \in Slot : Live(p)' /\ devices'[p].object = q
    BY <1>2, <1>7, <1>12, <1>13, <2>2 DEF Inv, ObjectsOK
  <2>4. \A u \in Task : task'[u].pc = "claim" => u # t /\ task'[u] = task[u]
    BY <1>4, <1>6
  <2>5. QED
    BY <1>2, <1>8, <1>12, <2>1, <2>3, <2>4 DEF Inv, ObjectsOK
<1>17. HeldOK'
  BY <1>2 DEF Inv, HeldOK
<1>18. QED
  BY <1>6, <1>9, <1>11, <1>15, <1>16, <1>17 DEF Inv

LEMMA ReleaseSlotStep ==
  ASSUME Inv, NEW t \in Task, ReleaseSlot(t)
  PROVE  Inv'
<1>1. PICK s : s = task[t].slot
  OBVIOUS
<1>2. /\ task[t].pc = "release" /\ ReleaseOK(t)
      /\ UNCHANGED <<busReady, objects, dead, held, units, resets>>
  BY DEF ReleaseSlot, At, Inv, PlaceOK
<1>3. /\ s \in Slot /\ devices[s].active /\ \A u \in Task : u # t => task[u].slot # s
      /\ \A h \in held : h.slot # s
  BY <1>1, <1>2 DEF ReleaseOK, Releases
<1>4. TasksOK' /\ task'[t] = Idle /\ \A u \in Task : u # t => task'[u] = task[u]
  BY IdleType, SetTask DEF ReleaseSlot, Return, Inv
<1>5. Idle.pc = "idle" /\ Idle.slot = 0 /\ FreeSlot.active = FALSE /\ FreeSlot \in SlotRecord
  BY DEF Idle, FreeSlot, SlotRecord
<1>6. /\ devices' \in [Slot -> SlotRecord] /\ devices'[s] = FreeSlot
      /\ \A q \in Slot : q # s => devices'[q] = devices[q]
  BY <1>1, <1>3, <1>5 DEF ReleaseSlot, Inv, TypeOK
<1>7. TypeOK'
  BY <1>2, <1>4, <1>6 DEF Inv, TypeOK, TasksOK, TaskRecord
<1>8. \A d : Registered(d)' => Registered(d)
  BY <1>5, <1>6 DEF Registered
<1>9. PlaceOK'
  <2>1. RegisterOK(t)' /\ ReleaseOK(t)' /\ TransactOK(t)'
    BY <1>4, <1>5 DEF RegisterOK, ReleaseOK, TransactOK, Registers, Releases, Transacts
  <2> SUFFICES ASSUME NEW u \in Task, u # t
               PROVE  /\ RegisterOK(u)' /\ ReleaseOK(u)' /\ TransactOK(u)'
                      /\ task'[u].pc \in {"idle", "find", "enable"} => task'[u].slot = 0
    BY <1>4, <1>5, <2>1 DEF PlaceOK
  <2>2. /\ RegisterOK(u) /\ ReleaseOK(u) /\ TransactOK(u) /\ task'[u] = task[u]
        /\ task[u].pc \in {"idle", "find", "enable"} => task[u].slot = 0
        /\ task[u].slot # s
    BY <1>3, <1>4 DEF Inv, PlaceOK
  <2>3. RegisterOK(u)'
    BY <1>6, <1>8, <2>2 DEF RegisterOK, Registers
  <2>4. ReleaseOK(u)'
    <3> SUFFICES ASSUME Releases(u) PROVE ReleaseOK(u)'
      BY <2>2 DEF ReleaseOK, Releases
    <3>1. /\ task[u].slot # 0 /\ task[u].slot \in Slot /\ devices[task[u].slot].active
          /\ \A v \in Task : v # u => task[v].slot # task[u].slot
          /\ \A h \in held : h.slot # task[u].slot
      BY <2>2, ReleasedIsActive DEF ReleaseOK
    <3>2. \A v \in Task : v # u => task'[v].slot # task'[u].slot
      BY <1>4, <1>5, <2>2, <3>1
    <3>3. QED
      BY <1>2, <1>6, <2>2, <3>1, <3>2 DEF ReleaseOK
  <2>5. TransactOK(u)'
    BY <1>2, <2>2 DEF TransactOK, Transacts
  <2>6. QED
    BY <2>2, <2>3, <2>4, <2>5
<1>10. /\ \A q \in Slot : Live(q)' => Live(q) /\ devices'[q] = devices[q]
       /\ \A q \in Slot : Live(q) => Live(q)' /\ devices'[q] = devices[q]
  BY <1>1, <1>2, <1>4, <1>5, <1>6 DEF Live
<1>11. \A q : Pending(q)' <=> Pending(q)
  BY <1>2, <1>4, <1>5 DEF Pending
<1>12. SlotsOK'
  <2>1. \A q \in Slot : devices'[q].active => devices[q].active /\ devices'[q] = devices[q]
    BY <1>5, <1>6
  <2>2. QED
    BY <1>2, <1>10, <2>1 DEF Inv, SlotsOK
<1>13. ObjectsOK'
  <2>1. \A o \in Object : objects'[o] # NoDevice =>
          Pending(o)' \/ \E q \in Slot : Live(q)' /\ devices'[q].object = o
    BY <1>2, <1>10, <1>11 DEF Inv, ObjectsOK
  <2>2. \A u \in Task : task'[u].pc = "claim" => u # t /\ task'[u] = task[u]
    BY <1>4, <1>5
  <2>3. QED
    BY <1>2, <1>10, <2>1, <2>2 DEF Inv, ObjectsOK
<1>14. HeldOK'
  BY <1>2, <1>3, <1>6 DEF Inv, HeldOK, TypeOK
<1>15. QED
  BY <1>4, <1>7, <1>9, <1>12, <1>13, <1>14 DEF Inv

LEMMA Invariance ==
  ASSUME OneRegistrar, Inv, [Next]_vars
  PROVE  Inv'
<1>1. CASE UNCHANGED vars
  <2>1. TypeOK' /\ TasksOK'
    BY <1>1 DEF Inv, TypeOK, TasksOK, vars
  <2>2. PlaceOK'
    BY <1>1 DEF Inv, PlaceOK, RegisterOK, ReleaseOK, TransactOK, Registers, Releases,
                Transacts, Registered, vars
  <2>3. SlotsOK' /\ ObjectsOK' /\ HeldOK'
    BY <1>1 DEF Inv, SlotsOK, ObjectsOK, HeldOK, Live, Pending, vars
  <2>4. QED
    BY <2>1, <2>2, <2>3 DEF Inv
<1>2. ASSUME NEW t \in Task, Step(t) PROVE Inv'
  BY <1>2, FindSlotStep, AddDeviceStep, ClaimSlotStep, RemoveDeviceStep, ReleaseSlotStep,
     TransferStep, CountSuccessStep, LoadCountStep, StoreCountStep, ParkStep, EnableAllStep
  DEF Step
<1>3. QED
  BY <1>1, <1>2, RegisterStep, UnregisterStep, RecoverBusStep, ReenableDeviceStep,
     TransactStep, DiesStep DEF Next

\* The handles, the registry and the chip's driver agree: i2c_handler.cpp and
\* spi_handler.cpp, for every number of slots, devices, ports and tasks, when
\* one task registers the drivers (two break it: run devices_register_race).
THEOREM HandlesAndObjectsAgree ==
  ASSUME OneRegistrar
  PROVE  Spec => []RegistryAgrees
<1>1. Inv => RegistryAgrees
  <2> SUFFICES ASSUME Inv PROVE RegistryAgrees
    OBVIOUS
  <2>1. \A h \in held : h.slot \in Slot /\ Live(h.slot)
    BY DEF Inv, TypeOK, HeldOK, Live, PlaceOK, ReleaseOK, Releases
  <2>2. HandlesHold
    <3>1. \A h \in held : /\ devices[h.slot].active /\ devices[h.slot].device = h.device
                          /\ devices[h.slot].object \in Object
                          /\ objects[devices[h.slot].object] = h.device
      BY <2>1 DEF Inv, HeldOK, SlotsOK
    <3>2. ASSUME NEW h \in held, NEW g \in held, h.slot = g.slot \/ h.device = g.device
          PROVE  h = g
      <4>1. h.slot = g.slot /\ h.device = g.device
        BY <2>1, <3>1, <3>2 DEF Inv, SlotsOK
      <4>2. h \in [slot : Slot, device : Device] /\ g \in [slot : Slot, device : Device]
        BY DEF Inv, TypeOK
      <4>3. QED
        BY <4>1, <4>2
    <3>3. QED
      BY <3>1, <3>2 DEF HandlesHold
  <2>3. NoObjectLeaks
    <3> SUFFICES ASSUME \A t \in Task : task[t].pc \notin {"claim", "remove", "release"}
                 PROVE  {o \in Object : objects[o] # NoDevice}
                          = {devices[s].object : s \in {r \in Slot : devices[r].active}}
      BY DEF NoObjectLeaks
    <3>1. \A s \in Slot : Live(s) <=> devices[s].active
      BY DEF Live
    <3>2. \A o : ~Pending(o)
      BY DEF Pending
    <3>3. \A o \in Object : objects[o] # NoDevice =>
            \E s \in Slot : devices[s].active /\ devices[s].object = o
      BY <3>1, <3>2 DEF Inv, ObjectsOK
    <3>4. \A s \in Slot : devices[s].active =>
            devices[s].object \in Object /\ objects[devices[s].object] # NoDevice
      BY <3>1, NoDeviceIsNone DEF Inv, SlotsOK
    <3>5. QED
      BY <3>3, <3>4
  <2>4. QED
    BY <2>2, <2>3 DEF Inv, RegistryAgrees
<1>2. Init => Inv
  BY Initially
<1>3. Inv /\ [Next]_vars => Inv'
  BY Invariance
<1>4. QED
  BY <1>1, <1>2, <1>3, PTL DEF Spec

(***************************************************************************)
(* Why a device is parked.                                                 *)
(***************************************************************************)
\* Only t has a transaction on the slot of a device that only t uses.
LEMMA OnlyUser ==
  ASSUME Inv, NEW h \in held, NEW t \in Task, Users[h.device.addr] = {t},
         NEW u \in Task, Transacts(u), task[u].slot = h.slot
  PROVE  u = t
<1>1. PICK g \in held : g.slot = h.slot /\ u \in Users[g.device.addr]
  BY TransactionHandle
<1>2. g.device = h.device
  BY <1>1 DEF Inv, HeldOK
<1>3. QED
  BY <1>1, <1>2

\* A step leaves the slot alone, and t with it.
LEMMA CauseKept ==
  ASSUME Inv, NEW h, NEW t \in Task, CauseAt(h, t),
         devices'[h.slot] = devices[h.slot], units'[h.slot] = units[h.slot],
         \/ task'[t] = task[t]
         \/ task'[t].pc \notin {"transfer", "zero", "store"}
         \/ task'[t].slot # h.slot
  PROVE  CauseAt(h, t)'
BY DEF CauseAt

\* A step inside a transaction of u on another device than h's.
LEMMA CauseElsewhere ==
  ASSUME Inv, NEW h \in held, NEW t \in Task, CauseAt(h, t), Users[h.device.addr] = {t},
         NEW u \in Task, Transacts(u), u # t \/ task[u].slot # h.slot,
         \A v \in Task : v # u => task'[v] = task[v],
         task'[u].slot = task[u].slot \/ task'[u].slot = 0,
         \A s \in Slot : s # task[u].slot => devices'[s] = devices[s] /\ units'[s] = units[s]
  PROVE  CauseAt(h, t)'
<1>1. task[u].slot # h.slot
  BY OnlyUser
<1>2. h.slot \in Slot /\ h.slot # 0
  BY DEF Inv, TypeOK, Slot
<1>3. task'[t] = task[t] \/ task'[t].slot # h.slot
  BY <1>1, <1>2
<1>4. QED
  BY <1>1, <1>2, <1>3, CauseKept

\* The types that arithmetic on the slot of a handle needs.
LEMMA HandleType ==
  ASSUME Inv, NEW h \in held
  PROVE  /\ h.slot \in Slot /\ h.slot # 0
         /\ devices[h.slot] \in SlotRecord /\ devices[h.slot].fails \in Nat
         /\ devices[h.slot].available \in BOOLEAN
         /\ units[h.slot] \in 0 .. Threshold
<1>1. h.slot \in Slot /\ devices[h.slot] \in SlotRecord /\ units[h.slot] \in 0 .. Threshold
  BY DEF Inv, TypeOK
<1>2. QED
  BY <1>1 DEF SlotRecord, Slot

LEMMA CauseInitially == Init => CauseOK
BY DEF Init, CauseOK

\* What a step of task u inside a transaction does to the other tasks.
LEMMA OwnStep ==
  ASSUME Inv, NEW u \in Task,
         Transfer(u) \/ CountSuccess(u) \/ LoadCount(u) \/ StoreCount(u) \/ Park(u)
  PROVE  /\ Transacts(u) /\ held' = held
         /\ \A v \in Task : v # u => task'[v] = task[v]
         /\ task'[u].slot = task[u].slot \/ task'[u].slot = 0
         /\ \A s \in Slot : s # task[u].slot => devices'[s] = devices[s] /\ units'[s] = units[s]
<1>1. /\ task \in [Task -> TaskRecord] /\ devices \in [Slot -> SlotRecord]
      /\ units \in [Slot -> 0 .. Threshold] /\ Idle.slot = 0
  BY DEF Inv, TypeOK, TasksOK, Idle
<1>2. Transacts(u) /\ held' = held
  BY DEF Transacts, At, Transfer, CountSuccess, LoadCount, StoreCount, Park
<1>3. \A s \in Slot : s # task[u].slot => devices'[s] = devices[s] /\ units'[s] = units[s]
  BY <1>1 DEF Transfer, CountSuccess, LoadCount, StoreCount, Park
<1>4. /\ \A v \in Task : v # u => task'[v] = task[v]
      /\ task'[u].slot = task[u].slot \/ task'[u].slot = 0
  <2>1. CASE Transfer(u)
    BY <1>1, <2>1 DEF Transfer, Goto, TaskRecord
  <2>2. CASE CountSuccess(u)
    BY <1>1, <2>2 DEF CountSuccess, Return, TaskRecord
  <2>3. CASE LoadCount(u)
    BY <1>1, <2>3 DEF LoadCount, TaskRecord
  <2>4. CASE StoreCount(u)
    BY <1>1, <2>4 DEF StoreCount, Goto, TaskRecord
  <2>5. CASE Park(u)
    BY <1>1, <2>5 DEF Park, Return, TaskRecord
  <2>6. QED
    BY <2>1, <2>2, <2>3, <2>4, <2>5
<1>5. QED
  BY <1>2, <1>3, <1>4

\* The steps of t on its own device.
LEMMA CauseTransfer ==
  ASSUME Inv, NEW h \in held, NEW t \in Task, CauseAt(h, t), task[t].slot = h.slot, Transfer(t)
  PROVE  CauseAt(h, t)'
BY DEF CauseAt, Transfer, At, Goto, Inv, TasksOK, TaskRecord

LEMMA CauseSuccess ==
  ASSUME Inv, NEW h \in held, NEW t \in Task, CauseAt(h, t), task[t].slot = h.slot, CountSuccess(t)
  PROVE  CauseAt(h, t)'
<1>1. PICK s : s = h.slot
  OBVIOUS
<1>2. devices[s].available = TRUE /\ task[t].pc = "zero" /\ s \in Slot
  BY <1>1, HandleType DEF CauseAt, CountSuccess, At
<1>3. devices'[s].fails = 0 /\ devices'[s].available = TRUE /\ units'[s] = 0
  BY <1>1, <1>2, HandleType DEF CountSuccess, SlotRecord, Inv, TypeOK
<1>4. task'[t].pc # "store"
  BY <1>2 DEF CountSuccess, Return, Idle, Inv, TasksOK, TaskRecord
<1>5. QED
  BY <1>1, <1>3, <1>4 DEF CauseAt

LEMMA CauseLoad ==
  ASSUME Inv, NEW h \in held, NEW t \in Task, CauseAt(h, t), task[t].slot = h.slot, LoadCount(t)
  PROVE  CauseAt(h, t)'
<1>1. task'[t].pc = "store" /\ task'[t].fails = devices[h.slot].fails
  BY DEF LoadCount, Inv, TasksOK, TaskRecord
<1>2. UNCHANGED <<devices, units>>
  BY DEF LoadCount
<1>3. QED
  BY <1>1, <1>2 DEF CauseAt

LEMMA CauseStore ==
  ASSUME Inv, NEW h \in held, NEW t \in Task, CauseAt(h, t), task[t].slot = h.slot, StoreCount(t)
  PROVE  CauseAt(h, t)'
<1>1. PICK s : s = h.slot
  OBVIOUS
<1>2. /\ s \in Slot /\ units[s] \in 0 .. Threshold /\ task[t].fails \in Nat
      /\ task[t].pc = "store" /\ (task[t].fails <= units[s] \/ units[s] = Threshold)
      /\ devices[s].available = FALSE => units[s] = Threshold
  BY <1>1, HandleType DEF CauseAt, StoreCount, At, Inv, TasksOK, TaskRecord
<1>3. /\ devices'[s].fails = task[t].fails + 1 /\ devices'[s].available = devices[s].available
      /\ units'[s] = IF units[s] < Threshold THEN units[s] + 1 ELSE units[s]
  BY <1>1, <1>2, HandleType DEF StoreCount, SlotRecord, Inv, TypeOK
<1>4. task'[t].pc = "park"
  BY DEF StoreCount, Goto, Inv, TasksOK, TaskRecord
<1>5. /\ devices'[s].fails <= units'[s] \/ units'[s] = Threshold
      /\ units[s] = Threshold => units'[s] = Threshold
  BY <1>2, <1>3
<1>6. devices[s].available \in BOOLEAN
  BY <1>1, HandleType
<1>7. QED
  BY <1>1, <1>2, <1>3, <1>4, <1>5, <1>6 DEF CauseAt

LEMMA CausePark ==
  ASSUME Inv, NEW h \in held, NEW t \in Task, CauseAt(h, t), task[t].slot = h.slot, Park(t)
  PROVE  CauseAt(h, t)'
<1>1. PICK s : s = h.slot
  OBVIOUS
<1>2. /\ s \in Slot /\ units[s] \in 0 .. Threshold /\ devices[s].fails \in Nat
      /\ devices[s].available \in BOOLEAN
      /\ devices[s].fails <= units[s] \/ units[s] = Threshold
      /\ ~devices[s].available => units[s] = Threshold
  BY <1>1, HandleType DEF CauseAt
<1>3. /\ devices'[s].fails = devices[s].fails /\ units'[s] = units[s]
      /\ devices'[s].available = (devices[s].available /\ devices[s].fails < Threshold)
  BY <1>1, <1>2, HandleType DEF Park, SlotRecord, Inv, TypeOK
<1>4. task'[t].pc \in {"load", "idle"}
  BY DEF Park, Return, Idle, Inv, TasksOK, TaskRecord
<1>5. devices[s].fails >= Threshold => units[s] = Threshold
  BY <1>2
<1>6. ~devices'[s].available => units'[s] = Threshold
  <2>1. CASE devices[s].fails < Threshold
    BY <1>2, <1>3, <2>1
  <2>2. CASE ~(devices[s].fails < Threshold)
    BY <1>2, <1>3, <1>5, <2>2
  <2>3. QED
    BY <2>1, <2>2
<1>7. QED
  BY <1>1, <1>2, <1>3, <1>4, <1>6 DEF CauseAt

\* The steps of every action that keep the cause of a parked device.
LEMMA CauseInside ==
  ASSUME Inv, CauseOK, NEW u \in Task,
         Transfer(u) \/ CountSuccess(u) \/ LoadCount(u) \/ StoreCount(u) \/ Park(u)
  PROVE  CauseOK'
<1>1. /\ Transacts(u) /\ held' = held
      /\ \A v \in Task : v # u => task'[v] = task[v]
      /\ task'[u].slot = task[u].slot \/ task'[u].slot = 0
      /\ \A s \in Slot : s # task[u].slot => devices'[s] = devices[s] /\ units'[s] = units[s]
  BY OwnStep
<1> SUFFICES ASSUME NEW h \in held, NEW t \in Task, Users[h.device.addr] = {t}
             PROVE  CauseAt(h, t)'
  BY <1>1 DEF CauseOK
<1>2. CauseAt(h, t)
  BY DEF CauseOK
<1>3. CASE u # t \/ task[u].slot # h.slot
  BY <1>1, <1>2, <1>3, CauseElsewhere
<1>4. CASE u = t /\ task[u].slot = h.slot
  BY <1>2, <1>4, CauseTransfer, CauseSuccess, CauseLoad, CauseStore, CausePark
<1>5. QED
  BY <1>3, <1>4

LEMMA CauseClaim ==
  ASSUME Inv, CauseOK, NEW u \in Task, ClaimSlot(u)
  PROVE  CauseOK'
<1>1. PICK s, d : s = task[u].slot /\ d = task[u].device
  OBVIOUS
<1> DEFINE g == [slot |-> s, device |-> d]
<1>2. /\ task[u].pc = "claim" /\ held' = held \cup {g}
      /\ devices' = [devices EXCEPT ![s] =
           [active |-> TRUE, device |-> d, object |-> task[u].object,
            available |-> TRUE, fails |-> 0]]
      /\ units' = [units EXCEPT ![s] = 0]
  BY <1>1 DEF ClaimSlot, At
<1>3. s \in Slot /\ ~devices[s].active
  BY <1>1, <1>2 DEF Inv, PlaceOK, RegisterOK
<1>4. task'[u] = Idle /\ \A v \in Task : v # u => task'[v] = task[v]
  BY IdleType, SetTask DEF ClaimSlot, Return, Inv
<1>5. g.slot = s /\ Idle.pc = "idle"
  BY DEF Idle
<1>6. devices'[s].fails = 0 /\ devices'[s].available = TRUE /\ units'[s] = 0
  BY <1>2, <1>3 DEF Inv, TypeOK
<1>7. \A q \in Slot : q # s => devices'[q] = devices[q] /\ units'[q] = units[q]
  BY <1>2 DEF Inv, TypeOK
<1> HIDE DEF g
<1> SUFFICES ASSUME NEW h \in held', NEW t \in Task, Users[h.device.addr] = {t}
             PROVE  CauseAt(h, t)'
  BY DEF CauseOK
<1>8. CASE h \in held
  <2>1. h.slot \in Slot /\ h.slot # s
    BY <1>3, <1>8 DEF Inv, TypeOK, HeldOK
  <2>2. CauseAt(h, t)
    BY <1>8 DEF CauseOK
  <2>3. QED
    BY <1>4, <1>5, <1>7, <2>1, <2>2, CauseKept
<1>9. CASE h = g
  <2>1. \A v \in Task : Transacts(v) => task[v].slot # s
    BY <1>3 DEF Inv, PlaceOK, TransactOK, HeldOK
  <2>2. task'[t].pc \in {"transfer", "zero", "store"} => task'[t].slot # s
    BY <1>4, <1>5, <2>1 DEF Transacts
  <2>3. QED
    BY <1>5, <1>6, <1>9, <2>2 DEF CauseAt
<1>10. QED
  BY <1>2, <1>8, <1>9

\* Steps that leave the held slots and the tasks inside a transaction alone.
LEMMA CauseOutside ==
  ASSUME Inv, CauseOK, held' \subseteq held,
         \A h \in held : devices'[h.slot] = devices[h.slot] /\ units'[h.slot] = units[h.slot],
         \A t \in Task : task'[t] = task[t] \/ task'[t].pc \notin {"transfer", "zero", "store"}
  PROVE  CauseOK'
BY CauseKept DEF CauseOK

\* A slot is made available again, with its counter at zero.
LEMMA CauseReset ==
  ASSUME Inv, CauseOK, held' = held, units' = units,
         \A h \in held : \/ devices'[h.slot] = devices[h.slot]
                         \/ devices'[h.slot].fails = 0 /\ devices'[h.slot].available = TRUE,
         \A t \in Task : task'[t] = task[t] \/ task'[t].pc \notin {"transfer", "zero", "store"}
  PROVE  CauseOK'
<1> SUFFICES ASSUME NEW h \in held, NEW t \in Task, Users[h.device.addr] = {t}
             PROVE  CauseAt(h, t)'
  BY DEF CauseOK
<1>1. CauseAt(h, t)
  BY DEF CauseOK
<1>2. CASE devices'[h.slot] = devices[h.slot]
  BY <1>1, <1>2, CauseKept
<1>3. CASE devices'[h.slot].fails = 0 /\ devices'[h.slot].available = TRUE
  <2>1. 0 <= units[h.slot]
    BY HandleType
  <2>2. QED
    BY <1>1, <1>3, <2>1 DEF CauseAt
<1>4. QED
  BY <1>2, <1>3

LEMMA CauseTransact ==
  ASSUME Inv, CauseOK, NEW u \in Task, NEW s \in Slot, Transact(u, s)
  PROVE  CauseOK'
<1> SUFFICES ASSUME NEW h \in held, NEW t \in Task, Users[h.device.addr] = {t}
             PROVE  CauseAt(h, t)'
  BY DEF CauseOK, Transact
<1>1. CauseAt(h, t) /\ UNCHANGED <<devices, units>>
  BY DEF CauseOK, Transact
<1>2. /\ task'[u].pc = "transfer" /\ task'[u].slot = s /\ devices[s].available
      /\ \A v \in Task : v # u => task'[v] = task[v]
  BY DEF Transact, Idle, Inv, TasksOK
<1>3. QED
  BY <1>1, <1>2 DEF CauseAt

LEMMA CauseInvariance ==
  ASSUME Inv, CauseOK, [Next]_vars
  PROVE  CauseOK'
<1>1. Idle.pc = "idle"
  BY DEF Idle
<1>2. CASE UNCHANGED vars
  BY <1>2, CauseOutside DEF vars
<1>3. ASSUME NEW u \in Task, FindSlot(u) \/ AddDevice(u) \/ RemoveDevice(u) \/ ReleaseSlot(u)
      PROVE  CauseOK'
  <2>1. held' = held /\ units' = units
    BY <1>3 DEF FindSlot, AddDevice, RemoveDevice, ReleaseSlot
  <2>2. \A h \in held : devices'[h.slot] = devices[h.slot]
    <3>1. CASE UNCHANGED devices
      BY <3>1
    <3>2. CASE ReleaseSlot(u)
      <4>1. \A h \in held : h.slot # task[u].slot
        BY <3>2 DEF ReleaseSlot, At, Inv, PlaceOK, ReleaseOK, Releases
      <4>2. QED
        BY <3>2, <4>1 DEF ReleaseSlot, Inv, TypeOK
    <3>3. QED
      BY <1>3, <3>1, <3>2 DEF FindSlot, AddDevice, RemoveDevice
  <2>3. \A t \in Task : task'[t] = task[t] \/ task'[t].pc \notin {"transfer", "zero", "store"}
    BY <1>1, <1>3 DEF FindSlot, AddDevice, RemoveDevice, ReleaseSlot, Return, Goto, Inv, TasksOK,
                      TaskRecord
  <2>4. QED
    BY <2>1, <2>2, <2>3, CauseOutside
<1>4. ASSUME NEW u \in Task, Register(u) \/ Unregister(u) \/ RecoverBus(u)
      PROVE  CauseOK'
  <2>1. held' \subseteq held /\ units' = units /\ devices' = devices
    BY <1>4 DEF Register, Unregister, RecoverBus
  <2>2. \A t \in Task : task'[t] = task[t] \/ task'[t].pc \notin {"transfer", "zero", "store"}
    <3>1. task \in [Task -> TaskRecord]
      BY DEF Inv, TasksOK
    <3>2. CASE Register(u)
      BY <3>1, <3>2 DEF Register, Idle
    <3>3. CASE Unregister(u)
      <4>1. PICK n : \/ task' = [task EXCEPT ![u] = [Idle EXCEPT !.pc = "remove", !.slot = n]]
                     \/ task' = task
        BY <3>3 DEF Unregister
      <4>2. [Idle EXCEPT !.pc = "remove", !.slot = n].pc = "remove"
        BY DEF Idle
      <4>3. QED
        BY <3>1, <4>1, <4>2
    <3>4. CASE RecoverBus(u)
      BY <3>1, <3>4 DEF RecoverBus, Idle, NoDevice
    <3>5. QED
      BY <1>4, <3>2, <3>3, <3>4
  <2>3. QED
    BY <2>1, <2>2, CauseOutside
<1>5. ASSUME NEW u \in Task, EnableAll(u) \/ ReenableDevice(u)
      PROVE  CauseOK'
  <2>1. held' = held /\ units' = units
    BY <1>5 DEF EnableAll, ReenableDevice
  <2>2. \A s \in Slot : \/ devices'[s] = devices[s]
                        \/ devices'[s].fails = 0 /\ devices'[s].available = TRUE
    <3>1. devices \in [Slot -> SlotRecord]
      BY DEF Inv, TypeOK
    <3>2. CASE EnableAll(u)
      BY <3>1, <3>2 DEF EnableAll, SlotRecord
    <3>3. CASE ReenableDevice(u)
      BY <3>1, <3>3 DEF ReenableDevice, SlotRecord
    <3>4. QED
      BY <1>5, <3>2, <3>3
  <2>3. \A h \in held : h.slot \in Slot
    BY HandleType
  <2>4. \A t \in Task : task'[t] = task[t] \/ task'[t].pc \notin {"transfer", "zero", "store"}
    BY <1>1, <1>5 DEF EnableAll, ReenableDevice, Return, Inv, TasksOK
  <2>5. QED
    BY <2>1, <2>2, <2>3, <2>4, CauseReset
<1>6. CASE Dies
  BY <1>6, CauseOutside DEF Dies
<1>7. QED
  BY <1>2, <1>3, <1>4, <1>5, <1>6, CauseInside, CauseClaim, CauseTransact DEF Next, Step

\* A device that one task uses is parked for its failures only: on_tx_err and
\* on_rx_err count without the lock, resets and re-enables race with the count.
THEOREM ParkedDevicesFailed ==
  ASSUME OneRegistrar
  PROVE  Spec => []ParkedForCause
<1>1. CauseOK => ParkedForCause
  BY DEF CauseOK, CauseAt, ParkedForCause
<1>2. Init => Inv /\ CauseOK
  BY Initially, CauseInitially
<1>3. Inv /\ CauseOK /\ [Next]_vars => (Inv /\ CauseOK)'
  BY Invariance, CauseInvariance
<1>4. QED
  BY <1>1, <1>2, <1>3, PTL DEF Spec
=============================================================================
