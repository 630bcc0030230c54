------------------------------- MODULE Devices -------------------------------
(***************************************************************************)
(* The device registries of the I2C and SPI handlers                       *)
(* (src/src/system/handlers/i2c_handler.cpp, spi_handler.cpp and the       *)
(* adapters under them): slots that drivers claim and release, counted     *)
(* failures that park a device, and the recovery of a bus.                 *)
(*                                                                         *)
(* The two handlers have one design.  The key of a device on its port is   *)
(* its address on I2C and its chip select on SPI; SPI has one transaction, *)
(* which counts once, and no recovery.  The module is written for I2C; an  *)
(* SPI instance leaves "recover" out of Calls and 2 out of Counts.         *)
(*                                                                         *)
(* A spinlock guards the registry for as long as one scan or one slot's    *)
(* update takes; the counters and the available flag are read and written  *)
(* without it by transactions, which makes each access a step.  The driver *)
(* of the chip (IDF) is external: a set of device objects it has handed    *)
(* out, transfers that succeed or fail, resets that work or not.           *)
(*                                                                         *)
(* Abstractions.  The traffic statistics and the introspection calls that  *)
(* read them are left out; bytes, names and timeouts are too.              *)
(***************************************************************************)
EXTENDS Integers, FiniteSets

CONSTANTS
  Task,       \* tasks that call the handler
  Calls,      \* Calls[t]: the calls task t makes
  Port,       \* bus ports
  Mapped,     \* the ports whose pins the board's pinmap names
  Addr,       \* device keys that callers ask for
  ValidAddr,  \*   ... those that addr_valid accepts
  DeviceMax,  \* HX_I2C_DEVICE_MAX, HX_SPI_DEVICE_MAX
  Fragile,    \* device keys that may stop answering for good
  Users,      \* Users[a]: the tasks that make the transactions of device a
  Threshold,  \* HX_I2C_DEVICE_FAILURE_THRESHOLD
  Counts,     \* what a transaction counts for: 1, and 2 for a write-read
  Object,     \* device objects of the chip's driver
  NoObject,   \* the null handle
  MaxResets   \* bound: recoveries and re-enables

CallName == {"register", "unregister", "transact", "recover", "reenable"}

ASSUME CallAssumption   == Calls \in [Task -> SUBSET CallName]
ASSUME BusAssumption    ==
  Mapped \subseteq Port /\ ValidAddr \subseteq Addr /\ "none" \notin Port
ASSUME UserAssumption   ==
  Fragile \subseteq ValidAddr /\ Users \in [Addr -> SUBSET Task]
ASSUME ObjectAssumption == NoObject \notin Object
ASSUME NumberAssumption ==
  /\ DeviceMax \in Nat /\ MaxResets \in Nat
  /\ Threshold \in Nat \ {0} /\ Counts \subseteq Nat \ {0}

Slot == 1 .. DeviceMax

VARIABLES
  busReady,  \* g_ready of the adapter
  devices,   \* g_devices
  objects,   \* the driver's device objects: what each stands for, or NoDevice
  dead,      \* devices that have stopped answering for good
  held,      \* the handles that drivers hold: the slot and the device asked for
  task,      \* where each task stands in its call
  units,     \* history: failures counted for a slot since the last success
  resets     \* history: recoveries and re-enables so far

vars == <<busReady, devices, objects, dead, held, task, units, resets>>

NoDevice == [port |-> "none", addr |-> "none"]
Device   == [port : Port, addr : Addr]
FreeSlot == [active |-> FALSE, device |-> NoDevice, object |-> NoObject,
             available |-> FALSE, fails |-> 0]
Idle     == [pc |-> "idle", device |-> NoDevice, slot |-> 0, object |-> NoObject,
             fails |-> 0, left |-> 0]

At(t, label)   == task[t].pc = label
Goto(t, label) == task' = [task EXCEPT ![t].pc = label]
Return(t)      == task' = [task EXCEPT ![t] = Idle]
Enters(t, call) == At(t, "idle") /\ call \in Calls[t]

\* Tasks that are inside a call on the device in slot s.
Using(s) == {t \in Task : task[t].slot = s /\ ~At(t, "idle")}

(***************************************************************************)
(* Registration.                                                           *)
(***************************************************************************)
Register(t) ==
  /\ Enters(t, "register")
  /\ \E d \in Device :
       /\ busReady[d.port] /\ d.addr \in ValidAddr
       /\ task' = [task EXCEPT ![t] = [Idle EXCEPT !.pc = "find", !.device = d]]
  /\ UNCHANGED <<busReady, devices, objects, dead, held, units, resets>>

Registered(d) == \E s \in Slot : devices[s].active /\ devices[s].device = d

\* Mistake: the registry is not searched for the device.
FindSlotUnchecked(t) ==
  /\ At(t, "find")
  /\ \/ /\ \A s \in Slot : devices[s].active
        /\ Return(t)
     \/ \E s \in Slot :
          /\ ~devices[s].active /\ \A r \in 1 .. s - 1 : devices[r].active
          /\ task' = [task EXCEPT ![t].pc = "add", ![t].slot = s]
  /\ UNCHANGED <<busReady, devices, objects, dead, held, units, resets>>

\* Under the lock: no duplicate, and the first slot that is free.
FindSlot(t) ==
  /\ At(t, "find")
  /\ \/ /\ Registered(task[t].device) \/ \A s \in Slot : devices[s].active
        /\ Return(t)
     \/ /\ ~Registered(task[t].device)
        /\ \E s \in Slot :
             /\ ~devices[s].active /\ \A r \in 1 .. s - 1 : devices[r].active
             /\ task' = [task EXCEPT ![t].pc = "add", ![t].slot = s]
  /\ UNCHANGED <<busReady, devices, objects, dead, held, units, resets>>

\* The driver creates a device object, or refuses.
AddDevice(t) ==
  /\ At(t, "add")
  /\ \/ Return(t) /\ UNCHANGED objects
     \/ \E o \in Object :
          /\ objects[o] = NoDevice
          /\ objects' = [objects EXCEPT ![o] = task[t].device]
          /\ task' = [task EXCEPT ![t].pc = "claim", ![t].object = o]
  /\ UNCHANGED <<busReady, devices, dead, held, units, resets>>

\* Under the lock again; the caller gets a pointer to the slot.
ClaimSlot(t) ==
  LET r == task[t] IN
  /\ At(t, "claim")
  /\ devices' = [devices EXCEPT ![r.slot] =
       [active |-> TRUE, device |-> r.device, object |-> r.object,
        available |-> TRUE, fails |-> 0]]
  /\ held' = held \cup {[slot |-> r.slot, device |-> r.device]}
  /\ units' = [units EXCEPT ![r.slot] = 0]
  /\ Return(t)
  /\ UNCHANGED <<busReady, objects, dead, resets>>

\* The handle must not be used after this call (i2c_handler.h), so the caller
\* makes it when nobody is using the handle, and gives the handle up.
Unregister(t) ==
  /\ Enters(t, "unregister")
  /\ \E h \in held :
       /\ Using(h.slot) = {}
       /\ held' = held \ {h}
       /\ IF devices[h.slot].active
          THEN task' = [task EXCEPT ![t] = [Idle EXCEPT !.pc = "remove", !.slot = h.slot]]
          ELSE UNCHANGED task
  /\ UNCHANGED <<busReady, devices, objects, dead, units, resets>>

\* I2cAdapterRemoveDevice
RemoveDevice(t) ==
  /\ At(t, "remove")
  /\ objects' = [o \in Object |-> IF o = devices[task[t].slot].object THEN NoDevice
                                                                      ELSE objects[o]]
  /\ Goto(t, "release")
  /\ UNCHANGED <<busReady, devices, dead, held, units, resets>>

\* Under the lock the slot is zeroed.
ReleaseSlot(t) ==
  /\ At(t, "release")
  /\ devices' = [devices EXCEPT ![task[t].slot] = FreeSlot]
  /\ Return(t)
  /\ UNCHANGED <<busReady, objects, dead, held, units, resets>>

(***************************************************************************)
(* Transactions: I2cHandlerWrite, Read and WriteRead, SpiHandlerTransfer.  *)
(* A device that is parked is not touched: the call returns at once.       *)
(***************************************************************************)
Transact(t, s) ==
  /\ Enters(t, "transact")
  /\ \E h \in held : h.slot = s /\ t \in Users[h.device.addr]
  /\ devices[s].active /\ devices[s].available
  /\ \E n \in Counts :
       task' = [task EXCEPT ![t] = [Idle EXCEPT !.pc = "transfer", !.slot = s, !.left = n,
                                               !.object = devices[s].object]]
  /\ UNCHANGED <<busReady, devices, objects, dead, held, units, resets>>

\* The driver serialises the bus; a dead device never answers.
Transfer(t) ==
  /\ At(t, "transfer")
  /\ \/ objects[task[t].object] \notin dead /\ Goto(t, "zero")
     \/ Goto(t, "load")
  /\ UNCHANGED <<busReady, devices, objects, dead, held, units, resets>>

\* Mistake: a success does not end a streak of failures.
CountSuccessOnly(t) ==
  /\ At(t, "zero")
  /\ units' = [units EXCEPT ![task[t].slot] = 0]
  /\ Return(t)
  /\ UNCHANGED <<busReady, devices, objects, dead, held, resets>>

\* on_tx_ok, on_rx_ok: twice for a write-read, with nothing between that
\* another store could not undo as well after the second.
CountSuccess(t) ==
  LET s == task[t].slot IN
  /\ At(t, "zero")
  /\ devices' = [devices EXCEPT ![s].fails = 0]
  /\ units' = [units EXCEPT ![s] = 0]
  /\ IF task[t].left > 1 THEN task' = [task EXCEPT ![t].left = @ - 1] ELSE Return(t)
  /\ UNCHANGED <<busReady, objects, dead, held, resets>>

\* Mistake: failures are counted within a call only.
LoadCountFresh(t) ==
  /\ At(t, "load")
  /\ task' = [task EXCEPT ![t].pc = "store", ![t].fails = 0]
  /\ UNCHANGED <<busReady, devices, objects, dead, held, units, resets>>

\* on_tx_err, on_rx_err: consecutive_failures++ is a load ...
LoadCount(t) ==
  /\ At(t, "load")
  /\ task' = [task EXCEPT ![t].pc = "store", ![t].fails = devices[task[t].slot].fails]
  /\ UNCHANGED <<busReady, devices, objects, dead, held, units, resets>>

\* ... and a store.
StoreCount(t) ==
  LET s == task[t].slot IN
  /\ At(t, "store")
  /\ devices' = [devices EXCEPT ![s].fails = task[t].fails + 1]
  /\ units' = [units EXCEPT ![s] = IF @ < Threshold THEN @ + 1 ELSE @]
  /\ Goto(t, "park")
  /\ UNCHANGED <<busReady, objects, dead, held, resets>>

\* The device is parked at the threshold.
Park(t) ==
  LET s == task[t].slot IN
  /\ At(t, "park")
  /\ devices' = [devices EXCEPT ![s].available = @ /\ devices[s].fails < Threshold]
  /\ IF task[t].left > 1 THEN task' = [task EXCEPT ![t].pc = "load", ![t].left = @ - 1]
                         ELSE Return(t)
  /\ UNCHANGED <<busReady, objects, dead, held, units, resets>>

(***************************************************************************)
(* Recovery.                                                               *)
(***************************************************************************)
\* I2cHandlerRecoverBus up to the reset; a bus that is not up, or a reset that
\* fails, ends the call with nothing changed.
RecoverBus(t) ==
  /\ Enters(t, "recover") /\ resets < MaxResets
  /\ \E p \in Port :
       /\ busReady[p]
       /\ task' = [task EXCEPT ![t] = [Idle EXCEPT !.pc = "enable", !.device.port = p]]
  /\ resets' = resets + 1
  /\ UNCHANGED <<busReady, devices, objects, dead, held, units>>

\* Under the lock every device of the port is available again.
EnableAll(t) ==
  /\ At(t, "enable")
  /\ devices' = [s \in Slot |->
       IF devices[s].active /\ devices[s].device.port = task[t].device.port
       THEN [devices[s] EXCEPT !.available = TRUE, !.fails = 0]
       ELSE devices[s]]
  /\ Return(t)
  /\ UNCHANGED <<busReady, objects, dead, held, units, resets>>

\* I2cHandlerReenableDevice
ReenableDevice(t) ==
  /\ Enters(t, "reenable") /\ resets < MaxResets
  /\ \E h \in held :
       /\ devices[h.slot].active
       /\ devices' = [devices EXCEPT ![h.slot].available = TRUE, ![h.slot].fails = 0]
  /\ resets' = resets + 1
  /\ UNCHANGED <<busReady, objects, dead, held, task, units>>

\* A device is unplugged for good.
Dies ==
  /\ \E d \in [port : Mapped, addr : Fragile] \ dead : dead' = dead \cup {d}
  /\ UNCHANGED <<busReady, devices, objects, held, task, units, resets>>

(***************************************************************************)
(* Specification.                                                          *)
(***************************************************************************)
\* After I2cHandlerInit: the driver may have refused a mapped port.
Init ==
  /\ busReady \in [Port -> BOOLEAN] /\ \A p \in Port : busReady[p] => p \in Mapped
  /\ devices = [s \in Slot |-> FreeSlot]
  /\ objects = [o \in Object |-> NoDevice]
  /\ dead = {} /\ held = {}
  /\ task = [t \in Task |-> Idle]
  /\ units = [s \in Slot |-> 0] /\ resets = 0

Step(t) ==
  \/ FindSlot(t) \/ AddDevice(t) \/ ClaimSlot(t)
  \/ RemoveDevice(t) \/ ReleaseSlot(t)
  \/ Transfer(t) \/ CountSuccess(t) \/ LoadCount(t) \/ StoreCount(t) \/ Park(t)
  \/ EnableAll(t)

Next ==
  \/ \E t \in Task :
       \/ Register(t) \/ Unregister(t) \/ RecoverBus(t) \/ ReenableDevice(t)
       \/ \E s \in Slot : Transact(t, s)
       \/ Step(t)
  \/ Dies

Spec == Init /\ [][Next]_vars

\* Tasks run, and drivers poll the devices they hold.
Fairness ==
  /\ \A t \in Task : WF_vars(Step(t))
  /\ \A s \in Slot : SF_vars(\E t \in Task : Transact(t, s))

FairSpec == Spec /\ Fairness

(***************************************************************************)
(* Properties.                                                             *)
(***************************************************************************)
SlotRecord == [active : BOOLEAN, device : Device \cup {NoDevice},
               object : Object \cup {NoObject}, available : BOOLEAN, fails : Nat]
Pc == {"idle", "find", "add", "claim", "remove", "release", "transfer", "zero",
       "load", "store", "park", "enable"}

TypeOK ==
  /\ busReady \in [Port -> BOOLEAN]
  /\ devices \in [Slot -> SlotRecord]
  /\ objects \in [Object -> Device \cup {NoDevice}]
  /\ dead \subseteq Device
  /\ held \subseteq [slot : Slot, device : Device]
  /\ \A t \in Task : task[t].pc \in Pc /\ task[t].slot \in Slot \cup {0}
  /\ units \in [Slot -> 0 .. Threshold] /\ resets \in 0 .. MaxResets

\* A handle stands for the device it was asked for as long as it is held: its
\* slot is claimed for that device, with a driver object of that device, and
\* no other handle has the slot or the device.
HandlesHold ==
  /\ \A h \in held :
       /\ devices[h.slot].active /\ devices[h.slot].device = h.device
       /\ devices[h.slot].object \in Object
       /\ objects[devices[h.slot].object] = h.device
  /\ \A h, g \in held : h.slot = g.slot \/ h.device = g.device => h = g

\* When no registration or release is under way, the driver's objects are
\* those of the claimed slots: a refused or undone registration leaves none
\* behind in the driver, which has a limited number of them.
NoObjectLeaks ==
  (\A t \in Task : task[t].pc \notin {"claim", "remove", "release"}) =>
    {o \in Object : objects[o] # NoDevice}
      = {devices[s].object : s \in {r \in Slot : devices[r].active}}

\* The drivers' handles, the registry and the chip driver agree, through
\* registrations that are refused or fail at any step, full registries and the
\* transactions and recoveries of another task.
RegistryAgrees == TypeOK /\ HandlesHold /\ NoObjectLeaks

\* A device that one task uses is parked only after as many counted failures
\* as the threshold since its last success, whatever device its slot was
\* claimed for before and whichever calls reset counters meanwhile.
ParkedForCause ==
  \A h \in held : \A t \in Task :
    Users[h.device.addr] = {t} /\ ~devices[h.slot].available => units[h.slot] = Threshold

\* A device that never answers again is parked, or given up by its driver,
\* although tasks that share it lose each other's increments of the counter.
DeadIsParked ==
  \A s \in Slot :
    (devices[s].active /\ devices[s].device \in dead)
      ~> (~devices[s].active \/ ~devices[s].available)
=============================================================================
