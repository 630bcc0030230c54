# A verification project for HexaOS

HexaOS is a firmware platform for ESP32 boards: an Arduino `loop()` task runs a
small set of services (state, configuration, log, files, network, pinmap),
modules built on them (storage, web, drivers on I2C and SPI), and a console.
This directory holds TLA+ models of them, the TLC runs that check them on small
instances, and TLAPS proofs of what matters most.  `PROJECT.json` maps every
definition to the lines it models and lists the runs, mutants, findings,
hazards and theorems.

    tlc -config state_seq.cfg MCHexaState        # any run: <name>.cfg on its MC module
    tlapm HexaStateProofs.tla                    # the proofs of a component; so for Files,
                                                 # Network, Config, Devices, Pinmap and
                                                 # WebConsole; LoopProofs.tla has those of
                                                 # Console and Storage

## 1. The system

### Tasks

| task | runs |
|---|---|
| Arduino loop task | `loop()`: serial console (`UserInterfaceLoop`), `StateLoop`, module ticks every 10 ms / 100 ms / 1 s (`src/src/hexaos.cpp`) |
| AsyncTCP task | web routes and the WebSocket console, which executes the same command lines (`mod_web.cpp:153`); joins, acknowledgements and departures of browsers |
| IDF event-loop task | WiFi and Ethernet events, straight into the network handler |
| esp_timer task | the restart scheduled by a web route |

Three locks are held across calls of other code: `g_files_mutex`, which every
file call takes; the log sink mutex, under which a line is written and the
prompt drawn again; and the web socket's recursive lock in the vendored server.
They meet, since the file handler logs with its mutex taken, a log call ends in
a broadcast, and the server logs a browser that joins with its lock taken.  All
other shared state is behind spinlocks held for a copy or one slot, or behind
nothing.  The hard behaviour of this code is therefore the interleaving of
calls at the granularity of critical sections, accesses to NVS, a bus or a card
that fail or are cut off by a power loss, and delayed work (the commit window,
the WiFi retry, the check of the card).

### Components

| component | state it keeps | operations | talks to | what makes it correct |
|---|---|---|---|---|
| state (`core/state.cpp`) | registry, pending buffer, commit window, sequence number | create, delete, set, increment, decrement, toggle, erase, read, commit, loop, format, init/load | NVS adapter; config for `states.delay`; called by console, web, loop | no write is lost or reordered; the catalog survives reboots; a delayed commit happens |
| config (`core/config.cpp`) | `HxConfigData`, ready flag | set, toggle, reset, defaults, load, save, apply, factory format | NVS adapter, log levels, safeboot flag | a saved configuration is what a reboot finds; what is set stays set and is applied |
| NVS adapter | one handle per store | open, read, set, erase, commit, format | ESP-IDF NVS | - |
| files (`handlers/files_handler.cpp`) | mutex, ready and mounted flags | read, write, append, atomic write, remove, rename, mount, unmount, format | LittleFS adapter, SD adapter | files are whole, calls return, the flag tells the truth |
| network (`handlers/network_handler.cpp`) | connection state, retry counter and scheduler, credentials, Ethernet flag | connect, disconnect, auto-connect, every second, WiFi and Ethernet callbacks | WiFi / Ethernet adapters, `Hx` flags, config | retries happen and end; the flag and the default route follow the interfaces |
| I2C / SPI handlers and adapters | device registry with failure counters, driver objects | register, unregister, transfer, recover, re-enable | IDF bus drivers, pinmap | a handle stands for its device; a device is parked when it fails for good, and not without cause |
| storage module, SD adapter | bus pins, card object, LDO, power switch, mounted flags, check scheduler | init, start, tick: health check, mount, unmount | IDF SD driver, LittleFS, `Hx` flags | the mount follows the card and the power the mount, through every failure; checks come on time |
| pinmap (`core/pinmap.cpp`) | lookup tables both ways, bindings, ready flags | init at boot, validate, lookups | config; asked by every driver | answers come from the layout accepted last, and the rules decide what is accepted |
| log (`core/log.cpp`) | sink mutex, byte ring, callbacks | log, print, write, copy and clear of the history | serial port, user interface, web console | lines are not torn, the ring is what was shown |
| user interface (`core/user_interface.cpp` and its handler) | line being typed, flags of the editor | a byte at a time; erase and redraw of the prompt | log, commands | the shell shows what it will execute |
| web module | web socket with its clients and queues | broadcast, history for a new browser, commands | log, files, every command; AsyncWebServer and AsyncTCP (vendored) | nobody uses a browser that left; no line is missed; no deadlock |
| scheduler (`core/scheduler.h`) | one deadline per user | init, due, reset, enable | storage, network, state (its own copy of the comparison) | due once an interval, also when the time wraps around |
| module registry, boot, main loop | ready flags | init, start, ticks | everything | a module that is not ready is not started or ticked |
| time, UART, panic, Berry, LVGL, assets | clock; ready flags | - | - | sequential or empty; see PROJECT.json |

`PROJECT.json` lists every component, the ones without a model too, and under
`hazards` each place where this code is exposed to something a test would hardly
reach.

## 2. The modules

| module | models | run by |
|---|---|---|
| `HexaState` | the state service with its NVS store | `MCHexaState` |
| `HexaStateProofs` | theorems about it, and that it implements `KeyValueStore` | tlapm |
| `Files` | files handler and LittleFS, internal backend | `MCFiles` |
| `FilesProofs` | theorems about it | tlapm |
| `Network` | network handler, adapters' event handlers, an external driver | `MCNetwork` |
| `NetworkProofs` | theorems about it | tlapm |
| `KeyValueStore` | what the state service promises: the abstract specification | `MCHexaState` |
| `StateRefinement` | the mapping from `HexaState` to it | `MCHexaState` |
| `Config` | configuration service and the calls of its commands and routes | `MCConfig` |
| `ConfigProofs` | theorems about it | tlapm |
| `Devices` | I2C and SPI handlers and their adapters | `MCDevices` |
| `DevicesProofs` | theorems about it | tlapm |
| `Pinmap` | runtime pinmap: init, validation, lookups | `MCPinmap` |
| `PinmapProofs` | theorems about it | tlapm |
| `Console` | log service and line editor on one terminal | `MCConsole` |
| `Scheduler` | the domain scheduler as operators on wrapping time | `Storage` |
| `Storage` | storage module, SD adapter, registry and loop above them | `MCStorage` |
| `LoopProofs` | theorems about `Console` and `Storage` | tlapm |
| `WebConsole` | WebSocket console over log, files mutex and the vendored server | `MCWebConsole` |
| `WebConsoleProofs` | theorems about it | tlapm |

In all of them a task is a program counter (a label, or the list of stages left)
with the locals its call still needs.  One step is one critical section, one
access to NVS or LittleFS, or one access to an unprotected global; everything a
handler does between two such points is in the same step.  Operators that begin
with a comment `Mistake:` are plausible bugs: each property has one that breaks
it, which is how we know that the property looks at the code.

### HexaState

`registry`, `pending`, `pendingSeq` and `window` are `g_runtime_states`,
`g_state_pending`, `g_state_pending_seq` and the two commit-window variables
(`"due"` stands for a deadline that has passed).  `nvs` is what a read of the
open handle returns, `durable` what certainly survives a power loss; a `Crash`
keeps any subset of the difference.  A key of type int32 stands for every type.

| actions | code |
|---|---|
| `Set`, `Erase`, `Increment`, `Decrement`, `Lookup`, `ReadNvs`, `Resolve`, `StageValue`, `Schedule` | `StateSetIntEx`, `StateEraseEx`, `StateIncrementInt`, `StateReadInt`, `StateStagePending*`, `StateScheduleValueCommit` |
| `Clone`, `Apply`, `Flush`, `Clear`, `CountRemaining`, `ResetWindow`, `RearmWindow`, `StoreFault` | `StateCommit` and every way it fails |
| `Create`, `Insert`, `BuildCatalog`, `StageCatalog`, `Rollback` | `StateEnsure` / `StateCreate` with their failures |
| `Delete`, `FlushBeforeDelete`, `StageErase`, `Remove`, `Discard*` | `StateDelete` |
| `Format*` | `StateFormat` |
| `LoopDue`, `TimePasses`, `ChangeDelay` | `StateLoop`, `millis()`, a new `states.delay` |

Simplifications: `StateBuildRuntimeCatalog` locks once per slot and the model
reads all slots in one step; `HxNvsFormat` (close, erase, open) is one step for
this store (in `Config` it is two); the sequence number does not wrap.

### KeyValueStore and StateRefinement

`KeyValueStore` says what callers of `state.h` rely on and nothing of buffers,
windows and NVS: a write is current at once; it becomes durable later, per key
in the order of the writes; a power loss keeps, for each key, what was saved or a
later write; only a create, a delete or a format that fails gives up a write,
and only its own or the catalog's; a key that is unregistered by a delete has
left the durable catalog before.  `StateRefinement` maps `value` to what a read
returns (`Visible`), `saved` to `durable`, `unsaved` to the writes still on their
way (`InFlight`: in the buffer, in the snapshot of a commit, or in NVS without a
flush), and the calls in progress to the tasks' program counters.  The catalog
is a key of the store like the others.  Run `state_race` checks the mapping.

### Files

`disk` maps paths to contents (sequences of chunks, so that part of a write is a
prefix), `lfs` says whether LittleFS is really mounted and `mounted` is the flag
the handler keeps. `holder` is `g_files_mutex`. An atomic write is `CleanTemp`,
`WriteTemp`, `RemoveTarget`, `RenameTemp` (or `RemoveTemp` on the error path),
in the order of `FilesWriteBytesAtomicInternal`. A LittleFS call may fail, a
write then leaves any prefix, and `File::flush`, whose failure the adapter does
not see, may lose the end silently (`flushFaults`). A read answers with the
file, or with false or a beginning of it when one of its own calls fails
(`FilesRead`). `settled`, `got` and `plain` are history variables of the
properties.

### Network

The event-loop task (`event`) handles one event at a time, one access to a
shared global per step, since nothing is locked: `g_retry_count++` is
`ReadCount` and `StoreCount`. The calling tasks run `NetworkConnect`,
`NetworkDisconnect` and `NetworkEverySecond` in the same grain, after the loop
task has run `NetworkStart` and `NetworkAutoConnect`, which connects if there is
a saved name. The driver is external: it may refuse a connect or a disconnect,
it answers accepted attempts, and the WiFi and the Ethernet may come and go at
any time; its events wait in `queue`.

### Config

A call is the list of stages that its command or route goes through (`Plan`):
`"copy"`, `"put"` for a set, `"snap"`, `"store"` (once per key), `"flush"` for a
save, `"read"`, `"erase"`, `"repair"`, `"install"` for a load, `"close"`,
`"wipe"` for a format, `"apply"`, `"push"` for `ConfigApply`.  A stored entry
that a key does not accept is `Junk`; the first boot finds any combination of
entries.  `offers` (the values a reboot may find) and `last` (the last value
given to each key) are history variables.

### Devices

One module for two handlers of one design; it is written for I2C, and an SPI
instance is the same with `Counts = {1}` and without `recover`.  `devices` is
the registry, `objects` what the chip's driver (external) has handed out,
`held` the handles drivers believe in.  A registration is `Register`, `FindSlot`
(a scan under the spinlock), `AddDevice` (the driver's call, no lock),
`ClaimSlot`; a transaction is `Transact`, `Transfer`, then `CountSuccess`, or
`LoadCount` and `StoreCount` (the `++` of a volatile counter) and `Park`.
`RecoverBus`, `EnableAll` and `ReenableDevice` reset counters meanwhile.
`Counts = {1, 2}` because a failed write-read counts twice.  `Dies` is a device
that stops answering.

### Pinmap

The tables are rebuilt in place, one stage of `PinmapInit` per step
(`ResetState`, `ParsePins`, `BuildReverseLookup`, `ReadBindings`,
`CheckBindings`, `Commit`); a validation is the same between `Capture` and
`Restore`. `ChangeConfig` is another task that edits the configuration. The
stages use the checks of the code (`AssignmentOK`, `ParseBindings`,
`HelpersFree`, `MatchesPinmap`), loops over arrays; `Good` is the reference they
are compared with, written from the rules of `docs/PINMAP_BUILD_INTEGRATION.md`
over the texts and not the tables: valid pins that are not reserved for the
flash or the PSRAM, with the capabilities that their function needs, and so on.

### Console

The terminal is the row the cursor is on, with what `\b`, `\r` and a character do
to it.  A log call is `Log` (takes the sink), `WriteLine` (the hook that erases
the prompt, and the line), `StoreLine` (the ring, `AppendHistory` with
`DropOldest`), `Redraw`.  The editor is the UI task: `TypeKey`, `Echo`,
`Backspace`, `Rub`, `PressEnter` and what follows, with the CR/LF pairing of
`wasCr` and the overflow warning.  Between a change of the line and its echo a
redraw by another task shows the changed line already; the code has such a
window in three places, and `torn` records that one was hit.  The properties except
those moments and say so.

### Scheduler and Storage

`Scheduler` is `HxSchedulerDue` with its signed difference over times modulo
`Cycle` (2^32 in the code). `Storage` drives the SD adapter by it: `EverySecond`
is a pass of the loop, up to `MaxLate` after its tick; a mount is a chain of
`NewLdo`, `PowerOff`, `PowerOn`, `MountVfs`, `SetMounted` with a failure at each
(`MountRefused`, `MountFailsKeeping`, `MountFails`); a check is `CheckHealth`,
then `UnmountVfs` and `Release` if the card is silent; an unmount that fails is
only logged and releases the same things. `Swap` puts a card in, pulls it out or
changes it between any two of these. All boards of `SomeMaps` are initial
states, so that `Resolved` (native set, else hosted set, else none; 1 or 4 bits)
is exercised. FreeRTOS ticks and the registry's rules (a module whose init fails
is neither started nor ticked) are part of the actions.

### WebConsole

A composition: the log service of `Console` reduced to its mutex and the number
of lines stored, the mutex of `Files` with the two things the handler does under
it that leave it (log, list to the caller), and the client list, queues and
recursive lock of `AsyncWebSocket.cpp`. A log call is `Log`, `Emit`, `GiveSink`,
`Count` (`ws.count`), `TextAll`, `TextEach` (one client per step); a files call
is `FilesCall`, `FilesTakeLock`, a log call or not, `FilesGiveLock`. The network
task handles one event at a time: `Join` with `HistorySize`, `HistoryCopy`,
`Ready`; `Command` with `CommandTakeLock`, `List`, `Output`; `Ack`;
`CloseFrame`; `OnDisconnect` with `Leave` and `Left`. Joins and departures log
while they hold the web socket's lock. A queue that overflows closes its client,
which the vendored code erases in the middle of the loop over the clients;
`reset` stands for the undefined behaviour that follows. It does happen: the
instance `web_overflow` below reaches it. `OnDisconnect` clears `_client`
without a lock, before `Leave` waits for it; messages in between are not queued
(`Linked`), and a log call that has just found `_client` set may fail (`InUse`),
which is a `reset` as well.

## 3. The runs

| run | question | result |
|---|---|---|
| `state_seq` | one task, every call, power losses at every step: do buffer, window, registry and store agree between calls, does a successful commit keep its promise, is there always a slot? | holds |
| `state_race` | two tasks write while one commits, with a failing access: is any write lost, cleared early, read stale or undone in NVS, and is every step one of `KeyValueStore`? | holds |
| `state_live` | does every write reach NVS, through delays and refused commits? | holds |
| `state_window_race` | does every write reach NVS with two tasks (ReleaseV002.md:163)? | violated |
| `files` | every files call by two tasks, with failures and power losses | holds |
| `network` | flags, default route, retry limit, retries, disconnect | holds |
| `config` | every call by one task, saves by another, faults, power loss, any stored content | holds |
| `devices` | drivers come and go on one task, two tasks use devices, one recovers the bus: do handles, slots and driver objects agree, is a device parked for cause, and a dead one at all? | holds |
| `pinmap` | every small layout at boot, edits during a validation: is each verdict right, does each lookup answer from the accepted layout? | holds |
| `console` | two tasks log while a user types, rubs out, enters and clears: do screen, line and ring fit? | holds |
| `storage` | cards come and go at any step, driver calls fail, the clock wraps: does the mount follow the card, the power the mount, and do checks come on time? | holds |
| `web` | two tasks log and call files while browsers come, command and leave: is there a circle of locks, a dangling client, a missed line? | holds |

The violation is the `findings` entry of `PROJECT.json`, with the sentence it
disagrees with and the steps that lead to it.

### Instances run by hand

Each of these shows, in a few seconds, why a property above has the premise it
has: it drops the premise and TLC finds the property, or the sentence of the
documentation, violated.  `PROJECT.json` does not list them as runs.

| configuration | on | drops | violated | said in |
|---|---|---|---|---|
| `state_inc` | `MCHexaState` | - | `IncrementAtomic`: increments of two tasks are lost | ReleaseV002.md:166 |
| `state_catalog_race` | `MCHexaState` | one creating task | `RegistryPersisted`: an older catalog overwrites a newer | StateHandler.MD:124 |
| `network_flag` | `MCNetwork` | - | `OnlineMeansIp`: the flag stays after the address is lost | network_handler.cpp:28 |
| `config_lost` | `MCConfig` | one writing task | `SetsAreKept`: a copy taken before another task's set undoes it | Config_State_Schema.md:226 |
| `files_power` | `MCFiles` | - | `PowerSafe`: the target is removed before the rename | ReleaseV002.md:227 |
| `devices_register_race` | `MCDevices` | one registering task | `RegistryAgrees`: two get the same free slot | i2c_handler.cpp:170 |
| `pinmap_two` | `MCPinmap` | one validating task | `VerdictIsRight`: two build the same tables | pinmap.cpp:739 |
| `console_torn` | `MCConsole` | the premise `~torn` | `ShellAlwaysShows` | log.cpp:7-11 |
| `storage_flash_fails` | `MCStorage` | a flash that mounts | `BackendsIndependent`: the module is then not ready, and SD never tried | mod_storage.cpp:8-10 |
| `web_overflow` | `MCWebConsole` | the premise `~reset` | `NeverOverflows`: a full queue erases a client in use | mod_web.cpp:68-69 |

### Bounds

Every bound is a CONSTANT of its module and appears as a guard.

- `HexaState`: `MaxSeq` stops new calls after that many staged writes (4 to 6:
  enough for two creates with their catalogs, a write each and a delete);
  `MaxFaults` and `MaxCrashes` are 0 or 1, and a crash may hit any step.
  `PendingMax = 3` and `RuntimeMax = 2` keep the real proportion (96 slots for 64
  keys and the catalog) at its tightest, so that a slot that is wasted is missed.
  Three keys for a registry of two make registration fail.  `state_seq` and
  `state_race` use the symmetry of the keys, the liveness runs do not.
- `Files`: contents of one chunk, appended up to `MaxLength`; two targets with a
  temporary file each; one fault and one power loss.  An atomic write with one
  fault reaches all its error paths, and the second target shows that a call
  touches only its own.
- `Network`: a limit of three retries, the connect of the start and two calls,
  two changes of a link or an address, one refused connect or disconnect: enough
  for a connection that is lost, retried and disconnected while the event is
  being handled.
- `Config`: two keys, one applied at once and one not, three values (so that a
  stale value, a new one and the default differ), three calls, one fault and one
  crash.
- `Devices`: a registry of two slots for two devices, so that it is full and a
  slot is claimed again for the other; threshold 2, so that a write-read parks
  at once and a single failure does not; `MaxResets` one recovery or re-enabling.
- `Pinmap`: five GPIOs of every kind (both ways, input only, flash, PSRAM), one bus
  of each type, two bindings at most and lists of three; two edits, so that one
  can fall between reading the pins and the bindings and one after both.
- `Console`: a line of two characters, so that it overflows; a ring of seven
  cells for lines of two to four, so that it wraps, drops and once holds a part;
  three lines, two enters, one clear.
- `Storage`: five swaps and two faults: a card that is mounted, pulled out,
  changed and mounted again, with a mount that fails in between.  `Cycle = 16` with
  an interval of 3 wraps in the middle of every behaviour.
- `WebConsole`: two browsers and queues of three messages, which is what a join
  queues before anything can be acknowledged (the line it logs, the history, the
  greeting): a browser that was sent a history goes on to acknowledge it and to
  get lines, and its queue still overflows. Two log or files calls beside what
  joins and departures log; with three tasks that is one for each lock.

`CHECK_DEADLOCK FALSE` stands where the bounds stop the system: `network`,
`config`, `devices`, `storage` and `web` (no calls, swaps or browsers left).
`HexaState` has an explicit `Rest` step for the same state, and still finds a
task that cannot move; `files`, `pinmap` and `console` are checked for deadlock,
and in `web` the property `NoCircle` says it of everything that is under way.

### Fairness

Weak fairness of a task's steps says that FreeRTOS keeps running it.
`HexaState` adds strong fairness of `LoopDue` (the loop task calls `StateLoop`
in every pass, and is in a call of its own infinitely often) and weak fairness of
time.  `Files` adds strong fairness of taking the mutex (FreeRTOS wakes waiters
in order of priority and arrival).  `Network` adds the event task, the
one-second tick, time, and a driver that answers what it accepted.  `Devices`
adds that a driver polls a device it holds, as the drivers' ticks do.  `Storage`
has the loop task and the one-second tick.  No fairness is assumed of commands,
links, cards, faults or power losses.  `Console`, `Pinmap`, `Config` and
`WebConsole` have safety properties only.

### Known limits of the properties

- `Devices`: a device that two tasks share may be parked right after a success,
  and a recovery's clean slate is undone by an increment under way
  (i2c_handler.h:37-38 calls increments atomic, which `++` of a volatile is
  not); `ParkedForCause` is about devices of one task.
- `Pinmap`: lookups during a validation see half-built tables; they are the
  code's, and `AnswersAreAccepted` is about the time between calls.  Two I2C
  bindings of the same address are accepted; the rules do not forbid it.
- `Console`: stamps are computed before the sink is taken, so lines may be out of
  order by their stamps; the level filter and the drop in interrupts are left out.
- `Storage`: calls on the card's files take no lock (`files_handler.cpp:580-771`)
  and are not modelled, so nothing is said of a call that an unmount overtakes.
- `WebConsole`: nothing is said after a reset, by an overflow or by a connection
  that ends while a log call uses it: the vendored `_onDisconnect` clears
  `_client` without a lock, and `_queueMessage` and `_runQueue` use it on whatever
  task logs (`NeverResets` of `MCWebConsole`).  One message for one client is one
  step, so the two uses are told apart by where the log call stands.

## 4. The proofs

### HexaStateProofs

`TypeCorrect`: `Spec => []TypeOK`.  The record types alone are not inductive: a
step uses what the call that got there has in hand, so `TypeOK` says where a
call of each kind can be and what it holds (`CallOK`), and that buffer,
snapshots and both stores hold only what a key may hold (`GoodBuffer`,
`GoodStore`).

`OneSlot`: `Spec => []OneSlotPerKey`.  A stage reuses the slot of its key when
there is one; that this finds a slot at all needs the first-match scan to be
well-defined (`LeastNat`, `FirstExists`, from well-foundedness of the naturals).

`SeqNames`: `Spec => []SeqNamesWrite` if no task formats (a format restarts the
numbers while a commit may hold a snapshot).  The inductive invariant `SeqInv`
adds that all numbers in the buffer and in the snapshots are at most
`pendingSeq`, so that the next number is new, and that numbers in the buffer
differ.

These three hold for any number of tasks, keys and slots, any mix of calls (but
formats, for the third) and any bounds, from the named ASSUMEs of `HexaState` alone.

**Many writers, one committer.**  `SingleCommitter` says that no task formats,
that only the loop task commits, creates, erases and deletes, and that the other
tasks set, increment and decrement, with a commit delay that is not zero.  It is
a restriction: nothing in the code keeps a user from typing `state create`,
`state erase` or `state delete` at the web console, and with two such tasks an
older catalog may overwrite a newer one (`state_catalog_race`).
`CommitterInv` has four parts: `WritersOK`, where a writer can be; `ReadsOK`, what is visible is the last write, except for
a key whose erasure is under way; `NumbersOK`, numbers in both stores stay
within the counter, and NVS is not ahead of the buffer; `CommitOK`, a slot that
was snapshot still holds its key with the same or a newer write, and what the
commit has applied and flushed is in NVS and durable.  From it:
`ReadsSeeLatest`, `ClearsDurable` (except for the slots a reset empties) and
`NvsGoesForward`.

**The refinement.**  `Implementation`, under `SingleCommitter` too, proves
`Spec => ImplementsStore`: every step of `HexaState` is a step of `KeyValueStore` or
leaves what the mapping shows alone.  Staging is a `Write`; applying and
flushing, and the clearing that follows, are a `Persist`; a discard is a
`GiveUp`; `Insert` is `Register`; `Rollback` and `Remove` are `Unregister`;
`Crash` is `PowerLoss`; everything else stutters.  The mapping needs `StoreInv`:
NVS holds what is durable or a later write (`DurableOK`), a number names the
same write in NVS and in the buffer (`NamedOK`), only a commit that applies has
something left to apply (`TodoOK`), and at each place of a delete the catalog
that it is about to make durable, in the buffer, the snapshot or NVS, lists the
key no more (`LoopAt`, `GoneAt`); the last is why a key is never unregistered
before the durable catalog has lost it.  TLC agreed with `StoreInv` before it
was proved.

**One task, no failing access.**  Under `OneTask` (the loop task alone, no NVS
fault, more slots than registry entries; power losses at every step and formats
included) `AloneInv` says exactly what buffer, snapshot, catalog and both stores
are at each place of each call (`PlaceAt`, `CatalogAt`, `StagedAt`, `SnapAt`).
That a write always finds a slot (`AlwaysRoom`) is a pigeonhole argument: slots
have different keys (`OneSlotPerKey`), all of them registered or the catalog,
and there are fewer of those than slots (`FreeSlotLeft`).  From it:
`BufferInStep`, `RegistrySurvives` and `CommitIsDurable`.  The hypothesis is
what these properties are true of: `state_catalog_race` and `state_window_race`
break them with two tasks (a catalog overwritten by an older one; a write that
stays staged and is not scheduled), and a store that fails leaves a catalog that
is not yet written.

### FilesProofs

All five safety properties of `Files`, for any number of tasks and paths, any
mixture of calls, any number of failures and power losses.  `TypeCorrect` comes
first.  The others follow from one inductive invariant, `Inv`, proved in
`Invariance` with one lemma for each action:

- `OneInside`, the meaning of the mutex (theorem `Exclusion`): since at most one
  task is in a call, a step has to answer for its own task only (`StepInv`).
- `MountAt`: between the start and the end of a format LittleFS is not mounted,
  whatever the flag says, and in every other place the flag is right.  Without
  it the early return of a failed format could not be shown to repair the flag.
- `DataAt`: at each place of an atomic write, what the temporary file has and how
  far the target may differ from what the call found.  It gives `AtomicOutcome`
  and, with the flag, `ReadsSettled`, an action property: an answer is the file as
  the last finished call left it, or less if the step itself has a fault.
- `WholeFiles` itself: the rename is the only step that gives a clean file new
  contents, and `DataAt` says that these are the whole data.

The theorems are `FilesAreWhole`, `AtomicOutcomes`, `ReadsAreSettled` and
`FlagIsMount`.  They use that temporary paths are not paths of callers
(`TempAssumption`) and that contents are sequences (`DataAssumption`).

### NetworkProofs

`TypeCorrect`, `FlagCovers` (`OnlineShown`) and `EthernetFirst` (`RouteFollowsEth`)
hold for any number of tasks that call the handler without a lock.  The reason
is the lemma `OthersDownward`: only the event-loop task makes the state machine
connected or touches the flags.  `ShownInv` says what the handler of an event
still owes while it is under way: the flag after `g_state` is set and before
`UpdateRuntimeFlags`, the route until the end.

`NoLateRetry` and `RetriesEnd` assume `Task = {LoopTask}`, one task for the calls
and the tick.  `RetryInv`: after a disconnect the scheduler is disabled or the
call is about to disable it.  `CountInv`, for `GivesUp`: retries made, with the
one a tick may be about to make, are at most one more than the counter, and not
more than the counter once FAILED is written; the register of `g_retry_count++`
and the reset by `NetworkConnect` in between are what make it subtle.

### ConfigProofs

`TypesHold` and `RebootsFindSaved` have no hypothesis: any number of tasks, keys
and values, failing accesses and resets.  A task is the list of stages it has
left, so the invariant (`StoreInv`) is about lists: which stage follows which
(`Linked`), that a change is applied later in the call (`Applied`), that stages
belong to the call (`Belongs`); all plans have this shape and so has every
remainder (`PlanIsGood` and the lemmas after it).  `OffersOK` says that a read
of the store, and of what a reset leaves of it, is a value offered for its key,
and `SavesOK` that a save which had the store for itself finds there what it
wrote, up to its flush.

`ChangesAreApplied` assumes `OneWriter`: one task makes the calls that change
the configuration, the others save it (`config_lost` shows what two writers do).
`ApplyInv`: the copy a writer works on is still the configuration, the handle is
closed only between `"close"` and `"wipe"` unless an access failed, and what is
not applied yet has an `"apply"` ahead in the same call.

### DevicesProofs

Both theorems assume `OneRegistrar`, one task that registers drivers, and no
more: any number of tasks release, use, recover and re-enable devices.  Without
it `devices_register_race` finds two drivers in one slot.
`HandlesAndObjectsAgree` (`RegistryAgrees`): the invariant `Inv` says where a
call of each kind can be (`PlaceOK`), that a slot that was found is still free
and its address still not registered when it is claimed (`SlotsOK`), who owns
each driver object, a slot or the call between `AddDevice` and `ClaimSlot`
(`ObjectsOK`), and that held handles name active slots of their device
(`HeldOK`).  `ParkedDevicesFailed` (`ParkedForCause`): `CauseOK` bounds the
counter by the failures counted since the last success, and the copy of it that
a call holds between `LoadCount` and `StoreCount` as well, so that a reset by a
recovery in between can only be lost, never add a failure.

### PinmapProofs

Under `OneValidator` (one task boots and validates, another edits the
configuration at any moment; `pinmap_two` shows why), for every chip, set of
functions and configuration.  `AcceptsExactlyTheGood` (`VerdictIsRight`) is the
correctness of the checks: the loops over the tables that the code uses against
`Good`, which is written over the texts.  Its lemmas are about the operators:
`ReverseLookup` is the inverse of the map when no function repeats
(`ReverseIsInverse`), `ParseBindings` returns the whole list exactly when each
entry can be stored (`ParsesAll`, from `Greatest`, since it is a longest
prefix), and the tables have room for what the rules allow (`RoomOnBus`, by
counting).  `Inv` says what the tables hold after each stage as a function of
what was read (`ReadOK`), and what a verdict says of the layout read or, if
nobody edited meanwhile, of the configuration (`VerdictOK`).
`LookupsAnswerAccepted` (`AnswersAreAccepted`) follows from `TablesOK`: between
calls the tables are those of the layout accepted last, since a rollback
restores what `Capture` took.

### LoopProofs

Two components that the loop task polls and that share no state, one after the
other in one module.  No hypothesis beyond the named ASSUMEs, for both.

**Console**, for any number of tasks, lines of any length and a ring of any
capacity.  The inductive invariant `ShellInv` has five parts: where a task can be
(`TasksOK`); the sink is held exactly by the task that is storing or redrawing
(`SinkOK`); the buffer, and when the hooks take part (`EditOK`); the row at each
place of the editor, empty while the sink is held and otherwise the prompt with
the line, or with as much of it as has been echoed (`RowOK`); and what the ring
holds (`LoggedOK`).  TLC agreed with it before it was proved.

The ring is the work.  `Holds(r, s)` says that `r` has the newest bytes of `s`,
from `tail` on around the end of the array, and has counted the line ends among
the others.  `DropHolds` and `AppendHolds` say what `DropOldest` and
`AppendHistory` make of it: a byte is at the place it had or is copied to its own,
in the first part or, after the wrap, in the second (`Places`), and the line ends
that fall out are those counted (`EndsSplit`, `EndsShifted`).  They show why the
code may cut a text that is longer than the ring: what it skips is counted as
dropped only if it has no line end, which is so because the text and its line end
are appended by two calls (`StoredHolds`).  `CopyOfHeld` is the reader.  Between
the screen and the ring a line is under way in one task only, the holder of the
sink; hence `HistoryIsScreen` (`RingIsScreen`).  A clear in that moment leaves the
line to be stored into an empty ring.  `ShellIsShown` (`ShellShows`) is `RowOK`
and `EditOK`; `LinesStandAlone` (`LinesAlone`) adds that the blanks reach as far as
the row did and that the last cell of a line is not blank (`ErasedRow`).

**Storage.**  `MountIsPower` (`PowerFollowsMount`):
`PlaceInv` says at each place of a mount or an unmount, with every way it fails,
which of LDO, switch and card object are there.  `CheckEachInterval`
(`ChecksOnTime`): `ClockInv` relates the deadline on wrapping time to the true
time since the last check.  The one assumption is that an interval, a tick and
the greatest lateness of the loop span at most half a cycle (`TimeAssumption`):
then the signed difference of `HxSchedulerDue` is the true one (`ModSmall`,
`ModAbove`, `ModBelow`).  With 32-bit milliseconds that is a loop that never
stops for 24 days.

### WebConsoleProofs

For any number of tasks, browsers, lines and queue places, until a `reset`.
`Inv` has: the client list is sorted and without repetition (`ListOK`), the
recursive lock is held as deeply as the places of its holder say (`LockOK`), a
client in use is listed (`AliveOK`), a line under way is stored, not done, and
one task's (`LinesOK`), and each line newer than the history a welcomed client
was sent has reached it or is ahead of it in some task's broadcast
(`DeliverOK`). From it: `NoErasedClient` (`ClientsAreAlive`) and
`EveryLineReaches` (`NoLineMissed`).

`NoDeadlock` proves `SomeoneGoes`: while a call or an event is under way, one of
those waits for no lock.  `HeldOK` adds who has the sink and the files mutex,
and the argument is the order of the locks: whoever has the files mutex waits
for the web socket or the sink only, whoever has the web socket's lock
for the sink only, and whoever has the sink for nothing.  That `Waits` is what
stops a step is the second half of `NoCircle`, which needs ENABLED: TLC checks
it.

### Only model-checked

- Liveness, which is out of this prover's reach: `WritesReachNvs`,
  `CallsReturn`, `Retries`, `NotStuckConnecting`, `DeadIsParked`,
  `SdFollowsCard`.
- The half of `NoCircle` that uses ENABLED, out of reach as well.
- The sentences of the documentation that the instances run by hand violate.

## 5. Not modelled, and the plan

Not modelled: value types other than int32 and their text forms, the static keys,
the format of the catalog text, hash collisions of storage keys, 32-bit wraps of
the commit deadline and of sequence numbers, partial erasure of an NVS partition,
file calls on the SD card and the switch between backends, directories and
listing of files, torn reads of credentials, drivers' initialisation, JSON, HTTP,
rendering.  The UART handler, panic, the Berry and LVGL modules and the assets
keep no state that calls change.  Frames, requests and the TCP layer of the
vendored server are a library's; only the parts that the web console drives are
modelled.

Hazards that lie outside the models, for a reviewer of the code to know of:
`StateFindKey` returns a pointer into the registry after it has unlocked
(state.cpp:1608); the commit deadline uses the comparison of the scheduler with a
delay of its own (state.cpp:603); a flush whose failure is not seen
(littlefs_adapter.cpp:182) and a mount that formats what it cannot read (:31);
events before `NetworkStart` are dropped (network_handler.cpp:249) and
credentials are copied without a lock (:301); a read error becomes the default,
which the next save makes final (config.cpp:768); `POST /api/config` answers ok
whatever the save returned (mod_web.cpp:311); `TimeGetInfo` reads the time before
its critical section, so that the age of a synchronisation may come out
negative as an unsigned number (core/time.cpp:152-168); `SdmmcReadBytesCapped`
reports a short read as a success, and `SdmmcWriteBytes` ignores `fclose`.

Plan, most important behaviour first.  Done:

1. `HexaState` with runs and proofs.
2. `Files` with runs and proofs.
3. `Network` with runs and proofs.
4. `Config` with runs.
5. `KeyValueStore` and the refinement run.
6. `Devices`.
7. `Storage` with `Scheduler`: the mount cycle.
8. `Pinmap`, `Console`; `WebConsole` as the composition of log, files mutex and
   web socket.

9. Proofs of `Storage`, `Devices`, `WebConsole`, `Pinmap` and `Config`.
10. Proofs of `HexaState` under a single committer and for one task; the
    refinement of `KeyValueStore`.
11. Proofs of `Console`: the ring against the screen, the row against the line.

Next:

12. `RetriesEnd` and `NoLateRetry` for more than one calling task, as far as they
    hold; `CommitIsDurable` with other tasks that write.
13. File calls on the card against its unmount; the wall clock; directories of
    `Files`; composition of `Network` and `Config` (credentials).
