------------------------------- MODULE Files -------------------------------
(***************************************************************************)
(* The flash side of the file handler: handlers/files_handler.cpp over     *)
(* adapters/littlefs_adapter.cpp.  Every call checks g_files_ready, takes  *)
(* g_files_mutex, checks Hx.files_mounted, works on LittleFS and gives the *)
(* mutex back.  The calls that make several LittleFS calls (the atomic     *)
(* write, the format) are split at each of them, because a LittleFS call   *)
(* may fail and the power may go between two of them.                      *)
(*                                                                         *)
(* LittleFS itself is not in the repository.  What is assumed of it: a     *)
(* remove and a rename happen entirely or not at all; a failed or          *)
(* interrupted write leaves the old contents or what was written so far.   *)
(*                                                                         *)
(* Abstracted: directories (mkdir, rmdir, list), sizes and path checking.  *)
(***************************************************************************)
EXTENDS Naturals, Sequences

CONSTANTS
  Task,             \* the threads that call the handler
  NoTask,           \* nobody: the mutex is free
  Target,           \* the paths callers use
  TempPath,         \* the paths the atomic write makes for itself
  Temp,             \* FilesBuildTempPath: the "<path>.tmp" of a target
  Data,             \* what callers write: a set of sequences
  Missing,          \* there is no such file
  Calls,            \* the calls the tasks make
  MaxLength,        \* bound: the room a file has; what does not fit is not written
  MaxFaults,        \* bound: LittleFS calls and allocations that fail
  MaxCrashes        \* bound: power losses

ASSUME TempAssumption ==
  /\ Temp \in [Target -> TempPath]
  /\ \A p, q \in Target: Temp[p] = Temp[q] => p = q
  /\ Target \cap TempPath = {}

ASSUME TaskAssumption == NoTask \notin Task

ASSUME DataAssumption ==
  /\ MaxLength \in Nat
  /\ \A d \in Data: d \in Seq({d[i]: i \in DOMAIN d}) /\ Len(d) <= MaxLength
  /\ Missing \notin Data

ASSUME BoundAssumption ==
  MaxFaults \in Nat /\ MaxCrashes \in Nat

VARIABLES
  ready,     \* g_files_ready
  mounted,   \* Hx.files_mounted
  lfs,       \* LittleFS itself is mounted
  disk,      \* the contents of every path
  holder,    \* who holds g_files_mutex
  task,      \* where every task is in its call
  settled,   \* history: the targets when the mutex was last given back
  plain,     \* history: files that did not come from an atomic write
  faults, flushFaults, crashes

fileVars == <<disk, plain>>
mountVars == <<ready, mounted, lfs>>
vars == <<ready, mounted, lfs, disk, holder, task, settled, plain,
          faults, flushFaults, crashes>>

Path == Target \cup TempPath
CallName == {"read", "remove", "rename", "write", "append", "atomic",
             "mount", "unmount", "format"}
Writing == {"write", "append", "atomic"}
Mounting == {"mount", "unmount", "format"}

Idle == [pc |-> "idle", call |-> "none", path |-> NoTask, to |-> NoTask,
         data |-> <<>>, ok |-> FALSE, got |-> Missing]

At(t, pc) == task[t].pc = pc
Goto(t, pc) == task' = [task EXCEPT ![t].pc = pc]

\* The call of task t has its result and goes on to give the mutex back.
Done(t, ok) == task' = [task EXCEPT ![t].pc = "give", ![t].ok = ok]

\* Calls that fail, reads that come short, and flushes that fail unreported.
Fault == faults + flushFaults < MaxFaults /\ faults' = faults + 1
FlushFault ==
  faults + flushFaults < MaxFaults /\ flushFaults' = flushFaults + 1

-----------------------------------------------------------------------------
(* The LittleFS calls, with the value they return.                         *)

LfsRemove(p, ok) ==
  \/ /\ ok
     /\ disk[p] # Missing
     /\ disk' = [disk EXCEPT ![p] = Missing]
     /\ UNCHANGED faults
  \/ /\ ~ok
     /\ disk[p] = Missing
     /\ UNCHANGED <<disk, faults>>
  \/ /\ ~ok
     /\ Fault
     /\ UNCHANGED disk

LfsRename(p, q, ok) ==
  \/ /\ ok
     /\ disk[p] # Missing
     /\ disk' = [disk EXCEPT ![p] = Missing, ![q] = disk[p]]
     /\ UNCHANGED faults
  \/ /\ ~ok
     /\ disk[p] = Missing
     /\ UNCHANGED <<disk, faults>>
  \/ /\ ~ok
     /\ Fault
     /\ UNCHANGED disk

\* What a write of data to p starts from, and what it leaves behind when it
\* does not get to its end.
Base(p, append) == IF append /\ disk[p] # Missing THEN disk[p] ELSE <<>>
Partial(p, data, append) ==
  {Base(p, append) \o SubSeq(data, 1, n): n \in 0..(Len(data) - 1)}
Fits(p, data, append) == Len(Base(p, append) \o data) <= MaxLength

\* A write that fails because there is no room, or for another reason.
\* Nobody looks at what file.flush() did: the last disjunct is a flush that
\* fails inside a write that returns true.
LfsWriteBytes(p, data, append, ok) ==
  \/ /\ ok
     /\ Fits(p, data, append)
     /\ disk' = [disk EXCEPT ![p] = Base(p, append) \o data]
     /\ UNCHANGED <<faults, flushFaults>>
  \/ /\ ~ok
     /\ IF Fits(p, data, append) THEN Fault ELSE UNCHANGED faults
     /\ \E c \in Partial(p, data, append) \cup {disk[p]}:
          disk' = [disk EXCEPT ![p] = c]
     /\ UNCHANGED flushFaults
  \/ /\ ok
     /\ FlushFault
     /\ \E c \in Partial(p, data, append):
          disk' = [disk EXCEPT ![p] = c]
     /\ UNCHANGED faults

NoFiles == [p \in Path |-> Missing]

\* LittleFS.begin(true, ...): a file system that does not mount is formatted.
LfsMount(ok) ==
  \/ ok /\ lfs' = TRUE /\ UNCHANGED <<disk, faults>>
  \/ ok /\ ~lfs /\ Fault /\ lfs' = TRUE /\ disk' = NoFiles
  \/ ~ok /\ ~lfs /\ Fault /\ UNCHANGED <<lfs, disk>>

-----------------------------------------------------------------------------
(* A call: begin, wait for the mutex, check the mount, work, give it back. *)

Request ==
  [pc: {"enter"}, call: Calls \cap {"read", "remove"}, path: Target,
   to: {NoTask}, data: {<<>>}, ok: {FALSE}, got: {Missing}]
  \cup
  [pc: {"enter"}, call: Calls \cap {"rename"}, path: Target,
   to: Target, data: {<<>>}, ok: {FALSE}, got: {Missing}]
  \cup
  [pc: {"enter"}, call: Calls \cap Writing, path: Target,
   to: {NoTask}, data: Data, ok: {FALSE}, got: {Missing}]
  \cup
  [pc: {"enter"}, call: Calls \cap Mounting,
   path: {NoTask}, to: {NoTask}, data: {<<>>}, ok: {FALSE}, got: {Missing}]

\* A call made before FilesInit returns false and changes nothing.  What is
\* asked is chosen when the mutex is taken: no call looks at it before.
Begin(t) ==
  /\ At(t, "idle")
  /\ ready
  /\ Goto(t, "lock")
  /\ UNCHANGED <<mountVars, fileVars, holder, settled, faults, flushFaults,
                 crashes>>

\* Mistake: a read does not wait for the mutex.
TakeLockToChange(t) ==
  /\ At(t, "lock")
  /\ \E r \in Request:
       /\ holder = NoTask \/ r.call = "read"
       /\ holder' = IF r.call = "read" THEN holder ELSE t
       /\ task' = [task EXCEPT ![t] = r]
  /\ UNCHANGED <<mountVars, fileVars, settled, faults, flushFaults, crashes>>

FilesTakeLock(t) ==
  /\ At(t, "lock")
  /\ holder = NoTask
  /\ holder' = t
  /\ \E r \in Request: task' = [task EXCEPT ![t] = r]
  /\ UNCHANGED <<mountVars, fileVars, settled, faults, flushFaults, crashes>>

\* Mistake: an append takes the path of the atomic write.
CheckMountedAllAtomic(t) ==
  /\ At(t, "enter")
  /\ \/ task[t].call \in Mounting /\ Goto(t, "work")
     \/ task[t].call \notin Mounting /\ ~mounted /\ Done(t, FALSE)
     \/ mounted /\ task[t].call \in {"atomic", "append"} /\ Goto(t, "clean")
     \/ /\ mounted
        /\ task[t].call \notin Mounting /\ task[t].call \notin {"atomic", "append"}
        /\ Goto(t, "work")
  /\ UNCHANGED <<mountVars, fileVars, holder, settled, faults, flushFaults,
                 crashes>>

\* FilesMountedState is read with the mutex held; mount, unmount and format
\* go on whatever it says.
CheckMounted(t) ==
  /\ At(t, "enter")
  /\ \/ task[t].call \in Mounting /\ Goto(t, "work")
     \/ task[t].call \notin Mounting /\ ~mounted /\ Done(t, FALSE)
     \/ mounted /\ task[t].call = "atomic" /\ Goto(t, "clean")
     \/ /\ mounted
        /\ task[t].call \notin Mounting /\ task[t].call # "atomic"
        /\ Goto(t, "work")
  /\ UNCHANGED <<mountVars, fileVars, holder, settled, faults, flushFaults,
                 crashes>>

\* Mistake: the mutex is given back on the paths that succeed only.
GiveLockOnSuccess(t) ==
  /\ At(t, "give")
  /\ holder' = IF task[t].ok THEN NoTask ELSE holder
  /\ settled' = [p \in Target |-> disk[p]]
  /\ task' = [task EXCEPT ![t] = Idle]
  /\ UNCHANGED <<mountVars, fileVars, faults, flushFaults, crashes>>

FilesGiveLock(t) ==
  /\ At(t, "give")
  /\ holder' = NoTask
  /\ settled' = [p \in Target |-> disk[p]]
  /\ task' = [task EXCEPT ![t] = Idle]
  /\ UNCHANGED <<mountVars, fileVars, faults, flushFaults, crashes>>

-----------------------------------------------------------------------------
(* The calls that make one LittleFS call.                                  *)

Work(t, call) == At(t, "work") /\ task[t].call = call

\* What a read returns that comes to an end before the file does.
Short(file) == {SubSeq(file, 1, n): n \in 0..(Len(file) - 1)}

\* The call of task t returns what it read, or false.
Answer(t, got) ==
  task' = [task EXCEPT ![t].pc = "give", ![t].got = got, ![t].ok = (got # Missing)]

\* With a buffer that the file fits in.  A stat, an allocation or an open that
\* fails is reported as false; a read that comes short is reported as true,
\* with its length.
FilesRead(t) ==
  LET file == disk[task[t].path] IN
  /\ Work(t, "read")
  /\ \/ Answer(t, file) /\ UNCHANGED faults
     \/ /\ file # Missing /\ Fault
        /\ \E got \in Short(file) \cup {Missing}: Answer(t, got)
  /\ UNCHANGED <<mountVars, fileVars, holder, settled, flushFaults, crashes>>

FilesRemove(t) ==
  /\ Work(t, "remove")
  /\ \E ok \in BOOLEAN: LfsRemove(task[t].path, ok) /\ Done(t, ok)
  /\ plain' = {p \in plain: disk'[p] # Missing}
  /\ UNCHANGED <<mountVars, holder, settled, flushFaults, crashes>>

FilesRename(t) ==
  /\ Work(t, "rename")
  /\ \E ok \in BOOLEAN:
       /\ LfsRename(task[t].path, task[t].to, ok)
       /\ Done(t, ok)
       /\ plain' = IF ~ok THEN plain
                   ELSE (plain \ {task[t].path, task[t].to})
                        \cup {task[t].to: p \in plain \cap {task[t].path}}
  /\ UNCHANGED <<mountVars, holder, settled, flushFaults, crashes>>

FilesWriteBytesInternal(t) ==
  /\ Work(t, "write") \/ Work(t, "append")
  /\ LET append == task[t].call = "append"
     IN \E ok \in BOOLEAN:
          LfsWriteBytes(task[t].path, task[t].data, append, ok) /\ Done(t, ok)
  /\ plain' = plain \cup {task[t].path}
  /\ UNCHANGED <<mountVars, holder, settled, crashes>>

-----------------------------------------------------------------------------
(* FilesWriteBytesAtomicInternal, one step for each LittleFS call.         *)

\* A temporary file left by an earlier call is removed; whether that worked
\* is not looked at, the write that follows truncates it.
CleanTemp(t) ==
  /\ At(t, "clean")
  /\ \E ok \in BOOLEAN: LfsRemove(Temp[task[t].path], ok)
  /\ Goto(t, "write")
  /\ UNCHANGED <<mountVars, plain, holder, settled, flushFaults, crashes>>

\* Mistake: what the write of the temporary file returned is not looked at.
WriteTempUnchecked(t) ==
  /\ At(t, "write")
  /\ \E ok \in BOOLEAN:
       LfsWriteBytes(Temp[task[t].path], task[t].data, FALSE, ok)
  /\ Goto(t, "replace")
  /\ UNCHANGED <<mountVars, plain, holder, settled, crashes>>

WriteTemp(t) ==
  /\ At(t, "write")
  /\ \E ok \in BOOLEAN:
       /\ LfsWriteBytes(Temp[task[t].path], task[t].data, FALSE, ok)
       /\ Goto(t, IF ok THEN "replace" ELSE "undo")
  /\ UNCHANGED <<mountVars, plain, holder, settled, crashes>>

RemoveTarget(t) ==
  /\ At(t, "replace")
  /\ \/ /\ disk[task[t].path] = Missing
        /\ Goto(t, "rename")
        /\ UNCHANGED <<disk, faults>>
     \/ /\ disk[task[t].path] # Missing
        /\ \E ok \in BOOLEAN:
             /\ LfsRemove(task[t].path, ok)
             /\ Goto(t, IF ok THEN "rename" ELSE "undo")
  /\ UNCHANGED <<mountVars, plain, holder, settled, flushFaults, crashes>>

\* Mistake: a rename that failed is reported as a success.
RenameTempUnchecked(t) ==
  /\ At(t, "rename")
  /\ \E ok \in BOOLEAN:
       /\ LfsRename(Temp[task[t].path], task[t].path, ok)
       /\ plain' = IF ok THEN plain \ {task[t].path} ELSE plain
  /\ Done(t, TRUE)
  /\ UNCHANGED <<mountVars, holder, settled, flushFaults, crashes>>

RenameTemp(t) ==
  /\ At(t, "rename")
  /\ \E ok \in BOOLEAN:
       /\ LfsRename(Temp[task[t].path], task[t].path, ok)
       /\ IF ok THEN Done(t, TRUE) ELSE Goto(t, "undo")
       /\ plain' = IF ok THEN plain \ {task[t].path} ELSE plain
  /\ UNCHANGED <<mountVars, holder, settled, flushFaults, crashes>>

RemoveTemp(t) ==
  /\ At(t, "undo")
  /\ \E ok \in BOOLEAN: LfsRemove(Temp[task[t].path], ok)
  /\ Done(t, FALSE)
  /\ UNCHANGED <<mountVars, plain, holder, settled, flushFaults, crashes>>

-----------------------------------------------------------------------------
(* Mounting.                                                               *)

FilesInit ==
  /\ ~ready
  /\ ready' = TRUE
  /\ mounted' = FALSE
  /\ UNCHANGED <<lfs, fileVars, holder, task, settled, faults, flushFaults,
                 crashes>>

FilesMount(t) ==
  /\ Work(t, "mount")
  /\ \E ok \in BOOLEAN: LfsMount(ok) /\ mounted' = ok /\ Done(t, ok)
  /\ plain' = {p \in plain: disk'[p] # Missing}
  /\ UNCHANGED <<ready, holder, settled, flushFaults, crashes>>

FilesUnmount(t) ==
  /\ Work(t, "unmount")
  /\ lfs' = (lfs /\ ~mounted)
  /\ mounted' = FALSE
  /\ Done(t, TRUE)
  /\ UNCHANGED <<ready, fileVars, holder, settled, faults, flushFaults,
                 crashes>>

\* LfsFormat: end, format, begin.
FormatEnd(t) ==
  /\ Work(t, "format")
  /\ lfs' = FALSE
  /\ Goto(t, "wipe")
  /\ UNCHANGED <<ready, mounted, fileVars, holder, settled, faults,
                 flushFaults, crashes>>

\* Mistake: a format that failed leaves the flag as it was.
FormatWipeKeepsFlag(t) ==
  /\ At(t, "wipe")
  /\ \/ /\ disk' = NoFiles
        /\ Goto(t, "begin")
        /\ UNCHANGED faults
     \/ /\ Fault
        /\ Done(t, FALSE)
        /\ UNCHANGED disk
  /\ plain' = {p \in plain: disk'[p] # Missing}
  /\ UNCHANGED <<ready, mounted, lfs, holder, settled, flushFaults, crashes>>

FormatWipe(t) ==
  /\ At(t, "wipe")
  /\ \/ /\ disk' = NoFiles
        /\ Goto(t, "begin")
        /\ UNCHANGED <<mounted, faults>>
     \/ /\ Fault
        /\ mounted' = FALSE
        /\ Done(t, FALSE)
        /\ UNCHANGED disk
  /\ plain' = {p \in plain: disk'[p] # Missing}
  /\ UNCHANGED <<ready, lfs, holder, settled, flushFaults, crashes>>

FormatBegin(t) ==
  /\ At(t, "begin")
  /\ \E ok \in BOOLEAN: LfsMount(ok) /\ mounted' = ok /\ Done(t, ok)
  /\ UNCHANGED <<ready, plain, holder, settled, flushFaults, crashes>>

-----------------------------------------------------------------------------
(* Power loss.                                                             *)

\* The path the holder of the mutex is writing to, if it is writing.
InWrite(t, p) ==
  \/ At(t, "write") /\ p = Temp[task[t].path]
  \/ At(t, "work") /\ task[t].call \in {"write", "append"} /\ p = task[t].path

PowerLoss ==
  /\ ready
  /\ crashes < MaxCrashes
  /\ crashes' = crashes + 1
  /\ \/ UNCHANGED fileVars
     \/ \E t \in Task, p \in Path:
          /\ InWrite(t, p)
          /\ \E c \in Partial(p, task[t].data, task[t].call = "append"):
               disk' = [disk EXCEPT ![p] = c]
          /\ plain' = IF p \in Target THEN plain \cup {p} ELSE plain
  /\ settled' = [p \in Target |-> disk'[p]]
  /\ ready' = FALSE
  /\ mounted' = FALSE
  /\ lfs' = FALSE
  /\ holder' = NoTask
  /\ task' = [t \in Task |-> Idle]
  /\ UNCHANGED <<faults, flushFaults>>

-----------------------------------------------------------------------------

Init ==
  /\ ready = FALSE
  /\ mounted = FALSE
  /\ lfs = FALSE
  /\ disk = NoFiles
  /\ holder = NoTask
  /\ task = [t \in Task |-> Idle]
  /\ settled = [p \in Target |-> Missing]
  /\ plain = {}
  /\ faults = 0
  /\ flushFaults = 0
  /\ crashes = 0

AtomicStep(t) ==
  \/ CleanTemp(t)
  \/ WriteTemp(t)
  \/ RemoveTarget(t)
  \/ RenameTemp(t)
  \/ RemoveTemp(t)

MountStep(t) ==
  \/ FilesMount(t)
  \/ FilesUnmount(t)
  \/ FormatEnd(t)
  \/ FormatWipe(t)
  \/ FormatBegin(t)

\* A step of a call that has the mutex.
Step(t) ==
  \/ CheckMounted(t)
  \/ FilesRead(t)
  \/ FilesRemove(t)
  \/ FilesRename(t)
  \/ FilesWriteBytesInternal(t)
  \/ AtomicStep(t)
  \/ MountStep(t)
  \/ FilesGiveLock(t)

Next ==
  \/ FilesInit
  \/ \E t \in Task: Begin(t) \/ FilesTakeLock(t) \/ Step(t)
  \/ PowerLoss

Spec == Init /\ [][Next]_vars

\* A task inside a call keeps running.  The mutex is a FreeRTOS mutex taken
\* with HX_RTOS_WAIT_FOREVER: its waiters are served in order, so a task that
\* waits is not passed over for ever.
Fairness ==
  \A t \in Task: WF_vars(Step(t)) /\ SF_vars(FilesTakeLock(t))

FairSpec == Spec /\ Fairness

-----------------------------------------------------------------------------
(* Properties.                                                             *)

Pc == {"idle", "lock", "enter", "work", "clean", "write", "replace",
       "rename", "undo", "wipe", "begin", "give"}

IsTask(r) ==
  /\ DOMAIN r = DOMAIN Idle
  /\ r.pc \in Pc
  /\ r.call \in CallName \cup {"none"}
  /\ r.path \in Target \cup {NoTask}
  /\ r.to \in Target \cup {NoTask}
  /\ r.data \in Data \cup {<<>>}
  /\ r.ok \in BOOLEAN
  /\ r.call \in {"read", "remove", "rename"} \cup Writing => r.path \in Target
  /\ r.call = "rename" => r.to \in Target
  /\ r.call \in Writing => r.data \in Data
  /\ r.pc \in {"idle", "lock"} <=> r.call = "none"
  /\ r.pc \in {"clean", "write", "replace", "rename", "undo"}
       => r.call = "atomic"
  /\ r.pc \in {"wipe", "begin"} => r.call = "format"

\* The handler's state: a call is where its kind can be, and has what it
\* needs there; the disk has an entry for every path and no other.
TypeOK ==
  /\ ready \in BOOLEAN
  /\ mounted \in BOOLEAN
  /\ lfs \in BOOLEAN
  /\ DOMAIN disk = Path
  /\ DOMAIN settled = Target
  /\ holder \in Task \cup {NoTask}
  /\ DOMAIN task = Task
  /\ \A t \in Task: IsTask(task[t])
  /\ plain \subseteq Target
  /\ faults \in 0..MaxFaults
  /\ flushFaults \in 0..MaxFaults
  /\ crashes \in 0..MaxCrashes

\* g_files_mutex: a task is inside a call exactly while it holds the mutex.
Inside(t) == task[t].pc \notin {"idle", "lock"}
OneInside == \A t \in Task: Inside(t) <=> holder = t

\* A path that only the atomic calls wrote (FilesWriteBytesAtomic) has the
\* whole of something a caller wrote, or is not there, whichever LittleFS
\* call fails and whenever the power goes, as long as no flush failed without
\* saying so: that is what the temporary file is for.
WholeFiles ==
  flushFaults = 0 => \A p \in Target \ plain: disk[p] \in Data \cup {Missing}

\* An atomic write that returns true has replaced the file, and one that
\* returns false left it as the call found it, or lost it (the rename came
\* after the remove and failed); either way no other file changed.  Again a
\* flush that fails silently is the exception.
AtomicOutcome ==
  \A t \in Task: At(t, "give") /\ task[t].call = "atomic" =>
    /\ \/ disk[task[t].path] \in IF task[t].ok THEN {task[t].data}
                                 ELSE {settled[task[t].path], Missing}
       \/ task[t].ok /\ flushFaults > 0
    /\ \A p \in Target \ {task[t].path}: disk[p] = settled[p]

\* A read returns the file as the last finished call left it, never one of
\* the states between the steps of another task's atomic write or format, and
\* false only if there is no such file.  If one of its own LittleFS calls or its
\* allocation fails, it returns false or a beginning of that file.
ReadsSettled ==
  [][\A t \in Task: task[t].call = "read" /\ ~At(t, "give") /\ At(t, "give")' =>
       LET file == IF mounted THEN settled[task[t].path] ELSE Missing
           got  == task'[t].got
       IN /\ task'[t].ok <=> got # Missing
          /\ \/ got = file
             \/ faults' > faults /\ file # Missing /\ got \in Short(file) \cup {Missing}]_vars

\* Hx.files_mounted, which FilesActiveIsMounted reads without the mutex, is
\* what LittleFS is whenever no call is running, and no call works on a file
\* of a LittleFS that is not mounted, whatever mount, unmount and format did.
MountKnown ==
  /\ holder = NoTask => mounted = lfs
  /\ \A t \in Task:
       \/ task[t].pc \in {"clean", "write", "replace", "rename", "undo"}
       \/ At(t, "work") /\ task[t].call \in Writing \cup {"read", "remove", "rename"}
       => lfs

\* Every call returns: each of the early returns gives the mutex back, so no
\* later caller, which waits for ever, waits in vain.
CallsReturn == \A t \in Task: ~At(t, "idle") ~> At(t, "idle")

\* docs/ReleaseV002.md: the atomic write is "power-safe".  A file that was
\* there when an atomic write began is there after a power loss in it.
PowerSafe ==
  [][ready /\ ~ready' =>
       \A t \in Task: holder = t /\ task[t].call = "atomic"
         /\ settled[task[t].path] # Missing => disk'[task[t].path] # Missing]_vars

=============================================================================
