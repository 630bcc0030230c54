----------------------------- MODULE FilesProofs -----------------------------
(***************************************************************************)
(* What holds of Files for any number of tasks and files, whichever        *)
(* LittleFS call fails and whenever the power goes.                        *)
(***************************************************************************)
EXTENDS Files, SequenceTheorems, TLAPS

USE TempAssumption, TaskAssumption, BoundAssumption

(***************************************************************************)
(* Steps of a call.                                                        *)
(***************************************************************************)
TasksOK == DOMAIN task = Task /\ \A t \in Task : IsTask(task[t])

\* Task t goes on in the same call, and no other task moves.
Keeps(t) ==
  /\ DOMAIN task' = Task
  /\ \A u \in Task \ {t} : task'[u] = task[u]
  /\ DOMAIN task'[t] = DOMAIN task[t]
  /\ task'[t].call = task[t].call
  /\ task'[t].path = task[t].path
  /\ task'[t].to = task[t].to
  /\ task'[t].data = task[t].data

LEMMA GotoKeeps ==
  ASSUME TasksOK, NEW t \in Task, NEW pc, Goto(t, pc)
  PROVE  /\ Keeps(t) /\ task'[t].pc = pc
         /\ task'[t].ok = task[t].ok /\ task'[t].got = task[t].got
BY DEF TasksOK, IsTask, Idle, Goto, Keeps

LEMMA DoneKeeps ==
  ASSUME TasksOK, NEW t \in Task, NEW ok, Done(t, ok)
  PROVE  /\ Keeps(t) /\ task'[t].pc = "give"
         /\ task'[t].ok = ok /\ task'[t].got = task[t].got
BY DEF TasksOK, IsTask, Idle, Done, Keeps

LEMMA ReadKeeps ==
  ASSUME TasksOK, NEW t \in Task, FilesRead(t)
  PROVE  /\ Keeps(t) /\ task'[t].pc = "give"
         /\ (task'[t].ok <=> task'[t].got # Missing) /\ task'[t].ok \in BOOLEAN
         /\ \/ task'[t].got = disk[task[t].path] /\ faults' = faults
            \/ /\ disk[task[t].path] # Missing /\ faults' = faults + 1
               /\ faults + flushFaults < MaxFaults
               /\ task'[t].got \in Short(disk[task[t].path]) \cup {Missing}
<1> DEFINE file == disk[task[t].path]
<1>1. ASSUME NEW got, Answer(t, got)
      PROVE  /\ Keeps(t) /\ task'[t].pc = "give" /\ task'[t].got = got
             /\ (task'[t].ok <=> got # Missing) /\ task'[t].ok \in BOOLEAN
  BY <1>1 DEF TasksOK, IsTask, Idle, Answer, Keeps
<1>2. CASE Answer(t, file) /\ UNCHANGED faults
  BY <1>1, <1>2
<1>3. CASE /\ file # Missing /\ Fault
           /\ \E got \in Short(file) \cup {Missing} : Answer(t, got)
  <2>1. PICK got \in Short(file) \cup {Missing} : Answer(t, got)
    BY <1>3
  <2>2. QED
    BY <1>1, <1>3, <2>1 DEF Fault
<1>4. QED
  BY <1>2, <1>3 DEF FilesRead

\* A call may go on at pc.
MayBeAt(t, pc) ==
  /\ pc \in Pc
  /\ pc \in {"idle", "lock"} <=> task[t].call = "none"
  /\ pc \in {"clean", "write", "replace", "rename", "undo"} => task[t].call = "atomic"
  /\ pc \in {"wipe", "begin"} => task[t].call = "format"

LEMMA KeepsType ==
  ASSUME TasksOK, NEW t \in Task, Keeps(t), MayBeAt(t, task'[t].pc),
         task'[t].ok \in BOOLEAN
  PROVE  TasksOK'
<1>1. IsTask(task'[t])
  BY DEF TasksOK, IsTask, Keeps, MayBeAt
<1>2. QED
  BY <1>1 DEF TasksOK, Keeps

LEMMA GotoType ==
  ASSUME TasksOK, NEW t \in Task, NEW pc, Goto(t, pc), MayBeAt(t, pc)
  PROVE  TasksOK'
BY GotoKeeps, KeepsType DEF TasksOK, IsTask

LEMMA DoneType ==
  ASSUME TasksOK, NEW t \in Task, NEW ok \in BOOLEAN, Done(t, ok), Inside(t)
  PROVE  TasksOK'
<1>1. MayBeAt(t, "give")
  BY DEF TasksOK, IsTask, Inside, MayBeAt, Pc
<1>2. QED
  BY <1>1, DoneKeeps, KeepsType

\* A task leaves its call, or starts one.
LEMMA SetType ==
  ASSUME TasksOK, NEW t \in Task, NEW r, IsTask(r), task' = [task EXCEPT ![t] = r]
  PROVE  TasksOK'
BY DEF TasksOK

LEMMA IdleType == IsTask(Idle)
BY DEF IsTask, Idle, Pc, Writing

LEMMA RequestType ==
  ASSUME NEW r \in Request
  PROVE  IsTask(r) /\ r.pc = "enter" /\ r.call # "none" /\ r.got = Missing
<1> USE DEF IsTask, Idle, Pc, CallName, Writing, Mounting
<1>1. CASE r \in [pc: {"enter"}, call: Calls \cap {"read", "remove"},
                  path: Target, to: {NoTask}, data: {<<>>}, ok: {FALSE},
                  got: {Missing}]
  BY <1>1
<1>2. CASE r \in [pc: {"enter"}, call: Calls \cap {"rename"}, path: Target,
                  to: Target, data: {<<>>}, ok: {FALSE}, got: {Missing}]
  BY <1>2
<1>3. CASE r \in [pc: {"enter"}, call: Calls \cap Writing, path: Target,
                  to: {NoTask}, data: Data, ok: {FALSE}, got: {Missing}]
  BY <1>3
<1>4. CASE r \in [pc: {"enter"}, call: Calls \cap Mounting,
                  path: {NoTask}, to: {NoTask}, data: {<<>>}, ok: {FALSE},
                  got: {Missing}]
  BY <1>4
<1>5. QED
  BY <1>1, <1>2, <1>3, <1>4 DEF Request

(***************************************************************************)
(* LittleFS calls.                                                         *)
(***************************************************************************)
DiskOK ==
  /\ DOMAIN disk = Path
  /\ faults \in 0..MaxFaults
  /\ flushFaults \in 0..MaxFaults

\* A LittleFS call changes at most the file p, and the counts.
Touches(p) ==
  /\ DiskOK'
  /\ \A q \in Path \ {p} : disk'[q] = disk[q]

LEMMA RemoveDisk ==
  ASSUME DiskOK, NEW p \in Path, NEW ok \in BOOLEAN, LfsRemove(p, ok),
         UNCHANGED flushFaults
  PROVE  /\ Touches(p)
         /\ ok => disk'[p] = Missing
         /\ ~ok => disk' = disk
BY DEF DiskOK, LfsRemove, Fault, Touches

LEMMA RenameDisk ==
  ASSUME DiskOK, NEW p \in Path, NEW q \in Path, NEW ok \in BOOLEAN,
         LfsRename(p, q, ok), UNCHANGED flushFaults
  PROVE  /\ DiskOK'
         /\ ok => disk'[q] = disk[p] /\ disk[p] # Missing
         /\ ok => \A r \in Path \ {p, q} : disk'[r] = disk[r]
         /\ ok /\ p # q => disk'[p] = Missing
         /\ ~ok => disk' = disk
BY DEF DiskOK, LfsRename, Fault

LEMMA WriteDisk ==
  ASSUME DiskOK, NEW p \in Path, NEW data, NEW append \in BOOLEAN,
         NEW ok \in BOOLEAN, LfsWriteBytes(p, data, append, ok)
  PROVE  /\ Touches(p)
         /\ flushFaults' >= flushFaults
         /\ ok => flushFaults' > 0 \/ disk'[p] = Base(p, append) \o data
<1>1. CASE ok /\ disk' = [disk EXCEPT ![p] = Base(p, append) \o data]
           /\ UNCHANGED <<faults, flushFaults>>
  BY <1>1 DEF DiskOK, Touches
<1>2. CASE ~ok /\ (Fault \/ UNCHANGED faults) /\ UNCHANGED flushFaults
           /\ \E c : disk' = [disk EXCEPT ![p] = c]
  BY <1>2 DEF DiskOK, Touches, Fault
<1>3. CASE ok /\ FlushFault /\ UNCHANGED faults
           /\ \E c : disk' = [disk EXCEPT ![p] = c]
  BY <1>3 DEF DiskOK, Touches, FlushFault
<1>4. QED
  BY <1>1, <1>2, <1>3 DEF LfsWriteBytes

LEMMA MountDisk ==
  ASSUME DiskOK, NEW ok \in BOOLEAN, LfsMount(ok), UNCHANGED flushFaults,
         lfs \in BOOLEAN
  PROVE  /\ DiskOK' /\ lfs' \in BOOLEAN
         /\ disk' = disk \/ disk' = NoFiles
         /\ lfs' <=> lfs \/ ok
         /\ lfs => ok
<1>1. CASE ok /\ lfs' = TRUE /\ UNCHANGED <<disk, faults>>
  BY <1>1 DEF DiskOK
<1>2. CASE ok /\ ~lfs /\ Fault /\ lfs' = TRUE /\ disk' = NoFiles
  BY <1>2 DEF DiskOK, Fault, NoFiles
<1>3. CASE ~ok /\ ~lfs /\ Fault /\ UNCHANGED <<lfs, disk>>
  <2>1. DiskOK' /\ disk' = disk /\ lfs' = lfs
    BY <1>3 DEF DiskOK, Fault
  <2>2. QED
    BY <1>3, <2>1
<1>4. QED
  BY <1>1, <1>2, <1>3 DEF LfsMount

LEMMA EmptyDisk == DOMAIN NoFiles = Path /\ \A p \in Path : NoFiles[p] = Missing
BY DEF NoFiles

LEMMA Paths ==
  ASSUME TasksOK, NEW t \in Task, task[t].call \in Writing \cup {"read", "remove", "rename"}
  PROVE  /\ task[t].path \in Target /\ task[t].path \in Path
         /\ Temp[task[t].path] \in TempPath /\ Temp[task[t].path] \in Path
         /\ Temp[task[t].path] \notin Target
         /\ task[t].call = "rename" => task[t].to \in Target /\ task[t].to \in Path
BY DEF TasksOK, IsTask, Path

(***************************************************************************)
(* Types.                                                                  *)
(***************************************************************************)
\* What no step of a call touches.
Rest == UNCHANGED <<ready, holder, settled, crashes>>

LEMMA CheckType ==
  ASSUME TasksOK, NEW t \in Task, CheckMounted(t)
  PROVE  TasksOK'
<1>1. Inside(t) /\ task[t].call # "none"
  BY DEF CheckMounted, At, Inside, TasksOK, IsTask
<1>2. CASE Done(t, FALSE)
  BY <1>1, <1>2, DoneType
<1>3. CASE Goto(t, "work")
  BY <1>1, <1>3, GotoType DEF MayBeAt, Pc
<1>4. CASE Goto(t, "clean") /\ task[t].call = "atomic"
  BY <1>1, <1>4, GotoType DEF MayBeAt, Pc
<1>5. QED
  BY <1>2, <1>3, <1>4 DEF CheckMounted

\* The calls on files.
LEMMA FileCallType ==
  ASSUME TypeOK, NEW t \in Task,
         FilesRead(t) \/ FilesRemove(t) \/ FilesRename(t) \/ FilesWriteBytesInternal(t)
  PROVE  TypeOK'
<1>0. TasksOK /\ DiskOK /\ Inside(t)
  BY DEF TypeOK, TasksOK, DiskOK, FilesRead, FilesRemove, FilesRename,
         FilesWriteBytesInternal, Work, At, Inside
<1>1. CASE FilesRead(t)
  <2>1. TasksOK'
    <3>1. MayBeAt(t, "give")
      BY <1>0 DEF MayBeAt, Pc, TasksOK, IsTask, Inside
    <3>2. QED
      BY <1>0, <1>1, <3>1, ReadKeeps, KeepsType
  <2>2. faults' \in 0 .. MaxFaults
    BY <1>0, <1>1, ReadKeeps DEF TypeOK
  <2>3. QED
    BY <1>1, <2>1, <2>2 DEF FilesRead, TypeOK, TasksOK, mountVars, fileVars
<1>2. CASE FilesRemove(t)
  <2>1. PICK ok \in BOOLEAN : LfsRemove(task[t].path, ok) /\ Done(t, ok)
    BY <1>2 DEF FilesRemove
  <2>2. task[t].path \in Path
    BY <1>0, <1>2, Paths DEF FilesRemove, Work
  <2>3. TasksOK' /\ DiskOK'
    BY <1>0, <1>2, <2>1, <2>2, DoneType, RemoveDisk DEF FilesRemove, Touches
  <2>4. QED
    BY <1>2, <2>3 DEF FilesRemove, TypeOK, TasksOK, DiskOK, mountVars
<1>3. CASE FilesRename(t)
  <2>1. PICK ok \in BOOLEAN : LfsRename(task[t].path, task[t].to, ok) /\ Done(t, ok)
    BY <1>3 DEF FilesRename
  <2>2. task[t].path \in Path /\ task[t].to \in Path /\ task[t].to \in Target
    BY <1>0, <1>3, Paths DEF FilesRename, Work
  <2>3. TasksOK' /\ DiskOK'
    BY <1>0, <1>3, <2>1, <2>2, DoneType, RenameDisk DEF FilesRename
  <2>4. plain' \subseteq Target
    BY <1>3, <2>2 DEF FilesRename, TypeOK
  <2>5. QED
    BY <1>3, <2>3, <2>4 DEF FilesRename, TypeOK, TasksOK, DiskOK, mountVars
<1>4. CASE FilesWriteBytesInternal(t)
  <2>1. PICK ok \in BOOLEAN :
          /\ LfsWriteBytes(task[t].path, task[t].data, task[t].call = "append", ok)
          /\ Done(t, ok)
    BY <1>4 DEF FilesWriteBytesInternal
  <2>2. task[t].path \in Path /\ task[t].path \in Target
    BY <1>0, <1>4, Paths DEF FilesWriteBytesInternal, Work, Writing
  <2> DEFINE append == task[t].call = "append"
  <2>3. append \in BOOLEAN
    OBVIOUS
  <2>4. LfsWriteBytes(task[t].path, task[t].data, append, ok)
    BY <2>1
  <2> HIDE DEF append
  <2>5. TasksOK'
    BY <1>0, <2>1, DoneType
  <2>6. DiskOK'
    BY <1>0, <2>2, <2>3, <2>4, WriteDisk DEF Touches
  <2>7. QED
    BY <1>4, <2>2, <2>5, <2>6 DEF FilesWriteBytesInternal, TypeOK, TasksOK, DiskOK, mountVars
<1>5. QED
  BY <1>1, <1>2, <1>3, <1>4

\* The steps of the atomic write.
LEMMA AtomicType ==
  ASSUME TypeOK, NEW t \in Task, AtomicStep(t)
  PROVE  TypeOK'
<1> DEFINE p == task[t].path
<1> DEFINE q == Temp[task[t].path]
<1>0. /\ TasksOK /\ DiskOK /\ Inside(t)
      /\ task[t].call = "atomic" /\ p \in Path /\ q \in Path
  <2>1. TasksOK /\ DiskOK /\ Inside(t) /\ task[t].call = "atomic"
    BY DEF TypeOK, TasksOK, DiskOK, AtomicStep, CleanTemp, WriteTemp, RemoveTarget,
           RenameTemp, RemoveTemp, At, Inside, IsTask
  <2>2. QED
    BY <2>1, Paths DEF Writing
<1>1. \A pc \in {"write", "replace", "rename", "undo"} : MayBeAt(t, pc)
  BY <1>0 DEF MayBeAt, Pc
<1>2. ASSUME TasksOK', DiskOK', UNCHANGED <<mountVars, holder, settled, crashes>>,
             plain' \subseteq plain
      PROVE  TypeOK'
  BY <1>2 DEF TypeOK, TasksOK, DiskOK, mountVars
<1>3. CASE CleanTemp(t)
  <2>1. TasksOK' /\ DiskOK'
    BY <1>0, <1>1, <1>3, GotoType, RemoveDisk DEF CleanTemp, Touches
  <2>2. QED
    BY <1>2, <1>3, <2>1 DEF CleanTemp
<1>4. CASE WriteTemp(t)
  <2>1. PICK ok \in BOOLEAN :
          /\ LfsWriteBytes(q, task[t].data, FALSE, ok)
          /\ Goto(t, IF ok THEN "replace" ELSE "undo")
    BY <1>4 DEF WriteTemp
  <2>2. TasksOK'
    BY <1>0, <1>1, <2>1, GotoType
  <2>3. DiskOK'
    BY <1>0, <2>1, WriteDisk DEF Touches
  <2>4. QED
    BY <1>2, <1>4, <2>2, <2>3 DEF WriteTemp
<1>5. CASE RemoveTarget(t)
  <2>1. CASE UNCHANGED <<disk, faults>> /\ Goto(t, "rename")
    <3>1. TasksOK' /\ DiskOK'
      BY <1>0, <1>1, <1>5, <2>1, GotoType DEF RemoveTarget, DiskOK
    <3>2. QED
      BY <1>2, <1>5, <3>1 DEF RemoveTarget
  <2>2. CASE \E ok \in BOOLEAN :
               LfsRemove(p, ok) /\ Goto(t, IF ok THEN "rename" ELSE "undo")
    <3>1. TasksOK' /\ DiskOK'
      BY <1>0, <1>1, <1>5, <2>2, GotoType, RemoveDisk DEF RemoveTarget, Touches
    <3>2. QED
      BY <1>2, <1>5, <3>1 DEF RemoveTarget
  <2>3. QED
    BY <1>5, <2>1, <2>2 DEF RemoveTarget
<1>6. CASE RenameTemp(t)
  <2>1. PICK ok \in BOOLEAN :
          /\ LfsRename(q, p, ok)
          /\ IF ok THEN Done(t, TRUE) ELSE Goto(t, "undo")
          /\ plain' \subseteq plain
    BY <1>6 DEF RenameTemp
  <2>2. TasksOK'
    BY <1>0, <1>1, <2>1, GotoType, DoneType
  <2>3. DiskOK'
    BY <1>0, <1>6, <2>1, RenameDisk DEF RenameTemp
  <2>4. QED
    BY <1>2, <1>6, <2>1, <2>2, <2>3 DEF RenameTemp
<1>7. CASE RemoveTemp(t)
  <2>1. TasksOK' /\ DiskOK'
    BY <1>0, <1>7, DoneType, RemoveDisk DEF RemoveTemp, Touches
  <2>2. QED
    BY <1>2, <1>7, <2>1 DEF RemoveTemp
<1>8. QED
  BY <1>3, <1>4, <1>5, <1>6, <1>7 DEF AtomicStep

\* Mounting.
LEMMA MountType ==
  ASSUME TypeOK, NEW t \in Task, MountStep(t)
  PROVE  TypeOK'
<1>0. TasksOK /\ DiskOK /\ Inside(t) /\ lfs \in BOOLEAN
  BY DEF TypeOK, TasksOK, DiskOK, MountStep, FilesMount, FilesUnmount, FormatEnd,
         FormatWipe, FormatBegin, Work, At, Inside
<1>1. ASSUME TasksOK', DiskOK', Rest, plain' \subseteq plain,
             lfs' \in BOOLEAN, mounted' \in BOOLEAN
      PROVE  TypeOK'
  BY <1>1 DEF TypeOK, TasksOK, DiskOK, Rest
<1>2. CASE FilesMount(t)
  <2>1. PICK ok \in BOOLEAN : LfsMount(ok) /\ mounted' = ok /\ Done(t, ok)
    BY <1>2 DEF FilesMount
  <2>2. TasksOK' /\ DiskOK' /\ lfs' \in BOOLEAN
    BY <1>0, <1>2, <2>1, DoneType, MountDisk DEF FilesMount
  <2>3. QED
    BY <1>1, <1>2, <2>1, <2>2 DEF FilesMount, Rest
<1>3. CASE FilesUnmount(t)
  <2>1. TasksOK' /\ DiskOK'
    BY <1>0, <1>3, DoneType DEF FilesUnmount, DiskOK, fileVars
  <2>2. QED
    BY <1>1, <1>3, <2>1 DEF FilesUnmount, Rest, fileVars
<1>4. CASE FormatEnd(t)
  <2>1. TasksOK' /\ DiskOK'
    BY <1>0, <1>4, GotoType DEF FormatEnd, Work, DiskOK, fileVars, MayBeAt, Pc
  <2>2. QED
    BY <1>1, <1>4, <2>1 DEF FormatEnd, Rest, fileVars, TypeOK
<1>5. CASE FormatWipe(t)
  <2>1. CASE disk' = NoFiles /\ Goto(t, "begin") /\ UNCHANGED <<mounted, faults>>
    <3>1. TasksOK' /\ DiskOK'
      <4>1. task[t].call = "format"
        BY <1>0, <1>5 DEF FormatWipe, At, TasksOK, IsTask
      <4>2. QED
        BY <1>0, <1>5, <2>1, <4>1, GotoType, EmptyDisk
        DEF FormatWipe, DiskOK, MayBeAt, Pc
    <3>2. QED
      BY <1>1, <1>5, <2>1, <3>1 DEF FormatWipe, Rest, TypeOK
  <2>2. CASE Fault /\ mounted' = FALSE /\ Done(t, FALSE) /\ UNCHANGED disk
    <3>1. TasksOK'
      BY <1>0, <2>2, DoneType
    <3>2. DiskOK'
      BY <1>0, <1>5, <2>2 DEF FormatWipe, DiskOK, Fault
    <3>3. QED
      BY <1>1, <1>5, <2>2, <3>1, <3>2 DEF FormatWipe, Rest, TypeOK
  <2>3. QED
    BY <1>5, <2>1, <2>2 DEF FormatWipe
<1>6. CASE FormatBegin(t)
  <2>1. PICK ok \in BOOLEAN : LfsMount(ok) /\ mounted' = ok /\ Done(t, ok)
    BY <1>6 DEF FormatBegin
  <2>2. TasksOK' /\ DiskOK' /\ lfs' \in BOOLEAN
    BY <1>0, <1>6, <2>1, DoneType, MountDisk DEF FormatBegin
  <2>3. QED
    BY <1>1, <1>6, <2>1, <2>2 DEF FormatBegin, Rest
<1>7. QED
  BY <1>2, <1>3, <1>4, <1>5, <1>6 DEF MountStep

LEMMA PowerLossType ==
  ASSUME TypeOK, PowerLoss
  PROVE  TypeOK'
<1>1. TasksOK'
  BY IdleType DEF PowerLoss, TasksOK
<1>2. DOMAIN disk' = Path /\ plain' \subseteq Target
  BY DEF PowerLoss, TypeOK, fileVars
<1>3. crashes' \in 0..MaxCrashes
  BY DEF PowerLoss, TypeOK
<1>4. QED
  BY <1>1, <1>2, <1>3 DEF PowerLoss, TypeOK, TasksOK

\* TypeOK holds of every behaviour: a call is only where its kind can be, with
\* what it needs there.
THEOREM TypeCorrect == Spec => []TypeOK
<1>1. Init => TypeOK
  <2> SUFFICES ASSUME Init PROVE TypeOK
    OBVIOUS
  <2>1. DOMAIN disk = Path
    BY EmptyDisk DEF Init
  <2>2. TasksOK
    BY IdleType DEF Init, TasksOK
  <2>3. faults \in 0..MaxFaults /\ flushFaults \in 0..MaxFaults /\ crashes \in 0..MaxCrashes
    BY DEF Init
  <2>4. QED
    BY <2>1, <2>2, <2>3 DEF Init, TypeOK, TasksOK
<1>2. TypeOK /\ [Next]_vars => TypeOK'
  <2> SUFFICES ASSUME TypeOK, [Next]_vars
               PROVE  TypeOK'
    OBVIOUS
  <2>0. TasksOK
    BY DEF TypeOK, TasksOK
  <2>1. ASSUME TasksOK', UNCHANGED <<lfs, fileVars, faults, flushFaults, crashes>>,
               ready' \in BOOLEAN, mounted' \in BOOLEAN,
               holder' \in Task \cup {NoTask}, DOMAIN settled' = Target
        PROVE  TypeOK'
    BY <2>1 DEF TypeOK, TasksOK, fileVars
  <2>2. CASE FilesInit
    BY <2>0, <2>1, <2>2 DEF FilesInit, TypeOK, TasksOK
  <2>3. ASSUME NEW t \in Task, Begin(t)
        PROVE  TypeOK'
    <3>1. MayBeAt(t, "lock")
      BY <2>0, <2>3 DEF Begin, At, MayBeAt, TasksOK, IsTask, Pc
    <3>2. TasksOK'
      BY <2>0, <2>3, <3>1, GotoType DEF Begin
    <3>3. QED
      BY <2>1, <2>3, <3>2 DEF Begin, TypeOK, mountVars
  <2>4. ASSUME NEW t \in Task, FilesTakeLock(t)
        PROVE  TypeOK'
    <3>1. TasksOK'
      BY <2>0, <2>4, RequestType, SetType DEF FilesTakeLock
    <3>2. QED
      BY <2>1, <2>4, <3>1 DEF FilesTakeLock, TypeOK, mountVars
  <2>5. ASSUME NEW t \in Task, FilesGiveLock(t)
        PROVE  TypeOK'
    <3>1. TasksOK'
      BY <2>0, <2>5, IdleType, SetType DEF FilesGiveLock
    <3>2. QED
      BY <2>1, <2>5, <3>1 DEF FilesGiveLock, TypeOK, mountVars
  <2>6. ASSUME NEW t \in Task, CheckMounted(t)
        PROVE  TypeOK'
    BY <2>0, <2>1, <2>6, CheckType DEF CheckMounted, TypeOK, mountVars
  <2>7. CASE UNCHANGED vars
    BY <2>7 DEF vars, TypeOK
  <2>8. QED
    BY <2>2, <2>3, <2>4, <2>5, <2>6, <2>7, FileCallType, AtomicType, MountType,
       PowerLossType DEF Next, Step
<1>3. QED
  BY <1>1, <1>2, PTL DEF Spec

(***************************************************************************)
(* The inductive invariant: what is so while a call is at each place.      *)
(***************************************************************************)
\* The files are as the last call left them.
Settled == \A p \in Target : disk[p] = settled[p]

OthersSettled(t) == \A p \in Target \ {task[t].path} : disk[p] = settled[p]

\* Between the start and the end of a format LittleFS is not mounted; in all
\* other places the flag says what it is.
MountAt(t) ==
  /\ task[t].pc \in {"enter", "work", "give"} => mounted = lfs
  /\ task[t].pc \in {"clean", "write", "replace", "rename", "undo"} => mounted /\ lfs
  /\ At(t, "work") /\ task[t].call \in Writing \cup {"read", "remove", "rename"} => lfs
  /\ task[t].pc \in {"wipe", "begin"} => ~lfs

\* What the atomic write has done so far, and what a call has to show.
DataAt(t) ==
  /\ task[t].pc \in {"enter", "work", "clean", "write", "replace"} => Settled
  /\ At(t, "enter") => task[t].got = Missing
  /\ task[t].pc \in {"replace", "rename"} =>
       flushFaults > 0 \/ disk[Temp[task[t].path]] = task[t].data
  /\ task[t].pc \in {"rename", "undo"} =>
       /\ disk[task[t].path] \in {settled[task[t].path], Missing}
       /\ OthersSettled(t)
  /\ At(t, "give") /\ task[t].call = "atomic" =>
       /\ \/ disk[task[t].path] = task[t].data /\ task[t].ok
          \/ disk[task[t].path] \in {settled[task[t].path], Missing} /\ ~task[t].ok
          \/ task[t].ok /\ flushFaults > 0
       /\ OthersSettled(t)

Inv ==
  /\ OneInside
  /\ ~ready => ~lfs /\ ~mounted /\ \A t \in Task : At(t, "idle")
  /\ holder = NoTask => mounted = lfs /\ Settled
  /\ \A t \in Task : MountAt(t) /\ DataAt(t)
  /\ WholeFiles

(***************************************************************************)
(* Who moves.                                                              *)
(***************************************************************************)
\* A step of a call keeps the mutex and leaves the other tasks alone.
Stays(t) ==
  /\ Keeps(t)
  /\ UNCHANGED <<ready, holder, settled, crashes>>
  /\ Inside(t) /\ Inside(t)'

LEMMA StaysInside ==
  ASSUME TypeOK, OneInside, NEW t \in Task, Stays(t)
  PROVE  /\ OneInside'
         /\ ready = ready' /\ holder = t /\ holder' = t
         /\ \A u \in Task \ {t} : task'[u] = task[u] /\ task[u].pc \in {"idle", "lock"}
BY DEF TypeOK, OneInside, Stays, Keeps, Inside

\* What a step has to show for the invariant: the rest follows, because no
\* other task is in a call.
LEMMA StepInv ==
  ASSUME TypeOK, Inv, NEW t \in Task, Stays(t),
         MountAt(t)', DataAt(t)', WholeFiles'
  PROVE  Inv'
<1>1. /\ OneInside' /\ holder' = t /\ t # NoTask /\ ready' = ready
      /\ \A u \in Task \ {t} : task'[u] = task[u] /\ task[u].pc \in {"idle", "lock"}
  BY StaysInside DEF Inv
<1>2. ready'
  BY <1>1 DEF Inv, Stays, Inside, At, TypeOK
<1>3. \A u \in Task \ {t} : MountAt(u)' /\ DataAt(u)'
  BY <1>1 DEF MountAt, DataAt, At
<1>4. QED
  BY <1>1, <1>2, <1>3 DEF Inv

LEMMA GotoStays ==
  ASSUME TypeOK, NEW t \in Task, Inside(t), NEW pc, pc \notin {"idle", "lock"},
         Goto(t, pc), UNCHANGED <<ready, holder, settled, crashes>>
  PROVE  /\ Stays(t) /\ task'[t].pc = pc
         /\ task'[t].ok = task[t].ok /\ task'[t].got = task[t].got
         /\ task'[t].call = task[t].call /\ task'[t].path = task[t].path
         /\ task'[t].data = task[t].data
BY GotoKeeps DEF Stays, Inside, TypeOK, TasksOK, Keeps

LEMMA DoneStays ==
  ASSUME TypeOK, NEW t \in Task, Inside(t), NEW ok,
         Done(t, ok), UNCHANGED <<ready, holder, settled, crashes>>
  PROVE  /\ Stays(t) /\ task'[t].pc = "give"
         /\ task'[t].ok = ok /\ task'[t].got = task[t].got
         /\ task'[t].call = task[t].call /\ task'[t].path = task[t].path
         /\ task'[t].data = task[t].data
BY DoneKeeps DEF Stays, Inside, TypeOK, TasksOK, Keeps

\* A step that leaves the targets as they are keeps them whole.
LEMMA SameWhole ==
  ASSUME TypeOK, WholeFiles, \A p \in Target : disk'[p] = disk[p],
         flushFaults' >= flushFaults,
         \A p \in plain : p \in plain' \/ disk[p] = Missing
  PROVE  WholeFiles'
BY DEF WholeFiles, TypeOK

(***************************************************************************)
(* The steps of the atomic write.                                          *)
(***************************************************************************)
LEMMA CleanTempInv ==
  ASSUME TypeOK, Inv, NEW t \in Task, CleanTemp(t)
  PROVE  Inv'
<1> DEFINE p == task[t].path
<1> DEFINE q == Temp[task[t].path]
<1>1. TasksOK /\ DiskOK /\ Inside(t) /\ At(t, "clean") /\ task[t].call = "atomic"
  BY DEF TypeOK, TasksOK, DiskOK, CleanTemp, At, Inside, IsTask
<1>2. p \in Target /\ q \in Path /\ q \notin Target
  BY <1>1, Paths DEF Writing
<1>3. \A r \in Target : disk'[r] = disk[r]
  BY <1>1, <1>2, RemoveDisk DEF CleanTemp, Touches, Path
<1>4. /\ Stays(t) /\ task'[t].pc = "write"
      /\ task'[t].path = p /\ task'[t].call = "atomic"
  BY <1>1, GotoStays DEF CleanTemp, mountVars
<1>5. MountAt(t)'
  BY <1>1, <1>4 DEF CleanTemp, mountVars, MountAt, Inv, At
<1>6. DataAt(t)'
  BY <1>1, <1>3, <1>4 DEF CleanTemp, Inv, DataAt, Settled, At
<1>7. WholeFiles'
  BY <1>3, SameWhole DEF CleanTemp, Inv, TypeOK
<1>8. QED
  BY <1>4, <1>5, <1>6, <1>7, StepInv

\* The temporary file has the whole of the data, unless the flush failed.
LEMMA WholeData ==
  ASSUME NEW p, NEW d \in Data
  PROVE  Base(p, FALSE) \o d = d
<1>1. d \in Seq({d[i] : i \in DOMAIN d})
  BY DataAssumption
<1>2. <<>> \o d = d
  BY <1>1, ConcatEmptySeq
<1>3. QED
  BY <1>2 DEF Base

LEMMA WriteTempInv ==
  ASSUME TypeOK, Inv, NEW t \in Task, WriteTemp(t)
  PROVE  Inv'
<1> DEFINE p == task[t].path
<1> DEFINE q == Temp[task[t].path]
<1> DEFINE d == task[t].data
<1>1. TasksOK /\ DiskOK /\ Inside(t) /\ At(t, "write") /\ task[t].call = "atomic"
  BY DEF TypeOK, TasksOK, DiskOK, WriteTemp, At, Inside, IsTask
<1>2. p \in Target /\ p \in Path /\ q \in Path /\ q \notin Target /\ d \in Data
  BY <1>1, Paths DEF Writing, TasksOK, IsTask
<1>3. PICK ok \in BOOLEAN :
        LfsWriteBytes(q, d, FALSE, ok) /\ Goto(t, IF ok THEN "replace" ELSE "undo")
  BY DEF WriteTemp
<1>4. /\ \A r \in Target : disk'[r] = disk[r]
      /\ flushFaults' >= flushFaults
      /\ ok => flushFaults' > 0 \/ disk'[q] = d
  <2>1. Touches(q) /\ flushFaults' >= flushFaults
        /\ (ok => flushFaults' > 0 \/ disk'[q] = Base(q, FALSE) \o d)
    BY <1>1, <1>2, <1>3, WriteDisk, ZenonT(60)
  <2>2. QED
    BY <1>2, <2>1, WholeData DEF Touches, Path
<1>5. /\ Stays(t) /\ task'[t].pc = IF ok THEN "replace" ELSE "undo"
      /\ task'[t].path = p /\ task'[t].call = "atomic" /\ task'[t].data = d
  BY <1>1, <1>3, GotoStays DEF WriteTemp, mountVars
<1>6. MountAt(t)'
  BY <1>1, <1>5 DEF WriteTemp, mountVars, MountAt, Inv, At
<1>7. DataAt(t)'
  BY <1>1, <1>2, <1>4, <1>5 DEF WriteTemp, Inv, DataAt, Settled, OthersSettled, At
<1>8. WholeFiles'
  BY <1>4, SameWhole DEF WriteTemp, Inv
<1>9. QED
  BY <1>5, <1>6, <1>7, <1>8, StepInv

LEMMA RemoveTargetInv ==
  ASSUME TypeOK, Inv, NEW t \in Task, RemoveTarget(t)
  PROVE  Inv'
<1> DEFINE p == task[t].path
<1> DEFINE q == Temp[task[t].path]
<1> DEFINE d == task[t].data
<1>1. TasksOK /\ DiskOK /\ Inside(t) /\ At(t, "replace") /\ task[t].call = "atomic"
  BY DEF TypeOK, TasksOK, DiskOK, RemoveTarget, At, Inside, IsTask
<1>2. p \in Target /\ p \in Path /\ q \in Path /\ q # p
  BY <1>1, Paths DEF Writing
<1>3. PICK ok \in BOOLEAN :
        /\ Goto(t, IF ok THEN "rename" ELSE "undo")
        /\ \A r \in Path \ {p} : disk'[r] = disk[r]
        /\ IF ok THEN disk'[p] = Missing ELSE disk' = disk
  <2>1. CASE disk[p] = Missing /\ Goto(t, "rename") /\ UNCHANGED <<disk, faults>>
    BY <2>1
  <2>2. CASE \E ok \in BOOLEAN :
               LfsRemove(p, ok) /\ Goto(t, IF ok THEN "rename" ELSE "undo")
    BY <1>1, <1>2, <2>2, RemoveDisk DEF RemoveTarget, Touches
  <2>3. QED
    BY <2>1, <2>2 DEF RemoveTarget
<1>4. /\ Stays(t) /\ task'[t].pc = IF ok THEN "rename" ELSE "undo"
      /\ task'[t].path = p /\ task'[t].call = "atomic" /\ task'[t].data = d
  BY <1>1, <1>3, GotoStays DEF RemoveTarget, mountVars
<1>5. MountAt(t)'
  BY <1>1, <1>4 DEF RemoveTarget, mountVars, MountAt, Inv, At
<1>6. /\ disk'[p] \in {settled[p], Missing}
      /\ \A r \in Target \ {p} : disk'[r] = settled[r]
      /\ flushFaults > 0 \/ disk'[q] = d
  BY <1>1, <1>2, <1>3 DEF Inv, DataAt, Settled, Path, At
<1>7. DataAt(t)'
  BY <1>4, <1>6 DEF RemoveTarget, DataAt, OthersSettled, Stays, At
<1>8. WholeFiles'
  BY <1>2, <1>3 DEF RemoveTarget, Inv, WholeFiles, Path
<1>9. QED
  BY <1>4, <1>5, <1>7, <1>8, StepInv

LEMMA RenameTempInv ==
  ASSUME TypeOK, Inv, NEW t \in Task, RenameTemp(t)
  PROVE  Inv'
<1> DEFINE p == task[t].path
<1> DEFINE q == Temp[task[t].path]
<1> DEFINE d == task[t].data
<1>1. /\ TasksOK /\ DiskOK /\ Inside(t) /\ At(t, "rename")
      /\ task[t].call = "atomic" /\ d \in Data
  BY DEF TypeOK, TasksOK, DiskOK, RenameTemp, At, Inside, IsTask, Writing
<1>2. p \in Target /\ p \in Path /\ q \in Path /\ q \notin Target
  BY <1>1, Paths DEF Writing
<1>3. PICK ok \in BOOLEAN :
        /\ LfsRename(q, p, ok)
        /\ IF ok THEN Done(t, TRUE) ELSE Goto(t, "undo")
        /\ plain' = IF ok THEN plain \ {p} ELSE plain
  BY DEF RenameTemp
<1>4. /\ \A r \in Target \ {p} : disk'[r] = disk[r]
      /\ IF ok THEN disk'[p] = disk[q] ELSE disk'[p] = disk[p]
  BY <1>1, <1>2, <1>3, RenameDisk DEF RenameTemp, Path
<1>5. flushFaults > 0 \/ disk[q] = d
  BY <1>1 DEF Inv, DataAt, At
<1>6. CASE ok
  <2>1. /\ Stays(t) /\ task'[t].pc = "give" /\ task'[t].ok = TRUE
        /\ task'[t].path = p /\ task'[t].call = "atomic" /\ task'[t].data = d
    BY <1>1, <1>3, <1>6, DoneStays DEF RenameTemp, mountVars
  <2>2. MountAt(t)'
    BY <1>1, <2>1 DEF RenameTemp, mountVars, MountAt, Inv, At, TypeOK
  <2>3. \A r \in Target \ {p} : disk'[r] = settled[r]
    BY <1>1, <1>4 DEF Inv, DataAt, OthersSettled, At
  <2>4. DataAt(t)'
    BY <1>4, <1>5, <1>6, <2>1, <2>3 DEF RenameTemp, DataAt, OthersSettled, Stays, At
  <2>5. WholeFiles'
    BY <1>1, <1>3, <1>4, <1>5, <1>6 DEF RenameTemp, Inv, WholeFiles, TypeOK
  <2>6. QED
    BY <2>1, <2>2, <2>4, <2>5, StepInv
<1>7. CASE ~ok
  <2>1. /\ Stays(t) /\ task'[t].pc = "undo"
        /\ task'[t].path = p /\ task'[t].call = "atomic"
    BY <1>1, <1>3, <1>7, GotoStays DEF RenameTemp, mountVars
  <2>2. MountAt(t)'
    BY <1>1, <2>1 DEF RenameTemp, mountVars, MountAt, Inv, At, TypeOK
  <2>3. /\ disk'[p] \in {settled[p], Missing}
        /\ \A r \in Target \ {p} : disk'[r] = settled[r]
    BY <1>1, <1>4, <1>7 DEF Inv, DataAt, OthersSettled, At
  <2>4. DataAt(t)'
    BY <2>1, <2>3 DEF DataAt, OthersSettled, Stays, At
  <2>5. WholeFiles'
    BY <1>3, <1>4, <1>7 DEF RenameTemp, Inv, WholeFiles
  <2>6. QED
    BY <2>1, <2>2, <2>4, <2>5, StepInv
<1>8. QED
  BY <1>6, <1>7

LEMMA RemoveTempInv ==
  ASSUME TypeOK, Inv, NEW t \in Task, RemoveTemp(t)
  PROVE  Inv'
<1> DEFINE p == task[t].path
<1>1. TasksOK /\ DiskOK /\ Inside(t) /\ At(t, "undo") /\ task[t].call = "atomic"
  BY DEF TypeOK, TasksOK, DiskOK, RemoveTemp, At, Inside, IsTask
<1>2. p \in Target /\ Temp[p] \in Path /\ Temp[p] \notin Target
  BY <1>1, Paths DEF Writing
<1>3. \A r \in Target : disk'[r] = disk[r]
  BY <1>1, <1>2, RemoveDisk DEF RemoveTemp, Touches, Path
<1>4. /\ Stays(t) /\ task'[t].pc = "give" /\ task'[t].ok = FALSE
      /\ task'[t].path = p /\ task'[t].call = "atomic"
  BY <1>1, DoneStays DEF RemoveTemp, mountVars
<1>5. MountAt(t)'
  BY <1>1, <1>4 DEF RemoveTemp, mountVars, MountAt, Inv, At, TypeOK
<1>6. DataAt(t)'
  BY <1>1, <1>2, <1>3, <1>4 DEF RemoveTemp, Inv, DataAt, OthersSettled, Stays, At
<1>7. WholeFiles'
  BY <1>3, SameWhole DEF RemoveTemp, Inv, TypeOK
<1>8. QED
  BY <1>4, <1>5, <1>6, <1>7, StepInv

(***************************************************************************)
(* The other calls.                                                        *)
(***************************************************************************)
LEMMA CheckMountedInv ==
  ASSUME TypeOK, Inv, NEW t \in Task, CheckMounted(t)
  PROVE  Inv'
<1> DEFINE p == task[t].path
<1>1. /\ TasksOK /\ Inside(t) /\ At(t, "enter")
      /\ mounted = lfs /\ Settled /\ task[t].got = Missing
  BY DEF TypeOK, TasksOK, CheckMounted, At, Inside, Inv, MountAt, DataAt
<1>2. UNCHANGED <<ready, mounted, lfs, disk, plain, holder, settled, flushFaults, crashes>>
  BY DEF CheckMounted, mountVars, fileVars
<1>3. WholeFiles'
  BY <1>2 DEF Inv, WholeFiles
<1>4. CASE Done(t, FALSE) /\ ~mounted
           /\ task[t].call \notin Mounting
  <2>1. /\ Stays(t) /\ task'[t].pc = "give" /\ task'[t].ok = FALSE
        /\ task'[t].path = p /\ task'[t].call = task[t].call /\ task'[t].got = Missing
    BY <1>1, <1>2, <1>4, DoneStays
  <2>2. MountAt(t)'
    BY <1>1, <1>2, <2>1 DEF MountAt, At
  <2>3. task[t].call = "atomic" => p \in Target
    BY <1>1 DEF TasksOK, IsTask, Writing
  <2>4. DataAt(t)'
    BY <1>1, <1>2, <1>4, <2>1, <2>3 DEF DataAt, Settled, OthersSettled, At
  <2>5. QED
    BY <1>3, <2>1, <2>2, <2>4, StepInv
<1>5. CASE /\ Goto(t, "work")
           /\ task[t].call \in Mounting \/ mounted
  <2>1. Stays(t) /\ task'[t].pc = "work" /\ task'[t].call = task[t].call
    BY <1>1, <1>2, <1>5, GotoStays
  <2>2. MountAt(t)'
    BY <1>1, <1>2, <1>5, <2>1 DEF MountAt, At, Writing, Mounting
  <2>3. DataAt(t)'
    BY <1>1, <1>2, <2>1 DEF DataAt, Settled, At
  <2>4. QED
    BY <1>3, <2>1, <2>2, <2>3, StepInv
<1>6. CASE Goto(t, "clean") /\ mounted
  <2>1. Stays(t) /\ task'[t].pc = "clean"
    BY <1>1, <1>2, <1>6, GotoStays
  <2>2. MountAt(t)'
    BY <1>1, <1>2, <1>6, <2>1 DEF MountAt, At
  <2>3. DataAt(t)'
    BY <1>1, <1>2, <2>1 DEF DataAt, Settled, At
  <2>4. QED
    BY <1>3, <2>1, <2>2, <2>3, StepInv
<1>7. QED
  BY <1>4, <1>5, <1>6 DEF CheckMounted

\* A call that is done, and is neither a read nor an atomic write.
LEMMA DoneInv ==
  ASSUME TypeOK, Inv, NEW t \in Task, Inside(t), NEW ok, Done(t, ok),
         task[t].call \notin {"read", "atomic"},
         UNCHANGED <<ready, holder, settled, crashes>>,
         mounted' = lfs', WholeFiles'
  PROVE  Inv'
<1>1. Stays(t) /\ task'[t].pc = "give" /\ task'[t].call = task[t].call
  BY DoneStays
<1>2. MountAt(t)'
  BY <1>1 DEF MountAt, At
<1>3. DataAt(t)'
  BY <1>1 DEF DataAt, At
<1>4. QED
  BY <1>1, <1>2, <1>3, StepInv

LEMMA ReadInv ==
  ASSUME TypeOK, Inv, NEW t \in Task, FilesRead(t)
  PROVE  Inv'
<1>1. /\ TasksOK /\ Inside(t) /\ At(t, "work") /\ task[t].call = "read"
      /\ mounted = lfs /\ lfs /\ Settled
  BY DEF TypeOK, TasksOK, FilesRead, Work, At, Inside, Inv, MountAt, DataAt
<1>2. UNCHANGED <<ready, mounted, lfs, disk, plain, holder, settled, flushFaults, crashes>>
  BY DEF FilesRead, mountVars, fileVars
<1>3. /\ Stays(t) /\ task'[t].pc = "give" /\ task'[t].call = "read"
      /\ task'[t].path = task[t].path
  BY <1>1, <1>2, ReadKeeps DEF Stays, Keeps, Inside
<1>5. MountAt(t)'
  BY <1>1, <1>2, <1>3 DEF MountAt, At
<1>6. DataAt(t)'
  BY <1>1, <1>2, <1>3 DEF DataAt, At
<1>7. WholeFiles'
  BY <1>2 DEF Inv, WholeFiles
<1>8. QED
  BY <1>3, <1>5, <1>6, <1>7, StepInv

LEMMA RemoveInv ==
  ASSUME TypeOK, Inv, NEW t \in Task, FilesRemove(t)
  PROVE  Inv'
<1> DEFINE p == task[t].path
<1>1. /\ TasksOK /\ DiskOK /\ Inside(t) /\ task[t].call = "remove" /\ mounted = lfs
  BY DEF TypeOK, TasksOK, DiskOK, FilesRemove, Work, At, Inside, Inv, MountAt
<1>2. PICK ok \in BOOLEAN : LfsRemove(p, ok) /\ Done(t, ok)
  BY DEF FilesRemove
<1>3. p \in Path
  BY <1>1, Paths
<1>4. \A r \in Path : disk'[r] = disk[r] \/ disk'[r] = Missing
  BY <1>1, <1>2, <1>3, RemoveDisk DEF FilesRemove, Touches
<1>5. WholeFiles'
  BY <1>4 DEF FilesRemove, Inv, WholeFiles, TypeOK, Path
<1>6. QED
  BY <1>1, <1>2, <1>5, DoneInv DEF FilesRemove, mountVars

LEMMA RenameInv ==
  ASSUME TypeOK, Inv, NEW t \in Task, FilesRename(t)
  PROVE  Inv'
<1> DEFINE p == task[t].path
<1> DEFINE q == task[t].to
<1>1. /\ TasksOK /\ DiskOK /\ Inside(t) /\ task[t].call = "rename" /\ mounted = lfs
  BY DEF TypeOK, TasksOK, DiskOK, FilesRename, Work, At, Inside, Inv, MountAt
<1>2. PICK ok \in BOOLEAN :
        /\ LfsRename(p, q, ok) /\ Done(t, ok)
        /\ plain' = IF ~ok THEN plain
                    ELSE (plain \ {p, q}) \cup {q : r \in plain \cap {p}}
  BY DEF FilesRename
<1>3. p \in Target /\ q \in Target /\ p \in Path /\ q \in Path
  BY <1>1, Paths
<1>4. ASSUME ok PROVE WholeFiles'
  <2>1. /\ disk'[q] = disk[p]
        /\ \A r \in Target \ {p, q} : disk'[r] = disk[r]
        /\ p # q => disk'[p] = Missing
    BY <1>1, <1>2, <1>3, <1>4, RenameDisk, ZenonT(60) DEF FilesRename, Path
  <2>2. /\ p \in plain => q \in plain'
        /\ \A r \in plain \ {p, q} : r \in plain'
    BY <1>2, <1>4
  <2>3. QED
    BY <1>3, <2>1, <2>2 DEF FilesRename, Inv, WholeFiles
<1>5. ASSUME ~ok PROVE WholeFiles'
  <2>1. disk' = disk /\ plain' = plain
    BY <1>1, <1>2, <1>3, <1>5, RenameDisk DEF FilesRename
  <2>2. QED
    BY <2>1 DEF FilesRename, Inv, WholeFiles
<1>6. WholeFiles'
  BY <1>4, <1>5
<1>7. QED
  BY <1>1, <1>2, <1>6, DoneInv DEF FilesRename, mountVars

LEMMA WriteInv ==
  ASSUME TypeOK, Inv, NEW t \in Task, FilesWriteBytesInternal(t)
  PROVE  Inv'
<1> DEFINE p == task[t].path
<1> DEFINE append == task[t].call = "append"
<1>1. /\ TasksOK /\ DiskOK /\ Inside(t) /\ task[t].call \in {"write", "append"}
      /\ mounted = lfs
  BY DEF TypeOK, TasksOK, DiskOK, FilesWriteBytesInternal, Work, At, Inside, Inv, MountAt
<1>2. PICK ok \in BOOLEAN : LfsWriteBytes(p, task[t].data, append, ok) /\ Done(t, ok)
  BY DEF FilesWriteBytesInternal
<1>3. p \in Path /\ append \in BOOLEAN
  BY <1>1, Paths DEF Writing
<1> HIDE DEF append
<1>4. Touches(p) /\ flushFaults' >= flushFaults
  BY <1>1, <1>2, <1>3, WriteDisk
<1>5. WholeFiles'
  BY <1>4 DEF FilesWriteBytesInternal, Inv, WholeFiles, TypeOK, Touches, Path
<1>6. QED
  BY <1>1, <1>2, <1>5, DoneInv DEF FilesWriteBytesInternal, mountVars

(***************************************************************************)
(* Mounting.                                                               *)
(***************************************************************************)
\* A disk that keeps its files or loses all of them stays whole.
LEMMA WipeWhole ==
  ASSUME TypeOK, WholeFiles, disk' = disk \/ disk' = NoFiles,
         flushFaults' = flushFaults,
         plain' = plain \/ plain' = {p \in plain : disk'[p] # Missing}
  PROVE  WholeFiles'
BY EmptyDisk DEF WholeFiles, TypeOK, Path

LEMMA MountInv ==
  ASSUME TypeOK, Inv, NEW t \in Task, FilesMount(t)
  PROVE  Inv'
<1>1. /\ DiskOK /\ Inside(t) /\ task[t].call = "mount"
      /\ lfs \in BOOLEAN
  BY DEF TypeOK, DiskOK, FilesMount, Work, At, Inside
<1>2. PICK ok \in BOOLEAN : LfsMount(ok) /\ mounted' = ok /\ Done(t, ok)
  BY DEF FilesMount
<1>3. /\ disk' = disk \/ disk' = NoFiles
      /\ lfs' \in BOOLEAN /\ (lfs' <=> lfs \/ ok) /\ (lfs => ok)
  BY <1>1, <1>2, MountDisk DEF FilesMount
<1>4. mounted' = lfs'
  BY <1>2, <1>3
<1>5. WholeFiles'
  BY <1>3, WipeWhole DEF FilesMount, Inv
<1>6. QED
  BY <1>1, <1>2, <1>4, <1>5, DoneInv DEF FilesMount

LEMMA UnmountInv ==
  ASSUME TypeOK, Inv, NEW t \in Task, FilesUnmount(t)
  PROVE  Inv'
<1>1. Inside(t) /\ task[t].call = "unmount" /\ mounted = lfs
  BY DEF FilesUnmount, Work, At, Inside, Inv, MountAt
<1>2. mounted' = lfs'
  BY <1>1 DEF FilesUnmount
<1>3. WholeFiles'
  BY DEF FilesUnmount, Inv, WholeFiles, fileVars
<1>4. QED
  BY <1>1, <1>2, <1>3, DoneInv DEF FilesUnmount

LEMMA FormatInv ==
  ASSUME TypeOK, Inv, NEW t \in Task,
         FormatEnd(t) \/ FormatWipe(t) \/ FormatBegin(t)
  PROVE  Inv'
<1>1. TasksOK /\ DiskOK /\ Inside(t) /\ task[t].call = "format" /\ lfs \in BOOLEAN
  BY DEF TypeOK, TasksOK, DiskOK, IsTask, FormatEnd, FormatWipe, FormatBegin,
         Work, At, Inside
<1>2. CASE FormatEnd(t)
  <2>1. Stays(t) /\ task'[t].pc = "wipe"
    BY <1>1, <1>2, GotoStays DEF FormatEnd
  <2>2. MountAt(t)' /\ DataAt(t)'
    BY <1>2, <2>1 DEF FormatEnd, MountAt, DataAt, At
  <2>3. WholeFiles'
    BY <1>2 DEF FormatEnd, Inv, WholeFiles, fileVars
  <2>4. QED
    BY <2>1, <2>2, <2>3, StepInv
<1>3. CASE FormatWipe(t)
  <2>1. ~lfs /\ lfs' = lfs
    BY <1>3 DEF FormatWipe, Inv, MountAt, At
  <2>2. WholeFiles'
    BY <1>3, WipeWhole DEF FormatWipe, Inv
  <2>3. CASE Goto(t, "begin")
    <3>1. Stays(t) /\ task'[t].pc = "begin"
      BY <1>1, <1>3, <2>3, GotoStays DEF FormatWipe
    <3>2. MountAt(t)' /\ DataAt(t)'
      BY <2>1, <3>1 DEF MountAt, DataAt, At
    <3>3. QED
      BY <2>2, <3>1, <3>2, StepInv
  <2>4. CASE mounted' = FALSE /\ Done(t, FALSE)
    <3>1. mounted' = lfs'
      BY <1>1, <2>1, <2>4
    <3>2. QED
      BY <1>1, <1>3, <2>2, <2>4, <3>1, DoneInv DEF FormatWipe
  <2>5. QED
    BY <1>3, <2>3, <2>4 DEF FormatWipe
<1>4. CASE FormatBegin(t)
  <2>1. PICK ok \in BOOLEAN : LfsMount(ok) /\ mounted' = ok /\ Done(t, ok)
    BY <1>4 DEF FormatBegin
  <2>2. /\ disk' = disk \/ disk' = NoFiles
        /\ lfs' \in BOOLEAN /\ (lfs' <=> lfs \/ ok) /\ (lfs => ok)
    BY <1>1, <1>4, <2>1, MountDisk DEF FormatBegin
  <2>3. mounted' = lfs'
    BY <2>1, <2>2
  <2>4. WholeFiles'
    BY <1>4, <2>2, WipeWhole DEF FormatBegin, Inv
  <2>5. QED
    BY <1>1, <1>4, <2>1, <2>3, <2>4, DoneInv DEF FormatBegin
<1>5. QED
  BY <1>2, <1>3, <1>4

(***************************************************************************)
(* The mutex, the start and the loss of power.                             *)
(***************************************************************************)
LEMMA LockInv ==
  ASSUME TypeOK, Inv, NEW t \in Task,
         Begin(t) \/ FilesTakeLock(t) \/ FilesGiveLock(t)
  PROVE  Inv'
<1>1. /\ DOMAIN task = Task /\ \A u \in Task : DOMAIN task[u] = DOMAIN Idle
      /\ UNCHANGED <<ready, mounted, lfs, disk, plain, flushFaults>>
  BY DEF TypeOK, IsTask, Begin, FilesTakeLock, FilesGiveLock, mountVars, fileVars
<1>2. ready
  BY DEF Inv, Begin, FilesTakeLock, FilesGiveLock, At
<1>3. WholeFiles'
  BY <1>1 DEF Inv, WholeFiles
<1>4. \A u \in Task \ {t} : task'[u] = task[u]
  BY <1>1 DEF Begin, Goto, FilesTakeLock, FilesGiveLock
<1>5. CASE Begin(t)
  <2>1. /\ task[t].pc = "idle" /\ task'[t].pc = "lock"
        /\ UNCHANGED <<holder, settled>>
    BY <1>1, <1>5, GotoKeeps DEF Begin, At, TypeOK, TasksOK
  <2>2. OneInside'
    BY <1>4, <2>1 DEF Inv, OneInside, Inside
  <2>3. \A u \in Task : MountAt(u)' /\ DataAt(u)'
    BY <1>1, <1>4, <2>1 DEF Inv, MountAt, DataAt, At, Settled, OthersSettled
  <2>4. QED
    BY <1>1, <1>2, <1>3, <2>1, <2>2, <2>3 DEF Inv, Settled
<1>6. CASE FilesTakeLock(t)
  <2>1. /\ holder = NoTask /\ holder' = t /\ settled' = settled
        /\ task'[t].pc = "enter" /\ task'[t].got = Missing
    BY <1>1, <1>6, RequestType DEF FilesTakeLock
  <2>2. \A u \in Task \ {t} : task[u].pc \in {"idle", "lock"}
    BY <2>1 DEF Inv, OneInside, Inside
  <2>3. OneInside'
    BY <1>4, <2>1, <2>2 DEF OneInside, Inside
  <2>4. mounted = lfs /\ Settled
    BY <2>1 DEF Inv
  <2>5. \A u \in Task : MountAt(u)' /\ DataAt(u)'
    BY <1>1, <1>4, <2>1, <2>2, <2>4 DEF MountAt, DataAt, At, Settled
  <2>6. QED
    BY <1>1, <1>2, <1>3, <2>1, <2>3, <2>5 DEF Inv
<1>7. CASE FilesGiveLock(t)
  <2>1. /\ task[t].pc = "give" /\ holder' = NoTask /\ task'[t].pc = "idle"
        /\ settled' = [p \in Target |-> disk[p]]
    BY <1>1, <1>7 DEF FilesGiveLock, At, Idle
  <2>2. holder = t /\ mounted = lfs
    BY <2>1 DEF Inv, OneInside, Inside, MountAt
  <2>3. \A u \in Task \ {t} : task[u].pc \in {"idle", "lock"}
    BY <2>2 DEF Inv, OneInside, Inside
  <2>4. OneInside'
    BY <1>4, <2>1, <2>3 DEF OneInside, Inside
  <2>5. \A u \in Task : MountAt(u)' /\ DataAt(u)'
    BY <1>4, <2>1, <2>3 DEF MountAt, DataAt, At
  <2>6. Settled'
    BY <1>1, <2>1 DEF Settled
  <2>7. QED
    BY <1>1, <1>2, <1>3, <2>2, <2>4, <2>5, <2>6 DEF Inv
<1>8. QED
  BY <1>5, <1>6, <1>7

LEMMA FilesInitInv ==
  ASSUME TypeOK, Inv, FilesInit
  PROVE  Inv'
<1>1. /\ \A t \in Task : At(t, "idle")
      /\ ~lfs /\ ~mounted
  BY DEF Inv, FilesInit
<1>2. holder = NoTask
  BY <1>1 DEF Inv, OneInside, Inside, At, TypeOK
<1>3. Settled /\ WholeFiles
  BY <1>2 DEF Inv
<1>4. /\ (\A t \in Task : At(t, "idle"))'
      /\ holder' = NoTask /\ ~lfs' /\ ~mounted' /\ mounted' = lfs'
  BY <1>1, <1>2 DEF FilesInit, At, TypeOK
<1>5. Settled' /\ WholeFiles'
  BY <1>3 DEF FilesInit, fileVars, Settled, WholeFiles
<1>6. QED
  BY <1>4, <1>5 DEF Inv, OneInside, Inside, MountAt, DataAt, At

LEMMA PowerLossInv ==
  ASSUME TypeOK, Inv, PowerLoss
  PROVE  Inv'
<1>1. WholeFiles'
  <2>1. CASE UNCHANGED fileVars
    BY <2>1 DEF PowerLoss, Inv, WholeFiles, fileVars
  <2>2. ASSUME NEW p \in Path, NEW c, disk' = [disk EXCEPT ![p] = c],
               plain' = IF p \in Target THEN plain \cup {p} ELSE plain
        PROVE  WholeFiles'
    BY <2>2 DEF PowerLoss, Inv, WholeFiles, TypeOK
  <2>3. QED
    BY <2>1, <2>2 DEF PowerLoss
<1>2. (\A t \in Task : At(t, "idle"))'
  BY DEF PowerLoss, At, Idle
<1>3. Settled'
  BY DEF PowerLoss, Settled
<1>4. holder' = NoTask /\ lfs' = FALSE /\ mounted' = FALSE
  BY DEF PowerLoss
<1>5. QED
  BY <1>1, <1>2, <1>3, <1>4 DEF Inv, OneInside, Inside, MountAt, DataAt, At

(***************************************************************************)
(* What follows.                                                           *)
(***************************************************************************)
LEMMA Inductive ==
  ASSUME TypeOK, Inv, [Next]_vars
  PROVE  Inv'
<1>1. CASE UNCHANGED vars
  BY <1>1 DEF vars, Inv, OneInside, Inside, At, Settled, MountAt, DataAt,
              OthersSettled, WholeFiles
<1>2. ASSUME NEW t \in Task, AtomicStep(t)
      PROVE  Inv'
  BY <1>2, CleanTempInv, WriteTempInv, RemoveTargetInv, RenameTempInv, RemoveTempInv
  DEF AtomicStep
<1>3. ASSUME NEW t \in Task, MountStep(t)
      PROVE  Inv'
  BY <1>3, MountInv, UnmountInv, FormatInv DEF MountStep
<1>4. ASSUME NEW t \in Task, Begin(t) \/ FilesTakeLock(t) \/ Step(t)
      PROVE  Inv'
  BY <1>2, <1>3, <1>4, LockInv, CheckMountedInv, ReadInv, RemoveInv, RenameInv,
     WriteInv
  DEF Step
<1>5. QED
  BY <1>1, <1>4, FilesInitInv, PowerLossInv DEF Next

THEOREM Invariance == Spec => [](TypeOK /\ Inv)
<1>1. Init => Inv
  <2> SUFFICES ASSUME Init
               PROVE  Inv
    OBVIOUS
  <2>1. \A t \in Task : At(t, "idle")
    BY DEF Init, At, Idle
  <2>2. \A p \in Target : disk[p] = Missing
    BY EmptyDisk DEF Init, Path
  <2>3. Settled /\ WholeFiles
    BY <2>2 DEF Init, Settled, WholeFiles
  <2>4. QED
    BY <2>1, <2>3 DEF Init, Inv, OneInside, Inside, MountAt, DataAt, At
<1>2. QED
  BY <1>1, Inductive, TypeCorrect, PTL DEF Spec

\* The mutex: a task is inside a call exactly while it holds g_files_mutex, so
\* no two calls of the handler overlap.
THEOREM Exclusion == Spec => []OneInside
<1>1. Inv => OneInside
  BY DEF Inv
<1>2. QED
  BY <1>1, Invariance, PTL

\* A file that only atomic writes wrote is whole or absent, however the calls
\* of any number of tasks interleave, fail and lose power.
THEOREM FilesAreWhole == Spec => []WholeFiles
<1>1. Inv => WholeFiles
  BY DEF Inv
<1>2. QED
  BY <1>1, Invariance, PTL

\* What an atomic write returns is what it did, to its file and to no other.
THEOREM AtomicOutcomes == Spec => []AtomicOutcome
<1>1. Inv => AtomicOutcome
  BY DEF Inv, DataAt, AtomicOutcome, OthersSettled
<1>2. QED
  BY <1>1, Invariance, PTL

\* A read ends where the mount is checked or with its own work.
LEMMA EndsOfRead ==
  ASSUME TypeOK, [Next]_vars, NEW t \in Task, task[t].call = "read",
         ~At(t, "give"), At(t, "give")'
  PROVE  (CheckMounted(t) /\ Done(t, FALSE) /\ ~mounted) \/ FilesRead(t)
<1>0. TasksOK /\ task'[t].pc = "give" /\ task[t].pc # "give"
  BY DEF TypeOK, TasksOK, At
<1>1. ~UNCHANGED vars /\ ~FilesInit /\ ~PowerLoss
  BY <1>0 DEF vars, FilesInit, PowerLoss, Idle
<1>2. ASSUME NEW u \in Task, Begin(u) \/ FilesTakeLock(u) \/ FilesGiveLock(u)
      PROVE  FALSE
  <2>1. CASE Begin(u)
    BY <1>0, <2>1 DEF Begin, Goto, TasksOK, IsTask, Idle
  <2>2. CASE FilesTakeLock(u)
    <3>1. PICK r \in Request : task' = [task EXCEPT ![u] = r]
      BY <2>2 DEF FilesTakeLock
    <3>2. r.pc = "enter"
      BY RequestType
    <3>3. QED
      BY <1>0, <3>1, <3>2 DEF TasksOK
  <2>3. CASE FilesGiveLock(u)
    BY <1>0, <2>3 DEF FilesGiveLock, TasksOK, Idle
  <2>4. QED
    BY <1>2, <2>1, <2>2, <2>3
<1>3. ASSUME NEW u \in Task, AtomicStep(u) \/ MountStep(u) \/ FilesRemove(u)
                             \/ FilesRename(u) \/ FilesWriteBytesInternal(u)
      PROVE  FALSE
  <2>1. task[u].call # "read"
    BY <1>0, <1>3 DEF AtomicStep, CleanTemp, WriteTemp, RemoveTarget, RenameTemp, RemoveTemp,
       MountStep, FilesMount, FilesUnmount, FormatEnd, FormatWipe, FormatBegin,
       FilesRemove, FilesRename, FilesWriteBytesInternal, Work, At, TasksOK, IsTask
  <2>2. (\E pc : Goto(u, pc)) \/ (\E ok : Done(u, ok))
    <3>1. CASE AtomicStep(u)
      BY <3>1 DEF AtomicStep, CleanTemp, WriteTemp, RemoveTarget, RenameTemp, RemoveTemp
    <3>2. CASE MountStep(u)
      BY <3>2 DEF MountStep, FilesMount, FilesUnmount, FormatEnd, FormatWipe, FormatBegin
    <3>3. CASE FilesRemove(u) \/ FilesRename(u) \/ FilesWriteBytesInternal(u)
      BY <3>3 DEF FilesRemove, FilesRename, FilesWriteBytesInternal
    <3>4. QED
      BY <1>3, <3>1, <3>2, <3>3
  <2>3. \A w \in Task \ {u} : task'[w] = task[w]
    BY <1>0, <2>2, GotoKeeps, DoneKeeps DEF Keeps
  <2>4. QED
    BY <1>0, <2>1, <2>3
<1>4. PICK u \in Task : CheckMounted(u) \/ FilesRead(u)
  BY <1>1, <1>2, <1>3 DEF Next, Step
<1>5. CASE CheckMounted(u)
  <2>1. ASSUME NEW pc, pc # "give", Goto(u, pc)
        PROVE  FALSE
    BY <1>0, <2>1 DEF Goto, TasksOK, IsTask, Idle
  <2>2. Done(u, FALSE) /\ ~mounted
    BY <1>5, <2>1 DEF CheckMounted
  <2>3. u = t
    <3>1. \A w \in Task \ {u} : task'[w] = task[w]
      BY <1>0, <2>2, DoneKeeps DEF Keeps
    <3>2. QED
      BY <1>0, <3>1
  <2>4. QED
    BY <1>5, <2>2, <2>3
<1>6. CASE FilesRead(u)
  <2>1. u = t
    <3>1. \A w \in Task \ {u} : task'[w] = task[w]
      BY <1>0, <1>6, ReadKeeps DEF Keeps
    <3>2. QED
      BY <1>0, <3>1
  <2>2. QED
    BY <1>6, <2>1
<1>7. QED
  BY <1>4, <1>5, <1>6

\* A read sees no state between the steps of another task's call, and is right
\* about the file unless a call of its own fails.
THEOREM ReadsAreSettled == Spec => ReadsSettled
<1> DEFINE Ends(t) ==
      task[t].call = "read" /\ ~At(t, "give") /\ At(t, "give")' =>
        LET file == IF mounted THEN settled[task[t].path] ELSE Missing
            got  == task'[t].got
        IN /\ task'[t].ok <=> got # Missing
           /\ \/ got = file
              \/ faults' > faults /\ file # Missing /\ got \in Short(file) \cup {Missing}
<1>1. ASSUME TypeOK, Inv, [Next]_vars, NEW t \in Task
      PROVE  Ends(t)
  <2> SUFFICES ASSUME task[t].call = "read", ~At(t, "give"), At(t, "give")'
               PROVE  LET file == IF mounted THEN settled[task[t].path] ELSE Missing
                          got  == task'[t].got
                      IN /\ task'[t].ok <=> got # Missing
                         /\ \/ got = file
                            \/ /\ faults' > faults /\ file # Missing
                               /\ got \in Short(file) \cup {Missing}
    OBVIOUS
  <2>1. TasksOK /\ DataAt(t) /\ MountAt(t)
    BY <1>1 DEF TypeOK, TasksOK, Inv
  <2>2. CASE CheckMounted(t) /\ Done(t, FALSE) /\ ~mounted
    <3>1. task[t].got = Missing
      BY <2>1, <2>2 DEF CheckMounted, DataAt, At
    <3>2. task'[t].got = Missing /\ task'[t].ok = FALSE
      BY <2>1, <2>2, <3>1, DoneKeeps
    <3>3. QED
      BY <2>2, <3>2
  <2>3. CASE FilesRead(t)
    <3>1. At(t, "work") /\ task[t].path \in Target
      BY <2>1, <2>3 DEF FilesRead, Work, TasksOK, IsTask
    <3>2. mounted /\ disk[task[t].path] = settled[task[t].path]
      BY <1>1, <2>1, <3>1 DEF MountAt, DataAt, At, Settled, TypeOK
    <3>3. faults \in Nat
      BY <1>1 DEF TypeOK
    <3>4. QED
      BY <2>1, <2>3, <3>2, <3>3, ReadKeeps
  <2>4. QED
    BY <1>1, <2>2, <2>3, EndsOfRead
<1>2. TypeOK /\ Inv /\ [Next]_vars => [\A t \in Task : Ends(t)]_vars
  BY <1>1
<1>3. QED
  BY <1>2, Invariance, PTL DEF Spec, ReadsSettled

\* The mounted flag is right whenever no call runs, and no call works on files
\* of a LittleFS that is not mounted.
THEOREM FlagIsMount == Spec => []MountKnown
<1>1. Inv => MountKnown
  BY DEF Inv, MountAt, MountKnown
<1>2. QED
  BY <1>1, Invariance, PTL
=============================================================================
