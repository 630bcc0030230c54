--------------------------- MODULE HexaStateProofs ---------------------------
(***************************************************************************)
(* What holds of HexaState for every number of tasks, keys and slots, any  *)
(* mix of calls, failures and resets.                                      *)
(***************************************************************************)
EXTENDS StateRefinement, WellFoundedInduction, FiniteSetTheorems, TLAPS

USE KeyAssumption, TaskAssumption, NumberAssumption

(***************************************************************************)
(* Slots.                                                                  *)
(***************************************************************************)
Less == {p \in Nat \X Nat : p[1] < p[2]}

LEMMA LeastNat ==
  ASSUME NEW S, S \subseteq Nat, S # {}
  PROVE  \E m \in S : \A n \in S : m <= n
<1>1. IsWellFoundedOn(Less, Nat)
  BY NatLessThanWellFounded DEF OpToRel, Less
<1>2. PICK m \in S : \A n \in S : <<n, m>> \notin Less
  BY <1>1, WFMin
<1>3. \A n \in S : ~(n < m)
  BY <1>2 DEF Less
<1>4. QED
  BY <1>2, <1>3

\* A first-match scan for a staged key finds a slot.
LEMMA FirstExists ==
  ASSUME NEW k, Staged(k)
  PROVE  \E i \in Slot : IsFirst(i, k)
<1> DEFINE S == {i \in Slot : pending[i].key = k}
<1>1. S \subseteq Nat /\ S # {}
  BY DEF Staged, Slot
<1>2. PICK m \in S : \A n \in S : m <= n
  BY <1>1, LeastNat
<1>3. IsFirst(m, k)
  BY <1>2 DEF IsFirst, Slot
<1>4. QED
  BY <1>2, <1>3

\* What a read sees is of the key's type.
LEMMA VisibleType ==
  ASSUME DataOK, NEW k \in StorageKey
  PROVE  Visible(k) \in Entry /\ Visible(k).content \in ContentOf(k)
<1>1. CASE Staged(k)
  <2>1. StagedSlot(k) \in Slot /\ IsFirst(StagedSlot(k), k)
    BY <1>1, FirstExists DEF StagedSlot
  <2>2. pending[StagedSlot(k)].key = k /\ k # NoKey
    BY <2>1 DEF IsFirst, StorageKey
  <2>3. pending[StagedSlot(k)] # FreeSlot
    BY <2>2 DEF FreeSlot
  <2>4. QED
    BY <1>1, <2>1, <2>2, <2>3 DEF Visible, DataOK, GoodBuffer, Entry, SlotRecord
<1>2. CASE ~Staged(k)
  BY <1>2 DEF Visible, DataOK, GoodStore
<1>3. QED
  BY <1>1, <1>2

\* What a stage, a discard and a clear do to a well-formed buffer.
LEMMA StageType ==
  ASSUME DataOK, NEW k \in StorageKey, NEW c \in ContentOf(k), Stage(k, c)
  PROVE  /\ pendingSeq' \in Nat
         /\ pending' \in [Slot -> SlotRecord] /\ GoodBuffer(pending)'
<1>1. c \in Content
  BY DEF ContentOf, Content, Value
<1> DEFINE w == [key |-> k, content |-> c, seq |-> pendingSeq + 1]
<1>2. w \in SlotRecord /\ w.seq > 0 /\ w.key = k /\ w.content = c
  BY <1>1 DEF SlotRecord, DataOK
<1>3. PICK i \in Slot : pending' = [pending EXCEPT ![i] = w]
  BY DEF Stage
<1>4. \A j \in Slot : pending'[j] = IF j = i THEN w ELSE pending[j]
  BY <1>3 DEF DataOK
<1>5. GoodBuffer(pending)'
  BY <1>2, <1>4 DEF GoodBuffer, DataOK
<1>6. QED
  BY <1>2, <1>3, <1>5 DEF Stage, DataOK

LEMMA FreeType == FreeSlot \in SlotRecord /\ EmptyBuffer \in [Slot -> SlotRecord]
                  /\ GoodBuffer(EmptyBuffer)
BY DEF FreeSlot, EmptyBuffer, SlotRecord, GoodBuffer, Content

\* Freeing slots keeps a buffer well formed.
LEMMA FreeingType ==
  ASSUME DataOK, NEW S,
         pending' = [i \in Slot |-> IF i \in S THEN FreeSlot ELSE pending[i]]
  PROVE  pending' \in [Slot -> SlotRecord] /\ GoodBuffer(pending)'
BY FreeType DEF DataOK, GoodBuffer

(***************************************************************************)
(* Tasks.                                                                  *)
(***************************************************************************)
LEMMA IdleOK == TaskOK(Idle)
<1>1. Idle \in TaskRecord /\ Idle.snap = EmptyBuffer
  BY FreeType DEF Idle, TaskRecord, Pc, CallName, Content
<1>2. CallOK(Idle)
  BY DEF CallOK, Idle, KeyOp
<1>3. QED
  BY <1>1, <1>2, FreeType DEF TaskOK

LEMMA SetTask ==
  ASSUME TasksOK, NEW t \in Task, NEW r, TaskOK(r), task' = [task EXCEPT ![t] = r]
  PROVE  TasksOK'
BY DEF TasksOK, TaskOK

\* A call moves on to another label.
LEMMA GotoOK ==
  ASSUME TasksOK, NEW t \in Task, NEW l \in Pc, Goto(t, l),
         CallOK([task[t] EXCEPT !.pc = l])
  PROVE  TasksOK'
<1> DEFINE r == [task[t] EXCEPT !.pc = l]
<1>1. r \in TaskRecord /\ r.snap = task[t].snap
  BY DEF TasksOK, TaskRecord
<1>2. TaskOK(r)
  BY <1>1 DEF TasksOK, TaskOK
<1>3. task' = [task EXCEPT ![t] = r]
  BY DEF Goto, TasksOK
<1>4. QED
  BY <1>2, <1>3, SetTask

LEMMA ReturnOK ==
  ASSUME TasksOK, NEW t \in Task, Return(t)
  PROVE  TasksOK'
BY IdleOK, SetTask DEF Return

LEMMA FailOK ==
  ASSUME TasksOK, NEW t \in Task, Fail(t)
  PROVE  TasksOK'
<1> DEFINE d == [Idle EXCEPT !.pc = "delete", !.op = "delete", !.key = task[t].key]
<1>1. CASE task[t].op = "create"
  <2>1. task[t].key \in RuntimeKey
    BY <1>1 DEF TasksOK, TaskOK, CallOK, KeyOp
  <2>2. d \in TaskRecord /\ d.snap = EmptyBuffer /\ CallOK(d)
    BY <2>1, FreeType DEF Idle, TaskRecord, Pc, CallName, Content, CallOK, KeyOp
  <2>3. TaskOK(d) /\ task' = [task EXCEPT ![t] = d]
    BY <1>1, <2>2, FreeType DEF TaskOK, Fail, TasksOK
  <2>4. QED
    BY <2>3, SetTask
<1>2. CASE task[t].op # "create"
  BY <1>2, IdleOK, SetTask DEF Fail, TasksOK
<1>3. QED
  BY <1>1, <1>2

\* A commit is entered, with a place to continue that its operation has.
LEMMA CallCommitOK ==
  ASSUME TasksOK, NEW t \in Task, NEW l \in {"idle", "again", "lookup", "erase", "remove"},
         CallCommit(t, l),
         l \in {"again", "lookup"} => task[t].op = "create",
         l \in {"erase", "remove"} => task[t].op = "delete"
  PROVE  TasksOK'
<1> DEFINE r == [task[t] EXCEPT !.pc = "clone", !.cont = l]
<1>1. r \in TaskRecord /\ r.snap = task[t].snap
  BY ZenonT(60) DEF TasksOK, TaskRecord, Pc
<1>2. CallOK(r)
  BY DEF TasksOK, TaskOK, TaskRecord, CallOK
<1>3. task' = [task EXCEPT ![t] = r]
  BY DEF CallCommit, TasksOK
<1>4. QED
  BY <1>1, <1>2, <1>3, SetTask DEF TasksOK, TaskOK

\* The record of a commit that is over.
LEMMA DropSnapOK ==
  ASSUME NEW r \in TaskRecord, CallOK(r)
  PROVE  LET q == [r EXCEPT !.snap = EmptyBuffer, !.todo = {}]
         IN  q \in TaskRecord /\ CallOK(q) /\ GoodBuffer(q.snap)
BY FreeType DEF TaskRecord, CallOK

LEMMA CommitFailedOK ==
  ASSUME TasksOK, NEW t \in Task, CommitFailed(t)
  PROVE  TasksOK'
<1> DEFINE r == task[t]
           q(l) == [r EXCEPT !.pc = l, !.snap = EmptyBuffer, !.todo = {}]
<1>0. r \in TaskRecord /\ CallOK(r)
  BY DEF TasksOK, TaskOK
<1>1. CASE r.op = "create" /\ r.cont = "lookup"
           /\ task' = [task EXCEPT ![t] = q("uncat")]
  <2>1. q("uncat") \in TaskRecord /\ q("uncat").snap = EmptyBuffer
    BY <1>0, FreeType DEF TaskRecord, Pc
  <2>2. CallOK(q("uncat"))
    BY <1>0, <1>1 DEF CallOK, TaskRecord
  <2>3. QED
    BY <1>1, <2>1, <2>2, FreeType, SetTask DEF TaskOK
<1>2. CASE r.op = "delete" /\ r.cont = "remove"
           /\ task' = [task EXCEPT ![t] = q("discard")]
  <2>1. q("discard") \in TaskRecord /\ q("discard").snap = EmptyBuffer
    BY <1>0, FreeType DEF TaskRecord, Pc
  <2>2. CallOK(q("discard"))
    BY <1>0, <1>2 DEF CallOK, TaskRecord
  <2>3. QED
    BY <1>2, <2>1, <2>2, FreeType, SetTask DEF TaskOK
<1>3. CASE Fail(t)
  BY <1>3, FailOK
<1>4. QED
  BY <1>1, <1>2, <1>3 DEF CommitFailed

LEMMA CommitDoneOK ==
  ASSUME TasksOK, NEW t \in Task, CommitDone(t)
  PROVE  TasksOK'
<1> DEFINE r == [task[t] EXCEPT !.snap = EmptyBuffer, !.todo = {}]
           again == [r EXCEPT !.pc = "clone", !.cont = "idle"]
           next  == [r EXCEPT !.pc = r.cont]
<1>0. r \in TaskRecord /\ CallOK(r) /\ GoodBuffer(r.snap) /\ r.cont = task[t].cont
  <2>1. task[t] \in TaskRecord /\ CallOK(task[t])
    BY DEF TasksOK, TaskOK
  <2>2. r \in TaskRecord /\ CallOK(r) /\ GoodBuffer(r.snap)
    BY <2>1, DropSnapOK
  <2>3. QED
    BY <2>1, <2>2 DEF TaskRecord
<1>1. CASE r.cont = "idle"
  BY <1>1, IdleOK, SetTask DEF CommitDone
<1>2. CASE r.cont = "again"
  <2>1. again \in TaskRecord /\ again.snap = r.snap
    BY <1>0 DEF TaskRecord, Pc
  <2>2. CallOK(again)
    BY <1>0, <2>1 DEF CallOK, TaskRecord
  <2>3. task' = [task EXCEPT ![t] = again]
    BY <1>2 DEF CommitDone
  <2>4. QED
    BY <1>0, <2>1, <2>2, <2>3, SetTask DEF TaskOK
<1>3. CASE r.cont \in {"lookup", "erase", "remove"}
  <2>1. next \in TaskRecord /\ next.snap = r.snap
    BY <1>0, <1>3 DEF TaskRecord, Pc
  <2>2. CallOK(next)
    BY <1>0, <1>3 DEF CallOK, TaskRecord, KeyOp
  <2>3. task' = [task EXCEPT ![t] = next]
    BY <1>3 DEF CommitDone
  <2>4. QED
    BY <1>0, <2>1, <2>2, <2>3, SetTask DEF TaskOK
<1>4. QED
  BY <1>0, <1>1, <1>2, <1>3 DEF TaskRecord

\* A value computed from the one read.
LEMMA ResolvedOK ==
  ASSUME TasksOK, NEW t \in Task, NEW v \in Int, Resolved(t, {v}),
         task[t].op \in KeyOp \ {"delete"}
  PROVE  TasksOK'
<1> DEFINE r == [task[t] EXCEPT !.pc = "resolve", !.val = {v}]
<1>1. r \in TaskRecord /\ r.snap = task[t].snap
  BY ZenonT(60) DEF TasksOK, TaskRecord, Pc, Content
<1>2. CallOK(r)
  BY DEF TasksOK, TaskOK, TaskRecord, CallOK
<1>3. task' = [task EXCEPT ![t] = r]
  BY DEF Resolved, TasksOK
<1>4. QED
  BY <1>1, <1>2, <1>3, SetTask DEF TasksOK, TaskOK

LEMMA UseValueOK ==
  ASSUME TasksOK, NEW t \in Task, NEW c, UseValue(t, c \cap Value)
  PROVE  TasksOK'
<1> DEFINE n == Current(c \cap Value)
<1>1. n \in Int /\ n + 1 \in Int /\ n - 1 \in Int /\ Initial \in Int
  BY DEF Current, Initial, Value
<1>2. CASE Return(t)
  BY <1>2, ReturnOK
<1>3. CASE task[t].op = "create" /\ Resolved(t, {Initial})
  BY <1>1, <1>3, ResolvedOK DEF KeyOp
<1>4. CASE task[t].op = "inc" /\ Resolved(t, {n + 1})
  <2> HIDE DEF n
  <2>1. QED
    BY <1>1, <1>4, ResolvedOK DEF KeyOp
<1>5. CASE task[t].op = "dec" /\ Resolved(t, {n - 1})
  <2> HIDE DEF n
  <2>1. QED
    BY <1>1, <1>5, ResolvedOK DEF KeyOp
<1>6. QED
  BY <1>2, <1>3, <1>4, <1>5 DEF UseValue

(***************************************************************************)
(* Type correctness: one lemma per group of actions.                       *)
(***************************************************************************)
LEMMA BeginType ==
  ASSUME TypeOK, NEW t \in Task, NEW op \in CallName, NEW k \in RuntimeKey \cup {NoKey},
         NEW c \in Content, NEW l \in Pc, Begin(t, op, k, c, l),
         CallOK([Idle EXCEPT !.pc = l, !.op = op, !.key = k, !.val = c])
  PROVE  TypeOK'
<1> DEFINE r == [Idle EXCEPT !.pc = l, !.op = op, !.key = k, !.val = c]
<1>1. Idle \in TaskRecord /\ GoodBuffer(Idle.snap)
  BY IdleOK DEF TaskOK
<1>2. r \in TaskRecord /\ r.snap = Idle.snap
  BY <1>1 DEF TaskRecord
<1>3. TaskOK(r) /\ task' = [task EXCEPT ![t] = r]
  BY <1>1, <1>2 DEF TaskOK, Begin
<1>4. TasksOK'
  BY <1>3, SetTask DEF TypeOK
<1>5. DataOK'
  BY DEF TypeOK, DataOK, Begin, buffer, store, env
<1>6. QED
  BY <1>4, <1>5 DEF TypeOK

LEMMA CallType ==
  ASSUME TypeOK, NEW t \in Task, Call(t) \/ Format(t)
  PROVE  TypeOK'
<1> USE DEF CallOK, KeyOp, Idle, Content, Pc, CallName
<1>1. ASSUME NEW k \in RuntimeKey, NEW v \in Tried, Set(t, k, v)
      PROVE  TypeOK'
  BY <1>1, BeginType DEF Set, Tried
<1>2. ASSUME NEW k \in RuntimeKey, Erase(t, k)
      PROVE  TypeOK'
  BY <1>2, BeginType DEF Erase, ContentOf
<1>3. ASSUME NEW k \in RuntimeKey, Increment(t, k)
      PROVE  TypeOK'
  BY <1>3, BeginType DEF Increment
<1>4. ASSUME NEW k \in RuntimeKey, Decrement(t, k)
      PROVE  TypeOK'
  BY <1>4, BeginType DEF Decrement
<1>5. ASSUME NEW k \in RuntimeKey, Create(t, k)
      PROVE  TypeOK'
  BY <1>5, BeginType DEF Create
<1>6. ASSUME NEW k \in RuntimeKey, Delete(t, k)
      PROVE  TypeOK'
  BY <1>6, BeginType DEF Delete
<1>7. CASE Format(t)
  BY <1>7, BeginType DEF Format
<1>8. QED
  BY <1>1, <1>2, <1>3, <1>4, <1>5, <1>6, <1>7 DEF Call

LEMMA WriteType ==
  ASSUME TypeOK, NEW t \in Task, WriteStep(t)
  PROVE  TypeOK'
<1> USE DEF TypeOK
<1>0. task[t] \in TaskRecord /\ CallOK(task[t])
  BY DEF TasksOK, TaskOK
<1>1. CASE Lookup(t)
  <2>1. DataOK'
    BY <1>1 DEF Lookup, DataOK, buffer, store, env
  <2>2. CASE \E c : UseValue(t, c \cap Value)
    BY <2>1, <2>2, UseValueOK
  <2>3. CASE Goto(t, "nvsread")
    BY <2>1, <2>3, <1>0, <1>1, GotoOK DEF Lookup, At, CallOK, Pc, TaskRecord
  <2>4. {} = {} \cap Value
    OBVIOUS
  <2>5. QED
    BY <1>1, <2>2, <2>3, <2>4 DEF Lookup
<1>2. CASE ReadNvs(t)
  <2>1. DataOK'
    BY <1>2 DEF ReadNvs, DataOK, buffer, store, env
  <2>2. \E c : UseValue(t, c \cap Value)
    <3>1. CASE ready
      BY <1>2, <3>1 DEF ReadNvs
    <3>2. CASE ~ready
      <4>1. UseValue(t, {}) /\ {} = {} \cap Value
        BY <1>2, <3>2 DEF ReadNvs
      <4>2. QED
        BY <4>1
    <3>3. QED
      BY <3>1, <3>2
  <2>3. QED
    BY <2>1, <2>2, UseValueOK
<1>3. CASE Resolve(t)
  <2>1. DataOK'
    BY <1>3 DEF Resolve, DataOK, buffer, store, env
  <2>2. CASE Fail(t)
    BY <2>1, <2>2, FailOK
  <2>3. CASE task[t].val \subseteq Value /\ Goto(t, "stage")
    <3>1. task[t].key \in RuntimeKey /\ \E v \in Value : task[t].val = {v}
      BY <1>0, <1>3, <2>3 DEF Resolve, At, CallOK
    <3>2. task[t].val \in ContentOf(task[t].key)
      BY <3>1 DEF ContentOf
    <3>3. CallOK([task[t] EXCEPT !.pc = "stage"])
      BY <1>0, <1>3, <3>2 DEF Resolve, At, CallOK, TaskRecord
    <3>4. QED
      BY <2>1, <2>3, <3>3, GotoOK DEF Pc
  <2>4. QED
    BY <1>3, <2>2, <2>3 DEF Resolve
<1>4. CASE StageValue(t)
  <2>1. CASE CanStage(task[t].key) /\ Stage(task[t].key, task[t].val)
    <3> DEFINE k == task[t].key
    <3>1. k \in RuntimeKey /\ task[t].val \in ContentOf(k) /\ task[t].op # "delete"
      BY <1>0, <1>4 DEF StageValue, At, CallOK
    <3>2. /\ pendingSeq' \in Nat
          /\ pending' \in [Slot -> SlotRecord] /\ GoodBuffer(pending)'
      BY <2>1, <3>1, StageType DEF StorageKey
    <3>3. latest' \in [StorageKey -> Entry]
      BY <1>0, <1>4, <2>1 DEF StageValue, DataOK, Entry, TaskRecord
    <3>4. DataOK'
      BY <1>4, <3>2, <3>3 DEF StageValue, DataOK, store, env
    <3>5. CASE CallCommit(t, "idle")
      BY <3>4, <3>5, CallCommitOK
    <3>6. CASE Goto(t, "schedule")
      BY <3>4, <3>6, <1>0, <1>4, GotoOK DEF StageValue, At, CallOK, Pc, TaskRecord
    <3>7. QED
      BY <1>4, <2>1, <3>5, <3>6 DEF StageValue
  <2>2. CASE ~CanStage(task[t].key)
    BY <1>4, <2>2, FailOK DEF StageValue, DataOK, buffer, store, env
  <2>3. QED
    BY <1>4, <2>1, <2>2 DEF StageValue
<1>5. CASE Schedule(t)
  <2>1. DataOK'
    BY <1>5 DEF Schedule, Arm, DataOK, buffer, store, env
  <2>2. CASE Fail(t)
    BY <2>1, <2>2, FailOK
  <2>3. CASE CallCommit(t, IF task[t].op = "create" THEN "again" ELSE "idle")
    BY <2>1, <2>3, CallCommitOK
  <2>4. CASE IF task[t].op = "create" THEN CallCommit(t, "idle") ELSE Return(t)
    BY <2>1, <2>4, CallCommitOK, ReturnOK
  <2>5. QED
    BY <1>5, <2>2, <2>3, <2>4 DEF Schedule
<1>6. QED
  BY <1>1, <1>2, <1>3, <1>4, <1>5 DEF WriteStep

LEMMA CommitType ==
  ASSUME TypeOK, NEW t \in Task, CommitStep(t) \/ StoreFault(t) \/ LoopDue(t)
  PROVE  TypeOK'
<1> USE DEF TypeOK
<1>0. task[t] \in TaskRecord /\ CallOK(task[t]) /\ GoodBuffer(task[t].snap)
  BY DEF TasksOK, TaskOK
<1>1. CASE Clone(t)
  <2> DEFINE l == IF Used(pending) = {} THEN "reset" ELSE "apply"
             r == [task[t] EXCEPT !.pc = l, !.snap = pending, !.todo = Used(pending)]
  <2>1. DataOK'
    BY <1>1 DEF Clone, DataOK, buffer, store, env
  <2>2. CASE CommitFailed(t)
    BY <2>1, <2>2, CommitFailedOK
  <2>3. CASE task' = [task EXCEPT ![t] = r]
    <3>1. Used(pending) \subseteq Slot /\ pending \in [Slot -> SlotRecord] /\ l \in Pc
      BY DEF Used, DataOK, Pc
    <3>2. r \in TaskRecord /\ r.snap = pending /\ r.todo = Used(pending)
      BY <1>0, <3>1 DEF TaskRecord
    <3>3. CallOK(r)
      BY <1>0, <1>1, <3>2 DEF CallOK, TaskRecord, Used
    <3>4. TaskOK(r)
      BY <3>2, <3>3 DEF TaskOK, DataOK
    <3>5. QED
      BY <2>1, <2>3, <3>4, SetTask
  <2>4. QED
    BY <1>1, <2>2, <2>3 DEF Clone, TasksOK
<1>2. CASE Apply(t)
  <2>1. CASE ~ready /\ CommitFailed(t) /\ UNCHANGED nvs
    BY <1>2, <2>1, CommitFailedOK DEF Apply, DataOK, buffer, env
  <2>2. CASE ready
    <3>1. PICK i \in task[t].todo :
             /\ nvs' = [nvs EXCEPT ![task[t].snap[i].key] =
                          [content |-> task[t].snap[i].content,
                           seq     |-> task[t].snap[i].seq]]
             /\ task' = [task EXCEPT ![t].todo = @ \ {i},
                                     ![t].pc = IF task[t].todo = {i} THEN "flush"
                                               ELSE "apply"]
      BY <1>2, <2>2 DEF Apply
    <3> DEFINE s == task[t].snap[i]
               l == IF task[t].todo = {i} THEN "flush" ELSE "apply"
               r == [task[t] EXCEPT !.todo = @ \ {i}, !.pc = l]
    <3>2. i \in Slot /\ s \in SlotRecord /\ s # FreeSlot
      BY <1>0, <3>1 DEF TaskRecord, CallOK, FreeSlot
    <3>3. s.key \in StorageKey /\ s.content \in ContentOf(s.key)
      BY <1>0, <3>2 DEF GoodBuffer
    <3>4. nvs' \in [StorageKey -> Entry] /\ GoodStore(nvs)'
      BY <3>1, <3>2, <3>3 DEF DataOK, GoodStore, Entry, SlotRecord
    <3>5. DataOK'
      BY <1>2, <3>4 DEF Apply, DataOK, buffer, env
    <3>6. r \in TaskRecord /\ r.snap = task[t].snap /\ r.todo \subseteq task[t].todo
      BY <1>0 DEF TaskRecord, Pc
    <3>7. CallOK(r)
      BY <1>0, <3>6 DEF CallOK, TaskRecord
    <3>8. task' = [task EXCEPT ![t] = r]
      BY <3>1 DEF TasksOK
    <3>9. QED
      BY <1>0, <3>5, <3>6, <3>7, <3>8, SetTask DEF TaskOK
  <2>3. QED
    BY <1>2, <2>1, <2>2 DEF Apply
<1>3. CASE Flush(t)
  <2>1. DataOK'
    BY <1>3 DEF Flush, DataOK, GoodStore, buffer, env
  <2>2. CASE CommitFailed(t)
    BY <2>1, <2>2, CommitFailedOK
  <2>3. CASE Goto(t, "clear")
    BY <2>1, <2>3, <1>0, GotoOK DEF CallOK, Pc, TaskRecord
  <2>4. QED
    BY <1>3, <2>2, <2>3 DEF Flush
<1>4. CASE Clear(t)
  <2> DEFINE S == {i \in Slot : Committed(t, pending[i])}
  <2>1. pending' = [i \in Slot |-> IF i \in S THEN FreeSlot ELSE pending[i]]
    BY <1>4 DEF Clear
  <2>2. pending' \in [Slot -> SlotRecord] /\ GoodBuffer(pending)'
    BY <2>1, FreeingType
  <2>3. DataOK'
    BY <1>4, <2>2 DEF Clear, DataOK, store, env
  <2>4. QED
    BY <1>0, <1>4, <2>3, GotoOK DEF Clear, CallOK, Pc, TaskRecord
<1>5. CASE CountRemaining(t)
  <2>1. DataOK'
    BY <1>5 DEF CountRemaining, DataOK, buffer, store, env
  <2>2. QED
    BY <1>0, <1>5, <2>1, GotoOK DEF CountRemaining, CallOK, Pc, TaskRecord
<1>6. CASE ResetWindow(t) \/ RearmWindow(t)
  BY <1>6, CommitDoneOK DEF ResetWindow, RearmWindow, DataOK, buffer, store, env
<1>7. CASE StoreFault(t)
  BY <1>7, CommitFailedOK DEF StoreFault, DataOK, buffer, store
<1>8. CASE LoopDue(t)
  <2> DEFINE r == [Idle EXCEPT !.pc = "clone", !.op = "loop"]
  <2>1. r \in TaskRecord /\ r.snap = Idle.snap /\ CallOK(r)
    BY IdleOK DEF TaskOK, TaskRecord, CallOK, Idle, KeyOp, Pc, CallName
  <2>2. TaskOK(r)
    BY <2>1, IdleOK DEF TaskOK
  <2>3. QED
    BY <1>8, <2>2, SetTask DEF LoopDue, DataOK, buffer, store, env
<1>9. QED
  BY <1>1, <1>2, <1>3, <1>4, <1>5, <1>6, <1>7, <1>8 DEF CommitStep

LEMMA CatalogType ==
  ASSUME TypeOK, NEW t \in Task, CatalogStep(t)
  PROVE  TypeOK'
<1> USE DEF TypeOK
<1> DEFINE k == task[t].key
<1>0. task[t] \in TaskRecord /\ CallOK(task[t]) /\ GoodBuffer(task[t].snap)
  BY DEF TasksOK, TaskOK
<1>1. CASE Insert(t)
  <2>1. k \in RuntimeKey
    BY <1>0, <1>1 DEF Insert, At, CallOK, KeyOp
  <2>2. DataOK'
    BY <1>1, <2>1 DEF Insert, DataOK, buffer, store, env
  <2>3. CASE Return(t)
    BY <2>2, <2>3, ReturnOK
  <2>4. CASE Goto(t, "catalog")
    BY <1>0, <1>1, <2>2, <2>4, GotoOK DEF Insert, At, CallOK, Pc, TaskRecord
  <2>5. QED
    BY <1>1, <2>3, <2>4 DEF Insert
<1>2. ASSUME CatalogFailed(t), task[t].pc \in {"catalog", "stagecat"}
      PROVE  TasksOK'
  BY <1>0, <1>2, GotoOK DEF CatalogFailed, CallOK, Pc, TaskRecord
<1>3. CASE BuildCatalog(t)
  <2> DEFINE gone == IF task[t].op = "delete" THEN {k} ELSE {}
             r == [task[t] EXCEPT !.pc = "stagecat", !.val = registry \ gone]
  <2>1. DataOK'
    BY <1>3 DEF BuildCatalog, DataOK, buffer, store, env
  <2>2. CASE CatalogFailed(t)
    BY <1>2, <1>3, <2>1, <2>2 DEF BuildCatalog, At
  <2>3. CASE task' = [task EXCEPT ![t] = r]
    <3>1. registry \ gone \in SUBSET RuntimeKey
      BY DEF DataOK
    <3>2. r \in TaskRecord /\ r.snap = task[t].snap
      BY <1>0, <3>1 DEF TaskRecord, Pc, Content
    <3>3. CallOK(r)
      BY <1>0, <1>3, <3>1, <3>2 DEF BuildCatalog, At, CallOK, TaskRecord, ContentOf
    <3>4. QED
      BY <1>0, <2>1, <2>3, <3>2, <3>3, SetTask DEF TaskOK
  <2>4. QED
    BY <1>3, <2>2, <2>3 DEF BuildCatalog, TasksOK
<1>4. CASE StageCatalog(t)
  <2>1. task[t].val \in ContentOf(CatalogKey) /\ task[t].op \in {"create", "delete"}
    BY <1>0, <1>4 DEF StageCatalog, At, CallOK
  <2>2. CASE Stage(CatalogKey, task[t].val)
             /\ CallCommit(t, IF task[t].op = "create" THEN "lookup" ELSE "remove")
    <3>1. /\ pendingSeq' \in Nat
          /\ pending' \in [Slot -> SlotRecord] /\ GoodBuffer(pending)'
      BY <2>1, <2>2, StageType DEF StorageKey
    <3>2. DataOK'
      BY <1>4, <3>1 DEF StageCatalog, DataOK, store, env
    <3>3. QED
      BY <2>1, <2>2, <3>2, CallCommitOK
  <2>3. CASE CatalogFailed(t) /\ UNCHANGED buffer
    BY <1>2, <1>4, <2>3 DEF StageCatalog, At, DataOK, buffer, store, env
  <2>4. QED
    BY <1>4, <2>2, <2>3 DEF StageCatalog
<1>5. CASE Rollback(t)
  BY <1>5, ReturnOK DEF Rollback, DataOK, buffer, store, env
<1>6. CASE FlushBeforeDelete(t)
  <2>1. DataOK' /\ task[t].op = "delete"
    BY <1>0, <1>6 DEF FlushBeforeDelete, At, CallOK, DataOK, buffer, store, env
  <2>2. CASE Return(t)
    BY <2>1, <2>2, ReturnOK
  <2>3. CASE CallCommit(t, "erase")
    BY <2>1, <2>3, CallCommitOK
  <2>4. CASE Goto(t, "erase")
    BY <1>0, <1>6, <2>1, <2>4, GotoOK DEF FlushBeforeDelete, At, CallOK, Pc, TaskRecord
  <2>5. QED
    BY <1>6, <2>2, <2>3, <2>4 DEF FlushBeforeDelete
<1>7. CASE StageErase(t)
  <2>1. k \in RuntimeKey /\ task[t].op = "delete" /\ {} \in ContentOf(k)
    BY <1>0, <1>7 DEF StageErase, At, CallOK, KeyOp, ContentOf
  <2>2. CASE Stage(k, {}) /\ Goto(t, "catalog")
    <3>1. /\ pendingSeq' \in Nat
          /\ pending' \in [Slot -> SlotRecord] /\ GoodBuffer(pending)'
      BY <2>1, <2>2, StageType DEF StorageKey
    <3>2. DataOK'
      BY <1>7, <3>1 DEF StageErase, DataOK, store, env
    <3>3. QED
      BY <1>0, <1>7, <2>1, <2>2, <3>2, GotoOK DEF StageErase, At, CallOK, Pc, TaskRecord
  <2>3. CASE Return(t) /\ UNCHANGED buffer
    BY <1>7, <2>3, ReturnOK DEF StageErase, DataOK, buffer, store, env
  <2>4. QED
    BY <1>7, <2>2, <2>3 DEF StageErase
<1>8. CASE Remove(t)
  <2>1. k \in RuntimeKey
    BY <1>0, <1>8 DEF Remove, At, CallOK, KeyOp
  <2>2. Visible(k) \in Entry
    BY <2>1, VisibleType DEF StorageKey
  <2>3. latest' \in [StorageKey -> Entry]
    BY <1>8, <2>2 DEF Remove, DataOK
  <2>4. QED
    BY <1>8, <2>3, ReturnOK DEF Remove, DataOK, buffer, store, env
<1>9. CASE DiscardValue(t)
  <2> DEFINE S == {i \in Slot : IsFirst(i, k)}
  <2>1. pending' = [i \in Slot |-> IF i \in S THEN FreeSlot ELSE pending[i]]
    BY <1>9 DEF DiscardValue, Discard
  <2>2. pending' \in [Slot -> SlotRecord] /\ GoodBuffer(pending)' /\ pendingSeq' \in Nat
    BY <1>9, <2>1, FreeingType DEF DiscardValue, Discard, DataOK
  <2>3. k \in RuntimeKey /\ task[t].op = "delete"
    BY <1>0, <1>9 DEF DiscardValue, At, CallOK, KeyOp
  <2>4. latest' \in [StorageKey -> Entry]
    BY <1>9, <2>3 DEF DiscardValue, DataOK, StorageKey
  <2>5. DataOK'
    BY <1>9, <2>2, <2>4 DEF DiscardValue, DataOK, store, env
  <2>6. QED
    BY <1>0, <1>9, <2>3, <2>5, GotoOK DEF DiscardValue, At, CallOK, Pc, TaskRecord
<1>10. CASE DiscardCatalog(t)
  <2> DEFINE S == {i \in Slot : IsFirst(i, CatalogKey)}
  <2>1. pending' = [i \in Slot |-> IF i \in S THEN FreeSlot ELSE pending[i]]
    BY <1>10 DEF DiscardCatalog, Discard
  <2>2. pending' \in [Slot -> SlotRecord] /\ GoodBuffer(pending)' /\ pendingSeq' \in Nat
    BY <1>10, <2>1, FreeingType DEF DiscardCatalog, Discard, DataOK
  <2>3. DataOK'
    BY <1>10, <2>2 DEF DiscardCatalog, DataOK, store, env
  <2>4. CASE Return(t)
    BY <2>3, <2>4, ReturnOK
  <2>5. CASE task[t].op = "create" /\ Goto(t, "rollback")
    BY <1>0, <1>10, <2>3, <2>5, GotoOK DEF DiscardCatalog, At, CallOK, Pc, TaskRecord
  <2>6. QED
    BY <1>10, <2>4, <2>5 DEF DiscardCatalog
<1>11. QED
  BY <1>1, <1>3, <1>4, <1>5, <1>6, <1>7, <1>8, <1>9, <1>10 DEF CatalogStep

LEMMA BlankType == Blank \in [StorageKey -> Entry] /\ GoodStore(Blank)
BY DEF Blank, NoEntry, Entry, Content, GoodStore, ContentOf

LEMMA FormatType ==
  ASSUME TypeOK, NEW t \in Task, FormatStep(t)
  PROVE  TypeOK'
<1> USE DEF TypeOK
<1>0. task[t] \in TaskRecord /\ CallOK(task[t])
  BY DEF TasksOK, TaskOK
<1>1. CASE FormatBuffer(t)
  <2>1. DataOK'
    BY <1>1, FreeType DEF FormatBuffer, DataOK, store, env
  <2>2. QED
    BY <1>0, <1>1, <2>1, GotoOK DEF FormatBuffer, CallOK, Pc, TaskRecord
<1>2. CASE FormatRegistry(t)
  <2>1. DataOK'
    BY <1>2 DEF FormatRegistry, DataOK, buffer, store, env
  <2>2. QED
    BY <1>0, <1>2, <2>1, GotoOK DEF FormatRegistry, CallOK, Pc, TaskRecord
<1>3. CASE FormatWindow(t)
  <2>1. DataOK'
    BY <1>3 DEF FormatWindow, DataOK, buffer, store, env
  <2>2. QED
    BY <1>0, <1>3, <2>1, GotoOK DEF FormatWindow, CallOK, Pc, TaskRecord
<1>4. CASE FormatStore(t)
  <2>1. DataOK'
    <3>1. UNCHANGED <<pending, pendingSeq, registry, window, delay, crashes>>
      BY <1>4 DEF FormatStore, buffer
    <3>2. \/ nvs' = Blank /\ durable' = Blank /\ latest' = Blank
          \/ UNCHANGED <<nvs, durable, latest>>
      BY <1>4 DEF FormatStore, store
    <3>3. ready' \in BOOLEAN /\ faults' \in Nat
      <4>1. ready' = TRUE \/ ready' = ready
        BY <1>4 DEF FormatStore
      <4>2. faults' = faults \/ faults' = faults + 1
        BY <1>4 DEF FormatStore
      <4>3. ready \in BOOLEAN /\ faults \in Nat
        BY DEF DataOK
      <4>4. ready' \in BOOLEAN
        BY <4>1, <4>3, Zenon
      <4>5. QED
        BY <4>2, <4>3, <4>4, SMT
    <3>4. /\ nvs' \in [StorageKey -> Entry] /\ GoodStore(nvs)'
          /\ durable' \in [StorageKey -> Entry] /\ GoodStore(durable)'
          /\ latest' \in [StorageKey -> Entry]
      BY <3>2, BlankType DEF DataOK, GoodStore
    <3>5. QED
      BY <3>1, <3>3, <3>4 DEF DataOK
  <2>2. QED
    BY <1>4, <2>1, ReturnOK DEF FormatStore
<1>5. QED
  BY <1>1, <1>2, <1>3, <1>4 DEF FormatStep

LEMMA CrashType ==
  ASSUME TypeOK, Crash
  PROVE  TypeOK'
<1> USE DEF TypeOK
<1>1. PICK kept \in SUBSET StorageKey :
        LET found == [k \in StorageKey |->
                        [content |-> IF k \in kept THEN nvs[k].content
                                                   ELSE durable[k].content,
                         seq |-> 0]]
        IN  /\ nvs' = found /\ durable' = found /\ latest' = found
            /\ registry' = found[CatalogKey].content
  BY DEF Crash
<1> DEFINE found == [k \in StorageKey |->
                       [content |-> IF k \in kept THEN nvs[k].content
                                                  ELSE durable[k].content,
                        seq |-> 0]]
<1>2. found \in [StorageKey -> Entry] /\ GoodStore(found)
  BY DEF DataOK, GoodStore, Entry
<1>3. found[CatalogKey].content \in SUBSET RuntimeKey
  BY <1>2 DEF GoodStore, StorageKey, ContentOf
<1>4. DataOK'
  <2> HIDE DEF found
  <2>1. /\ nvs' = found /\ durable' = found /\ latest' = found
        /\ registry' = found[CatalogKey].content
    BY <1>1 DEF found
  <2>2. QED
    <3>1. /\ ready' = TRUE /\ pending' = EmptyBuffer /\ pendingSeq' = 0
          /\ window' = "idle" /\ crashes' = crashes + 1
          /\ UNCHANGED <<delay, faults>>
      BY DEF Crash
    <3>2. /\ nvs' \in [StorageKey -> Entry] /\ GoodStore(nvs)'
          /\ durable' \in [StorageKey -> Entry] /\ GoodStore(durable)'
          /\ latest' \in [StorageKey -> Entry] /\ registry' \in SUBSET RuntimeKey
      BY <1>2, <1>3, <2>1
    <3>3. pending' \in [Slot -> SlotRecord] /\ GoodBuffer(pending)'
      BY <3>1, FreeType
    <3>4. QED
      BY <3>1, <3>2, <3>3 DEF DataOK
<1>5. TasksOK'
  BY IdleOK DEF Crash, TasksOK, TaskOK
<1>6. QED
  BY <1>4, <1>5

LEMMA TypeStep == TypeOK /\ [Next]_vars => TypeOK'
<1> SUFFICES ASSUME TypeOK, [Next]_vars PROVE TypeOK'
  OBVIOUS
<1>1. ASSUME NEW t \in Task, Call(t) \/ Format(t) \/ LoopDue(t) \/ Step(t) \/ StoreFault(t)
      PROVE  TypeOK'
  BY <1>1, CallType, CommitType, WriteType, CatalogType, FormatType DEF Step
<1>2. CASE TimePasses
  BY <1>2 DEF TimePasses, TypeOK, DataOK, TasksOK, buffer, store, env
<1>3. CASE ChangeDelay
  BY <1>3 DEF ChangeDelay, TypeOK, DataOK, TasksOK, buffer, store
<1>4. CASE Crash
  BY <1>4, CrashType
<1>5. CASE UNCHANGED vars
  BY <1>5 DEF vars, TypeOK, DataOK, TasksOK, buffer, store, env
<1>6. QED
  BY <1>1, <1>2, <1>3, <1>4, <1>5 DEF Next, Rest

\* TypeOK holds for any tasks, keys, ranges and capacities: nothing out of its
\* key's range is ever staged, committed or read back after a reset.
THEOREM TypeCorrect == Spec => []TypeOK
<1>1. Init => TypeOK
  BY FreeType, BlankType, IdleOK DEF Init, TypeOK, DataOK, TasksOK, TaskOK
<1>2. QED
  BY <1>1, TypeStep, PTL DEF Spec

(***************************************************************************)
(* What any step does to the buffer and to the snapshots of commits.       *)
(***************************************************************************)
KeepsSnaps ==
  \A u \in Task : task'[u].snap = task[u].snap \/ task'[u].snap = EmptyBuffer

\* t takes a snapshot.
TakesSnap(t) ==
  /\ UNCHANGED buffer
  /\ task'[t].snap = pending
  /\ \A u \in Task \ {t} : task'[u].snap = task[u].snap

\* Slots are freed.
Frees == /\ \A i \in Slot : pending'[i] = pending[i] \/ pending'[i] = FreeSlot
         /\ pendingSeq' = pendingSeq

StagesOne == \E k \in StorageKey : \E c \in ContentOf(k) : Stage(k, c)

Restarts == pending' = EmptyBuffer /\ pendingSeq' = 0 /\ KeepsSnaps

BufferStep ==
  \/ (Frees \/ StagesOne) /\ KeepsSnaps
  \/ \E t \in Task : TakesSnap(t)

LEMMA SnapUpdate ==
  ASSUME TasksOK, NEW t \in Task, NEW r, task' = [task EXCEPT ![t] = r],
         r.snap = task[t].snap \/ r.snap = EmptyBuffer
  PROVE  KeepsSnaps
BY DEF KeepsSnaps, TasksOK

LEMMA ControlSnaps ==
  ASSUME TasksOK, NEW t \in Task,
         \/ \E l : Goto(t, l) \/ CallCommit(t, l)
         \/ \E c : Resolved(t, c)
         \/ Return(t) \/ Fail(t) \/ CommitFailed(t) \/ CommitDone(t)
  PROVE  KeepsSnaps
<1>0. task[t] \in TaskRecord
  BY DEF TasksOK
<1>1. ASSUME NEW l, Goto(t, l)
      PROVE  KeepsSnaps
  <2> DEFINE r == [task[t] EXCEPT !.pc = l]
  <2>1. task' = [task EXCEPT ![t] = r] /\ r.snap = task[t].snap
    BY <1>0, <1>1 DEF Goto, TasksOK, TaskRecord
  <2>2. QED
    BY <2>1, SnapUpdate
<1>2. ASSUME NEW l, CallCommit(t, l)
      PROVE  KeepsSnaps
  <2> DEFINE r == [task[t] EXCEPT !.pc = "clone", !.cont = l]
  <2>1. task' = [task EXCEPT ![t] = r] /\ r.snap = task[t].snap
    BY <1>0, <1>2 DEF CallCommit, TasksOK, TaskRecord
  <2>2. QED
    BY <2>1, SnapUpdate
<1>3. ASSUME NEW c, Resolved(t, c)
      PROVE  KeepsSnaps
  <2> DEFINE r == [task[t] EXCEPT !.pc = "resolve", !.val = c]
  <2>1. task' = [task EXCEPT ![t] = r] /\ r.snap = task[t].snap
    BY <1>0, <1>3 DEF Resolved, TasksOK, TaskRecord
  <2>2. QED
    BY <2>1, SnapUpdate
<1>4. Return(t) => KeepsSnaps
  BY SnapUpdate DEF Return, Idle
<1>5. ASSUME Fail(t)
      PROVE  KeepsSnaps
  <2> DEFINE d == [Idle EXCEPT !.pc = "delete", !.op = "delete", !.key = task[t].key]
  <2>1. d.snap = EmptyBuffer /\ Idle.snap = EmptyBuffer
    BY DEF Idle
  <2>2. task' = [task EXCEPT ![t] = IF task[t].op = "create" THEN d ELSE Idle]
    BY <1>5 DEF Fail, TasksOK
  <2>3. QED
    BY <2>1, <2>2, SnapUpdate
<1>6. ASSUME CommitFailed(t)
      PROVE  KeepsSnaps
  <2> DEFINE q(l) == [task[t] EXCEPT !.pc = l, !.snap = EmptyBuffer, !.todo = {}]
  <2>1. q("uncat").snap = EmptyBuffer /\ q("discard").snap = EmptyBuffer
    BY <1>0 DEF TaskRecord
  <2>2. \/ task' = [task EXCEPT ![t] = q("uncat")]
        \/ task' = [task EXCEPT ![t] = q("discard")]
        \/ Fail(t)
    BY <1>6 DEF CommitFailed
  <2>3. QED
    BY <1>5, <2>1, <2>2, SnapUpdate
<1>7. ASSUME CommitDone(t)
      PROVE  KeepsSnaps
  <2> DEFINE r == [task[t] EXCEPT !.snap = EmptyBuffer, !.todo = {}]
             again == [r EXCEPT !.pc = "clone", !.cont = "idle"]
             next  == [r EXCEPT !.pc = r.cont]
  <2>1. Idle.snap = EmptyBuffer /\ again.snap = EmptyBuffer /\ next.snap = EmptyBuffer
    BY <1>0 DEF TaskRecord, Idle
  <2>2. \/ task' = [task EXCEPT ![t] = Idle]
        \/ task' = [task EXCEPT ![t] = again]
        \/ task' = [task EXCEPT ![t] = next]
    BY <1>7 DEF CommitDone
  <2>3. QED
    BY <2>1, <2>2, SnapUpdate
<1>8. QED
  BY <1>1, <1>2, <1>3, <1>4, <1>5, <1>6, <1>7

LEMMA KeptFrees == UNCHANGED buffer => Frees
BY DEF Frees, buffer

LEMMA CallBuffer ==
  ASSUME TypeOK, NEW t \in Task, Call(t) \/ Format(t) \/ LoopDue(t)
  PROVE  Frees /\ KeepsSnaps
<1>1. CASE \E op, k, c, l : Begin(t, op, k, c, l)
  BY <1>1, KeptFrees DEF Begin, Idle, KeepsSnaps, TypeOK, TasksOK
<1>2. CASE LoopDue(t)
  BY <1>2, KeptFrees DEF LoopDue, Idle, KeepsSnaps, TypeOK, TasksOK
<1>3. Call(t) \/ Format(t) => \E op, k, c, l : Begin(t, op, k, c, l)
  BY DEF Call, Set, Erase, Increment, Decrement, Create, Delete, Format
<1>4. QED
  BY <1>1, <1>2, <1>3

LEMMA WriteBuffer ==
  ASSUME TypeOK, NEW t \in Task, WriteStep(t)
  PROVE  (Frees \/ StagesOne) /\ KeepsSnaps
<1> USE DEF TypeOK
<1>0. \A c : UseValue(t, c) => KeepsSnaps
  BY ControlSnaps DEF UseValue
<1>1. CASE Lookup(t)
  BY <1>0, <1>1, KeptFrees, ControlSnaps DEF Lookup
<1>2. CASE ReadNvs(t)
  BY <1>0, <1>2, KeptFrees DEF ReadNvs
<1>3. CASE Resolve(t)
  BY <1>3, KeptFrees, ControlSnaps DEF Resolve
<1>4. CASE StageValue(t)
  <2>1. task[t].key \in StorageKey /\ task[t].val \in ContentOf(task[t].key)
    BY <1>4 DEF StageValue, At, TasksOK, TaskOK, CallOK, StorageKey
  <2>2. KeepsSnaps
    BY <1>4, ControlSnaps DEF StageValue
  <2>3. QED
    BY <1>4, <2>1, <2>2, KeptFrees DEF StageValue, StagesOne
<1>5. CASE Schedule(t)
  BY <1>5, KeptFrees, ControlSnaps DEF Schedule
<1>6. QED
  BY <1>1, <1>2, <1>3, <1>4, <1>5 DEF WriteStep

LEMMA CommitBuffer ==
  ASSUME TypeOK, NEW t \in Task, CommitStep(t) \/ StoreFault(t)
  PROVE  BufferStep
<1> USE DEF TypeOK
<1>1. CASE Clone(t)
  <2>1. CASE CommitFailed(t)
    BY <1>1, <2>1, KeptFrees, ControlSnaps DEF Clone, BufferStep
  <2>2. CASE ~CommitFailed(t)
    <3>1. TakesSnap(t)
      BY <1>1, <2>2, ZenonT(60) DEF Clone, TakesSnap, TasksOK, TaskRecord
    <3>2. QED
      BY <3>1 DEF BufferStep
  <2>3. QED
    BY <2>1, <2>2
<1>2. CASE Apply(t)
  <2>1. KeepsSnaps
    <3>1. CASE CommitFailed(t)
      BY <3>1, ControlSnaps
    <3>2. CASE \E i, l : task' = [task EXCEPT ![t].todo = @ \ {i}, ![t].pc = l]
      BY <3>2 DEF KeepsSnaps, TasksOK, TaskRecord
    <3>3. QED
      BY <1>2, <3>1, <3>2 DEF Apply
  <2>2. QED
    BY <1>2, <2>1, KeptFrees DEF Apply, BufferStep
<1>3. CASE Flush(t)
  BY <1>3, KeptFrees, ControlSnaps DEF Flush, BufferStep
<1>4. CASE Clear(t)
  <2>1. KeepsSnaps
    BY <1>4, ControlSnaps DEF Clear
  <2>2. QED
    BY <1>4, <2>1 DEF Clear, Frees, BufferStep
<1>5. CASE CountRemaining(t)
  BY <1>5, KeptFrees, ControlSnaps DEF CountRemaining, BufferStep
<1>6. CASE ResetWindow(t) \/ RearmWindow(t)
  BY <1>6, KeptFrees, ControlSnaps DEF ResetWindow, RearmWindow, BufferStep
<1>7. CASE StoreFault(t)
  BY <1>7, KeptFrees, ControlSnaps DEF StoreFault, BufferStep
<1>8. QED
  BY <1>1, <1>2, <1>3, <1>4, <1>5, <1>6, <1>7 DEF CommitStep

LEMMA CatalogBuffer ==
  ASSUME TypeOK, NEW t \in Task, CatalogStep(t)
  PROVE  (Frees \/ StagesOne) /\ KeepsSnaps
<1> USE DEF TypeOK
<1>0. CatalogFailed(t) => KeepsSnaps
  BY ControlSnaps DEF CatalogFailed
<1>1. CASE Insert(t)
  BY <1>1, KeptFrees, ControlSnaps DEF Insert
<1>2. CASE BuildCatalog(t)
  <2>1. CASE CatalogFailed(t)
    BY <1>0, <1>2, <2>1, KeptFrees DEF BuildCatalog
  <2>2. CASE \E c : task' = [task EXCEPT ![t].pc = "stagecat", ![t].val = c]
    BY <1>2, <2>2, KeptFrees DEF BuildCatalog, KeepsSnaps, TasksOK, TaskRecord
  <2>3. QED
    BY <1>2, <2>1, <2>2 DEF BuildCatalog
<1>3. CASE StageCatalog(t)
  <2>1. CatalogKey \in StorageKey /\ task[t].val \in ContentOf(CatalogKey)
    BY <1>3 DEF StageCatalog, At, TasksOK, TaskOK, CallOK, StorageKey
  <2>2. KeepsSnaps
    BY <1>0, <1>3, ControlSnaps DEF StageCatalog
  <2>3. QED
    BY <1>3, <2>1, <2>2, KeptFrees DEF StageCatalog, StagesOne
<1>4. CASE Rollback(t)
  BY <1>4, KeptFrees, ControlSnaps DEF Rollback
<1>5. CASE FlushBeforeDelete(t)
  BY <1>5, KeptFrees, ControlSnaps DEF FlushBeforeDelete
<1>6. CASE StageErase(t)
  <2>1. task[t].key \in StorageKey /\ {} \in ContentOf(task[t].key)
    BY <1>6 DEF StageErase, At, TasksOK, TaskOK, CallOK, KeyOp, StorageKey, ContentOf
  <2>2. KeepsSnaps
    BY <1>6, ControlSnaps DEF StageErase
  <2>3. QED
    BY <1>6, <2>1, <2>2, KeptFrees DEF StageErase, StagesOne
<1>7. CASE Remove(t)
  BY <1>7, KeptFrees, ControlSnaps DEF Remove
<1>8. CASE DiscardValue(t)
  BY <1>8, ControlSnaps DEF DiscardValue, Discard, Frees
<1>9. CASE DiscardCatalog(t)
  BY <1>9, ControlSnaps DEF DiscardCatalog, Discard, Frees
<1>10. QED
  BY <1>1, <1>2, <1>3, <1>4, <1>5, <1>6, <1>7, <1>8, <1>9 DEF CatalogStep

LEMMA FormatBuffers ==
  ASSUME TypeOK, NEW t \in Task, FormatStep(t)
  PROVE  (Frees /\ KeepsSnaps) \/ Restarts
<1> USE DEF TypeOK
<1>1. CASE FormatBuffer(t)
  BY <1>1, ControlSnaps DEF FormatBuffer, Restarts
<1>2. CASE FormatRegistry(t) \/ FormatWindow(t)
  BY <1>2, KeptFrees, ControlSnaps DEF FormatRegistry, FormatWindow
<1>3. CASE FormatStore(t)
  BY <1>3, KeptFrees, ControlSnaps DEF FormatStore
<1>4. QED
  BY <1>1, <1>2, <1>3 DEF FormatStep

\* Every step frees slots, stages one write, takes a snapshot, or empties the
\* buffer; only a format and a reset do the last.
LEMMA EveryStep ==
  ASSUME TypeOK, [Next]_vars
  PROVE  BufferStep \/ (Restarts /\ (Crash \/ \E t \in Task : FormatBuffer(t)))
<1>1. CASE \E t \in Task : Call(t) \/ Format(t) \/ LoopDue(t)
  BY <1>1, CallBuffer DEF BufferStep
<1>2. CASE \E t \in Task : CommitStep(t) \/ StoreFault(t)
  BY <1>2, CommitBuffer
<1>3. CASE \E t \in Task : WriteStep(t) \/ CatalogStep(t)
  BY <1>3, WriteBuffer, CatalogBuffer DEF BufferStep
<1>4. ASSUME NEW t \in Task, FormatStep(t)
      PROVE  BufferStep \/ (Restarts /\ (Crash \/ \E u \in Task : FormatBuffer(u)))
  <2>1. CASE FormatBuffer(t)
    BY <2>1, ControlSnaps DEF FormatBuffer, Restarts, TypeOK
  <2>2. CASE ~FormatBuffer(t)
    <3>1. UNCHANGED buffer
      BY <1>4, <2>2 DEF FormatStep, FormatRegistry, FormatWindow, FormatStore
    <3>2. KeepsSnaps
      BY <1>4, FormatBuffers DEF Restarts
    <3>3. QED
      BY <3>1, <3>2, KeptFrees DEF BufferStep
  <2>3. QED
    BY <2>1, <2>2
<1>5. CASE TimePasses \/ ChangeDelay \/ UNCHANGED vars
  BY <1>5, KeptFrees DEF TimePasses, ChangeDelay, vars, KeepsSnaps, BufferStep
<1>6. CASE Crash
  BY <1>6 DEF Crash, Restarts, KeepsSnaps, Idle
<1>7. QED
  BY <1>1, <1>2, <1>3, <1>4, <1>5, <1>6 DEF Next, Step, Rest

(***************************************************************************)
(* One slot per key.                                                       *)
(***************************************************************************)
LEMMA StageOneKey ==
  ASSUME DataOK, OneKey(pending), StagesOne
  PROVE  OneKey(pending)'
<1>0. PICK k \in StorageKey : \E c \in ContentOf(k) : Stage(k, c)
  BY DEF StagesOne
<1>1. PICK c \in ContentOf(k) : Stage(k, c)
  BY <1>0
<1> DEFINE w == [key |-> k, content |-> c, seq |-> pendingSeq + 1]
<1>2. PICK i \in Slot : IsFirst(i, StageTarget(k)) /\ pending' = [pending EXCEPT ![i] = w]
  BY <1>1 DEF Stage
<1>3. \A j \in Slot : pending'[j] = IF j = i THEN w ELSE pending[j]
  BY <1>2 DEF DataOK
<1>4. \A j \in Slot \ {i} : pending[j].key # k
  <2>1. CASE Staged(k)
    BY <1>2, <2>1 DEF StageTarget, IsFirst, OneKey, StorageKey
  <2>2. CASE ~Staged(k)
    BY <2>2 DEF Staged
  <2>3. QED
    BY <2>1, <2>2
<1>5. QED
  BY <1>3, <1>4 DEF OneKey

\* OneSlotPerKey holds with any number of tasks staging, committing, deleting
\* and failing at the same time.
THEOREM OneSlot == Spec => []OneSlotPerKey
<1>1. Init => OneSlotPerKey
  BY DEF Init, OneSlotPerKey, OneKey, EmptyBuffer, FreeSlot, Idle
<1>2. TypeOK /\ OneSlotPerKey /\ [Next]_vars => OneSlotPerKey'
  <2> SUFFICES ASSUME TypeOK, OneSlotPerKey, [Next]_vars
               PROVE  OneSlotPerKey'
    OBVIOUS
  <2>1. OneKey(EmptyBuffer)
    BY DEF OneKey, EmptyBuffer, FreeSlot
  <2>2. ASSUME KeepsSnaps
        PROVE  \A t \in Task : OneKey(task'[t].snap)
    BY <2>1, <2>2 DEF KeepsSnaps, OneSlotPerKey
  <2>3. CASE Frees /\ KeepsSnaps
    <3>1. OneKey(pending)'
      BY <2>3 DEF Frees, OneSlotPerKey, OneKey, FreeSlot
    <3>2. QED
      BY <2>2, <2>3, <3>1 DEF OneSlotPerKey, OneKey
  <2>4. CASE StagesOne /\ KeepsSnaps
    BY <2>2, <2>4, StageOneKey DEF OneSlotPerKey, OneKey, TypeOK
  <2>5. CASE \E t \in Task : TakesSnap(t)
    BY <2>5 DEF TakesSnap, OneSlotPerKey, OneKey, buffer
  <2>6. CASE Restarts
    BY <2>1, <2>2, <2>6 DEF Restarts, OneSlotPerKey, OneKey
  <2>7. QED
    BY <2>3, <2>4, <2>5, <2>6, EveryStep DEF BufferStep
<1>3. QED
  BY <1>1, <1>2, TypeCorrect, PTL DEF Spec

(***************************************************************************)
(* A sequence number names one write.                                      *)
(***************************************************************************)
\* No number is ahead of the count, and no two slots share one.
SeqInv ==
  /\ \A i \in Slot : pending[i].seq <= pendingSeq
  /\ \A i, j \in Slot : pending[i].seq = pending[j].seq => pending[i] = pending[j]
  /\ \A t \in Task : \A i \in Slot : task[t].snap[i].seq <= pendingSeq
  /\ SeqNamesWrite

LEMMA SeqStage ==
  ASSUME TypeOK, SeqInv, StagesOne, KeepsSnaps
  PROVE  SeqInv'
<1>0. PICK k \in StorageKey : \E c \in ContentOf(k) : Stage(k, c)
  BY DEF StagesOne
<1>1. PICK c \in ContentOf(k) : Stage(k, c)
  BY <1>0
<1> DEFINE w == [key |-> k, content |-> c, seq |-> pendingSeq + 1]
<1>2. PICK i \in Slot : pending' = [pending EXCEPT ![i] = w]
  BY <1>1 DEF Stage
<1>3. \A j \in Slot : pending'[j] = IF j = i THEN w ELSE pending[j]
  BY <1>2 DEF TypeOK, DataOK
<1>4. pendingSeq \in Nat /\ pendingSeq' = pendingSeq + 1
  BY <1>1 DEF Stage, TypeOK, DataOK
<1>5. \A j \in Slot : pending[j].seq \in Nat /\ pending[j].seq <= pendingSeq
  BY DEF SeqInv, TypeOK, DataOK, SlotRecord
<1>6. \A t \in Task : \A j \in Slot :
        task'[t].snap[j].seq \in Nat /\ task'[t].snap[j].seq <= pendingSeq
  <2>1. \A t \in Task : \A j \in Slot : task[t].snap[j].seq \in Nat
    BY DEF TypeOK, TasksOK, TaskRecord, SlotRecord
  <2>2. \A j \in Slot : EmptyBuffer[j].seq = 0
    BY DEF EmptyBuffer, FreeSlot
  <2>3. QED
    BY <1>4, <2>1, <2>2 DEF KeepsSnaps, SeqInv
<1>7. \A j \in Slot : pending'[j].seq <= pendingSeq'
  BY <1>3, <1>4, <1>5
<1>8. \A j, l \in Slot : pending'[j].seq = pending'[l].seq => pending'[j] = pending'[l]
  BY <1>3, <1>4, <1>5 DEF SeqInv
<1>9. SeqNamesWrite'
  <2> SUFFICES ASSUME NEW t \in Task, NEW j \in Slot, NEW l \in Slot,
                      task'[t].snap[j].seq = pending'[l].seq, pending'[l].key # NoKey
               PROVE  task'[t].snap[j] = pending'[l]
    BY DEF SeqNamesWrite
  <2>1. l # i
    BY <1>3, <1>4, <1>6
  <2>2. pending'[l] = pending[l] /\ pending[l].seq > 0
    BY <1>3, <2>1 DEF TypeOK, DataOK, GoodBuffer, FreeSlot
  <2>3. task'[t].snap[j] = task[t].snap[j]
    BY <2>2 DEF KeepsSnaps, EmptyBuffer, FreeSlot
  <2>4. QED
    BY <2>2, <2>3 DEF SeqInv, SeqNamesWrite
<1>10. QED
  BY <1>4, <1>6, <1>7, <1>8, <1>9 DEF SeqInv

LEMMA SeqFree ==
  ASSUME TypeOK, SeqInv, Frees, KeepsSnaps
  PROVE  SeqInv'
<1>1. pendingSeq \in Nat /\ pendingSeq' = pendingSeq
  BY DEF TypeOK, DataOK, Frees
<1>2. \A j \in Slot : pending[j].seq > 0 \/ pending[j] = FreeSlot
  BY DEF TypeOK, DataOK, GoodBuffer
<1>3. FreeSlot.seq = 0 /\ FreeSlot.key = NoKey /\ \A j \in Slot : EmptyBuffer[j] = FreeSlot
  BY DEF FreeSlot, EmptyBuffer
<1>4. \A j \in Slot : pending'[j].seq <= pendingSeq'
  BY <1>1, <1>3 DEF Frees, SeqInv
<1>5. \A j, l \in Slot : pending'[j].seq = pending'[l].seq => pending'[j] = pending'[l]
  BY <1>2, <1>3 DEF Frees, SeqInv
<1>6. \A t \in Task : \A j \in Slot : task'[t].snap[j].seq <= pendingSeq'
  BY <1>1, <1>3 DEF KeepsSnaps, SeqInv
<1>7. SeqNamesWrite'
  <2> SUFFICES ASSUME NEW t \in Task, NEW j \in Slot, NEW l \in Slot,
                      task'[t].snap[j].seq = pending'[l].seq, pending'[l].key # NoKey
               PROVE  task'[t].snap[j] = pending'[l]
    BY DEF SeqNamesWrite
  <2>1. pending'[l] = pending[l] /\ pending[l].seq > 0
    BY <1>2, <1>3 DEF Frees
  <2>2. task'[t].snap[j] = task[t].snap[j]
    BY <1>3, <2>1 DEF KeepsSnaps
  <2>3. QED
    BY <2>1, <2>2 DEF SeqInv, SeqNamesWrite
<1>8. QED
  BY <1>4, <1>5, <1>6, <1>7 DEF SeqInv

LEMMA SeqSnap ==
  ASSUME TypeOK, SeqInv, NEW t \in Task, TakesSnap(t)
  PROVE  SeqInv'
BY DEF TakesSnap, SeqInv, SeqNamesWrite, buffer

\* Only a call of StateFormat starts a format.
FormatPc == {"format", "fmtreg", "fmtwin", "fmtnvs"}
NoFormat == \A t \in Task : task[t].pc \notin FormatPc

LEMMA NoFormatControl ==
  ASSUME TasksOK, NoFormat, NEW t \in Task,
         \/ \E l : l \notin FormatPc /\ Goto(t, l)
         \/ \E l : CallCommit(t, l)
         \/ \E c : Resolved(t, c)
         \/ Return(t) \/ Fail(t) \/ CommitFailed(t) \/ CommitDone(t)
  PROVE  NoFormat'
<1>0. task[t] \in TaskRecord
  BY DEF TasksOK
<1>1. ASSUME NEW r, r.pc \notin FormatPc, task' = [task EXCEPT ![t] = r]
      PROVE  NoFormat'
  BY <1>1 DEF NoFormat, FormatPc, TasksOK
<1>2. ASSUME NEW l, l \notin FormatPc, Goto(t, l)
      PROVE  NoFormat'
  BY <1>0, <1>2 DEF Goto, NoFormat, FormatPc, TasksOK, TaskRecord
<1>3. ASSUME NEW l, CallCommit(t, l)
      PROVE  NoFormat'
  BY <1>0, <1>3 DEF CallCommit, NoFormat, FormatPc, TasksOK, TaskRecord
<1>4. ASSUME NEW c, Resolved(t, c)
      PROVE  NoFormat'
  BY <1>0, <1>4 DEF Resolved, NoFormat, FormatPc, TasksOK, TaskRecord
<1>5. Return(t) => NoFormat'
  BY <1>1 DEF Return, Idle, FormatPc
<1>6. ASSUME Fail(t)
      PROVE  NoFormat'
  <2> DEFINE d == [Idle EXCEPT !.pc = "delete", !.op = "delete", !.key = task[t].key]
  <2>1. d.pc \notin FormatPc /\ Idle.pc \notin FormatPc
    BY DEF Idle, FormatPc
  <2>2. task' = [task EXCEPT ![t] = d] \/ task' = [task EXCEPT ![t] = Idle]
    BY <1>6 DEF Fail, TasksOK
  <2>3. QED
    BY <1>1, <2>1, <2>2
<1>7. ASSUME CommitFailed(t)
      PROVE  NoFormat'
  <2> DEFINE q(l) == [task[t] EXCEPT !.pc = l, !.snap = EmptyBuffer, !.todo = {}]
  <2>1. q("uncat").pc \notin FormatPc /\ q("discard").pc \notin FormatPc
    BY <1>0 DEF TaskRecord, FormatPc
  <2>2. \/ task' = [task EXCEPT ![t] = q("uncat")]
        \/ task' = [task EXCEPT ![t] = q("discard")]
        \/ Fail(t)
    BY <1>7 DEF CommitFailed
  <2>3. QED
    BY <1>1, <1>6, <2>1, <2>2
<1>8. ASSUME CommitDone(t)
      PROVE  NoFormat'
  <2> DEFINE r == [task[t] EXCEPT !.snap = EmptyBuffer, !.todo = {}]
             again == [r EXCEPT !.pc = "clone", !.cont = "idle"]
             next  == [r EXCEPT !.pc = r.cont]
  <2>1. Idle.pc \notin FormatPc /\ again.pc \notin FormatPc /\ next.pc \notin FormatPc
    BY <1>0 DEF TaskRecord, Idle, FormatPc
  <2>2. \/ task' = [task EXCEPT ![t] = Idle]
        \/ task' = [task EXCEPT ![t] = again]
        \/ task' = [task EXCEPT ![t] = next]
    BY <1>8 DEF CommitDone
  <2>3. QED
    BY <1>1, <2>1, <2>2
<1>9. QED
  BY <1>2, <1>3, <1>4, <1>5, <1>6, <1>7, <1>8

LEMMA NoFormatBegin ==
  ASSUME TasksOK, NoFormat, NEW t \in Task, NEW op, NEW k, NEW c, NEW l,
         Begin(t, op, k, c, l), l \notin FormatPc
  PROVE  NoFormat'
BY DEF Begin, Idle, NoFormat, FormatPc, TasksOK

LEMMA NoFormatCall ==
  ASSUME TasksOK, NoFormat, NEW t \in Task, Call(t) \/ LoopDue(t)
  PROVE  NoFormat'
<1>1. CASE LoopDue(t)
  BY <1>1 DEF LoopDue, Idle, NoFormat, FormatPc, TasksOK
<1>2. CASE Call(t)
  BY <1>2, NoFormatBegin DEF Call, Set, Erase, Increment, Decrement, Create, Delete, FormatPc
<1>3. QED
  BY <1>1, <1>2

LEMMA NoFormatStep ==
  ASSUME TypeOK, NoFormat, NEW t \in Task, Step(t) \/ StoreFault(t)
  PROVE  NoFormat'
<1> USE DEF TypeOK
<1>0. task[t] \in TaskRecord
  BY DEF TasksOK
<1>1. CASE WriteStep(t)
  <2>1. \A c : UseValue(t, c) => NoFormat'
    BY NoFormatControl DEF UseValue
  <2>2. QED
    BY <1>1, <2>1, NoFormatControl
       DEF WriteStep, Lookup, ReadNvs, Resolve, StageValue, Schedule, FormatPc
<1>2. CASE Clone(t) \/ Apply(t)
  <2>1. CASE CommitFailed(t)
    BY <2>1, NoFormatControl
  <2>2. CASE task[t].pc \notin FormatPc /\ task'[t].pc \notin FormatPc
             /\ \A u \in Task \ {t} : task'[u] = task[u]
    BY <2>2 DEF NoFormat, FormatPc
  <2>3. CASE Clone(t) /\ ~CommitFailed(t)
    <3> DEFINE r == [task[t] EXCEPT !.pc = IF Used(pending) = {} THEN "reset" ELSE "apply",
                                    !.snap = pending, !.todo = Used(pending)]
    <3>1. r.pc \notin FormatPc /\ task[t].pc \notin FormatPc /\ task' = [task EXCEPT ![t] = r]
      BY <1>0, <2>3 DEF Clone, At, TasksOK, TaskRecord, FormatPc
    <3>2. QED
      BY <3>1, <2>2 DEF TasksOK
  <2>4. CASE Apply(t) /\ ~CommitFailed(t)
    <3>1. PICK i \in task[t].todo :
            task' = [task EXCEPT ![t].todo = @ \ {i},
                                 ![t].pc = IF task[t].todo = {i} THEN "flush" ELSE "apply"]
      BY <2>4 DEF Apply
    <3>2. QED
      BY <1>0, <2>2, <2>4, <3>1 DEF Apply, At, TasksOK, TaskRecord, FormatPc
  <2>5. QED
    BY <1>2, <2>1, <2>3, <2>4
<1>3. CASE Flush(t) \/ Clear(t) \/ CountRemaining(t) \/ ResetWindow(t) \/ RearmWindow(t)
           \/ StoreFault(t)
  BY <1>3, NoFormatControl
     DEF Flush, Clear, CountRemaining, ResetWindow, RearmWindow, StoreFault, FormatPc
<1>4. CASE BuildCatalog(t)
  <2>1. CASE CatalogFailed(t)
    BY <2>1, NoFormatControl DEF CatalogFailed, FormatPc
  <2>2. CASE task[t].pc \notin FormatPc /\ task'[t].pc \notin FormatPc
             /\ \A u \in Task \ {t} : task'[u] = task[u]
    BY <2>2 DEF NoFormat, FormatPc
  <2>3. QED
    BY <1>0, <1>4, <2>1, <2>2 DEF BuildCatalog, At, TasksOK, TaskRecord, FormatPc
<1>5. CASE CatalogStep(t) /\ ~BuildCatalog(t)
  <2>1. CatalogFailed(t) => NoFormat'
    BY NoFormatControl DEF CatalogFailed, FormatPc
  <2>2. QED
    BY <1>5, <2>1, NoFormatControl
       DEF CatalogStep, Insert, StageCatalog, Rollback, FlushBeforeDelete,
           StageErase, Remove, DiscardValue, DiscardCatalog, FormatPc
<1>6. CASE FormatStep(t)
  BY <1>6 DEF FormatStep, FormatBuffer, FormatRegistry, FormatWindow, FormatStore,
              At, NoFormat, FormatPc
<1>7. QED
  BY <1>1, <1>2, <1>3, <1>4, <1>5, <1>6 DEF Step, CommitStep

LEMMA SeqInvariant ==
  ASSUME \A t \in Task : "format" \notin Calls[t]
  PROVE  Spec => [](SeqInv /\ NoFormat)
<1>1. Init => SeqInv /\ NoFormat
  BY DEF Init, SeqInv, SeqNamesWrite, NoFormat, FormatPc, Idle, EmptyBuffer, FreeSlot
<1>2. TypeOK /\ SeqInv /\ NoFormat /\ [Next]_vars => (SeqInv /\ NoFormat)'
  <2> SUFFICES ASSUME TypeOK, SeqInv, NoFormat, [Next]_vars
               PROVE  SeqInv' /\ NoFormat'
    OBVIOUS
  <2>1. SeqInv'
    <3>1. CASE Frees /\ KeepsSnaps
      BY <3>1, SeqFree
    <3>2. CASE StagesOne /\ KeepsSnaps
      BY <3>2, SeqStage
    <3>3. CASE \E t \in Task : TakesSnap(t)
      BY <3>3, SeqSnap
    <3>4. CASE Crash
      BY <3>4 DEF Crash, SeqInv, SeqNamesWrite, Idle, EmptyBuffer, FreeSlot
    <3>5. \A t \in Task : ~FormatBuffer(t)
      BY DEF FormatBuffer, At, NoFormat, FormatPc
    <3>6. QED
      BY <3>1, <3>2, <3>3, <3>4, <3>5, EveryStep DEF BufferStep
  <2>2. NoFormat'
    <3>1. CASE \E t \in Task : Call(t) \/ LoopDue(t)
      BY <3>1, NoFormatCall DEF TypeOK
    <3>2. CASE \E t \in Task : Step(t) \/ StoreFault(t)
      BY <3>2, NoFormatStep
    <3>3. CASE TimePasses \/ ChangeDelay \/ UNCHANGED vars
      BY <3>3 DEF TimePasses, ChangeDelay, vars, NoFormat
    <3>4. CASE Crash
      BY <3>4 DEF Crash, NoFormat, FormatPc, Idle
    <3>5. \A t \in Task : ~Format(t)
      BY DEF Format, Begin
    <3>6. QED
      BY <3>1, <3>2, <3>3, <3>4, <3>5 DEF Next, Rest
  <2>3. QED
    BY <2>1, <2>2
<1>3. QED
  BY <1>1, <1>2, TypeCorrect, PTL DEF Spec

\* SeqNamesWrite holds however many tasks stage and commit, as long as none
\* formats the store: StateFormat restarts the count while a commit of
\* another task may still hold a snapshot of the old numbers.
THEOREM SeqNames ==
  ASSUME \A t \in Task : "format" \notin Calls[t]
  PROVE  Spec => []SeqNamesWrite
<1>1. SeqInv => SeqNamesWrite
  BY DEF SeqInv
<1>2. QED
  BY <1>1, SeqInvariant, PTL

(***************************************************************************)
(* Many writers and one committer.  What a commit may rely on while other  *)
(* tasks set, increment and decrement, for any number of writers, keys,    *)
(* slots, faults and resets.                                               *)
(***************************************************************************)
\* One task makes the calls that commit.  With no commit delay every write
\* commits, so then that task has to be alone.
SingleCommitter ==
  /\ \A t \in Task : "format" \notin Calls[t]
  /\ \A t \in Task \ {LoopTask} : Calls[t] \subseteq {"set", "inc", "dec"}
  /\ 0 \notin Delays \/ Task = {LoopTask}

CommitPc == {"clone", "apply", "flush", "clear", "count", "reset", "rearm"}
WritePc  == {"idle", "lookup", "nvsread", "resolve", "stage", "schedule"}

WritersOK ==
  \A t \in Task \ {LoopTask} :
    task[t].pc \in WritePc /\ task[t].op \in {"none", "set", "inc", "dec"}

\* A delete has staged the erasure of k and not finished yet.
Erased(r, k) ==
  /\ r.op = "delete" /\ r.key = k
  /\ \/ r.pc \in {"catalog", "stagecat", "discard", "remove"}
     \/ r.pc \in CommitPc /\ r.cont = "remove"
ReadsOK ==
  \A k \in RuntimeKey : ~Erased(task[LoopTask], k) => Visible(k) = latest[k]

\* What NVS holds is not newer than what is staged.
NumbersOK ==
  /\ \A k \in StorageKey : nvs[k].seq <= pendingSeq
  /\ \A i \in Used(pending) : nvs[pending[i].key].seq <= pending[i].seq

\* Every slot of a commit's snapshot still holds its key, with the same write
\* or a newer one; what was applied is in NVS, and durable after the flush.
Written(p) == [content |-> p.content, seq |-> p.seq]
CommitAt(r) ==
  /\ r.pc \in {"apply", "flush", "clear"} =>
       \A i \in Used(r.snap) :
         /\ pending[i].key = r.snap[i].key /\ r.snap[i].seq <= pending[i].seq
         /\ (r.pc = "apply" /\ i \in r.todo) \/ nvs[r.snap[i].key] = Written(r.snap[i])
  /\ r.pc = "apply" => \A i \in r.todo : nvs[r.snap[i].key].seq <= r.snap[i].seq
  /\ r.pc = "clear" => \A i \in Used(r.snap) : durable[r.snap[i].key] = Written(r.snap[i])
CommitOK == CommitAt(task[LoopTask])

CommitterInv == WritersOK /\ ReadsOK /\ NumbersOK /\ CommitOK

\* What a read sees, as a function of the buffer and the store.
Seen(buf, map, k) ==
  IF \E i \in Slot : buf[i].key = k
  THEN Written(buf[CHOOSE i \in Slot : buf[i].key = k /\ \A j \in 1 .. i - 1 : buf[j].key # k])
  ELSE map[k]

LEMMA VisibleIsSeen ==
  /\ \A k : Visible(k) = Seen(pending, nvs, k)
  /\ \A k : Visible(k)' = Seen(pending', nvs', k)
BY DEF Visible, Staged, StagedSlot, IsFirst, Seen, Written

LEMMA SeenStaged ==
  ASSUME NEW buf, NEW map, NEW k, k # NoKey, OneKey(buf), NEW i \in Slot, buf[i].key = k
  PROVE  Seen(buf, map, k) = Written(buf[i])
<1>1. \A j \in Slot : buf[j].key = k => j = i
  BY DEF OneKey
<1>2. \A j \in 1 .. i - 1 : j \in Slot /\ j # i
  BY DEF Slot
<1>3. i = CHOOSE j \in Slot : buf[j].key = k /\ \A l \in 1 .. j - 1 : buf[l].key # k
  BY <1>1, <1>2
<1>4. QED
  BY <1>3 DEF Seen

LEMMA SeenStored ==
  ASSUME NEW buf, NEW map, NEW k, \A i \in Slot : buf[i].key # k
  PROVE  Seen(buf, map, k) = map[k]
BY DEF Seen

LEMMA RuntimeIsStorage ==
  /\ RuntimeKey \subseteq StorageKey /\ CatalogKey \in StorageKey /\ CatalogKey \notin RuntimeKey
  /\ \A k \in StorageKey : k # NoKey
BY DEF StorageKey

\* A stage shows its write to readers of its key and changes no other read.
LEMMA StageShows ==
  ASSUME TypeOK, OneSlotPerKey, OneSlotPerKey', NEW k \in StorageKey, NEW c, Stage(k, c), nvs' = nvs
  PROVE  /\ Visible(k)' = [content |-> c, seq |-> pendingSeq + 1]
         /\ \A l \in StorageKey : l # k => Visible(l)' = Visible(l)
<1> DEFINE w == [key |-> k, content |-> c, seq |-> pendingSeq + 1]
<1>1. PICK i \in Slot : IsFirst(i, StageTarget(k)) /\ pending' = [pending EXCEPT ![i] = w]
  BY DEF Stage
<1>2. \A j \in Slot : pending'[j] = IF j = i THEN w ELSE pending[j]
  BY <1>1 DEF TypeOK, DataOK
<1>3. OneKey(pending) /\ OneKey(pending')
  BY DEF OneSlotPerKey, OneKey
<1>4. Visible(k)' = Written(pending'[i])
  BY <1>2, <1>3, SeenStaged, VisibleIsSeen, RuntimeIsStorage
<1>5. pending[i].key = k \/ pending[i].key = NoKey
  BY <1>1 DEF IsFirst, StageTarget
<1>6. ASSUME NEW l \in StorageKey, l # k
      PROVE  Visible(l)' = Visible(l)
  <2>1. l # NoKey /\ pending[i].key # l /\ pending'[i].key # l
    BY <1>2, <1>5, <1>6, RuntimeIsStorage
  <2>2. CASE \E j \in Slot : pending[j].key = l
    <3>1. PICK j \in Slot : pending[j].key = l
      BY <2>2
    <3>2. j # i /\ pending'[j] = pending[j]
      BY <1>2, <2>1, <3>1
    <3>3. QED
      BY <1>3, <2>1, <3>1, <3>2, SeenStaged, VisibleIsSeen
  <2>3. CASE \A j \in Slot : pending[j].key # l
    <3>1. \A j \in Slot : pending'[j].key # l
      BY <1>2, <2>1, <2>3
    <3>2. QED
      BY <2>3, <3>1, SeenStored, VisibleIsSeen
  <2>4. QED
    BY <2>2, <2>3
<1>7. QED
  BY <1>2, <1>4, <1>6 DEF Written

LEMMA SameRead ==
  ASSUME UNCHANGED <<pending, nvs>>
  PROVE  \A k : Visible(k)' = Visible(k)
BY VisibleIsSeen

(***************************************************************************)
(* The effect of control on the record of the committer.                   *)
(***************************************************************************)
\* The step of t leaves the data alone and its record where no commit is
\* working, and forgets no erasure.
MovesOn(r, q) ==
  /\ q.pc \notin {"apply", "flush", "clear"}
  /\ \A k \in RuntimeKey : Erased(r, k) => Erased(q, k)

LEMMA IdleMoves == \A k : ~Erased(Idle, k) /\ Idle.pc = "idle"
BY DEF Erased, Idle, CommitPc

LEMMA FailMoves ==
  ASSUME TasksOK, NEW t \in Task, Fail(t), \A k \in RuntimeKey : ~Erased(task[t], k)
  PROVE  MovesOn(task[t], task'[t])
<1> DEFINE d == [Idle EXCEPT !.pc = "delete", !.op = "delete", !.key = task[t].key]
<1>1. d.pc = "delete" /\ Idle.pc = "idle"
  BY DEF Idle
<1>2. task'[t] = d \/ task'[t] = Idle
  BY DEF Fail, TasksOK
<1>3. QED
  BY <1>1, <1>2 DEF MovesOn

\* A commit that fails does so with the erasure of a delete on record.
LEMMA CommitFailedMoves ==
  ASSUME TasksOK, NEW t \in Task, CommitFailed(t), task[t].pc \in CommitPc
  PROVE  MovesOn(task[t], task'[t])
<1> DEFINE r == task[t]
           q(l) == [r EXCEPT !.pc = l, !.snap = EmptyBuffer, !.todo = {}]
<1>0. r \in TaskRecord /\ \A l : q(l).pc = l /\ q(l).op = r.op /\ q(l).key = r.key
  BY DEF TasksOK, TaskRecord
<1>1. CASE r.op = "create" /\ task'[t] = q("uncat")
  BY <1>0, <1>1 DEF MovesOn, Erased
<1>2. CASE r.op = "delete" /\ task'[t] = q("discard")
  BY <1>0, <1>2 DEF MovesOn, Erased
<1>3. CASE <<r.op, r.cont>> # <<"delete", "remove">> /\ Fail(t)
  <2>1. \A k \in RuntimeKey : ~Erased(r, k)
    BY <1>3 DEF Erased, CommitPc
  <2>2. QED
    BY <1>3, <2>1, FailMoves
<1>4. QED
  BY <1>1, <1>2, <1>3 DEF CommitFailed, TasksOK

LEMMA CommitDoneMoves ==
  ASSUME TasksOK, NEW t \in Task, CommitDone(t), task[t].pc \in CommitPc
  PROVE  MovesOn(task[t], task'[t])
<1> DEFINE r == [task[t] EXCEPT !.snap = EmptyBuffer, !.todo = {}]
           again == [r EXCEPT !.pc = "clone", !.cont = "idle"]
           next  == [r EXCEPT !.pc = r.cont]
<1>0. task[t] \in TaskRecord /\ DOMAIN task = Task
  BY DEF TasksOK
<1>1. /\ r.cont = task[t].cont /\ r.op = task[t].op /\ r.key = task[t].key
      /\ again.pc = "clone"
      /\ next.pc = task[t].cont /\ next.op = task[t].op /\ next.key = task[t].key
  BY <1>0 DEF TaskRecord
<1>2. task'[t] = CASE r.cont = "idle" -> Idle [] r.cont = "again" -> again [] OTHER -> next
  BY <1>0 DEF CommitDone
<1>3. \A k \in RuntimeKey : Erased(task[t], k) =>
        task[t].op = "delete" /\ task[t].key = k /\ task[t].cont = "remove"
  BY DEF Erased, CommitPc
<1>4. task[t].cont \in {"idle", "again", "lookup", "erase", "remove"}
  BY <1>0 DEF TaskRecord
<1>5. CASE r.cont = "idle"
  BY <1>1, <1>2, <1>3, <1>5, IdleMoves DEF MovesOn
<1>6. CASE r.cont = "again"
  BY <1>1, <1>2, <1>3, <1>6 DEF MovesOn
<1>7. CASE r.cont \in {"lookup", "erase", "remove"}
  <2>1. task'[t] = next
    BY <1>2, <1>7
  <2>2. QED
    BY <1>1, <1>3, <1>7, <2>1 DEF MovesOn, Erased
<1>8. QED
  BY <1>1, <1>4, <1>5, <1>6, <1>7

LEMMA GotoRecord ==
  ASSUME TasksOK, NEW t \in Task, NEW l, Goto(t, l)
  PROVE  LET q == task'[t] IN
         /\ q.pc = l /\ q.op = task[t].op /\ q.key = task[t].key /\ q.cont = task[t].cont
         /\ q.snap = task[t].snap /\ q.todo = task[t].todo
BY DEF Goto, TasksOK, TaskRecord

LEMMA CallCommitRecord ==
  ASSUME TasksOK, NEW t \in Task, NEW l, CallCommit(t, l)
  PROVE  LET q == task'[t] IN
         q.pc = "clone" /\ q.op = task[t].op /\ q.key = task[t].key /\ q.cont = l
BY DEF CallCommit, TasksOK, TaskRecord

\* Steps that only move the committer, its reads and its catalog on.
Base  == TypeOK /\ OneSlotPerKey /\ SeqInv /\ NoFormat
Known == Base /\ Base' /\ CommitterInv

Others(t) == \A u \in Task \ {t} : task'[u] = task[u]

LEMMA CommitterMoves ==
  ASSUME Known, Others(LoopTask), MovesOn(task[LoopTask], task'[LoopTask]),
         UNCHANGED <<buffer, store, latest>>
  PROVE  CommitterInv'
<1>1. WritersOK'
  BY DEF Known, Base, CommitterInv, WritersOK, Others
<1>2. \A k : Visible(k)' = Visible(k)
  BY SameRead DEF buffer, store
<1>3. ReadsOK'
  BY <1>2 DEF Known, Base, CommitterInv, ReadsOK, MovesOn
<1>4. NumbersOK'
  BY DEF Known, Base, CommitterInv, NumbersOK, buffer, store, Used
<1>5. CommitOK'
  BY DEF CommitOK, CommitAt, MovesOn
<1>6. QED
  BY <1>1, <1>3, <1>4, <1>5 DEF CommitterInv

LEMMA FreshPc ==
  ASSUME NEW r, r.pc \notin {"catalog", "stagecat", "discard", "remove"}, r.pc \notin CommitPc
  PROVE  \A k : ~Erased(r, k)
BY DEF Erased

LEMMA UseValueMoves ==
  ASSUME TasksOK, NEW t \in Task, NEW c, UseValue(t, c), task[t].pc \in WritePc
  PROVE  MovesOn(task[t], task'[t]) /\ Others(t)
<1>1. \A k : ~Erased(task[t], k)
  BY FreshPc DEF WritePc, CommitPc
<1>2. Others(t)
  BY DEF UseValue, Return, Resolved, Others, TasksOK
<1>3. task'[t].pc = "idle" \/ task'[t].pc = "resolve"
  BY IdleMoves DEF UseValue, Return, Resolved, TasksOK, TaskRecord
<1>4. QED
  BY <1>1, <1>2, <1>3 DEF MovesOn

\* The write steps of the committer, StageValue apart.
LEMMA CommitterWrites ==
  ASSUME SingleCommitter, Known,
         Lookup(LoopTask) \/ ReadNvs(LoopTask) \/ Resolve(LoopTask) \/ Schedule(LoopTask)
  PROVE  CommitterInv'
<1> DEFINE t == LoopTask
<1>0. t \in Task /\ TasksOK
  BY DEF Known, Base, TypeOK
<1>1. UNCHANGED <<buffer, store, latest>> /\ task[t].pc \in WritePc
  BY DEF Lookup, ReadNvs, Resolve, Schedule, At, WritePc
<1>2. \A k \in RuntimeKey : ~Erased(task[t], k)
  BY <1>1, FreshPc DEF WritePc, CommitPc
<1>3. Others(t)
  <2>1. ASSUME \E c : UseValue(t, c) PROVE Others(t)
    BY <1>0, <1>1, <2>1, UseValueMoves
  <2>2. ASSUME \/ Fail(t) \/ Return(t) \/ \E l : Goto(t, l) \/ CallCommit(t, l) PROVE Others(t)
    BY <1>0, <2>2 DEF Fail, Return, Goto, CallCommit, Others, TasksOK
  <2>3. QED
    BY <2>1, <2>2 DEF Lookup, ReadNvs, Resolve, Schedule
<1>4. MovesOn(task[t], task'[t])
  <2>1. ASSUME \E c : UseValue(t, c) PROVE MovesOn(task[t], task'[t])
    BY <1>0, <1>1, <2>1, UseValueMoves
  <2>2. ASSUME Fail(t) PROVE MovesOn(task[t], task'[t])
    BY <1>0, <1>2, <2>2, FailMoves
  <2>3. ASSUME Return(t) PROVE MovesOn(task[t], task'[t])
    BY <1>0, <1>2, <2>3, IdleMoves DEF Return, MovesOn, TasksOK
  <2>4. ASSUME Goto(t, "nvsread") \/ Goto(t, "stage") PROVE MovesOn(task[t], task'[t])
    BY <1>0, <1>2, <2>4, GotoRecord DEF MovesOn
  <2>5. ASSUME \E l : CallCommit(t, l) PROVE MovesOn(task[t], task'[t])
    BY <1>0, <1>2, <2>5, CallCommitRecord DEF MovesOn
  <2>6. QED
    BY <2>1, <2>2, <2>3, <2>4, <2>5 DEF Lookup, ReadNvs, Resolve, Schedule
<1>5. QED
  BY <1>1, <1>3, <1>4, CommitterMoves

\* A stage keeps the numbers in order, and a commit's hold on its slots.
LEMMA StageNumbers ==
  ASSUME Known, NEW k \in StorageKey, NEW c, Stage(k, c), UNCHANGED store
  PROVE  NumbersOK' /\ \A r : r.snap \in [Slot -> SlotRecord] /\ CommitAt(r) => CommitAt(r)'
<1> DEFINE w == [key |-> k, content |-> c, seq |-> pendingSeq + 1]
<1>1. PICK i \in Slot : IsFirst(i, StageTarget(k)) /\ pending' = [pending EXCEPT ![i] = w]
  BY DEF Stage
<1>2. \A j \in Slot : pending'[j] = IF j = i THEN w ELSE pending[j]
  BY <1>1 DEF Known, Base, TypeOK, DataOK
<1>3. pendingSeq \in Nat /\ pendingSeq' = pendingSeq + 1
  BY DEF Stage, Known, Base, TypeOK, DataOK
<1>4. pending[i].key = k \/ pending[i].key = NoKey
  BY <1>1 DEF IsFirst, StageTarget
<1>5. \A l \in StorageKey : nvs[l].seq \in Nat /\ nvs[l].seq <= pendingSeq /\ nvs'[l] = nvs[l]
  BY DEF Known, Base, CommitterInv, NumbersOK, TypeOK, DataOK, Entry, store
<1>6. \A j \in Slot : pending[j].seq \in Nat /\ pending[j].seq <= pendingSeq
  BY DEF Known, Base, SeqInv, TypeOK, DataOK, SlotRecord
<1>7. NumbersOK'
  <2>1. \A l \in StorageKey : nvs'[l].seq <= pendingSeq'
    BY <1>3, <1>5
  <2>2. \A j \in Slot : pending'[j].key # NoKey => nvs'[pending'[j].key].seq <= pending'[j].seq
    <3> SUFFICES ASSUME NEW j \in Slot, pending'[j].key # NoKey
                 PROVE  nvs'[pending'[j].key].seq <= pending'[j].seq
      OBVIOUS
    <3>1. CASE j = i
      BY <1>2, <1>3, <1>5, <3>1
    <3>2. CASE j # i
      <4>1. pending'[j] = pending[j] /\ pending[j].key \in StorageKey
        BY <1>2, <3>2 DEF Known, Base, TypeOK, DataOK, SlotRecord
      <4>2. nvs[pending[j].key].seq <= pending[j].seq
        BY <4>1 DEF Known, Base, CommitterInv, NumbersOK, Used
      <4>3. QED
        BY <1>5, <4>1, <4>2
    <3>3. QED
      BY <3>1, <3>2
  <2>3. QED
    BY <2>1, <2>2 DEF NumbersOK, Used
<1>8. ASSUME NEW r, r.snap \in [Slot -> SlotRecord], CommitAt(r)
      PROVE  CommitAt(r)'
  <2>1. ASSUME NEW j \in Used(r.snap), pending[j].key = r.snap[j].key, r.snap[j].seq <= pending[j].seq
        PROVE  pending'[j].key = r.snap[j].key /\ r.snap[j].seq <= pending'[j].seq
    <3>1. j \in Slot /\ r.snap[j].key # NoKey /\ r.snap[j].seq \in Nat
      BY <1>8 DEF Used, SlotRecord
    <3>2. CASE j = i
      <4>1. pending[i].key = k
        BY <1>4, <2>1, <3>1, <3>2
      <4>2. r.snap[j].seq <= pendingSeq + 1
        BY <1>3, <1>6, <2>1, <3>1
      <4>3. QED
        BY <1>2, <2>1, <3>1, <3>2, <4>1, <4>2
    <3>3. CASE j # i
      BY <1>2, <2>1, <3>1, <3>3
    <3>4. QED
      BY <3>2, <3>3
  <2>2. nvs' = nvs /\ durable' = durable
    BY DEF store
  <2>3. QED
    BY <1>8, <2>1, <2>2 DEF CommitAt
<1>9. QED
  BY <1>7, <1>8

LEMMA WriterMoves ==
  ASSUME Known, NEW t \in Task \ {LoopTask}, Others(t), UNCHANGED <<buffer, store, latest>>,
         task'[t].pc \in WritePc, task'[t].op \in {"none", "set", "inc", "dec"}
  PROVE  CommitterInv'
<1>1. task'[LoopTask] = task[LoopTask]
  BY DEF Others
<1>2. WritersOK'
  BY DEF Known, Base, CommitterInv, WritersOK, Others
<1>3. \A k : Visible(k)' = Visible(k)
  BY SameRead DEF buffer, store
<1>4. ReadsOK'
  BY <1>1, <1>3 DEF Known, Base, CommitterInv, ReadsOK
<1>5. NumbersOK'
  BY DEF Known, Base, CommitterInv, NumbersOK, buffer, store, Used
<1>6. CommitOK'
  BY <1>1 DEF Known, Base, CommitterInv, CommitOK, CommitAt, buffer, store
<1>7. QED
  BY <1>2, <1>4, <1>5, <1>6 DEF CommitterInv

LEMMA IdleWrites == Idle.pc \in WritePc /\ Idle.op = "none"
BY DEF Idle, WritePc

\* Calls: a writer only sets, increments and decrements.
LEMMA CallKeeps ==
  ASSUME SingleCommitter, Known, NEW t \in Task, Call(t) \/ Format(t) \/ LoopDue(t)
  PROVE  CommitterInv'
<1>0. DOMAIN task = Task /\ task[t].pc = "idle"
  BY DEF Known, Base, TypeOK, TasksOK, Call, Set, Erase, Increment, Decrement, Create, Delete,
         Format, Begin, LoopDue, At
<1>1. UNCHANGED <<buffer, store, latest>> /\ Others(t)
  BY <1>0 DEF Call, Set, Erase, Increment, Decrement, Create, Delete, Format, Begin, LoopDue, Others
<1>2. CASE t = LoopTask
  <2>1. \A k \in RuntimeKey : ~Erased(task[t], k)
    BY <1>0, FreshPc DEF CommitPc
  <2>2. task'[t].pc \in {"resolve", "stage", "lookup", "insert", "delete", "format", "clone"}
    BY <1>0, ZenonT(60) DEF Call, Set, Erase, Increment, Decrement, Create, Delete, Format, Begin, LoopDue, Idle
  <2>3. QED
    BY <1>1, <1>2, <2>1, <2>2, CommitterMoves DEF MovesOn
<1>3. CASE t # LoopTask
  <2>1. {"erase", "create", "delete", "format"} \cap Calls[t] = {}
    BY <1>3 DEF SingleCommitter
  <2>2. Call(t)
    BY <1>3, <2>1 DEF Format, Begin, LoopDue
  <2>3. PICK k \in RuntimeKey : \/ \E v \in Tried : Set(t, k, v)
                               \/ Increment(t, k) \/ Decrement(t, k)
    <3>1. \A k : ~Erase(t, k) /\ ~Create(t, k) /\ ~Delete(t, k)
      BY <2>1 DEF Erase, Create, Delete, Begin
    <3>2. QED
      BY <2>2, <3>1 DEF Call
  <2>4. /\ task'[t].pc = "resolve" \/ task'[t].pc = "lookup"
        /\ task'[t].op = "set" \/ task'[t].op = "inc" \/ task'[t].op = "dec"
    BY <1>0, <2>3 DEF Increment, Decrement, Set, Begin, Idle
  <2>5. QED
    BY <1>1, <1>3, <2>4, WriterMoves DEF WritePc
<1>4. QED
  BY <1>2, <1>3

\* The write steps of a writer, StageValue apart.
LEMMA WriterWrites ==
  ASSUME SingleCommitter, Known, NEW t \in Task \ {LoopTask},
         Lookup(t) \/ ReadNvs(t) \/ Resolve(t) \/ Schedule(t)
  PROVE  CommitterInv'
<1>0. TasksOK /\ task[t].op \in {"none", "set", "inc", "dec"} /\ task[t] \in TaskRecord
  BY DEF Known, Base, TypeOK, TasksOK, CommitterInv, WritersOK
<1>1. UNCHANGED <<buffer, store, latest>> /\ task[t].pc \in WritePc
  BY DEF Lookup, ReadNvs, Resolve, Schedule, At, WritePc
<1>2. delay > 0
  BY DEF SingleCommitter, Known, Base, TypeOK, DataOK
<1>3. Return(t) => task'[t].pc \in WritePc /\ task'[t].op = "none" /\ Others(t)
  BY <1>0, IdleWrites DEF Return, Others, TasksOK
<1>4. Fail(t) => Return(t)
  BY <1>0 DEF Fail, Return, TasksOK
<1>5. \A l \in WritePc : Goto(t, l) =>
        task'[t].pc \in WritePc /\ task'[t].op = task[t].op /\ Others(t)
  BY <1>0 DEF Goto, Others, TasksOK, TaskRecord
<1>6. \A c : Resolved(t, c) =>
        task'[t].pc \in WritePc /\ task'[t].op = task[t].op /\ Others(t)
  BY <1>0 DEF Resolved, Others, TasksOK, TaskRecord, WritePc
<1>7. \A c : UseValue(t, c) => Return(t) \/ \E d : Resolved(t, d)
  BY DEF UseValue
<1>8. Schedule(t) => Return(t) \/ Fail(t)
  BY <1>0, <1>2 DEF Schedule
<1>9. \/ Return(t) \/ Fail(t) \/ Goto(t, "nvsread") \/ Goto(t, "stage")
      \/ \E d : Resolved(t, d)
  BY <1>7, <1>8 DEF Lookup, ReadNvs, Resolve
<1>10. /\ task'[t].pc \in WritePc /\ task'[t].op \in {"none", "set", "inc", "dec"}
       /\ Others(t)
  BY <1>0, <1>3, <1>4, <1>5, <1>6, <1>9 DEF WritePc
<1>11. QED
  BY <1>1, <1>10, WriterMoves

\* A write is staged, by any task.
LEMMA StageValueKeeps ==
  ASSUME SingleCommitter, Known, NEW t \in Task, StageValue(t)
  PROVE  CommitterInv'
<1>0. TasksOK /\ task[t] \in TaskRecord /\ task[t].pc = "stage"
  BY DEF Known, Base, TypeOK, TasksOK, StageValue, At
<1>1. ~Erased(task[LoopTask], task[t].key) \/ t # LoopTask
  BY <1>0, FreshPc DEF CommitPc
<1>2. CASE Fail(t) /\ UNCHANGED <<buffer, store, latest>>
  <2>1. Others(t)
    BY <1>0, <1>2 DEF Fail, Others, TasksOK
  <2>2. CASE t = LoopTask
    <3>1. \A k \in RuntimeKey : ~Erased(task[t], k)
      BY <1>0, FreshPc DEF CommitPc
    <3>2. QED
      BY <1>0, <1>2, <2>1, <2>2, <3>1, FailMoves, CommitterMoves
  <2>3. CASE t # LoopTask
    <3>1. task'[t] = Idle
      BY <1>0, <1>2, <2>3 DEF Fail, TasksOK, Known, Base, CommitterInv, WritersOK
    <3>2. QED
      BY <1>2, <2>1, <2>3, <3>1, IdleWrites, WriterMoves
  <2>4. QED
    BY <2>2, <2>3
<1>3. CASE /\ Stage(task[t].key, task[t].val) /\ UNCHANGED store
           /\ latest' = [latest EXCEPT ![task[t].key] = [content |-> task[t].val,
                                                         seq |-> pendingSeq + 1]]
           /\ IF task[t].op = "erase" THEN CallCommit(t, "idle") ELSE Goto(t, "schedule")
  <2>1. PICK k \in RuntimeKey : k = task[t].key
    BY <1>0 DEF TasksOK, TaskOK, CallOK
  <2>2. Others(t)
    BY <1>0, <1>3 DEF CallCommit, Goto, Others, TasksOK
  <2>3. /\ task'[t].pc = "clone" \/ task'[t].pc = "schedule"
        /\ task'[t].op = task[t].op
        /\ task[t].op # "erase" => task'[t].pc = "schedule"
    BY <1>0, <1>3, CallCommitRecord, GotoRecord
  <2>4. WritersOK'
    BY <2>2, <2>3 DEF Known, Base, CommitterInv, WritersOK, Others, WritePc
  <2>5. /\ Visible(k)' = [content |-> task[t].val, seq |-> pendingSeq + 1]
        /\ \A l \in StorageKey : l # k => Visible(l)' = Visible(l)
    BY <1>3, <2>1, StageShows, RuntimeIsStorage DEF Known, Base, store
  <2>6. \A l \in RuntimeKey : latest'[l] = IF l = k THEN [content |-> task[t].val, seq |-> pendingSeq + 1]
                                                  ELSE latest[l]
    BY <1>3, <2>1, RuntimeIsStorage DEF Known, Base, TypeOK, DataOK
  <2>7. \A l \in RuntimeKey : ~Erased(task'[LoopTask], l) => ~Erased(task[LoopTask], l)
    <3>1. CASE t = LoopTask
      BY <1>0, <3>1, FreshPc DEF CommitPc
    <3>2. CASE t # LoopTask
      BY <2>2, <3>2 DEF Others
    <3>3. QED
      BY <3>1, <3>2
  <2>8. ReadsOK'
    BY <2>5, <2>6, <2>7, RuntimeIsStorage DEF Known, Base, CommitterInv, ReadsOK
  <2>9. PICK r : r = task[LoopTask]
    OBVIOUS
  <2>10. NumbersOK' /\ (CommitAt(r) => CommitAt(r)')
    <3>1. r.snap \in [Slot -> SlotRecord]
      BY <2>9 DEF Known, Base, TypeOK, TasksOK, TaskRecord
    <3>2. QED
      BY <1>3, <2>1, <3>1, StageNumbers, RuntimeIsStorage
  <2>11. CommitOK'
    <3>1. CASE t = LoopTask
      BY <2>3, <3>1 DEF CommitOK, CommitAt
    <3>2. CASE t # LoopTask
      <4>1. task'[LoopTask] = r /\ CommitAt(r)
        BY <2>2, <2>9, <3>2 DEF Others, Known, Base, CommitterInv, CommitOK
      <4>2. QED
        BY <2>10, <4>1 DEF CommitOK, CommitAt
    <3>3. QED
      BY <3>1, <3>2
  <2>12. QED
    BY <2>4, <2>8, <2>10, <2>11 DEF CommitterInv
<1>4. QED
  BY <1>2, <1>3 DEF StageValue, store

\* Only the committer is outside the write steps.
LEMMA CommitterOnly ==
  ASSUME Known, NEW t \in Task, task[t].pc \notin WritePc
  PROVE  t = LoopTask
BY DEF Known, CommitterInv, WritersOK

LEMMA ControlOthers ==
  ASSUME TasksOK, NEW t \in Task,
         \/ \E l : Goto(t, l) \/ CallCommit(t, l)
         \/ Return(t) \/ Fail(t) \/ CatalogFailed(t) \/ CommitFailed(t) \/ CommitDone(t)
  PROVE  Others(t)
BY DEF Goto, CallCommit, Return, Fail, CatalogFailed, CommitFailed, CommitDone, Others, TasksOK

LEMMA ReturnMoves ==
  ASSUME TasksOK, NEW t \in Task, Return(t), \A k \in RuntimeKey : ~Erased(task[t], k)
  PROVE  MovesOn(task[t], task'[t])
BY IdleMoves DEF Return, MovesOn, TasksOK

LEMMA CatalogFailedMoves ==
  ASSUME TasksOK, NEW t \in Task, CatalogFailed(t), task[t].pc \in {"catalog", "stagecat"}
  PROVE  MovesOn(task[t], task'[t])
<1>1. /\ task'[t].pc = IF task[t].op = "create" THEN "rollback" ELSE "discard"
      /\ task'[t].op = task[t].op /\ task'[t].key = task[t].key
  BY GotoRecord DEF CatalogFailed
<1>2. QED
  BY <1>1 DEF MovesOn, Erased

\* The steps of a create or a delete that neither stage nor discard.
LEMMA CatalogControl ==
  ASSUME Known, NEW t \in Task,
         Insert(t) \/ BuildCatalog(t) \/ Rollback(t) \/ FlushBeforeDelete(t)
  PROVE  CommitterInv'
<1>0. TasksOK /\ task[t] \in TaskRecord
  BY DEF Known, Base, TypeOK, TasksOK
<1>1. /\ UNCHANGED <<buffer, store, latest>>
      /\ task[t].pc \in {"insert", "catalog", "rollback", "delete"}
  BY DEF Insert, BuildCatalog, Rollback, FlushBeforeDelete, At
<1>2. t = LoopTask
  BY <1>1, CommitterOnly DEF WritePc
<1>3. task[t].pc # "catalog" => \A k \in RuntimeKey : ~Erased(task[t], k)
  BY <1>1, FreshPc DEF CommitPc
<1>4. CASE Insert(t) \/ Rollback(t) \/ FlushBeforeDelete(t)
  <2>1. task[t].pc # "catalog"
    BY <1>4 DEF Insert, Rollback, FlushBeforeDelete, At
  <2>2. \/ Return(t) \/ CallCommit(t, "erase") \/ Goto(t, "catalog") \/ Goto(t, "erase")
    BY <1>4 DEF Insert, Rollback, FlushBeforeDelete
  <2>3. Others(t)
    BY <1>0, <2>2, ControlOthers
  <2>4. MovesOn(task[t], task'[t])
    <3>1. Return(t) => MovesOn(task[t], task'[t])
      BY <1>0, <1>3, <2>1, ReturnMoves
    <3>2. CallCommit(t, "erase") => MovesOn(task[t], task'[t])
      BY <1>0, <1>3, <2>1, CallCommitRecord DEF MovesOn
    <3>3. Goto(t, "catalog") \/ Goto(t, "erase") => MovesOn(task[t], task'[t])
      BY <1>0, <1>3, <2>1, GotoRecord DEF MovesOn
    <3>4. QED
      BY <2>2, <3>1, <3>2, <3>3
  <2>5. QED
    BY <1>1, <1>2, <2>3, <2>4, CommitterMoves
<1>5. CASE BuildCatalog(t)
  <2>1. task[t].pc = "catalog"
    BY <1>5 DEF BuildCatalog, At
  <2>2. CASE CatalogFailed(t)
    BY <1>0, <1>1, <1>2, <2>1, <2>2, ControlOthers, CatalogFailedMoves, CommitterMoves
  <2>3. CASE \E c : task' = [task EXCEPT ![t].pc = "stagecat", ![t].val = c]
    <3>1. /\ task'[t].pc = "stagecat" /\ task'[t].op = task[t].op /\ task'[t].key = task[t].key
          /\ Others(t)
      BY <1>0, <2>3 DEF TasksOK, TaskRecord, Others
    <3>2. MovesOn(task[t], task'[t])
      BY <2>1, <3>1 DEF MovesOn, Erased, CommitPc
    <3>3. QED
      BY <1>1, <1>2, <3>1, <3>2, CommitterMoves
  <2>4. QED
    BY <1>5, <2>2, <2>3 DEF BuildCatalog
<1>6. QED
  BY <1>4, <1>5

\* A delete stages the erasure of its key.
LEMMA StageEraseKeeps ==
  ASSUME Known, NEW t \in Task, StageErase(t)
  PROVE  CommitterInv'
<1>0. TasksOK /\ task[t] \in TaskRecord /\ task[t].pc = "erase"
  BY DEF Known, Base, TypeOK, TasksOK, StageErase, At
<1>1. t = LoopTask /\ \A k \in RuntimeKey : ~Erased(task[t], k)
  BY <1>0, CommitterOnly, FreshPc DEF WritePc, CommitPc
<1>2. PICK k \in RuntimeKey : k = task[t].key /\ task[t].op = "delete"
  BY <1>0 DEF TasksOK, TaskOK, CallOK, KeyOp
<1>3. CASE Return(t) /\ UNCHANGED buffer
  BY <1>0, <1>1, <1>3, ControlOthers, ReturnMoves, CommitterMoves DEF StageErase
<1>4. CASE Stage(task[t].key, {}) /\ Goto(t, "catalog")
  <2>1. UNCHANGED <<store, latest>>
    BY DEF StageErase
  <2>2. Others(t)
    BY <1>0, <1>4, ControlOthers
  <2>3. task'[t].pc = "catalog" /\ task'[t].op = "delete" /\ task'[t].key = k
    BY <1>0, <1>2, <1>4, GotoRecord
  <2>4. WritersOK'
    BY <1>1, <2>2 DEF Known, CommitterInv, WritersOK, Others
  <2>5. \A l \in RuntimeKey : l # k => Visible(l)' = Visible(l)
    BY <1>2, <1>4, <2>1, StageShows, RuntimeIsStorage DEF Known, Base, store
  <2>6. ReadsOK'
    BY <1>1, <2>1, <2>3, <2>5 DEF Known, CommitterInv, ReadsOK, Erased
  <2>7. NumbersOK'
    BY <1>2, <1>4, <2>1, StageNumbers, RuntimeIsStorage
  <2>8. CommitOK'
    BY <1>1, <2>3 DEF CommitOK, CommitAt
  <2>9. QED
    BY <2>4, <2>6, <2>7, <2>8 DEF CommitterInv
<1>5. QED
  BY <1>3, <1>4 DEF StageErase

LEMMA StageCatalogKeeps ==
  ASSUME Known, NEW t \in Task, StageCatalog(t)
  PROVE  CommitterInv'
<1>0. TasksOK /\ task[t] \in TaskRecord /\ task[t].pc = "stagecat"
  BY DEF Known, Base, TypeOK, TasksOK, StageCatalog, At
<1>1. t = LoopTask
  BY <1>0, CommitterOnly DEF WritePc
<1>3. CASE CatalogFailed(t) /\ UNCHANGED buffer
  BY <1>0, <1>1, <1>3, ControlOthers, CatalogFailedMoves, CommitterMoves DEF StageCatalog
<1>4. CASE /\ Stage(CatalogKey, task[t].val)
           /\ CallCommit(t, IF task[t].op = "create" THEN "lookup" ELSE "remove")
  <2>1. UNCHANGED <<store, latest>>
    BY DEF StageCatalog
  <2>2. Others(t)
    BY <1>0, <1>4, ControlOthers
  <2>3. /\ task'[t].pc = "clone" /\ task'[t].op = task[t].op /\ task'[t].key = task[t].key
        /\ task[t].op # "create" => task'[t].cont = "remove"
    BY <1>0, <1>4, CallCommitRecord
  <2>4. WritersOK'
    BY <1>1, <2>2 DEF Known, CommitterInv, WritersOK, Others
  <2>5. \A l \in RuntimeKey : Visible(l)' = Visible(l)
    BY <1>4, <2>1, StageShows, RuntimeIsStorage DEF Known, Base, store
  <2>6. \A l : Erased(task[t], l) => Erased(task'[t], l)
    BY <2>3 DEF Erased, CommitPc
  <2>7. ReadsOK'
    BY <1>1, <2>1, <2>5, <2>6 DEF Known, CommitterInv, ReadsOK
  <2>8. NumbersOK'
    BY <1>4, <2>1, StageNumbers, RuntimeIsStorage
  <2>9. CommitOK'
    BY <1>1, <2>3 DEF CommitOK, CommitAt
  <2>10. QED
    BY <2>4, <2>7, <2>8, <2>9 DEF CommitterInv
<1>5. QED
  BY <1>3, <1>4 DEF StageCatalog

\* The delete is done: the history takes the erasure in.
LEMMA RemoveKeeps ==
  ASSUME Known, NEW t \in Task, Remove(t)
  PROVE  CommitterInv'
<1>0. TasksOK /\ task[t] \in TaskRecord /\ task[t].pc = "remove"
  BY DEF Known, Base, TypeOK, TasksOK, Remove, At
<1>1. t = LoopTask
  BY <1>0, CommitterOnly DEF WritePc
<1>2. PICK k \in RuntimeKey : k = task[t].key
  BY <1>0 DEF TasksOK, TaskOK, CallOK, KeyOp
<1>3. UNCHANGED <<buffer, store>> /\ Others(t) /\ task'[t] = Idle
  BY <1>0, ControlOthers DEF Remove, Return, TasksOK
<1>4. \A l : Visible(l)' = Visible(l)
  BY <1>3, SameRead DEF buffer, store
<1>5. \A l \in RuntimeKey : latest'[l] = IF l = k THEN Visible(k) ELSE latest[l]
  BY <1>2, RuntimeIsStorage DEF Remove, Known, Base, TypeOK, DataOK
<1>6. \A l \in RuntimeKey : Erased(task[t], l) => l = k
  BY <1>2 DEF Erased
<1>7. ReadsOK'
  BY <1>1, <1>4, <1>5, <1>6 DEF Known, CommitterInv, ReadsOK
<1>8. WritersOK'
  BY <1>1, <1>3 DEF Known, CommitterInv, WritersOK, Others
<1>9. NumbersOK'
  BY <1>3 DEF Known, CommitterInv, NumbersOK, buffer, store, Used
<1>10. CommitOK'
  BY <1>1, <1>3, IdleMoves DEF CommitOK, CommitAt
<1>11. QED
  BY <1>7, <1>8, <1>9, <1>10 DEF CommitterInv

\* Freed slots: a key whose slot is kept reads as before, one without a slot
\* left reads from NVS.
LEMMA FreedShows ==
  ASSUME Known, NEW S, nvs' = nvs,
         pending' = [i \in Slot |-> IF i \in S THEN FreeSlot ELSE pending[i]]
  PROVE  /\ \A l \in StorageKey :
              (\A i \in Slot : i \in S => pending[i].key # l) => Visible(l)' = Visible(l)
         /\ \A l \in StorageKey :
              (\A i \in Slot : pending[i].key = l => i \in S) => Visible(l)' = nvs[l]
         /\ pendingSeq' = pendingSeq => NumbersOK'
<1>1. \A i \in Slot : pending'[i] = IF i \in S THEN FreeSlot ELSE pending[i]
  OBVIOUS
<1>2. OneKey(pending) /\ OneKey(pending')
  BY DEF Known, Base, OneSlotPerKey, OneKey
<1>3. \A l \in StorageKey : l # NoKey /\ FreeSlot.key = NoKey
  BY RuntimeIsStorage DEF FreeSlot
<1>4. ASSUME NEW l \in StorageKey, \A i \in Slot : i \in S => pending[i].key # l
      PROVE  Visible(l)' = Visible(l)
  <2>1. CASE \E i \in Slot : pending[i].key = l
    <3>1. PICK i \in Slot : pending[i].key = l
      BY <2>1
    <3>2. pending'[i] = pending[i] /\ l # NoKey
      BY <1>1, <1>3, <1>4, <3>1
    <3>3. Seen(pending, nvs, l) = Written(pending[i])
      BY <1>2, <3>1, <3>2, SeenStaged
    <3>4. Seen(pending', nvs', l) = Written(pending'[i])
      BY <1>2, <3>1, <3>2, SeenStaged
    <3>5. QED
      BY <3>2, <3>3, <3>4, VisibleIsSeen
  <2>2. CASE \A i \in Slot : pending[i].key # l
    <3>1. \A i \in Slot : pending'[i].key # l
      BY <1>1, <1>3, <2>2
    <3>2. QED
      BY <2>2, <3>1, SeenStored, VisibleIsSeen
  <2>3. QED
    BY <2>1, <2>2
<1>5. ASSUME NEW l \in StorageKey, \A i \in Slot : pending[i].key = l => i \in S
      PROVE  Visible(l)' = nvs[l]
  <2>1. \A i \in Slot : pending'[i].key # l
    BY <1>1, <1>3, <1>5
  <2>2. Seen(pending', nvs', l) = nvs'[l]
    BY <2>1, SeenStored
  <2>3. QED
    BY <2>2, VisibleIsSeen
<1>6. ASSUME pendingSeq' = pendingSeq
      PROVE  NumbersOK'
  <2>1. \A i \in Used(pending') : i \in Used(pending) /\ pending'[i] = pending[i]
    BY <1>1 DEF Used, FreeSlot
  <2>2. QED
    BY <1>6, <2>1 DEF Known, CommitterInv, NumbersOK
<1>7. QED
  BY <1>4, <1>5, <1>6

\* A key has one slot: the slot that holds it is the one a scan stops at.
LEMMA FirstIsOnly ==
  ASSUME Known, NEW k \in StorageKey, NEW i \in Slot, pending[i].key = k
  PROVE  IsFirst(i, k)
<1>1. \A j \in 1 .. i - 1 : j \in Slot /\ j # i
  BY DEF Slot
<1>2. QED
  BY <1>1, RuntimeIsStorage DEF IsFirst, Known, Base, OneSlotPerKey, OneKey

LEMMA DiscardValueKeeps ==
  ASSUME Known, NEW t \in Task, DiscardValue(t)
  PROVE  CommitterInv'
<1>0. TasksOK /\ task[t] \in TaskRecord /\ task[t].pc = "discard"
  BY DEF Known, Base, TypeOK, TasksOK, DiscardValue, At
<1>1. t = LoopTask
  BY <1>0, CommitterOnly DEF WritePc
<1>2. PICK k \in RuntimeKey : k = task[t].key
  BY <1>0 DEF TasksOK, TaskOK, CallOK, KeyOp
<1>3. UNCHANGED <<pendingSeq, store>> /\ Others(t) /\ task'[t].pc = "uncat"
  BY <1>0, ControlOthers, GotoRecord DEF DiscardValue, Discard
<1> DEFINE S == {i \in Slot : IsFirst(i, k)}
<1>4. pending' = [i \in Slot |-> IF i \in S THEN FreeSlot ELSE pending[i]]
  BY <1>2 DEF DiscardValue, Discard
<1>5. \A i \in Slot : i \in S <=> pending[i].key = k
  BY FirstIsOnly, RuntimeIsStorage DEF IsFirst
<1> HIDE DEF S
<1>6. /\ Visible(k)' = nvs[k] /\ NumbersOK'
      /\ \A l \in RuntimeKey : l # k => Visible(l)' = Visible(l)
  BY <1>3, <1>4, <1>5, FreedShows, RuntimeIsStorage DEF store
<1>7. \A l \in RuntimeKey : latest'[l] = IF l = k THEN nvs[k] ELSE latest[l]
  BY <1>2, RuntimeIsStorage DEF DiscardValue, Known, Base, TypeOK, DataOK
<1>8. \A l \in RuntimeKey : Erased(task[t], l) => l = k
  BY <1>2 DEF Erased
<1>9. ReadsOK'
  BY <1>1, <1>6, <1>7, <1>8 DEF Known, CommitterInv, ReadsOK
<1>10. WritersOK'
  BY <1>1, <1>3 DEF Known, CommitterInv, WritersOK, Others
<1>11. CommitOK'
  BY <1>1, <1>3 DEF CommitOK, CommitAt
<1>12. QED
  BY <1>6, <1>9, <1>10, <1>11 DEF CommitterInv

LEMMA DiscardCatalogKeeps ==
  ASSUME Known, NEW t \in Task, DiscardCatalog(t)
  PROVE  CommitterInv'
<1>0. TasksOK /\ task[t] \in TaskRecord /\ task[t].pc = "uncat"
  BY DEF Known, Base, TypeOK, TasksOK, DiscardCatalog, At
<1>1. t = LoopTask
  BY <1>0, CommitterOnly DEF WritePc
<1>2. task'[t].pc = "rollback" \/ task'[t].pc = "idle"
  <2>1. Return(t) => task'[t].pc = "idle"
    BY <1>0, IdleMoves DEF Return, TasksOK
  <2>2. QED
    BY <1>0, <2>1, GotoRecord DEF DiscardCatalog
<1>3. UNCHANGED <<pendingSeq, store, latest>> /\ Others(t)
  BY <1>0, ControlOthers DEF DiscardCatalog, Discard
<1> DEFINE S == {i \in Slot : IsFirst(i, CatalogKey)}
<1>4. pending' = [i \in Slot |-> IF i \in S THEN FreeSlot ELSE pending[i]]
  BY DEF DiscardCatalog, Discard
<1>5. \A i \in Slot : i \in S => pending[i].key = CatalogKey
  BY DEF IsFirst
<1> HIDE DEF S
<1>6. NumbersOK' /\ \A l \in RuntimeKey : Visible(l)' = Visible(l)
  BY <1>3, <1>4, <1>5, FreedShows, RuntimeIsStorage DEF store
<1>7. \A l \in RuntimeKey : ~Erased(task[t], l)
  BY <1>0, FreshPc DEF CommitPc
<1>8. ReadsOK'
  BY <1>1, <1>3, <1>6, <1>7 DEF Known, CommitterInv, ReadsOK
<1>9. WritersOK'
  BY <1>1, <1>3 DEF Known, CommitterInv, WritersOK, Others
<1>10. CommitOK'
  BY <1>1, <1>2 DEF CommitOK, CommitAt
<1>11. QED
  BY <1>6, <1>8, <1>9, <1>10 DEF CommitterInv

(***************************************************************************)
(* The steps of a commit.                                                  *)
(***************************************************************************)
\* A step of a commit that changes no data.
LEMMA CommitControl ==
  ASSUME Known, Others(LoopTask), UNCHANGED <<buffer, store, latest>>,
         \A k \in RuntimeKey : Erased(task[LoopTask], k) => Erased(task'[LoopTask], k),
         CommitOK'
  PROVE  CommitterInv'
<1>1. WritersOK'
  BY DEF Known, CommitterInv, WritersOK, Others
<1>2. \A k : Visible(k)' = Visible(k)
  BY SameRead DEF buffer, store
<1>3. ReadsOK'
  BY <1>2 DEF Known, CommitterInv, ReadsOK
<1>4. NumbersOK'
  BY DEF Known, CommitterInv, NumbersOK, buffer, store, Used
<1>5. QED
  BY <1>1, <1>3, <1>4 DEF CommitterInv

\* Every way a commit ends.
LEMMA CommitEnds ==
  ASSUME Known, NEW t \in Task, task[t].pc \in CommitPc, UNCHANGED <<buffer, store, latest>>,
         CommitFailed(t) \/ CommitDone(t)
  PROVE  CommitterInv'
<1>0. TasksOK
  BY DEF Known, Base, TypeOK
<1>1. t = LoopTask
  BY CommitterOnly DEF WritePc, CommitPc
<1>2. Others(t)
  BY <1>0, ControlOthers
<1>3. MovesOn(task[t], task'[t])
  BY <1>0, CommitFailedMoves, CommitDoneMoves
<1>4. QED
  BY <1>1, <1>2, <1>3, CommitterMoves

LEMMA CloneKeeps ==
  ASSUME Known, NEW t \in Task, Clone(t)
  PROVE  CommitterInv'
<1>0. TasksOK /\ task[t] \in TaskRecord /\ task[t].pc = "clone"
  BY DEF Known, Base, TypeOK, TasksOK, Clone, At
<1>1. UNCHANGED <<buffer, store, latest>>
  BY DEF Clone
<1>2. CASE CommitFailed(t)
  BY <1>0, <1>1, <1>2, CommitEnds DEF CommitPc
<1>3. CASE ~CommitFailed(t)
  <2>1. t = LoopTask
    BY <1>0, CommitterOnly DEF WritePc
  <2>2. /\ task'[t].pc \in {"reset", "apply"}
        /\ task'[t].op = task[t].op /\ task'[t].key = task[t].key
        /\ task'[t].cont = task[t].cont
        /\ task'[t].snap = pending /\ task'[t].todo = Used(pending)
        /\ Others(t)
    <3>1. PICK l \in {"reset", "apply"} :
            task' = [task EXCEPT ![t].pc = l, ![t].snap = pending, ![t].todo = Used(pending)]
      BY <1>3 DEF Clone
    <3>2. QED
      BY <1>0, <3>1 DEF TasksOK, TaskRecord, Others
  <2>3. \A k : Erased(task[t], k) => Erased(task'[t], k)
    BY <1>0, <2>2 DEF Erased, CommitPc
  <2>4. \A i \in Used(pending) : pending[i].seq \in Nat /\ nvs[pending[i].key].seq <= pending[i].seq
    BY DEF Known, Base, CommitterInv, NumbersOK, TypeOK, DataOK, SlotRecord, Used
  <2>5. CommitAt(task[t])' 
    <3>1. PICK q : q = task'[t]
      OBVIOUS
    <3>2. q.pc \in {"reset", "apply"} /\ q.snap = pending /\ q.todo = Used(pending)
      BY <2>2, <3>1
    <3>3. pending' = pending /\ nvs' = nvs
      BY <1>1 DEF buffer, store
    <3>4. CommitAt(q)'
      BY <2>4, <3>2, <3>3 DEF CommitAt
    <3>5. QED
      BY <3>1, <3>4 DEF CommitAt
  <2>6. QED
    BY <1>1, <2>1, <2>2, <2>3, <2>5, CommitControl DEF CommitOK
<1>4. QED
  BY <1>2, <1>3

\* One write reaches NVS.
LEMMA ApplyKeeps ==
  ASSUME Known, NEW t \in Task, Apply(t)
  PROVE  /\ CommitterInv'
         /\ \A k \in StorageKey : nvs'[k].seq >= nvs[k].seq /\ Visible(k)' = Visible(k)
<1>0. /\ TasksOK /\ task[t] \in TaskRecord /\ task[t].pc = "apply"
      /\ nvs \in [StorageKey -> Entry]
  BY DEF Known, Base, TypeOK, DataOK, TasksOK, Apply, At
<1>1. t = LoopTask
  BY <1>0, CommitterOnly DEF WritePc
<1>2. CASE ~ready
  <2>1. CommitterInv' /\ UNCHANGED <<pending, nvs>>
    BY <1>0, <1>2, CommitEnds DEF CommitPc, Apply, store, buffer
  <2>2. QED
    BY <1>0, <2>1, SameRead DEF Entry
<1>3. CASE ready
  <2> DEFINE r == task[t]
             p(i) == r.snap[i]
  <2>1. PICK i \in r.todo :
          /\ nvs' = [nvs EXCEPT ![p(i).key] = Written(p(i))]
          /\ task' = [task EXCEPT ![t].todo = @ \ {i},
                                  ![t].pc = IF task[t].todo = {i} THEN "flush" ELSE "apply"]
    BY <1>3 DEF Apply, Written
  <2>2. UNCHANGED <<pending, pendingSeq, durable, latest>>
    BY DEF Apply, buffer
  <2>3. /\ r.todo \subseteq Used(r.snap) /\ r.snap \in [Slot -> SlotRecord]
        /\ Used(r.snap) \subseteq Slot
    BY <1>0 DEF TasksOK, TaskOK, CallOK, TaskRecord, Used
  <2>4. CommitAt(r)
    BY <1>1 DEF Known, CommitterInv, CommitOK
  <2> DEFINE k == p(i).key
  <2>5. i \in Slot /\ k \in StorageKey /\ p(i) \in SlotRecord
    BY <2>3 DEF Used, SlotRecord
  <2>6. pending[i].key = k /\ p(i).seq <= pending[i].seq /\ nvs[k].seq <= p(i).seq
    BY <1>0, <2>3, <2>4 DEF CommitAt
  <2>7. \A l \in StorageKey : nvs'[l] = IF l = k THEN Written(p(i)) ELSE nvs[l]
    BY <1>0, <2>1, <2>5
  <2>8. Written(p(i)).seq = p(i).seq /\ p(i).seq \in Nat
    BY <2>5 DEF Written, SlotRecord
  <2>9. /\ task'[t].pc = IF r.todo = {i} THEN "flush" ELSE "apply"
        /\ task'[t].op = r.op /\ task'[t].key = r.key /\ task'[t].cont = r.cont
        /\ task'[t].snap = r.snap /\ task'[t].todo = r.todo \ {i}
        /\ Others(t)
    BY <1>0, <2>1 DEF TasksOK, TaskRecord, Others
  <2>10. OneKey(pending) /\ OneKey(pending') /\ OneKey(r.snap)
    BY DEF Known, Base, OneSlotPerKey, OneKey
  <2> HIDE DEF r, k
  <2>11. \A l \in StorageKey : Visible(l)' = Visible(l)
    <3>1. ASSUME NEW l \in StorageKey, l = k
          PROVE  Visible(l)' = Visible(l)
      BY <2>2, <2>5, <2>6, <2>10, <3>1, SeenStaged, VisibleIsSeen, RuntimeIsStorage
    <3>2. ASSUME NEW l \in StorageKey, l # k
          PROVE  Visible(l)' = Visible(l)
      <4>1. nvs'[l] = nvs[l] /\ pending' = pending
        BY <2>2, <2>7, <3>2
      <4>2. QED
        BY <4>1, VisibleIsSeen DEF Seen
    <3>3. QED
      BY <3>1, <3>2
  <2>12. \A l : Erased(r, l) => Erased(task'[t], l)
    BY <1>0, <2>9 DEF Erased, CommitPc, r
  <2>13. ReadsOK'
    BY <1>1, <2>2, <2>11, <2>12, RuntimeIsStorage DEF Known, CommitterInv, ReadsOK, r
  <2>14. NumbersOK'
    <3>1. p(i).seq <= pendingSeq
      BY <2>5 DEF Known, Base, SeqInv, r
    <3>2. \A l \in StorageKey : nvs'[l].seq <= pendingSeq'
      BY <2>2, <2>7, <2>8, <3>1 DEF Known, CommitterInv, NumbersOK
    <3>3. ASSUME NEW j \in Used(pending)
          PROVE  nvs'[pending[j].key].seq <= pending[j].seq
      <4>1. j \in Slot /\ pending[j].key \in StorageKey
        BY DEF Used, Known, Base, TypeOK, DataOK, SlotRecord
      <4>2. CASE pending[j].key = k
        <5>1. j = i
          BY <2>5, <2>6, <2>10, <4>1, <4>2, RuntimeIsStorage DEF OneKey
        <5>2. QED
          BY <2>6, <2>7, <2>8, <4>1, <4>2, <5>1
      <4>3. CASE pending[j].key # k
        BY <2>7, <4>1, <4>3 DEF Known, CommitterInv, NumbersOK
      <4>4. QED
        BY <4>2, <4>3
    <3>4. QED
      BY <2>2, <3>2, <3>3 DEF NumbersOK
  <2>15. \A j \in Used(r.snap) : j # i => nvs'[p(j).key] = nvs[p(j).key]
    <3> SUFFICES ASSUME NEW j \in Used(r.snap), j # i
                 PROVE  nvs'[p(j).key] = nvs[p(j).key]
      OBVIOUS
    <3>1. j \in Slot /\ p(j).key # NoKey /\ p(j).key \in StorageKey
      BY <2>3 DEF Used, SlotRecord
    <3>2. p(j).key # k
      BY <2>5, <2>10, <3>1 DEF OneKey, k
    <3>3. QED
      BY <2>7, <3>1, <3>2
  <2>16. CommitOK'
    <3>1. PICK q : q = task'[t]
      OBVIOUS
    <3>2. /\ q.pc = IF r.todo = {i} THEN "flush" ELSE "apply"
          /\ q.snap = r.snap /\ q.todo = r.todo \ {i}
      BY <2>9, <3>1
    <3>3. ASSUME NEW j \in Used(r.snap)
          PROVE  /\ pending'[j].key = p(j).key /\ p(j).seq <= pending'[j].seq
                 /\ (q.pc = "apply" /\ j \in q.todo) \/ nvs'[p(j).key] = Written(p(j))
      <4>1. /\ pending[j].key = p(j).key /\ p(j).seq <= pending[j].seq
            /\ j \in r.todo \/ nvs[p(j).key] = Written(p(j))
        BY <1>0, <2>4 DEF CommitAt, r
      <4>2. CASE j = i
        BY <2>2, <2>5, <2>7, <4>1, <4>2 DEF k
      <4>3. CASE j # i
        BY <2>2, <2>15, <3>2, <4>1, <4>3
      <4>4. QED
        BY <4>2, <4>3
    <3>4. ASSUME q.pc = "apply", NEW j \in q.todo
          PROVE  nvs'[p(j).key].seq <= p(j).seq
      <4>1. j \in r.todo /\ j # i /\ j \in Used(r.snap)
        BY <2>3, <3>2
      <4>2. nvs[p(j).key].seq <= p(j).seq
        BY <1>0, <2>4, <4>1 DEF CommitAt, r
      <4>3. QED
        BY <2>15, <4>1, <4>2
    <3>5. q.pc # "clear"
      BY <3>2
    <3>6. CommitAt(q)'
      BY <3>2, <3>3, <3>4, <3>5 DEF CommitAt
    <3>7. QED
      BY <1>1, <3>1, <3>6 DEF CommitOK, CommitAt
  <2>17. WritersOK'
    BY <1>1, <2>9 DEF Known, CommitterInv, WritersOK, Others
  <2>18. \A l \in StorageKey : nvs'[l].seq >= nvs[l].seq
    BY <1>0, <2>6, <2>7, <2>8 DEF Entry
  <2>19. QED
    BY <2>11, <2>13, <2>14, <2>16, <2>17, <2>18 DEF CommitterInv
<1>4. QED
  BY <1>2, <1>3 DEF Apply

LEMMA FlushKeeps ==
  ASSUME Known, NEW t \in Task, Flush(t)
  PROVE  CommitterInv'
<1>0. TasksOK /\ task[t] \in TaskRecord /\ task[t].pc = "flush"
  BY DEF Known, Base, TypeOK, TasksOK, Flush, At
<1>1. t = LoopTask
  BY <1>0, CommitterOnly DEF WritePc
<1>2. CASE CommitFailed(t) /\ UNCHANGED durable
  BY <1>0, <1>2, CommitEnds DEF CommitPc, Flush, store
<1>3. CASE durable' = nvs /\ Goto(t, "clear")
  <2>1. UNCHANGED <<buffer, nvs, latest>> /\ Others(t)
    BY <1>0, <1>3, ControlOthers DEF Flush
  <2>2. /\ task'[t].pc = "clear" /\ task'[t].op = task[t].op /\ task'[t].key = task[t].key
        /\ task'[t].cont = task[t].cont /\ task'[t].snap = task[t].snap
    BY <1>0, <1>3, GotoRecord
  <2>3. ReadsOK'
    <3>1. \A k : Visible(k)' = Visible(k)
      BY <2>1, SameRead DEF buffer
    <3>2. \A k : Erased(task[t], k) => Erased(task'[t], k)
      BY <1>0, <2>2 DEF Erased, CommitPc
    <3>3. QED
      BY <1>1, <2>1, <3>1, <3>2 DEF Known, CommitterInv, ReadsOK
  <2>4. NumbersOK'
    BY <2>1 DEF Known, CommitterInv, NumbersOK, buffer, Used
  <2>5. WritersOK'
    BY <1>1, <2>1 DEF Known, CommitterInv, WritersOK, Others
  <2>6. CommitOK'
    <3>1. PICK q : q = task'[t]
      OBVIOUS
    <3>2. q.pc = "clear" /\ q.snap = task[t].snap /\ CommitAt(task[t])
      BY <1>1, <2>2, <3>1 DEF Known, CommitterInv, CommitOK
    <3>3. pending' = pending /\ nvs' = nvs /\ durable' = nvs
      BY <1>3, <2>1 DEF buffer
    <3>4. CommitAt(q)'
      BY <1>0, <3>2, <3>3 DEF CommitAt
    <3>5. QED
      BY <1>1, <3>1, <3>4 DEF CommitOK, CommitAt
  <2>7. QED
    BY <2>3, <2>4, <2>5, <2>6 DEF CommitterInv
<1>4. QED
  BY <1>2, <1>3 DEF Flush

\* What a clear frees is what NVS holds, durably.
LEMMA CommittedIsDurable ==
  ASSUME Known, NEW t \in Task, At(t, "clear"), NEW i \in Slot,
         pending[i].key # NoKey, Committed(t, pending[i])
  PROVE  /\ nvs[pending[i].key] = Written(pending[i])
         /\ durable[pending[i].key] = Written(pending[i])
<1>0. task[t].pc = "clear"
  BY DEF At
<1>1. t = LoopTask
  BY <1>0, CommitterOnly DEF WritePc
<1>2. PICK j \in Slot : task[t].snap[j].key = pending[i].key /\ task[t].snap[j].seq = pending[i].seq
  BY DEF Committed
<1>3. task[t].snap[j] = pending[i]
  BY <1>2 DEF Known, Base, SeqInv, SeqNamesWrite
<1>4. j \in Used(task[t].snap)
  BY <1>2 DEF Used
<1>5. QED
  BY <1>0, <1>1, <1>3, <1>4 DEF Known, CommitterInv, CommitOK, CommitAt

LEMMA ClearKeeps ==
  ASSUME Known, NEW t \in Task, Clear(t)
  PROVE  CommitterInv' /\ \A l \in StorageKey : Visible(l)' = Visible(l)
<1>0. TasksOK /\ task[t] \in TaskRecord /\ task[t].pc = "clear"
  BY DEF Known, Base, TypeOK, TasksOK, Clear, At
<1>1. t = LoopTask
  BY <1>0, CommitterOnly DEF WritePc
<1>2. UNCHANGED <<pendingSeq, store, latest>> /\ Others(t)
  BY <1>0, ControlOthers DEF Clear
<1>3. /\ task'[t].pc = "count" /\ task'[t].op = task[t].op /\ task'[t].key = task[t].key
      /\ task'[t].cont = task[t].cont
  BY <1>0, GotoRecord DEF Clear
<1> DEFINE S == {i \in Slot : Committed(t, pending[i])}
<1>4. pending' = [i \in Slot |-> IF i \in S THEN FreeSlot ELSE pending[i]]
  BY DEF Clear
<1>5. \A i \in Slot : i \in S /\ pending[i].key # NoKey => nvs[pending[i].key] = Written(pending[i])
  BY <1>0, CommittedIsDurable DEF At
<1> HIDE DEF S
<1>6. NumbersOK'
  BY <1>2, <1>4, FreedShows DEF store
<1>7. \A l \in StorageKey : Visible(l)' = Visible(l)
  <2> SUFFICES ASSUME NEW l \in StorageKey PROVE Visible(l)' = Visible(l)
    OBVIOUS
  <2>1. CASE \A i \in Slot : i \in S => pending[i].key # l
    BY <1>2, <1>4, <2>1, FreedShows DEF store
  <2>2. CASE \E i \in Slot : i \in S /\ pending[i].key = l
    <3>1. PICK i \in Slot : i \in S /\ pending[i].key = l
      BY <2>2
    <3>2. OneKey(pending) /\ l # NoKey
      BY RuntimeIsStorage DEF Known, Base, OneSlotPerKey
    <3>3. \A j \in Slot : pending[j].key = l => j \in S
      BY <3>1, <3>2 DEF OneKey
    <3>4. Visible(l)' = nvs[l]
      BY <1>2, <1>4, <3>3, FreedShows DEF store
    <3>5. Visible(l) = Written(pending[i])
      BY <3>1, <3>2, SeenStaged, VisibleIsSeen
    <3>6. QED
      BY <1>5, <3>1, <3>2, <3>4, <3>5
  <2>3. QED
    BY <2>1, <2>2
<1>8. \A k : Erased(task[t], k) => Erased(task'[t], k)
  BY <1>0, <1>3 DEF Erased, CommitPc
<1>9. ReadsOK'
  BY <1>1, <1>2, <1>7, <1>8, RuntimeIsStorage DEF Known, CommitterInv, ReadsOK
<1>10. WritersOK'
  BY <1>1, <1>2 DEF Known, CommitterInv, WritersOK, Others
<1>11. CommitOK'
  BY <1>1, <1>3 DEF CommitOK, CommitAt
<1>12. QED
  BY <1>6, <1>7, <1>9, <1>10, <1>11 DEF CommitterInv

LEMMA CommitKeeps ==
  ASSUME Known, NEW t \in Task, CommitStep(t) \/ StoreFault(t)
  PROVE  CommitterInv'
<1>0. TasksOK
  BY DEF Known, Base, TypeOK
<1>1. CASE CountRemaining(t)
  <2>1. task[t].pc = "count" /\ UNCHANGED <<buffer, store, latest>>
    BY <1>1 DEF CountRemaining, At
  <2>2. t = LoopTask
    BY <2>1, CommitterOnly DEF WritePc
  <2>3. Others(t)
    BY <1>0, <1>1, ControlOthers DEF CountRemaining
  <2>4. /\ task'[t].pc \in {"reset", "rearm"} /\ task'[t].op = task[t].op
        /\ task'[t].key = task[t].key /\ task'[t].cont = task[t].cont
    BY <1>0, <1>1, GotoRecord DEF CountRemaining
  <2>5. \A k : Erased(task[t], k) => Erased(task'[t], k)
    BY <2>1, <2>4 DEF Erased, CommitPc
  <2>6. CommitOK'
    BY <2>2, <2>4 DEF CommitOK, CommitAt
  <2>7. QED
    BY <2>1, <2>2, <2>3, <2>5, <2>6, CommitControl
<1>2. CASE ResetWindow(t) \/ RearmWindow(t) \/ StoreFault(t)
  BY <1>2, CommitEnds DEF ResetWindow, RearmWindow, StoreFault, At, CommitPc
<1>3. QED
  BY <1>1, <1>2, CloneKeeps, ApplyKeeps, FlushKeeps, ClearKeeps DEF CommitStep

LEMMA StepKeeps ==
  ASSUME SingleCommitter, Known, NEW t \in Task, Step(t) \/ StoreFault(t)
  PROVE  CommitterInv'
<1>1. CASE CommitStep(t) \/ StoreFault(t)
  BY <1>1, CommitKeeps
<1>2. CASE WriteStep(t)
  <2>1. CASE StageValue(t)
    BY <2>1, StageValueKeeps
  <2>2. CASE Lookup(t) \/ ReadNvs(t) \/ Resolve(t) \/ Schedule(t)
    BY <2>2, CommitterWrites, WriterWrites
  <2>3. QED
    BY <1>2, <2>1, <2>2 DEF WriteStep
<1>3. CASE CatalogStep(t)
  BY <1>3, CatalogControl, StageCatalogKeeps, StageEraseKeeps, RemoveKeeps,
     DiscardValueKeeps, DiscardCatalogKeeps DEF CatalogStep
<1>4. ~FormatStep(t)
  BY DEF FormatStep, FormatBuffer, FormatRegistry, FormatWindow, FormatStore, At,
         Known, Base, NoFormat, FormatPc
<1>5. QED
  BY <1>1, <1>2, <1>3, <1>4 DEF Step

LEMMA CrashKeeps ==
  ASSUME Base, Base', Crash
  PROVE  CommitterInv'
<1>1. \A t \in Task : task'[t] = Idle
  BY DEF Crash
<1>2. pending' = EmptyBuffer /\ pendingSeq' = 0 /\ \A i \in Slot : EmptyBuffer[i].key = NoKey
  BY DEF Crash, EmptyBuffer, FreeSlot
<1>3. nvs' = latest' /\ \A k \in StorageKey : nvs'[k].seq = 0
  BY DEF Crash
<1>4. \A k \in RuntimeKey : Visible(k)' = latest'[k]
  BY <1>2, <1>3, RuntimeIsStorage, SeenStored, VisibleIsSeen
<1>5. WritersOK'
  BY <1>1, IdleWrites DEF WritersOK
<1>6. ReadsOK'
  BY <1>4 DEF ReadsOK
<1>7. NumbersOK'
  BY <1>2, <1>3 DEF NumbersOK, Used
<1>8. CommitOK'
  BY <1>1, IdleMoves DEF CommitOK, CommitAt
<1>9. QED
  BY <1>5, <1>6, <1>7, <1>8 DEF CommitterInv

LEMMA CommitterInit == Init => CommitterInv
<1> SUFFICES ASSUME Init PROVE CommitterInv
  OBVIOUS
<1>1. \A t \in Task : task[t] = Idle
  BY DEF Init
<1>2. pending = EmptyBuffer /\ pendingSeq = 0 /\ \A i \in Slot : EmptyBuffer[i].key = NoKey
  BY DEF Init, EmptyBuffer, FreeSlot
<1>3. nvs = latest /\ \A k \in StorageKey : nvs[k].seq = 0
  BY DEF Init, Blank, NoEntry
<1>4. \A k \in RuntimeKey : Visible(k) = latest[k]
  BY <1>2, <1>3, RuntimeIsStorage, SeenStored, VisibleIsSeen
<1>5. WritersOK
  BY <1>1, IdleWrites DEF WritersOK
<1>6. ReadsOK
  BY <1>4 DEF ReadsOK
<1>7. NumbersOK
  BY <1>2, <1>3 DEF NumbersOK, Used
<1>8. CommitOK
  BY <1>1, IdleMoves DEF CommitOK, CommitAt
<1>9. QED
  BY <1>5, <1>6, <1>7, <1>8 DEF CommitterInv

LEMMA CommitterStep ==
  ASSUME SingleCommitter, Base, Base', CommitterInv, [Next]_vars
  PROVE  CommitterInv'
<1>0. Known
  BY DEF Known
<1>1. CASE \E t \in Task : Call(t) \/ Format(t) \/ LoopDue(t)
  BY <1>0, <1>1, CallKeeps
<1>2. CASE \E t \in Task : Step(t) \/ StoreFault(t)
  BY <1>0, <1>2, StepKeeps
<1>3. CASE TimePasses \/ ChangeDelay \/ UNCHANGED vars
  <2>1. UNCHANGED <<buffer, store, latest, task>>
    BY <1>3 DEF TimePasses, ChangeDelay, vars
  <2>2. \A k : Visible(k)' = Visible(k)
    BY <2>1, SameRead DEF buffer, store
  <2>3. ReadsOK'
    BY <2>1, <2>2 DEF CommitterInv, ReadsOK
  <2>4. NumbersOK'
    BY <2>1 DEF CommitterInv, NumbersOK, Used, buffer, store
  <2>5. WritersOK' /\ CommitOK'
    BY <2>1 DEF CommitterInv, WritersOK, CommitOK, CommitAt, buffer, store
  <2>6. QED
    BY <2>3, <2>4, <2>5 DEF CommitterInv
<1>4. CASE Crash
  BY <1>4, CrashKeeps
<1>5. QED
  BY <1>1, <1>2, <1>3, <1>4 DEF Next, Rest

LEMMA CommitterInvariant ==
  ASSUME SingleCommitter
  PROVE  Spec => [](Base /\ CommitterInv)
<1>1. \A t \in Task : "format" \notin Calls[t]
  BY DEF SingleCommitter
<1>2. Spec => [](SeqInv /\ NoFormat)
  BY <1>1, SeqInvariant
<1>3. Spec => []Base
  BY <1>2, TypeCorrect, OneSlot, PTL DEF Base
<1>4. Base /\ Base' /\ CommitterInv /\ [Next]_vars => CommitterInv'
  BY CommitterStep
<1>5. QED
  BY <1>3, <1>4, CommitterInit, PTL DEF Spec

\* ReadsLatestWrite holds when one task commits, whatever other tasks set,
\* increment and decrement meanwhile, and whatever fails or restarts.
THEOREM ReadsSeeLatest ==
  ASSUME SingleCommitter
  PROVE  Spec => []ReadsLatestWrite
<1>1. Base /\ CommitterInv => ReadsLatestWrite
  BY DEF Base, TypeOK, DataOK, CommitterInv, ReadsOK, ReadsLatestWrite, Deleting, Erased
<1>2. QED
  BY <1>1, CommitterInvariant, PTL

\* The steps of one task leave the records of the others alone.
LEMMA OthersStay ==
  ASSUME TasksOK, NEW t \in Task,
         Call(t) \/ Format(t) \/ LoopDue(t) \/ Step(t) \/ StoreFault(t)
  PROVE  Others(t)
<1>0. \A r : task' = [task EXCEPT ![t] = r] => Others(t)
  BY DEF Others, TasksOK
<1>1. CASE Call(t) \/ Format(t) \/ LoopDue(t)
  BY <1>1 DEF Call, Set, Erase, Increment, Decrement, Create, Delete, Format, Begin, LoopDue,
              Others, TasksOK
<1>2. CASE WriteStep(t)
  <2>1. \A c : UseValue(t, c) => Others(t)
    BY DEF UseValue, Return, Resolved, Others, TasksOK
  <2>2. QED
    BY <1>2, <2>1, ControlOthers
       DEF WriteStep, Lookup, ReadNvs, Resolve, StageValue, Schedule
<1>3. CASE Clone(t)
  BY <1>3, ControlOthers DEF Clone, Others, TasksOK
<1>4. CASE Apply(t)
  <2>1. CASE CommitFailed(t)
    BY <2>1, ControlOthers
  <2>2. CASE \E i, l : task' = [task EXCEPT ![t].todo = @ \ {i}, ![t].pc = l]
    BY <2>2 DEF Others, TasksOK
  <2>3. QED
    BY <1>4, <2>1, <2>2 DEF Apply
<1>5. CASE Flush(t) \/ Clear(t) \/ CountRemaining(t) \/ ResetWindow(t) \/ RearmWindow(t)
           \/ StoreFault(t)
  BY <1>5, ControlOthers DEF Flush, Clear, CountRemaining, ResetWindow, RearmWindow, StoreFault
<1>6. CASE BuildCatalog(t)
  BY <1>6, ControlOthers DEF BuildCatalog, Others, TasksOK
<1>7. CASE CatalogStep(t) /\ ~BuildCatalog(t)
  BY <1>7, ControlOthers
     DEF CatalogStep, Insert, StageCatalog, Rollback, FlushBeforeDelete,
         StageErase, Remove, DiscardValue, DiscardCatalog
<1>8. CASE FormatStep(t)
  BY <1>8, ControlOthers
     DEF FormatStep, FormatBuffer, FormatRegistry, FormatWindow, FormatStore
<1>9. QED
  BY <1>1, <1>2, <1>3, <1>4, <1>5, <1>6, <1>7, <1>8 DEF Step, CommitStep

\* ClearsOnlyDurable, under the same condition.
THEOREM ClearsDurable ==
  ASSUME SingleCommitter
  PROVE  Spec => ClearsOnlyDurable
<1> DEFINE A == \A t \in Task : At(t, "clear") /\ ~At(t, "clear")' /\ crashes' = crashes =>
                  \A i \in Slot : pending[i].key # NoKey /\ pending'[i] = FreeSlot =>
                    durable[pending[i].key] = [content |-> pending[i].content,
                                               seq |-> pending[i].seq]
<1>1. Base /\ CommitterInv /\ Base' /\ [Next]_vars => [A]_vars
  <2> SUFFICES ASSUME Base, CommitterInv, Base', Next,
                      NEW t \in Task, At(t, "clear"), ~At(t, "clear")', crashes' = crashes
               PROVE  \A i \in Slot : pending[i].key # NoKey /\ pending'[i] = FreeSlot =>
                        durable[pending[i].key] = [content |-> pending[i].content,
                                                   seq |-> pending[i].seq]
    BY DEF vars
  <2>1. Known /\ TasksOK /\ crashes \in Nat
    BY DEF Known, Base, TypeOK, DataOK
  <2>2. ~Crash /\ task' # task
    BY <2>1 DEF Crash, At
  <2>3. PICK u \in Task : Call(u) \/ Format(u) \/ LoopDue(u) \/ Step(u) \/ StoreFault(u)
    BY <2>2 DEF Next, Rest, TimePasses, ChangeDelay, vars
  <2>4. u = t
    BY <2>1, <2>3, OthersStay DEF Others, At
  <2>5. Clear(t)
    <3>1. task[t].pc = "clear"
      BY DEF At
    <3>2. ~Call(t) /\ ~Format(t) /\ ~LoopDue(t) /\ ~StoreFault(t)
      BY <3>1 DEF Call, Set, Erase, Increment, Decrement, Create, Delete, Format, Begin,
                  LoopDue, StoreFault, At
    <3>3. ~WriteStep(t) /\ ~FormatStep(t)
      BY <3>1 DEF WriteStep, Lookup, ReadNvs, Resolve, StageValue, Schedule,
                  FormatStep, FormatBuffer, FormatRegistry, FormatWindow, FormatStore, At
    <3>4. ~CatalogStep(t)
      BY <3>1 DEF CatalogStep, Insert, BuildCatalog, StageCatalog, Rollback, FlushBeforeDelete,
                  StageErase, Remove, DiscardValue, DiscardCatalog, At
    <3>5. CommitStep(t)
      BY <2>3, <2>4, <3>2, <3>3, <3>4 DEF Step
    <3>6. QED
      BY <3>1, <3>5 DEF CommitStep, Clone, Apply, Flush, CountRemaining, ResetWindow,
                        RearmWindow, At
  <2>6. SUFFICES ASSUME NEW i \in Slot, pending[i].key # NoKey, pending'[i] = FreeSlot
                 PROVE  durable[pending[i].key] = Written(pending[i])
    BY DEF Written
  <2>7. Committed(t, pending[i])
    BY <2>5, <2>6 DEF Clear, FreeSlot
  <2>8. QED
    BY <2>1, <2>6, <2>7, CommittedIsDurable
<1> HIDE DEF A
<1>2. Spec => [][A]_vars
  BY <1>1, CommitterInvariant, PTL DEF Spec
<1>3. QED
  BY <1>2, PTL DEF ClearsOnlyDurable, A

\* NvsNeverGoesBack, under the same condition.
THEOREM NvsGoesForward ==
  ASSUME SingleCommitter
  PROVE  Spec => NvsNeverGoesBack
<1> DEFINE A == crashes' = crashes => \A k \in StorageKey : nvs'[k].seq >= nvs[k].seq
<1>1. Base /\ CommitterInv /\ Base' /\ [Next]_vars => [A]_vars
  <2> SUFFICES ASSUME Base, CommitterInv, Base', Next, crashes' = crashes
               PROVE  \A k \in StorageKey : nvs'[k].seq >= nvs[k].seq
    BY DEF vars
  <2>1. Known /\ crashes \in Nat /\ nvs \in [StorageKey -> Entry]
    BY DEF Known, Base, TypeOK, DataOK
  <2>2. ~Crash
    BY <2>1 DEF Crash
  <2>3. CASE nvs' = nvs
    BY <2>1, <2>3 DEF Entry
  <2>4. CASE nvs' # nvs
    <3>1. PICK t \in Task : Call(t) \/ Format(t) \/ LoopDue(t) \/ Step(t) \/ StoreFault(t)
      BY <2>2, <2>4 DEF Next, Rest, TimePasses, ChangeDelay, vars, store
    <3>2. ~Call(t) /\ ~Format(t) /\ ~LoopDue(t) /\ ~StoreFault(t)
      BY <2>4 DEF Call, Set, Erase, Increment, Decrement, Create, Delete, Format, Begin,
                  LoopDue, StoreFault, store
    <3>3. ~WriteStep(t) /\ ~CatalogStep(t)
      BY <2>4 DEF WriteStep, Lookup, ReadNvs, Resolve, StageValue, Schedule,
                  CatalogStep, Insert, BuildCatalog, StageCatalog, Rollback, FlushBeforeDelete,
                  StageErase, Remove, DiscardValue, DiscardCatalog, store
    <3>4. ~FormatStep(t)
      BY DEF FormatStep, FormatBuffer, FormatRegistry, FormatWindow, FormatStore, At,
             Base, NoFormat, FormatPc
    <3>5. Apply(t)
      BY <2>4, <3>1, <3>2, <3>3, <3>4
         DEF Step, CommitStep, Clone, Flush, Clear, CountRemaining, ResetWindow, RearmWindow, store
    <3>6. QED
      BY <2>1, <3>5, ApplyKeeps
  <2>5. QED
    BY <2>3, <2>4
<1> HIDE DEF A
<1>2. Spec => [][A]_vars
  BY <1>1, CommitterInvariant, PTL DEF Spec
<1>3. QED
  BY <1>2, PTL DEF NvsNeverGoesBack, A

(***************************************************************************)
(* One task makes all calls and NVS does not fail: the buffer, the         *)
(* registry, the window and NVS agree, whatever the task calls (a format   *)
(* included) and whenever it is reset.  HX_STATE_PENDING_MAX is 96 and     *)
(* HX_STATE_RUNTIME_MAX 64 (state.cpp:52,58).                              *)
(***************************************************************************)
OneTask == Task = {LoopTask} /\ MaxFaults = 0 /\ RuntimeMax < PendingMax

Small(S) == IsFiniteSet(S) /\ Cardinality(S) <= RuntimeMax

\* A commit that carries the catalog.
Carries(r)  == r.pc \in {"clone", "apply", "flush", "clear"} /\ r.cont \in {"lookup", "remove"}
SnapPc      == {"apply", "flush", "clear"}
EmptyPc     == {"count", "reset", "remove", "fmtreg", "fmtwin", "fmtnvs"}

\* The key in which the registry and the catalog differ: a create has not
\* staged it yet, a delete has staged or committed its removal.
Missing(r) ==
  IF \/ r.op = "create" /\ r.pc \in {"catalog", "stagecat"}
     \/ r.op = "delete" /\ (r.pc = "remove" \/ (r.pc \in CommitPc /\ r.cont = "remove"))
  THEN {r.key} ELSE {}

\* Where the call is, and what it has found out.
PlaceAt(r) ==
  /\ ready <=> r.pc # "fmtnvs"
  /\ r.pc \notin {"rearm", "rollback", "discard", "uncat"}
  /\ r.op = "create" /\ r.pc # "insert" => r.key \in registry
  /\ r.op = "create" /\ r.pc = "resolve" => r.val = {Initial}
  /\ r.op = "delete" /\ r.pc # "delete" => r.key \in registry
  /\ r.pc \in {"stage", "schedule"} => r.key \in registry
  /\ r.pc = "idle" <=> r.op = "none"
  /\ r.pc \in {"fmtwin", "fmtnvs"} => registry = {}
  /\ r.pc \in FormatPc <=> r.op = "format"

CatalogAt(r) ==
  /\ r.pc \notin {"fmtwin", "fmtnvs"} => Visible(CatalogKey).content = registry \ Missing(r)
  /\ r.pc = "stagecat" => r.val = registry \ (IF r.op = "delete" THEN {r.key} ELSE {})
  /\ Small(registry) /\ Small(nvs[CatalogKey].content) /\ Small(durable[CatalogKey].content)

\* What is staged, and where the window may be closed with it.
StagedAt(r) ==
  /\ \A i \in Used(pending) :
       pending[i].key \in registry \/ (pending[i].key = CatalogKey /\ Carries(r))
  /\ r.pc \in EmptyPc => Used(pending) = {}
  /\ Used(pending) # {} /\ window = "idle" =>
       \/ r.pc \in {"schedule", "clone", "apply", "flush", "clear"}
       \/ r.op = "delete" /\ r.pc \in {"catalog", "stagecat"}

\* A commit has the whole buffer in its snapshot.
SnapAt(r) ==
  /\ r.pc \in SnapPc =>
       /\ r.snap = pending
       /\ \A i \in Used(pending) :
            (r.pc = "apply" /\ i \in r.todo) \/ nvs[pending[i].key] = Written(pending[i])
  /\ r.pc \notin {"apply", "flush"} => durable = nvs

AloneAt(r) == PlaceAt(r) /\ CatalogAt(r) /\ StagedAt(r) /\ SnapAt(r)
AloneInv   == AloneAt(task[LoopTask]) /\ ReadsOK

LEMMA QuietAlone ==
  ASSUME TypeOK, TypeOK', AloneInv, UNCHANGED <<pending, nvs, durable, latest, registry>>,
         NEW q, q = task'[LoopTask], PlaceAt(q)',
         q.pc \notin SnapPc \cup {"fmtwin", "fmtnvs"},
         task[LoopTask].pc \notin {"apply", "flush", "fmtwin", "fmtnvs"},
         Missing(q) = Missing(task[LoopTask]),
         q.pc = "stagecat" => q.val = registry \ (IF q.op = "delete" THEN {q.key} ELSE {}),
         Carries(task[LoopTask]) => Carries(q) \/ Used(pending) = {},
         q.pc \in EmptyPc => Used(pending) = {},
         Used(pending) # {} /\ window' = "idle" =>
           \/ q.pc \in {"schedule", "clone"}
           \/ q.op = "delete" /\ q.pc \in {"catalog", "stagecat"},
         \A k \in RuntimeKey : Erased(task[LoopTask], k) => Erased(q, k)
  PROVE  AloneInv'
<1> DEFINE r == task[LoopTask]
<1>1. \A k : Visible(k)' = Visible(k)
  BY SameRead
<1>2. Used(pending)' = Used(pending)
  BY DEF Used
<1>3. CatalogAt(q)'
  <2>1. Visible(CatalogKey).content = registry \ Missing(r)
    BY DEF AloneInv, AloneAt, CatalogAt
  <2>2. Small(registry)' /\ Small(nvs[CatalogKey].content)' /\ Small(durable[CatalogKey].content)'
    BY DEF AloneInv, AloneAt, CatalogAt, Small
  <2>3. QED
    BY <1>1, <2>1, <2>2 DEF CatalogAt, Missing
<1>4. StagedAt(q)'
  <2>1. \A i \in Used(pending) :
          pending[i].key \in registry \/ (pending[i].key = CatalogKey /\ Carries(r))
    BY DEF AloneInv, AloneAt, StagedAt
  <2>2. QED
    BY <1>2, <2>1 DEF StagedAt, Carries
<1>5. SnapAt(q)'
  BY DEF AloneInv, AloneAt, SnapAt, SnapPc
<1>6. ReadsOK'
  BY <1>1 DEF AloneInv, ReadsOK
<1>7. QED
  BY <1>3, <1>4, <1>5, <1>6 DEF AloneInv, AloneAt

\* Where nothing is staged for the catalog, and a call that ends or begins there.
Plain == {"idle", "lookup", "nvsread", "resolve", "stage", "schedule", "insert", "delete", "erase",
          "format"}

LEMMA PlainIsPlain ==
  ASSUME NEW r, r.pc \in Plain
  PROVE  /\ Missing(r) = {} /\ ~Carries(r) /\ r.pc \notin EmptyPc /\ r.pc \notin SnapPc
         /\ \A k : ~Erased(r, k)
BY DEF Plain, Missing, Carries, EmptyPc, SnapPc, Erased, CommitPc

\* A call that moves between such places, or begins a commit that carries no catalog.
LEMMA PlainAlone ==
  ASSUME TypeOK, TypeOK', AloneInv, UNCHANGED <<pending, nvs, durable, latest, registry>>,
         NEW q, q = task'[LoopTask], PlaceAt(q)', task[LoopTask].pc \in Plain,
         q.pc \in Plain \/ (q.pc = "clone" /\ q.cont \notin {"lookup", "remove"}),
         window' # "idle" \/ (window' = window /\ task[LoopTask].pc # "schedule")
           \/ q.pc \in {"schedule", "clone"}
  PROVE  AloneInv'
<1> DEFINE r == task[LoopTask]
<1>1. Missing(r) = {} /\ ~Carries(r) /\ \A k : ~Erased(r, k)
  BY PlainIsPlain
<1>2. Missing(q) = {} /\ q.pc \notin EmptyPc /\ q.pc \notin SnapPc
  <2>1. CASE q.pc \in Plain
    BY <2>1, PlainIsPlain
  <2>2. CASE q.pc = "clone" /\ q.cont \notin {"lookup", "remove"}
    BY <2>2 DEF Missing, EmptyPc, SnapPc
  <2>3. QED
    BY <2>1, <2>2
<1>3. r.pc \notin {"apply", "flush", "fmtwin", "fmtnvs", "catalog", "stagecat", "clone", "clear"}
      /\ q.pc \notin {"apply", "flush", "fmtwin", "fmtnvs", "catalog", "stagecat"}
  BY DEF Plain
<1>4. Used(pending) # {} /\ window' = "idle" =>
        q.pc \in {"schedule", "clone"}
  BY <1>3 DEF AloneInv, AloneAt, StagedAt
<1>5. QED
  BY <1>1, <1>2, <1>3, <1>4, QuietAlone

LEMMA Only ==
  ASSUME OneTask, TypeOK, AloneInv
  PROVE  LET r == task[LoopTask] IN
         /\ Task = {LoopTask} /\ PlaceAt(r) /\ r \in TaskRecord /\ CallOK(r)
         /\ registry \subseteq RuntimeKey /\ r.key \in RuntimeKey \cup {NoKey}
         /\ ~(faults < MaxFaults)
         /\ DOMAIN task = Task
BY DEF OneTask, AloneInv, AloneAt, TypeOK, TasksOK, TaskOK, DataOK, TaskRecord

LEMMA IdlePlace == ready /\ TypeOK => PlaceAt(Idle)
BY DEF PlaceAt, Idle, FormatPc

LEMMA BeginAlone ==
  ASSUME OneTask, TypeOK, TypeOK', AloneInv, NEW t \in Task, Call(t) \/ Format(t) \/ LoopDue(t)
  PROVE  AloneInv'
<1> PICK q : q = task'[LoopTask]
  OBVIOUS
<1>0. t = LoopTask /\ DOMAIN task = Task /\ PlaceAt(task[LoopTask])
  BY Only
<1>1. /\ UNCHANGED <<ready, registry, pending, window, nvs, durable, latest>>
      /\ task[LoopTask].pc = "idle" /\ ready
  BY <1>0 DEF Call, Format, LoopDue, Set, Erase, Increment, Decrement, Create, Delete, Begin, At,
              buffer, store, PlaceAt
<1>2. CASE LoopDue(t)
  <2>1. q.pc = "clone" /\ q.op = "loop" /\ q.cont = "idle"
    BY <1>0, <1>2 DEF LoopDue, Idle
  <2>2. PlaceAt(q)'
    BY <1>1, <2>1 DEF PlaceAt, FormatPc
  <2>3. QED
    BY <1>1, <2>1, <2>2, PlainAlone DEF Plain
<1>3. CASE Format(t)
  <2>1. q.pc = "format" /\ q.op = "format"
    BY <1>0, <1>3 DEF Format, Begin, Idle
  <2>2. PlaceAt(q)'
    BY <1>1, <2>1 DEF PlaceAt, FormatPc
  <2>3. QED
    BY <1>1, <2>1, <2>2, PlainAlone DEF Plain
<1>4. ASSUME NEW k \in RuntimeKey, NEW c, NEW call, NEW label, Begin(t, call, k, c, label),
             \/ call = "set" /\ label = "resolve"
             \/ call = "erase" /\ label = "stage" /\ k \in registry
             \/ call \in {"inc", "dec"} /\ label = "lookup"
             \/ call = "create" /\ label = "insert"
             \/ call = "delete" /\ label = "delete"
      PROVE  AloneInv'
  <2>1. q.pc = label /\ q.op = call /\ q.key = k
    BY <1>0, <1>4 DEF Begin, Idle
  <2>2. PlaceAt(q)'
    BY <1>1, <1>4, <2>1 DEF PlaceAt, FormatPc
  <2>3. QED
    BY <1>1, <1>4, <2>1, <2>2, PlainAlone DEF Plain
<1>5. CASE Call(t)
  BY <1>4, <1>5 DEF Call, Set, Erase, Increment, Decrement, Create, Delete
<1>6. QED
  BY <1>2, <1>3, <1>5

\* Reads, and the checks of a set.
LEMMA ReadAlone ==
  ASSUME OneTask, TypeOK, TypeOK', AloneInv, NEW t \in Task, Lookup(t) \/ ReadNvs(t) \/ Resolve(t)
  PROVE  AloneInv'
<1> DEFINE r == task[LoopTask]
<1> PICK q : q = task'[LoopTask]
  OBVIOUS
<1>0. t = LoopTask /\ DOMAIN task = Task /\ PlaceAt(r) /\ r \in TaskRecord /\ CallOK(r)
  BY Only
<1>1. /\ UNCHANGED <<ready, registry, pending, window, nvs, durable, latest>>
      /\ r.pc \in {"lookup", "nvsread", "resolve"} /\ ready
  BY <1>0 DEF Lookup, ReadNvs, Resolve, At, buffer, store, PlaceAt
<1>2. CASE q = Idle
  <2>1. PlaceAt(Idle)'
    BY <1>1 DEF PlaceAt, Idle, FormatPc
  <2>2. Idle.pc = "idle"
    BY DEF Idle
  <2>3. QED
    BY <1>1, <1>2, <2>1, <2>2, PlainAlone DEF Plain
<1>3. ASSUME NEW c, Resolved(t, c), r.op = "create" => c = {Initial}
      PROVE  AloneInv'
  <2>1. q.pc = "resolve" /\ q.op = r.op /\ q.key = r.key /\ q.val = c
    BY <1>0, <1>3 DEF Resolved, TaskRecord
  <2>2. PlaceAt(q)'
    BY <1>0, <1>1, <1>3, <2>1 DEF PlaceAt, FormatPc
  <2>3. QED
    BY <1>1, <2>1, <2>2, PlainAlone DEF Plain
<1>4. ASSUME NEW c, UseValue(t, c)
      PROVE  AloneInv'
  BY <1>0, <1>2, <1>3, <1>4 DEF UseValue, Return
<1>5. CASE Lookup(t) \/ ReadNvs(t)
  <2>1. ASSUME Goto(t, "nvsread")
        PROVE  AloneInv'
    <3>1. q.pc = "nvsread" /\ q.op = r.op /\ q.key = r.key
      BY <1>0, <2>1 DEF Goto, TaskRecord
    <3>2. PlaceAt(q)'
      BY <1>0, <1>1, <3>1 DEF PlaceAt, FormatPc
    <3>3. QED
      BY <1>1, <3>1, <3>2, PlainAlone DEF Plain
  <2>2. QED
    BY <1>4, <1>5, <2>1 DEF Lookup, ReadNvs
<1>6. CASE Resolve(t)
  <2>1. CASE Goto(t, "stage") /\ r.key \in registry
    <3>1. q.pc = "stage" /\ q.op = r.op /\ q.key = r.key
      BY <1>0, <2>1 DEF Goto, TaskRecord
    <3>2. PlaceAt(q)'
      BY <1>0, <1>1, <2>1, <3>1 DEF PlaceAt, FormatPc
    <3>3. QED
      BY <1>1, <3>1, <3>2, PlainAlone DEF Plain
  <2>2. CASE r.op # "create" /\ Fail(t)
    BY <1>0, <1>2, <2>2 DEF Fail
  <2>3. r.op = "create" => r.key \in registry /\ r.val \subseteq Value
    <3>1. Initial \in Value
      BY DEF Initial, Value
    <3>2. QED
      BY <1>0, <1>6, <3>1 DEF PlaceAt, Resolve, At
  <2>4. QED
    BY <1>0, <1>1, <1>6, <2>1, <2>2, <2>3 DEF Resolve
<1>7. QED
  BY <1>5, <1>6

LEMMA StaysAlone ==
  ASSUME AloneInv, UNCHANGED <<ready, registry, pending, nvs, durable, latest, task>>,
         window' = "idle" => window = "idle"
  PROVE  AloneInv'
<1>1. \A k : Visible(k)' = Visible(k)
  BY SameRead
<1>2. PICK q : q = task[LoopTask]
  OBVIOUS
<1>3. q = task'[LoopTask] /\ PlaceAt(q) /\ CatalogAt(q) /\ StagedAt(q) /\ SnapAt(q) /\ ReadsOK
  BY <1>2 DEF AloneInv, AloneAt
<1>4. PlaceAt(q)'
  BY <1>3 DEF PlaceAt
<1>5. CatalogAt(q)'
  BY <1>1, <1>3 DEF CatalogAt, Small
<1>6. StagedAt(q)'
  BY <1>3 DEF StagedAt, Used
<1>7. SnapAt(q)'
  BY <1>3 DEF SnapAt, Used
<1>8. ReadsOK'
  BY <1>1, <1>3 DEF ReadsOK
<1>9. QED
  BY <1>3, <1>4, <1>5, <1>6, <1>7, <1>8 DEF AloneInv, AloneAt

\* The steps of a call that only move it on.
LEMMA ScheduleAlone ==
  ASSUME OneTask, TypeOK, TypeOK', AloneInv, NEW t \in Task, Schedule(t)
  PROVE  AloneInv'
<1> DEFINE r == task[LoopTask]
<1> PICK q : q = task'[LoopTask]
  OBVIOUS
<1>0. t = LoopTask /\ DOMAIN task = Task /\ PlaceAt(r) /\ r \in TaskRecord /\ CallOK(r)
  BY Only
<1>1. UNCHANGED <<ready, registry, pending, nvs, durable, latest>> /\ r.pc = "schedule" /\ ready
  BY <1>0 DEF Schedule, At, buffer, store, PlaceAt
<1>2. CASE CallCommit(t, "idle") \/ CallCommit(t, "again")
  <2>1. q.pc = "clone" /\ q.op = r.op /\ q.key = r.key /\ q.cont \in {"idle", "again"}
    BY <1>0, <1>2 DEF CallCommit, TaskRecord
  <2>2. PlaceAt(q)'
    BY <1>0, <1>1, <2>1 DEF PlaceAt, FormatPc
  <2>3. QED
    BY <1>1, <2>1, <2>2, PlainAlone DEF Plain
<1>3. CASE Return(t) /\ Arm
  <2>1. q = Idle /\ q.pc = "idle"
    BY <1>0, <1>3 DEF Return, Idle
  <2>2. PlaceAt(q)'
    BY <1>1, <2>1 DEF PlaceAt, Idle, FormatPc
  <2>3. window' # "idle"
    BY <1>3 DEF Arm
  <2>4. QED
    BY <1>1, <2>1, <2>2, <2>3, PlainAlone DEF Plain
<1>4. QED
  BY <1>1, <1>2, <1>3 DEF Schedule

LEMMA DeleteAlone ==
  ASSUME OneTask, TypeOK, TypeOK', AloneInv, NEW t \in Task, FlushBeforeDelete(t)
  PROVE  AloneInv'
<1> DEFINE r == task[LoopTask]
<1> PICK q : q = task'[LoopTask]
  OBVIOUS
<1>0. t = LoopTask /\ DOMAIN task = Task /\ PlaceAt(r) /\ r \in TaskRecord /\ CallOK(r)
  BY Only
<1>1. /\ UNCHANGED <<ready, registry, pending, window, nvs, durable, latest>>
      /\ r.pc = "delete" /\ r.op = "delete" /\ ready
  BY <1>0 DEF FlushBeforeDelete, At, buffer, store, PlaceAt, CallOK
<1>2. CASE Return(t)
  <2>1. q = Idle /\ q.pc = "idle"
    BY <1>0, <1>2 DEF Return, Idle
  <2>2. PlaceAt(q)'
    BY <1>1, <2>1 DEF PlaceAt, Idle, FormatPc
  <2>3. QED
    BY <1>1, <2>1, <2>2, PlainAlone DEF Plain
<1>3. CASE r.key \in registry /\ (CallCommit(t, "erase") \/ Goto(t, "erase"))
  <2>1. /\ q.op = r.op /\ q.key = r.key
        /\ q.pc = "erase" \/ (q.pc = "clone" /\ q.cont = "erase")
    BY <1>0, <1>3 DEF CallCommit, Goto, TaskRecord
  <2>2. PlaceAt(q)'
    BY <1>0, <1>1, <1>3, <2>1 DEF PlaceAt, FormatPc
  <2>3. QED
    BY <1>1, <2>1, <2>2, PlainAlone DEF Plain
<1>4. QED
  BY <1>0, <1>2, <1>3 DEF FlushBeforeDelete

LEMMA BuildAlone ==
  ASSUME OneTask, TypeOK, TypeOK', AloneInv, NEW t \in Task, BuildCatalog(t)
  PROVE  AloneInv'
<1> DEFINE r == task[LoopTask]
<1> PICK q : q = task'[LoopTask]
  OBVIOUS
<1>0. t = LoopTask /\ DOMAIN task = Task /\ PlaceAt(r) /\ r \in TaskRecord /\ CallOK(r)
  BY Only
<1>1. /\ UNCHANGED <<ready, registry, pending, window, nvs, durable, latest>>
      /\ r.pc = "catalog" /\ r.op \in {"create", "delete"} /\ ready
  BY <1>0 DEF BuildCatalog, At, buffer, store, PlaceAt, CallOK
<1>2. /\ q.pc = "stagecat" /\ q.op = r.op /\ q.key = r.key
      /\ q.val = registry \ (IF r.op = "delete" THEN {r.key} ELSE {})
  BY <1>0, <1>1 DEF BuildCatalog, TaskRecord
<1>3. PlaceAt(q)'
  BY <1>0, <1>1, <1>2 DEF PlaceAt, FormatPc
<1>4. Missing(q) = Missing(r) /\ ~Carries(r) /\ \A k : Erased(r, k) => Erased(q, k)
  BY <1>1, <1>2 DEF Missing, Carries, Erased, CommitPc
<1>5. q.pc \notin EmptyPc /\ q.pc \notin SnapPc
  BY <1>2 DEF EmptyPc, SnapPc
<1>6. Used(pending) # {} /\ window' = "idle" => q.op = "delete"
  BY <1>1, <1>2 DEF AloneInv, AloneAt, StagedAt
<1>7. QED
  BY <1>1, <1>2, <1>3, <1>4, <1>5, <1>6, QuietAlone

LEMMA CountAlone ==
  ASSUME OneTask, TypeOK, TypeOK', AloneInv, NEW t \in Task, CountRemaining(t)
  PROVE  AloneInv'
<1> DEFINE r == task[LoopTask]
<1> PICK q : q = task'[LoopTask]
  OBVIOUS
<1>0. t = LoopTask /\ DOMAIN task = Task /\ PlaceAt(r) /\ r \in TaskRecord /\ CallOK(r)
  BY Only
<1>1. /\ UNCHANGED <<ready, registry, pending, window, nvs, durable, latest>>
      /\ r.pc = "count" /\ Used(pending) = {}
  BY <1>0 DEF CountRemaining, At, buffer, store, AloneInv, AloneAt, StagedAt, EmptyPc
<1>2. q.pc = "reset" /\ q.op = r.op /\ q.key = r.key /\ q.cont = r.cont
  BY <1>0, <1>1 DEF CountRemaining, Goto, TaskRecord
<1>3. PlaceAt(q)'
  BY <1>0, <1>1, <1>2 DEF PlaceAt, FormatPc
<1>4. Missing(q) = Missing(r) /\ ~Carries(r) /\ \A k : Erased(r, k) => Erased(q, k)
  BY <1>1, <1>2 DEF Missing, Carries, Erased, CommitPc
<1>5. q.pc \notin SnapPc
  BY <1>2 DEF SnapPc
<1>6. QED
  BY <1>1, <1>2, <1>3, <1>4, <1>5, QuietAlone

\* The end of a commit, which returns to the call that asked for it.
LEMMA ResetAlone ==
  ASSUME OneTask, TypeOK, TypeOK', AloneInv, NEW t \in Task, ResetWindow(t)
  PROVE  AloneInv'
<1> DEFINE r == task[LoopTask]
           p == [r EXCEPT !.snap = EmptyBuffer, !.todo = {}]
           again == [p EXCEPT !.pc = "clone", !.cont = "idle"]
           next  == [p EXCEPT !.pc = r.cont]
<1> PICK q : q = task'[LoopTask]
  OBVIOUS
<1>0. t = LoopTask /\ DOMAIN task = Task /\ PlaceAt(r) /\ r \in TaskRecord /\ CallOK(r)
  BY Only
<1>1. /\ UNCHANGED <<ready, registry, pending, nvs, durable, latest>>
      /\ r.pc = "reset" /\ Used(pending) = {} /\ ready
  BY <1>0 DEF ResetWindow, At, buffer, store, AloneInv, AloneAt, StagedAt, EmptyPc, PlaceAt
<1>2. /\ again.pc = "clone" /\ again.op = r.op /\ again.key = r.key /\ again.cont = "idle"
      /\ next.pc = r.cont /\ next.op = r.op /\ next.key = r.key
      /\ p.cont = r.cont
  BY <1>0 DEF TaskRecord
<1>3. /\ r.cont = "idle" => q = Idle
      /\ r.cont = "again" => q = again
      /\ r.cont \notin {"idle", "again"} => q = next
  <2>1. q = CASE p.cont = "idle"  -> Idle
              [] p.cont = "again" -> again
              [] OTHER            -> next
    BY <1>0, <1>2 DEF ResetWindow, CommitDone
  <2> HIDE DEF r, p, again, next
  <2>2. QED
    BY <1>2, <2>1
<1> HIDE DEF p, again, next
<1>4. Idle.pc = "idle" /\ Idle.op = "none"
  BY DEF Idle
<1>5. r.cont \in {"idle", "again", "lookup", "erase", "remove"}
      /\ (r.cont = "lookup" => r.op = "create")
      /\ (r.cont \in {"erase", "remove"} => r.op = "delete")
  BY <1>0 DEF TaskRecord, CallOK
<1>6. r.op \notin {"none", "format"}
  BY <1>0, <1>1 DEF PlaceAt, FormatPc
<1>7. /\ r.cont = "idle" => q.pc = "idle" /\ q.op = "none"
      /\ r.cont = "again" => q.pc = "clone" /\ q.cont = "idle" /\ q.op = r.op /\ q.key = r.key
      /\ r.cont \notin {"idle", "again"} => q.pc = r.cont /\ q.op = r.op /\ q.key = r.key
  BY <1>2, <1>3, <1>4
<1>8. PlaceAt(q)'
  BY <1>0, <1>1, <1>5, <1>6, <1>7 DEF PlaceAt, FormatPc
<1>9. Missing(q) = Missing(r)
  BY <1>1, <1>5, <1>7 DEF Missing, CommitPc
<1>10. \A k : Erased(r, k) => Erased(q, k)
  BY <1>1, <1>7 DEF Erased, CommitPc
<1>11. q.pc \notin SnapPc \cup {"fmtwin", "fmtnvs", "stagecat"}
  BY <1>5, <1>7 DEF SnapPc
<1>12. QED
  BY <1>1, <1>8, <1>9, <1>10, <1>11, QuietAlone

(***************************************************************************)
(* A pigeonhole argument: outside of commits every used slot has a key of  *)
(* its own in the registry, which is smaller than the buffer, so that a    *)
(* slot is free.                                                           *)
(***************************************************************************)
LEMMA FreeSlotLeft ==
  ASSUME OneTask, TypeOK, OneSlotPerKey, AloneInv, ~Carries(task[LoopTask])
  PROVE  Staged(NoKey)
<1> SUFFICES ASSUME \A i \in Slot : pending[i].key # NoKey
             PROVE  FALSE
  BY DEF Staged
<1> DEFINE f == [i \in Slot |-> pending[i].key]
<1>1. \A i \in Slot : pending[i].key \in registry
  BY DEF AloneInv, AloneAt, StagedAt, Used
<1>2. \A i, j \in Slot : pending[i].key = pending[j].key => i = j
  BY DEF OneSlotPerKey, OneKey
<1>3. f \in Injection(Slot, registry)
  BY <1>1, <1>2 DEF Injection, IsInjective
<1>4. IsFiniteSet(registry) /\ Cardinality(registry) <= RuntimeMax
  BY DEF AloneInv, AloneAt, CatalogAt, Small
<1>5. Cardinality(Slot) <= Cardinality(registry)
  BY <1>3, <1>4, FS_Injection
<1>6. Cardinality(Slot) = PendingMax
  BY FS_Interval DEF Slot
<1>7. Cardinality(registry) \in Nat
  BY <1>4, FS_CardinalityType
<1>8. QED
  BY <1>4, <1>5, <1>6, <1>7 DEF OneTask

LEMMA AlwaysRoom ==
  ASSUME OneTask, TypeOK, OneSlotPerKey, AloneInv, ~Carries(task[LoopTask]), NEW k
  PROVE  CanStage(k)
<1>1. CASE Staged(k)
  BY <1>1, FirstExists DEF CanStage, StageTarget
<1>2. CASE ~Staged(k)
  BY <1>2, FirstExists, FreeSlotLeft DEF CanStage, StageTarget
<1>3. QED
  BY <1>1, <1>2

\* A stage uses a free slot or the slot of its key.
LEMMA StageSlots ==
  ASSUME DataOK, NEW k, NEW c, Stage(k, c)
  PROVE  \A i \in Slot : pending'[i] = pending[i] \/ pending'[i].key = k
BY DEF Stage, DataOK

\* The same, for the steps of a call that stage: q is the record of the call
\* after it.  Only the keys of the stage and of the window differ.
LEMMA StagingAlone ==
  ASSUME OneTask, TypeOK, TypeOK', OneSlotPerKey, OneSlotPerKey', AloneInv,
         UNCHANGED <<ready, registry, window, nvs, durable>>,
         NEW k \in StorageKey, NEW c, Stage(k, c),
         NEW q, q = task'[LoopTask], PlaceAt(q)',
         task[LoopTask].pc \in {"stage", "erase", "stagecat"},
         k \in registry \/ (k = CatalogKey /\ Carries(q)),
         q.pc \in {"schedule", "clone"} \/ (q.op = "delete" /\ q.pc = "catalog"),
         k = CatalogKey => c = registry \ Missing(q),
         k # CatalogKey => Missing(q) = Missing(task[LoopTask]),
         ReadsOK'
  PROVE  AloneInv'
<1> DEFINE r == task[LoopTask]
<1>1. /\ Visible(k)'.content = c
      /\ \A l \in StorageKey : l # k => Visible(l)' = Visible(l)
  BY StageShows
<1>2. ~Carries(r) /\ r.pc \notin {"apply", "flush", "fmtwin", "fmtnvs"}
  BY DEF Carries
<1>3. q.pc \notin EmptyPc /\ q.pc \notin SnapPc /\ q.pc # "stagecat"
  BY DEF EmptyPc, SnapPc
<1>4. CatalogAt(q)'
  <2>1. Visible(CatalogKey).content = registry \ Missing(r)
    BY <1>2 DEF AloneInv, AloneAt, CatalogAt
  <2>2. Visible(CatalogKey)'.content = registry \ Missing(q)
    BY <1>1, <2>1, RuntimeIsStorage
  <2>3. Small(registry)' /\ Small(nvs[CatalogKey].content)' /\ Small(durable[CatalogKey].content)'
    BY DEF AloneInv, AloneAt, CatalogAt, Small
  <2>4. QED
    BY <1>3, <2>2, <2>3 DEF CatalogAt, Missing
<1>5. StagedAt(q)'
  <2>1. \A i \in Used(pending) : pending[i].key \in registry
    BY <1>2 DEF AloneInv, AloneAt, StagedAt
  <2>2. ASSUME NEW i \in Used(pending)'
        PROVE  pending'[i].key \in registry \/ (pending'[i].key = CatalogKey /\ Carries(q))
    <3>1. i \in Slot /\ pending'[i].key # NoKey
      BY DEF Used
    <3>2. pending'[i] = pending[i] \/ pending'[i].key = k
      BY <3>1, StageSlots DEF TypeOK
    <3>3. QED
      BY <2>1, <3>1, <3>2 DEF Used
  <2>3. QED
    BY <1>3, <2>2 DEF StagedAt, Carries
<1>6. SnapAt(q)'
  BY <1>2, <1>3 DEF AloneInv, AloneAt, SnapAt, SnapPc
<1>7. QED
  BY <1>4, <1>5, <1>6 DEF AloneInv, AloneAt

LEMMA StageValueAlone ==
  ASSUME OneTask, TypeOK, TypeOK', OneSlotPerKey, OneSlotPerKey', AloneInv,
         NEW t \in Task, StageValue(t)
  PROVE  AloneInv'
<1> DEFINE r == task[LoopTask]
<1> PICK k, q : k = task[LoopTask].key /\ q = task'[LoopTask]
  OBVIOUS
<1>0. t = LoopTask /\ DOMAIN task = Task /\ PlaceAt(r) /\ r \in TaskRecord /\ CallOK(r)
      /\ registry \subseteq RuntimeKey
  BY Only
<1>1. UNCHANGED <<ready, registry, window, nvs, durable>> /\ r.pc = "stage" /\ ready
  BY <1>0 DEF StageValue, At, store, PlaceAt
<1>2. k \in registry /\ k \in StorageKey /\ k # CatalogKey
  BY <1>0, <1>1, RuntimeIsStorage DEF PlaceAt
<1>3. CanStage(k)
  BY <1>1, AlwaysRoom DEF Carries
<1>4. /\ Stage(k, r.val)
      /\ latest' = [latest EXCEPT ![k] = [content |-> r.val, seq |-> pendingSeq + 1]]
      /\ IF r.op = "erase" THEN CallCommit(t, "idle") ELSE Goto(t, "schedule")
  BY <1>0, <1>3 DEF StageValue
<1>5. /\ q.op = r.op /\ q.key = k
      /\ q.pc = "schedule" \/ (q.pc = "clone" /\ q.cont = "idle")
  BY <1>0, <1>4 DEF CallCommit, Goto, TaskRecord
<1>6. PlaceAt(q)'
  BY <1>0, <1>1, <1>2, <1>5 DEF PlaceAt, FormatPc
<1>7. Missing(q) = {} /\ Missing(r) = {}
  BY <1>1, <1>5 DEF Missing, CommitPc
<1>8. ReadsOK'
  <2> SUFFICES ASSUME NEW l \in RuntimeKey
               PROVE  Visible(l)' = latest'[l]
    BY DEF ReadsOK
  <2>1. Visible(l) = latest[l]
    BY <1>1 DEF AloneInv, ReadsOK, Erased, CommitPc
  <2>2. latest'[l] = IF l = k THEN [content |-> r.val, seq |-> pendingSeq + 1] ELSE latest[l]
    BY <1>4, RuntimeIsStorage DEF TypeOK, DataOK
  <2>3. /\ Visible(k)' = [content |-> r.val, seq |-> pendingSeq + 1]
        /\ l # k => Visible(l)' = Visible(l)
    BY <1>1, <1>2, <1>4, StageShows, RuntimeIsStorage
  <2>4. QED
    BY <2>1, <2>2, <2>3
<1>9. QED
  BY <1>1, <1>2, <1>4, <1>5, <1>6, <1>7, <1>8, StagingAlone

LEMMA StageEraseAlone ==
  ASSUME OneTask, TypeOK, TypeOK', OneSlotPerKey, OneSlotPerKey', AloneInv,
         NEW t \in Task, StageErase(t)
  PROVE  AloneInv'
<1> DEFINE r == task[LoopTask]
<1> PICK k, q : k = task[LoopTask].key /\ q = task'[LoopTask]
  OBVIOUS
<1>0. t = LoopTask /\ DOMAIN task = Task /\ PlaceAt(r) /\ r \in TaskRecord /\ CallOK(r)
      /\ registry \subseteq RuntimeKey
  BY Only
<1>1. /\ UNCHANGED <<ready, registry, window, nvs, durable, latest>>
      /\ r.pc = "erase" /\ r.op = "delete" /\ ready
  BY <1>0 DEF StageErase, At, store, PlaceAt, CallOK
<1>2. k \in registry /\ k \in StorageKey /\ k # CatalogKey
  BY <1>0, <1>1, RuntimeIsStorage DEF PlaceAt
<1>3. CanStage(k)
  BY <1>1, AlwaysRoom DEF Carries
<1>4. Stage(k, {}) /\ Goto(t, "catalog")
  BY <1>0, <1>3 DEF StageErase
<1>5. q.op = "delete" /\ q.key = k /\ q.pc = "catalog"
  BY <1>0, <1>1, <1>4 DEF Goto, TaskRecord
<1>6. PlaceAt(q)'
  BY <1>0, <1>1, <1>2, <1>5 DEF PlaceAt, FormatPc
<1>7. Missing(q) = {} /\ Missing(r) = {}
  BY <1>1, <1>5 DEF Missing, CommitPc
<1>8. ReadsOK'
  <2> SUFFICES ASSUME NEW l \in RuntimeKey, ~Erased(q, l)
               PROVE  Visible(l)' = latest'[l]
    BY DEF ReadsOK
  <2>1. Visible(l) = latest[l]
    BY <1>1 DEF AloneInv, ReadsOK, Erased, CommitPc
  <2>2. l # k
    BY <1>5 DEF Erased
  <2>3. QED
    BY <1>1, <1>2, <1>4, <2>1, <2>2, StageShows, RuntimeIsStorage
<1>9. QED
  BY <1>1, <1>2, <1>4, <1>5, <1>6, <1>7, <1>8, StagingAlone

LEMMA StageCatalogAlone ==
  ASSUME OneTask, TypeOK, TypeOK', OneSlotPerKey, OneSlotPerKey', AloneInv,
         NEW t \in Task, StageCatalog(t)
  PROVE  AloneInv'
<1> DEFINE r == task[LoopTask]
<1> PICK q : q = task'[LoopTask]
  OBVIOUS
<1>0. t = LoopTask /\ DOMAIN task = Task /\ PlaceAt(r) /\ r \in TaskRecord /\ CallOK(r)
  BY Only
<1>1. /\ UNCHANGED <<ready, registry, window, nvs, durable, latest>>
      /\ r.pc = "stagecat" /\ r.op \in {"create", "delete"} /\ ready
  BY <1>0 DEF StageCatalog, At, store, PlaceAt, CallOK
<1>2. CanStage(CatalogKey)
  BY <1>1, AlwaysRoom DEF Carries
<1>3. /\ Stage(CatalogKey, r.val)
      /\ CallCommit(t, IF r.op = "create" THEN "lookup" ELSE "remove")
  BY <1>0, <1>2 DEF StageCatalog
<1>4. /\ q.pc = "clone" /\ q.op = r.op /\ q.key = r.key
      /\ q.cont = IF r.op = "create" THEN "lookup" ELSE "remove"
  BY <1>0, <1>3 DEF CallCommit, TaskRecord
<1>5. PlaceAt(q)'
  BY <1>0, <1>1, <1>4 DEF PlaceAt, FormatPc
<1>6. Carries(q)
  BY <1>4 DEF Carries
<1>7. r.val = registry \ Missing(q)
  BY <1>1, <1>4 DEF Missing, CommitPc, AloneInv, AloneAt, CatalogAt
<1>8. ReadsOK'
  <2> SUFFICES ASSUME NEW l \in RuntimeKey, ~Erased(q, l)
               PROVE  Visible(l)' = latest'[l]
    BY DEF ReadsOK
  <2>1. Visible(l) = latest[l]
    BY <1>1, <1>4 DEF AloneInv, ReadsOK, Erased, CommitPc
  <2>2. l # CatalogKey
    BY RuntimeIsStorage
  <2>3. QED
    BY <1>1, <1>3, <2>1, <2>2, StageShows, RuntimeIsStorage
<1>9. QED
  BY <1>1, <1>3, <1>4, <1>5, <1>6, <1>7, <1>8, RuntimeIsStorage, StagingAlone

\* The registry.
LEMMA InsertAlone ==
  ASSUME OneTask, TypeOK, TypeOK', AloneInv, NEW t \in Task, Insert(t)
  PROVE  AloneInv'
<1> DEFINE r == task[LoopTask]
<1> PICK k, q : k = task[LoopTask].key /\ q = task'[LoopTask]
  OBVIOUS
<1>0. t = LoopTask /\ DOMAIN task = Task /\ PlaceAt(r) /\ r \in TaskRecord /\ CallOK(r)
  BY Only
<1>1. /\ UNCHANGED <<ready, pending, window, nvs, durable, latest>>
      /\ r.pc = "insert" /\ r.op = "create" /\ ready
  BY <1>0 DEF Insert, At, buffer, store, PlaceAt, CallOK
<1>2. CASE Return(t) /\ UNCHANGED registry
  <2>1. q = Idle /\ q.pc = "idle"
    BY <1>0, <1>2 DEF Return, Idle
  <2>2. PlaceAt(q)'
    BY <1>1, <2>1 DEF PlaceAt, Idle, FormatPc
  <2>3. QED
    BY <1>1, <1>2, <2>1, <2>2, PlainAlone DEF Plain
<1>3. CASE /\ k \notin registry /\ Cardinality(registry) < RuntimeMax
           /\ registry' = registry \cup {k} /\ Goto(t, "catalog")
  <2>1. q.pc = "catalog" /\ q.op = "create" /\ q.key = k
    BY <1>0, <1>1, <1>3 DEF Goto, TaskRecord
  <2>2. \A l : Visible(l)' = Visible(l)
    BY <1>1, SameRead
  <2>3. PlaceAt(q)'
    BY <1>1, <1>3, <2>1 DEF PlaceAt, FormatPc
  <2>4. Missing(r) = {} /\ Missing(q) = {k} /\ ~Carries(r)
    BY <1>1, <2>1 DEF Missing, Carries, CommitPc
  <2>5. Small(registry)'
    <3>1. IsFiniteSet(registry)
      BY DEF AloneInv, AloneAt, CatalogAt, Small
    <3>2. /\ IsFiniteSet(registry \cup {k})
          /\ Cardinality(registry \cup {k}) = Cardinality(registry) + 1
      BY <1>3, <3>1, FS_AddElement
    <3>3. Cardinality(registry) \in Nat
      BY <3>1, FS_CardinalityType
    <3>4. QED
      BY <1>3, <3>2, <3>3 DEF Small
  <2>6. CatalogAt(q)'
    <3>1. Visible(CatalogKey).content = registry
      BY <1>1, <2>4 DEF AloneInv, AloneAt, CatalogAt
    <3>2. Small(nvs[CatalogKey].content)' /\ Small(durable[CatalogKey].content)'
      BY <1>1 DEF AloneInv, AloneAt, CatalogAt, Small
    <3>3. Visible(CatalogKey)'.content = registry' \ Missing(q)
      BY <1>3, <2>2, <2>4, <3>1
    <3>4. QED
      BY <2>1, <2>5, <3>2, <3>3 DEF CatalogAt, Missing
  <2>7. StagedAt(q)'
    BY <1>1, <1>3, <2>1, <2>4 DEF AloneInv, AloneAt, StagedAt, Used, EmptyPc
  <2>8. SnapAt(q)'
    BY <1>1, <2>1 DEF AloneInv, AloneAt, SnapAt, SnapPc
  <2>9. ReadsOK'
    BY <1>1, <2>2 DEF AloneInv, ReadsOK, Erased
  <2>10. QED
    BY <2>3, <2>6, <2>7, <2>8, <2>9 DEF AloneInv, AloneAt
<1>4. QED
  BY <1>0, <1>2, <1>3 DEF Insert

LEMMA RemoveAlone ==
  ASSUME OneTask, TypeOK, TypeOK', AloneInv, NEW t \in Task, Remove(t)
  PROVE  AloneInv'
<1> DEFINE r == task[LoopTask]
<1> PICK k, q : k = task[LoopTask].key /\ q = task'[LoopTask]
  OBVIOUS
<1>0. t = LoopTask /\ DOMAIN task = Task /\ PlaceAt(r) /\ r \in TaskRecord /\ CallOK(r)
  BY Only
<1>1. /\ UNCHANGED <<ready, pending, window, nvs, durable>>
      /\ r.pc = "remove" /\ r.op = "delete" /\ ready
  BY <1>0 DEF Remove, At, buffer, store, PlaceAt, CallOK
<1>2. /\ q = Idle /\ q.pc = "idle" /\ registry' = registry \ {k}
      /\ latest' = [latest EXCEPT ![k] = Visible(k)]
  BY <1>0 DEF Remove, Return, Idle
<1>3. \A l : Visible(l)' = Visible(l)
  BY <1>1, SameRead
<1>4. PlaceAt(q)'
  BY <1>1, <1>2 DEF PlaceAt, Idle, FormatPc
<1>5. Used(pending) = {} /\ Used(pending)' = {}
  BY <1>1 DEF AloneInv, AloneAt, StagedAt, EmptyPc, Used
<1>6. CatalogAt(q)'
  <2>1. Visible(CatalogKey).content = registry \ Missing(r) /\ Missing(r) = {k} /\ Missing(q) = {}
    BY <1>1, <1>2 DEF AloneInv, AloneAt, CatalogAt, Missing, CommitPc
  <2>2. /\ Small(registry)
        /\ Small(nvs[CatalogKey].content)' /\ Small(durable[CatalogKey].content)'
    BY <1>1 DEF AloneInv, AloneAt, CatalogAt, Small
  <2>3. Small(registry)'
    <3>1. /\ IsFiniteSet(registry \ {k}) /\ Cardinality(registry \ {k}) <= Cardinality(registry)
          /\ Cardinality(registry \ {k}) \in Nat /\ Cardinality(registry) \in Nat
      BY <2>2, FS_Subset, FS_CardinalityType DEF Small
    <3>2. QED
      BY <1>2, <2>2, <3>1 DEF Small
  <2>4. Visible(CatalogKey)'.content = registry' \ Missing(q)
    BY <1>2, <1>3, <2>1
  <2>5. QED
    BY <1>2, <2>2, <2>3, <2>4 DEF CatalogAt, Missing
<1>7. StagedAt(q)'
  BY <1>5 DEF StagedAt
<1>8. SnapAt(q)'
  BY <1>1, <1>2 DEF AloneInv, AloneAt, SnapAt, SnapPc
<1>9. ReadsOK'
  <2> SUFFICES ASSUME NEW l \in RuntimeKey
               PROVE  Visible(l)' = latest'[l]
    BY DEF ReadsOK
  <2>1. l # k => Visible(l) = latest[l]
    BY DEF AloneInv, ReadsOK, Erased
  <2>2. latest'[l] = IF l = k THEN Visible(k) ELSE latest[l]
    BY <1>2, RuntimeIsStorage DEF TypeOK, DataOK
  <2>3. QED
    BY <1>3, <2>1, <2>2
<1>10. QED
  BY <1>4, <1>6, <1>7, <1>8, <1>9 DEF AloneInv, AloneAt

(***************************************************************************)
(* The steps of a commit.                                                  *)
(***************************************************************************)
\* What the steps of a commit keep: who calls, for which key, and what for.
SameCall(r, q) == q.op = r.op /\ q.key = r.key /\ q.cont = r.cont

\* A step from one place of a commit to another, that keeps what reads see.
LEMMA CommitAlone ==
  ASSUME OneTask, AloneInv, UNCHANGED <<ready, registry, window, latest>>,
         NEW q, q = task'[LoopTask], SameCall(task[LoopTask], q),
         task[LoopTask].pc \in {"clone", "apply", "flush", "clear"},
         q.pc \in {"apply", "flush", "clear", "count", "reset"},
         \A k \in StorageKey : Visible(k)' = Visible(k),
         Small(nvs[CatalogKey].content)', Small(durable[CatalogKey].content)',
         (pending' = pending /\ q.pc \notin {"count", "reset"}) \/ Used(pending)' = {},
         SnapAt(q)'
  PROVE  AloneInv'
<1> DEFINE r == task[LoopTask]
<1>0. PlaceAt(r) /\ CatalogAt(r) /\ StagedAt(r) /\ ReadsOK
  BY DEF AloneInv, AloneAt
<1>1. PlaceAt(q)'
  BY <1>0 DEF PlaceAt, SameCall, FormatPc
<1>2. Missing(q) = Missing(r)
  BY DEF Missing, SameCall, CommitPc
<1>3. \A k : Erased(r, k) <=> Erased(q, k)
  BY DEF Erased, SameCall, CommitPc
<1>4. CatalogAt(q)'
  <2>1. Visible(CatalogKey)'.content = registry' \ Missing(q)
    BY <1>0, <1>2, RuntimeIsStorage DEF CatalogAt
  <2>2. Small(registry)'
    BY <1>0 DEF CatalogAt, Small
  <2>3. QED
    BY <2>1, <2>2 DEF CatalogAt, Missing
<1>5. StagedAt(q)'
  <2>1. CASE pending' = pending /\ q.pc \notin {"count", "reset"}
    <3>1. Carries(r) => Carries(q)
      BY <2>1 DEF Carries, SameCall
    <3>2. q.pc \notin EmptyPc /\ q.pc \in {"schedule", "clone", "apply", "flush", "clear"}
      BY <2>1 DEF EmptyPc
    <3>3. Used(pending)' = Used(pending)
      BY <2>1 DEF Used
    <3>4. QED
      BY <1>0, <2>1, <3>1, <3>2, <3>3 DEF StagedAt, Carries
  <2>2. CASE Used(pending)' = {}
    BY <2>2 DEF StagedAt
  <2>3. QED
    BY <2>1, <2>2
<1>6. ReadsOK'
  BY <1>0, <1>3, RuntimeIsStorage DEF ReadsOK
<1>7. QED
  BY <1>1, <1>4, <1>5, <1>6 DEF AloneInv, AloneAt

LEMMA CloneAlone ==
  ASSUME OneTask, TypeOK, TypeOK', AloneInv, NEW t \in Task, Clone(t)
  PROVE  AloneInv'
<1> DEFINE r == task[LoopTask]
<1> PICK q : q = task'[LoopTask]
  OBVIOUS
<1>0. t = LoopTask /\ DOMAIN task = Task /\ PlaceAt(r) /\ r \in TaskRecord /\ CallOK(r)
  BY Only
<1>1. UNCHANGED <<ready, registry, pending, window, nvs, durable, latest>> /\ r.pc = "clone" /\ ready
  BY <1>0 DEF Clone, At, buffer, store, PlaceAt
<1>2. /\ SameCall(r, q)
      /\ q.pc = IF Used(pending) = {} THEN "reset" ELSE "apply"
      /\ q.snap = pending /\ q.todo = Used(pending)
  <2> DEFINE l == IF Used(pending) = {} THEN "reset" ELSE "apply"
             p == [r EXCEPT !.pc = l, !.snap = pending, !.todo = Used(pending)]
  <2>1. q = p
    BY <1>0, <1>1 DEF Clone
  <2>2. /\ p.op = r.op /\ p.key = r.key /\ p.cont = r.cont
        /\ p.pc = l /\ p.snap = pending /\ p.todo = Used(pending)
    BY <1>0 DEF TaskRecord
  <2> HIDE DEF r, p
  <2>3. QED
    BY <2>1, <2>2 DEF SameCall
<1>3. durable = nvs /\ Small(nvs[CatalogKey].content)
  BY <1>1 DEF AloneInv, AloneAt, SnapAt, CatalogAt
<1>4. Small(nvs[CatalogKey].content)' /\ Small(durable[CatalogKey].content)'
  BY <1>1, <1>3 DEF Small
<1>5. Used(pending)' = Used(pending)
  BY <1>1 DEF Used
<1>6. SnapAt(q)'
  BY <1>1, <1>2, <1>3, <1>5 DEF SnapAt, SnapPc
<1>7. QED
  BY <1>1, <1>2, <1>4, <1>5, <1>6, SameRead, CommitAlone

LEMMA ApplyAlone ==
  ASSUME OneTask, TypeOK, TypeOK', OneSlotPerKey, AloneInv, NEW t \in Task, Apply(t)
  PROVE  AloneInv'
<1> DEFINE r == task[LoopTask]
<1> PICK q : q = task'[LoopTask]
  OBVIOUS
<1>0. t = LoopTask /\ DOMAIN task = Task /\ PlaceAt(r) /\ r \in TaskRecord /\ CallOK(r)
  BY Only
<1>1. UNCHANGED <<ready, registry, pending, window, durable, latest>> /\ r.pc = "apply" /\ ready
  BY <1>0 DEF Apply, At, buffer, PlaceAt
<1>2. r.snap = pending /\ \A i \in Used(pending) : i \in r.todo \/ nvs[pending[i].key] = Written(pending[i])
  BY <1>1 DEF AloneInv, AloneAt, SnapAt, SnapPc
<1>3. PICK i \in r.todo :
        /\ nvs' = [nvs EXCEPT ![pending[i].key] = Written(pending[i])]
        /\ task' = [task EXCEPT ![t].todo = @ \ {i},
                                ![t].pc = IF r.todo = {i} THEN "flush" ELSE "apply"]
  BY <1>0, <1>1, <1>2 DEF Apply, Written
<1>4. /\ SameCall(r, q) /\ q.snap = pending /\ q.todo = r.todo \ {i}
      /\ q.pc = IF r.todo = {i} THEN "flush" ELSE "apply"
  BY <1>0, <1>2, <1>3 DEF TaskRecord, SameCall
<1>5. i \in Slot /\ pending[i].key # NoKey /\ pending[i].key \in StorageKey
  BY <1>0, <1>2 DEF CallOK, TaskRecord, TypeOK, DataOK, SlotRecord
<1> DEFINE k == pending[i].key
<1>6. nvs'[k] = Written(pending[i]) /\ \A l \in StorageKey : l # k => nvs'[l] = nvs[l]
  BY <1>3, <1>5 DEF TypeOK, DataOK
<1>7. OneKey(pending) /\ pending' = pending
  BY <1>1 DEF OneSlotPerKey
<1>8. Visible(k) = Written(pending[i])
  BY <1>5, <1>7, SeenStaged, VisibleIsSeen
<1> HIDE DEF k
<1>9. \A l \in StorageKey : Visible(l)' = Visible(l)
  <2> SUFFICES ASSUME NEW l \in StorageKey PROVE Visible(l)' = Visible(l)
    OBVIOUS
  <2>1. CASE \E j \in Slot : pending[j].key = l
    BY <1>7, <2>1, SeenStaged, VisibleIsSeen, RuntimeIsStorage
  <2>2. CASE \A j \in Slot : pending[j].key # l
    <3>1. l # k
      BY <1>5, <2>2 DEF k
    <3>2. QED
      BY <1>6, <1>7, <2>2, <3>1, SeenStored, VisibleIsSeen
  <2>3. QED
    BY <2>1, <2>2
<1>10. Small(nvs[CatalogKey].content)'
  <2>1. Small(nvs[CatalogKey].content) /\ Small(registry) /\ Visible(CatalogKey).content \subseteq registry
    BY <1>1 DEF AloneInv, AloneAt, CatalogAt
  <2>2. CASE k = CatalogKey
    <3>1. nvs'[CatalogKey].content \subseteq registry
      BY <1>6, <1>8, <2>1, <2>2
    <3>2. PICK s : s = nvs'[CatalogKey].content
      OBVIOUS
    <3>3. IsFiniteSet(s) /\ Cardinality(s) <= Cardinality(registry)
          /\ Cardinality(s) \in Nat /\ Cardinality(registry) \in Nat
      BY <2>1, <3>1, <3>2, FS_Subset, FS_CardinalityType DEF Small
    <3>4. QED
      BY <2>1, <3>2, <3>3 DEF Small
  <2>3. CASE k # CatalogKey
    BY <1>6, <2>1, <2>3, RuntimeIsStorage DEF Small
  <2>4. QED
    BY <2>2, <2>3
<1>11. Small(durable[CatalogKey].content)'
  BY <1>1 DEF AloneInv, AloneAt, CatalogAt, Small
<1>12. SnapAt(q)'
  <2>1. ASSUME NEW j \in Used(pending)
        PROVE  (q.pc = "apply" /\ j \in q.todo) \/ nvs'[pending[j].key] = Written(pending[j])
    <3>1. CASE j = i
      BY <1>6, <3>1 DEF k
    <3>2. CASE j # i /\ j \in r.todo
      BY <1>4, <3>2
    <3>3. CASE j # i /\ j \notin r.todo
      <4>1. nvs[pending[j].key] = Written(pending[j]) /\ j \in Slot /\ pending[j].key # NoKey
        BY <1>2, <3>3 DEF Used
      <4>2. pending[j].key # k /\ pending[j].key \in StorageKey
        BY <1>5, <1>7, <3>3, <4>1 DEF OneKey, k, TypeOK, DataOK, SlotRecord
      <4>3. QED
        BY <1>6, <4>1, <4>2
    <3>4. QED
      BY <3>1, <3>2, <3>3
  <2>2. Used(pending)' = Used(pending)
    BY <1>7 DEF Used
  <2>3. q.pc \in {"apply", "flush"}
    BY <1>4
  <2>4. QED
    BY <1>4, <1>7, <2>1, <2>2, <2>3 DEF SnapAt
<1>13. q.pc \in {"apply", "flush"}
  BY <1>4
<1>14. QED
  BY <1>1, <1>4, <1>9, <1>10, <1>11, <1>12, <1>13, CommitAlone

LEMMA FlushAlone ==
  ASSUME OneTask, TypeOK, TypeOK', AloneInv, NEW t \in Task, Flush(t)
  PROVE  AloneInv'
<1> DEFINE r == task[LoopTask]
<1> PICK q : q = task'[LoopTask]
  OBVIOUS
<1>0. t = LoopTask /\ DOMAIN task = Task /\ PlaceAt(r) /\ r \in TaskRecord /\ CallOK(r)
  BY Only
<1>1. UNCHANGED <<ready, registry, pending, window, nvs, latest>> /\ r.pc = "flush" /\ ready
  BY <1>0 DEF Flush, At, buffer, PlaceAt
<1>2. durable' = nvs /\ q.pc = "clear" /\ SameCall(r, q) /\ q.snap = r.snap
  BY <1>0, <1>1 DEF Flush, Goto, TaskRecord, SameCall
<1>3. Small(nvs[CatalogKey].content)
  BY DEF AloneInv, AloneAt, CatalogAt
<1>4. Small(nvs[CatalogKey].content)' /\ Small(durable[CatalogKey].content)'
  BY <1>1, <1>2, <1>3 DEF Small
<1>5. SnapAt(r)
  BY DEF AloneInv, AloneAt
<1>6. SnapAt(q)'
  BY <1>1, <1>2, <1>5 DEF SnapAt, SnapPc, Used
<1>7. QED
  BY <1>1, <1>2, <1>4, <1>6, SameRead, CommitAlone

\* A clear empties the buffer: every slot is still the snapshot's.
LEMMA ClearAlone ==
  ASSUME OneTask, TypeOK, TypeOK', OneSlotPerKey, AloneInv, NEW t \in Task, Clear(t)
  PROVE  AloneInv'
<1> DEFINE r == task[LoopTask]
<1> PICK q : q = task'[LoopTask]
  OBVIOUS
<1>0. t = LoopTask /\ DOMAIN task = Task /\ PlaceAt(r) /\ r \in TaskRecord /\ CallOK(r)
  BY Only
<1>1. UNCHANGED <<ready, registry, window, nvs, durable, latest>> /\ r.pc = "clear" /\ ready
  BY <1>0 DEF Clear, At, store, PlaceAt
<1>2. q.pc = "count" /\ SameCall(r, q)
  BY <1>0 DEF Clear, Goto, TaskRecord, SameCall
<1>3. r.snap = pending /\ \A i \in Used(pending) : nvs[pending[i].key] = Written(pending[i])
  BY <1>1 DEF AloneInv, AloneAt, SnapAt, SnapPc
<1>4. \A i \in Slot : pending'[i] = FreeSlot
  BY <1>0, <1>3 DEF Clear, Committed
<1>5. \A i \in Slot : pending'[i].key = NoKey
  BY <1>4 DEF FreeSlot
<1>6. Used(pending)' = {}
  BY <1>5 DEF Used
<1>7. \A l \in StorageKey : Visible(l)' = Visible(l)
  <2> SUFFICES ASSUME NEW l \in StorageKey PROVE Visible(l)' = Visible(l)
    OBVIOUS
  <2>1. Visible(l)' = nvs[l]
    BY <1>1, <1>5, SeenStored, VisibleIsSeen, RuntimeIsStorage
  <2>2. CASE \A i \in Slot : pending[i].key # l
    BY <2>1, <2>2, SeenStored, VisibleIsSeen
  <2>3. CASE \E i \in Slot : pending[i].key = l
    <3>1. PICK i \in Slot : pending[i].key = l
      BY <2>3
    <3>2. i \in Used(pending) /\ OneKey(pending) /\ l # NoKey
      BY <3>1, RuntimeIsStorage DEF Used, OneSlotPerKey
    <3>3. QED
      BY <1>3, <2>1, <3>1, <3>2, SeenStaged, VisibleIsSeen
  <2>4. QED
    BY <2>2, <2>3
<1>8. Small(nvs[CatalogKey].content)' /\ Small(durable[CatalogKey].content)'
  BY <1>1 DEF AloneInv, AloneAt, CatalogAt, Small
<1>9. SnapAt(q)'
  BY <1>1, <1>2 DEF AloneInv, AloneAt, SnapAt, SnapPc
<1>10. QED
  BY <1>1, <1>2, <1>6, <1>7, <1>8, <1>9, CommitAlone

(***************************************************************************)
(* Formats, resets, and the steps that are not taken.                      *)
(***************************************************************************)
LEMMA EmptyReads ==
  /\ pending = EmptyBuffer => Used(pending) = {} /\ \A k \in StorageKey : Visible(k) = nvs[k]
  /\ (pending = EmptyBuffer)' => /\ Used(pending)' = {}
                                 /\ \A k \in StorageKey : Visible(k)' = nvs'[k]
<1>1. \A i \in Slot : EmptyBuffer[i].key = NoKey
  BY DEF EmptyBuffer, FreeSlot
<1>2. QED
  BY <1>1, SeenStored, VisibleIsSeen, RuntimeIsStorage DEF Used

LEMMA FormatAlone ==
  ASSUME OneTask, TypeOK, TypeOK', AloneInv, NEW t \in Task, FormatStep(t)
  PROVE  AloneInv'
<1> DEFINE r == task[LoopTask]
<1> PICK q : q = task'[LoopTask]
  OBVIOUS
<1>0. t = LoopTask /\ DOMAIN task = Task /\ PlaceAt(r) /\ r \in TaskRecord /\ CallOK(r)
  BY Only
<1>1. CatalogAt(r) /\ StagedAt(r) /\ SnapAt(r) /\ ReadsOK /\ r.pc \in FormatPc /\ r.op = "format"
  BY <1>0 DEF AloneInv, AloneAt, PlaceAt, FormatPc, FormatStep, FormatBuffer, FormatRegistry,
              FormatWindow, FormatStore, At
<1>2. durable = nvs /\ ~Carries(r) /\ \A k : ~Erased(r, k)
  BY <1>1 DEF SnapAt, FormatPc, Carries, Erased
<1>3. CASE FormatBuffer(t)
  <2>1. /\ UNCHANGED <<ready, registry, window, nvs, durable>> /\ r.pc = "format"
        /\ pending' = EmptyBuffer /\ latest' = nvs
        /\ q.pc = "fmtreg" /\ q.op = "format" /\ q.key = r.key
    BY <1>0, <1>1, <1>3 DEF FormatBuffer, At, Goto, TaskRecord, store
  <2>2. Used(pending)' = {} /\ \A k \in StorageKey : Visible(k)' = nvs[k]
    BY <2>1, EmptyReads
  <2>3. PlaceAt(q)'
    BY <1>0, <2>1 DEF PlaceAt, FormatPc
  <2>4. CatalogAt(q)'
    <3>1. \A i \in Slot : pending[i].key # CatalogKey
      BY <1>1, <1>2, RuntimeIsStorage DEF StagedAt, Used, TypeOK, DataOK
    <3>2. Visible(CatalogKey) = nvs[CatalogKey]
      BY <3>1, SeenStored, VisibleIsSeen
    <3>3. Missing(r) = {} /\ Missing(q) = {}
      BY <1>1, <2>1 DEF Missing
    <3>4. Visible(CatalogKey)'.content = registry' \ Missing(q)
      BY <1>1, <2>1, <2>2, <3>2, <3>3, RuntimeIsStorage DEF CatalogAt
    <3>5. /\ Small(registry)' /\ Small(nvs[CatalogKey].content)'
          /\ Small(durable[CatalogKey].content)'
      BY <1>1, <2>1 DEF CatalogAt, Small
    <3>6. QED
      BY <2>1, <3>4, <3>5 DEF CatalogAt, Missing
  <2>5. StagedAt(q)' /\ SnapAt(q)'
    BY <1>2, <2>1, <2>2 DEF StagedAt, SnapAt, SnapPc
  <2>6. ReadsOK'
    BY <2>1, <2>2, RuntimeIsStorage DEF ReadsOK
  <2>7. QED
    BY <2>3, <2>4, <2>5, <2>6 DEF AloneInv, AloneAt
<1>4. CASE FormatRegistry(t) \/ FormatWindow(t)
  <2>1. /\ UNCHANGED <<pending, nvs, durable, latest>> /\ r.pc \in {"fmtreg", "fmtwin"}
        /\ q.pc \in {"fmtwin", "fmtnvs"} /\ q.op = "format" /\ q.key = r.key
        /\ ready' <=> q.pc # "fmtnvs"
        /\ registry' = {}
    BY <1>0, <1>1, <1>4 DEF FormatRegistry, FormatWindow, At, Goto, TaskRecord, store, buffer, PlaceAt
  <2>2. \A k : Visible(k)' = Visible(k)
    BY <2>1, SameRead
  <2>3. Used(pending)' = {}
    BY <1>1, <2>1 DEF StagedAt, EmptyPc, Used
  <2>4. PlaceAt(q)'
    BY <2>1 DEF PlaceAt, FormatPc
  <2>5. Small(registry)'
    BY <2>1, FS_EmptySet DEF Small
  <2>6. CatalogAt(q)'
    BY <1>1, <2>1, <2>5 DEF CatalogAt, Small
  <2>7. StagedAt(q)' /\ SnapAt(q)'
    BY <1>2, <2>1, <2>3 DEF StagedAt, SnapAt, SnapPc
  <2>8. ReadsOK'
    BY <1>1, <1>2, <2>1, <2>2 DEF ReadsOK
  <2>9. QED
    BY <2>4, <2>6, <2>7, <2>8 DEF AloneInv, AloneAt
<1>5. CASE FormatStore(t)
  <2>1. UNCHANGED <<registry, pending, window>> /\ r.pc = "fmtnvs" /\ registry = {}
        /\ q = Idle /\ q.pc = "idle" /\ q.op = "none"
    BY <1>0, <1>5 DEF FormatStore, At, Return, Idle, buffer, PlaceAt
  <2>2. nvs' = Blank /\ durable' = Blank /\ latest' = Blank /\ ready'
    BY <1>5, Only DEF FormatStore
  <2>3. Used(pending) = {}
    BY <1>1, <2>1 DEF StagedAt, EmptyPc
  <2>4. \A k \in StorageKey : Blank[k] = NoEntry /\ NoEntry.content = {}
    BY DEF Blank, NoEntry
  <2>5. \A k \in StorageKey : Visible(k)' = Blank[k]
    <3>1. \A i \in Slot : pending'[i].key = NoKey
      BY <2>1, <2>3 DEF Used
    <3>2. QED
      BY <2>2, <3>1, SeenStored, VisibleIsSeen, RuntimeIsStorage
  <2>6. PlaceAt(q)'
    BY <2>1, <2>2 DEF PlaceAt, FormatPc
  <2>7. CatalogAt(q)'
    <3>1. Small({})
      BY FS_EmptySet DEF Small
    <3>2. Small(registry)' /\ Small(nvs[CatalogKey].content)' /\ Small(durable[CatalogKey].content)'
      BY <2>1, <2>2, <2>4, <3>1, RuntimeIsStorage DEF Small
    <3>3. Visible(CatalogKey)'.content = {} /\ Missing(q) = {}
      BY <2>1, <2>4, <2>5, RuntimeIsStorage DEF Missing, CommitPc
    <3>4. QED
      BY <2>1, <3>2, <3>3 DEF CatalogAt, Missing
  <2>8. StagedAt(q)' /\ SnapAt(q)'
    BY <2>1, <2>2, <2>3 DEF StagedAt, SnapAt, SnapPc, Used
  <2>9. ReadsOK'
    BY <2>2, <2>5, RuntimeIsStorage DEF ReadsOK
  <2>10. QED
    BY <2>6, <2>7, <2>8, <2>9 DEF AloneInv, AloneAt
<1>6. QED
  BY <1>3, <1>4, <1>5 DEF FormatStep

\* A state in which nothing is staged and nothing under way.
Fresh ==
  /\ ready /\ pending = EmptyBuffer /\ task[LoopTask] = Idle
  /\ nvs = durable /\ nvs = latest
  /\ registry = nvs[CatalogKey].content /\ Small(registry)

LEMMA RestAlone == Fresh => AloneInv
<1> SUFFICES ASSUME ready, pending = EmptyBuffer, task[LoopTask] = Idle, nvs = durable,
                    nvs = latest, registry = nvs[CatalogKey].content, Small(registry)
             PROVE  AloneInv
  BY DEF Fresh
<1>1. Used(pending) = {} /\ \A k \in StorageKey : Visible(k) = nvs[k]
  BY EmptyReads
<1>2. Idle.pc = "idle" /\ Idle.op = "none"
  BY DEF Idle
<1>3. PlaceAt(Idle)
  BY <1>2 DEF PlaceAt, FormatPc
<1>4. CatalogAt(Idle)
  BY <1>1, <1>2, RuntimeIsStorage DEF CatalogAt, Missing, CommitPc
<1>5. StagedAt(Idle) /\ SnapAt(Idle)
  BY <1>1, <1>2 DEF StagedAt, SnapAt, SnapPc
<1>6. ReadsOK
  BY <1>1, RuntimeIsStorage DEF ReadsOK
<1>7. QED
  BY <1>3, <1>4, <1>5, <1>6 DEF AloneInv, AloneAt

LEMMA InitAlone == Init => AloneInv
<1> SUFFICES ASSUME Init PROVE AloneInv
  OBVIOUS
<1>1. Blank[CatalogKey].content = {}
  BY RuntimeIsStorage DEF Blank, NoEntry
<1>2. Small(registry)
  BY FS_EmptySet DEF Init, Small
<1>3. task[LoopTask] = Idle
  BY DEF Init
<1>4. QED
  BY <1>1, <1>2, <1>3, RestAlone DEF Init, Fresh

LEMMA CrashAlone ==
  ASSUME AloneInv, Crash
  PROVE  AloneInv'
<1>1. /\ nvs' = durable' /\ nvs' = latest' /\ ready' /\ pending' = EmptyBuffer
      /\ registry' = nvs'[CatalogKey].content
      /\ task'[LoopTask] = Idle
  BY DEF Crash
<1>2. registry' \in {nvs[CatalogKey].content, durable[CatalogKey].content}
  BY RuntimeIsStorage DEF Crash
<1>3. Small(registry)'
  BY <1>2 DEF AloneInv, AloneAt, CatalogAt, Small
<1>4. Fresh'
  BY <1>1, <1>3 DEF Fresh
<1>5. QED
  BY <1>4, RestAlone, PTL

LEMMA NextAlone ==
  ASSUME OneTask, TypeOK, TypeOK', OneSlotPerKey, OneSlotPerKey', AloneInv, [Next]_vars
  PROVE  AloneInv'
<1>0. /\ \A t \in Task : t = LoopTask /\ task[t].pc \notin {"rearm", "rollback", "discard", "uncat"}
      /\ ~(faults < MaxFaults)
  BY Only DEF PlaceAt
<1>1. ASSUME NEW t \in Task, Step(t)
      PROVE  AloneInv'
  <2>1. CASE CommitStep(t)
    BY <1>0, <2>1, CloneAlone, ApplyAlone, FlushAlone, ClearAlone, CountAlone, ResetAlone
       DEF CommitStep, RearmWindow, At
  <2>2. CASE WriteStep(t)
    BY <2>2, ReadAlone, StageValueAlone, ScheduleAlone DEF WriteStep
  <2>3. CASE CatalogStep(t)
    BY <1>0, <2>3, InsertAlone, BuildAlone, StageCatalogAlone, DeleteAlone, StageEraseAlone, RemoveAlone
       DEF CatalogStep, Rollback, DiscardValue, DiscardCatalog, At
  <2>4. CASE FormatStep(t)
    BY <2>4, FormatAlone
  <2>5. QED
    BY <1>1, <2>1, <2>2, <2>3, <2>4 DEF Step
<1>2. CASE TimePasses \/ ChangeDelay \/ UNCHANGED vars
  <2>1. /\ UNCHANGED <<ready, registry, pending, nvs, durable, latest, task>>
        /\ window' = "idle" => window = "idle"
    BY <1>2 DEF TimePasses, ChangeDelay, vars, buffer, store
  <2>2. QED
    BY <2>1, StaysAlone
<1>3. ASSUME NEW t \in Task, Call(t) \/ Format(t) \/ LoopDue(t)
      PROVE  AloneInv'
  BY <1>3, BeginAlone
<1>4. CASE Crash
  BY <1>4, CrashAlone
<1>5. ASSUME NEW t \in Task, StoreFault(t)
      PROVE  FALSE
  BY <1>0, <1>5 DEF StoreFault
<1>6. QED
  BY <1>1, <1>2, <1>3, <1>4, <1>5 DEF Next, Rest

LEMMA AloneInvariant ==
  ASSUME OneTask
  PROVE  Spec => [](TypeOK /\ OneSlotPerKey /\ AloneInv)
<1>1. TypeOK /\ TypeOK' /\ OneSlotPerKey /\ OneSlotPerKey' /\ AloneInv /\ [Next]_vars => AloneInv'
  BY NextAlone
<1>2. QED
  BY <1>1, InitAlone, TypeCorrect, OneSlot, PTL DEF Spec

\* BufferAgrees: a write always finds a slot, and at rest what is staged has a
\* commit scheduled and a registered key, when one task makes all calls.
THEOREM BufferInStep ==
  ASSUME OneTask
  PROVE  Spec => []BufferAgrees
<1>1. TypeOK /\ OneSlotPerKey /\ AloneInv => BufferAgrees
  <2> SUFFICES ASSUME TypeOK, OneSlotPerKey, AloneInv
               PROVE  BufferAgrees
    OBVIOUS
  <2>1. RoomToStage
    BY AlwaysRoom, Only DEF RoomToStage, At, Carries
  <2>2. AtRest => StagedIsScheduled /\ StagedIsRegistered
    BY Only DEF AtRest, At, StagedIsScheduled, StagedIsRegistered, AloneInv, AloneAt, StagedAt, Carries
  <2>3. QED
    BY <2>1, <2>2 DEF BufferAgrees
<1>2. QED
  BY <1>1, AloneInvariant, PTL

\* RegistryPersisted: at rest the catalog in NVS lists the registered keys,
\* when one task makes all calls and NVS does not fail.
THEOREM RegistrySurvives ==
  ASSUME OneTask
  PROVE  Spec => []RegistryPersisted
<1>1. TypeOK /\ OneSlotPerKey /\ AloneInv => RegistryPersisted
  <2> SUFFICES ASSUME TypeOK, AloneInv, AtRest
               PROVE  registry = nvs[CatalogKey].content /\ registry = durable[CatalogKey].content
    BY DEF RegistryPersisted
  <2> DEFINE r == task[LoopTask]
  <2>1. r.pc = "idle"
    BY DEF AtRest, At
  <2>2. Missing(r) = {} /\ ~Carries(r)
    BY <2>1, PlainIsPlain DEF Plain
  <2>3. \A i \in Slot : pending[i].key # CatalogKey
    BY <2>2, RuntimeIsStorage DEF AloneInv, AloneAt, StagedAt, Used, TypeOK, DataOK
  <2>4. Visible(CatalogKey) = nvs[CatalogKey]
    BY <2>3, SeenStored, VisibleIsSeen
  <2>5. QED
    BY <2>1, <2>2, <2>4 DEF AloneInv, AloneAt, CatalogAt, SnapAt
<1>2. QED
  BY <1>1, AloneInvariant, PTL

\* CommitPersists: a commit that is about to report success has made the last
\* write of every registered key durable, when one task makes all calls.
THEOREM CommitIsDurable ==
  ASSUME OneTask
  PROVE  Spec => []CommitPersists
<1>1. TypeOK /\ OneSlotPerKey /\ AloneInv => CommitPersists
  <2> SUFFICES ASSUME TypeOK, AloneInv, NEW t \in Task, task[t].pc \in {"reset", "rearm"},
                      NEW k \in registry, ~Deleting(k)
               PROVE  durable[k] = latest[k]
    BY DEF CommitPersists
  <2> DEFINE r == task[LoopTask]
  <2>1. t = LoopTask /\ r.pc = "reset" /\ k \in RuntimeKey
    BY Only DEF PlaceAt
  <2>2. Used(pending) = {} /\ durable = nvs
    BY <2>1 DEF AloneInv, AloneAt, StagedAt, SnapAt, EmptyPc
  <2>3. Visible(k) = nvs[k]
    <3>1. \A i \in Slot : pending[i].key # k
      BY <2>1, <2>2, RuntimeIsStorage DEF Used
    <3>2. QED
      BY <3>1, SeenStored, VisibleIsSeen
  <2>4. Visible(k) = latest[k]
    BY <2>1 DEF AloneInv, ReadsOK, Erased, Deleting
  <2>5. QED
    BY <2>2, <2>3, <2>4
<1>2. QED
  BY <1>1, AloneInvariant, PTL

(***************************************************************************)
(* The service implements KeyValueStore under a single committer.          *)
(***************************************************************************)
\* NVS has what is durable, or a later write.
DurableOK == \A k \in StorageKey : nvs[k] = durable[k] \/ durable[k].seq < nvs[k].seq

\* A number names the same write in NVS and in the buffer.
NamedOK ==
  \A i \in Used(pending) :
    nvs[pending[i].key].seq = pending[i].seq => nvs[pending[i].key] = Written(pending[i])

TodoOK == \A t \in Task : task[t].pc # "apply" => task[t].todo = {}

\* The catalog that a delete commits lists its key no more: first where it is
\* staged, then in the snapshot, in NVS, and durably.
Goes(r) == r.op = "delete" /\ (r.pc = "remove" \/ (r.pc \in CommitPc /\ r.cont = "remove"))
GoneAt(r) ==
  Goes(r) =>
    /\ \A i \in Slot : pending[i].key = CatalogKey => r.key \notin pending[i].content
    /\ r.pc = "clone" => Staged(CatalogKey)
    /\ r.pc = "apply" =>
         /\ \A i \in r.todo : r.snap[i].key = CatalogKey => r.key \notin r.snap[i].content
         /\ \/ \E i \in r.todo : r.snap[i].key = CatalogKey
            \/ r.key \notin nvs[CatalogKey].content
    /\ r.pc \notin {"clone", "apply"} => r.key \notin nvs[CatalogKey].content
    /\ r.pc \notin {"clone", "apply", "flush"} => r.key \notin durable[CatalogKey].content

LoopAt(r) ==
  /\ r.pc = "apply" =>
       \A i \in r.todo :
         nvs[r.snap[i].key].seq = r.snap[i].seq => nvs[r.snap[i].key] = Written(r.snap[i])
  /\ r.pc = "stagecat" => r.val = registry \ (IF r.op = "delete" THEN {r.key} ELSE {})
  /\ GoneAt(r)

StoreInv == DurableOK /\ NamedOK /\ TodoOK /\ LoopAt(task[LoopTask])

Keep == Base /\ CommitterInv /\ StoreInv

\* Every read returns a write that is durable or on its way there.
StillThere == \A k \in StorageKey : Visible(k) \in InFlight(k) \cup {durable[k]}

LEMMA KeepsThere == Keep => StillThere
<1> SUFFICES ASSUME Keep, NEW k \in StorageKey
             PROVE  Visible(k) \in InFlight(k) \cup {durable[k]}
  BY DEF StillThere
<1>0. /\ nvs[k] = durable[k] \/ durable[k].seq < nvs[k].seq
      /\ nvs[k].seq \in Nat /\ durable[k].seq \in Nat
  BY DEF Keep, StoreInv, DurableOK, Base, TypeOK, DataOK, Entry
<1>1. CASE \E i \in Slot : pending[i].key = k
  <2>1. PICK i \in Slot : pending[i].key = k
    BY <1>1
  <2>2. Visible(k) = Written(pending[i]) /\ i \in Used(pending)
    BY <2>1, SeenStaged, VisibleIsSeen, RuntimeIsStorage DEF Keep, Base, OneSlotPerKey, Used
  <2>3. nvs[k].seq <= pending[i].seq /\ pending[i].seq \in Nat
        /\ (nvs[k].seq = pending[i].seq => nvs[k] = Written(pending[i]))
    BY <2>1, <2>2 DEF Keep, CommitterInv, NumbersOK, StoreInv, NamedOK, Base, TypeOK, DataOK, SlotRecord
  <2>4. Written(pending[i]) = durable[k] \/ durable[k].seq < pending[i].seq
    BY <1>0, <2>3
  <2>5. Written(pending[i]).seq = pending[i].seq
    BY DEF Written
  <2>6. QED
    BY <2>1, <2>2, <2>4, <2>5 DEF InFlight, Written
<1>2. CASE \A i \in Slot : pending[i].key # k
  <2>1. Visible(k) = nvs[k]
    BY <1>2, SeenStored, VisibleIsSeen
  <2>2. QED
    BY <1>0, <2>1 DEF InFlight
<1>3. QED
  BY <1>1, <1>2

StoreStep == [Store!StoreNext]_<<registry, Store!data, Store!calls>>

\* A step that keeps what reads see and brings no write nearer to NVS.
LEMMA PersistStep ==
  ASSUME Base, Keep', UNCHANGED registry,
         \A k \in StorageKey : Visible(k)' = Visible(k),
         \A k \in StorageKey : durable'[k] \in InFlight(k) \cup {durable[k]},
         \A k \in StorageKey : durable[k].seq <= durable'[k].seq,
         \A k \in StorageKey : InFlight(k)' \subseteq {w \in InFlight(k) : durable'[k].seq < w.seq}
  PROVE  Store!Persist
<1>1. StillThere'
  BY KeepsThere, PTL
<1>2. QED
  BY <1>1 DEF Store!Persist, Store!Possible, StillThere

\* The writes of k that are neither overwritten nor durable: w is staged, or a
\* commit has it in hand.
StagedWrite(k, w) == \E i \in Slot : pending[i].key = k /\ w = Written(pending[i])
SnapWrite(k, w) ==
  \E u \in Task : \E i \in task[u].todo :
    task[u].snap[i].key = k /\ w = Written(task[u].snap[i])

LEMMA FlightMember ==
  ASSUME NEW k, NEW w
  PROVE  /\ w \in InFlight(k) <=>
              durable[k].seq < w.seq /\ (w = nvs[k] \/ StagedWrite(k, w) \/ SnapWrite(k, w))
         /\ w \in InFlight(k)' <=>
              durable'[k].seq < w.seq /\ (w = nvs'[k] \/ StagedWrite(k, w)' \/ SnapWrite(k, w)')
BY DEF InFlight, Written, StagedWrite, SnapWrite

LEMMA PersistIsStep == Store!Persist => StoreStep
BY DEF StoreStep, Store!StoreNext

\* What is left of the snapshot of a commit, by the way a step ends.
LEMMA TodoStays ==
  ASSUME TasksOK, NEW t \in Task,
         \/ \E l : Goto(t, l) \/ CallCommit(t, l)
         \/ \E c : Resolved(t, c)
         \/ CatalogFailed(t)
  PROVE  task'[t].todo = task[t].todo /\ Others(t)
BY DEF Goto, CallCommit, Resolved, CatalogFailed, Others, TasksOK, TaskRecord

LEMMA TodoEnds ==
  ASSUME TasksOK, NEW t \in Task, Return(t) \/ Fail(t) \/ CommitFailed(t) \/ CommitDone(t)
  PROVE  task'[t].todo = {} /\ Others(t)
<1>0. task[t] \in TaskRecord /\ Idle.todo = {}
  BY DEF TasksOK, Idle
<1>1. ASSUME NEW r, task' = [task EXCEPT ![t] = r]
      PROVE  task'[t] = r /\ Others(t)
  BY <1>1 DEF TasksOK, Others
<1>2. Fail(t) => task'[t].todo = {} /\ Others(t)
  <2>1. [Idle EXCEPT !.pc = "delete", !.op = "delete", !.key = task[t].key].todo = {}
    BY DEF Idle
  <2>2. QED
    BY <1>0, <2>1 DEF Fail, TasksOK, Others
<1>3. Return(t) => task'[t].todo = {} /\ Others(t)
  BY <1>0, <1>1 DEF Return
<1> DEFINE p(l) == [task[t] EXCEPT !.pc = l, !.snap = EmptyBuffer, !.todo = {}]
           d == [task[t] EXCEPT !.snap = EmptyBuffer, !.todo = {}]
           again == [d EXCEPT !.pc = "clone", !.cont = "idle"]
           next  == [d EXCEPT !.pc = d.cont]
<1>4. p("uncat").todo = {} /\ p("discard").todo = {} /\ again.todo = {} /\ next.todo = {}
  BY <1>0 DEF TaskRecord
<1>5. CommitFailed(t) => task'[t].todo = {} /\ Others(t)
  <2>1. CommitFailed(t) => \/ task' = [task EXCEPT ![t] = p("uncat")]
                           \/ task' = [task EXCEPT ![t] = p("discard")]
                           \/ Fail(t)
    BY DEF CommitFailed
  <2> HIDE DEF p
  <2>2. QED
    BY <1>1, <1>2, <1>4, <2>1
<1>6. CommitDone(t) => task'[t].todo = {} /\ Others(t)
  <2>1. CommitDone(t) => \/ task' = [task EXCEPT ![t] = Idle]
                         \/ task' = [task EXCEPT ![t] = again]
                         \/ task' = [task EXCEPT ![t] = next]
    BY DEF CommitDone
  <2> HIDE DEF again, next
  <2>2. QED
    BY <1>0, <1>1, <1>4, <2>1
<1>7. QED
  BY <1>2, <1>3, <1>5, <1>6

\* A call that moves on without touching the data.  The clauses of GoneAt that
\* differ between places of a commit stay the same.
Follows(r, q) ==
  /\ Goes(q) => Goes(r) /\ q.key = r.key /\ {r.pc, q.pc} \cap {"clone", "apply", "flush"} = {}
  /\ q.pc # "stagecat"

LEMMA QuietInv ==
  ASSUME StoreInv, NEW t \in Task, Others(t), UNCHANGED <<pending, nvs, durable>>,
         task'[t].todo = {},
         registry' = registry \/ (t = LoopTask /\ task'[t].pc # "stagecat"),
         t = LoopTask => Follows(task[t], task'[t])
  PROVE  StoreInv'
<1>1. DurableOK' /\ NamedOK'
  BY DEF StoreInv, DurableOK, NamedOK, Used
<1>2. TodoOK'
  BY DEF StoreInv, TodoOK, Others
<1>3. PICK q : q = task'[LoopTask]
  OBVIOUS
<1>4. LoopAt(task[LoopTask]) /\ GoneAt(task[LoopTask])
  BY DEF StoreInv, LoopAt
<1>5. CASE t = LoopTask
  <2>1. q.todo = {} /\ Follows(task[t], q)
    BY <1>3, <1>5
  <2>2. GoneAt(q)'
    BY <1>4, <1>5, <2>1 DEF GoneAt, Follows
  <2>3. LoopAt(q)'
    BY <2>1, <2>2 DEF LoopAt, Follows
  <2>4. QED
    BY <1>1, <1>2, <1>3, <2>3 DEF StoreInv
<1>6. CASE t # LoopTask
  <2>1. q = task[LoopTask]
    BY <1>3, <1>6 DEF Others
  <2>2. registry' = registry
    BY <1>6
  <2>3. GoneAt(q)'
    BY <1>4, <2>1 DEF GoneAt, Staged
  <2>4. LoopAt(q)'
    BY <1>4, <2>1, <2>2, <2>3 DEF LoopAt
  <2>5. QED
    BY <1>1, <1>2, <1>3, <2>4 DEF StoreInv
<1>7. QED
  BY <1>5, <1>6

LEMMA QuietStore ==
  ASSUME Known, CommitterInv', StoreInv, NEW t \in Task, Others(t),
         UNCHANGED <<pending, nvs, durable, registry>>,
         task'[t].todo = {}, t = LoopTask => Follows(task[t], task'[t])
  PROVE  StoreInv' /\ StoreStep
<1>1. StoreInv'
  BY QuietInv
<1>2. Keep'
  BY <1>1 DEF Keep, Known
<1>3. \A k \in StorageKey : InFlight(k)' \subseteq {w \in InFlight(k) : durable'[k].seq < w.seq}
  <2> SUFFICES ASSUME NEW k \in StorageKey, NEW w \in InFlight(k)'
               PROVE  w \in InFlight(k) /\ durable'[k].seq < w.seq
    OBVIOUS
  <2>1. \A u \in Task : u = t \/ task'[u] = task[u]
    BY DEF Others
  <2>2. StagedWrite(k, w)' => StagedWrite(k, w)
    BY DEF StagedWrite
  <2>3. SnapWrite(k, w)' => SnapWrite(k, w)
    BY <2>1 DEF SnapWrite
  <2>4. QED
    BY <2>2, <2>3, FlightMember
<1>4. \A k \in StorageKey : Visible(k)' = Visible(k)
  BY SameRead
<1>5. \A k \in StorageKey : durable[k].seq <= durable'[k].seq
  BY DEF Known, Base, TypeOK, DataOK, Entry
<1>6. QED
  BY <1>1, <1>2, <1>3, <1>4, <1>5, PersistStep, PersistIsStep DEF Known

\* A write is staged: it is the newest there is, and current at once.
LEMMA StageInv ==
  ASSUME Known, StoreInv, NEW t \in Task, Others(t), NEW k \in StorageKey, NEW c, Stage(k, c),
         UNCHANGED <<nvs, durable, registry>>, task'[t].todo = {},
         k = CatalogKey => t = LoopTask,
         NEW q, q = task'[LoopTask], t = LoopTask => q.pc # "stagecat" /\ GoneAt(q)'
  PROVE  StoreInv'
<1> DEFINE w == [key |-> k, content |-> c, seq |-> pendingSeq + 1]
<1>1. PICK i \in Slot : IsFirst(i, StageTarget(k)) /\ pending' = [pending EXCEPT ![i] = w]
  BY DEF Stage
<1>2. \A j \in Slot : pending'[j] = IF j = i THEN w ELSE pending[j]
  BY <1>1 DEF Known, Base, TypeOK, DataOK
<1>3. pendingSeq \in Nat /\ \A l \in StorageKey : nvs[l].seq \in Nat /\ nvs[l].seq <= pendingSeq
  BY DEF Known, Base, CommitterInv, NumbersOK, TypeOK, DataOK, Entry
<1>4. pending[i].key = k \/ pending[i].key = NoKey
  BY <1>1 DEF IsFirst, StageTarget
<1>5. DurableOK'
  BY DEF StoreInv, DurableOK
<1>6. NamedOK'
  <2>1. ASSUME NEW j \in Slot, pending'[j].key # NoKey
        PROVE  nvs'[pending'[j].key].seq = pending'[j].seq
                 => nvs'[pending'[j].key] = Written(pending'[j])
    <3>1. CASE j = i
      BY <1>2, <1>3, <3>1
    <3>2. CASE j # i
      BY <1>2, <2>1, <3>2 DEF StoreInv, NamedOK, Used
    <3>3. QED
      BY <3>1, <3>2
  <2>2. QED
    BY <2>1 DEF NamedOK, Used
<1>7. TodoOK'
  BY DEF StoreInv, TodoOK, Others
<1>8. CASE t = LoopTask
  <2>1. LoopAt(q)'
    BY <1>8 DEF LoopAt
  <2>2. QED
    BY <1>5, <1>6, <1>7, <2>1 DEF StoreInv
<1>9. CASE t # LoopTask
  <2>1. q = task[LoopTask] /\ k # CatalogKey
    BY <1>9 DEF Others
  <2>2. LoopAt(q) /\ GoneAt(q)
    BY <2>1 DEF StoreInv, LoopAt
  <2>3. /\ \A j \in Slot : pending'[j].key = CatalogKey => pending'[j] = pending[j]
        /\ \A j \in Slot : pending[j].key = CatalogKey => pending'[j] = pending[j]
    BY <1>2, <1>4, <2>1, RuntimeIsStorage
  <2>4. Staged(CatalogKey) => Staged(CatalogKey)'
    BY <2>3 DEF Staged
  <2>5. GoneAt(q)'
    BY <2>2, <2>3, <2>4 DEF GoneAt
  <2>6. LoopAt(q)'
    BY <2>2, <2>5 DEF LoopAt
  <2>7. QED
    BY <1>5, <1>6, <1>7, <2>1, <2>6 DEF StoreInv
<1>10. QED
  BY <1>8, <1>9

LEMMA StageStore ==
  ASSUME Known, StoreInv, NEW t \in Task, Others(t), NEW k \in StorageKey, NEW c, Stage(k, c),
         UNCHANGED <<nvs, durable, registry>>, task[t].todo = {}, task'[t].todo = {},
         k = CatalogKey => c = registry \/ \E d \in Doing("delete") : c = registry \ {d}
  PROVE  StoreStep
<1> DEFINE w == [content |-> c, seq |-> pendingSeq + 1]
<1>1. PICK i \in Slot : /\ IsFirst(i, StageTarget(k))
                        /\ pending' = [pending EXCEPT ![i] = [key |-> k, content |-> c,
                                                              seq |-> pendingSeq + 1]]
  BY DEF Stage
<1>2. \A j \in Slot : pending'[j] = IF j = i THEN [key |-> k, content |-> c, seq |-> pendingSeq + 1]
                                    ELSE pending[j]
  BY <1>1 DEF Known, Base, TypeOK, DataOK
<1>3. pending[i].key = k \/ pending[i].key = NoKey
  BY <1>1 DEF IsFirst, StageTarget
<1>4. /\ Visible(k)' = w
      /\ \A l \in StorageKey : l # k => Visible(l)' = Visible(l)
  BY StageShows DEF Known, Base
<1>5. pendingSeq \in Nat
  BY DEF Known, Base, TypeOK, DataOK
<1>6. \A l \in StorageKey : /\ nvs[l].seq \in Nat /\ durable[l].seq \in Nat
                            /\ nvs[l].seq <= pendingSeq /\ durable[l].seq <= pendingSeq
  BY <1>5 DEF Known, Base, CommitterInv, NumbersOK, TypeOK, DataOK, Entry, StoreInv, DurableOK
<1>7. ASSUME NEW v \in InFlight(k) \cup {durable[k]}
      PROVE  v.seq < w.seq
  <2>1. CASE v = durable[k] \/ v = nvs[k]
    BY <1>5, <1>6, <2>1
  <2>2. ASSUME NEW j \in Slot, v = Written(pending[j])
        PROVE  v.seq < w.seq
    BY <1>5, <2>2 DEF Written, Known, Base, SeqInv, TypeOK, DataOK, SlotRecord
  <2>3. ASSUME NEW u \in Task, NEW j \in task[u].todo, v = Written(task[u].snap[j])
        PROVE  v.seq < w.seq
    <3>1. task[u] \in TaskRecord /\ j \in Slot
      BY DEF Known, Base, TypeOK, TasksOK, TaskRecord
    <3>2. task[u].snap[j] \in SlotRecord /\ task[u].snap[j].seq <= pendingSeq
      BY <3>1 DEF TaskRecord, Known, Base, SeqInv
    <3>3. QED
      BY <1>5, <2>3, <3>2 DEF Written, SlotRecord
  <2>4. QED
    BY <2>1, <2>2, <2>3, FlightMember DEF StagedWrite, SnapWrite
<1>8. Visible(k) \in InFlight(k) \cup {durable[k]}
  BY KeepsThere DEF StillThere, Keep, Known
<1>9. \A l, v : SnapWrite(l, v)' <=> SnapWrite(l, v)
  BY DEF Others, SnapWrite
<1>10. InFlight(k)' \subseteq InFlight(k) \cup {w}
  <2> SUFFICES ASSUME NEW v \in InFlight(k)'
               PROVE  v \in InFlight(k) \/ v = w
    OBVIOUS
  <2>1. \A j \in Slot : v = Written(pending'[j]) => v = w \/ pending'[j] = pending[j]
    BY <1>2 DEF Written
  <2>2. StagedWrite(k, v)' => v = w \/ StagedWrite(k, v)
    BY <2>1 DEF StagedWrite
  <2>3. QED
    BY <1>9, <2>2, FlightMember
<1>11. w \in InFlight(k)'
  <2>1. pending'[i].key = k /\ w = Written(pending'[i])
    BY <1>2 DEF Written
  <2>2. durable'[k].seq < w.seq
    BY <1>5, <1>6
  <2>3. QED
    BY <2>1, <2>2, FlightMember DEF StagedWrite
<1>12. ASSUME NEW l \in StorageKey, l # k
       PROVE  InFlight(l)' = InFlight(l)
  <2>1. \A v : StagedWrite(l, v)' <=> StagedWrite(l, v)
    <3>1. \A j \in Slot : pending'[j].key = l \/ pending[j].key = l => pending'[j] = pending[j]
      BY <1>2, <1>3, <1>12, RuntimeIsStorage
    <3>2. QED
      BY <3>1 DEF StagedWrite
  <2>2. \A v : v \in InFlight(l)' <=> v \in InFlight(l)
    BY <1>9, <2>1, FlightMember
  <2>3. InFlight(l)' \subseteq InFlight(l) /\ InFlight(l) \subseteq InFlight(l)'
    BY <2>2
  <2>4. QED
    BY <2>3
<1> HIDE DEF w
<1>13. Store!Write(k)
  <2>1. k = CatalogKey => \/ Visible(k)'.content = registry
                          \/ \E d \in Doing("delete") : Visible(k)'.content = registry \ {d}
    BY <1>4 DEF w
  <2>2. Store!Others(k)
    BY <1>4, <1>12 DEF Store!Others
  <2>3. QED
    BY <1>4, <1>7, <1>8, <1>10, <1>11, <2>1, <2>2 DEF Store!Write, Store!Possible
<1>14. QED
  BY <1>13 DEF StoreStep, Store!StoreNext

(***************************************************************************)
(* The steps of a commit.                                                  *)
(***************************************************************************)
LEMMA AwayFollows ==
  ASSUME NEW r, NEW q, q.pc \in {"idle", "delete", "uncat", "discard", "rollback", "catalog",
                                 "erase", "lookup", "nvsread", "resolve", "stage", "schedule",
                                 "insert"}
  PROVE  Follows(r, q)
BY DEF Follows, Goes, CommitPc

LEMMA FailsAway ==
  ASSUME TasksOK, NEW t \in Task, Return(t) \/ Fail(t) \/ CommitFailed(t)
  PROVE  task'[t].pc \in {"idle", "delete", "uncat", "discard"}
<1> DEFINE p(l) == [task[t] EXCEPT !.pc = l, !.snap = EmptyBuffer, !.todo = {}]
<1>0. /\ Idle.pc = "idle" /\ p("uncat").pc = "uncat" /\ p("discard").pc = "discard"
      /\ [Idle EXCEPT !.pc = "delete", !.op = "delete", !.key = task[t].key].pc = "delete"
  BY DEF Idle, TasksOK, TaskRecord
<1>1. CommitFailed(t) => \/ task' = [task EXCEPT ![t] = p("uncat")]
                         \/ task' = [task EXCEPT ![t] = p("discard")]
                         \/ Fail(t)
  BY DEF CommitFailed
<1> HIDE DEF p
<1>2. QED
  BY <1>0, <1>1 DEF Return, Fail, TasksOK

\* A commit that fails, at any of its steps.
LEMMA FailStore ==
  ASSUME Known, CommitterInv', StoreInv, NEW t \in Task,
         Return(t) \/ Fail(t) \/ CommitFailed(t),
         UNCHANGED <<pending, nvs, durable, registry>>
  PROVE  StoreInv' /\ StoreStep
<1>1. task'[t].todo = {} /\ Others(t)
  BY TodoEnds DEF Known, Base, TypeOK
<1>2. Follows(task[t], task'[t])
  BY FailsAway, AwayFollows DEF Known, Base, TypeOK
<1>3. QED
  BY <1>1, <1>2, QuietStore

LEMMA CloneStore ==
  ASSUME Known, CommitterInv', StoreInv, NEW t \in Task, Clone(t)
  PROVE  StoreInv' /\ StoreStep
<1>0. TasksOK /\ task[t] \in TaskRecord /\ task[t].pc = "clone"
  BY DEF Known, Base, TypeOK, TasksOK, Clone, At
<1>1. UNCHANGED <<pending, nvs, durable, registry>>
  BY DEF Clone, buffer, store
<1>2. t = LoopTask
  BY <1>0, CommitterOnly DEF WritePc
<1>3. CASE CommitFailed(t)
  BY <1>1, <1>3, FailStore
<1>4. CASE ~CommitFailed(t)
  <2> DEFINE r == task[t]
  <2> PICK q : q = task'[t]
    OBVIOUS
  <2>1. /\ q.pc = IF Used(pending) = {} THEN "reset" ELSE "apply"
        /\ q.op = r.op /\ q.key = r.key /\ q.cont = r.cont
        /\ q.snap = pending /\ q.todo = Used(pending)
        /\ Others(t)
    <3>1. PICK l : /\ l = IF Used(pending) = {} THEN "reset" ELSE "apply"
                   /\ task' = [task EXCEPT ![t].pc = l, ![t].snap = pending,
                                           ![t].todo = Used(pending)]
      BY <1>4 DEF Clone
    <3>2. QED
      BY <1>0, <3>1 DEF TasksOK, TaskRecord, Others
  <2>2. GoneAt(r) /\ r.pc = "clone" /\ Goes(q) => Goes(r)
    BY <1>0, <1>2, <2>1 DEF StoreInv, LoopAt, Goes, CommitPc
  <2>3. CASE Used(pending) = {}
    <3>1. ~Staged(CatalogKey)
      BY <2>3, RuntimeIsStorage DEF Staged, Used
    <3>2. ~Goes(q)
      BY <1>0, <1>2, <2>2, <3>1 DEF GoneAt, StoreInv, LoopAt
    <3>3. QED
      BY <1>1, <2>1, <2>3, <3>2, QuietStore DEF Follows
  <2>4. CASE Used(pending) # {}
    <3>1. DurableOK' /\ NamedOK'
      BY <1>1 DEF StoreInv, DurableOK, NamedOK, Used
    <3>2. TodoOK'
      BY <2>1, <2>4 DEF StoreInv, TodoOK, Others
    <3>3. GoneAt(q)'
      <4> SUFFICES ASSUME Goes(q)
                   PROVE  GoneAt(q)'
        BY DEF GoneAt
      <4>1. /\ \A i \in Slot : pending[i].key = CatalogKey => r.key \notin pending[i].content
            /\ Staged(CatalogKey)
        BY <1>0, <1>2, <2>1 DEF GoneAt, StoreInv, LoopAt, Goes, CommitPc
      <4>2. PICK i \in Slot : pending[i].key = CatalogKey
        BY <4>1 DEF Staged
      <4>3. i \in q.todo /\ q.snap[i].key = CatalogKey
        BY <2>1, <4>2, RuntimeIsStorage DEF Used
      <4>4. \A j \in q.todo : j \in Slot
        BY <2>1 DEF Used
      <4>5. q.pc = "apply"
        BY <2>1, <2>4
      <4>6. QED
        BY <1>1, <2>1, <4>1, <4>3, <4>4, <4>5 DEF GoneAt
    <3>4. LoopAt(q)'
      BY <1>1, <2>1, <2>4, <3>3 DEF LoopAt, StoreInv, NamedOK
    <3>5. StoreInv'
      BY <1>2, <3>1, <3>2, <3>4 DEF StoreInv
    <3>6. Keep'
      BY <3>5 DEF Keep, Known
    <3>7. ASSUME NEW k \in StorageKey, NEW w \in InFlight(k)'
          PROVE  w \in InFlight(k) /\ durable'[k].seq < w.seq
      <4>1. StagedWrite(k, w)' => StagedWrite(k, w)
        BY <1>1 DEF StagedWrite
      <4>2. SnapWrite(k, w)' => SnapWrite(k, w) \/ StagedWrite(k, w)
        BY <2>1 DEF SnapWrite, StagedWrite, Others, Used
      <4>3. QED
        BY <1>1, <4>1, <4>2, FlightMember
    <3>8. \A k \in StorageKey : Visible(k)' = Visible(k)
      BY <1>1, SameRead
    <3>9. \A k \in StorageKey : durable[k].seq <= durable'[k].seq
      BY <1>1 DEF Known, Base, TypeOK, DataOK, Entry
    <3>10. QED
      BY <1>1, <3>5, <3>6, <3>7, <3>8, <3>9, PersistStep, PersistIsStep DEF Known
  <2>5. QED
    BY <2>3, <2>4
<1>5. QED
  BY <1>3, <1>4

LEMMA ApplyStore ==
  ASSUME Known, CommitterInv', StoreInv, NEW t \in Task, Apply(t)
  PROVE  StoreInv' /\ StoreStep
<1>0. /\ TasksOK /\ task[t] \in TaskRecord /\ task[t].pc = "apply"
      /\ nvs \in [StorageKey -> Entry] /\ durable \in [StorageKey -> Entry]
  BY DEF Known, Base, TypeOK, DataOK, TasksOK, Apply, At
<1>1. t = LoopTask
  BY <1>0, CommitterOnly DEF WritePc
<1>2. UNCHANGED <<pending, durable, registry>>
  BY DEF Apply, buffer
<1>3. CASE CommitFailed(t) /\ UNCHANGED nvs
  BY <1>2, <1>3, FailStore
<1>4. CASE ~(CommitFailed(t) /\ UNCHANGED nvs)
  <2> DEFINE r == task[t]
             p(i) == r.snap[i]
  <2> PICK q : q = task'[t]
    OBVIOUS
  <2>1. PICK i \in r.todo :
          /\ nvs' = [nvs EXCEPT ![p(i).key] = Written(p(i))]
          /\ task' = [task EXCEPT ![t].todo = @ \ {i},
                                  ![t].pc = IF r.todo = {i} THEN "flush" ELSE "apply"]
    BY <1>4 DEF Apply, Written
  <2>2. /\ q.pc = IF r.todo = {i} THEN "flush" ELSE "apply"
        /\ q.op = r.op /\ q.key = r.key /\ q.cont = r.cont
        /\ q.snap = r.snap /\ q.todo = r.todo \ {i}
        /\ Others(t)
    BY <1>0, <2>1 DEF TasksOK, TaskRecord, Others
  <2>3. /\ r.todo \subseteq Used(r.snap) /\ r.snap \in [Slot -> SlotRecord]
        /\ Used(r.snap) \subseteq Slot
    BY <1>0 DEF TasksOK, TaskOK, CallOK, TaskRecord, Used
  <2> DEFINE k == p(i).key
  <2>4. i \in Slot /\ k \in StorageKey /\ k # NoKey /\ p(i).seq \in Nat
    BY <2>3 DEF Used, SlotRecord
  <2>5. \A l \in StorageKey : nvs'[l] = IF l = k THEN Written(p(i)) ELSE nvs[l]
    BY <1>0, <2>1, <2>4
  <2>6. pending[i].key = k /\ nvs[k].seq <= p(i).seq
    BY <1>0, <1>1, <2>3 DEF CommitAt, Known, CommitterInv, CommitOK
  <2>7. nvs[k].seq = p(i).seq => nvs[k] = Written(p(i))
    BY <1>0, <1>1 DEF StoreInv, LoopAt
  <2>8. GoneAt(r) /\ (Goes(q) <=> Goes(r))
    BY <1>0, <1>1, <2>2 DEF StoreInv, LoopAt, Goes, CommitPc
  <2>9. OneKey(pending) /\ OneKey(r.snap)
    BY DEF Known, Base, OneSlotPerKey
  <2>10. Written(p(i)).seq = p(i).seq /\ Written(p(i)).content = p(i).content
    BY DEF Written
  <2>11. p(i).seq = pending[i].seq => Written(p(i)) = Written(pending[i])
    BY <2>4, <2>6 DEF Known, Base, SeqInv, SeqNamesWrite
  <2>12. \A j \in r.todo : j # i => p(j).key # k /\ p(j).key \in StorageKey
    BY <2>3, <2>4, <2>9 DEF OneKey, Used, SlotRecord
  <2>13. \A j \in r.todo : nvs[p(j).key].seq = p(j).seq => nvs[p(j).key] = Written(p(j))
    BY <1>0, <1>1 DEF StoreInv, LoopAt
  <2>17. Goes(r) => /\ \A j \in r.todo : p(j).key = CatalogKey => r.key \notin p(j).content
                    /\ (\E j \in r.todo : p(j).key = CatalogKey) \/ r.key \notin nvs[CatalogKey].content
                    /\ \A j \in Slot : pending[j].key = CatalogKey => r.key \notin pending[j].content
    BY <1>0, <2>8 DEF GoneAt
  <2>18. \A l \in StorageKey : SnapWrite(l, Written(p(i))) \/ l # k
    BY DEF SnapWrite
  <2>19. ASSUME NEW l, NEW w, SnapWrite(l, w)'
         PROVE  SnapWrite(l, w)
    <3>1. \A u \in Task : task'[u].todo \subseteq task[u].todo /\ (u = t => task'[u].snap = task[u].snap)
                          /\ (u # t => task'[u] = task[u])
      BY <2>2 DEF Others
    <3>2. QED
      BY <2>19, <3>1 DEF SnapWrite
  <2> HIDE DEF r, k, p
  <2>20. DurableOK'
    <3> SUFFICES ASSUME NEW l \in StorageKey
                 PROVE  nvs'[l] = durable[l] \/ durable[l].seq < nvs'[l].seq
      BY <1>2 DEF DurableOK
    <3>1. nvs[l] = durable[l] \/ durable[l].seq < nvs[l].seq
      BY DEF StoreInv, DurableOK
    <3>2. nvs[l].seq \in Nat /\ durable[l].seq \in Nat
      BY <1>0 DEF Entry
    <3>3. QED
      BY <2>4, <2>5, <2>6, <2>7, <2>10, <3>1, <3>2
  <2>21. NamedOK'
    <3>1. ASSUME NEW j \in Slot, pending[j].key # NoKey, nvs'[pending[j].key].seq = pending[j].seq
          PROVE  nvs'[pending[j].key] = Written(pending[j])
      <4>1. pending[j].key \in StorageKey
        BY <3>1 DEF Known, Base, TypeOK, DataOK, SlotRecord
      <4>2. CASE pending[j].key = k
        <5>1. j = i
          BY <2>4, <2>6, <2>9, <4>2 DEF OneKey
        <5>2. QED
          BY <2>5, <2>10, <2>11, <3>1, <4>1, <4>2, <5>1
      <4>3. CASE pending[j].key # k
        BY <2>5, <3>1, <4>1, <4>3 DEF StoreInv, NamedOK, Used
      <4>4. QED
        BY <4>2, <4>3
    <3>2. QED
      BY <1>2, <3>1 DEF NamedOK, Used
  <2>22. TodoOK'
    BY <2>2 DEF StoreInv, TodoOK, Others
  <2>23. GoneAt(q)'
    <3> SUFFICES ASSUME Goes(r)
                 PROVE  GoneAt(q)'
      BY <2>8 DEF GoneAt
    <3>1. q.pc = "apply" => \/ \E j \in q.todo : p(j).key = CatalogKey
                            \/ r.key \notin nvs'[CatalogKey].content
      <4>1. CASE k = CatalogKey
        BY <2>4, <2>5, <2>10, <2>17, <4>1 DEF k
      <4>2. CASE k # CatalogKey
        BY <2>2, <2>5, <2>17, <4>2, RuntimeIsStorage DEF k
      <4>3. QED
        BY <4>1, <4>2
    <3>2. q.pc = "flush" => r.key \notin nvs'[CatalogKey].content
      <4>1. CASE k = CatalogKey
        BY <2>4, <2>5, <2>10, <2>17, <4>1 DEF k
      <4>2. CASE k # CatalogKey
        BY <2>2, <2>5, <2>17, <4>2, RuntimeIsStorage DEF k
      <4>3. QED
        BY <4>1, <4>2
    <3>3. q.pc \in {"apply", "flush"}
      BY <2>2
    <3>4. \A j \in q.todo : q.snap[j].key = CatalogKey => q.key \notin q.snap[j].content
      BY <2>2, <2>17 DEF p
    <3>5. QED
      BY <1>2, <2>2, <2>17, <3>1, <3>2, <3>3, <3>4 DEF GoneAt, p
  <2>24. LoopAt(q)'
    <3>1. \A j \in q.todo :
            nvs'[q.snap[j].key].seq = q.snap[j].seq => nvs'[q.snap[j].key] = Written(q.snap[j])
      <4> SUFFICES ASSUME NEW j \in q.todo, nvs'[p(j).key].seq = p(j).seq
                   PROVE  nvs'[p(j).key] = Written(p(j))
        BY <2>2 DEF p
      <4>1. j \in r.todo /\ j # i
        BY <2>2
      <4>2. nvs'[p(j).key] = nvs[p(j).key]
        BY <2>5, <2>12, <4>1
      <4>3. QED
        BY <2>13, <4>1, <4>2
    <3>2. q.pc # "stagecat"
      BY <2>2
    <3>3. QED
      BY <2>23, <3>1, <3>2 DEF LoopAt
  <2>25. StoreInv'
    BY <1>1, <2>20, <2>21, <2>22, <2>24 DEF StoreInv
  <2>26. Keep'
    BY <2>25 DEF Keep, Known
  <2>27. ASSUME NEW l \in StorageKey, NEW w \in InFlight(l)'
         PROVE  w \in InFlight(l) /\ durable'[l].seq < w.seq
    <3>1. StagedWrite(l, w)' => StagedWrite(l, w)
      BY <1>2 DEF StagedWrite
    <3>2. w = nvs'[l] => w = nvs[l] \/ SnapWrite(l, w)
      BY <2>5, <2>18
    <3>3. QED
      BY <1>2, <2>19, <3>1, <3>2, FlightMember
  <2>28. \A l \in StorageKey : Visible(l)' = Visible(l)
    BY ApplyKeeps
  <2>29. \A l \in StorageKey : durable[l].seq <= durable'[l].seq
    BY <1>0, <1>2 DEF Entry
  <2>30. QED
    BY <1>2, <2>25, <2>26, <2>27, <2>28, <2>29, PersistStep, PersistIsStep DEF Known
<1>5. QED
  BY <1>3, <1>4

LEMMA FlushStore ==
  ASSUME Known, CommitterInv', StoreInv, NEW t \in Task, Flush(t)
  PROVE  StoreInv' /\ StoreStep
<1>0. /\ TasksOK /\ task[t] \in TaskRecord /\ task[t].pc = "flush"
      /\ nvs \in [StorageKey -> Entry] /\ durable \in [StorageKey -> Entry]
  BY DEF Known, Base, TypeOK, DataOK, TasksOK, Flush, At
<1>1. t = LoopTask
  BY <1>0, CommitterOnly DEF WritePc
<1>2. UNCHANGED <<pending, nvs, registry>>
  BY DEF Flush, buffer
<1>3. CASE CommitFailed(t) /\ UNCHANGED durable
  BY <1>2, <1>3, FailStore
<1>4. CASE durable' = nvs /\ Goto(t, "clear")
  <2> DEFINE r == task[t]
  <2> PICK q : q = task'[t]
    OBVIOUS
  <2>1. /\ q.pc = "clear" /\ q.op = r.op /\ q.key = r.key /\ q.cont = r.cont
        /\ q.snap = r.snap /\ q.todo = r.todo /\ Others(t)
    BY <1>0, <1>4, GotoRecord, ControlOthers
  <2>2. r.todo = {}
    BY <1>0 DEF StoreInv, TodoOK
  <2>3. DurableOK' /\ NamedOK' /\ TodoOK'
    BY <1>2, <1>4, <2>1, <2>2 DEF StoreInv, DurableOK, NamedOK, TodoOK, Others, Used
  <2>4. GoneAt(q)'
    BY <1>0, <1>1, <1>2, <1>4, <2>1 DEF StoreInv, LoopAt, GoneAt, Goes, CommitPc
  <2>5. StoreInv'
    BY <1>1, <2>1, <2>3, <2>4 DEF StoreInv, LoopAt
  <2>6. Keep'
    BY <2>5 DEF Keep, Known
  <2>7. \A k \in StorageKey : /\ durable'[k] \in InFlight(k) \cup {durable[k]}
                              /\ durable[k].seq <= durable'[k].seq
    BY <1>0, <1>4, FlightMember DEF StoreInv, DurableOK, Entry
  <2>8. ASSUME NEW k \in StorageKey, NEW w \in InFlight(k)'
        PROVE  w \in InFlight(k) /\ durable'[k].seq < w.seq
    <3>1. StagedWrite(k, w)' => StagedWrite(k, w)
      BY <1>2 DEF StagedWrite
    <3>2. SnapWrite(k, w)' => SnapWrite(k, w)
      BY <2>1 DEF SnapWrite, Others
    <3>3. durable'[k].seq < w.seq
      BY FlightMember
    <3>4. w # nvs'[k]
      BY <1>0, <1>2, <1>4, <3>3 DEF Entry
    <3>5. w.seq \in Nat
      <4>1. StagedWrite(k, w) \/ SnapWrite(k, w)
        BY <3>1, <3>2, <3>4, FlightMember
      <4>2. \A u \in Task : task[u].snap \in [Slot -> SlotRecord] /\ task[u].todo \subseteq Slot
        BY <1>0 DEF TasksOK, TaskRecord
      <4>3. QED
        BY <4>1, <4>2 DEF StagedWrite, SnapWrite, Written, SlotRecord, Known, Base, TypeOK, DataOK
    <3>6. durable[k].seq < w.seq
      BY <1>0, <1>4, <2>7, <3>3, <3>5 DEF Entry
    <3>7. QED
      BY <3>1, <3>2, <3>3, <3>4, <3>6, FlightMember
  <2>9. \A k \in StorageKey : Visible(k)' = Visible(k)
    BY <1>2, SameRead
  <2>10. QED
    BY <1>2, <2>5, <2>6, <2>7, <2>8, <2>9, PersistStep, PersistIsStep DEF Known
<1>5. QED
  BY <1>3, <1>4 DEF Flush

\* Slots are freed.
LEMMA FreeStore ==
  ASSUME Known, StoreInv, NEW t \in Task, t = LoopTask, Others(t),
         UNCHANGED <<nvs, durable, registry>>,
         NEW S, pending' = [i \in Slot |-> IF i \in S THEN FreeSlot ELSE pending[i]],
         task[t].todo = {}, task'[t].todo = {}, Follows(task[t], task'[t])
  PROVE  /\ StoreInv'
         /\ \A k \in StorageKey : InFlight(k)' \subseteq InFlight(k)
         /\ \A k \in StorageKey :
              (\A i \in Slot : i \in S => pending[i].key # k) => InFlight(k)' = InFlight(k)
<1>1. \A i \in Slot : pending'[i] = IF i \in S THEN FreeSlot ELSE pending[i]
  OBVIOUS
<1>2. \A k \in StorageKey : k # FreeSlot.key
  BY RuntimeIsStorage DEF FreeSlot
<1>3. DurableOK' /\ TodoOK'
  BY DEF StoreInv, DurableOK, TodoOK, Others
<1>4. NamedOK'
  BY <1>1 DEF StoreInv, NamedOK, Used, FreeSlot
<1>5. PICK q : q = task'[t]
  OBVIOUS
<1>6. GoneAt(q)'
  BY <1>1, <1>2, <1>5, RuntimeIsStorage DEF StoreInv, LoopAt, GoneAt, Follows
<1>7. StoreInv'
  BY <1>3, <1>4, <1>5, <1>6 DEF StoreInv, LoopAt, Follows
<1>8. \A k, w : SnapWrite(k, w)' <=> SnapWrite(k, w)
  BY DEF SnapWrite, Others
<1>9. \A k \in StorageKey : \A w : StagedWrite(k, w)' => StagedWrite(k, w)
  BY <1>1, <1>2 DEF StagedWrite
<1>10. \A k \in StorageKey : InFlight(k)' \subseteq InFlight(k)
  BY <1>8, <1>9, FlightMember
<1>11. ASSUME NEW k \in StorageKey, \A i \in Slot : i \in S => pending[i].key # k
       PROVE  InFlight(k)' = InFlight(k)
  <2>1. \A w : StagedWrite(k, w) => StagedWrite(k, w)'
    BY <1>1, <1>11 DEF StagedWrite
  <2>2. \A w : w \in InFlight(k) => w \in InFlight(k)'
    BY <1>8, <2>1, FlightMember
  <2>3. QED
    BY <1>10, <2>2
<1>12. QED
  BY <1>7, <1>10, <1>11

LEMMA ClearStore ==
  ASSUME Known, CommitterInv', StoreInv, NEW t \in Task, Clear(t)
  PROVE  StoreInv' /\ StoreStep
<1>0. TasksOK /\ task[t] \in TaskRecord /\ task[t].pc = "clear"
  BY DEF Known, Base, TypeOK, TasksOK, Clear, At
<1>1. t = LoopTask
  BY <1>0, CommitterOnly DEF WritePc
<1>2. UNCHANGED <<nvs, durable, registry>> /\ Others(t)
  BY <1>0, ControlOthers DEF Clear, store
<1>3. /\ task'[t].pc = "count" /\ task'[t].op = task[t].op /\ task'[t].key = task[t].key
      /\ task'[t].cont = task[t].cont /\ task'[t].todo = task[t].todo
  BY <1>0, GotoRecord DEF Clear
<1>4. task[t].todo = {} /\ task'[t].todo = {}
  BY <1>0, <1>3 DEF StoreInv, TodoOK
<1>5. Follows(task[t], task'[t])
  BY <1>0, <1>3 DEF Follows, Goes, CommitPc
<1> DEFINE S == {i \in Slot : Committed(t, pending[i])}
<1>6. pending' = [i \in Slot |-> IF i \in S THEN FreeSlot ELSE pending[i]]
  BY DEF Clear
<1> HIDE DEF S
<1>7. StoreInv' /\ \A k \in StorageKey : InFlight(k)' \subseteq InFlight(k)
  BY <1>1, <1>2, <1>4, <1>5, <1>6, FreeStore
<1>8. Keep'
  BY <1>7 DEF Keep, Known
<1>9. \A k \in StorageKey : Visible(k)' = Visible(k)
  BY ClearKeeps
<1>10. \A k \in StorageKey : InFlight(k)' \subseteq {w \in InFlight(k) : durable'[k].seq < w.seq}
  BY <1>7, FlightMember
<1>11. \A k \in StorageKey : durable[k].seq <= durable'[k].seq
  BY <1>2 DEF Known, Base, TypeOK, DataOK, Entry
<1>12. QED
  BY <1>2, <1>7, <1>8, <1>9, <1>10, <1>11, PersistStep, PersistIsStep DEF Known

LEMMA CommitStore ==
  ASSUME Known, CommitterInv', StoreInv, NEW t \in Task, CommitStep(t) \/ StoreFault(t)
  PROVE  StoreInv' /\ StoreStep
<1>0. TasksOK
  BY DEF Known, Base, TypeOK
<1>1. CASE StoreFault(t)
  BY <1>1, FailStore DEF StoreFault, buffer, store
<1>2. CASE CountRemaining(t)
  <2>1. task[t].pc = "count" /\ UNCHANGED <<pending, nvs, durable, registry>>
    BY <1>2 DEF CountRemaining, At, buffer, store
  <2>2. Others(t)
    BY <1>0, <1>2, ControlOthers DEF CountRemaining
  <2>3. /\ task'[t].pc \in {"reset", "rearm"} /\ task'[t].op = task[t].op
        /\ task'[t].key = task[t].key /\ task'[t].cont = task[t].cont
        /\ task'[t].todo = task[t].todo
    BY <1>0, <1>2, GotoRecord DEF CountRemaining
  <2>4. task[t].todo = {}
    BY <2>1 DEF StoreInv, TodoOK
  <2>5. Follows(task[t], task'[t])
    BY <2>1, <2>3 DEF Follows, Goes, CommitPc
  <2>6. QED
    BY <2>1, <2>2, <2>3, <2>4, <2>5, QuietStore
<1>3. CASE ResetWindow(t) \/ RearmWindow(t)
  <2>1. /\ task[t].pc \in {"reset", "rearm"} /\ UNCHANGED <<pending, nvs, durable, registry>>
        /\ CommitDone(t)
    BY <1>3 DEF ResetWindow, RearmWindow, At, buffer, store
  <2>2. Others(t) /\ task'[t].todo = {}
    BY <1>0, <2>1, TodoEnds
  <2>3. Follows(task[t], task'[t])
    <3> DEFINE d == [task[t] EXCEPT !.snap = EmptyBuffer, !.todo = {}]
               again == [d EXCEPT !.pc = "clone", !.cont = "idle"]
               next  == [d EXCEPT !.pc = d.cont]
    <3>1. task[t] \in TaskRecord
      BY <1>0 DEF TasksOK
    <3>2. /\ again.pc = "clone" /\ again.cont = "idle"
          /\ next.pc = task[t].cont /\ next.op = task[t].op /\ next.key = task[t].key
          /\ next.cont = task[t].cont /\ Idle.pc = "idle"
      BY <3>1 DEF TaskRecord, Idle
    <3>3. task'[t] = Idle \/ task'[t] = again \/ task'[t] = next
      BY <1>0, <2>1 DEF CommitDone, TasksOK
    <3> HIDE DEF again, next
    <3>4. task[t].cont \in {"idle", "again", "lookup", "erase", "remove"}
      BY <3>1 DEF TaskRecord
    <3>5. QED
      BY <2>1, <3>2, <3>3, <3>4 DEF Follows, Goes, CommitPc
  <2>4. QED
    BY <2>1, <2>2, <2>3, QuietStore
<1>4. QED
  BY <1>1, <1>2, <1>3, CloneStore, ApplyStore, FlushStore, ClearStore DEF CommitStep

(***************************************************************************)
(* Calls, writes, the catalog.                                             *)
(***************************************************************************)
LEMMA CallStore ==
  ASSUME SingleCommitter, Known, CommitterInv', StoreInv, NEW t \in Task,
         Call(t) \/ Format(t) \/ LoopDue(t)
  PROVE  StoreInv' /\ StoreStep
<1>0. DOMAIN task = Task /\ task[t].pc = "idle" /\ TasksOK
  BY DEF Known, Base, TypeOK, TasksOK, Call, Set, Erase, Increment, Decrement, Create, Delete,
         Format, Begin, LoopDue, At
<1>1. UNCHANGED <<pending, nvs, durable, registry>> /\ Others(t)
  BY <1>0, OthersStay
     DEF Call, Set, Erase, Increment, Decrement, Create, Delete, Format, Begin, LoopDue, buffer, store
<1>2. ~Format(t)
  BY DEF SingleCommitter, Format, Begin
<1>3. /\ task'[t].pc \in {"resolve", "stage", "lookup", "insert", "delete", "clone"}
      /\ task'[t].cont = "idle" /\ task'[t].todo = {}
  <2>1. CASE Call(t)
    <3>1. PICK call, k, c, l : /\ Begin(t, call, k, c, l)
                              /\ l \in {"resolve", "stage", "lookup", "insert", "delete"}
      BY <2>1 DEF Call, Set, Erase, Increment, Decrement, Create, Delete
    <3>2. task'[t] = [Idle EXCEPT !.pc = l, !.op = call, !.key = k, !.val = c]
      BY <1>0, <3>1 DEF Begin
    <3>3. QED
      BY <3>1, <3>2 DEF Idle
  <2>2. CASE LoopDue(t)
    BY <1>0, <2>2 DEF LoopDue, Idle
  <2>3. QED
    BY <1>2, <2>1, <2>2
<1>4. Follows(task[t], task'[t])
  BY <1>3 DEF Follows, Goes
<1>5. QED
  BY <1>1, <1>3, <1>4, QuietStore

LEMMA WriteStore ==
  ASSUME Known, CommitterInv', StoreInv, NEW t \in Task,
         Lookup(t) \/ ReadNvs(t) \/ Resolve(t) \/ Schedule(t)
  PROVE  StoreInv' /\ StoreStep
<1>0. TasksOK
  BY DEF Known, Base, TypeOK
<1>1. UNCHANGED <<pending, nvs, durable, registry>> /\ task[t].pc # "apply"
  BY DEF Lookup, ReadNvs, Resolve, Schedule, At, buffer, store
<1>2. task[t].todo = {}
  BY <1>1 DEF StoreInv, TodoOK
<1>3. CASE Return(t) \/ Fail(t)
  BY <1>1, <1>3, FailStore
<1>4. CASE \/ Goto(t, "nvsread") \/ Goto(t, "stage") \/ \E c : Resolved(t, c)
           \/ CallCommit(t, "again") \/ CallCommit(t, "idle")
  <2>1. task'[t].todo = {} /\ Others(t)
    BY <1>0, <1>2, <1>4, TodoStays
  <2>2. \/ task'[t].pc \in {"nvsread", "stage", "resolve"}
        \/ task'[t].pc = "clone" /\ task'[t].cont \in {"again", "idle"}
    BY <1>0, <1>4, GotoRecord, CallCommitRecord DEF Resolved, TasksOK, TaskRecord
  <2>3. Follows(task[t], task'[t])
    BY <2>2 DEF Follows, Goes, CommitPc
  <2>4. QED
    BY <1>1, <2>1, <2>3, QuietStore
<1>5. \A c : UseValue(t, c) => Return(t) \/ \E d : Resolved(t, d)
  BY DEF UseValue
<1>6. QED
  BY <1>3, <1>4, <1>5 DEF Lookup, ReadNvs, Resolve, Schedule

LEMMA StageValueStore ==
  ASSUME Known, CommitterInv', StoreInv, NEW t \in Task, StageValue(t)
  PROVE  StoreInv' /\ StoreStep
<1>0. /\ TasksOK /\ task[t] \in TaskRecord /\ task[t].pc = "stage"
      /\ UNCHANGED <<nvs, durable, registry>>
  BY DEF Known, Base, TypeOK, TasksOK, StageValue, At, store
<1>1. PICK k \in RuntimeKey : k = task[t].key
  BY <1>0 DEF TasksOK, TaskOK, CallOK
<1>2. task[t].todo = {}
  BY <1>0 DEF StoreInv, TodoOK
<1>3. CASE Fail(t) /\ UNCHANGED buffer
  BY <1>0, <1>3, FailStore DEF buffer
<1>4. CASE Stage(k, task[t].val) /\ (CallCommit(t, "idle") \/ Goto(t, "schedule"))
  <2>1. task'[t].todo = {} /\ Others(t)
    BY <1>0, <1>2, <1>4, TodoStays
  <2>2. task'[t].pc = "schedule" \/ (task'[t].pc = "clone" /\ task'[t].cont = "idle")
    BY <1>0, <1>4, GotoRecord, CallCommitRecord
  <2>3. PICK q : q = task'[LoopTask]
    OBVIOUS
  <2>4. t = LoopTask => q.pc # "stagecat" /\ GoneAt(q)'
    BY <2>2, <2>3 DEF GoneAt, Goes, CommitPc
  <2>5. k \in StorageKey /\ k # CatalogKey
    BY RuntimeIsStorage
  <2>6. StoreInv'
    BY <1>0, <1>4, <2>1, <2>3, <2>4, <2>5, StageInv
  <2>7. StoreStep
    BY <1>0, <1>2, <1>4, <2>1, <2>5, StageStore
  <2>8. QED
    BY <2>6, <2>7
<1>5. QED
  BY <1>1, <1>3, <1>4 DEF StageValue

\* Slots and store as they were, and no snapshot in the hands of t.
LEMMA SameData ==
  ASSUME UNCHANGED <<pending, nvs, durable>>, NEW t \in Task, Others(t),
         task[t].todo = {}, task'[t].todo = {}
  PROVE  UNCHANGED Store!data
<1>1. \A k \in StorageKey : Visible(k)' = Visible(k)
  BY SameRead
<1>2. ASSUME NEW k \in StorageKey
      PROVE  InFlight(k)' = InFlight(k)
  <2>1. \A w : SnapWrite(k, w)' <=> SnapWrite(k, w)
    BY DEF SnapWrite, Others
  <2>2. \A w : StagedWrite(k, w)' <=> StagedWrite(k, w)
    BY DEF StagedWrite
  <2>3. \A w : w \in InFlight(k)' <=> w \in InFlight(k)
    BY <2>1, <2>2, FlightMember
  <2>4. InFlight(k)' \subseteq InFlight(k) /\ InFlight(k) \subseteq InFlight(k)'
    BY <2>3
  <2>5. QED
    BY <2>4
<1>3. QED
  BY <1>1, <1>2 DEF Store!data

LEMMA DoingMember ==
  ASSUME NEW t \in Task
  PROVE  task[t].key \in Doing(task[t].op)
BY DEF Doing

\* A key is registered, or its registration taken back.
LEMMA RegistryStore ==
  ASSUME Known, CommitterInv', StoreInv, NEW t \in Task, Insert(t) \/ Rollback(t)
  PROVE  StoreInv' /\ StoreStep
<1>0. /\ TasksOK /\ task[t] \in TaskRecord /\ task[t].pc \in {"insert", "rollback"}
      /\ UNCHANGED <<pending, nvs, durable>>
  BY DEF Known, Base, TypeOK, TasksOK, Insert, Rollback, At, buffer, store
<1>1. t = LoopTask
  BY <1>0, CommitterOnly DEF WritePc
<1>2. PICK k \in RuntimeKey : k = task[t].key /\ task[t].op = "create"
  BY <1>0 DEF TasksOK, TaskOK, CallOK, KeyOp
<1>3. k \in Doing("create") /\ k \in StorageKey
  BY <1>2, DoingMember, RuntimeIsStorage
<1>4. task[t].todo = {}
  BY <1>0 DEF StoreInv, TodoOK
<1>5. Return(t) \/ Goto(t, "catalog")
  BY DEF Insert, Rollback
<1>6. task'[t].todo = {} /\ Others(t)
  BY <1>0, <1>4, <1>5, TodoStays, TodoEnds
<1>7. task'[t].pc \in {"idle", "delete", "uncat", "discard", "catalog"}
  BY <1>0, <1>5, FailsAway, GotoRecord
<1>8. StoreInv'
  BY <1>0, <1>1, <1>6, <1>7, AwayFollows, QuietInv
<1>9. UNCHANGED Store!data
  BY <1>0, <1>4, <1>6, SameData
<1>10. \/ registry' = registry
       \/ k \notin registry /\ registry' = registry \cup {k}
       \/ k \in registry /\ registry' = registry \ {k}
  BY <1>2 DEF Insert, Rollback
<1>11. \/ UNCHANGED <<registry, Store!data>>
       \/ Store!Register(k) \/ Store!Unregister(k)
  BY <1>3, <1>9, <1>10 DEF Store!Register, Store!Unregister
<1>12. QED
  BY <1>3, <1>8, <1>11 DEF StoreStep, Store!StoreNext

LEMMA RemoveStore ==
  ASSUME Known, StoreInv, NEW t \in Task, Remove(t)
  PROVE  StoreInv' /\ StoreStep
<1>0. /\ TasksOK /\ task[t] \in TaskRecord /\ task[t].pc = "remove"
      /\ UNCHANGED <<pending, nvs, durable>>
  BY DEF Known, Base, TypeOK, TasksOK, Remove, At, buffer, store
<1>1. t = LoopTask
  BY <1>0, CommitterOnly DEF WritePc
<1>2. PICK k \in RuntimeKey : k = task[t].key /\ task[t].op = "delete"
  BY <1>0 DEF TasksOK, TaskOK, CallOK, KeyOp
<1>3. k \in Doing("delete") /\ k \in StorageKey
  BY <1>2, DoingMember, RuntimeIsStorage
<1>4. task[t].todo = {} /\ task'[t].todo = {} /\ Others(t) /\ task'[t].pc = "idle"
  BY <1>0, TodoEnds, IdleMoves DEF StoreInv, TodoOK, Remove, Return, TasksOK
<1>5. StoreInv'
  BY <1>0, <1>1, <1>4, AwayFollows, QuietInv
<1>6. UNCHANGED Store!data
  BY <1>0, <1>4, SameData
<1>7. registry' = registry \ {k}
  BY <1>2 DEF Remove
<1>8. \A w \in InFlight(CatalogKey) \cup {durable[CatalogKey]} : k \notin w.content
  <2>1. /\ \A i \in Slot : pending[i].key = CatalogKey => k \notin pending[i].content
        /\ k \notin nvs[CatalogKey].content /\ k \notin durable[CatalogKey].content
    BY <1>0, <1>1, <1>2 DEF StoreInv, LoopAt, GoneAt, Goes
  <2>2. \A u \in Task : task[u].todo = {}
    BY <1>1, <1>4 DEF StoreInv, TodoOK, Known, CommitterInv, WritersOK, WritePc
  <2>3. \A w : ~SnapWrite(CatalogKey, w)
    BY <2>2 DEF SnapWrite
  <2>4. \A w : StagedWrite(CatalogKey, w) => k \notin w.content
    BY <2>1 DEF StagedWrite, Written
  <2>5. QED
    BY <2>1, <2>3, <2>4, FlightMember
<1>9. UNCHANGED <<registry, Store!data>> \/ Store!Unregister(k)
  BY <1>3, <1>6, <1>7, <1>8, RuntimeIsStorage DEF Store!Unregister, Store!Possible
<1>10. QED
  BY <1>3, <1>5, <1>9 DEF StoreStep, Store!StoreNext

\* The catalog to be written is the registry, without the key of a delete.
LEMMA BuildStore ==
  ASSUME Known, CommitterInv', StoreInv, NEW t \in Task, BuildCatalog(t)
  PROVE  StoreInv' /\ StoreStep
<1>0. /\ TasksOK /\ task[t] \in TaskRecord /\ task[t].pc = "catalog"
      /\ UNCHANGED <<pending, nvs, durable, registry>>
  BY DEF Known, Base, TypeOK, TasksOK, BuildCatalog, At, buffer, store
<1>1. t = LoopTask
  BY <1>0, CommitterOnly DEF WritePc
<1>2. task[t].todo = {}
  BY <1>0 DEF StoreInv, TodoOK
<1>3. CASE CatalogFailed(t)
  <2>1. task'[t].todo = {} /\ Others(t)
    BY <1>0, <1>2, <1>3, TodoStays
  <2>2. task'[t].pc \in {"rollback", "discard"}
    BY <1>0, <1>3, GotoRecord DEF CatalogFailed
  <2>3. QED
    BY <1>0, <2>1, <2>2, AwayFollows, QuietStore
<1>4. CASE ~CatalogFailed(t)
  <2>1. PICK q : q = task'[t]
    OBVIOUS
  <2>2. /\ q.pc = "stagecat" /\ q.op = task[t].op /\ q.key = task[t].key /\ q.todo = {}
        /\ q.val = registry \ (IF q.op = "delete" THEN {q.key} ELSE {})
        /\ Others(t)
    <3>1. PICK c : /\ task' = [task EXCEPT ![t].pc = "stagecat", ![t].val = c]
                   /\ c = registry \ (IF task[t].op = "delete" THEN {task[t].key} ELSE {})
      BY <1>4 DEF BuildCatalog
    <3>2. QED
      BY <1>0, <1>2, <2>1, <3>1 DEF TasksOK, TaskRecord, Others
  <2>3. DurableOK' /\ NamedOK' /\ TodoOK'
    BY <1>0, <2>1, <2>2 DEF StoreInv, DurableOK, NamedOK, TodoOK, Others, Used
  <2>4. LoopAt(q)'
    BY <1>0, <2>2 DEF LoopAt, GoneAt, Goes, CommitPc
  <2>5. StoreInv'
    BY <1>1, <2>1, <2>3, <2>4 DEF StoreInv
  <2>6. UNCHANGED Store!data
    BY <1>0, <1>2, <2>1, <2>2, SameData
  <2>7. QED
    BY <1>0, <2>5, <2>6 DEF StoreStep, Store!StoreNext
<1>5. QED
  BY <1>3, <1>4

LEMMA DeleteStore ==
  ASSUME Known, CommitterInv', StoreInv, NEW t \in Task, FlushBeforeDelete(t) \/ StageErase(t)
  PROVE  StoreInv' /\ StoreStep
<1>0. /\ TasksOK /\ task[t] \in TaskRecord /\ task[t].pc \in {"delete", "erase"}
      /\ UNCHANGED <<nvs, durable, registry>>
  BY DEF Known, Base, TypeOK, TasksOK, FlushBeforeDelete, StageErase, At, store
<1>1. task[t].todo = {}
  BY <1>0 DEF StoreInv, TodoOK
<1>2. CASE Return(t) /\ UNCHANGED pending
  BY <1>0, <1>2, FailStore
<1>3. CASE (CallCommit(t, "erase") \/ Goto(t, "erase")) /\ UNCHANGED pending
  <2>1. task'[t].todo = {} /\ Others(t)
    BY <1>0, <1>1, <1>3, TodoStays
  <2>2. task'[t].pc = "erase" \/ (task'[t].pc = "clone" /\ task'[t].cont = "erase")
    BY <1>0, <1>3, GotoRecord, CallCommitRecord
  <2>3. Follows(task[t], task'[t])
    BY <2>2 DEF Follows, Goes, CommitPc
  <2>4. QED
    BY <1>0, <1>3, <2>1, <2>3, QuietStore
<1>4. CASE task[t].pc = "erase" /\ Stage(task[t].key, {}) /\ Goto(t, "catalog")
  <2>1. task'[t].todo = {} /\ Others(t)
    BY <1>0, <1>1, <1>4, TodoStays
  <2>2. task'[t].pc = "catalog"
    BY <1>0, <1>4, GotoRecord
  <2>3. PICK q : q = task'[LoopTask]
    OBVIOUS
  <2>4. t = LoopTask => q.pc # "stagecat" /\ GoneAt(q)'
    BY <2>2, <2>3 DEF GoneAt, Goes, CommitPc
  <2>5. PICK k : k = task[t].key /\ k \in StorageKey /\ k # CatalogKey
    BY <1>0, <1>4, RuntimeIsStorage DEF TasksOK, TaskOK, CallOK, KeyOp
  <2>6. StoreInv'
    BY <1>0, <1>4, <2>1, <2>3, <2>4, <2>5, StageInv
  <2>7. StoreStep
    BY <1>0, <1>1, <1>4, <2>1, <2>5, StageStore
  <2>8. QED
    BY <2>6, <2>7
<1>5. QED
  BY <1>2, <1>3, <1>4 DEF FlushBeforeDelete, StageErase, At, buffer

LEMMA StageCatalogStore ==
  ASSUME Known, CommitterInv', StoreInv, NEW t \in Task, StageCatalog(t)
  PROVE  StoreInv' /\ StoreStep
<1>0. /\ TasksOK /\ task[t] \in TaskRecord /\ task[t].pc = "stagecat"
      /\ task[t].op \in {"create", "delete"} /\ UNCHANGED <<nvs, durable, registry>>
  BY DEF Known, Base, TypeOK, TasksOK, TaskOK, CallOK, StageCatalog, At, store
<1>1. t = LoopTask
  BY <1>0, CommitterOnly DEF WritePc
<1>2. task[t].todo = {}
  BY <1>0 DEF StoreInv, TodoOK
<1>3. CASE CatalogFailed(t) /\ UNCHANGED buffer
  <2>1. task'[t].todo = {} /\ Others(t)
    BY <1>0, <1>2, <1>3, TodoStays
  <2>2. task'[t].pc \in {"rollback", "discard"}
    BY <1>0, <1>3, GotoRecord DEF CatalogFailed
  <2>3. QED
    BY <1>0, <1>3, <2>1, <2>2, AwayFollows, QuietStore DEF buffer
<1> PICK c : c = task[t].val
  OBVIOUS
<1>4. CASE /\ Stage(CatalogKey, c)
           /\ CallCommit(t, IF task[t].op = "create" THEN "lookup" ELSE "remove")
  <2>1. task'[t].todo = {} /\ Others(t)
    BY <1>0, <1>2, <1>4, TodoStays
  <2>2. PICK q : q = task'[LoopTask]
    OBVIOUS
  <2>3. q.pc = "clone" /\ q.op = task[t].op /\ q.key = task[t].key
    BY <1>0, <1>1, <1>4, <2>2, CallCommitRecord
  <2>4. c = registry \ (IF task[t].op = "delete" THEN {task[t].key} ELSE {})
    BY <1>0, <1>1 DEF StoreInv, LoopAt
  <2>5. GoneAt(q)'
    <3> SUFFICES ASSUME Goes(q)
                 PROVE  GoneAt(q)'
      BY DEF GoneAt
    <3>1. q.key \notin c
      BY <2>3, <2>4 DEF Goes
    <3>2. PICK i \in Slot :
            /\ IsFirst(i, StageTarget(CatalogKey))
            /\ pending' = [pending EXCEPT ![i] = [key |-> CatalogKey, content |-> c,
                                                  seq |-> pendingSeq + 1]]
      BY <1>4 DEF Stage
    <3>3. /\ \A j \in Slot : j # i => pending'[j] = pending[j]
          /\ pending'[i].key = CatalogKey /\ pending'[i].content = c
      BY <3>2 DEF Known, Base, TypeOK, DataOK
    <3>4. \A j \in Slot : pending'[j].key = CatalogKey => j = i
      BY <3>3, RuntimeIsStorage DEF Known, Base, OneSlotPerKey, OneKey
    <3>5. Staged(CatalogKey)'
      BY <3>3 DEF Staged
    <3>6. QED
      BY <2>3, <3>1, <3>3, <3>4, <3>5 DEF GoneAt
  <2>6. StoreInv'
    BY <1>0, <1>1, <1>4, <2>1, <2>2, <2>3, <2>5, RuntimeIsStorage, StageInv
  <2>7. c = registry \/ \E d \in Doing("delete") : c = registry \ {d}
    <3>1. CASE task[t].op = "delete"
      BY <2>4, <3>1, DoingMember
    <3>2. CASE task[t].op # "delete"
      BY <2>4, <3>2
    <3>3. QED
      BY <3>1, <3>2
  <2>8. StoreStep
    BY <1>0, <1>2, <1>4, <2>1, <2>7, RuntimeIsStorage, StageStore
  <2>9. QED
    BY <2>6, <2>8
<1>5. QED
  BY <1>3, <1>4 DEF StageCatalog

\* A create or a delete that fails gives its writes up.
LEMMA DiscardStore ==
  ASSUME Known, CommitterInv', StoreInv, NEW t \in Task, DiscardValue(t) \/ DiscardCatalog(t)
  PROVE  StoreInv' /\ StoreStep
<1>0. /\ TasksOK /\ task[t] \in TaskRecord /\ task[t].pc \in {"discard", "uncat"}
      /\ UNCHANGED <<nvs, durable, registry>>
  BY DEF Known, Base, TypeOK, TasksOK, DiscardValue, DiscardCatalog, At, store
<1>1. t = LoopTask
  BY <1>0, CommitterOnly DEF WritePc
<1>2. task[t].todo = {}
  BY <1>0 DEF StoreInv, TodoOK
<1>3. Return(t) \/ Goto(t, "uncat") \/ Goto(t, "rollback")
  BY DEF DiscardValue, DiscardCatalog
<1>4. task'[t].todo = {} /\ Others(t)
  BY <1>0, <1>2, <1>3, TodoStays, TodoEnds
<1>5. task'[t].pc \in {"idle", "delete", "uncat", "discard", "rollback"}
  BY <1>0, <1>3, FailsAway, GotoRecord
<1>6. Follows(task[t], task'[t])
  BY <1>5, AwayFollows
<1>7. PICK k \in StorageKey : /\ Discard(k)
                              /\ \/ k = task[t].key /\ task[t].op = "delete"
                                 \/ k = CatalogKey /\ task[t].op \in {"create", "delete"}
  BY <1>0, RuntimeIsStorage
     DEF DiscardValue, DiscardCatalog, At, TasksOK, TaskOK, CallOK, KeyOp
<1>8. \/ k \in Doing("delete")
      \/ k = CatalogKey /\ Doing("create") \cup Doing("delete") # {}
  BY <1>7, DoingMember
<1> DEFINE S == {i \in Slot : IsFirst(i, k)}
<1>9. pending' = [i \in Slot |-> IF i \in S THEN FreeSlot ELSE pending[i]]
  BY <1>7 DEF Discard
<1>10. \A i \in Slot : i \in S <=> pending[i].key = k
  BY FirstIsOnly DEF IsFirst
<1> HIDE DEF S
<1>11. /\ StoreInv'
       /\ \A l \in StorageKey : InFlight(l)' \subseteq InFlight(l)
       /\ \A l \in StorageKey : l # k => InFlight(l)' = InFlight(l)
  BY <1>0, <1>1, <1>2, <1>4, <1>6, <1>9, <1>10, FreeStore
<1>12. /\ Visible(k)' = nvs[k]
       /\ \A l \in StorageKey : l # k => Visible(l)' = Visible(l)
  BY <1>0, <1>9, <1>10, FreedShows
<1>13. nvs[k] \in InFlight(k) \cup {durable[k]}
  BY FlightMember DEF StoreInv, DurableOK
<1>14. Store!Others(k)
  BY <1>0, <1>11, <1>12 DEF Store!Others
<1>15. Store!GiveUp(k)
  BY <1>0, <1>8, <1>11, <1>12, <1>13, <1>14 DEF Store!GiveUp, Store!MayGiveUp, Store!Possible
<1>16. QED
  BY <1>11, <1>15 DEF StoreStep, Store!StoreNext

LEMMA StepStore ==
  ASSUME Known, CommitterInv', StoreInv, NEW t \in Task, Step(t) \/ StoreFault(t)
  PROVE  StoreInv' /\ StoreStep
<1>1. CASE CommitStep(t) \/ StoreFault(t)
  BY <1>1, CommitStore
<1>2. CASE WriteStep(t)
  BY <1>2, WriteStore, StageValueStore DEF WriteStep
<1>3. CASE CatalogStep(t)
  BY <1>3, RegistryStore, RemoveStore, BuildStore, DeleteStore, StageCatalogStore, DiscardStore
     DEF CatalogStep
<1>4. ~FormatStep(t)
  BY DEF FormatStep, FormatBuffer, FormatRegistry, FormatWindow, FormatStore, At,
         Known, Base, NoFormat, FormatPc
<1>5. QED
  BY <1>1, <1>2, <1>3, <1>4 DEF Step

(***************************************************************************)
(* A power loss, and the refinement.                                       *)
(***************************************************************************)
\* Nobody writes, and NVS and flash hold the same.
Settled ==
  /\ \A t \in Task : task[t] = Idle
  /\ pending = EmptyBuffer
  /\ nvs = durable

LEMMA IdleRecord == /\ Idle.pc = "idle" /\ Idle.op = "none" /\ Idle.todo = {}
                    /\ \A i \in Slot : EmptyBuffer[i].key = NoKey
BY DEF Idle, EmptyBuffer, FreeSlot

LEMMA SettledStore == Settled => StoreInv
<1> SUFFICES ASSUME Settled PROVE StoreInv
  OBVIOUS
<1>1. task[LoopTask] = Idle
  BY DEF Settled
<1>2. DurableOK /\ NamedOK /\ TodoOK
  BY IdleRecord DEF Settled, DurableOK, NamedOK, TodoOK, Used
<1>3. LoopAt(Idle)
  BY IdleRecord DEF LoopAt, GoneAt, Goes, CommitPc
<1>4. QED
  BY <1>1, <1>2, <1>3 DEF StoreInv

\* What the store shows then.
SettledView ==
  /\ \A k \in StorageKey : Visible(k) = durable[k]
  /\ \A k \in StorageKey : \A w : ~StagedWrite(k, w) /\ ~SnapWrite(k, w)
  /\ Doing("create") = {} /\ Doing("delete") = {}
  /\ ~\E t \in Task : task[t].op = "format"

LEMMA SettledReads == Settled => SettledView
<1> SUFFICES ASSUME Settled PROVE SettledView
  OBVIOUS
<1>1. \A i \in Slot : pending[i].key = NoKey
  BY IdleRecord DEF Settled
<1>2. \A k \in StorageKey : Visible(k) = durable[k]
  BY <1>1, SeenStored, VisibleIsSeen, RuntimeIsStorage DEF Settled
<1>3. \A k \in StorageKey : \A w : ~StagedWrite(k, w) /\ ~SnapWrite(k, w)
  BY <1>1, IdleRecord, RuntimeIsStorage DEF Settled, StagedWrite, SnapWrite
<1>4. Doing("create") = {} /\ Doing("delete") = {} /\ ~\E t \in Task : task[t].op = "format"
  BY IdleRecord DEF Settled, Doing
<1>5. QED
  BY <1>2, <1>3, <1>4 DEF SettledView

LEMMA CrashStore ==
  ASSUME StoreInv, TypeOK, Crash
  PROVE  StoreInv' /\ StoreStep
<1>1. PICK kept \in SUBSET StorageKey :
        /\ durable' = [k \in StorageKey |->
                        [content |-> IF k \in kept THEN nvs[k].content ELSE durable[k].content,
                         seq |-> 0]]
        /\ nvs' = durable' /\ registry' = durable'[CatalogKey].content
  BY DEF Crash
<1>2. Settled'
  BY <1>1 DEF Crash, Settled
<1>3. StoreInv'
  BY <1>2, SettledStore, PTL
<1>4. /\ \A k \in StorageKey : Visible(k)' = durable'[k]
      /\ \A k \in StorageKey : \A w : ~StagedWrite(k, w)' /\ ~SnapWrite(k, w)'
      /\ Doing("create")' = {} /\ Doing("delete")' = {}
      /\ ~\E t \in Task : task'[t].op = "format"
  <2>1. SettledView'
    BY <1>2, SettledReads, PTL
  <2>2. QED
    BY <2>1 DEF SettledView
<1>5. \A k \in StorageKey : InFlight(k)' = {}
  <2> SUFFICES ASSUME NEW k \in StorageKey, NEW w \in InFlight(k)' PROVE FALSE
    OBVIOUS
  <2>1. durable'[k].seq < w.seq /\ w = nvs'[k]
    BY <1>4, FlightMember
  <2>2. nvs'[k] = durable'[k] /\ durable'[k].seq = 0
    BY <1>1
  <2>3. QED
    BY <2>1, <2>2
<1>6. ASSUME NEW k \in StorageKey
      PROVE  \E w \in InFlight(k) \cup {durable[k]} :
               durable'[k] = [content |-> w.content, seq |-> 0]
  <2>1. nvs[k] \in InFlight(k) \cup {durable[k]}
    BY FlightMember DEF StoreInv, DurableOK
  <2>2. CASE k \in kept
    BY <1>1, <2>1, <2>2
  <2>3. CASE k \notin kept
    BY <1>1, <2>3
  <2>4. QED
    BY <2>2, <2>3
<1>7. [k \in StorageKey |-> Visible(k)]' = durable'
  BY <1>1, <1>4
<1>8. [k \in StorageKey |-> InFlight(k)]' = [k \in StorageKey |-> {}]
  BY <1>5
<1>9. Store!PowerLoss
  BY <1>1, <1>4, <1>6, <1>7, <1>8 DEF Store!PowerLoss, Store!Possible
<1>10. QED
  BY <1>3, <1>9 DEF StoreStep, Store!StoreNext

LEMMA NextStore ==
  ASSUME SingleCommitter, Known, CommitterInv', StoreInv, [Next]_vars
  PROVE  StoreInv' /\ StoreStep
<1>1. CASE \E t \in Task : Call(t) \/ Format(t) \/ LoopDue(t)
  BY <1>1, CallStore
<1>2. CASE \E t \in Task : Step(t) \/ StoreFault(t)
  BY <1>2, StepStore
<1>3. CASE TimePasses \/ ChangeDelay \/ UNCHANGED vars
  <2>1. UNCHANGED <<pending, nvs, durable, registry, task>>
    BY <1>3 DEF TimePasses, ChangeDelay, vars, buffer, store
  <2>2. StoreInv'
    <3> PICK q : q = task[LoopTask]
      OBVIOUS
    <3>1. LoopAt(q)'
      BY <2>1 DEF StoreInv, LoopAt, GoneAt, Staged
    <3>2. QED
      BY <2>1, <3>1 DEF StoreInv, DurableOK, NamedOK, TodoOK, Used
  <2>3. \A k \in StorageKey : Visible(k)' = Visible(k) /\ InFlight(k)' = InFlight(k)
    BY <2>1, SameRead DEF InFlight
  <2>4. UNCHANGED Store!data
    BY <2>1, <2>3 DEF Store!data
  <2>5. QED
    BY <2>1, <2>2, <2>4 DEF StoreStep, Store!StoreNext
<1>4. CASE Crash
  BY <1>4, CrashStore DEF Known, Base
<1>5. QED
  BY <1>1, <1>2, <1>3, <1>4 DEF Next, Rest

LEMMA StoreInits == Init => Store!StoreInit
<1> SUFFICES ASSUME Init PROVE Store!StoreInit
  OBVIOUS
<1>1. \A k \in StorageKey : nvs[k] = NoEntry /\ durable[k] = NoEntry
  BY DEF Init, Blank
<1>2. \A t \in Task : task[t] = Idle
  BY DEF Init
<1>3. Idle.todo = {} /\ Idle.op = "none"
  BY DEF Idle
<1>4. \A i \in Slot : pending[i].key = NoKey
  BY DEF Init, EmptyBuffer, FreeSlot
<1>5. \A k \in StorageKey : Visible(k) = NoEntry
  BY <1>1, <1>4, SeenStored, VisibleIsSeen, RuntimeIsStorage
<1>6. \A k \in StorageKey : InFlight(k) = {}
  <2> SUFFICES ASSUME NEW k \in StorageKey, NEW w \in InFlight(k) PROVE FALSE
    OBVIOUS
  <2>1. k # NoKey /\ NoEntry.seq = 0
    BY RuntimeIsStorage DEF NoEntry
  <2>2. w = nvs[k] /\ w.seq > durable[k].seq
    BY <1>2, <1>3, <1>4, <2>1 DEF InFlight
  <2>3. QED
    BY <1>1, <2>1, <2>2
<1>7. durable = [k \in StorageKey |-> NoEntry] /\ registry = {}
  BY DEF Init, Blank
<1>8. Doing("create") = {} /\ Doing("delete") = {} /\ ~\E t \in Task : task[t].op = "format"
  BY <1>2, <1>3 DEF Doing
<1>9. QED
  BY <1>5, <1>6, <1>7, <1>8 DEF Store!StoreInit

\* The service implements the store that KeyValueStore promises when one task
\* commits: ImplementsStore, for any number of writers, keys, slots, faults and
\* power losses.
THEOREM Implementation ==
  ASSUME SingleCommitter
  PROVE  Spec => ImplementsStore
<1>1. Init => StoreInv
  BY SettledStore DEF Init, Settled
<1>2. /\ Base /\ Base' /\ CommitterInv /\ CommitterInv' /\ StoreInv /\ [Next]_vars
           => StoreInv' /\ StoreStep
  BY NextStore DEF Known
<1>3. Spec => [](Base /\ CommitterInv)
  BY CommitterInvariant
<1>4. QED
  BY <1>1, <1>2, <1>3, StoreInits, PTL DEF Spec, ImplementsStore, Store!StoreSpec, StoreStep
=============================================================================
