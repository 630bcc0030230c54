--------------------------- MODULE WebConsoleProofs ---------------------------
(***************************************************************************)
(* What holds of the web console for every number of tasks, browsers,      *)
(* lines and queue places.                                                 *)
(***************************************************************************)
EXTENDS WebConsole, SequenceTheorems, TLAPS

USE TaskAssumption, NumberAssumption

(***************************************************************************)
(* The inductive invariant.                                                *)
(***************************************************************************)
TaskRecord == [pc : {"idle", "emit", "give", "count", "all", "each", "lock", "unlock"},
               line : Nat, c : Nat]
HandlerRecord == [pc : {"idle", "size", "copy", "ready", "lock", "list", "output", "leave", "left"},
                  c : Nat, used : Nat]
ClientRecord == [status : {"absent", "connected", "disconnecting"},
                 queued : 0 .. QueueMax, lines : SUBSET (1 .. stored)]

Shape ==
  /\ sink \in Task \cup {Nobody} /\ files \in Task \cup {Nobody}
  /\ stored \in Nat /\ done \subseteq 1 .. stored /\ reset \in BOOLEAN
  /\ task \in [Task -> TaskRecord] /\ handler \in HandlerRecord /\ handler.used <= stored
  /\ client \in [Client -> ClientRecord] /\ cut \in [Client -> Nat]

\* Clients are listed once each, in the order in which they joined.
ListOK ==
  /\ clients \in Seq(Client) /\ joined \in 0 .. MaxClients
  /\ \A i \in DOMAIN clients : clients[i] <= joined
  /\ \A i, j \in DOMAIN clients : i < j => clients[i] < clients[j]

\* The web socket's lock: who has it, and how often, follows from where the
\* tasks stand.
InEvent    == handler.pc \in {"size", "copy", "ready", "left"}
Holds(t)   == task[t].pc = "each" \/ (t = Net /\ InEvent)
Depth(t)   == IF task[t].pc = "each" /\ t = Net /\ InEvent THEN 2
              ELSE IF Holds(t) THEN 1 ELSE 0
LockOK ==
  /\ ws \in [holder : Task \cup {Nobody}, depth : 0 .. 2]
  /\ ws.holder = Nobody <=> ws.depth = 0
  /\ \A t \in Task : Depth(t) = IF ws.holder = t THEN ws.depth ELSE 0

\* The clients that tasks go on with.
Attends == handler.pc \in {"size", "copy", "ready", "lock", "list", "output", "leave"}
AliveOK ==
  /\ \A t \in Task : task[t].pc = "each" => Listed(task[t].c)
  /\ Attends => Listed(handler.c)

\* A line that a task has stored and not yet broadcast to client c.
Carries(t)    == task[t].pc \in {"give", "count", "all", "each"}
Pending(t, c) == Carries(t) /\ (task[t].pc = "each" => task[t].c <= c)
LinesOK ==
  /\ \A t \in Task : Carries(t) => task[t].line \in (1 .. stored) \ done
  /\ \A t, u \in Task : Carries(t) /\ Carries(u) /\ task[t].line = task[u].line => t = u

\* A client that has been sent the history has every later line, or will.
Welcomed(c) ==
  c \in Connected /\ Linked(c) /\ ~(handler.pc \in {"size", "copy"} /\ handler.c = c)
DeliverOK ==
  \A c \in Client : Welcomed(c) =>
    \A line \in 1 .. stored : line > cut[c] =>
      line \in client[c].lines \/ \E t \in Task : task[t].line = line /\ Pending(t, c)

Inv == Shape /\ ListOK /\ LockOK /\ AliveOK /\ LinesOK /\ (~reset => DeliverOK)

LEMMA Initially == Init => Inv
<1> SUFFICES ASSUME Init PROVE Inv
  OBVIOUS
<1>1. NoCall \in TaskRecord /\ NoCall.pc = "idle" /\ NoEvent \in HandlerRecord /\ NoEvent.pc = "idle"
      /\ NoEvent.used = 0 /\ Net \in Task /\ \A t \in Task : task[t] = NoCall
  BY DEF Init, NoCall, NoEvent, TaskRecord, HandlerRecord, Task
<1>2. Absent \in ClientRecord
  BY DEF Absent, ClientRecord
<1>3. Shape
  <2>1. client \in [Client -> ClientRecord] /\ task \in [Task -> TaskRecord]
    BY <1>1, <1>2 DEF Init
  <2>2. cut \in [Client -> Nat] /\ done \subseteq 1 .. stored /\ stored \in Nat
    BY DEF Init
  <2>3. handler \in HandlerRecord /\ handler.used <= stored
    BY <1>1 DEF Init
  <2>4. QED
    BY <2>1, <2>2, <2>3 DEF Init, Shape
<1>4. ListOK
  BY DEF Init, ListOK
<1>5. LockOK
  BY <1>1 DEF Init, LockOK, Free, Depth, Holds, InEvent
<1>6. AliveOK
  BY <1>1 DEF Init, AliveOK, Attends
<1>7. LinesOK
  BY <1>1 DEF LinesOK, Carries
<1>8. DeliverOK
  BY DEF Init, DeliverOK, Welcomed, Linked, Connected, Listed
<1>9. QED
  BY <1>3, <1>4, <1>5, <1>6, <1>7, <1>8 DEF Inv

(***************************************************************************)
(* Tasks, the lock and clients.                                            *)
(***************************************************************************)
LEMMA Constants ==
  /\ Net \in Task /\ NoCall \in TaskRecord /\ NoCall.pc = "idle"
  /\ NoEvent \in HandlerRecord /\ NoEvent.pc = "idle" /\ NoEvent.used = 0
  /\ \A pc \in {"idle", "emit", "unlock"} :
       /\ [NoCall EXCEPT !.pc = pc] \in TaskRecord /\ [NoCall EXCEPT !.pc = pc].pc = pc
BY DEF NoCall, NoEvent, TaskRecord, HandlerRecord, Task

LEMMA SetTask ==
  ASSUME Shape, NEW t \in Task, NEW r \in TaskRecord, task' = [task EXCEPT ![t] = r]
  PROVE  /\ task' \in [Task -> TaskRecord] /\ task'[t] = r
         /\ \A u \in Task : u # t => task'[u] = task[u]
BY DEF Shape

\* What one log or files step does to the tasks.
Moves(t) == task' \in [Task -> TaskRecord] /\ \A u \in Task : u # t => task'[u] = task[u]

LEMMA SetPc ==
  ASSUME Shape, NEW t \in Task,
         NEW pc \in {"idle", "emit", "give", "count", "all", "each", "lock", "unlock"},
         task' = [task EXCEPT ![t].pc = pc]
  PROVE  Moves(t) /\ task'[t].pc = pc /\ task'[t].line = task[t].line /\ task'[t].c = task[t].c
<1> DEFINE r == [task[t] EXCEPT !.pc = pc]
<1>1. r \in TaskRecord /\ r.pc = pc /\ r.line = task[t].line /\ r.c = task[t].c
  BY DEF Shape, TaskRecord
<1>2. task' = [task EXCEPT ![t] = r]
  BY DEF Shape
<1> HIDE DEF r
<1>3. QED
  BY <1>1, <1>2, SetTask DEF Moves

LEMMA LogStarts ==
  ASSUME Shape, NEW t \in Task, StartLog(t)
  PROVE  Moves(t) /\ task'[t].pc = "emit"
BY Constants, SetTask DEF StartLog, Moves

LEMMA LogEnds ==
  ASSUME Shape, NEW t \in Task, EndLog(t)
  PROVE  /\ Moves(t) /\ task'[t].pc \in {"idle", "unlock"}
         /\ done' = done \cup {task[t].line}
<1>1. PICK pc \in {"idle", "unlock"} : task' = [task EXCEPT ![t] = [NoCall EXCEPT !.pc = pc]]
  BY DEF EndLog, NoCall
<1>2. QED
  BY <1>1, Constants, SetTask DEF EndLog, Moves

\* A task that is not idle in the loop or in an event finds the lock free.
LEMMA LockIsFree ==
  ASSUME Inv, NEW t \in Task, MayLock(t), task[t].pc # "each", t = Net => ~InEvent
  PROVE  ws.holder = Nobody /\ ws.depth = 0
BY DEF Inv, LockOK, MayLock, Depth, Holds

\* What a message does to a client: it is queued, or nothing, or a reset.
LEMMA TextDoes ==
  ASSUME Shape, NEW c \in Client, NEW lines \in SUBSET (1 .. stored), Text(c, lines),
         UNCHANGED stored
  PROVE  /\ client' \in [Client -> ClientRecord]
         /\ reset' \in BOOLEAN /\ (reset => reset')
         /\ \A d \in Client : /\ client'[d].status = client[d].status
                              /\ client[d].lines \subseteq client'[d].lines
         /\ ~reset' /\ client[c].status = "connected" /\ Linked(c)
              => lines \subseteq client'[c].lines
<1>1. client \in [Client -> ClientRecord] /\ client[c] \in ClientRecord
  BY DEF Shape
<1>2. reset' \in BOOLEAN /\ (reset => reset')
  BY DEF Shape, Text
<1>3. client[c].queued \in 0 .. QueueMax /\ client[c].lines \subseteq 1 .. stored
  BY <1>1 DEF ClientRecord
<1>4. CASE UNCHANGED client /\ (client[c].status # "connected" \/ ~Linked(c) \/ reset' = TRUE)
  BY <1>1, <1>2, <1>4
<1>5. CASE /\ client[c].queued < QueueMax
           /\ client' = [client EXCEPT ![c].queued = @ + 1, ![c].lines = @ \cup lines]
  <2>1. PICK q, ll : q = client[c].queued + 1 /\ ll = client[c].lines \cup lines
    OBVIOUS
  <2>2. q \in 0 .. QueueMax
    BY <1>3, <1>5, <2>1
  <2>3. ll \in SUBSET (1 .. stored) /\ client[c].lines \subseteq ll /\ lines \subseteq ll
    BY <1>3, <2>1
  <2> DEFINE r == [client[c] EXCEPT !.queued = q, !.lines = ll]
  <2>4. r \in ClientRecord /\ r.status = client[c].status /\ r.lines = ll
    BY <1>1, <2>2, <2>3 DEF ClientRecord
  <2>5. client' = [client EXCEPT ![c] = r]
    BY <1>1, <1>5, <2>1 DEF ClientRecord
  <2> HIDE DEF r
  <2>6. client' \in [Client -> ClientRecord] /\ client'[c] = r
        /\ \A d \in Client : d # c => client'[d] = client[d]
    BY <1>1, <2>4, <2>5
  <2>7. \A d \in Client : /\ client'[d].status = client[d].status
                          /\ client[d].lines \subseteq client'[d].lines
    BY <2>3, <2>4, <2>6
  <2>8. QED
    BY <1>2, <2>3, <2>4, <2>6, <2>7
<1>6. QED
  <2>1. CASE client[c].status # "connected" \/ ~Linked(c)
    BY <1>4, <2>1 DEF Text
  <2>2. CASE client[c].status = "connected" /\ Linked(c) /\ client[c].queued >= QueueMax
    BY <1>4, <2>2 DEF Text
  <2>3. CASE client[c].status = "connected" /\ Linked(c) /\ ~(client[c].queued >= QueueMax)
    BY <1>3, <1>5, <2>3 DEF Text
  <2>4. QED
    BY <2>1, <2>2, <2>3

(***************************************************************************)
(* Steps of a log or files call.                                           *)
(***************************************************************************)
\* Types, for a step that stores no line.
LEMMA ShapeKept ==
  ASSUME Shape, stored' = stored,
         task' \in [Task -> TaskRecord], handler' \in HandlerRecord, handler'.used <= stored,
         client' \in [Client -> ClientRecord], cut' \in [Client -> Nat],
         done' \subseteq 1 .. stored, reset' \in BOOLEAN,
         sink' \in Task \cup {Nobody}, files' \in Task \cup {Nobody}
  PROVE  Shape'
<1>1. ClientRecord' = ClientRecord
  BY DEF ClientRecord
<1>2. QED
  BY <1>1 DEF Shape

\* The lines that tasks carry, after a step of t that stores none: t goes on
\* with its line or has no line, and only a line it carried is done.
LEMMA LinesKept ==
  ASSUME Shape, LinesOK, NEW t \in Task, Moves(t), stored' = stored,
         \/ Carries(t) /\ task'[t].line = task[t].line /\ done' = done
         \/ ~Carries(t)' /\ done' = done
         \/ ~Carries(t)' /\ Carries(t) /\ done' = done \cup {task[t].line}
  PROVE  LinesOK' /\ done' \subseteq 1 .. stored
<1>1. \A u \in Task : Carries(u)' => Carries(u) /\ task'[u].line = task[u].line
  <2>1. \A u \in Task : u # t => (Carries(u)' <=> Carries(u))
    BY DEF Moves, Carries
  <2>2. ~Carries(t)' \/ (Carries(t) /\ task'[t].line = task[t].line)
    OBVIOUS
  <2>3. QED
    BY <2>1, <2>2 DEF Moves
<1>2. \A u \in Task : Carries(u)' => task[u].line \notin done'
  <2>1. \A u \in Task : Carries(u) => task[u].line \notin done
    BY DEF LinesOK
  <2>2. \A u \in Task : Carries(t) /\ Carries(u) /\ task[u].line = task[t].line => u = t
    BY DEF LinesOK
  <2>3. QED
    BY <1>1, <2>1, <2>2
<1>3. \A u \in Task : Carries(u) => task[u].line \in 1 .. stored
  BY DEF LinesOK
<1>4. done' \subseteq 1 .. stored
  BY <1>3 DEF Shape
<1>5. \A u, v \in Task : Carries(u)' /\ Carries(v)' /\ task'[u].line = task'[v].line => u = v
  BY <1>1 DEF LinesOK
<1>6. \A u \in Task : Carries(u)' => task'[u].line \in (1 .. stored') \ done'
  BY <1>1, <1>2, <1>3
<1>7. QED
  BY <1>4, <1>5, <1>6 DEF LinesOK

\* A step of t outside the loop over the clients.
LEMMA QuietStep ==
  ASSUME Inv, NEW t \in Task, Moves(t), task[t].pc # "each", task'[t].pc # "each",
         UNCHANGED <<ws, stored, clients, client, handler, cut, joined, reset>>,
         sink' \in Task \cup {Nobody}, files' \in Task \cup {Nobody},
         \/ Carries(t) /\ Carries(t)' /\ task'[t].line = task[t].line /\ done' = done
         \/ ~Carries(t) /\ ~Carries(t)' /\ done' = done
         \/ ~Carries(t)' /\ Carries(t) /\ done' = done \cup {task[t].line} /\ Connected = {}
  PROVE  Inv'
<1>1. LinesOK' /\ done' \subseteq 1 .. stored
  BY LinesKept DEF Inv
<1>2. Shape'
  BY <1>1, ShapeKept DEF Inv, Shape, Moves
<1>3. ListOK'
  BY DEF Inv, ListOK
<1>4. LockOK'
  <2>1. \A u \in Task : Depth(u)' = Depth(u)
    BY DEF Depth, Holds, InEvent, Moves
  <2>2. QED
    BY <2>1 DEF Inv, LockOK
<1>5. AliveOK'
  BY DEF Inv, AliveOK, Attends, Listed, Moves
<1>6. ASSUME DeliverOK PROVE DeliverOK'
  <2>1. \A c : c \in Connected' <=> c \in Connected
    BY DEF Connected, Listed
  <2> SUFFICES ASSUME NEW c \in Client, Welcomed(c)', NEW line \in 1 .. stored, line > cut[c],
                      line \notin client[c].lines
               PROVE  \E u \in Task : task'[u].line = line /\ Pending(u, c)'
    BY DEF DeliverOK
  <2>2. Welcomed(c) /\ Connected # {}
    BY <2>1 DEF Welcomed, Linked
  <2>3. PICK u \in Task : task[u].line = line /\ Pending(u, c)
    BY <1>6, <2>2 DEF DeliverOK
  <2>4. CASE u # t
    BY <2>3, <2>4 DEF Moves, Pending, Carries
  <2>5. CASE u = t
    <3>1. Carries(t) /\ Carries(t)' /\ task'[t].line = task[t].line
      BY <2>2, <2>3, <2>5 DEF Pending
    <3>2. QED
      BY <2>3, <2>5, <3>1 DEF Pending
  <2>6. QED
    BY <2>4, <2>5
<1>7. QED
  BY <1>1, <1>2, <1>3, <1>4, <1>5, <1>6 DEF Inv

LEMMA LogAndFilesSteps ==
  ASSUME Inv, NEW t \in Task,
         \/ Log(t) \/ GiveSink(t) \/ Count(t)
         \/ FilesCall(t) \/ FilesTakeLock(t) \/ FilesGiveLock(t)
  PROVE  Inv'
<1>1. Shape /\ sink \in Task \cup {Nobody} /\ files \in Task \cup {Nobody}
  BY DEF Inv, Shape
<1>2. CASE Log(t)
  <2>1. Moves(t) /\ task'[t].pc = "emit" /\ task[t].pc = "idle"
    BY <1>1, <1>2, LogStarts DEF Log, At
  <2>2. QED
    BY <1>1, <1>2, <2>1, QuietStep DEF Log, Carries
<1>3. CASE GiveSink(t)
  <2>1. task[t].pc = "give" /\ task' = [task EXCEPT ![t].pc = "count"]
    BY <1>3 DEF GiveSink, At
  <2>2. Moves(t) /\ task'[t].pc = "count" /\ task'[t].line = task[t].line
    BY <1>1, <2>1, SetPc
  <2>3. QED
    BY <1>1, <1>3, <2>1, <2>2, QuietStep DEF GiveSink, Carries
<1>4. CASE Count(t)
  <2>1. task[t].pc = "count"
    BY <1>4 DEF Count, At
  <2>2. CASE Connected = {} /\ EndLog(t)
    <3>1. Moves(t) /\ task'[t].pc \in {"idle", "unlock"} /\ done' = done \cup {task[t].line}
      BY <1>1, <2>2, LogEnds
    <3>2. QED
      BY <1>1, <1>4, <2>1, <2>2, <3>1, QuietStep DEF Count, Carries
  <2>3. CASE task' = [task EXCEPT ![t].pc = "all"] /\ UNCHANGED done
    <3>1. Moves(t) /\ task'[t].pc = "all" /\ task'[t].line = task[t].line
      BY <1>1, <2>3, SetPc
    <3>2. QED
      BY <1>1, <1>4, <2>1, <2>3, <3>1, QuietStep DEF Count, Carries
  <2>4. QED
    BY <1>4, <2>2, <2>3 DEF Count
<1>5. CASE FilesCall(t)
  <2>1. task[t].pc = "idle" /\ task' = [task EXCEPT ![t].pc = "lock"]
    BY <1>5 DEF FilesCall, At
  <2>2. Moves(t) /\ task'[t].pc = "lock"
    BY <1>1, <2>1, SetPc
  <2>3. QED
    BY <1>1, <1>5, <2>1, <2>2, QuietStep DEF FilesCall, Carries
<1>6. CASE FilesTakeLock(t)
  <2>1. task[t].pc = "lock" /\ files' = t
    BY <1>6 DEF FilesTakeLock, At
  <2>2. PICK pc \in {"emit", "unlock"} : task' = [task EXCEPT ![t].pc = pc]
    BY <1>6 DEF FilesTakeLock
  <2>3. Moves(t) /\ task'[t].pc = pc
    BY <1>1, <2>2, SetPc
  <2>4. QED
    BY <1>1, <1>6, <2>1, <2>3, QuietStep DEF FilesTakeLock, Carries
<1>7. CASE FilesGiveLock(t)
  <2>1. task[t].pc = "unlock" /\ files' = Nobody /\ task' = [task EXCEPT ![t] = NoCall]
    BY <1>7 DEF FilesGiveLock, At
  <2>2. Moves(t) /\ task'[t].pc = "idle"
    BY <1>1, <2>1, SetTask, Constants DEF Moves
  <2>3. QED
    BY <1>1, <1>7, <2>1, <2>2, QuietStep DEF FilesGiveLock, Carries
<1>8. QED
  BY <1>2, <1>3, <1>4, <1>5, <1>6, <1>7

LEMMA EmitStep ==
  ASSUME Inv, NEW t \in Task, Emit(t)
  PROVE  Inv'
<1>1. /\ task[t].pc = "emit" /\ sink' = t /\ stored' = stored + 1
      /\ task' = [task EXCEPT ![t].pc = "give", ![t].line = stored + 1]
      /\ UNCHANGED <<ws, files, clients, client, handler, done, cut, joined, logged, reset>>
  BY DEF Emit, At
<1>2. /\ stored \in Nat /\ stored' \in Nat /\ stored + 1 \in Nat
      /\ task \in [Task -> TaskRecord] /\ task[t] \in TaskRecord
  BY <1>1 DEF Inv, Shape
<1> DEFINE r == [task[t] EXCEPT !.pc = "give", !.line = stored + 1]
<1>3. r \in TaskRecord /\ r.pc = "give" /\ r.line = stored + 1
  BY <1>2 DEF TaskRecord
<1>4. task' = [task EXCEPT ![t] = r]
  BY <1>1, <1>2
<1> HIDE DEF r
<1>5. Moves(t) /\ task'[t].pc = "give" /\ task'[t].line = stored + 1
  BY <1>3, <1>4, SetTask DEF Moves, Inv
<1>6. \A n \in 1 .. stored : n \in 1 .. stored' /\ n # stored + 1
  BY <1>1, <1>2
<1>7. Shape'
  <2>1. ClientRecord \subseteq ClientRecord'
    BY <1>6 DEF ClientRecord
  <2>2. client' \in [Client -> ClientRecord]'
    BY <1>1, <2>1 DEF Inv, Shape
  <2>3. done' \subseteq 1 .. stored'
    BY <1>1, <1>6 DEF Inv, Shape
  <2>4. handler'.used <= stored'
    <3>1. handler.used \in Nat /\ handler.used <= stored
      BY DEF Inv, Shape, HandlerRecord
    <3>2. QED
      BY <1>1, <1>2, <3>1
  <2>5. QED
    BY <1>1, <1>2, <1>5, <2>2, <2>3, <2>4 DEF Inv, Shape, Moves
<1>8. ListOK'
  BY <1>1 DEF Inv, ListOK
<1>9. LockOK'
  <2>1. \A u \in Task : Depth(u)' = Depth(u)
    BY <1>1, <1>5 DEF Depth, Holds, InEvent, Moves
  <2>2. QED
    BY <1>1, <2>1 DEF Inv, LockOK
<1>10. AliveOK'
  BY <1>1, <1>5 DEF Inv, AliveOK, Attends, Listed, Moves
<1>11. \A u \in Task : u # t => (Carries(u)' <=> Carries(u)) /\ task'[u].line = task[u].line
  BY <1>5 DEF Carries, Moves
<1>12. LinesOK'
  <2>1. \A u \in Task : Carries(u) => task[u].line \in 1 .. stored /\ task[u].line \notin done
    BY DEF Inv, LinesOK
  <2>2. stored + 1 \in 1 .. stored' /\ stored + 1 \notin done
    BY <1>1, <1>2, <1>6 DEF Inv, Shape
  <2>3. \A u \in Task : Carries(u)' => task'[u].line \in (1 .. stored') \ done'
    <3>1. ASSUME NEW u \in Task, Carries(u)', u # t
          PROVE  task'[u].line \in 1 .. stored' /\ task'[u].line \notin done'
      <4>1. Carries(u) /\ task'[u].line = task[u].line
        BY <1>11, <3>1
      <4>2. task[u].line \in 1 .. stored /\ task[u].line \notin done
        BY <2>1, <4>1
      <4>3. QED
        BY <1>1, <1>6, <4>1, <4>2
    <3>2. task'[t].line \in 1 .. stored' /\ task'[t].line \notin done'
      BY <1>1, <1>5, <2>2
    <3>3. QED
      BY <3>1, <3>2
  <2>4. \A u, v \in Task : u # t /\ v # t /\ Carries(u)' /\ Carries(v)'
                            /\ task'[u].line = task'[v].line => u = v
    BY <1>11 DEF Inv, LinesOK
  <2>5. \A u \in Task : u # t /\ Carries(u)' => task'[u].line # task'[t].line
    BY <1>5, <1>6, <1>11, <2>1
  <2>6. QED
    BY <2>3, <2>4, <2>5 DEF LinesOK
<1>13. ASSUME DeliverOK PROVE DeliverOK'
  <2> SUFFICES ASSUME NEW c \in Client, Welcomed(c)', NEW line \in 1 .. stored', line > cut[c],
                      line \notin client[c].lines
               PROVE  \E u \in Task : task'[u].line = line /\ Pending(u, c)'
    BY <1>1 DEF DeliverOK
  <2>1. Welcomed(c)
    BY <1>1 DEF Welcomed, Linked, Connected, Listed
  <2>2. CASE line = stored + 1
    BY <1>5, <2>2 DEF Pending, Carries
  <2>3. CASE line \in 1 .. stored
    <3>1. PICK u \in Task : task[u].line = line /\ Pending(u, c)
      BY <1>13, <2>1, <2>3 DEF DeliverOK
    <3>2. u # t
      BY <1>1, <3>1 DEF Pending, Carries
    <3>3. QED
      BY <1>5, <3>1, <3>2 DEF Pending, Carries, Moves
  <2>4. line = stored + 1 \/ line \in 1 .. stored
    BY <1>1, <1>2
  <2>5. QED
    BY <2>2, <2>3, <2>4
<1>14. QED
  BY <1>1, <1>7, <1>8, <1>9, <1>10, <1>12, <1>13 DEF Inv

LEMMA TextAllStep ==
  ASSUME Inv, NEW t \in Task, TextAll(t)
  PROVE  Inv'
<1>1. /\ task[t].pc = "all" /\ MayLock(t) /\ Shape
      /\ UNCHANGED <<sink, files, stored, clients, client, handler, cut, joined, logged, reset>>
  BY DEF TextAll, At, Inv
<1>2. CASE clients = << >> /\ EndLog(t) /\ UNCHANGED ws
  <2>1. Connected = {}
    BY <1>2 DEF Connected, Listed
  <2>2. Moves(t) /\ task'[t].pc \in {"idle", "unlock"} /\ done' = done \cup {task[t].line}
    BY <1>1, <1>2, LogEnds
  <2>3. QED
    BY <1>1, <1>2, <2>1, <2>2, QuietStep DEF Carries, Shape
<1>3. CASE /\ clients # << >> /\ ws' = Locked(t) /\ UNCHANGED done
           /\ task' = [task EXCEPT ![t].pc = "each", ![t].c = Head(clients)]
  <2>1. PICK c : c = Head(clients)
    OBVIOUS
  <2>2. clients \in Seq(Client) /\ 1 \in DOMAIN clients /\ c = clients[1] /\ c \in Client
    BY <1>3, <2>1 DEF Inv, ListOK
  <2>3. \A d : Listed(d) => c <= d
    BY <2>2 DEF Inv, ListOK, Listed, Client
  <2> DEFINE r == [task[t] EXCEPT !.pc = "each", !.c = c]
  <2>4. r \in TaskRecord /\ r.pc = "each" /\ r.c = c /\ r.line = task[t].line
    <3>1. task[t] \in TaskRecord /\ c \in Nat
      BY <1>1, <2>2 DEF Shape, Client
    <3>2. QED
      BY <3>1 DEF TaskRecord
  <2>5. task' = [task EXCEPT ![t] = r]
    BY <1>1, <1>3, <2>1 DEF Shape
  <2> HIDE DEF r
  <2>6. Moves(t) /\ task'[t] = r
    BY <1>1, <2>4, <2>5, SetTask DEF Moves
  <2>7. LinesOK'
    BY <1>1, <1>3, <2>4, <2>6, LinesKept DEF Inv, Carries
  <2>8. Shape'
    BY <1>1, <1>3, <2>6, ShapeKept DEF Shape, Moves
  <2>9. ListOK'
    BY <1>1 DEF Inv, ListOK
  <2>10. LockOK'
    <3>1. ws \in [holder : Task \cup {Nobody}, depth : 0 .. 2] /\ t # Nobody
      BY DEF Inv, LockOK
    <3>2. \A u \in Task : u # t => Depth(u)' = Depth(u)
      BY <1>1, <2>6 DEF Depth, Holds, InEvent, Moves
    <3>3. Depth(t)' = Depth(t) + 1 /\ Depth(t) \in 0 .. 1
      BY <1>1, <2>4, <2>6 DEF Depth, Holds, InEvent
    <3>4. \A u \in Task : Depth(u) = IF ws.holder = u THEN ws.depth ELSE 0
      BY DEF Inv, LockOK
    <3>5. ws.depth = Depth(t) /\ \A u \in Task : u # t => Depth(u) = 0
      BY <1>1, <3>4 DEF MayLock, Inv, LockOK
    <3>6. ws'.holder = t /\ ws'.depth = Depth(t) + 1
          /\ ws' \in [holder : Task \cup {Nobody}, depth : 0 .. 2]
      BY <1>3, <3>3, <3>5 DEF Locked
    <3>7. QED
      BY <3>1, <3>2, <3>3, <3>5, <3>6 DEF LockOK
  <2>11. AliveOK'
    <3>1. Listed(c)' /\ \A d : Listed(d)' <=> Listed(d)
      BY <1>1, <2>2 DEF Listed
    <3>2. QED
      BY <1>1, <2>4, <2>6, <3>1 DEF Inv, AliveOK, Attends, Moves
  <2>12. ASSUME DeliverOK PROVE DeliverOK'
    <3> SUFFICES ASSUME NEW d \in Client, Welcomed(d)', NEW line \in 1 .. stored, line > cut[d],
                        line \notin client[d].lines
                 PROVE  \E u \in Task : task'[u].line = line /\ Pending(u, d)'
      BY <1>1 DEF DeliverOK
    <3>1. Welcomed(d) /\ c <= d
      BY <1>1, <2>3 DEF Welcomed, Linked, Connected, Listed
    <3>2. PICK u \in Task : task[u].line = line /\ Pending(u, d)
      BY <2>12, <3>1 DEF DeliverOK
    <3>3. CASE u # t
      BY <2>6, <3>2, <3>3 DEF Pending, Carries, Moves
    <3>4. CASE u = t
      BY <2>4, <2>6, <3>1, <3>2, <3>4 DEF Pending, Carries
    <3>5. QED
      BY <3>3, <3>4
  <2>13. QED
    BY <1>1, <2>7, <2>8, <2>9, <2>10, <2>11, <2>12 DEF Inv
<1>4. QED
  BY <1>2, <1>3 DEF TextAll

\* The loop ends, or goes on with the next client of the list.
LEMMA EachDoes ==
  ASSUME Inv, NEW t \in Task, TextEach(t)
  PROVE  /\ Moves(t) /\ task[t].c \in Client /\ Listed(task[t].c) /\ ws.holder = t
         /\ \/ /\ After(task[t].c) = {} /\ ws' = Unlocked
               /\ task'[t].pc \in {"idle", "unlock"} /\ done' = done \cup {task[t].line}
            \/ /\ UNCHANGED <<ws, done>>
               /\ task'[t].pc = "each" /\ task'[t].line = task[t].line
               /\ Listed(task'[t].c)
               /\ \A d : Listed(d) /\ d > task[t].c => task'[t].c <= d
<1>1. task[t].pc = "each" /\ Listed(task[t].c) /\ Shape /\ clients \in Seq(Client)
  BY DEF TextEach, At, Inv, AliveOK, ListOK
<1>2. task[t].c \in Client
  BY <1>1 DEF Listed
<1>3. ws.holder = t
  BY <1>1 DEF Inv, LockOK, Depth, Holds
<1>4. CASE After(task[t].c) = {} /\ EndLog(t) /\ ws' = Unlocked
  BY <1>1, <1>2, <1>3, <1>4, LogEnds
<1>5. CASE /\ \E i \in After(task[t].c) : /\ \A j \in After(task[t].c) : i <= j
                                         /\ task' = [task EXCEPT ![t].c = clients[i]]
           /\ UNCHANGED <<ws, done>>
  <2>1. PICK i \in After(task[t].c) : /\ \A j \in After(task[t].c) : i <= j
                                      /\ task' = [task EXCEPT ![t].c = clients[i]]
    BY <1>5
  <2>2. PICK c : c = clients[i]
    OBVIOUS
  <2>3. i \in DOMAIN clients /\ c \in Client /\ c \in Nat /\ Listed(c)
    BY <1>1, <2>2 DEF After, Listed, Client
  <2> DEFINE r == [task[t] EXCEPT !.c = c]
  <2>4. r \in TaskRecord /\ r.pc = "each" /\ r.c = c /\ r.line = task[t].line
    <3>1. task[t] \in TaskRecord
      BY <1>1 DEF Shape
    <3>2. QED
      BY <1>1, <2>3, <3>1 DEF TaskRecord
  <2>5. task' = [task EXCEPT ![t] = r]
    BY <1>1, <2>1, <2>2 DEF Shape
  <2> HIDE DEF r
  <2>6. Moves(t) /\ task'[t] = r
    BY <1>1, <2>4, <2>5, SetTask DEF Moves
  <2>7. ASSUME NEW d, Listed(d), d > task[t].c PROVE c <= d
    <3>1. PICK j \in DOMAIN clients : clients[j] = d
      BY <2>7 DEF Listed
    <3>2. j \in After(task[t].c) /\ i <= j
      BY <2>1, <2>7, <3>1 DEF After
    <3>3. clients[i] \in Nat /\ clients[j] \in Nat /\ i \in Nat /\ j \in Nat
      BY <1>1, <2>3, <3>1 DEF Client
    <3>4. i < j => clients[i] < clients[j]
      BY <2>3, <3>1 DEF Inv, ListOK
    <3>5. QED
      BY <2>2, <3>1, <3>2, <3>3, <3>4
  <2>8. QED
    BY <1>1, <1>2, <1>3, <1>5, <2>3, <2>4, <2>6, <2>7
<1>6. QED
  BY <1>4, <1>5 DEF TextEach

LEMMA TextEachStep ==
  ASSUME Inv, NEW t \in Task, TextEach(t)
  PROVE  Inv'
<1>1. /\ task[t].pc = "each" /\ ~reset /\ Shape /\ LinesOK
      /\ UNCHANGED <<sink, files, stored, clients, handler, cut, joined, logged>>
  BY DEF TextEach, At, Inv
<1>2. PICK c, l : c = task[t].c /\ l = task[t].line
  OBVIOUS
<1>3. l \in 1 .. stored /\ Text(c, {l})
  BY <1>1, <1>2 DEF LinesOK, Carries, TextEach
<1>4. /\ Moves(t) /\ c \in Client /\ Listed(c) /\ ws.holder = t
      /\ \/ /\ After(c) = {} /\ ws' = Unlocked
            /\ task'[t].pc \in {"idle", "unlock"} /\ done' = done \cup {l}
         \/ /\ UNCHANGED <<ws, done>>
            /\ task'[t].pc = "each" /\ task'[t].line = l /\ Listed(task'[t].c)
            /\ \A d : Listed(d) /\ d > c => task'[t].c <= d
  BY <1>2, EachDoes
<1>5. /\ client' \in [Client -> ClientRecord]
      /\ reset' \in BOOLEAN
      /\ \A d \in Client : /\ client'[d].status = client[d].status
                           /\ client[d].lines \subseteq client'[d].lines
      /\ ~reset' /\ client[c].status = "connected" /\ Linked(c) => {l} \subseteq client'[c].lines
  <2>1. {l} \in SUBSET (1 .. stored)
    BY <1>3
  <2>2. QED
    BY <1>1, <1>3, <1>4, <2>1, TextDoes
<1>6. LinesOK' /\ done' \subseteq 1 .. stored
  <2>1. Carries(t)
    BY <1>1 DEF Carries
  <2>2. \/ task'[t].line = task[t].line /\ done' = done
        \/ ~Carries(t)' /\ done' = done \cup {task[t].line}
    BY <1>2, <1>4 DEF Carries
  <2>3. QED
    BY <1>1, <1>4, <2>1, <2>2, LinesKept
<1>7. Shape'
  BY <1>1, <1>4, <1>5, <1>6, ShapeKept DEF Shape, Moves
<1>8. ListOK'
  BY <1>1 DEF Inv, ListOK
<1>9. LockOK'
  <2>1. /\ ws \in [holder : Task \cup {Nobody}, depth : 0 .. 2] /\ t # Nobody
        /\ ws.holder = Nobody <=> ws.depth = 0
        /\ \A u \in Task : Depth(u) = IF ws.holder = u THEN ws.depth ELSE 0
    BY DEF Inv, LockOK
  <2>2. \A u \in Task : u # t => Depth(u)' = Depth(u) /\ Depth(u) = 0
    <3>1. \A u \in Task : u # t => Depth(u)' = Depth(u)
      BY <1>1, <1>4 DEF Depth, Holds, InEvent, Moves
    <3>2. QED
      BY <1>4, <2>1, <3>1
  <2>3. Depth(t) = ws.depth
    BY <1>4, <2>1
  <2>4. CASE UNCHANGED ws /\ task'[t].pc = "each"
    <3>1. Depth(t)' = Depth(t)
      BY <1>1, <2>4 DEF Depth, Holds, InEvent
    <3>2. QED
      BY <1>4, <2>1, <2>2, <2>3, <2>4, <3>1 DEF LockOK
  <2>5. CASE ws' = Unlocked /\ task'[t].pc \in {"idle", "unlock"}
    <3>1. Depth(t)' = Depth(t) - 1 /\ Depth(t) \in 1 .. 2
      BY <1>1, <2>5 DEF Depth, Holds, InEvent
    <3>2. CASE ws.depth = 1
      <4>1. ws' = [holder |-> Nobody, depth |-> 0]
        BY <2>5, <3>2 DEF Unlocked, Free
      <4>2. QED
        BY <2>1, <2>2, <2>3, <3>1, <3>2, <4>1 DEF LockOK
    <3>3. CASE ws.depth = 2
      <4>1. ws'.holder = t /\ ws'.depth = 1 /\ ws' \in [holder : Task \cup {Nobody}, depth : 0 .. 2]
        BY <1>4, <2>1, <2>5, <3>3 DEF Unlocked
      <4>2. QED
        BY <2>1, <2>2, <2>3, <3>1, <3>3, <4>1 DEF LockOK
    <3>4. QED
      BY <2>3, <3>1, <3>2, <3>3
  <2>6. QED
    BY <1>4, <2>4, <2>5
<1>10. AliveOK'
  <2>1. \A d : Listed(d)' <=> Listed(d)
    BY <1>1 DEF Listed
  <2>2. task'[t].pc = "each" => Listed(task'[t].c)
    BY <1>4
  <2>3. QED
    BY <1>1, <1>4, <2>1, <2>2 DEF Inv, AliveOK, Attends, Moves
<1>11. ASSUME ~reset' PROVE DeliverOK'
  <2> SUFFICES ASSUME NEW d \in Client, Welcomed(d)', NEW line \in 1 .. stored, line > cut[d],
                      line \notin client'[d].lines
               PROVE  \E u \in Task : task'[u].line = line /\ Pending(u, d)'
    BY <1>1 DEF DeliverOK
  <2>1. Welcomed(d) /\ Listed(d) /\ client[d].status = "connected" /\ Linked(d)
    BY <1>1, <1>5 DEF Welcomed, Linked, Connected, Listed
  <2>2. line \notin client[d].lines
    BY <1>5
  <2>3. PICK u \in Task : task[u].line = line /\ Pending(u, d)
    BY <1>1, <2>1, <2>2 DEF DeliverOK, Inv
  <2>4. CASE u # t
    BY <1>4, <2>3, <2>4 DEF Pending, Carries, Moves
  <2>5. CASE u = t
    <3>1. c <= d /\ line = l
      BY <1>1, <1>2, <2>3, <2>5 DEF Pending
    <3>2. c # d
      BY <1>5, <1>11, <2>1, <3>1
    <3>3. d > c
      BY <1>4, <3>1, <3>2 DEF Client
    <3>4. After(c) # {}
      BY <2>1, <3>3 DEF Listed, After
    <3>5. task'[t].pc = "each" /\ task'[t].line = l /\ task'[t].c <= d
      BY <1>4, <2>1, <3>3, <3>4
    <3>6. QED
      BY <3>1, <3>5 DEF Pending, Carries
  <2>6. QED
    BY <2>4, <2>5
<1>12. QED
  BY <1>6, <1>7, <1>8, <1>9, <1>10, <1>11 DEF Inv

(***************************************************************************)
(* Steps of an event.                                                      *)
(***************************************************************************)
\* A client that is welcomed after the step was so before, with the same lines
\* owed to it, or has just been sent every line it is owed.
StillOwed(d) ==
  \/ Welcomed(d) /\ cut'[d] = cut[d]
  \/ \A line \in 1 .. stored : line > cut'[d] => line \in client'[d].lines

\* The lock stays, or is given back once at the end of an event.
GivesBack ==
  \/ ws' = ws /\ (InEvent' <=> InEvent)
  \/ ws' = Unlocked /\ InEvent /\ ~InEvent'

LEMMA EventKept ==
  ASSUME Inv, task[Net].pc = "idle", ~reset, task' = task \/ StartLog(Net),
         UNCHANGED <<sink, stored, clients, done, joined>>,
         files' \in Task \cup {Nobody},
         handler' \in HandlerRecord, handler'.used <= stored,
         client' \in [Client -> ClientRecord],
         \A d \in Client : client[d].lines \subseteq client'[d].lines,
         cut' \in [Client -> Nat], reset' \in BOOLEAN,
         Attends' => Listed(handler'.c), GivesBack,
         ~reset' => \A d \in Client : Welcomed(d)' => StillOwed(d)
  PROVE  Inv'
<1>1. Shape /\ Net \in Task /\ task \in [Task -> TaskRecord]
  BY Constants DEF Inv, Shape
<1>2. Moves(Net) /\ task'[Net].pc \in {"idle", "emit"}
  <2>1. CASE task' = task
    BY <1>1, <2>1 DEF Moves
  <2>2. CASE StartLog(Net)
    BY <1>1, <2>2, LogStarts
  <2>3. QED
    BY <2>1, <2>2
<1>3. LinesOK' /\ done' \subseteq 1 .. stored
  <2>1. ~Carries(Net)'
    BY <1>2 DEF Carries
  <2>2. QED
    BY <1>1, <1>2, <2>1, LinesKept DEF Inv
<1>4. Shape'
  BY <1>1, <1>2, <1>3, ShapeKept DEF Shape, Moves
<1>5. ListOK'
  BY DEF Inv, ListOK
<1>6. LockOK'
  <2>1. /\ ws \in [holder : Task \cup {Nobody}, depth : 0 .. 2]
        /\ ws.holder = Nobody <=> ws.depth = 0
        /\ \A u \in Task : Depth(u) = IF ws.holder = u THEN ws.depth ELSE 0
    BY DEF Inv, LockOK
  <2>2. \A u \in Task : u # Net => Depth(u)' = Depth(u)
    BY <1>2 DEF Depth, Holds, Moves
  <2>3. CASE ws' = ws /\ (InEvent' <=> InEvent)
    <3>1. Depth(Net)' = Depth(Net)
      BY <1>2, <2>3 DEF Depth, Holds
    <3>2. QED
      BY <2>1, <2>2, <2>3, <3>1 DEF LockOK
  <2>4. CASE ws' = Unlocked /\ InEvent /\ ~InEvent'
    <3>1. Depth(Net) = 1 /\ Depth(Net)' = 0
      BY <1>2, <2>4 DEF Depth, Holds
    <3>2. ws.holder = Net /\ ws.depth = 1
      BY <1>1, <2>1, <3>1
    <3>3. ws' = [holder |-> Nobody, depth |-> 0]
      BY <2>4, <3>2 DEF Unlocked, Free
    <3>4. QED
      BY <1>1, <2>1, <2>2, <3>1, <3>2, <3>3 DEF LockOK
  <2>5. QED
    BY <2>3, <2>4 DEF GivesBack
<1>7. AliveOK'
  <2>1. \A d : Listed(d)' <=> Listed(d)
    BY DEF Listed
  <2>2. QED
    BY <1>2, <2>1 DEF Inv, AliveOK, Moves
<1>8. ASSUME ~reset' PROVE DeliverOK'
  <2> SUFFICES ASSUME NEW d \in Client, Welcomed(d)', NEW line \in 1 .. stored, line > cut'[d],
                      line \notin client'[d].lines
               PROVE  \E u \in Task : task'[u].line = line /\ Pending(u, d)'
    BY DEF DeliverOK
  <2>1. StillOwed(d)
    BY <1>8
  <2>2. Welcomed(d) /\ line > cut[d] /\ line \notin client[d].lines
    BY <2>1 DEF StillOwed
  <2>3. PICK u \in Task : task[u].line = line /\ Pending(u, d)
    BY <2>2 DEF DeliverOK, Inv
  <2>4. u # Net
    BY <2>3 DEF Pending, Carries
  <2>5. QED
    BY <1>2, <2>3, <2>4 DEF Pending, Carries, Moves
<1>9. QED
  BY <1>3, <1>4, <1>5, <1>6, <1>7, <1>8 DEF Inv

\* A handler moves on; the client of its event stays the same.
LEMMA HandlerMoves ==
  ASSUME Shape, NEW pc \in {"idle", "size", "copy", "ready", "lock", "list", "output", "leave", "left"},
         handler' = [handler EXCEPT !.pc = pc]
  PROVE  /\ handler' \in HandlerRecord /\ handler'.used <= stored
         /\ handler'.pc = pc /\ handler'.c = handler.c
BY DEF Shape, HandlerRecord

\* The clients that are welcomed stay so when no status changes.
LEMMA WelcomedKept ==
  ASSUME Inv, UNCHANGED <<clients, cut>>, NEW d \in Client,
         client'[d].status = client[d].status,
         \/ handler.pc \notin {"size", "copy", "leave"}
         \/ handler'.pc = handler.pc /\ handler'.c = handler.c,
         Welcomed(d)'
  PROVE  StillOwed(d)
BY DEF Welcomed, Linked, StillOwed, Connected, Listed

LEMMA HistorySizeStep ==
  ASSUME Inv, HistorySize
  PROVE  Inv'
<1>1. /\ handler.pc = "size" /\ task[Net].pc = "idle" /\ ~reset /\ Shape
      /\ UNCHANGED <<sink, ws, files, stored, clients, client, task, done, joined, reset>>
  BY DEF HistorySize, Handles, Inv
<1>2. Listed(handler.c)
  BY <1>1 DEF Inv, AliveOK, Attends
<1>3. CASE handler' = [handler EXCEPT !.pc = "copy", !.used = stored] /\ UNCHANGED cut
  <2>1. /\ handler' \in HandlerRecord /\ handler'.used <= stored
        /\ handler'.pc = "copy" /\ handler'.c = handler.c
    <3>1. handler \in HandlerRecord /\ stored \in Nat /\ stored <= stored
      BY <1>1 DEF Shape
    <3>2. QED
      BY <1>3, <3>1 DEF HandlerRecord
  <2>2. \A d \in Client : Welcomed(d)' => StillOwed(d)
    BY <1>1, <1>3, <2>1 DEF Welcomed, Linked, StillOwed, Connected, Listed
  <2>3. GivesBack
    BY <1>1, <2>1 DEF GivesBack, InEvent
  <2>4. QED
    BY <1>1, <1>2, <1>3, <2>1, <2>2, <2>3, EventKept DEF Shape
<1>4. CASE /\ handler' = [handler EXCEPT !.pc = "ready"]
           /\ cut' = [cut EXCEPT ![handler.c] = stored]
  <2>1. /\ handler' \in HandlerRecord /\ handler'.used <= stored
        /\ handler'.pc = "ready" /\ handler'.c = handler.c
    BY <1>1, <1>4, HandlerMoves
  <2>2. cut' \in [Client -> Nat] /\ cut'[handler.c] = stored
        /\ \A d \in Client : d # handler.c => cut'[d] = cut[d]
    BY <1>1, <1>2, <1>4 DEF Shape, Inv, ListOK, Listed
  <2>3. ASSUME NEW d \in Client, Welcomed(d)' PROVE StillOwed(d)
    <3>1. CASE d = handler.c
      BY <1>1, <2>2, <3>1 DEF StillOwed, Shape
    <3>2. CASE d # handler.c
      BY <1>1, <2>2, <2>3, <3>2 DEF Welcomed, Linked, StillOwed, Connected, Listed
    <3>3. QED
      BY <3>1, <3>2
  <2>4. GivesBack
    BY <1>1, <2>1 DEF GivesBack, InEvent
  <2>5. QED
    BY <1>1, <1>2, <2>1, <2>2, <2>3, <2>4, EventKept DEF Shape
<1>5. QED
  BY <1>3, <1>4 DEF HistorySize

LEMMA HistoryCopyStep ==
  ASSUME Inv, HistoryCopy
  PROVE  Inv'
<1>1. /\ handler.pc = "copy" /\ task[Net].pc = "idle" /\ ~reset /\ Shape
      /\ handler' = [handler EXCEPT !.pc = "ready"]
      /\ UNCHANGED <<sink, ws, files, stored, clients, task, done, joined>>
  BY DEF HistoryCopy, Handles, Inv
<1>2. PICK c, oldest : c = handler.c /\ oldest = stored - handler.used
  OBVIOUS
<1>3. Listed(c) /\ c \in Client
  BY <1>1, <1>2 DEF Inv, AliveOK, Attends, Listed, ListOK
<1>4. oldest \in Nat
  BY <1>1, <1>2 DEF Shape, HandlerRecord
<1>5. Text(c, oldest + 1 .. stored) /\ cut' = [cut EXCEPT ![c] = oldest]
  BY <1>2 DEF HistoryCopy
<1>6. (oldest + 1 .. stored) \in SUBSET (1 .. stored)
  BY <1>1, <1>4 DEF Shape
<1>7. /\ client' \in [Client -> ClientRecord] /\ reset' \in BOOLEAN
      /\ \A d \in Client : /\ client'[d].status = client[d].status
                           /\ client[d].lines \subseteq client'[d].lines
      /\ ~reset' /\ client[c].status = "connected" /\ Linked(c)
           => oldest + 1 .. stored \subseteq client'[c].lines
  BY <1>1, <1>3, <1>5, <1>6, TextDoes
<1>8. /\ handler' \in HandlerRecord /\ handler'.used <= stored
      /\ handler'.pc = "ready" /\ handler'.c = c
  BY <1>1, <1>2, HandlerMoves
<1>9. cut' \in [Client -> Nat] /\ cut'[c] = oldest
      /\ \A d \in Client : d # c => cut'[d] = cut[d]
  BY <1>1, <1>3, <1>4, <1>5 DEF Shape
<1>10. ASSUME ~reset', NEW d \in Client, Welcomed(d)' PROVE StillOwed(d)
  <2>1. CASE d = c
    <3>1. client[c].status = "connected" /\ Linked(c)
      BY <1>1, <1>7, <1>10, <2>1 DEF Welcomed, Linked, Connected
    <3>2. \A line \in 1 .. stored : line > oldest => line \in oldest + 1 .. stored
      BY <1>1, <1>4 DEF Shape
    <3>3. QED
      BY <1>7, <1>9, <1>10, <2>1, <3>1, <3>2 DEF StillOwed
  <2>2. CASE d # c
    BY <1>1, <1>2, <1>7, <1>9, <1>10, <2>2 DEF Welcomed, Linked, StillOwed, Connected, Listed
  <2>3. QED
    BY <2>1, <2>2
<1>11. GivesBack
  BY <1>1, <1>8 DEF GivesBack, InEvent
<1>12. QED
  BY <1>1, <1>3, <1>7, <1>8, <1>9, <1>10, <1>11, EventKept DEF Shape

LEMMA ReadyStep ==
  ASSUME Inv, Ready
  PROVE  Inv'
<1>1. /\ handler.pc = "ready" /\ task[Net].pc = "idle" /\ ~reset /\ Shape
      /\ ws' = Unlocked /\ handler' = NoEvent /\ Text(handler.c, {})
      /\ UNCHANGED <<sink, files, stored, clients, task, done, cut, joined>>
  BY DEF Ready, Handles, Inv
<1>2. handler.c \in Client
  BY <1>1 DEF Inv, AliveOK, Attends, Listed, ListOK
<1>3. /\ client' \in [Client -> ClientRecord] /\ reset' \in BOOLEAN
      /\ \A d \in Client : /\ client'[d].status = client[d].status
                           /\ client[d].lines \subseteq client'[d].lines
  BY <1>1, <1>2, TextDoes
<1>4. GivesBack /\ ~Attends'
  BY <1>1, Constants DEF GivesBack, InEvent, Attends
<1>5. \A d \in Client : Welcomed(d)' => StillOwed(d)
  BY <1>1, <1>3, WelcomedKept
<1>6. stored \in Nat
  BY <1>1 DEF Shape
<1>7. QED
  BY <1>1, <1>3, <1>4, <1>5, <1>6, Constants, EventKept DEF Shape

\* A line of output, to a client with room in its queue.
LEMMA WriteLineDoes ==
  ASSUME Shape, NEW c \in Client, WriteLine(c), UNCHANGED stored
  PROVE  /\ client' \in [Client -> ClientRecord] /\ reset' \in BOOLEAN
         /\ \A d \in Client : /\ client'[d].status = client[d].status
                              /\ client[d].lines \subseteq client'[d].lines
<1>1. CASE Text(c, {})
  BY <1>1, TextDoes
<1>2. CASE UNCHANGED <<client, reset>>
  BY <1>2 DEF Shape
<1>3. QED
  BY <1>1, <1>2 DEF WriteLine

LEMMA CommandSteps ==
  ASSUME Inv, Command \/ CommandTakeLock \/ List \/ Output
  PROVE  Inv'
<1>1. /\ task[Net].pc = "idle" /\ ~reset /\ Shape /\ stored \in Nat
      /\ UNCHANGED <<sink, ws, stored, clients, done, cut, joined>>
      /\ files \in Task \cup {Nobody} /\ client \in [Client -> ClientRecord]
      /\ cut \in [Client -> Nat] /\ reset \in BOOLEAN /\ handler \in HandlerRecord
  BY DEF Command, CommandTakeLock, List, Output, Handles, Inv, Shape
<1>2. CASE Command
  <2>1. PICK c \in Connected, pc \in {"output", "lock"} :
          handler' = [NoEvent EXCEPT !.pc = pc, !.c = c]
    BY <1>2 DEF Command
  <2>2. /\ handler.pc = "idle" /\ UNCHANGED <<files, client, task, reset>>
        /\ c \in Nat /\ Listed(c)
    <3>1. handler.pc = "idle" /\ UNCHANGED <<files, client, task, reset>>
      BY <1>2 DEF Command, Handles
    <3>2. c \in Client /\ Listed(c)
      BY DEF Connected
    <3>3. QED
      BY <3>1, <3>2 DEF Client
  <2>3. /\ handler' \in HandlerRecord /\ handler'.used <= stored
        /\ handler'.pc = pc /\ handler'.c = c
    <3>1. /\ handler' \in HandlerRecord /\ handler'.used = 0
          /\ handler'.pc = pc /\ handler'.c = c
      BY <2>1, <2>2 DEF NoEvent, HandlerRecord
    <3>2. QED
      BY <1>1, <3>1
  <2>4. \A d \in Client : Welcomed(d)' => StillOwed(d)
    BY <1>1, <2>2, WelcomedKept
  <2>5. GivesBack
    BY <1>1, <2>2, <2>3 DEF GivesBack, InEvent
  <2>6. QED
    BY <1>1, <2>2, <2>3, <2>4, <2>5, EventKept
<1>3. CASE CommandTakeLock
  <2>1. /\ handler.pc = "lock" /\ files' = Net /\ UNCHANGED <<client, reset>>
        /\ StartLog(Net) \/ task' = task
        /\ \E pc \in {"output", "list"} : handler' = [handler EXCEPT !.pc = pc]
    BY <1>3 DEF CommandTakeLock, Handles
  <2>2. PICK pc \in {"output", "list"} : handler' = [handler EXCEPT !.pc = pc]
    BY <2>1
  <2>3. /\ handler' \in HandlerRecord /\ handler'.used <= stored
        /\ handler'.pc = pc /\ handler'.c = handler.c
    BY <1>1, <2>2, HandlerMoves
  <2>4. Listed(handler.c)
    BY <2>1 DEF Inv, AliveOK, Attends
  <2>5. \A d \in Client : Welcomed(d)' => StillOwed(d)
    BY <1>1, <2>1, WelcomedKept
  <2>6. GivesBack
    BY <1>1, <2>1, <2>3 DEF GivesBack, InEvent
  <2>7. QED
    BY <1>1, <2>1, <2>3, <2>4, <2>5, <2>6, Constants, EventKept
<1>4. ASSUME List \/ Output PROVE Inv'
  <2>1. /\ handler.pc \in {"list", "output"} /\ WriteLine(handler.c) /\ task' = task
        /\ files' \in Task \cup {Nobody}
        /\ handler' = [handler EXCEPT !.pc = "output"] \/ handler' = NoEvent
    BY <1>1, <1>4, Constants DEF List, Output, Handles
  <2>2. Listed(handler.c) /\ handler.c \in Client
    BY <2>1 DEF Inv, AliveOK, Attends, Listed, ListOK
  <2>3. /\ client' \in [Client -> ClientRecord] /\ reset' \in BOOLEAN
        /\ \A d \in Client : /\ client'[d].status = client[d].status
                             /\ client[d].lines \subseteq client'[d].lines
    BY <1>1, <2>1, <2>2, WriteLineDoes
  <2>4. /\ handler' \in HandlerRecord /\ handler'.used <= stored
        /\ \/ handler'.pc = "output" /\ handler'.c = handler.c
           \/ handler'.pc = "idle"
    <3>1. CASE handler' = [handler EXCEPT !.pc = "output"]
      BY <1>1, <3>1, HandlerMoves
    <3>2. CASE handler' = NoEvent
      BY <1>1, <3>2, Constants
    <3>3. QED
      BY <2>1, <3>1, <3>2
  <2>5. \A d \in Client : Welcomed(d)' => StillOwed(d)
    BY <1>1, <2>1, <2>3, WelcomedKept
  <2>6. GivesBack /\ (Attends' => Listed(handler'.c))
    BY <1>1, <2>1, <2>2, <2>4 DEF GivesBack, InEvent, Attends
  <2>7. QED
    BY <1>1, <2>1, <2>3, <2>4, <2>5, <2>6, EventKept
<1>5. QED
  BY <1>2, <1>3, <1>4

LEMMA ConnectionSteps ==
  ASSUME Inv, Ack \/ CloseFrame \/ Left
  PROVE  Inv'
<1>1. /\ task[Net].pc = "idle" /\ ~reset /\ Shape /\ stored \in Nat
      /\ UNCHANGED <<sink, files, stored, clients, task, done, cut, joined, reset>>
      /\ files \in Task \cup {Nobody} /\ client \in [Client -> ClientRecord]
      /\ cut \in [Client -> Nat] /\ reset \in BOOLEAN
      /\ handler \in HandlerRecord /\ handler.used <= stored
  BY DEF Ack, CloseFrame, Left, Handles, Inv, Shape
<1>2. CASE Left
  <2>1. handler.pc = "left" /\ ws' = Unlocked /\ handler' = NoEvent /\ client' = client
    BY <1>2 DEF Left, Handles
  <2>2. \A d \in Client : Welcomed(d)' => StillOwed(d)
    BY <1>1, <2>1, WelcomedKept
  <2>3. GivesBack /\ ~Attends'
    BY <2>1, Constants DEF GivesBack, InEvent, Attends
  <2>4. QED
    BY <1>1, <2>1, <2>2, <2>3, Constants, EventKept
<1>3. ASSUME Ack \/ CloseFrame PROVE Inv'
  <2>1. /\ UNCHANGED <<ws, handler>> /\ handler.pc = "idle"
    BY <1>3 DEF Ack, CloseFrame, Handles
  <2>2. /\ client' \in [Client -> ClientRecord]
        /\ \A d \in Client : /\ client'[d].status \in {client[d].status, "disconnecting"}
                             /\ client'[d].lines = client[d].lines
    <3>1. CASE Ack
      <4>1. PICK c \in Client : /\ client[c].queued > 0
                                /\ client' = [client EXCEPT ![c].queued = @ - 1]
        BY <3>1 DEF Ack
      <4>2. client[c].queued - 1 \in 0 .. QueueMax
        BY <1>1, <4>1 DEF ClientRecord
      <4>3. QED
        BY <1>1, <4>1, <4>2 DEF ClientRecord
    <3>2. CASE CloseFrame
      <4>1. PICK c \in Client : client' = [client EXCEPT ![c].status = "disconnecting"]
        BY <3>2 DEF CloseFrame, Connected
      <4>2. QED
        BY <1>1, <4>1 DEF ClientRecord
    <3>3. QED
      BY <1>3, <3>1, <3>2
  <2>3. \A d \in Client : Welcomed(d)' => StillOwed(d)
    BY <1>1, <2>1, <2>2 DEF Welcomed, Linked, StillOwed, Connected, Listed
  <2>4. GivesBack /\ ~Attends'
    BY <2>1 DEF GivesBack, InEvent, Attends
  <2>5. QED
    BY <1>1, <2>1, <2>2, <2>3, <2>4, EventKept
<1>4. QED
  BY <1>2, <1>3

LEMMA OnDisconnectStep ==
  ASSUME Inv, OnDisconnect
  PROVE  Inv'
<1>1. /\ handler.pc = "idle" /\ task[Net].pc = "idle" /\ ~reset /\ Shape /\ stored \in Nat
      /\ UNCHANGED <<sink, ws, files, stored, clients, client, task, done, cut, joined>>
      /\ files \in Task \cup {Nobody} /\ client \in [Client -> ClientRecord]
      /\ cut \in [Client -> Nat] /\ reset' \in BOOLEAN
  BY DEF OnDisconnect, Handles, Inv, Shape
<1>2. PICK c \in Client : Listed(c) /\ handler' = [NoEvent EXCEPT !.pc = "leave", !.c = c]
  BY DEF OnDisconnect
<1>3. /\ handler' \in HandlerRecord /\ handler'.used = 0
      /\ handler'.pc = "leave" /\ handler'.c = c
  <2>1. c \in Nat
    BY DEF Client
  <2>2. handler' = [pc |-> "leave", c |-> c, used |-> 0]
    BY <1>2 DEF NoEvent
  <2>3. QED
    BY <2>1, <2>2 DEF HandlerRecord
<1>4. \A d \in Client : Welcomed(d)' => StillOwed(d)
  BY <1>1 DEF Welcomed, Linked, StillOwed, Connected, Listed
<1>5. GivesBack
  BY <1>1, <1>3 DEF GivesBack, InEvent
<1>6. handler'.used <= stored
  BY <1>1, <1>3
<1>7. QED
  BY <1>1, <1>2, <1>3, <1>4, <1>5, <1>6, EventKept

(***************************************************************************)
(* Clients that join and leave.                                            *)
(***************************************************************************)
\* Both happen with the lock free: no task is in the loop over the clients.
LEMMA NobodyInside ==
  ASSUME Inv, MayLock(Net), handler.pc \in {"idle", "leave"}, task[Net].pc = "idle"
  PROVE  /\ ws.depth = 0 /\ Locked(Net) = [holder |-> Net, depth |-> 1]
         /\ \A t \in Task : task[t].pc # "each" /\ Depth(t) = 0
<1>1. ws.holder = Nobody /\ ws.depth = 0
  BY LockIsFree, Constants DEF InEvent
<1>2. \A t \in Task : Depth(t) = 0
  BY <1>1 DEF Inv, LockOK
<1>3. QED
  BY <1>1, <1>2 DEF Depth, Holds, Locked

\* The lock is taken for an event that logs.
LEMMA EventLocks ==
  ASSUME Inv, MayLock(Net), handler.pc \in {"idle", "leave"}, task[Net].pc = "idle",
         StartLog(Net), ws' = Locked(Net), InEvent'
  PROVE  LockOK'
<1>1. /\ Locked(Net) = [holder |-> Net, depth |-> 1]
      /\ \A t \in Task : task[t].pc # "each" /\ Depth(t) = 0
  BY NobodyInside
<1>2. Moves(Net) /\ task'[Net].pc = "emit" /\ Net \in Task
  BY LogStarts, Constants DEF Inv
<1>3. \A t \in Task : t # Net => Depth(t)' = 0
  BY <1>1, <1>2 DEF Depth, Holds, Moves
<1>4. Depth(Net)' = 1
  BY <1>2 DEF Depth, Holds
<1>5. QED
  BY <1>1, <1>2, <1>3, <1>4 DEF LockOK

LEMMA JoinStep ==
  ASSUME Inv, Join
  PROVE  Inv'
<1>1. PICK n : n = joined + 1
  OBVIOUS
<1>2. /\ handler.pc = "idle" /\ task[Net].pc = "idle" /\ ~reset /\ MayLock(Net)
      /\ joined < MaxClients /\ joined' = n /\ ws' = Locked(Net)
      /\ clients' = Append(clients, n)
      /\ client' = [client EXCEPT ![n].status = "connected"]
      /\ StartLog(Net) /\ handler' = [NoEvent EXCEPT !.pc = "size", !.c = n]
      /\ UNCHANGED <<sink, files, stored, done, cut, reset>>
  BY <1>1 DEF Join, Handles
<1>3. /\ Shape /\ joined \in 0 .. MaxClients /\ clients \in Seq(Client)
      /\ client \in [Client -> ClientRecord] /\ stored \in Nat
  BY DEF Inv, Shape, ListOK
<1>4. n \in Client /\ n \in Nat /\ joined' \in 0 .. MaxClients
  BY <1>1, <1>2, <1>3 DEF Client
<1>5. /\ handler' \in HandlerRecord /\ handler'.used = 0
      /\ handler'.pc = "size" /\ handler'.c = n
  BY <1>2, <1>4 DEF NoEvent, HandlerRecord
<1>6. /\ client' \in [Client -> ClientRecord]
      /\ \A d \in Client : d # n => client'[d] = client[d]
  BY <1>2, <1>3, <1>4 DEF ClientRecord
<1>7. Moves(Net) /\ task'[Net].pc = "emit" /\ Net \in Task
  BY <1>2, <1>3, LogStarts, Constants
<1>8. LinesOK' /\ done' \subseteq 1 .. stored
  <2>1. ~Carries(Net)'
    BY <1>7 DEF Carries
  <2>2. QED
    BY <1>2, <1>3, <1>7, <2>1, LinesKept DEF Inv
<1>9. Shape'
  <2>1. handler'.used <= stored
    BY <1>3, <1>5
  <2>2. QED
    BY <1>2, <1>3, <1>5, <1>6, <1>7, <1>8, <2>1, ShapeKept DEF Shape, Moves
<1>10. /\ clients' \in Seq(Client) /\ DOMAIN clients' = DOMAIN clients \cup {Len(clients) + 1}
       /\ clients'[Len(clients) + 1] = n
       /\ \A i \in DOMAIN clients : clients'[i] = clients[i] /\ i < Len(clients) + 1
  BY <1>2, <1>3, <1>4
<1>11. ListOK'
  <2>1. \A i \in DOMAIN clients : clients[i] <= joined /\ clients[i] \in Nat
    BY <1>3 DEF Inv, ListOK, Client
  <2>2. \A i \in DOMAIN clients : clients[i] < n
    BY <1>1, <1>3, <2>1
  <2>3. \A i \in DOMAIN clients' : clients'[i] <= joined'
    BY <1>2, <1>4, <1>10, <2>1, <2>2
  <2>4. \A i, j \in DOMAIN clients : i < j => clients[i] < clients[j]
    BY DEF Inv, ListOK
  <2>5. \A i, j \in DOMAIN clients' : i < j => clients'[i] < clients'[j]
    BY <1>10, <2>2, <2>4
  <2>6. QED
    BY <1>4, <1>10, <2>3, <2>5 DEF ListOK
<1>12. LockOK'
  <2>1. InEvent'
    BY <1>5 DEF InEvent
  <2>2. QED
    BY <1>2, <2>1, EventLocks
<1>13. \A d : Listed(d)' <=> Listed(d) \/ d = n
  BY <1>10 DEF Listed
<1>14. AliveOK'
  BY <1>5, <1>7, <1>13 DEF Inv, AliveOK, Moves
<1>15. DeliverOK'
  <2> SUFFICES ASSUME NEW d \in Client, Welcomed(d)', NEW line \in 1 .. stored, line > cut[d],
                      line \notin client'[d].lines
               PROVE  \E u \in Task : task'[u].line = line /\ Pending(u, d)'
    BY <1>2 DEF DeliverOK
  <2>1. d # n
    BY <1>5 DEF Welcomed, Linked
  <2>2. Welcomed(d) /\ line \notin client[d].lines
    BY <1>2, <1>6, <1>13, <2>1 DEF Welcomed, Linked, Connected
  <2>3. PICK u \in Task : task[u].line = line /\ Pending(u, d)
    BY <1>2, <2>2 DEF DeliverOK, Inv
  <2>4. u # Net
    BY <1>2, <2>3 DEF Pending, Carries
  <2>5. QED
    BY <1>7, <2>3, <2>4 DEF Pending, Carries, Moves
<1>16. QED
  BY <1>8, <1>9, <1>11, <1>12, <1>14, <1>15 DEF Inv

\* The sequence without its i-th element.
LEMMA RemoveAtDoes ==
  ASSUME NEW S, NEW q \in Seq(S), NEW i \in 1 .. Len(q)
  PROVE  /\ RemoveAt(q, i) \in Seq(S) /\ Len(RemoveAt(q, i)) = Len(q) - 1
         /\ \A k \in 1 .. Len(q) - 1 : RemoveAt(q, i)[k] = IF k < i THEN q[k] ELSE q[k + 1]
<1>1. Len(q) \in Nat /\ i \in Nat /\ 1 <= i /\ i <= Len(q)
  OBVIOUS
<1>2. PICK a, b : a = SubSeq(q, 1, i - 1) /\ b = SubSeq(q, i + 1, Len(q))
  OBVIOUS
<1>3. /\ a \in Seq(S) /\ Len(a) = i - 1
      /\ \A k \in 1 .. i - 1 : a[k] = q[k]
  BY <1>1, <1>2
<1>4. /\ b \in Seq(S) /\ Len(b) = Len(q) - i
      /\ \A k \in 1 .. Len(q) - i : b[k] = q[i + k]
  BY <1>1, <1>2
<1>5. RemoveAt(q, i) = a \o b
  BY <1>2 DEF RemoveAt
<1>6. a \o b \in Seq(S) /\ Len(a \o b) = Len(q) - 1
  <2>1. a \o b \in Seq(S)
    BY <1>3, <1>4
  <2>2. Len(a \o b) = Len(a) + Len(b)
    BY <1>3, <1>4, ConcatProperties
  <2>3. QED
    BY <1>1, <1>3, <1>4, <2>1, <2>2
<1>7. \A k \in 1 .. Len(q) - 1 : (a \o b)[k] = IF k < i THEN q[k] ELSE q[k + 1]
  <2> SUFFICES ASSUME NEW k \in 1 .. Len(q) - 1
               PROVE  (a \o b)[k] = IF k < i THEN q[k] ELSE q[k + 1]
    OBVIOUS
  <2>1. CASE k < i
    BY <1>1, <1>3, <1>4, <2>1
  <2>2. CASE ~(k < i)
    <3>1. k - (i - 1) \in 1 .. Len(q) - i /\ i + (k - (i - 1)) = k + 1
      BY <1>1, <2>2
    <3>2. (a \o b)[k] = b[k - (i - 1)]
      BY <1>1, <1>3, <1>4, <2>2
    <3>3. QED
      BY <1>4, <2>2, <3>1, <3>2
  <2>3. QED
    BY <2>1, <2>2
<1>8. QED
  BY <1>5, <1>6, <1>7

LEMMA LeaveStep ==
  ASSUME Inv, Leave
  PROVE  Inv'
<1>1. PICK i \in DOMAIN clients : /\ clients[i] = handler.c
                                  /\ clients' = RemoveAt(clients, i)
                                  /\ client' = [client EXCEPT ![clients[i]] = Absent]
                                  /\ handler' = [NoEvent EXCEPT !.pc = "left"]
  BY DEF Leave, Erase
<1>2. /\ handler.pc = "leave" /\ task[Net].pc = "idle" /\ ~reset /\ MayLock(Net)
      /\ ws' = Locked(Net) /\ StartLog(Net)
      /\ UNCHANGED <<sink, files, stored, done, cut, joined, reset>>
  BY DEF Leave, Erase, Handles
<1>3. /\ Shape /\ clients \in Seq(Client) /\ i \in 1 .. Len(clients)
      /\ client \in [Client -> ClientRecord] /\ stored \in Nat
  BY DEF Inv, Shape, ListOK
<1>4. PICK n : n = clients[i]
  OBVIOUS
<1>5. n \in Client
  BY <1>3, <1>4
<1>6. /\ clients' \in Seq(Client) /\ Len(clients') = Len(clients) - 1
      /\ \A k \in 1 .. Len(clients) - 1 : clients'[k] = IF k < i THEN clients[k] ELSE clients[k + 1]
  BY <1>1, <1>3, RemoveAtDoes
<1>7. /\ handler' \in HandlerRecord /\ handler'.used = 0 /\ handler'.pc = "left"
  BY <1>1 DEF NoEvent, HandlerRecord
<1>8. /\ client' \in [Client -> ClientRecord] /\ client'[n].status = "absent"
      /\ \A d \in Client : d # n => client'[d] = client[d]
  <2>1. Absent \in ClientRecord /\ Absent.status = "absent"
    BY DEF Absent, ClientRecord
  <2>2. QED
    BY <1>1, <1>3, <1>4, <1>5, <2>1
<1>9. Moves(Net) /\ task'[Net].pc = "emit" /\ Net \in Task
  BY <1>2, <1>3, LogStarts, Constants
<1>10. LinesOK' /\ done' \subseteq 1 .. stored
  <2>1. ~Carries(Net)'
    BY <1>9 DEF Carries
  <2>2. QED
    BY <1>2, <1>3, <1>9, <2>1, LinesKept DEF Inv
<1>11. Shape'
  <2>1. handler'.used <= stored
    BY <1>3, <1>7
  <2>2. QED
    BY <1>2, <1>3, <1>7, <1>8, <1>9, <1>10, <2>1, ShapeKept DEF Shape, Moves
<1>12. ListOK'
  <2>1. /\ joined' \in 0 .. MaxClients
        /\ \A k \in 1 .. Len(clients) : clients[k] <= joined'
        /\ \A j, k \in 1 .. Len(clients) : j < k => clients[j] < clients[k]
    BY <1>2, <1>3 DEF Inv, ListOK
  <2>2. DOMAIN clients' = 1 .. Len(clients) - 1
    BY <1>6
  <2>3. Len(clients) \in Nat /\ i \in Nat
    BY <1>3
  <2> DEFINE Old(k) == IF k < i THEN k ELSE k + 1
  <2>4. \A k \in DOMAIN clients' : Old(k) \in 1 .. Len(clients) /\ clients'[k] = clients[Old(k)]
    BY <1>6, <2>2, <2>3
  <2>5. \A j, k \in DOMAIN clients' : j < k => Old(j) < Old(k)
    BY <2>2, <2>3
  <2> HIDE DEF Old
  <2>6. /\ \A k \in DOMAIN clients' : clients'[k] <= joined'
        /\ \A j, k \in DOMAIN clients' : j < k => clients'[j] < clients'[k]
    BY <2>1, <2>4, <2>5
  <2>7. QED
    BY <1>6, <2>1, <2>6 DEF ListOK
<1>13. LockOK'
  <2>1. InEvent'
    BY <1>7 DEF InEvent
  <2>2. QED
    BY <1>2, <2>1, EventLocks
<1>14. \A t \in Task : task'[t].pc # "each"
  <2>1. \A t \in Task : task[t].pc # "each"
    BY <1>2, NobodyInside
  <2>2. QED
    BY <1>9, <2>1 DEF Moves
<1>15. AliveOK'
  BY <1>7, <1>14 DEF AliveOK, Attends
<1>16. \A d : Listed(d)' => Listed(d)
  <2> SUFFICES ASSUME NEW d, NEW k \in DOMAIN clients', clients'[k] = d
               PROVE  \E j \in DOMAIN clients : clients[j] = d
    BY DEF Listed
  <2>1. k \in 1 .. Len(clients) - 1 /\ Len(clients) \in Nat /\ DOMAIN clients = 1 .. Len(clients)
    BY <1>3, <1>6
  <2>2. k \in DOMAIN clients /\ k + 1 \in DOMAIN clients
    BY <2>1
  <2>3. QED
    BY <1>6, <2>1, <2>2
<1>17. DeliverOK'
  <2> SUFFICES ASSUME NEW d \in Client, Welcomed(d)', NEW line \in 1 .. stored, line > cut[d],
                      line \notin client'[d].lines
               PROVE  \E u \in Task : task'[u].line = line /\ Pending(u, d)'
    BY <1>2 DEF DeliverOK
  <2>1. d # n
    BY <1>8 DEF Welcomed, Linked, Connected
  <2>2. Welcomed(d) /\ line \notin client[d].lines
    BY <1>1, <1>2, <1>4, <1>8, <1>16, <2>1 DEF Welcomed, Linked, Connected
  <2>3. PICK u \in Task : task[u].line = line /\ Pending(u, d)
    BY <1>2, <2>2 DEF DeliverOK, Inv
  <2>4. u # Net
    BY <1>2, <2>3 DEF Pending, Carries
  <2>5. QED
    BY <1>9, <2>3, <2>4 DEF Pending, Carries, Moves
<1>18. QED
  BY <1>10, <1>11, <1>12, <1>13, <1>15, <1>17 DEF Inv

(***************************************************************************)
(* The theorems.                                                           *)
(***************************************************************************)
LEMMA Invariance == Inv /\ [Next]_vars => Inv'
<1> SUFFICES ASSUME Inv, [Next]_vars PROVE Inv'
  OBVIOUS
<1>1. CASE UNCHANGED vars
  <2>1. Shape'
    <3>1. Shape /\ task \in [Task -> TaskRecord]
      BY DEF Inv, Shape
    <3>2. QED
      BY <1>1, <3>1, ShapeKept DEF vars, Shape
  <2>2. ListOK' /\ LockOK'
    BY <1>1 DEF Inv, ListOK, LockOK, Depth, Holds, InEvent, vars
  <2>3. AliveOK' /\ LinesOK'
    BY <1>1 DEF Inv, AliveOK, Attends, Listed, LinesOK, Carries, vars
  <2>4. ~reset' => DeliverOK'
    BY <1>1 DEF Inv, DeliverOK, Welcomed, Linked, Connected, Listed, Pending, Carries, vars
  <2>5. QED
    BY <2>1, <2>2, <2>3, <2>4 DEF Inv
<1>2. ASSUME NEW t \in Task, Log(t) \/ FilesCall(t) \/ LogStep(t) PROVE Inv'
  BY <1>2, LogAndFilesSteps, EmitStep, TextAllStep, TextEachStep DEF LogStep
<1>3. ASSUME EventStep PROVE Inv'
  BY <1>3, HistorySizeStep, HistoryCopyStep, ReadyStep, CommandSteps, ConnectionSteps,
     LeaveStep
  DEF EventStep
<1>4. QED
  BY <1>1, <1>2, <1>3, JoinStep, CommandSteps, ConnectionSteps, OnDisconnectStep DEF Next

LEMMA InvAlways == Spec => []Inv
BY Initially, Invariance, PTL DEF Spec

\* textAll's loop and the handlers of events in mod_web.cpp go on only with
\* clients that are still listed, for every number of tasks and browsers.
THEOREM NoErasedClient == Spec => []ClientsAreAlive
<1>1. Inv => TypeOK
  BY DEF Inv, Shape, ListOK, LockOK, TypeOK, ClientRecord
<1>2. Inv => ClientsAreAlive
  BY <1>1 DEF Inv, AliveOK, Attends, ClientsAreAlive
<1>3. QED
  BY <1>2, InvAlways, PTL

\* A browser misses no line of WsLogBroadcast that WsSendHistory has not sent
\* it, for every number of tasks that log, browsers and places in a queue.
THEOREM EveryLineReaches == Spec => []NoLineMissed
<1>1. Inv => NoLineMissed
  <2> SUFFICES ASSUME Inv, ~reset, NEW c \in Connected, handler.c # c,
                      NEW line \in done, line > cut[c]
               PROVE  line \in client[c].lines
    BY DEF NoLineMissed
  <2>1. c \in Client /\ Welcomed(c) /\ line \in 1 .. stored
    BY DEF Welcomed, Linked, Connected, Inv, Shape
  <2>2. \A t \in Task : Carries(t) => task[t].line # line
    BY DEF Inv, LinesOK
  <2>3. QED
    BY <2>1, <2>2 DEF Inv, DeliverOK, Pending
<1>2. QED
  BY <1>1, InvAlways, PTL

(***************************************************************************)
(* The three locks.                                                        *)
(***************************************************************************)
\* Who has the sink and the files mutex: a log call between Emit and GiveSink,
\* and a files call or command until it gives the mutex back.
HeldOK ==
  /\ \A t \in Task : sink = t <=> task[t].pc = "give"
  /\ \A t \in Logger : files = t => task[t].pc \notin {"idle", "lock"}
  /\ files = Net => handler.pc \in {"list", "output"}
  /\ task[Net].pc \notin {"lock", "unlock"}

LEMMA HeldInit == Init => HeldOK
BY Constants DEF Init, HeldOK, NoCall, Task

\* A step that touches neither the sink nor the files mutex, of a task that is
\* not at the sink before or after it.
LEMMA HeldKept ==
  ASSUME Inv, HeldOK, NEW t \in Task, Moves(t), UNCHANGED <<sink, files>>,
         task[t].pc # "give", task'[t].pc # "give",
         t \in Logger /\ files = t => task'[t].pc \notin {"idle", "lock"},
         t = Net => task'[t].pc \notin {"lock", "unlock"},
         handler'.pc = handler.pc \/ handler.pc \notin {"list", "output"}
  PROVE  HeldOK'
<1>1. \A u \in Task : sink' = u <=> task'[u].pc = "give"
  BY DEF HeldOK, Moves
<1>2. \A u \in Logger : files' = u => task'[u].pc \notin {"idle", "lock"}
  BY DEF HeldOK, Moves, Task
<1>3. files' = Net => handler'.pc \in {"list", "output"}
  BY DEF HeldOK
<1>4. task'[Net].pc \notin {"lock", "unlock"}
  BY Constants DEF HeldOK, Moves
<1>5. QED
  BY <1>1, <1>2, <1>3, <1>4 DEF HeldOK

LEMMA LogHeld ==
  ASSUME Inv, HeldOK, NEW t \in Task, Log(t) \/ FilesCall(t) \/ LogStep(t)
  PROVE  HeldOK'
<1>0. Shape /\ task \in [Task -> TaskRecord] /\ Net \in Task /\ Net \notin Logger
  BY Constants DEF Inv, Shape
<1>1. CASE Log(t) \/ FilesCall(t)
  <2>1. /\ Moves(t) /\ task'[t].pc \in {"emit", "lock"} /\ t \in Logger
        /\ task[t].pc = "idle" /\ UNCHANGED <<sink, files, handler>>
    BY <1>0, <1>1, LogStarts, SetPc DEF Log, FilesCall, At
  <2>2. files # t /\ t # Net
    BY <1>0, <2>1 DEF HeldOK
  <2>3. QED
    BY <2>1, <2>2, HeldKept
<1>2. CASE Emit(t)
  <2>1. /\ task[t].pc = "emit" /\ sink = Nobody /\ sink' = t /\ UNCHANGED <<files, handler>>
        /\ task' = [task EXCEPT ![t] = [@ EXCEPT !.pc = "give", !.line = stored + 1]]
    BY <1>0, <1>2 DEF Emit, At
  <2>2. task'[t].pc = "give" /\ \A u \in Task : u # t => task'[u] = task[u]
    BY <1>0, <2>1 DEF TaskRecord
  <2>3. \A u \in Task : sink' = u <=> task'[u].pc = "give"
    BY <2>1, <2>2 DEF HeldOK, Task
  <2>4. \A u \in Logger : files' = u => task'[u].pc \notin {"idle", "lock"}
    BY <2>1, <2>2 DEF HeldOK, Task
  <2>5. files' = Net => handler'.pc \in {"list", "output"}
    BY <2>1 DEF HeldOK
  <2>6. task'[Net].pc \notin {"lock", "unlock"}
    BY <1>0, <2>2 DEF HeldOK
  <2>7. QED
    BY <2>3, <2>4, <2>5, <2>6 DEF HeldOK
<1>3. CASE GiveSink(t)
  <2>1. /\ task[t].pc = "give" /\ sink' = Nobody /\ UNCHANGED <<files, handler>>
        /\ Moves(t) /\ task'[t].pc = "count"
    BY <1>0, <1>3, SetPc DEF GiveSink, At
  <2>2. \A u \in Task : sink' = u <=> task'[u].pc = "give"
    BY <2>1 DEF HeldOK, Moves, Task
  <2>3. \A u \in Logger : files' = u => task'[u].pc \notin {"idle", "lock"}
    BY <2>1 DEF HeldOK, Moves, Task
  <2>4. files' = Net => handler'.pc \in {"list", "output"}
    BY <2>1 DEF HeldOK
  <2>5. task'[Net].pc \notin {"lock", "unlock"}
    BY <1>0, <2>1 DEF HeldOK, Moves
  <2>6. QED
    BY <2>2, <2>3, <2>4, <2>5 DEF HeldOK
<1>4. CASE Count(t) \/ TextAll(t) \/ TextEach(t)
  <2>1. task[t].pc \in {"count", "all", "each"} /\ UNCHANGED <<sink, files, handler>>
    BY <1>4 DEF Count, TextAll, TextEach, At
  <2>2. CASE EndLog(t)
    <3>1. PICK pc : /\ pc = IF files = t /\ t \in Logger THEN "unlock" ELSE "idle"
                    /\ task' = [task EXCEPT ![t] = [NoCall EXCEPT !.pc = pc]]
      BY <2>2 DEF EndLog, NoCall
    <3>2. Moves(t) /\ task'[t].pc = pc
      BY <1>0, <3>1, Constants, SetTask DEF Moves
    <3>3. QED
      BY <1>0, <2>1, <3>1, <3>2, HeldKept
  <2>3. CASE \E pc \in {"all", "each"} : task'[t].pc = pc /\ Moves(t)
    BY <2>1, <2>3, HeldKept
  <2>4. CASE Count(t)
    <3>1. CASE task' = [task EXCEPT ![t].pc = "all"]
      BY <1>0, <2>3, <3>1, SetPc
    <3>2. QED
      BY <2>2, <2>4, <3>1 DEF Count
  <2>5. ASSUME NEW c \in Client, NEW pc \in {"all", "each"},
               task' = [task EXCEPT ![t] = [@ EXCEPT !.pc = pc, !.c = c]]
        PROVE  HeldOK'
    <3>1. PICK r : r = [task[t] EXCEPT !.pc = pc, !.c = c]
      OBVIOUS
    <3>2. r \in TaskRecord /\ r.pc = pc
      <4>1. task[t] \in TaskRecord /\ c \in Nat
        BY <1>0 DEF Client
      <4>2. QED
        BY <3>1, <4>1 DEF TaskRecord
    <3>3. task' = [task EXCEPT ![t] = r]
      BY <1>0, <2>5, <3>1
    <3>4. QED
      BY <1>0, <2>3, <3>2, <3>3, SetTask DEF Moves
  <2>6. clients \in Seq(Client)
    BY DEF Inv, ListOK
  <2>7. CASE TextAll(t)
    <3>1. CASE clients = << >>
      BY <2>2, <2>7, <3>1 DEF TextAll
    <3>2. CASE clients # << >>
      <4>1. PICK c \in Client : c = Head(clients)
        BY <2>6, <3>2
      <4>2. task' = [task EXCEPT ![t] = [@ EXCEPT !.pc = "each", !.c = c]]
        BY <1>0, <2>7, <3>2, <4>1 DEF TextAll
      <4>3. QED
        BY <2>5, <4>2
    <3>3. QED
      BY <3>1, <3>2
  <2>8. CASE TextEach(t)
    <3>1. CASE ~EndLog(t)
      <4>1. PICK i \in DOMAIN clients : task' = [task EXCEPT ![t].c = clients[i]]
        BY <2>8, <3>1 DEF TextEach, After
      <4>2. PICK c \in Client : c = clients[i]
        BY <2>6, <4>1
      <4>3. task[t].pc = "each"
        BY <2>8 DEF TextEach, At
      <4>4. task' = [task EXCEPT ![t] = [@ EXCEPT !.pc = "each", !.c = c]]
        BY <1>0, <4>1, <4>2, <4>3 DEF TaskRecord
      <4>5. QED
        BY <2>5, <4>4
    <3>2. QED
      BY <2>2, <3>1
  <2>9. QED
    BY <1>4, <2>4, <2>7, <2>8
<1>5. CASE FilesTakeLock(t)
  <2>1. /\ task[t].pc = "lock" /\ files = Nobody /\ files' = t /\ UNCHANGED <<sink, handler>>
        /\ \E pc \in {"emit", "unlock"} : task' = [task EXCEPT ![t].pc = pc]
    BY <1>5 DEF FilesTakeLock, At
  <2>2. Moves(t) /\ task'[t].pc \in {"emit", "unlock"} /\ t # Net
    BY <1>0, <2>1, SetPc DEF HeldOK
  <2>3. \A u \in Task : sink' = u <=> task'[u].pc = "give"
    BY <2>1, <2>2 DEF HeldOK, Moves
  <2>4. \A u \in Logger : files' = u => task'[u].pc \notin {"idle", "lock"}
    BY <2>1, <2>2
  <2>5. task'[Net].pc \notin {"lock", "unlock"}
    BY <1>0, <2>2 DEF HeldOK, Moves
  <2>6. QED
    BY <2>1, <2>2, <2>3, <2>4, <2>5 DEF HeldOK
<1>6. CASE FilesGiveLock(t)
  <2>1. /\ task[t].pc = "unlock" /\ files' = Nobody /\ UNCHANGED <<sink, handler>>
        /\ Moves(t) /\ task'[t].pc = "idle"
    BY <1>0, <1>6, Constants, SetTask DEF FilesGiveLock, At, Moves
  <2>2. \A u \in Task : sink' = u <=> task'[u].pc = "give"
    BY <2>1 DEF HeldOK, Moves
  <2>3. \A u \in Task : files' # u
    BY <2>1
  <2>4. task'[Net].pc \notin {"lock", "unlock"}
    BY <1>0, <2>1 DEF HeldOK, Moves
  <2>5. QED
    BY <1>0, <2>2, <2>3, <2>4 DEF HeldOK, Task
<1>7. QED
  BY <1>1, <1>2, <1>3, <1>4, <1>5, <1>6 DEF LogStep

LEMMA EventHeld ==
  ASSUME Inv, HeldOK, EventStep \/ Join \/ Command \/ Ack \/ CloseFrame \/ OnDisconnect
  PROVE  HeldOK'
<1>0. /\ Shape /\ task \in [Task -> TaskRecord] /\ Net \in Task /\ Net \notin Logger
      /\ task[Net].pc = "idle" /\ UNCHANGED sink /\ Nobody \notin Task
  BY Constants
     DEF Inv, Shape, EventStep, HistorySize, HistoryCopy, Ready, CommandTakeLock, List, Output,
         Leave, Erase, Left, Join, Command, Ack, CloseFrame, OnDisconnect, Handles
<1>1. Moves(Net) /\ task'[Net].pc \in {"idle", "emit"}
  <2>1. StartLog(Net) \/ UNCHANGED task
    BY DEF EventStep, HistorySize, HistoryCopy, Ready, CommandTakeLock, List, Output,
           Leave, Erase, Left, Join, Command, Ack, CloseFrame, OnDisconnect
  <2>2. CASE UNCHANGED task
    BY <1>0, <2>2 DEF Moves
  <2>3. QED
    BY <1>0, <2>1, <2>2, LogStarts
<1>2. CASE ~CommandTakeLock /\ ~List /\ ~Output
  <2>1. /\ UNCHANGED files
        /\ handler.pc \in {"idle", "size", "copy", "ready", "leave", "left"}
    BY <1>2 DEF EventStep, HistorySize, HistoryCopy, Ready, Leave, Left, Join, Command, Ack,
                CloseFrame, OnDisconnect, Handles
  <2>2. QED
    BY <1>0, <1>1, <2>1, HeldKept
<1>3. ASSUME files' \in {Nobody, Net} \/ files' = files, files' = Net => handler'.pc \in {"list", "output"}
      PROVE  HeldOK'
  <2>1. \A u \in Task : sink' = u <=> task'[u].pc = "give"
    BY <1>0, <1>1 DEF HeldOK, Moves
  <2>2. \A u \in Logger : files' = u => task'[u].pc \notin {"idle", "lock"}
    BY <1>0, <1>1, <1>3 DEF HeldOK, Moves, Task
  <2>3. QED
    BY <1>1, <1>3, <2>1, <2>2 DEF HeldOK
<1>4. CASE CommandTakeLock
  BY <1>3, <1>4 DEF CommandTakeLock, Handles, Inv, Shape, HandlerRecord
<1>5. CASE List
  BY <1>3, <1>5 DEF List, Handles, Inv, Shape, HandlerRecord
<1>6. CASE Output
  BY <1>0, <1>3, <1>6 DEF Output, Handles
<1>7. QED
  BY <1>2, <1>4, <1>5, <1>6

LEMMA HeldStep == Inv /\ HeldOK /\ [Next]_vars => HeldOK'
<1> SUFFICES ASSUME Inv, HeldOK, [Next]_vars PROVE HeldOK'
  OBVIOUS
<1>1. CASE UNCHANGED vars
  BY <1>1 DEF vars, HeldOK
<1>2. CASE Next
  BY <1>2, LogHeld, EventHeld DEF Next
<1>3. QED
  BY <1>1, <1>2

\* The locks are taken in the order files mutex, web socket, sink: who has the
\* sink waits for nothing, who has the web socket at most for the sink, who has
\* the files mutex at most for these two.
LEMMA NoWaitingInACircle ==
  ASSUME Inv, HeldOK, ~reset, NEW w \in Task, Busy(w)
  PROVE  \E t \in Task : Busy(t) /\ ~Waits(t)
<1>0. /\ task \in [Task -> TaskRecord] /\ Net \in Task /\ Net \notin Logger
      /\ sink \in Task \cup {Nobody} /\ files \in Task \cup {Nobody}
      /\ ws.holder \in Task \cup {Nobody} /\ ws.depth \in Nat
  BY Constants DEF Inv, Shape, LockOK
<1>1. CASE sink # Nobody
  <2>1. sink \in Task /\ task[sink].pc = "give"
    BY <1>0, <1>1 DEF HeldOK
  <2>2. Busy(sink) /\ ~Waits(sink)
    BY <2>1 DEF Busy, Waits
  <2>3. QED
    BY <2>1, <2>2
<1>2. CASE sink = Nobody /\ ws.holder # Nobody
  <2>1. PICK t \in Task : t = ws.holder
    BY <1>0, <1>2
  <2>2. Depth(t) # 0
    BY <1>0, <1>2, <2>1 DEF Inv, LockOK
  <2>3. Holds(t)
    BY <2>2 DEF Depth, Holds
  <2>4. Busy(t)
    BY <2>3 DEF Holds, Busy, InEvent
  <2>5. task[t].pc # "lock" /\ ~(t = Net /\ handler.pc = "lock" /\ task[t].pc = "idle")
    BY <2>3 DEF Holds, InEvent, HeldOK
  <2>6. ~Waits(t)
    BY <1>2, <2>1, <2>5 DEF Waits, MayLock
  <2>7. QED
    BY <2>4, <2>6
<1>3. CASE sink = Nobody /\ ws.holder = Nobody /\ files # Nobody
  <2>1. PICK t \in Task : t = files
    BY <1>0, <1>3
  <2>2. /\ Busy(t) /\ task[t].pc # "lock"
        /\ ~(t = Net /\ task[t].pc = "idle" /\ handler.pc = "lock")
    BY <2>1 DEF HeldOK, Busy, Task
  <2>3. ~Waits(t)
    BY <1>3, <2>2 DEF Waits, MayLock
  <2>4. QED
    BY <2>2, <2>3
<1>4. CASE sink = Nobody /\ ws.holder = Nobody /\ files = Nobody
  BY <1>4 DEF Waits, MayLock
<1>5. QED
  BY <1>1, <1>2, <1>3, <1>4

\* As long as a log call, a files call or an event is under way, one of those
\* under way waits for none of the three locks, for every number of tasks: the
\* part of NoCircle that says nobody waits in a circle.
THEOREM NoDeadlock == Spec => []SomeoneGoes
<1>1. Inv /\ HeldOK => SomeoneGoes
  BY NoWaitingInACircle DEF SomeoneGoes
<1>2. QED
  BY <1>1, HeldInit, HeldStep, InvAlways, PTL DEF Spec
=============================================================================
