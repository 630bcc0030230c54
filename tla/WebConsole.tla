----------------------------- MODULE WebConsole -----------------------------
(***************************************************************************)
(* The web console: log lines of any task broadcast to the browsers that   *)
(* are connected (src/src/system/modules/mod_web.cpp, over the secondary   *)
(* callback of core/log.cpp and the vendored AsyncWebSocket.cpp).          *)
(*                                                                         *)
(* A log call takes the sink mutex, stores its line and releases the       *)
(* mutex; then its callback takes the web socket's lock, which is          *)
(* recursive, and queues the line for every client.  The network task      *)
(* takes the same lock for a client that joins or leaves, and logs while   *)
(* it holds it.  A third lock is around both: the file handler logs, and   *)
(* lists a directory to whoever asked, with its mutex taken                *)
(* (handlers/files_handler.cpp, commands/cmd_files.cpp; what the calls do  *)
(* to the files is in Files).                                              *)
(*                                                                         *)
(* A client's queue drains as the browser acknowledges.  A message for a   *)
(* full queue closes the connection: the client is erased under the feet   *)
(* of the caller, which goes on using it.  That is undefined, and stands   *)
(* here for a reset of the device; what goes on otherwise is not explored. *)
(* So it is for a connection that ends while a log call uses it: the       *)
(* network task clears the client's _client with no lock.                  *)
(*                                                                         *)
(* Abstractions.  Lines are numbered as they are stored, and the ring does *)
(* not run over; every line is of a level that is broadcast.  Frames,      *)
(* pings and bytes are left out, so are a client's own lock, held for one  *)
(* step, and what a command does besides its output.                       *)
(***************************************************************************)
EXTENDS Integers, Sequences, SequencesExt

CONSTANTS
  Net,        \* the async_tcp task
  Logger,     \* the other tasks that log
  MaxClients, \* bound: browsers that connect
  QueueMax,   \* WS_MAX_QUEUED_MESSAGES
  MaxLines    \* bound: log and files calls, besides what joins and leaves log

Task   == Logger \cup {Net}
Client == 1 .. MaxClients
Nobody == "nobody"

ASSUME TaskAssumption   == Net \notin Logger /\ Nobody \notin Task
ASSUME NumberAssumption == MaxClients \in Nat /\ QueueMax \in Nat \ {0} /\ MaxLines \in Nat

VARIABLES
  sink,     \* holder of the sink mutex
  ws,       \* holder of the web socket's lock, and how often it has taken it
  files,    \* holder of g_files_mutex
  stored,   \* number of lines stored
  clients,  \* _clients
  client,   \* a client's status, queue length, and the lines queued for it so far
  task,     \* where each task stands in a log or files call, with its line and client
  handler,  \* where the network task stands in an event, with its client
  done,     \* history: the lines whose log call has returned
  cut,      \* history: lines too old for the history that a client was sent
  joined,   \* bound: clients so far
  logged,   \* bound: log and files calls so far
  reset     \* the device has reset

vars == <<sink, ws, files, stored, clients, client, task, handler, done, cut, joined, logged, reset>>

Absent  == [status |-> "absent", queued |-> 0, lines |-> {}]
NoCall  == [pc |-> "idle", line |-> 0, c |-> 0]
NoEvent == [pc |-> "idle", c |-> 0, used |-> 0]
Free    == [holder |-> Nobody, depth |-> 0]

Listed(c) == \E i \in DOMAIN clients : clients[i] = c
MayLock(t) == ws.holder \in {Nobody, t}
Locked(t)  == [holder |-> t, depth |-> ws.depth + 1]
Unlocked   == IF ws.depth = 1 THEN Free ELSE [ws EXCEPT !.depth = @ - 1]

StartLog(t)  == task' = [task EXCEPT ![t] = [NoCall EXCEPT !.pc = "emit"]]
EndLog(t)    == /\ task' = [task EXCEPT ![t] =
                     IF files = t /\ t \in Logger THEN [NoCall EXCEPT !.pc = "unlock"] ELSE NoCall]
                /\ done' = done \cup {task[t].line}
At(t, label) == task[t].pc = label /\ ~reset
Handles(label) == handler.pc = label /\ task[Net].pc = "idle" /\ ~reset

\* The client's _client: cleared when its connection has ended.
Linked(c) == ~(handler.pc = "leave" /\ handler.c = c)

\* AsyncWebSocketClient::text of the given lines: nothing for a client that is
\* not connected; a full queue closes and erases the client.
Text(c, lines) ==
  IF client[c].status # "connected" \/ ~Linked(c) THEN UNCHANGED <<client, reset>>
  ELSE IF client[c].queued >= QueueMax THEN reset' = TRUE /\ UNCHANGED client
  ELSE /\ client' = [client EXCEPT ![c].queued = @ + 1, ![c].lines = @ \cup lines]
       /\ UNCHANGED reset

(***************************************************************************)
(* A log call.                                                             *)
(***************************************************************************)
Log(t) ==
  /\ t \in Logger /\ At(t, "idle") /\ logged < MaxLines
  /\ StartLog(t) /\ logged' = logged + 1
  /\ UNCHANGED <<sink, ws, files, stored, clients, client, handler, done, cut, joined, reset>>

\* LogEmitLine: the sink is taken and the line written and stored, ...
Emit(t) ==
  /\ At(t, "emit") /\ sink = Nobody
  /\ sink' = t /\ stored' = stored + 1
  /\ task' = [task EXCEPT ![t].pc = "give", ![t].line = stored + 1]
  /\ UNCHANGED <<ws, files, clients, client, handler, done, cut, joined, logged, reset>>

\* Mistake: the callback is called before the sink is released.
GiveSinkAfter(t) ==
  /\ At(t, "give") /\ MayLock(t)
  /\ sink' = Nobody
  /\ task' = [task EXCEPT ![t].pc = "count"]
  /\ UNCHANGED <<ws, files, stored, clients, client, handler, done, cut, joined, logged, reset>>

\* ... and the sink released, before the secondary callback.
GiveSink(t) ==
  /\ At(t, "give")
  /\ sink' = Nobody
  /\ task' = [task EXCEPT ![t].pc = "count"]
  /\ UNCHANGED <<ws, files, stored, clients, client, handler, done, cut, joined, logged, reset>>

Connected == {c \in Client : Listed(c) /\ client[c].status = "connected"}

\* Mistake: a lock that another task holds is not waited for.
CountTrying(t) ==
  /\ At(t, "count")
  /\ IF Connected = {} \/ ~MayLock(t) THEN EndLog(t)
     ELSE task' = [task EXCEPT ![t].pc = "all"] /\ UNCHANGED done
  /\ UNCHANGED <<sink, ws, files, stored, clients, client, handler, cut, joined, logged, reset>>

\* WsLogBroadcast: count() takes and releases the lock.
Count(t) ==
  /\ At(t, "count") /\ MayLock(t)
  /\ IF Connected = {} THEN EndLog(t)
     ELSE task' = [task EXCEPT ![t].pc = "all"] /\ UNCHANGED done
  /\ UNCHANGED <<sink, ws, files, stored, clients, client, handler, cut, joined, logged, reset>>

\* textAll takes it for a loop over the clients.
TextAll(t) ==
  /\ At(t, "all") /\ MayLock(t)
  /\ IF clients = << >> THEN EndLog(t) /\ UNCHANGED ws
     ELSE /\ ws' = Locked(t)
          /\ task' = [task EXCEPT ![t].pc = "each", ![t].c = Head(clients)]
          /\ UNCHANGED done
  /\ UNCHANGED <<sink, files, stored, clients, client, handler, cut, joined, logged, reset>>

\* Clients are listed in the order of their numbers.
After(c) == {i \in DOMAIN clients : clients[i] > c}

TextEach(t) ==
  LET c == task[t].c IN
  /\ At(t, "each")
  /\ Text(c, {task[t].line})
  /\ IF After(c) = {} THEN EndLog(t) /\ ws' = Unlocked
     ELSE /\ \E i \in After(c) : /\ \A j \in After(c) : i <= j
                                 /\ task' = [task EXCEPT ![t].c = clients[i]]
          /\ UNCHANGED <<ws, done>>
  /\ UNCHANGED <<sink, files, stored, clients, handler, cut, joined, logged>>

(***************************************************************************)
(* A files call of another task than the network's.                        *)
(***************************************************************************)
FilesCall(t) ==
  /\ t \in Logger /\ At(t, "idle") /\ logged < MaxLines
  /\ task' = [task EXCEPT ![t].pc = "lock"] /\ logged' = logged + 1
  /\ UNCHANGED <<sink, ws, files, stored, clients, client, handler, done, cut, joined, reset>>

\* A mount, a format or a failed write logs under the mutex, others do not.
FilesTakeLock(t) ==
  /\ At(t, "lock") /\ files = Nobody
  /\ files' = t
  /\ task' \in {[task EXCEPT ![t].pc = pc] : pc \in {"emit", "unlock"}}
  /\ UNCHANGED <<sink, ws, stored, clients, client, handler, done, cut, joined, logged, reset>>

FilesGiveLock(t) ==
  /\ At(t, "unlock")
  /\ files' = Nobody /\ task' = [task EXCEPT ![t] = NoCall]
  /\ UNCHANGED <<sink, ws, stored, clients, client, handler, done, cut, joined, logged, reset>>

(***************************************************************************)
(* Events of the network task.  One is handled at a time, and its handler  *)
(* waits for the log calls it makes.                                       *)
(***************************************************************************)
\* _newClient takes the lock for the whole of WS_EVT_CONNECT, which logs first.
Join ==
  /\ Handles("idle") /\ MayLock(Net) /\ joined < MaxClients
  /\ joined' = joined + 1
  /\ ws' = Locked(Net)
  /\ clients' = Append(clients, joined + 1)
  /\ client' = [client EXCEPT ![joined + 1].status = "connected"]
  /\ StartLog(Net)
  /\ handler' = [NoEvent EXCEPT !.pc = "size", !.c = joined + 1]
  /\ UNCHANGED <<sink, files, stored, done, cut, logged, reset>>

\* WsSendHistory: the size, and memory for it or not ...
HistorySize ==
  /\ Handles("size")
  /\ \/ handler' = [handler EXCEPT !.pc = "copy", !.used = stored] /\ UNCHANGED cut
     \/ /\ handler' = [handler EXCEPT !.pc = "ready"]
        /\ cut' = [cut EXCEPT ![handler.c] = stored]
  /\ UNCHANGED <<sink, ws, files, stored, clients, client, task, done, joined, logged, reset>>

\* ... and a copy of the newest bytes that fit.
HistoryCopy ==
  LET oldest == stored - handler.used IN
  /\ Handles("copy")
  /\ Text(handler.c, oldest + 1 .. stored)
  /\ cut' = [cut EXCEPT ![handler.c] = oldest]
  /\ handler' = [handler EXCEPT !.pc = "ready"]
  /\ UNCHANGED <<sink, ws, files, stored, clients, task, done, joined, logged>>

\* "--- console ready ---", and the lock is released.
Ready ==
  /\ Handles("ready")
  /\ Text(handler.c, {})
  /\ ws' = Unlocked /\ handler' = NoEvent
  /\ UNCHANGED <<sink, files, stored, clients, task, done, cut, joined, logged>>

\* A command of a client, on the files or not.
Command ==
  /\ Handles("idle")
  /\ \E c \in Connected, pc \in {"output", "lock"} :
       handler' = [NoEvent EXCEPT !.pc = pc, !.c = c]
  /\ UNCHANGED <<sink, ws, files, stored, clients, client, task, done, cut, joined, logged, reset>>

\* A files command logs under the mutex, or lists entries to the client.
CommandTakeLock ==
  /\ Handles("lock") /\ files = Nobody
  /\ files' = Net
  /\ \/ /\ logged < MaxLines /\ StartLog(Net)
        /\ handler' = [handler EXCEPT !.pc = "output"] /\ logged' = logged + 1
     \/ handler' = [handler EXCEPT !.pc = "list"] /\ UNCHANGED <<task, logged>>
  /\ UNCHANGED <<sink, ws, stored, clients, client, done, cut, joined, reset>>

\* WsWriteLine: a line of output is queued if the queue has room.
WriteLine(c) ==
  IF client[c].queued < QueueMax THEN Text(c, {}) ELSE UNCHANGED <<client, reset>>

List ==
  /\ Handles("list")
  /\ WriteLine(handler.c)
  /\ handler' = [handler EXCEPT !.pc = "output"]
  /\ UNCHANGED <<sink, ws, files, stored, clients, task, done, cut, joined, logged>>

\* The mutex is given back before the last line of output.
Output ==
  /\ Handles("output")
  /\ files' = IF files = Net THEN Nobody ELSE files
  /\ WriteLine(handler.c)
  /\ handler' = NoEvent
  /\ UNCHANGED <<sink, ws, stored, clients, task, done, cut, joined, logged>>

\* _onAck: a message that is acknowledged leaves the queue.
Ack ==
  /\ Handles("idle")
  /\ \E c \in Client : /\ client[c].queued > 0
                       /\ client' = [client EXCEPT ![c].queued = @ - 1]
  /\ UNCHANGED <<sink, ws, files, stored, clients, task, handler, done, cut, joined, logged, reset>>

\* A close frame is answered, and the connection ends later.
CloseFrame ==
  /\ Handles("idle")
  /\ \E c \in Connected : client' = [client EXCEPT ![c].status = "disconnecting"]
  /\ UNCHANGED <<sink, ws, files, stored, clients, task, handler, done, cut, joined, logged, reset>>

\* _onDisconnect clears _client with no lock: a log call that has just found it
\* set may fail.
InUse(c) == c \in Connected /\ \E t \in Logger : At(t, "each") /\ task[t].c = c
OnDisconnect ==
  /\ Handles("idle")
  /\ \E c \in {d \in Client : Listed(d)} :
       /\ handler' = [NoEvent EXCEPT !.pc = "leave", !.c = c]
       /\ UNCHANGED reset \/ (InUse(c) /\ reset' = TRUE)
  /\ UNCHANGED <<sink, ws, files, stored, clients, client, task, done, cut, joined, logged>>

\* Its destructor logs.
Erase(c) ==
  /\ \E i \in DOMAIN clients : clients[i] = c /\ clients' = RemoveAt(clients, i)
  /\ client' = [client EXCEPT ![c] = Absent]
  /\ StartLog(Net)

\* Mistake: the list is changed without the lock.
LeaveUnlocked ==
  /\ Handles("leave")
  /\ Erase(handler.c)
  /\ handler' = NoEvent
  /\ UNCHANGED <<sink, ws, files, stored, done, cut, joined, logged, reset>>

\* _handleDisconnect: the client is erased under the lock.
Leave ==
  /\ Handles("leave") /\ MayLock(Net)
  /\ Erase(handler.c)
  /\ handler' = [NoEvent EXCEPT !.pc = "left"]
  /\ ws' = Locked(Net)
  /\ UNCHANGED <<sink, files, stored, done, cut, joined, logged, reset>>

Left ==
  /\ Handles("left")
  /\ ws' = Unlocked /\ handler' = NoEvent
  /\ UNCHANGED <<sink, files, stored, clients, client, task, done, cut, joined, logged, reset>>

(***************************************************************************)
(* Specification.                                                          *)
(***************************************************************************)
Init ==
  /\ sink = Nobody /\ ws = Free /\ files = Nobody /\ stored = 0 /\ clients = << >>
  /\ client = [c \in Client |-> Absent]
  /\ task = [t \in Task |-> NoCall] /\ handler = NoEvent
  /\ done = {} /\ cut = [c \in Client |-> 0]
  /\ joined = 0 /\ logged = 0 /\ reset = FALSE

LogStep(t) ==
  \/ Emit(t) \/ GiveSink(t) \/ Count(t) \/ TextAll(t) \/ TextEach(t)
  \/ FilesTakeLock(t) \/ FilesGiveLock(t)
EventStep  ==
  \/ HistorySize \/ HistoryCopy \/ Ready \/ CommandTakeLock \/ List \/ Output
  \/ Leave \/ Left

Next ==
  \/ \E t \in Task : Log(t) \/ FilesCall(t) \/ LogStep(t)
  \/ EventStep
  \/ Join \/ Command \/ Ack \/ CloseFrame \/ OnDisconnect

Spec == Init /\ [][Next]_vars

(***************************************************************************)
(* Properties.                                                             *)
(***************************************************************************)
TypeOK ==
  /\ sink \in Task \cup {Nobody}
  /\ ws \in [holder : Task \cup {Nobody}, depth : 0 .. 2]
  /\ files \in Task \cup {Nobody}
  /\ ws.holder = Nobody <=> ws.depth = 0
  /\ stored \in Nat /\ done \subseteq 1 .. stored
  /\ clients \in Seq(Client)
  /\ \A c \in Client :
       /\ client[c].status \in {"absent", "connected", "disconnecting"}
       /\ client[c].queued \in 0 .. QueueMax /\ client[c].lines \subseteq 1 .. stored
  /\ reset \in BOOLEAN

\* A task never goes on with a client that has been erased: in the loop over
\* the clients, and in a handler with the client of its event, whoever joins or
\* leaves meanwhile.  (The exceptions reset the device: a queue that overflows,
\* and a connection that ends in the middle of a message.)
ClientsAreAlive ==
  TypeOK /\ (~reset =>
    /\ \A t \in Task : task[t].pc = "each" => Listed(task[t].c)
    /\ handler.pc \in {"size", "copy", "ready", "lock", "list", "output", "leave"}
         => Listed(handler.c))

\* A browser misses no line: whatever was logged while it connected reaches a
\* client that has been welcomed and is connected, with the history or as a
\* line, as soon as the log call returns; only lines too old for the history
\* may be missing.
NoLineMissed ==
  ~reset => \A c \in Connected :
    handler.c # c => \A line \in done : line > cut[c] => line \in client[c].lines

\* A log or files call, or an event, is under way, ...
Busy(t) == task[t].pc # "idle" \/ (t = Net /\ handler.pc # "idle")

\* ... its next step, ...
GoesOn(t) == LogStep(t) \/ (t = Net /\ EventStep)

\* ... and the locks that it may have to wait for.
Waits(t) ==
  \/ task[t].pc = "emit" /\ sink # Nobody
  \/ /\ \/ task[t].pc \in {"count", "all"}
        \/ t = Net /\ task[t].pc = "idle" /\ handler.pc = "leave"
     /\ ~MayLock(t)
  \/ /\ task[t].pc = "lock" \/ (t = Net /\ task[t].pc = "idle" /\ handler.pc = "lock")
     /\ files # Nobody

SomeoneGoes ==
  ~reset /\ (\E t \in Task : Busy(t)) => \E t \in Task : Busy(t) /\ ~Waits(t)

\* The three locks are never taken in a circle, although the file handler logs
\* and lists under its mutex, and the network task logs under the web socket's
\* lock: as long as a log call, a files call or an event is under way, one of
\* those under way can go on, so in the end all of them return.  A task stops
\* for nothing but these locks.
NoCircle ==
  /\ SomeoneGoes
  /\ ~reset => \A t \in Task : Busy(t) => (Waits(t) <=> ~ENABLED GoesOn(t))
=============================================================================
