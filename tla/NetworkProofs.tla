---------------------------- MODULE NetworkProofs ----------------------------
(***************************************************************************)
(* What holds of Network for any number of calling tasks, events and       *)
(* retries: the handler's variables have no lock, and these properties     *)
(* rest on the event-loop task being the only one that writes some of them.*)
(***************************************************************************)
EXTENDS Network, TLAPS

USE NetworkAssumption

Place == {"idle", "auto", "connecting", "enable", "dial", "uncount",
          "disable", "hangup", "check", "retry", "redial"}
State == {"idle", "connecting", "connected", "failed"}

(***************************************************************************)
(* Types.                                                                  *)
(***************************************************************************)
LEMMA NextLabel ==
  ASSUME EventOK, NEW pc, Then(pc)
  PROVE  /\ DOMAIN event' = DOMAIN Waiting
         /\ event'.pc = pc /\ event'.kind = event.kind /\ event'.count = event.count
BY DEF EventOK, Then, Waiting

LEMMA WaitingOK == EventDone => EventOK'
BY DEF EventDone, EventOK, Waiting

\* The handler goes on to a place that events of this kind reach.
LEMMA ThenType ==
  ASSUME EventOK, NEW pc, Then(pc),
         pc \in {"ip", "clear", "flags", "route", "disc", "count", "store",
                 "fail", "rearm", "eth"},
         event.kind # "none",
         pc \in {"ip", "clear"} => event.kind = "ip",
         pc \in {"disc", "count", "store", "fail", "rearm"} => event.kind = "disc",
         pc = "eth" => event.kind \in {"ethip", "ethlost", "ethdown"},
         pc = "route" => event.kind \notin {"lostip", "disc"}
  PROVE  EventOK'
BY NextLabel DEF EventOK

LEMMA TakeEventType ==
  ASSUME TypeOK, TakeEvent
  PROVE  EventOK' /\ queue' \in Seq(EventKind) /\ wifiIp' \in BOOLEAN
<1> DEFINE e == Head(queue)
<1>1. e \in EventKind /\ Tail(queue) \in Seq(EventKind)
  BY DEF TypeOK, TakeEvent
<1>2. /\ queue' = Tail(queue)
      /\ wifiIp' = IF e \in {"ip", "lostip", "disc"} THEN e = "ip" ELSE wifiIp
      /\ event' = IF started THEN [Waiting EXCEPT !.pc = FirstLabel(e), !.kind = e]
                             ELSE Waiting
  BY DEF TakeEvent
<1> HIDE DEF e
<1>3. wifiIp' \in BOOLEAN
  BY <1>2 DEF TypeOK
<1>4. CASE started
  <2>1. /\ e = "ip" => FirstLabel(e) = "ip"
        /\ e = "lostip" => FirstLabel(e) = "flags"
        /\ e = "disc" => FirstLabel(e) = "disc"
        /\ e \in {"ethip", "ethlost", "ethdown"} => FirstLabel(e) = "eth"
    BY DEF FirstLabel
  <2>2. /\ DOMAIN event' = DOMAIN Waiting /\ event'.kind = e
        /\ event'.pc = FirstLabel(e) /\ event'.count = 0
    BY <1>2, <1>4 DEF Waiting
  <2>3. EventOK'
    BY <1>1, <2>1, <2>2 DEF EventOK, EventKind
  <2>4. QED
    BY <1>1, <1>2, <1>3, <2>3
<1>5. CASE ~started
  BY <1>1, <1>2, <1>3, <1>5, WaitingOK DEF EventDone
<1>6. QED
  BY <1>4, <1>5

LEMMA EventType ==
  ASSUME TypeOK, EventStep
  PROVE  TypeOK'
<1>0. EventOK
  BY DEF TypeOK
<1>1. CASE TakeEvent
  <2>1. EventOK' /\ queue' \in Seq(EventKind) /\ wifiIp' \in BOOLEAN
    BY <1>1, TakeEventType
  <2>2. QED
    BY <1>1, <2>1 DEF TakeEvent, TypeOK, machine, timer, history, bounds
<1>2. CASE IpAcquired
  <2>1. EventOK'
    BY <1>0, <1>2, ThenType DEF IpAcquired, On, EventOK
  <2>2. QED
    BY <1>2, <2>1 DEF IpAcquired, EventKeeps, TypeOK, timer, flags, driver, bounds
<1>3. CASE ClearRetry
  <2>1. EventOK'
    BY <1>0, <1>3, ThenType DEF ClearRetry, On, EventOK
  <2>2. QED
    BY <1>3, <2>1 DEF ClearRetry, EventKeeps, TypeOK, timer, flags, driver, bounds
<1>4. CASE UpdateRuntimeFlags
  <2>1. EventOK'
    <3>1. event.kind # "none"
      BY <1>4 DEF UpdateRuntimeFlags, On, EventOK, TypeOK
    <3>2. QED
      BY <1>0, <1>4, <3>1, ThenType, WaitingOK DEF UpdateRuntimeFlags
  <2>2. online' \in BOOLEAN
    BY <1>4 DEF UpdateRuntimeFlags
  <2>3. QED
    BY <1>4, <2>1, <2>2
    DEF UpdateRuntimeFlags, EventKeeps, TypeOK, machine, timer, driver, bounds
<1>5. CASE Route
  <2>1. netif' \in {"none", "wifi", "eth"}
    BY <1>5 DEF Route, TypeOK
  <2>2. QED
    BY <1>5, <2>1, WaitingOK
    DEF Route, EventKeeps, TypeOK, machine, timer, driver, bounds
<1>6. CASE Disconnected
  <2>1. EventOK'
    BY <1>0, <1>6, ThenType, WaitingOK DEF Disconnected, On, EventOK
  <2>2. QED
    BY <1>6, <2>1
    DEF Disconnected, EventKeeps, TypeOK, machine, timer, flags, driver, bounds
<1>7. CASE ReadCount
  <2>1. /\ DOMAIN event' = DOMAIN Waiting
        /\ event'.pc = "store" /\ event'.kind = event.kind
        /\ event'.count = retry + 1
    BY <1>0, <1>7 DEF ReadCount, EventOK, Waiting
  <2>2. retry + 1 \in Nat
    BY DEF TypeOK
  <2>3. EventOK'
    BY <1>0, <1>7, <2>1, <2>2 DEF ReadCount, On, EventOK
  <2>4. QED
    BY <1>7, <2>3
    DEF ReadCount, EventKeeps, TypeOK, machine, timer, flags, driver, bounds
<1>8. CASE StoreCount
  <2>1. EventOK'
    BY <1>0, <1>8, ThenType DEF StoreCount, On, EventOK
  <2>2. QED
    BY <1>8, <2>1
    DEF StoreCount, EventKeeps, TypeOK, EventOK, timer, flags, driver, bounds
<1>9. CASE SetFailed
  <2>1. EventOK'
    BY <1>0, <1>9, ThenType DEF SetFailed, On, EventOK
  <2>2. QED
    BY <1>9, <2>1 DEF SetFailed, EventKeeps, TypeOK, timer, flags, driver, bounds
<1>10. CASE ResetScheduler
  BY <1>10, WaitingOK
  DEF ResetScheduler, EventKeeps, TypeOK, machine, flags, driver, bounds
<1>11. CASE EthEvent
  <2>1. EventOK'
    BY <1>0, <1>11, ThenType DEF EthEvent, On, EventOK
  <2>2. ethIp' \in BOOLEAN
    BY <1>11 DEF EthEvent
  <2>3. QED
    BY <1>11, <2>1, <2>2
    DEF EthEvent, EventKeeps, TypeOK, machine, timer, driver, bounds
<1>12. QED
  BY <1>1, <1>2, <1>3, <1>4, <1>5, <1>6, <1>7, <1>8, <1>9, <1>10, <1>11
  DEF EventStep

LEMMA Booleans ==
  {enabled, due, known, ethIp, online, wifiIp, started, lease, cable, wanted}
      \subseteq BOOLEAN
    <=> /\ enabled \in BOOLEAN /\ due \in BOOLEAN /\ known \in BOOLEAN
        /\ ethIp \in BOOLEAN /\ online \in BOOLEAN /\ wifiIp \in BOOLEAN
        /\ started \in BOOLEAN /\ lease \in BOOLEAN /\ cable \in BOOLEAN
        /\ wanted \in BOOLEAN
OBVIOUS

LEMMA GotoType ==
  ASSUME TypeOK, NEW t \in Task, NEW l \in Place, Goto(t, l)
  PROVE  /\ task' \in [Task -> Place] /\ task'[t] = l
         /\ \A u \in Task \ {t} : task'[u] = task[u]
BY DEF TypeOK, Goto, Place

LEMMA TaskType ==
  ASSUME TypeOK, NEW t \in Task,
         \/ NetworkConnect(t) \/ NetworkDisconnect(t)
         \/ NetworkEverySecond(t) \/ TaskStep(t)
  PROVE  TypeOK'
<1>1. task' \in [Task -> Place]
  <2>1. \A l \in Place : Goto(t, l) => task' \in [Task -> Place]
    BY GotoType
  <2>2. \E l \in Place : Goto(t, l)
    BY DEF NetworkConnect, NetworkDisconnect, NetworkEverySecond, TaskStep,
           NetworkAutoConnect, Connect,
           SetConnecting, EnableRetry, WifiAdapterConnect, ResetRetry,
           DisableRetry, WifiAdapterDisconnect, CheckRetry, SetRetrying, Place
  <2>3. QED
    BY <2>1, <2>2
<1>2. UNCHANGED <<flags, started, event, cable, changes>>
  BY DEF NetworkConnect, NetworkDisconnect, NetworkEverySecond, TaskStep,
         NetworkAutoConnect, Connect,
         SetConnecting, EnableRetry, WifiAdapterConnect, ResetRetry,
         DisableRetry, WifiAdapterDisconnect, CheckRetry, SetRetrying, TaskKeeps
<1>3. EventOK'
  BY <1>2 DEF TypeOK, EventOK
<1>4. queue' \in Seq(EventKind)
  <2>1. "disc" \in EventKind
    BY DEF EventKind
  <2>2. queue' = queue \/ queue' = Append(queue, "disc")
    BY DEF NetworkConnect, NetworkDisconnect, NetworkEverySecond, TaskStep,
           NetworkAutoConnect, Connect,
           SetConnecting, EnableRetry, WifiAdapterConnect, ResetRetry,
           DisableRetry, WifiAdapterDisconnect, CheckRetry, SetRetrying
  <2>3. QED
    BY <2>1, <2>2 DEF TypeOK
<1> USE DEF machine, timer, history,
            NetworkConnect, NetworkDisconnect, NetworkEverySecond, TaskStep,
            NetworkAutoConnect, Connect,
            SetConnecting, EnableRetry, WifiAdapterConnect, ResetRetry,
            DisableRetry, WifiAdapterDisconnect, CheckRetry, SetRetrying
<1>5. /\ state' \in State /\ retry' \in Nat
      /\ wifi' \in {"down", "trying", "joined"}
  BY DEF TypeOK, State
<1>6. /\ enabled' \in BOOLEAN /\ due' \in BOOLEAN /\ known' \in BOOLEAN
      /\ lease' \in BOOLEAN /\ wanted' \in BOOLEAN
  BY Booleans DEF TypeOK
<1>7. attempts' \in Nat /\ calls' \in Nat /\ refusals' \in Nat
  <2>1. attempts' \in {0, attempts, attempts + 1}
    OBVIOUS
  <2>2. calls' \in {calls, calls + 1} /\ refusals' \in {refusals, refusals + 1}
    OBVIOUS
  <2>3. QED
    BY <2>1, <2>2 DEF TypeOK
<1> USE Booleans DEF flags
<1>8. /\ ethIp' \in BOOLEAN /\ online' \in BOOLEAN /\ wifiIp' \in BOOLEAN
      /\ started' \in BOOLEAN /\ cable' \in BOOLEAN
      /\ netif' \in {"none", "wifi", "eth"} /\ changes' \in Nat
  BY <1>2 DEF TypeOK
<1>9. QED
  BY <1>1, <1>3, <1>4, <1>5, <1>6, <1>7, <1>8 DEF TypeOK, State, Place

LEMMA DriverType ==
  ASSUME TypeOK, DriverStep
  PROVE  TypeOK'
<1>1. UNCHANGED <<machine, timer, known, flags, started, event, task, history,
                  calls, refusals>>
  BY DEF DriverStep, WifiJoins, WifiFails, WifiGetsIp, WifiLosesIp, WifiDrops,
         EthChanges, DriverKeeps
<1>2. queue' \in Seq(EventKind)
  <2>1. queue' = queue \/ \E e \in EventKind : queue' = Append(queue, e)
    BY DEF DriverStep, WifiJoins, WifiFails, WifiGetsIp, WifiLosesIp, WifiDrops,
           EthChanges, Post, EventKind
  <2>2. QED
    BY <2>1 DEF TypeOK
<1>3. /\ wifi' \in {"down", "trying", "joined"}
      /\ lease' \in BOOLEAN /\ changes' \in Nat
  <2>1. wifi' \in {wifi, "down", "joined"} /\ lease' \in {lease, TRUE, FALSE}
    BY DEF DriverStep, WifiJoins, WifiFails, WifiGetsIp, WifiLosesIp, WifiDrops,
           EthChanges
  <2>2. changes' \in {changes, changes + 1}
    BY DEF DriverStep, WifiJoins, WifiFails, WifiGetsIp, WifiLosesIp, WifiDrops,
           EthChanges, Change
  <2>3. changes' \in Nat
    BY <2>2 DEF TypeOK
  <2>4. QED
    BY <2>1, <2>3, Booleans DEF TypeOK
<1>4. cable' \in BOOLEAN
  BY Booleans DEF DriverStep, WifiJoins, WifiFails, WifiGetsIp, WifiLosesIp,
                  WifiDrops, EthChanges, TypeOK
<1>5. EventOK'
  BY <1>1 DEF TypeOK, EventOK
<1>6. /\ enabled' \in BOOLEAN /\ due' \in BOOLEAN /\ known' \in BOOLEAN
      /\ ethIp' \in BOOLEAN /\ online' \in BOOLEAN /\ wifiIp' \in BOOLEAN
      /\ started' \in BOOLEAN /\ wanted' \in BOOLEAN
  BY <1>1, Booleans DEF TypeOK, timer, flags, history
<1>7. QED
  BY <1>1, <1>2, <1>3, <1>4, <1>5, <1>6, Booleans
  DEF TypeOK, machine, flags, history

\* TypeOK holds of every behaviour: each event is handled by the code of its
\* kind, whatever the calling tasks do meanwhile.
THEOREM TypeCorrect == Spec => []TypeOK
<1>1. Init => TypeOK
  <2> SUFFICES ASSUME Init
               PROVE  TypeOK
    OBVIOUS
  <2>1. EventOK
    BY WaitingOK DEF Init, EventOK, Waiting
  <2>2. queue \in Seq(EventKind)
    BY DEF Init
  <2>3. QED
    BY <2>1, <2>2, Booleans DEF Init, TypeOK
<1>2. TypeOK /\ [Next]_vars => TypeOK'
  <2> SUFFICES ASSUME TypeOK, [Next]_vars
               PROVE  TypeOK'
    OBVIOUS
  <2>1. CASE NetworkStart
    <3>1. task' \in [Task -> Place]
      BY <2>1, GotoType DEF NetworkStart, Place
    <3>2. QED
      BY <2>1, <3>1, Booleans
      DEF NetworkStart, TypeOK, EventOK, Place, machine, timer, flags, driver,
          history, bounds
  <2>2. CASE TimePasses
    BY <2>2 DEF TimePasses, TypeOK, EventOK, machine, flags, driver, history, bounds
  <2>3. CASE UNCHANGED vars
    BY <2>3 DEF vars, TypeOK, EventOK, machine, timer, flags, driver, history, bounds
  <2>4. QED
    BY <2>1, <2>2, <2>3, EventType, TaskType, DriverType DEF Next
<1>3. QED
  BY <1>1, <1>2, PTL DEF Spec

(***************************************************************************)
(* What the event-loop task shows.                                         *)
(***************************************************************************)
\* net_connected is behind only between a change and UpdateRuntimeFlags.
FlagInv ==
  (state = "connected" \/ ethIp) /\ event.pc \notin {"clear", "flags"} => online

\* What the handler of an event still has to do for the route.
RouteInv ==
  /\ event.pc \notin {"clear", "flags", "route"} \/ event.kind \in {"lostip", "disc"}
       => /\ ethIp => netif = "eth"
          /\ ~ethIp /\ state = "connected" => netif = "wifi"
  /\ event.pc \in {"clear", "flags", "route"}
       => /\ event.kind = "ip" /\ ethIp => netif = "eth"
          /\ event.kind = "ethip" => ethIp
          /\ event.kind \in {"ethlost", "ethdown"} => ~ethIp

ShownInv == FlagInv /\ RouteInv

\* The other tasks never make the handler connected.
Downward ==
  /\ state' = state \/ state' # "connected"
  /\ UNCHANGED <<flags, event>>

LEMMA DownwardInv == ShownInv /\ Downward => ShownInv'
BY DEF ShownInv, FlagInv, RouteInv, Downward, flags

LEMMA OthersDownward ==
  ASSUME \/ NetworkStart \/ TimePasses \/ DriverStep \/ UNCHANGED vars
         \/ \E t \in Task : \/ NetworkConnect(t) \/ NetworkDisconnect(t)
                            \/ NetworkEverySecond(t) \/ TaskStep(t)
  PROVE  Downward
<1>1. CASE NetworkStart \/ TimePasses \/ UNCHANGED vars
  BY <1>1 DEF NetworkStart, TimePasses, vars, machine, Downward
<1>2. CASE DriverStep
  BY <1>2 DEF DriverStep, WifiJoins, WifiFails, WifiGetsIp, WifiLosesIp,
              WifiDrops, EthChanges, DriverKeeps, machine, Downward
<1>3. ASSUME NEW t \in Task,
             \/ NetworkConnect(t) \/ NetworkDisconnect(t)
             \/ NetworkEverySecond(t) \/ TaskStep(t)
      PROVE  Downward
  BY <1>3 DEF NetworkConnect, NetworkDisconnect, NetworkEverySecond, TaskStep,
              NetworkAutoConnect, Connect,
              SetConnecting, EnableRetry, WifiAdapterConnect, ResetRetry,
              DisableRetry, WifiAdapterDisconnect, CheckRetry, SetRetrying,
              TaskKeeps, machine, Downward
<1>4. QED
  BY <1>1, <1>2, <1>3

LEMMA EventShown ==
  ASSUME TypeOK, ShownInv, EventStep
  PROVE  ShownInv'
<1> USE DEF ShownInv, FlagInv, RouteInv, EventKeeps, On
<1>0. EventOK
  BY DEF TypeOK
<1>1. CASE TakeEvent
  <2>1. event'.pc \in {"clear", "flags", "route"} => event'.kind = "lostip"
    <3>1. Head(queue) \in EventKind
      BY <1>1 DEF TypeOK, TakeEvent
    <3>2. CASE started
      BY <1>1, <3>1, <3>2 DEF TakeEvent, FirstLabel, Waiting, EventKind
    <3>3. CASE ~started
      BY <1>1, <3>3 DEF TakeEvent, Waiting
    <3>4. QED
      BY <3>2, <3>3
  <2>2. event.pc = "wait"
    BY <1>1 DEF TakeEvent
  <2>3. UNCHANGED <<state, ethIp, online, netif>>
    BY <1>1 DEF TakeEvent, machine
  <2>4. QED
    BY <2>1, <2>2, <2>3
<1>2. CASE IpAcquired
  BY <1>0, <1>2, NextLabel DEF IpAcquired, EventOK, flags
<1>3. CASE ClearRetry
  BY <1>0, <1>3, NextLabel DEF ClearRetry, EventOK, flags
<1>4. CASE UpdateRuntimeFlags
  <2>1. /\ event.pc = "flags" /\ online' = (state = "connected" \/ ethIp)
        /\ UNCHANGED <<state, ethIp, netif>>
    BY <1>4 DEF UpdateRuntimeFlags, machine
  <2>2. \/ event.kind \in {"lostip", "disc"}
           /\ (event' = Waiting \/ (event'.kind = "disc" /\ event'.pc = "rearm"))
        \/ event'.pc = "route" /\ event'.kind = event.kind
    BY <1>0, <1>4, NextLabel DEF UpdateRuntimeFlags, EventDone
  <2>3. Waiting.pc = "wait"
    BY DEF Waiting
  <2>4. QED
    BY <2>1, <2>2, <2>3
<1>5. CASE Route
  <2>1. /\ event.pc = "route" /\ event'.pc = "wait"
        /\ UNCHANGED <<state, ethIp, online>>
    BY <1>5 DEF Route, EventDone, Waiting, machine
  <2>2. event.kind \in {"ip", "ethip", "ethlost", "ethdown"}
    BY <1>0, <2>1 DEF EventOK, EventKind
  <2>3. ethIp' => netif' = "eth"
    BY <1>5, <2>1, <2>2 DEF Route
  <2>4. ~ethIp' /\ state' = "connected" => netif' = "wifi"
    BY <1>5, <2>1, <2>2 DEF Route
  <2>5. QED
    BY <2>1, <2>3, <2>4
<1>6. CASE Disconnected
  <2>1. event.pc = "disc" /\ event'.pc \in {"count", "wait"}
    BY <1>0, <1>6, NextLabel DEF Disconnected, EventDone, Waiting
  <2>2. QED
    BY <1>6, <2>1 DEF Disconnected, machine, flags
<1>7. CASE ReadCount
  <2>1. event.pc = "count" /\ event'.pc = "store"
    BY <1>0, <1>7 DEF ReadCount, EventOK, Waiting
  <2>2. QED
    BY <1>7, <2>1 DEF ReadCount, machine, flags
<1>8. CASE StoreCount
  BY <1>0, <1>8, NextLabel DEF StoreCount, flags
<1>9. CASE SetFailed
  BY <1>0, <1>9, NextLabel DEF SetFailed, EventOK, flags
<1>10. CASE ResetScheduler
  BY <1>10 DEF ResetScheduler, EventDone, Waiting, machine, flags
<1>11. CASE EthEvent
  BY <1>0, <1>11, NextLabel DEF EthEvent, EventOK, machine
<1>12. QED
  BY <1>1, <1>2, <1>3, <1>4, <1>5, <1>6, <1>7, <1>8, <1>9, <1>10, <1>11
  DEF EventStep

THEOREM Shown == Spec => [](TypeOK /\ ShownInv)
<1>1. Init => ShownInv
  BY DEF Init, ShownInv, FlagInv, RouteInv, Waiting
<1>2. TypeOK /\ ShownInv /\ [Next]_vars => ShownInv'
  BY EventShown, OthersDownward, DownwardInv DEF Next
<1>3. QED
  BY <1>1, <1>2, TypeCorrect, PTL DEF Spec

\* Between two events Hx.net_connected covers every interface that the handler
\* takes for connected.
THEOREM FlagCovers == Spec => []OnlineShown
<1>1. ShownInv => OnlineShown
  BY DEF ShownInv, FlagInv, OnlineShown, On
<1>2. QED
  BY <1>1, Shown, PTL

\* Between two events the default route is the Ethernet's while it has an
\* address.
THEOREM EthernetFirst == Spec => []RouteFollowsEth
<1>1. ShownInv => RouteFollowsEth
  BY DEF ShownInv, RouteInv, RouteFollowsEth, On
<1>2. QED
  BY <1>1, Shown, PTL

(***************************************************************************)
(* One calling task.                                                       *)
(***************************************************************************)
\* Between a NetworkDisconnect and the next NetworkConnect the retry is
\* disarmed, or the call is about to do so.
RetryInv ==
  /\ ~wanted => ~enabled \/ task[LoopTask] \in {"uncount", "disable"}
  /\ task[LoopTask] \in {"connecting", "enable", "dial", "retry", "redial"} => wanted
  /\ task[LoopTask] = "uncount" => ~wanted

LEMMA RetryStep ==
  ASSUME Task = {LoopTask}, TypeOK, RetryInv, [Next]_vars
  PROVE  RetryInv'
<1>0. CASE NetworkStart
  <2>1. task'[LoopTask] = "auto" /\ task[LoopTask] = "idle"
    BY <1>0 DEF NetworkStart, At, Goto, TypeOK
  <2>2. UNCHANGED <<wanted, enabled>>
    BY <1>0 DEF NetworkStart, timer, history
  <2>3. QED
    BY <2>1, <2>2 DEF RetryInv
<1>1. CASE EventStep \/ TimePasses \/ DriverStep \/ UNCHANGED vars
  <2>1. UNCHANGED <<wanted, enabled, task>>
    BY <1>1 DEF EventStep, TakeEvent, IpAcquired, ClearRetry, UpdateRuntimeFlags,
                Route, Disconnected, ReadCount, StoreCount, SetFailed,
                ResetScheduler, EthEvent, EventKeeps, TimePasses,
                DriverStep, WifiJoins, WifiFails, WifiGetsIp, WifiLosesIp,
                WifiDrops, EthChanges, DriverKeeps, timer, history, vars
  <2>2. QED
    BY <2>1 DEF RetryInv
<1>2. ASSUME NEW t \in Task,
             \/ NetworkConnect(t) \/ NetworkDisconnect(t)
             \/ NetworkEverySecond(t) \/ TaskStep(t)
      PROVE  RetryInv'
  <2>1. t = LoopTask
    OBVIOUS
  <2>2. \A l : Goto(t, l) => task'[LoopTask] = l
    BY <2>1 DEF Goto, TypeOK
  <2>3. CASE NetworkConnect(t)
    BY <2>2, <2>3 DEF NetworkConnect, Connect, RetryInv
  <2>4. CASE NetworkDisconnect(t)
    BY <2>2, <2>4 DEF NetworkDisconnect, RetryInv
  <2>5. CASE NetworkEverySecond(t)
    BY <2>1, <2>2, <2>5 DEF NetworkEverySecond, RetryInv, timer, history, At
  <2>6. CASE TaskStep(t)
    BY <2>1, <2>2, <2>6
    DEF TaskStep, NetworkAutoConnect, Connect, SetConnecting, EnableRetry, WifiAdapterConnect, ResetRetry,
        DisableRetry, WifiAdapterDisconnect, CheckRetry, SetRetrying, RetryInv,
        timer, history, At
  <2>7. QED
    BY <1>2, <2>3, <2>4, <2>5, <2>6
<1>3. QED
  BY <1>0, <1>1, <1>2 DEF Next

\* After NetworkDisconnect has returned no retry is made until the next
\* NetworkConnect, even when the handler of a DISCONNECTED event puts the
\* state machine into FAILED again: one task makes the calls and the ticks.
THEOREM NoLateRetry ==
  ASSUME Task = {LoopTask}
  PROVE  Spec => NoRetryAfterDisconnect
<1>1. Init => RetryInv
  BY DEF Init, RetryInv
<1>2. TypeOK /\ RetryInv /\ [Next]_vars => RetryInv'
  BY RetryStep
<1>3. RetryInv => [\A t \in Task : At(t, "redial") /\ ~At(t, "redial")' => wanted]_vars
  BY DEF RetryInv, At
<1>4. QED
  BY <1>1, <1>2, <1>3, TypeCorrect, PTL DEF Spec, NoRetryAfterDisconnect

(***************************************************************************)
(* The number of retries.                                                  *)
(***************************************************************************)
\* A tick that is under way may still make one retry.
Ticking == IF task[LoopTask] \in {"check", "retry", "redial"} THEN 1 ELSE 0

\* Each retry but the first is paid for by an attempt that failed and was
\* counted.  Until FAILED is written the event task owes it no retry.
CountInv ==
  /\ event.pc \in {"clear", "count", "store", "fail"} => state # "failed"
  /\ attempts <= RetryMax
  /\ task[LoopTask] \in {"retry", "redial"} => attempts < RetryMax
  /\ wanted =>
       /\ attempts + Ticking <= retry + 1
       /\ event.pc = "store" => attempts + Ticking <= event.count
       /\ event.pc = "fail" => attempts + Ticking <= retry
       /\ state = "failed" /\ task[LoopTask] \notin {"check", "retry"}
            => attempts + Ticking <= retry

LEMMA TickingType == Ticking \in {0, 1}
BY DEF Ticking

LEMMA CountEvent ==
  ASSUME TypeOK, CountInv, EventStep
  PROVE  CountInv'
<1> USE TickingType DEF CountInv, EventKeeps, On
<1>0. /\ EventOK /\ retry \in Nat /\ attempts \in Nat /\ event.count \in Nat
  BY DEF TypeOK, EventOK
<1>1. Ticking' = Ticking /\ UNCHANGED <<task, wanted>>
  BY DEF EventStep, TakeEvent, IpAcquired, ClearRetry, UpdateRuntimeFlags, Route,
         Disconnected, ReadCount, StoreCount, SetFailed, ResetScheduler, EthEvent,
         history, Ticking
<1>2. CASE TakeEvent
  <2>1. event'.pc \notin {"clear", "count", "store", "fail"}
    <3>1. Head(queue) \in EventKind
      BY <1>2 DEF TypeOK, TakeEvent
    <3>2. QED
      BY <1>2, <3>1 DEF TakeEvent, FirstLabel, Waiting, EventKind
  <2>2. QED
    BY <1>1, <1>2, <2>1 DEF TakeEvent, machine, history
<1>3. CASE IpAcquired
  BY <1>0, <1>1, <1>3, NextLabel DEF IpAcquired
<1>4. CASE ClearRetry
  <2>1. event'.pc = "flags" /\ event.pc = "clear" /\ retry' = 0 /\ attempts' = 0
        /\ state' = state
    BY <1>0, <1>4, NextLabel DEF ClearRetry
  <2>2. QED
    BY <1>0, <1>1, <2>1
<1>5. CASE UpdateRuntimeFlags \/ Route \/ ResetScheduler \/ EthEvent
  <2>1. UNCHANGED <<state, retry, attempts>>
    BY <1>5 DEF UpdateRuntimeFlags, Route, ResetScheduler, EthEvent, machine
  <2>2. event'.pc \notin {"clear", "count", "store", "fail"}
    BY <1>0, <1>5, NextLabel
    DEF UpdateRuntimeFlags, Route, ResetScheduler, EthEvent, EventDone, Waiting
  <2>3. QED
    BY <1>0, <1>1, <2>1, <2>2
<1>6. CASE Disconnected
  <2>1. UNCHANGED <<state, retry, attempts>>
        /\ (event'.pc = "wait" \/ (event'.pc = "count" /\ state # "failed"))
    BY <1>0, <1>6, NextLabel DEF Disconnected, EventDone, Waiting, machine
  <2>2. QED
    BY <1>0, <1>1, <2>1
<1>7. CASE ReadCount
  <2>1. /\ UNCHANGED <<state, retry, attempts>> /\ event.pc = "count"
        /\ event'.pc = "store" /\ event'.count = retry + 1
    BY <1>0, <1>7 DEF ReadCount, EventOK, Waiting, machine
  <2>2. QED
    BY <1>0, <1>1, <2>1
<1>8. CASE StoreCount
  <2>1. /\ UNCHANGED <<state, attempts>> /\ event.pc = "store"
        /\ event'.pc = "fail" /\ retry' = event.count
    BY <1>0, <1>8, NextLabel DEF StoreCount
  <2>2. QED
    BY <1>0, <1>1, <2>1
<1>9. CASE SetFailed
  <2>1. /\ UNCHANGED <<retry, attempts>> /\ event.pc = "fail"
        /\ event'.pc = "flags"
    BY <1>0, <1>9, NextLabel DEF SetFailed
  <2>2. QED
    BY <1>0, <1>1, <2>1
<1>10. QED
  BY <1>2, <1>3, <1>4, <1>5, <1>6, <1>7, <1>8, <1>9 DEF EventStep

LEMMA CountTask ==
  ASSUME TypeOK, RetryInv, CountInv, NEW t \in {LoopTask}, Task = {LoopTask},
         \/ NetworkConnect(t) \/ NetworkDisconnect(t)
         \/ NetworkEverySecond(t) \/ TaskStep(t)
  PROVE  CountInv'
<1> USE TickingType DEF CountInv, TaskKeeps
<1>0. /\ retry \in Nat /\ attempts \in Nat /\ event.count \in Nat /\ event' = event
  BY DEF TypeOK, EventOK, NetworkConnect, NetworkDisconnect, NetworkEverySecond,
         TaskStep, NetworkAutoConnect, Connect, SetConnecting, EnableRetry, WifiAdapterConnect, ResetRetry,
         DisableRetry, WifiAdapterDisconnect, CheckRetry, SetRetrying
<1>1. \A l : Goto(t, l) => task'[LoopTask] = l
  BY DEF Goto, TypeOK
<1> DEFINE L == task[LoopTask]
<1>2. CASE NetworkConnect(t)
  <2>1. /\ L' = "connecting" /\ attempts' = 0 /\ retry' = 0 /\ state' = state
    BY <1>1, <1>2 DEF NetworkConnect, Connect
  <2>2. Ticking' = 0
    BY <2>1 DEF Ticking
  <2>3. QED
    BY <1>0, <2>1, <2>2
<1>3. CASE NetworkDisconnect(t)
  <2>1. L' = "uncount" /\ ~wanted' /\ state' = "idle" /\ attempts' = attempts
    BY <1>1, <1>3 DEF NetworkDisconnect
  <2>2. QED
    BY <1>0, <2>1
<1>4. CASE NetworkEverySecond(t)
  <2>1. /\ L = "idle" /\ L' = "check" /\ state = "failed"
        /\ UNCHANGED <<state, retry, attempts, wanted>>
    BY <1>1, <1>4 DEF NetworkEverySecond, At, machine, history
  <2>2. Ticking = 0 /\ Ticking' = 1
    BY <2>1 DEF Ticking
  <2>3. QED
    BY <1>0, <2>1, <2>2
<1>5. CASE SetConnecting(t) \/ EnableRetry(t) \/ ResetRetry(t) \/ DisableRetry(t)
           \/ WifiAdapterDisconnect(t)
  <2>1. /\ L \in {"connecting", "enable", "uncount", "disable", "hangup"}
        /\ L' \in {"enable", "dial", "disable", "hangup", "idle"}
        /\ UNCHANGED <<attempts, wanted>>
        /\ state' = state \/ state' = "connecting"
        /\ retry' = retry \/ L = "uncount"
    BY <1>1, <1>5 DEF SetConnecting, EnableRetry, ResetRetry, DisableRetry,
                      WifiAdapterDisconnect, At, machine, history
  <2>2. Ticking = 0 /\ Ticking' = 0
    BY <2>1 DEF Ticking
  <2>3. wanted' => retry' = retry
    BY <2>1 DEF RetryInv
  <2>4. QED
    BY <1>0, <2>1, <2>2, <2>3
<1>6. CASE WifiAdapterConnect(t)
  <2>1. /\ L' = "idle" /\ UNCHANGED <<state, retry, wanted>>
        /\ \/ L = "dial" /\ attempts' = attempts
           \/ L = "redial" /\ attempts' = attempts + 1
    BY <1>1, <1>6 DEF WifiAdapterConnect, At, machine
  <2>2. Ticking' = 0 /\ attempts' + Ticking' = attempts + Ticking
    BY <1>0, <2>1 DEF Ticking
  <2>3. QED
    BY <1>0, <2>1, <2>2
<1>7. CASE CheckRetry(t)
  <2>1. UNCHANGED <<state, retry, attempts, wanted>> /\ L = "check"
    BY <1>7 DEF CheckRetry, At, machine, history
  <2>2. CASE L' = "retry" /\ retry < RetryMax /\ enabled
    <3>1. wanted
      BY <2>1, <2>2 DEF RetryInv
    <3>2. Ticking = 1 /\ Ticking' = 1
      BY <2>1, <2>2 DEF Ticking
    <3>3. QED
      BY <1>0, <2>1, <2>2, <3>1, <3>2
  <2>3. CASE L' = "idle"
    <3>1. Ticking = 1 /\ Ticking' = 0
      BY <2>1, <2>3 DEF Ticking
    <3>2. QED
      BY <1>0, <2>1, <2>3, <3>1
  <2>4. QED
    BY <1>1, <1>7, <2>2, <2>3 DEF CheckRetry
<1>8. CASE SetRetrying(t)
  <2>1. /\ L = "retry" /\ L' = "redial" /\ state' = "connecting"
        /\ UNCHANGED <<retry, attempts, wanted>>
    BY <1>1, <1>8 DEF SetRetrying, At, history
  <2>2. Ticking = 1 /\ Ticking' = 1
    BY <2>1 DEF Ticking
  <2>3. QED
    BY <1>0, <2>1, <2>2
<1>9. CASE NetworkAutoConnect(t)
  <2>1. L = "auto" /\ state' = state
    BY <1>9 DEF NetworkAutoConnect, At
  <2>2. CASE L' = "connecting" /\ attempts' = 0 /\ retry' = 0
    <3>1. Ticking' = 0
      BY <2>2 DEF Ticking
    <3>2. QED
      BY <1>0, <2>1, <2>2, <3>1
  <2>3. CASE L' = "idle" /\ UNCHANGED <<retry, attempts, wanted>>
    <3>1. Ticking = 0 /\ Ticking' = 0
      BY <2>1, <2>3 DEF Ticking
    <3>2. QED
      BY <1>0, <2>1, <2>3, <3>1
  <2>4. QED
    BY <1>1, <1>9, <2>2, <2>3 DEF NetworkAutoConnect, Connect, history
<1>10. QED
  BY <1>2, <1>3, <1>4, <1>5, <1>6, <1>7, <1>8, <1>9 DEF TaskStep

\* HX_WIFI_RETRY_MAX bounds the retries that follow a NetworkConnect or an
\* address, whatever its value, if one task makes the calls and the ticks.
THEOREM RetriesEnd ==
  ASSUME Task = {LoopTask}
  PROVE  Spec => []GivesUp
<1>1. Init => RetryInv /\ CountInv
  BY DEF Init, RetryInv, CountInv, Waiting, Ticking
<1>2. TypeOK /\ RetryInv /\ [Next]_vars => RetryInv'
  BY RetryStep
<1>3. TypeOK /\ RetryInv /\ CountInv /\ [Next]_vars => CountInv'
  <2> SUFFICES ASSUME TypeOK, RetryInv, CountInv, [Next]_vars
               PROVE  CountInv'
    OBVIOUS
  <2>0. CASE NetworkStart
    <3>1. task'[LoopTask] = "auto" /\ task[LoopTask] = "idle"
      BY <2>0 DEF NetworkStart, At, Goto, TypeOK
    <3>2. UNCHANGED <<state, retry, event, attempts, wanted>>
      BY <2>0 DEF NetworkStart, machine, history
    <3>3. QED
      BY <3>1, <3>2 DEF CountInv, Ticking
  <2>1. CASE TimePasses \/ DriverStep \/ UNCHANGED vars
    <3>1. UNCHANGED <<state, retry, event, task, attempts, wanted>>
      BY <2>1 DEF TimePasses, DriverStep, WifiJoins, WifiFails,
                  WifiGetsIp, WifiLosesIp, WifiDrops, EthChanges, DriverKeeps,
                  machine, history, vars
    <3>2. QED
      BY <3>1 DEF CountInv, Ticking
  <2>2. CASE EventStep
    BY <2>2, CountEvent
  <2>3. ASSUME NEW t \in Task,
               \/ NetworkConnect(t) \/ NetworkDisconnect(t)
               \/ NetworkEverySecond(t) \/ TaskStep(t)
        PROVE  CountInv'
    <3>1. t \in {LoopTask}
      OBVIOUS
    <3>2. QED
      BY <2>3, <3>1, CountTask
  <2>4. QED
    BY <2>0, <2>1, <2>2, <2>3 DEF Next
<1>4. CountInv => GivesUp
  BY DEF CountInv, GivesUp
<1>5. QED
  BY <1>1, <1>2, <1>3, <1>4, TypeCorrect, PTL DEF Spec
=============================================================================
