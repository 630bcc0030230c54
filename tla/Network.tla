------------------------------ MODULE Network ------------------------------
(***************************************************************************)
(* The network handler (src/src/system/handlers/network_handler.cpp) over  *)
(* the WiFi and Ethernet adapters: the WiFi state machine with its bounded *)
(* retry, the Hx.net_* flags and the choice of the default interface.      *)
(*                                                                         *)
(* Two kinds of task work on its variables, and no lock protects them: the *)
(* event-loop task of ESP-IDF, which calls OnWifiAdapterEvent and          *)
(* OnEthAdapterEvent one event at a time, and the tasks that call          *)
(* NetworkConnect, NetworkDisconnect and, on the loop task,                *)
(* NetworkEverySecond.  A step here is one access to what they share.      *)
(*                                                                         *)
(* The WiFi and Ethernet drivers are external: they accept or refuse a     *)
(* connection attempt, answer it, and post their events in order.          *)
(*                                                                         *)
(* Left out: the credentials (but for whether there are any), the user     *)
(* callback, which no code in the tree sets, and the events that the       *)
(* handler ignores (station associated, Ethernet link up).                 *)
(***************************************************************************)
EXTENDS Naturals, Sequences

CONSTANTS
  Task,         \* the tasks that call NetworkConnect and NetworkDisconnect
  LoopTask,     \* the one that also runs NetworkEverySecond
  RetryMax,     \* HX_WIFI_RETRY_MAX
  MaxCalls,     \* bound: calls of NetworkConnect and NetworkDisconnect
  MaxChanges,   \* bound: lost connections and leases, changes of the Ethernet
  MaxRefusals   \* bound: connects of the idle driver, and disconnects, it refuses

ASSUME NetworkAssumption ==
  /\ LoopTask \in Task
  /\ RetryMax \in Nat \ {0}
  /\ MaxCalls \in Nat /\ MaxChanges \in Nat /\ MaxRefusals \in Nat

VARIABLES
  state,      \* g_state
  retry,      \* g_retry_count
  enabled,    \* g_retry_sched.enabled
  due,        \* the deadline of g_retry_sched has passed
  known,      \* g_ssid is not empty
  ethIp,      \* g_eth_has_ip
  online,     \* Hx.net_connected, Hx.net_has_ip
  netif,      \* the default interface of the IP stack
  wifiIp,     \* g_has_ip of the WiFi adapter
  started,    \* NetworkStart has registered the callbacks
  event,      \* where the event-loop task stands
  task,       \* where each calling task stands
  wifi,       \* the WiFi driver: down, trying or joined
  lease,      \* it has an IP address
  cable,      \* the Ethernet has an IP address
  queue,      \* events posted and not yet handled
  wanted,     \* history: the last call was NetworkConnect
  attempts,   \* history: retries since the last connect or IP address
  calls, changes, refusals

machine == <<state, retry>>
timer   == <<enabled, due>>
flags   == <<ethIp, online, netif, wifiIp>>
driver  == <<wifi, lease, cable, queue>>
history == <<wanted, attempts>>
bounds  == <<calls, changes, refusals>>
vars    == <<machine, timer, known, flags, started, event, task, driver,
             history, bounds>>

-----------------------------------------------------------------------------
(* The event-loop task.                                                    *)

Waiting == [pc |-> "wait", kind |-> "none", count |-> 0]

On(label)     == event.pc = label
Then(label)   == event' = [event EXCEPT !.pc = label]
EventDone     == event' = Waiting
EventKeeps    == UNCHANGED <<known, started, task, driver, wanted, bounds>>

\* WifiEventHandler and EthEventHandler; without a callback that is all.
\* Mistake: there is no break after the case of a lost address.
FirstLabelFallsThrough(e) == CASE e = "ip"     -> "ip"
                               [] e \in {"lostip", "disc"} -> "disc"
                               [] OTHER        -> "eth"
FirstLabel(e) == CASE e = "ip"     -> "ip"
                   [] e = "lostip" -> "flags"
                   [] e = "disc"   -> "disc"
                   [] OTHER        -> "eth"
TakeEvent ==
  /\ On("wait") /\ queue # <<>>
  /\ LET e == Head(queue) IN
       /\ queue' = Tail(queue)
       /\ wifiIp' = IF e \in {"ip", "lostip", "disc"} THEN e = "ip" ELSE wifiIp
       /\ event' = IF started THEN [Waiting EXCEPT !.pc = FirstLabel(e), !.kind = e]
                              ELSE Waiting
  /\ UNCHANGED <<machine, timer, known, ethIp, online, netif, started, task,
                 wifi, lease, cable, history, bounds>>

IpAcquired ==
  /\ On("ip")
  /\ state' = "connected"
  /\ Then("clear")
  /\ EventKeeps /\ UNCHANGED <<retry, timer, flags, attempts>>

\* Mistake: the flags are not brought up to date.
ClearRetryNoFlags ==
  /\ On("clear")
  /\ retry' = 0 /\ attempts' = 0
  /\ Then("route")
  /\ EventKeeps /\ UNCHANGED <<state, timer, flags>>

ClearRetry ==
  /\ On("clear")
  /\ retry' = 0 /\ attempts' = 0
  /\ Then("flags")
  /\ EventKeeps /\ UNCHANGED <<state, timer, flags>>

\* After a DISCONNECTED event the retry is scheduled if one is left.
UpdateRuntimeFlags ==
  /\ On("flags")
  /\ online' = (state = "connected" \/ ethIp)
  /\ \/ event.kind = "lostip" /\ EventDone
     \/ event.kind = "disc" /\ event.count >= RetryMax /\ EventDone
     \/ event.kind = "disc" /\ event.count <  RetryMax /\ Then("rearm")
     \/ event.kind \notin {"lostip", "disc"} /\ Then("route")
  /\ EventKeeps /\ UNCHANGED <<machine, timer, ethIp, netif, wifiIp, attempts>>

\* Mistake: the WiFi takes the route whatever the Ethernet has.
RouteAlwaysWifi ==
  /\ On("route")
  /\ netif' = CASE event.kind = "ip"    -> "wifi"
                [] event.kind = "ethip" -> "eth"
                [] OTHER -> IF state = "connected" THEN "wifi" ELSE netif
  /\ EventDone
  /\ EventKeeps /\ UNCHANGED <<machine, timer, ethIp, online, wifiIp, attempts>>

\* EthSetDefault, WifiSetDefault
Route ==
  /\ On("route")
  /\ netif' = CASE event.kind = "ip"    -> IF ethIp THEN netif ELSE "wifi"
                [] event.kind = "ethip" -> "eth"
                [] OTHER -> IF state = "connected" THEN "wifi" ELSE netif
  /\ EventDone
  /\ EventKeeps /\ UNCHANGED <<machine, timer, ethIp, online, wifiIp, attempts>>

\* Mistake: only a lost connection is retried, not an attempt that failed.
DisconnectedConnectedOnly ==
  /\ On("disc")
  /\ IF state = "connected" THEN Then("count") ELSE EventDone
  /\ EventKeeps /\ UNCHANGED <<machine, timer, flags, attempts>>

Disconnected ==
  /\ On("disc")
  /\ IF state \in {"connected", "connecting"} THEN Then("count") ELSE EventDone
  /\ EventKeeps /\ UNCHANGED <<machine, timer, flags, attempts>>

\* g_retry_count++ reads the counter and writes it: NetworkConnect may have
\* set it to 0 in between.  The comparison with the limit uses the register.
ReadCount ==
  /\ On("count")
  /\ event' = [event EXCEPT !.pc = "store", !.count = retry + 1]
  /\ EventKeeps /\ UNCHANGED <<machine, timer, flags, attempts>>

\* Mistake: the failed attempt is not counted.
StoreCountNot ==
  /\ On("store")
  /\ Then("fail")
  /\ EventKeeps /\ UNCHANGED <<machine, timer, flags, attempts>>

StoreCount ==
  /\ On("store")
  /\ retry' = event.count
  /\ Then("fail")
  /\ EventKeeps /\ UNCHANGED <<state, timer, flags, attempts>>

SetFailed ==
  /\ On("fail")
  /\ state' = "failed"
  /\ Then("flags")
  /\ EventKeeps /\ UNCHANGED <<retry, timer, flags, attempts>>

\* HxSchedulerReset, which leaves the scheduler disabled if it was.
ResetScheduler ==
  /\ On("rearm")
  /\ due' = FALSE
  /\ EventDone
  /\ EventKeeps /\ UNCHANGED <<machine, enabled, flags, attempts>>

EthEvent ==
  /\ On("eth")
  /\ ethIp' = (event.kind = "ethip")
  /\ Then("flags")
  /\ EventKeeps /\ UNCHANGED <<machine, timer, online, netif, wifiIp, attempts>>

EventStep ==
  \/ TakeEvent \/ IpAcquired \/ ClearRetry \/ UpdateRuntimeFlags \/ Route
  \/ Disconnected \/ ReadCount \/ StoreCount \/ SetFailed \/ ResetScheduler
  \/ EthEvent

-----------------------------------------------------------------------------
(* The calling tasks.                                                      *)

At(t, label)   == task[t] = label
Goto(t, label) == task' = [task EXCEPT ![t] = label]
TaskKeeps      == UNCHANGED <<flags, started, event, cable, changes>>

\* The loop task starts the module, before it makes any other call.
NetworkStart ==
  /\ ~started /\ started' = TRUE
  /\ At(LoopTask, "idle") /\ Goto(LoopTask, "auto")
  /\ UNCHANGED <<machine, timer, known, flags, event, driver, history, bounds>>

\* The first part of NetworkConnect with a name.
Connect(t) ==
  /\ known' = TRUE /\ retry' = 0
  /\ wanted' = TRUE /\ attempts' = 0
  /\ Goto(t, "connecting")

\* The end of NetworkStart: nothing happens without a saved name.
NetworkAutoConnect(t) ==
  /\ At(t, "auto")
  /\ \/ Connect(t)
     \/ Goto(t, "idle") /\ UNCHANGED <<known, retry, history>>
  /\ TaskKeeps /\ UNCHANGED <<state, timer, wifi, lease, queue, calls, refusals>>

NetworkConnect(t) ==
  /\ started /\ At(t, "idle") /\ calls < MaxCalls
  /\ calls' = calls + 1
  /\ Connect(t)
  /\ TaskKeeps /\ UNCHANGED <<state, timer, wifi, lease, queue, refusals>>

SetConnecting(t) ==
  /\ At(t, "connecting")
  /\ state' = "connecting"
  /\ Goto(t, "enable")
  /\ TaskKeeps
  /\ UNCHANGED <<retry, timer, known, wifi, lease, queue, history, calls, refusals>>

\* Mistake: the scheduler stays as it was.
EnableRetryNot(t) ==
  /\ At(t, "enable")
  /\ Goto(t, "dial")
  /\ TaskKeeps
  /\ UNCHANGED <<machine, timer, known, wifi, lease, queue, history, calls, refusals>>

EnableRetry(t) ==
  /\ At(t, "enable")
  /\ enabled' = TRUE
  /\ Goto(t, "dial")
  /\ TaskKeeps
  /\ UNCHANGED <<machine, due, known, wifi, lease, queue, history, calls, refusals>>

\* WifiAdapterConnect.  A driver that is trying or has joined refuses or has
\* nothing to do; NetworkEverySecond does not look at the result.
WifiAdapterConnect(t) ==
  /\ At(t, "dial") \/ At(t, "redial")
  /\ \/ wifi = "down" /\ wifi' = "trying" /\ UNCHANGED refusals
     \/ wifi # "down" /\ UNCHANGED <<wifi, refusals>>
     \/ wifi = "down" /\ refusals < MaxRefusals /\ refusals' = refusals + 1
        /\ UNCHANGED wifi
  /\ attempts' = IF At(t, "redial") THEN attempts + 1 ELSE attempts
  /\ Goto(t, "idle")
  /\ TaskKeeps
  /\ UNCHANGED <<machine, timer, known, lease, queue, wanted, calls>>

NetworkDisconnect(t) ==
  /\ started /\ At(t, "idle") /\ calls < MaxCalls
  /\ calls' = calls + 1
  /\ state' = "idle"
  /\ wanted' = FALSE
  /\ Goto(t, "uncount")
  /\ TaskKeeps
  /\ UNCHANGED <<retry, timer, known, wifi, lease, queue, attempts, refusals>>

ResetRetry(t) ==
  /\ At(t, "uncount")
  /\ retry' = 0
  /\ Goto(t, "disable")
  /\ TaskKeeps
  /\ UNCHANGED <<state, timer, known, wifi, lease, queue, history, calls, refusals>>

\* Mistake: the retry stays armed.
DisableRetryNot(t) ==
  /\ At(t, "disable")
  /\ Goto(t, "hangup")
  /\ TaskKeeps
  /\ UNCHANGED <<machine, timer, known, wifi, lease, queue, history, calls, refusals>>

DisableRetry(t) ==
  /\ At(t, "disable")
  /\ enabled' = FALSE
  /\ Goto(t, "hangup")
  /\ TaskKeeps
  /\ UNCHANGED <<machine, due, known, wifi, lease, queue, history, calls, refusals>>

\* A refused disconnect is reported and changes nothing: the driver goes on.
WifiAdapterDisconnect(t) ==
  /\ At(t, "hangup")
  /\ \/ /\ wifi' = "down" /\ lease' = FALSE
        /\ queue' = IF wifi = "down" THEN queue ELSE Append(queue, "disc")
        /\ UNCHANGED refusals
     \/ /\ refusals < MaxRefusals /\ refusals' = refusals + 1
        /\ UNCHANGED <<wifi, lease, queue>>
  /\ Goto(t, "idle")
  /\ TaskKeeps
  /\ UNCHANGED <<machine, timer, known, history, calls>>

\* NetworkEverySecond, which returns at once in any other state.
NetworkEverySecond(t) ==
  /\ started /\ t = LoopTask /\ At(t, "idle") /\ state = "failed"
  /\ Goto(t, "check")
  /\ TaskKeeps
  /\ UNCHANGED <<machine, timer, known, wifi, lease, queue, history, calls, refusals>>

\* ... HxSchedulerDue starts the next interval.
CheckRetry(t) ==
  LET go == retry < RetryMax /\ known /\ enabled /\ due IN
  /\ At(t, "check")
  /\ \/ go /\ due' = FALSE /\ Goto(t, "retry")
     \/ ~go /\ Goto(t, "idle") /\ UNCHANGED due
  /\ TaskKeeps
  /\ UNCHANGED <<machine, enabled, known, wifi, lease, queue, history, calls, refusals>>

SetRetrying(t) ==
  /\ At(t, "retry")
  /\ state' = "connecting"
  /\ Goto(t, "redial")
  /\ TaskKeeps
  /\ UNCHANGED <<retry, timer, known, wifi, lease, queue, history, calls, refusals>>

TaskStep(t) ==
  \/ NetworkAutoConnect(t)
  \/ SetConnecting(t) \/ EnableRetry(t) \/ WifiAdapterConnect(t)
  \/ ResetRetry(t) \/ DisableRetry(t) \/ WifiAdapterDisconnect(t)
  \/ CheckRetry(t) \/ SetRetrying(t)

TimePasses ==
  /\ ~due /\ due' = TRUE
  /\ UNCHANGED <<machine, enabled, known, flags, started, event, task, driver,
                 history, bounds>>

-----------------------------------------------------------------------------
(* The drivers.                                                            *)

DriverKeeps == UNCHANGED <<machine, timer, known, flags, started, event, task,
                           history, calls, refusals>>
Post(e)     == queue' = Append(queue, e)
Change      == changes < MaxChanges /\ changes' = changes + 1

\* An attempt that the driver accepted is answered.
WifiJoins ==
  /\ wifi = "trying" /\ wifi' = "joined"
  /\ DriverKeeps /\ UNCHANGED <<lease, cable, queue, changes>>

WifiFails ==
  /\ wifi = "trying" /\ wifi' = "down" /\ Post("disc")
  /\ DriverKeeps /\ UNCHANGED <<lease, cable, changes>>

WifiGetsIp ==
  /\ wifi = "joined" /\ ~lease /\ lease' = TRUE /\ Post("ip")
  /\ DriverKeeps /\ UNCHANGED <<wifi, cable, changes>>

WifiLosesIp ==
  /\ Change /\ lease /\ lease' = FALSE /\ Post("lostip")
  /\ DriverKeeps /\ UNCHANGED <<wifi, cable>>

WifiDrops ==
  /\ Change /\ wifi = "joined" /\ wifi' = "down" /\ lease' = FALSE /\ Post("disc")
  /\ DriverKeeps /\ UNCHANGED cable

EthChanges ==
  /\ Change /\ cable' = ~cable
  /\ \E e \in IF cable THEN {"ethlost", "ethdown"} ELSE {"ethip"} : Post(e)
  /\ DriverKeeps /\ UNCHANGED <<wifi, lease>>

DriverStep ==
  \/ WifiJoins \/ WifiFails \/ WifiGetsIp \/ WifiLosesIp \/ WifiDrops \/ EthChanges

-----------------------------------------------------------------------------

Init ==
  /\ state = "idle" /\ retry = 0
  /\ enabled = FALSE /\ due = TRUE
  /\ known = FALSE
  /\ ethIp = FALSE /\ online = FALSE /\ netif = "none" /\ wifiIp = FALSE
  /\ started = FALSE
  /\ event = Waiting
  /\ task = [t \in Task |-> "idle"]
  /\ wifi = "down" /\ lease = FALSE /\ cable = FALSE /\ queue = <<>>
  /\ wanted = FALSE /\ attempts = 0
  /\ calls = 0 /\ changes = 0 /\ refusals = 0

Next ==
  \/ EventStep
  \/ NetworkStart
  \/ \E t \in Task : NetworkConnect(t) \/ NetworkDisconnect(t)
                     \/ NetworkEverySecond(t) \/ TaskStep(t)
  \/ TimePasses
  \/ DriverStep

Spec == Init /\ [][Next]_vars

\* The event task and the calling tasks run, the loop task calls
\* NetworkEverySecond every second, millis() advances, and the driver answers
\* every attempt it accepted.
Fairness ==
  /\ WF_vars(EventStep)
  /\ \A t \in Task : WF_vars(TaskStep(t)) /\ WF_vars(NetworkEverySecond(t))
  /\ WF_vars(TimePasses)
  /\ WF_vars(WifiJoins \/ WifiFails)

FairSpec == Spec /\ Fairness

-----------------------------------------------------------------------------
(* Properties.                                                             *)

EventKind == {"ip", "lostip", "disc", "ethip", "ethlost", "ethdown"}

EventOK ==
  /\ DOMAIN event = DOMAIN Waiting
  /\ event.pc \in {"wait", "ip", "clear", "flags", "route", "disc", "count",
                   "store", "fail", "rearm", "eth"}
  /\ event.kind \in EventKind \cup {"none"}
  /\ event.count \in Nat
  /\ event.pc = "wait" <=> event.kind = "none"
  /\ event.pc \in {"ip", "clear"} => event.kind = "ip"
  /\ event.pc \in {"disc", "count", "store", "fail", "rearm"} => event.kind = "disc"
  /\ event.pc = "eth" => event.kind \in {"ethip", "ethlost", "ethdown"}
  /\ event.pc = "route" => event.kind \notin {"lostip", "disc"}

\* Every variable has its type, and the handler of an event is at a place that
\* events of its kind reach.
TypeOK ==
  /\ state \in {"idle", "connecting", "connected", "failed"}
  /\ retry \in Nat
  /\ {enabled, due, known, ethIp, online, wifiIp, started, lease, cable, wanted}
       \subseteq BOOLEAN
  /\ netif \in {"none", "wifi", "eth"}
  /\ EventOK
  /\ task \in [Task -> {"idle", "auto", "connecting", "enable", "dial",
                        "uncount", "disable", "hangup", "check", "retry",
                        "redial"}]
  /\ wifi \in {"down", "trying", "joined"}
  /\ queue \in Seq(EventKind)
  /\ attempts \in Nat /\ calls \in Nat /\ changes \in Nat /\ refusals \in Nat

\* Between two events Hx.net_connected shows every interface the handler
\* takes for connected, whatever calls ran while the events were handled: the
\* flag is computed from g_state, which other tasks change at any time.
OnlineShown == On("wait") /\ (state = "connected" \/ ethIp) => online

\* Between two events the default interface is the Ethernet while it has an
\* address, and otherwise the WiFi while that is connected (file comment,
\* "routing priority over WiFi").
RouteFollowsEth ==
  On("wait") =>
    /\ ethIp => netif = "eth"
    /\ ~ethIp /\ state = "connected" => netif = "wifi"

\* "When the counter reaches HX_WIFI_RETRY_MAX the handler stops retrying": a
\* NetworkConnect or an address is followed by HX_WIFI_RETRY_MAX - 1 retries at
\* most, and one more if it reset the counter between g_retry_count++ and
\* g_state = FAILED of the event task.
GivesUp == attempts <= RetryMax

\* No retry is made after NetworkDisconnect, not even when the handler of a
\* DISCONNECTED event was under way and puts the state machine into FAILED
\* again (calls of one task).
NoRetryAfterDisconnect ==
  [][\A t \in Task : At(t, "redial") /\ ~At(t, "redial")' => wanted]_vars

\* A connection that failed is retried while the counter allows and the user
\* has not disconnected.
Retries ==
  (state = "failed" /\ retry < RetryMax /\ wanted)
    ~> (state # "failed" \/ retry >= RetryMax \/ ~wanted)

\* The handler does not stay CONNECTING with a driver that does nothing: the
\* DISCONNECTED event of a failed attempt always gets it out.  The exception is
\* an attempt that the driver refuses, whose result nobody uses.
NotStuckConnecting ==
  (state = "connecting" /\ wifi = "down" /\ refusals = 0)
    ~> (state # "connecting" \/ wifi # "down" \/ refusals > 0)

\* Comment of network_handler.cpp: "net_connected, true when any interface
\* (WiFi or ETH) has an IP", for a handler with nothing left to do.
OnlineMeansIp ==
  On("wait") /\ queue = <<>> /\ (\A t \in Task : At(t, "idle"))
    => (online <=> wifiIp \/ ethIp)
=============================================================================
