------------------------------- MODULE Pinmap -------------------------------
(***************************************************************************)
(* The runtime pinmap (src/src/system/core/pinmap.cpp): the lookup tables  *)
(* that PinmapInit builds from the configuration's board.pinmap and        *)
(* drivers.bindings at boot, and builds again, over a snapshot, when the   *)
(* console asks to validate the current configuration.                     *)
(*                                                                         *)
(* There is no lock.  The tables are rebuilt in place, stage by stage, and *)
(* the configuration may be changed by another task between the stages.    *)
(*                                                                         *)
(* Abstractions.  A text is a record: ok says that it parses as the JSON   *)
(* the code expects, list is what it then holds.  The i2c and uart entries *)
(* of drivers.bindings are one list.  A text is read in one step, where    *)
(* the code parses it in place.  Strap pins only warn.                     *)
(***************************************************************************)
EXTENDS Integers, Sequences, FiniteSets

CONSTANTS
  Task,        \* tasks that run commands
  Validator,   \* those that may run "pinmap validate"
  GpioCount,   \* HX_TARGET_CAPS_CURRENT_DEF.gpio_count
  Caps,        \* Caps[g]: capabilities of a GPIO: "valid", "in", "out", and
               \* "flash", "psram" if it is reserved for one of them
  Function,    \* pin functions, without HX_PIN_NONE
  NoFunction,  \* HX_PIN_NONE
  Needs,       \* Needs[f]: PinmapRequiredCaps, "in" and "out"
  PortPins,    \* PortPins[type][p]: the two functions of a port of the bus of a driver
               \* type, for the types the build registers
  MaxBindings, \* HX_PINMAP_MAX_I2C_BINDINGS, HX_PINMAP_MAX_UART_BINDINGS
  Instance,    \* instance numbers
  BootPins, BootBindings,   \* texts the device may boot with
  EditPins, EditBindings,   \* texts a user may set later
  MaxEdits     \* bound: changes of the configuration

Gpio    == 0 .. GpioCount - 1
NoGpio  == -1
Type    == DOMAIN PortPins
I2cType == {"i2c"}   \* driver types of the I2C bus; the others are UART drivers

ASSUME GpioAssumption ==
  /\ GpioCount \in Nat /\ Caps \in [Gpio -> SUBSET {"valid", "in", "out", "flash", "psram"}]
  /\ MaxBindings \in Nat /\ MaxEdits \in Nat
ASSUME FunctionAssumption ==
  /\ NoFunction \notin Function
  /\ Needs \in [Function -> SUBSET {"in", "out"}]
  /\ \A type \in Type : \A p \in DOMAIN PortPins[type] : PortPins[type][p] \subseteq Function
ASSUME TaskAssumption == Validator \subseteq Task

\* Only a UART driver's binding names helper pins, -1 for none.
IsList(q) == q \in Seq({q[i] : i \in DOMAIN q})
IsText(text) == text.ok \in BOOLEAN /\ IsList(text.list)
ASSUME TextAssumption ==
  /\ \A text \in BootPins \cup EditPins : IsText(text)
  /\ \A text \in BootBindings \cup EditBindings :
       /\ IsText(text)
       /\ \A i \in DOMAIN text.list :
            LET b == text.list[i] IN
            /\ b.helpers \in Seq(Int)
            /\ b.type \in I2cType => b.helpers = <<>>

VARIABLES
  config,    \* HxConfigData.board_pinmap and drivers_bindings
  tables,    \* the module's tables
  hxReady,   \* Hx.pinmap_ready
  task,      \* where each task stands in PinmapInit or PinmapValidateCurrentConfig
  accepted,  \* history: the configuration last accepted, or None
  edits      \* history: changes of the configuration

vars == <<config, tables, hxReady, task, accepted, edits>>

NoText == [ok |-> FALSE, list |-> <<>>]
None   == [pins |-> NoText, bindings |-> NoText]

\* PinmapResetState
Cleared == [ready    |-> FALSE,
            function |-> [g \in Gpio |-> NoFunction],
            gpio     |-> [f \in Function |-> NoGpio],
            bindings |-> <<>>,
            mapped   |-> 0]

\* next: what the array parser fills in.  History: the texts read so far, the
\* result of PinmapInit, and the edits there had been when the call began.
Idle == [pc |-> "idle", op |-> "none", saved |-> Cleared,
         next |-> Cleared.function, used |-> None, verdict |-> "none",
         since |-> 0]

(***************************************************************************)
(* The checks, one operator per function of the code.                      *)
(***************************************************************************)
Usable(g) == "valid" \in Caps[g] /\ "flash" \notin Caps[g] /\ "psram" \notin Caps[g]

\* PinmapValidateGpioAssignment
AssignmentOK(g, f) == Usable(g) /\ Needs[f] \subseteq Caps[g]

\* PinmapValidateHelperGpio
HelperOK(g) == g < 0 \/ (g < GpioCount /\ Usable(g) /\ "out" \in Caps[g])

\* PinmapParseDenseArray
DenseArrayOK(list) ==
  /\ Len(list) <= GpioCount
  /\ \A i \in 1 .. Len(list) : list[i] # NoFunction =>
       list[i] \in Function /\ AssignmentOK(i - 1, list[i])
ParseDenseArray(list) ==
  [g \in Gpio |-> IF g < Len(list) THEN list[g + 1] ELSE NoFunction]

\* PinmapBuildReverseLookup works from GPIO 0 up and stops at the first whose
\* function was seen before.
Repeats(map, g)    == map[g] # NoFunction /\ \E h \in 0 .. g - 1 : map[h] = map[g]
ReverseLookup(map) ==
  [f \in Function |->
     LET found == {g \in Gpio : map[g] = f /\ \A h \in 0 .. g : ~Repeats(map, h)}
     IN IF found = {} THEN NoGpio ELSE CHOOSE g \in found : TRUE]

\* PinmapParseBindingsObject up to its i-th binding: a registered type, room in
\* its table, no earlier binding of the same instance, helper pins that exist.
SameBus(a, b) == (a.type \in I2cType) = (b.type \in I2cType)
Stores(list, i) ==
  LET b == list[i] IN
  /\ b.type \in Type
  /\ Cardinality({j \in 1 .. i - 1 : SameBus(list[j], b)}) < MaxBindings
  /\ \A j \in 1 .. i - 1 : <<list[j].type, list[j].instance>> # <<b.type, b.instance>>
  /\ b.type \in I2cType \/ \A h \in 1 .. Len(b.helpers) : HelperOK(b.helpers[h])
Stored(list) == {n \in 0 .. Len(list) : \A i \in 1 .. n : Stores(list, i)}

\* PinmapParseBindingsObject leaves the bindings before a bad one in the table.
ParseBindings(list) ==
  SubSeq(list, 1, CHOOSE n \in Stored(list) : \A m \in Stored(list) : m <= n)

\* Mistake: the helpers of different bindings are not compared.
HelpersFreeAlone(map, list, i) ==
  LET h == list[i].helpers IN
  \A a \in 1 .. Len(h) : h[a] >= 0 =>
    /\ map[h[a]] = NoFunction
    /\ \A b \in 1 .. a - 1 : h[b] # h[a]

\* The helper pins of binding i carry no function and are used once.
HelpersFree(map, list, i) ==
  LET h == list[i].helpers IN
  \A a \in 1 .. Len(h) : h[a] >= 0 =>
    /\ map[h[a]] = NoFunction
    /\ \A b \in 1 .. a - 1 : h[b] # h[a]
    /\ \A j \in 1 .. i - 1 : \A b \in 1 .. Len(list[j].helpers) :
         list[j].helpers[b] # h[a]

\* PinmapValidateBindingsAgainstPinmap
MatchesPinmap(map, list) ==
  \A i \in 1 .. Len(list) :
    LET b == list[i] IN
    /\ b.port \in DOMAIN PortPins[b.type]
    /\ \A f \in PortPins[b.type][b.port] : \E g \in Gpio : map[g] = f
    /\ HelpersFree(map, list, i)

(***************************************************************************)
(* PinmapInit, stage by stage.                                             *)
(***************************************************************************)
At(t, label) == task[t].pc = label

\* PinmapInit returned: a validation that failed restores its snapshot.
Finish(t, verdict) ==
  task' = [task EXCEPT ![t].verdict = verdict,
                       ![t].pc = IF task[t].op = "validate" /\ verdict # "accepted"
                                 THEN "restore" ELSE "return"]

\* PinmapSnapshotCapture
Capture(t) ==
  /\ At(t, "idle") /\ t \in Validator
  /\ task' = [task EXCEPT ![t] = [Idle EXCEPT !.pc = "reset", !.op = "validate",
                                             !.saved = tables, !.since = edits]]
  /\ UNCHANGED <<config, tables, hxReady, accepted, edits>>

ResetState(t) ==
  /\ At(t, "reset")
  /\ tables' = Cleared
  /\ hxReady' = FALSE
  /\ task' = [task EXCEPT ![t].pc = "pins"]
  /\ UNCHANGED <<config, accepted, edits>>

ParsePins(t) ==
  LET text == config.pins IN
  /\ At(t, "pins")
  /\ \/ /\ ~text.ok \/ ~DenseArrayOK(text.list)
        /\ Finish(t, "rejected")
     \/ /\ text.ok /\ DenseArrayOK(text.list)
        /\ task' = [task EXCEPT ![t].pc = "reverse", ![t].used.pins = text,
                                ![t].next = ParseDenseArray(text.list)]
  /\ UNCHANGED <<config, tables, hxReady, accepted, edits>>

BuildReverseLookup(t) ==
  LET map == task[t].next IN
  /\ At(t, "reverse")
  /\ tables' = [tables EXCEPT !.gpio = ReverseLookup(map)]
  /\ IF \E g \in Gpio : Repeats(map, g)
     THEN Finish(t, "rejected")
     ELSE task' = [task EXCEPT ![t].pc = "bindings"]
  /\ UNCHANGED <<config, hxReady, accepted, edits>>

ReadBindings(t) ==
  LET text == config.bindings IN
  /\ At(t, "bindings")
  /\ \/ ~text.ok /\ Finish(t, "rejected") /\ UNCHANGED tables
     \/ /\ text.ok
        /\ tables' = [tables EXCEPT !.bindings = ParseBindings(text.list)]
        /\ IF ParseBindings(text.list) = text.list
           THEN task' = [task EXCEPT ![t].pc = "match", ![t].used.bindings = text]
           ELSE Finish(t, "rejected")
  /\ UNCHANGED <<config, hxReady, accepted, edits>>

CheckBindings(t) ==
  /\ At(t, "match")
  /\ IF MatchesPinmap(task[t].next, tables.bindings)
     THEN task' = [task EXCEPT ![t].pc = "commit"]
     ELSE Finish(t, "rejected")
  /\ UNCHANGED <<config, tables, hxReady, accepted, edits>>

\* The GPIO table is written before the bindings are serialised, which fails
\* when the text has grown past its buffer.
Commit(t) ==
  LET map == task[t].next IN
  /\ At(t, "commit")
  /\ \/ /\ tables' = [tables EXCEPT !.function = map]
        /\ Finish(t, "failed")
        /\ UNCHANGED <<hxReady, accepted>>
     \/ /\ tables' = [tables EXCEPT !.function = map, !.ready = TRUE,
                        !.mapped = Cardinality({g \in Gpio : map[g] # NoFunction})]
        /\ hxReady' = TRUE
        /\ accepted' = task[t].used
        /\ Finish(t, "accepted")
  /\ UNCHANGED <<config, edits>>

\* Mistake: the reverse lookup is not restored.
RestoreTables(t) ==
  /\ At(t, "restore")
  /\ tables' = [task[t].saved EXCEPT !.gpio = tables.gpio]
  /\ hxReady' = task[t].saved.ready
  /\ task' = [task EXCEPT ![t].pc = "return"]
  /\ UNCHANGED <<config, accepted, edits>>

\* PinmapSnapshotRestore
Restore(t) ==
  /\ At(t, "restore")
  /\ tables' = task[t].saved
  /\ hxReady' = task[t].saved.ready
  /\ task' = [task EXCEPT ![t].pc = "return"]
  /\ UNCHANGED <<config, accepted, edits>>

Return(t) ==
  /\ At(t, "return")
  /\ task' = [task EXCEPT ![t] = Idle]
  /\ UNCHANGED <<config, tables, hxReady, accepted, edits>>

\* A "setcfg" of either text, by any task.
ChangeConfig ==
  /\ edits < MaxEdits
  /\ edits' = edits + 1
  /\ \/ \E text \in EditPins : config' = [config EXCEPT !.pins = text]
     \/ \E text \in EditBindings : config' = [config EXCEPT !.bindings = text]
  /\ UNCHANGED <<tables, hxReady, task, accepted>>

(***************************************************************************)
(* The lookups.                                                            *)
(***************************************************************************)
NoAnswer == "no answer"
FunctionForGpio(g) == IF tables.ready THEN tables.function[g] ELSE NoAnswer
GpioForFunction(f) == IF tables.ready THEN tables.gpio[f] ELSE NoGpio
FindBinding(type, n) ==
  IF ~tables.ready THEN {}
  ELSE {tables.bindings[i] : i \in {j \in 1 .. Len(tables.bindings) :
          tables.bindings[j].type = type /\ tables.bindings[j].instance = n}}

(***************************************************************************)
(* Specification: the loop task runs PinmapInit at boot.                   *)
(***************************************************************************)
Init ==
  /\ config \in [pins : BootPins, bindings : BootBindings]
  /\ tables = Cleared /\ hxReady = FALSE
  /\ \E t \in Validator :
       task = [u \in Task |-> IF u = t THEN [Idle EXCEPT !.pc = "reset", !.op = "boot"]
                                       ELSE Idle]
  /\ accepted = None /\ edits = 0

Step(t) ==
  \/ Capture(t) \/ ResetState(t) \/ ParsePins(t) \/ BuildReverseLookup(t)
  \/ ReadBindings(t) \/ CheckBindings(t) \/ Commit(t) \/ Restore(t) \/ Return(t)

Next == (\E t \in Task : Step(t)) \/ ChangeConfig

Spec == Init /\ [][Next]_vars

(***************************************************************************)
(* Properties.                                                             *)
(***************************************************************************)
\* docs/PINMAP_BUILD_INTEGRATION.md, "Validation rules": what makes a board
\* layout and its bindings good, said of the texts and not of the tables.
PinAt(pins, f) == {i \in 1 .. Len(pins) : pins[i] = f}
GoodPins(pins) ==
  /\ Len(pins) <= GpioCount
  /\ \A i \in 1 .. Len(pins) : pins[i] \in Function \cup {NoFunction}
  /\ \A f \in Function : Cardinality(PinAt(pins, f)) <= 1
  /\ \A f \in Function : \A i \in PinAt(pins, f) :
       /\ {"valid"} \cup Needs[f] \subseteq Caps[i - 1]
       /\ "flash" \notin Caps[i - 1] /\ "psram" \notin Caps[i - 1]
Helpers(bindings) ==
  UNION {{<<i, h>> : h \in {k \in 1 .. Len(bindings[i].helpers) :
                              bindings[i].helpers[k] >= 0}} :
         i \in {j \in 1 .. Len(bindings) : bindings[j].type \notin I2cType}}
GoodBindings(pins, bindings) ==
  /\ \A b \in {bindings[i] : i \in 1 .. Len(bindings)} :
       /\ b.type \in Type
       /\ b.port \in DOMAIN PortPins[b.type]
       /\ \A f \in PortPins[b.type][b.port] : PinAt(pins, f) # {}
  /\ \A i, j \in 1 .. Len(bindings) :
       bindings[i].type = bindings[j].type /\ bindings[i].instance = bindings[j].instance
         => i = j
  /\ \A bus \in SUBSET Type :
       bus \in {I2cType \cap Type, Type \ I2cType} =>
         Cardinality({i \in 1 .. Len(bindings) : bindings[i].type \in bus}) <= MaxBindings
  /\ \A x, y \in Helpers(bindings) :
       LET g == bindings[x[1]].helpers[x[2]] IN
       /\ g < GpioCount /\ {"valid", "out"} \subseteq Caps[g]
       /\ "flash" \notin Caps[g] /\ "psram" \notin Caps[g]
       /\ g >= Len(pins) \/ pins[g + 1] = NoFunction
       /\ g = bindings[y[1]].helpers[y[2]] => x = y
Good(c) ==
  /\ c.pins.ok /\ GoodPins(c.pins.list)
  /\ c.bindings.ok /\ GoodBindings(c.pins.list, c.bindings.list)

\* A layout is accepted only if it keeps every rule of the documentation, and
\* one that is not being edited meanwhile is rejected only if it breaks one.
VerdictIsRight ==
  \A t \in Task :
    /\ task[t].verdict = "accepted" => Good(task[t].used)
    /\ task[t].verdict = "rejected" /\ edits = task[t].since => ~Good(config)

\* Whenever no call is under way every lookup answers from the layout accepted
\* last: a rejected boot leaves no answers, a rejected validation the ones from
\* before it, an accepted one the new ones, with both ready flags agreeing.
AnswersAreAccepted ==
  (\A t \in Task : At(t, "idle")) =>
    /\ hxReady = tables.ready
    /\ tables.ready = (accepted # None)
    /\ accepted # None =>
         LET pins == accepted.pins.list  list == accepted.bindings.list IN
         /\ \A g \in Gpio : FunctionForGpio(g) =
              IF g < Len(pins) THEN pins[g + 1] ELSE NoFunction
         /\ \A f \in Function, g \in Gpio :
              GpioForFunction(f) = g <=> FunctionForGpio(g) = f
         /\ \A f \in Function : GpioForFunction(f) = NoGpio <=> PinAt(pins, f) = {}
         /\ \A type \in Type, n \in Instance :
              FindBinding(type, n) = {b \in {list[i] : i \in 1 .. Len(list)} :
                                        b.type = type /\ b.instance = n}
         /\ tables.mapped = Cardinality({g \in Gpio : FunctionForGpio(g) # NoFunction})
=============================================================================
