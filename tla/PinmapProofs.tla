----------------------------- MODULE PinmapProofs -----------------------------
(***************************************************************************)
(* What holds of the runtime pinmap for every chip, set of functions and   *)
(* configuration, as long as one task boots and validates.                 *)
(***************************************************************************)
EXTENDS Pinmap, FiniteSetTheorems, SequenceTheorems, WellFoundedInduction, TLAPS

USE GpioAssumption, FunctionAssumption, TaskAssumption

\* PinmapInit and PinmapValidateCurrentConfig are run by one task.
OneValidator == \A t, u \in Validator : t = u

PinList(q)     == IsList(q)
BindingList(q) ==
  /\ IsList(q)
  /\ \A i \in DOMAIN q : /\ q[i].helpers \in Seq(Int)
                         /\ q[i].type \in I2cType => q[i].helpers = <<>>

(***************************************************************************)
(* The inductive invariant.                                                *)
(***************************************************************************)
Stage   == {"reset", "pins", "reverse", "bindings", "match", "commit", "restore"}
Pc      == Stage \cup {"idle", "return"}
Tables(T) == DOMAIN T = {"ready", "function", "gpio", "bindings", "mapped"}
Layout(c) == DOMAIN c = {"pins", "bindings"}
TaskRecord(r) ==
  /\ DOMAIN r = {"pc", "op", "saved", "next", "used", "verdict", "since"}
  /\ r.pc \in Pc /\ r.op \in {"none", "boot", "validate"} /\ r.since \in Nat
  /\ r.verdict \in {"none", "accepted", "rejected", "failed"}
  /\ Tables(r.saved) /\ Layout(r.used)

ConfigOK ==
  /\ Layout(config)
  /\ PinList(config.pins.list) /\ config.pins.ok \in BOOLEAN
  /\ BindingList(config.bindings.list) /\ config.bindings.ok \in BOOLEAN

\* Only the validator is ever inside a call.
TasksOK ==
  /\ DOMAIN task = Task /\ edits \in Nat /\ Tables(tables)
  /\ \A t \in Task : TaskRecord(task[t]) /\ task[t].since <= edits
  /\ \A t \in Task : t \notin Validator => task[t] = Idle

\* The texts a call has read, and what they have passed so far.  One that is
\* not edited meanwhile is the configuration.
HasPins(t)     == task[t].pc \in {"reverse", "bindings", "match", "commit"}
HasBindings(t) == task[t].pc \in {"match", "commit"}
ReadOK(t) ==
  LET r == task[t]  pins == r.used.pins  bindings == r.used.bindings IN
  /\ HasPins(t) =>
       /\ pins.ok /\ PinList(pins.list) /\ DenseArrayOK(pins.list)
       /\ r.next = ParseDenseArray(pins.list)
       /\ edits = r.since => pins = config.pins
  /\ r.pc \in {"bindings", "match", "commit"} =>
       /\ \A g \in Gpio : ~Repeats(r.next, g)
       /\ tables.gpio = ReverseLookup(r.next)
  /\ HasBindings(t) =>
       /\ bindings.ok /\ BindingList(bindings.list)
       /\ ParseBindings(bindings.list) = bindings.list
       /\ tables.bindings = bindings.list
       /\ edits = r.since => bindings = config.bindings
  /\ r.pc = "commit" => MatchesPinmap(r.next, bindings.list)
  /\ r.pc \in Stage \ {"restore"} => r.verdict = "none"

VerdictOK(t) ==
  /\ task[t].verdict = "accepted" => Good(task[t].used)
  /\ task[t].verdict = "rejected" /\ edits = task[t].since => ~Good(config)

\* Tables that answer from layout a, or not at all when there is none.
Answers(T, a) ==
  /\ T.ready = (a # None)
  /\ a # None =>
       LET map == ParseDenseArray(a.pins.list) IN
       /\ PinList(a.pins.list) /\ DenseArrayOK(a.pins.list)
       /\ T.function = map /\ \A g \in Gpio : ~Repeats(map, g)
       /\ T.gpio = ReverseLookup(map)
       /\ T.bindings = a.bindings.list
       /\ T.mapped = Cardinality({g \in Gpio : map[g] # NoFunction})

Served == Answers(tables, accepted) /\ hxReady = tables.ready
TablesAt(t) ==
  LET r == task[t] IN
  /\ r.pc \in Stage /\ r.op = "validate" => Answers(r.saved, accepted)
  /\ r.pc \in Stage /\ r.op # "validate" => accepted = None /\ r.pc # "restore"
  /\ r.pc \in Stage \ {"reset"} => tables.ready = FALSE /\ hxReady = FALSE
TablesOK ==
  /\ (\A t \in Task : task[t].pc \notin Stage) => Served
  /\ \A t \in Task : TablesAt(t)

Inv == ConfigOK /\ TasksOK /\ (\A t \in Task : ReadOK(t) /\ VerdictOK(t)) /\ TablesOK

(***************************************************************************)
(* Numbers and finite sets.                                                *)
(***************************************************************************)
Less == {p \in Nat \X Nat : p[1] < p[2]}

LEMMA Greatest ==
  ASSUME NEW n \in Nat, NEW S \in SUBSET (0 .. n), S # {}
  PROVE  \E m \in S : \A k \in S : k <= m
<1> DEFINE T == {n - k : k \in S}
<1>1. IsWellFoundedOn(Less, Nat)
  BY NatLessThanWellFounded DEF OpToRel, Less
<1>2. T \subseteq Nat /\ T # {}
  <2>1. \A k \in S : k \in Nat /\ n - k \in Nat
    OBVIOUS
  <2>2. T \subseteq Nat
    BY <2>1
  <2>3. PICK k \in S : TRUE
    OBVIOUS
  <2>4. n - k \in T
    BY <2>3
  <2>5. QED
    BY <2>2, <2>4
<1> HIDE DEF T
<1>3. PICK x \in T : \A y \in T : <<y, x>> \notin Less
  BY <1>1, <1>2, WFMin
<1>4. PICK m \in S : x = n - m
  BY DEF T
<1>5. \A k \in S : n - k \in T
  BY DEF T
<1>6. \A k \in S : ~(n - k < n - m)
  BY <1>2, <1>3, <1>4, <1>5 DEF Less
<1>7. QED
  BY <1>6

\* At most one element is what the cardinality says it is.
LEMMA AtMostOne ==
  ASSUME NEW S, IsFiniteSet(S)
  PROVE  Cardinality(S) <= 1 <=> \A x, y \in S : x = y
<1>1. Cardinality(S) \in Nat
  BY FS_CardinalityType
<1>2. Cardinality(S) = 0 <=> S = {}
  BY FS_EmptySet
<1>3. Cardinality(S) = 1 <=> \E x : S = {x}
  BY FS_Singleton
<1>4. (\A x, y \in S : x = y) <=> S = {} \/ \E x : S = {x}
  OBVIOUS
<1>5. QED
  BY <1>1, <1>2, <1>3, <1>4

(***************************************************************************)
(* The board layout.                                                       *)
(***************************************************************************)
LEMMA ListLength ==
  ASSUME NEW q, IsList(q)
  PROVE  Len(q) \in Nat /\ DOMAIN q = 1 .. Len(q)
BY DEF IsList

\* What the array parser leaves in the table of functions.
LEMMA ParsedPins ==
  ASSUME NEW P, PinList(P), DenseArrayOK(P), NEW map, map = ParseDenseArray(P)
  PROVE  /\ map \in [Gpio -> Function \cup {NoFunction}]
         /\ \A g \in Gpio : map[g] # NoFunction => g + 1 \in 1 .. Len(P) /\ P[g + 1] = map[g]
         /\ \A i \in 1 .. Len(P) : i - 1 \in Gpio /\ map[i - 1] = P[i]
<1>1. Len(P) \in Nat /\ Len(P) <= GpioCount
  BY ListLength DEF PinList, DenseArrayOK
<1>2. \A g \in Gpio : map[g] = IF g < Len(P) THEN P[g + 1] ELSE NoFunction
  BY DEF ParseDenseArray
<1>3. \A i \in 1 .. Len(P) : P[i] \in Function \cup {NoFunction}
  BY DEF DenseArrayOK
<1>4. \A g \in Gpio : g \in Nat /\ (g < Len(P) => g + 1 \in 1 .. Len(P))
  BY <1>1 DEF Gpio
<1>5. \A g \in Gpio : map[g] \in Function \cup {NoFunction}
  BY <1>2, <1>3, <1>4
<1>6. \A i \in 1 .. Len(P) : i - 1 \in Gpio /\ i - 1 < Len(P) /\ (i - 1) + 1 = i
  BY <1>1 DEF Gpio
<1>7. \A i \in 1 .. Len(P) : map[i - 1] = P[i]
  BY <1>2, <1>6
<1>8. DOMAIN map = Gpio /\ map = [g \in Gpio |-> map[g]]
  BY DEF ParseDenseArray
<1>9. QED
  BY <1>2, <1>4, <1>5, <1>6, <1>7, <1>8

\* The array is good exactly when the parser accepts it and the reverse lookup
\* sees no function twice.
LEMMA PinsRules ==
  ASSUME NEW P, PinList(P), NEW map, map = ParseDenseArray(P)
  PROVE  GoodPins(P) <=> DenseArrayOK(P) /\ \A g \in Gpio : ~Repeats(map, g)
<1>1. Len(P) \in Nat
  BY ListLength DEF PinList
<1>2. \A f : PinAt(P, f) \subseteq 1 .. Len(P) /\ IsFiniteSet(PinAt(P, f))
  <2> SUFFICES ASSUME NEW f PROVE PinAt(P, f) \subseteq 1 .. Len(P) /\ IsFiniteSet(PinAt(P, f))
    OBVIOUS
  <2>1. PinAt(P, f) \subseteq 1 .. Len(P)
    BY DEF PinAt
  <2>2. IsFiniteSet(1 .. Len(P))
    <3>1. 1 \in Int /\ Len(P) \in Int
      BY <1>1
    <3>2. QED
      BY <3>1, FS_Interval
  <2>3. QED
    BY <2>1, <2>2, FS_Subset
<1>3. \A f : Cardinality(PinAt(P, f)) <= 1 <=> \A i, j \in PinAt(P, f) : i = j
  BY <1>2, AtMostOne
<1>4. ASSUME GoodPins(P) PROVE DenseArrayOK(P)
  <2> SUFFICES ASSUME NEW i \in 1 .. Len(P), P[i] # NoFunction
               PROVE  P[i] \in Function /\ AssignmentOK(i - 1, P[i])
    BY <1>4 DEF DenseArrayOK, GoodPins
  <2>1. P[i] \in Function /\ i \in PinAt(P, P[i])
    BY <1>4 DEF GoodPins, PinAt
  <2>2. QED
    BY <1>4, <2>1 DEF GoodPins, AssignmentOK, Usable
<1>5. ASSUME GoodPins(P), NEW g \in Gpio, Repeats(map, g) PROVE FALSE
  <2>1. /\ g \in Nat /\ \A h \in Gpio : map[h] # NoFunction =>
             h + 1 \in 1 .. Len(P) /\ P[h + 1] = map[h]
    BY <1>4, <1>5, ParsedPins DEF Gpio
  <2>2. PICK h \in 0 .. g - 1 : map[h] = map[g] /\ map[g] # NoFunction
    BY <1>5 DEF Repeats
  <2>3. h \in Gpio /\ h \in Nat /\ h + 1 # g + 1
    BY <2>1, <2>2 DEF Gpio
  <2>4. h + 1 \in PinAt(P, map[g]) /\ g + 1 \in PinAt(P, map[g])
    BY <2>1, <2>2, <2>3 DEF PinAt
  <2>5. map[g] \in Function
    BY <1>4, <1>5, <2>2, ParsedPins
  <2>6. QED
    BY <1>3, <1>5, <2>3, <2>4, <2>5 DEF GoodPins
<1>6. ASSUME DenseArrayOK(P), \A g \in Gpio : ~Repeats(map, g) PROVE GoodPins(P)
  <2>1. ASSUME NEW f \in Function, NEW i \in PinAt(P, f), NEW j \in PinAt(P, f), i < j
        PROVE  FALSE
    <3>1. i \in 1 .. Len(P) /\ j \in 1 .. Len(P) /\ P[i] = f /\ P[j] = f /\ i - 1 \in 0 .. (j - 1) - 1
      BY <1>1, <2>1 DEF PinAt
    <3>2. j - 1 \in Gpio /\ map[i - 1] = f /\ map[j - 1] = f
      BY <1>6, <3>1, ParsedPins
    <3>3. Repeats(map, j - 1)
      BY <3>1, <3>2 DEF Repeats
    <3>4. QED
      BY <1>6, <3>2, <3>3
  <2>2. \A f \in Function : \A i, j \in PinAt(P, f) : i \in Nat /\ j \in Nat
    BY <1>1 DEF PinAt
  <2>3. \A f \in Function : Cardinality(PinAt(P, f)) <= 1
    BY <1>3, <2>1, <2>2
  <2>4. ASSUME NEW f \in Function, NEW i \in PinAt(P, f)
        PROVE  /\ {"valid"} \cup Needs[f] \subseteq Caps[i - 1]
               /\ "flash" \notin Caps[i - 1] /\ "psram" \notin Caps[i - 1]
    <3>1. i \in 1 .. Len(P) /\ P[i] = f /\ P[i] # NoFunction
      BY DEF PinAt
    <3>2. QED
      BY <1>6, <3>1 DEF DenseArrayOK, AssignmentOK, Usable
  <2>5. QED
    BY <1>6, <2>3, <2>4 DEF GoodPins, DenseArrayOK
<1>7. QED
  BY <1>4, <1>5, <1>6

(***************************************************************************)
(* The bindings.                                                           *)
(***************************************************************************)
\* Parsing leaves the whole list exactly when every binding passes.
LEMMA ParsesAll ==
  ASSUME NEW q, BindingList(q)
  PROVE  ParseBindings(q) = q <=> \A i \in 1 .. Len(q) : Stores(q, i)
<1>1. Len(q) \in Nat /\ q \in Seq({q[i] : i \in DOMAIN q})
  BY ListLength DEF BindingList, IsList
<1>2. 0 \in Stored(q) /\ Stored(q) \subseteq 0 .. Len(q)
  BY <1>1 DEF Stored
<1>3. \E m \in Stored(q) : \A k \in Stored(q) : k <= m
  BY <1>1, <1>2, Greatest
<1> DEFINE M == CHOOSE n \in Stored(q) : \A m \in Stored(q) : m <= n
<1>4. M \in Stored(q) /\ \A m \in Stored(q) : m <= M
  BY <1>3
<1>5. ParseBindings(q) = SubSeq(q, 1, M)
  BY DEF ParseBindings
<1> HIDE DEF M
<1>6. M \in 0 .. Len(q)
  BY <1>2, <1>4
<1>7. Len(SubSeq(q, 1, M)) = M
  BY <1>1, <1>6
<1>8. ASSUME M = Len(q) PROVE SubSeq(q, 1, M) = q
  BY <1>1, <1>8
<1>9. M = Len(q) <=> \A i \in 1 .. Len(q) : Stores(q, i)
  <2>1. ASSUME \A i \in 1 .. Len(q) : Stores(q, i) PROVE M = Len(q)
    <3>1. Len(q) \in Stored(q)
      BY <1>1, <2>1 DEF Stored
    <3>2. QED
      BY <1>1, <1>4, <1>6, <3>1
  <2>2. ASSUME M = Len(q) PROVE \A i \in 1 .. Len(q) : Stores(q, i)
    BY <1>4, <2>2 DEF Stored
  <2>3. QED
    BY <2>1, <2>2
<1>10. QED
  BY <1>5, <1>7, <1>8, <1>9

\* Room for each binding when it is stored is room for the bindings of a bus.
OnBus(q, bus) == {i \in 1 .. Len(q) : q[i].type \in bus}
Before(q, i)  == {j \in 1 .. i - 1 : SameBus(q[j], q[i])}
Buses         == {I2cType \cap Type, Type \ I2cType}

LEMMA RoomOnBus ==
  ASSUME NEW q, IsList(q), \A i \in 1 .. Len(q) : q[i].type \in Type
  PROVE  (\A i \in 1 .. Len(q) : Cardinality(Before(q, i)) < MaxBindings) <=>
           \A bus \in Buses : Cardinality(OnBus(q, bus)) <= MaxBindings
<1>1. Len(q) \in Nat /\ MaxBindings \in Nat
  BY ListLength
<1>2. \A S \in SUBSET (1 .. Len(q)) : IsFiniteSet(S) /\ Cardinality(S) \in Nat
  <2>1. 1 \in Int /\ Len(q) \in Int
    BY <1>1
  <2>2. IsFiniteSet(1 .. Len(q))
    BY <2>1, FS_Interval
  <2>3. QED
    BY <2>2, FS_Subset, FS_CardinalityType
<1>3. \A i \in 1 .. Len(q) : i \in Nat /\ Before(q, i) \in SUBSET (1 .. Len(q)) /\ i \notin Before(q, i)
  BY <1>1 DEF Before
<1>4. \A i \in 1 .. Len(q) : Cardinality(Before(q, i) \cup {i}) = Cardinality(Before(q, i)) + 1
  BY <1>2, <1>3, FS_AddElement
<1>5. \A i \in 1 .. Len(q), bus \in Buses : q[i].type \in bus =>
        \A j \in 1 .. Len(q) : SameBus(q[j], q[i]) <=> q[j].type \in bus
  BY DEF Buses, SameBus
<1>6. ASSUME \A i \in 1 .. Len(q) : Cardinality(Before(q, i)) < MaxBindings, NEW bus \in Buses
      PROVE  Cardinality(OnBus(q, bus)) <= MaxBindings
  <2>1. CASE OnBus(q, bus) = {}
    BY <1>1, <2>1, FS_EmptySet
  <2>2. CASE OnBus(q, bus) # {}
    <3>1. OnBus(q, bus) \in SUBSET (0 .. Len(q))
      BY <1>1 DEF OnBus
    <3>2. PICK m \in OnBus(q, bus) : \A k \in OnBus(q, bus) : k <= m
      BY <1>1, <2>2, <3>1, Greatest
    <3>3. m \in 1 .. Len(q) /\ q[m].type \in bus
      BY <3>2 DEF OnBus
    <3>4. ASSUME NEW j \in 1 .. Len(q), q[j].type \in bus, j # m PROVE j \in Before(q, m)
      <4>1. j <= m
        BY <3>2, <3>4 DEF OnBus
      <4>2. j \in 1 .. m - 1
        BY <1>1, <3>3, <3>4, <4>1
      <4>3. SameBus(q[j], q[m])
        BY <1>5, <3>3, <3>4
      <4>4. QED
        BY <4>2, <4>3 DEF Before
    <3>5. OnBus(q, bus) \subseteq Before(q, m) \cup {m}
      BY <3>4 DEF OnBus
    <3>6. ASSUME NEW j \in Before(q, m) PROVE j \in OnBus(q, bus)
      <4>1. j \in 1 .. Len(q) /\ SameBus(q[j], q[m])
        BY <1>3, <3>3, <3>6 DEF Before
      <4>2. QED
        BY <1>5, <3>3, <4>1 DEF OnBus
    <3>7. OnBus(q, bus) = Before(q, m) \cup {m}
      BY <3>2, <3>5, <3>6
    <3>8. Cardinality(Before(q, m)) < MaxBindings /\ Cardinality(Before(q, m)) \in Nat
      BY <1>2, <1>3, <1>6, <3>3
    <3>9. QED
      BY <1>1, <1>4, <3>3, <3>7, <3>8
  <2>3. QED
    BY <2>1, <2>2
<1>7. ASSUME \A bus \in Buses : Cardinality(OnBus(q, bus)) <= MaxBindings, NEW i \in 1 .. Len(q)
      PROVE  Cardinality(Before(q, i)) < MaxBindings
  <2>1. PICK bus \in Buses : q[i].type \in bus
    BY DEF Buses
  <2>2. OnBus(q, bus) \in SUBSET (1 .. Len(q))
    BY DEF OnBus
  <2>3. Before(q, i) \cup {i} \subseteq OnBus(q, bus)
    <3>1. \A j \in Before(q, i) : j \in 1 .. Len(q) /\ SameBus(q[j], q[i])
      BY <1>3 DEF Before
    <3>2. QED
      BY <1>5, <2>1, <3>1 DEF OnBus
  <2>4. Cardinality(Before(q, i) \cup {i}) <= Cardinality(OnBus(q, bus))
    BY <1>2, <2>2, <2>3, FS_Subset
  <2>5. Cardinality(OnBus(q, bus)) <= MaxBindings
    BY <1>7, <2>1
  <2>6. Cardinality(OnBus(q, bus)) \in Nat /\ Cardinality(Before(q, i)) \in Nat
    BY <1>2, <1>3, <2>2
  <2>7. QED
    BY <1>1, <1>4, <2>4, <2>5, <2>6
<1>8. QED
  BY <1>6, <1>7

\* No helper pin of a binding has a function or serves twice.
HelperRules(P, B) ==
  \A x, y \in Helpers(B) :
    LET g == B[x[1]].helpers[x[2]] IN
    /\ g < GpioCount /\ {"valid", "out"} \subseteq Caps[g]
    /\ "flash" \notin Caps[g] /\ "psram" \notin Caps[g]
    /\ g >= Len(P) \/ P[g + 1] = NoFunction
    /\ g = B[y[1]].helpers[y[2]] => x = y
HelperChecks(map, B) ==
  \A i \in 1 .. Len(B) :
    /\ B[i].type \in I2cType \/ \A h \in 1 .. Len(B[i].helpers) : HelperOK(B[i].helpers[h])
    /\ HelpersFree(map, B, i)

LEMMA HelperFacts ==
  ASSUME NEW B, BindingList(B)
  PROVE  /\ Len(B) \in Nat
         /\ \A i \in 1 .. Len(B) :
              /\ Len(B[i].helpers) \in Nat
              /\ \A a \in 1 .. Len(B[i].helpers) : B[i].helpers[a] \in Int /\ B[i].type \notin I2cType
         /\ \A i, a : <<i, a>> \in Helpers(B) <=>
              i \in 1 .. Len(B) /\ a \in 1 .. Len(B[i].helpers) /\ B[i].helpers[a] >= 0
         /\ \A x \in Helpers(B) : x = <<x[1], x[2]>>
<1>1. Len(B) \in Nat /\ DOMAIN B = 1 .. Len(B)
  BY ListLength DEF BindingList
<1>2. ASSUME NEW i \in 1 .. Len(B)
      PROVE  /\ Len(B[i].helpers) \in Nat
             /\ \A a \in 1 .. Len(B[i].helpers) : B[i].helpers[a] \in Int /\ B[i].type \notin I2cType
  <2>1. B[i].helpers \in Seq(Int) /\ (B[i].type \in I2cType => B[i].helpers = <<>>)
    BY <1>1, <1>2 DEF BindingList
  <2>2. Len(<<>>) = 0
    OBVIOUS
  <2>3. QED
    BY <2>1, <2>2
<1>3. ASSUME NEW i, NEW a
      PROVE  <<i, a>> \in Helpers(B) <=>
               i \in 1 .. Len(B) /\ a \in 1 .. Len(B[i].helpers) /\ B[i].helpers[a] >= 0
  BY <1>2 DEF Helpers
<1>4. \A x \in Helpers(B) : x = <<x[1], x[2]>>
  BY DEF Helpers
<1>5. QED
  BY <1>1, <1>2, <1>3, <1>4

\* Together the parser's and the validator's checks are the rules.
LEMMA HelpersRules ==
  ASSUME NEW P, PinList(P), DenseArrayOK(P), NEW map, map = ParseDenseArray(P),
         NEW B, BindingList(B)
  PROVE  HelperRules(P, B) <=> HelperChecks(map, B)
<1>1. Len(P) \in Nat /\ Len(P) <= GpioCount /\ GpioCount \in Nat
  BY ListLength DEF PinList, DenseArrayOK
<1>2. \A g \in Gpio : map[g] = IF g < Len(P) THEN P[g + 1] ELSE NoFunction
  BY DEF ParseDenseArray
<1>3. \A g \in Int : g >= 0 /\ g < GpioCount =>
        g \in Gpio /\ (map[g] = NoFunction <=> g >= Len(P) \/ P[g + 1] = NoFunction)
  BY <1>1, <1>2 DEF Gpio
<1>4. ASSUME HelperRules(P, B), NEW i \in 1 .. Len(B)
      PROVE  /\ B[i].type \in I2cType \/ \A h \in 1 .. Len(B[i].helpers) : HelperOK(B[i].helpers[h])
             /\ HelpersFree(map, B, i)
  <2>1. ASSUME NEW a \in 1 .. Len(B[i].helpers), B[i].helpers[a] >= 0
        PROVE  /\ B[i].helpers[a] \in Int /\ B[i].helpers[a] < GpioCount
               /\ Usable(B[i].helpers[a]) /\ "out" \in Caps[B[i].helpers[a]]
               /\ B[i].helpers[a] >= Len(P) \/ P[B[i].helpers[a] + 1] = NoFunction
               /\ \A y \in Helpers(B) : B[i].helpers[a] = B[y[1]].helpers[y[2]] => <<i, a>> = y
    <3>1. <<i, a>> \in Helpers(B)
      BY <2>1, HelperFacts
    <3>2. B[i].helpers[a] \in Int
      BY <2>1, HelperFacts
    <3>3. <<i, a>>[1] = i /\ <<i, a>>[2] = a
      OBVIOUS
    <3>4. QED
      BY <1>4, <3>1, <3>2, <3>3 DEF HelperRules, Usable
  <2>2. \A h \in 1 .. Len(B[i].helpers) : HelperOK(B[i].helpers[h])
    <3> SUFFICES ASSUME NEW h \in 1 .. Len(B[i].helpers) PROVE HelperOK(B[i].helpers[h])
      OBVIOUS
    <3>1. B[i].helpers[h] \in Int
      BY HelperFacts
    <3>2. B[i].helpers[h] < 0 \/ B[i].helpers[h] >= 0
      BY <3>1
    <3>3. QED
      BY <2>1, <3>2 DEF HelperOK
  <2>3. ASSUME NEW a \in 1 .. Len(B[i].helpers), B[i].helpers[a] >= 0,
               NEW j \in 1 .. Len(B), NEW b \in 1 .. Len(B[j].helpers),
               B[j].helpers[b] = B[i].helpers[a]
        PROVE  i = j /\ a = b
    <3>1. <<j, b>> \in Helpers(B)
      BY <2>3, HelperFacts
    <3>2. <<j, b>>[1] = j /\ <<j, b>>[2] = b
      OBVIOUS
    <3>3. <<i, a>> = <<j, b>>
      BY <2>1, <2>3, <3>1, <3>2
    <3>4. QED
      BY <3>3
  <2>4. ASSUME NEW a \in 1 .. Len(B[i].helpers), B[i].helpers[a] >= 0
        PROVE  /\ map[B[i].helpers[a]] = NoFunction
               /\ \A b \in 1 .. a - 1 : B[i].helpers[b] # B[i].helpers[a]
               /\ \A j \in 1 .. i - 1 : \A b \in 1 .. Len(B[j].helpers) :
                    B[j].helpers[b] # B[i].helpers[a]
    <3>1. map[B[i].helpers[a]] = NoFunction
      BY <1>3, <2>1, <2>4
    <3>2. \A b \in 1 .. a - 1 : b \in 1 .. Len(B[i].helpers) /\ b # a
      BY HelperFacts
    <3>3. \A j \in 1 .. i - 1 : j \in 1 .. Len(B) /\ j # i
      BY HelperFacts
    <3>4. QED
      BY <2>3, <2>4, <3>1, <3>2, <3>3
  <2>5. HelpersFree(map, B, i)
    BY <2>4 DEF HelpersFree
  <2>6. QED
    BY <2>2, <2>5
<1>5. ASSUME HelperChecks(map, B), NEW x \in Helpers(B), NEW y \in Helpers(B)
      PROVE  LET g == B[x[1]].helpers[x[2]] IN
             /\ g < GpioCount /\ {"valid", "out"} \subseteq Caps[g]
             /\ "flash" \notin Caps[g] /\ "psram" \notin Caps[g]
             /\ g >= Len(P) \/ P[g + 1] = NoFunction
             /\ g = B[y[1]].helpers[y[2]] => x = y
  <2>1. PICK i, a : i = x[1] /\ a = x[2]
    OBVIOUS
  <2>2. PICK j, b : j = y[1] /\ b = y[2]
    OBVIOUS
  <2>3. x = <<i, a>> /\ y = <<j, b>>
    BY <2>1, <2>2, HelperFacts
  <2>4. /\ i \in 1 .. Len(B) /\ a \in 1 .. Len(B[i].helpers) /\ B[i].helpers[a] >= 0
        /\ j \in 1 .. Len(B) /\ b \in 1 .. Len(B[j].helpers) /\ B[j].helpers[b] >= 0
    BY <2>3, HelperFacts
  <2>5. B[i].helpers[a] \in Int /\ B[i].type \notin I2cType
    BY <2>4, HelperFacts
  <2>6. HelperOK(B[i].helpers[a]) /\ map[B[i].helpers[a]] = NoFunction
    BY <1>5, <2>4, <2>5 DEF HelperChecks, HelpersFree
  <2>7. /\ B[i].helpers[a] < GpioCount /\ {"valid", "out"} \subseteq Caps[B[i].helpers[a]]
        /\ "flash" \notin Caps[B[i].helpers[a]] /\ "psram" \notin Caps[B[i].helpers[a]]
    BY <2>4, <2>5, <2>6 DEF HelperOK, Usable
  <2>8. B[i].helpers[a] >= Len(P) \/ P[B[i].helpers[a] + 1] = NoFunction
    BY <1>3, <2>4, <2>5, <2>6, <2>7
  <2>9. ASSUME B[i].helpers[a] = B[j].helpers[b] PROVE x = y
    <3>1. /\ i \in Nat /\ j \in Nat /\ a \in Nat /\ b \in Nat
          /\ i < j => i \in 1 .. j - 1
          /\ j < i => j \in 1 .. i - 1
          /\ i = j /\ a < b => a \in 1 .. b - 1
          /\ i = j /\ b < a => b \in 1 .. a - 1
      BY <2>4, HelperFacts, SMTT(20)
    <3>2. HelpersFree(map, B, i) /\ HelpersFree(map, B, j)
      BY <1>5, <2>4 DEF HelperChecks
    <3>3. CASE i < j
      BY <2>4, <2>9, <3>1, <3>2, <3>3 DEF HelpersFree
    <3>4. CASE j < i
      BY <2>4, <2>9, <3>1, <3>2, <3>4 DEF HelpersFree
    <3>5. CASE i = j /\ a < b
      BY <2>4, <2>9, <3>1, <3>2, <3>5 DEF HelpersFree
    <3>6. CASE i = j /\ b < a
      BY <2>4, <2>9, <3>1, <3>2, <3>6 DEF HelpersFree
    <3>7. CASE i = j /\ a = b
      BY <2>3, <3>7
    <3>8. QED
      BY <3>1, <3>3, <3>4, <3>5, <3>6, <3>7
  <2>10. QED
    BY <2>1, <2>2, <2>7, <2>8, <2>9
<1>6. HelperRules(P, B) => HelperChecks(map, B)
  BY <1>4 DEF HelperChecks
<1>7. HelperChecks(map, B) => HelperRules(P, B)
  BY <1>5 DEF HelperRules
<1>8. QED
  BY <1>6, <1>7

\* The rest of the rules for bindings, and of the checks.
BindingRules(P, B) ==
  /\ \A i \in 1 .. Len(B) :
       /\ B[i].type \in Type
       /\ B[i].port \in DOMAIN PortPins[B[i].type]
       /\ \A f \in PortPins[B[i].type][B[i].port] : PinAt(P, f) # {}
  /\ \A i, j \in 1 .. Len(B) :
       B[i].type = B[j].type /\ B[i].instance = B[j].instance => i = j
  /\ \A bus \in Buses : Cardinality(OnBus(B, bus)) <= MaxBindings
BindingChecks(map, B) ==
  \A i \in 1 .. Len(B) :
    /\ B[i].type \in Type
    /\ B[i].port \in DOMAIN PortPins[B[i].type]
    /\ \A f \in PortPins[B[i].type][B[i].port] : \E g \in Gpio : map[g] = f
    /\ \A j \in 1 .. i - 1 : <<B[j].type, B[j].instance>> # <<B[i].type, B[i].instance>>
    /\ Cardinality(Before(B, i)) < MaxBindings

LEMMA PinIsMapped ==
  ASSUME NEW P, PinList(P), DenseArrayOK(P), NEW map, map = ParseDenseArray(P),
         NEW f \in Function
  PROVE  PinAt(P, f) # {} <=> \E g \in Gpio : map[g] = f
<1>1. f # NoFunction
  OBVIOUS
<1>2. ASSUME NEW i \in PinAt(P, f) PROVE i - 1 \in Gpio /\ map[i - 1] = f
  BY <1>2, ParsedPins DEF PinAt
<1>3. ASSUME NEW g \in Gpio, map[g] = f PROVE g + 1 \in PinAt(P, f)
  BY <1>1, <1>3, ParsedPins DEF PinAt
<1>4. QED
  BY <1>2, <1>3

LEMMA BindingChecksAreRules ==
  ASSUME NEW P, PinList(P), DenseArrayOK(P), NEW map, map = ParseDenseArray(P),
         NEW B, BindingList(B)
  PROVE  BindingRules(P, B) <=> BindingChecks(map, B)
<1>1. Len(B) \in Nat /\ IsList(B)
  BY HelperFacts DEF BindingList
<1>2. \A i \in 1 .. Len(B) : B[i].type \in Type /\ B[i].port \in DOMAIN PortPins[B[i].type] =>
        \A f \in PortPins[B[i].type][B[i].port] : PinAt(P, f) # {} <=> \E g \in Gpio : map[g] = f
  BY PinIsMapped
<1>3. (\A i \in 1 .. Len(B) : B[i].type \in Type) =>
        ((\A i \in 1 .. Len(B) : Cardinality(Before(B, i)) < MaxBindings) <=>
           \A bus \in Buses : Cardinality(OnBus(B, bus)) <= MaxBindings)
  BY <1>1, RoomOnBus
<1>4. (\A i, j \in 1 .. Len(B) :
         B[i].type = B[j].type /\ B[i].instance = B[j].instance => i = j) <=>
      \A i \in 1 .. Len(B) : \A j \in 1 .. i - 1 :
        <<B[j].type, B[j].instance>> # <<B[i].type, B[i].instance>>
  <2>1. ASSUME \A i, j \in 1 .. Len(B) :
                 B[i].type = B[j].type /\ B[i].instance = B[j].instance => i = j,
               NEW i \in 1 .. Len(B), NEW j \in 1 .. i - 1
        PROVE  <<B[j].type, B[j].instance>> # <<B[i].type, B[i].instance>>
    <3>1. j \in 1 .. Len(B) /\ j # i
      BY <1>1
    <3>2. QED
      BY <2>1, <3>1
  <2>2. ASSUME \A i \in 1 .. Len(B) : \A j \in 1 .. i - 1 :
                 <<B[j].type, B[j].instance>> # <<B[i].type, B[i].instance>>,
               NEW i \in 1 .. Len(B), NEW j \in 1 .. Len(B),
               B[i].type = B[j].type, B[i].instance = B[j].instance
        PROVE  i = j
    <3>1. ~(j \in 1 .. i - 1) /\ ~(i \in 1 .. j - 1)
      BY <2>2
    <3>2. QED
      BY <1>1, <3>1
  <2>3. QED
    BY <2>1, <2>2
<1>5. ASSUME BindingRules(P, B) PROVE BindingChecks(map, B)
  <2>1. \A i \in 1 .. Len(B) : B[i].type \in Type /\ B[i].port \in DOMAIN PortPins[B[i].type]
    BY <1>5 DEF BindingRules
  <2>2. \A i \in 1 .. Len(B) : Cardinality(Before(B, i)) < MaxBindings
    BY <1>3, <1>5, <2>1 DEF BindingRules
  <2>3. \A i \in 1 .. Len(B) : \A f \in PortPins[B[i].type][B[i].port] : \E g \in Gpio : map[g] = f
    BY <1>2, <1>5, <2>1 DEF BindingRules
  <2>4. \A i \in 1 .. Len(B) : \A j \in 1 .. i - 1 :
          <<B[j].type, B[j].instance>> # <<B[i].type, B[i].instance>>
    BY <1>4, <1>5 DEF BindingRules
  <2>5. QED
    BY <2>1, <2>2, <2>3, <2>4 DEF BindingChecks
<1>6. ASSUME BindingChecks(map, B) PROVE BindingRules(P, B)
  <2>1. \A i \in 1 .. Len(B) : B[i].type \in Type /\ B[i].port \in DOMAIN PortPins[B[i].type]
    BY <1>6 DEF BindingChecks
  <2>2. \A bus \in Buses : Cardinality(OnBus(B, bus)) <= MaxBindings
    BY <1>3, <1>6, <2>1 DEF BindingChecks
  <2>3. \A i \in 1 .. Len(B) : \A f \in PortPins[B[i].type][B[i].port] : PinAt(P, f) # {}
    BY <1>2, <1>6, <2>1 DEF BindingChecks
  <2>4. \A i, j \in 1 .. Len(B) :
          B[i].type = B[j].type /\ B[i].instance = B[j].instance => i = j
    BY <1>4, <1>6 DEF BindingChecks
  <2>5. QED
    BY <2>1, <2>2, <2>3, <2>4 DEF BindingRules
<1>7. QED
  BY <1>5, <1>6

\* Bindings are good for a layout exactly when the parser stores them all and
\* the validator finds them in the table of functions.
LEMMA BindingsRules ==
  ASSUME NEW P, PinList(P), DenseArrayOK(P), NEW map, map = ParseDenseArray(P),
         NEW B, BindingList(B)
  PROVE  GoodBindings(P, B) <=> ParseBindings(B) = B /\ MatchesPinmap(map, B)
<1>1. GoodBindings(P, B) <=> BindingRules(P, B) /\ HelperRules(P, B)
  <2>1. Buses \subseteq SUBSET Type
    BY DEF Buses
  <2>2. (\A bus \in SUBSET Type :
           bus \in {I2cType \cap Type, Type \ I2cType} =>
             Cardinality({i \in 1 .. Len(B) : B[i].type \in bus}) <= MaxBindings)
        <=> \A bus \in Buses : Cardinality(OnBus(B, bus)) <= MaxBindings
    BY <2>1 DEF Buses, OnBus
  <2>3. (\A b \in {B[i] : i \in 1 .. Len(B)} :
           /\ b.type \in Type
           /\ b.port \in DOMAIN PortPins[b.type]
           /\ \A f \in PortPins[b.type][b.port] : PinAt(P, f) # {})
        <=> \A i \in 1 .. Len(B) :
              /\ B[i].type \in Type
              /\ B[i].port \in DOMAIN PortPins[B[i].type]
              /\ \A f \in PortPins[B[i].type][B[i].port] : PinAt(P, f) # {}
    OBVIOUS
  <2>4. QED
    BY <2>2, <2>3 DEF GoodBindings, BindingRules, HelperRules
<1>2. ParseBindings(B) = B /\ MatchesPinmap(map, B) <=> BindingChecks(map, B) /\ HelperChecks(map, B)
  <2>1. \A i \in 1 .. Len(B) : Stores(B, i) <=>
          /\ B[i].type \in Type /\ Cardinality(Before(B, i)) < MaxBindings
          /\ \A j \in 1 .. i - 1 : <<B[j].type, B[j].instance>> # <<B[i].type, B[i].instance>>
          /\ B[i].type \in I2cType \/ \A h \in 1 .. Len(B[i].helpers) : HelperOK(B[i].helpers[h])
    BY DEF Stores, Before
  <2>2. ParseBindings(B) = B <=> \A i \in 1 .. Len(B) : Stores(B, i)
    BY ParsesAll
  <2>3. QED
    BY <2>1, <2>2 DEF MatchesPinmap, BindingChecks, HelperChecks
<1>3. BindingRules(P, B) <=> BindingChecks(map, B)
  BY BindingChecksAreRules
<1>4. HelperRules(P, B) <=> HelperChecks(map, B)
  BY HelpersRules
<1>5. QED
  BY <1>1, <1>2, <1>3, <1>4

\* When no function repeats, the reverse lookup is the inverse of the table.
LEMMA ReverseIsInverse ==
  ASSUME NEW map, \A g \in Gpio : ~Repeats(map, g), NEW f \in Function
  PROVE  /\ \A g \in Gpio : ReverseLookup(map)[f] = g <=> map[g] = f
         /\ ReverseLookup(map)[f] = NoGpio <=> \A g \in Gpio : map[g] # f
<1> DEFINE found == {g \in Gpio : map[g] = f /\ \A h \in 0 .. g : ~Repeats(map, h)}
<1>1. ReverseLookup(map)[f] = IF found = {} THEN NoGpio ELSE CHOOSE g \in found : TRUE
  BY DEF ReverseLookup
<1>2. \A g \in Gpio : \A h \in 0 .. g : h \in Gpio
  BY DEF Gpio
<1>3. \A g : g \in found <=> g \in Gpio /\ map[g] = f
  BY <1>2
<1>4. ASSUME NEW g \in Gpio, NEW h \in Gpio, map[g] = f, map[h] = f, g < h PROVE FALSE
  <2>1. g \in 0 .. h - 1
    BY <1>4 DEF Gpio
  <2>2. map[h] # NoFunction
    BY <1>4
  <2>3. QED
    BY <1>4, <2>1, <2>2 DEF Repeats
<1>5. \A g, h \in Gpio : map[g] = f /\ map[h] = f => g = h
  <2>1. \A g, h \in Gpio : g < h \/ h < g \/ g = h
    BY DEF Gpio
  <2>2. QED
    BY <1>4, <2>1
<1>6. NoGpio \notin Gpio
  BY DEF Gpio, NoGpio
<1> HIDE DEF found
<1>7. found # {} => (CHOOSE g \in found : TRUE) \in found
  OBVIOUS
<1>8. QED
  BY <1>1, <1>3, <1>5, <1>6, <1>7

(***************************************************************************)
(* Every step keeps the invariant.                                         *)
(***************************************************************************)
LEMMA IdleIsRecord == TaskRecord(Idle) /\ Idle.pc = "idle" /\ Idle.verdict = "none" /\ Tables(Cleared)
BY DEF TaskRecord, Idle, Cleared, None, Tables, Layout, Pc

\* A step of the validator only has to be followed at the validator: the other
\* tasks are idle.
LEMMA OnlyValidator ==
  ASSUME OneValidator, Inv, NEW t \in Validator, edits' = edits, config' = config,
         Tables(tables'), NEW s, task' = [task EXCEPT ![t] = s],
         TaskRecord(s), s.since <= edits,
         ReadOK(t)', VerdictOK(t)', TablesAt(t)',
         s.pc \notin Stage => Served'
  PROVE  Inv'
<1>1. t \in Task /\ DOMAIN task = Task
  BY DEF Inv, TasksOK
<1>2. task'[t] = s /\ DOMAIN task' = Task /\ \A u \in Task : u # t => task'[u] = task[u]
  BY <1>1
<1>3. \A u \in Task : u # t => u \notin Validator /\ task[u] = Idle /\ task'[u] = Idle
  BY <1>2 DEF OneValidator, Inv, TasksOK
<1>4. ConfigOK'
  BY DEF Inv, ConfigOK
<1>5. TasksOK'
  <2>1. \A u \in Task : TaskRecord(task'[u]) /\ task'[u].since <= edits
    BY <1>2 DEF Inv, TasksOK
  <2>2. \A u \in Task : u \notin Validator => task'[u] = Idle
    BY <1>3
  <2>3. QED
    BY <1>2, <2>1, <2>2 DEF Inv, TasksOK
<1>6. ASSUME NEW u \in Task, u # t PROVE ReadOK(u)' /\ VerdictOK(u)' /\ TablesAt(u)'
  <2>1. task'[u] = Idle /\ task'[u].pc = "idle" /\ task'[u].verdict = "none"
    BY <1>3, <1>6, IdleIsRecord
  <2>2. ReadOK(u)'
    BY <2>1 DEF ReadOK, HasPins, HasBindings, Stage
  <2>3. VerdictOK(u)'
    BY <2>1 DEF VerdictOK
  <2>4. TablesAt(u)'
    BY <2>1 DEF TablesAt, Stage
  <2>5. QED
    BY <2>2, <2>3, <2>4
<1>7. TablesOK'
  <2>1. \A u \in Task : TablesAt(u)'
    BY <1>6
  <2>2. (\A u \in Task : task'[u].pc \notin Stage) => Served'
    BY <1>1, <1>2
  <2>3. QED
    BY <2>1, <2>2 DEF TablesOK
<1>8. QED
  BY <1>4, <1>5, <1>6, <1>7 DEF Inv

\* What is known of a validator's record before its step.
LEMMA AtTask ==
  ASSUME Inv, NEW t \in Task
  PROVE  /\ DOMAIN task = Task /\ edits \in Nat /\ TaskRecord(task[t]) /\ Tables(tables)
         /\ task[t].since <= edits /\ ReadOK(t) /\ VerdictOK(t) /\ TablesAt(t)
BY DEF Inv, TasksOK, TablesOK

\* PinmapInit returns in one of two ways.
LEMMA FinishRecord ==
  ASSUME Inv, NEW t \in Task, NEW v \in {"accepted", "rejected", "failed"}, Finish(t, v)
  PROVE  \E s : /\ task' = [task EXCEPT ![t] = s] /\ TaskRecord(s)
                /\ s.since = task[t].since /\ s.verdict = v /\ s.op = task[t].op
                /\ s.saved = task[t].saved /\ s.used = task[t].used
                /\ s.pc = IF task[t].op = "validate" /\ v # "accepted" THEN "restore" ELSE "return"
<1> DEFINE s == [task[t] EXCEPT !.verdict = v,
                                !.pc = IF task[t].op = "validate" /\ v # "accepted"
                                       THEN "restore" ELSE "return"]
<1>1. TaskRecord(task[t]) /\ DOMAIN task = Task
  BY AtTask
<1>2. task' = [task EXCEPT ![t] = s]
  BY <1>1 DEF Finish
<1>3. DOMAIN s = DOMAIN task[t] /\ s.since = task[t].since /\ s.verdict = v /\ s.op = task[t].op
      /\ s.saved = task[t].saved /\ s.used = task[t].used
      /\ s.pc = IF task[t].op = "validate" /\ v # "accepted" THEN "restore" ELSE "return"
  BY <1>1 DEF TaskRecord
<1> HIDE DEF s
<1>4. TaskRecord(s)
  BY <1>1, <1>3 DEF TaskRecord, Pc, Stage
<1>5. QED
  BY <1>2, <1>3, <1>4

\* A rejection keeps the invariant when the layout is bad, or was edited since.
LEMMA Rejects ==
  ASSUME OneValidator, Inv, NEW t \in Validator, Finish(t, "rejected"),
         task[t].pc \in Stage \ {"reset", "restore"},
         UNCHANGED <<config, hxReady, accepted, edits>>,
         Tables(tables'), tables'.ready = tables.ready,
         edits = task[t].since => ~Good(config)
  PROVE  Inv'
<1>1. t \in Task
  OBVIOUS
<1>2. PICK s : /\ task' = [task EXCEPT ![t] = s] /\ TaskRecord(s)
               /\ s.since = task[t].since /\ s.verdict = "rejected" /\ s.op = task[t].op
               /\ s.saved = task[t].saved /\ s.used = task[t].used
               /\ s.pc = IF task[t].op = "validate" THEN "restore" ELSE "return"
  BY <1>1, FinishRecord
<1>3. task'[t] = s
  BY <1>1, <1>2, AtTask
<1>4. ReadOK(t)'
  BY <1>2, <1>3 DEF ReadOK, HasPins, HasBindings, Stage
<1>5. VerdictOK(t)'
  <2>1. ~Good(config)' \/ edits # task[t].since
    BY DEF Good
  <2>2. QED
    BY <1>2, <1>3, <2>1 DEF VerdictOK
<1>6. tables.ready = FALSE /\ hxReady = FALSE
  BY <1>1, AtTask DEF TablesAt, Stage
<1>7. TablesAt(t)'
  <2>1. s.pc \in Stage => s.op = "validate" /\ Answers(s.saved, accepted)
    BY <1>1, <1>2, AtTask DEF TablesAt, Stage
  <2>2. QED
    BY <1>3, <1>6, <2>1 DEF TablesAt
<1>8. s.pc \notin Stage => Served'
  <2>1. s.pc \notin Stage => accepted = None
    BY <1>1, <1>2, AtTask DEF TablesAt, Stage
  <2>2. QED
    BY <1>6, <2>1 DEF Served, Answers
<1>9. s.since <= edits
  BY <1>1, <1>2, AtTask
<1>10. QED
  BY <1>2, <1>4, <1>5, <1>7, <1>8, <1>9, OnlyValidator

\* A task that gets further in the call without returning.
LEMMA Advances ==
  ASSUME OneValidator, Inv, NEW t \in Validator, NEW s, task' = [task EXCEPT ![t] = s],
         TaskRecord(s), s.op = task[t].op, s.saved = task[t].saved,
         s.since = task[t].since, s.verdict = "none",
         s.pc \in Stage \ {"reset", "restore"}, task[t].pc \in Stage \ {"restore"},
         UNCHANGED <<config, accepted, edits>>,
         Tables(tables'), tables'.ready = FALSE, hxReady' = FALSE,
         ReadOK(t)'
  PROVE  Inv'
<1>1. t \in Task
  OBVIOUS
<1>2. task'[t] = s
  BY <1>1, AtTask
<1>3. VerdictOK(t)'
  BY <1>2 DEF VerdictOK
<1>4. TablesAt(t)'
  BY <1>1, <1>2, AtTask DEF TablesAt
<1>5. s.since <= edits
  BY <1>1, AtTask
<1>6. QED
  BY <1>3, <1>4, <1>5, OnlyValidator

LEMMA CaptureKeeps ==
  ASSUME OneValidator, Inv, NEW t \in Validator, Capture(t)
  PROVE  Inv'
<1>1. t \in Task
  OBVIOUS
<1>2. PICK s : s = [Idle EXCEPT !.pc = "reset", !.op = "validate", !.saved = tables, !.since = edits]
  OBVIOUS
<1>3. task' = [task EXCEPT ![t] = s] /\ UNCHANGED <<config, tables, hxReady, accepted, edits>>
  BY <1>2 DEF Capture
<1>4. /\ DOMAIN s = DOMAIN Idle /\ s.pc = "reset" /\ s.op = "validate" /\ s.saved = tables
      /\ s.since = edits /\ s.verdict = "none" /\ s.used = None
  BY <1>2 DEF Idle
<1>5. TaskRecord(s)
  <2>1. Tables(tables) /\ edits \in Nat
    BY <1>1, AtTask
  <2>2. Layout(None)
    BY DEF Layout, None
  <2>3. QED
    BY <1>4, <2>1, <2>2 DEF TaskRecord, Idle, Pc, Stage
<1>6. task'[t] = s
  BY <1>1, <1>3, AtTask
<1>7. ReadOK(t)'
  BY <1>4, <1>6 DEF ReadOK, HasPins, HasBindings
<1>8. VerdictOK(t)'
  BY <1>4, <1>6 DEF VerdictOK
<1>9. Served
  <2>1. \A u \in Task : task[u].pc = "idle"
    <3>1. \A u \in Task : u # t => task[u] = Idle
      BY DEF Inv, TasksOK, OneValidator
    <3>2. QED
      BY <3>1, IdleIsRecord DEF Capture, At
  <2>2. QED
    BY <2>1 DEF Inv, TablesOK, Stage
<1>10. TablesAt(t)'
  BY <1>3, <1>4, <1>6, <1>9 DEF TablesAt, Served
<1>11. s.since <= edits /\ s.pc \in Stage /\ Tables(tables')
  BY <1>1, <1>3, <1>4, AtTask DEF Stage
<1>12. QED
  BY <1>3, <1>5, <1>7, <1>8, <1>10, <1>11, OnlyValidator

LEMMA ResetKeeps ==
  ASSUME OneValidator, Inv, NEW t \in Validator, ResetState(t)
  PROVE  Inv'
<1>1. t \in Task /\ TaskRecord(task[t]) /\ task[t].pc = "reset" /\ task[t].verdict = "none"
  BY AtTask DEF ResetState, At, ReadOK, Stage
<1>2. PICK s : s = [task[t] EXCEPT !.pc = "pins"]
  OBVIOUS
<1>3. task' = [task EXCEPT ![t] = s] /\ UNCHANGED <<config, accepted, edits>>
  BY <1>1, <1>2 DEF ResetState
<1>4. /\ DOMAIN s = DOMAIN task[t] /\ s.pc = "pins" /\ s.op = task[t].op /\ s.saved = task[t].saved
      /\ s.since = task[t].since /\ s.verdict = "none" /\ s.used = task[t].used
  BY <1>1, <1>2 DEF TaskRecord
<1>5. TaskRecord(s)
  BY <1>1, <1>4 DEF TaskRecord, Pc, Stage
<1>6. task'[t] = s
  BY <1>1, <1>3, AtTask
<1>7. ReadOK(t)'
  BY <1>4, <1>6 DEF ReadOK, HasPins, HasBindings
<1>8. Tables(tables') /\ tables'.ready = FALSE /\ hxReady' = FALSE
  BY IdleIsRecord DEF ResetState, Cleared
<1>9. s.pc \in Stage \ {"reset", "restore"} /\ task[t].pc \in Stage \ {"restore"}
  BY <1>1, <1>4 DEF Stage
<1>10. QED
  BY <1>3, <1>4, <1>5, <1>7, <1>8, <1>9, Advances

LEMMA ParsePinsKeeps ==
  ASSUME OneValidator, Inv, NEW t \in Validator, ParsePins(t)
  PROVE  Inv'
<1>1. /\ t \in Task /\ TaskRecord(task[t]) /\ task[t].pc = "pins" /\ task[t].verdict = "none"
      /\ Tables(tables) /\ tables.ready = FALSE /\ hxReady = FALSE
      /\ task[t].pc \in Stage \ {"reset", "restore"}
  BY AtTask DEF ParsePins, At, ReadOK, TablesAt, Stage
<1>2. UNCHANGED <<config, tables, hxReady, accepted, edits>>
  BY DEF ParsePins
<1>3. PinList(config.pins.list) /\ config.pins.ok \in BOOLEAN
  BY DEF Inv, ConfigOK
<1>4. CASE (~config.pins.ok \/ ~DenseArrayOK(config.pins.list)) /\ Finish(t, "rejected")
  <2>1. ~Good(config)
    BY <1>3, <1>4, PinsRules DEF Good
  <2>2. QED
    BY <1>1, <1>2, <1>4, <2>1, Rejects
<1>5. CASE /\ config.pins.ok /\ DenseArrayOK(config.pins.list)
           /\ task' = [task EXCEPT ![t].pc = "reverse", ![t].used.pins = config.pins,
                                   ![t].next = ParseDenseArray(config.pins.list)]
  <2>1. PICK s : s = [task[t] EXCEPT !.pc = "reverse", !.used.pins = config.pins,
                                     !.next = ParseDenseArray(config.pins.list)]
    OBVIOUS
  <2>2. task' = [task EXCEPT ![t] = s]
    BY <1>1, <1>5, <2>1, AtTask DEF TaskRecord
  <2>3. /\ DOMAIN s = DOMAIN task[t] /\ s.pc = "reverse" /\ s.op = task[t].op
        /\ s.saved = task[t].saved /\ s.since = task[t].since /\ s.verdict = "none"
        /\ s.next = ParseDenseArray(config.pins.list)
        /\ s.used = [task[t].used EXCEPT !.pins = config.pins]
    BY <1>1, <2>1 DEF TaskRecord
  <2>4. Layout(s.used) /\ s.used.pins = config.pins
    BY <1>1, <2>3 DEF TaskRecord, Layout
  <2>5. TaskRecord(s)
    BY <1>1, <2>3, <2>4 DEF TaskRecord, Pc, Stage
  <2>6. task'[t] = s
    BY <1>1, <2>2, AtTask
  <2>7. ReadOK(t)'
    BY <1>2, <1>3, <1>5, <2>3, <2>4, <2>6 DEF ReadOK, HasPins, HasBindings
  <2>8. s.pc \in Stage \ {"reset", "restore"}
    BY <2>3 DEF Stage
  <2>9. QED
    BY <1>1, <1>2, <2>2, <2>3, <2>5, <2>7, <2>8, Advances
<1>6. QED
  BY <1>4, <1>5 DEF ParsePins

LEMMA ReverseKeeps ==
  ASSUME OneValidator, Inv, NEW t \in Validator, BuildReverseLookup(t)
  PROVE  Inv'
<1>1. /\ t \in Task /\ TaskRecord(task[t]) /\ task[t].pc = "reverse" /\ task[t].verdict = "none"
      /\ Tables(tables) /\ tables.ready = FALSE /\ hxReady = FALSE
      /\ task[t].pc \in Stage \ {"reset", "restore"}
  BY AtTask DEF BuildReverseLookup, At, ReadOK, TablesAt, Stage
<1>2. UNCHANGED <<config, hxReady, accepted, edits>>
  BY DEF BuildReverseLookup
<1>3. /\ Tables(tables') /\ tables'.ready = FALSE
      /\ tables'.gpio = ReverseLookup(task[t].next)
  BY <1>1 DEF BuildReverseLookup, Tables
<1>4. /\ task[t].used.pins.ok /\ PinList(task[t].used.pins.list)
      /\ DenseArrayOK(task[t].used.pins.list)
      /\ task[t].next = ParseDenseArray(task[t].used.pins.list)
      /\ edits = task[t].since => task[t].used.pins = config.pins
  BY <1>1, AtTask DEF ReadOK, HasPins
<1>5. CASE (\E g \in Gpio : Repeats(task[t].next, g)) /\ Finish(t, "rejected")
  <2>1. edits = task[t].since => ~Good(config)
    BY <1>4, <1>5, PinsRules DEF Good
  <2>2. QED
    BY <1>1, <1>2, <1>3, <1>5, <2>1, Rejects
<1>6. CASE (\A g \in Gpio : ~Repeats(task[t].next, g)) /\ task' = [task EXCEPT ![t].pc = "bindings"]
  <2>1. PICK s : s = [task[t] EXCEPT !.pc = "bindings"]
    OBVIOUS
  <2>2. task' = [task EXCEPT ![t] = s]
    BY <1>1, <1>6, <2>1, AtTask
  <2>3. /\ DOMAIN s = DOMAIN task[t] /\ s.pc = "bindings" /\ s.op = task[t].op
        /\ s.saved = task[t].saved /\ s.since = task[t].since /\ s.verdict = "none"
        /\ s.next = task[t].next /\ s.used = task[t].used
    BY <1>1, <2>1 DEF TaskRecord
  <2>4. TaskRecord(s)
    BY <1>1, <2>3 DEF TaskRecord, Pc, Stage
  <2>5. task'[t] = s
    BY <1>1, <2>2, AtTask
  <2>6. ReadOK(t)'
    BY <1>2, <1>3, <1>4, <1>6, <2>3, <2>5 DEF ReadOK, HasPins, HasBindings
  <2>7. s.pc \in Stage \ {"reset", "restore"}
    BY <2>3 DEF Stage
  <2>8. hxReady' = FALSE
    BY <1>1, <1>2
  <2>9. QED
    BY <1>1, <1>2, <1>3, <2>2, <2>3, <2>4, <2>6, <2>7, <2>8, Advances
<1>7. QED
  BY <1>5, <1>6 DEF BuildReverseLookup

LEMMA BindingsKeeps ==
  ASSUME OneValidator, Inv, NEW t \in Validator, ReadBindings(t)
  PROVE  Inv'
<1>1. /\ t \in Task /\ TaskRecord(task[t]) /\ task[t].pc = "bindings" /\ task[t].verdict = "none"
      /\ Tables(tables) /\ tables.ready = FALSE /\ hxReady = FALSE
      /\ task[t].pc \in Stage \ {"reset", "restore"}
  BY AtTask DEF ReadBindings, At, ReadOK, TablesAt, Stage
<1>2. UNCHANGED <<config, hxReady, accepted, edits>>
  BY DEF ReadBindings
<1>3. BindingList(config.bindings.list) /\ config.bindings.ok \in BOOLEAN
  BY DEF Inv, ConfigOK
<1>4. /\ task[t].used.pins.ok /\ PinList(task[t].used.pins.list)
      /\ DenseArrayOK(task[t].used.pins.list)
      /\ task[t].next = ParseDenseArray(task[t].used.pins.list)
      /\ edits = task[t].since => task[t].used.pins = config.pins
      /\ \A g \in Gpio : ~Repeats(task[t].next, g)
      /\ tables.gpio = ReverseLookup(task[t].next)
  BY <1>1, AtTask DEF ReadOK, HasPins
<1>5. CASE ~config.bindings.ok /\ Finish(t, "rejected") /\ UNCHANGED tables
  BY <1>1, <1>2, <1>5, Rejects DEF Good
<1>6. ASSUME tables' = [tables EXCEPT !.bindings = ParseBindings(config.bindings.list)]
      PROVE  /\ Tables(tables') /\ tables'.ready = FALSE /\ tables'.gpio = tables.gpio
             /\ tables'.bindings = ParseBindings(config.bindings.list)
  BY <1>1, <1>6 DEF Tables
<1>7. CASE /\ tables' = [tables EXCEPT !.bindings = ParseBindings(config.bindings.list)]
           /\ ParseBindings(config.bindings.list) # config.bindings.list
           /\ Finish(t, "rejected")
  <2>1. edits = task[t].since => ~Good(config)
    BY <1>3, <1>4, <1>7, BindingsRules DEF Good
  <2>2. QED
    BY <1>1, <1>2, <1>6, <1>7, <2>1, Rejects
<1>8. CASE /\ config.bindings.ok
           /\ tables' = [tables EXCEPT !.bindings = ParseBindings(config.bindings.list)]
           /\ ParseBindings(config.bindings.list) = config.bindings.list
           /\ task' = [task EXCEPT ![t].pc = "match", ![t].used.bindings = config.bindings]
  <2>1. PICK s : s = [task[t] EXCEPT !.pc = "match", !.used.bindings = config.bindings]
    OBVIOUS
  <2>2. task' = [task EXCEPT ![t] = s]
    BY <1>1, <1>8, <2>1, AtTask DEF TaskRecord
  <2>3. /\ DOMAIN s = DOMAIN task[t] /\ s.pc = "match" /\ s.op = task[t].op
        /\ s.saved = task[t].saved /\ s.since = task[t].since /\ s.verdict = "none"
        /\ s.next = task[t].next
        /\ s.used = [task[t].used EXCEPT !.bindings = config.bindings]
    BY <1>1, <2>1 DEF TaskRecord
  <2>4. Layout(s.used) /\ s.used.pins = task[t].used.pins /\ s.used.bindings = config.bindings
    BY <1>1, <2>3 DEF TaskRecord, Layout
  <2>5. TaskRecord(s)
    BY <1>1, <2>3, <2>4 DEF TaskRecord, Pc, Stage
  <2>6. task'[t] = s
    BY <1>1, <2>2, AtTask
  <2>7. ReadOK(t)'
    BY <1>2, <1>3, <1>4, <1>6, <1>8, <2>3, <2>4, <2>6 DEF ReadOK, HasPins, HasBindings
  <2>8. s.pc \in Stage \ {"reset", "restore"}
    BY <2>3 DEF Stage
  <2>9. hxReady' = FALSE
    BY <1>1, <1>2
  <2>10. QED
    BY <1>1, <1>2, <1>6, <1>8, <2>2, <2>3, <2>5, <2>7, <2>8, <2>9, Advances
<1>9. QED
  BY <1>5, <1>7, <1>8 DEF ReadBindings

\* What a call knows once its bindings are stored.
LEMMA HasBoth ==
  ASSUME Inv, NEW t \in Task, task[t].pc \in {"match", "commit"}
  PROVE  LET r == task[t] IN
         /\ r.used.pins.ok /\ PinList(r.used.pins.list) /\ DenseArrayOK(r.used.pins.list)
         /\ r.next = ParseDenseArray(r.used.pins.list)
         /\ edits = r.since => r.used.pins = config.pins /\ r.used.bindings = config.bindings
         /\ \A g \in Gpio : ~Repeats(r.next, g)
         /\ tables.gpio = ReverseLookup(r.next)
         /\ r.used.bindings.ok /\ BindingList(r.used.bindings.list)
         /\ ParseBindings(r.used.bindings.list) = r.used.bindings.list
         /\ tables.bindings = r.used.bindings.list
         /\ r.pc = "commit" => MatchesPinmap(r.next, r.used.bindings.list)
         /\ TaskRecord(r) /\ r.verdict = "none" /\ r.pc \in Stage \ {"reset", "restore"}
         /\ Tables(tables) /\ tables.ready = FALSE /\ hxReady = FALSE
<1>1. ReadOK(t) /\ TablesAt(t) /\ Tables(tables) /\ TaskRecord(task[t])
  BY AtTask
<1>2. task[t].pc \in Stage \ {"reset", "restore"}
  BY DEF Stage
<1>3. QED
  BY <1>1, <1>2 DEF ReadOK, TablesAt, HasPins, HasBindings

LEMMA CheckKeeps ==
  ASSUME OneValidator, Inv, NEW t \in Validator, CheckBindings(t)
  PROVE  Inv'
<1>1. t \in Task /\ task[t].pc = "match"
  BY DEF CheckBindings, At
<1>2. UNCHANGED <<config, tables, hxReady, accepted, edits>>
  BY DEF CheckBindings
<1>3. CASE ~MatchesPinmap(task[t].next, tables.bindings) /\ Finish(t, "rejected")
  <2>1. edits = task[t].since => ~Good(config)
    <3>1. PICK P, B : P = task[t].used.pins.list /\ B = task[t].used.bindings.list
      OBVIOUS
    <3>2. /\ PinList(P) /\ DenseArrayOK(P) /\ task[t].next = ParseDenseArray(P)
          /\ BindingList(B) /\ tables.bindings = B
      BY <1>1, <3>1, HasBoth
    <3>3. ~GoodBindings(P, B)
      BY <1>3, <3>2, BindingsRules
    <3>4. edits = task[t].since => P = config.pins.list /\ B = config.bindings.list
      BY <1>1, <3>1, HasBoth
    <3>5. QED
      BY <3>3, <3>4 DEF Good
  <2>2. QED
    BY <1>1, <1>2, <1>3, <2>1, HasBoth, Rejects
<1>4. CASE MatchesPinmap(task[t].next, tables.bindings) /\ task' = [task EXCEPT ![t].pc = "commit"]
  <2>1. PICK s : s = [task[t] EXCEPT !.pc = "commit"]
    OBVIOUS
  <2>2. task' = [task EXCEPT ![t] = s]
    BY <1>1, <1>4, <2>1, AtTask
  <2>3. /\ DOMAIN s = DOMAIN task[t] /\ s.pc = "commit" /\ s.op = task[t].op
        /\ s.saved = task[t].saved /\ s.since = task[t].since /\ s.verdict = "none"
        /\ s.next = task[t].next /\ s.used = task[t].used
    BY <1>1, <2>1, HasBoth DEF TaskRecord
  <2>4. TaskRecord(s)
    BY <1>1, <2>3, HasBoth DEF TaskRecord, Pc, Stage
  <2>5. task'[t] = s
    BY <1>1, <2>2, AtTask
  <2>6. ReadOK(t)'
    BY <1>1, <1>2, <1>4, <2>3, <2>5, HasBoth, ZenonT(60) DEF ReadOK, HasPins, HasBindings
  <2>7. s.pc \in Stage \ {"reset", "restore"}
    BY <2>3 DEF Stage
  <2>8. QED
    BY <1>1, <1>2, <2>2, <2>3, <2>4, <2>6, <2>7, HasBoth, Advances
<1>5. QED
  BY <1>3, <1>4 DEF CheckBindings

LEMMA CommitKeeps ==
  ASSUME OneValidator, Inv, NEW t \in Validator, Commit(t)
  PROVE  Inv'
<1>1. t \in Task /\ task[t].pc = "commit"
  BY DEF Commit, At
<1>2. UNCHANGED <<config, edits>>
  BY DEF Commit
<1>3. PICK map : map = task[t].next
  OBVIOUS
<1>4. Good(task[t].used)
  BY <1>1, HasBoth, PinsRules, BindingsRules DEF Good
<1>5. CASE /\ tables' = [tables EXCEPT !.function = map]
           /\ Finish(t, "failed") /\ UNCHANGED <<hxReady, accepted>>
  <2>1. PICK s : /\ task' = [task EXCEPT ![t] = s] /\ TaskRecord(s)
                 /\ s.since = task[t].since /\ s.verdict = "failed" /\ s.op = task[t].op
                 /\ s.saved = task[t].saved
                 /\ s.pc = IF task[t].op = "validate" THEN "restore" ELSE "return"
    BY <1>1, <1>5, FinishRecord
  <2>2. task'[t] = s
    BY <1>1, <2>1, AtTask
  <2>3. Tables(tables') /\ tables'.ready = FALSE /\ hxReady' = FALSE
    BY <1>1, <1>5, HasBoth DEF Tables
  <2>4. ReadOK(t)'
    BY <2>1, <2>2 DEF ReadOK, HasPins, HasBindings, Stage
  <2>5. VerdictOK(t)'
    BY <2>1, <2>2 DEF VerdictOK
  <2>6. TablesAt(t)'
    <3>1. s.pc \in Stage => s.op = "validate" /\ Answers(s.saved, accepted)
      BY <1>1, <2>1, AtTask DEF TablesAt, Stage
    <3>2. QED
      BY <1>5, <2>2, <2>3, <3>1 DEF TablesAt
  <2>7. s.pc \notin Stage => Served'
    <3>1. s.pc \notin Stage => accepted = None
      BY <1>1, <2>1, AtTask DEF TablesAt, Stage
    <3>2. QED
      BY <1>5, <2>3, <3>1 DEF Served, Answers
  <2>8. s.since <= edits
    BY <1>1, <2>1, AtTask
  <2>9. QED
    BY <1>2, <2>1, <2>3, <2>4, <2>5, <2>6, <2>7, <2>8, OnlyValidator
<1>6. CASE /\ tables' = [tables EXCEPT !.function = map, !.ready = TRUE,
                           !.mapped = Cardinality({g \in Gpio : map[g] # NoFunction})]
           /\ hxReady' = TRUE /\ accepted' = task[t].used /\ Finish(t, "accepted")
  <2>1. PICK s : /\ task' = [task EXCEPT ![t] = s] /\ TaskRecord(s)
                 /\ s.since = task[t].since /\ s.verdict = "accepted" /\ s.op = task[t].op
                 /\ s.used = task[t].used /\ s.pc = "return"
    BY <1>1, <1>6, FinishRecord
  <2>2. task'[t] = s
    BY <1>1, <2>1, AtTask
  <2>3. /\ Tables(tables') /\ tables'.ready = TRUE /\ tables'.function = map
        /\ tables'.mapped = Cardinality({g \in Gpio : map[g] # NoFunction})
        /\ tables'.gpio = tables.gpio /\ tables'.bindings = tables.bindings
    BY <1>1, <1>6, HasBoth DEF Tables
  <2>4. ReadOK(t)'
    BY <2>1, <2>2 DEF ReadOK, HasPins, HasBindings, Stage
  <2>5. VerdictOK(t)'
    <3>1. Good(task'[t].used)
      BY <1>4, <2>1, <2>2
    <3>2. QED
      BY <2>1, <2>2, <3>1 DEF VerdictOK
  <2>6. TablesAt(t)'
    BY <2>1, <2>2 DEF TablesAt, Stage
  <2>7. Served'
    <3>1. accepted' # None
      <4>1. accepted'.pins.ok /\ ~None.pins.ok
        BY <1>1, <1>6, HasBoth DEF None, NoText
      <4>2. QED
        BY <4>1
    <3>2. Answers(tables', accepted')
      <4>1. PICK a, T : a = accepted' /\ T = tables'
        OBVIOUS
      <4>2. /\ PinList(a.pins.list) /\ DenseArrayOK(a.pins.list)
            /\ map = ParseDenseArray(a.pins.list) /\ \A g \in Gpio : ~Repeats(map, g)
        BY <1>1, <1>3, <1>6, <4>1, HasBoth
      <4>3. /\ T.ready = TRUE /\ T.function = map /\ T.gpio = ReverseLookup(map)
            /\ T.bindings = a.bindings.list
            /\ T.mapped = Cardinality({g \in Gpio : map[g] # NoFunction})
        BY <1>1, <1>3, <1>6, <2>3, <4>1, HasBoth
      <4>4. a # None
        BY <3>1, <4>1
      <4>5. Answers(T, a)
        BY <4>2, <4>3, <4>4 DEF Answers
      <4>6. QED
        BY <4>1, <4>5
    <3>3. QED
      BY <1>6, <2>3, <3>2 DEF Served
  <2>8. s.since <= edits
    BY <1>1, <2>1, AtTask
  <2>9. QED
    BY <1>2, <2>1, <2>3, <2>4, <2>5, <2>6, <2>7, <2>8, OnlyValidator
<1>7. QED
  BY <1>3, <1>5, <1>6 DEF Commit

LEMMA RestoreKeeps ==
  ASSUME OneValidator, Inv, NEW t \in Validator, Restore(t)
  PROVE  Inv'
<1>1. t \in Task /\ task[t].pc = "restore" /\ TaskRecord(task[t])
  BY AtTask DEF Restore, At
<1>2. Answers(task[t].saved, accepted)
  BY <1>1, AtTask DEF TablesAt, Stage
<1>3. PICK s : s = [task[t] EXCEPT !.pc = "return"]
  OBVIOUS
<1>4. /\ task' = [task EXCEPT ![t] = s] /\ tables' = task[t].saved
      /\ hxReady' = tables'.ready /\ UNCHANGED <<config, accepted, edits>>
  BY <1>1, <1>3, AtTask DEF Restore
<1>5. /\ DOMAIN s = DOMAIN task[t] /\ s.pc = "return" /\ s.op = task[t].op /\ s.saved = task[t].saved
      /\ s.since = task[t].since /\ s.verdict = task[t].verdict /\ s.used = task[t].used
  BY <1>1, <1>3 DEF TaskRecord
<1>6. TaskRecord(s)
  BY <1>1, <1>5 DEF TaskRecord, Pc
<1>7. task'[t] = s
  BY <1>1, <1>4, AtTask
<1>8. ReadOK(t)'
  BY <1>5, <1>7 DEF ReadOK, HasPins, HasBindings, Stage
<1>9. VerdictOK(t)'
  <2>1. VerdictOK(t)
    BY <1>1, AtTask
  <2>2. QED
    BY <1>4, <1>5, <1>7, <2>1 DEF VerdictOK
<1>10. TablesAt(t)'
  BY <1>5, <1>7 DEF TablesAt, Stage
<1>11. Served'
  BY <1>2, <1>4 DEF Served
<1>12. Tables(tables') /\ s.since <= edits
  BY <1>1, <1>4, <1>5, AtTask DEF TaskRecord
<1>13. QED
  BY <1>4, <1>6, <1>8, <1>9, <1>10, <1>11, <1>12, OnlyValidator

LEMMA ReturnKeeps ==
  ASSUME OneValidator, Inv, NEW t \in Validator, Return(t)
  PROVE  Inv'
<1>1. t \in Task /\ task[t].pc = "return"
  BY DEF Return, At
<1>2. task' = [task EXCEPT ![t] = Idle] /\ UNCHANGED <<config, tables, hxReady, accepted, edits>>
  BY DEF Return
<1>3. task'[t] = Idle
  BY <1>1, <1>2, AtTask
<1>4. ReadOK(t)' /\ VerdictOK(t)' /\ TablesAt(t)'
  BY <1>3, IdleIsRecord DEF ReadOK, VerdictOK, TablesAt, HasPins, HasBindings, Stage
<1>5. Served
  <2>1. \A u \in Task : task[u].pc \notin Stage
    <3>1. \A u \in Task : u # t => task[u] = Idle
      BY DEF Inv, TasksOK, OneValidator
    <3>2. QED
      BY <1>1, <3>1, IdleIsRecord DEF Stage
  <2>2. QED
    BY <2>1 DEF Inv, TablesOK
<1>6. Served'
  BY <1>2, <1>5 DEF Served
<1>7. Idle.since <= edits /\ Tables(tables')
  BY <1>1, <1>2, AtTask DEF Idle
<1>8. QED
  BY <1>2, <1>4, <1>6, <1>7, IdleIsRecord, OnlyValidator

LEMMA ChangeKeeps ==
  ASSUME OneValidator, Inv, ChangeConfig
  PROVE  Inv'
<1>1. edits' = edits + 1 /\ UNCHANGED <<tables, hxReady, task, accepted>>
  BY DEF ChangeConfig
<1>2. ConfigOK'
  <2>1. Layout(config)
    BY DEF Inv, ConfigOK
  <2>2. CASE \E text \in EditPins : config' = [config EXCEPT !.pins = text]
    <3>1. PICK text \in EditPins : config' = [config EXCEPT !.pins = text]
      BY <2>2
    <3>2. PinList(text.list) /\ text.ok \in BOOLEAN
      BY TextAssumption DEF IsText, PinList
    <3>3. Layout(config') /\ config'.pins = text /\ config'.bindings = config.bindings
      BY <2>1, <3>1 DEF Layout
    <3>4. QED
      BY <3>2, <3>3 DEF Inv, ConfigOK
  <2>3. CASE \E text \in EditBindings : config' = [config EXCEPT !.bindings = text]
    <3>1. PICK text \in EditBindings : config' = [config EXCEPT !.bindings = text]
      BY <2>3
    <3>2. BindingList(text.list) /\ text.ok \in BOOLEAN
      BY TextAssumption DEF IsText, BindingList
    <3>3. Layout(config') /\ config'.bindings = text /\ config'.pins = config.pins
      BY <2>1, <3>1 DEF Layout
    <3>4. QED
      BY <3>2, <3>3 DEF Inv, ConfigOK
  <2>4. QED
    BY <2>2, <2>3 DEF ChangeConfig
<1>3. \A t \in Task : task[t].since <= edits /\ task[t].since \in Nat /\ edits \in Nat
  BY DEF Inv, TasksOK, TaskRecord
<1>4. \A t \in Task : edits' # task'[t].since
  BY <1>1, <1>3
<1>5. TasksOK'
  BY <1>1, <1>3 DEF Inv, TasksOK
<1>6. ASSUME NEW t \in Task PROVE ReadOK(t)' /\ VerdictOK(t)'
  <2>1. ReadOK(t) /\ VerdictOK(t)
    BY AtTask
  <2>2. ReadOK(t)'
    BY <1>1, <1>4, <2>1 DEF ReadOK, HasPins, HasBindings
  <2>3. VerdictOK(t)'
    BY <1>1, <1>4, <2>1 DEF VerdictOK
  <2>4. QED
    BY <2>2, <2>3
<1>7. TablesOK'
  BY <1>1 DEF Inv, TablesOK, TablesAt, Served
<1>8. QED
  BY <1>2, <1>5, <1>6, <1>7 DEF Inv

LEMMA InitInv == Init => Inv
<1> SUFFICES ASSUME Init PROVE Inv
  OBVIOUS
<1>1. ConfigOK
  <2>1. config \in [pins : BootPins, bindings : BootBindings]
    BY DEF Init
  <2>2. Layout(config) /\ config.pins \in BootPins /\ config.bindings \in BootBindings
    BY <2>1 DEF Layout
  <2>3. QED
    BY <2>2, TextAssumption DEF ConfigOK, IsText, PinList, BindingList
<1>2. PICK v \in Validator : task = [u \in Task |-> IF u = v THEN [Idle EXCEPT !.pc = "reset", !.op = "boot"]
                                                          ELSE Idle]
  BY DEF Init
<1>3. PICK s : s = [Idle EXCEPT !.pc = "reset", !.op = "boot"]
  OBVIOUS
<1>4. /\ DOMAIN s = DOMAIN Idle /\ s.pc = "reset" /\ s.op = "boot" /\ s.saved = Cleared
      /\ s.since = 0 /\ s.verdict = "none" /\ s.used = None
  BY <1>3 DEF Idle
<1>5. TaskRecord(s)
  BY <1>4, IdleIsRecord DEF TaskRecord, Idle, Pc, Stage
<1>6. DOMAIN task = Task /\ \A u \in Task : task[u] = IF u = v THEN s ELSE Idle
  BY <1>2, <1>3
<1>7. tables = Cleared /\ hxReady = FALSE /\ accepted = None /\ edits = 0
  BY DEF Init
<1>8. Idle.since = 0
  BY DEF Idle
<1>9. TasksOK
  BY <1>4, <1>5, <1>6, <1>7, <1>8, IdleIsRecord DEF TasksOK
<1>10. \A t \in Task : task[t].pc \in {"idle", "reset"} /\ task[t].verdict = "none"
  BY <1>4, <1>6, IdleIsRecord
<1>11. \A t \in Task : ReadOK(t) /\ VerdictOK(t)
  BY <1>10 DEF ReadOK, VerdictOK, HasPins, HasBindings
<1>12. TablesOK
  <2>1. v \in Task /\ task[v].pc \in Stage
    BY <1>4, <1>6 DEF Stage
  <2>2. \A t \in Task : TablesAt(t)
    BY <1>4, <1>6, <1>7, IdleIsRecord DEF TablesAt, Stage
  <2>3. QED
    BY <2>1, <2>2 DEF TablesOK
<1>13. QED
  BY <1>1, <1>9, <1>11, <1>12 DEF Inv

LEMMA NextInv ==
  ASSUME OneValidator, Inv, [Next]_vars
  PROVE  Inv'
<1>1. CASE UNCHANGED vars
  BY <1>1 DEF vars, Inv, ConfigOK, TasksOK, ReadOK, VerdictOK, HasPins, HasBindings,
              TablesOK, TablesAt, Served
<1>2. ASSUME NEW t \in Task, Step(t) PROVE Inv'
  <2>1. t \in Validator
    <3>1. t \notin Validator => task[t].pc = "idle"
      BY IdleIsRecord DEF Inv, TasksOK
    <3>2. CASE Capture(t)
      BY <3>2 DEF Capture
    <3>3. CASE ~Capture(t)
      <4>1. task[t].pc # "idle"
        BY <1>2, <3>3 DEF Step, ResetState, ParsePins, BuildReverseLookup, ReadBindings,
                          CheckBindings, Commit, Restore, Return, At
      <4>2. QED
        BY <3>1, <4>1
    <3>4. QED
      BY <3>2, <3>3
  <2>2. CASE Capture(t)
    BY <2>1, <2>2, CaptureKeeps
  <2>3. CASE ResetState(t)
    BY <2>1, <2>3, ResetKeeps
  <2>4. CASE ParsePins(t)
    BY <2>1, <2>4, ParsePinsKeeps
  <2>5. CASE BuildReverseLookup(t)
    BY <2>1, <2>5, ReverseKeeps
  <2>6. CASE ReadBindings(t)
    BY <2>1, <2>6, BindingsKeeps
  <2>7. CASE CheckBindings(t)
    BY <2>1, <2>7, CheckKeeps
  <2>8. CASE Commit(t)
    BY <2>1, <2>8, CommitKeeps
  <2>9. CASE Restore(t)
    BY <2>1, <2>9, RestoreKeeps
  <2>10. CASE Return(t)
    BY <2>1, <2>10, ReturnKeeps
  <2>11. QED
    BY <1>2, <2>2, <2>3, <2>4, <2>5, <2>6, <2>7, <2>8, <2>9, <2>10 DEF Step
<1>3. CASE ChangeConfig
  BY <1>3, ChangeKeeps
<1>4. QED
  BY <1>1, <1>2, <1>3 DEF Next

\* What the lookups answer is what the accepted texts say.
LEMMA InvAnswers ==
  ASSUME Inv
  PROVE  AnswersAreAccepted
<1> SUFFICES ASSUME \A t \in Task : At(t, "idle")
             PROVE  AnswersAreAccepted
  BY DEF AnswersAreAccepted
<1>1. Answers(tables, accepted) /\ hxReady = tables.ready
  BY DEF At, Inv, TablesOK, Served, Stage
<1>2. tables.ready = (accepted # None)
  BY <1>1 DEF Answers
<1>3. CASE accepted = None
  BY <1>1, <1>2, <1>3 DEF AnswersAreAccepted
<1>4. CASE accepted # None
  <2>1. PICK pins, list, map : pins = accepted.pins.list /\ list = accepted.bindings.list
                             /\ map = ParseDenseArray(pins)
    OBVIOUS
  <2>2. /\ tables.ready = TRUE /\ PinList(pins) /\ DenseArrayOK(pins)
        /\ tables.function = map /\ (\A g \in Gpio : ~Repeats(map, g))
        /\ tables.gpio = ReverseLookup(map) /\ tables.bindings = list
        /\ tables.mapped = Cardinality({g \in Gpio : map[g] # NoFunction})
    BY <1>1, <1>2, <1>4, <2>1 DEF Answers
  <2>3. \A g \in Gpio : FunctionForGpio(g) = map[g]
    BY <2>2 DEF FunctionForGpio
  <2>4. \A f \in Function : GpioForFunction(f) = ReverseLookup(map)[f]
    BY <2>2 DEF GpioForFunction
  <2>5. \A g \in Gpio : FunctionForGpio(g) = IF g < Len(pins) THEN pins[g + 1] ELSE NoFunction
    BY <2>1, <2>3 DEF ParseDenseArray
  <2>6. \A f \in Function, g \in Gpio : GpioForFunction(f) = g <=> FunctionForGpio(g) = f
    BY <2>2, <2>3, <2>4, ReverseIsInverse
  <2>7. \A f \in Function : GpioForFunction(f) = NoGpio <=> PinAt(pins, f) = {}
    BY <2>1, <2>2, <2>4, ReverseIsInverse, PinIsMapped
  <2>8. \A type \in Type, n \in Instance :
          FindBinding(type, n) = {b \in {list[i] : i \in 1 .. Len(list)} :
                                    b.type = type /\ b.instance = n}
    <3> SUFFICES ASSUME NEW type \in Type, NEW n \in Instance
                 PROVE  FindBinding(type, n) = {b \in {list[i] : i \in 1 .. Len(list)} :
                                                  b.type = type /\ b.instance = n}
      OBVIOUS
    <3>1. FindBinding(type, n) = {list[i] : i \in {j \in 1 .. Len(list) :
                                     list[j].type = type /\ list[j].instance = n}}
      BY <2>2 DEF FindBinding
    <3>2. QED
      BY <3>1
  <2>9. tables.mapped = Cardinality({g \in Gpio : FunctionForGpio(g) # NoFunction})
    <3>1. {g \in Gpio : FunctionForGpio(g) # NoFunction} = {g \in Gpio : map[g] # NoFunction}
      BY <2>3
    <3>2. QED
      BY <2>2, <3>1
  <2>10. QED
    BY <1>1, <1>2, <2>1, <2>5, <2>6, <2>7, <2>8, <2>9 DEF AnswersAreAccepted
<1>5. QED
  BY <1>3, <1>4

LEMMA InvAlways == ASSUME OneValidator PROVE Spec => []Inv
<1>1. Inv /\ [Next]_vars => Inv'
  BY NextInv
<1>2. QED
  BY <1>1, InitInv, PTL DEF Spec

(***************************************************************************)
(* The theorems.                                                           *)
(***************************************************************************)
\* Whatever the chip, the functions and the texts: PinmapInit accepts a layout
\* and its bindings only when they keep every documented rule, and rejects one
\* that nobody edits meanwhile only when it breaks one, so the stages of the
\* code (parser, reverse lookup, room in the tables, helper pins) together are
\* the rules of docs/PINMAP_BUILD_INTEGRATION.md.
THEOREM AcceptsExactlyTheGood == ASSUME OneValidator PROVE Spec => []VerdictIsRight
<1>1. Inv => VerdictIsRight
  BY DEF Inv, VerdictOK, VerdictIsRight
<1>2. QED
  BY <1>1, InvAlways, PTL

\* Between calls every lookup answers from the layout accepted last, however
\* many validations of edited configurations were rejected and rolled back.
\* Two validators can break this, as the run pinmap_two shows.
THEOREM LookupsAnswerAccepted == ASSUME OneValidator PROVE Spec => []AnswersAreAccepted
<1>1. Inv => AnswersAreAccepted
  BY InvAnswers
<1>2. QED
  BY <1>1, InvAlways, PTL
=============================================================================
