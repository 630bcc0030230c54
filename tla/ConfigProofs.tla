---------------------------- MODULE ConfigProofs ----------------------------
(***************************************************************************)
(* What holds of Config for every number of tasks, keys and values, any    *)
(* mix of calls, failures and resets.                                      *)
(***************************************************************************)
EXTENDS Config, SequenceTheorems, TLAPS

USE ConfigAssumption

(***************************************************************************)
(* The stages of a call.  Good says what follows and precedes a stage; it  *)
(* holds of every plan and of what is left of it.                          *)
(***************************************************************************)
Later(s, i) == \E j \in i + 1 .. Len(s) : s[j] = "apply"

\* Stages that come only after one other stage.
Linked(s) ==
  \A i \in 1 .. Len(s) - 1 :
    /\ s[i + 1] = "store" => s[i] = "snap"
    /\ s[i + 1] = "flush" => s[i] = "store"
    /\ s[i + 1] = "push"  => s[i] = "apply"
    /\ s[i + 1] = "put"   => s[i] = "copy"
    /\ s[i + 1] = "wipe"  => s[i] = "close"

\* A change of the configuration is applied later in the call.
Applied(c, s) ==
  \A i \in 1 .. Len(s) :
    s[i] \in {"defaults", "install"} \/ (s[i] = "put" /\ c \notin {"pinmap", "connect"})
      => Later(s, i)

\* Stages that belong to some calls only, and the ends of calls.
Belongs(c, s) ==
  \A i \in 1 .. Len(s) :
    /\ s[i] = "idle" <=> c = "none"
    /\ c = "save" => s[i] \in {"snap", "store", "flush"}
    /\ s[i] \in {"close", "wipe"} => c = "format"
    /\ s[i] = "close" => i < Len(s) /\ s[i + 1] = "wipe"
    /\ s[i] = "apply" => i < Len(s) /\ s[i + 1] = "push"
    /\ s[i] = "erase" => i < Len(s) /\ s[i + 1] = "read"
    /\ s[i] \in {"read", "store"} => i < Len(s)

Good(c, s) == Linked(s) /\ Applied(c, s) /\ Belongs(c, s)

ShapesOK == \A t \in Task : Good(task[t].call, task[t].todo)

(***************************************************************************)
(* What is stored.                                                         *)
(***************************************************************************)
OffersOK ==
  \A k \in Key : Decode(k, nvs[k]) \in offers[k] /\ Decode(k, durable[k]) \in offers[k]

\* A save stores offered values.  One that has the store to itself finds there
\* what it has stored so far.
SavesOK ==
  \A t \in Task : InSave(t) =>
    /\ \A k \in Key : task[t].snap[k] \in offers[k]
    /\ task[t].alone =>
         /\ \A u \in Task \ {t} : ~InSave(u)
         /\ \A k \in Key : At(t, "flush") \/ k < task[t].next
              => nvs[k] = Encode(k, task[t].snap[k])

StoreInv == TypeOK /\ ShapesOK /\ OffersOK /\ SavesOK

(***************************************************************************)
(* What is applied, with one task that changes the configuration.          *)
(***************************************************************************)
Writing(t) == task[t].call \notin {"none", "save"}

\* One task makes the calls that change the configuration, the others save it.
Writer    == CHOOSE w \in Task : \A t \in Task \ {w} : Calls[t] \subseteq {"save"}
OneWriter == \E w \in Task : \A t \in Task \ {w} : Calls[t] \subseteq {"save"}

\* The boot is alone, and other writes are all made by the writer.
OneWrites ==
  /\ \A t \in Task : Writing(t) => t = Writer \/ (t = LoopTask /\ Booting)
  /\ Booting => \A t \in Task \ {LoopTask} : task[t].call = "none"

\* The copy a writer works on is still the configuration.
CopiesOK == \A t \in Task : At(t, "put") \/ At(t, "push") => task[t].snap = config

OpenOK == faults = 0 /\ ~open => \E t \in Task : At(t, "wipe")

InUse      == \A k \in LiveKey : applied[k] = config[k]
WillApply(t) == Later(task[t].todo, 0) \/ At(t, "push")
ApplyOK == faults = 0 => InUse \/ \E t \in Task : WillApply(t)

\* A change that is not applied is one of a key that is not live.
KeysOK == \A t \in Task : task[t].call \in {"pinmap", "connect"} => task[t].key \notin LiveKey

ApplyInv == OneWrites /\ CopiesOK /\ OpenOK /\ ApplyOK /\ KeysOK

(***************************************************************************)
(* Plans and what is left of them.                                         *)
(***************************************************************************)
LEMMA NotEmpty == ASSUME NEW s \in Seq(Stage), Len(s) > 0 PROVE s # <<>>
OBVIOUS

LEMMA PlanIsGood ==
  ASSUME NEW c \in CallName \cup {"boot"}
  PROVE  Plan(c) \in Seq(Stage) /\ Plan(c) # <<>> /\ Good(c, Plan(c))
         /\ Plan(c)[1] \notin {"store", "flush", "put", "push", "wipe"}
<1> USE DEF Stage
<1>1. CASE c \in {"set", "toggle"}
  <2> DEFINE s == <<"copy", "put">> \o Applying
  <2>1. s \in Seq(Stage) /\ Len(s) = 4 /\ s[1] = "copy" /\ s[2] = "put" /\ s[3] = "apply" /\ s[4] = "push"
    BY DEF Applying
  <2>2. Plan(c) = s
    BY <1>1 DEF Plan
  <2> HIDE DEF s
  <2>3. Len(s) = 4 /\ \A i \in 1 .. 4 : i = 1 \/ i = 2 \/ i = 3 \/ i = 4
    BY <2>1
  <2>4. \A i \in 0 .. 2 : Later(s, i)
    BY <2>1 DEF Later
  <2>5. Applied(c, s)
    BY <1>1, <2>1, <2>3, <2>4 DEF Applied
  <2>6. Linked(s)
    BY <2>1, <2>3 DEF Linked
  <2>7. Belongs(c, s)
    BY <1>1, <2>1, <2>3 DEF Belongs
  <2>8. Good(c, s)
    BY <2>5, <2>6, <2>7 DEF Good
  <2>9. s # <<>>
    <3>1. s \in Seq(Stage) /\ Len(s) > 0
      BY <2>1
    <3> HIDE DEF Stage
    <3>2. QED
      BY <3>1, NotEmpty
  <2>10. QED
    BY <2>1, <2>2, <2>8, <2>9
<1>2. CASE c = "level"
  <2> DEFINE s == <<"copy", "put">> \o Applying \o Saving
  <2>1. s \in Seq(Stage) /\ Len(s) = 7 /\ s[1] = "copy" /\ s[2] = "put" /\ s[3] = "apply" /\ s[4] = "push"
        /\ s[5] = "snap" /\ s[6] = "store" /\ s[7] = "flush"
    BY DEF Applying, Saving
  <2>2. Plan(c) = s
    BY <1>2 DEF Plan
  <2> HIDE DEF s
  <2>3. Len(s) = 7 /\ \A i \in 1 .. 7 : i = 1 \/ i = 2 \/ i = 3 \/ i = 4 \/ i = 5 \/ i = 6 \/ i = 7
    BY <2>1
  <2>4. \A i \in 0 .. 2 : Later(s, i)
    BY <2>1 DEF Later
  <2>5. Applied(c, s)
    BY <1>2, <2>1, <2>3, <2>4 DEF Applied
  <2>6. Linked(s)
    BY <2>1, <2>3 DEF Linked
  <2>7. Belongs(c, s)
    BY <1>2, <2>1, <2>3 DEF Belongs
  <2>8. Good(c, s)
    BY <2>5, <2>6, <2>7 DEF Good
  <2>9. s # <<>>
    <3>1. s \in Seq(Stage) /\ Len(s) > 0
      BY <2>1
    <3> HIDE DEF Stage
    <3>2. QED
      BY <3>1, NotEmpty
  <2>10. QED
    BY <2>1, <2>2, <2>8, <2>9
<1>3. CASE c = "post"
  <2> DEFINE s == <<"copy", "put">> \o Saving \o Applying
  <2>1. s \in Seq(Stage) /\ Len(s) = 7 /\ s[1] = "copy" /\ s[2] = "put" /\ s[3] = "snap" /\ s[4] = "store"
        /\ s[5] = "flush" /\ s[6] = "apply" /\ s[7] = "push"
    BY DEF Applying, Saving
  <2>2. Plan(c) = s
    BY <1>3 DEF Plan
  <2> HIDE DEF s
  <2>3. Len(s) = 7 /\ \A i \in 1 .. 7 : i = 1 \/ i = 2 \/ i = 3 \/ i = 4 \/ i = 5 \/ i = 6 \/ i = 7
    BY <2>1
  <2>4. \A i \in 0 .. 5 : Later(s, i)
    BY <2>1 DEF Later
  <2>5. Applied(c, s)
    BY <1>3, <2>1, <2>3, <2>4 DEF Applied
  <2>6. Linked(s)
    BY <2>1, <2>3 DEF Linked
  <2>7. Belongs(c, s)
    BY <1>3, <2>1, <2>3 DEF Belongs
  <2>8. Good(c, s)
    BY <2>5, <2>6, <2>7 DEF Good
  <2>9. s # <<>>
    <3>1. s \in Seq(Stage) /\ Len(s) > 0
      BY <2>1
    <3> HIDE DEF Stage
    <3>2. QED
      BY <3>1, NotEmpty
  <2>10. QED
    BY <2>1, <2>2, <2>8, <2>9
<1>4. CASE c = "pinmap"
  <2> DEFINE s == <<"copy", "put">> \o Saving
  <2>1. s \in Seq(Stage) /\ Len(s) = 5 /\ s[1] = "copy" /\ s[2] = "put" /\ s[3] = "snap" /\ s[4] = "store"
        /\ s[5] = "flush"
    BY DEF Saving
  <2>2. Plan(c) = s
    BY <1>4 DEF Plan
  <2> HIDE DEF s
  <2>3. Len(s) = 5 /\ \A i \in 1 .. 5 : i = 1 \/ i = 2 \/ i = 3 \/ i = 4 \/ i = 5
    BY <2>1
  <2>5. Applied(c, s)
    BY <1>4, <2>1, <2>3 DEF Applied
  <2>6. Linked(s)
    BY <2>1, <2>3 DEF Linked
  <2>7. Belongs(c, s)
    BY <1>4, <2>1, <2>3 DEF Belongs
  <2>8. Good(c, s)
    BY <2>5, <2>6, <2>7 DEF Good
  <2>9. s # <<>>
    <3>1. s \in Seq(Stage) /\ Len(s) > 0
      BY <2>1
    <3> HIDE DEF Stage
    <3>2. QED
      BY <3>1, NotEmpty
  <2>10. QED
    BY <2>1, <2>2, <2>8, <2>9
<1>5. CASE c = "connect"
  BY <1>5 DEF Plan, Good, Linked, Applied, Belongs
<1>6. CASE c = "save"
  BY <1>6 DEF Plan, Saving, Good, Linked, Applied, Belongs
<1>7. CASE c \in {"load", "boot"}
  <2> DEFINE s == Loading \o Applying
  <2>1. s \in Seq(Stage) /\ Len(s) = 5 /\ s[1] = "read" /\ s[2] = "repair" /\ s[3] = "install"
        /\ s[4] = "apply" /\ s[5] = "push"
    BY DEF Applying, Loading
  <2>2. Plan(c) = s
    BY <1>7 DEF Plan
  <2> HIDE DEF s
  <2>3. Len(s) = 5 /\ \A i \in 1 .. 5 : i = 1 \/ i = 2 \/ i = 3 \/ i = 4 \/ i = 5
    BY <2>1
  <2>4. \A i \in 0 .. 3 : Later(s, i)
    BY <2>1 DEF Later
  <2>5. Applied(c, s)
    BY <1>7, <2>1, <2>3, <2>4 DEF Applied
  <2>6. Linked(s)
    BY <2>1, <2>3 DEF Linked
  <2>7. Belongs(c, s)
    BY <1>7, <2>1, <2>3 DEF Belongs
  <2>8. Good(c, s)
    BY <2>5, <2>6, <2>7 DEF Good
  <2>9. s # <<>>
    <3>1. s \in Seq(Stage) /\ Len(s) > 0
      BY <2>1
    <3> HIDE DEF Stage
    <3>2. QED
      BY <3>1, NotEmpty
  <2>10. QED
    BY <2>1, <2>2, <2>8, <2>9
<1>8. CASE c = "default"
  <2> DEFINE s == <<"defaults">> \o Applying
  <2>1. s \in Seq(Stage) /\ Len(s) = 3 /\ s[1] = "defaults" /\ s[2] = "apply" /\ s[3] = "push"
    BY DEF Applying
  <2>2. Plan(c) = s
    BY <1>8 DEF Plan, CmdDefault
  <2> HIDE DEF s
  <2>3. Len(s) = 3 /\ \A i \in 1 .. 3 : i = 1 \/ i = 2 \/ i = 3
    BY <2>1
  <2>4. \A i \in 0 .. 1 : Later(s, i)
    BY <2>1 DEF Later
  <2>5. Applied(c, s)
    BY <1>8, <2>1, <2>3, <2>4 DEF Applied
  <2>6. Linked(s)
    BY <2>1, <2>3 DEF Linked
  <2>7. Belongs(c, s)
    BY <1>8, <2>1, <2>3 DEF Belongs
  <2>8. Good(c, s)
    BY <2>5, <2>6, <2>7 DEF Good
  <2>9. s # <<>>
    <3>1. s \in Seq(Stage) /\ Len(s) > 0
      BY <2>1
    <3> HIDE DEF Stage
    <3>2. QED
      BY <3>1, NotEmpty
  <2>10. QED
    BY <2>1, <2>2, <2>8, <2>9
<1>9. CASE c = "format"
  <2> DEFINE s == <<"close", "wipe", "defaults">> \o Saving \o Applying
  <2>1. s \in Seq(Stage) /\ Len(s) = 8 /\ s[1] = "close" /\ s[2] = "wipe" /\ s[3] = "defaults"
        /\ s[4] = "snap" /\ s[5] = "store" /\ s[6] = "flush" /\ s[7] = "apply" /\ s[8] = "push"
    BY DEF Applying, Saving
  <2>2. Plan(c) = s
    BY <1>9 DEF Plan
  <2> HIDE DEF s
  <2>3. Len(s) = 8 /\ \A i \in 1 .. 8 : i = 1 \/ i = 2 \/ i = 3 \/ i = 4 \/ i = 5 \/ i = 6 \/ i = 7 \/ i = 8
    BY <2>1
  <2>4. \A i \in 0 .. 6 : Later(s, i)
    BY <2>1 DEF Later
  <2>5. Applied(c, s)
    BY <1>9, <2>1, <2>3, <2>4 DEF Applied
  <2>6. Linked(s)
    BY <2>1, <2>3 DEF Linked
  <2>7. Belongs(c, s)
    BY <1>9, <2>1, <2>3 DEF Belongs
  <2>8. Good(c, s)
    BY <2>5, <2>6, <2>7 DEF Good
  <2>9. s # <<>>
    <3>1. s \in Seq(Stage) /\ Len(s) > 0
      BY <2>1
    <3> HIDE DEF Stage
    <3>2. QED
      BY <3>1, NotEmpty
  <2>10. QED
    BY <2>1, <2>2, <2>8, <2>9
<1>10. QED
  BY <1>1, <1>2, <1>3, <1>4, <1>5, <1>6, <1>7, <1>8, <1>9 DEF CallName

\* What is left after a stage.
LEMMA TailIsGood ==
  ASSUME NEW c, NEW s \in Seq(Stage), s # <<>>, Good(c, s), Tail(s) # <<>>
  PROVE  /\ Tail(s) \in Seq(Stage) /\ Good(c, Tail(s)) /\ Len(s) >= 2 /\ Head(Tail(s)) = s[2]
         /\ Later(s, 0) /\ s[1] # "apply" => Later(Tail(s), 0)
<1> DEFINE u == Tail(s)
<1>1. /\ u \in Seq(Stage) /\ Len(s) >= 2 /\ Len(s) \in Nat /\ Len(u) = Len(s) - 1
      /\ Head(u) = s[2] /\ \A i \in 1 .. Len(u) : u[i] = s[i + 1]
  OBVIOUS
<1> HIDE DEF u
<1>2. Linked(u)
  <2> SUFFICES ASSUME NEW i \in 1 .. Len(u) - 1
               PROVE  /\ u[i + 1] = "store" => u[i] = "snap"
                      /\ u[i + 1] = "flush" => u[i] = "store"
                      /\ u[i + 1] = "push"  => u[i] = "apply"
                      /\ u[i + 1] = "put"   => u[i] = "copy"
                      /\ u[i + 1] = "wipe"  => u[i] = "close"
    BY DEF Linked
  <2>1. PICK j \in 1 .. Len(s) - 1 : j = i + 1 /\ u[i] = s[j] /\ u[i + 1] = s[j + 1]
    BY <1>1
  <2>2. QED
    BY <2>1 DEF Good, Linked
<1>3. ASSUME NEW i \in 0 .. Len(u), Later(s, i + 1)
      PROVE  Later(u, i)
  <2>1. PICK j \in i + 2 .. Len(s) : s[j] = "apply"
    BY <1>3 DEF Later
  <2>2. j - 1 \in i + 1 .. Len(u) /\ u[j - 1] = "apply"
    BY <1>1, <1>3, <2>1
  <2>3. QED
    BY <2>2 DEF Later
<1>4. Applied(c, u)
  <2> SUFFICES ASSUME NEW i \in 1 .. Len(u),
                      u[i] \in {"defaults", "install"}
                        \/ (u[i] = "put" /\ c \notin {"pinmap", "connect"})
               PROVE  Later(u, i)
    BY DEF Applied
  <2>1. i + 1 \in 1 .. Len(s) /\ u[i] = s[i + 1]
    BY <1>1
  <2>2. Later(s, i + 1)
    BY <2>1 DEF Good, Applied
  <2>3. QED
    BY <1>3, <2>2
<1>5. Belongs(c, u)
  BY <1>1 DEF Good, Belongs
<1>6. Later(s, 0) /\ s[1] # "apply" => Later(u, 0)
  <2> SUFFICES ASSUME Later(s, 0), s[1] # "apply" PROVE Later(s, 1)
    BY <1>1, <1>3
  <2>1. PICK j \in 1 .. Len(s) : s[j] = "apply"
    BY DEF Later
  <2>2. QED
    BY <1>1, <2>1 DEF Later
<1>7. QED
  BY <1>1, <1>2, <1>4, <1>5, <1>6 DEF Good, u

\* An invalid entry puts its erasure before the read.
LEMMA EraseIsGood ==
  ASSUME NEW c, NEW s \in Seq(Stage), s # <<>>, Good(c, s), s[1] = "read"
  PROVE  LET u == <<"erase">> \o s IN
         /\ u \in Seq(Stage) /\ u # <<>> /\ Good(c, u) /\ u[1] = "erase"
         /\ Later(s, 0) => Later(u, 0)
<1> DEFINE u == <<"erase">> \o s
<1>1. /\ u \in Seq(Stage) /\ Len(u) = Len(s) + 1 /\ Len(s) \in Nat /\ Len(s) >= 1
      /\ u[1] = "erase" /\ \A i \in 1 .. Len(s) : u[i + 1] = s[i]
  BY DEF Stage
<1> HIDE DEF u
<1>2. \A i \in 2 .. Len(u) : i - 1 \in 1 .. Len(s) /\ u[i] = s[i - 1]
  <2> SUFFICES ASSUME NEW i \in 2 .. Len(u)
               PROVE  i - 1 \in 1 .. Len(s) /\ u[i] = s[i - 1]
    OBVIOUS
  <2>1. i - 1 \in 1 .. Len(s) /\ (i - 1) + 1 = i
    BY <1>1
  <2>2. QED
    BY <1>1, <2>1
<1>3. Linked(u)
  <2> SUFFICES ASSUME NEW i \in 1 .. Len(u) - 1
               PROVE  /\ u[i + 1] = "store" => u[i] = "snap"
                      /\ u[i + 1] = "flush" => u[i] = "store"
                      /\ u[i + 1] = "push"  => u[i] = "apply"
                      /\ u[i + 1] = "put"   => u[i] = "copy"
                      /\ u[i + 1] = "wipe"  => u[i] = "close"
    BY DEF Linked
  <2>1. CASE i = 1
    BY <1>1, <2>1
  <2>2. CASE i > 1
    <3>1. i - 1 \in 1 .. Len(s) - 1 /\ u[i] = s[i - 1] /\ u[i + 1] = s[i]
      BY <1>1, <1>2, <2>2
    <3>2. PICK j \in 1 .. Len(s) - 1 : j = i - 1 /\ i = j + 1
      BY <3>1
    <3>3. QED
      BY <3>1, <3>2 DEF Good, Linked
  <2>3. QED
    BY <2>1, <2>2
<1>4. ASSUME NEW i \in 0 .. Len(s), Later(s, i)
      PROVE  Later(u, i + 1)
  <2>1. PICK j \in i + 1 .. Len(s) : s[j] = "apply"
    BY <1>4 DEF Later
  <2>2. j + 1 \in (i + 1) + 1 .. Len(u) /\ u[j + 1] = "apply"
    BY <1>1, <1>4, <2>1
  <2>3. QED
    BY <2>2 DEF Later
<1>5. Applied(c, u)
  <2> SUFFICES ASSUME NEW i \in 1 .. Len(u),
                      u[i] \in {"defaults", "install"}
                        \/ (u[i] = "put" /\ c \notin {"pinmap", "connect"})
               PROVE  Later(u, i)
    BY DEF Applied
  <2>1. i \in 2 .. Len(u)
    BY <1>1
  <2>2. PICK j \in 1 .. Len(s) : j = i - 1 /\ i = j + 1 /\ u[i] = s[j]
    BY <1>2, <2>1
  <2>3. Later(s, j)
    BY <2>2 DEF Good, Applied
  <2>4. QED
    BY <1>4, <2>2, <2>3
<1>6. Belongs(c, u)
  <2> SUFFICES ASSUME NEW i \in 1 .. Len(u)
               PROVE  /\ u[i] = "idle" <=> c = "none"
                      /\ c = "save" => u[i] \in {"snap", "store", "flush"}
                      /\ u[i] \in {"close", "wipe"} => c = "format"
                      /\ u[i] = "close" => i < Len(u) /\ u[i + 1] = "wipe"
                      /\ u[i] = "apply" => i < Len(u) /\ u[i + 1] = "push"
                      /\ u[i] = "erase" => i < Len(u) /\ u[i + 1] = "read"
                      /\ u[i] \in {"read", "store"} => i < Len(u)
    BY DEF Belongs
  <2>1. CASE i = 1
    BY <1>1, <2>1 DEF Good, Belongs
  <2>2. CASE i # 1
    <3>1. PICK j \in 1 .. Len(s) : j = i - 1 /\ i = j + 1 /\ u[i] = s[j]
      BY <1>2, <2>2
    <3>2. j < Len(s) => i < Len(u) /\ u[i + 1] = s[j + 1]
      BY <1>1, <3>1
    <3>3. QED
      BY <3>1, <3>2 DEF Good, Belongs
  <2>3. QED
    BY <2>1, <2>2
<1>7. Later(s, 0) => Later(u, 0)
  <2>1. Later(s, 0) => Later(u, 1)
    BY <1>1, <1>4
  <2>2. Later(u, 1) => Later(u, 0)
    BY <1>1 DEF Later
  <2>3. QED
    BY <2>1, <2>2
<1>8. QED
  BY <1>1, <1>3, <1>5, <1>6, <1>7 DEF Good, u
(***************************************************************************)
(* The record of a call from stage to stage.                               *)
(***************************************************************************)
RecordOK(r) == r \in Record /\ r.todo # <<>> /\ Good(r.call, r.todo)

\* A save, a put and a push begin only where the stage before them ends.
Follows(r, q) ==
  /\ RecordOK(q)
  /\ Head(q.todo) = "store" => Head(r.todo) = "snap"
  /\ Head(q.todo) = "flush" => Head(r.todo) = "store"
  /\ Head(q.todo) = "push"  => Head(r.todo) = "apply"
  /\ Head(q.todo) = "put"   => Head(r.todo) = "copy"
  /\ Head(q.todo) = "wipe"  => Head(r.todo) = "close"

\* The call goes on, and what it has still to apply it still has.
GoesOn(r, q) ==
  /\ q.call = r.call \/ (q.call = "none" /\ r.call # "none")
  /\ q.call # "none" => q.key = r.key
  /\ Later(r.todo, 0) /\ Head(r.todo) # "apply" => Later(q.todo, 0)

LEMMA IdleIsOK == RecordOK(Idle) /\ Idle.call = "none" /\ Head(Idle.todo) = "idle"
<1>1. Idle \in Record
  BY DEF Idle, Record, Stage, Key
<1>2. Idle.todo = <<"idle">> /\ Idle.call = "none"
  BY DEF Idle
<1>3. Good("none", <<"idle">>)
  BY DEF Good, Linked, Applied, Belongs
<1>4. QED
  BY <1>1, <1>2, <1>3 DEF RecordOK

LEMMA ApplyingIsOK ==
  /\ Applying \in Seq(Stage) /\ Applying # <<>> /\ Head(Applying) = "apply"
  /\ Good("post", Applying) /\ Later(Applying, 0)
<1>1. Applying \in Seq(Stage) /\ Len(Applying) = 2 /\ Applying[1] = "apply" /\ Applying[2] = "push"
  BY DEF Applying, Stage
<1>2. Applying # <<>> /\ Head(Applying) = "apply"
  BY DEF Applying
<1>3. Later(Applying, 0)
  BY <1>1 DEF Later
<1>4. Good("post", Applying)
  BY <1>1 DEF Good, Linked, Applied, Belongs
<1>5. QED
  BY <1>1, <1>2, <1>3, <1>4

LEMMA TailFollows ==
  ASSUME NEW r, RecordOK(r), Tail(r.todo) # <<>>,
         NEW q \in Record, q.call = r.call, q.key = r.key, q.todo = Tail(r.todo)
  PROVE  Follows(r, q) /\ GoesOn(r, q)
<1> DEFINE s == r.todo
<1>1. s \in Seq(Stage) /\ s # <<>> /\ Good(r.call, s) /\ Head(s) = s[1]
  BY DEF RecordOK, Record
<1>2. /\ Tail(s) \in Seq(Stage) /\ Good(r.call, Tail(s)) /\ Len(s) >= 2 /\ Head(Tail(s)) = s[2]
      /\ Later(s, 0) /\ s[1] # "apply" => Later(Tail(s), 0)
  BY <1>1, TailIsGood
<1>3. /\ s[2] = "store" => s[1] = "snap"
      /\ s[2] = "flush" => s[1] = "store"
      /\ s[2] = "push"  => s[1] = "apply"
      /\ s[2] = "put"   => s[1] = "copy"
      /\ s[2] = "wipe"  => s[1] = "close"
  <2>1. 1 \in 1 .. Len(s) - 1
    BY <1>1, <1>2
  <2>2. QED
    BY <1>1, <2>1 DEF Good, Linked
<1>4. QED
  BY <1>1, <1>2, <1>3 DEF Follows, GoesOn, RecordOK
LEMMA LastOne ==
  ASSUME NEW s \in Seq(Stage), s # <<>>, Tail(s) = <<>>
  PROVE  Len(s) = 1 /\ Head(s) = s[1]
<1>1. Len(Tail(s)) = Len(s) - 1 /\ Len(s) \in Nat /\ Len(s) # 0 /\ Head(s) = s[1]
  OBVIOUS
<1>2. Len(Tail(s)) = 0
  BY EmptySeq
<1>3. QED
  BY <1>1, <1>2

LEMMA IdleFollows == \A r : Follows(r, Idle)
BY IdleIsOK DEF Follows

\* Rest(t), with the other fields changed or not.
LEMMA RestIsOK ==
  ASSUME NEW t \in Task, RecordOK(task[t])
  PROVE  LET r == task[t]  q == Rest(t) IN
         /\ Follows(r, q) /\ q \in Record
         /\ GoesOn(r, q)
         /\ q # Idle => /\ q.snap = r.snap /\ q.val = r.val /\ q.next = r.next
                        /\ q.dirty = r.dirty /\ q.alone = r.alone
         /\ \A w \in Record : w.call = q.call /\ w.key = q.key /\ w.todo = q.todo
              => Follows(r, w) /\ GoesOn(r, w)
<1> DEFINE r == task[t]
           q == Rest(t)
<1>0. r \in Record /\ r.todo # <<>> /\ r.todo \in Seq(Stage) /\ Good(r.call, r.todo)
  BY DEF RecordOK, Record
<1>1. CASE Tail(r.todo) # <<>>
  <2>1. q = [r EXCEPT !.todo = Tail(r.todo)]
    BY <1>1 DEF Rest
  <2>2. Tail(r.todo) \in Seq(Stage)
    BY <1>0, <1>1, TailIsGood
  <2>3. /\ q \in Record /\ q.call = r.call /\ q.key = r.key /\ q.todo = Tail(r.todo)
        /\ q.snap = r.snap /\ q.val = r.val /\ q.next = r.next
        /\ q.dirty = r.dirty /\ q.alone = r.alone
    BY <1>0, <2>1, <2>2 DEF Record
  <2>4. \A w \in Record : w.call = q.call /\ w.key = q.key /\ w.todo = q.todo
          => Follows(r, w) /\ GoesOn(r, w)
    BY <1>0, <1>1, <2>3, TailFollows
  <2>5. QED
    BY <2>3, <2>4
<1>2. CASE Tail(r.todo) = <<>>
  <2>1. q = Idle
    BY <1>2 DEF Rest
  <2>2. Len(r.todo) = 1 /\ Head(r.todo) = r.todo[1]
    BY <1>0, <1>2, LastOne
  <2>3. ~Later(r.todo, 0) \/ Head(r.todo) = "apply"
    BY <2>2 DEF Later
  <2>4. \A w \in Record : w.call = q.call /\ w.todo = q.todo => Follows(r, w)
    BY <2>1, IdleIsOK DEF Follows, RecordOK
  <2>5. \A w \in Record : w.call = "none" => GoesOn(r, w)
    BY <2>3 DEF GoesOn
  <2>6. QED
    BY <2>1, <2>4, <2>5, IdleIsOK DEF RecordOK
<1>3. QED
  BY <1>1, <1>2
(***************************************************************************)
(* What reboots find.                                                      *)
(***************************************************************************)
LEMMA RecordsOK ==
  ASSUME StoreInv, NEW t \in Task
  PROVE  RecordOK(task[t]) /\ task[t].snap \in [Key -> Value] /\ task[t].next \in Key
BY DEF StoreInv, TypeOK, ShapesOK, RecordOK, Record

LEMMA DecodeEncode ==
  ASSUME NEW k \in Key, NEW v \in Value
  PROVE  /\ Decode(k, Encode(k, v)) = v /\ Encode(k, v) \in Value \cup {NoOverride, Junk}
         /\ Decode(k, NoOverride) = Default[k] /\ Decode(k, Junk) = Default[k]
BY DEF Decode, Encode

\* What a step does to the records, to the saves in progress apart.
Sets(t, q)     == task' = [task EXCEPT ![t] = q]
Overlaps(t, q) == task' = Overlap(t, q)

LEMMA OthersStay ==
  ASSUME NEW t \in Task, NEW q, Sets(t, q), task \in [Task -> Record]
  PROVE  \A u \in Task \ {t} : task'[u] = task[u]
BY DEF Sets

LEMMA SetRecords ==
  ASSUME StoreInv, NEW t \in Task, NEW q, RecordOK(q), Sets(t, q) \/ Overlaps(t, q)
  PROVE  /\ task' \in [Task -> Record] /\ (\A u \in Task : task'[u].todo # <<>>) /\ ShapesOK'
         /\ task'[t] = q
         /\ \A u \in Task \ {t} : /\ task'[u].todo = task[u].todo /\ task'[u].snap = task[u].snap
                                  /\ task'[u].call = task[u].call /\ task'[u].key = task[u].key
                                  /\ task'[u].alone => task[u].alone /\ task'[u] = task[u]
                                  /\ Overlaps(t, q) => ~task'[u].alone
<1>1. CASE Sets(t, q)
  <2>1. /\ task \in [Task -> Record] /\ \A u \in Task : RecordOK(task[u])
    BY RecordsOK DEF StoreInv, TypeOK
  <2>2. \A u \in Task : task'[u] = IF u = t THEN q ELSE task[u]
    BY <1>1, <2>1 DEF Sets
  <2>3. /\ task' \in [Task -> Record] /\ \A u \in Task : RecordOK(task'[u])
    BY <1>1, <2>1 DEF RecordOK, Sets
  <2>4. ASSUME Overlaps(t, q) PROVE \A u \in Task \ {t} : ~task'[u].alone
    <3> SUFFICES ASSUME NEW u \in Task \ {t} PROVE ~task'[u].alone
      OBVIOUS
    <3>1. task'[u] = [task[u] EXCEPT !.alone = FALSE]
      BY <2>4 DEF Overlaps, Overlap
    <3>2. QED
      BY <2>1, <3>1 DEF Record
  <2>5. QED
    BY <2>2, <2>3, <2>4 DEF ShapesOK, RecordOK
<1>2. CASE Overlaps(t, q)
  <2>1. /\ task \in [Task -> Record] /\ \A u \in Task : RecordOK(task[u])
    BY RecordsOK DEF StoreInv, TypeOK
  <2>2. task'[t] = q
    BY <1>2 DEF Overlaps, Overlap
  <2>3. ASSUME NEW u \in Task \ {t}
        PROVE  LET w == task'[u] IN
               /\ w \in Record /\ w.todo = task[u].todo /\ w.snap = task[u].snap
               /\ w.call = task[u].call /\ w.key = task[u].key /\ ~w.alone
    <3>1. task'[u] = [task[u] EXCEPT !.alone = FALSE] /\ task[u] \in Record
      BY <1>2, <2>1 DEF Overlaps, Overlap
    <3>2. QED
      BY <3>1 DEF Record
  <2>4. \A u \in Task : task'[u] \in Record /\ RecordOK(task'[u])
    BY <2>1, <2>2, <2>3 DEF RecordOK
  <2>5. task' \in [Task -> Record]
    <3>1. task' = [u \in Task |-> IF u = t THEN q ELSE [task[u] EXCEPT !.alone = FALSE]]
      BY <1>2 DEF Overlaps, Overlap
    <3>2. \A u \in Task : (IF u = t THEN q ELSE [task[u] EXCEPT !.alone = FALSE]) \in Record
      BY <2>4, <3>1
    <3>3. QED
      BY <3>1, <3>2
  <2>6. QED
    BY <2>2, <2>3, <2>4, <2>5 DEF ShapesOK, RecordOK
<1>3. QED
  BY <1>1, <1>2

\* A step that stores nothing, or that the saves in progress are told of.
LEMMA QuietSaves ==
  ASSUME StoreInv, NEW t \in Task, NEW q, RecordOK(q), Head(q.todo) \notin {"store", "flush"},
         (Sets(t, q) /\ nvs' = nvs) \/ Overlaps(t, q),
         \A k \in Key : offers[k] \subseteq offers'[k]
  PROVE  SavesOK'
<1>1. /\ task'[t] = q
      /\ \A u \in Task \ {t} : /\ task'[u].todo = task[u].todo /\ task'[u].snap = task[u].snap
                               /\ task'[u].alone => task[u].alone /\ task'[u] = task[u]
                               /\ Overlaps(t, q) => ~task'[u].alone
  BY SetRecords
<1> SUFFICES ASSUME NEW u \in Task, InSave(u)'
             PROVE  /\ \A k \in Key : task'[u].snap[k] \in offers'[k]
                    /\ task'[u].alone =>
                         /\ \A w \in Task \ {u} : ~InSave(w)'
                         /\ \A k \in Key : At(u, "flush")' \/ k < task'[u].next
                              => nvs'[k] = Encode(k, task'[u].snap[k])
  BY DEF SavesOK
<1>2. u # t /\ InSave(u)
  BY <1>1 DEF InSave, At
<1>3. \A k \in Key : task'[u].snap[k] \in offers'[k]
  BY <1>1, <1>2 DEF StoreInv, SavesOK
<1>4. ASSUME task'[u].alone
      PROVE  /\ \A w \in Task \ {u} : ~InSave(w)'
             /\ \A k \in Key : At(u, "flush")' \/ k < task'[u].next
                  => nvs'[k] = Encode(k, task'[u].snap[k])
  <2>1. task[u].alone /\ task'[u] = task[u] /\ nvs' = nvs
    BY <1>1, <1>2, <1>4
  <2>2. \A w \in Task \ {u} : ~InSave(w)
    BY <1>2, <2>1 DEF StoreInv, SavesOK
  <2>3. \A w \in Task \ {u} : ~InSave(w)'
    BY <1>1, <2>2 DEF InSave, At
  <2>4. QED
    BY <1>2, <2>1, <2>3 DEF StoreInv, SavesOK, At
<1>5. QED
  BY <1>3, <1>4

LEMMA QuietStep ==
  ASSUME StoreInv, NEW t \in Task, NEW q, RecordOK(q), Head(q.todo) \notin {"store", "flush"},
         Sets(t, q),
         config' \in [Key -> Value], last' \in [Key -> Value], applied' \in [LiveKey -> Value],
         open' \in BOOLEAN, UNCHANGED <<nvs, offers>>, durable' = durable \/ durable' = nvs,
         calls' \in Nat, faults' \in Nat, crashes' \in Nat
  PROVE  StoreInv'
<1>1. task' \in [Task -> Record] /\ (\A u \in Task : task'[u].todo # <<>>) /\ ShapesOK'
  BY SetRecords
<1>2. SavesOK'
  BY QuietSaves
<1>3. OffersOK'
  BY DEF StoreInv, OffersOK, Decode
<1>4. /\ nvs' \in [Key -> Value \cup {NoOverride, Junk}]
      /\ durable' \in [Key -> Value \cup {NoOverride, Junk}]
      /\ offers' \in [Key -> SUBSET Value]
  BY DEF StoreInv, TypeOK
<1>5. TypeOK'
  BY <1>1, <1>4 DEF TypeOK
<1>6. QED
  BY <1>1, <1>2, <1>3, <1>5 DEF StoreInv

LEMMA NextKeyIsOK ==
  ASSUME NEW r, RecordOK(r), Head(r.todo) \in {"read", "store"}
  PROVE  LET q == NextKey(r) IN
         /\ Follows(r, q) \/ Head(q.todo) = Head(r.todo)
         /\ RecordOK(q) /\ GoesOn(r, q)
         /\ q.snap = r.snap /\ q.alone = r.alone /\ q.call = r.call /\ q.key = r.key
         /\ \/ r.next < KeyCount /\ q.todo = r.todo /\ q.next = r.next + 1
            \/ r.next = KeyCount /\ q.todo = Tail(r.todo) /\ q.next = 1
         /\ Len(r.todo) >= 2 /\ Head(Tail(r.todo)) = r.todo[2]
<1> DEFINE q == NextKey(r)
           s == r.todo
<1>0. r \in Record /\ s # <<>> /\ s \in Seq(Stage) /\ Good(r.call, s) /\ r.next \in Key /\ Head(s) = s[1]
  BY DEF RecordOK, Record
<1>1. Len(s) > 1
  <2>1. 1 \in 1 .. Len(s)
    BY <1>0
  <2>2. QED
    BY <1>0, <2>1 DEF Good, Belongs
<1>2. Tail(s) # <<>> /\ Len(s) >= 2 /\ Head(Tail(s)) = s[2]
  <2>1. Len(Tail(s)) > 0 /\ Len(s) >= 2 /\ Head(Tail(s)) = s[2]
    BY <1>0, <1>1
  <2>2. Tail(s) \in Seq(Stage)
    BY <1>0, HeadTailProperties
  <2>3. QED
    BY <2>1, <2>2, NotEmpty
<1>3. CASE r.next < KeyCount
  <2>1. q = [r EXCEPT !.next = r.next + 1]
    BY <1>3 DEF NextKey
  <2>2. r.next + 1 \in Key
    BY <1>0, <1>3 DEF Key
  <2>3. /\ q \in Record /\ q.todo = r.todo /\ q.next = r.next + 1 /\ q.snap = r.snap
        /\ q.alone = r.alone /\ q.call = r.call /\ q.key = r.key
    BY <1>0, <2>1, <2>2 DEF Record
  <2>4. QED
    BY <1>0, <1>2, <1>3, <2>3 DEF RecordOK, GoesOn
<1>4. CASE ~(r.next < KeyCount)
  <2>1. q = [r EXCEPT !.todo = Tail(r.todo), !.next = 1]
    BY <1>4 DEF NextKey
  <2>2. Tail(s) \in Seq(Stage) /\ 1 \in Key
    BY <1>0, <1>2, TailIsGood DEF Key
  <2>3. /\ q \in Record /\ q.todo = Tail(r.todo) /\ q.next = 1 /\ q.snap = r.snap
        /\ q.alone = r.alone /\ q.call = r.call /\ q.key = r.key
    BY <1>0, <2>1, <2>2 DEF Record
  <2>4. Follows(r, q) /\ GoesOn(r, q)
    BY <1>2, <2>3, TailFollows
  <2>5. r.next = KeyCount
    BY <1>0, <1>4 DEF Key
  <2>6. QED
    BY <1>2, <2>3, <2>4, <2>5 DEF Follows
<1>5. QED
  BY <1>3, <1>4

\* A save that fails: the call ends, or goes on to apply.
LEMMA FailIsOK ==
  ASSUME StoreInv, NEW t \in Task, InSave(t), SaveFails(t)
  PROVE  \E q : /\ RecordOK(q) /\ Sets(t, q)
                /\ \/ q = Idle /\ task[t].call # "post"
                   \/ /\ task[t].call = "post" /\ q.call = "post" /\ q.key = task[t].key
                      /\ Later(q.todo, 0)
                /\ Head(q.todo) \in {"idle", "apply"}
<1>1. RecordOK(task[t])
  BY RecordsOK
<1>2. CASE task[t].call = "post"
  <2> DEFINE q == [task[t] EXCEPT !.todo = Applying]
  <2>1. q \in Record /\ q.todo = Applying /\ q.call = "post" /\ q.key = task[t].key
    BY <1>1, <1>2, ApplyingIsOK DEF RecordOK, Record
  <2>2. Sets(t, q)
    BY <1>2 DEF SaveFails, Sets
  <2> HIDE DEF q
  <2>3. RecordOK(q)
    BY <2>1, ApplyingIsOK DEF RecordOK
  <2>4. Later(q.todo, 0) /\ Head(q.todo) = "apply"
    BY <2>1, ApplyingIsOK
  <2>5. QED
    BY <1>2, <2>1, <2>2, <2>3, <2>4
<1>3. CASE task[t].call # "post"
  BY <1>3, IdleIsOK DEF SaveFails, Return, Sets
<1>4. QED
  BY <1>2, <1>3

LEMMA CallStores ==
  ASSUME StoreInv, NEW t \in Task, Call(t)
  PROVE  StoreInv'
<1>1. PICK c \in Calls[t], k \in Key, v \in Value :
        task' = [task EXCEPT ![t] = [Idle EXCEPT !.call = c, !.todo = Plan(c), !.key = k, !.val = v]]
  BY DEF Call
<1> DEFINE q == [Idle EXCEPT !.call = c, !.todo = Plan(c), !.key = k, !.val = v]
<1>2. c \in CallName
  OBVIOUS
<1>3. /\ Plan(c) \in Seq(Stage) /\ Plan(c) # <<>> /\ Good(c, Plan(c))
      /\ Plan(c)[1] \notin {"store", "flush"} /\ Head(Plan(c)) = Plan(c)[1]
  BY <1>2, PlanIsGood
<1>4. q \in Record /\ q.call = c /\ q.todo = Plan(c)
  BY <1>2, <1>3, IdleIsOK DEF RecordOK, Record
<1>5. Sets(t, q)
  BY <1>1 DEF Sets
<1> HIDE DEF q
<1>6. RecordOK(q) /\ Head(q.todo) \notin {"store", "flush"}
  BY <1>3, <1>4 DEF RecordOK
<1>7. QED
  BY <1>5, <1>6, QuietStep DEF Call, StoreInv, TypeOK, store

\* The actions whose record is Rest(t), with other values in it or not.
LEMMA RestStores ==
  ASSUME StoreInv, NEW t \in Task,
         Copy(t) \/ Put(t) \/ Defaults(t) \/ CopyToApply(t) \/ ConfigApply(t)
           \/ Repair(t) \/ Install(t) \/ CloseStore(t)
  PROVE  StoreInv'
<1>0. RecordOK(task[t]) /\ task[t] \in Record
  BY RecordsOK DEF RecordOK
<1>1. /\ Follows(task[t], Rest(t)) /\ Rest(t) \in Record
      /\ \A w \in Record : w.call = Rest(t).call /\ w.key = Rest(t).key /\ w.todo = Rest(t).todo
           => Follows(task[t], w)
  BY <1>0, RestIsOK
<1>2. ASSUME NEW q, Follows(task[t], q), Head(task[t].todo) \notin {"snap", "store"}
      PROVE  RecordOK(q) /\ Head(q.todo) \notin {"store", "flush"}
  BY <1>2 DEF Follows
<1>3. /\ config \in [Key -> Value] /\ last \in [Key -> Value] /\ applied \in [LiveKey -> Value]
      /\ open \in BOOLEAN /\ calls \in Nat /\ faults \in Nat /\ crashes \in Nat
      /\ Default \in [Key -> Value]
      /\ task[t].snap \in [Key -> Value] /\ task[t].key \in Key /\ task[t].val \in Value
  BY <1>0 DEF StoreInv, TypeOK, Record
<1>4. CASE Copy(t)
  <2>1. PICK v \in Value : task' = [task EXCEPT ![t] = [Rest(t) EXCEPT !.snap = config, !.val = v]]
    BY <1>3, <1>4 DEF Copy
  <2> DEFINE q == [Rest(t) EXCEPT !.snap = config, !.val = v]
  <2>2. /\ q \in Record /\ q.call = Rest(t).call /\ q.key = Rest(t).key /\ q.todo = Rest(t).todo
    BY <1>1, <1>3 DEF Record
  <2>3. Sets(t, q)
    BY <2>1 DEF Sets
  <2> HIDE DEF q
  <2>4. RecordOK(q) /\ Head(q.todo) \notin {"store", "flush"}
    BY <1>1, <1>2, <1>4, <2>2 DEF Copy, At
  <2>5. QED
    BY <1>3, <1>4, <2>3, <2>4, QuietStep DEF Copy, store, bounds
<1>5. CASE CopyToApply(t)
  <2> DEFINE q == [Rest(t) EXCEPT !.snap = config]
  <2>2. /\ q \in Record /\ q.call = Rest(t).call /\ q.key = Rest(t).key /\ q.todo = Rest(t).todo
    BY <1>1, <1>3 DEF Record
  <2>3. Sets(t, q)
    BY <1>5 DEF CopyToApply, Sets
  <2> HIDE DEF q
  <2>4. RecordOK(q) /\ Head(q.todo) \notin {"store", "flush"}
    BY <1>1, <1>2, <1>5, <2>2 DEF CopyToApply, At
  <2>5. QED
    BY <1>3, <1>5, <2>3, <2>4, QuietStep DEF CopyToApply, store, bounds
<1>6. CASE Put(t) \/ Defaults(t) \/ ConfigApply(t) \/ Repair(t) \/ Install(t) \/ CloseStore(t)
  <2>1. Sets(t, Rest(t)) /\ Head(task[t].todo) \notin {"snap", "store"}
    BY <1>6 DEF Put, Defaults, ConfigApply, Repair, Install, CloseStore, Advance, Sets, At
  <2>2. RecordOK(Rest(t)) /\ Head(Rest(t).todo) \notin {"store", "flush"}
    BY <1>1, <1>2, <2>1
  <2>3. CASE Put(t)
    <3>1. config' \in [Key -> Value] /\ last' \in [Key -> Value]
      BY <1>3, <2>3 DEF Put
    <3>2. QED
      BY <1>3, <2>1, <2>2, <2>3, <3>1, QuietStep DEF Put, store, bounds
  <2>4. CASE Defaults(t)
    BY <1>3, <2>1, <2>2, <2>4, QuietStep DEF Defaults, store, bounds
  <2>5. CASE ConfigApply(t)
    <3>1. applied' \in [LiveKey -> Value]
      BY <1>3, <2>5 DEF ConfigApply
    <3>2. QED
      BY <1>3, <2>1, <2>2, <2>5, <3>1, QuietStep DEF ConfigApply, store, bounds
  <2>6. CASE Repair(t)
    <3>1. (durable' = durable \/ durable' = nvs) /\ faults' \in Nat
      BY <1>3, <2>6 DEF Repair, Fault
    <3>2. QED
      BY <1>3, <2>1, <2>2, <2>6, <3>1, QuietStep DEF Repair
  <2>7. CASE Install(t)
    BY <1>3, <2>1, <2>2, <2>7, QuietStep DEF Install, store, bounds
  <2>8. CASE CloseStore(t)
    BY <1>3, <2>1, <2>2, <2>8, QuietStep DEF CloseStore, store, bounds
  <2>9. QED
    BY <1>6, <2>3, <2>4, <2>5, <2>6, <2>7, <2>8
<1>7. QED
  BY <1>4, <1>5, <1>6

\* What an action that writes to the store leaves alone.
LEMMA StoreTypes ==
  ASSUME StoreInv, NEW t \in Task
  PROVE  /\ config \in [Key -> Value] /\ last \in [Key -> Value] /\ applied \in [LiveKey -> Value]
         /\ open \in BOOLEAN /\ calls \in Nat /\ faults \in Nat /\ crashes \in Nat
         /\ nvs \in [Key -> Value \cup {NoOverride, Junk}]
         /\ durable \in [Key -> Value \cup {NoOverride, Junk}]
         /\ offers \in [Key -> SUBSET Value] /\ Default \in [Key -> Value]
         /\ task[t].snap \in [Key -> Value] /\ task[t].next \in Key /\ task[t].key \in Key
         /\ task[t].alone \in BOOLEAN /\ task[t].todo \in Seq(Stage)
         /\ RecordOK(task[t]) /\ task[t] \in Record
BY RecordsOK DEF StoreInv, TypeOK, Record, RecordOK

\* A read goes on with the next key, the next stage or the erasure of the key.
LEMMA ReadRecord ==
  ASSUME StoreInv, NEW t \in Task, ReadKey(t)
  PROVE  \E q : /\ RecordOK(q) /\ Sets(t, q) /\ GoesOn(task[t], q)
                /\ Head(q.todo) \notin {"store", "flush", "put", "push", "wipe"}
<1> DEFINE n == task[t].next
           Read(v) == [task[t] EXCEPT !.snap[n] = v]
           Goes(q) == /\ RecordOK(q) /\ Sets(t, q) /\ GoesOn(task[t], q)
                       /\ Head(q.todo) \notin {"store", "flush", "put", "push", "wipe"}
<1>0. Head(task[t].todo) = "read"
  BY DEF ReadKey, At
<1>1. ASSUME NEW v \in Value
      PROVE  LET r == Read(v) IN
             /\ r \in Record /\ RecordOK(r) /\ r.todo = task[t].todo
             /\ r.call = task[t].call /\ r.key = task[t].key
  <2> DEFINE r == Read(v)
  <2>1. r \in Record /\ r.todo = task[t].todo /\ r.call = task[t].call /\ r.key = task[t].key
    BY StoreTypes DEF Record
  <2>2. QED
    BY <2>1, StoreTypes DEF RecordOK
<1>4. ASSUME NEW v \in Value, task' = [task EXCEPT ![t] = NextKey(Read(v))]
      PROVE  \E q : Goes(q)
  <2> DEFINE r == Read(v)
             q == NextKey(r)
  <2>1. RecordOK(r) /\ Head(r.todo) = "read" /\ r.todo = task[t].todo /\ r.call = task[t].call
        /\ r.key = task[t].key
    BY <1>0, <1>1
  <2>2. Sets(t, q)
    BY <1>4 DEF Sets
  <2> HIDE DEF r
  <2>3. RecordOK(q) /\ (Follows(r, q) \/ Head(q.todo) = Head(r.todo)) /\ GoesOn(r, q)
    BY <2>1, NextKeyIsOK
  <2>4. Head(q.todo) \notin {"store", "flush", "put", "push", "wipe"}
    BY <2>1, <2>3 DEF Follows
  <2> HIDE DEF q
  <2>5. GoesOn(task[t], q)
    BY <2>1, <2>3 DEF GoesOn
  <2>6. QED
    BY <2>2, <2>3, <2>4, <2>5
<1>5. ASSUME task' = [task EXCEPT ![t] = [Read(Decode(n, Junk)) EXCEPT !.todo = <<"erase">> \o @]]
      PROVE  \E q : Goes(q)
  <2> DEFINE r == Read(Default[n])
             q == [r EXCEPT !.todo = <<"erase">> \o r.todo]
  <2>1. Decode(n, Junk) = Default[n] /\ Default[n] \in Value
    BY StoreTypes DEF Decode
  <2>2. Sets(t, q)
    BY <1>5, <2>1 DEF Sets
  <2>3. r \in Record /\ RecordOK(r) /\ Head(r.todo) = "read" /\ r.todo = task[t].todo
        /\ r.call = task[t].call /\ r.key = task[t].key
    BY <1>0, <1>1, <2>1
  <2> HIDE DEF r
  <2>4. /\ r.todo \in Seq(Stage) /\ r.todo # <<>> /\ Good(r.call, r.todo) /\ r.todo[1] = "read"
    BY <2>3 DEF RecordOK, Record
  <2> DEFINE u == <<"erase">> \o r.todo
  <2>5. u \in Seq(Stage) /\ u # <<>> /\ Good(r.call, u) /\ u[1] = "erase" /\ Head(u) = u[1]
        /\ (Later(r.todo, 0) => Later(u, 0))
    BY <2>4, EraseIsGood
  <2> HIDE DEF u
  <2>6. q \in Record /\ q.todo = u /\ q.call = r.call /\ q.key = r.key
    BY <2>3, <2>5 DEF Record, u
  <2> HIDE DEF q
  <2>7. RecordOK(q) /\ Head(q.todo) = "erase" /\ GoesOn(task[t], q)
    BY <2>3, <2>5, <2>6 DEF RecordOK, GoesOn
  <2>8. QED
    BY <2>2, <2>7
<1>6. \/ \E v \in Value : task' = [task EXCEPT ![t] = NextKey(Read(v))]
      \/ task' = [task EXCEPT ![t] = [Read(Decode(n, Junk)) EXCEPT !.todo = <<"erase">> \o @]]
  <2>1. Default[n] \in Value /\ Decode(n, nvs[n]) \in Value
    BY StoreTypes DEF Decode
  <2>2. QED
    BY <2>1 DEF ReadKey
<1>7. QED
  BY <1>4, <1>5, <1>6

LEMMA ReadStores ==
  ASSUME StoreInv, NEW t \in Task, ReadKey(t)
  PROVE  StoreInv'
<1>1. PICK q : RecordOK(q) /\ Sets(t, q) /\ Head(q.todo) \notin {"store", "flush"}
  BY ReadRecord
<1>2. UNCHANGED <<config, applied, open, store, offers, last, calls, crashes>> /\ faults' \in Nat
  BY StoreTypes DEF ReadKey, Fault
<1>3. QED
  BY <1>1, <1>2, StoreTypes, QuietStep DEF store

\* An erasure, done or not, goes on as the read would have.
LEMMA EraseRecord ==
  ASSUME StoreInv, NEW t \in Task, EraseKey(t)
  PROVE  \E q : /\ RecordOK(q) /\ GoesOn(task[t], q)
                /\ Head(q.todo) \notin {"store", "flush", "put", "push", "wipe"}
                /\ LET n == task[t].next IN
                   \/ /\ Overlaps(t, q) /\ nvs' = [nvs EXCEPT ![n] = NoOverride]
                      /\ offers' = [offers EXCEPT ![n] = @ \cup {Default[n]}] /\ UNCHANGED faults
                   \/ Sets(t, q) /\ UNCHANGED <<nvs, offers>> /\ (faults' = faults \/ Fault)
<1> DEFINE n == task[t].next
           r(d) == [task[t] EXCEPT !.todo = Tail(task[t].todo), !.dirty = task[t].dirty \/ d]
           q(d) == NextKey(r(d))
<1>0. Head(task[t].todo) = "erase"
  BY DEF EraseKey, At
<1>1. /\ Tail(task[t].todo) \in Seq(Stage) /\ Tail(task[t].todo) # <<>> /\ Head(Tail(task[t].todo)) = "read"
      /\ Good(task[t].call, Tail(task[t].todo))
      /\ Later(task[t].todo, 0) => Later(Tail(task[t].todo), 0)
  <2> DEFINE s == task[t].todo
  <2>1. s \in Seq(Stage) /\ s # <<>> /\ Good(task[t].call, s) /\ s[1] = "erase"
    BY <1>0, StoreTypes DEF RecordOK
  <2> HIDE DEF s
  <2>2. 1 < Len(s) /\ s[2] = "read"
    <3>1. 1 \in 1 .. Len(s)
      BY <2>1
    <3>2. QED
      BY <2>1, <3>1 DEF Good, Belongs
  <2>3. Len(Tail(s)) > 0 /\ Tail(s) \in Seq(Stage)
    BY <2>1, <2>2, HeadTailProperties
  <2>4. Tail(s) # <<>>
    BY <2>3, NotEmpty
  <2>5. QED
    BY <2>1, <2>2, <2>4, TailIsGood DEF s
<1>2. ASSUME NEW d \in BOOLEAN
      PROVE  /\ RecordOK(q(d)) /\ GoesOn(task[t], q(d))
             /\ Head(q(d).todo) \notin {"store", "flush", "put", "push", "wipe"}
  <2> DEFINE w == r(d)
  <2>1. /\ w \in Record /\ w.todo = Tail(task[t].todo) /\ w.call = task[t].call
        /\ w.key = task[t].key
    BY <1>1, StoreTypes DEF Record
  <2> HIDE DEF w
  <2>2. RecordOK(w) /\ Head(w.todo) = "read"
    BY <1>1, <2>1 DEF RecordOK
  <2>3. RecordOK(NextKey(w)) /\ (Follows(w, NextKey(w)) \/ Head(NextKey(w).todo) = Head(w.todo))
        /\ GoesOn(w, NextKey(w))
    BY <2>2, NextKeyIsOK
  <2>4. GoesOn(task[t], NextKey(w))
    BY <1>1, <2>1, <2>2, <2>3 DEF GoesOn
  <2>5. QED
    BY <2>2, <2>3, <2>4 DEF Follows, w
<1>3. \/ /\ Overlaps(t, q(TRUE)) /\ nvs' = [nvs EXCEPT ![n] = NoOverride]
         /\ offers' = [offers EXCEPT ![n] = @ \cup {Default[n]}] /\ UNCHANGED faults
      \/ Sets(t, q(FALSE)) /\ UNCHANGED <<nvs, offers>> /\ (faults' = faults \/ Fault)
  BY DEF EraseKey, Sets, Overlaps
<1>4. /\ RecordOK(q(TRUE)) /\ GoesOn(task[t], q(TRUE))
      /\ Head(q(TRUE).todo) \notin {"store", "flush", "put", "push", "wipe"}
      /\ RecordOK(q(FALSE)) /\ GoesOn(task[t], q(FALSE))
      /\ Head(q(FALSE).todo) \notin {"store", "flush", "put", "push", "wipe"}
  BY <1>2
<1> HIDE DEF q
<1>5. QED
  BY <1>3, <1>4

LEMMA EraseStores ==
  ASSUME StoreInv, NEW t \in Task, EraseKey(t)
  PROVE  StoreInv'
<1> DEFINE n == task[t].next
<1>1. PICK q : /\ RecordOK(q) /\ Head(q.todo) \notin {"store", "flush"}
               /\ \/ /\ Overlaps(t, q) /\ nvs' = [nvs EXCEPT ![n] = NoOverride]
                     /\ offers' = [offers EXCEPT ![n] = @ \cup {Default[n]}] /\ UNCHANGED faults
                  \/ Sets(t, q) /\ UNCHANGED <<nvs, offers>> /\ (faults' = faults \/ Fault)
  BY EraseRecord
<1>2. UNCHANGED <<config, applied, open, durable, last, calls, crashes>>
  BY DEF EraseKey
<1>3. CASE Sets(t, q) /\ UNCHANGED <<nvs, offers>> /\ (faults' = faults \/ Fault)
  <2>1. faults' \in Nat
    BY <1>3, StoreTypes DEF Fault
  <2>2. QED
    BY <1>1, <1>2, <1>3, <2>1, StoreTypes, QuietStep
<1>4. CASE /\ Overlaps(t, q) /\ nvs' = [nvs EXCEPT ![n] = NoOverride]
           /\ offers' = [offers EXCEPT ![n] = @ \cup {Default[n]}] /\ UNCHANGED faults
  <2>2. n \in Key /\ Default[n] \in Value
    BY StoreTypes
  <2>3. \A k \in Key : offers[k] \subseteq offers'[k]
    BY <1>4, StoreTypes
  <2>4. SavesOK'
    BY <1>1, <1>4, <2>3, QuietSaves
  <2>5. task' \in [Task -> Record] /\ (\A u \in Task : task'[u].todo # <<>>) /\ ShapesOK'
    BY <1>1, <1>4, SetRecords
  <2>6. Default[n] \in offers'[n]
    BY <1>4, StoreTypes
  <2>7. OffersOK'
    <3> SUFFICES ASSUME NEW k \in Key
                 PROVE  Decode(k, nvs'[k]) \in offers'[k] /\ Decode(k, durable'[k]) \in offers'[k]
      BY DEF OffersOK, Decode
    <3>1. Decode(k, nvs[k]) \in offers'[k] /\ Decode(k, durable[k]) \in offers'[k] /\ durable' = durable
      BY <2>3 DEF StoreInv, OffersOK, EraseKey
    <3>2. k = n => Decode(k, nvs'[k]) = Default[n]
      BY <1>4, <2>2, StoreTypes DEF Decode
    <3>3. k # n => nvs'[k] = nvs[k]
      BY <1>4, StoreTypes
    <3>4. QED
      BY <2>6, <3>1, <3>2, <3>3
  <2>8. nvs' \in [Key -> Value \cup {NoOverride, Junk}] /\ offers' \in [Key -> SUBSET Value]
    BY <1>4, <2>2, StoreTypes
  <2>9. TypeOK'
    BY <1>2, <1>4, <2>5, <2>8, StoreTypes DEF TypeOK
  <2>10. QED
    BY <2>4, <2>5, <2>7, <2>9 DEF StoreInv
<1>5. QED
  BY <1>1, <1>3, <1>4

\* From here on others are in a save with the store to themselves no more.
LEMMA BeginStores ==
  ASSUME StoreInv, NEW t \in Task, SaveBegin(t)
  PROVE  StoreInv'
<1> DEFINE q == [Rest(t) EXCEPT !.snap = config, !.next = 1,
                                 !.alone = ({u \in Task \ {t} : InSave(u)} = {})]
<1>1. Overlaps(t, q) /\ Head(task[t].todo) = "snap"
  BY DEF SaveBegin, Overlaps, At
<1>2. /\ Rest(t) \in Record
      /\ \A w \in Record : w.call = Rest(t).call /\ w.key = Rest(t).key /\ w.todo = Rest(t).todo
           => Follows(task[t], w)
  BY StoreTypes, RestIsOK
<1>3. /\ q \in Record /\ q.call = Rest(t).call /\ q.key = Rest(t).key /\ q.todo = Rest(t).todo
      /\ q.snap = config /\ q.next = 1 /\ q.alone = ({u \in Task \ {t} : InSave(u)} = {})
  <2>1. 1 \in Key
    BY DEF Key
  <2>2. QED
    BY <1>2, <2>1, StoreTypes DEF Record
<1> HIDE DEF q
<1>4. RecordOK(q) /\ Head(q.todo) # "flush"
  BY <1>1, <1>2, <1>3 DEF Follows
<1>5. /\ task' \in [Task -> Record] /\ (\A u \in Task : task'[u].todo # <<>>) /\ ShapesOK'
      /\ task'[t] = q
      /\ \A u \in Task \ {t} : /\ task'[u].todo = task[u].todo /\ task'[u].snap = task[u].snap
                               /\ ~task'[u].alone
  BY <1>1, <1>4, SetRecords
<1>6. \A k \in Key : offers'[k] = offers[k] \cup {config[k]}
  BY DEF SaveBegin
<1>7. SavesOK'
  <2> SUFFICES ASSUME NEW u \in Task, InSave(u)'
               PROVE  /\ \A k \in Key : task'[u].snap[k] \in offers'[k]
                      /\ task'[u].alone =>
                           /\ \A w \in Task \ {u} : ~InSave(w)'
                           /\ \A k \in Key : At(u, "flush")' \/ k < task'[u].next
                                => nvs'[k] = Encode(k, task'[u].snap[k])
    BY DEF SavesOK
  <2>1. CASE u = t
    <3>1. \A k \in Key : task'[u].snap[k] \in offers'[k]
      BY <1>3, <1>5, <1>6, <2>1
    <3>2. \A k \in Key : ~(At(u, "flush")' \/ k < task'[u].next)
      BY <1>3, <1>4, <1>5, <2>1 DEF At, Key
    <3>3. task'[u].alone => \A w \in Task \ {u} : ~InSave(w)'
      BY <1>3, <1>5, <2>1, ZenonT(60) DEF InSave, At
    <3>4. QED
      BY <3>1, <3>2, <3>3
  <2>2. CASE u # t
    <3>1. InSave(u) /\ ~task'[u].alone
      BY <1>5, <2>2 DEF InSave, At
    <3>2. \A k \in Key : task'[u].snap[k] \in offers'[k]
      BY <1>5, <1>6, <2>2, <3>1 DEF StoreInv, SavesOK
    <3>3. QED
      BY <3>1, <3>2
  <2>3. QED
    BY <2>1, <2>2
<1>8. OffersOK'
  BY <1>6 DEF StoreInv, OffersOK, SaveBegin, store, Decode
<1>9. TypeOK'
  <2>1. offers' \in [Key -> SUBSET Value]
    BY StoreTypes DEF SaveBegin
  <2>2. QED
    BY <1>5, <2>1, StoreTypes DEF SaveBegin, TypeOK, store, bounds
<1>10. QED
  BY <1>5, <1>7, <1>8, <1>9 DEF StoreInv

\* One key stored, by a save that offers its value.
LEMMA StoreStores ==
  ASSUME StoreInv, NEW t \in Task, StoreKey(t)
  PROVE  StoreInv'
<1> DEFINE n == task[t].next
           v == task[t].snap[n]
           q == NextKey(task[t])
<1>0. Head(task[t].todo) = "store" /\ InSave(t) /\ n \in Key /\ v \in Value /\ v \in offers[n]
  BY StoreTypes DEF StoreKey, At, InSave, StoreInv, SavesOK
<1>1. CASE SaveFails(t) /\ UNCHANGED nvs
  <2>1. PICK q1 : RecordOK(q1) /\ Sets(t, q1) /\ Head(q1.todo) \in {"idle", "apply"}
    BY <1>0, <1>1, FailIsOK
  <2>2. faults' \in Nat
    BY StoreTypes DEF StoreKey, Fault
  <2>3. QED
    BY <1>1, <2>1, <2>2, StoreTypes, QuietStep DEF StoreKey
<1>2. CASE /\ nvs' = [nvs EXCEPT ![n] = Encode(n, v)]
           /\ task' = [task EXCEPT ![t] = q]
           /\ UNCHANGED faults
  <2>1. /\ RecordOK(q) /\ q.snap = task[t].snap /\ q.alone = task[t].alone
        /\ \/ n < KeyCount /\ q.todo = task[t].todo /\ q.next = n + 1
           \/ n = KeyCount /\ q.next = 1
        /\ Sets(t, q)
    BY <1>0, <1>2, StoreTypes, NextKeyIsOK DEF Sets
  <2> HIDE DEF q
  <2>2. /\ task' \in [Task -> Record] /\ (\A u \in Task : task'[u].todo # <<>>) /\ ShapesOK'
        /\ task'[t] = q /\ \A u \in Task \ {t} : task'[u] = task[u]
    BY <2>1, SetRecords, OthersStay DEF StoreInv, TypeOK
  <2>3. nvs'[n] = Encode(n, v) /\ nvs' \in [Key -> Value \cup {NoOverride, Junk}]
        /\ \A k \in Key \ {n} : nvs'[k] = nvs[k]
    BY <1>0, <1>2, DecodeEncode, StoreTypes
  <2>4. SavesOK'
    <3> SUFFICES ASSUME NEW u \in Task, InSave(u)'
                 PROVE  /\ \A k \in Key : task'[u].snap[k] \in offers'[k]
                        /\ task'[u].alone =>
                             /\ \A w \in Task \ {u} : ~InSave(w)'
                             /\ \A k \in Key : At(u, "flush")' \/ k < task'[u].next
                                  => nvs'[k] = Encode(k, task'[u].snap[k])
      BY DEF SavesOK
    <3>0. offers' = offers
      BY DEF StoreKey
    <3>1. CASE u = t
      <4>1. \A k \in Key : task'[u].snap[k] \in offers'[k]
        BY <1>0, <2>1, <2>2, <3>0, <3>1 DEF StoreInv, SavesOK
      <4>2. ASSUME task'[u].alone
            PROVE  /\ \A w \in Task \ {u} : ~InSave(w)'
                   /\ \A k \in Key : \/ nvs'[k] = Encode(k, task'[u].snap[k])
                                  \/ (~(k < task'[u].next) /\ ~At(u, "flush")')
        <5>1. task[t].alone
          BY <2>1, <2>2, <3>1, <4>2
        <5>2. /\ \A w \in Task \ {u} : ~InSave(w)
              /\ \A k \in Key : k < n => nvs[k] = Encode(k, task[t].snap[k])
          BY <1>0, <3>1, <5>1 DEF StoreInv, SavesOK
        <5>3. \A w \in Task \ {u} : ~InSave(w)'
          BY <2>2, <3>1, <5>2 DEF InSave, At
        <5>4. \A k \in Key : k <= n => nvs'[k] = Encode(k, task[t].snap[k])
          <6> SUFFICES ASSUME NEW k \in Key, k <= n
                       PROVE  nvs'[k] = Encode(k, task[t].snap[k])
            OBVIOUS
          <6>1. k = n \/ k < n
            BY <1>0 DEF Key
          <6>2. CASE k = n
            BY <2>3, <6>2
          <6>3. CASE k < n
            <7>1. k # n
              BY <1>0, <6>3 DEF Key
            <7>2. nvs'[k] = nvs[k] /\ nvs[k] = Encode(k, task[t].snap[k])
              BY <2>3, <5>2, <6>3, <7>1
            <7>3. QED
              BY <7>2
          <6>4. QED
            BY <6>1, <6>2, <6>3
        <5>5. \A k \in Key : k <= n \/ (~(k < task'[u].next) /\ ~At(u, "flush")')
          <6>1. CASE n < KeyCount /\ q.todo = task[t].todo /\ q.next = n + 1
            <7>1. Head(q.todo) = "store"
              BY <1>0, <6>1
            <7>2. QED
              BY <1>0, <2>2, <3>1, <6>1, <7>1 DEF At, Key
          <6>2. CASE n = KeyCount
            BY <6>2 DEF Key
          <6>3. QED
            BY <2>1, <6>1, <6>2
        <5>6. QED
          BY <2>1, <2>2, <3>1, <5>3, <5>4, <5>5
      <4>3. QED
        BY <4>1, <4>2
    <3>2. CASE u # t
      <4>1. task'[u] = task[u] /\ InSave(u)
        BY <2>2, <3>2 DEF InSave, At
      <4>2. ~task[u].alone
        BY <1>0, <3>2, <4>1 DEF StoreInv, SavesOK
      <4>3. QED
        BY <3>0, <4>1, <4>2 DEF StoreInv, SavesOK
    <3>3. QED
      BY <3>1, <3>2
  <2>5. OffersOK'
    <3>1. durable' = durable /\ offers' = offers
      BY DEF StoreKey
    <3>2. Decode(n, nvs'[n]) = v
      BY <1>0, <2>3, DecodeEncode
    <3>3. \A k \in Key : Decode(k, nvs'[k]) \in offers[k]
      BY <1>0, <2>3, <3>2 DEF StoreInv, OffersOK
    <3>4. QED
      BY <3>1, <3>3 DEF StoreInv, OffersOK, Decode
  <2>6. TypeOK'
    BY <1>2, <2>2, <2>3, StoreTypes DEF StoreKey, TypeOK
  <2>7. QED
    BY <2>2, <2>4, <2>5, <2>6 DEF StoreInv
<1>3. QED
  BY <1>1, <1>2 DEF StoreKey

\* A commit by a save that had the store to itself leaves its values only.
LEMMA FlushStores ==
  ASSUME StoreInv, NEW t \in Task, Flush(t)
  PROVE  StoreInv'
<1>0. Head(task[t].todo) = "flush" /\ At(t, "flush") /\ InSave(t) /\ UNCHANGED <<config, applied, open, nvs, last, calls, crashes>>
  BY DEF Flush, At, InSave
<1>1. CASE SaveFails(t) /\ UNCHANGED <<durable, offers>>
  <2>1. PICK q1 : RecordOK(q1) /\ Sets(t, q1) /\ Head(q1.todo) \in {"idle", "apply"}
    BY <1>0, <1>1, FailIsOK
  <2>2. faults' \in Nat
    BY StoreTypes DEF Flush, Fault
  <2>3. QED
    BY <1>0, <1>1, <2>1, <2>2, StoreTypes, QuietStep
<1>2. CASE /\ durable' = nvs /\ Advance(t) /\ UNCHANGED faults
           /\ offers' = IF task[t].alone THEN [k \in Key |-> {task[t].snap[k]}] ELSE offers
  <2>1. RecordOK(Rest(t)) /\ Head(Rest(t).todo) \notin {"store", "flush"} /\ Sets(t, Rest(t))
    <3>1. Follows(task[t], Rest(t))
      BY StoreTypes, RestIsOK
    <3>2. QED
      BY <1>0, <1>2, <3>1 DEF Follows, Advance, Sets
  <2>2. CASE ~task[t].alone
    <3>1. offers' = offers
      BY <1>2, <2>2
    <3>2. QED
      BY <1>0, <1>2, <2>1, <3>1, StoreTypes, QuietStep
  <2>3. CASE task[t].alone
    <3>1. /\ \A k \in Key : offers'[k] = {task[t].snap[k]} /\ nvs[k] = Encode(k, task[t].snap[k])
          /\ \A u \in Task \ {t} : ~InSave(u)
      BY <1>0, <1>2, <2>3 DEF StoreInv, SavesOK
    <3>2. /\ task' \in [Task -> Record] /\ (\A u \in Task : task'[u].todo # <<>>) /\ ShapesOK'
          /\ task'[t] = Rest(t) /\ \A u \in Task \ {t} : task'[u] = task[u]
      BY <2>1, SetRecords, OthersStay DEF StoreInv, TypeOK
    <3>3. SavesOK'
      BY <2>1, <3>1, <3>2 DEF SavesOK, InSave, At
    <3>4. ASSUME NEW k \in Key PROVE Decode(k, nvs[k]) \in offers'[k]
      <4>1. task[t].snap[k] \in Value
        BY StoreTypes
      <4>2. QED
        BY <3>1, <4>1, DecodeEncode
    <3>5. OffersOK'
      BY <1>0, <1>2, <3>4 DEF OffersOK, Decode
    <3>6. offers' \in [Key -> SUBSET Value]
      BY <1>2, <2>3, StoreTypes
    <3>7. TypeOK'
      BY <1>0, <1>2, <3>2, <3>6, StoreTypes DEF TypeOK
    <3>8. QED
      BY <3>2, <3>3, <3>5, <3>7 DEF StoreInv
  <2>4. QED
    BY <2>2, <2>3
<1>3. QED
  BY <1>1, <1>2 DEF Flush

LEMMA WipeStores ==
  ASSUME StoreInv, NEW t \in Task, Wipe(t)
  PROVE  StoreInv'
<1>1. /\ At(t, "wipe") /\ UNCHANGED <<config, applied, last, calls, crashes>>
      /\ offers' = [k \in Key |-> offers[k] \cup {Default[k]}]
      /\ (nvs' = Blank /\ durable' = Blank) \/ UNCHANGED <<nvs, durable>>
      /\ open' \in BOOLEAN /\ faults' \in Nat
  <2>1. open \in BOOLEAN /\ faults \in Nat
    BY StoreTypes
  <2>2. open' \in BOOLEAN
    BY <2>1 DEF Wipe
  <2>3. faults' \in Nat
    BY <2>1 DEF Wipe, Fault
  <2>4. (nvs' = Blank /\ durable' = Blank) \/ UNCHANGED <<nvs, durable>>
    BY DEF Wipe, store
  <2>5. QED
    BY <2>2, <2>3, <2>4 DEF Wipe
<1>2. PICK q : Overlaps(t, q) /\ RecordOK(q) /\ Head(q.todo) \notin {"store", "flush"}
  <2>1. Overlaps(t, Rest(t)) \/ Overlaps(t, Idle)
    BY DEF Wipe, Overlaps
  <2>2. Follows(task[t], Rest(t))
    BY StoreTypes, RestIsOK
  <2>3. RecordOK(Rest(t)) /\ Head(Rest(t).todo) \notin {"store", "flush"}
    BY <1>1, <2>2 DEF Follows, At
  <2>4. QED
    BY <2>1, <2>3, IdleIsOK
<1>3. task' \in [Task -> Record] /\ (\A u \in Task : task'[u].todo # <<>>) /\ ShapesOK'
  BY <1>2, SetRecords
<1>4. \A k \in Key : offers[k] \subseteq offers'[k] /\ Default[k] \in offers'[k]
  BY <1>1
<1>5. SavesOK'
  BY <1>2, <1>4, QuietSaves
<1>6. OffersOK'
  <2> SUFFICES ASSUME NEW k \in Key
               PROVE  Decode(k, nvs'[k]) \in offers'[k] /\ Decode(k, durable'[k]) \in offers'[k]
    BY DEF OffersOK, Decode
  <2>1. CASE nvs' = Blank /\ durable' = Blank
    BY <1>4, <2>1 DEF Blank, Decode
  <2>2. CASE UNCHANGED <<nvs, durable>>
    BY <1>4, <2>2 DEF StoreInv, OffersOK
  <2>3. QED
    BY <1>1, <2>1, <2>2
<1>7. TypeOK'
  <2>1. nvs' \in [Key -> Value \cup {NoOverride, Junk}] /\ durable' \in [Key -> Value \cup {NoOverride, Junk}]
    BY <1>1, StoreTypes DEF Blank
  <2>2. offers' \in [Key -> SUBSET Value]
    BY <1>1, StoreTypes
  <2>3. QED
    BY <1>1, <1>3, <2>1, <2>2, StoreTypes DEF TypeOK
<1>8. QED
  BY <1>3, <1>5, <1>6, <1>7 DEF StoreInv

\* The records of a boot.
LEMMA BootIsOK ==
  LET r == [Idle EXCEPT !.call = "boot", !.todo = Plan("boot")] IN
  RecordOK(r) /\ r.call = "boot" /\ r.key = 1 /\ Head(r.todo) \notin {"store", "flush", "put", "push", "wipe", "idle"}
  /\ r.todo = Plan("boot")
<1> DEFINE r == [Idle EXCEPT !.call = "boot", !.todo = Plan("boot")]
<1>1. Plan("boot") \in Seq(Stage) /\ Plan("boot") # <<>> /\ Good("boot", Plan("boot"))
      /\ Plan("boot")[1] \notin {"store", "flush", "put", "push", "wipe"} /\ Head(Plan("boot")) = Plan("boot")[1]
  BY PlanIsGood
<1>2. r \in Record /\ r.call = "boot" /\ r.todo = Plan("boot") /\ r.key = 1
  BY <1>1, IdleIsOK DEF RecordOK, Record, Idle
<1>3. Plan("boot")[1] # "idle"
  <2>1. 1 \in 1 .. Len(Plan("boot"))
    BY <1>1
  <2>2. QED
    BY <1>1, <2>1 DEF Good, Belongs
<1>4. QED
  BY <1>1, <1>2, <1>3 DEF RecordOK

Booted == [t \in Task |-> IF t = LoopTask
                          THEN [Idle EXCEPT !.call = "boot", !.todo = Plan("boot")]
                          ELSE Idle]

LEMMA BootedIsOK ==
  /\ Booted \in [Task -> Record]
  /\ \A t \in Task : /\ RecordOK(Booted[t])
                     /\ Head(Booted[t].todo) \notin {"store", "flush", "put", "push", "wipe"}
  /\ \A t \in Task \ {LoopTask} : Booted[t] = Idle
  /\ Booted[LoopTask].call = "boot" /\ Booted[LoopTask].todo = Plan("boot")
<1> DEFINE r == [Idle EXCEPT !.call = "boot", !.todo = Plan("boot")]
<1>1. /\ RecordOK(r) /\ r.call = "boot" /\ r.todo = Plan("boot")
      /\ Head(r.todo) \notin {"store", "flush", "put", "push", "wipe"}
  BY BootIsOK
<1>2. Booted = [t \in Task |-> IF t = LoopTask THEN r ELSE Idle]
  BY DEF Booted
<1> HIDE DEF r
<1>3. \A t \in Task : Booted[t] = IF t = LoopTask THEN r ELSE Idle
  BY <1>2
<1>4. RecordOK(Idle) /\ Head(Idle.todo) = "idle" /\ Idle \in Record /\ r \in Record
  BY <1>1, IdleIsOK DEF RecordOK
<1>5. Booted \in [Task -> Record]
  BY <1>2, <1>4
<1>6. QED
  BY <1>1, <1>3, <1>4, <1>5

LEMMA CrashStores ==
  ASSUME StoreInv, Crash
  PROVE  StoreInv'
<1>1. task' = Booted
  BY DEF Crash, Booted
<1>2. PICK kept \in SUBSET Key :
        nvs' = [k \in Key |-> IF k \in kept THEN nvs[k] ELSE durable[k]] /\ durable' = nvs'
  BY DEF Crash
<1>3. /\ task' \in [Task -> Record] /\ (\A u \in Task : task'[u].todo # <<>>) /\ ShapesOK'
      /\ \A u \in Task : ~InSave(u)'
  BY <1>1, BootedIsOK DEF ShapesOK, RecordOK, InSave, At
<1>4. SavesOK'
  BY <1>3 DEF SavesOK
<1>5. OffersOK'
  BY <1>2 DEF Crash, StoreInv, OffersOK, Decode
<1>6. /\ nvs' \in [Key -> Value \cup {NoOverride, Junk}]
      /\ durable' \in [Key -> Value \cup {NoOverride, Junk}]
      /\ offers' \in [Key -> SUBSET Value]
  BY <1>2 DEF Crash, StoreInv, TypeOK
<1>7. /\ config' = Default /\ last' = Default /\ open' = TRUE /\ crashes' = crashes + 1
      /\ applied' = [k \in LiveKey |-> Default[k]] /\ UNCHANGED <<calls, faults>>
  BY DEF Crash
<1>8. /\ config' \in [Key -> Value] /\ last' \in [Key -> Value] /\ applied' \in [LiveKey -> Value]
      /\ open' \in BOOLEAN /\ calls' \in Nat /\ faults' \in Nat /\ crashes' \in Nat
  BY <1>7 DEF StoreInv, TypeOK
<1>9. TypeOK'
  BY <1>3, <1>6, <1>8 DEF TypeOK
<1>10. QED
  BY <1>3, <1>4, <1>5, <1>9 DEF StoreInv

LEMMA InitStores == Init => StoreInv
<1> SUFFICES ASSUME Init PROVE StoreInv
  OBVIOUS
<1>1. task = Booted
  BY DEF Init, Booted
<1>3. /\ task \in [Task -> Record] /\ (\A u \in Task : task[u].todo # <<>>) /\ ShapesOK
      /\ \A u \in Task : ~InSave(u)
  BY <1>1, BootedIsOK DEF ShapesOK, RecordOK, InSave, At
<1>4. SavesOK
  BY <1>3 DEF SavesOK
<1>5. nvs \in [Key -> Value \cup {NoOverride, Junk}] /\ durable = nvs
      /\ offers = [k \in Key |-> {Decode(k, nvs[k])}]
  BY DEF Init
<1>6. OffersOK
  BY <1>5 DEF OffersOK
<1>7. \A k \in Key : Decode(k, nvs[k]) \in Value
  BY DEF Decode
<1>8. offers \in [Key -> SUBSET Value]
  BY <1>5, <1>7
<1>9. TypeOK
  BY <1>3, <1>5, <1>8 DEF Init, TypeOK
<1>10. QED
  BY <1>3, <1>4, <1>6, <1>9 DEF StoreInv

LEMMA NextStores == StoreInv /\ [Next]_vars => StoreInv'
<1> SUFFICES ASSUME StoreInv, [Next]_vars PROVE StoreInv'
  OBVIOUS
<1>1. ASSUME NEW t \in Task, Call(t) PROVE StoreInv'
  BY <1>1, CallStores
<1>2. ASSUME NEW t \in Task, Step(t) PROVE StoreInv'
  BY <1>2, RestStores, BeginStores, StoreStores, FlushStores, ReadStores, EraseStores, WipeStores DEF Step
<1>3. CASE Crash
  BY <1>3, CrashStores
<1>4. CASE UNCHANGED vars
  BY <1>4 DEF vars, store, bounds, StoreInv, TypeOK, ShapesOK, OffersOK, SavesOK, InSave, At, Decode
<1>5. QED
  BY <1>1, <1>2, <1>3, <1>4 DEF Next

LEMMA StoreInvariant == Spec => []StoreInv
BY InitStores, NextStores, PTL DEF Spec

\* Every variable keeps its type, and the configuration in RAM stays valid whatever
\* NVS holds, for every number of tasks and keys, any calls and failures.
THEOREM TypesHold == Spec => []TypeOK
<1>1. StoreInv => TypeOK
  BY DEF StoreInv
<1>2. QED
  BY <1>1, StoreInvariant, PTL

\* A reboot finds for every key a value that the property allows: that of the last
\* good save, or of one begun since, whatever the tasks do at the same time.
THEOREM RebootsFindSaved == Spec => []RebootFindsSaved
<1>1. StoreInv => RebootFindsSaved
  BY DEF StoreInv, OffersOK, RebootFindsSaved
<1>2. QED
  BY <1>1, StoreInvariant, PTL

(***************************************************************************)
(* What is applied.                                                        *)
(***************************************************************************)
LEMMA Shapes ==
  ASSUME NEW r, RecordOK(r)
  PROVE  /\ Head(r.todo) = "idle" <=> r.call = "none"
         /\ r.call \in {"none", "save"} =>
              ~Later(r.todo, 0) /\ Head(r.todo) \in {"idle", "snap", "store", "flush"}
         /\ Head(r.todo) \in {"close", "wipe"} => r.call = "format"
         /\ Head(r.todo) = "close" => Len(r.todo) > 1 /\ Head(Tail(r.todo)) = "wipe"
         /\ Head(r.todo) = "apply" => Len(r.todo) > 1 /\ Head(Tail(r.todo)) = "push"
         /\ Head(r.todo) \in {"defaults", "install"} => Later(r.todo, 0)
         /\ Head(r.todo) = "put" => r.call \in {"pinmap", "connect"} \/ Later(r.todo, 0)
<1> DEFINE s == r.todo
<1>1. s \in Seq(Stage) /\ s # <<>> /\ Head(s) = s[1] /\ 1 \in 1 .. Len(s) /\ Len(s) \in Nat
      /\ Applied(r.call, s) /\ Belongs(r.call, s)
  BY DEF RecordOK, Record, Good
<1>2. /\ s[1] = "idle" <=> r.call = "none"
      /\ r.call = "save" => s[1] \in {"snap", "store", "flush"}
      /\ s[1] \in {"close", "wipe"} => r.call = "format"
      /\ s[1] = "close" => Len(s) > 1 /\ s[2] = "wipe"
      /\ s[1] = "apply" => Len(s) > 1 /\ s[2] = "push"
  BY <1>1 DEF Belongs
<1>3. r.call \in {"none", "save"} => \A i \in 1 .. Len(s) : s[i] # "apply"
  BY <1>1 DEF Belongs
<1>4. r.call \in {"none", "save"} => ~Later(s, 0)
  BY <1>3 DEF Later
<1>5. Len(s) > 1 => Head(Tail(s)) = s[2]
  BY <1>1
<1>6. Later(s, 1) => Later(s, 0)
  BY <1>1 DEF Later
<1>7. /\ s[1] \in {"defaults", "install"} => Later(s, 1)
      /\ s[1] = "put" => r.call \in {"pinmap", "connect"} \/ Later(s, 1)
  BY <1>1 DEF Applied
<1>8. QED
  BY <1>1, <1>2, <1>4, <1>5, <1>6, <1>7

\* Two tasks do not change the configuration at the same time.
LEMMA Alone ==
  ASSUME StoreInv, ApplyInv, NEW t \in Task, Writing(t)
  PROVE  \A u \in Task \ {t} :
           /\ task[u].call \in {"none", "save"} /\ ~Later(task[u].todo, 0)
           /\ Head(task[u].todo) \in {"idle", "snap", "store", "flush"}
<1> SUFFICES ASSUME NEW u \in Task \ {t}
             PROVE  /\ task[u].call \in {"none", "save"} /\ ~Later(task[u].todo, 0)
                    /\ Head(task[u].todo) \in {"idle", "snap", "store", "flush"}
  OBVIOUS
<1>1. ~Writing(u)
  BY DEF ApplyInv, OneWrites, Writing, Booting
<1>2. RecordOK(task[u]) /\ task[u].call \in {"none", "save"}
  BY <1>1, RecordsOK DEF Writing
<1>3. QED
  BY <1>2, Shapes

\* What a step of one task may do for the changes to stay applied.
LEMMA ApplyStep ==
  ASSUME StoreInv, ApplyInv, OneWrites', NEW t \in Task, NEW q, RecordOK(q),
         Sets(t, q) \/ Overlaps(t, q),
         q.call \in {"pinmap", "connect"} => q.key \notin LiveKey,
         faults' = 0 => faults = 0,
         Head(q.todo) \in {"put", "push"} => q.snap = config',
         config' = config \/ Writing(t),
         faults' = 0 /\ ~open' => (~open /\ ~At(t, "wipe")) \/ Head(q.todo) = "wipe",
         faults' = 0 => \/ InUse' \/ Later(q.todo, 0) \/ Head(q.todo) = "push"
                        \/ UNCHANGED <<config, applied>> /\ ~WillApply(t)
  PROVE  ApplyInv'
<1>1. /\ task'[t] = q
      /\ \A u \in Task \ {t} : /\ task'[u].todo = task[u].todo /\ task'[u].snap = task[u].snap
                               /\ task'[u].call = task[u].call /\ task'[u].key = task[u].key
  BY SetRecords
<1>2. CopiesOK'
  <2> SUFFICES ASSUME NEW u \in Task, Head(task'[u].todo) \in {"put", "push"}
               PROVE  task'[u].snap = config'
    BY DEF CopiesOK, At
  <2>1. CASE u = t
    BY <1>1, <2>1
  <2>2. CASE u # t
    <3>1. Head(task[u].todo) \in {"put", "push"} /\ task'[u].snap = task[u].snap
      BY <1>1, <2>2
    <3>2. ~Writing(t)
      BY <2>2, <3>1, Alone
    <3>3. QED
      BY <3>1, <3>2 DEF ApplyInv, CopiesOK, At
  <2>3. QED
    BY <2>1, <2>2
<1>3. OpenOK'
  <2> SUFFICES ASSUME faults' = 0, ~open' PROVE \E u \in Task : At(u, "wipe")'
    BY DEF OpenOK
  <2>1. CASE Head(q.todo) = "wipe"
    BY <1>1, <2>1 DEF At
  <2>2. CASE ~open /\ ~At(t, "wipe")
    <3>1. PICK u \in Task : At(u, "wipe")
      BY <2>2 DEF ApplyInv, OpenOK
    <3>2. u # t
      BY <2>2, <3>1
    <3>3. QED
      BY <1>1, <3>1, <3>2 DEF At
  <2>3. QED
    BY <2>1, <2>2
<1>4. ApplyOK'
  <2> SUFFICES ASSUME faults' = 0, ~InUse' PROVE \E u \in Task : WillApply(u)'
    BY DEF ApplyOK
  <2>1. CASE Later(q.todo, 0) \/ Head(q.todo) = "push"
    BY <1>1, <2>1 DEF WillApply, At
  <2>2. CASE UNCHANGED <<config, applied>> /\ ~WillApply(t)
    <3>1. ~InUse
      BY <2>2 DEF InUse
    <3>2. PICK u \in Task : WillApply(u)
      BY <3>1 DEF ApplyInv, ApplyOK
    <3>3. u # t
      BY <2>2, <3>2
    <3>4. QED
      BY <1>1, <3>2, <3>3 DEF WillApply, At
  <2>3. QED
    BY <2>1, <2>2
<1>5. KeysOK'
  BY <1>1 DEF ApplyInv, KeysOK
<1>6. QED
  BY <1>2, <1>3, <1>4, <1>5 DEF ApplyInv

\* A step of a call is no new call.
LEMMA SameCall ==
  ASSUME StoreInv, ApplyInv, NEW t \in Task, NEW q, RecordOK(q), GoesOn(task[t], q),
         Sets(t, q) \/ Overlaps(t, q)
  PROVE  /\ OneWrites'
         /\ q.call \in {"pinmap", "connect"} => q.key \notin LiveKey
<1>1. /\ task'[t] = q /\ (q.call = task[t].call \/ q.call = "none")
      /\ \A u \in Task \ {t} : task'[u].call = task[u].call
  BY SetRecords DEF GoesOn
<1>2. Booting' => Booting
  BY <1>1 DEF Booting
<1>3. Booting' => \A u \in Task \ {LoopTask} : task'[u].call = "none"
  BY <1>1, <1>2 DEF ApplyInv, OneWrites
<1>4. ASSUME NEW u \in Task, Writing(u)' PROVE u = Writer \/ (u = LoopTask /\ Booting')
  <2>1. Writing(u) /\ task'[u].call = task[u].call
    BY <1>1, <1>4 DEF Writing
  <2>2. QED
    BY <2>1 DEF ApplyInv, OneWrites, Booting
<1>5. OneWrites'
  BY <1>3, <1>4 DEF OneWrites
<1>6. QED
  BY <1>5 DEF ApplyInv, KeysOK, GoesOn

\* A step that changes neither the configuration nor what is applied, nor ends the call.
LEMMA QuietApply ==
  ASSUME StoreInv, ApplyInv, NEW t \in Task, NEW q, RecordOK(q), GoesOn(task[t], q),
         Sets(t, q) \/ Overlaps(t, q), UNCHANGED <<config, applied>>,
         faults' = 0 => faults = 0,
         Head(task[t].todo) \notin {"apply", "push"},
         Head(q.todo) \in {"put", "push"} => q.snap = config,
         faults' = 0 /\ ~open' => (~open /\ ~At(t, "wipe")) \/ Head(q.todo) = "wipe"
  PROVE  ApplyInv'
<1>1. OneWrites' /\ (q.call \in {"pinmap", "connect"} => q.key \notin LiveKey)
  BY SameCall
<1>2. Later(q.todo, 0) \/ ~WillApply(t)
  BY DEF GoesOn, WillApply, At
<1>3. QED
  BY <1>1, <1>2, ApplyStep

\* The actions whose record is Rest(t), with other values in it or not.
LEMMA RestApplies ==
  ASSUME StoreInv, ApplyInv, NEW t \in Task,
         Copy(t) \/ Put(t) \/ Defaults(t) \/ CopyToApply(t) \/ ConfigApply(t)
           \/ Repair(t) \/ Install(t) \/ CloseStore(t)
  PROVE  ApplyInv'
<1> DEFINE r == task[t]
<1>0. RecordOK(r) /\ r \in Record
  BY RecordsOK DEF RecordOK
<1>1. /\ Follows(r, Rest(t)) /\ GoesOn(r, Rest(t)) /\ Rest(t) \in Record
      /\ \A w \in Record : w.call = Rest(t).call /\ w.key = Rest(t).key /\ w.todo = Rest(t).todo
           => Follows(r, w) /\ GoesOn(r, w)
  BY <1>0, RestIsOK
<1>2. config \in [Key -> Value] /\ r.key \in Key /\ r.val \in Value /\ faults \in Nat
  BY <1>0, StoreTypes DEF Record
<1>3. \A u \in Task : At(u, "put") \/ At(u, "push") => task[u].snap = config
  BY DEF ApplyInv, CopiesOK
<1>4. CASE Copy(t)
  <2>1. PICK v \in Value : task' = [task EXCEPT ![t] = [Rest(t) EXCEPT !.snap = config, !.val = v]]
    BY <1>2, <1>4 DEF Copy
  <2> DEFINE q == [Rest(t) EXCEPT !.snap = config, !.val = v]
  <2>2. /\ q \in Record /\ q.call = Rest(t).call /\ q.key = Rest(t).key /\ q.todo = Rest(t).todo
        /\ q.snap = config
    BY <1>1, <1>2 DEF Record
  <2>3. Sets(t, q)
    BY <2>1 DEF Sets
  <2> HIDE DEF q
  <2>4. RecordOK(q) /\ GoesOn(r, q)
    BY <1>1, <2>2 DEF Follows
  <2>5. Head(r.todo) = "copy" /\ ~At(t, "wipe") /\ UNCHANGED <<config, applied, open, faults>>
    BY <1>4 DEF Copy, At, bounds
  <2>6. QED
    BY <2>2, <2>3, <2>4, <2>5, QuietApply
<1>5. CASE CopyToApply(t)
  <2> DEFINE q == [Rest(t) EXCEPT !.snap = config]
  <2>2. /\ q \in Record /\ q.call = Rest(t).call /\ q.key = Rest(t).key /\ q.todo = Rest(t).todo
        /\ q.snap = config
    BY <1>1, <1>2 DEF Record
  <2>3. Sets(t, q)
    BY <1>5 DEF CopyToApply, Sets
  <2> HIDE DEF q
  <2>4. RecordOK(q) /\ GoesOn(r, q)
    BY <1>1, <2>2 DEF Follows
  <2>5. Head(r.todo) = "apply" /\ ~At(t, "wipe") /\ UNCHANGED <<config, applied, open, faults>>
    BY <1>5 DEF CopyToApply, At, bounds
  <2>6. Head(q.todo) = "push"
    <3>1. Len(r.todo) > 1 /\ Head(Tail(r.todo)) = "push" /\ r.todo \in Seq(Stage)
      BY <1>0, <2>5, Shapes DEF Record
    <3>2. Tail(r.todo) # <<>>
      <4>1. Len(Tail(r.todo)) > 0 /\ Tail(r.todo) \in Seq(Stage)
        BY <3>1, <1>0, HeadTailProperties DEF RecordOK
      <4>2. QED
        BY <4>1, NotEmpty
    <3>3. Rest(t).todo = Tail(r.todo)
      BY <1>0, <3>2 DEF Rest, Record
    <3>4. QED
      BY <2>2, <3>1, <3>3
  <2>7. OneWrites' /\ (q.call \in {"pinmap", "connect"} => q.key \notin LiveKey)
    BY <2>3, <2>4, SameCall
  <2>8. QED
    BY <2>2, <2>3, <2>4, <2>5, <2>6, <2>7, ApplyStep
<1>6. CASE Put(t) \/ Defaults(t) \/ ConfigApply(t) \/ Repair(t) \/ Install(t) \/ CloseStore(t)
  <2> DEFINE q == Rest(t)
  <2>1. Sets(t, q) /\ RecordOK(q) /\ GoesOn(r, q) /\ Follows(r, q)
    BY <1>1, <1>6 DEF Put, Defaults, ConfigApply, Repair, Install, CloseStore, Advance, Sets, Follows
  <2>2. OneWrites' /\ (q.call \in {"pinmap", "connect"} => q.key \notin LiveKey)
    BY <2>1, SameCall
  <2>3. Head(r.todo) \notin {"copy", "apply"}
    BY <1>6 DEF Put, Defaults, ConfigApply, Repair, Install, CloseStore, At
  <2>4. Head(q.todo) \notin {"put", "push"}
    BY <2>1, <2>3 DEF Follows
  <2> HIDE DEF q
  <2>5. CASE Put(t)
    <3>1. /\ At(t, "put") /\ Head(r.todo) = "put" /\ ~At(t, "wipe") /\ UNCHANGED <<applied, open, faults>>
          /\ config' = [r.snap EXCEPT ![r.key] = r.val]
      BY <2>5 DEF Put, At, bounds
    <3>2. config' = [config EXCEPT ![r.key] = r.val]
      BY <1>3, <3>1
    <3>3. Later(q.todo, 0) \/ (r.call \in {"pinmap", "connect"} /\ ~WillApply(t))
          \/ (r.call \in {"pinmap", "connect"} /\ Later(r.todo, 0))
      BY <1>0, <2>1, <3>1, Shapes DEF GoesOn, WillApply, At
    <3>4. ASSUME r.call \in {"pinmap", "connect"} PROVE InUse => InUse'
      <4>1. r.key \notin LiveKey
        BY <3>4 DEF ApplyInv, KeysOK
      <4>2. \A k \in LiveKey : config'[k] = config[k]
        BY <1>2, <3>2, <4>1
      <4>3. QED
        BY <3>1, <4>2 DEF InUse
    <3>5. Writing(t)
      <4>1. r.call \notin {"none", "save"}
        BY <1>0, <3>1, Shapes
      <4>2. QED
        BY <4>1 DEF Writing
    <3>6. ASSUME faults' = 0 PROVE InUse' \/ Later(q.todo, 0)
      <4>1. CASE Later(r.todo, 0)
        BY <2>1, <3>1, <4>1 DEF GoesOn
      <4>2. CASE ~Later(r.todo, 0)
        <5>1. r.call \in {"pinmap", "connect"} /\ ~WillApply(t)
          BY <1>0, <3>1, <4>2, Shapes DEF WillApply, At
        <5>2. \A u \in Task : ~WillApply(u)
          BY <3>5, <5>1, Alone DEF WillApply, At
        <5>3. InUse
          BY <3>1, <3>6, <5>2 DEF ApplyInv, ApplyOK
        <5>4. QED
          BY <3>4, <5>1, <5>3
      <4>3. QED
        BY <4>1, <4>2
    <3>7. QED
      BY <2>1, <2>2, <2>4, <3>1, <3>5, <3>6, ApplyStep
  <2>6. CASE Defaults(t) \/ Install(t)
    <3>1. Head(r.todo) \in {"defaults", "install"} /\ ~At(t, "wipe") /\ UNCHANGED <<applied, open, faults>>
      BY <2>6 DEF Defaults, Install, At, bounds
    <3>2. Later(r.todo, 0) /\ r.call \notin {"none", "save"}
      BY <1>0, <3>1, Shapes
    <3>3. Later(q.todo, 0) /\ Writing(t)
      BY <2>1, <3>1, <3>2 DEF GoesOn, Writing
    <3>4. QED
      BY <2>1, <2>2, <2>4, <3>1, <3>3, ApplyStep
  <2>7. CASE ConfigApply(t)
    <3>1. /\ At(t, "push") /\ ~At(t, "wipe") /\ UNCHANGED <<config, open, faults>>
          /\ applied' = [k \in LiveKey |-> r.snap[k]]
      BY <2>7 DEF ConfigApply, At, bounds
    <3>2. InUse'
      BY <1>3, <3>1 DEF InUse
    <3>3. QED
      BY <2>1, <2>2, <2>4, <3>1, <3>2, ApplyStep
  <2>8. CASE Repair(t)
    <3>1. /\ Head(r.todo) = "repair" /\ ~At(t, "wipe") /\ UNCHANGED <<config, applied, open>>
          /\ faults' = 0 => faults = 0
      BY <1>2, <2>8 DEF Repair, Fault, At
    <3>2. QED
      BY <2>1, <2>4, <3>1, QuietApply
  <2>9. CASE CloseStore(t)
    <3>1. Head(r.todo) = "close" /\ UNCHANGED <<config, applied, faults>>
      BY <2>9 DEF CloseStore, At, bounds
    <3>2. Head(q.todo) = "wipe"
      <4>1. Len(r.todo) > 1 /\ Head(Tail(r.todo)) = "wipe" /\ r.todo \in Seq(Stage)
        BY <1>0, <3>1, Shapes DEF Record
      <4>2. Tail(r.todo) # <<>>
        <5>1. Len(Tail(r.todo)) > 0 /\ Tail(r.todo) \in Seq(Stage)
          BY <4>1, <1>0, HeadTailProperties DEF RecordOK
        <5>2. QED
          BY <5>1, NotEmpty
      <4>3. Rest(t).todo = Tail(r.todo)
        BY <1>0, <4>2 DEF Rest, Record
      <4>4. QED
        BY <4>1, <4>3 DEF q
    <3>3. QED
      BY <2>1, <2>4, <3>1, <3>2, QuietApply
  <2>10. QED
    BY <1>6, <2>5, <2>6, <2>7, <2>8, <2>9
<1>7. QED
  BY <1>4, <1>5, <1>6

\* A save that fails, of a call that has to apply what it saves, has an error.
LEMMA FailApplies ==
  ASSUME StoreInv, ApplyInv, NEW t \in Task, InSave(t), SaveFails(t),
         UNCHANGED <<config, applied, open>>,
         Fault \/ (~open /\ UNCHANGED faults)
  PROVE  ApplyInv'
<1> DEFINE r == task[t]
<1>0. RecordOK(r) /\ faults \in Nat
  BY StoreTypes
<1>1. PICK q : /\ RecordOK(q) /\ Sets(t, q) /\ Head(q.todo) \in {"idle", "apply"}
               /\ \/ q = Idle /\ r.call # "post"
                  \/ r.call = "post" /\ q.call = "post" /\ q.key = r.key /\ Later(q.todo, 0)
  BY FailIsOK
<1>2. Head(r.todo) \in {"store", "flush"} /\ ~At(t, "wipe") /\ r.call # "none"
  <2>1. Head(r.todo) \in {"store", "flush"}
    BY DEF InSave, At
  <2>2. QED
    BY <1>0, <2>1, Shapes DEF At
<1>3. faults' = 0 => faults = 0 /\ ~open
  BY <1>0 DEF Fault
<1>4. (Later(q.todo, 0) /\ q.call = r.call /\ q.key = r.key) \/ q = Idle
  BY <1>1
<1>5. task'[t] = q /\ \A u \in Task \ {t} : task'[u].call = task[u].call
  BY <1>1, SetRecords
<1>6. OneWrites'
  <2>1. q.call = r.call \/ q.call = "none"
    BY <1>1, IdleIsOK
  <2>2. Booting' => Booting
    BY <1>5, <2>1 DEF Booting
  <2>3. Booting' => \A u \in Task \ {LoopTask} : task'[u].call = "none"
    BY <1>5, <2>1, <2>2 DEF ApplyInv, OneWrites
  <2>4. ASSUME NEW u \in Task, Writing(u)' PROVE u = Writer \/ (u = LoopTask /\ Booting')
    <3>1. Writing(u) /\ task'[u].call = task[u].call
      BY <1>5, <2>1, <2>4 DEF Writing
    <3>2. QED
      BY <3>1 DEF ApplyInv, OneWrites, Booting
  <2>5. QED
    BY <2>3, <2>4 DEF OneWrites
<1>7. q.call \in {"pinmap", "connect"} => q.key \notin LiveKey
  BY <1>1, IdleIsOK
<1>8. ASSUME faults' = 0 PROVE Later(q.todo, 0) \/ ~WillApply(t)
  <2>1. PICK u \in Task : At(u, "wipe")
    BY <1>3, <1>8 DEF ApplyInv, OpenOK
  <2>2. u # t /\ Head(task[u].todo) = "wipe" /\ RecordOK(task[u])
    BY <1>2, <2>1, RecordsOK DEF At
  <2>3. Writing(u)
    BY <2>2, Shapes DEF Writing
  <2>4. ~Later(r.todo, 0)
    BY <2>2, <2>3, Alone
  <2>5. QED
    BY <1>2, <2>4 DEF WillApply, At
<1>9. QED
  BY <1>1, <1>2, <1>3, <1>6, <1>7, <1>8, ApplyStep

LEMMA SaveApplies ==
  ASSUME StoreInv, ApplyInv, NEW t \in Task, SaveBegin(t) \/ StoreKey(t) \/ Flush(t)
  PROVE  ApplyInv'
<1> DEFINE r == task[t]
<1>0. RecordOK(r) /\ r \in Record
  BY StoreTypes
<1>1. /\ GoesOn(r, Rest(t)) /\ Follows(r, Rest(t)) /\ Rest(t) \in Record
      /\ \A w \in Record : w.call = Rest(t).call /\ w.key = Rest(t).key /\ w.todo = Rest(t).todo
           => Follows(r, w) /\ GoesOn(r, w)
  BY <1>0, RestIsOK
<1>2. UNCHANGED <<config, applied, open>>
  BY DEF SaveBegin, StoreKey, Flush
<1>3. CASE SaveBegin(t)
  <2> DEFINE q == [Rest(t) EXCEPT !.snap = config, !.next = 1,
                                   !.alone = ({u \in Task \ {t} : InSave(u)} = {})]
  <2>1. Overlaps(t, q) /\ Head(r.todo) = "snap" /\ UNCHANGED faults
    BY <1>3 DEF SaveBegin, Overlaps, At, bounds
  <2>2. /\ q \in Record /\ q.call = Rest(t).call /\ q.key = Rest(t).key /\ q.todo = Rest(t).todo
    <3>1. 1 \in Key
      BY DEF Key
    <3>2. QED
      BY <1>1, <3>1, StoreTypes DEF Record
  <2> HIDE DEF q
  <2>3. RecordOK(q) /\ GoesOn(r, q) /\ Head(q.todo) \notin {"put", "push"}
    BY <1>1, <2>1, <2>2 DEF Follows
  <2>4. QED
    BY <1>2, <2>1, <2>3, QuietApply DEF At
<1>4. CASE StoreKey(t)
  <2>1. Head(r.todo) = "store" /\ InSave(t)
    BY <1>4 DEF StoreKey, At, InSave
  <2>2. CASE open /\ UNCHANGED faults /\ task' = [task EXCEPT ![t] = NextKey(r)]
    <3> DEFINE q == NextKey(r)
    <3>1. RecordOK(q) /\ GoesOn(r, q) /\ (Follows(r, q) \/ Head(q.todo) = Head(r.todo))
      BY <1>0, <2>1, NextKeyIsOK
    <3>2. Sets(t, q)
      BY <2>2 DEF Sets
    <3> HIDE DEF q
    <3>3. Head(q.todo) \notin {"put", "push"}
      BY <2>1, <3>1 DEF Follows
    <3>4. QED
      BY <1>2, <2>1, <2>2, <3>1, <3>2, <3>3, QuietApply
  <2>3. CASE SaveFails(t) /\ (Fault \/ (~open /\ UNCHANGED faults))
    BY <1>2, <2>1, <2>3, FailApplies
  <2>4. QED
    BY <1>4, <2>2, <2>3 DEF StoreKey
<1>5. CASE Flush(t)
  <2>1. Head(r.todo) = "flush" /\ InSave(t)
    BY <1>5 DEF Flush, At, InSave
  <2>2. CASE open /\ UNCHANGED faults /\ Advance(t)
    <3>1. Sets(t, Rest(t)) /\ RecordOK(Rest(t)) /\ Head(Rest(t).todo) \notin {"put", "push"}
      BY <1>1, <2>1, <2>2 DEF Advance, Sets, Follows
    <3>2. QED
      BY <1>1, <1>2, <2>1, <2>2, <3>1, QuietApply
  <2>3. CASE SaveFails(t) /\ (Fault \/ (~open /\ UNCHANGED faults))
    BY <1>2, <2>1, <2>3, FailApplies
  <2>4. QED
    BY <1>5, <2>2, <2>3 DEF Flush
<1>6. QED
  BY <1>3, <1>4, <1>5

LEMMA ReadApplies ==
  ASSUME StoreInv, ApplyInv, NEW t \in Task, ReadKey(t) \/ EraseKey(t)
  PROVE  ApplyInv'
<1>1. PICK q : /\ RecordOK(q) /\ GoesOn(task[t], q) /\ (Sets(t, q) \/ Overlaps(t, q))
               /\ Head(q.todo) \notin {"put", "push"}
  BY ReadRecord, EraseRecord
<1>2. /\ Head(task[t].todo) \in {"read", "erase"} /\ ~At(t, "wipe")
      /\ UNCHANGED <<config, applied, open>> /\ (faults' = faults \/ Fault)
  BY DEF ReadKey, EraseKey, At
<1>3. faults' = 0 => faults = 0
  BY <1>2, StoreTypes DEF Fault
<1>4. QED
  BY <1>1, <1>2, <1>3, QuietApply

\* A format that fails has an error, one that does not opens the store again.
LEMMA WipeApplies ==
  ASSUME StoreInv, ApplyInv, NEW t \in Task, Wipe(t)
  PROVE  ApplyInv'
<1> DEFINE r == task[t]
<1>1. Head(r.todo) = "wipe" /\ UNCHANGED <<config, applied>> /\ RecordOK(r)
  BY StoreTypes DEF Wipe, At
<1>2. CASE open' = TRUE /\ Overlaps(t, Rest(t)) /\ UNCHANGED faults
  <2>1. GoesOn(r, Rest(t)) /\ Follows(r, Rest(t))
    BY <1>1, RestIsOK
  <2>2. RecordOK(Rest(t)) /\ Head(Rest(t).todo) \notin {"put", "push"}
    BY <1>1, <2>1 DEF Follows
  <2>3. QED
    BY <1>1, <1>2, <2>1, <2>2, QuietApply
<1>3. CASE Fault /\ Overlaps(t, Idle)
  <2>1. faults' # 0
    BY <1>3, StoreTypes DEF Fault
  <2>2. RecordOK(Idle) /\ Idle.call = "none" /\ Head(Idle.todo) = "idle"
    BY IdleIsOK
  <2>3. task'[t] = Idle /\ \A u \in Task \ {t} : task'[u].call = task[u].call
    BY <1>3, <2>2, SetRecords
  <2>4. Booting' => Booting
    BY <2>2, <2>3 DEF Booting
  <2>5. Booting' => \A u \in Task \ {LoopTask} : task'[u].call = "none"
    BY <2>2, <2>3, <2>4 DEF ApplyInv, OneWrites
  <2>6. ASSUME NEW u \in Task, Writing(u)' PROVE u = Writer \/ (u = LoopTask /\ Booting')
    <3>1. u # t /\ Writing(u) /\ task'[u].call = task[u].call
      BY <2>2, <2>3, <2>6 DEF Writing
    <3>2. QED
      BY <3>1 DEF ApplyInv, OneWrites, Booting
  <2>7. OneWrites'
    BY <2>5, <2>6 DEF OneWrites
  <2>8. QED
    BY <1>1, <1>3, <2>1, <2>2, <2>7, ApplyStep
<1>4. QED
  BY <1>2, <1>3 DEF Wipe, Overlaps

LEMMA CallApplies ==
  ASSUME OneWriter, StoreInv, ApplyInv, NEW t \in Task, Call(t)
  PROVE  ApplyInv'
<1>1. PICK c \in Calls[t], k \in Key, v \in Value :
        /\ c \in {"pinmap", "connect"} => k \notin LiveKey
        /\ task' = [task EXCEPT ![t] = [Idle EXCEPT !.call = c, !.todo = Plan(c), !.key = k, !.val = v]]
  BY DEF Call
<1> DEFINE q == [Idle EXCEPT !.call = c, !.todo = Plan(c), !.key = k, !.val = v]
<1>2. c \in CallName
  OBVIOUS
<1>3. /\ Plan(c) \in Seq(Stage) /\ Plan(c) # <<>> /\ Good(c, Plan(c))
      /\ Plan(c)[1] \notin {"put", "push"} /\ Head(Plan(c)) = Plan(c)[1]
  BY <1>2, PlanIsGood
<1>4. q \in Record /\ q.call = c /\ q.todo = Plan(c) /\ q.key = k
  BY <1>2, <1>3, IdleIsOK DEF RecordOK, Record
<1>5. Sets(t, q)
  BY <1>1 DEF Sets
<1> HIDE DEF q
<1>6. RecordOK(q) /\ Head(q.todo) \notin {"put", "push"}
  BY <1>3, <1>4 DEF RecordOK
<1>7. task'[t] = q /\ \A u \in Task \ {t} : task'[u] = task[u]
  BY <1>5, <1>6, SetRecords, OthersStay DEF StoreInv, TypeOK
<1>8. ~Booting /\ c # "boot"
  BY <1>2 DEF Call, CallName
<1>9. ~Booting'
  BY <1>4, <1>7, <1>8 DEF Booting
<1>10. c = "save" \/ t = Writer
  <2>1. \A w \in Task \ {Writer} : Calls[w] \subseteq {"save"}
    BY DEF OneWriter, Writer
  <2>2. QED
    BY <2>1
<1>11. ASSUME NEW u \in Task, Writing(u)' PROVE u = Writer
  <2>1. CASE u = t
    BY <1>4, <1>7, <1>10, <1>11, <2>1 DEF Writing
  <2>2. CASE u # t
    BY <1>7, <1>8, <1>11, <2>2 DEF Writing, ApplyInv, OneWrites
  <2>3. QED
    BY <2>1, <2>2
<1>12. OneWrites'
  BY <1>9, <1>11 DEF OneWrites
<1>13. Head(task[t].todo) = "idle" /\ UNCHANGED <<config, applied, open, faults>>
  BY DEF Call, At
<1>14. ~WillApply(t) /\ ~At(t, "wipe")
  <2>1. RecordOK(task[t])
    BY RecordsOK
  <2>2. task[t].call = "none"
    BY <1>13, <2>1, Shapes
  <2>3. ~Later(task[t].todo, 0)
    BY <2>1, <2>2, Shapes
  <2>4. QED
    BY <1>13, <2>3 DEF WillApply, At
<1>15. QED
  BY <1>1, <1>4, <1>5, <1>6, <1>12, <1>13, <1>14, ApplyStep

Boots == /\ task = Booted /\ open = TRUE /\ config = Default
         /\ applied = [k \in LiveKey |-> Default[k]]

LEMMA BootApplies == Boots => ApplyInv
<1> SUFFICES ASSUME task = Booted, open = TRUE, config = Default,
                    applied = [k \in LiveKey |-> Default[k]]
             PROVE  ApplyInv
  BY DEF Boots
<1>1. /\ \A t \in Task \ {LoopTask} : task[t].call = "none"
      /\ task[LoopTask].call = "boot"
  BY BootedIsOK, IdleIsOK
<1>2. OneWrites
  BY <1>1 DEF OneWrites, Writing, Booting
<1>3. CopiesOK
  BY BootedIsOK DEF CopiesOK, At
<1>4. OpenOK /\ ApplyOK
  BY DEF OpenOK, ApplyOK, InUse
<1>5. KeysOK
  BY <1>1 DEF KeysOK
<1>6. QED
  BY <1>2, <1>3, <1>4, <1>5 DEF ApplyInv

LEMMA NextApplies == OneWriter /\ StoreInv /\ ApplyInv /\ [Next]_vars => ApplyInv'
<1> SUFFICES ASSUME OneWriter, StoreInv, ApplyInv, [Next]_vars PROVE ApplyInv'
  OBVIOUS
<1>1. ASSUME NEW t \in Task, Call(t) PROVE ApplyInv'
  BY <1>1, CallApplies
<1>2. ASSUME NEW t \in Task, Step(t) PROVE ApplyInv'
  BY <1>2, RestApplies, SaveApplies, ReadApplies, WipeApplies DEF Step
<1>3. CASE Crash
  <2>1. task' = Booted
    BY <1>3 DEF Crash, Booted
  <2>2. open' = TRUE /\ config' = Default /\ applied' = [k \in LiveKey |-> Default[k]]
    BY <1>3 DEF Crash
  <2>3. Boots'
    BY <2>1, <2>2 DEF Boots
  <2>4. Boots' => ApplyInv'
    BY BootApplies, PTL
  <2>5. QED
    BY <2>3, <2>4
<1>4. CASE UNCHANGED vars
  BY <1>4 DEF vars, store, bounds, ApplyInv, OneWrites, Writing, Booting, CopiesOK, OpenOK, ApplyOK,
              InUse, WillApply, KeysOK, At
<1>5. QED
  BY <1>1, <1>2, <1>3, <1>4 DEF Next

\* With one task that makes the calls that change the configuration, whatever the
\* others save meanwhile, what ConfigApply has handed on is the configuration
\* whenever no call is under way and no NVS access has failed.
THEOREM ChangesAreApplied == OneWriter => (Spec => []AppliedIsConfigured)
<1> SUFFICES ASSUME OneWriter PROVE Spec => []AppliedIsConfigured
  OBVIOUS
<1>1. Init => ApplyInv
  <2> SUFFICES ASSUME Init PROVE ApplyInv
    OBVIOUS
  <2>1. task = Booted
    BY DEF Init, Booted
  <2>2. QED
    BY <2>1, BootApplies DEF Init, Boots
<1>2. StoreInv /\ ApplyInv /\ [Next]_vars => ApplyInv'
  BY NextApplies
<1>3. StoreInv /\ ApplyInv => AppliedIsConfigured
  <2> SUFFICES ASSUME StoreInv, ApplyInv, faults = 0, \A t \in Task : At(t, "idle")
               PROVE  InUse
    BY DEF AppliedIsConfigured, InUse
  <2>1. ASSUME NEW t \in Task PROVE ~WillApply(t)
    <3>1. RecordOK(task[t]) /\ Head(task[t].todo) = "idle"
      BY RecordsOK DEF At
    <3>2. ~Later(task[t].todo, 0)
      BY <3>1, Shapes
    <3>3. QED
      BY <3>1, <3>2 DEF WillApply, At
  <2>2. QED
    BY <2>1 DEF ApplyInv, ApplyOK
<1>4. QED
  BY <1>1, <1>2, <1>3, StoreInvariant, PTL DEF Spec
=============================================================================
