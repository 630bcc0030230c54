------------------------------ MODULE LoopProofs ------------------------------
(***************************************************************************)
(* What holds of two components that the loop task polls, each on its own: *)
(*  - the console (Console), for any number of tasks that log, lines of    *)
(*    any length, and a history of any capacity;                           *)
(*  - the SD card (Storage), for every board, every interval and lateness  *)
(*    that the clock can tell apart, and any number of cards and failures. *)
(* The two specifications have no variable and no constant in common.      *)
(***************************************************************************)
EXTENDS Console, Storage, FiniteSetTheorems, SequenceTheorems, TLAPS

USE TaskAssumption, TextAssumption, SizeAssumption

(***************************************************************************)
(* The console: the history ring.                                          *)
(***************************************************************************)
Byte == [of : Text \cup {"newline"}, part : Nat]

\* The ends of lines among the bytes a to b of s.
EndsIn(s, a, b) == {i \in a .. b : s[i] = NewLineByte}

\* Ring r holds the newest bytes of s, and has counted the ends of the others.
Holds(r, s) ==
  /\ DOMAIN r = {"bytes", "head", "tail", "used", "dropped"}
  /\ DOMAIN r.bytes = 0 .. Capacity - 1 /\ r.bytes = [i \in 0 .. Capacity - 1 |-> r.bytes[i]]
  /\ s \in Seq(Byte)
  /\ r.tail \in 0 .. Capacity - 1 /\ r.head = (r.tail + r.used) % Capacity
  /\ r.used = IF Len(s) < Capacity THEN Len(s) ELSE Capacity
  /\ \A i \in 0 .. r.used - 1 : r.bytes[(r.tail + i) % Capacity] = s[Len(s) - r.used + i + 1]
  /\ r.dropped = Cardinality(EndsIn(s, 1, Len(s) - r.used))

\* Positions run on, or wrap around once.
LEMMA Around ==
  ASSUME NEW x \in Int, 0 <= x, x < 2 * Capacity
  PROVE  /\ x % Capacity = IF x < Capacity THEN x ELSE x - Capacity
         /\ x % Capacity \in 0 .. Capacity - 1
OBVIOUS

LEMMA LargestOfTwo ==
  ASSUME NEW m \in Int, NEW n \in Int
  PROVE  Largest({m, n}) = IF m < n THEN n ELSE m
<1> DEFINE big == IF m < n THEN n ELSE m
<1>1. big \in {m, n} /\ \A k \in {m, n} : k <= big
  OBVIOUS
<1>2. \A a \in {m, n} : (\A k \in {m, n} : k <= a) => a = big
  OBVIOUS
<1>3. QED
  BY <1>1, <1>2 DEF Largest

LEMMA Shifted ==
  ASSUME NEW S \in SUBSET Int, IsFiniteSet(S), NEW d \in Int, NEW T \in SUBSET Int,
         \A i \in S : i + d \in T, \A j \in T : j - d \in S
  PROVE  IsFiniteSet(T) /\ Cardinality(T) = Cardinality(S)
<1> DEFINE f == [i \in S |-> i + d]
<1>1. f \in Bijection(S, T)
  <2>1. f \in [S -> T] /\ \A j \in T : j - d \in S /\ f[j - d] = j
    OBVIOUS
  <2>2. \A i, j \in S : f[i] = f[j] => i = j
    OBVIOUS
  <2>3. QED
    BY <2>1, <2>2 DEF Bijection, Injection, Surjection, IsInjective
<1>2. ExistsBijection(S, T)
  BY <1>1 DEF ExistsBijection
<1>3. QED
  BY <1>2, FS_Bijection

LEMMA EndsFinite ==
  ASSUME NEW s, NEW a \in Int, NEW b \in Int
  PROVE  IsFiniteSet(EndsIn(s, a, b)) /\ Cardinality(EndsIn(s, a, b)) \in Nat
BY FS_Interval, FS_Subset, FS_CardinalityType DEF EndsIn

LEMMA EndsSplit ==
  ASSUME NEW s, NEW a \in Int, NEW b \in Int, NEW c \in Int, a <= b + 1, b <= c
  PROVE  Cardinality(EndsIn(s, a, c))
           = Cardinality(EndsIn(s, a, b)) + Cardinality(EndsIn(s, b + 1, c))
<1> DEFINE S == EndsIn(s, a, b)  T == EndsIn(s, b + 1, c)
<1>1. S \cup T = EndsIn(s, a, c) /\ S \cap T = {}
  BY DEF EndsIn
<1>2. IsFiniteSet(S) /\ IsFiniteSet(T) /\ Cardinality(S) \in Nat /\ Cardinality(T) \in Nat
  BY EndsFinite
<1>3. Cardinality(S \cup T) = Cardinality(S) + Cardinality(T) - Cardinality(S \cap T)
  BY <1>2, FS_Union
<1>4. Cardinality(S \cap T) = 0
  BY <1>1, FS_EmptySet
<1>5. Cardinality(EndsIn(s, a, c)) = Cardinality(S \cup T)
  BY <1>1
<1>6. QED
  BY <1>2, <1>3, <1>4, <1>5

\* The bytes a to b of s are those of r, d places on.
Same(s, r, a, b, d) == \A i \in a .. b : s[i] = r[i + d]

LEMMA EndsShifted ==
  ASSUME NEW s, NEW r, NEW a \in Int, NEW b \in Int, NEW d \in Int, Same(s, r, a, b, d)
  PROVE  Cardinality(EndsIn(s, a, b)) = Cardinality(EndsIn(r, a + d, b + d))
<1> USE DEF Same
<1> DEFINE S == EndsIn(s, a, b)  T == EndsIn(r, a + d, b + d)
<1>1. S \in SUBSET Int /\ IsFiniteSet(S)
  <2>1. S \in SUBSET Int
    BY DEF EndsIn
  <2>2. QED
    BY <2>1, EndsFinite
<1>2. T \in SUBSET Int /\ \A i \in S : i + d \in T
  BY DEF EndsIn
<1>3. \A j \in T : j - d \in S
  <2> SUFFICES ASSUME NEW j \in T PROVE j - d \in S
    OBVIOUS
  <2>1. j - d \in a .. b /\ j = (j - d) + d
    BY DEF EndsIn
  <2>2. QED
    BY <2>1 DEF EndsIn
<1>4. QED
  <2> HIDE DEF S, T
  <2>1. Cardinality(T) = Cardinality(S)
    BY <1>1, <1>2, <1>3, Shifted
  <2>2. QED
    BY <2>1 DEF S, T

\* LogHistoryDropOldestByteLocked, so often that n bytes more find room.
LEMMA DropHolds ==
  ASSUME NEW r, NEW s, Holds(r, s), NEW n \in 0 .. r.used
  PROVE  LET q == DropOldest(r, n) IN
         /\ DOMAIN q = {"bytes", "head", "tail", "used", "dropped"}
         /\ q.bytes = r.bytes /\ q.head = r.head
         /\ q.tail = (r.tail + n) % Capacity /\ q.used = r.used - n
         /\ q.dropped = Cardinality(EndsIn(s, 1, Len(s) - q.used))
<1> DEFINE q == DropOldest(r, n)
           out == {i \in 0 .. n - 1 : r.bytes[(r.tail + i) % Capacity] = NewLineByte}
           lo == Len(s) - r.used
<1>1. /\ DOMAIN q = {"bytes", "head", "tail", "used", "dropped"}
      /\ q.bytes = r.bytes /\ q.head = r.head
      /\ q.tail = (r.tail + n) % Capacity /\ q.used = r.used - n
      /\ q.dropped = r.dropped + Cardinality(out)
  BY DEF DropOldest, Holds
<1>2. Len(s) \in Nat /\ r.used \in Nat /\ lo \in Nat /\ n \in Nat
  BY DEF Holds
<1>3. out \in SUBSET Int /\ IsFiniteSet(out)
  <2>1. out \in SUBSET (0 .. n - 1)
    OBVIOUS
  <2>2. IsFiniteSet(0 .. n - 1)
    BY <1>2, FS_Interval
  <2>3. QED
    BY <2>1, <2>2, FS_Subset
<1> DEFINE T == EndsIn(s, lo + 1, lo + n)
<1>4. T \in SUBSET Int /\ (\A i \in out : i + (lo + 1) \in T) /\ (\A j \in T : j - (lo + 1) \in out)
  <2>1. ASSUME NEW i \in out PROVE i + (lo + 1) \in T
    <3>1. i \in 0 .. n - 1 /\ i \in 0 .. r.used - 1
      BY <1>2, <2>1
    <3>2. r.bytes[(r.tail + i) % Capacity] = s[lo + i + 1]
      BY <3>1 DEF Holds
    <3>3. lo + i + 1 = i + (lo + 1) /\ i + (lo + 1) \in lo + 1 .. lo + n
      <4> HIDE DEF lo, out
      <4>1. lo \in Int /\ n \in Nat /\ i \in Int /\ 0 <= i /\ i <= n - 1
        BY <1>2, <3>1
      <4>2. QED
        BY <4>1
    <3>4. QED
      BY <2>1, <3>2, <3>3 DEF EndsIn
  <2>2. ASSUME NEW j \in T PROVE j - (lo + 1) \in out
    <3> DEFINE i == j - (lo + 1)
    <3>0. j \in lo + 1 .. lo + n
      BY <2>2 DEF EndsIn
    <3>1. i \in 0 .. n - 1 /\ i \in 0 .. r.used - 1 /\ j = i + (lo + 1) /\ j = lo + i + 1
      <4> HIDE DEF lo
      <4>1. QED
        BY <1>2, <3>0
    <3>2. s[lo + i + 1] = NewLineByte
      BY <2>2, <3>1 DEF EndsIn
    <3>3. r.bytes[(r.tail + i) % Capacity] = s[lo + i + 1]
      BY <3>1 DEF Holds
    <3>4. QED
      BY <3>1, <3>2, <3>3
  <2>3. QED
    BY <2>1, <2>2 DEF EndsIn
<1>5. Cardinality(T) = Cardinality(out)
  <2> HIDE DEF out
  <2>1. lo + 1 \in Int
    BY <1>2
  <2> HIDE DEF lo, T
  <2>2. QED
    BY <1>3, <1>4, <2>1, Shifted
<1>6. Cardinality(EndsIn(s, 1, lo + n))
        = Cardinality(EndsIn(s, 1, lo)) + Cardinality(T)
  <2> HIDE DEF lo
  <2>1. 1 <= lo + 1 /\ lo <= lo + n /\ 1 \in Int /\ lo \in Int /\ lo + n \in Int
    BY <1>2
  <2>2. QED
    BY <2>1, EndsSplit
<1>7. lo + n = Len(s) - q.used
  BY <1>1, <1>2
<1>8. r.dropped = Cardinality(EndsIn(s, 1, lo))
  BY DEF Holds
<1>9. q.dropped = Cardinality(EndsIn(s, 1, Len(s) - q.used))
  <2> HIDE DEF lo, q, out
  <2>1. q.dropped = Cardinality(EndsIn(s, 1, lo + n))
    BY <1>1, <1>5, <1>6, <1>8
  <2>2. QED
    BY <1>7, <2>1
<1>10. QED
  BY <1>1, <1>9

\* Place p keeps the byte that place x had, while len bytes go to the head and
\* on, the first of them up to the end of the ring.
StaysAt(p, x, head, first, len) ==
  /\ p = x /\ p \in 0 .. Capacity - 1
  /\ p \notin head .. head + first - 1 /\ ~(p < len - first)

\* Place p gets the m-th of them, counted from 0.
GoesTo(p, m, head, first, len) ==
  /\ p \in 0 .. Capacity - 1
  /\ m < first => p \in head .. head + first - 1 /\ p - head + 1 = m + 1
  /\ ~(m < first) => /\ p \notin head .. head + first - 1
                     /\ p < len - first /\ first + p + 1 = m + 1

\* Of u bytes from tail t to the head, n go, and len come.
Moves(t, u, n, len, head, from, first) ==
  /\ t \in 0 .. Capacity - 1 /\ u \in 0 .. Capacity /\ n \in 0 .. u
  /\ len \in 0 .. Capacity /\ u - n + len <= Capacity
  /\ head = (t + u) % Capacity /\ from = (t + n) % Capacity
  /\ first = IF len > Capacity - head THEN Capacity - head ELSE len

\* Where the bytes of a ring stand when the oldest n of u went and len came:
\* at the places they had, and from the head on.
LEMMA Places ==
  ASSUME NEW t, NEW u, NEW n, NEW len, NEW head, NEW from, NEW first,
         Moves(t, u, n, len, head, from, first)
  PROVE  /\ head \in 0 .. Capacity - 1 /\ from \in 0 .. Capacity - 1
         /\ (head + len) % Capacity = (from + (u - n + len)) % Capacity
         /\ \A i \in 0 .. u - n - 1 :
              StaysAt((from + i) % Capacity, (t + (n + i)) % Capacity, head, first, len)
         /\ \A m \in 0 .. len - 1 :
              GoesTo((from + (u - n + m)) % Capacity, m, head, first, len)
<1>0. /\ t \in 0 .. Capacity - 1 /\ u \in 0 .. Capacity /\ n \in 0 .. u
      /\ len \in 0 .. Capacity /\ u - n + len <= Capacity
      /\ head = (t + u) % Capacity /\ from = (t + n) % Capacity
      /\ first = IF len > Capacity - head THEN Capacity - head ELSE len
  BY DEF Moves
<1>1. /\ head = IF t + u < Capacity THEN t + u ELSE t + u - Capacity
      /\ from = IF t + n < Capacity THEN t + n ELSE t + n - Capacity
      /\ head \in 0 .. Capacity - 1 /\ from \in 0 .. Capacity - 1
      /\ t \in 0 .. Capacity - 1 /\ u \in 0 .. Capacity /\ n \in 0 .. u
      /\ len \in 0 .. Capacity /\ u - n + len <= Capacity
      /\ first = IF len > Capacity - head THEN Capacity - head ELSE len
  <2> DEFINE a == t + u  b == t + n
  <2>1. a \in Int /\ 0 <= a /\ a < 2 * Capacity /\ b \in Int /\ 0 <= b /\ b < 2 * Capacity
    BY <1>0
  <2>2. head = a % Capacity /\ from = b % Capacity
    BY <1>0
  <2> HIDE DEF a, b
  <2>3. /\ head = IF a < Capacity THEN a ELSE a - Capacity
        /\ from = IF b < Capacity THEN b ELSE b - Capacity
        /\ head \in 0 .. Capacity - 1 /\ from \in 0 .. Capacity - 1
    BY <2>1, <2>2, Around
  <2>4. QED
    BY <1>0, <2>3 DEF a, b
<1>2. (head + len) % Capacity = (from + (u - n + len)) % Capacity
  <2> DEFINE a == head + len  b == from + (u - n + len)
  <2>1. a \in Int /\ b \in Int /\ 0 <= a /\ a < 2 * Capacity /\ 0 <= b /\ b < 2 * Capacity
        /\ (a = b \/ a = b + Capacity \/ b = a + Capacity)
    BY <1>1
  <2> HIDE DEF a, b
  <2>2. /\ a % Capacity = IF a < Capacity THEN a ELSE a - Capacity
        /\ b % Capacity = IF b < Capacity THEN b ELSE b - Capacity
    BY <2>1, Around
  <2>3. a % Capacity = b % Capacity
    <3>1. CASE a = b
      BY <3>1
    <3>2. CASE a = b + Capacity
      BY <2>1, <2>2, <3>2
    <3>3. CASE b = a + Capacity
      BY <2>1, <2>2, <3>3
    <3>4. QED
      BY <2>1, <3>1, <3>2, <3>3
  <2>4. QED
    BY <2>3 DEF a, b
<1>3. ASSUME NEW i \in 0 .. u - n - 1
      PROVE  StaysAt((from + i) % Capacity, (t + (n + i)) % Capacity, head, first, len)
  <2> DEFINE a == from + i  b == t + (n + i)
  <2>1. /\ a \in Int /\ 0 <= a /\ a < 2 * Capacity /\ b \in Int /\ 0 <= b /\ b < 2 * Capacity
        /\ a = b \/ b = a + Capacity
    BY <1>1
  <2> HIDE DEF a, b
  <2>2. /\ a % Capacity = IF a < Capacity THEN a ELSE a - Capacity
        /\ b % Capacity = IF b < Capacity THEN b ELSE b - Capacity
        /\ a % Capacity \in 0 .. Capacity - 1
    BY <2>1, Around
  <2> DEFINE p == a % Capacity
  <2>3. p = b % Capacity /\ p \in 0 .. Capacity - 1
    BY <2>1, <2>2
  <2>4. p = IF a < Capacity THEN a ELSE a - Capacity
    BY <2>2
  <2> HIDE DEF p
  <2>5. p \notin head .. head + first - 1 /\ ~(p < len - first)
    BY <1>1, <2>3, <2>4 DEF a
  <2>6. StaysAt(p, b % Capacity, head, first, len)
    BY <2>3, <2>5 DEF StaysAt
  <2>7. QED
    BY <2>6 DEF a, b, p
<1>4. ASSUME NEW m \in 0 .. len - 1
      PROVE  GoesTo((from + (u - n + m)) % Capacity, m, head, first, len)
  <2> DEFINE a == from + (u - n + m)
  <2>1. a \in Int /\ 0 <= a /\ a < 2 * Capacity
    BY <1>1
  <2> HIDE DEF a
  <2> DEFINE p == a % Capacity
  <2>2. p = (IF a < Capacity THEN a ELSE a - Capacity) /\ p \in 0 .. Capacity - 1
    BY <2>1, Around
  <2> HIDE DEF p
  <2>3. GoesTo(p, m, head, first, len)
    BY <1>1, <2>2 DEF GoesTo, a
  <2>4. QED
    BY <2>3 DEF a, p
<1>5. QED
  BY <1>1, <1>2, <1>3, <1>4

\* How many bytes there are, of S that were written and L that come.
Sizes(S, L, u, len, n) ==
  /\ S \in Nat /\ L \in Nat
  /\ u = IF S < Capacity THEN S ELSE Capacity
  /\ len = IF L <= Capacity THEN L ELSE Capacity
  /\ n = IF u + len <= Capacity THEN 0 ELSE u + len - Capacity

LEMMA SizesFit ==
  ASSUME NEW S, NEW L, NEW u, NEW len, NEW n, Sizes(S, L, u, len, n)
  PROVE  /\ u \in 0 .. Capacity /\ u <= S /\ len \in 0 .. Capacity /\ len <= L
         /\ n \in 0 .. u /\ u - n + len <= Capacity /\ u - n \in Nat
         /\ u - n + len = IF S + L < Capacity THEN S + L ELSE Capacity
         /\ L > Capacity => n = u /\ len = Capacity
         /\ L <= Capacity => len = L
         /\ S - (u - n) \in 0 .. S
BY DEF Sizes

\* LogHistoryAppendLocked keeps the newest bytes.  Of a text that does not fit,
\* the part that never enters the ring has no end of a line.
LEMMA AppendHolds ==
  ASSUME NEW r, NEW s, Holds(r, s), NEW text \in Seq(Byte),
         \A i \in 1 .. Len(text) - Capacity : text[i] # NewLineByte
  PROVE  Holds(AppendHistory(r, text), s \o text)
<1> DEFINE L == Len(text)
           S == Len(s)
           k0 == Largest({1, L - Capacity + 1})
           kept == SubSeq(text, k0, L)
           len == Len(kept)
           u == r.used
           n == Largest({0, u + len - Capacity})
           room == DropOldest(r, n)
           toEnd == Capacity - r.head
           first == IF len > toEnd THEN toEnd ELSE len
           q == AppendHistory(r, text)
           both == s \o text
<1>1. /\ S \in Nat /\ L \in Nat /\ u \in 0 .. Capacity /\ s \in Seq(Byte)
      /\ u = IF S < Capacity THEN S ELSE Capacity
      /\ r.tail \in 0 .. Capacity - 1 /\ r.head = (r.tail + u) % Capacity
  BY DEF Holds
<1>2. /\ k0 = IF L <= Capacity THEN 1 ELSE L - Capacity + 1
      /\ len = IF L <= Capacity THEN L ELSE Capacity
      /\ len \in 0 .. Capacity /\ k0 = L - len + 1
      /\ \A m \in 0 .. len - 1 : kept[m + 1] = text[L - len + m + 1]
  <2>1. k0 = IF L <= Capacity THEN 1 ELSE L - Capacity + 1
    BY <1>1, LargestOfTwo
  <2> HIDE DEF k0
  <2>2. k0 \in 1 .. L + 1 /\ L \in Nat
    BY <1>1, <2>1
  <2>3. len = L - k0 + 1 /\ \A m \in 1 .. L - k0 + 1 : kept[m] = text[k0 + m - 1]
    BY <2>2
  <2> HIDE DEF kept, L
  <2>4. len = IF L <= Capacity THEN L ELSE Capacity
    BY <2>1, <2>2, <2>3
  <2>5. len \in 0 .. Capacity /\ k0 = L - len + 1
    BY <2>1, <2>2, <2>4
  <2> HIDE DEF len
  <2>6. ASSUME NEW m \in 0 .. len - 1 PROVE kept[m + 1] = text[L - len + m + 1]
    <3>1. m + 1 \in 1 .. L - k0 + 1 /\ k0 + (m + 1) - 1 = L - len + m + 1
      BY <2>2, <2>5
    <3>2. QED
      BY <2>3, <3>1
  <2>7. QED
    BY <2>1, <2>4, <2>5, <2>6
<1>3. Sizes(S, L, u, len, n)
  <2>1. n = IF u + len <= Capacity THEN 0 ELSE u + len - Capacity
    <3>1. u + len - Capacity \in Int /\ (0 < u + len - Capacity <=> ~(u + len <= Capacity))
      <4> HIDE DEF len, u
      <4>1. QED
        BY <1>1, <1>2
    <3> HIDE DEF len, u
    <3>2. QED
      BY <3>1, LargestOfTwo
  <2> HIDE DEF n, u, len, S, L
  <2>2. QED
    BY <1>1, <1>2, <2>1 DEF Sizes
<1>sizes.
      /\ u \in 0 .. Capacity /\ u <= S /\ len \in 0 .. Capacity /\ len <= L
      /\ n \in 0 .. u /\ u - n + len <= Capacity /\ u - n \in Nat
      /\ u - n + len = IF S + L < Capacity THEN S + L ELSE Capacity
      /\ L > Capacity => n = u /\ len = Capacity
      /\ L <= Capacity => len = L
      /\ S - (u - n) \in 0 .. S
      /\ S \in Nat /\ L \in Nat
  <2> HIDE DEF n, u, len, S, L
  <2>1. QED
    BY <1>3, SizesFit DEF Sizes
<1>4. /\ DOMAIN room = {"bytes", "head", "tail", "used", "dropped"}
      /\ room.bytes = r.bytes /\ room.head = r.head
      /\ room.tail = (r.tail + n) % Capacity /\ room.used = u - n
      /\ room.dropped = Cardinality(EndsIn(s, 1, S - (u - n)))
  <2> HIDE DEF n
  <2>1. QED
    BY <1>sizes, DropHolds
<1>5. /\ DOMAIN q = {"bytes", "head", "tail", "used", "dropped"}
      /\ q.bytes = [i \in 0 .. Capacity - 1 |->
                      IF i \in r.head .. r.head + first - 1 THEN kept[i - r.head + 1]
                      ELSE IF i < len - first THEN kept[first + i + 1] ELSE r.bytes[i]]
      /\ q.head = (r.head + len) % Capacity /\ q.used = u - n + len
      /\ q.tail = room.tail /\ q.dropped = room.dropped
  <2> HIDE DEF room, kept
  <2>1. q = [room EXCEPT
         !.bytes = [i \in DOMAIN @ |->
                      IF i \in r.head .. r.head + first - 1 THEN kept[i - r.head + 1]
                      ELSE IF i < len - first THEN kept[first + i + 1] ELSE @[i]],
         !.head = (@ + len) % Capacity, !.used = @ + len]
    BY DEF AppendHistory, room, kept
  <2>2. DOMAIN room.bytes = 0 .. Capacity - 1
    BY <1>4 DEF Holds
  <2> HIDE DEF q, len, first
  <2>3. QED
    BY <1>4, <2>1, <2>2
<1>6. both \in Seq(Byte) /\ Len(both) = S + L
      /\ (\A i \in 1 .. S : both[i] = s[i]) /\ (\A i \in 1 .. L : both[S + i] = text[i])
  BY <1>1
<1>total. q.used = u - n + len /\ Len(both) = S + L
  BY <1>5, <1>6
<1>7. q.used = IF Len(both) < Capacity THEN Len(both) ELSE Capacity
  <2> HIDE DEF S, L, u, len, n, q, both
  <2>1. QED
    BY <1>sizes, <1>total
<1> DEFINE old(i) == StaysAt((room.tail + i) % Capacity, (r.tail + (n + i)) % Capacity,
                            r.head, first, len)
           new(m) == GoesTo((room.tail + (u - n + m)) % Capacity, m, r.head, first, len)
<1>8. /\ room.tail \in 0 .. Capacity - 1
      /\ (r.head + len) % Capacity = (room.tail + (u - n + len)) % Capacity
      /\ \A i \in 0 .. u - n - 1 : old(i)
      /\ \A m \in 0 .. len - 1 : new(m)
  <2>1. first = IF len > Capacity - r.head THEN Capacity - r.head ELSE len
    OBVIOUS
  <2> HIDE DEF u, len, n, first, room
  <2>2. /\ r.tail \in 0 .. Capacity - 1 /\ u \in 0 .. Capacity /\ n \in 0 .. u
        /\ len \in 0 .. Capacity /\ u - n + len <= Capacity
        /\ r.head = (r.tail + u) % Capacity /\ room.tail = (r.tail + n) % Capacity
    BY <1>1, <1>sizes, <1>4
  <2>3. Moves(r.tail, u, n, len, r.head, room.tail, first)
    BY <2>1, <2>2 DEF Moves
  <2>4. QED
    BY <2>3, Places
<1>9. ASSUME NEW i \in 0 .. q.used - 1
      PROVE  q.bytes[(q.tail + i) % Capacity] = both[Len(both) - q.used + i + 1]
  <2> DEFINE p == (room.tail + i) % Capacity
  <2>1. CASE i < u - n
    <3>1. i \in 0 .. u - n - 1 /\ old(i)
      <4>1. i \in 0 .. u - n - 1
        <5> HIDE DEF u, n, q
        <5>1. QED
          BY <1>sizes, <1>total, <2>1
      <4>2. QED
        BY <4>1, <1>8
    <3>2. q.bytes[p] = r.bytes[(r.tail + (n + i)) % Capacity]
      <4> HIDE DEF q, kept, len, first, n, room, u
      <4>1. QED
        BY <1>5, <3>1 DEF StaysAt
    <3>3. /\ n + i \in 0 .. u - 1 /\ L <= Capacity /\ len = L
          /\ S - u + (n + i) + 1 \in 1 .. S
          /\ Len(both) - q.used + i + 1 = S - u + (n + i) + 1
      <4>1. L <= Capacity /\ len = L
        <5> HIDE DEF q, len, n, u, L
        <5>1. QED
          BY <1>sizes, <3>1
      <4>2. n + i \in 0 .. u - 1 /\ S - u + (n + i) + 1 \in 1 .. S
        <5> HIDE DEF q, len, n, u, L, S
        <5>1. QED
          BY <1>sizes, <3>1
      <4>3. Len(both) - q.used + i + 1 = S - u + (n + i) + 1
        <5> HIDE DEF q, len, n, u, L, S, both
        <5>1. QED
          BY <1>sizes, <1>total, <3>1, <4>1
      <4>4. QED
        BY <4>1, <4>2, <4>3
    <3>4. r.bytes[(r.tail + (n + i)) % Capacity] = s[S - u + (n + i) + 1]
      <4> HIDE DEF n
      <4>1. QED
        BY <3>3 DEF Holds
    <3>5. QED
      <4> HIDE DEF q, kept, len, first, n, room, u, S, L, both
      <4>1. q.tail = room.tail
        BY <1>5
      <4>2. QED
        BY <1>6, <3>2, <3>3, <3>4, <4>1
  <2>2. CASE ~(i < u - n)
    <3> DEFINE m == i - (u - n)
    <3>1. m \in 0 .. len - 1 /\ i = u - n + m
      <4> HIDE DEF u, n, q, len
      <4>1. QED
        BY <1>sizes, <1>total, <2>2
    <3>2. new(m)
      BY <1>8, <3>1
    <3>3. p = (room.tail + (u - n + m)) % Capacity
      BY <3>1
    <3>4. q.bytes[p] = kept[m + 1]
      <4> HIDE DEF q, kept, len, first, n, room, u, m, p
      <4>1. p \in 0 .. Capacity - 1
        BY <3>2, <3>3 DEF GoesTo
      <4>2. CASE m < first
        <5>1. p \in r.head .. r.head + first - 1 /\ p - r.head + 1 = m + 1
          BY <3>2, <3>3, <4>2 DEF GoesTo
        <5>2. QED
          BY <1>5, <4>1, <5>1
      <4>3. CASE ~(m < first)
        <5>1. p \notin r.head .. r.head + first - 1 /\ p < len - first /\ first + p + 1 = m + 1
          BY <3>2, <3>3, <4>3 DEF GoesTo
        <5>2. QED
          BY <1>5, <4>1, <5>1
      <4>4. QED
        BY <4>2, <4>3
    <3>5. kept[m + 1] = text[L - len + m + 1]
      BY <1>2, <3>1
    <3>6. Len(both) - q.used + i + 1 = S + (L - len + m + 1) /\ L - len + m + 1 \in 1 .. L
      <4> HIDE DEF q, kept, len, n, u, S, L, both, m
      <4>1. QED
        BY <1>sizes, <1>total, <3>1
    <3>7. QED
      <4> HIDE DEF q, kept, len, first, n, room, u, S, L, both, m
      <4>1. q.tail = room.tail
        BY <1>5
      <4>2. QED
        BY <1>6, <3>4, <3>5, <3>6, <4>1
  <2>3. QED
    BY <2>1, <2>2
<1>10. q.dropped = Cardinality(EndsIn(both, 1, Len(both) - q.used))
  <2> DEFINE x == S - (u - n)
  <2>1. x \in 0 .. S /\ q.dropped = Cardinality(EndsIn(s, 1, x))
    BY <1>sizes, <1>4, <1>5
  <2>2. Cardinality(EndsIn(s, 1, x)) = Cardinality(EndsIn(both, 1, x))
    <3> HIDE DEF x, both
    <3>1. \A i \in 1 .. x : s[i] = both[i]
      BY <1>6, <2>1
    <3>2. EndsIn(s, 1, x) = EndsIn(both, 1, x)
      BY <3>1 DEF EndsIn
    <3>3. QED
      BY <3>2
  <2>3. CASE L <= Capacity
    <3>1. Len(both) - q.used = x
      <4> HIDE DEF u, n, S, L, len, q, both
      <4>1. QED
        BY <1>sizes, <1>total, <2>3
    <3>2. QED
      BY <2>1, <2>2, <3>1
  <2>4. CASE L > Capacity
    <3>1. Len(both) - q.used = S + (L - Capacity) /\ x = S
      <4> HIDE DEF u, n, S, L, len, q, both
      <4>1. QED
        BY <1>sizes, <1>total, <2>4
    <3> DEFINE d == L - Capacity
    <3>2. d \in Nat
      BY <1>1, <2>4
    <3>3. Cardinality(EndsIn(both, 1, S + d))
            = Cardinality(EndsIn(both, 1, S)) + Cardinality(EndsIn(both, S + 1, S + d))
      <4> HIDE DEF d, S, both
      <4>1. QED
        BY <1>1, <3>2, EndsSplit
    <3>4. Cardinality(EndsIn(both, S + 1, S + d)) = 0
      <4>1. EndsIn(both, S + 1, S + d) = {}
        <5> SUFFICES ASSUME NEW j \in S + 1 .. S + d PROVE both[j] # NewLineByte
          BY DEF EndsIn
        <5>1. j - S \in 1 .. L - Capacity /\ j - S \in 1 .. L /\ j = S + (j - S)
          <6> HIDE DEF S, L
          <6>1. QED
            BY <1>1, <3>2
        <5>2. both[S + (j - S)] = text[j - S]
          <6> HIDE DEF S, L, both
          <6>1. QED
            BY <1>6, <5>1
        <5>3. QED
          BY <5>1, <5>2
      <4>2. QED
        BY <4>1, FS_EmptySet
    <3>5. Cardinality(EndsIn(both, 1, S)) \in Nat
      BY <1>1, EndsFinite
    <3>6. QED
      <4> HIDE DEF d, S, L, both, q, x
      <4>1. Len(both) - q.used = S + d
        BY <3>1 DEF d
      <4>2. QED
        BY <2>1, <2>2, <3>1, <3>3, <3>4, <3>5, <4>1
  <2>5. QED
    BY <1>1, <2>3, <2>4
<1>11. QED
  <2> HIDE DEF u, n, S, L, len, q, both, room, first, kept
  <2>1. q.head = (q.tail + q.used) % Capacity /\ q.tail \in 0 .. Capacity - 1
    BY <1>5, <1>8
  <2>2. DOMAIN q.bytes = 0 .. Capacity - 1 /\ q.bytes = [i \in 0 .. Capacity - 1 |-> q.bytes[i]]
    BY <1>5
  <2>3. Holds(q, both)
    BY <1>5, <1>6, <1>7, <1>9, <1>10, <2>1, <2>2 DEF Holds
  <2>4. QED
    BY <2>3 DEF q, both

(***************************************************************************)
(* The console: the invariant.                                             *)
(***************************************************************************)
\* Where the task that holds the sink stands, and the editor's task while it
\* writes a line.
Held     == {"store", "redraw"}
Writing  == {"emit", "store", "redraw"}
EditorAt == {"idle", "echo", "rub", "newline", "line", "clear", "command", "prompt", "announce"}
Blanked  == {"line", "emit", "clear", "command", "prompt"}

TasksOK ==
  /\ task \in [Task -> [pc : Writing \cup EditorAt, text : Text, stored : BOOLEAN,
                        then : Writing \cup EditorAt]]
  /\ \A t \in Writer : task[t].pc \in Writing \cup {"idle"} /\ task[t].then = "idle"
  /\ task[Ui].pc \in Writing => task[Ui].then \in {"clear", "prompt"}

SinkOK ==
  /\ sink \in Task \cup {Nobody}
  /\ \A t \in Task : sink = t <=> task[t].pc \in Held

\* The ring holds the lines of the screen, but for one that is still to be stored.
LoggedOK ==
  IF sink # Nobody /\ task[sink].pc = "store"
  THEN \E s \in Seq(Byte) : logged = s \o Line(task[sink].text) /\ Holds(ring, s)
  ELSE Holds(ring, logged)

Char == {Part(k, 1) : k \in Key}

EditOK ==
  /\ buffer \in Seq(Char) /\ Len(buffer) <= LineMax
  /\ overflow \in BOOLEAN /\ wasCr \in BOOLEAN /\ torn \in BOOLEAN
  /\ editing \in BOOLEAN /\ (editing <=> task[Ui].pc \in {"idle", "echo", "rub"})
  /\ task[Ui].pc \in {"command", "prompt", "announce"} => buffer = << >>
  /\ task[Ui].pc \in Writing /\ task[Ui].then = "prompt" => buffer = << >>
  /\ At(Ui, "echo") => buffer # << >>

\* The row that the editor will show when what it has begun is done.
Shows(r) ==
  CASE At(Ui, "idle")     -> r = <<Prompt>> \o buffer
    [] At(Ui, "echo")     -> r = <<Prompt>> \o SubSeq(buffer, 1, Len(buffer) - 1)
    [] At(Ui, "rub")      -> \E c \in Char : r = Append(<<Prompt>> \o buffer, c)
    [] At(Ui, "announce") -> r = <<Prompt>>
    [] OTHER              -> TRUE

RowOK ==
  /\ sink # Nobody \/ task[Ui].pc \in Blanked => row = << >>
  /\ sink = Nobody /\ ~torn => Shows(row)

ShellInv == TasksOK /\ SinkOK /\ LoggedOK /\ EditOK /\ RowOK

Entry == [pc : Writing \cup EditorAt, text : Text, stored : BOOLEAN, then : Writing \cup EditorAt]

LEMMA Bytes ==
  ASSUME NEW l \in Text
  PROVE  /\ Cells(l) \in Seq(Byte) /\ Len(Cells(l)) = Length[l]
         /\ \A i \in 1 .. Length[l] : Cells(l)[i] # NewLineByte /\ Cells(l)[i] # Blank
         /\ <<NewLineByte>> \in Seq(Byte) /\ Line(l) \in Seq(Byte)
<1>1. Length[l] \in Nat
  OBVIOUS
<1>2. \A i \in 1 .. Length[l] : Part(l, i) \in Byte /\ Part(l, i) # NewLineByte /\ Part(l, i) # Blank
  BY <1>1 DEF Part, Byte, NewLineByte, Blank
<1>3. Cells(l) \in [1 .. Length[l] -> Byte] /\ \A i \in 1 .. Length[l] : Cells(l)[i] = Part(l, i)
  BY <1>2 DEF Cells
<1>4. Cells(l) \in Seq(Byte) /\ Len(Cells(l)) = Length[l]
  BY <1>1, <1>3
<1>5. NewLineByte \in Byte
  BY DEF Part, Byte, NewLineByte
<1>6. QED
  BY <1>2, <1>3, <1>4, <1>5 DEF Line

\* A line is stored in two steps.
LEMMA StoredHolds ==
  ASSUME NEW r, NEW s, Holds(r, s), NEW l \in Text
  PROVE  Holds(AppendHistory(AppendHistory(r, Cells(l)), <<NewLineByte>>), s \o Line(l))
<1> DEFINE q == AppendHistory(r, Cells(l))
<1>1. s \in Seq(Byte)
  BY DEF Holds
<1>2. Holds(q, s \o Cells(l))
  <2>1. \A i \in 1 .. Len(Cells(l)) - Capacity : Cells(l)[i] # NewLineByte
    BY Bytes
  <2>2. QED
    BY <2>1, Bytes, AppendHolds
<1>3. Holds(AppendHistory(q, <<NewLineByte>>), (s \o Cells(l)) \o <<NewLineByte>>)
  <2> HIDE DEF q
  <2>1. \A i \in 1 .. Len(<<NewLineByte>>) - Capacity : <<NewLineByte>>[i] # NewLineByte
    OBVIOUS
  <2>2. QED
    BY <1>2, <2>1, Bytes, AppendHolds
<1>4. (s \o Cells(l)) \o <<NewLineByte>> = s \o Line(l)
  <2> DEFINE c == Cells(l)  e == <<NewLineByte>>
  <2>1. c \in Seq(Byte) /\ e \in Seq(Byte)
    BY Bytes
  <2> HIDE DEF c, e
  <2>2. (s \o c) \o e = s \o (c \o e)
    BY <1>1, <2>1
  <2>3. QED
    BY <2>2 DEF c, e, Line
<1>5. QED
  BY <1>3, <1>4

LEMMA NothingHeld == Holds(NoHistory, << >>)
<1> DEFINE z == << >>
<1>1. EndsIn(z, 1, 0) = {}
  BY DEF EndsIn
<1>2. Cardinality(EndsIn(z, 1, 0)) = 0
  BY <1>1, FS_EmptySet
<1>3. z \in Seq(Byte) /\ Len(z) = 0 /\ Len(z) - 0 = 0 /\ 0 % Capacity = 0
  BY Around
<1> HIDE DEF z
<1>4. Holds(NoHistory, z)
  BY <1>2, <1>3 DEF Holds, NoHistory
<1>5. QED
  BY <1>4 DEF z

\* What a reader of the ring gets.
LEMMA CopyOfHeld ==
  ASSUME Holds(ring, logged), NEW n \in 0 .. Capacity, n <= ring.used
  PROVE  /\ HistoryCopy(n) = SubSeq(logged, Len(logged) - n + 1, Len(logged))
         /\ Len(logged) - n \in Nat /\ ring.used \in 0 .. Capacity
<1> DEFINE S == Len(logged)
           u == ring.used
           from == (ring.tail + (u - n)) % Capacity
<1>0. /\ S \in Nat /\ u \in 0 .. Capacity /\ u <= S /\ logged \in Seq(Byte)
      /\ ring.tail \in 0 .. Capacity - 1
  BY DEF Holds
<1>1. /\ S \in Nat /\ u \in 0 .. Capacity /\ u <= S /\ logged \in Seq(Byte)
      /\ ring.tail \in 0 .. Capacity - 1
      /\ \A i \in 0 .. u - 1 : ring.bytes[(ring.tail + i) % Capacity] = logged[S - u + i + 1]
  BY <1>0, Zenon DEF Holds
<1>2. n \in Nat /\ n <= u /\ S - n \in Nat
  BY <1>1
<1>3. HistoryCopy(n) = [i \in 1 .. n |-> ring.bytes[(from + i - 1) % Capacity]]
  <2>1. (IF ring.used > n THEN n ELSE ring.used) = n
    BY <1>1, <1>2
  <2>2. QED
    BY <2>1 DEF HistoryCopy
<1>4. ASSUME NEW i \in 1 .. n
      PROVE  ring.bytes[(from + i - 1) % Capacity] = logged[S - n + i]
  <2> DEFINE a == ring.tail + (u - n)  b == a + i - 1
             c == from + i - 1
  <2>1. /\ a \in Int /\ 0 <= a /\ a < 2 * Capacity
        /\ b \in Int /\ 0 <= b /\ b < 2 * Capacity /\ b = a + i - 1
        /\ b = ring.tail + (u - n + i - 1) /\ u - n + i - 1 \in 0 .. u - 1
        /\ S - n + i = S - u + (u - n + i - 1) + 1
    <3> HIDE DEF u, S
    <3>1. QED
      BY <1>1, <1>2
  <2>2. from = (IF a < Capacity THEN a ELSE a - Capacity) /\ from \in 0 .. Capacity - 1
    <3>1. from = a % Capacity
      OBVIOUS
    <3> HIDE DEF a, from
    <3>2. QED
      BY <2>1, <3>1, Around
  <2>3. c \in Int /\ 0 <= c /\ c < 2 * Capacity /\ (c = b \/ b = c + Capacity)
    <3>1. c = from + i - 1
      OBVIOUS
    <3> HIDE DEF a, b, from, c, u
    <3>2. QED
      BY <1>1, <1>2, <2>1, <2>2, <3>1
  <2>4. c % Capacity = b % Capacity
    <3> HIDE DEF a, b, c, from
    <3>1. /\ c % Capacity = IF c < Capacity THEN c ELSE c - Capacity
          /\ b % Capacity = IF b < Capacity THEN b ELSE b - Capacity
      BY <2>1, <2>3, Around
    <3>2. QED
      BY <2>1, <2>3, <3>1
  <2>5. ring.bytes[(ring.tail + (u - n + i - 1)) % Capacity] = logged[S - u + (u - n + i - 1) + 1]
    BY <1>1, <2>1
  <2>6. QED
    <3> HIDE DEF a, from, u, S
    <3>1. ring.bytes[b % Capacity] = logged[S - n + i]
      <4> HIDE DEF b
      <4>1. QED
        BY <2>1, <2>5
    <3> HIDE DEF b
    <3>2. QED
      BY <2>4, <3>1
<1>5. SubSeq(logged, S - n + 1, S) = [i \in 1 .. n |-> logged[S - n + i]]
  <2> HIDE DEF S
  <2>1. S - (S - n + 1) + 1 = n /\ S = Len(logged)
    BY <1>1, <1>2 DEF S
  <2>2. SubSeq(logged, S - n + 1, S) = [i \in 1 .. (S - (S - n + 1) + 1) |-> logged[(S - n + 1) + i - 1]]
    BY <1>1, <1>2
  <2>3. \A i \in 1 .. n : (S - n + 1) + i - 1 = S - n + i
    BY <1>1, <1>2
  <2>4. QED
    BY <2>1, <2>2, <2>3
<1>6. QED
  <2> HIDE DEF from, S, u
  <2>1. HistoryCopy(n) = SubSeq(logged, S - n + 1, S)
    BY <1>3, <1>4, <1>5
  <2>2. QED
    BY <1>1, <1>2, <2>1 DEF S, u

LEMMA ShownByRing ==
  ASSUME Holds(ring, logged)
  PROVE  LET Last(n) == SubSeq(logged, Len(logged) - n + 1, Len(logged))
             Ends(s) == Cardinality({i \in DOMAIN s : s[i] = NewLineByte})
         IN  /\ ring.used = IF Len(logged) < Capacity THEN Len(logged) ELSE Capacity
             /\ \A n \in 0 .. Capacity : n <= ring.used => HistoryCopy(n) = Last(n)
             /\ ring.dropped = Ends(logged) - Ends(HistoryCopy(Capacity))
<1> DEFINE S == Len(logged)
           u == ring.used
           copy == HistoryCopy(Capacity)
<1>1. /\ S \in Nat /\ u \in 0 .. Capacity /\ u <= S /\ logged \in Seq(Byte)
      /\ u = IF S < Capacity THEN S ELSE Capacity
      /\ ring.dropped = Cardinality(EndsIn(logged, 1, S - u))
  BY DEF Holds
<1>2. copy = SubSeq(logged, S - u + 1, S)
  <2>1. HistoryCopy(Capacity) = HistoryCopy(u)
    <3>1. (IF ring.used > Capacity THEN Capacity ELSE ring.used) = u
          /\ (IF ring.used > u THEN u ELSE ring.used) = u
      BY <1>1
    <3>2. QED
      BY <3>1 DEF HistoryCopy
  <2> HIDE DEF copy
  <2>2. HistoryCopy(u) = SubSeq(logged, S - u + 1, S)
    <3>1. u \in 0 .. Capacity /\ u <= ring.used
      BY <1>1
    <3>2. QED
      BY <3>1, CopyOfHeld, Zenon
  <2>3. QED
    BY <2>1, <2>2 DEF copy
<1>3. {i \in DOMAIN logged : logged[i] = NewLineByte} = EndsIn(logged, 1, S)
  BY <1>1 DEF EndsIn
<1>4. DOMAIN copy = 1 .. u /\ \A i \in 1 .. u : copy[i] = logged[i + (S - u)]
  <2> HIDE DEF copy, S, u
  <2>1. S = Len(logged) /\ S - u \in Nat
    BY <1>1 DEF S
  <2>2. copy = [i \in 1 .. (S - (S - u + 1) + 1) |-> logged[(S - u + 1) + i - 1]]
    <3>1. SubSeq(logged, S - u + 1, S)
            = [i \in 1 .. (S - (S - u + 1) + 1) |-> logged[(S - u + 1) + i - 1]]
      BY <1>1
    <3>2. QED
      BY <1>2, <3>1
  <2>3. S - (S - u + 1) + 1 = u /\ \A i \in 1 .. u : (S - u + 1) + i - 1 = i + (S - u)
    BY <1>1
  <2>4. QED
    BY <2>2, <2>3
<1>5. {i \in DOMAIN copy : copy[i] = NewLineByte} = EndsIn(copy, 1, u)
  <2> HIDE DEF copy, u
  <2>1. QED
    BY <1>4 DEF EndsIn
<1>6. Cardinality(EndsIn(copy, 1, u)) = Cardinality(EndsIn(logged, S - u + 1, S))
  <2> DEFINE d == S - u
  <2>1. d \in Int /\ u \in Int /\ 1 + d = S - u + 1 /\ u + d = S
    BY <1>1
  <2>2. Same(copy, logged, 1, u, d)
    <3> HIDE DEF copy, S, u
    <3>1. QED
      BY <1>4 DEF Same
  <2> HIDE DEF copy, S, u, d
  <2>3. Cardinality(EndsIn(copy, 1, u)) = Cardinality(EndsIn(logged, 1 + d, u + d))
    BY <2>1, <2>2, EndsShifted
  <2>4. QED
    BY <2>1, <2>3
<1>7. Cardinality(EndsIn(logged, 1, S))
        = Cardinality(EndsIn(logged, 1, S - u)) + Cardinality(EndsIn(logged, S - u + 1, S))
  <2> DEFINE d == S - u
  <2>1. d \in Int /\ S \in Int /\ 1 <= d + 1 /\ d <= S
    BY <1>1
  <2> HIDE DEF d, S
  <2>2. Cardinality(EndsIn(logged, 1, S))
          = Cardinality(EndsIn(logged, 1, d)) + Cardinality(EndsIn(logged, d + 1, S))
    BY <2>1, EndsSplit
  <2>3. QED
    BY <2>2 DEF d
<1>8. ring.dropped = Cardinality({i \in DOMAIN logged : logged[i] = NewLineByte})
                       - Cardinality({i \in DOMAIN copy : copy[i] = NewLineByte})
  <2>1. Cardinality(EndsIn(logged, 1, S - u)) \in Nat
        /\ Cardinality(EndsIn(logged, S - u + 1, S)) \in Nat
    <3> DEFINE d == S - u  x == S - u + 1
    <3>1. d \in Int /\ x \in Int /\ S \in Int
      BY <1>1
    <3> HIDE DEF d, x, S
    <3>2. QED
      BY <3>1, EndsFinite DEF d, x
  <2> HIDE DEF copy, S, u
  <2>2. /\ Cardinality({i \in DOMAIN logged : logged[i] = NewLineByte})
             = Cardinality(EndsIn(logged, 1, S))
        /\ Cardinality({i \in DOMAIN copy : copy[i] = NewLineByte})
             = Cardinality(EndsIn(logged, S - u + 1, S))
    BY <1>3, <1>5, <1>6
  <2>3. ring.dropped = Cardinality(EndsIn(logged, 1, S)) - Cardinality(EndsIn(logged, S - u + 1, S))
    BY <1>1, <1>7, <2>1
  <2>4. QED
    BY <2>2, <2>3
<1>9. \A n \in 0 .. Capacity :
        n <= ring.used => HistoryCopy(n) = SubSeq(logged, Len(logged) - n + 1, Len(logged))
  BY CopyOfHeld
<1>10. QED
  BY <1>1, <1>8, <1>9

(***************************************************************************)
(* The console: the steps.                                                 *)
(***************************************************************************)
LEMMA ShellInitially == ConsoleInit => ShellInv
<1> SUFFICES ASSUME ConsoleInit PROVE ShellInv
  OBVIOUS
<1> USE DEF ConsoleInit
<1>1. \A t \in Task : /\ task[t] \in Entry /\ task[t].then = "idle"
                      /\ task[t].pc = IF t = Ui THEN "prompt" ELSE "idle"
  BY DEF Idle, Entry, Writing, EditorAt
<1>2. TasksOK
  BY <1>1 DEF TasksOK, Entry, Writing, Task
<1>3. SinkOK
  BY <1>1 DEF SinkOK, Held
<1>4. LoggedOK
  BY NothingHeld DEF LoggedOK
<1>prompt. task[Ui].pc = "prompt"
  BY <1>1 DEF Task
<1>5. EditOK
  <2>1. buffer \in Seq(Char) /\ Len(buffer) = 0 /\ Len(buffer) <= LineMax /\ buffer = << >>
    OBVIOUS
  <2>2. /\ overflow \in BOOLEAN /\ wasCr \in BOOLEAN /\ torn \in BOOLEAN /\ editing = FALSE
    OBVIOUS
  <2>3. (editing <=> task[Ui].pc \in {"idle", "echo", "rub"}) /\ ~At(Ui, "echo")
    BY <1>prompt DEF At
  <2>4. QED
    BY <2>1, <2>2, <2>3 DEF EditOK
<1>6. RowOK
  BY <1>prompt DEF RowOK, Shows, At
<1>7. QED
  BY <1>2, <1>3, <1>4, <1>5, <1>6 DEF ShellInv

\* A task that does not hold the sink, and does not take it, goes on.
LEMMA Aside ==
  ASSUME TasksOK, SinkOK, LoggedOK, NEW t \in Task, task[t].pc \notin Held,
         NEW e \in Entry, e.pc \notin Held, task' = [task EXCEPT ![t] = e],
         t \in Writer => e.pc \in Writing \cup {"idle"} /\ e.then = "idle",
         t = Ui /\ e.pc \in Writing => e.then \in {"clear", "prompt"},
         UNCHANGED <<sink, ring, logged>>
  PROVE  TasksOK' /\ SinkOK' /\ LoggedOK' /\ task'[t] = e /\ (t # Ui => task'[Ui] = task[Ui])
<1>1. task \in [Task -> Entry] /\ Ui \in Task /\ \A w \in Writer : w \in Task /\ w # Ui
  BY DEF TasksOK, Entry, Task
<1>2. /\ task' \in [Task -> Entry] /\ task'[t] = e
      /\ \A o \in Task : o # t => task'[o] = task[o]
  BY <1>1
<1>3. TasksOK'
  BY <1>1, <1>2 DEF TasksOK, Entry
<1>4. SinkOK' /\ sink # t
  BY <1>2 DEF SinkOK
<1>5. LoggedOK'
  BY <1>2, <1>4 DEF LoggedOK, SinkOK
<1>6. QED
  BY <1>1, <1>2, <1>3, <1>4, <1>5

\* The task of the editor goes on, and no other.
LEMMA EditorAside ==
  ASSUME TasksOK, SinkOK, LoggedOK, NEW label \in EditorAt, Goto(Ui, label),
         task[Ui].pc \notin Held, UNCHANGED <<sink, ring, logged>>
  PROVE  TasksOK' /\ SinkOK' /\ LoggedOK' /\ task'[Ui].pc = label
<1> DEFINE e == [task[Ui] EXCEPT !.pc = label]
<1>1. Ui \in Task /\ Ui \notin Writer /\ task[Ui] \in Entry
  BY DEF Task, TasksOK, Entry
<1>2. e \in Entry /\ e.pc = label
  BY <1>1 DEF Entry
<1>3. task' = [task EXCEPT ![Ui] = e]
  BY DEF Goto
<1>4. label \notin Held /\ label \notin Writing
  BY DEF EditorAt, Held, Writing
<1>5. QED
  <2> HIDE DEF e
  <2>1. QED
    BY <1>1, <1>2, <1>3, <1>4, Aside

LEMMA LogStep ==
  ASSUME ShellInv, NEW t \in Task, Log(t)
  PROVE  ShellInv'
<1>1. PICK l \in Text \ {Warning} : Emit(t, l, TRUE, "idle")
  BY DEF Log
<1> DEFINE e == [pc |-> "emit", text |-> l, stored |-> TRUE, then |-> "idle"]
<1>2. /\ e \in Entry /\ e.pc = "emit" /\ e.then = "idle" /\ task' = [task EXCEPT ![t] = e]
      /\ t \in Writer /\ t # Ui /\ task[t].pc = "idle"
  BY <1>1 DEF Log, Emit, Entry, Writing, EditorAt, At
<1>3. TasksOK' /\ SinkOK' /\ LoggedOK' /\ task'[Ui] = task[Ui]
  <2> HIDE DEF e
  <2>1. "emit" \notin Held /\ "idle" \notin Held /\ "emit" \in Writing
    BY DEF Held, Writing
  <2>2. UNCHANGED <<sink, ring, logged>>
    BY DEF Log
  <2>3. TasksOK /\ SinkOK /\ LoggedOK
    BY DEF ShellInv
  <2>4. task[t].pc \notin Held /\ e.pc \notin Held
    BY <1>2, <2>1
  <2>5. /\ t \in Writer => e.pc \in Writing \cup {"idle"} /\ e.then = "idle"
        /\ t = Ui /\ e.pc \in Writing => e.then \in {"clear", "prompt"}
    BY <1>2, <2>1
  <2>6. TasksOK' /\ SinkOK' /\ LoggedOK' /\ (t # Ui => task'[Ui] = task[Ui])
    BY <1>2, <2>2, <2>3, <2>4, <2>5, Aside
  <2>7. QED
    BY <1>2, <2>6
<1>4. UNCHANGED <<row, sink, buffer, overflow, wasCr, editing, torn>>
  BY DEF Log, editor
<1>5. EditOK'
  BY <1>3, <1>4 DEF ShellInv, EditOK, At
<1>6. RowOK'
  BY <1>3, <1>4 DEF ShellInv, RowOK, Shows, At
<1>7. QED
  BY <1>3, <1>5, <1>6 DEF ShellInv

LEMMA WriteLineStep ==
  ASSUME ShellInv, NEW t \in Task, WriteLine(t)
  PROVE  ShellInv'
<1> DEFINE label == IF task[t].stored THEN "store" ELSE "redraw"
           e == [task[t] EXCEPT !.pc = label]
<1>1. /\ task \in [Task -> Entry] /\ task[t] \in Entry /\ task[t].pc = "emit" /\ sink = Nobody
      /\ sink' = t /\ row' = << >> /\ t # Nobody /\ Ui \in Task
      /\ UNCHANGED <<ring, buffer, overflow, wasCr, editing, torn>>
  BY DEF WriteLine, ShellInv, TasksOK, Entry, At, editor, Task
<1>2. /\ e \in Entry /\ e.pc = label /\ e.then = task[t].then /\ e.text = task[t].text
      /\ label \in Held /\ label \in Writing
      /\ (label = "store" <=> task[t].stored)
  BY <1>1 DEF Entry, Held, Writing
<1>3. /\ task' = [task EXCEPT ![t] = e] /\ task' \in [Task -> Entry] /\ task'[t] = e
      /\ \A o \in Task : o # t => task'[o] = task[o]
  <2>1. task' = [task EXCEPT ![t] = e]
    BY DEF WriteLine, Goto
  <2> HIDE DEF e, label
  <2>2. QED
    BY <1>1, <1>2, <2>1
<1> HIDE DEF e
<1>4. TasksOK'
  BY <1>1, <1>2, <1>3 DEF ShellInv, TasksOK, Entry, Task, Writing
<1>5. SinkOK'
  BY <1>1, <1>2, <1>3 DEF ShellInv, SinkOK
<1>6. LoggedOK'
  <2>1. Holds(ring, logged) /\ logged \in Seq(Byte)
    BY <1>1 DEF ShellInv, LoggedOK, Holds
  <2>2. CASE task[t].stored
    <3>1. logged' = logged \o Line(task[t].text)
      BY <2>2 DEF WriteLine
    <3>2. sink' # Nobody /\ task'[sink'].pc = "store" /\ task'[sink'].text = task[t].text
      BY <1>1, <1>2, <1>3, <2>2
    <3>3. Holds(ring', logged)
      BY <1>1, <2>1
    <3>4. QED
      BY <2>1, <3>1, <3>2, <3>3 DEF LoggedOK
  <2>3. CASE ~task[t].stored
    <3>1. logged' = logged
      BY <2>3 DEF WriteLine
    <3>2. task'[sink'].pc # "store"
      BY <1>1, <1>2, <1>3, <2>3
    <3>3. Holds(ring', logged')
      BY <1>1, <2>1, <3>1
    <3>4. QED
      BY <3>2, <3>3 DEF LoggedOK
  <2>4. QED
    BY <2>2, <2>3
<1>7. EditOK'
  BY <1>1, <1>2, <1>3 DEF ShellInv, EditOK, At, Held, Writing
<1>8. RowOK'
  BY <1>1 DEF RowOK
<1>9. QED
  BY <1>4, <1>5, <1>6, <1>7, <1>8 DEF ShellInv

LEMMA StoreLineStep ==
  ASSUME ShellInv, NEW t \in Task, StoreLine(t)
  PROVE  ShellInv'
<1> DEFINE e == [task[t] EXCEPT !.pc = "redraw"]
<1>1. /\ task \in [Task -> Entry] /\ task[t] \in Entry /\ task[t].pc = "store" /\ sink = t
      /\ t # Nobody /\ Ui \in Task
      /\ UNCHANGED <<row, sink, buffer, overflow, wasCr, editing, torn, logged>>
  BY DEF StoreLine, ShellInv, TasksOK, SinkOK, Held, Entry, At, editor, Task
<1>2. /\ e \in Entry /\ e.pc = "redraw" /\ e.then = task[t].then
  BY <1>1 DEF Entry, Writing
<1>3. /\ task' = [task EXCEPT ![t] = e] /\ task' \in [Task -> Entry] /\ task'[t] = e
      /\ \A o \in Task : o # t => task'[o] = task[o]
  <2>1. task' = [task EXCEPT ![t] = e]
    BY DEF StoreLine, Goto
  <2> HIDE DEF e
  <2>2. QED
    BY <1>1, <1>2, <2>1
<1> HIDE DEF e
<1>4. TasksOK'
  BY <1>1, <1>2, <1>3 DEF ShellInv, TasksOK, Entry, Task, Writing
<1>5. SinkOK'
  BY <1>1, <1>2, <1>3 DEF ShellInv, SinkOK, Held
<1>6. LoggedOK'
  <2>1. PICK s \in Seq(Byte) : logged = s \o Line(task[t].text) /\ Holds(ring, s)
    BY <1>1 DEF ShellInv, LoggedOK
  <2>2. task[t].text \in Text
    BY <1>1 DEF Entry
  <2>3. Holds(ring', logged)
    BY <2>1, <2>2, StoredHolds DEF StoreLine
  <2>4. task'[sink'].pc # "store"
    BY <1>1, <1>2, <1>3
  <2>5. Holds(ring', logged')
    BY <1>1, <2>3
  <2>6. QED
    BY <2>4, <2>5 DEF LoggedOK
<1>7. EditOK'
  BY <1>1, <1>2, <1>3 DEF ShellInv, EditOK, At, Writing
<1>8. RowOK'
  BY <1>1, <1>2 DEF ShellInv, RowOK, Blanked
<1>9. QED
  BY <1>4, <1>5, <1>6, <1>7, <1>8 DEF ShellInv

LEMMA RedrawStep ==
  ASSUME ShellInv, NEW t \in Task, Redraw(t)
  PROVE  ShellInv'
<1> DEFINE e == [Idle EXCEPT !.pc = task[t].then]
<1>1. /\ task \in [Task -> Entry] /\ task[t] \in Entry /\ task[t].pc = "redraw" /\ sink = t
      /\ t # Nobody /\ Ui \in Task /\ sink' = Nobody /\ Nobody \notin Task
      /\ UNCHANGED <<ring, buffer, overflow, wasCr, editing, logged>>
      /\ t \in Writer \/ t = Ui
  BY DEF Redraw, ShellInv, TasksOK, SinkOK, Held, Entry, At, editor, Task
<1>2. /\ e \in Entry /\ e.pc = task[t].then /\ e.then = "idle"
      /\ t \in Writer => e.pc = "idle"
      /\ t = Ui => e.pc \in {"clear", "prompt"}
  BY <1>1 DEF Entry, Idle, ShellInv, TasksOK, Writing, EditorAt
<1>3. /\ task' = [task EXCEPT ![t] = e] /\ task' \in [Task -> Entry] /\ task'[t] = e
      /\ \A o \in Task : o # t => task'[o] = task[o]
  <2>1. task' = [task EXCEPT ![t] = e]
    BY DEF Redraw
  <2> HIDE DEF e
  <2>2. QED
    BY <1>1, <1>2, <2>1
<1> HIDE DEF e
<1>4. TasksOK'
  BY <1>1, <1>2, <1>3 DEF ShellInv, TasksOK, Entry, Task, Writing
<1>5. SinkOK'
  <2>1. \A o \in Task : task'[o].pc \notin Held
    BY <1>1, <1>2, <1>3 DEF ShellInv, SinkOK, Held
  <2>2. QED
    BY <1>1, <2>1 DEF SinkOK
<1>6. LoggedOK'
  <2>1. Holds(ring, logged)
    BY <1>1 DEF ShellInv, LoggedOK
  <2>2. Holds(ring', logged')
    BY <1>1, <2>1
  <2>3. QED
    BY <1>1, <2>2 DEF LoggedOK
<1>7. EditOK'
  <2>1. torn' \in BOOLEAN
    BY DEF Redraw, BetweenChanges
  <2>2. task'[Ui] = IF t = Ui THEN e ELSE task[Ui]
    BY <1>1, <1>3
  <2>3. QED
    BY <1>1, <1>2, <2>1, <2>2 DEF ShellInv, EditOK, At, Writing
<1>8. RowOK'
  <2>1. row = << >> /\ row' = IF editing THEN <<Prompt>> \o buffer ELSE row
    BY <1>1 DEF ShellInv, RowOK, Redraw
  <2>2. CASE t = Ui
    <3>1. ~editing /\ task'[Ui].pc \in {"clear", "prompt"}
      BY <1>1, <1>2, <1>3, <2>2 DEF ShellInv, EditOK
    <3>2. QED
      BY <2>1, <3>1 DEF RowOK, Shows, At
  <2>3. CASE t # Ui
    <3>1. task'[Ui] = task[Ui]
      BY <1>1, <1>3, <2>3
    <3>2. (editing <=> task[Ui].pc \in {"idle", "echo", "rub"})
      BY DEF ShellInv, EditOK
    <3>3. task'[Ui].pc \in Blanked => row' = << >>
      BY <2>1, <3>1, <3>2 DEF Blanked
    <3>4. ~torn' => task[Ui].pc \notin {"echo", "rub", "announce"}
      BY DEF Redraw, BetweenChanges
    <3>5. At(Ui, "idle")' => row' = <<Prompt>> \o buffer'
      BY <1>1, <2>1, <3>1, <3>2 DEF At
    <3>6. QED
      BY <1>1, <3>1, <3>3, <3>4, <3>5 DEF RowOK, Shows, At
  <2>4. QED
    BY <2>2, <2>3
<1>9. QED
  BY <1>4, <1>5, <1>6, <1>7, <1>8 DEF ShellInv

LEMMA ClearHistoryStep ==
  ASSUME ShellInv, ClearHistory
  PROVE  ShellInv'
<1>1. UNCHANGED <<row, sink, buffer, overflow, wasCr, editing, task, torn>> /\ ring' = NoHistory
  BY DEF ClearHistory, editor
<1>2. TasksOK' /\ SinkOK'
  BY <1>1 DEF ShellInv, TasksOK, SinkOK
<1>3. LoggedOK'
  <2>1. CASE sink # Nobody /\ At(sink, "store")
    <3> DEFINE l == Line(task[sink].text)
    <3>1. l \in Seq(Byte)
      BY <2>1, Bytes DEF ShellInv, TasksOK, SinkOK
    <3>2. logged' = << >> \o l
      <4>1. logged' = l
        BY <2>1 DEF ClearHistory
      <4> HIDE DEF l
      <4>2. QED
        BY <3>1, <4>1
    <3>3. << >> \in Seq(Byte) /\ Holds(ring', << >>)
      BY <1>1, NothingHeld
    <3>4. QED
      BY <1>1, <2>1, <3>2, <3>3 DEF LoggedOK, At
  <2>2. CASE ~(sink # Nobody /\ At(sink, "store"))
    <3>1. logged' = << >> /\ Holds(ring', logged')
      BY <1>1, <2>2, NothingHeld DEF ClearHistory
    <3>2. QED
      BY <1>1, <2>2, <3>1 DEF LoggedOK, At
  <2>3. QED
    BY <2>1, <2>2
<1>4. EditOK' /\ RowOK'
  BY <1>1 DEF ShellInv, EditOK, RowOK, Shows, At
<1>5. QED
  BY <1>2, <1>3, <1>4 DEF ShellInv

LEMMA LastOff ==
  ASSUME NEW S, NEW s \in Seq(S), NEW e \in S
  PROVE  /\ Append(s, e) \in Seq(S) /\ Len(Append(s, e)) = Len(s) + 1
         /\ SubSeq(Append(s, e), 1, Len(Append(s, e)) - 1) = s
         /\ Append(s, e)[Len(Append(s, e))] = e
<1> DEFINE a == Append(s, e)
<1>1. a \in Seq(S) /\ Len(a) = Len(s) + 1 /\ a[Len(a)] = e /\ Len(s) \in Nat
      /\ \A i \in 1 .. Len(s) : a[i] = s[i]
  OBVIOUS
<1> HIDE DEF a
<1>2. SubSeq(a, 1, Len(a) - 1) = [i \in 1 .. Len(s) |-> a[i]]
  BY <1>1
<1>3. s = [i \in 1 .. Len(s) |-> s[i]]
  OBVIOUS
<1>4. SubSeq(a, 1, Len(a) - 1) = s
  BY <1>1, <1>2, <1>3
<1>5. QED
  BY <1>1, <1>4 DEF a

\* A sequence is its front and its last element.
LEMMA LastOn ==
  ASSUME NEW S, NEW s \in Seq(S), s # << >>
  PROVE  /\ SubSeq(s, 1, Len(s) - 1) \in Seq(S) /\ s[Len(s)] \in S
         /\ Len(SubSeq(s, 1, Len(s) - 1)) = Len(s) - 1
         /\ Append(SubSeq(s, 1, Len(s) - 1), s[Len(s)]) = s
<1> DEFINE n == Len(s)  f == SubSeq(s, 1, n - 1)  a == Append(f, s[n])
<1>1. n \in Nat \ {0} /\ s[n] \in S /\ n - 1 \in Nat
  OBVIOUS
<1>2. f \in Seq(S) /\ Len(f) = n - 1 /\ \A i \in 1 .. n - 1 : f[i] = s[i]
  <2> HIDE DEF n
  <2>1. \A i \in 1 .. n - 1 : s[i] \in S
    BY <1>1 DEF n
  <2>2. f = [i \in 1 .. n - 1 |-> s[i]]
    BY <1>1
  <2> HIDE DEF f
  <2>3. QED
    BY <1>1, <2>1, <2>2
<1>3. Len(a) = n /\ a \in Seq(S) /\ \A i \in 1 .. n : a[i] = s[i]
  <2> HIDE DEF n, f
  <2>1. QED
    BY <1>1, <1>2
<1>4. a = s
  <2> HIDE DEF a, f
  <2>1. Len(s) = n /\ s \in Seq(S)
    OBVIOUS
  <2> HIDE DEF n
  <2>2. QED
    BY <1>3, <2>1
<1>5. QED
  BY <1>1, <1>2, <1>4

Cell == Char \cup {Prompt}

LEMMA AfterPrompt ==
  ASSUME NEW s \in Seq(Char), NEW e \in Char
  PROVE  /\ <<Prompt>> \o s \in Seq(Cell) /\ Len(<<Prompt>> \o s) = Len(s) + 1
         /\ Append(<<Prompt>> \o s, e) = <<Prompt>> \o Append(s, e)
         /\ e \in Cell
<1> DEFINE p == <<Prompt>>
<1>1. p \in Seq(Cell) /\ s \in Seq(Cell) /\ e \in Cell /\ Len(p) = 1
  <2>1. \A i \in 1 .. Len(s) : s[i] \in Cell
    BY DEF Cell
  <2>2. s = [i \in 1 .. Len(s) |-> s[i]]
    OBVIOUS
  <2>3. s \in Seq(Cell)
    BY <2>1, <2>2
  <2>4. QED
    BY <2>3 DEF Cell
<1> HIDE DEF p
<1>2. p \o s \in Seq(Cell) /\ Len(p \o s) = Len(s) + 1
  <2>1. p \o s \in Seq(Cell)
    BY <1>1
  <2>2. Len(p \o s) = Len(p) + Len(s) /\ Len(s) \in Nat
    BY <1>1, ConcatProperties
  <2>3. QED
    BY <1>1, <2>1, <2>2
<1>3. Append(p \o s, e) = p \o Append(s, e)
  BY <1>1
<1>4. QED
  BY <1>1, <1>2, <1>3 DEF p

LEMMA TypeKeyStep ==
  ASSUME ShellInv, TypeKey
  PROVE  ShellInv'
<1>1. /\ At(Ui, "idle") /\ wasCr' = FALSE /\ editing /\ Ui \in Task
      /\ UNCHANGED <<row, sink, ring, editing, logged, torn>>
      /\ buffer \in Seq(Char) /\ Len(buffer) <= LineMax /\ overflow \in BOOLEAN
      /\ torn \in BOOLEAN /\ editing \in BOOLEAN
  BY DEF TypeKey, Polls, ShellInv, EditOK, At, Task
<1>2. CASE ~overflow /\ Len(buffer) < LineMax
  <2>1. PICK k \in Key : buffer' = Append(buffer, Part(k, 1))
    BY <1>2 DEF TypeKey
  <2>2. Goto(Ui, "echo") /\ UNCHANGED overflow
    BY <1>2 DEF TypeKey
  <2>3. TasksOK' /\ SinkOK' /\ LoggedOK' /\ task'[Ui].pc = "echo"
    <3>1. task[Ui].pc \notin Held /\ "echo" \in EditorAt
      BY <1>1 DEF At, Held, EditorAt
    <3>2. QED
      BY <1>1, <2>2, <3>1, EditorAside DEF ShellInv
  <2> DEFINE c == Part(k, 1)
  <2>4. c \in Char
    BY DEF Char
  <2> HIDE DEF c
  <2>5. buffer' = Append(buffer, c)
    BY <2>1 DEF c
  <2>6. /\ buffer' \in Seq(Char) /\ Len(buffer') = Len(buffer) + 1 /\ buffer' # << >>
        /\ SubSeq(buffer', 1, Len(buffer') - 1) = buffer
    <3>1. /\ buffer' \in Seq(Char) /\ Len(buffer') = Len(buffer) + 1
          /\ SubSeq(buffer', 1, Len(buffer') - 1) = buffer
      BY <1>1, <2>4, <2>5, LastOff
    <3>2. Len(buffer) \in Nat /\ Len(<< >>) = 0
      BY <1>1
    <3>3. QED
      BY <3>1, <3>2
  <2>7. Len(buffer') <= LineMax
    BY <1>1, <1>2, <2>6
  <2>8. EditOK'
    BY <1>1, <2>2, <2>3, <2>6, <2>7 DEF EditOK, At, Writing
  <2>9. RowOK'
    <3>1. sink # Nobody => row' = << >>
      BY <1>1 DEF ShellInv, RowOK
    <3>2. sink = Nobody /\ ~torn => row' = <<Prompt>> \o buffer
      BY <1>1 DEF ShellInv, RowOK, Shows, At
    <3>3. QED
      BY <1>1, <2>3, <2>6, <3>1, <3>2 DEF RowOK, Shows, At, Blanked
  <2>10. QED
    BY <2>3, <2>8, <2>9 DEF ShellInv
<1>3. CASE ~(~overflow /\ Len(buffer) < LineMax)
  <2>1. overflow' = TRUE /\ UNCHANGED <<buffer, task>>
    BY <1>3 DEF TypeKey
  <2>2. TasksOK' /\ SinkOK' /\ LoggedOK'
    BY <1>1, <2>1 DEF ShellInv, TasksOK, SinkOK, LoggedOK
  <2>3. EditOK' /\ RowOK'
    BY <1>1, <2>1 DEF ShellInv, EditOK, RowOK, Shows, At
  <2>4. QED
    BY <2>2, <2>3 DEF ShellInv
<1>4. QED
  BY <1>2, <1>3

LEMMA EchoStep ==
  ASSUME ShellInv, Echo
  PROVE  ShellInv'
<1>1. /\ At(Ui, "echo") /\ sink = Nobody /\ editing /\ Ui \in Task /\ Goto(Ui, "idle")
      /\ UNCHANGED <<sink, ring, buffer, overflow, wasCr, editing, logged, torn>>
      /\ buffer \in Seq(Char) /\ buffer # << >> /\ row' = Append(row, buffer[Len(buffer)])
  BY DEF Echo, ShellInv, EditOK, At, editor, Task
<1>2. TasksOK' /\ SinkOK' /\ LoggedOK' /\ task'[Ui].pc = "idle"
  <2>1. task[Ui].pc \notin Held /\ "idle" \in EditorAt
    BY <1>1 DEF At, Held, EditorAt
  <2>2. QED
    BY <1>1, <2>1, EditorAside DEF ShellInv
<1>3. EditOK'
  BY <1>1, <1>2 DEF ShellInv, EditOK, At, Writing
<1>4. ~torn => row' = <<Prompt>> \o buffer
  <2> DEFINE f == SubSeq(buffer, 1, Len(buffer) - 1)  e == buffer[Len(buffer)]
  <2>1. f \in Seq(Char) /\ e \in Char /\ Append(f, e) = buffer
    BY <1>1, LastOn
  <2>2. ~torn => row = <<Prompt>> \o f
    BY <1>1 DEF ShellInv, RowOK, Shows, At
  <2>3. row' = Append(row, e)
    BY <1>1
  <2> HIDE DEF f, e
  <2>4. Append(<<Prompt>> \o f, e) = <<Prompt>> \o Append(f, e)
    BY <2>1, AfterPrompt
  <2>5. QED
    BY <2>1, <2>2, <2>3, <2>4
<1>5. RowOK'
  BY <1>1, <1>2, <1>4 DEF RowOK, Shows, At, Blanked
<1>6. QED
  BY <1>2, <1>3, <1>5 DEF ShellInv

LEMMA BackspaceStep ==
  ASSUME ShellInv, Backspace
  PROVE  ShellInv'
<1>1. /\ At(Ui, "idle") /\ wasCr' = FALSE /\ editing /\ Ui \in Task
      /\ UNCHANGED <<row, sink, ring, overflow, editing, logged, torn>>
      /\ buffer \in Seq(Char) /\ Len(buffer) <= LineMax
      /\ overflow \in BOOLEAN /\ torn \in BOOLEAN /\ editing \in BOOLEAN
  BY DEF Backspace, Polls, ShellInv, EditOK, At, Task
<1>2. CASE ~overflow /\ buffer # << >>
  <2> DEFINE f == SubSeq(buffer, 1, Len(buffer) - 1)  e == buffer[Len(buffer)]
  <2>1. buffer' = f /\ Goto(Ui, "rub")
    BY <1>2 DEF Backspace
  <2>2. f \in Seq(Char) /\ e \in Char /\ Append(f, e) = buffer /\ Len(f) = Len(buffer) - 1
    BY <1>1, <1>2, LastOn
  <2>3. Len(f) <= LineMax
    <3>1. Len(buffer) \in Nat
      BY <1>1
    <3> HIDE DEF f
    <3>2. QED
      BY <1>1, <2>2, <3>1
  <2>4. TasksOK' /\ SinkOK' /\ LoggedOK' /\ task'[Ui].pc = "rub"
    <3>1. task[Ui].pc \notin Held /\ "rub" \in EditorAt
      BY <1>1 DEF At, Held, EditorAt
    <3>2. QED
      BY <1>1, <2>1, <3>1, EditorAside DEF ShellInv
  <2>5. sink = Nobody /\ ~torn => row = <<Prompt>> \o buffer
    BY <1>1 DEF ShellInv, RowOK, Shows, At
  <2>6. sink # Nobody => row = << >>
    BY DEF ShellInv, RowOK
  <2> HIDE DEF f, e
  <2>7. EditOK'
    BY <1>1, <2>1, <2>2, <2>3, <2>4 DEF EditOK, At, Writing
  <2>8. <<Prompt>> \o buffer = Append(<<Prompt>> \o f, e)
    BY <2>2, AfterPrompt
  <2>9. sink = Nobody /\ ~torn => \E c \in Char : row' = Append(<<Prompt>> \o buffer', c)
    BY <1>1, <2>1, <2>2, <2>5, <2>8
  <2>10. RowOK'
    BY <1>1, <2>4, <2>6, <2>9 DEF RowOK, Shows, At, Blanked
  <2>11. QED
    BY <2>4, <2>7, <2>10 DEF ShellInv
<1>3. CASE ~(~overflow /\ buffer # << >>)
  <2>1. UNCHANGED <<buffer, task>>
    BY <1>3 DEF Backspace
  <2>2. TasksOK' /\ SinkOK' /\ LoggedOK'
    BY <1>1, <2>1 DEF ShellInv, TasksOK, SinkOK, LoggedOK
  <2>3. EditOK' /\ RowOK'
    BY <1>1, <2>1 DEF ShellInv, EditOK, RowOK, Shows, At
  <2>4. QED
    BY <2>2, <2>3 DEF ShellInv
<1>4. QED
  BY <1>2, <1>3

LEMMA RubStep ==
  ASSUME ShellInv, Rub
  PROVE  ShellInv'
<1>1. /\ At(Ui, "rub") /\ sink = Nobody /\ editing /\ Ui \in Task /\ Goto(Ui, "idle")
      /\ UNCHANGED <<sink, ring, buffer, overflow, wasCr, editing, logged, torn>>
      /\ buffer \in Seq(Char) /\ row' = SubSeq(row, 1, Len(row) - 1)
  BY DEF Rub, ShellInv, EditOK, At, editor, Task
<1>2. TasksOK' /\ SinkOK' /\ LoggedOK' /\ task'[Ui].pc = "idle"
  <2>1. task[Ui].pc \notin Held /\ "idle" \in EditorAt
    BY <1>1 DEF At, Held, EditorAt
  <2>2. QED
    BY <1>1, <2>1, EditorAside DEF ShellInv
<1>3. EditOK'
  BY <1>1, <1>2 DEF ShellInv, EditOK, At, Writing
<1>4. ASSUME ~torn PROVE row' = <<Prompt>> \o buffer
  <2> DEFINE p == <<Prompt>> \o buffer
  <2>1. PICK c \in Char : row = Append(p, c)
    BY <1>1, <1>4 DEF ShellInv, RowOK, Shows, At
  <2>2. p \in Seq(Cell) /\ c \in Cell
    BY <1>1, AfterPrompt
  <2> HIDE DEF p
  <2>3. row' = p
    BY <1>1, <2>1, <2>2, LastOff
  <2>4. QED
    BY <2>3 DEF p
<1>5. RowOK'
  BY <1>1, <1>2, <1>4 DEF RowOK, Shows, At, Blanked
<1>6. QED
  BY <1>2, <1>3, <1>5 DEF ShellInv

LEMMA PressEnterStep ==
  ASSUME ShellInv, PressEnter
  PROVE  ShellInv'
<1>1. UNCHANGED <<row, sink, ring, buffer, overflow, wasCr, editing, task, logged, torn>>
  BY DEF PressEnter
<1>2. TasksOK' /\ SinkOK' /\ LoggedOK'
  BY <1>1 DEF ShellInv, TasksOK, SinkOK, LoggedOK
<1>3. EditOK' /\ RowOK'
  BY <1>1 DEF ShellInv, EditOK, RowOK, Shows, At
<1>4. QED
  BY <1>2, <1>3 DEF ShellInv

LEMMA EndLineStep ==
  ASSUME ShellInv, EndLine
  PROVE  ShellInv'
<1>1. /\ At(Ui, "idle") /\ UNCHANGED <<row, sink, ring, buffer, overflow, logged, torn>>
  BY DEF EndLine, Polls
<1>2. CASE Head(host) = "lf" /\ wasCr
  <2>1. wasCr' = FALSE /\ UNCHANGED <<editing, task>>
    BY <1>2 DEF EndLine
  <2>2. TasksOK' /\ SinkOK' /\ LoggedOK'
    BY <1>1, <2>1 DEF ShellInv, TasksOK, SinkOK, LoggedOK
  <2>3. EditOK' /\ RowOK'
    BY <1>1, <2>1 DEF ShellInv, EditOK, RowOK, Shows, At
  <2>4. QED
    BY <2>2, <2>3 DEF ShellInv
<1>3. CASE ~(Head(host) = "lf" /\ wasCr)
  <2>1. wasCr' = (Head(host) = "cr") /\ editing' = FALSE /\ Goto(Ui, "newline")
    BY <1>3 DEF EndLine
  <2>2. TasksOK' /\ SinkOK' /\ LoggedOK' /\ task'[Ui].pc = "newline"
    <3>1. task[Ui].pc \notin Held /\ "newline" \in EditorAt
      BY <1>1 DEF At, Held, EditorAt
    <3>2. QED
      BY <1>1, <2>1, <3>1, EditorAside DEF ShellInv
  <2>3. wasCr' \in BOOLEAN
    BY <2>1
  <2>4. EditOK'
    BY <1>1, <2>1, <2>2, <2>3 DEF ShellInv, EditOK, At, Writing
  <2>5. RowOK'
    BY <1>1, <2>2 DEF ShellInv, RowOK, Shows, At, Blanked
  <2>6. QED
    BY <2>2, <2>4, <2>5 DEF ShellInv
<1>4. QED
  BY <1>2, <1>3

LEMMA NewLineStep ==
  ASSUME ShellInv, NewLine
  PROVE  ShellInv'
<1>1. /\ At(Ui, "newline") /\ Goto(Ui, "line") /\ row' = << >> /\ torn' = FALSE
      /\ UNCHANGED <<sink, ring, buffer, overflow, wasCr, editing, logged>>
  BY DEF NewLine, editor
<1>2. TasksOK' /\ SinkOK' /\ LoggedOK' /\ task'[Ui].pc = "line"
  <2>1. task[Ui].pc \notin Held /\ "line" \in EditorAt
    BY <1>1 DEF At, Held, EditorAt
  <2>2. QED
    BY <1>1, <2>1, EditorAside DEF ShellInv
<1>3. EditOK' /\ RowOK'
  BY <1>1, <1>2 DEF ShellInv, EditOK, RowOK, Shows, At, Writing
<1>4. QED
  BY <1>2, <1>3 DEF ShellInv

\* The editor's task has a line written.
LEMMA EmitAside ==
  ASSUME TasksOK, SinkOK, LoggedOK, NEW l \in Text, NEW stored \in BOOLEAN,
         NEW then \in {"clear", "prompt"}, Emit(Ui, l, stored, then),
         task[Ui].pc \notin Held, UNCHANGED <<sink, ring, logged>>
  PROVE  TasksOK' /\ SinkOK' /\ LoggedOK' /\ task'[Ui].pc = "emit" /\ task'[Ui].then = then
<1> DEFINE e == [pc |-> "emit", text |-> l, stored |-> stored, then |-> then]
<1>1. /\ e \in Entry /\ e.pc = "emit" /\ e.then = then /\ task' = [task EXCEPT ![Ui] = e]
      /\ Ui \in Task /\ Ui \notin Writer /\ "emit" \notin Held
  BY DEF Emit, Entry, Writing, EditorAt, Task, Held
<1> HIDE DEF e
<1>2. QED
  BY <1>1, Aside

LEMMA HandleLineStep ==
  ASSUME ShellInv, HandleLine
  PROVE  ShellInv'
<1>1. /\ At(Ui, "line") /\ ~editing /\ row = << >>
      /\ UNCHANGED <<row, sink, ring, overflow, wasCr, editing, logged, torn>>
      /\ task[Ui].pc \notin Held
  BY DEF HandleLine, ShellInv, EditOK, RowOK, Blanked, At, Held
<1>2. CASE overflow
  <2>1. Emit(Ui, Warning, TRUE, "clear") /\ UNCHANGED buffer
    BY <1>2 DEF HandleLine
  <2>2. TasksOK' /\ SinkOK' /\ LoggedOK' /\ task'[Ui].pc = "emit" /\ task'[Ui].then = "clear"
    BY <1>1, <2>1, EmitAside DEF ShellInv
  <2>3. EditOK' /\ RowOK'
    BY <1>1, <2>1, <2>2 DEF ShellInv, EditOK, RowOK, Shows, At
  <2>4. QED
    BY <2>2, <2>3 DEF ShellInv
<1>3. CASE ~overflow
  <2>1. buffer' = << >> /\ Goto(Ui, "command")
    BY <1>3 DEF HandleLine
  <2>2. TasksOK' /\ SinkOK' /\ LoggedOK' /\ task'[Ui].pc = "command"
    BY <1>1, <2>1, EditorAside DEF ShellInv, EditorAt
  <2>3. buffer' \in Seq(Char) /\ Len(buffer') <= LineMax
    BY <2>1
  <2>4. EditOK' /\ RowOK'
    BY <1>1, <2>1, <2>2, <2>3 DEF ShellInv, EditOK, RowOK, Shows, At
  <2>5. QED
    BY <2>2, <2>4 DEF ShellInv
<1>4. QED
  BY <1>2, <1>3

LEMMA ClearLineStep ==
  ASSUME ShellInv, ClearLine
  PROVE  ShellInv'
<1>1. /\ At(Ui, "clear") /\ ~editing /\ row = << >> /\ buffer' = << >> /\ overflow' = FALSE
      /\ UNCHANGED <<row, sink, ring, wasCr, editing, logged, torn>>
      /\ task[Ui].pc \notin Held /\ Goto(Ui, "prompt")
  BY DEF ClearLine, ShellInv, EditOK, RowOK, Blanked, At, Held
<1>2. TasksOK' /\ SinkOK' /\ LoggedOK' /\ task'[Ui].pc = "prompt"
  BY <1>1, EditorAside DEF ShellInv, EditorAt
<1>3. buffer' \in Seq(Char) /\ Len(buffer') <= LineMax
  BY <1>1
<1>4. EditOK' /\ RowOK'
  BY <1>1, <1>2, <1>3 DEF ShellInv, EditOK, RowOK, Shows, At
<1>5. QED
  BY <1>2, <1>4 DEF ShellInv

LEMMA ExecuteStep ==
  ASSUME ShellInv, Execute
  PROVE  ShellInv'
<1>1. /\ At(Ui, "command") /\ ~editing /\ row = << >> /\ buffer = << >>
      /\ UNCHANGED <<row, sink, ring, buffer, overflow, wasCr, editing, logged, torn>>
      /\ task[Ui].pc \notin Held
  BY DEF Execute, ShellInv, EditOK, RowOK, Blanked, At, Held, editor
<1>2. CASE Goto(Ui, "prompt")
  <2>1. TasksOK' /\ SinkOK' /\ LoggedOK' /\ task'[Ui].pc = "prompt"
    BY <1>1, <1>2, EditorAside DEF ShellInv, EditorAt
  <2>2. EditOK' /\ RowOK'
    BY <1>1, <2>1 DEF ShellInv, EditOK, RowOK, Shows, At
  <2>3. QED
    BY <2>1, <2>2 DEF ShellInv
<1>3. ASSUME NEW l \in Text, NEW stored \in BOOLEAN, Emit(Ui, l, stored, "prompt")
      PROVE  ShellInv'
  <2>1. TasksOK' /\ SinkOK' /\ LoggedOK' /\ task'[Ui].pc = "emit" /\ task'[Ui].then = "prompt"
    BY <1>1, <1>3, EmitAside DEF ShellInv
  <2>2. EditOK' /\ RowOK'
    BY <1>1, <2>1 DEF ShellInv, EditOK, RowOK, Shows, At
  <2>3. QED
    BY <2>1, <2>2 DEF ShellInv
<1>4. QED
  BY <1>2, <1>3 DEF Execute

LEMMA WritePromptStep ==
  ASSUME ShellInv, WritePrompt
  PROVE  ShellInv'
<1>1. /\ At(Ui, "prompt") /\ ~editing /\ buffer = << >> /\ row = << >> /\ row' = Append(row, Prompt)
      /\ UNCHANGED <<sink, ring, buffer, overflow, wasCr, editing, logged, torn>>
      /\ task[Ui].pc \notin Held /\ Goto(Ui, "announce") /\ sink = Nobody
  BY DEF WritePrompt, ShellInv, EditOK, RowOK, Blanked, At, Held, editor
<1>2. TasksOK' /\ SinkOK' /\ LoggedOK' /\ task'[Ui].pc = "announce"
  BY <1>1, EditorAside DEF ShellInv, EditorAt
<1>3. row' = <<Prompt>>
  BY <1>1
<1>4. EditOK' /\ RowOK'
  BY <1>1, <1>2, <1>3 DEF ShellInv, EditOK, RowOK, Shows, At, Blanked, Writing
<1>5. QED
  BY <1>2, <1>4 DEF ShellInv

LEMMA SetEditingStep ==
  ASSUME ShellInv, SetEditing
  PROVE  ShellInv'
<1>1. /\ At(Ui, "announce") /\ buffer = << >> /\ editing' = TRUE
      /\ UNCHANGED <<row, sink, ring, buffer, overflow, wasCr, logged, torn>>
      /\ task[Ui].pc \notin Held /\ Goto(Ui, "idle")
  BY DEF SetEditing, ShellInv, EditOK, At, Held
<1>2. TasksOK' /\ SinkOK' /\ LoggedOK' /\ task'[Ui].pc = "idle"
  BY <1>1, EditorAside DEF ShellInv, EditorAt
<1>3. sink = Nobody /\ ~torn => row = <<Prompt>>
  BY <1>1 DEF ShellInv, RowOK, Shows, At
<1>4. <<Prompt>> = <<Prompt>> \o buffer
  <2> DEFINE p == <<Prompt>>
  <2>1. p \in Seq(Cell)
    BY DEF Cell
  <2> HIDE DEF p
  <2>2. p \o << >> = p
    BY <2>1, ConcatEmptySeq
  <2>3. QED
    BY <1>1, <2>2 DEF p
<1>5. EditOK'
  BY <1>1, <1>2 DEF ShellInv, EditOK, At, Writing
<1>6. RowOK'
  BY <1>1, <1>2, <1>3, <1>4 DEF ShellInv, RowOK, Shows, At, Blanked
<1>7. QED
  BY <1>2, <1>5, <1>6 DEF ShellInv

LEMMA ShellStep == ShellInv /\ [ConsoleNext]_consoleVars => ShellInv'
<1> SUFFICES ASSUME ShellInv, [ConsoleNext]_consoleVars PROVE ShellInv'
  OBVIOUS
<1>1. ASSUME NEW t \in Task, Log(t) \/ WriteLine(t) \/ StoreLine(t) \/ Redraw(t)
      PROVE  ShellInv'
  BY <1>1, LogStep, WriteLineStep, StoreLineStep, RedrawStep
<1>2. CASE EditorNext
  BY <1>2, TypeKeyStep, EchoStep, BackspaceStep, RubStep, PressEnterStep, EndLineStep,
     NewLineStep, HandleLineStep, ClearLineStep, ExecuteStep, WritePromptStep, SetEditingStep
     DEF EditorNext
<1>3. CASE ClearHistory
  BY <1>3, ClearHistoryStep
<1>4. CASE UNCHANGED consoleVars
  <2>1. UNCHANGED <<row, sink, ring, buffer, overflow, wasCr, editing, task, logged, torn>>
    BY <1>4 DEF consoleVars, editor
  <2>2. TasksOK' /\ SinkOK' /\ LoggedOK'
    BY <2>1 DEF ShellInv, TasksOK, SinkOK, LoggedOK
  <2>3. EditOK' /\ RowOK'
    BY <2>1 DEF ShellInv, EditOK, RowOK, Shows, At
  <2>4. QED
    BY <2>2, <2>3 DEF ShellInv
<1>5. QED
  BY <1>1, <1>2, <1>3, <1>4 DEF ConsoleNext

LEMMA ShellInvariance == ConsoleSpec => []ShellInv
<1>1. QED
  BY ShellInitially, ShellStep, PTL DEF ConsoleSpec

(***************************************************************************)
(* The console: the theorems.                                              *)
(***************************************************************************)
\* What the editor shows is what it will execute, whichever lines other tasks log.
THEOREM ShellIsShown == ConsoleSpec => []ShellShows
<1>1. ShellInv => ShellShows
  BY DEF ShellInv, EditOK, RowOK, Shows, ShellShows, Polls, At
<1>2. QED
  BY <1>1, ShellInvariance, PTL

\* The history that "log" prints is what the screen has logged, of any capacity.
THEOREM HistoryIsScreen == ConsoleSpec => []RingIsScreen
<1>1. ASSUME ShellInv, \A t \in Task : ~At(t, "store") PROVE Holds(ring, logged)
  BY <1>1 DEF ShellInv, LoggedOK, SinkOK, At
<1>2. ShellInv => ConsoleTypeOK
  <2> SUFFICES ASSUME ShellInv PROVE ConsoleTypeOK
    OBVIOUS
  <2>1. PICK s : Holds(ring, s)
    BY DEF ShellInv, LoggedOK
  <2>2. ring.tail \in 0 .. Capacity - 1 /\ ring.used \in 0 .. Capacity
        /\ ring.head = (ring.tail + ring.used) % Capacity
    BY <2>1 DEF Holds
  <2>3. ring.head \in 0 .. Capacity - 1
    <3> DEFINE x == ring.tail + ring.used
    <3>1. x \in Int /\ 0 <= x /\ x < 2 * Capacity /\ ring.head = x % Capacity
      BY <2>2
    <3> HIDE DEF x
    <3>2. QED
      BY <3>1, Around
  <2>4. buffer \in Seq({Part(k, 1) : k \in Key}) /\ Len(buffer) <= LineMax
    BY DEF ShellInv, EditOK, Char
  <2>5. QED
    BY <2>2, <2>3, <2>4 DEF ShellInv, EditOK, SinkOK, ConsoleTypeOK
<1>3. ShellInv => RingIsScreen
  BY <1>1, <1>2, ShownByRing DEF RingIsScreen
<1>4. QED
  BY <1>3, ShellInvariance, PTL

\* The last cell of a line is not blank: what was there before it is not seen.
LEMMA ErasedRow ==
  ASSUME NEW r, Len(r) \in Nat, NEW n \in Nat, Len(r) <= n, NEW l \in Text
  PROVE  Trim(Over(Over(r, Blanks(n)), Cells(l))) = Cells(l)
<1> DEFINE b == Over(r, Blanks(n))  c == Cells(l)  k == Length[l]
           o == Over(b, c)  m == IF n < k THEN k ELSE n
           S == {0} \cup {i \in DOMAIN o : o[i] # Blank}
<1>1. Len(Blanks(n)) = n /\ \A i \in 1 .. n : Blanks(n)[i] = Blank
  BY DEF Blanks
<1>2. b = [i \in 1 .. n |-> Blank]
  <2> DEFINE z == Blanks(n)
  <2> HIDE DEF z
  <2>1. Len(z) = n /\ \A i \in 1 .. n : z[i] = Blank
    BY <1>1 DEF z
  <2>2. Largest({Len(r), Len(z)}) = n
    BY <2>1, LargestOfTwo
  <2>3. Over(r, z) = [i \in 1 .. n |-> IF i <= n THEN z[i] ELSE r[i]]
    BY <2>1, <2>2 DEF Over
  <2>4. QED
    BY <2>1, <2>3 DEF z
<1>3. Len(b) = n
  BY <1>2
<1>4. k \in Nat \ {0} /\ Len(c) = k /\ c \in Seq(Byte) /\ \A i \in 1 .. k : c[i] # Blank
  BY Bytes
<1>5. o = [i \in 1 .. m |-> IF i <= k THEN c[i] ELSE Blank]
  <2> HIDE DEF b, c, k
  <2>1. Largest({Len(b), Len(c)}) = m
    BY <1>3, <1>4, LargestOfTwo
  <2>2. o = [i \in 1 .. m |-> IF i <= k THEN c[i] ELSE b[i]]
    BY <1>4, <2>1 DEF Over
  <2>3. \A i \in 1 .. m : ~(i <= k) => b[i] = Blank
    BY <1>2, <1>4
  <2> HIDE DEF o, m
  <2>4. QED
    BY <2>2, <2>3
<1>6. Largest(S) = k
  <2> HIDE DEF b, c, k, o
  <2>1. k \in S
    BY <1>4, <1>5
  <2>2. \A i \in S : i <= k /\ i \in Int
    BY <1>4, <1>5
  <2> HIDE DEF S
  <2>3. \A a \in S : (\A i \in S : i <= a) => a = k
    BY <1>4, <2>1, <2>2
  <2>4. QED
    BY <2>1, <2>2, <2>3 DEF Largest
<1>7. Trim(o) = SubSeq(o, 1, k)
  <2> HIDE DEF b, c, k, o
  <2>1. Trim(o) = SubSeq(o, 1, Largest(S))
    BY DEF Trim
  <2>2. QED
    BY <1>6, <2>1
<1>8. SubSeq(o, 1, k) = c
  <2> HIDE DEF b, c, k, o
  <2>1. SubSeq(o, 1, k) = [i \in 1 .. k |-> o[i]]
    BY <1>4
  <2>2. \A i \in 1 .. k : o[i] = c[i]
    BY <1>4, <1>5
  <2>3. c = [i \in 1 .. k |-> c[i]]
    BY <1>4
  <2>4. QED
    BY <2>1, <2>2, <2>3
<1>9. QED
  BY <1>7, <1>8

\* Nothing of the prompt and of the line being typed is left beside a log line.
THEOREM LinesStandAlone == ConsoleSpec => LinesAlone
<1> DEFINE alone == \A t \in Task :
             WriteLine(t) /\ ~torn /\ task[Ui].pc \notin {"rub", "announce", "newline"} =>
               above' = Cells(task[t].text)
<1>1. ASSUME ShellInv PROVE alone
  <2> SUFFICES ASSUME NEW t \in Task, WriteLine(t), ~torn,
                      task[Ui].pc \notin {"rub", "announce", "newline"}
               PROVE  above' = Cells(task[t].text)
    OBVIOUS
  <2>1. /\ sink = Nobody /\ Nobody \notin Task /\ task[t].text \in Text /\ Ui \in Task
        /\ task[Ui].pc \in Writing \cup EditorAt /\ buffer \in Seq(Char)
    BY <1>1 DEF WriteLine, ShellInv, TasksOK, EditOK, Task
  <2>2. task[Ui].pc \notin Held
    BY <1>1, <2>1 DEF ShellInv, SinkOK
  <2> DEFINE n == 1 + Len(buffer)  l == task[t].text
  <2>3. CASE editing
    <3>1. task[Ui].pc \in {"idle", "echo"}
      BY <1>1, <2>3 DEF ShellInv, EditOK
    <3>2. Len(row) \in Nat /\ Len(row) <= n /\ n \in Nat
      <4>1. CASE At(Ui, "idle")
        <5>1. row = <<Prompt>> \o buffer
          BY <1>1, <2>1, <4>1 DEF ShellInv, RowOK, Shows, At
        <5>2. Len(row) = Len(buffer) + 1
          <6>1. <<Prompt>> \o buffer \in Seq(Cell) /\ Prompt \in Cell
            BY <2>1 DEF Cell
          <6>2. QED
            BY <2>1, <5>1
        <5>3. QED
          BY <2>1, <5>2
      <4>2. CASE At(Ui, "echo")
        <5> DEFINE f == SubSeq(buffer, 1, Len(buffer) - 1)  e == buffer[Len(buffer)]
        <5>1. row = <<Prompt>> \o f
          BY <1>1, <2>1, <4>2 DEF ShellInv, RowOK, Shows, At
        <5>2. buffer # << >>
          BY <1>1, <4>2 DEF ShellInv, EditOK
        <5>3. f \in Seq(Char) /\ Len(f) = Len(buffer) - 1 /\ e \in Char
          BY <2>1, <5>2, LastOn
        <5> HIDE DEF f, e
        <5>4. Len(row) = Len(f) + 1
          BY <5>1, <5>3, AfterPrompt
        <5>5. QED
          BY <2>1, <5>3, <5>4
      <4>3. QED
        BY <3>1, <4>1, <4>2 DEF At
    <3>3. above' = Trim(Over(Over(row, Blanks(n)), Cells(l)))
      BY <2>3 DEF WriteLine, Erased
    <3> HIDE DEF n, l
    <3>4. l \in Text
      BY <2>1 DEF l
    <3>5. above' = Cells(l)
      BY <3>2, <3>3, <3>4, ErasedRow
    <3>6. QED
      BY <3>5 DEF l
  <2>4. CASE ~editing
    <3>1. task[Ui].pc \in Blanked
      BY <1>1, <2>1, <2>2, <2>4 DEF ShellInv, EditOK, Blanked, Writing, EditorAt, Held
    <3>2. row = << >>
      BY <1>1, <3>1 DEF ShellInv, RowOK
    <3>3. above' = row \o Cells(l)
      BY <2>4 DEF WriteLine
    <3>4. Cells(l) \in Seq(Byte)
      BY <2>1, Bytes
    <3> HIDE DEF l
    <3>5. << >> \o Cells(l) = Cells(l)
      BY <3>4, ConcatEmptySeq
    <3>6. QED
      BY <3>2, <3>3, <3>5 DEF l
  <2>5. QED
    BY <1>1, <2>3, <2>4 DEF ShellInv, EditOK
<1>2. ShellInv => [alone]_consoleVars
  BY <1>1
<1> HIDE DEF alone
<1>3. ConsoleSpec => [][alone]_consoleVars
  BY <1>2, ShellInvariance, PTL
<1>4. QED
  BY <1>3 DEF LinesAlone, alone

USE CycleAssumption, IntervalAssumption, TimeAssumption

(***************************************************************************)
(* The SD card: the clock.                                                 *)
(***************************************************************************)
\* The clock runs on, or wraps around once.
LEMMA ModSmall ==
  ASSUME NEW x \in Int, 0 <= x, x < Cycle
  PROVE  x % Cycle = x
OBVIOUS

LEMMA ModAbove ==
  ASSUME NEW x \in Int, Cycle <= x, x < 2 * Cycle
  PROVE  x % Cycle = x - Cycle
OBVIOUS

LEMMA ModBelow ==
  ASSUME NEW x \in Int, -Cycle <= x, x < 0
  PROVE  x % Cycle = x + Cycle
OBVIOUS

LEMMA AfterInTime ==
  ASSUME NEW time \in Time, NEW while \in 0 .. Cycle - 1
  PROVE  /\ After(time, while) \in Time
         /\ \/ After(time, while) = time + while
            \/ After(time, while) = time + while - Cycle
BY ModSmall, ModAbove DEF After, Time

\* The time between two readings less than a cycle apart.
LEMMA Elapsed ==
  ASSUME NEW time \in Time, NEW while \in 0 .. Cycle - 1
  PROVE  (After(time, while) - time) % Cycle = while
<1>1. CASE After(time, while) = time + while
  BY <1>1, ModSmall DEF Time
<1>2. CASE After(time, while) = time + while - Cycle
  <2>1. CASE while = 0
    BY <1>2, <2>1, AfterInTime DEF Time
  <2>2. CASE while # 0
    <3>1. After(time, while) - time = while - Cycle
      BY <1>2 DEF Time
    <3>2. QED
      BY <2>2, <3>1, ModBelow
  <2>3. QED
    BY <2>1, <2>2
<1>3. QED
  BY <1>1, <1>2, AfterInTime

\* (int32_t) of a 32-bit difference is the difference, if it is small enough.
LEMMA SignedDifference ==
  ASSUME NEW a \in Time, NEW b \in Time, NEW d \in Int,
         d = a - b \/ d = a - b - Cycle \/ d = a - b + Cycle,
         -Cycle <= 2 * d, 2 * d < Cycle
  PROVE  Signed((a - b) % Cycle) = d
<1>1. Cycle \div 2 \in Nat /\ Cycle = 2 * (Cycle \div 2)
  OBVIOUS
<1>2. (a - b) % Cycle = IF d >= 0 THEN d ELSE d + Cycle
  BY ModSmall, ModBelow DEF Time
<1>3. QED
  BY <1>1, <1>2 DEF Signed

LEMMA AfterAfter ==
  ASSUME NEW time \in Time, NEW m \in Nat, NEW n \in Nat, m + n < Cycle
  PROVE  After(After(time, m), n) = After(time, m + n)
<1>1. After(time, m) \in Time /\ After(time, m + n) \in Time
  BY AfterInTime
<1>2. After(After(time, m), n) \in Time
  BY <1>1, AfterInTime
<1>3. After(time, m) = time + m \/ After(time, m) = time + m - Cycle
  BY AfterInTime
<1>4. After(time, m + n) = time + (m + n) \/ After(time, m + n) = time + (m + n) - Cycle
  <2>1. m + n \in 0 .. Cycle - 1
    OBVIOUS
  <2>2. QED
    BY <2>1, AfterInTime
<1>5. \/ After(After(time, m), n) = After(time, m) + n
      \/ After(After(time, m), n) = After(time, m) + n - Cycle
  BY <1>1, AfterInTime
<1>6. QED
  BY <1>1, <1>2, <1>3, <1>4, <1>5 DEF Time

(***************************************************************************)
(* The SD card: the invariant.                                             *)
(***************************************************************************)
\* Nothing is powered or mounted; all is; a mount has the LDO and no card yet.
Off == /\ ~card /\ ~mounted /\ ~shown
       /\ ldo = [held |-> FALSE, live |-> 0]
       /\ board.powerPin => power # "on"
Powered == /\ ldo = IF HasLdo THEN [held |-> TRUE, live |-> 1]
                              ELSE [held |-> FALSE, live |-> 0]
           /\ ready /\ pins.width # 0
PowerIsOn == board.powerPin => power = "on"
On == card /\ mounted /\ shown /\ Powered /\ PowerIsOn

\* What is true at each place of the loop task.
PlaceInv ==
  /\ board.powerPin \in BOOLEAN
  /\ pc \in {"init", "start", "idle", "mount", "cycle", "settle", "vfs", "flags",
             "health", "unmount", "release"}
  /\ pc = "init" => Off /\ ~ready
  /\ pc \in {"start", "mount"} => Off /\ ready
  /\ pc = "idle" => Off \/ On
  /\ pc \in {"cycle", "settle", "vfs"} => ~card /\ ~mounted /\ ~shown /\ Powered
  /\ pc = "vfs" => PowerIsOn
  /\ pc = "flags" => card /\ ~mounted /\ ~shown /\ Powered /\ PowerIsOn
  /\ pc \in {"health", "unmount"} => On
  /\ pc = "release" => ~card /\ mounted /\ shown /\ Powered /\ PowerIsOn

\* Once the module has started, the deadline is an interval after the last
\* check, or it is the first one and due at once.
ClockInv ==
  /\ since < Interval
  /\ pc \in {"init", "start"} => since = Interval - 1
  /\ ready /\ pc # "start" =>
       \/ due = now /\ since = Interval - 1
       \/ due = After(now, Interval - since)

Inv == TypeOK /\ PlaceInv /\ ClockInv

LEMMA Initially == Init => Inv
<1> SUFFICES ASSUME Init PROVE Inv
  OBVIOUS
<1>1. TypeOK
  <2>1. pins \in [set : PinSet \cup {"none"}, width : {0, 1, 4}]
    BY DEF Init
  <2>2. slot \in [in : BOOLEAN, good : BOOLEAN, answers : BOOLEAN]
    BY DEF Init, Empty
  <2>3. ldo \in [held : BOOLEAN, live : Nat]
    BY DEF Init
  <2>4. now \in Time /\ due \in Time /\ since \in Nat
    BY DEF Init, Time
  <2>5. QED
    BY <2>1, <2>2, <2>3, <2>4 DEF Init, TypeOK
<1>2. PlaceInv
  BY DEF Init, PlaceInv, Off
<1>3. QED
  BY <1>1, <1>2 DEF Init, Inv, ClockInv

\* A tick finds the scheduler due exactly when an interval has passed.
LEMMA DueInTime ==
  ASSUME Inv, pc = "idle", ready, NEW passed \in Tick .. Tick + MaxLate
  PROVE  Due(due, After(now, passed)) <=> since + passed >= Interval
<1> DEFINE d == IF due = now THEN passed ELSE passed - (Interval - since)
<1>1. /\ now \in Time /\ due \in Time /\ since \in 0 .. Interval - 1
      /\ passed \in 1 .. Cycle - 1 /\ Interval - since \in 0 .. Cycle - 1
  BY DEF Inv, TypeOK, ClockInv
<1>2. /\ d \in Int /\ -Cycle <= 2 * d /\ 2 * d < Cycle
  BY <1>1
<1>3. d >= 0 <=> since + passed >= Interval
  <2>1. CASE due = now
    <3>1. since = Interval - 1
      <4>1. CASE due = After(now, Interval - since)
        <5>1. \/ due = now + (Interval - since)
              \/ due = now + (Interval - since) - Cycle
          BY <1>1, <4>1, AfterInTime
        <5>2. QED
          BY <1>1, <2>1, <5>1 DEF Time
      <4>2. QED
        BY <4>1 DEF Inv, ClockInv
    <3>2. QED
      BY <1>1, <2>1, <3>1
  <2>2. CASE due # now
    BY <1>1, <2>2
  <2>3. QED
    BY <2>1, <2>2
<1>4. \/ d = After(now, passed) - due
      \/ d = After(now, passed) - due - Cycle
      \/ d = After(now, passed) - due + Cycle
  <2>1. After(now, passed) = now + passed \/ After(now, passed) = now + passed - Cycle
    BY <1>1, AfterInTime
  <2>2. CASE due = now
    BY <1>1, <2>1, <2>2 DEF Time
  <2>3. CASE due # now
    <3>1. due = After(now, Interval - since)
      BY <2>3 DEF Inv, ClockInv, TypeOK
    <3>2. due = now + (Interval - since) \/ due = now + (Interval - since) - Cycle
      BY <1>1, <3>1, AfterInTime
    <3>3. QED
      BY <1>1, <2>1, <2>3, <3>2 DEF Time
  <2>4. QED
    BY <2>2, <2>3
<1>5. After(now, passed) \in Time
  BY <1>1, AfterInTime
<1>6. Signed((After(now, passed) - due) % Cycle) = d
  BY <1>1, <1>2, <1>4, <1>5, SignedDifference
<1>7. QED
  BY <1>3, <1>6 DEF Due

(***************************************************************************)
(* The SD card: the steps.                                                 *)
(***************************************************************************)
\* The clock stands still in every call.
LEMMA ClockStays ==
  ASSUME Inv, UNCHANGED <<clock, ready>>, pc \notin {"init", "start"},
         pc' \notin {"init", "start"}
  PROVE  ClockInv'
BY DEF Inv, ClockInv, clock

LEMMA TickStep ==
  ASSUME Inv, EverySecond
  PROVE  Inv' /\ (since' = 0 => since + ((now' - now) % Cycle) >= Interval)
<1>1. PICK passed \in Tick .. Tick + MaxLate :
        /\ now' = After(now, passed)
        /\ IF Due(due, now')
           THEN /\ due' = NextDue(now') /\ since' = 0
                /\ pc' = IF mounted THEN "health" ELSE "mount"
           ELSE since' = since + passed /\ UNCHANGED <<due, pc>>
  BY DEF EverySecond
<1>2. /\ pc = "idle" /\ ready
      /\ UNCHANGED <<board, pins, ready, flash, slot, sd, spent>>
  BY DEF EverySecond
<1>3. /\ now \in Time /\ due \in Time /\ since \in 0 .. Interval - 1
      /\ passed \in 1 .. Cycle - 1 /\ Interval - since \in 0 .. Cycle - 1
      /\ Interval \in 0 .. Cycle - 1
  BY DEF Inv, TypeOK, ClockInv
<1>4. now' \in Time /\ (now' - now) % Cycle = passed
  BY <1>1, <1>3, AfterInTime, Elapsed
<1>5. Due(due, now') <=> since + passed >= Interval
  BY <1>1, <1>2, DueInTime
<1>6. CASE Due(due, now')
  <2>1. due' = After(now', Interval) /\ due' \in Time /\ since' = 0
    BY <1>1, <1>3, <1>4, <1>6, AfterInTime DEF NextDue
  <2>2. TypeOK'
    BY <1>2, <1>4, <2>1 DEF Inv, TypeOK, sd
  <2>3. ClockInv'
    BY <1>1, <1>6, <2>1 DEF ClockInv
  <2>4. PlaceInv'
    BY <1>1, <1>2, <1>6 DEF Inv, PlaceInv, Off, On, Powered, PowerIsOn, sd
  <2>5. QED
    BY <1>3, <1>4, <1>5, <1>6, <2>2, <2>3, <2>4 DEF Inv
<1>7. CASE ~Due(due, now')
  <2>1. due' = due /\ pc' = pc /\ since' = since + passed /\ since' \in 1 .. Interval - 1
    BY <1>1, <1>3, <1>5, <1>7
  <2>2. TypeOK'
    BY <1>2, <1>3, <1>4, <2>1 DEF Inv, TypeOK, sd
  <2>3. due = After(now, Interval - since)
    BY <1>2, <1>3, <2>1 DEF Inv, ClockInv
  <2>4. After(now', Interval - since') = After(now, passed + (Interval - since'))
    BY <1>1, <1>3, <2>1, AfterAfter
  <2>5. passed + (Interval - since') = Interval - since
    BY <1>3, <2>1
  <2>6. ClockInv'
    BY <1>2, <2>1, <2>3, <2>4, <2>5 DEF ClockInv
  <2>7. PlaceInv'
    BY <1>2, <2>1 DEF Inv, PlaceInv, Off, On, Powered, PowerIsOn, sd
  <2>8. QED
    BY <2>1, <2>2, <2>6, <2>7 DEF Inv
<1>8. QED
  BY <1>6, <1>7

SlotRecord == [in : BOOLEAN, good : BOOLEAN, answers : BOOLEAN]

LEMMA LdoGivenBack ==
  ASSUME Powered
  PROVE  NoLdo = [held |-> FALSE, live |-> 0]
<1>1. CASE HasLdo
  <2>1. ldo.held /\ ldo.live = 1
    BY <1>1 DEF Powered
  <2>2. QED
    BY <2>1 DEF NoLdo
<1>2. CASE ~HasLdo
  <2> DEFINE mine == IF ldo.held THEN 1 ELSE 0
  <2>1. ldo.live = 0 /\ mine = 0
    BY <1>2 DEF Powered
  <2> HIDE DEF mine
  <2>2. ldo.live - mine = 0
    BY <2>1
  <2>3. NoLdo = [held |-> FALSE, live |-> ldo.live - mine]
    BY DEF NoLdo, mine
  <2>4. QED
    BY <2>2, <2>3
<1>3. QED
  BY <1>1, <1>2

LEMMA SlotType ==
  ASSUME Inv
  PROVE  /\ SlotUnpowered \in SlotRecord
         /\ [slot EXCEPT !.answers = FALSE] \in SlotRecord
         /\ [slot EXCEPT !.answers = TRUE] \in SlotRecord
BY DEF Inv, TypeOK, SlotUnpowered, SlotRecord, PlaceInv

LEMMA CallStep ==
  ASSUME Inv, Call
  PROVE  Inv' /\ UNCHANGED <<now, since>>
<1>1. CASE StorageInit
  <2>1. pins' \in [set : PinSet \cup {"none"}, width : {0, 1, 4}]
    BY <1>1 DEF StorageInit, Resolved, Width, PinSet
  <2>2. TypeOK'
    BY <1>1, <2>1 DEF StorageInit, Inv, TypeOK, sd, clock
  <2>3. PlaceInv'
    BY <1>1 DEF StorageInit, Inv, PlaceInv, Off, On, sd
  <2>4. ClockInv'
    BY <1>1 DEF StorageInit, Inv, PlaceInv, ClockInv, clock, TypeOK
  <2>5. QED
    BY <1>1, <2>2, <2>3, <2>4 DEF StorageInit, Inv, clock
<1>2. CASE StorageStart
  <2>1. TypeOK'
    BY <1>2 DEF StorageStart, FirstDue, Inv, TypeOK, sd
  <2>2. PlaceInv'
    BY <1>2 DEF StorageStart, Inv, PlaceInv, Off, On, sd
  <2>3. ClockInv'
    BY <1>2 DEF StorageStart, FirstDue, Inv, ClockInv
  <2>4. QED
    BY <1>2, <2>1, <2>2, <2>3 DEF StorageStart, Inv
<1>3. CASE MountRefused
  <2>1. TypeOK'
    BY <1>3 DEF MountRefused, Inv, TypeOK, sd, clock
  <2>2. PlaceInv'
    BY <1>3 DEF MountRefused, Inv, PlaceInv, Off, On, Powered, PowerIsOn, sd
  <2>3. ClockInv'
    BY <1>3, ClockStays DEF MountRefused
  <2>4. QED
    BY <1>3, <2>1, <2>2, <2>3 DEF MountRefused, Inv, clock
<1>4. CASE NewLdo
  <2>1. TypeOK'
    <3>1. ldo' \in [held : BOOLEAN, live : Nat]
      <4>1. ldo.live + 1 \in Nat /\ ldo \in [held : BOOLEAN, live : Nat]
        BY DEF Inv, TypeOK
      <4>2. \A n \in Nat : [held |-> TRUE, live |-> n] \in [held : BOOLEAN, live : Nat]
        OBVIOUS
      <4>3. [held |-> TRUE, live |-> ldo.live + 1] \in [held : BOOLEAN, live : Nat]
        BY <4>1, <4>2
      <4>4. QED
        BY <1>4, <4>1, <4>3 DEF NewLdo
    <3>2. QED
      BY <1>4, <3>1 DEF NewLdo, Inv, TypeOK, clock
  <2>2. PlaceInv'
    BY <1>4 DEF NewLdo, Fault, Inv, PlaceInv, Off, On, Powered, PowerIsOn, sd
  <2>3. ClockInv'
    BY <1>4, ClockStays DEF NewLdo
  <2>4. QED
    BY <1>4, <2>1, <2>2, <2>3 DEF NewLdo, Inv, clock
<1>5. CASE PowerOff
  <2>1. TypeOK'
    <3>1. slot' \in SlotRecord
      BY <1>5, SlotType DEF PowerOff, SlotRecord, Inv, TypeOK
    <3>2. power' \in {"unset", "on", "off"} /\ pc' = "settle"
      BY <1>5 DEF PowerOff, Inv, TypeOK
    <3>3. QED
      BY <1>5, <3>1, <3>2 DEF PowerOff, SlotRecord, Inv, TypeOK, clock
  <2>2. PlaceInv'
    BY <1>5 DEF PowerOff, Inv, PlaceInv, Off, On, Powered, PowerIsOn, sd
  <2>3. ClockInv'
    BY <1>5, ClockStays DEF PowerOff
  <2>4. QED
    BY <1>5, <2>1, <2>2, <2>3 DEF PowerOff, Inv, clock
<1>6. CASE PowerOn
  <2>1. TypeOK'
    BY <1>6 DEF PowerOn, Inv, TypeOK, sd, clock
  <2>2. PlaceInv'
    BY <1>6 DEF PowerOn, Inv, PlaceInv, Off, On, Powered, PowerIsOn, sd
  <2>3. ClockInv'
    BY <1>6, ClockStays DEF PowerOn
  <2>4. QED
    BY <1>6, <2>1, <2>2, <2>3 DEF PowerOn, Inv, clock
<1>7. CASE MountFails
  <2>0. ldo' = [held |-> FALSE, live |-> 0]
    BY <1>7, LdoGivenBack DEF MountFails, Inv, PlaceInv
  <2>1. TypeOK'
    BY <1>7, <2>0, SlotType DEF MountFails, SlotRecord, Unpowered, Inv, TypeOK, clock
  <2>2. PlaceInv'
    BY <1>7, <2>0 DEF MountFails, Unpowered, Inv, PlaceInv, Off, On, Powered, PowerIsOn
  <2>3. ClockInv'
    BY <1>7, ClockStays DEF MountFails
  <2>4. QED
    BY <1>7, <2>1, <2>2, <2>3 DEF MountFails, Inv, clock
<1>8. CASE MountVfs
  <2>1. TypeOK'
    BY <1>8, SlotType DEF MountVfs, SlotRecord, Inv, TypeOK, sd, clock
  <2>2. PlaceInv'
    BY <1>8 DEF MountVfs, Inv, PlaceInv, Off, On, Powered, PowerIsOn, sd
  <2>3. ClockInv'
    BY <1>8, ClockStays DEF MountVfs
  <2>4. QED
    BY <1>8, <2>1, <2>2, <2>3 DEF MountVfs, Inv, clock
<1>9. CASE SetMounted
  <2>1. TypeOK'
    BY <1>9 DEF SetMounted, Inv, TypeOK, sd, clock
  <2>2. PlaceInv'
    BY <1>9 DEF SetMounted, Inv, PlaceInv, Off, On, Powered, PowerIsOn, sd
  <2>3. ClockInv'
    BY <1>9, ClockStays DEF SetMounted
  <2>4. QED
    BY <1>9, <2>1, <2>2, <2>3 DEF SetMounted, Inv, clock
<1>10. CASE CheckHealth
  <2>1. TypeOK'
    BY <1>10 DEF CheckHealth, Fault, Inv, TypeOK, sd, clock
  <2>2. PlaceInv'
    BY <1>10 DEF CheckHealth, Fault, Inv, PlaceInv, Off, On, Powered, PowerIsOn, sd
  <2>3. ClockInv'
    BY <1>10, ClockStays DEF CheckHealth
  <2>4. QED
    BY <1>10, <2>1, <2>2, <2>3 DEF CheckHealth, Inv, clock
<1>11. CASE UnmountVfs
  <2>1. TypeOK'
    BY <1>11 DEF UnmountVfs, Inv, TypeOK, sd, clock
  <2>2. PlaceInv'
    BY <1>11 DEF UnmountVfs, Inv, PlaceInv, Off, On, Powered, PowerIsOn, sd
  <2>3. ClockInv'
    BY <1>11, ClockStays DEF UnmountVfs
  <2>4. QED
    BY <1>11, <2>1, <2>2, <2>3 DEF UnmountVfs, Inv, clock
<1>12. CASE Release
  <2>0. ldo' = [held |-> FALSE, live |-> 0]
    BY <1>12, LdoGivenBack DEF Release, Inv, PlaceInv
  <2>1. TypeOK'
    <3>1. ldo' \in [held : BOOLEAN, live : Nat] /\ slot' \in SlotRecord
      BY <1>12, <2>0, SlotType DEF Release
    <3>2. power' \in {"unset", "on", "off"}
      BY <1>12 DEF Release, Unpowered, Inv, TypeOK
    <3>3. QED
      BY <1>12, <3>1, <3>2 DEF Release, SlotRecord, Inv, TypeOK, clock
  <2>2. PlaceInv'
    BY <1>12, <2>0 DEF Release, Unpowered, Inv, PlaceInv, Off, On, Powered, PowerIsOn
  <2>3. ClockInv'
    BY <1>12, ClockStays DEF Release
  <2>4. QED
    BY <1>12, <2>1, <2>2, <2>3 DEF Release, Inv, clock
<1>13. QED
  BY <1>1, <1>2, <1>3, <1>4, <1>5, <1>6, <1>7, <1>8, <1>9, <1>10, <1>11, <1>12 DEF Call

LEMMA SwapStep ==
  ASSUME Inv, Swap
  PROVE  Inv' /\ UNCHANGED <<now, since>>
<1>1. TypeOK'
  <2>1. slot' \in [in : BOOLEAN, good : BOOLEAN, answers : BOOLEAN]
    <3>1. Empty \in SlotRecord
      BY DEF Empty, SlotRecord
    <3>2. \A g \in BOOLEAN : [in |-> TRUE, good |-> g, answers |-> FALSE] \in SlotRecord
      BY DEF SlotRecord
    <3>3. slot' = Empty \/ \E g \in BOOLEAN : slot' = [in |-> TRUE, good |-> g, answers |-> FALSE]
      BY DEF Swap
    <3>4. slot' \in SlotRecord
      BY <3>1, <3>2, <3>3
    <3>5. QED
      BY <3>4 DEF SlotRecord
  <2>2. QED
    BY <2>1 DEF Swap, Inv, TypeOK, sd, clock
<1>2. PlaceInv'
  BY DEF Swap, Inv, PlaceInv, Off, On, Powered, PowerIsOn, sd
<1>3. ClockInv'
  BY DEF Swap, Inv, ClockInv, clock
<1>4. QED
  BY <1>1, <1>2, <1>3 DEF Swap, Inv, clock

LEMMA Invariance == Spec => []Inv
<1>1. Inv /\ [Next]_vars => Inv'
  <2> SUFFICES ASSUME Inv, [Next]_vars PROVE Inv'
    OBVIOUS
  <2>1. CASE UNCHANGED vars
    BY <2>1 DEF Inv, TypeOK, PlaceInv, ClockInv, Off, On, Powered, PowerIsOn, vars, sd, clock
  <2>2. QED
    BY <2>1, CallStep, TickStep, SwapStep DEF Next
<1>2. QED
  BY <1>1, Initially, PTL DEF Spec

(***************************************************************************)
(* The SD card: the theorems.                                              *)
(***************************************************************************)
\* Between two calls of the storage module the flags, the card object, the LDO
\* and the power switch agree: no step of a mount that fails, and no card that
\* is pulled out during one, leaves anything powered, held or shown.
THEOREM MountIsPower == Spec => []PowerFollowsMount
<1>1. ASSUME Inv PROVE PowerFollowsMount
  <2>1. CASE pc = "idle" /\ On
    BY <1>1, <2>1 DEF Inv, PowerFollowsMount, On, Powered, PowerIsOn
  <2>2. CASE pc = "idle" /\ Off
    <3>1. ~mounted /\ ~card /\ ~shown /\ (board.powerPin => power # "on")
      BY <2>2 DEF Off
    <3>2. ldo = IF mounted /\ HasLdo THEN [held |-> TRUE, live |-> 1]
                                    ELSE [held |-> FALSE, live |-> 0]
      BY <2>2 DEF Off
    <3>3. QED
      BY <1>1, <2>2, <3>1, <3>2 DEF Inv, TypeOK, PowerFollowsMount
  <2>3. QED
    BY <1>1, <2>1, <2>2 DEF Inv, PlaceInv, PowerFollowsMount
<1>2. QED
  BY <1>1, Invariance, PTL

\* HxSchedulerDue as StorageEverySecond uses it: a check is never early, and it
\* comes with the first tick that is not, for every interval, lateness and
\* reading of the clock, as long as these span less than half the cycle.
THEOREM CheckEachInterval == Spec => ChecksOnTime
<1>1. Inv => since < Interval
  BY DEF Inv, ClockInv
<1>2. Inv /\ [Next]_vars
        => [since' = 0 => since + ((now' - now) % Cycle) >= Interval]_<<now, since>>
  BY CallStep, TickStep, SwapStep DEF Next, vars, clock
<1>3. QED
  BY <1>1, <1>2, Invariance, PTL DEF Spec, ChecksOnTime
===============================================================================
