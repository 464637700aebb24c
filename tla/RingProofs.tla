----------------------------- MODULE RingProofs -----------------------------
(***************************************************************************)
(* fc::Ring implements the unlimited queue of RingSpec, for elements that  *)
(* own references and for those that do not, whatever fresh memory holds.  *)
(***************************************************************************)
EXTENDS Ring, FiniteSetTheorems, TLAPS

\* The tail follows the last element, one slot at least stays free, and the
\* slots in use hold elements.
RingInv ==
    /\ TypeOK
    /\ capacity = 0 => head = 0 /\ tail = 0 /\ len = 0
    /\ capacity # 0 => /\ capacity >= 3 /\ head < capacity /\ len < capacity
                       /\ tail = SlotOf(head, capacity, len)
    /\ \A k \in 0 .. len - 1 : data[SlotOf(head, capacity, k)] \in Items

\* An index that has gone past the end once comes round.
LEMMA GoesRound ==
    ASSUME NEW c \in Nat \ {0}, NEW x \in Nat, x < 2 * c
    PROVE  (x < c => x % c = x) /\ (x >= c => x % c = x - c)
<1>1. CASE x < c
  BY <1>1
<1>2. CASE x >= c
  BY <1>2
<1> QED
  BY <1>1, <1>2

LEMMA InitRing == Init => RingInv
BY DEF Init, RingInv, TypeOK, Slots, SlotOf

\* Two queues are the same when they have the same length and elements.
LEMMA Appended ==
    ASSUME NEW n \in Nat, NEW S, NEW f \in [1 .. n -> S], NEW g \in [1 .. n + 1 -> S],
           \A k \in 1 .. n : g[k] = f[k]
    PROVE  g = Append(f, g[n + 1])
<1>1. f \in Seq(S) /\ Len(f) = n
  OBVIOUS
<1> QED
  BY <1>1

LEMMA Dropped ==
    ASSUME NEW n \in Nat, NEW S, NEW f \in [1 .. n + 1 -> S], NEW g \in [1 .. n -> S],
           \A k \in 1 .. n : g[k] = f[k + 1]
    PROVE  g = Tail(f) /\ f # <<>> /\ Len(f) = n + 1
<1>1. f \in Seq(S) /\ Len(f) = n + 1
  OBVIOUS
<1> QED
  BY <1>1

\* Slots are inside the array, and two elements have two slots.
LEMMA SlotRange ==
    ASSUME NEW c \in Nat, NEW h \in 0 .. c - 1, NEW k \in 0 .. c - 1
    PROVE  /\ SlotOf(h, c, k) \in 0 .. c - 1
           /\ \A j \in 0 .. c - 1 : SlotOf(h, c, j) = SlotOf(h, c, k) => j = k
BY DEF SlotOf

LEMMA ContentType ==
    ASSUME RingInv
    PROVE  Content \in [1 .. len -> Items] /\ len \in Nat
<1>1. len \in Nat /\ \A k \in 0 .. len - 1 : data[SlotOf(head, capacity, k)] \in Items
  BY DEF RingInv, TypeOK
<1>2. ASSUME NEW k \in 1 .. len PROVE data[SlotOf(head, capacity, k - 1)] \in Items
  <2>1. k - 1 \in 0 .. len - 1
    BY <1>1
  <2> QED
    BY <1>1, <2>1
<1> QED
  BY <1>1, <1>2 DEF Content

LEMMA ContentPrimed ==
    ASSUME RingInv'
    PROVE  Content' \in [1 .. len' -> Items]
<1>1. \A k \in 0 .. len' - 1 : data'[SlotOf(head', capacity', k)] \in Items
  BY DEF RingInv, SlotOf
<1>2. ASSUME NEW k \in 1 .. len' PROVE data'[SlotOf(head', capacity', k - 1)] \in Items
  <2>1. k - 1 \in 0 .. len' - 1
    <3>1. len' \in Nat
      BY DEF RingInv, TypeOK
    <3>2. \A n \in Nat : \A j \in 1 .. n : j - 1 \in 0 .. n - 1
      OBVIOUS
    <3> QED
      BY <1>2, <3>1, <3>2, Zenon
  <2> QED
    BY <1>1, <2>1
<1> QED
  BY <1>1, <1>2 DEF Content, SlotOf

\* What is common to both forms of push: d is the array, h and c the head and
\* the capacity just before the element is written.
LEMMA Written ==
    ASSUME RingInv, NEW x \in Items, NEW c \in Nat, NEW h \in Nat, NEW d \in [0 .. c - 1 -> Slots],
           c >= 3, h < c, len + 1 < c, tail = SlotOf(h, c, len),
           \A k \in 0 .. len - 1 : d[SlotOf(h, c, k)] = data[SlotOf(head, capacity, k)],
           data' = [d EXCEPT ![tail] = x], tail' = (tail + 1) % c,
           capacity' = c, head' = h, len' = len + 1, out' = out, refs' \in [Items -> Int]
    PROVE  RingInv' /\ Content' = Append(Content, x)
<1>1. /\ len \in Nat /\ len' \in Nat /\ h \in 0 .. c - 1 /\ out \in Slots
      /\ \A k \in 0 .. len - 1 : data[SlotOf(head, capacity, k)] \in Items
  BY DEF RingInv, TypeOK
<1>2. tail \in 0 .. c - 1 /\ \A k \in 0 .. len - 1 : SlotOf(h, c, k) \in 0 .. c - 1 /\ SlotOf(h, c, k) # tail
  <2>1. len \in 0 .. c - 1 /\ \A k \in 0 .. len - 1 : k \in 0 .. c - 1 /\ k # len
    BY <1>1
  <2>2. /\ SlotOf(h, c, len) \in 0 .. c - 1
        /\ \A j \in 0 .. c - 1 : SlotOf(h, c, j) = SlotOf(h, c, len) => j = len
    BY <1>1, <2>1, SlotRange
  <2>3. \A k \in 0 .. c - 1 : SlotOf(h, c, k) \in 0 .. c - 1
    BY <1>1, SlotRange
  <2> HIDE DEF SlotOf
  <2> QED
    BY <2>1, <2>2, <2>3
<1>3. data' \in [0 .. c - 1 -> Slots] /\ data'[tail] = x
  BY <1>2 DEF Slots
<1>4. \A k \in 0 .. len - 1 : data'[SlotOf(h, c, k)] = data[SlotOf(head, capacity, k)]
  BY <1>2
<1>5. tail' = SlotOf(h, c, len + 1)
  <2> DEFINE y == tail + 1
  <2>1. y \in Nat /\ y < 2 * c /\ c \in Nat \ {0}
    BY <1>2
  <2>2. (y < c => y % c = y) /\ (y >= c => y % c = y - c)
    <3> HIDE DEF y
    <3> QED
      BY <2>1, GoesRound
  <2> QED
    BY <1>1, <1>2, <2>2 DEF SlotOf
<1>6. tail' \in Nat
  BY <1>1, <1>5 DEF SlotOf
<1>7. \A k \in 0 .. len' - 1 : data'[SlotOf(head', capacity', k)] \in Items
  <2> SUFFICES ASSUME NEW k \in 0 .. len' - 1 PROVE data'[SlotOf(h, c, k)] \in Items
    OBVIOUS
  <2>1. CASE k = len
    BY <1>3, <2>1
  <2>2. CASE k # len
    <3>1. k \in 0 .. len - 1
      BY <1>1, <2>2
    <3> QED
      BY <1>1, <1>4, <3>1
  <2> QED
    BY <2>1, <2>2
<1>8. RingInv'
  <2>1. TypeOK'
    BY <1>1, <1>3, <1>6 DEF TypeOK
  <2> QED
    BY <1>1, <1>5, <1>7, <2>1 DEF RingInv, SlotOf
<1>9. Content' = Append(Content, x)
  <2>1. Content \in [1 .. len -> Items]
    BY ContentType
  <2>2. Content' \in [1 .. len + 1 -> Items]
    <3>1. Content' = [k \in 1 .. len + 1 |-> data'[SlotOf(h, c, k - 1)]]
      BY DEF Content, SlotOf
    <3>2. ASSUME NEW k \in 1 .. len + 1 PROVE data'[SlotOf(h, c, k - 1)] \in Items
      <4>1. k - 1 \in 0 .. len' - 1
        BY <1>1
      <4> QED
        BY <1>7, <4>1
    <3> QED
      BY <3>1, <3>2
  <2>3. ASSUME NEW k \in 1 .. len PROVE Content'[k] = Content[k]
    <3>1. k - 1 \in 0 .. len - 1 /\ k \in 1 .. len + 1
      BY <1>1
    <3> QED
      BY <1>4, <3>1 DEF Content, SlotOf
  <2>4. Content'[len + 1] = x
    <3>1. len + 1 \in 1 .. len + 1 /\ len + 1 - 1 = len
      BY <1>1
    <3>2. Content' = [k \in 1 .. len + 1 |-> data'[SlotOf(h, c, k - 1)]]
      BY DEF Content, SlotOf
    <3>3. Content'[len + 1] = data'[SlotOf(h, c, (len + 1) - 1)]
      BY <3>1, <3>2
    <3>4. SlotOf(h, c, (len + 1) - 1) = tail
      BY <1>1 DEF SlotOf
    <3> QED
      BY <1>3, <3>3, <3>4
  <2> QED
    BY <1>1, <2>1, <2>2, <2>3, <2>4, Appended
<1> QED
  BY <1>8, <1>9

LEMMA PushStep ==
    ASSUME RingInv, NEW x \in Items, push(x)
    PROVE  RingInv' /\ Content' = Append(Content, x) /\ out' = out
<1>1. /\ len + 1 < capacity /\ data' = [data EXCEPT ![tail] = x]
      /\ tail' = (tail + 1) % capacity /\ len' = len + 1
      /\ refs' = [refs EXCEPT ![x] = @ + 1] /\ UNCHANGED <<head, capacity, out>>
  BY DEF push
<1>2. /\ capacity \in Nat /\ len \in Nat /\ head \in Nat /\ data \in [0 .. capacity - 1 -> Slots]
      /\ refs \in [Items -> Int]
  BY DEF RingInv, TypeOK
<1>3. capacity >= 3 /\ head < capacity /\ tail = SlotOf(head, capacity, len)
  BY <1>1, <1>2 DEF RingInv
<1>4. refs' \in [Items -> Int]
  BY <1>1, <1>2
<1> QED
  BY <1>1, <1>2, <1>3, <1>4, Written

\* The array grows: every element keeps its place in the queue.
LEMMA GrownKeeps ==
    ASSUME RingInv, len + 1 >= capacity, NEW v \in Slots
    PROVE  LET c == Wanted
               h == IF wrapped THEN Wanted - capacity + head ELSE head
               d == Grown(Wanted, v)
           IN  /\ c \in Nat /\ c >= 3 /\ h \in Nat /\ h < c /\ len + 1 < c
               /\ d \in [0 .. c - 1 -> Slots] /\ tail = SlotOf(h, c, len)
               /\ \A k \in 0 .. len - 1 : d[SlotOf(h, c, k)] = data[SlotOf(head, capacity, k)]
<1> DEFINE c == Wanted
           h == IF wrapped THEN c - capacity + head ELSE head
           d == Grown(c, v)
<1>1. /\ capacity \in Nat /\ len \in Nat /\ head \in Nat /\ tail \in Nat
      /\ data \in [0 .. capacity - 1 -> Slots] /\ None \in Slots
  BY DEF RingInv, TypeOK, Slots
<1>2. /\ capacity = 0 => head = 0 /\ tail = 0 /\ len = 0
      /\ capacity # 0 => /\ capacity >= 3 /\ head < capacity /\ len < capacity
                         /\ tail = SlotOf(head, capacity, len)
  BY DEF RingInv
<1>3. c \in Nat /\ c >= len + 3 /\ c > capacity
  <2>1. (len + 2) \div 2 \in Nat /\ (len + 2) \div 2 >= 1
    BY <1>1
  <2> QED
    BY <1>1, <1>2, <2>1 DEF Wanted
<1> HIDE DEF c
<1>4. CASE wrapped
  <2>1. h = c - capacity + head /\ capacity # 0 /\ tail <= head
    BY <1>1, <1>4 DEF wrapped
  <2>2. /\ h \in Nat /\ h < c /\ capacity >= 3 /\ len >= 2 /\ head < capacity /\ len < capacity
        /\ head + len >= capacity /\ tail = head + len - capacity
    BY <1>1, <1>2, <1>3, <2>1 DEF SlotOf
  <2>3. d = [j \in 0 .. c - 1 |->
                IF j >= head + c - capacity THEN data[j - (c - capacity)]
                ELSE IF head <= j /\ j < capacity THEN None
                ELSE IF j < capacity THEN data[j] ELSE v]
    BY <1>4 DEF Grown
  <2> HIDE DEF d, h
  <2>4. d \in [0 .. c - 1 -> Slots]
    <3>1. ASSUME NEW j \in 0 .. c - 1, j >= head + c - capacity PROVE data[j - (c - capacity)] \in Slots
      <4>1. j - (c - capacity) \in 0 .. capacity - 1
        BY <1>1, <1>3, <2>2, <3>1
      <4> QED
        BY <1>1, <4>1
    <3>2. ASSUME NEW j \in 0 .. c - 1, j < capacity PROVE data[j] \in Slots
      <4>1. j \in 0 .. capacity - 1
        BY <1>1, <3>2
      <4> QED
        BY <1>1, <4>1
    <3> QED
      BY <1>1, <2>3, <3>1, <3>2
  <2>5. tail = SlotOf(h, c, len)
    BY <1>1, <1>3, <2>1, <2>2 DEF SlotOf
  <2>6. ASSUME NEW k \in 0 .. len - 1
        PROVE  d[SlotOf(h, c, k)] = data[SlotOf(head, capacity, k)]
    <3>1. CASE head + k < capacity
      <4>1. SlotOf(h, c, k) = h + k /\ SlotOf(head, capacity, k) = head + k
        BY <1>1, <1>3, <2>1, <2>2, <3>1 DEF SlotOf
      <4>2. h + k \in 0 .. c - 1 /\ h + k >= head + c - capacity /\ (h + k) - (c - capacity) = head + k
        BY <1>1, <1>3, <2>1, <2>2, <3>1
      <4>3. d[h + k] = data[(h + k) - (c - capacity)]
        BY <2>3, <4>2
      <4> QED
        BY <4>1, <4>2, <4>3
    <3>2. CASE head + k >= capacity
      <4> DEFINE j == head + k - capacity
      <4>1. SlotOf(h, c, k) = j /\ SlotOf(head, capacity, k) = j
        BY <1>1, <1>3, <2>1, <2>2, <3>2 DEF SlotOf
      <4>2. j \in 0 .. c - 1 /\ j < head /\ j < capacity /\ ~ (j >= head + c - capacity)
        BY <1>1, <1>3, <2>1, <2>2, <3>2
      <4>3. ~ (head <= j)
        BY <1>1, <4>2
      <4>4. d[j] = data[j]
        <5> HIDE DEF j
        <5> QED
          BY <2>3, <4>2, <4>3
      <4> QED
        BY <4>1, <4>4
    <3> QED
      BY <1>1, <3>1, <3>2
  <2> QED
    BY <1>1, <1>3, <2>2, <2>4, <2>5, <2>6, SMTT(30) DEF c, d, h
<1>5. CASE ~ wrapped
  <2>1. h = head /\ (capacity = 0 \/ head < tail)
    BY <1>1, <1>5 DEF wrapped
  <2>2. d = [j \in 0 .. c - 1 |-> IF j < capacity THEN data[j] ELSE v]
    BY <1>5 DEF Grown
  <2> HIDE DEF d, h
  <2>3. d \in [0 .. c - 1 -> Slots]
    <3>1. ASSUME NEW j \in 0 .. c - 1, j < capacity PROVE data[j] \in Slots
      <4>1. j \in 0 .. capacity - 1
        BY <1>1, <3>1
      <4> QED
        BY <1>1, <4>1
    <3> QED
      BY <2>2, <3>1
  <2>4. h \in Nat /\ h < c /\ tail = h + len /\ tail < c /\ tail = SlotOf(h, c, len)
    BY <1>1, <1>2, <1>3, <2>1 DEF SlotOf
  <2>5. ASSUME NEW k \in 0 .. len - 1
        PROVE  d[SlotOf(h, c, k)] = data[SlotOf(head, capacity, k)]
    <3>1. /\ SlotOf(h, c, k) = head + k /\ SlotOf(head, capacity, k) = head + k
          /\ head + k \in 0 .. c - 1 /\ head + k < capacity
      BY <1>1, <1>2, <1>3, <2>1, <2>4 DEF SlotOf
    <3> QED
      BY <2>2, <3>1
  <2> QED
    BY <1>1, <1>3, <2>3, <2>4, <2>5 DEF c, d, h
<1> QED
  BY <1>4, <1>5

LEMMA PushResizedStep ==
    ASSUME RingInv, NEW x \in Items, NEW v \in Junk, push_resized(x, v)
    PROVE  RingInv' /\ Content' = Append(Content, x) /\ out' = out
<1> DEFINE c == Wanted
           h == IF wrapped THEN Wanted - capacity + head ELSE head
           d == Grown(Wanted, v)
<1>1. /\ len + 1 >= capacity /\ capacity' = c /\ head' = h /\ data' = [d EXCEPT ![tail] = x]
      /\ tail' = (tail + 1) % c /\ len' = len + 1 /\ out' = out
  BY DEF push_resized
<1>2. refs' \in [Items -> Int]
  <2> DEFINE A == Assigned(Wanted)
  <2>1. refs \in [Items -> Int] /\ capacity \in Nat /\ len \in Nat
    BY DEF RingInv, TypeOK
  <2>2. Cardinality(A) \in Int
    <3>1. Wanted \in Int
      BY <2>1 DEF Wanted
    <3>2. IsFiniteSet(capacity .. Wanted - 1)
      BY <2>1, <3>1, FS_Interval
    <3>3. A \subseteq capacity .. Wanted - 1
      BY DEF Assigned
    <3>4. IsFiniteSet(A)
      BY <3>2, <3>3, FS_Subset
    <3> QED
      BY <3>4, FS_CardinalityType
  <2>3. refs' = [y \in Items |-> refs[y] + (IF y = x THEN 1 ELSE 0)
                                         - (IF Owning /\ y = v THEN Cardinality(A) ELSE 0)]
    BY DEF push_resized
  <2> HIDE DEF A
  <2> QED
    BY <2>1, <2>2, <2>3
<1>3. v \in Slots
  BY RingAssumption DEF Slots
<1>4. /\ c \in Nat /\ c >= 3 /\ h \in Nat /\ h < c /\ len + 1 < c
      /\ d \in [0 .. c - 1 -> Slots] /\ tail = SlotOf(h, c, len)
      /\ \A k \in 0 .. len - 1 : d[SlotOf(h, c, k)] = data[SlotOf(head, capacity, k)]
  BY <1>1, <1>3, GrownKeeps
<1> HIDE DEF c, h, d
<1> QED
  BY <1>1, <1>2, <1>4, Written

LEMMA PopStep ==
    ASSUME RingInv, pop
    PROVE  RingInv' /\ Content # <<>> /\ out' = Content[1] /\ Content' = Tail(Content)
<1>1. /\ len # 0 /\ out' = data[head] /\ data' = [data EXCEPT ![head] = None]
      /\ head' = (head + 1) % capacity /\ len' = len - 1
      /\ refs' = [refs EXCEPT ![data[head]] = @ - 1] /\ UNCHANGED <<tail, capacity>>
  BY DEF pop
<1>2. /\ capacity \in Nat /\ len \in Nat /\ head \in Nat /\ tail \in Nat
      /\ data \in [0 .. capacity - 1 -> Slots] /\ None \in Slots /\ refs \in [Items -> Int]
  BY DEF RingInv, TypeOK, Slots
<1>3. /\ capacity >= 3 /\ head < capacity /\ len < capacity
      /\ tail = SlotOf(head, capacity, len)
      /\ \A k \in 0 .. len - 1 : data[SlotOf(head, capacity, k)] \in Items
  BY <1>1, <1>2 DEF RingInv
<1>4. head' = SlotOf(head, capacity, 1) /\ head' \in 0 .. capacity - 1
  <2> DEFINE y == head + 1
  <2>1. y \in Nat /\ y < 2 * capacity /\ capacity \in Nat \ {0}
    BY <1>2, <1>3
  <2>2. (y < capacity => y % capacity = y) /\ (y >= capacity => y % capacity = y - capacity)
    <3> HIDE DEF y
    <3> QED
      BY <2>1, GoesRound
  <2> QED
    BY <1>1, <1>2, <1>3, <2>2 DEF SlotOf
<1>5. \A k \in 0 .. len - 1 : SlotOf(head', capacity, k) = SlotOf(head, capacity, k + 1)
  BY <1>2, <1>3, <1>4 DEF SlotOf
<1>6. ASSUME NEW k \in 0 .. len' - 1
      PROVE  /\ data'[SlotOf(head', capacity, k)] = data[SlotOf(head, capacity, k + 1)]
             /\ data[SlotOf(head, capacity, k + 1)] \in Items
  <2>1. k \in 0 .. len - 1 /\ k + 1 \in 0 .. len - 1 /\ k + 1 < capacity
    BY <1>1, <1>2, <1>3
  <2>2. SlotOf(head, capacity, k + 1) \in 0 .. capacity - 1 /\ SlotOf(head, capacity, k + 1) # head
    BY <1>2, <1>3, <2>1 DEF SlotOf
  <2>3. SlotOf(head', capacity, k) = SlotOf(head, capacity, k + 1)
    BY <1>5, <2>1
  <2>4. data'[SlotOf(head, capacity, k + 1)] = data[SlotOf(head, capacity, k + 1)]
    BY <1>1, <1>2, <2>2
  <2> QED
    BY <1>3, <2>1, <2>3, <2>4
<1>7. data[head] \in Items /\ Content[1] = data[head]
  <2>1. 0 \in 0 .. len - 1 /\ 1 \in 1 .. len /\ SlotOf(head, capacity, 0) = head
    BY <1>1, <1>2, <1>3 DEF SlotOf
  <2>2. Content[1] = data[SlotOf(head, capacity, 1 - 1)]
    BY <2>1 DEF Content
  <2> QED
    BY <1>3, <2>1, <2>2
<1>8. RingInv'
  <2>1. data' \in [0 .. capacity - 1 -> Slots] /\ refs' \in [Items -> Int] /\ len' \in Nat
        /\ out' \in Slots /\ head' \in Nat
    <3>1. data' \in [0 .. capacity - 1 -> Slots]
      BY <1>1, <1>2
    <3>2. refs' \in [Items -> Int]
      BY <1>1, <1>2, <1>7
    <3>3. out' \in Slots
      BY <1>1, <1>7 DEF Slots
    <3>4. len' \in Nat /\ head' \in Nat
      BY <1>1, <1>2, <1>4
    <3> QED
      BY <3>1, <3>2, <3>3, <3>4
  <2>2. TypeOK'
    BY <1>1, <1>2, <2>1 DEF TypeOK
  <2>3. tail' = SlotOf(head', capacity, len')
    BY <1>1, <1>2, <1>3, <1>4, SMTT(30) DEF SlotOf
  <2>4. \A k \in 0 .. len' - 1 : data'[SlotOf(head', capacity', k)] \in Items
    <3> SUFFICES ASSUME NEW k \in 0 .. len' - 1 PROVE data'[SlotOf(head', capacity, k)] \in Items
      BY <1>1
    <3> QED
      BY <1>6
  <2>5. capacity' # 0 /\ capacity' >= 3 /\ head' < capacity' /\ len' < capacity'
    BY <1>1, <1>2, <1>3, <1>4
  <2>6. SlotOf(head, capacity, len)' = SlotOf(head', capacity, len')
    BY <1>1 DEF SlotOf
  <2> QED
    BY <2>2, <2>3, <2>4, <2>5, <2>6 DEF RingInv, SlotOf
<1>9. Content # <<>> /\ Content' = Tail(Content)
  <2>1. Content \in [1 .. len' + 1 -> Items] /\ len' \in Nat
    <3>1. len' + 1 = len /\ len' \in Nat
      BY <1>1, <1>2
    <3> QED
      BY <3>1, ContentType
  <2>2. Content' \in [1 .. len' -> Items]
    BY <1>8, ContentPrimed
  <2>3. ASSUME NEW k \in 1 .. len' PROVE Content'[k] = Content[k + 1]
    <3>1. k - 1 \in 0 .. len' - 1 /\ (k - 1) + 1 = k /\ k + 1 \in 1 .. len /\ (k + 1) - 1 = k
      BY <1>1, <1>2
    <3>2. Content'[k] = data'[SlotOf(head', capacity, k - 1)]
      BY <1>1 DEF Content, SlotOf
    <3>3. data'[SlotOf(head', capacity, k - 1)] = data[SlotOf(head, capacity, (k - 1) + 1)]
      BY <1>6, <3>1
    <3>4. Content[k + 1] = data[SlotOf(head, capacity, (k + 1) - 1)]
      BY <3>1 DEF Content
    <3> QED
      BY <3>1, <3>2, <3>3, <3>4
  <2> QED
    BY <2>1, <2>2, <2>3, Dropped
<1> QED
  BY <1>1, <1>7, <1>8, <1>9

LEMMA PeekStep ==
    ASSUME RingInv, peek_head \/ peek_back
    PROVE  /\ RingInv' /\ Content' = Content /\ Content # <<>>
           /\ out' \in {Content[1], Content[Len(Content)]}
<1>1. len # 0 /\ UNCHANGED <<data, head, tail, capacity, len, refs>>
  BY DEF peek_head, peek_back
<1>2. /\ capacity \in Nat /\ len \in Nat \ {0} /\ head \in Nat /\ tail \in Nat
      /\ capacity >= 3 /\ head < capacity /\ len < capacity
      /\ tail = SlotOf(head, capacity, len)
  BY <1>1 DEF RingInv, TypeOK
<1>3. Content \in [1 .. len -> Items]
  BY ContentType
<1>4. Len(Content) = len /\ Content # <<>>
  <2>1. Content \in Seq(Items) /\ Len(Content) = len
    BY <1>2, <1>3
  <2> QED
    BY <1>2, <2>1
<1>5. Content[1] = data[head] /\ 1 \in 1 .. len /\ len \in 1 .. len
  <2>1. 1 \in 1 .. len /\ len \in 1 .. len /\ SlotOf(head, capacity, 1 - 1) = head
    BY <1>2 DEF SlotOf
  <2>2. Content[1] = data[SlotOf(head, capacity, 1 - 1)]
    BY <2>1 DEF Content
  <2> QED
    BY <2>1, <2>2
<1>6. Content[len] = data[(tail - 1 + capacity) % capacity]
  <2> DEFINE y == tail - 1 + capacity
  <2>1. y \in Nat /\ y < 2 * capacity /\ capacity \in Nat \ {0} /\ tail < capacity
    BY <1>2 DEF SlotOf
  <2>2. (y < capacity => y % capacity = y) /\ (y >= capacity => y % capacity = y - capacity)
    <3> HIDE DEF y
    <3> QED
      BY <2>1, GoesRound
  <2>3. y % capacity = SlotOf(head, capacity, len - 1)
    BY <1>2, <2>1, <2>2 DEF SlotOf
  <2>4. Content[len] = data[SlotOf(head, capacity, len - 1)]
    BY <1>5 DEF Content
  <2> QED
    BY <2>3, <2>4
<1>7. out' \in {Content[1], Content[len]} /\ out' \in Slots
  <2>1. out' = data[head] \/ out' = data[(tail - 1 + capacity) % capacity]
    BY DEF peek_head, peek_back
  <2> QED
    BY <1>3, <1>5, <1>6, <2>1 DEF Slots
<1>8. Content' = Content
  BY <1>1 DEF Content, SlotOf
<1>9. RingInv'
  BY <1>1, <1>7 DEF RingInv, TypeOK, SlotOf
<1> QED
  BY <1>4, <1>7, <1>8, <1>9

-----------------------------------------------------------------------------
LEMMA NextRing ==
    ASSUME RingInv, [Next]_vars
    PROVE  RingInv' /\ [Fifo!Next]_<<Content, out>>
<1>1. ASSUME NEW x \in Items, push(x) \/ \E v \in Junk : push_resized(x, v)
      PROVE RingInv' /\ Fifo!Next
  BY <1>1, PushStep, PushResizedStep DEF Fifo!Next, Fifo!Push
<1>2. CASE pop
  BY <1>2, PopStep DEF Fifo!Next, Fifo!Pop
<1>3. CASE peek_head \/ peek_back
  BY <1>3, PeekStep DEF Fifo!Next, Fifo!Peek
<1>4. CASE UNCHANGED vars
  <2>1. UNCHANGED <<data, head, tail, capacity, len, out, refs>>
    BY <1>4 DEF vars
  <2>2. RingInv'
    BY <2>1 DEF RingInv, TypeOK, SlotOf
  <2>3. Content' = Content /\ out' = out
    BY <2>1 DEF Content, SlotOf
  <2> QED
    BY <2>2, <2>3
<1> QED
  BY <1>1, <1>2, <1>3, <1>4 DEF Next

\* The invariant holds in every state.
THEOREM RingInvariance == Spec => []RingInv
<1>1. RingInv /\ [Next]_vars => RingInv'
  BY NextRing
<1> QED
  BY InitRing, <1>1, PTL DEF Spec

\* The array is a first-in, first-out queue without a limit (push, pop and
\* resize of ring.hpp:57-129).
THEOREM RingRefines == Spec => Refines
<1>1. Init => Content = <<>>
  BY DEF Init, Content
<1>2. RingInv /\ [Next]_vars => [Fifo!Next]_<<Content, out>>
  BY NextRing
<1> QED
  BY <1>1, <1>2, RingInvariance, PTL DEF Spec, Refines, Fifo!Spec
=============================================================================
