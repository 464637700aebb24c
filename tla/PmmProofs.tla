----------------------------- MODULE PmmProofs -----------------------------
(***************************************************************************)
(* Theorems about module Pmm, for every memory map whose free entries are  *)
(* in order and do not overlap, and every sequence of allocations,         *)
(* releases and owned ranges, failed allocations included.                 *)
(***************************************************************************)
EXTENDS Pmm, TLAPS

\* Sections have a place and a length.
LEMMA SectionTypes ==
    ASSUME NEW k \in SecIdx
    PROVE  k \in Nat /\ Start(k) \in Nat /\ Size(k) \in Nat
<1>1. k \in Nat /\ Map[k].start \in Nat /\ Map[k].len \in Nat
  <2>1. k \in DOMAIN Map
    BY DEF SecIdx
  <2> DEFINE E == [start : Nat, len : Nat, free : BOOLEAN]
  <2>2. Map \in Seq(E)
    BY MapAssumption
  <2>3. k \in Nat /\ Map[k] \in E
    <3> HIDE DEF E
    <3> QED
      BY <2>1, <2>2
  <2> QED
    BY <2>3
<1>2. \A a \in Nat : a \div Align \in Nat
  BY MapAssumption
<1>3. \A a \in Nat : (a \div Align) * Align \in Nat
  BY <1>2, MapAssumption
<1>4. Map[k].start + Align - 1 \in Nat
  BY <1>1, MapAssumption
<1> QED
  BY <1>1, <1>3, <1>4 DEF Start, Size, shrinkAlign, AlignUp, AlignDown

\* Sections are disjoint, though one may end behind its entry: the start that is
\* rounded up moves by less than the next start does.
LEMMA SectionsDisjoint ==
    ASSUME NEW j \in SecIdx, NEW k \in SecIdx, j < k
    PROVE  Start(j) + Size(j) <= Start(k)
<1> DEFINE E == [start : Nat, len : Nat, free : BOOLEAN]
           s == Map[j].start
           l == Map[j].len
           t == Map[k].start
           q == (s + Align - 1) \div Align
           r == l \div Align
           u == (t + Align - 1) \div Align
<1>1. Align \in Nat \ {0} /\ s \in Nat /\ l \in Nat /\ t \in Nat /\ s + l <= t
  <2>1. j \in DOMAIN Map /\ k \in DOMAIN Map /\ Map \in Seq(E)
    BY MapAssumption DEF SecIdx
  <2>2. Map[j] \in E /\ Map[k] \in E
    <3> HIDE DEF E
    <3> QED
      BY <2>1
  <2> QED
    BY <2>2, MapAssumption, SectionAssumption
<1>2. Start(j) = q * Align /\ Size(j) = r * Align /\ Start(k) = u * Align
  BY DEF Start, Size, shrinkAlign, AlignUp, AlignDown
<1> HIDE DEF s, l, t
<1>3. \A a \in Nat, b \in Nat \ {0} : a \div b \in Nat /\ (a \div b) * b <= a /\ a < (a \div b) * b + b
  OBVIOUS
<1>4. s + Align - 1 \in Nat /\ t + Align - 1 \in Nat
  BY <1>1
<1>5. /\ q \in Nat /\ r \in Nat /\ u \in Nat
      /\ q * Align <= s + Align - 1 /\ r * Align <= l
      /\ t + Align - 1 < u * Align + Align
  BY <1>1, <1>3, <1>4
<1> HIDE DEF q, r, u
<1>6. q + r <= u
  <2>1. SUFFICES ASSUME u + 1 <= q + r PROVE FALSE
    BY <1>5
  <2>2. \A x, y, b \in Nat : x <= y => x * b <= y * b
    OBVIOUS
  <2>3. (u + 1) * Align <= (q + r) * Align
    BY <2>1, <2>2, <1>1, <1>5
  <2>4. (u + 1) * Align = u * Align + Align /\ (q + r) * Align = q * Align + r * Align
    BY <1>1, <1>5
  <2>5. q * Align \in Nat /\ r * Align \in Nat /\ u * Align \in Nat
    BY <1>1, <1>5
  <2> QED
    BY <2>3, <2>4, <2>5, <1>1, <1>5
<1>7. (q + r) * Align <= u * Align
  <2>1. \A x, y, b \in Nat : x <= y => x * b <= y * b
    OBVIOUS
  <2> QED
    BY <2>1, <1>1, <1>5, <1>6
<1>8. (q + r) * Align = q * Align + r * Align
  BY <1>1, <1>5
<1> QED
  BY <1>2, <1>7, <1>8

\* An allocation has at least one page, and no more are returned than it has.
LEMMA SizeTypes ==
    ASSUME NEW size \in Sizes
    PROVE  /\ Ceil(size) \in Nat \ {0} /\ size \div PageSize \in Nat
           /\ size \div PageSize <= Ceil(size)
<1>1. size \in Nat \ {0} /\ PageSize \in Nat \ {0}
  BY MapAssumption
<1> HIDE DEF Ceil
<1>2. \A a \in Nat, b \in Nat \ {0} : a \div b \in Nat /\ (a \div b) * b <= a /\ a < (a \div b) * b + b
  OBVIOUS
<1> DEFINE q == size \div PageSize  c == (size + PageSize - 1) \div PageSize
<1>3. q \in Nat /\ c \in Nat /\ q * PageSize <= size /\ size + PageSize - 1 < c * PageSize + PageSize
  BY <1>1, <1>2
<1>4. q <= c
  <2> HIDE DEF q, c
  <2>1. SUFFICES ASSUME c + 1 <= q PROVE FALSE
    BY <1>3
  <2>2. \A x, y, b \in Nat : x <= y => x * b <= y * b
    OBVIOUS
  <2>3. (c + 1) * PageSize <= q * PageSize
    BY <2>1, <2>2, <1>1, <1>3
  <2>4. (c + 1) * PageSize = c * PageSize + PageSize
    BY <1>1, <1>3
  <2> QED
    BY <2>3, <2>4, <1>1, <1>3
<1>5. c # 0
  BY <1>1, <1>3
<1> QED
  BY <1>3, <1>4, <1>5 DEF Ceil

\* An address inside a section leads back to that section.
LEMMA Lookup ==
    ASSUME NEW k \in SecIdx, NEW o \in Nat, o < Size(k)
    PROVE  SectionAt(Start(k) + o) = k
<1>1. Contains(k, Start(k) + o)
  BY SectionTypes DEF Contains
<1>2. ASSUME NEW j \in SecIdx, Contains(j, Start(k) + o) PROVE j = k
  <2>1. j \in Nat /\ k \in Nat /\ Start(j) \in Nat /\ Start(k) \in Nat /\ Size(j) \in Nat /\ Size(k) \in Nat
    BY SectionTypes
  <2>2. ~ (j < k) /\ ~ (k < j)
    BY <1>2, <2>1, SectionsDisjoint DEF Contains
  <2> QED
    BY <2>1, <2>2
<1> QED
  BY <1>1, <1>2 DEF SectionAt

\* The structure is inside a section.
LEMMA LocationType ==
    Location \in SecIdx /\ StructPages \in Nat /\ StructPages <= Size(Location)
<1>1. Location \in SecIdx /\ FirstFit(Location)
  BY SectionAssumption DEF Location
<1> QED
  BY <1>1, SectionTypes, MapAssumption DEF FirstFit, Fits

\* A run that ends inside its section is made of bits.
LEMMA RunBits ==
    ASSUME NEW k \in SecIdx, NEW o \in Nat, NEW n \in Nat, o + n <= Size(k)
    PROVE  Run(k, o, n) \subseteq Bits
<1>1. ASSUME NEW j \in o .. o + n - 1 PROVE <<k, j>> \in Bits
  <2>1. j \in 0 .. Size(k) - 1
    BY <1>1, SectionTypes
  <2> QED
    BY <2>1 DEF Bits
<1> QED
  BY <1>1 DEF Run

LEMMA ReservedBits == Reserved \subseteq Bits
<1>1. Run(Location, 0, StructPages) \subseteq Bits
  BY LocationType, RunBits, SectionTypes
<1>2. \A k, o, n : Filled(k, o, n) \subseteq Bits
  BY DEF Filled
<1> QED
  BY <1>1, <1>2 DEF Reserved

-----------------------------------------------------------------------------
(* The inductive invariant *)

\* Where the memory manager's variables are.
Places ==
    /\ TypeOK
    /\ \A k \in SecIdx : cache[k] <= Size(k)
    /\ pc \in {"scan", "failed"} => req \in Sizes

\* A memory begins and ends in one section.
Placed(m) == \E k \in SecIdx, o \in Nat :
    m.addr = Start(k) + o /\ o + Ceil(m.size) <= Size(k)

\* Who holds what, but for the bits that are exposed.
Kept ==
    /\ \A m \in holders : /\ BitsLeft(m) \subseteq used \cup exposed
                          /\ BitsLeft(m) \cap Reserved \subseteq exposed
    /\ \A m, n \in holders : m # n => BitsLeft(m) \cap BitsLeft(n) \subseteq exposed

Held ==
    /\ \A m \in holders : m.got => Placed(m)
    /\ Kept
    /\ Accounted
    /\ Reserved \subseteq used \cup exposed

\* Section k has no n free pages in a row between lo and hi.
NoRun(k, n, lo, hi) ==
    \A o \in Nat : lo <= o /\ o + n <= hi => \E j \in o .. o + n - 1 : <<k, j>> \in used

\* What the search knows of the section it looks at, ...
Scanning ==
    /\ cache[sec] <= start /\ start <= i /\ i <= Size(sec)
    /\ found = i - start /\ found < Ceil(req)
    /\ \A j \in start .. i - 1 : <<sec, j>> \notin used
    /\ start = cache[sec] \/ <<sec, start - 1>> \in used
    /\ NoRun(sec, Ceil(req), cache[sec], i)

\* ... and of those it has left behind.
Searched ==
    /\ pc = "scan" => Scanning
    /\ pc = "scan" /\ ~ lower => \A k \in SecIdx : k > sec => ~ HasRun(k, Ceil(req))
    /\ FailsOnlyWhenFull

PmmInv == Places /\ Held /\ Searched

\* The pages of a memory that is in one section.
LEMMA PlacedBits ==
    ASSUME NEW m, m.got, m.size \in Sizes, NEW k \in SecIdx, NEW o \in Nat,
           m.addr = Start(k) + o, o + Ceil(m.size) <= Size(k)
    PROVE  /\ BitsOf(m) = Run(k, o, Ceil(m.size)) /\ BitsOf(m) \subseteq Bits
           /\ Returned(m) \subseteq BitsOf(m)
<1>1. Ceil(m.size) \in Nat \ {0} /\ m.size \div PageSize \in Nat /\ m.size \div PageSize <= Ceil(m.size)
  BY SizeTypes
<1>2. Start(k) \in Nat /\ Size(k) \in Nat
  BY SectionTypes
<1>3. SectionAt(m.addr) = k
  BY <1>1, <1>2, Lookup
<1>4. m.addr - Start(k) = o
  BY <1>2
<1>5. BitsOf(m) = Run(k, o, Ceil(m.size))
  BY <1>3, <1>4 DEF BitsOf
<1>6. Returned(m) = Run(k, o, m.size \div PageSize)
  BY <1>3, <1>4 DEF Returned
<1>7. o .. o + (m.size \div PageSize) - 1 \subseteq o .. o + Ceil(m.size) - 1
  BY <1>1
<1> QED
  BY <1>1, <1>5, <1>6, <1>7, RunBits DEF Run

\* A section that was searched from 0 to its end has no run.
LEMMA NoRunLeft ==
    ASSUME NEW k \in SecIdx, NEW n \in Nat \ {0}, NoRun(k, n, 0, Size(k))
    PROVE  ~ HasRun(k, n)
<1>1. SUFFICES ASSUME NEW o \in 0 .. Size(k) - n, \A j \in o .. o + n - 1 : <<k, j>> \notin used
               PROVE FALSE
  BY DEF HasRun
<1>2. o \in Nat /\ o + n <= Size(k)
  BY <1>1, SectionTypes
<1>3. 0 <= o
  BY <1>2
<1>4. \E j \in o .. o + n - 1 : <<k, j>> \in used
  BY <1>2, <1>3 DEF NoRun
<1> QED
  BY <1>1, <1>4

LEMMA InitInv == Init => PmmInv
<1> SUFFICES ASSUME Init PROVE PmmInv
  OBVIOUS
<1>1. Places
  <2>1. \A k \in SecIdx : cache[k] = 0 /\ cache[k] <= Size(k)
    BY SectionTypes DEF Init
  <2>2. lower \in BOOLEAN /\ sec \in SecIdx
    BY LocationType DEF Init
  <2>3. /\ cache \in [SecIdx -> Nat] /\ used \subseteq Bits /\ stray \subseteq Bits
        /\ exposed \subseteq Bits /\ holders = {}
    BY ReservedBits DEF Init
  <2> QED
    BY <2>1, <2>2, <2>3 DEF Init, Places, TypeOK
<1>2. Held
  <2>1. UNION {BitsLeft(m) : m \in holders} = {}
    BY DEF Init
  <2> QED
    BY <2>1 DEF Init, Held, Kept, Accounted
<1>3. Searched
  BY DEF Init, Searched, FailsOnlyWhenFull
<1> QED
  BY <1>1, <1>2, <1>3 DEF PmmInv

-----------------------------------------------------------------------------
(* The search *)

\* While nothing is marked, cleared or given away, Held stays.
LEMMA HeldUnchanged ==
    ASSUME Held, UNCHANGED <<used, holders, stray, exposed>>
    PROVE  Held'
BY DEF Held, Kept, Accounted, Placed, BitsLeft, BitsOf

\* A search that begins has looked at nothing yet.
LEMMA ScanBegins ==
    ASSUME NEW k \in SecIdx, alloc(k), cache' \in [SecIdx -> Nat], cache'[k] <= Size(k),
           req' \in Sizes
    PROVE  Scanning' /\ sec' \in SecIdx /\ pc' = "scan" /\ i' \in Nat /\ found' \in Nat /\ start' \in Nat
<1>1. /\ sec' = k /\ pc' = "scan" /\ i' = cache'[k] /\ start' = cache'[k] /\ found' = 0
      /\ cache'[k] \in Nat /\ Size(k) \in Nat /\ Ceil(req') \in Nat \ {0}
  BY SectionTypes, SizeTypes DEF alloc
<1>2. NoRun(sec, Ceil(req), cache[sec], i)'
  BY <1>1 DEF NoRun
<1>3. \A j \in start' .. i' - 1 : FALSE
  BY <1>1
<1>4. (Ceil(req))' = Ceil(req') /\ Size(sec)' = Size(k)
  BY <1>1 DEF Ceil
<1>5. Scanning'
  BY <1>1, <1>2, <1>3, <1>4 DEF Scanning
<1> QED
  BY <1>1, <1>5

\* The types of the variables of a search.
LEMMA ScanTypes ==
    ASSUME PmmInv, pc = "scan"
    PROVE  /\ Scanning /\ sec \in SecIdx /\ cache \in [SecIdx -> Nat] /\ req \in Sizes
           /\ cache[sec] \in Nat /\ Size(sec) \in Nat /\ Ceil(req) \in Nat \ {0}
           /\ i \in Nat /\ found \in Nat /\ start \in Nat /\ lower \in BOOLEAN
<1>1. /\ Scanning /\ sec \in SecIdx /\ cache \in [SecIdx -> Nat] /\ req \in Sizes
      /\ i \in Nat /\ found \in Nat /\ start \in Nat /\ lower \in BOOLEAN
  BY DEF PmmInv, Places, TypeOK, Searched
<1> QED
  BY <1>1, SectionTypes, SizeTypes

LEMMA AllocateInv ==
    ASSUME PmmInv, NEW size \in Sizes, NEW low \in BOOLEAN, allocate(size, low)
    PROVE  PmmInv'
<1>1. PICK k \in SecIdx : (IF low THEN Lowest(k) ELSE Highest(k)) /\ alloc(k)
  BY DEF allocate
<1>2. req' = size /\ lower' = low /\ UNCHANGED <<used, cache, holders, stray, exposed>>
  BY DEF allocate
<1>3. cache \in [SecIdx -> Nat] /\ \A j \in SecIdx : cache[j] <= Size(j)
  BY DEF PmmInv, Places, TypeOK
<1>4. /\ Scanning' /\ sec' \in SecIdx /\ pc' = "scan"
      /\ i' \in Nat /\ found' \in Nat /\ start' \in Nat
  BY <1>1, <1>2, <1>3, ScanBegins
<1>5. Held'
  BY <1>2, HeldUnchanged DEF PmmInv
<1>6. Places'
  <2>1. lower' \in BOOLEAN
    BY <1>2
  <2>2. TypeOK'
    BY <1>2, <1>4, <2>1 DEF PmmInv, Places, TypeOK
  <2> QED
    BY <1>2, <1>3, <1>4, <2>2 DEF PmmInv, Places
<1>7. Searched'
  <2>1. sec' = k
    BY <1>1 DEF alloc
  <2>2. ASSUME ~ lower' PROVE \A j \in SecIdx : ~ (j > sec')
    <3>1. Highest(k)
      BY <1>1, <1>2, <2>2
    <3> QED
      BY <3>1, <2>1, SectionTypes DEF Highest
  <2> QED
    BY <1>4, <2>2 DEF Searched, FailsOnlyWhenFull
<1> QED
  BY <1>5, <1>6, <1>7 DEF PmmInv

LEMMA ScanUsedInv ==
    ASSUME PmmInv, scan_used
    PROVE  PmmInv'
<1>1. /\ pc = "scan" /\ i < Size(sec) /\ <<sec, i>> \in used
      /\ found' = 0 /\ start' = i + 1 /\ i' = i + 1
      /\ UNCHANGED <<used, cache, holders, stray, exposed, pc, req, lower, sec>>
  BY DEF scan_used
<1>2. /\ Scanning /\ sec \in SecIdx /\ cache[sec] \in Nat /\ Size(sec) \in Nat
      /\ Ceil(req) \in Nat \ {0} /\ i \in Nat /\ found \in Nat /\ start \in Nat
  BY <1>1, ScanTypes
<1>3. Held'
  BY <1>1, HeldUnchanged DEF PmmInv
<1>4. Places'
  BY <1>1, <1>2 DEF PmmInv, Places, TypeOK
<1>5. NoRun(sec, Ceil(req), cache[sec], i)'
  <2> DEFINE n == Ceil(req)
  <2>1. SUFFICES ASSUME NEW o \in Nat, cache[sec] <= o, o + n <= i + 1
                 PROVE \E j \in o .. o + n - 1 : <<sec, j>> \in used
    BY <1>1 DEF NoRun, Ceil
  <2>2. CASE o + n <= i
    BY <2>1, <2>2, <1>2 DEF Scanning, NoRun
  <2>3. CASE o + n = i + 1
    <3>1. i \in o .. o + n - 1
      BY <2>3, <1>2
    <3> QED
      BY <3>1, <1>1
  <2> QED
    BY <2>1, <2>2, <2>3, <1>2
<1>6. Scanning'
  <2>1. i' - start' = 0 /\ start' - 1 = i /\ cache[sec] <= i + 1 /\ i + 1 <= Size(sec)
    BY <1>1, <1>2 DEF Scanning
  <2>2. \A j \in start' .. i' - 1 : FALSE
    BY <1>1, <1>2
  <2> QED
    BY <1>1, <1>2, <1>5, <2>1, <2>2 DEF Scanning, Ceil
<1>7. Searched'
  BY <1>1, <1>6 DEF PmmInv, Searched, FailsOnlyWhenFull, HasRun, Ceil
<1> QED
  BY <1>3, <1>4, <1>7 DEF PmmInv

LEMMA ScanFreeInv ==
    ASSUME PmmInv, scan_free
    PROVE  PmmInv'
<1>1. /\ pc = "scan" /\ i < Size(sec) /\ <<sec, i>> \notin used
      /\ found + 1 # Ceil(req) /\ found' = found + 1 /\ i' = i + 1
      /\ UNCHANGED <<used, cache, holders, stray, exposed, pc, req, lower, sec, start>>
  BY DEF scan_free
<1>2. /\ Scanning /\ sec \in SecIdx /\ cache[sec] \in Nat /\ Size(sec) \in Nat
      /\ Ceil(req) \in Nat \ {0} /\ i \in Nat /\ found \in Nat /\ start \in Nat
  BY <1>1, ScanTypes
<1>3. Held'
  BY <1>1, HeldUnchanged DEF PmmInv
<1>4. Places'
  BY <1>1, <1>2 DEF PmmInv, Places, TypeOK
<1> DEFINE n == Ceil(req)
<1>5. NoRun(sec, Ceil(req), cache[sec], i)'
  <2>1. SUFFICES ASSUME NEW o \in Nat, cache[sec] <= o, o + n <= i + 1
                 PROVE \E j \in o .. o + n - 1 : <<sec, j>> \in used
    BY <1>1 DEF NoRun, Ceil
  <2>2. CASE o + n <= i
    BY <2>1, <2>2, <1>2 DEF Scanning, NoRun
  <2>3. CASE o + n = i + 1
    <3>1. o < start
      BY <2>3, <1>1, <1>2 DEF Scanning
    <3>2. start - 1 \in o .. o + n - 1 /\ start # cache[sec]
      BY <2>1, <2>3, <3>1, <1>2 DEF Scanning
    <3>3. <<sec, start - 1>> \in used
      BY <3>2, <1>2 DEF Scanning
    <3> QED
      BY <3>2, <3>3
  <2> QED
    BY <2>1, <2>2, <2>3, <1>2
<1>6. Scanning'
  <2>1. \A j \in start .. (i + 1) - 1 : <<sec, j>> \notin used
    <3>1. SUFFICES ASSUME NEW j \in start .. (i + 1) - 1 PROVE <<sec, j>> \notin used
      OBVIOUS
    <3>2. CASE j = i
      BY <3>2, <1>1
    <3>3. CASE j # i
      <4>1. j \in start .. i - 1
        BY <3>3, <1>2
      <4> QED
        BY <4>1, <1>2 DEF Scanning
    <3> QED
      BY <3>2, <3>3
  <2>2. /\ found + 1 = (i + 1) - start /\ found + 1 < n /\ start <= i + 1
        /\ i + 1 <= Size(sec) /\ cache[sec] <= start
    BY <1>1, <1>2 DEF Scanning
  <2>3. start = cache[sec] \/ <<sec, start - 1>> \in used
    BY <1>2 DEF Scanning
  <2> QED
    BY <1>1, <1>5, <2>1, <2>2, <2>3 DEF Scanning, Ceil
<1>7. Searched'
  BY <1>1, <1>6 DEF PmmInv, Searched, FailsOnlyWhenFull, HasRun, Ceil
<1> QED
  BY <1>3, <1>4, <1>7 DEF PmmInv

\* The search that goes on in section k: what it knew of the sections above k
\* it still knows.
LEMMA ScanGoesOn ==
    ASSUME PmmInv, req \in Sizes, NEW k \in SecIdx, alloc(k),
           UNCHANGED <<used, holders, stray, exposed, req>>, lower' \in BOOLEAN,
           cache' \in [SecIdx -> Nat], \A j \in SecIdx : cache'[j] <= Size(j),
           ~ lower' => \A j \in SecIdx : j > k => ~ HasRun(j, Ceil(req))
    PROVE  PmmInv'
<1>1. /\ Scanning' /\ sec' \in SecIdx /\ pc' = "scan"
      /\ i' \in Nat /\ found' \in Nat /\ start' \in Nat
  BY ScanBegins
<1>2. Held'
  BY HeldUnchanged DEF PmmInv
<1>3. Places'
  <2>1. TypeOK'
    BY <1>1 DEF PmmInv, Places, TypeOK
  <2> QED
    BY <1>1, <2>1 DEF PmmInv, Places
<1>4. Searched'
  <2>1. sec' = k
    BY DEF alloc
  <2> QED
    BY <1>1, <2>1 DEF Searched, FailsOnlyWhenFull, HasRun, Ceil
<1> QED
  BY <1>2, <1>3, <1>4 DEF PmmInv

\* A section that is exhausted has no run.
LEMMA ExhaustedNoRun ==
    ASSUME PmmInv, exhausted
    PROVE  pc = "scan" /\ ~ HasRun(sec, Ceil(req))
<1>1. pc = "scan" /\ i >= Size(sec) /\ cache[sec] = 0
  BY DEF exhausted
<1>2. /\ Scanning /\ sec \in SecIdx /\ Size(sec) \in Nat /\ i \in Nat
      /\ Ceil(req) \in Nat \ {0}
  BY <1>1, ScanTypes
<1>3. i = Size(sec)
  BY <1>1, <1>2 DEF Scanning
<1>4. NoRun(sec, Ceil(req), 0, Size(sec))
  BY <1>1, <1>2, <1>3 DEF Scanning
<1> QED
  BY <1>1, <1>2, <1>4, NoRunLeft

LEMMA ScanRestartInv ==
    ASSUME PmmInv, scan_restart
    PROVE  PmmInv'
<1>1. pc = "scan" /\ alloc(sec) /\ cache' = [cache EXCEPT ![sec] = 0]
      /\ UNCHANGED <<used, holders, stray, exposed, req, lower>>
  BY DEF scan_restart
<1>2. sec \in SecIdx /\ cache \in [SecIdx -> Nat] /\ req \in Sizes /\ lower \in BOOLEAN
  BY <1>1, ScanTypes
<1>3. \A j \in SecIdx : cache[j] <= Size(j) /\ Size(j) \in Nat
  BY SectionTypes DEF PmmInv, Places
<1>4. cache' \in [SecIdx -> Nat] /\ \A j \in SecIdx : cache'[j] <= Size(j)
  BY <1>1, <1>2, <1>3
<1>5. ~ lower' => \A j \in SecIdx : j > sec => ~ HasRun(j, Ceil(req))
  BY <1>1 DEF PmmInv, Searched
<1> QED
  BY <1>1, <1>2, <1>4, <1>5, ScanGoesOn

LEMMA NextSectionUpInv ==
    ASSUME PmmInv, next_section_up
    PROVE  PmmInv'
<1>1. pc = "scan" /\ lower /\ UNCHANGED <<used, cache, holders, stray, exposed, req, lower>>
  BY DEF next_section_up, exhausted
<1>2. PICK k \in SecIdx : alloc(k)
  BY DEF next_section_up
<1>3. cache \in [SecIdx -> Nat] /\ req \in Sizes /\ lower \in BOOLEAN
  BY <1>1, ScanTypes
<1>4. \A j \in SecIdx : cache[j] <= Size(j)
  BY DEF PmmInv, Places
<1> QED
  BY <1>1, <1>2, <1>3, <1>4, ScanGoesOn

LEMMA SecondLoopInv ==
    ASSUME PmmInv, second_loop
    PROVE  PmmInv'
<1>1. /\ pc = "scan" /\ Highest(sec) /\ alloc(sec) /\ lower' = FALSE
      /\ UNCHANGED <<used, cache, holders, stray, exposed, req>>
  BY DEF second_loop, exhausted
<1>2. cache \in [SecIdx -> Nat] /\ req \in Sizes /\ sec \in SecIdx
  BY <1>1, ScanTypes
<1>3. \A j \in SecIdx : cache[j] <= Size(j)
  BY DEF PmmInv, Places
<1>4. \A j \in SecIdx : ~ (j > sec)
  BY <1>1, <1>2, SectionTypes DEF Highest
<1>5. lower' \in BOOLEAN
  BY <1>1
<1> QED
  BY <1>1, <1>2, <1>3, <1>4, <1>5, ScanGoesOn

LEMMA NextSectionDownInv ==
    ASSUME PmmInv, next_section_down
    PROVE  PmmInv'
<1>1. exhausted /\ ~ lower /\ UNCHANGED <<used, cache, holders, stray, exposed, req, lower>>
  BY DEF next_section_down
<1>2. PICK k \in SecIdx : k < sec /\ (\A j \in SecIdx : j < sec => k >= j) /\ alloc(k)
  BY DEF next_section_down
<1>3. pc = "scan" /\ ~ HasRun(sec, Ceil(req))
  BY <1>1, ExhaustedNoRun
<1>4. cache \in [SecIdx -> Nat] /\ req \in Sizes /\ lower \in BOOLEAN /\ sec \in SecIdx
  BY <1>3, ScanTypes
<1>5. \A j \in SecIdx : cache[j] <= Size(j)
  BY DEF PmmInv, Places
<1>6. \A j \in SecIdx : j > sec => ~ HasRun(j, Ceil(req))
  BY <1>1, <1>3 DEF PmmInv, Searched
<1>7. ASSUME NEW j \in SecIdx, j > k PROVE ~ HasRun(j, Ceil(req))
  <2>1. j \in Nat /\ k \in Nat /\ sec \in Nat
    BY <1>4, SectionTypes
  <2>2. j = sec \/ j > sec
    BY <1>2, <1>7, <2>1
  <2> QED
    BY <1>3, <1>6, <2>2
<1> QED
  BY <1>1, <1>2, <1>4, <1>5, <1>7, ScanGoesOn

LEMMA OutOfMemoryInv ==
    ASSUME PmmInv, out_of_memory
    PROVE  PmmInv'
<1>1. /\ exhausted /\ ~ lower /\ Lowest(sec) /\ pc' = "failed"
      /\ UNCHANGED <<used, cache, holders, stray, exposed, req, lower, sec, i, found, start>>
  BY DEF out_of_memory, search
<1>2. pc = "scan" /\ ~ HasRun(sec, Ceil(req))
  BY <1>1, ExhaustedNoRun
<1>3. sec \in SecIdx /\ req \in Sizes
  BY <1>2, ScanTypes
<1>4. Held'
  BY <1>1, HeldUnchanged DEF PmmInv
<1>5. Places'
  BY <1>1, <1>3 DEF PmmInv, Places, TypeOK
<1>6. ASSUME NEW k \in SecIdx PROVE ~ HasRun(k, Ceil(req))
  <2>1. k \in Nat /\ sec \in Nat
    BY <1>3, SectionTypes
  <2>2. k = sec \/ k > sec
    BY <1>1, <2>1 DEF Lowest
  <2> QED
    BY <1>1, <1>2, <2>2 DEF PmmInv, Searched
<1>7. Searched'
  BY <1>1, <1>6 DEF Searched, FailsOnlyWhenFull, HasRun, Ceil
<1> QED
  BY <1>4, <1>5, <1>7 DEF PmmInv

LEMMA AllocateFailsInv ==
    ASSUME PmmInv, allocate_fails
    PROVE  PmmInv'
<1>1. /\ pc' = "idle" /\ req' = 0 /\ lower' = FALSE /\ sec' = Location
      /\ i' = 0 /\ found' = 0 /\ start' = 0 /\ UNCHANGED <<used, cache, holders, stray, exposed>>
  BY DEF allocate_fails, returned
<1>2. Held'
  BY <1>1, HeldUnchanged DEF PmmInv
<1>3. lower' \in BOOLEAN /\ sec' \in SecIdx
  BY <1>1, LocationType
<1>4. Places'
  BY <1>1, <1>3 DEF PmmInv, Places, TypeOK
<1>5. Searched'
  BY <1>1 DEF Searched, FailsOnlyWhenFull
<1> QED
  BY <1>2, <1>4, <1>5 DEF PmmInv

-----------------------------------------------------------------------------
(* Marking and clearing *)

\* A memory that joins the holders with bits nobody had, or none.
LEMMA JoinsHeld ==
    ASSUME PmmInv, NEW m, holders' = holders \cup {m}, used' = used \cup BitsLeft(m),
           UNCHANGED <<stray, exposed>>, m.got => Placed(m),
           BitsLeft(m) \cap used = {}
    PROVE  Held'
<1>1. /\ \A n \in holders : /\ n.got => Placed(n)
                            /\ BitsLeft(n) \subseteq used \cup exposed
                            /\ BitsLeft(n) \cap Reserved \subseteq exposed
      /\ \A n, l \in holders : n # l => BitsLeft(n) \cap BitsLeft(l) \subseteq exposed
      /\ Reserved \subseteq used \cup exposed
  BY DEF PmmInv, Held, Kept
<1>2. \A n \in holders' : /\ BitsLeft(n) \subseteq used' \cup exposed
                          /\ BitsLeft(n) \cap Reserved \subseteq exposed
  BY <1>1
<1>3. \A n, l \in holders' : n # l => BitsLeft(n) \cap BitsLeft(l) \subseteq exposed
  BY <1>1
<1>4. Kept'
  BY <1>2, <1>3 DEF Kept, BitsLeft, BitsOf
<1>5. Accounted'
  <2>1. used \ exposed = (stray \cup UNION {BitsLeft(n) : n \in holders}) \ exposed
    BY DEF PmmInv, Held, Accounted
  <2>2. UNION {BitsLeft(n) : n \in holders'} = BitsLeft(m) \cup UNION {BitsLeft(n) : n \in holders}
    OBVIOUS
  <2>3. used' \ exposed' = (stray' \cup UNION {BitsLeft(n) : n \in holders'}) \ exposed'
    BY <2>1, <2>2
  <2> QED
    BY <2>3 DEF Accounted, BitsLeft, BitsOf
<1> QED
  BY <1>1, <1>4, <1>5 DEF Held, Placed

\* A memory that is found is made of free pages of one section.
LEMMA FoundFree ==
    ASSUME PmmInv, scan_found, NEW x \in Memories, NEW m,
           m = [asset |-> x, addr |-> Start(sec) + start, size |-> req, got |-> TRUE]
    PROVE  /\ pc = "scan" /\ used' = used \cup BitsLeft(m)
           /\ m.addr \in Nat /\ m.size \in Sizes /\ Placed(m)
           /\ BitsLeft(m) \subseteq Bits /\ BitsLeft(m) \cap used = {}
<1> DEFINE n == Ceil(req)
<1>1. /\ pc = "scan" /\ i < Size(sec) /\ <<sec, i>> \notin used /\ found + 1 = n
      /\ used' = used \cup Run(sec, start, n)
  BY DEF scan_found
<1>2. /\ Scanning /\ sec \in SecIdx /\ Size(sec) \in Nat /\ req \in Sizes
      /\ n \in Nat \ {0} /\ i \in Nat /\ found \in Nat /\ start \in Nat
  BY <1>1, ScanTypes
<1>3. Start(sec) \in Nat /\ m.addr = Start(sec) + start /\ m.size = req /\ m.got
  BY <1>2, SectionTypes
<1>4. start + n = i + 1 /\ start + n <= Size(sec)
  BY <1>1, <1>2 DEF Scanning
<1>5. BitsOf(m) = Run(sec, start, n) /\ BitsOf(m) \subseteq Bits
  BY <1>2, <1>3, <1>4, PlacedBits
<1>6. Placed(m)
  BY <1>2, <1>3, <1>4 DEF Placed
<1>7. ASSUME NEW j \in start .. start + n - 1 PROVE <<sec, j>> \notin used
  <2>1. CASE j = i
    BY <2>1, <1>1
  <2>2. CASE j # i
    <3>1. j \in start .. i - 1
      BY <2>2, <1>2, <1>4
    <3> QED
      BY <3>1, <1>2 DEF Scanning
  <2> QED
    BY <2>1, <2>2
<1>8. BitsOf(m) \cap used = {}
  BY <1>5, <1>7 DEF Run
<1>9. BitsLeft(m) = BitsOf(m)
  BY <1>3 DEF BitsLeft
<1>10. used' = used \cup BitsLeft(m) /\ BitsLeft(m) \subseteq Bits /\ BitsLeft(m) \cap used = {}
  BY <1>1, <1>5, <1>8, <1>9
<1>11. m.addr \in Nat /\ m.size \in Sizes
  BY <1>2, <1>3
<1> QED
  BY <1>1, <1>6, <1>10, <1>11

LEMMA ScanFoundInv ==
    ASSUME PmmInv, scan_found
    PROVE  PmmInv'
<1>1. PICK x \in Memories : holders' = holders \cup
          {[asset |-> x, addr |-> Start(sec) + start, size |-> req, got |-> TRUE]}
  BY DEF scan_found, Unheld
<1> DEFINE m == [asset |-> x, addr |-> Start(sec) + start, size |-> req, got |-> TRUE]
<1>2. /\ pc = "scan" /\ used' = used \cup BitsLeft(m)
      /\ m.addr \in Nat /\ m.size \in Sizes /\ Placed(m)
      /\ BitsLeft(m) \subseteq Bits /\ BitsLeft(m) \cap used = {}
  BY FoundFree
<1>3. /\ i < Size(sec) /\ cache' = [cache EXCEPT ![sec] = i] /\ stray' = stray
      /\ exposed' = exposed
      /\ pc' = "idle" /\ req' = 0 /\ lower' = FALSE /\ sec' = Location
      /\ i' = 0 /\ found' = 0 /\ start' = 0
  BY DEF scan_found, returned
<1>4. sec \in SecIdx /\ cache \in [SecIdx -> Nat] /\ i \in Nat /\ Size(sec) \in Nat
  BY <1>2, ScanTypes
<1>5. m \in [asset : Memories, addr : Nat, size : Sizes, got : BOOLEAN]
  BY <1>2
<1> HIDE DEF m
<1>6. Places'
  <2>1. cache' \in [SecIdx -> Nat] /\ \A k \in SecIdx : cache'[k] <= Size(k)
    BY <1>3, <1>4 DEF PmmInv, Places
  <2>2. lower' \in BOOLEAN /\ sec' \in SecIdx
    BY <1>3, LocationType
  <2>3. used' \subseteq Bits /\ stray' \subseteq Bits /\ exposed' \subseteq Bits
    BY <1>2, <1>3 DEF PmmInv, Places, TypeOK
  <2>4. holders' \subseteq [asset : Memories, addr : Nat, size : Sizes, got : BOOLEAN]
    <3>1. holders' = holders \cup {m}
      BY <1>1 DEF m
    <3> QED
      BY <3>1, <1>5 DEF PmmInv, Places, TypeOK
  <2> QED
    BY <1>3, <2>1, <2>2, <2>3, <2>4 DEF Places, TypeOK
<1>7. Held'
  <2>1. holders' = holders \cup {m}
    BY <1>1 DEF m
  <2> QED
    BY <2>1, <1>2, <1>3, JoinsHeld
<1>8. Searched'
  BY <1>3 DEF Searched, FailsOnlyWhenFull
<1> QED
  BY <1>6, <1>7, <1>8 DEF PmmInv

LEMMA CreateMemoryFailsInv ==
    ASSUME PmmInv, create_memory_fails
    PROVE  PmmInv'
<1>1. PICK x \in Memories : holders' = holders \cup
          {[asset |-> x, addr |-> 0, size |-> req, got |-> FALSE]}
  BY DEF create_memory_fails, Unheld
<1> DEFINE m == [asset |-> x, addr |-> 0, size |-> req, got |-> FALSE]
<1>2. /\ pc = "failed" /\ UNCHANGED <<used, cache, stray, exposed>>
      /\ pc' = "idle" /\ req' = 0 /\ lower' = FALSE /\ sec' = Location
      /\ i' = 0 /\ found' = 0 /\ start' = 0
  BY DEF create_memory_fails, returned
<1>3. req \in Sizes
  BY <1>2 DEF PmmInv, Places
<1>4. m \in [asset : Memories, addr : Nat, size : Sizes, got : BOOLEAN] /\ ~ m.got
  BY <1>3
<1>5. BitsLeft(m) = {}
  BY <1>4 DEF BitsLeft
<1> HIDE DEF m
<1>6. holders' = holders \cup {m}
  BY <1>1 DEF m
<1>7. Places'
  <2>1. lower' \in BOOLEAN /\ sec' \in SecIdx
    BY <1>2, LocationType
  <2>2. holders' \subseteq [asset : Memories, addr : Nat, size : Sizes, got : BOOLEAN]
    BY <1>4, <1>6 DEF PmmInv, Places, TypeOK
  <2> QED
    BY <1>2, <2>1, <2>2 DEF PmmInv, Places, TypeOK
<1>8. Held'
  <2>1. used' = used \cup BitsLeft(m) /\ BitsLeft(m) \cap used = {}
    BY <1>2, <1>5
  <2> QED
    BY <1>2, <1>4, <1>6, <2>1, JoinsHeld
<1>9. Searched'
  BY <1>2 DEF Searched, FailsOnlyWhenFull
<1> QED
  BY <1>7, <1>8, <1>9 DEF PmmInv

LEMMA ReleaseInv ==
    ASSUME PmmInv, NEW m \in holders, release(m)
    PROVE  PmmInv'
<1> DEFINE C == Cleared(Returned(m))
<1>1. /\ pc = "idle" /\ pc' \in {"idle", "unreachable"} /\ used' = used \ C
      /\ stray' = (stray \cup BitsLeft(m)) \ C /\ holders' = holders \ {m}
      /\ exposed' = exposed \cup IF m.got THEN {} ELSE C
      /\ UNCHANGED <<cache, req, lower, sec, i, found, start>>
  BY DEF release, search
<1>2. m.size \in Sizes /\ (m.got => Placed(m))
  BY DEF PmmInv, Held, Places, TypeOK
\* What is cleared was the memory's own, or is exposed from now on.
<1>3. C \subseteq BitsLeft(m) \cup exposed' /\ C \subseteq Bits /\ BitsLeft(m) \subseteq Bits
  <2>1. C \subseteq Returned(m)
    BY DEF Cleared
  <2>2. CASE m.got
    <3>1. BitsOf(m) \subseteq Bits /\ Returned(m) \subseteq BitsOf(m)
      BY <2>2, <1>2, PlacedBits DEF Placed
    <3> QED
      BY <2>1, <2>2, <3>1 DEF BitsLeft
  <2>3. CASE ~ m.got
    <3>1. Returned(m) \subseteq Bits
      BY <2>3 DEF Returned, Filled
    <3> QED
      BY <2>1, <2>3, <3>1, <1>1 DEF BitsLeft
  <2> QED
    BY <2>2, <2>3
<1>4. exposed \subseteq exposed' /\ exposed' \subseteq exposed \cup C
  BY <1>1
<1>5. /\ \A n \in holders : /\ n.got => Placed(n)
                            /\ BitsLeft(n) \subseteq used \cup exposed
                            /\ BitsLeft(n) \cap Reserved \subseteq exposed
      /\ \A n, l \in holders : n # l => BitsLeft(n) \cap BitsLeft(l) \subseteq exposed
      /\ Reserved \subseteq used \cup exposed
  BY DEF PmmInv, Held, Kept
<1> HIDE DEF C
<1>6. Places'
  <2>1. used' \subseteq Bits /\ stray' \subseteq Bits /\ exposed' \subseteq Bits
    BY <1>1, <1>3, <1>4 DEF PmmInv, Places, TypeOK
  <2>2. pc' \in {"idle", "scan", "failed", "unreachable"} /\ pc' \notin {"scan", "failed"}
    BY <1>1
  <2>3. TypeOK'
    BY <1>1, <2>1, <2>2 DEF PmmInv, Places, TypeOK
  <2> QED
    BY <1>1, <2>2, <2>3 DEF PmmInv, Places
<1>7. Held'
  <2>1. Kept'
    <3>1. \A n \in holders' : /\ BitsLeft(n) \subseteq used' \cup exposed'
                              /\ BitsLeft(n) \cap Reserved \subseteq exposed'
      BY <1>1, <1>3, <1>4, <1>5
    <3>2. \A n, l \in holders' : n # l => BitsLeft(n) \cap BitsLeft(l) \subseteq exposed'
      BY <1>1, <1>4, <1>5
    <3> QED
      BY <3>1, <3>2 DEF Kept, BitsLeft, BitsOf
  <2>2. Accounted'
    <3> DEFINE Rest == UNION {BitsLeft(n) : n \in holders \ {m}}
    <3>1. used \ exposed = (stray \cup UNION {BitsLeft(n) : n \in holders}) \ exposed
      BY DEF PmmInv, Held, Accounted
    <3>2. UNION {BitsLeft(n) : n \in holders} = BitsLeft(m) \cup Rest
      OBVIOUS
    <3>3. Rest \cap C \subseteq exposed'
      BY <1>3, <1>4, <1>5
    <3>4. used' \ exposed' = (stray' \cup Rest) \ exposed'
      <4> HIDE DEF Rest
      <4> QED
        BY <1>1, <1>3, <1>4, <3>1, <3>2, <3>3
    <3> QED
      BY <1>1, <3>4 DEF Accounted, BitsLeft, BitsOf
  <2>3. Reserved \subseteq used' \cup exposed'
    BY <1>1, <1>3, <1>4, <1>5
  <2> QED
    BY <1>1, <1>5, <2>1, <2>2, <2>3 DEF Held, Placed
<1>8. Searched'
  BY <1>1 DEF Searched, FailsOnlyWhenFull
<1> QED
  BY <1>6, <1>7, <1>8 DEF PmmInv

LEMMA OwnInv ==
    ASSUME PmmInv, NEW a, NEW size, own(a, size)
    PROVE  PmmInv'
<1>1. PICK marked : marked \subseteq Bits /\ used' = used \cup marked /\ stray' = stray \cup marked
  <2> DEFINE M == IF \E k \in SecIdx : Contains(k, a)
                  THEN Filled(SectionAt(a), a - Start(SectionAt(a)), size) ELSE {}
  <2>1. M \subseteq Bits
    BY DEF Filled
  <2>2. used' = used \cup M /\ stray' = stray \cup M
    BY DEF own
  <2> QED
    BY <2>1, <2>2
<1>2. pc = "idle" /\ UNCHANGED <<cache, holders, exposed, pc, req, lower, sec, i, found, start>>
  BY DEF own, search
<1>3. Places'
  BY <1>1, <1>2 DEF PmmInv, Places, TypeOK
<1>4. Held'
  <2>1. Kept'
    BY <1>1, <1>2 DEF PmmInv, Held, Kept, BitsLeft, BitsOf
  <2>2. Accounted'
    BY <1>1, <1>2 DEF PmmInv, Held, Accounted, BitsLeft, BitsOf
  <2> QED
    BY <1>1, <1>2, <2>1, <2>2 DEF PmmInv, Held, Placed
<1>5. Searched'
  BY <1>2 DEF Searched, FailsOnlyWhenFull
<1> QED
  BY <1>3, <1>4, <1>5 DEF PmmInv

-----------------------------------------------------------------------------
LEMMA NextInv == PmmInv /\ [Next]_vars => PmmInv'
<1> SUFFICES ASSUME PmmInv, [Next]_vars PROVE PmmInv'
  OBVIOUS
<1>1. CASE Allocate
  BY <1>1, AllocateInv, ScanUsedInv, ScanFreeInv, ScanFoundInv, ScanRestartInv,
     NextSectionUpInv, SecondLoopInv, NextSectionDownInv, OutOfMemoryInv,
     AllocateFailsInv, CreateMemoryFailsInv DEF Allocate
<1>2. CASE \E m \in holders : release(m)
  BY <1>2, ReleaseInv
<1>3. CASE \E a \in OwnedAt, size \in Sizes : own(a, size)
  BY <1>3, OwnInv
<1>4. CASE UNCHANGED vars
  <2>1. UNCHANGED <<used, cache, holders, stray, exposed, pc, req, lower, sec, i, found, start>>
    BY <1>4 DEF vars, search
  <2>2. Held'
    BY <2>1, HeldUnchanged DEF PmmInv
  <2>3. Places'
    BY <2>1 DEF PmmInv, Places, TypeOK
  <2>4. Searched'
    BY <2>1 DEF PmmInv, Searched, Scanning, NoRun, FailsOnlyWhenFull, HasRun, Ceil
  <2> QED
    BY <2>2, <2>3, <2>4 DEF PmmInv
<1> QED
  BY <1>1, <1>2, <1>3, <1>4 DEF Next

\* The invariant holds in every state.
THEOREM Invariance == Spec => []PmmInv
<1>1. Init => PmmInv
  BY InitInv
<1>2. PmmInv /\ [Next]_vars => PmmInv'
  BY NextInv
<1> QED
  BY <1>1, <1>2, PTL DEF Spec

\* A page of a memory is the page of one of its bits, and of no other bit.
LEMMA PageBit ==
    ASSUME NEW m, m.got, m.size \in Sizes, Placed(m), NEW p \in PagesOf(m)
    PROVE  \E b \in BitsOf(m) : /\ p = Start(b[1]) + b[2]
                               /\ \A c \in Bits : p = Start(c[1]) + c[2] => c = b
<1>1. PICK k \in SecIdx, o \in Nat : m.addr = Start(k) + o /\ o + Ceil(m.size) <= Size(k)
  BY DEF Placed
<1>2. Start(k) \in Nat /\ Size(k) \in Nat /\ Ceil(m.size) \in Nat
  BY SectionTypes, SizeTypes
<1>3. BitsOf(m) = Run(k, o, Ceil(m.size))
  BY <1>1, PlacedBits
<1> DEFINE j == p - Start(k)
<1>4. j \in Nat /\ j \in o .. o + Ceil(m.size) - 1 /\ j < Size(k) /\ p = Start(k) + j
  BY <1>1, <1>2 DEF PagesOf
<1> HIDE DEF j
<1>5. <<k, j>> \in BitsOf(m)
  BY <1>3, <1>4 DEF Run
<1>6. SectionAt(p) = k
  BY <1>4, Lookup
<1>7. ASSUME NEW c \in Bits, p = Start(c[1]) + c[2] PROVE c = <<k, j>>
  <2>1. PICK l \in SecIdx : \E u \in 0 .. Size(l) - 1 : c = <<l, u>>
    BY DEF Bits
  <2>2. PICK u \in 0 .. Size(l) - 1 : c = <<l, u>>
    BY <2>1
  <2>3. Start(l) \in Nat /\ Size(l) \in Nat /\ u \in Nat /\ u < Size(l) /\ p = Start(l) + u
    BY <1>7, <2>2, SectionTypes
  <2>4. SectionAt(p) = l
    BY <2>3, Lookup
  <2>5. l = k /\ u = j
    BY <1>2, <1>4, <1>6, <2>3, <2>4
  <2> QED
    BY <2>2, <2>5
<1>8. p = Start(<<k, j>>[1]) + <<k, j>>[2]
  BY <1>4
<1> QED
  BY <1>5, <1>7, <1>8

\* What the invariant says of bits holds of pages, as sections are disjoint.
LEMMA InvExclusive == PmmInv => Exclusive
<1> SUFFICES ASSUME PmmInv PROVE Exclusive
  OBVIOUS
<1> DEFINE Got == {m \in holders : m.got}
<1>1. ASSUME NEW m \in Got
      PROVE  /\ m \in holders /\ m.got /\ m.size \in Sizes /\ Placed(m)
             /\ BitsLeft(m) = BitsOf(m) /\ BitsOf(m) \subseteq Bits
             /\ BitsOf(m) \subseteq used \cup exposed /\ BitsOf(m) \cap Reserved \subseteq exposed
  <2>1. m \in holders /\ m.got /\ m.size \in Sizes /\ Placed(m) /\ BitsLeft(m) = BitsOf(m)
    BY <1>1 DEF PmmInv, Held, Places, TypeOK, BitsLeft
  <2>2. BitsOf(m) \subseteq Bits
    BY <2>1, PlacedBits DEF Placed
  <2> QED
    BY <2>1, <2>2 DEF PmmInv, Held, Kept
<1>2. ASSUME NEW m \in Got, NEW p \in PagesOf(m), p \in PagesAt(Reserved) PROVE p \in PagesAt(exposed)
  <2>1. PICK b \in BitsOf(m) : /\ p = Start(b[1]) + b[2]
                              /\ \A c \in Bits : p = Start(c[1]) + c[2] => c = b
    BY <1>1, PageBit
  <2>2. b \in Reserved
    BY <1>2, <2>1, ReservedBits DEF PagesAt
  <2> QED
    BY <1>1, <2>1, <2>2 DEF PagesAt
<1>3. ASSUME NEW m \in Got, NEW n \in Got, m # n, NEW p \in PagesOf(m), p \in PagesOf(n)
      PROVE  p \in PagesAt(exposed)
  <2>1. PICK b \in BitsOf(m) : /\ p = Start(b[1]) + b[2]
                              /\ \A c \in Bits : p = Start(c[1]) + c[2] => c = b
    BY <1>1, PageBit
  <2>2. PICK c \in BitsOf(n) : p = Start(c[1]) + c[2]
    BY <1>1, <1>3, PageBit
  <2>3. b \in BitsOf(n)
    BY <1>1, <2>1, <2>2
  <2>4. b \in exposed
    BY <1>1, <1>3, <2>1, <2>3 DEF PmmInv, Held, Kept
  <2> QED
    BY <2>1, <2>4 DEF PagesAt
<1> QED
  BY <1>1, <1>2, <1>3 DEF Exclusive

\* No page is handed out twice, and none of those create reserves, but for the
\* pages a failed create_memory has cleared (Pmm::allocate, pmm.cpp:138,
\* asset.cpp:80).
THEOREM PagesExclusive == Spec => []Exclusive
BY InvExclusive, Invariance, PTL

\* Every marked page has a reason, with the same exception (asset.cpp:80).
THEOREM PagesAccounted == Spec => []Accounted
<1>1. PmmInv => Accounted
  BY DEF PmmInv, Held
<1> QED
  BY <1>1, Invariance, PTL

\* Pmm::allocate fails only when no section has a run that long
\* (Bitmap::alloc, bitmap.hpp:127).
THEOREM AllocationComplete == Spec => []FailsOnlyWhenFull
<1>1. PmmInv => FailsOnlyWhenFull
  BY DEF PmmInv, Searched
<1> QED
  BY <1>1, Invariance, PTL

\* Where no section holds page 0 the exception is empty, and no release meets a
\* clear bit: the unreachable$ of pmm.cpp:214 is not reached.
THEOREM NothingExposed ==
    ASSUME \A k \in SecIdx : ~ Contains(k, 0)
    PROVE  Spec => [](exposed = {} /\ pc # "unreachable")
<1> DEFINE J == exposed = {} /\ pc # "unreachable"
<1>1. Init => J
  BY DEF Init
<1>2. ASSUME PmmInv, J, [Next]_vars PROVE J'
  <2>1. CASE \E m \in holders : release(m)
    <3>1. PICK m \in holders : release(m)
      BY <2>1
    <3>2. m.size \in Sizes /\ (m.got => Placed(m)) /\ BitsLeft(m) \subseteq used
      BY <1>2 DEF PmmInv, Held, Kept, Places, TypeOK
    <3>3. Returned(m) \subseteq used
      <4>1. CASE m.got
        <5>1. Returned(m) \subseteq BitsOf(m)
          BY <4>1, <3>2, PlacedBits DEF Placed
        <5> QED
          BY <4>1, <5>1, <3>2 DEF BitsLeft
      <4>2. CASE ~ m.got
        BY <4>2 DEF Returned
      <4> QED
        BY <4>1, <4>2
    <3>4. ~ MeetsClear(m) /\ ~ Overruns(m)
      BY <3>3 DEF MeetsClear, Overruns
    <3>5. ~ m.got => Cleared(Returned(m)) = {}
      BY DEF Cleared, Returned
    <3> QED
      BY <1>2, <3>1, <3>4, <3>5 DEF release
  <2>2. CASE Allocate
    BY <1>2, <2>2 DEF Allocate, allocate, alloc, scan_used, scan_free, scan_found, scan_restart,
       next_section_up, second_loop, next_section_down, out_of_memory, allocate_fails,
       create_memory_fails, returned
  <2>3. CASE \E a \in OwnedAt, size \in Sizes : own(a, size)
    BY <1>2, <2>3 DEF own
  <2>4. CASE UNCHANGED vars
    BY <1>2, <2>4 DEF vars
  <2> QED
    BY <1>2, <2>1, <2>2, <2>3, <2>4 DEF Next
<1> QED
  BY <1>1, <1>2, Invariance, PTL DEF Spec
=============================================================================
