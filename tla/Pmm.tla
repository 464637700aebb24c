-------------------------------- MODULE Pmm --------------------------------
(***************************************************************************)
(* The physical memory manager (src/src/kernel/generic/pmm.cpp, pmm.hpp)   *)
(* with its bitmaps (src/src/libcore/ds/bitmap.hpp), and the memory assets *)
(* that allocate, own and release pages (asset.cpp).                       *)
(*                                                                         *)
(* The unit of an address is a page.  A section is known by the index of   *)
(* the memory-map entry it was made from, and a page of it by the bit      *)
(* <<section, offset>>.  Every operation holds pmm_lock from its first to  *)
(* its last line, so operations follow one another; the search through a   *)
(* bitmap, the only loop with a result, is one step per bit.               *)
(***************************************************************************)
EXTENDS Integers, Sequences, FiniteSets, Functions

CONSTANTS Map,          \* _memory_map: [start, len, free], in pages
          Align,        \* page_size_byte: pages that share one byte of a bitmap
          StructPages,  \* pmm_size, in pages
          LowPages,     \* the pages kept for SMP start-up
          PageSize,     \* page_size_bit: bytes of a page
          Sizes,        \* bound: the sizes, in bytes, that are asked for
          Memories,     \* bound: the memories that exist at a time
          OwnedAt       \* bound: the pages memory is created at

AlignUp(n) == ((n + Align - 1) \div Align) * Align
AlignDown(n) == (n \div Align) * Align

\* Range::shrinkAlign: the start is rounded up, the length down.  Nothing is
\* taken off the length for the start, so the section of an entry that does not
\* begin at such a page may end behind the entry.
shrinkAlign(r) == [start |-> AlignUp(r.start), len |-> AlignDown(r.len)]

\* The sections _fill makes: one for every free entry that is long enough.
SecIdx == {k \in DOMAIN Map : Map[k].free /\ AlignDown(Map[k].len) # 0}
Start(k) == shrinkAlign(Map[k]).start
Size(k) == shrinkAlign(Map[k]).len
Contains(k, p) == Start(k) <= p /\ p < Start(k) + Size(k)
Bits == UNION {{<<k, o>> : o \in 0 .. Size(k) - 1} : k \in SecIdx}

\* _allocate_structure: the first free entry with room for the structure
Fits(k) == Size(k) >= StructPages
FirstFit(k) == Fits(k) /\ \A j \in SecIdx : Fits(j) => k <= j
Location == CHOOSE k \in SecIdx : FirstFit(k)

\* The section the loops of own and release find for an address; sections are
\* disjoint, so the first is the only one.
SectionAt(p) == CHOOSE k \in SecIdx : Contains(k, p)

ASSUME MapAssumption ==
    /\ Align \in Nat \ {0} /\ PageSize \in Nat \ {0}
    /\ StructPages \in Nat \ {0} /\ LowPages \in Nat
    /\ Map \in Seq([start : Nat, len : Nat, free : BOOLEAN])
    /\ Sizes \subseteq Nat \ {0} /\ OwnedAt \subseteq Nat
\* The boot loader sorts its map, and what is free in it does not overlap.
ASSUME SectionAssumption ==
    /\ \E k \in SecIdx : FirstFit(k)
    /\ \A j, k \in SecIdx : j < k => Map[j].start + Map[j].len <= Map[k].start

VARIABLES
    used,       \* the bits that are set
    cache,      \* Bitmap::_cache_latest_free of every section
    holders,    \* the memories with "allocated" set: [asset, addr, size, got]
    stray,      \* bits that were owned or lost, which no holder answers for
    exposed,    \* history: the bits that a memory which got none has cleared
    pc,         \* "idle", "scan", "failed" or "unreachable"
    req,        \* the size, in bytes, that allocate was called for
    lower,      \* allocate is in its first loop
    sec,        \* the section it looks at
    i, found, start   \* Bitmap::alloc's variables

search == <<req, lower, sec, i, found, start>>
vars == <<used, cache, holders, stray, exposed, pc, search>>

\* Pages::from_bytes_ceil
Ceil(size) == (size + PageSize - 1) \div PageSize

\* n bits of section k from offset o on
Run(k, o, n) == {<<k, j>> : j \in o .. o + n - 1}
BitsOf(m) == Run(SectionAt(m.addr), m.addr - Start(SectionAt(m.addr)), Ceil(m.size))

\* Bitmap::fill(true, range) of n bits from o on does not look where the bitmap
\* ends: the bitmaps lie one behind the other, and what is too much for
\* section k goes on in the sections after it.
Before(k, j) == {l \in SecIdx : k <= l /\ l < j}
Sum(S) == FoldFunctionOnSet(+, 0, [k \in SecIdx |-> Size(k)], S)
Filled(k, o, n) ==
    {b \in Bits : b[1] >= k /\ LET at == b[2] + Sum(Before(k, b[1])) IN o <= at /\ at < o + n}

\* What create leaves marked: the structure, and the first pages if a section
\* holds page 0.
Reserved ==
    Run(Location, 0, StructPages)
        \cup IF \E k \in SecIdx : Contains(k, 0)
             THEN Filled(SectionAt(0), 0, LowPages) ELSE {}

TypeOK ==
    /\ used \subseteq Bits /\ stray \subseteq Bits /\ exposed \subseteq Bits
    /\ cache \in [SecIdx -> Nat]
    /\ holders \subseteq [asset : Memories, addr : Nat, size : Sizes, got : BOOLEAN]
    /\ pc \in {"idle", "scan", "failed", "unreachable"}
    /\ req \in Sizes \cup {0} /\ lower \in BOOLEAN /\ sec \in SecIdx
    /\ i \in Nat /\ found \in Nat /\ start \in Nat

\* create
Init ==
    /\ used = Reserved /\ stray = Reserved /\ exposed = {}
    /\ cache = [k \in SecIdx |-> 0]
    /\ holders = {} /\ pc = "idle"
    /\ req = 0 /\ lower = FALSE /\ sec = Location
    /\ i = 0 /\ found = 0 /\ start = 0

-----------------------------------------------------------------------------
(* Pmm::allocate *)

\* allocate returns, and its variables are gone.
returned ==
    /\ pc' = "idle"
    /\ req' = 0 /\ lower' = FALSE /\ sec' = Location
    /\ i' = 0 /\ found' = 0 /\ start' = 0

Lowest(k) == \A j \in SecIdx : k <= j
Highest(k) == \A j \in SecIdx : k >= j

\* Bitmap::alloc of section k begins at its hint.
alloc(k) ==
    /\ sec' = k /\ pc' = "scan"
    /\ i' = cache'[k] /\ start' = cache'[k] /\ found' = 0

\* An asset that holds no memory yet.
Unheld == Memories \ {m.asset : m \in holders}

\* create_memory asks for a size in bytes; liballoc and the page tables for
\* whole pages.
allocate(size, low) ==
    /\ pc = "idle" /\ Unheld # {}
    /\ req' = size /\ lower' = low
    /\ UNCHANGED <<used, cache, holders, stray, exposed>>
    /\ \E k \in SecIdx : (IF low THEN Lowest(k) ELSE Highest(k)) /\ alloc(k)

\* The loop of Bitmap::alloc: a bit that is set, ...
scan_used ==
    /\ pc = "scan" /\ i < Size(sec) /\ <<sec, i>> \in used
    /\ found' = 0 /\ start' = i + 1 /\ i' = i + 1
    /\ UNCHANGED <<used, cache, holders, stray, exposed, pc, req, lower, sec>>

\* ... a free bit, and more are needed, ...
scan_free ==
    /\ pc = "scan" /\ i < Size(sec) /\ <<sec, i>> \notin used
    /\ found + 1 # Ceil(req)
    /\ found' = found + 1 /\ i' = i + 1
    /\ UNCHANGED <<used, cache, holders, stray, exposed, pc, req, lower, sec, start>>

\* Mutant of scan_found: one page too few is marked.
scan_found_short ==
    /\ pc = "scan" /\ i < Size(sec) /\ <<sec, i>> \notin used
    /\ found + 1 = Ceil(req)
    /\ cache' = [cache EXCEPT ![sec] = i]
    /\ used' = used \cup Run(sec, start, Ceil(req) - 1)
    /\ \E x \in Unheld : holders' = holders \cup
          {[asset |-> x, addr |-> Start(sec) + start, size |-> req, got |-> TRUE]}
    /\ returned
    /\ UNCHANGED <<stray, exposed>>

\* ... the last free bit: allocate marks the run and returns its address.
scan_found ==
    /\ pc = "scan" /\ i < Size(sec) /\ <<sec, i>> \notin used
    /\ found + 1 = Ceil(req)
    /\ cache' = [cache EXCEPT ![sec] = i]
    /\ used' = used \cup Run(sec, start, Ceil(req))
    /\ \E x \in Unheld : holders' = holders \cup
          {[asset |-> x, addr |-> Start(sec) + start, size |-> req, got |-> TRUE]}
    /\ returned
    /\ UNCHANGED <<stray, exposed>>

\* At the end the search starts again from the beginning, ...
scan_restart ==
    /\ pc = "scan" /\ i >= Size(sec) /\ cache[sec] # 0
    /\ cache' = [cache EXCEPT ![sec] = 0]
    /\ UNCHANGED <<used, holders, stray, exposed, req, lower>>
    /\ alloc(sec)

\* Mutant of exhausted: a search from the hint on is taken for a whole one.
exhausted_from_hint == pc = "scan" /\ i >= Size(sec)

\* ... unless that is where it began.
exhausted == pc = "scan" /\ i >= Size(sec) /\ cache[sec] = 0

\* The next section of the first loop, from the lowest up, ...
next_section_up ==
    /\ exhausted /\ lower /\ ~ Highest(sec)
    /\ UNCHANGED <<used, cache, holders, stray, exposed, req, lower>>
    /\ \E k \in SecIdx : k > sec /\ (\A j \in SecIdx : j > sec => k <= j) /\ alloc(k)

\* ... the second loop after it, from the highest down, ...
second_loop ==
    /\ exhausted /\ lower /\ Highest(sec)
    /\ lower' = FALSE
    /\ UNCHANGED <<used, cache, holders, stray, exposed, req>>
    /\ alloc(sec)

next_section_down ==
    /\ exhausted /\ ~ lower /\ ~ Lowest(sec)
    /\ UNCHANGED <<used, cache, holders, stray, exposed, req, lower>>
    /\ \E k \in SecIdx : k < sec /\ (\A j \in SecIdx : j < sec => k >= j) /\ alloc(k)

\* ... and "Could not allocate memory".
out_of_memory ==
    /\ exhausted /\ ~ lower /\ Lowest(sec)
    /\ pc' = "failed"
    /\ UNCHANGED <<used, cache, holders, stray, exposed, search>>

\* liballoc and the page tables return the error.
allocate_fails ==
    /\ pc = "failed" /\ req % PageSize = 0
    /\ returned
    /\ UNCHANGED <<used, cache, holders, stray, exposed>>

\* create_memory has made the asset before it asks for the pages, with
\* "allocated" set and the address 0; it removes the handle, and the last
\* reference, which may be another call's, releases what the asset says.
create_memory_fails ==
    /\ pc = "failed"
    /\ \E x \in Unheld : holders' = holders \cup
          {[asset |-> x, addr |-> 0, size |-> req, got |-> FALSE]}
    /\ returned
    /\ UNCHANGED <<used, cache, stray, exposed>>

-----------------------------------------------------------------------------
(* Pmm::release and Pmm::own *)

\* What is released of memory m: its whole pages, from page 0 on if it got
\* none and some section holds page 0.
Returned(m) ==
    IF m.got THEN Run(SectionAt(m.addr), m.addr - Start(SectionAt(m.addr)), m.size \div PageSize)
    ELSE IF \E k \in SecIdx : Contains(k, 0)
         THEN Filled(SectionAt(0), 0, m.size \div PageSize) ELSE {}

\* Bitmap::fill_expected_inverse clears bit after bit of R up to the first one
\* that is not set.
Upto(b) == {c \in Bits : c[1] < b[1] \/ (c[1] = b[1] /\ c[2] <= b[2])}
Cleared(R) == {b \in R : Upto(b) \cap R \subseteq used}

\* It met a clear bit, or may have: behind the last bitmap lies other memory.
MeetsClear(m) == ~ (Returned(m) \subseteq used)
Overruns(m) ==
    /\ ~ m.got /\ \E k \in SecIdx : Contains(k, 0)
    /\ Cardinality(Returned(m)) < m.size \div PageSize

\* The bits of m that nobody answers for when m is gone.
BitsLeft(m) == IF m.got THEN BitsOf(m) ELSE {}

\* Mutant of release: the loop ends one page early.
release_less(m) ==
    /\ pc = "idle" /\ m \in holders
    /\ ~ MeetsClear(m) /\ pc' = "idle"
    /\ used' = used \ {b \in Returned(m) : \E c \in Returned(m) : c # b /\ b \in Upto(c)}
    /\ stray' = (stray \cup BitsLeft(m)) \ Returned(m)
    /\ exposed' = exposed \cup IF m.got THEN {} ELSE Returned(m)
    /\ holders' = holders \ {m}
    /\ UNCHANGED <<cache, search>>

\* The asset is deleted.  The bits are cleared, all of which must be set, or
\* the machine halts; a page that was used in part is not returned.
release(m) ==
    /\ pc = "idle" /\ m \in holders
    /\ \/ ~ MeetsClear(m) /\ pc' = "idle"
       \/ (MeetsClear(m) \/ Overruns(m)) /\ pc' = "unreachable"
    /\ used' = used \ Cleared(Returned(m))
    /\ stray' = (stray \cup BitsLeft(m)) \ Cleared(Returned(m))
    /\ exposed' = exposed \cup IF m.got THEN {} ELSE Cleared(Returned(m))
    /\ holders' = holders \ {m}
    /\ UNCHANGED <<cache, search>>

\* create_memory with an address in free memory: own takes the size, in bytes,
\* for a number of pages, and nothing releases these.
own(a, size) ==
    /\ pc = "idle"
    /\ \E k \in DOMAIN Map :
          /\ Map[k].free /\ Map[k].start <= a
          /\ (Map[k].start + Map[k].len) * PageSize >= a * PageSize + size
    /\ LET marked == IF \E k \in SecIdx : Contains(k, a)
                     THEN Filled(SectionAt(a), a - Start(SectionAt(a)), size) ELSE {}
       IN used' = used \cup marked /\ stray' = stray \cup marked
    /\ UNCHANGED <<cache, holders, exposed, pc, search>>

-----------------------------------------------------------------------------
Allocate ==
    \/ \E size \in Sizes, low \in BOOLEAN : allocate(size, low)
    \/ scan_used \/ scan_free \/ scan_found \/ scan_restart
    \/ next_section_up \/ second_loop \/ next_section_down
    \/ out_of_memory \/ allocate_fails \/ create_memory_fails

Next ==
    \/ Allocate
    \/ \E m \in holders : release(m)
    \/ \E a \in OwnedAt, size \in Sizes : own(a, size)

Spec == Init /\ [][Next]_vars

-----------------------------------------------------------------------------
(* Properties *)

\* The pages of memory m, and those that a set of bits stands for.
PagesOf(m) == m.addr .. m.addr + Ceil(m.size) - 1
PagesAt(S) == {Start(b[1]) + b[2] : b \in S}

\* No page is handed out twice, nor one that create reserves, and release takes
\* no page from another memory: the pages of every memory are marked, those of
\* two memories are disjoint, though the section of an unaligned entry ends
\* behind it, and none is reserved.  What a failed create_memory has cleared
\* (asset.cpp:80 with the address 0) is the only exception.
Exclusive ==
    LET Got == {m \in holders : m.got} IN
    /\ \A m \in Got : BitsOf(m) \subseteq used \cup exposed
    /\ \A m \in Got : PagesOf(m) \cap PagesAt(Reserved) \subseteq PagesAt(exposed)
    /\ \A m, n \in Got : m # n => PagesOf(m) \cap PagesOf(n) \subseteq PagesAt(exposed)

\* Section k has n free pages in a row.
HasRun(k, n) == \E o \in 0 .. Size(k) - n : \A j \in o .. o + n - 1 : <<k, j>> \notin used

\* allocate fails only when no section has that many free pages in a row: the
\* hint and the second search from the beginning hide nothing.
FailsOnlyWhenFull == pc = "failed" => \A k \in SecIdx : ~ HasRun(k, Ceil(req))

\* Every marked page has a reason: a memory holds it, or it was reserved or
\* owned, or was the last page, used in part, of a memory that was released
\* (which asset.cpp:80 rounds down).  The exception is what a failed
\* create_memory has cleared.
Accounted ==
    used \ exposed = (stray \cup UNION {BitsLeft(m) : m \in holders}) \ exposed
=============================================================================
