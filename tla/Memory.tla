------------------------------- MODULE Memory -------------------------------
(***************************************************************************)
(* Physical pages and the kernel heap, memory.c: the boot's reading of the *)
(* firmware's (E820) memory map into two bitmaps of pages, first-fit       *)
(* allocation of contiguous pages, their release, and malloc, which only   *)
(* moves a pointer.                                                        *)
(*                                                                         *)
(* A bitmap is the set of the pages whose bit is set.  Addresses are       *)
(* numbers of bytes of a small memory.  The ledger's part of these         *)
(* functions (the events and the two objects memory_init registers) is in  *)
(* TruthShell.tla; here an operation reports the events of its calls.      *)
(***************************************************************************)
EXTENDS Naturals, FiniteSets, FiniteSetsExt, Sequences, SequencesExt

CONSTANTS
  PageSize, PageCount,  \* PAGE_SIZE, PAGE_COUNT: all of the memory the kernel maps
  FirstPage,            \* PAGE_ALLOCATOR_START / PAGE_SIZE
  HeapPages,            \* HEAP_PAGE_COUNT
  Align, MaxWord,       \* malloc's 16, and UINT64_MAX
  Reserved,             \* the <<start, end>> ranges of reserve_kernel_ranges
  Maps                  \* the firmware maps to boot with

Limit == PageCount * PageSize

\* An entry is "bad" if its size field cannot be right.
Entry == [base : 0..MaxWord, length : 0..MaxWord, type : {"ram", "other", "bad"}]

ASSUME MemoryAssumption ==
  /\ PageSize \in Nat \ {0} /\ PageCount \in Nat /\ FirstPage \in 1..PageCount
  /\ HeapPages \in 1..PageCount
  /\ Align \in Nat \ {0} /\ PageSize % Align = 0
  /\ MaxWord \in Nat /\ Limit <= MaxWord /\ (MaxWord + 1) % Align = 0
  /\ Reserved \subseteq (0..Limit) \X (0..Limit)
  /\ Maps \subseteq Seq(Entry)

Pages == 0..(PageCount - 1)

VARIABLES
  used,      \* page_bitmap
  usable,    \* usable_bitmap
  total,     \* usable_memory_bytes
  ready,     \* allocator_ready
  heap,      \* heap_base, heap_ptr and heap_limit
  map,       \* the firmware's map
  said,      \* the events of the last call: its operations and their results
  held,      \* history: the pages given to callers and not freed
  blocks     \* history: where each block of malloc is, and the size asked for

vars == <<used, usable, total, ready, heap, map, said, held, blocks>>

NoHeap == [base |-> 0, ptr |-> 0, limit |-> 0]

TypeOK ==
  /\ used \subseteq Pages /\ usable \subseteq Pages
  /\ total \in 0..Limit
  /\ ready \in BOOLEAN
  /\ heap \in [base : 0..Limit, ptr : 0..Limit, limit : 0..Limit]
  /\ map \in Maps
  /\ said \in Seq([op : {"parse_multiboot", "allocate_pages", "allocate", "free",
                         "malloc"},
                   result : {"ok", "denied", "fault"}])
  /\ held \subseteq Pages
  /\ blocks \subseteq [at : 0..Limit, asked : 0..MaxWord]

\* "allocate" is page_allocator's; the heap's event of that name is "malloc" here.
Say(op, result) == [op |-> op, result |-> result]

\* The statics before memory_init: .bss, and no event yet.
Init ==
  /\ used = {} /\ usable = {} /\ total = 0 /\ ready = FALSE
  /\ heap = NoHeap
  /\ map \in Maps
  /\ said = << >>
  /\ held = {} /\ blocks = {}

(***************************************************************************)
(* The firmware's map.                                                     *)
(***************************************************************************)
Down(address) == address \div PageSize
Up(address) == (address + PageSize - 1) \div PageSize
Least(a, b) == IF a < b THEN a ELSE b

Relevant(base, length) == base < Limit /\ length # 0

\* The end of a range, cut at the limit without adding a length that would wrap.
RangeEnd(base, length) == IF length > Limit - base THEN Limit ELSE base + length

\* Seeded fault: the length is added unchecked.
UsablePagesUncut(base, length) ==
  IF Relevant(base, length)
  THEN {page \in FirstPage..(Down(base + length) - 1) : page >= Up(base)}
  ELSE {}

\* mark_usable_range: the whole pages within the range.
UsablePages(base, length) ==
  IF Relevant(base, length)
  THEN {page \in Pages : /\ page >= FirstPage /\ page >= Up(base)
                         /\ page < Down(RangeEnd(base, length))}
  ELSE {}

\* Seeded fault: a page the range only touches is not reserved.
ReservedPagesInward(base, length) == UsablePages(base, length)

\* mark_reserved_range: the pages the range touches.
ReservedPages(base, length) ==
  IF Relevant(base, length)
  THEN {page \in Pages : /\ page >= FirstPage /\ page >= Down(base)
                         /\ page < Least(Up(RangeEnd(base, length)), PageCount)}
  ELSE {}

\* The pages that the entries of a type mark.
Marked(entries, type, PagesOf(_, _)) ==
  UNION {PagesOf(entries[i].base, entries[i].length) :
           i \in {j \in DOMAIN entries : entries[j].type = type}}

KernelPages ==
  UNION {ReservedPages(range[1], range[2] - range[1]) :
           range \in {r \in Reserved : r[1] < r[2]}}

\* A non-usable record wins over an overlapping usable one, and the kernel over both.
Conflicting == Marked(map, "other", ReservedPages) \cup KernelPages

(***************************************************************************)
(* Pages.                                                                  *)
(***************************************************************************)
\* range_is_free.
RangeIsFree(bitmap, page, n) == \A k \in 0..(n - 1) : page + k \notin bitmap

\* Seeded fault: the last place a run fits in is not tried.
PlacesShort(bitmap, n) ==
  {page \in FirstPage..PageCount : page + n < PageCount /\ RangeIsFree(bitmap, page, n)}

Places(bitmap, n) ==
  {page \in FirstPage..PageCount : page + n <= PageCount /\ RangeIsFree(bitmap, page, n)}

\* page_alloc_contiguous: the first page of a run of n, or 0.
FirstFit(bitmap, n) ==
  IF n = 0 \/ n > PageCount \/ Places(bitmap, n) = {} THEN 0 ELSE Min(Places(bitmap, n))

Run(page, n) == page..(page + n - 1)

(***************************************************************************)
(* memory_init.                                                            *)
(***************************************************************************)
Booting == said = << >>

\* No memory map, or one that is empty or beyond the limit.
RefuseMap ==
  /\ Booting
  /\ map = << >>
  /\ said' = << Say("parse_multiboot", "fault") >>
  /\ UNCHANGED <<used, usable, total, ready, heap, map, held, blocks>>

FirstBad == SelectInSeq(map, LAMBDA entry : entry.type = "bad")

\* The walk stops at a bad entry, having marked the usable ranges before it.
RefuseEntry ==
  /\ Booting
  /\ map # << >> /\ FirstBad # 0
  /\ LET before == Marked(SubSeq(map, 1, FirstBad - 1), "ram", UsablePages)
     IN  usable' = before /\ used' = Pages \ before
  /\ said' = << Say("parse_multiboot", "fault") >>
  /\ UNCHANGED <<total, ready, heap, map, held, blocks>>

MemoryInit ==
  /\ Booting
  /\ map # << >> /\ FirstBad = 0
  /\ usable' = Marked(map, "ram", UsablePages) \ Conflicting
  /\ total' = PageSize * Cardinality(usable' \ 0..(FirstPage - 1))
  /\ LET reserved == Pages \ usable'
         page == FirstFit(reserved, HeapPages)
     IN  IF page = 0
         THEN /\ used' = reserved /\ ready' = FALSE /\ heap' = NoHeap
              /\ said' = << Say("allocate", "denied"), Say("allocate_pages", "fault") >>
         ELSE /\ used' = reserved \cup Run(page, HeapPages)
              /\ ready' = TRUE
              /\ heap' = [base |-> page * PageSize, ptr |-> page * PageSize,
                          limit |-> (page + HeapPages) * PageSize]
              /\ said' = << Say("allocate", "ok"), Say("allocate_pages", "ok"),
                            Say("parse_multiboot", "ok") >>
  /\ UNCHANGED <<map, held, blocks>>

(***************************************************************************)
(* The calls that follow a successful boot; after a failed one the kernel  *)
(* has panicked.                                                           *)
(***************************************************************************)
\* page_alloc_contiguous, and page_alloc for n = 1.
PageAllocContiguous(n) ==
  /\ ready
  /\ LET page == FirstFit(used, n)
     IN  IF page = 0
         THEN said' = << Say("allocate", "denied") >> /\ UNCHANGED <<used, held>>
         ELSE /\ said' = << Say("allocate", "ok") >>
              /\ used' = used \cup Run(page, n)
              /\ held' = held \cup Run(page, n)
  /\ UNCHANGED <<usable, total, ready, heap, map, blocks>>

InHeap(address) == heap.base <= address /\ address < heap.limit

\* Seeded fault: the heap's pages may be freed.
ReleasableHeap(address) ==
  /\ address % PageSize = 0
  /\ FirstPage * PageSize <= address /\ address < Limit
  /\ Down(address) \in usable

Releasable(address) ==
  /\ address % PageSize = 0
  /\ FirstPage * PageSize <= address /\ address < Limit
  /\ ~InHeap(address)
  /\ Down(address) \in usable

\* page_free, which also takes a page that is free already.
PageFree(address) ==
  /\ ready
  /\ IF Releasable(address)
     THEN /\ used' = used \ {Down(address)} /\ held' = held \ {Down(address)}
          /\ said' = << Say("free", "ok") >>
     ELSE said' = << Say("free", "denied") >> /\ UNCHANGED <<used, held>>
  /\ UNCHANGED <<usable, total, ready, heap, map, blocks>>

\* A size rounded up to a multiple of Align, as a machine word.
Rounded(size) == (((size + Align - 1) \div Align) * Align) % (MaxWord + 1)

\* Seeded fault: no check that rounding up wraps.
FitsUnchecked(size) == size # 0 /\ Rounded(size) <= heap.limit - heap.ptr

Fits(size) ==
  /\ size # 0
  /\ size <= MaxWord - (Align - 1)
  /\ Rounded(size) <= heap.limit - heap.ptr

Malloc(size) ==
  /\ ready
  /\ IF Fits(size)
     THEN /\ heap' = [heap EXCEPT !.ptr = @ + Rounded(size)]
          /\ blocks' = blocks \cup {[at |-> heap.ptr, asked |-> size]}
          /\ said' = << Say("malloc", "ok") >>
     ELSE said' = << Say("malloc", "denied") >> /\ UNCHANGED <<heap, blocks>>
  /\ UNCHANGED <<used, usable, total, ready, map, held>>

\* The calls that boot; a kernel that has panicked stops.
Boot == RefuseMap \/ RefuseEntry \/ MemoryInit

Next == \/ Boot
        \/ \E n \in 0..(PageCount + 1) : PageAllocContiguous(n)
        \/ \E address \in 0..(Limit + PageSize) : PageFree(address)
        \/ \E size \in 0..MaxWord : Malloc(size)

Spec == Init /\ [][Next]_vars

(***************************************************************************)
(* Properties.                                                             *)
(***************************************************************************)
Bytes(page) == (page * PageSize)..((page + 1) * PageSize - 1)
Within(byte, base, length) == base <= byte /\ byte < base + length

\* After the boot a page is usable exactly if the allocator's part of the memory
\* has it, one RAM entry of the firmware's map holds all its bytes, and none is of
\* another entry or of the kernel's ranges, however the entries overlap
\* (memory.c:94-147, 186-217).
UsableIsRam ==
  ready =>
    usable = {page \in FirstPage..(PageCount - 1) :
                /\ \E i \in DOMAIN map :
                     /\ map[i].type = "ram"
                     /\ \A byte \in Bytes(page) : Within(byte, map[i].base, map[i].length)
                /\ \A byte \in Bytes(page) :
                     /\ \A i \in DOMAIN map :
                          map[i].type = "other" => ~Within(byte, map[i].base, map[i].length)
                     /\ \A range \in Reserved : ~(range[1] <= byte /\ byte < range[2])}

\* page_allocator_free_pages.
FreePages == usable \ used

\* Every usable page is free, a caller's, or the heap's, and no page is two of
\* these, whatever is freed and how often (memory.c:387-434).
PagesAccounted ==
  ready =>
    LET heapPages == {page \in Pages : InHeap(page * PageSize)}
    IN  /\ held \subseteq used /\ held \cap heapPages = {}
        /\ usable = FreePages \cup held \cup heapPages
        /\ total = PageSize * (Cardinality(FreePages) + Cardinality(held) + HeapPages)

\* Blocks lie in the heap, are aligned and as large as was asked, and none
\* overlaps another (memory.c:436-458).
BlocksAreApart ==
  \A b \in blocks :
    /\ heap.base <= b.at /\ b.at + b.asked <= heap.ptr /\ heap.ptr <= heap.limit
    /\ b.at % Align = 0
    /\ \A c \in blocks : b = c \/ b.at + b.asked <= c.at \/ c.at + c.asked <= b.at

\* Pages are granted out of the free ones, the lowest run first, and denied only
\* if no run is long enough (memory.c:158-168, 387-407).
LowestRunIsGranted ==
  [][ ready =>
        \A n \in 1..PageCount :
          PageAllocContiguous(n) =>
            LET granted == held' \ held
                runs == {page \in Pages : Run(page, n) \subseteq FreePages}
            IN  IF runs = {} THEN granted = {}
                ELSE granted = Run(Min(runs), n) ]_vars
=============================================================================
