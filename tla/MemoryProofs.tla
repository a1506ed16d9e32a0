---------------------------- MODULE MemoryProofs ----------------------------
(***************************************************************************)
(* Proofs about Memory.tla, for every size of page and memory, every       *)
(* firmware map and every range the kernel reserves.                       *)
(*                                                                         *)
(* MemoryInvariant says where each page is (Accounts) and that the heap's  *)
(* pointer is a multiple of Align between its ends (Heaped).  The marking  *)
(* of pages is shown once, against the bytes of a range.                   *)
(***************************************************************************)
EXTENDS Memory, FiniteSetTheorems, WellFoundedInduction, TLAPS

(***************************************************************************)
(* Arithmetic.                                                             *)
(***************************************************************************)
\* Multiples of a number keep the order of their factors.
LEMMA MultiplesInOrder ==
  ASSUME NEW unit \in Nat \ {0}, NEW m \in Nat, NEW n \in Nat
  PROVE  /\ m * unit \in Nat
         /\ m <= n <=> m * unit <= n * unit
         /\ m < n <=> m * unit < n * unit
         /\ (m + n) * unit = m * unit + n * unit
         /\ (m + 1) * unit = m * unit + unit
BY Z3

\* A number between two multiples.
LEMMA Division ==
  ASSUME NEW unit \in Nat \ {0}, NEW a \in Nat
  PROVE  /\ a \div unit \in Nat /\ a % unit \in 0..(unit - 1)
         /\ a = (a \div unit) * unit + (a % unit)
BY Z3

\* The quotient is the greatest multiple below, rounded up the least above.
LEMMA Quotient ==
  ASSUME NEW unit \in Nat \ {0}, NEW a \in Nat, NEW n \in Nat
  PROVE  n <= a \div unit <=> n * unit <= a
<1> DEFINE q == a \div unit
<1>1. q \in Nat /\ q * unit <= a /\ a < q * unit + unit
  BY Division, Z3
<1> HIDE DEF q
<1>2. n <= q => n * unit <= q * unit
  BY <1>1, MultiplesInOrder
<1>3. q + 1 <= n => (q + 1) * unit <= n * unit
  BY <1>1, MultiplesInOrder
<1>4. (q + 1) * unit = q * unit + unit
  BY <1>1, MultiplesInOrder
<1>5. q * unit \in Nat /\ n * unit \in Nat /\ (q + 1) * unit \in Nat
  BY <1>1, MultiplesInOrder
<1>6. n <= q <=> n * unit <= a
  BY <1>1, <1>2, <1>3, <1>4, <1>5
<1> QED
  BY <1>6 DEF q

\* The quotient rounded up, as Up computes it, is the least multiple above.
LEMMA QuotientUp ==
  ASSUME NEW unit \in Nat \ {0}, NEW a \in Nat, NEW n \in Nat
  PROVE  n >= (a + unit - 1) \div unit <=> n * unit >= a
<1> DEFINE b == a + unit - 1
           q == b \div unit
<1>1. b \in Nat /\ q \in Nat
  BY Division
<1>2. n + 1 <= q <=> (n + 1) * unit <= b
  BY <1>1, Quotient
<1>3. (n + 1) * unit = n * unit + unit /\ n * unit \in Nat
  BY MultiplesInOrder
<1> HIDE DEF q
<1>4. n >= q <=> n * unit >= a
  BY <1>1, <1>2, <1>3
<1> QED
  BY <1>4 DEF q

\* A multiple has no remainder, and its factor is the quotient.
LEMMA MultipleRemainder ==
  ASSUME NEW unit \in Nat \ {0}, NEW n \in Nat
  PROVE  (n * unit) % unit = 0 /\ (n * unit) \div unit = n
<1>1. n * unit \in Nat
  BY MultiplesInOrder
<1> QED
  BY <1>1, Z3

\* The sum of two multiples is one.
LEMMA RemainderOfSum ==
  ASSUME NEW unit \in Nat \ {0}, NEW a \in Nat, NEW b \in Nat, a % unit = 0, b % unit = 0
  PROVE  (a + b) % unit = 0
<1>1. a = (a \div unit) * unit /\ b = (b \div unit) * unit
  BY Division, Z3
<1>2. a \div unit \in Nat /\ b \div unit \in Nat
  BY Division
<1> DEFINE n == (a \div unit) + (b \div unit)
<1>3. n \in Nat /\ n * unit = a + b
  BY <1>1, <1>2, MultiplesInOrder
<1> HIDE DEF n
<1>4. (n * unit) % unit = 0
  BY <1>3, MultipleRemainder
<1> QED
  BY <1>3, <1>4

\* A multiple of a multiple is one.
LEMMA RemainderOfMultiple ==
  ASSUME NEW unit \in Nat \ {0}, NEW a \in Nat, NEW n \in Nat, a % unit = 0
  PROVE  (n * a) % unit = 0
<1>1. a = (a \div unit) * unit /\ a \div unit \in Nat
  BY Division, Z3
<1> DEFINE k == n * (a \div unit)
<1>2. k \in Nat /\ k * unit = n * a
  BY <1>1, Z3
<1> HIDE DEF k
<1>3. (k * unit) % unit = 0
  BY <1>2, MultipleRemainder
<1> QED
  BY <1>2, <1>3

\* A set of naturals has its minimum in it.
LEMMA LeastIsMember ==
  ASSUME NEW S \in SUBSET Nat, S # {}
  PROVE  Min(S) \in S /\ \A n \in S : Min(S) <= n
<1>1. PICK n \in S : \A m \in S : ~(<<m, n>> \in OpToRel(<, Nat))
  BY NatLessThanWellFounded, WFMin, Zenon
<1>2. \A m, k \in Nat : m < k => <<m, k>> \in OpToRel(<, Nat)
  <2>1. SUFFICES ASSUME NEW m \in Nat, NEW k \in Nat, m < k
                 PROVE  <<m, k>> \in {ss \in Nat \X Nat : ss[1] < ss[2]}
    BY Zenon DEF OpToRel
  <2> QED
    BY <2>1, SMT
<1>3. \A m \in S : n =< m
  <2>1. \A m \in S : ~(m < n)
    BY <1>1, <1>2, Zenon
  <2> QED
    BY <2>1, SMT
<1> QED
  BY <1>3, Zenon DEF Min

(***************************************************************************)
(* Pages.                                                                  *)
(***************************************************************************)
\* The constants are numbers, and so is the memory's size.
LEMMA ConstantTypes ==
  /\ PageSize \in Nat \ {0} /\ PageCount \in Nat /\ FirstPage \in 1..PageCount
  /\ HeapPages \in 1..PageCount /\ Align \in Nat \ {0} /\ PageSize % Align = 0
  /\ MaxWord \in Nat /\ Limit = PageCount * PageSize /\ Limit \in Nat /\ Limit <= MaxWord
<1>1. PageCount * PageSize \in Nat
  BY MemoryAssumption, MultiplesInOrder
<1> QED
  BY <1>1, MemoryAssumption DEF Limit

\* The pages the allocator may ever give.
Managed == FirstPage..(PageCount - 1)

\* A granted run was free, and is among the managed pages.
LEMMA RunWasFree ==
  ASSUME NEW bitmap, NEW n \in Nat, FirstFit(bitmap, n) # 0
  PROVE  LET page == FirstFit(bitmap, n)
         IN  /\ n \in 1..PageCount /\ page \in FirstPage..PageCount /\ page + n <= PageCount
             /\ Run(page, n) \subseteq Managed /\ Run(page, n) \cap bitmap = {}
             /\ \A other \in Places(bitmap, n) : page <= other
<1> DEFINE page == FirstFit(bitmap, n)
<1>1. n \in 1..PageCount /\ Places(bitmap, n) # {} /\ page = Min(Places(bitmap, n))
  BY ConstantTypes DEF FirstFit
<1>2. Places(bitmap, n) \in SUBSET Nat
  BY ConstantTypes DEF Places
<1>3. page \in Places(bitmap, n) /\ \A other \in Places(bitmap, n) : page <= other
  BY <1>1, <1>2, LeastIsMember, Zenon
<1> HIDE DEF page
<1>4. page \in FirstPage..PageCount /\ page + n <= PageCount /\ RangeIsFree(bitmap, page, n)
  BY <1>3 DEF Places
<1>5. Run(page, n) \subseteq Managed
  BY <1>1, <1>4, ConstantTypes DEF Run, Managed
<1>6. ASSUME NEW other \in Run(page, n)
      PROVE  other \notin bitmap
  <2>1. other - page \in 0..(n - 1) /\ page + (other - page) = other
    BY <1>1, <1>4, <1>6, ConstantTypes DEF Run
  <2> QED
    BY <1>4, <2>1 DEF RangeIsFree
<1>7. Run(page, n) \cap bitmap = {}
  BY <1>6
<1> QED
  BY <1>1, <1>3, <1>4, <1>5, <1>7, Zenon DEF page

\* What the firmware's map can mark usable.
LEMMA MarkedIsManaged ==
  ASSUME NEW entries
  PROVE  Marked(entries, "ram", UsablePages) \subseteq Managed
<1>1. \A base, length : UsablePages(base, length) \subseteq Managed
  BY ConstantTypes DEF UsablePages, Managed, Pages
<1> QED
  BY <1>1 DEF Marked

\* Sets of managed pages are finite, and have none of the first pages.
LEMMA ManagedIsFinite ==
  ASSUME NEW S, S \subseteq Managed
  PROVE  /\ IsFiniteSet(S) /\ Cardinality(S) \in 0..PageCount
         /\ S \subseteq Pages /\ S \ 0..(FirstPage - 1) = S
<1>1. S \subseteq Pages /\ S \ 0..(FirstPage - 1) = S
  BY ConstantTypes DEF Managed, Pages
<1>2. IsFiniteSet(Pages) /\ Cardinality(Pages) = PageCount
  BY ConstantTypes, FS_Interval DEF Pages
<1>3. IsFiniteSet(S) /\ Cardinality(S) <= PageCount
  BY <1>1, <1>2, FS_Subset
<1>4. Cardinality(S) \in Nat
  BY <1>3, FS_CardinalityType
<1> QED
  BY <1>1, <1>3, <1>4, ConstantTypes

(***************************************************************************)
(* The invariant.                                                          *)
(***************************************************************************)
HeapSet == {page \in Pages : InHeap(page * PageSize)}

\* Where every page is.
Accounts ==
  /\ usable \subseteq Managed
  /\ ~ready => held = {} /\ blocks = {}
  /\ ready =>
       /\ said # << >>
       /\ Pages \ usable \subseteq used
       /\ held \subseteq used /\ held \cap HeapSet = {} /\ HeapSet \subseteq used
       /\ usable = (usable \ used) \cup held \cup HeapSet
       /\ total = PageSize * Cardinality(usable)
       /\ Cardinality(HeapSet) = HeapPages

\* Where the heap's pointer is.
Heaped == heap.base <= heap.ptr /\ heap.ptr <= heap.limit /\ heap.ptr % Align = 0

MemoryInvariant == TypeOK /\ Accounts /\ Heaped /\ BlocksAreApart

\* The heap of the boot: the pages of the run, and a base that malloc can align on.
LEMMA HeapOfBoot ==
  ASSUME NEW page \in FirstPage..PageCount, page + HeapPages <= PageCount
  PROVE  /\ page * PageSize \in 0..Limit /\ (page + HeapPages) * PageSize \in 0..Limit
         /\ page * PageSize <= (page + HeapPages) * PageSize
         /\ (page * PageSize) % Align = 0
         /\ {p \in Pages : /\ page * PageSize <= p * PageSize
                           /\ p * PageSize < (page + HeapPages) * PageSize}
              = Run(page, HeapPages)
         /\ Cardinality(Run(page, HeapPages)) = HeapPages
<1> DEFINE base == page * PageSize
           limit == (page + HeapPages) * PageSize
<1>1. page \in Nat /\ page + HeapPages \in Nat /\ page <= page + HeapPages /\ page <= PageCount
  BY ConstantTypes
<1>2. base \in Nat /\ limit \in Nat /\ base <= limit /\ limit <= Limit
  BY <1>1, ConstantTypes, MultiplesInOrder
<1>3. base % Align = 0
  BY <1>1, ConstantTypes, RemainderOfMultiple
<1>4. {p \in Pages : base <= p * PageSize /\ p * PageSize < limit} = Run(page, HeapPages)
  <2>1. \A p \in Nat : /\ base <= p * PageSize <=> page <= p
                       /\ p * PageSize < limit <=> p < page + HeapPages
    BY <1>1, ConstantTypes, MultiplesInOrder
  <2> HIDE DEF base, limit
  <2> QED
    BY <1>1, <2>1, ConstantTypes DEF Pages, Run
<1>5. Cardinality(Run(page, HeapPages)) = HeapPages
  BY <1>1, ConstantTypes, FS_Interval DEF Run
<1> HIDE DEF base, limit
<1>6. base \in 0..Limit /\ limit \in 0..Limit
  BY <1>2, ConstantTypes
<1> QED
  BY <1>2, <1>3, <1>4, <1>5, <1>6, Zenon DEF base, limit

\* Before the boot nothing is marked.
LEMMA InvariantInitially == Init => MemoryInvariant
<1> SUFFICES ASSUME Init PROVE MemoryInvariant
  OBVIOUS
<1>1. TypeOK
  <2>1. \A S : << >> \in Seq(S)
    OBVIOUS
  <2>2. 0 \in 0..Limit
    BY ConstantTypes
  <2>3. NoHeap \in [base : 0..Limit, ptr : 0..Limit, limit : 0..Limit]
    BY <2>2 DEF NoHeap
  <2> QED
    BY <2>1, <2>2, <2>3, Zenon DEF Init, TypeOK
<1>2. Accounts
  BY DEF Init, Accounts
<1>3. Heaped
  BY ConstantTypes DEF Init, Heaped, NoHeap
<1>4. BlocksAreApart
  BY DEF Init, BlocksAreApart
<1> QED
  BY <1>1, <1>2, <1>3, <1>4 DEF MemoryInvariant

\* What the calls report has the types TypeOK gives it.
LEMMA SaidFormed ==
  /\ \A op \in {"parse_multiboot", "allocate_pages", "allocate", "free", "malloc"},
        result \in {"ok", "denied", "fault"} :
       << Say(op, result) >> \in Seq([op : {"parse_multiboot", "allocate_pages", "allocate",
                                            "free", "malloc"},
                                      result : {"ok", "denied", "fault"}])
  /\ << Say("allocate", "denied"), Say("allocate_pages", "fault") >>
       \in Seq([op : {"parse_multiboot", "allocate_pages", "allocate", "free", "malloc"},
                result : {"ok", "denied", "fault"}])
  /\ << Say("allocate", "ok"), Say("allocate_pages", "ok"), Say("parse_multiboot", "ok") >>
       \in Seq([op : {"parse_multiboot", "allocate_pages", "allocate", "free", "malloc"},
                result : {"ok", "denied", "fault"}])
BY DEF Say

\* A boot that fails before the heap has a place leaves nothing held.
LEMMA RefusalKeeps ==
  ASSUME MemoryInvariant, RefuseMap \/ RefuseEntry
  PROVE  MemoryInvariant'
<1>1. ~ready
  BY DEF MemoryInvariant, Accounts, RefuseMap, RefuseEntry, Booting
<1>2. usable' \subseteq Managed
  <2>1. CASE RefuseMap
    BY <2>1 DEF RefuseMap, MemoryInvariant, Accounts
  <2>2. CASE RefuseEntry
    BY <2>2, MarkedIsManaged DEF RefuseEntry
  <2> QED
    BY <2>1, <2>2
<1>3. used' \subseteq Pages /\ UNCHANGED <<total, ready, heap, map, held, blocks>>
  <2>1. CASE RefuseMap
    BY <2>1 DEF RefuseMap, MemoryInvariant, TypeOK
  <2>2. CASE RefuseEntry
    BY <2>2 DEF RefuseEntry
  <2> QED
    BY <2>1, <2>2
<1>4. said' = << Say("parse_multiboot", "fault") >>
  BY DEF RefuseMap, RefuseEntry
<1>5. TypeOK'
  BY <1>2, <1>3, <1>4, SaidFormed, ManagedIsFinite DEF MemoryInvariant, TypeOK
<1>6. Accounts'
  BY <1>1, <1>2, <1>3 DEF MemoryInvariant, Accounts
<1>7. Heaped' /\ BlocksAreApart'
  BY <1>3 DEF MemoryInvariant, Heaped, BlocksAreApart
<1> QED
  BY <1>5, <1>6, <1>7 DEF MemoryInvariant

\* memory_init: the heap's run is the only one taken, out of the usable pages.
LEMMA MemoryInitKeeps ==
  ASSUME MemoryInvariant, MemoryInit
  PROVE  MemoryInvariant'
<1> DEFINE marked == Marked(map, "ram", UsablePages) \ Conflicting
           reserved == Pages \ marked
           page == FirstFit(reserved, HeapPages)
<1>1. ~ready /\ held = {} /\ blocks = {}
  BY DEF MemoryInvariant, Accounts, MemoryInit, Booting
<1>2. /\ usable' = marked
      /\ total' = PageSize * Cardinality(marked \ 0..(FirstPage - 1))
      /\ UNCHANGED <<map, held, blocks>>
      /\ \/ /\ page = 0
            /\ used' = reserved /\ ready' = FALSE /\ heap' = NoHeap
            /\ said' = << Say("allocate", "denied"), Say("allocate_pages", "fault") >>
         \/ /\ page # 0
            /\ used' = reserved \cup Run(page, HeapPages)
            /\ ready' = TRUE
            /\ heap' = [base |-> page * PageSize, ptr |-> page * PageSize,
                        limit |-> (page + HeapPages) * PageSize]
            /\ said' = << Say("allocate", "ok"), Say("allocate_pages", "ok"),
                          Say("parse_multiboot", "ok") >>
  BY Zenon DEF MemoryInit
<1>3. marked \subseteq Managed
  BY MarkedIsManaged
<1> HIDE DEF marked
<1>4. /\ marked \subseteq Pages /\ reserved \subseteq Pages /\ Pages \ marked \subseteq reserved
      /\ total' = PageSize * Cardinality(marked) /\ Cardinality(marked) \in 0..PageCount
  BY <1>2, <1>3, ManagedIsFinite
<1>5. total' \in 0..Limit
  <2> DEFINE n == Cardinality(marked)
  <2>1. n \in Nat /\ n <= PageCount /\ total' = PageSize * n
    BY <1>4, ConstantTypes
  <2> HIDE DEF n
  <2>2. n * PageSize \in Nat /\ n * PageSize <= PageCount * PageSize
    BY <2>1, ConstantTypes, MultiplesInOrder
  <2>3. PageSize * n = n * PageSize
    BY <2>1, ConstantTypes, Z3
  <2> QED
    BY <2>1, <2>2, <2>3, ConstantTypes
<1>6. held' = {} /\ blocks' = {} /\ BlocksAreApart'
  BY <1>1, <1>2 DEF BlocksAreApart
<1>7. map' \in Maps
  BY <1>2 DEF MemoryInvariant, TypeOK
<1>8. CASE page = 0
  <2>1. /\ used' = reserved /\ ready' = FALSE /\ heap' = NoHeap
        /\ said' = << Say("allocate", "denied"), Say("allocate_pages", "fault") >>
    BY <1>2, <1>8
  <2>2. heap' \in [base : 0..Limit, ptr : 0..Limit, limit : 0..Limit]
    BY <2>1, ConstantTypes DEF NoHeap
  <2>3. TypeOK'
    BY <1>2, <1>4, <1>5, <1>6, <1>7, <2>1, <2>2, SaidFormed, Zenon DEF TypeOK
  <2>4. Accounts'
    BY <1>2, <1>3, <1>6, <2>1, Zenon DEF Accounts
  <2>5. Heaped'
    BY <2>1, ConstantTypes DEF Heaped, NoHeap
  <2> QED
    BY <1>6, <2>3, <2>4, <2>5 DEF MemoryInvariant
<1>9. CASE page # 0
  <2>1. HeapPages \in Nat
    BY ConstantTypes
  <2>2. /\ page \in FirstPage..PageCount /\ page + HeapPages <= PageCount
        /\ Run(page, HeapPages) \subseteq Managed /\ Run(page, HeapPages) \cap reserved = {}
    BY <1>9, <2>1, RunWasFree, Zenon
  <2> HIDE DEF page
  <2>3. /\ used' = reserved \cup Run(page, HeapPages)
        /\ ready' = TRUE
        /\ heap' = [base |-> page * PageSize, ptr |-> page * PageSize,
                    limit |-> (page + HeapPages) * PageSize]
        /\ said' = << Say("allocate", "ok"), Say("allocate_pages", "ok"),
                      Say("parse_multiboot", "ok") >>
    BY <1>2, <1>9
  <2>4. /\ heap'.base = page * PageSize /\ heap'.ptr = page * PageSize
        /\ heap'.limit = (page + HeapPages) * PageSize
        /\ heap' \in [base : 0..Limit, ptr : 0..Limit, limit : 0..Limit]
    BY <2>2, <2>3, HeapOfBoot, Zenon
  <2>5. HeapSet' = Run(page, HeapPages)
    BY <2>2, <2>4, HeapOfBoot, Zenon DEF HeapSet, InHeap
  <2>6. Run(page, HeapPages) \subseteq marked /\ Run(page, HeapPages) \subseteq Pages
    BY <2>2, ManagedIsFinite
  <2>7. TypeOK'
    <3>1. used' \subseteq Pages
      BY <1>4, <2>3, <2>6
    <3> QED
      BY <1>2, <1>4, <1>5, <1>6, <1>7, <2>3, <2>4, <3>1, SaidFormed, Zenon DEF TypeOK
  <2>8. Accounts'
    <3>1. /\ said' # << >> /\ Pages \ usable' \subseteq used'
          /\ held' \subseteq used' /\ held' \cap HeapSet' = {} /\ HeapSet' \subseteq used'
      BY <1>2, <1>4, <1>6, <2>3, <2>5
    <3>2. usable' = (usable' \ used') \cup held' \cup HeapSet'
      BY <1>2, <1>4, <1>6, <2>3, <2>5, <2>6
    <3>3. total' = PageSize * Cardinality(usable') /\ Cardinality(HeapSet') = HeapPages
      BY <1>2, <1>4, <2>2, <2>5, HeapOfBoot, Zenon
    <3> QED
      BY <1>2, <1>3, <2>3, <3>1, <3>2, <3>3, Zenon DEF Accounts
  <2>9. Heaped'
    <3> DEFINE base == page * PageSize
               limit == (page + HeapPages) * PageSize
    <3>1. base \in 0..Limit /\ base <= limit /\ base % Align = 0
      BY <2>2, HeapOfBoot, Zenon
    <3>2. heap'.base = base /\ heap'.ptr = base /\ heap'.limit = limit
      BY <2>4
    <3> HIDE DEF base, limit
    <3> QED
      BY <3>1, <3>2 DEF Heaped
  <2> QED
    BY <1>6, <2>7, <2>8, <2>9 DEF MemoryInvariant
<1> QED
  BY <1>8, <1>9

\* A run given to a caller was free, so it is neither held nor the heap's.
LEMMA AllocationKeeps ==
  ASSUME MemoryInvariant, NEW n \in 0..(PageCount + 1), PageAllocContiguous(n)
  PROVE  MemoryInvariant'
<1> DEFINE page == FirstFit(used, n)
<1>1. ready /\ UNCHANGED <<usable, total, ready, heap, map, blocks>>
  BY DEF PageAllocContiguous
<1>2. HeapSet' = HeapSet /\ Heaped' /\ BlocksAreApart'
  BY <1>1 DEF MemoryInvariant, HeapSet, InHeap, Heaped, BlocksAreApart
<1>3. CASE page = 0
  <2>1. said' = << Say("allocate", "denied") >> /\ UNCHANGED <<used, held>>
    BY <1>3 DEF PageAllocContiguous
  <2>2. TypeOK'
    BY <1>1, <2>1, SaidFormed DEF MemoryInvariant, TypeOK
  <2>3. Accounts'
    BY <1>1, <1>2, <2>1 DEF MemoryInvariant, Accounts
  <2> QED
    BY <1>2, <2>2, <2>3 DEF MemoryInvariant
<1>4. CASE page # 0
  <2>1. n \in Nat
    BY ConstantTypes
  <2>2. Run(page, n) \subseteq Managed /\ Run(page, n) \cap used = {}
    BY <1>4, <2>1, RunWasFree, Zenon
  <2>3. /\ said' = << Say("allocate", "ok") >>
        /\ used' = used \cup Run(page, n) /\ held' = held \cup Run(page, n)
    BY <1>4 DEF PageAllocContiguous
  <2> HIDE DEF page
  <2>4. TypeOK'
    <3>1. used' \subseteq Pages /\ held' \subseteq Pages
      BY <2>2, <2>3, ManagedIsFinite DEF MemoryInvariant, TypeOK
    <3> QED
      BY <1>1, <2>3, <3>1, SaidFormed DEF MemoryInvariant, TypeOK
  <2>5. Accounts'
    <3>1. Run(page, n) \subseteq Pages
      BY <2>2, ManagedIsFinite
    <3>2. /\ Pages \ usable' \subseteq used'
          /\ held' \subseteq used' /\ held' \cap HeapSet' = {} /\ HeapSet' \subseteq used'
          /\ usable' = (usable' \ used') \cup held' \cup HeapSet'
      BY <1>1, <1>2, <2>2, <2>3, <3>1 DEF MemoryInvariant, Accounts
    <3>3. said' # << >>
      BY <2>3
    <3> QED
      BY <1>1, <1>2, <3>2, <3>3 DEF MemoryInvariant, Accounts
  <2> QED
    BY <1>2, <2>4, <2>5 DEF MemoryInvariant
<1> QED
  BY <1>3, <1>4

\* A page freed is usable and not the heap's, so it was held or free already.
LEMMA FreeKeeps ==
  ASSUME MemoryInvariant, NEW address \in 0..(Limit + PageSize), PageFree(address)
  PROVE  MemoryInvariant'
<1> DEFINE page == Down(address)
<1>1. ready /\ UNCHANGED <<usable, total, ready, heap, map, blocks>>
  BY DEF PageFree
<1>2. HeapSet' = HeapSet /\ Heaped' /\ BlocksAreApart'
  BY <1>1 DEF MemoryInvariant, HeapSet, InHeap, Heaped, BlocksAreApart
<1>3. CASE ~Releasable(address)
  <2>1. said' = << Say("free", "denied") >> /\ UNCHANGED <<used, held>>
    BY <1>3 DEF PageFree
  <2>2. TypeOK'
    BY <1>1, <2>1, SaidFormed DEF MemoryInvariant, TypeOK
  <2>3. Accounts'
    BY <1>1, <1>2, <2>1 DEF MemoryInvariant, Accounts
  <2> QED
    BY <1>2, <2>2, <2>3 DEF MemoryInvariant
<1>4. CASE Releasable(address)
  <2>1. /\ said' = << Say("free", "ok") >>
        /\ used' = used \ {page} /\ held' = held \ {page}
    BY <1>4 DEF PageFree
  <2>2. page \in usable /\ page \notin HeapSet
    <3>1. address \in Nat
      BY ConstantTypes
    <3>2. address = page * PageSize
      <4>1. address % PageSize = 0
        BY <1>4 DEF Releasable
      <4> DEFINE q == address \div PageSize
      <4>2. q \in Nat /\ address = q * PageSize + (address % PageSize) /\ q * PageSize \in Nat
        BY <3>1, ConstantTypes, Division, MultiplesInOrder
      <4>3. page = q
        BY DEF Down
      <4> HIDE DEF q, page
      <4> QED
        BY <4>1, <4>2, <4>3
    <3> QED
      BY <1>4, <3>2 DEF Releasable, HeapSet
  <2> HIDE DEF page
  <2>3. TypeOK'
    BY <1>1, <2>1, SaidFormed DEF MemoryInvariant, TypeOK
  <2>4. Accounts'
    <3>1. /\ Pages \ usable' \subseteq used'
          /\ held' \subseteq used' /\ held' \cap HeapSet' = {} /\ HeapSet' \subseteq used'
          /\ usable' = (usable' \ used') \cup held' \cup HeapSet'
      BY <1>1, <1>2, <2>1, <2>2 DEF MemoryInvariant, Accounts
    <3>2. said' # << >>
      BY <2>1
    <3> QED
      BY <1>1, <1>2, <3>1, <3>2 DEF MemoryInvariant, Accounts
  <2> QED
    BY <1>2, <2>3, <2>4 DEF MemoryInvariant
<1> QED
  BY <1>3, <1>4

\* Rounding a size up gives a multiple of Align, no less, and does not wrap.
LEMMA RoundingUp ==
  ASSUME NEW size \in 0..MaxWord, size <= MaxWord - (Align - 1)
  PROVE  Rounded(size) \in Nat /\ Rounded(size) % Align = 0 /\ size <= Rounded(size)
<1> DEFINE top == size + Align - 1
           q == top \div Align
           r == top % Align
           product == q * Align
<1>1. size \in Nat /\ Align \in Nat \ {0} /\ MaxWord \in Nat /\ top \in Nat /\ top <= MaxWord
  BY ConstantTypes
<1>2. q \in Nat /\ r \in 0..(Align - 1) /\ top = product + r
  BY <1>1, Division
<1>3. product \in Nat /\ product % Align = 0
  BY <1>1, <1>2, MultiplesInOrder, MultipleRemainder, Zenon
<1>4. Rounded(size) = product % (MaxWord + 1)
  BY DEF Rounded
<1>5. top = size + Align - 1
  OBVIOUS
<1> HIDE DEF top, q, r, product
<1>6. product <= MaxWord /\ size <= product
  BY <1>1, <1>2, <1>3, <1>5
<1>7. product % (MaxWord + 1) = product
  BY <1>1, <1>3, <1>6, Z3
<1> QED
  BY <1>3, <1>4, <1>6, <1>7

\* A block begins where the last one ended, rounded up, and ends before the limit.
LEMMA MallocKeeps ==
  ASSUME MemoryInvariant, NEW size \in 0..MaxWord, Malloc(size)
  PROVE  MemoryInvariant'
<1>1. ready /\ UNCHANGED <<used, usable, total, ready, map, held>>
  BY DEF Malloc
<1>2. CASE ~Fits(size)
  <2>1. said' = << Say("malloc", "denied") >> /\ UNCHANGED <<heap, blocks>>
    BY <1>2 DEF Malloc
  <2>2. TypeOK'
    BY <1>1, <2>1, SaidFormed DEF MemoryInvariant, TypeOK
  <2>3. Accounts' /\ Heaped' /\ BlocksAreApart'
    BY <1>1, <2>1 DEF MemoryInvariant, Accounts, Heaped, BlocksAreApart, HeapSet, InHeap
  <2> QED
    BY <2>2, <2>3 DEF MemoryInvariant
<1>3. CASE Fits(size)
  <2> DEFINE step == Rounded(size)
             block == [at |-> heap.ptr, asked |-> size]
  <2>1. /\ heap' = [heap EXCEPT !.ptr = @ + step]
        /\ blocks' = blocks \cup {block}
        /\ said' = << Say("malloc", "ok") >>
    BY <1>3 DEF Malloc
  <2>2. step \in Nat /\ step % Align = 0 /\ size <= step /\ step <= heap.limit - heap.ptr
    BY <1>3, RoundingUp DEF Fits
  <2> HIDE DEF step
  <2>3. /\ heap \in [base : 0..Limit, ptr : 0..Limit, limit : 0..Limit]
        /\ heap.base \in Nat /\ heap.ptr \in Nat /\ heap.limit \in 0..Limit
        /\ heap.base <= heap.ptr /\ heap.ptr <= heap.limit /\ heap.ptr % Align = 0
        /\ size \in Nat /\ Limit \in Nat /\ Align \in Nat \ {0}
    BY ConstantTypes DEF MemoryInvariant, TypeOK, Heaped
  <2>4. /\ heap'.base = heap.base /\ heap'.limit = heap.limit /\ heap'.ptr = heap.ptr + step
        /\ heap' = [base |-> heap.base, ptr |-> heap.ptr + step, limit |-> heap.limit]
    BY <2>1, <2>3
  <2>5. heap.ptr + step \in 0..Limit /\ heap.ptr + step <= heap.limit /\ heap.base \in 0..Limit
    BY <2>2, <2>3
  <2>6. TypeOK'
    <3>1. heap' \in [base : 0..Limit, ptr : 0..Limit, limit : 0..Limit]
      BY <2>3, <2>4, <2>5
    <3>2. block \in [at : 0..Limit, asked : 0..MaxWord]
      BY <2>3
    <3>3. blocks' \subseteq [at : 0..Limit, asked : 0..MaxWord]
      BY <2>1, <3>2, Zenon DEF MemoryInvariant, TypeOK
    <3>4. said' \in Seq([op : {"parse_multiboot", "allocate_pages", "allocate", "free",
                               "malloc"},
                         result : {"ok", "denied", "fault"}])
      BY <2>1, SaidFormed
    <3> QED
      BY <1>1, <3>1, <3>3, <3>4, Zenon DEF MemoryInvariant, TypeOK
  <2>7. Accounts'
    <3>1. HeapSet' = HeapSet
      BY <2>4, Zenon DEF HeapSet, InHeap, Pages
    <3>2. said' # << >>
      BY <2>1
    <3> QED
      BY <1>1, <3>1, <3>2 DEF MemoryInvariant, Accounts
  <2>8. Heaped'
    <3>1. (heap.ptr + step) % Align = 0
      BY <2>2, <2>3, RemainderOfSum
    <3>2. heap.base <= heap.ptr + step
      BY <2>2, <2>3
    <3> QED
      BY <2>4, <2>5, <3>1, <3>2 DEF Heaped
  <2>9. BlocksAreApart'
    <3>1. \A b \in blocks :
            /\ b.at \in Nat /\ b.asked \in Nat
            /\ heap.base <= b.at /\ b.at + b.asked <= heap.ptr /\ b.at % Align = 0
            /\ \A c \in blocks : b = c \/ b.at + b.asked <= c.at \/ c.at + c.asked <= b.at
      BY ConstantTypes DEF MemoryInvariant, TypeOK, BlocksAreApart
    <3>2. /\ block.at = heap.ptr /\ block.asked = size
          /\ heap.ptr + size <= heap.ptr + step
      BY <2>2, <2>3
    <3> HIDE DEF block
    <3>3. ASSUME NEW b \in blocks'
          PROVE  /\ heap'.base <= b.at /\ b.at + b.asked <= heap'.ptr /\ heap'.ptr <= heap'.limit
                 /\ b.at % Align = 0
      <4>1. CASE b \in blocks
        BY <2>2, <2>3, <2>4, <2>5, <3>1, <4>1
      <4>2. CASE b = block
        BY <2>2, <2>3, <2>4, <2>5, <3>2, <4>2
      <4> QED
        BY <2>1, <3>3, <4>1, <4>2
    <3>4. ASSUME NEW b \in blocks', NEW c \in blocks'
          PROVE  b = c \/ b.at + b.asked <= c.at \/ c.at + c.asked <= b.at
      <4>1. CASE b \in blocks /\ c \in blocks
        BY <3>1, <4>1
      <4>2. CASE b \in blocks /\ c = block
        BY <3>1, <3>2, <4>2
      <4>3. CASE b = block /\ c \in blocks
        BY <3>1, <3>2, <4>3
      <4>4. CASE b = block /\ c = block
        BY <4>4
      <4> QED
        BY <2>1, <3>4, <4>1, <4>2, <4>3, <4>4
    <3> QED
      BY <3>3, <3>4 DEF BlocksAreApart
  <2> QED
    BY <2>6, <2>7, <2>8, <2>9 DEF MemoryInvariant
<1> QED
  BY <1>2, <1>3

\* No step breaks the invariant.
LEMMA InvariantKept == MemoryInvariant /\ [Next]_vars => MemoryInvariant'
<1> SUFFICES ASSUME MemoryInvariant, [Next]_vars PROVE MemoryInvariant'
  OBVIOUS
<1>1. CASE Boot
  BY <1>1, RefusalKeeps, MemoryInitKeeps DEF Boot
<1>2. CASE \E n \in 0..(PageCount + 1) : PageAllocContiguous(n)
  BY <1>2, AllocationKeeps
<1>3. CASE \E address \in 0..(Limit + PageSize) : PageFree(address)
  BY <1>3, FreeKeeps
<1>4. CASE \E size \in 0..MaxWord : Malloc(size)
  BY <1>4, MallocKeeps
<1>5. CASE UNCHANGED vars
  BY <1>5 DEF vars, MemoryInvariant, TypeOK, Accounts, Heaped, BlocksAreApart, HeapSet, InHeap
<1> QED
  BY <1>1, <1>2, <1>3, <1>4, <1>5 DEF Next

(***************************************************************************)
(* First fit, and the books.                                               *)
(***************************************************************************)
\* The places range_is_free accepts are those of the runs of free pages.
LEMMA PlacesAreRuns ==
  ASSUME MemoryInvariant, ready, NEW n \in 1..PageCount
  PROVE  Places(used, n) = {page \in Pages : Run(page, n) \subseteq FreePages}
<1>1. /\ PageCount \in Nat /\ FirstPage \in 1..PageCount /\ n \in Nat /\ n >= 1
      /\ usable \subseteq Managed /\ Pages \ usable \subseteq used
  BY ConstantTypes DEF MemoryInvariant, Accounts
<1>2. ASSUME NEW page \in Places(used, n)
      PROVE  page \in Pages /\ Run(page, n) \subseteq FreePages
  <2>1. page \in FirstPage..PageCount /\ page + n <= PageCount
    BY <1>2 DEF Places
  <2>2. page \in Pages
    BY <1>1, <2>1 DEF Pages
  <2>3. ASSUME NEW p \in Run(page, n)
        PROVE  p \in FreePages
    <3>1. p \in Pages /\ p - page \in 0..(n - 1) /\ page + (p - page) = p
      BY <1>1, <2>1, <2>3 DEF Run, Pages
    <3>2. p \notin used
      BY <1>2, <3>1 DEF Places, RangeIsFree
    <3> QED
      BY <1>1, <3>1, <3>2 DEF FreePages
  <2> QED
    BY <2>2, <2>3
<1>3. ASSUME NEW page \in Pages, Run(page, n) \subseteq FreePages
      PROVE  page \in Places(used, n)
  <2>1. page \in Nat /\ page \in Run(page, n) /\ page + n - 1 \in Run(page, n)
    BY <1>1 DEF Pages, Run
  <2>2. page \in Managed /\ page + n - 1 \in Managed
    BY <1>1, <1>3, <2>1 DEF FreePages
  <2>3. page \in FirstPage..PageCount /\ page + n <= PageCount
    BY <1>1, <2>1, <2>2 DEF Managed
  <2>4. \A k \in 0..(n - 1) : page + k \in Run(page, n)
    BY <1>1, <2>1 DEF Run
  <2>5. RangeIsFree(used, page, n)
    BY <1>3, <2>4 DEF RangeIsFree, FreePages
  <2> QED
    BY <2>3, <2>5 DEF Places
<1> QED
  BY <1>2, <1>3

\* Cardinalities of disjoint sets add up.
LEMMA DisjointUnion ==
  ASSUME NEW S, NEW T, IsFiniteSet(S), IsFiniteSet(T), S \cap T = {}
  PROVE  Cardinality(S \cup T) = Cardinality(S) + Cardinality(T)
<1> DEFINE a == Cardinality(S)
           b == Cardinality(T)
           both == Cardinality(S \cap T)
<1>1. a \in Nat /\ b \in Nat
  BY FS_CardinalityType
<1>2. both = 0
  BY FS_EmptySet
<1>3. Cardinality(S \cup T) = a + b - both
  BY FS_Union, Zenon
<1> HIDE DEF a, b, both
<1>4. Cardinality(S \cup T) = a + b
  BY <1>1, <1>2, <1>3
<1> QED
  BY <1>4 DEF a, b

\* The kinds of usable pages add up.
LEMMA KindsAddUp ==
  ASSUME MemoryInvariant, ready
  PROVE  Cardinality(usable) = Cardinality(FreePages) + Cardinality(held) + HeapPages
<1>1. /\ usable \subseteq Managed
      /\ held \subseteq used /\ held \cap HeapSet = {} /\ HeapSet \subseteq used
      /\ usable = FreePages \cup held \cup HeapSet
      /\ Cardinality(HeapSet) = HeapPages
  BY DEF MemoryInvariant, Accounts, FreePages
<1>2. IsFiniteSet(FreePages \cup held) /\ IsFiniteSet(FreePages)
      /\ IsFiniteSet(held) /\ IsFiniteSet(HeapSet)
  <2>1. /\ FreePages \subseteq Managed /\ held \subseteq Managed /\ HeapSet \subseteq Managed
        /\ FreePages \cup held \subseteq Managed
    BY <1>1
  <2> QED
    BY <2>1, ManagedIsFinite
<1>3. FreePages \cap held = {} /\ (FreePages \cup held) \cap HeapSet = {}
  BY <1>1 DEF FreePages
<1>4. Cardinality(FreePages \cup held) = Cardinality(FreePages) + Cardinality(held)
  BY <1>2, <1>3, DisjointUnion, Zenon
<1>5. Cardinality((FreePages \cup held) \cup HeapSet)
        = Cardinality(FreePages \cup held) + Cardinality(HeapSet)
  BY <1>2, <1>3, DisjointUnion, Zenon
<1> QED
  BY <1>1, <1>4, <1>5, Zenon

\* What page_alloc_contiguous grants.
LEMMA FirstFitIsLowest ==
  ASSUME MemoryInvariant, ready, NEW n \in 1..PageCount, PageAllocContiguous(n)
  PROVE  LET granted == held' \ held
             runs == {page \in Pages : Run(page, n) \subseteq FreePages}
         IN  IF runs = {} THEN granted = {} ELSE granted = Run(Min(runs), n)
<1> DEFINE page == FirstFit(used, n)
           runs == {p \in Pages : Run(p, n) \subseteq FreePages}
<1>1. n \in Nat /\ n # 0 /\ ~(n > PageCount) /\ PageCount \in Nat /\ FirstPage \in 1..PageCount
  BY ConstantTypes
<1>2. Places(used, n) = runs
  BY PlacesAreRuns
<1>3. page = IF runs = {} THEN 0 ELSE Min(runs)
  BY <1>1, <1>2 DEF FirstFit
<1>4. CASE runs = {}
  <2>1. held' = held
    BY <1>3, <1>4 DEF PageAllocContiguous
  <2> QED
    BY <1>4, <2>1
<1>5. CASE runs # {}
  <2>1. Places(used, n) \in SUBSET Nat /\ Places(used, n) # {}
    BY <1>1, <1>2, <1>5 DEF Places
  <2>2. Min(runs) \in Places(used, n)
    BY <1>2, <2>1, LeastIsMember, Zenon
  <2>3. page = Min(runs) /\ page # 0
    BY <1>1, <1>3, <1>5, <2>2 DEF Places
  <2>4. Run(page, n) \cap used = {}
    BY <1>1, <2>3, RunWasFree, Zenon
  <2>5. held' = held \cup Run(page, n)
    BY <2>3 DEF PageAllocContiguous
  <2>6. held \subseteq used
    BY DEF MemoryInvariant, Accounts
  <2>7. held' \ held = Run(page, n)
    BY <2>4, <2>5, <2>6
  <2> QED
    BY <1>5, <2>3, <2>7
<1> QED
  BY <1>4, <1>5

(***************************************************************************)
(* The firmware's ranges, byte by byte.                                    *)
(***************************************************************************)
\* A managed page, by its first byte and the one behind its last.
LEMMA BytesOfPage ==
  ASSUME NEW page \in Managed
  PROVE  /\ page \in Nat /\ page * PageSize \in Nat /\ (page + 1) * PageSize \in Nat
         /\ page * PageSize < (page + 1) * PageSize /\ (page + 1) * PageSize <= Limit
         /\ Bytes(page) = (page * PageSize)..((page + 1) * PageSize - 1)
         /\ page * PageSize \in Bytes(page) /\ (page + 1) * PageSize - 1 \in Bytes(page)
<1>1. page \in Nat /\ page + 1 \in Nat /\ page + 1 <= PageCount
  BY ConstantTypes DEF Managed
<1> DEFINE lo == page * PageSize
           hi == (page + 1) * PageSize
<1>2. lo \in Nat /\ hi \in Nat /\ hi = lo + PageSize /\ hi <= Limit
  BY <1>1, ConstantTypes, MultiplesInOrder
<1>3. Bytes(page) = lo..(hi - 1)
  BY DEF Bytes
<1> HIDE DEF lo, hi
<1>4. lo < hi /\ lo \in lo..(hi - 1) /\ hi - 1 \in lo..(hi - 1)
  BY <1>2, ConstantTypes
<1> QED
  BY <1>1, <1>2, <1>3, <1>4, Zenon DEF lo, hi

\* mark_usable_range takes the pages all of whose bytes are in the range.
LEMMA UsableIsWhole ==
  ASSUME NEW page \in Managed, NEW base \in 0..MaxWord, NEW length \in 0..MaxWord
  PROVE  page \in UsablePages(base, length)
           <=> \A byte \in Bytes(page) : Within(byte, base, length)
<1> DEFINE lo == page * PageSize
           hi == (page + 1) * PageSize
           end == RangeEnd(base, length)
<1>1. /\ base \in Nat /\ length \in Nat /\ Limit \in Nat /\ page \in Nat /\ page + 1 \in Nat
      /\ page \in Pages /\ page >= FirstPage
  BY ConstantTypes DEF Managed, Pages
<1>2. /\ lo \in Nat /\ hi \in Nat /\ lo < hi /\ hi <= Limit /\ Bytes(page) = lo..(hi - 1)
      /\ lo \in Bytes(page) /\ hi - 1 \in Bytes(page)
  BY BytesOfPage
<1>3. page >= Up(base) <=> lo >= base
  BY <1>1, ConstantTypes, QuotientUp DEF Up
<1>4. Relevant(base, length) => end \in Nat /\ (hi <= end <=> hi <= base + length)
  <2> HIDE DEF lo, hi
  <2> QED
    BY <1>1, <1>2 DEF Relevant, RangeEnd
<1>5. Relevant(base, length) => (page + 1 <= Down(end) <=> hi <= end)
  <2> HIDE DEF end
  <2> QED
    BY <1>1, <1>4, ConstantTypes, Quotient DEF Down
<1>6. Relevant(base, length) => Down(end) \in Nat
  <2> HIDE DEF end
  <2> QED
    BY <1>4, ConstantTypes, Division DEF Down
<1>7. page \in UsablePages(base, length)
        <=> Relevant(base, length) /\ page >= Up(base) /\ page < Down(end)
  BY <1>1 DEF UsablePages
<1> HIDE DEF lo, hi, end
<1>8. page \in UsablePages(base, length)
        <=> Relevant(base, length) /\ lo >= base /\ hi <= base + length
  BY <1>1, <1>3, <1>4, <1>5, <1>6, <1>7
<1>9. (\A byte \in Bytes(page) : Within(byte, base, length))
        <=> base <= lo /\ hi <= base + length
  BY <1>1, <1>2 DEF Within
<1>10. base <= lo /\ hi <= base + length => Relevant(base, length)
  BY <1>1, <1>2 DEF Relevant
<1> QED
  BY <1>1, <1>2, <1>8, <1>9, <1>10

\* mark_reserved_range takes the pages some byte of which is in the range.
LEMMA ReservedIsTouched ==
  ASSUME NEW page \in Managed, NEW base \in 0..MaxWord, NEW length \in 0..MaxWord
  PROVE  page \in ReservedPages(base, length)
           <=> \E byte \in Bytes(page) : Within(byte, base, length)
<1> DEFINE lo == page * PageSize
           hi == (page + 1) * PageSize
           end == RangeEnd(base, length)
<1>1. /\ base \in Nat /\ length \in Nat /\ Limit \in Nat /\ page \in Nat /\ page + 1 \in Nat
      /\ page \in Pages /\ page >= FirstPage /\ page < PageCount /\ PageCount \in Nat
  BY ConstantTypes DEF Managed, Pages
<1>2. /\ lo \in Nat /\ hi \in Nat /\ lo < hi /\ hi <= Limit /\ Bytes(page) = lo..(hi - 1)
  BY BytesOfPage
<1>3. page + 1 <= Down(base) <=> hi <= base
  BY <1>1, ConstantTypes, Quotient DEF Down
<1>4. Relevant(base, length) => end \in Nat /\ (lo < end <=> lo < base + length)
  <2> HIDE DEF lo, hi
  <2> QED
    BY <1>1, <1>2 DEF Relevant, RangeEnd
<1>5. Relevant(base, length) => (page >= Up(end) <=> lo >= end)
  <2> HIDE DEF end
  <2> QED
    BY <1>1, <1>4, ConstantTypes, QuotientUp DEF Up
<1>6. Down(base) \in Nat
  BY <1>1, ConstantTypes, Division DEF Down
<1>7. Relevant(base, length) => Up(end) \in Nat
  <2> HIDE DEF end
  <2>1. ASSUME Relevant(base, length)
        PROVE  end + PageSize - 1 \in Nat
    BY <1>4, <2>1, ConstantTypes
  <2> QED
    BY <2>1, ConstantTypes, Division DEF Up
<1>8. page \in ReservedPages(base, length)
        <=> Relevant(base, length) /\ page >= Down(base) /\ page < Least(Up(end), PageCount)
  BY <1>1 DEF ReservedPages
<1> HIDE DEF lo, hi, end
<1>9. page \in ReservedPages(base, length)
        <=> Relevant(base, length) /\ base < hi /\ lo < base + length
  BY <1>1, <1>2, <1>3, <1>4, <1>5, <1>6, <1>7, <1>8 DEF Least
<1>10. ASSUME NEW byte \in Bytes(page), Within(byte, base, length)
       PROVE  Relevant(base, length) /\ base < hi /\ lo < base + length
  BY <1>1, <1>2, <1>10 DEF Relevant, Within
<1>11. ASSUME Relevant(base, length), base < hi, lo < base + length
       PROVE  \E byte \in Bytes(page) : Within(byte, base, length)
  <2> DEFINE byte == IF base <= lo THEN lo ELSE base
  <2>1. byte \in Bytes(page) /\ base <= byte /\ byte < base + length
    BY <1>1, <1>2, <1>11 DEF Relevant
  <2> QED
    BY <2>1 DEF Within
<1> QED
  BY <1>9, <1>10, <1>11

\* The kernel's pages are those that some byte of a reserved range is in.
LEMMA KernelIsTouched ==
  ASSUME NEW page \in Managed
  PROVE  page \in KernelPages
           <=> \E byte \in Bytes(page) : \E range \in Reserved : range[1] <= byte /\ byte < range[2]
<1>1. ASSUME NEW range \in Reserved
      PROVE  /\ range[1] \in Nat /\ range[2] \in Nat
             /\ range[1] \in 0..MaxWord
             /\ range[1] < range[2] => range[2] - range[1] \in 0..MaxWord
             /\ \A byte \in Bytes(page) :
                  /\ byte \in Nat
                  /\ range[1] < range[2] =>
                       (Within(byte, range[1], range[2] - range[1])
                          <=> range[1] <= byte /\ byte < range[2])
  <2>1. range \in (0..Limit) \X (0..Limit)
    BY MemoryAssumption
  <2>2. /\ range[1] \in Nat /\ range[2] \in Nat /\ range[1] <= Limit /\ range[2] <= Limit
        /\ Limit \in Nat /\ Limit <= MaxWord /\ MaxWord \in Nat
    BY <2>1, ConstantTypes
  <2>3. \A byte \in Bytes(page) : byte \in Nat
    <3> DEFINE lo == page * PageSize
               hi == (page + 1) * PageSize
    <3>1. lo \in Nat /\ hi \in Nat /\ Bytes(page) = lo..(hi - 1)
      BY BytesOfPage
    <3> HIDE DEF lo, hi
    <3> QED
      BY <3>1
  <2> QED
    BY <2>2, <2>3 DEF Within
<1>2. ASSUME NEW range \in Reserved, range[1] < range[2]
      PROVE  page \in ReservedPages(range[1], range[2] - range[1])
               <=> \E byte \in Bytes(page) : Within(byte, range[1], range[2] - range[1])
  BY <1>1, <1>2, ReservedIsTouched
<1>3. ASSUME page \in KernelPages
      PROVE  \E byte \in Bytes(page) : \E range \in Reserved : range[1] <= byte /\ byte < range[2]
  <2>1. PICK range \in Reserved : /\ range[1] < range[2]
                                  /\ page \in ReservedPages(range[1], range[2] - range[1])
    BY <1>3 DEF KernelPages
  <2> QED
    BY <1>1, <1>2, <2>1
<1>4. ASSUME NEW byte \in Bytes(page), NEW range \in Reserved, range[1] <= byte, byte < range[2]
      PROVE  page \in KernelPages
  <2>1. range[1] < range[2]
    BY <1>1, <1>4
  <2>2. page \in ReservedPages(range[1], range[2] - range[1])
    BY <1>1, <1>2, <1>4, <2>1
  <2> QED
    BY <2>1, <2>2 DEF KernelPages
<1> QED
  BY <1>3, <1>4

\* The boot marks usable what is RAM, byte by byte.
LEMMA BootMarksRam ==
  ASSUME MemoryInvariant, MemoryInit
  PROVE  UsableIsRam'
<1>1. map \in Seq(Entry)
  BY MemoryAssumption DEF MemoryInvariant, TypeOK
<1>2. ASSUME NEW i \in DOMAIN map
      PROVE  map[i].base \in 0..MaxWord /\ map[i].length \in 0..MaxWord
  <2>1. map[i] \in Entry
    BY <1>1
  <2> QED
    BY <2>1 DEF Entry
<1>3. map' = map /\ usable' = Marked(map, "ram", UsablePages) \ Conflicting
  BY DEF MemoryInit
<1> DEFINE Ram(page) == \E i \in DOMAIN map :
                          /\ map[i].type = "ram"
                          /\ \A byte \in Bytes(page) : Within(byte, map[i].base, map[i].length)
           Other(page) == \E byte \in Bytes(page), i \in DOMAIN map :
                            /\ map[i].type = "other"
                            /\ Within(byte, map[i].base, map[i].length)
           Kernel(page) == \E byte \in Bytes(page) : \E range \in Reserved :
                             range[1] <= byte /\ byte < range[2]
<1>4. ASSUME NEW page \in Managed
      PROVE  /\ page \in Marked(map, "ram", UsablePages) <=> Ram(page)
             /\ page \in Marked(map, "other", ReservedPages) <=> Other(page)
             /\ page \in KernelPages <=> Kernel(page)
  <2>1. \A i \in DOMAIN map :
          page \in UsablePages(map[i].base, map[i].length)
            <=> \A byte \in Bytes(page) : Within(byte, map[i].base, map[i].length)
    BY <1>2, UsableIsWhole, Zenon
  <2>2. \A i \in DOMAIN map :
          page \in ReservedPages(map[i].base, map[i].length)
            <=> \E byte \in Bytes(page) : Within(byte, map[i].base, map[i].length)
    BY <1>2, ReservedIsTouched, Zenon
  <2>3. page \in Marked(map, "ram", UsablePages)
          <=> \E i \in DOMAIN map : /\ map[i].type = "ram"
                                    /\ page \in UsablePages(map[i].base, map[i].length)
    BY DEF Marked
  <2>4. page \in Marked(map, "other", ReservedPages)
          <=> \E i \in DOMAIN map : /\ map[i].type = "other"
                                    /\ page \in ReservedPages(map[i].base, map[i].length)
    BY DEF Marked
  <2>5. page \in Marked(map, "ram", UsablePages) <=> Ram(page)
    BY <2>1, <2>3, Zenon
  <2>6. page \in Marked(map, "other", ReservedPages) <=> Other(page)
    BY <2>2, <2>4, Zenon
  <2> QED
    BY <2>5, <2>6, KernelIsTouched, Zenon
<1>5. usable' = {page \in Managed : Ram(page) /\ ~Other(page) /\ ~Kernel(page)}
  BY <1>3, <1>4, MarkedIsManaged, Zenon DEF Conflicting
<1>6. \A page : (\A byte \in Bytes(page) :
                    /\ \A i \in DOMAIN map :
                         map[i].type = "other" => ~Within(byte, map[i].base, map[i].length)
                    /\ \A range \in Reserved : ~(range[1] <= byte /\ byte < range[2]))
                  <=> ~Other(page) /\ ~Kernel(page)
  BY Zenon
<1>7. {page \in Managed : Ram(page) /\ ~Other(page) /\ ~Kernel(page)}
        = {page \in Managed :
             /\ Ram(page)
             /\ \A byte \in Bytes(page) :
                  /\ \A i \in DOMAIN map :
                       map[i].type = "other" => ~Within(byte, map[i].base, map[i].length)
                  /\ \A range \in Reserved : ~(range[1] <= byte /\ byte < range[2])}
  BY <1>6, Zenon
<1> QED
  BY <1>3, <1>5, <1>7, Zenon DEF UsableIsRam, Managed, Bytes, Within

(***************************************************************************)
(* The theorems.                                                           *)
(***************************************************************************)
\* Whatever the firmware's map, the inductive invariant of memory.c's bitmaps and
\* heap holds in every state.
THEOREM MemoryInvariantHolds == Spec => []MemoryInvariant
BY InvariantInitially, InvariantKept, PTL DEF Spec

\* Both bitmaps, the heap's three addresses and the counts stay in their ranges
\* (memory.c:15-29).
THEOREM MemoryTypeCorrect == Spec => []TypeOK
<1>1. MemoryInvariant => TypeOK
  BY DEF MemoryInvariant
<1> QED
  BY <1>1, MemoryInvariantHolds, PTL

\* Every usable page is free, held or the heap's, none is two of these, and the
\* bytes reported at boot are theirs (memory.c:387-434).
THEOREM PagesAlwaysAccounted == Spec => []PagesAccounted
<1>1. MemoryInvariant => PagesAccounted
  <2> SUFFICES ASSUME MemoryInvariant, ready
               PROVE  /\ held \subseteq used /\ held \cap HeapSet = {}
                      /\ usable = FreePages \cup held \cup HeapSet
                      /\ total = PageSize * (Cardinality(FreePages) + Cardinality(held)
                                               + HeapPages)
    BY DEF PagesAccounted, HeapSet
  <2>1. total = PageSize * Cardinality(usable)
    BY DEF MemoryInvariant, Accounts
  <2> QED
    BY <2>1, KindsAddUp, Zenon DEF MemoryInvariant, Accounts, FreePages
<1> QED
  BY <1>1, MemoryInvariantHolds, PTL

\* Blocks of malloc are aligned, inside the heap and apart (memory.c:436-458).
THEOREM BlocksAlwaysApart == Spec => []BlocksAreApart
<1>1. MemoryInvariant => BlocksAreApart
  BY DEF MemoryInvariant
<1> QED
  BY <1>1, MemoryInvariantHolds, PTL

\* A request is granted the lowest run of free pages that is long enough, and is
\* denied only if there is none (memory.c:158-168, 387-407).
THEOREM LowestRunIsAlwaysGranted == Spec => LowestRunIsGranted
<1> DEFINE Fit(n) == LET granted == held' \ held
                         runs == {page \in Pages : Run(page, n) \subseteq FreePages}
                     IN  IF runs = {} THEN granted = {} ELSE granted = Run(Min(runs), n)
           Grant == ready => \A n \in 1..PageCount : PageAllocContiguous(n) => Fit(n)
<1>1. MemoryInvariant => Grant
  <2> SUFFICES ASSUME MemoryInvariant, ready, NEW n \in 1..PageCount, PageAllocContiguous(n)
               PROVE  Fit(n)
    OBVIOUS
  <2> QED
    BY FirstFitIsLowest
<1>2. MemoryInvariant => [Grant]_vars
  BY <1>1
<1> QED
  BY <1>2, MemoryInvariantHolds, PTL DEF Spec, LowestRunIsGranted

\* The pages the allocator gives are RAM of the firmware's map, whole, and of no
\* other entry or kernel range (memory.c:94-147, 186-217).
THEOREM UsableIsAlwaysRam == Spec => []UsableIsRam
<1>1. Init => UsableIsRam
  BY DEF Init, UsableIsRam
<1>2. MemoryInvariant /\ UsableIsRam /\ [Next]_vars => UsableIsRam'
  <2> SUFFICES ASSUME MemoryInvariant, UsableIsRam, [Next]_vars PROVE UsableIsRam'
    OBVIOUS
  <2>1. CASE MemoryInit
    BY <2>1, BootMarksRam
  <2>2. CASE RefuseMap \/ RefuseEntry
    <3>1. ~ready /\ ready' = ready
      BY <2>2 DEF RefuseMap, RefuseEntry, Booting, MemoryInvariant, Accounts
    <3> QED
      BY <3>1 DEF UsableIsRam
  <2>3. CASE ~Boot
    <3>1. UNCHANGED <<usable, ready, map>>
      BY <2>3 DEF Next, vars, PageAllocContiguous, PageFree, Malloc
    <3> QED
      BY <3>1 DEF UsableIsRam, Bytes, Within
  <2> QED
    BY <2>1, <2>2, <2>3 DEF Boot
<1> QED
  BY <1>1, <1>2, MemoryInvariantHolds, PTL DEF Spec
=============================================================================
