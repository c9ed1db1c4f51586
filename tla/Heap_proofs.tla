----------------------------- MODULE Heap_proofs ----------------------------
(***************************************************************************)
(* Proofs about memory - the page frame allocator, a process's pages and   *)
(* the two heaps - for every memory map, page size, set of segments, heap  *)
(* size and set of requests.  The layers rest on each other: that no frame *)
(* is handed out twice needs the bitmap to be exact, and the bitmap stays  *)
(* exact only because a freed block had one holder (PmmInv); that a mapped *)
(* frame stays private, or is below the kernel's end where none was left,  *)
(* needs both (MapInv); that every heap block is usable memory needs the   *)
(* pages up to the break or the end of the area (AreaMapped, Chain).       *)
(***************************************************************************)
EXTENDS Heap, FiniteSetTheorems, TLAPS

\* The blocks somebody holds.
Owned == {b \in Block : holders[b] > 0}

\* The counter: max_blocks, what init_pmm counted on top, and the owned blocks.
CounterExact ==
    used_blocks = MaxBlocks + KernelEnd + Cardinality(BootInfo) + Cardinality(Owned)

PmmInv == TypeOK /\ NoDoubleAllocation /\ BitmapExact /\ CounterExact /\ aborted = FALSE

\* The process's frames are held by it alone.  A mapped frame is one of them,
\* mapped once, except in an area that found none; so is the frame of a page
\* table, which no page is mapped to.
PagesOwned ==
    /\ \A v \in Virt : page[v] # Absent => page[v] \in mine \/ OnLowMemory(v)
    /\ \A v, w \in Virt : page[v] \in mine /\ page[v] = page[w] => v = w

TablesOwned == \A t \in Tables : table[t] \notin {Absent, 0} =>
                  /\ table[t] \in mine
                  /\ \A v \in Virt : page[v] # table[t]
                  /\ \A u \in Tables : table[u] = table[t] => u = t

MapInv == /\ mem_len \in 0..MaxLen
          /\ page \in [Virt -> Block \cup {Absent}]
          /\ table \in [Tables -> Block \cup {Absent}]
          /\ loaded \in 0..Len(Areas)
          /\ mine \subseteq Block
          /\ \A b \in mine : holders[b] = 1
          /\ PagesOwned
          /\ TablesOwned

\* The area blocks may lie in is mapped: the kernel's since the first
\* allocation, a process's up to its break.  Of the program and the stack,
\* what was loaded is mapped and the rest still is not.
Placed == \A i \in 1..Len(Areas) : \A v \in Pages(Areas[i]) : page[v] # Absent <=> i <= loaded

HeapMapped == \A v \in Virt : v > CodeLen /\ PAGE * v < End => page[v] # Absent

AreaMapped ==
    /\ kind = "kernel" /\ blocks = << >> => \A v \in Virt : page[v] = Absent
    /\ kind = "kernel" /\ blocks # << >> => \A v \in 1..HeapPages : page[v] # Absent
    /\ kind = "kernel" => table["directory"] = Absent
    /\ kind = "libc" => Placed /\ HeapMapped
    /\ pending # Idle => kind = "libc"

HBlock == [addr : Nat, size : Nat, used : BOOLEAN]

HeapTypes == /\ kind \in {"kernel", "libc"}
             /\ blocks \in Seq(HBlock)
             /\ used_memory \in Int
             /\ pending \in [size : Nat, old : Nat]

\* Blocks follow each other and end inside the area.
Chain(bl, lo, limit) ==
    /\ \A i \in 1..(Len(bl) - 1) : bl[i + 1].addr - EndOf(bl[i]) \in 0..(SIZEOF + 1)
    /\ \A i \in 1..Len(bl) : lo <= bl[i].addr /\ Data(bl[i]) + bl[i].size <= limit

\* Where the area of a heap begins.
Floor == IF kind = "kernel" THEN PAGE ELSE PAGE * (1 + CodeLen)

HeapInv == PmmInv /\ MapInv /\ AreaMapped /\ HeapTypes /\ Chain(blocks, Floor, Limit) /\ UsageExact

\* Sets of blocks are finite.
LEMMA CardType ==
    ASSUME NEW bs \in SUBSET Block
    PROVE  IsFiniteSet(bs) /\ Cardinality(bs) \in Nat /\ Cardinality(bs) <= Blocks
<1>1. IsFiniteSet(Block) /\ Cardinality(Block) = Blocks
  BY FS_Interval, PmmAssumption DEF Block
<1> QED BY <1>1, FS_Subset, FS_CardinalityType

\* Adding or removing blocks moves the counter as it moves the count of blocks.
LEMMA CardOfUnion ==
    ASSUME NEW S \in SUBSET Block, NEW bs \in SUBSET Block, S \cap bs = {}
    PROVE  Cardinality(S \cup bs) = Cardinality(S) + Cardinality(bs)
<1>1. IsFiniteSet(S) /\ IsFiniteSet(bs) /\ Cardinality(S) \in Nat /\ Cardinality(bs) \in Nat
  BY CardType
<1>2. Cardinality(S \cap bs) = 0
  BY FS_EmptySet
<1>3. Cardinality(S \cup bs) = Cardinality(S) + Cardinality(bs) - Cardinality(S \cap bs)
  BY <1>1, FS_Union, Zenon
<1> QED BY <1>1, <1>2, <1>3

\* Taking a subset away subtracts its size.
LEMMA CardOfDifference ==
    ASSUME NEW S \in SUBSET Block, NEW bs \in SUBSET S
    PROVE  Cardinality(S \ bs) = Cardinality(S) - Cardinality(bs)
<1>1. (S \ bs) \cup bs = S /\ (S \ bs) \cap bs = {}
  OBVIOUS
<1>2. Cardinality(S) = Cardinality(S \ bs) + Cardinality(bs)
  BY <1>1, CardOfUnion
<1> QED BY <1>2, CardType

\* The counter stays far below its wrap-around.
LEMMA CounterSmall ==
    ASSUME NEW S \in SUBSET Block
    PROVE  MaxBlocks + KernelEnd + Cardinality(BootInfo) + Cardinality(S) \in 1..(WRAP - 1)
<1>1. Cardinality(BootInfo) \in Nat /\ Cardinality(BootInfo) <= Blocks
  BY CardType, PmmAssumption
<1>2. Cardinality(S) \in Nat /\ Cardinality(S) <= Blocks
  BY CardType
<1> QED BY <1>1, <1>2, PmmAssumption

\* While the counter is exact the unsigned difference is far from zero.
LEMMA HeadroomAmple ==
    ASSUME PmmInv
    PROVE  Headroom \in Nat /\ Headroom > 0 /\ Headroom >= MaxRun /\ Headroom >= 2 * LARGE
<1> DEFINE k == KernelEnd + Cardinality(BootInfo) + Cardinality(Owned)
<1>1. k \in Nat /\ k <= 3 * Blocks /\ k > 0
  <2>1. Cardinality(BootInfo) \in Nat /\ Cardinality(BootInfo) <= Blocks
    BY CardType, PmmAssumption
  <2>2. Cardinality(Owned) \in Nat /\ Cardinality(Owned) <= Blocks
    BY CardType DEF Owned
  <2> QED BY <2>1, <2>2, PmmAssumption
<1>2. Headroom = (0 - k) % WRAP
  <2>1. MaxBlocks - used_blocks = 0 - k
    <3>1. Cardinality(BootInfo) \in Nat /\ Cardinality(Owned) \in Nat
      BY CardType, PmmAssumption DEF Owned
    <3> QED BY <3>1, PmmAssumption DEF PmmInv, CounterExact
  <2> QED BY <2>1 DEF Headroom
<1> HIDE DEF k
<1>3. (0 - k) % WRAP = WRAP - k
  BY <1>1, PmmAssumption
<1> QED BY <1>1, <1>2, <1>3, PmmAssumption

\* The aligned block found inside a run of two large pages starts a whole
\* large page of that run.
LEMMA AlignUpLemma ==
    ASSUME NEW f \in Nat
    PROVE  AlignUp(f) \in Nat /\ f < AlignUp(f) /\ AlignUp(f) <= f + LARGE
<1> DEFINE d == f \div LARGE
           r == f % LARGE
<1>1. d \in Nat /\ r \in 0..(LARGE - 1) /\ f = LARGE * d + r
  BY PmmAssumption
<1>2. (d + 1) * LARGE = LARGE * d + LARGE
  BY <1>1, PmmAssumption
<1>3. LARGE * d \in Nat
  BY <1>1, PmmAssumption
<1> HIDE DEF d, r
<1>4. f < (d + 1) * LARGE /\ (d + 1) * LARGE <= f + LARGE /\ (d + 1) * LARGE \in Nat
  BY <1>1, <1>2, <1>3, PmmAssumption
<1> QED BY <1>4 DEF AlignUp, d

\* Taking blocks whose bits are clear keeps the invariant: nobody held them.
LEMMA TakeClearBlocks ==
    ASSUME PmmInv, NEW bs \in SUBSET (Block \ used),
           mmap_set(bs), Give(bs), UNCHANGED aborted
    PROVE  PmmInv'
<1>0. /\ used \subseteq Block /\ used_blocks \in Int /\ holders \in [Block -> Nat]
      /\ aborted \in BOOLEAN /\ bs \subseteq Block
      /\ BootInfo \subseteq Block
  BY PmmAssumption DEF PmmInv, TypeOK
<1>1. \A b \in bs : holders[b] = 0 /\ b \in (Avail \ Reserved) \ {0}
  BY <1>0 DEF PmmInv, BitmapExact
<1>2. \A b \in Block : holders'[b] = IF b \in bs THEN holders[b] + 1 ELSE holders[b]
  BY DEF Give
<1>c. CounterExact' /\ used_blocks' \in 0..(WRAP - 1)
  <2>1. Owned \subseteq Block /\ Owned \cap bs = {} /\ Owned' = Owned \cup bs
    BY <1>0, <1>1, <1>2 DEF Owned
  <2>2. Cardinality(Owned') = Cardinality(Owned) + Cardinality(bs)
    BY <2>1, <1>0, CardOfUnion
  <2>3. /\ Cardinality(bs) \in Nat /\ Cardinality(Owned) \in Nat
        /\ Cardinality(BootInfo) \in Nat
    BY <1>0, <2>1, CardType
  <2>4. /\ used_blocks' = (used_blocks + Cardinality(bs)) % WRAP
        /\ used_blocks = MaxBlocks + KernelEnd + Cardinality(BootInfo) + Cardinality(Owned)
    BY DEF mmap_set, PmmInv, CounterExact
  <2>5. MaxBlocks + KernelEnd + Cardinality(BootInfo) + Cardinality(Owned') \in 1..(WRAP - 1)
    BY <2>1, <1>0, CounterSmall
  <2>6. used_blocks + Cardinality(bs)
           = MaxBlocks + KernelEnd + Cardinality(BootInfo) + Cardinality(Owned')
    BY <2>2, <2>3, <2>4, PmmAssumption
  <2>7. used_blocks' = used_blocks + Cardinality(bs)
    BY <2>4, <2>5, <2>6, PmmAssumption
  <2> QED BY <2>5, <2>6, <2>7 DEF CounterExact
<1>3. TypeOK'
  <2>1. used_blocks' \in 0..(WRAP - 1)
    BY <1>c
  <2>2. used' \subseteq Block
    BY <1>0 DEF mmap_set
  <2>3. holders' \in [Block -> Nat]
    BY <1>0 DEF Give
  <2> QED BY <1>0, <2>1, <2>2, <2>3 DEF TypeOK
<1>4. NoDoubleAllocation'
  <2>1. \A b \in Block : holders'[b] <= 1
    BY <1>0, <1>1, <1>2 DEF PmmInv, NoDoubleAllocation
  <2>2. \A b \in Block : holders'[b] > 0 => b \in (Avail \ Reserved) \ {0}
    BY <1>1, <1>2 DEF PmmInv, NoDoubleAllocation
  <2> QED BY <2>1, <2>2 DEF NoDoubleAllocation
<1>5. BitmapExact'
  <2>1. used' = used \cup bs
    BY DEF mmap_set
  <2>2. \A b \in Block : holders'[b] > 0 <=> b \in bs \/ holders[b] > 0
    BY <1>0, <1>1, <1>2
  <2>3. \A b \in Block : b \in used <=> (holders[b] > 0 \/ b = 0 \/ b \notin Avail \/ b \in Reserved)
    BY DEF PmmInv, BitmapExact
  <2> QED BY <1>0, <2>1, <2>2, <2>3 DEF BitmapExact
<1> QED BY <1>c, <1>3, <1>4, <1>5 DEF PmmInv

\* Block 0 is never clear, so a run that mmap_find_free_frame reports starts
\* where it begins and all of it is clear.
LEMMA RunIsClear ==
    ASSUME PmmInv, NEW num \in Nat \ {0}, NEW e \in Block, FirstRunEnd(e, num)
    PROVE  /\ FrameStart(e, num) = e - num + 1
           /\ e - num + 1 \in Nat
           /\ Run(e - num + 1, num) \subseteq Block \ used
<1>1. RunEndsAt(e, num) /\ e \in Nat /\ e < Blocks /\ Blocks \in Nat
  BY PmmAssumption DEF FirstRunEnd, Block
<1>2. 0 \in Block /\ 0 \in used
  <2>1. 0 \in Block
    BY PmmAssumption DEF Block
  <2> QED BY <2>1 DEF PmmInv, BitmapExact
<1>3. e - num + 1 # 0
  BY <1>1, <1>2 DEF RunEndsAt
<1>4. Run(e - num + 1, num) \subseteq Block \ used
  <2> SUFFICES ASSUME NEW b \in Run(e - num + 1, num) PROVE b \in Block \ used
    OBVIOUS
  <2>1. b \in Block /\ b \in Int /\ e - num < b /\ b <= e
    BY <1>1 DEF Run, Block
  <2> QED BY <1>1, <2>1 DEF RunEndsAt
<1> QED BY <1>1, <1>3, <1>4 DEF RunEndsAt, FrameStart

\* init_pmm establishes the invariant.
LEMMA PmmInitially == Init => PmmInv
<1> SUFFICES ASSUME Init PROVE PmmInv
  OBVIOUS
<1>1. Cardinality(BootInfo) \in Nat
  BY CardType, PmmAssumption
<1>2. CounterExact /\ used_blocks \in 0..(WRAP - 1)
  <2>0. Owned = {}
    BY DEF Init, Owned
  <2>1. Cardinality(Owned) = 0
    BY <2>0, FS_EmptySet
  <2>2. MaxBlocks + KernelEnd + Cardinality(BootInfo) \in 1..(WRAP - 1)
    BY <1>1, <2>0, <2>1, CounterSmall, PmmAssumption
  <2>3. used_blocks = MaxBlocks + KernelEnd + Cardinality(BootInfo)
    BY <2>2, PmmAssumption DEF Init
  <2> QED BY <1>1, <2>1, <2>2, <2>3, PmmAssumption DEF CounterExact
<1>3. \A b \in Block : holders[b] = 0
  BY DEF Init
<1>5. TypeOK
  BY <1>2 DEF Init, TypeOK
<1>6. NoDoubleAllocation
  BY <1>3 DEF NoDoubleAllocation
<1>7. BitmapExact
  BY <1>3 DEF Init, BitmapExact
<1> QED BY <1>2, <1>5, <1>6, <1>7 DEF PmmInv, Init

\* Every operation of the frame allocator keeps it.
LEMMA PmmStep == PmmInv /\ [Next]_pmmVars => PmmInv'
<1> SUFFICES ASSUME PmmInv, [Next]_pmmVars PROVE PmmInv'
  OBVIOUS
<1>0. ASSUME Fails PROVE PmmInv'
  BY <1>0 DEF Fails, pmmVars, PmmInv, TypeOK, NoDoubleAllocation, BitmapExact, CounterExact, Owned
<1>a. aborted = FALSE /\ aborted \in BOOLEAN
  BY DEF PmmInv, TypeOK
<1>1. CASE pmm_alloc_page
  <2>1. ASSUME NEW b \in Block, FirstFree(b), mmap_set({b}), Give({b}), UNCHANGED aborted
        PROVE  PmmInv'
    <3>1. {b} \in SUBSET (Block \ used)
      BY <2>1 DEF FirstFree
    <3> QED BY <2>1, <3>1, TakeClearBlocks
  <2>2. ~(Headroom <= 0)
    BY HeadroomAmple
  <2> QED BY <1>1, <1>0, <2>1, <2>2 DEF pmm_alloc_page
<1>2. ASSUME NEW num \in 1..MaxRun, pmm_alloc_pages(num) PROVE PmmInv'
  <2>1. ASSUME NEW e \in Block, FirstRunEnd(e, num),
               mmap_set(Run(FrameStart(e, num), num)),
               Give(Run(FrameStart(e, num), num)), UNCHANGED aborted
        PROVE  PmmInv'
    <3>1. num \in Nat \ {0}
      BY PmmAssumption
    <3>2. Run(FrameStart(e, num), num) \in SUBSET (Block \ used)
      BY <2>1, <3>1, RunIsClear
    <3> QED BY <2>1, <3>2, TakeClearBlocks
  <2> QED BY <1>2, <1>0, <2>1 DEF pmm_alloc_pages
<1>3. CASE pmm_alloc_aligned_large_page
  <2> DEFINE f(e) == FrameStart(e, 2 * LARGE)
  <2>1. ASSUME NEW e \in Block, FirstRunEnd(e, 2 * LARGE),
               mmap_set(Run(AlignUp(f(e)), LARGE)),
               Give(Run(AlignUp(f(e)), LARGE)), UNCHANGED aborted
        PROVE  PmmInv'
    <3>1. 2 * LARGE \in Nat \ {0} /\ LARGE \in Nat
      BY PmmAssumption
    <3>2. f(e) \in Nat /\ Run(f(e), 2 * LARGE) \subseteq Block \ used
      BY <2>1, <3>1, RunIsClear
    <3> HIDE DEF f
    <3>3. /\ AlignUp(f(e)) \in Nat /\ f(e) < AlignUp(f(e))
          /\ AlignUp(f(e)) <= f(e) + LARGE
      BY <3>2, AlignUpLemma
    <3>4. Run(AlignUp(f(e)), LARGE) \subseteq Run(f(e), 2 * LARGE)
      BY <3>1, <3>2, <3>3 DEF Run, Block
    <3>5. Run(AlignUp(f(e)), LARGE) \in SUBSET (Block \ used)
      BY <3>2, <3>4
    <3> QED BY <2>1, <3>5, TakeClearBlocks
  <2> QED BY <1>3, <1>0, <2>1 DEF pmm_alloc_aligned_large_page
<1>4. ASSUME NEW f \in Block, NEW num \in 1..MaxRun, pmm_free_pages(f, num)
      PROVE  PmmInv'
  <2> DEFINE bs == Run(f, num)
  <2>1. /\ bs \subseteq Block
        /\ used' = used \ bs
        /\ used_blocks' = (used_blocks - Cardinality(bs)) % WRAP
        /\ \A b \in bs : holders[b] > 0
        /\ holders' = [b \in Block |-> IF b \in bs THEN holders[b] - 1 ELSE holders[b]]
        /\ aborted' = aborted
    BY <1>4 DEF pmm_free_pages, mmap_unset, Take, Run
  <2> HIDE DEF bs
  <2>2. /\ used \subseteq Block /\ used_blocks \in Int /\ holders \in [Block -> Nat]
        /\ \A b \in Block : holders[b] <= 1
        /\ \A b \in Block : holders[b] > 0 => b \in (Avail \ Reserved) \ {0}
        /\ \A b \in Block : b \in used <=>
              (holders[b] > 0 \/ b = 0 \/ b \notin Avail \/ b \in Reserved)
    BY DEF PmmInv, TypeOK, NoDoubleAllocation, BitmapExact
  <2>3. \A b \in bs : holders[b] = 1 /\ holders'[b] = 0 /\ b \in (Avail \ Reserved) \ {0}
    BY <2>1, <2>2
  <2>c. CounterExact' /\ used_blocks' \in 0..(WRAP - 1)
    <3>1. Owned \subseteq Block /\ bs \subseteq Owned /\ Owned' = Owned \ bs
      BY <2>1, <2>2, <2>3 DEF Owned
    <3>2. Cardinality(Owned') = Cardinality(Owned) - Cardinality(bs)
      BY <3>1, CardOfDifference
    <3>3. /\ Cardinality(bs) \in Nat /\ Cardinality(Owned) \in Nat
          /\ Cardinality(BootInfo) \in Nat
      BY <2>1, <3>1, CardType, PmmAssumption
    <3>4. used_blocks = MaxBlocks + KernelEnd + Cardinality(BootInfo) + Cardinality(Owned)
      BY DEF PmmInv, CounterExact
    <3>5. MaxBlocks + KernelEnd + Cardinality(BootInfo) + Cardinality(Owned') \in 1..(WRAP - 1)
      BY <3>1, CounterSmall
    <3>6. used_blocks - Cardinality(bs)
             = MaxBlocks + KernelEnd + Cardinality(BootInfo) + Cardinality(Owned')
      BY <3>2, <3>3, <3>4, PmmAssumption
    <3>7. used_blocks' = used_blocks - Cardinality(bs)
      BY <2>1, <3>5, <3>6, PmmAssumption
    <3> QED BY <3>5, <3>6, <3>7 DEF CounterExact
  <2>4. TypeOK'
    <3>1. holders' \in [Block -> Nat]
      BY <2>1, <2>2
    <3> QED BY <1>a, <2>c, <2>1, <2>2, <3>1 DEF TypeOK
  <2>5. NoDoubleAllocation'
    BY <2>1, <2>2, <2>3 DEF NoDoubleAllocation
  <2>6. BitmapExact'
    <3>1. \A b \in Block : holders'[b] > 0 <=> b \notin bs /\ holders[b] > 0
      BY <2>1, <2>3
    <3> QED BY <2>1, <2>2, <2>3, <3>1 DEF BitmapExact
  <2> QED BY <1>a, <2>c, <2>1, <2>4, <2>5, <2>6 DEF PmmInv
<1>5. CASE UNCHANGED pmmVars
  BY <1>5, <1>0 DEF Fails
<1> QED BY <1>1, <1>2, <1>3, <1>4, <1>5 DEF Next
-----------------------------------------------------------------------------
(* Arithmetic of pages.                                                    *)

\* Multiples of the page size are a page apart.
LEMMA MulPage ==
    ASSUME NEW x \in Int, NEW y \in Int
    PROVE  /\ PAGE * x \in Int
           /\ PAGE * (x + y) = PAGE * x + PAGE * y
           /\ x < y => PAGE * x + PAGE <= PAGE * y
<1>1. PAGE * x \in Int /\ PAGE * y \in Int /\ PAGE * (x + y) = PAGE * x + PAGE * y
  BY AddrSpaceAssumption
<1>2. ASSUME x < y PROVE PAGE * x + PAGE <= PAGE * y
  <2> DEFINE k == y - x - 1
  <2>1. k \in Nat
    BY <1>2
  <2>2. PAGE * k \in Nat
    BY <2>1, AddrSpaceAssumption
  <2>3. PAGE * y = PAGE * x + PAGE + PAGE * k
    BY AddrSpaceAssumption
  <2> HIDE DEF k
  <2> QED BY <1>1, <2>2, <2>3, AddrSpaceAssumption
<1> QED BY <1>1, <1>2

\* DIVIDE_UP rounds up.
LEMMA DivideUpLemma ==
    ASSUME NEW n \in Nat
    PROVE  /\ DivideUp(n) \in Nat
           /\ n <= PAGE * DivideUp(n)
           /\ PAGE * DivideUp(n) < n + PAGE
<1> DEFINE a == n + PAGE - 1
           d == a \div PAGE
           m == a % PAGE
<1>1. a \in Nat
  BY AddrSpaceAssumption
<1> HIDE DEF a
<1>2. d \in Nat /\ m \in 0..(PAGE - 1) /\ a = PAGE * d + m
  BY <1>1, AddrSpaceAssumption
<1>3. PAGE * d \in Int
  BY <1>2, AddrSpaceAssumption
<1> HIDE DEF d, m
<1>4. n <= PAGE * d /\ PAGE * d < n + PAGE
  BY <1>2, <1>3, AddrSpaceAssumption DEF a
<1> QED BY <1>2, <1>4 DEF DivideUp, d, a

\* The page a byte lies in.
LEMMA PageOf ==
    ASSUME NEW u \in Nat
    PROVE  /\ u \div PAGE \in Nat
           /\ PAGE * (u \div PAGE) <= u
           /\ u < PAGE * (u \div PAGE) + PAGE
<1> DEFINE d == u \div PAGE
           m == u % PAGE
<1>1. d \in Nat /\ m \in 0..(PAGE - 1) /\ u = PAGE * d + m
  BY AddrSpaceAssumption
<1>2. PAGE * d \in Int
  BY <1>1, AddrSpaceAssumption
<1> HIDE DEF d, m
<1>3. d \in Nat /\ PAGE * d <= u /\ u < PAGE * d + PAGE
  BY <1>1, <1>2, AddrSpaceAssumption
<1> QED BY <1>3 DEF d

\* The break plus what remains of its page is the start of the next page.
LEMMA BreakLemma ==
    ASSUME mem_len \in Nat
    PROVE  /\ End \in Nat /\ Remaining \in Nat
           /\ PAGE * DivideUp(End) = End + Remaining
<1>1. End \in Nat
  <2>1. PAGE * CodeLen \in Nat
    BY AddrSpaceAssumption
  <2> QED BY <2>1, AddrSpaceAssumption DEF End
<1> DEFINE D == DivideUp(End)
           d == End \div PAGE
           m == End % PAGE
<1>2. D \in Nat /\ End <= PAGE * D /\ PAGE * D < End + PAGE
  BY <1>1, DivideUpLemma
<1>3. d \in Nat /\ m \in 0..(PAGE - 1) /\ End = PAGE * d + m
  BY <1>1, AddrSpaceAssumption
<1>4. Remaining = IF m = 0 THEN 0 ELSE PAGE - m
  BY DEF Remaining
<1>5. /\ PAGE * d \in Int /\ PAGE * D \in Int /\ PAGE * (d + 1) = PAGE * d + PAGE
  <2>1. PAGE * 1 = PAGE
    BY AddrSpaceAssumption
  <2> QED BY <1>2, <1>3, <2>1, MulPage
<1>6. d < D => PAGE * d + PAGE <= PAGE * D
  BY <1>2, <1>3, MulPage
<1>7. d + 1 < D => PAGE * (d + 1) + PAGE <= PAGE * D
  BY <1>2, <1>3, MulPage
<1>8. D < d => PAGE * D + PAGE <= PAGE * d
  BY <1>2, <1>3, MulPage
<1> HIDE DEF D, d, m
<1>9. PAGE * D = End + Remaining /\ Remaining \in Nat
  <2>1. D = IF m = 0 THEN d ELSE d + 1
    BY <1>1, <1>2, <1>3, <1>5, <1>6, <1>7, <1>8, AddrSpaceAssumption
  <2> QED BY <1>1, <1>3, <1>4, <1>5, <2>1, AddrSpaceAssumption
<1> QED BY <1>1, <1>9 DEF D

-----------------------------------------------------------------------------
(* The pages of a process.                                                 *)

\* Every place below the number of elements is the rank of one of them.
LEMMA NthLemma ==
    ASSUME NEW S \in SUBSET Block, NEW i \in 0..(Cardinality(S) - 1)
    PROVE  Nth(S, i) \in S /\ Cardinality({c \in S : c < Nth(S, i)}) = i
<1> DEFINE below(b) == {c \in S : c < b}
           n == Cardinality(S)
           rank == [b \in S |-> Cardinality(below(b))]
<1>0. S \subseteq Nat /\ IsFiniteSet(S) /\ n \in Nat
  BY CardType DEF Block
<1>a. \A b \in S : below(b) \subseteq S /\ b \notin below(b)
  BY <1>0
<1>b. \A a, b \in S : a < b => a \in below(b) /\ below(a) \subseteq below(b)
  <2> SUFFICES ASSUME NEW a \in S, NEW b \in S, a < b
               PROVE  a \in below(b) /\ \A c \in below(a) : c \in below(b)
    OBVIOUS
  <2> QED BY <1>0
<1> HIDE DEF below
<1>1. \A b \in S : IsFiniteSet(below(b)) /\ Cardinality(below(b)) \in Nat
  BY <1>a, CardType
<1>2. \A b \in S : Cardinality(below(b)) < n
  <2> SUFFICES ASSUME NEW b \in S PROVE Cardinality(below(b)) < n
    OBVIOUS
  <2>1. Cardinality(below(b)) <= n /\ Cardinality(below(b)) # n
    BY <1>0, <1>a, FS_Subset
  <2> QED BY <1>0, <1>1, <2>1
<1>3. \A a, b \in S : a < b => Cardinality(below(a)) # Cardinality(below(b))
  <2> SUFFICES ASSUME NEW a \in S, NEW b \in S, a < b
               PROVE  Cardinality(below(a)) # Cardinality(below(b))
    OBVIOUS
  <2>1. below(a) \in SUBSET below(b) /\ below(a) # below(b)
    BY <1>a, <1>b
  <2> QED BY <1>1, <2>1, FS_Subset
<1>4. rank \in [S -> 0..(n - 1)]
  BY <1>0, <1>1, <1>2
<1>5. \A a, b \in S : rank[a] = rank[b] => a = b
  <2> SUFFICES ASSUME NEW a \in S, NEW b \in S, rank[a] = rank[b], a # b PROVE FALSE
    OBVIOUS
  <2>1. a < b \/ b < a
    BY <1>0
  <2> QED BY <1>3, <2>1
<1> HIDE DEF rank
<1>6. rank \in Injection(S, 0..(n - 1))
  BY <1>4, <1>5 DEF Injection, IsInjective
<1>7. IsFiniteSet(0..(n - 1)) /\ Cardinality(0..(n - 1)) = n
  BY <1>0, FS_Interval
<1>8. rank \in Surjection(S, 0..(n - 1))
  BY <1>6, <1>7, FS_Injection
<1>9. PICK b \in S : rank[b] = i
  BY <1>8 DEF Surjection
<1>10. \E a \in S : Cardinality({c \in S : c < a}) = i
  BY <1>9 DEF rank, below
<1> QED BY <1>10 DEF Nth

\* The segments and the stack lie apart from each other and from the heap, and
\* each is smaller than the kernel.
LEMMA AreasApart ==
    /\ Len(Areas) \in Nat \ {0} /\ CodeLen \in Nat /\ HeapTop \in Nat /\ 2 + CodeLen <= HeapTop
    /\ Virt \subseteq Nat /\ \A v \in Nat : v <= HeapTop => v \in Virt
    /\ \A i \in 1..Len(Areas) : /\ Areas[i].base \in Nat /\ Areas[i].num \in 1..KernelEnd
                                /\ Pages(Areas[i]) \subseteq Virt
                                /\ \A v \in Pages(Areas[i]) : ~InHeap(v)
    /\ \A i, j \in 1..Len(Areas) : \A v \in Pages(Areas[i]) : v \in Pages(Areas[j]) => i = j
<1> DEFINE n == Len(Segments)
           L == MaxLen \div PAGE
<1>1. L \in Nat /\ CodeLen \in Nat
  BY PageOf, AddrSpaceAssumption
<1>2. HeapTop = 2 + CodeLen + L
  BY DEF HeapTop
<1> HIDE DEF L
<1>3. KernelEnd \in Nat /\ StackPages \in 1..KernelEnd
  BY PmmAssumption, ProgramAssumption
<1>4. HeapTop \in Nat /\ 2 + CodeLen <= HeapTop
  BY <1>1, <1>2
<1>5. Virt = 0..(HeapTop + StackPages)
  BY DEF Virt
<1>6. n \in Nat /\ Len(Areas) = n + 1 /\ Areas[n + 1] = Stack
      /\ \A i \in 1..n : Areas[i] = Segments[i]
  BY ProgramAssumption DEF Areas
<1>7. \A i \in 1..n : /\ Segments[i].base \in Nat /\ Segments[i].num \in 1..KernelEnd
                      /\ Segments[i].base + Segments[i].num <= 1 + CodeLen
  <2> SUFFICES ASSUME NEW i \in 1..n
               PROVE  /\ Segments[i].base \in Nat /\ Segments[i].num \in 1..KernelEnd
                      /\ Segments[i].base + Segments[i].num <= 1 + CodeLen
    OBVIOUS
  <2>1. Segments[i] \in [base : Nat, num : 1..KernelEnd]
    <3> DEFINE S == [base : Nat, num : 1..KernelEnd]
    <3>1. Segments \in Seq(S)
      BY ProgramAssumption
    <3> HIDE DEF S
    <3>2. Segments[i] \in S
      BY <3>1 DEF n
    <3> QED BY <3>2 DEF S
  <2> QED BY <2>1, ProgramAssumption DEF n
<1>8. Stack.base = HeapTop + 1 /\ Stack.num = StackPages
  BY DEF Stack
<1> HIDE DEF n
<1>9. ASSUME NEW i \in 1..Len(Areas)
      PROVE  /\ Areas[i].base \in Nat /\ Areas[i].num \in 1..KernelEnd
             /\ Pages(Areas[i]) \subseteq Virt
             /\ \A v \in Pages(Areas[i]) : ~InHeap(v)
  <2>1. CASE i = n + 1
    BY <1>1, <1>3, <1>4, <1>5, <1>6, <1>8, <2>1 DEF Pages, InHeap
  <2>2. CASE i \in 1..n
    <3> DEFINE x == Segments[i].base
               y == Segments[i].num
    <3>1. x \in Nat /\ y \in 1..KernelEnd /\ x + y <= 1 + CodeLen
      BY <1>7, <2>2
    <3>2. Areas[i].base = x /\ Areas[i].num = y /\ Pages(Areas[i]) = x..(x + y - 1)
      BY <1>6, <2>2 DEF Pages
    <3> HIDE DEF x, y
    <3> QED BY <1>1, <1>3, <1>4, <1>5, <3>1, <3>2 DEF InHeap
  <2> QED BY <1>6, <2>1, <2>2
<1>10. \A i, j \in 1..Len(Areas) : i < j => Areas[i].base + Areas[i].num <= Areas[j].base
  <2> SUFFICES ASSUME NEW i \in 1..Len(Areas), NEW j \in 1..Len(Areas), i < j
               PROVE  Areas[i].base + Areas[i].num <= Areas[j].base
    OBVIOUS
  <2>1. i \in 1..n
    BY <1>6
  <2>2. CASE j = n + 1
    BY <1>1, <1>3, <1>4, <1>6, <1>7, <1>8, <2>1, <2>2
  <2>3. CASE j \in 1..n
    BY <1>6, <2>1, <2>3, ProgramAssumption DEF n
  <2> QED BY <1>6, <2>2, <2>3
<1>11. ASSUME NEW i \in 1..Len(Areas), NEW j \in 1..Len(Areas),
              NEW v \in Pages(Areas[i]), v \in Pages(Areas[j])
       PROVE  i = j
  <2>1. /\ Areas[i].base \in Nat /\ Areas[j].base \in Nat
        /\ Areas[i].num \in Nat /\ Areas[j].num \in Nat /\ i \in Nat /\ j \in Nat
    BY <1>3, <1>6, <1>9
  <2>2. /\ v \in Int /\ Areas[i].base <= v /\ v < Areas[i].base + Areas[i].num
        /\ Areas[j].base <= v /\ v < Areas[j].base + Areas[j].num
    BY SMTT(30), <1>11, <2>1 DEF Pages
  <2>3. ~(i < j)
    <3>1. i < j => Areas[i].base + Areas[i].num <= Areas[j].base
      BY <1>10
    <3> QED BY <2>1, <2>2, <3>1
  <2>4. ~(j < i)
    <3>1. j < i => Areas[j].base + Areas[j].num <= Areas[i].base
      BY <1>10
    <3> QED BY <2>1, <2>2, <3>1
  <2> QED BY <2>1, <2>3, <2>4
<1>12. Virt \subseteq Nat /\ \A v \in Nat : v <= HeapTop => v \in Virt
  BY <1>3, <1>4, <1>5
<1> QED BY SMTT(30), <1>1, <1>4, <1>6, <1>9, <1>11, <1>12

\* What one call of the memory manager does to the frames.
Grabbed == /\ PmmInv'
           /\ Taken \in SUBSET (Block \ used)
           /\ \A b \in Block : holders'[b] = IF b \in Taken THEN 1 ELSE holders[b]

\* Blocks that were clear now have one holder.
LEMMA GrabClear ==
    ASSUME PmmInv, NEW bs \in SUBSET (Block \ used), mmap_set(bs), Give(bs), UNCHANGED aborted
    PROVE  Grabbed /\ Taken = bs
<1>1. PmmInv'
  BY TakeClearBlocks
<1>2. Taken = bs
  BY DEF Taken, mmap_set
<1>3. \A b \in bs : holders[b] = 0
  BY DEF PmmInv, BitmapExact, TypeOK
<1>4. \A b \in Block : holders'[b] = IF b \in bs THEN 1 ELSE holders[b]
  BY <1>3 DEF Give
<1> QED BY <1>1, <1>2, <1>4 DEF Grabbed

\* A call that fails takes nothing.
LEMMA GrabNothing ==
    ASSUME PmmInv, Fails
    PROVE  Grabbed /\ Taken = {} /\ Result = 0
<1>1. used' = used /\ used_blocks' = used_blocks /\ holders' = holders /\ aborted' = aborted
  BY DEF Fails, pmmVars
<1>2. PmmInv'
  BY <1>1 DEF PmmInv, TypeOK, NoDoubleAllocation, BitmapExact, CounterExact, Owned
<1>3. Taken = {}
  BY <1>1 DEF Taken
<1> QED BY <1>1, <1>2, <1>3 DEF Grabbed, Result

\* pmm_alloc_page: one frame that was clear, or none and 0.
LEMMA PageTaken ==
    ASSUME PmmInv, pmm_alloc_page
    PROVE  /\ Grabbed
           /\ \/ Taken = {} /\ Result = 0
              \/ \E b \in Block \ used : Taken = {b} /\ Result = b
<1>1. CASE Fails
  BY <1>1, GrabNothing
<1>2. ASSUME NEW b \in Block, FirstFree(b), mmap_set({b}), Give({b}), UNCHANGED aborted
      PROVE  Grabbed /\ \E c \in Block \ used : Taken = {c} /\ Result = c
  <2>1. b \in Block \ used
    BY <1>2 DEF FirstFree
  <2>2. Grabbed /\ Taken = {b}
    BY <1>2, <2>1, GrabClear
  <2>3. b <= b
    BY <2>1 DEF Block
  <2>4. Result = b
    BY <2>2, <2>3 DEF Result
  <2> QED BY <2>1, <2>2, <2>4
<1>3. ~(Headroom <= 0)
  BY HeadroomAmple
<1> QED BY <1>1, <1>2, <1>3 DEF pmm_alloc_page

\* pmm_alloc_pages: a run of frames that were clear, or none and 0.
LEMMA RunTaken ==
    ASSUME PmmInv, NEW num \in Nat \ {0}, pmm_alloc_pages(num)
    PROVE  /\ Grabbed
           /\ \/ Taken = {} /\ Result = 0
              \/ /\ Taken # {}
                 /\ \E f \in Nat : Taken = Run(f, num) /\ Result = f /\ f + num <= Blocks
<1>1. CASE Fails
  BY <1>1, GrabNothing
<1>2. ASSUME NEW e \in Block, FirstRunEnd(e, num),
             mmap_set(Run(FrameStart(e, num), num)),
             Give(Run(FrameStart(e, num), num)), UNCHANGED aborted
      PROVE  Grabbed /\ Taken # {} /\ \E f \in Nat : Taken = Run(f, num) /\ Result = f /\ f + num <= Blocks
  <2> DEFINE f == FrameStart(e, num)
  <2>1. f = e - num + 1 /\ f \in Nat /\ Run(f, num) \in SUBSET (Block \ used)
    BY <1>2, RunIsClear
  <2> HIDE DEF f
  <2>2. Grabbed /\ Taken = Run(f, num)
    BY <1>2, <2>1, GrabClear DEF f
  <2>3. f \in Block /\ f + num <= Blocks
    BY <2>1, PmmAssumption DEF Block
  <2>4. f \in Taken /\ \A c \in Taken : c \in Nat /\ f <= c
    BY <2>1, <2>2, <2>3 DEF Run, Block
  <2>5. Result = f
    <3>1. Taken # {}
      BY <2>4
    <3>2. \A b \in Taken : (\A c \in Taken : b <= c) => b = f
      BY <2>1, <2>4
    <3> QED BY <2>4, <3>1, <3>2 DEF Result
  <2> QED BY <2>1, <2>2, <2>3, <2>4, <2>5
<1> QED BY <1>1, <1>2 DEF pmm_alloc_pages

\* The process's frames are in use and are none of the kernel's, and so is what
\* its pages are mapped to.
LEMMA MineUsed ==
    ASSUME PmmInv, MapInv
    PROVE  /\ mine \subseteq used /\ mine \cap Reserved = {} /\ 0 \notin mine /\ Absent \notin mine
           /\ \A v \in Virt : page[v] \in used \cup {Absent}
           /\ \A b \in Reserved : b \in used
<1>1. /\ mine \subseteq Block /\ \A b \in mine : holders[b] = 1
      /\ \A v \in Virt : page[v] # Absent => page[v] \in mine \/ OnLowMemory(v)
  BY DEF MapInv, PagesOwned
<1>2. \A b \in mine : b \in used /\ b \notin Reserved /\ b # 0
  <2>1. \A b \in mine : holders[b] > 0 /\ b \in Block
    BY <1>1
  <2> QED BY <2>1 DEF PmmInv, BitmapExact, NoDoubleAllocation
<1>3. \A b \in Reserved : b \in used
  BY PmmAssumption DEF PmmInv, BitmapExact, Reserved
<1>4. Absent \notin Block
  BY PmmAssumption DEF Absent, Block
<1>5. ASSUME NEW v \in Virt, OnLowMemory(v) PROVE page[v] \in Reserved
  <2>1. PICK i \in 1..Len(Areas) : v \in Pages(Areas[i]) /\ page[v] = v - Areas[i].base
    BY <1>5 DEF OnLowMemory
  <2>2. Areas[i].base \in Nat /\ Areas[i].num \in 1..KernelEnd
    BY AreasApart
  <2>3. page[v] \in Nat /\ page[v] < KernelEnd
    BY <2>1, <2>2, PmmAssumption DEF Pages
  <2> QED BY <2>3, PmmAssumption DEF Reserved, Block
<1> QED BY <1>1, <1>2, <1>3, <1>4, <1>5

\* The frames a call takes were nobody's, and the process holds them now.
LEMMA MineGrows ==
    ASSUME PmmInv, MapInv, Grabbed, mine' = mine \cup Taken
    PROVE  /\ PmmInv' /\ mine' \subseteq Block
           /\ \A b \in mine' : holders'[b] = 1
           /\ Taken \cap used = {} /\ 0 \notin Taken /\ Absent \notin Taken
<1>1. PmmInv' /\ Taken \in SUBSET (Block \ used)
  BY DEF Grabbed
<1>2. mine \subseteq Block /\ \A b \in mine : holders[b] = 1
  BY DEF MapInv
<1>3. \A b \in mine' : b \in Block /\ holders'[b] = 1
  BY <1>1, <1>2 DEF Grabbed
<1>4. Absent \notin Block /\ (0 \in Block => 0 \in used)
  BY PmmAssumption DEF Absent, Block, PmmInv, BitmapExact
<1> QED BY <1>1, <1>3, <1>4

\* Frames for a page table or the directory.
LEMMA TableTaken ==
    ASSUME PmmInv, MapInv, pmm_alloc_page, NEW t \in Tables, NEW x, x = Absent \/ x = Result,
           table' = [table EXCEPT ![t] = x], mine' = mine \cup Taken,
           UNCHANGED <<mem_len, page, loaded>>
    PROVE  PmmInv' /\ MapInv'
<1>1. Grabbed /\ (x \in {Absent, 0} \/ (x \in Taken /\ x \in Block))
  <2>1. CASE Taken = {} /\ Result = 0
    BY <2>1, PageTaken
  <2>2. ASSUME NEW b \in Block \ used, Taken = {b}, Result = b
        PROVE  x = Absent \/ (x \in Taken /\ x \in Block)
    BY <2>2
  <2> QED BY <2>1, <2>2, PageTaken
<1>2. /\ PmmInv' /\ mine' \subseteq Block /\ \A b \in mine' : holders'[b] = 1
      /\ Taken \cap used = {} /\ mine \subseteq used
      /\ \A v \in Virt : page[v] \in used \cup {Absent}
      /\ Absent \notin Taken /\ 0 \notin Taken
  BY <1>1, MineGrows, MineUsed
<1>3. /\ table \in [Tables -> Block \cup {Absent}]
      /\ \A u \in Tables : table'[u] = IF u = t THEN x ELSE table[u]
  BY DEF MapInv
<1>4. table' \in [Tables -> Block \cup {Absent}]
  <2>1. 0 \in Block
    BY PmmAssumption DEF Block
  <2>2. x \in Block \cup {Absent}
    BY <1>1, <2>1
  <2> QED BY <1>3, <2>2
<1>5. PagesOwned'
  <2>1. \A v \in Virt : page'[v] # Absent => page'[v] \in mine' \/ OnLowMemory(v)'
    <3>1. \A v \in Virt : OnLowMemory(v)' <=> OnLowMemory(v)
      BY DEF OnLowMemory
    <3> QED BY <3>1 DEF MapInv, PagesOwned
  <2>2. \A v, w \in Virt : page'[v] \in mine' /\ page'[v] = page'[w] => v = w
    <3>1. \A v \in Virt : page[v] \in mine' => page[v] \in mine
      BY <1>2
    <3> QED BY <3>1 DEF MapInv, PagesOwned
  <2> QED BY <2>1, <2>2 DEF PagesOwned
<1>6. TablesOwned'
  <2> SUFFICES ASSUME NEW r \in Tables, table'[r] \notin {Absent, 0}
               PROVE  /\ table'[r] \in mine'
                      /\ \A v \in Virt : page'[v] # table'[r]
                      /\ \A u \in Tables : table'[u] = table'[r] => u = r
    BY DEF TablesOwned
  <2>1. \A u \in Tables : table[u] \in used \cup {Absent, 0}
    BY <1>2 DEF MapInv, TablesOwned
  <2>2. CASE r = t
    <3>1. table'[r] = x /\ x \in Taken
      BY <1>1, <1>3, <2>2
    <3>2. \A u \in Tables : u # t => table'[u] # x
      BY <1>2, <1>3, <2>1, <3>1
    <3> QED BY <1>2, <2>2, <3>1, <3>2
  <2>3. CASE r # t
    <3>1. /\ table'[r] = table[r] /\ table[r] \in mine
          /\ \A v \in Virt : page[v] # table[r]
          /\ \A u \in Tables : table[u] = table[r] => u = r
      BY <1>3, <2>3 DEF MapInv, TablesOwned
    <3>2. x # table[r]
      BY <1>1, <1>2, <1>3, <2>3, <3>1
    <3> QED BY <1>3, <3>1, <3>2
  <2> QED BY <2>2, <2>3
<1>7. mem_len' \in 0..MaxLen /\ page' \in [Virt -> Block \cup {Absent}] /\ loaded' \in 0..Len(Areas)
  BY DEF MapInv
<1> QED BY <1>2, <1>4, <1>5, <1>6, <1>7 DEF MapInv

\* Mapping an area: to frames the process was given, or from frame 0 on when
\* there were none for a segment or the stack.
LEMMA MapPagesLemma ==
    ASSUME PmmInv, MapInv, NEW a, a.base \in Nat, a.num \in Nat \ {0}, pmm_alloc_pages(a.num),
           page' = MapPages(a, Result), mine' = mine \cup Taken, UNCHANGED <<mem_len, table>>,
           loaded' \in 0..Len(Areas), Taken = {} => \E i \in 1..Len(Areas) : a = Areas[i]
    PROVE  /\ PmmInv' /\ MapInv'
           /\ \A v \in Virt : v \in Pages(a) => page'[v] # Absent
           /\ \A v \in Virt : v \notin Pages(a) => page'[v] = page[v]
<1>1. /\ Grabbed
      /\ \/ Taken = {} /\ Result = 0
         \/ /\ Taken # {}
            /\ \E f \in Nat : Taken = Run(f, a.num) /\ Result = f /\ f + a.num <= Blocks
  BY RunTaken
<1>2. /\ PmmInv' /\ mine' \subseteq Block /\ \A b \in mine' : holders'[b] = 1
      /\ Taken \cap used = {} /\ 0 \notin Taken /\ Absent \notin Taken
      /\ Taken \subseteq Block
      /\ mine \subseteq used /\ mine \cap Reserved = {} /\ Absent \notin mine
      /\ \A v \in Virt : page[v] \in used \cup {Absent}
      /\ \A b \in Reserved : b \in used
  BY <1>1, MineGrows, MineUsed DEF Grabbed
<1>3. Virt \subseteq Nat /\ Blocks \in Nat /\ KernelEnd \in 1..Blocks
  BY AreasApart, PmmAssumption
<1>4. /\ \A v \in Virt : v \in Pages(a) => page'[v] = Result + (v - a.base)
      /\ \A v \in Virt : v \notin Pages(a) => page'[v] = page[v]
  BY DEF MapPages
<1>5. CASE Taken = {}
  <2>1. PICK i \in 1..Len(Areas) : a = Areas[i]
    BY <1>5
  <2>2. Result = 0 /\ mine' = mine /\ a.num \in 1..KernelEnd
    BY <1>1, <1>5, <2>1, AreasApart
  <2>3. \A v \in Virt : v \in Pages(a) => page'[v] \in Reserved /\ page'[v] # Absent /\ OnLowMemory(v)'
    <3> SUFFICES ASSUME NEW v \in Virt, v \in Pages(a)
                 PROVE  page'[v] \in Reserved /\ page'[v] # Absent /\ OnLowMemory(v)'
      OBVIOUS
    <3>1. page'[v] = v - a.base /\ v - a.base \in 0..(KernelEnd - 1)
      BY SMTT(30), <1>3, <1>4, <2>2 DEF Pages
    <3>2. OnLowMemory(v)'
      BY <2>1, <3>1 DEF OnLowMemory
    <3> QED BY <1>3, <3>1, <3>2 DEF Reserved, Block, Absent
  <2>4. PagesOwned'
    <3>1. \A v \in Virt : page'[v] # Absent => page'[v] \in mine' \/ OnLowMemory(v)'
      <4> SUFFICES ASSUME NEW v \in Virt, v \notin Pages(a), page'[v] # Absent
                   PROVE  page'[v] \in mine' \/ OnLowMemory(v)'
        BY <2>3
      <4>1. page'[v] = page[v] /\ (page[v] \in mine \/ OnLowMemory(v))
        BY <1>4 DEF MapInv, PagesOwned
      <4> QED BY <2>2, <4>1 DEF OnLowMemory
    <3>2. \A v \in Virt : page'[v] \in mine' => v \notin Pages(a)
      BY <1>2, <2>2, <2>3
    <3>3. \A v, w \in Virt : page'[v] \in mine' /\ page'[v] = page'[w] => v = w
      BY <1>4, <2>2, <3>2 DEF MapInv, PagesOwned
    <3> QED BY <3>1, <3>3 DEF PagesOwned
  <2>5. TablesOwned'
    BY <1>2, <1>4, <2>2, <2>3 DEF MapInv, TablesOwned
  <2>6. page' \in [Virt -> Block \cup {Absent}]
    <3>0. Reserved \subseteq Block
      BY PmmAssumption DEF Reserved
    <3>1. \A v \in Virt : page'[v] \in Block \cup {Absent}
      BY <1>4, <2>3, <3>0 DEF MapInv
    <3> QED BY <3>1 DEF MapPages
  <2>7. MapInv'
    BY <1>2, <2>4, <2>5, <2>6 DEF MapInv
  <2> QED BY <1>2, <1>4, <2>3, <2>7
<1>6. CASE Taken # {}
  <2>1. PICK f \in Nat : Taken = Run(f, a.num) /\ Result = f /\ f + a.num <= Blocks
    BY <1>1, <1>6
  <2>2. \A v \in Virt : v \in Pages(a) => page'[v] = f + (v - a.base) /\ page'[v] \in Taken
    <3> SUFFICES ASSUME NEW v \in Virt, v \in Pages(a)
                 PROVE  page'[v] = f + (v - a.base) /\ page'[v] \in Taken
      OBVIOUS
    <3>1. page'[v] = f + (v - a.base) /\ v - a.base \in 0..(a.num - 1)
      BY <1>3, <1>4, <2>1 DEF Pages
    <3> DEFINE d == v - a.base
    <3>2. d \in Nat /\ d < a.num
      BY <3>1
    <3> HIDE DEF d
    <3>3. f + d \in Run(f, a.num)
      BY <1>3, <2>1, <3>2 DEF Run, Block
    <3> QED BY <2>1, <3>1, <3>3 DEF d
  <2>3. PagesOwned'
    <3>1. \A v \in Virt : page'[v] # Absent => page'[v] \in mine' \/ OnLowMemory(v)'
      <4> SUFFICES ASSUME NEW v \in Virt, v \notin Pages(a), page'[v] # Absent
                   PROVE  page'[v] \in mine' \/ OnLowMemory(v)'
        BY <2>2
      <4>1. page'[v] = page[v] /\ (page[v] \in mine \/ OnLowMemory(v))
        BY <1>4 DEF MapInv, PagesOwned
      <4> QED BY <4>1 DEF OnLowMemory
    <3>2. ASSUME NEW v \in Virt, NEW w \in Virt, page'[v] \in mine', page'[v] = page'[w]
          PROVE  v = w
      <4>1. CASE v \in Pages(a) /\ w \in Pages(a)
        <5>1. f + (v - a.base) = f + (w - a.base)
          BY <2>2, <3>2, <4>1
        <5> QED BY <1>3, <5>1
      <4>2. CASE v \notin Pages(a) /\ w \notin Pages(a)
        <5>1. page[v] \in mine /\ page[v] = page[w]
          BY <1>2, <1>4, <3>2, <4>2
        <5> QED BY <5>1 DEF MapInv, PagesOwned
      <4>3. CASE (v \in Pages(a) /\ w \notin Pages(a)) \/ (v \notin Pages(a) /\ w \in Pages(a))
        BY <1>2, <1>4, <2>2, <3>2, <4>3
      <4> QED BY <4>1, <4>2, <4>3
    <3> QED BY <3>1, <3>2 DEF PagesOwned
  <2>4. TablesOwned'
    <3> SUFFICES ASSUME NEW t \in Tables, table[t] \notin {Absent, 0}
                 PROVE  /\ table[t] \in mine'
                        /\ \A v \in Virt : page'[v] # table[t]
                        /\ \A u \in Tables : table[u] = table[t] => u = t
      BY DEF TablesOwned
    <3>1. /\ table[t] \in mine /\ \A v \in Virt : page[v] # table[t]
          /\ \A u \in Tables : table[u] = table[t] => u = t
      BY DEF MapInv, TablesOwned
    <3> QED BY <1>2, <1>4, <2>2, <3>1
  <2>5. page' \in [Virt -> Block \cup {Absent}]
    <3>1. \A v \in Virt : page'[v] \in Block \cup {Absent}
      BY <1>2, <1>4, <2>2 DEF MapInv
    <3> QED BY <3>1 DEF MapPages
  <2>6. MapInv'
    BY <1>2, <2>3, <2>4, <2>5 DEF MapInv
  <2>7. \A v \in Virt : v \in Pages(a) => page'[v] # Absent
    BY <1>2, <2>2
  <2> QED BY <1>2, <1>4, <2>6, <2>7
<1> QED BY <1>5, <1>6

\* Memory that is in use keeps its frame.
KeptMemory == \A v \in Virt : page[v] # Absent /\ ~(InHeap(v) /\ PAGE * v >= End) => page'[v] = page[v]

\* What paging_alloc_pages maps are the frames it got, all different, over
\* whatever was mapped there.
LEMMA MapFromLemma ==
    ASSUME NEW fs \in SUBSET Block, NEW v \in Nat, page' = MapFrom(v, fs)
    PROVE  /\ \A x \in Virt : x >= v /\ x < v + Cardinality(fs) => page'[x] \in fs
           /\ \A x \in Virt : ~(x >= v /\ x < v + Cardinality(fs)) => page'[x] = page[x]
           /\ \A x, y \in Virt : x >= v /\ x < v + Cardinality(fs) /\ y >= v /\ y < v + Cardinality(fs)
                                 => (page'[x] = page'[y] => x = y)
<1> DEFINE n == Cardinality(fs)
           new(x) == x >= v /\ x < v + n
<1>0. n \in Nat /\ Virt \subseteq Nat
  BY CardType, AreasApart
<1>1. \A x \in Virt : page'[x] = IF new(x) THEN Nth(fs, x - v) ELSE page[x]
  BY DEF MapFrom
<1>2. \A x \in Virt : new(x) => /\ page'[x] \in fs
                                /\ Cardinality({c \in fs : c < page'[x]}) = x - v
  <2> SUFFICES ASSUME NEW x \in Virt, new(x)
               PROVE  /\ Nth(fs, x - v) \in fs
                      /\ Cardinality({c \in fs : c < Nth(fs, x - v)}) = x - v
    BY <1>1
  <2>1. x - v \in 0..(Cardinality(fs) - 1)
    BY <1>0
  <2> QED BY <1>0, <2>1, NthLemma
<1>3. \A x \in Virt : ~new(x) => page'[x] = page[x]
  BY <1>1
<1> HIDE DEF new
<1>4. ASSUME NEW x \in Virt, NEW y \in Virt, new(x), new(y), page'[x] = page'[y]
      PROVE  x = y
  <2>1. x - v = y - v
    BY <1>2, <1>4
  <2>2. x \in Nat /\ y \in Nat
    BY <1>0
  <2> QED BY <2>1, <2>2
<1>5. /\ \A x \in Virt : new(x) => page'[x] \in fs
      /\ \A x, y \in Virt : new(x) /\ new(y) /\ page'[x] = page'[y] => x = y
  BY <1>2, <1>4
<1>6. \A x \in Virt : x >= v /\ x < v + Cardinality(fs) => page'[x] \in fs
  BY <1>5 DEF new
<1>7. \A x \in Virt : ~(x >= v /\ x < v + Cardinality(fs)) => page'[x] = page[x]
  BY <1>3 DEF new
<1>8. \A x, y \in Virt : x >= v /\ x < v + Cardinality(fs) /\ y >= v /\ y < v + Cardinality(fs)
                         => (page'[x] = page'[y] => x = y)
  BY <1>5 DEF new
<1> QED BY <1>6, <1>7, <1>8

\* mmap_find_free is asked for n blocks and returns no more.
LEMMA FramesFew ==
    ASSUME NEW n \in Nat
    PROVE  Cardinality(Frames(n)) <= n
<1> DEFINE fs == Frames(n)
           k == Cardinality(fs)
<1>1. fs \in SUBSET Block /\ k \in Nat
  BY CardType DEF Frames, Scanned
<1>2. CASE k = 0
  BY <1>2
<1>3. CASE k # 0
  <2> DEFINE b == Nth(fs, k - 1)
  <2>1. k - 1 \in 0..(k - 1)
    BY <1>1, <1>3
  <2>2. b \in fs /\ Cardinality({c \in fs : c < b}) = k - 1
    BY <1>1, <2>1, NthLemma
  <2> HIDE DEF b
  <2>3. LET clear == Scanned \ used
        IN  /\ \A c \in clear : c < b => c \in fs
            /\ fs \subseteq clear
            /\ Cardinality({c \in clear : c < b}) < n
    <3> DEFINE clear == Scanned \ used
               below(x) == {c \in clear : c < x}
    <3>1. 0 \notin clear /\ fs = {x \in clear : Cardinality(below(x)) < n}
      BY <2>2 DEF Frames
    <3>2. clear \in SUBSET Block
      BY DEF Scanned
    <3>3. ASSUME NEW c \in clear, c < b PROVE c \in fs
      <4>1. c \in Nat /\ b \in Nat /\ b \in clear /\ Cardinality(below(b)) < n
        BY <2>2, <3>1, <3>2 DEF Block
      <4>2. below(c) \in SUBSET below(b) /\ below(b) \in SUBSET Block /\ below(c) \in SUBSET Block
        <5>1. \A x \in clear : x \in Nat
          BY <3>2 DEF Block
        <5>2. \A x \in below(c) : x \in below(b)
          BY <3>3, <4>1, <5>1
        <5> QED BY <3>2, <5>2
      <4> HIDE DEF below, clear
      <4>3. Cardinality(below(c)) <= Cardinality(below(b))
        BY <4>2, CardType, FS_Subset
      <4>4. Cardinality(below(c)) \in Nat /\ Cardinality(below(b)) \in Nat
        BY <4>2, CardType
      <4>5. Cardinality(below(c)) < n
        BY <4>1, <4>3, <4>4
      <4> QED BY <3>1, <4>5
    <3> QED BY <2>2, <3>1, <3>3
  <2>4. {c \in fs : c < b} = {c \in Scanned \ used : c < b}
    BY <2>3
  <2> QED BY <1>1, <2>2, <2>3, <2>4
<1> QED BY <1>2, <1>3

\* sbrk keeps every byte below the break backed and everything that was mapped
\* there, whether it gets all the frames it asks for or runs out half way.
LEMMA SbrkLemma ==
    ASSUME PmmInv, MapInv, HeapMapped, Placed, NEW size \in Nat, sbrk_grow(size)
    PROVE  /\ PmmInv' /\ MapInv' /\ HeapMapped' /\ Placed' /\ KeptMemory
           /\ mem_len' \in {mem_len, mem_len + size}
           /\ End \in Nat /\ End' = End + (mem_len' - mem_len)
           /\ size > 0
<1> DEFINE num == IF Remaining < size THEN DivideUp(size - Remaining) ELSE 0
           fs == Frames(num)
           n == Cardinality(fs)
           D == DivideUp(End)
           new(x) == x >= D /\ x < D + n
<1>0. /\ size > 0 /\ mem_len + size <= MaxLen
      /\ mmap_set(fs) /\ Give(fs) /\ page' = MapFrom(D, fs)
      /\ mine' = mine \cup fs
      /\ mem_len' = IF n = num THEN mem_len + size ELSE mem_len
      /\ UNCHANGED <<aborted, table, loaded>>
  BY DEF sbrk_grow, PageAfter
<1>1. mem_len \in Nat /\ mem_len <= MaxLen /\ MaxLen \in Nat
  BY AddrSpaceAssumption DEF MapInv
<1>2. /\ End \in Nat /\ Remaining \in Nat /\ PAGE * D = End + Remaining /\ D \in Nat
      /\ End <= PAGE * D /\ PAGE * D < End + PAGE
  BY <1>1, BreakLemma, DivideUpLemma
<1>3. num \in Nat /\ (Remaining < size => /\ size - Remaining <= PAGE * num
                                          /\ PAGE * num < (size - Remaining) + PAGE)
                  /\ (~(Remaining < size) => num = 0)
  BY <1>2, DivideUpLemma
<1>4. fs \in SUBSET (Block \ used) /\ n \in Nat /\ n <= num
  <2>1. fs \in SUBSET (Block \ used)
    BY DEF Frames, Scanned
  <2>2. n \in Nat
    BY <2>1, CardType
  <2>3. n <= num
    BY <1>3, FramesFew
  <2> QED BY <2>1, <2>2, <2>3
<1> HIDE DEF num, fs, n, D
<1>5. Grabbed /\ Taken = fs
  BY <1>0, <1>4, GrabClear
<1>6. /\ PmmInv' /\ mine' \subseteq Block /\ \A b \in mine' : holders'[b] = 1
      /\ fs \cap used = {} /\ 0 \notin fs /\ Absent \notin fs /\ fs \subseteq Block
      /\ mine \subseteq used /\ Absent \notin mine
      /\ \A v \in Virt : page[v] \in used \cup {Absent}
  BY <1>0, <1>4, <1>5, MineGrows, MineUsed
<1>7. /\ \A x \in Virt : new(x) => page'[x] \in fs
      /\ \A x \in Virt : ~new(x) => page'[x] = page[x]
      /\ \A x, y \in Virt : new(x) /\ new(y) /\ page'[x] = page'[y] => x = y
  BY <1>0, <1>2, <1>6, MapFromLemma DEF n
<1>8. CodeLen \in Nat /\ HeapTop \in Nat /\ Virt \subseteq Nat /\ \A v \in Nat : v <= HeapTop => v \in Virt
  BY AreasApart
<1>9. \A x \in Virt : new(x) => InHeap(x) /\ PAGE * x >= End
  <2> SUFFICES ASSUME NEW x \in Virt, new(x) PROVE x > CodeLen /\ x <= HeapTop /\ PAGE * x >= End
    BY DEF InHeap
  <2>1. x \in Int /\ PAGE * x \in Int /\ PAGE * D \in Int
    BY <1>2, <1>8, AddrSpaceAssumption
  <2>2. PAGE * x >= End
    <3>1. D < x => PAGE * D + PAGE <= PAGE * x
      BY <1>2, <2>1, MulPage
    <3>2. x = D \/ D < x
      BY <1>2, <2>1
    <3> QED BY <1>2, <2>1, <3>1, <3>2, AddrSpaceAssumption
  <2>3. PAGE * (1 + CodeLen) = PAGE + PAGE * CodeLen /\ PAGE * CodeLen \in Int
    BY <1>8, AddrSpaceAssumption
  <2>4. x > CodeLen
    <3>1. x < 1 + CodeLen => PAGE * x + PAGE <= PAGE * (1 + CodeLen)
      BY <1>8, <2>1, MulPage
    <3>2. PAGE + PAGE * CodeLen <= PAGE * x
      BY <1>1, <2>1, <2>2, <2>3, AddrSpaceAssumption DEF End
    <3>3. ~(x < 1 + CodeLen)
      BY <2>1, <2>3, <3>1, <3>2, AddrSpaceAssumption
    <3> QED BY <1>8, <2>1, <3>3
  <2>5. x <= HeapTop
    <3> DEFINE L == MaxLen \div PAGE
               H == 2 + CodeLen + L
               z == D + num - 1
    <3>1. L \in Nat /\ MaxLen < PAGE * L + PAGE
      BY <1>1, PageOf
    <3>2. HeapTop = H
      BY DEF HeapTop
    <3> HIDE DEF L
    <3>3. H \in Int /\ PAGE * H = PAGE + PAGE + PAGE * CodeLen + PAGE * L /\ PAGE * L \in Int
      BY <1>8, <3>1, AddrSpaceAssumption
    <3>4. x <= z /\ z \in Int /\ num > 0
      BY <1>2, <1>3, <1>4, <2>1
    <3>5. PAGE * z = PAGE * D + PAGE * num - PAGE /\ PAGE * num \in Int /\ PAGE * z \in Int
      BY <1>2, <1>3, AddrSpaceAssumption
    <3>6. PAGE * num < (size - Remaining) + PAGE
      BY <1>3, <3>4
    <3>7. PAGE * z < End + size
      BY <1>2, <2>1, <3>5, <3>6, AddrSpaceAssumption
    <3>8. End + size <= PAGE + PAGE * CodeLen + MaxLen
      BY <1>0, <1>1, <2>3, AddrSpaceAssumption DEF End
    <3> HIDE DEF z, H
    <3>9. PAGE * z < PAGE * H
      BY <1>1, <1>2, <2>3, <3>1, <3>3, <3>5, <3>7, <3>8, AddrSpaceAssumption
    <3>10. H < z => PAGE * H + PAGE <= PAGE * z
      BY <3>3, <3>4, MulPage
    <3>11. ~(H < z)
      BY <3>3, <3>5, <3>9, <3>10, AddrSpaceAssumption
    <3> QED BY <2>1, <3>2, <3>3, <3>4, <3>11
  <2> QED BY <2>2, <2>4, <2>5
<1>10. \A i \in 1..Len(Areas) : \A v \in Pages(Areas[i]) : v \in Virt /\ ~new(v)
  BY <1>9, AreasApart
<1>11. \A v \in Virt : page[v] # Absent \/ new(v) => page'[v] # Absent
  BY <1>6, <1>7
<1>12. End' = End + (mem_len' - mem_len)
  <2>1. PAGE * CodeLen \in Nat
    BY AddrSpaceAssumption
  <2> QED BY <2>1, <1>0, <1>1, AddrSpaceAssumption DEF End
<1>13. HeapMapped'
  <2> SUFFICES ASSUME NEW x \in Virt, x > CodeLen, PAGE * x < End' PROVE page'[x] # Absent
    BY DEF HeapMapped
  <2>0. x \in Int /\ PAGE * x \in Int
    BY <1>8, AddrSpaceAssumption
  <2>1. CASE PAGE * x < End
    BY <1>11, <2>1 DEF HeapMapped
  <2>2. CASE ~(PAGE * x < End)
    <3>1. n = num /\ End' = End + size
      BY <1>0, <1>1, <1>2, <1>12, <2>0, <2>2
    <3>2. x >= D
      <4>1. x < D => PAGE * x + PAGE <= PAGE * D
        BY <1>2, <2>0, MulPage
      <4> QED BY <1>2, <2>0, <2>2, <4>1, AddrSpaceAssumption
    <3>3. x < D + num
      <4> DEFINE G == D + num
      <4>0. D \in Int /\ num \in Int /\ G \in Int
        BY <1>2, <1>3
      <4>1. /\ PAGE * G = PAGE * D + PAGE * num
            /\ PAGE * num \in Int /\ PAGE * D \in Int
        BY <4>0, MulPage, Zenon
      <4>a. PAGE * num >= 0
        BY <1>3, AddrSpaceAssumption
      <4> HIDE DEF G
      <4>2. PAGE * D + PAGE * num >= End + size
        BY <1>2, <1>3, <4>1, <4>a
      <4>3. PAGE * x < PAGE * G
        BY <3>1, <4>1, <4>2, <2>0, <1>2
      <4>4. G < x => PAGE * G + PAGE <= PAGE * x
        BY <4>0, <2>0, MulPage
      <4>5. x < G
        BY <4>0, <4>1, <4>3, <4>4, <2>0, AddrSpaceAssumption
      <4> QED BY <4>5 DEF G
    <3> QED BY <1>11, <3>1, <3>2, <3>3
  <2> QED BY <2>1, <2>2
<1>14. KeptMemory
  BY <1>7, <1>9 DEF KeptMemory
<1> HIDE DEF new
<1>15. Placed'
  BY <1>0, <1>7, <1>10 DEF Placed
<1>16. PagesOwned'
  <2>1. ASSUME NEW v \in Virt, page'[v] # Absent PROVE page'[v] \in mine' \/ OnLowMemory(v)'
    <3>1. CASE new(v)
      BY <1>0, <1>7, <3>1
    <3>2. CASE ~new(v)
      <4>1. page'[v] = page[v] /\ (page[v] \in mine \/ OnLowMemory(v))
        BY <1>7, <2>1, <3>2 DEF MapInv, PagesOwned
      <4> QED BY <1>0, <4>1 DEF OnLowMemory
    <3> QED BY <3>1, <3>2
  <2>2. ASSUME NEW v \in Virt, NEW w \in Virt, page'[v] \in mine', page'[v] = page'[w]
        PROVE  v = w
    <3>1. CASE new(v) /\ new(w)
      BY <1>7, <2>2, <3>1
    <3>2. CASE ~new(v) /\ ~new(w)
      <4>1. page[v] \in mine /\ page[v] = page[w]
        BY <1>0, <1>6, <1>7, <2>2, <3>2
      <4> QED BY <4>1 DEF MapInv, PagesOwned
    <3>3. CASE (new(v) /\ ~new(w)) \/ (~new(v) /\ new(w))
      BY <1>6, <1>7, <2>2, <3>3
    <3> QED BY <3>1, <3>2, <3>3
  <2> QED BY <2>1, <2>2 DEF PagesOwned
<1>17. TablesOwned'
  <2> SUFFICES ASSUME NEW t \in Tables, table[t] \notin {Absent, 0}
               PROVE  /\ table[t] \in mine'
                      /\ \A v \in Virt : page'[v] # table[t]
                      /\ \A u \in Tables : table[u] = table[t] => u = t
    BY <1>0 DEF TablesOwned
  <2>1. /\ table[t] \in mine /\ \A v \in Virt : page[v] # table[t]
        /\ \A u \in Tables : table[u] = table[t] => u = t
    BY DEF MapInv, TablesOwned
  <2> QED BY <1>0, <1>6, <1>7, <2>1
<1>18. MapInv'
  <2>1. mem_len' \in 0..MaxLen
    BY <1>0, <1>1
  <2>2. page' \in [Virt -> Block \cup {Absent}]
    <3>1. \A x \in Virt : page'[x] \in Block \cup {Absent}
      BY <1>6, <1>7 DEF MapInv
    <3> QED BY <1>0, <3>1 DEF MapFrom
  <2> QED BY <1>0, <1>6, <1>16, <1>17, <2>1, <2>2 DEF MapInv
<1> QED BY <1>0, <1>2, <1>6, <1>12, <1>13, <1>14, <1>15, <1>18

\* The other users of the frame allocator leave this process's frames alone.
LEMMA OthersLemma ==
    ASSUME PmmInv, MapInv, others
    PROVE  PmmInv' /\ MapInv'
<1>1. PmmInv'
  BY PmmStep DEF others
<1>2. \A b \in mine : holders'[b] = 1
  <2> SUFFICES ASSUME NEW b \in mine PROVE holders'[b] = 1
    OBVIOUS
  <2>1. b \in Block /\ holders[b] = 1 /\ holders'[b] >= holders[b]
    BY DEF MapInv, others
  <2>2. holders'[b] <= 1 /\ holders'[b] \in Nat
    BY <1>1, <2>1 DEF PmmInv, NoDoubleAllocation, TypeOK
  <2> QED BY <2>1, <2>2
<1>3. UNCHANGED <<mem_len, page, table, loaded, mine>>
  BY DEF others
<1>4. PagesOwned' /\ TablesOwned'
  BY <1>3 DEF MapInv, PagesOwned, TablesOwned, OnLowMemory
<1> QED BY <1>1, <1>2, <1>3, <1>4 DEF MapInv

-----------------------------------------------------------------------------
(* Sums over the chain of blocks.                                          *)

\* Every nonempty set of naturals has a least element.
LEMMA LeastElement ==
    ASSUME NEW T \in SUBSET Nat, T # {}
    PROVE  \E x \in T : \A y \in T : x <= y
<1> DEFINE R == {ss \in Nat \X Nat : ss[1] < ss[2]}
<1>1. IsWellFoundedOn(R, Nat)
  BY NatLessThanWellFounded, Zenon DEF OpToRel
<1>2. \A a, b \in Nat : a < b => <<a, b>> \in R
  OBVIOUS
<1> HIDE DEF R
<1>3. PICK x \in T : \A y \in T : ~(<<y, x>> \in R)
  BY <1>1, WFMin, Zenon
<1>4. ASSUME NEW y \in T PROVE x <= y
  <2>1. ~(y < x)
    BY <1>2, <1>3, Zenon
  <2> QED BY <2>1
<1> QED BY <1>4

\* What a block adds to the memory in use.
InUse(b) == IF b.used THEN b.size ELSE 0

\* The units a block uses are a number.
LEMMA InUseType ==
    ASSUME NEW b \in HBlock
    PROVE  InUse(b) \in Int
<1>1. b.size \in Nat /\ InUse(b) \in {b.size, 0}
  BY DEF HBlock, InUse
<1> QED BY <1>1

\* The memory in use in the first k blocks, as UsageExact computes it.
UsageTo(bl) == LET sum[k \in 0..Len(bl)] ==
                       IF k = 0 THEN 0 ELSE sum[k - 1] + IF bl[k].used THEN bl[k].size ELSE 0
               IN  sum

\* The recursive definition of the sum has a solution.
LEMMA UsageDef ==
    ASSUME NEW bl \in Seq(HBlock)
    PROVE  /\ UsageTo(bl)[0] = 0
           /\ \A k \in 1..Len(bl) : UsageTo(bl)[k] = UsageTo(bl)[k - 1] + InUse(bl[k])
<1> DEFINE Solves(g, n) == g = [k \in 0..n |-> IF k = 0 THEN 0 ELSE g[k - 1] + InUse(bl[k])]
           S == {n \in Nat : ~ \E g : Solves(g, n)}
<1>0. Len(bl) \in Nat
  OBVIOUS
<1>1. S = {}
  <2> SUFFICES ASSUME S # {} PROVE FALSE
    OBVIOUS
  <2>1. PICK n \in S : \A y \in S : n <= y
    <3>1. S \in SUBSET Nat
      OBVIOUS
    <3> HIDE DEF S
    <3> QED BY <3>1, LeastElement
  <2>2. n # 0
    <3>1. Solves([k \in 0..0 |-> 0], 0)
      OBVIOUS
    <3> QED BY <3>1
  <2>3. PICK g : Solves(g, n - 1)
    <3>1. n \in Nat /\ n - 1 \in Nat /\ ~(n <= n - 1)
      BY <2>1, <2>2
    <3>2. n - 1 \notin S
      BY <2>1, <3>1
    <3> HIDE DEF Solves
    <3> QED BY <3>1, <3>2
  <2> DEFINE h == [k \in 0..n |-> IF k = n THEN g[n - 1] + InUse(bl[n]) ELSE g[k]]
  <2>4. Solves(h, n)
    <3>1. ASSUME NEW k \in 0..n
          PROVE  h[k] = IF k = 0 THEN 0 ELSE h[k - 1] + InUse(bl[k])
      BY <2>2, <2>3
    <3> QED BY <3>1
  <2> HIDE DEF h, Solves
  <2> QED BY <2>4
<1>2. PICK g : Solves(g, Len(bl))
  BY <1>0, <1>1
<1>3. Solves(UsageTo(bl), Len(bl))
  BY <1>2 DEF UsageTo, InUse
<1> HIDE DEF S
<1>4. \A k \in 0..Len(bl) : UsageTo(bl)[k] = IF k = 0 THEN 0 ELSE UsageTo(bl)[k - 1] + InUse(bl[k])
  BY <1>3
<1> QED BY <1>0, <1>4

\* d at one place of a sequence, and from that place on.
At(i, k, d) == IF k = i THEN d ELSE 0
From(i, k, d) == IF i \in 1..k THEN d ELSE 0

\* Changing what one block adds by d changes the sums from there on by d.
LEMMA UsageDiff ==
    ASSUME NEW bl \in Seq(HBlock), NEW nb \in Seq(HBlock), Len(bl) <= Len(nb),
           NEW i \in Nat, NEW d \in Int,
           \A k \in 1..Len(bl) : InUse(nb[k]) = InUse(bl[k]) + At(i, k, d)
    PROVE  \A k \in 0..Len(bl) : /\ UsageTo(bl)[k] \in Int
                                 /\ UsageTo(nb)[k] = UsageTo(bl)[k] + From(i, k, d)
<1> DEFINE Good(k) == /\ UsageTo(bl)[k] \in Int
                      /\ UsageTo(nb)[k] = UsageTo(bl)[k] + From(i, k, d)
           S == {k \in 0..Len(bl) : ~Good(k)}
<1>0. Len(bl) \in Nat /\ Len(nb) \in Nat
  OBVIOUS
<1>a. \A k \in 1..Len(bl) : InUse(bl[k]) \in Int
  <2>1. \A k \in 1..Len(bl) : bl[k] \in HBlock
    OBVIOUS
  <2> QED BY <2>1, InUseType
<1>1. S = {}
  <2> SUFFICES ASSUME S # {} PROVE FALSE
    OBVIOUS
  <2>1. PICK k \in S : \A y \in S : k <= y
    <3>1. S \in SUBSET Nat
      BY <1>0
    <3> HIDE DEF S
    <3> QED BY <3>1, LeastElement
  <2>2. k # 0
    <3>1. Good(0)
      BY UsageDef DEF From
    <3> QED BY <3>1
  <2>3. Good(k - 1)
    BY <1>0, <2>1, <2>2
  <2>4. /\ UsageTo(bl)[k] = UsageTo(bl)[k - 1] + InUse(bl[k])
        /\ UsageTo(nb)[k] = UsageTo(nb)[k - 1] + InUse(nb[k])
    BY <1>0, <2>1, <2>2, UsageDef
  <2>5. InUse(bl[k]) \in Int /\ InUse(nb[k]) = InUse(bl[k]) + At(i, k, d)
    BY <1>0, <1>a, <2>1, <2>2
  <2>6. Good(k)
    BY <1>0, <2>1, <2>2, <2>3, <2>4, <2>5 DEF At, From
  <2> QED BY <2>1, <2>6
<1> QED BY <1>1

-----------------------------------------------------------------------------
(* The block chain.                                                        *)

\* MEM_ALIGN_TO rounds up.
LEMMA AlignToLemma ==
    ASSUME NEW n \in Nat, NEW align \in Nat \ {0}
    PROVE  AlignTo(n, align) \in Nat /\ n <= AlignTo(n, align)
<1> DEFINE a == n + align - 1
           d == a \div align
           m == a % align
<1>1. a \in Nat
  OBVIOUS
<1> HIDE DEF a
<1>2. d \in Nat /\ m \in 0..(align - 1) /\ a = align * d + m
  BY <1>1
<1>3. d * align \in Nat /\ d * align = align * d
  BY <1>2
<1> HIDE DEF d, m
<1>4. n <= d * align
  BY <1>2, <1>3 DEF a
<1> QED BY <1>3, <1>4 DEF AlignTo, d, a

\* Same addresses and sizes.
SameShape(mb, bl) == /\ Len(mb) = Len(bl)
                     /\ \A k \in 1..Len(bl) : mb[k].addr = bl[k].addr /\ mb[k].size = bl[k].size

\* Marking a block moves nothing.
LEMMA MarkLemma ==
    ASSUME NEW bl \in Seq(HBlock), NEW i \in Nat, NEW flag \in BOOLEAN
    PROVE  /\ Mark(bl, i, flag) \in Seq(HBlock)
           /\ SameShape(Mark(bl, i, flag), bl)
<1> DEFINE mb == Mark(bl, i, flag)
<1>0. Len(bl) \in Nat /\ DOMAIN bl = 1..Len(bl) /\ \A k \in 1..Len(bl) : bl[k] \in HBlock
  OBVIOUS
<1>1. DOMAIN mb = 1..Len(bl)
  BY <1>0 DEF Mark
<1>2. \A k \in 1..Len(bl) : mb[k] = IF k = i THEN [bl[k] EXCEPT !.used = flag] ELSE bl[k]
  BY <1>0 DEF Mark
<1>3. \A k \in 1..Len(bl) : /\ mb[k] \in HBlock
                            /\ mb[k].addr = bl[k].addr /\ mb[k].size = bl[k].size
  BY <1>0, <1>2 DEF HBlock
<1>4. mb = [k \in 1..Len(bl) |-> mb[k]]
  BY <1>0, <1>1 DEF Mark
<1>5. mb \in Seq(HBlock) /\ Len(mb) = Len(bl)
  BY <1>0, <1>3, <1>4
<1> QED BY <1>3, <1>5 DEF SameShape

\* Only the marked block changes.
LEMMA MarkUsed ==
    ASSUME NEW bl \in Seq(HBlock), NEW i \in 1..Len(bl), NEW flag \in BOOLEAN
    PROVE  /\ Mark(bl, i, flag)[i].used = flag
           /\ \A k \in 1..Len(bl) : k # i => Mark(bl, i, flag)[k] = bl[k]
<1>0. DOMAIN bl = 1..Len(bl) /\ bl[i] \in HBlock
  OBVIOUS
<1>1. Mark(bl, i, flag)[i] = [bl[i] EXCEPT !.used = flag]
  BY <1>0 DEF Mark
<1>2. [bl[i] EXCEPT !.used = flag].used = flag
  BY <1>0 DEF HBlock
<1>3. \A k \in 1..Len(bl) : k # i => Mark(bl, i, flag)[k] = bl[k]
  BY <1>0 DEF Mark
<1> QED BY <1>1, <1>2, <1>3

\* A chain depends on the places and sizes of its blocks only.
LEMMA ChainOfShape ==
    ASSUME NEW bl \in Seq(HBlock), NEW mb, SameShape(mb, bl), NEW lo, NEW lim, Chain(bl, lo, lim)
    PROVE  Chain(mb, lo, lim)
<1>1. Len(mb) = Len(bl) /\ Len(bl) \in Nat
  BY DEF SameShape
<1>2. \A k \in 1..Len(bl) : mb[k].addr = bl[k].addr /\ mb[k].size = bl[k].size
  BY DEF SameShape
<1>3. \A k \in 1..Len(bl) : EndOf(mb[k]) = EndOf(bl[k]) /\ Data(mb[k]) = Data(bl[k])
  BY <1>2 DEF EndOf, Data
<1>4. \A k \in 1..(Len(bl) - 1) : mb[k + 1].addr - EndOf(mb[k]) \in 0..(SIZEOF + 1)
  <2> SUFFICES ASSUME NEW k \in 1..(Len(bl) - 1)
               PROVE  mb[k + 1].addr - EndOf(mb[k]) \in 0..(SIZEOF + 1)
    OBVIOUS
  <2>1. k \in 1..Len(bl) /\ k + 1 \in 1..Len(bl)
    BY <1>1
  <2>2. bl[k + 1].addr - EndOf(bl[k]) \in 0..(SIZEOF + 1)
    BY DEF Chain
  <2>3. EndOf(mb[k]) = EndOf(bl[k]) /\ mb[k + 1].addr = bl[k + 1].addr
    BY <1>2, <1>3, <2>1
  <2> QED BY <2>2, <2>3
<1>5. \A k \in 1..Len(bl) : lo <= mb[k].addr /\ Data(mb[k]) + mb[k].size <= lim
  <2> SUFFICES ASSUME NEW k \in 1..Len(bl)
               PROVE  lo <= mb[k].addr /\ Data(mb[k]) + mb[k].size <= lim
    OBVIOUS
  <2>1. lo <= bl[k].addr /\ Data(bl[k]) + bl[k].size <= lim
    BY DEF Chain
  <2> QED BY <1>2, <1>3, <2>1
<1> QED BY <1>1, <1>4, <1>5 DEF Chain

\* Marking a block used or free keeps the chain.
LEMMA MarkChain ==
    ASSUME NEW bl \in Seq(HBlock), NEW i \in Nat, NEW flag \in BOOLEAN, NEW lo, NEW lim,
           Chain(bl, lo, lim)
    PROVE  /\ Mark(bl, i, flag) \in Seq(HBlock)
           /\ Len(Mark(bl, i, flag)) = Len(bl)
           /\ bl # << >> => Mark(bl, i, flag) # << >>
           /\ Chain(Mark(bl, i, flag), lo, lim)
<1>1. Mark(bl, i, flag) \in Seq(HBlock) /\ SameShape(Mark(bl, i, flag), bl)
  BY MarkLemma
<1>2. Chain(Mark(bl, i, flag), lo, lim)
  BY <1>1, ChainOfShape
<1>3. Len(Mark(bl, i, flag)) = Len(bl)
  BY <1>1 DEF SameShape
<1>4. bl # << >> => Mark(bl, i, flag) # << >>
  BY <1>1, <1>3
<1> QED BY <1>1, <1>2, <1>3, <1>4

\* Marking a block moves the memory in use by its size.
LEMMA MarkUsage ==
    ASSUME NEW bl \in Seq(HBlock), NEW i \in 1..Len(bl), NEW flag \in BOOLEAN,
           bl[i].used = ~flag
    PROVE  /\ UsageTo(bl)[Len(bl)] \in Int /\ bl[i].size \in Nat
           /\ UsageTo(Mark(bl, i, flag))[Len(Mark(bl, i, flag))]
                 = UsageTo(bl)[Len(bl)] + (IF flag THEN bl[i].size ELSE 0 - bl[i].size)
<1> DEFINE mb == Mark(bl, i, flag)
           d == IF flag THEN bl[i].size ELSE 0 - bl[i].size
<1>0. i \in Nat /\ Len(bl) \in Nat /\ \A k \in 1..Len(bl) : bl[k] \in HBlock
  OBVIOUS
<1>1. mb \in Seq(HBlock) /\ Len(mb) = Len(bl) /\ mb[i].size = bl[i].size
  BY <1>0, MarkLemma DEF SameShape
<1>2. d \in Int /\ bl[i].size \in Nat
  BY <1>0 DEF HBlock
<1>3. mb[i].used = flag /\ \A k \in 1..Len(bl) : k # i => mb[k] = bl[k]
  BY MarkUsed
<1> HIDE DEF mb
<1>4. InUse(mb[i]) = InUse(bl[i]) + d
  <2>1. CASE flag
    <3>1. mb[i].used /\ ~bl[i].used
      BY <1>3, <2>1, Zenon
    <3>2. InUse(mb[i]) = bl[i].size /\ InUse(bl[i]) = 0
      BY <1>1, <3>1, Zenon DEF InUse
    <3> QED BY <1>2, <2>1, <3>2
  <2>2. CASE ~flag
    <3>1. ~mb[i].used /\ bl[i].used
      BY <1>3, <2>2, Zenon
    <3>2. InUse(mb[i]) = 0 /\ InUse(bl[i]) = bl[i].size
      BY <1>1, <3>1, Zenon DEF InUse
    <3> QED BY <1>2, <2>2, <3>2
  <2> QED BY <2>1, <2>2
<1> HIDE DEF d
<1>5. \A k \in 1..Len(bl) : InUse(mb[k]) = InUse(bl[k]) + At(i, k, d)
  <2> SUFFICES ASSUME NEW k \in 1..Len(bl)
               PROVE  InUse(mb[k]) = InUse(bl[k]) + At(i, k, d)
    OBVIOUS
  <2>1. CASE k = i
    BY <1>4, <2>1 DEF At
  <2>2. CASE k # i
    <3>1. InUse(bl[k]) \in Int
      BY <1>0, InUseType
    <3> QED BY <1>3, <2>2, <3>1 DEF At
  <2> QED BY <2>1, <2>2
<1>6. \A k \in 0..Len(bl) : /\ UsageTo(bl)[k] \in Int
                            /\ UsageTo(mb)[k] = UsageTo(bl)[k] + From(i, k, d)
  <2>1. Len(bl) <= Len(mb)
    BY <1>0, <1>1
  <2> QED BY <1>0, <1>1, <1>2, <1>5, <2>1, UsageDiff, Zenon
<1>7. UsageTo(mb)[Len(bl)] = UsageTo(bl)[Len(bl)] + d /\ UsageTo(bl)[Len(bl)] \in Int
  BY <1>0, <1>2, <1>6 DEF From
<1> QED BY <1>1, <1>2, <1>7 DEF mb, d

\* A block behind the top one.
LEMMA AppendBlock ==
    ASSUME NEW bl \in Seq(HBlock), bl # << >>, NEW b \in HBlock, NEW lo \in Nat, NEW lim \in Int,
           Chain(bl, lo, lim), b.addr - EndOf(Top(bl)) \in 0..(SIZEOF + 1),
           NEW lim2 \in Int, lim <= lim2, Data(b) + b.size <= lim2
    PROVE  /\ bl \o <<b>> \in Seq(HBlock)
           /\ bl \o <<b>> # << >>
           /\ Top(bl \o <<b>>) = b
           /\ Chain(bl \o <<b>>, lo, lim2)
           /\ UsageTo(bl)[Len(bl)] \in Int
           /\ UsageTo(bl \o <<b>>)[Len(bl \o <<b>>)] = UsageTo(bl)[Len(bl)] + InUse(b)
<1> DEFINE nb == bl \o <<b>>
           n == Len(bl)
<1>0. n \in Nat \ {0} /\ \A k \in 1..n : bl[k] \in HBlock
  OBVIOUS
<1>1. /\ nb \in Seq(HBlock) /\ Len(nb) = n + 1 /\ nb[n + 1] = b
      /\ \A k \in 1..n : nb[k] = bl[k]
  OBVIOUS
<1> HIDE DEF nb
<1>2. Top(nb) = b /\ Top(bl) = bl[n]
  BY <1>1 DEF Top
<1>3. lo <= bl[n].addr /\ bl[n].addr \in Nat /\ bl[n].size \in Nat /\ lo \in Nat
  BY <1>0, AddrSpaceAssumption DEF Chain, HBlock
<1>a. b.addr \in Nat /\ b.size \in Nat
  BY DEF HBlock
<1>4. lo <= b.addr
  <2>1. b.addr - (bl[n].addr + 3 + bl[n].size) \in 0..4
    BY <1>2 DEF EndOf, SIZEOF
  <2> DEFINE x == bl[n].addr
             y == bl[n].size
             z == b.addr
  <2>2. z - (x + 3 + y) \in 0..4 /\ lo <= x /\ x \in Nat /\ y \in Nat /\ z \in Nat
    BY <1>3, <1>a, <2>1
  <2> HIDE DEF x, y, z
  <2>3. lo <= z
    BY <1>3, <2>2
  <2> QED BY <2>3 DEF z
<1>5. Chain(nb, lo, lim2)
  <2>1. ASSUME NEW k \in 1..(Len(nb) - 1)
        PROVE  nb[k + 1].addr - EndOf(nb[k]) \in 0..(SIZEOF + 1)
    <3>1. CASE k = n
      BY <1>0, <1>1, <1>2, <3>1
    <3>2. CASE k # n
      <4>1. k \in 1..(n - 1) /\ k \in 1..n /\ k + 1 \in 1..n
        BY <1>0, <1>1, <3>2
      <4>2. bl[k + 1].addr - EndOf(bl[k]) \in 0..(SIZEOF + 1)
        BY <4>1 DEF Chain
      <4> QED BY <1>1, <4>1, <4>2
    <3> QED BY <3>1, <3>2
  <2>2. ASSUME NEW k \in 1..Len(nb)
        PROVE  lo <= nb[k].addr /\ Data(nb[k]) + nb[k].size <= lim2
    <3>1. CASE k = n + 1
      BY <1>1, <1>4, <3>1
    <3>2. CASE k # n + 1
      <4>1. k \in 1..n
        BY <1>0, <1>1, <3>2
      <4>2. nb[k] = bl[k] /\ bl[k].addr \in Nat /\ bl[k].size \in Nat
        BY <1>0, <1>1, <4>1 DEF HBlock
      <4>3. lo <= bl[k].addr /\ Data(bl[k]) + bl[k].size <= lim
        BY <4>1 DEF Chain
      <4>4. bl[k].addr + 2 + bl[k].size <= lim2
        BY <4>2, <4>3 DEF Data, HEADER
      <4> QED BY <4>2, <4>3, <4>4 DEF Data, HEADER
    <3> QED BY <3>1, <3>2
  <2> QED BY <2>1, <2>2 DEF Chain
<1>6. /\ UsageTo(nb)[n] = UsageTo(bl)[n] /\ UsageTo(bl)[n] \in Int
  <2>1. \A k \in 1..n : InUse(nb[k]) = InUse(bl[k]) + At(0, k, 0)
    <3> SUFFICES ASSUME NEW k \in 1..n PROVE InUse(bl[k]) \in Int
      BY <1>1 DEF At
    <3> QED BY <1>0, InUseType
  <2>2. \A k \in 0..n : /\ UsageTo(bl)[k] \in Int
                        /\ UsageTo(nb)[k] = UsageTo(bl)[k] + From(0, k, 0)
    <3>1. Len(bl) <= Len(nb) /\ 0 \in Nat /\ 0 \in Int
      BY <1>0, <1>1
    <3> QED BY <1>1, <2>1, <3>1, UsageDiff, Zenon
  <2> QED BY <1>0, <2>2 DEF From
<1>7. UsageTo(nb)[n + 1] = UsageTo(nb)[n] + InUse(b)
  <2>1. n + 1 \in 1..Len(nb) /\ (n + 1) - 1 = n
    BY <1>0, <1>1
  <2> QED BY <1>1, <2>1, UsageDef
<1>8. nb # << >>
  BY <1>0, <1>1
<1> QED BY <1>1, <1>2, <1>5, <1>6, <1>7, <1>8 DEF nb

\* mem_new_block appends a block, and a free one in front of it if that fits
\* into the alignment gap: the chain goes on and the new block's size is used.
LEMMA NewBlockLemma ==
    ASSUME NEW bl \in Seq(HBlock), bl # << >>, NEW size \in Nat, NEW align \in Nat \ {0},
           NEW lo \in Nat, NEW lim \in Int, Chain(bl, lo, lim),
           NEW lim2 \in Int, lim <= lim2, NewEnd(bl, size, align) <= lim2
    PROVE  /\ mem_new_block(bl, size, align) \in Seq(HBlock)
           /\ mem_new_block(bl, size, align) # << >>
           /\ Chain(mem_new_block(bl, size, align), lo, lim2)
           /\ UsageTo(bl)[Len(bl)] \in Int
           /\ UsageTo(mem_new_block(bl, size, align))[Len(mem_new_block(bl, size, align))]
                 = UsageTo(bl)[Len(bl)] + size
<1> DEFINE next == EndOf(Top(bl))
           at == AlignTo(next + HEADER, align)
           aligned == at - HEADER
           filler == [addr |-> next, size |-> aligned - next - SIZEOF, used |-> FALSE]
           b == [addr |-> aligned, size |-> size, used |-> TRUE]
<1>1. next \in Nat
  <2>1. Len(bl) \in 1..Len(bl) /\ Top(bl) = bl[Len(bl)]
    BY DEF Top
  <2>2. Top(bl) \in HBlock
    BY <2>1
  <2> QED BY <2>2 DEF HBlock, EndOf, SIZEOF
<1> HIDE DEF next
<1>2. at \in Nat /\ next + 2 <= at
  <2>1. next + HEADER \in Nat
    BY <1>1 DEF HEADER
  <2>2. at \in Nat /\ next + HEADER <= at
    BY <2>1, AlignToLemma
  <2> QED BY <2>2 DEF HEADER
<1> HIDE DEF at
<1>3. aligned \in Nat /\ next <= aligned /\ aligned + 2 = at
  BY <1>1, <1>2 DEF HEADER
<1>4. aligned + 2 + size <= lim2
  BY <1>3 DEF NewEnd, next, at
<1> HIDE DEF aligned
<1>5. b \in HBlock /\ b.addr = aligned /\ Data(b) + b.size <= lim2 /\ InUse(b) = size
  BY <1>3, <1>4 DEF HBlock, Data, HEADER, InUse
<1>6. mem_new_block(bl, size, align)
        = bl \o (IF aligned - next > SIZEOF + 1 THEN <<filler>> ELSE << >>) \o <<b>>
  BY DEF mem_new_block, next, at, aligned
<1>7. CASE aligned - next > SIZEOF + 1
  <2>1. /\ filler \in HBlock /\ filler.addr = next
        /\ Data(filler) + filler.size <= lim2 /\ InUse(filler) = 0
        /\ EndOf(filler) = aligned
    BY <1>1, <1>3, <1>4, <1>7 DEF HBlock, Data, EndOf, HEADER, SIZEOF, InUse
  <2>2. filler.addr - EndOf(Top(bl)) \in 0..(SIZEOF + 1)
    BY <1>1, <2>1 DEF next, SIZEOF
  <2> DEFINE fb == bl \o <<filler>>
  <2> HIDE DEF filler, b
  <2>3. /\ fb \in Seq(HBlock) /\ fb # << >> /\ Top(fb) = filler /\ Chain(fb, lo, lim2)
        /\ UsageTo(bl)[Len(bl)] \in Int
        /\ UsageTo(fb)[Len(fb)] = UsageTo(bl)[Len(bl)] + 0
    BY <2>1, <2>2, AppendBlock
  <2>4. mem_new_block(bl, size, align) = fb \o <<b>>
    BY <1>6, <1>7
  <2> HIDE DEF fb
  <2>5. b.addr - EndOf(Top(fb)) \in 0..(SIZEOF + 1)
    BY <1>3, <1>5, <2>1, <2>3 DEF SIZEOF
  <2>6. /\ fb \o <<b>> \in Seq(HBlock) /\ fb \o <<b>> # << >> /\ Chain(fb \o <<b>>, lo, lim2)
        /\ UsageTo(fb \o <<b>>)[Len(fb \o <<b>>)] = UsageTo(fb)[Len(fb)] + size
    <3>1. lim2 <= lim2
      OBVIOUS
    <3> QED BY <1>5, <2>3, <2>5, <3>1, AppendBlock
  <2> QED BY <2>3, <2>4, <2>6
<1>8. CASE ~(aligned - next > SIZEOF + 1)
  <2>1. mem_new_block(bl, size, align) = bl \o <<b>>
    BY <1>6, <1>8
  <2>2. b.addr - EndOf(Top(bl)) \in 0..(SIZEOF + 1)
    BY <1>1, <1>3, <1>5, <1>8 DEF next, SIZEOF
  <2> HIDE DEF b
  <2>3. /\ bl \o <<b>> \in Seq(HBlock) /\ bl \o <<b>> # << >> /\ Chain(bl \o <<b>>, lo, lim2)
        /\ UsageTo(bl)[Len(bl)] \in Int
        /\ UsageTo(bl \o <<b>>)[Len(bl \o <<b>>)] = UsageTo(bl)[Len(bl)] + size
    BY <1>5, <2>2, AppendBlock
  <2> QED BY <2>1, <2>3
<1> QED BY <1>7, <1>8

\* The bottom block alone.
LEMMA BottomLemma ==
    ASSUME NEW a \in Nat, NEW lo \in Nat, lo <= a, NEW lim \in Int, a + HEADER <= lim
    PROVE  /\ Bottom(a) \in Seq(HBlock) /\ Bottom(a) # << >>
           /\ Chain(Bottom(a), lo, lim)
           /\ UsageTo(Bottom(a))[Len(Bottom(a))] = 0
<1> DEFINE b == [addr |-> a, size |-> 0, used |-> TRUE]
<1>1. b \in HBlock /\ b.addr = a /\ b.size = 0 /\ InUse(b) = 0
  BY DEF HBlock, InUse
<1>2. Bottom(a) = <<b>>
  BY DEF Bottom
<1> HIDE DEF b
<1>3. Bottom(a) \in Seq(HBlock) /\ Len(Bottom(a)) = 1 /\ Bottom(a)[1] = b /\ Bottom(a) # << >>
  BY <1>1, <1>2
<1>4. Chain(Bottom(a), lo, lim)
  BY <1>1, <1>3 DEF Chain, Data, HEADER
<1>5. UsageTo(Bottom(a))[1] = 0
  <2>1. UsageTo(Bottom(a))[0] = 0 /\ UsageTo(Bottom(a))[1] = UsageTo(Bottom(a))[1 - 1] + InUse(Bottom(a)[1])
    BY <1>3, UsageDef
  <2> QED BY <1>1, <1>3, <2>1
<1> QED BY <1>3, <1>4, <1>5

\* A larger area holds the chain too.
LEMMA ChainGrows ==
    ASSUME NEW bl \in Seq(HBlock), NEW lo, NEW lim \in Int, NEW lim2 \in Int, lim <= lim2,
           Chain(bl, lo, lim)
    PROVE  Chain(bl, lo, lim2)
<1>1. ASSUME NEW i \in 1..Len(bl) PROVE Data(bl[i]) + bl[i].size <= lim2
  <2>1. bl[i] \in HBlock
    OBVIOUS
  <2>2. Data(bl[i]) + bl[i].size \in Int
    BY <2>1 DEF HBlock, Data, HEADER
  <2>3. Data(bl[i]) + bl[i].size <= lim
    BY DEF Chain
  <2> QED BY ONLY <2>2, <2>3, lim \in Int, lim2 \in Int, lim <= lim2
<1> QED BY <1>1 DEF Chain

-----------------------------------------------------------------------------
(* The steps of the heaps.                                                 *)

\* What depends on the address space only.
LEMMA SameSpace ==
    ASSUME PmmInv, MapInv, UNCHANGED asVars
    PROVE  PmmInv' /\ MapInv' /\ End' = End
<1>1. PmmInv'
  BY DEF asVars, PmmInv, TypeOK, NoDoubleAllocation, BitmapExact, CounterExact, Owned
<1>2. PagesOwned' /\ TablesOwned'
  BY DEF asVars, MapInv, PagesOwned, TablesOwned, OnLowMemory
<1>3. MapInv'
  BY <1>2 DEF asVars, MapInv
<1>4. End' = End
  BY DEF asVars, End
<1> QED BY <1>1, <1>3, <1>4

\* What a step that maps nothing leaves of the heap's area.
LEMMA SameArea ==
    ASSUME AreaMapped, UNCHANGED <<mem_len, page, table, loaded, kind>>,
           blocks = << >> <=> blocks' = << >>, pending' # Idle => kind = "libc"
    PROVE  AreaMapped' /\ KeptMemory /\ End' = End /\ Limit' = Limit /\ Floor' = Floor
<1>1. End' = End
  BY DEF End
<1>2. Placed => Placed'
  BY DEF Placed
<1>3. HeapMapped => HeapMapped'
  BY <1>1 DEF HeapMapped
<1>4. Limit' = Limit /\ Floor' = Floor
  BY <1>1 DEF Limit, Floor, KernelHeapEnd
<1>5. AreaMapped'
  BY <1>2, <1>3 DEF AreaMapped
<1>6. KeptMemory
  BY DEF KeptMemory
<1> QED BY <1>1, <1>4, <1>5, <1>6

\* Where the area of a heap begins and ends.
LEMMA AreaFacts ==
    ASSUME MapInv
    PROVE  /\ 1..HeapPages \subseteq Virt
           /\ KernelHeapEnd \in Nat /\ PAGE + HEADER <= KernelHeapEnd
           /\ End \in Nat /\ Floor \in Nat
           /\ kind = "libc" => Floor <= End
           /\ kind = "kernel" => Floor = PAGE
<1>1. CodeLen \in Nat /\ mem_len \in Nat /\ PAGE \in Nat \ {0, 1}
  BY AddrSpaceAssumption DEF MapInv
<1>2. Virt = 0..(HeapTop + StackPages)
  BY DEF Virt
<1>3. 1..HeapPages \subseteq Virt
  <2>1. StackPages \in Nat /\ HeapTop \in Nat /\ HeapPages \in Nat
    BY AreasApart, ProgramAssumption, HeapAssumption, PmmAssumption
  <2> QED BY <1>2, <2>1, HeapAssumption
<1>4. PAGE * CodeLen \in Nat /\ PAGE * (1 + CodeLen) = PAGE + PAGE * CodeLen
  BY <1>1
<1>5. End \in Nat /\ PAGE * (1 + CodeLen) <= End /\ PAGE * (1 + CodeLen) \in Nat
  BY <1>1, <1>4 DEF End
<1>6. HeapPages \in Nat /\ HeapPages >= 1
  BY HeapAssumption, PmmAssumption
<1>7. PAGE * (1 + HeapPages) = PAGE + PAGE * HeapPages /\ PAGE * HeapPages \in Nat
      /\ PAGE <= PAGE * HeapPages
  BY <1>1, <1>6
<1>8. KernelHeapEnd \in Nat /\ PAGE + HEADER <= KernelHeapEnd
  BY <1>1, <1>7 DEF KernelHeapEnd, HEADER
<1> QED BY <1>1, <1>3, <1>5, <1>8 DEF Floor

\* UsageExact in terms of the sums above.
LEMMA UsageMeans ==
    /\ UsageExact <=> (kind = "kernel" => used_memory = UsageTo(blocks)[Len(blocks)])
    /\ UsageExact' <=> (kind' = "kernel" => used_memory' = UsageTo(blocks')[Len(blocks')])
  BY DEF UsageExact, UsageTo

\* The kernel's aligned_alloc keeps the invariant, first call and abort too.
LEMMA AlignedAllocStep ==
    ASSUME HeapInv, NEW align \in {1, PAGE}, NEW n \in Sizes, aligned_alloc(align, n)
    PROVE  HeapInv' /\ KeptMemory
<1> DEFINE size == AlignTo(n, 2)
           bl == IF blocks = << >> THEN Bottom(PAGE) ELSE blocks
<1>0. /\ PmmInv /\ MapInv /\ AreaMapped /\ HeapTypes /\ Chain(blocks, Floor, Limit) /\ UsageExact
      /\ kind = "kernel" /\ UNCHANGED <<kind, pending>>
  BY DEF HeapInv, aligned_alloc
<1>1. size \in Nat /\ align \in Nat \ {0}
  BY AlignToLemma, HeapAssumption, AddrSpaceAssumption
<1>2. /\ KernelHeapEnd \in Nat /\ PAGE + HEADER <= KernelHeapEnd /\ 1..HeapPages \subseteq Virt
      /\ PAGE \in Nat /\ Floor = PAGE /\ Floor' = Floor
  <2>1. Floor = PAGE /\ Floor' = PAGE
    BY <1>0 DEF Floor
  <2> QED BY <1>0, <2>1, AreaFacts, AddrSpaceAssumption
<1>3. /\ PmmInv' /\ MapInv' /\ KeptMemory /\ \A v \in 1..HeapPages : page'[v] # Absent
      /\ table' = table
  <2>1. CASE blocks = << >>
    <3> DEFINE heap == [base |-> 1, num |-> HeapPages]
    <3>1. MapHeap /\ \A v \in Virt : page[v] = Absent
      BY <1>0, <2>1 DEF aligned_alloc, AreaMapped
    <3>2. /\ pmm_alloc_pages(heap.num) /\ Taken # {} /\ page' = MapPages(heap, Result)
          /\ mine' = mine \cup Taken /\ UNCHANGED <<mem_len, table>> /\ loaded' \in 0..Len(Areas)
          /\ table' = table
      BY <1>0, <3>1 DEF MapHeap, MapInv
    <3>3. heap.base \in Nat /\ heap.num \in Nat \ {0}
      BY HeapAssumption, PmmAssumption
    <3>4. Pages(heap) = 1..HeapPages
      <4>1. HeapPages \in Int
        BY HeapAssumption, PmmAssumption
      <4> QED BY <4>1 DEF Pages
    <3> HIDE DEF heap
    <3>5. PmmInv' /\ MapInv' /\ \A v \in Virt : v \in Pages(heap) => page'[v] # Absent
      BY <1>0, <3>2, <3>3, MapPagesLemma
    <3>6. KeptMemory
      BY <3>1 DEF KeptMemory
    <3> QED BY <1>2, <3>2, <3>4, <3>5, <3>6
  <2>2. CASE blocks # << >>
    <3>1. UNCHANGED asVars
      BY <2>2 DEF aligned_alloc
    <3>2. PmmInv' /\ MapInv' /\ page' = page /\ table' = table
      BY <1>0, <3>1, SameSpace DEF asVars
    <3> QED BY <1>0, <2>2, <3>2 DEF AreaMapped, KeptMemory
  <2> QED BY <2>1, <2>2
<1>4. /\ bl \in Seq(HBlock) /\ bl # << >> /\ Chain(bl, Floor, KernelHeapEnd)
      /\ used_memory \in Int /\ used_memory = UsageTo(bl)[Len(bl)]
  <2>1. CASE blocks = << >>
    <3>1. bl = Bottom(PAGE)
      BY <2>1
    <3> HIDE DEF bl
    <3>2. UsageTo(blocks)[Len(blocks)] = 0
      BY <1>0, <2>1, UsageDef DEF HeapTypes
    <3> QED BY <1>0, <1>2, <3>1, <3>2, BottomLemma, UsageMeans DEF HeapTypes
  <2>2. CASE blocks # << >>
    BY <1>0, <2>2, UsageMeans DEF HeapTypes, Limit
  <2> QED BY <2>1, <2>2
<1>5. /\ blocks' \in Seq(HBlock) /\ blocks' # << >> /\ Chain(blocks', Floor, KernelHeapEnd)
      /\ used_memory' \in Int /\ used_memory' = UsageTo(blocks')[Len(blocks')]
  <2> HIDE DEF size, bl
  <2>1. \/ \E i \in DOMAIN bl : /\ FirstFit(bl, size, align, i)
                                /\ used_memory' = used_memory + bl[i].size
                                /\ blocks' = Mark(bl, i, TRUE)
        \/ /\ NewEnd(bl, size, align) <= KernelHeapEnd
           /\ blocks' = mem_new_block(bl, size, align)
           /\ used_memory' = used_memory + size
        \/ /\ blocks' = bl
           /\ UNCHANGED used_memory
    BY DEF aligned_alloc, size, bl
  <2>2. ASSUME NEW i \in DOMAIN bl, FirstFit(bl, size, align, i),
               used_memory' = used_memory + bl[i].size, blocks' = Mark(bl, i, TRUE)
        PROVE  /\ blocks' \in Seq(HBlock) /\ blocks' # << >> /\ Chain(blocks', Floor, KernelHeapEnd)
               /\ used_memory' \in Int /\ used_memory' = UsageTo(blocks')[Len(blocks')]
    <3>1. i \in 1..Len(bl) /\ i \in Nat /\ bl[i] \in HBlock
      BY <1>4
    <3>2. bl[i].used = ~TRUE
      BY <2>2, <3>1 DEF FirstFit, HBlock
    <3>3. /\ Mark(bl, i, TRUE) \in Seq(HBlock) /\ Mark(bl, i, TRUE) # << >>
          /\ Chain(Mark(bl, i, TRUE), Floor, KernelHeapEnd)
      BY <1>4, <3>1, MarkChain
    <3>4. /\ UsageTo(bl)[Len(bl)] \in Int /\ bl[i].size \in Nat
          /\ UsageTo(Mark(bl, i, TRUE))[Len(Mark(bl, i, TRUE))] = UsageTo(bl)[Len(bl)] + bl[i].size
      BY <1>4, <3>1, <3>2, MarkUsage
    <3>5. used_memory' = UsageTo(bl)[Len(bl)] + bl[i].size /\ used_memory' \in Int
      BY <1>4, <2>2, <3>4
    <3>6. UsageTo(blocks')[Len(blocks')] = UsageTo(bl)[Len(bl)] + bl[i].size
      BY <2>2, <3>4
    <3> QED BY <2>2, <3>3, <3>5, <3>6
  <2>3. CASE /\ NewEnd(bl, size, align) <= KernelHeapEnd
             /\ blocks' = mem_new_block(bl, size, align)
             /\ used_memory' = used_memory + size
    <3>1. KernelHeapEnd \in Int /\ KernelHeapEnd <= KernelHeapEnd /\ Floor \in Nat
      BY <1>2
    <3>2. /\ blocks' \in Seq(HBlock) /\ blocks' # << >> /\ Chain(blocks', Floor, KernelHeapEnd)
          /\ UsageTo(blocks')[Len(blocks')] = UsageTo(bl)[Len(bl)] + size
      BY <1>1, <1>4, <2>3, <3>1, NewBlockLemma
    <3> QED BY <1>1, <1>4, <2>3, <3>2
  <2>4. CASE blocks' = bl /\ UNCHANGED used_memory
    BY <1>4, <2>4
  <2> QED BY <2>1, <2>2, <2>3, <2>4
<1>6. AreaMapped'
  <2>1. kind' = "kernel" /\ pending' = pending /\ table' = table /\ blocks' # << >>
    BY <1>0, <1>3, <1>5
  <2> QED BY <1>0, <1>3, <2>1 DEF AreaMapped, Idle
<1>7. HeapTypes' /\ Chain(blocks', Floor', Limit') /\ UsageExact'
  <2>1. Floor' = Floor /\ Limit' = KernelHeapEnd /\ kind' = kind /\ pending' = pending
    BY <1>0, <1>2 DEF Limit, KernelHeapEnd
  <2> QED BY <1>0, <1>5, <2>1, UsageMeans DEF HeapTypes
<1> QED BY <1>3, <1>6, <1>7 DEF HeapInv

\* Steps that only mark blocks: kfree, free, and an allocation that reuses one.
LEMMA MarkStep ==
    ASSUME HeapInv, UNCHANGED <<asVars, kind>>, HeapTypes', Chain(blocks', Floor, Limit), UsageExact',
           blocks = << >> <=> blocks' = << >>,
           pending' # Idle => kind = "libc"
    PROVE  HeapInv' /\ KeptMemory
<1>0. PmmInv /\ MapInv /\ AreaMapped /\ UNCHANGED <<mem_len, page, table, loaded, kind>>
  BY DEF HeapInv, asVars
<1>1. PmmInv' /\ MapInv'
  BY <1>0, SameSpace
<1>2. AreaMapped' /\ KeptMemory /\ Limit' = Limit /\ Floor' = Floor
  BY <1>0, SameArea
<1> QED BY <1>1, <1>2 DEF HeapInv

\* kfree keeps it.
LEMMA KfreeStep ==
    ASSUME HeapInv, NEW i \in DOMAIN blocks, kfree(i)
    PROVE  HeapInv' /\ KeptMemory
<1>0. HeapTypes /\ Chain(blocks, Floor, Limit) /\ UsageExact /\ AreaMapped
  BY DEF HeapInv
<1>1. /\ kind = "kernel" /\ i \in Held /\ blocks' = Mark(blocks, i, FALSE)
      /\ used_memory' = used_memory - blocks[i].size
      /\ UNCHANGED <<asVars, kind, pending>>
  BY DEF kfree
<1>2. i \in 1..Len(blocks) /\ i \in Nat /\ blocks \in Seq(HBlock) /\ blocks[i] \in HBlock
  BY <1>0 DEF HeapTypes
<1>3. blocks[i].used = ~FALSE
  BY <1>1, <1>2 DEF Held, HBlock
<1>4. /\ blocks' \in Seq(HBlock) /\ Len(blocks') = Len(blocks) /\ Chain(blocks', Floor, Limit)
  BY <1>0, <1>1, <1>2, MarkChain
<1>5. /\ UsageTo(blocks)[Len(blocks)] \in Int /\ blocks[i].size \in Nat
      /\ UsageTo(blocks')[Len(blocks')] = UsageTo(blocks)[Len(blocks)] + (0 - blocks[i].size)
  BY <1>1, <1>2, <1>3, MarkUsage
<1>6. UsageExact' /\ used_memory' \in Int
  <2>1. used_memory = UsageTo(blocks)[Len(blocks)]
    BY <1>0, <1>1, UsageMeans
  <2>2. used_memory' = UsageTo(blocks)[Len(blocks)] + (0 - blocks[i].size) /\ used_memory' \in Int
    BY <1>1, <1>5, <2>1
  <2> QED BY <1>5, <2>2, UsageMeans
<1>7. HeapTypes'
  BY <1>0, <1>1, <1>4, <1>6 DEF HeapTypes
<1>8. blocks = << >> <=> blocks' = << >>
  BY <1>2, <1>4
<1>9. pending' # Idle => kind = "libc"
  BY <1>0, <1>1 DEF AreaMapped, Idle
<1> QED BY <1>1, <1>4, <1>6, <1>7, <1>8, <1>9, MarkStep

\* Usage is counted by the kernel only.
LEMMA LibcUsage ==
    ASSUME kind = "libc", UNCHANGED kind
    PROVE  UsageExact'
  BY UsageMeans

\* libc's free keeps it.
LEMMA FreeStep ==
    ASSUME HeapInv, NEW i \in DOMAIN blocks, free(i)
    PROVE  HeapInv' /\ KeptMemory
<1>0. HeapTypes /\ Chain(blocks, Floor, Limit) /\ AreaMapped
  BY DEF HeapInv
<1>1. /\ kind = "libc" /\ blocks' = Mark(blocks, i, FALSE)
      /\ UNCHANGED <<asVars, kind, used_memory, pending>>
  BY DEF free
<1>2. i \in Nat /\ blocks \in Seq(HBlock)
  BY <1>0 DEF HeapTypes
<1>4. /\ blocks' \in Seq(HBlock) /\ Len(blocks') = Len(blocks) /\ Chain(blocks', Floor, Limit)
  BY <1>0, <1>1, <1>2, MarkChain
<1>7. HeapTypes' /\ UsageExact'
  BY <1>0, <1>1, <1>4, LibcUsage DEF HeapTypes
<1>8. blocks = << >> <=> blocks' = << >>
  BY <1>2, <1>4
<1>9. pending' # Idle => kind = "libc"
  BY <1>0, <1>1 DEF AreaMapped, Idle
<1> QED BY <1>1, <1>4, <1>7, <1>8, <1>9, MarkStep

\* Releasing realloc's old block keeps the chain.
LEMMA GotLemma ==
    ASSUME NEW bl \in Seq(HBlock), NEW old \in Nat, NEW lo, NEW lim, Chain(bl, lo, lim)
    PROVE  /\ Got(bl, old) \in Seq(HBlock) /\ Len(Got(bl, old)) = Len(bl)
           /\ Chain(Got(bl, old), lo, lim)
<1>1. CASE old = 0
  BY <1>1 DEF Got
<1>2. CASE old # 0
  BY <1>2, MarkChain DEF Got
<1> QED BY <1>1, <1>2

\* libc's malloc and realloc keep it, up to the first sbrk.
LEMMA MallocStep ==
    ASSUME HeapInv, NEW n \in Sizes, NEW old \in Nat, malloc(n, old)
    PROVE  HeapInv' /\ KeptMemory
<1> DEFINE size == AlignTo(n, 2)
<1>0. HeapTypes /\ Chain(blocks, Floor, Limit) /\ AreaMapped /\ blocks \in Seq(HBlock)
  BY DEF HeapInv, HeapTypes
<1>1. /\ kind = "libc" /\ Running /\ pending = Idle
      /\ UNCHANGED <<asVars, kind, used_memory>>
  BY DEF malloc
<1>2. \/ \E i \in DOMAIN blocks : blocks' = Got(Mark(blocks, i, TRUE), old) /\ UNCHANGED pending
      \/ pending' = [size |-> size, old |-> old] /\ UNCHANGED blocks
  BY DEF malloc
<1>3. size \in Nat
  BY AlignToLemma, HeapAssumption
<1> HIDE DEF size
<1>4. /\ blocks' \in Seq(HBlock) /\ Len(blocks') = Len(blocks) /\ Chain(blocks', Floor, Limit)
  <2>1. ASSUME NEW i \in DOMAIN blocks, blocks' = Got(Mark(blocks, i, TRUE), old)
        PROVE  /\ blocks' \in Seq(HBlock) /\ Len(blocks') = Len(blocks)
               /\ Chain(blocks', Floor, Limit)
    <3>1. i \in Nat
      BY <1>0
    <3>2. /\ Mark(blocks, i, TRUE) \in Seq(HBlock) /\ Len(Mark(blocks, i, TRUE)) = Len(blocks)
          /\ Chain(Mark(blocks, i, TRUE), Floor, Limit)
      BY <1>0, <3>1, MarkChain
    <3> QED BY <2>1, <3>2, GotLemma
  <2> QED BY <1>0, <1>2, <2>1
<1>5. pending' \in [size : Nat, old : Nat]
  <2>1. pending \in [size : Nat, old : Nat]
    BY <1>0 DEF HeapTypes
  <2>2. [size |-> size, old |-> old] \in [size : Nat, old : Nat]
    BY <1>3
  <2>3. pending' = pending \/ pending' = [size |-> size, old |-> old]
    BY <1>2
  <2> QED BY <2>1, <2>2, <2>3, Zenon
<1>6. HeapTypes' /\ UsageExact'
  BY <1>0, <1>1, <1>4, <1>5, LibcUsage DEF HeapTypes
<1>7. blocks = << >> <=> blocks' = << >>
  BY <1>0, <1>4
<1> QED BY <1>1, <1>4, <1>6, <1>7, MarkStep

\* An area that was not mapped yet, in its turn.
LEMMA MapAreaStep ==
    ASSUME PmmInv, MapInv, Placed, HeapMapped, map_area
    PROVE  PmmInv' /\ MapInv' /\ Placed' /\ HeapMapped' /\ KeptMemory
<1> DEFINE k == loaded + 1
           a == Areas[k]
<1>1. /\ k \in 1..Len(Areas) /\ loaded \in Nat /\ loaded' = k
      /\ a.base \in Nat /\ a.num \in Nat \ {0}
      /\ Pages(a) \subseteq Virt /\ Virt \subseteq Nat
  <2>1. loaded \in 0..Len(Areas) /\ loaded < Len(Areas) /\ loaded' = k /\ Len(Areas) \in Nat
    BY AreasApart DEF map_area, MapInv
  <2>2. k \in 1..Len(Areas) /\ loaded \in Nat
    BY <2>1
  <2> QED BY <2>1, <2>2, AreasApart, PmmAssumption
<1>2. /\ pmm_alloc_pages(a.num) /\ page' = MapPages(a, Result) /\ mine' = mine \cup Taken
      /\ UNCHANGED <<mem_len, table>> /\ loaded' \in 0..Len(Areas)
      /\ Taken = {} => \E i \in 1..Len(Areas) : a = Areas[i]
  <2>1. loaded' \in 0..Len(Areas)
    BY <1>1, AreasApart
  <2> QED BY <1>1, <2>1 DEF map_area
<1>3. /\ PmmInv' /\ MapInv'
      /\ \A v \in Virt : v \in Pages(a) => page'[v] # Absent
      /\ \A v \in Virt : v \notin Pages(a) => page'[v] = page[v]
  <2> HIDE DEF a
  <2> QED BY <1>1, <1>2, MapPagesLemma
<1>4. \A v \in Virt : v \in Pages(a) => page[v] = Absent
  <2>1. ~(k <= loaded)
    BY <1>1
  <2> QED BY <1>1, <2>1 DEF Placed
<1>5. Placed'
  <2> SUFFICES ASSUME NEW i \in 1..Len(Areas), NEW v \in Pages(Areas[i])
               PROVE  page'[v] # Absent <=> i <= loaded'
    BY DEF Placed
  <2>1. v \in Virt /\ i \in Nat
    BY AreasApart
  <2>2. CASE i = k
    BY <1>1, <1>3, <2>1, <2>2
  <2>3. CASE i # k
    <3>1. v \notin Pages(a)
      BY <1>1, <2>3, AreasApart
    <3>2. page'[v] = page[v]
      BY <1>3, <2>1, <3>1
    <3>3. i <= loaded <=> i <= k
      BY <1>1, <2>1, <2>3
    <3> QED BY <1>1, <3>2, <3>3 DEF Placed
  <2> QED BY <2>2, <2>3
<1> HIDE DEF a, k
<1>6. HeapMapped'
  <2>1. End' = End
    BY <1>2 DEF End
  <2> QED BY <1>3, <2>1 DEF HeapMapped
<1>7. KeptMemory
  BY <1>3, <1>4 DEF KeptMemory
<1> QED BY <1>3, <1>5, <1>6, <1>7

\* Every step of loading a program keeps it.
LEMMA LoadStep ==
    ASSUME HeapInv, load_program
    PROVE  HeapInv' /\ KeptMemory
<1>0. /\ PmmInv /\ MapInv /\ AreaMapped /\ HeapTypes /\ kind = "libc" /\ load_step
      /\ Chain(blocks, Floor, Limit) /\ Placed /\ HeapMapped
      /\ UNCHANGED heapVars
  BY DEF HeapInv, load_program, AreaMapped
<1>2. /\ kind' = kind /\ blocks' = blocks /\ used_memory' = used_memory /\ pending' = pending
  BY <1>0 DEF heapVars
<1>3. PmmInv' /\ MapInv' /\ Placed' /\ HeapMapped' /\ KeptMemory /\ mem_len' = mem_len
  <2>1. CASE map_area
    BY <1>0, <2>1, MapAreaStep DEF map_area
  <2>2. ASSUME pmm_alloc_page, NEW t \in Tables, NEW x, x = Absent \/ x = Result,
               table' = [table EXCEPT ![t] = x], mine' = mine \cup Taken,
               UNCHANGED <<mem_len, page, loaded>>
        PROVE  PmmInv' /\ MapInv' /\ Placed' /\ HeapMapped' /\ KeptMemory /\ mem_len' = mem_len
    <3>1. PmmInv' /\ MapInv'
      BY <1>0, <2>2, TableTaken
    <3>2. Placed' /\ HeapMapped' /\ KeptMemory
      BY <1>0, <2>2 DEF Placed, HeapMapped, End, KeptMemory
    <3> QED BY <2>2, <3>1, <3>2
  <2>3. CASE new_directory
    <3> DEFINE x == IF Taken = {} THEN Absent ELSE Result
    <3>1. /\ pmm_alloc_page /\ "directory" \in Tables /\ (x = Absent \/ x = Result)
          /\ table' = [table EXCEPT !["directory"] = x] /\ mine' = mine \cup Taken
          /\ UNCHANGED <<mem_len, page, loaded>>
      BY <2>3 DEF new_directory, Tables
    <3> HIDE DEF x
    <3> QED BY <2>2, <3>1
  <2>4. CASE new_table
    <3>1. /\ pmm_alloc_page /\ Region(loaded) \in Tables
          /\ table' = [table EXCEPT ![Region(loaded)] = Result] /\ mine' = mine \cup Taken
          /\ UNCHANGED <<mem_len, page, loaded>>
      BY <2>4 DEF new_table, Tables, Region
    <3> QED BY <2>2, <3>1
  <2> QED BY <1>0, <2>1, <2>3, <2>4 DEF load_step
<1>4. AreaMapped'
  BY <1>0, <1>2, <1>3 DEF AreaMapped, Idle
<1>5. HeapTypes' /\ UsageExact'
  BY <1>0, <1>2, LibcUsage DEF HeapTypes
<1>6. Chain(blocks', Floor', Limit')
  <2>1. Floor' = Floor /\ Limit' = Limit
    BY <1>0, <1>2, <1>3 DEF Floor, Limit, End
  <2> QED BY <1>0, <1>2, <2>1
<1> QED BY <1>3, <1>4, <1>5, <1>6 DEF HeapInv

\* The first sbrk of a process, for the bottom block, keeps it.
LEMMA SetupStep ==
    ASSUME HeapInv, malloc_setup
    PROVE  HeapInv' /\ KeptMemory
<1>0. /\ PmmInv /\ MapInv /\ AreaMapped /\ HeapTypes
      /\ pending # Idle /\ blocks = << >> /\ sbrk_grow(HEADER)
      /\ UNCHANGED <<kind, used_memory, halted>>
  BY DEF HeapInv, malloc_setup
<1>1. kind = "libc" /\ Placed /\ HeapMapped /\ kind' = "libc"
  BY <1>0 DEF AreaMapped
<1>2. HEADER \in Nat
  BY DEF HEADER
<1>3. /\ PmmInv' /\ MapInv' /\ HeapMapped' /\ Placed' /\ KeptMemory
      /\ mem_len' \in {mem_len, mem_len + HEADER}
      /\ End \in Nat /\ End' = End + (mem_len' - mem_len)
  BY <1>0, <1>1, <1>2, SbrkLemma
<1>4. mem_len \in Nat /\ Floor <= End /\ Floor \in Nat /\ Floor' = Floor
  BY <1>0, <1>1, AreaFacts, AddrSpaceAssumption DEF MapInv, Floor
<1>5. /\ blocks' \in Seq(HBlock) /\ Chain(blocks', Floor', End')
      /\ pending' \in {pending, Idle}
  <2>1. CASE SbrkFailed
    <3>1. blocks' = << >> /\ Len(blocks') = 0 /\ pending' = Idle
      BY <1>0, <2>1 DEF malloc_setup
    <3> QED BY <3>1 DEF Chain
  <2>2. CASE ~SbrkFailed
    <3>1. blocks' = Bottom(End) /\ pending' = pending
      BY <2>2 DEF malloc_setup
    <3>2. End' = End + HEADER /\ End' \in Int /\ End + HEADER <= End'
      <4>1. mem_len' = mem_len + HEADER
        BY <1>3, <2>2 DEF SbrkFailed
      <4>2. End' = End + HEADER
        BY <1>2, <1>3, <1>4, <4>1
      <4> QED BY <1>2, <1>3, <4>2
    <3> QED BY <1>3, <1>4, <3>1, <3>2, BottomLemma
  <2> QED BY <2>1, <2>2
<1>6. AreaMapped'
  BY <1>1, <1>3 DEF AreaMapped
<1>7. HeapTypes'
  <2>1. Idle \in [size : Nat, old : Nat]
    BY DEF Idle
  <2> QED BY <1>0, <1>5, <2>1 DEF HeapTypes
<1>8. UsageExact' /\ Limit' = End'
  BY <1>1, LibcUsage DEF Limit
<1> QED BY <1>3, <1>5, <1>6, <1>7, <1>8 DEF HeapInv

\* The sbrk for a new block keeps it, whether it succeeds or fails.
LEMMA GrowStep ==
    ASSUME HeapInv, malloc_grow
    PROVE  HeapInv' /\ KeptMemory
<1> DEFINE req == NewEnd(blocks, pending.size, 1)
<1>0. /\ PmmInv /\ MapInv /\ AreaMapped /\ HeapTypes /\ Chain(blocks, Floor, Limit)
      /\ pending # Idle /\ blocks # << >> /\ req > End /\ sbrk_grow(req - End)
      /\ blocks' = IF SbrkFailed THEN blocks
                   ELSE Got(mem_new_block(blocks, pending.size, 1), pending.old)
      /\ pending' = Idle
      /\ UNCHANGED <<kind, used_memory, halted>>
  BY DEF HeapInv, malloc_grow
<1>1. kind = "libc" /\ Placed /\ HeapMapped /\ kind' = "libc" /\ Limit = End
  BY <1>0 DEF AreaMapped, Limit
<1>2. /\ blocks \in Seq(HBlock) /\ pending.size \in Nat /\ pending.old \in Nat
  BY <1>0 DEF HeapTypes
<1>3. End \in Nat /\ mem_len \in Nat /\ Floor \in Nat /\ Floor' = Floor
  BY <1>0, <1>1, AreaFacts, AddrSpaceAssumption DEF MapInv, Floor
<1>4. req \in Nat
  <2>1. Top(blocks) \in HBlock
    BY <1>0, <1>2 DEF Top
  <2>2. EndOf(Top(blocks)) + HEADER \in Nat
    BY <2>1 DEF HBlock, EndOf, SIZEOF, HEADER
  <2>3. AlignTo(EndOf(Top(blocks)) + HEADER, 1) \in Nat
    BY <2>2, AlignToLemma
  <2> QED BY <1>2, <2>3 DEF NewEnd
<1> HIDE DEF req
<1>5. req - End \in Nat
  BY <1>0, <1>3, <1>4
<1>6. /\ PmmInv' /\ MapInv' /\ HeapMapped' /\ Placed' /\ KeptMemory
      /\ mem_len' \in {mem_len, mem_len + (req - End)}
      /\ End' = End + (mem_len' - mem_len)
  BY <1>0, <1>1, <1>5, SbrkLemma
<1>7. blocks' \in Seq(HBlock) /\ Chain(blocks', Floor', End')
  <2>1. CASE SbrkFailed
    <3>1. End' = End
      BY <1>3, <1>6, <2>1 DEF SbrkFailed
    <3> QED BY <1>0, <1>1, <1>2, <1>3, <2>1, <3>1
  <2>2. CASE ~SbrkFailed
    <3> DEFINE nb == mem_new_block(blocks, pending.size, 1)
    <3>1. End' = req /\ End' \in Int /\ End <= End' /\ req <= End'
      <4>1. mem_len' = mem_len + (req - End)
        BY <1>6, <2>2 DEF SbrkFailed
      <4>2. End' = req
        BY <1>3, <1>4, <1>6, <4>1
      <4> QED BY <1>0, <1>3, <1>4, <4>2
    <3>2. 1 \in Nat \ {0} /\ End \in Int
      BY <1>3
    <3>3. nb \in Seq(HBlock) /\ Chain(nb, Floor', End')
      BY <1>0, <1>1, <1>2, <1>3, <3>1, <3>2, NewBlockLemma DEF req
    <3>4. blocks' = Got(nb, pending.old)
      BY <1>0, <2>2
    <3> HIDE DEF nb
    <3> QED BY <1>2, <3>3, <3>4, GotLemma
  <2> QED BY <2>1, <2>2
<1>8. AreaMapped'
  BY <1>1, <1>6 DEF AreaMapped
<1>9. HeapTypes'
  <2>1. Idle \in [size : Nat, old : Nat]
    BY DEF Idle
  <2> QED BY <1>0, <1>7, <2>1 DEF HeapTypes
<1>10. UsageExact' /\ Limit' = End'
  BY <1>1, LibcUsage DEF Limit
<1> QED BY <1>6, <1>7, <1>8, <1>9, <1>10 DEF HeapInv

\* Frames taken and freed by the rest of the kernel keep it.
LEMMA ElsewhereStep ==
    ASSUME HeapInv, elsewhere
    PROVE  HeapInv' /\ KeptMemory
<1>0. /\ PmmInv /\ MapInv /\ AreaMapped /\ HeapTypes /\ Chain(blocks, Floor, Limit) /\ UsageExact
      /\ others /\ UNCHANGED heapVars
  BY DEF HeapInv, elsewhere
<1>1. PmmInv' /\ MapInv'
  BY <1>0, OthersLemma
<1>2. /\ UNCHANGED <<mem_len, page, table, loaded, kind>>
      /\ blocks' = blocks /\ used_memory' = used_memory /\ kind' = kind /\ pending' = pending
  BY <1>0 DEF others, heapVars
<1>3. pending' # Idle => kind = "libc"
  BY <1>0, <1>2 DEF AreaMapped, Idle
<1>4. AreaMapped' /\ KeptMemory /\ Limit' = Limit /\ Floor' = Floor
  BY <1>0, <1>2, <1>3, SameArea
<1>5. HeapTypes' /\ Chain(blocks', Floor', Limit') /\ UsageExact'
  BY <1>0, <1>2, <1>4, UsageMeans DEF HeapTypes
<1> QED BY <1>1, <1>4, <1>5 DEF HeapInv

\* Every step keeps the invariant and the memory in use.
LEMMA HeapStep == HeapInv /\ [HNext]_vars => HeapInv' /\ KeptMemory
<1> SUFFICES ASSUME HeapInv, [HNext]_vars PROVE HeapInv' /\ KeptMemory
  OBVIOUS
<1>1. ASSUME NEW align \in {1, PAGE}, NEW n \in Sizes, aligned_alloc(align, n) PROVE HeapInv' /\ KeptMemory
  BY <1>1, AlignedAllocStep
<1>2. ASSUME NEW i \in DOMAIN blocks, kfree(i) \/ free(i) PROVE HeapInv' /\ KeptMemory
  BY <1>2, KfreeStep, FreeStep
<1>3. CASE load_program
  BY <1>3, LoadStep
<1>4. ASSUME NEW n \in Sizes, malloc(n, 0) \/ \E i \in Held : malloc(n, i) PROVE HeapInv' /\ KeptMemory
  <2>1. 0 \in Nat /\ Held \subseteq Nat
    BY DEF Held, HeapInv, HeapTypes
  <2> QED BY <1>4, <2>1, MallocStep
<1>5. CASE malloc_setup
  BY <1>5, SetupStep
<1>6. CASE malloc_grow
  BY <1>6, GrowStep
<1>7. CASE elsewhere
  BY <1>7, ElsewhereStep
<1>8. CASE UNCHANGED vars
  <2>0. /\ HeapTypes /\ Chain(blocks, Floor, Limit) /\ AreaMapped /\ UsageExact
    BY DEF HeapInv
  <2>1. UNCHANGED <<asVars, kind>> /\ blocks' = blocks /\ pending' = pending
        /\ used_memory' = used_memory /\ kind' = kind
    BY <1>8 DEF vars, heapVars
  <2>2. HeapTypes' /\ UsageExact'
    BY <2>0, <2>1, UsageMeans DEF HeapTypes
  <2>3. pending' # Idle => kind = "libc"
    BY <2>0, <2>1 DEF AreaMapped, Idle
  <2> QED BY <2>0, <2>1, <2>2, <2>3, MarkStep
<1> QED BY <1>1, <1>2, <1>3, <1>4, <1>5, <1>6, <1>7, <1>8 DEF HNext

\* The invariant of memory, for both heaps and whoever else uses the frames.
LEMMA HeapInvariant == HSpec => []HeapInv
<1>1. HInit => HeapInv
  <2> SUFFICES ASSUME HInit PROVE HeapInv
    OBVIOUS
  <2>0. /\ Init /\ mem_len = 0 /\ page = [v \in Virt |-> Absent] /\ mine = {}
        /\ table = [t \in Tables |-> Absent] /\ loaded = 0
        /\ kind \in {"kernel", "libc"} /\ blocks = << >> /\ used_memory = 0 /\ pending = Idle
    BY DEF HInit, ASInit
  <2>1. PmmInv
    BY <2>0, PmmInitially
  <2>2. MapInv
    <3>1. /\ \A v \in Virt : page[v] = Absent /\ page[v] \notin mine
          /\ \A t \in Tables : table[t] = Absent
      BY <2>0
    <3>2. PagesOwned /\ TablesOwned
      BY <3>1 DEF PagesOwned, TablesOwned
    <3>3. loaded \in 0..Len(Areas) /\ mem_len \in 0..MaxLen
      BY <2>0, AreasApart, AddrSpaceAssumption
    <3>4. /\ page \in [Virt -> Block \cup {Absent}]
          /\ table \in [Tables -> Block \cup {Absent}]
      BY <2>0
    <3> QED BY <2>0, <3>2, <3>3, <3>4 DEF MapInv
  <2>3. Placed
    <3>1. \A i \in 1..Len(Areas) : \A v \in Pages(Areas[i]) : v \in Virt /\ ~(i <= 0)
      BY AreasApart
    <3> QED BY <2>0, <3>1 DEF Placed
  <2>a. HeapMapped
    <3> SUFFICES ASSUME NEW v \in Virt, v > CodeLen, PAGE * v < End PROVE FALSE
      BY DEF HeapMapped
    <3>1. v \in Int /\ CodeLen \in Nat /\ PAGE \in Nat \ {0, 1}
      BY AreasApart, AddrSpaceAssumption
    <3>2. PAGE * (CodeLen + 1) = PAGE + PAGE * CodeLen /\ PAGE * CodeLen \in Int /\ PAGE * v \in Int
      BY <3>1
    <3>3. CodeLen + 1 < v => PAGE * (CodeLen + 1) + PAGE <= PAGE * v
      BY <3>1, MulPage
    <3>4. v = CodeLen + 1 \/ CodeLen + 1 < v
      BY <3>1
    <3> QED BY <2>0, <3>1, <3>2, <3>3, <3>4 DEF End
  <2>4. AreaMapped
    BY <2>0, <2>3, <2>a DEF AreaMapped, Tables
  <2>5. HeapTypes /\ blocks \in Seq(HBlock) /\ Len(blocks) = 0
    <3>1. Idle \in [size : Nat, old : Nat]
      BY DEF Idle
    <3> QED BY <2>0, <3>1 DEF HeapTypes
  <2>6. Chain(blocks, Floor, Limit)
    BY <2>5 DEF Chain
  <2>7. UsageExact
    BY <2>0, <2>5, UsageDef, UsageMeans
  <2> QED BY <2>1, <2>2, <2>4, <2>5, <2>6, <2>7 DEF HeapInv
<1> QED BY <1>1, HeapStep, PTL DEF HSpec

-----------------------------------------------------------------------------

\* No test against the counter stops a caller while a scan would succeed.
LEMMA NeverFull ==
    ASSUME PmmInv
    PROVE  NeverFalselyFull
<1>1. Headroom \in Nat /\ Headroom >= MaxRun /\ Headroom >= 2 * LARGE /\ MaxRun \in Nat
  BY HeadroomAmple, PmmAssumption
<1>2. \A num \in 1..MaxRun : Headroom >= num
  BY <1>1
<1>3. aborted = FALSE
  BY DEF PmmInv
<1> QED BY <1>1, <1>2, <1>3 DEF NeverFalselyFull

\* The frame allocator on its own: pmm.c with callers that free what they hold
\* gives no frame to two of them, keeps its bitmap exact and never refuses what
\* its scans would find, for every memory map, word size and alignment.
THEOREM AllocatorSound == Spec => [](NoDoubleAllocation /\ BitmapExact /\ NeverFalselyFull)
<1>1. PmmInv => NoDoubleAllocation /\ BitmapExact /\ NeverFalselyFull
  BY NeverFull DEF PmmInv
<1> QED BY <1>1, PmmInitially, PmmStep, PTL DEF Spec

\* The same beside sbrk and the heaps: no frame is handed to two callers, none
\* of the kernel's is handed out (pmm.c's three searches on one bitmap).
THEOREM FramesHaveOneOwner == HSpec => []NoDoubleAllocation
<1>1. HeapInv => NoDoubleAllocation
  BY DEF HeapInv, PmmInv
<1> QED BY <1>1, HeapInvariant, PTL

\* A bit of pmm.c's bitmap is set exactly while its block is held or reserved,
\* so no block is lost, also when sbrk fails half way.
THEOREM BitmapIsExact == HSpec => []BitmapExact
<1>1. HeapInv => BitmapExact
  BY DEF HeapInv, PmmInv
<1> QED BY <1>1, HeapInvariant, PTL

\* The out-of-memory tests of pmm.c never stop a caller while memory is left,
\* since the counter starts above max_blocks and their unsigned difference
\* stays huge.
THEOREM CounterNeverRefuses == HSpec => []NeverFalselyFull
<1>1. HeapInv => NeverFalselyFull
  BY NeverFull DEF HeapInv
<1> QED BY <1>1, HeapInvariant, PTL

\* elf_load maps every segment, and proc_sbrk never moves the break past the
\* pages it mapped: every byte of a running process's program, stack and heap
\* has a page, whatever frames could not be had on the way.
THEOREM BreakIsBacked == HSpec => []HeapBacked
<1>1. HeapInv => HeapBacked
  <2> SUFFICES ASSUME HeapInv, Running, NEW v \in Virt, Granted(v) PROVE page[v] # Absent
    BY DEF HeapBacked
  <2>1. kind = "libc" /\ Placed /\ HeapMapped
    BY DEF HeapInv, HeapTypes, AreaMapped, Running
  <2>2. loaded = Len(Areas)
    <3>1. loaded \in 0..Len(Areas) /\ ~(loaded < Len(Areas)) /\ Len(Areas) \in Nat
      BY AreasApart DEF HeapInv, MapInv, Running, Loading
    <3> QED BY <3>1
  <2>3. CASE \E i \in 1..Len(Areas) : v \in Pages(Areas[i])
    <3>1. PICK i \in 1..Len(Areas) : v \in Pages(Areas[i])
      BY <2>3
    <3>2. i <= loaded
      BY <2>2, AreasApart
    <3> QED BY <2>1, <3>1, <3>2 DEF Placed
  <2>4. CASE v > CodeLen /\ PAGE * v < End
    BY <2>1, <2>4 DEF HeapMapped
  <2> QED BY <2>3, <2>4 DEF Granted
<1> QED BY <1>1, HeapInvariant, PTL

\* A mapped frame backs one page and is held and marked, so pmm.c gives it to
\* nobody else, and no page is mapped to a page table - except in a segment or
\* the stack that elf_load and proc_run_code mapped from frame 0 on because
\* pmm_alloc_pages had failed.
THEOREM FramesArePrivate == HSpec => []FramesPrivate
<1>1. HeapInv => FramesPrivate
  <2> SUFFICES ASSUME HeapInv PROVE FramesPrivate
    OBVIOUS
  <2>0. PmmInv /\ MapInv
    BY DEF HeapInv
  <2>1. ASSUME NEW f \in mine PROVE OwnFrame(f)
    <3>1. f \in used /\ holders[f] = 1
      BY <2>0, MineUsed DEF MapInv
    <3>2. \A v, w \in Virt : page[v] = f /\ page[w] = f => v = w
      BY <2>0 DEF MapInv, PagesOwned
    <3> QED BY <3>1, <3>2 DEF OwnFrame
  <2>2. \A v \in Virt : page[v] # Absent => OwnFrame(page[v]) \/ OnLowMemory(v)
    BY <2>0, <2>1 DEF MapInv, PagesOwned
  <2>3. \A t \in Tables : table[t] \notin {Absent, 0} =>
           /\ OwnFrame(table[t])
           /\ \A v \in Virt : page[v] # table[t]
           /\ \A u \in Tables : table[u] = table[t] => u = t
    BY <2>0, <2>1 DEF MapInv, TablesOwned
  <2> QED BY <2>2, <2>3 DEF FramesPrivate
<1> QED BY <1>1, HeapInvariant, PTL

\* elf_load, proc_run_code and proc_sbrk map without looking at what is there,
\* but never over a page of the program, the stack or the heap below the break.
THEOREM MemoryIsKept == HSpec => MemoryStays
<1>1. HeapInv /\ [HNext]_vars =>
        [\A v \in Virt : page[v] # Absent /\ ~(InHeap(v) /\ PAGE * v >= End)
                           => page'[v] = page[v]]_asVars
  BY HeapStep DEF KeptMemory
<1> QED BY <1>1, HeapInvariant, PTL DEF HSpec, MemoryStays

\* The blocks of both heaps follow each other without overlap, end below the
\* break or the end of the kernel's area, and lie on mapped pages - for every
\* page size, alignment gap and sequence of requests, failures of sbrk included.
THEOREM BlocksAreSound == HSpec => []BlocksSound
<1>1. HeapInv => BlocksSound
  <2> SUFFICES ASSUME HeapInv PROVE BlocksSound
    OBVIOUS
  <2>0. /\ PmmInv /\ MapInv /\ AreaMapped /\ HeapTypes /\ Chain(blocks, Floor, Limit)
        /\ blocks \in Seq(HBlock)
    BY DEF HeapInv, HeapTypes
  <2>1. ASSUME NEW i \in DOMAIN blocks,
               NEW u, u \in blocks[i].addr..(Data(blocks[i]) + blocks[i].size - 1)
        PROVE  page[u \div PAGE] # Absent
    <3> DEFINE v == u \div PAGE
    <3>1. i \in 1..Len(blocks) /\ blocks[i] \in HBlock /\ blocks # << >>
      BY <2>0
    <3>2. blocks[i].addr \in Nat /\ blocks[i].size \in Nat /\ PAGE \in Nat
      BY <3>1, AddrSpaceAssumption DEF HBlock
    <3>3. Floor <= blocks[i].addr /\ Data(blocks[i]) + blocks[i].size <= Limit
      BY <2>0, <3>1 DEF Chain
    <3>a. /\ Floor \in Nat /\ PAGE <= Floor
          /\ kind = "libc" => Floor = PAGE * (1 + CodeLen)
      <4>1. PAGE * CodeLen \in Nat /\ PAGE * (1 + CodeLen) = PAGE + PAGE * CodeLen
        BY AddrSpaceAssumption
      <4> QED BY <2>0, <3>2, <4>1, AreaFacts DEF Floor
    <3>4. KernelHeapEnd \in Nat /\ End \in Nat /\ Limit \in {KernelHeapEnd, End} /\ Limit \in Nat
      BY <2>0, AreaFacts DEF Limit
    <3>5. Data(blocks[i]) = blocks[i].addr + 2
      BY DEF Data, HEADER
    <3>6. u \in Nat /\ PAGE <= u /\ Floor <= u /\ u < Limit
      <4> DEFINE a == blocks[i].addr
                 z == blocks[i].addr + 2 + blocks[i].size
      <4>1. a \in Nat /\ z \in Nat
        BY <3>2
      <4>2. u \in a..(z - 1)
        BY <2>1, <3>2, <3>5, <4>1
      <4>3. Floor <= a /\ z <= Limit
        BY <3>3, <3>5
      <4> HIDE DEF a, z
      <4> QED BY <3>2, <3>4, <3>a, <4>1, <4>2, <4>3
    <3>7. v \in Nat /\ PAGE * v <= u /\ u < PAGE * v + PAGE
      BY <3>6, PageOf
    <3> HIDE DEF v
    <3>8. PAGE * v \in Int /\ v >= 1
      <4>1. PAGE * v \in Int
        BY <3>7, AddrSpaceAssumption
      <4>2. v = 0 => PAGE * v = 0
        BY <3>2
      <4> QED BY <3>2, <3>6, <3>7, <4>1, <4>2
    <3>9. CASE kind = "kernel"
      <4>1. HeapPages + 1 \in Int /\ v \in Int /\ HeapPages \in Nat
        BY <3>7, HeapAssumption, PmmAssumption
      <4>2. Limit = PAGE * (HeapPages + 1)
        BY <3>9, <4>1, AddrSpaceAssumption DEF Limit, KernelHeapEnd
      <4>3. HeapPages + 1 < v => PAGE * (HeapPages + 1) + PAGE <= PAGE * v
        BY <4>1, MulPage, Zenon
      <4>4. ~(HeapPages + 1 < v)
        BY <3>4, <3>6, <3>7, <3>8, <3>2, <4>2, <4>3
      <4>5. v # HeapPages + 1
        BY <3>4, <3>6, <3>7, <3>8, <4>2
      <4>6. v \in 1..HeapPages
        BY <3>8, <4>1, <4>4, <4>5
      <4> QED BY <2>0, <3>1, <3>9, <4>6 DEF AreaMapped, v
    <3>10. CASE kind = "libc"
      <4>1. Limit = End /\ PAGE * v < End
        BY <3>4, <3>6, <3>7, <3>8, <3>10 DEF Limit
      <4>2. v > CodeLen
        <5>1. CodeLen \in Nat /\ v \in Int
          BY <3>7, AddrSpaceAssumption
        <5>2. v < 1 + CodeLen => PAGE * v + PAGE <= PAGE * (1 + CodeLen)
          BY <5>1, MulPage
        <5>3. ~(v < 1 + CodeLen)
          BY <3>2, <3>6, <3>7, <3>8, <3>10, <3>a, <5>2
        <5> QED BY <5>1, <5>3
      <4>3. v \in Virt
        <5> DEFINE L == MaxLen \div PAGE
                   G == 1 + CodeLen + L
        <5>1. L \in Nat /\ MaxLen < PAGE * L + PAGE /\ MaxLen \in Nat /\ CodeLen \in Nat
          BY PageOf, AddrSpaceAssumption
        <5> HIDE DEF L
        <5>2. PAGE * G = PAGE + PAGE * CodeLen + PAGE * L /\ PAGE * L \in Int
              /\ PAGE * CodeLen \in Int /\ G \in Int
          BY <5>1, AddrSpaceAssumption
        <5>3. End = PAGE + PAGE * CodeLen + mem_len /\ mem_len \in Nat /\ mem_len <= MaxLen
          BY <2>0, <5>1 DEF End, MapInv
        <5> HIDE DEF G
        <5>4. PAGE * v < PAGE * G + PAGE
          BY <3>2, <3>8, <4>1, <5>1, <5>2, <5>3
        <5>5. G < v => PAGE * G + PAGE <= PAGE * v
          BY <3>7, <5>2, MulPage
        <5>6. v <= G
          BY <3>2, <3>7, <3>8, <5>1, <5>2, <5>4, <5>5
        <5>7. HeapTop = G + 1
          BY <5>1 DEF HeapTop, G, L
        <5> QED BY <3>7, <5>2, <5>6, <5>7, AreasApart
      <4> QED BY <2>0, <3>10, <4>1, <4>2, <4>3 DEF AreaMapped, HeapMapped, v
    <3> QED BY <2>0, <3>9, <3>10 DEF HeapTypes
  <2>2. \A i \in DOMAIN blocks : Data(blocks[i]) + blocks[i].size <= Limit
    BY <2>0 DEF Chain
  <2>3. \A i \in 1..(Len(blocks) - 1) : blocks[i + 1].addr - EndOf(blocks[i]) \in 0..(SIZEOF + 1)
    BY <2>0 DEF Chain
  <2> QED BY <2>1, <2>2, <2>3 DEF BlocksSound
<1> QED BY <1>1, HeapInvariant, PTL

\* memory_usage() of the kernel's heap is the sum of the sizes of the blocks
\* handed out, after any sequence of kmalloc, kamalloc and kfree.
THEOREM UsageIsExact == HSpec => []UsageExact
<1>1. HeapInv => UsageExact
  BY DEF HeapInv
<1> QED BY <1>1, HeapInvariant, PTL
=============================================================================
