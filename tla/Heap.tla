-------------------------------- MODULE Heap --------------------------------
(***************************************************************************)
(* The two first-fit allocators, which are one algorithm written twice:    *)
(* the kernel's heap (kernel/src/mem/malloc.c), a fixed area mapped by the *)
(* first allocation, and libc's malloc (libc/src/stdlib/malloc.c), whose   *)
(* area grows with sbrk (AddrSpace).  A behaviour has one of them, picked  *)
(* by Init; the rest of the kernel keeps using the frame allocator.        *)
(*                                                                         *)
(* Lengths are in units of MIN_ALIGN = 4 bytes.  The chain of blocks from  *)
(* bottom to top is a sequence.  A block is followed by the next one after *)
(* sizeof(mem_block_t) + size bytes, and its data starts after 8 of them.  *)
(***************************************************************************)
EXTENDS AddrSpace

CONSTANTS HeapPages,  \* KERNEL_HEAP_SIZE in pages
          Sizes       \* bound: the sizes asked for

ASSUME HeapAssumption == /\ HeapPages \in 1..Blocks /\ HeapPages \in Virt
                         /\ Sizes \subseteq Nat \ {0}

HEADER == 2   \* offsetof(mem_block_t, data)
SIZEOF == 3   \* sizeof(mem_block_t)

VARIABLES kind,         \* whose heap: "kernel" or "libc"
          blocks,       \* the chain, << >> while bottom is NULL
          used_memory,  \* the kernel's count
          pending,      \* libc: the aligned_alloc under way, Idle if none
          halted        \* "kernel ran out of memory!": abort()

heapVars == <<kind, blocks, used_memory, pending, halted>>
vars == <<asVars, heapVars>>

\* A request: its rounded size, and the block realloc frees when it succeeds
\* (0 for malloc).
Idle == [size |-> 0, old |-> 0]

AlignTo(n, align) == ((n + align - 1) \div align) * align

Data(b) == b.addr + HEADER
EndOf(b) == b.addr + SIZEOF + b.size
Bottom(a) == <<[addr |-> a, size |-> 0, used |-> TRUE]>>
Top(bl) == bl[Len(bl)]

\* mem_find_block: the first free block that is large enough and aligned.
FirstFit(bl, size, align, i) ==
    LET fits(b) == ~b.used /\ b.size >= size /\ Data(b) % align = 0
    IN  /\ i \in DOMAIN bl
        /\ fits(bl[i])
        /\ \A j \in 1..(i - 1) : ~fits(bl[j])

NoFit(bl, size, align) == \A i \in DOMAIN bl : ~FirstFit(bl, size, align, i)

\* Where the data of a new block would end.
NewEnd(bl, size, align) == AlignTo(EndOf(Top(bl)) + HEADER, align) + size

\* mem_new_block: behind the top block, at the alignment, with a free block in
\* the gap if one fits there.
mem_new_block(bl, size, align) ==
    LET next    == EndOf(Top(bl))
        aligned == AlignTo(next + HEADER, align) - HEADER
        filler  == [addr |-> next, size |-> aligned - next - SIZEOF, used |-> FALSE]
    IN  bl \o (IF aligned - next > SIZEOF + 1 THEN <<filler>> ELSE << >>)
           \o <<[addr |-> aligned, size |-> size, used |-> TRUE]>>

Mark(bl, i, flag) == [bl EXCEPT ![i].used = flag]

\* Blocks a caller holds: all used ones but the bottom.
Held == {i \in DOMAIN blocks : i > 1 /\ blocks[i].used}

HInit == /\ ASInit
         /\ kind \in {"kernel", "libc"}
         /\ blocks = << >>
         /\ used_memory = 0
         /\ pending = Idle
         /\ halted = FALSE

-----------------------------------------------------------------------------
(* The kernel's heap.                                                      *)

\* The frames for the whole heap, mapped from virtual page 1 on; those of its
\* page tables count as taken by the rest of the kernel.
MapHeap == LET heap == [base |-> 1, num |-> HeapPages]
           IN  /\ pmm_alloc_pages(HeapPages)
               /\ Taken # {}
               /\ page' = MapPages(heap, Result)
               /\ mine' = mine \cup Taken
               /\ UNCHANGED <<mem_len, table, loaded>>

KernelHeapEnd == PAGE * (1 + HeapPages)

\* aligned_alloc of the kernel (kmalloc with align = 1 unit, kamalloc with a
\* page).  Boot makes the first call, when the frames are there.
aligned_alloc(align, n) ==
    /\ kind = "kernel"
    /\ ~halted
    /\ IF blocks = << >> THEN MapHeap ELSE UNCHANGED asVars
    /\ LET size == AlignTo(n, 2)
           bl   == IF blocks = << >> THEN Bottom(PAGE) ELSE blocks
       IN  \/ \E i \in DOMAIN bl : /\ FirstFit(bl, size, align, i)
                                   /\ used_memory' = used_memory + bl[i].size
                                   /\ blocks' = Mark(bl, i, TRUE)
                                   /\ UNCHANGED halted
           \/ /\ NoFit(bl, size, align)
              /\ NewEnd(bl, size, align) <= KernelHeapEnd
              /\ blocks' = mem_new_block(bl, size, align)
              /\ used_memory' = used_memory + size
              /\ UNCHANGED halted
           \/ /\ NoFit(bl, size, align)
              /\ NewEnd(bl, size, align) > KernelHeapEnd
              /\ halted' = TRUE
              /\ blocks' = bl
              /\ UNCHANGED used_memory
    /\ UNCHANGED <<kind, pending>>

\* A plausible bug, used to test the properties.
KfreeForgetsCount(i) == /\ kind = "kernel"
                        /\ ~halted
                        /\ i \in Held
                        /\ blocks' = Mark(blocks, i, FALSE)
                        /\ UNCHANGED <<asVars, kind, used_memory, pending, halted>>

kfree(i) == /\ kind = "kernel"
            /\ ~halted
            /\ i \in Held
            /\ blocks' = Mark(blocks, i, FALSE)
            /\ used_memory' = used_memory - blocks[i].size
            /\ UNCHANGED <<asVars, kind, pending, halted>>

-----------------------------------------------------------------------------
(* libc's heap.  The system calls of one allocation are steps of their own: *)
(* the timer may let the rest of the system run between them.              *)

load_program == /\ kind = "libc"
                /\ load_step
                /\ UNCHANGED heapVars

\* The allocation has got block i: malloc returns it, and realloc frees the
\* old one after copying the smaller of the two sizes.
Got(bl, old) == IF old = 0 THEN bl ELSE Mark(bl, old, FALSE)

\* malloc (old = 0) or realloc of the held block old: a free block is taken at
\* once, otherwise sbrk is needed.
malloc(n, old) ==
    /\ kind = "libc"
    /\ Running
    /\ pending = Idle
    /\ LET size == AlignTo(n, 2)
       IN  /\ NewEnd(IF blocks = << >> THEN Bottom(End) ELSE blocks, size, 1) - PAGE * (1 + CodeLen) <= MaxLen
           /\ \/ \E i \in DOMAIN blocks : /\ FirstFit(blocks, size, 1, i)
                                          /\ blocks' = Got(Mark(blocks, i, TRUE), old)
                                          /\ UNCHANGED pending
              \/ /\ NoFit(blocks, size, 1)
                 /\ pending' = [size |-> size, old |-> old]
                 /\ UNCHANGED blocks
    /\ UNCHANGED <<asVars, kind, used_memory, halted>>

\* sbrk returned -1.
SbrkFailed == mem_len' = mem_len

\* A plausible bug, used to test the properties.
GrowIgnoresFailure ==
    /\ pending # Idle
    /\ blocks # << >>
    /\ NewEnd(blocks, pending.size, 1) > End
    /\ sbrk_grow(NewEnd(blocks, pending.size, 1) - End)
    /\ blocks' = Got(mem_new_block(blocks, pending.size, 1), pending.old)
    /\ pending' = Idle
    /\ UNCHANGED <<kind, used_memory, halted>>

\* The very first allocation asks for the bottom block's header.
malloc_setup == /\ pending # Idle
                /\ blocks = << >>
                /\ sbrk_grow(HEADER)
                /\ IF SbrkFailed THEN pending' = Idle /\ UNCHANGED blocks
                   ELSE blocks' = Bottom(End) /\ UNCHANGED pending
                /\ UNCHANGED <<kind, used_memory, halted>>

\* The break is moved to where the new block will end; NULL if that fails.
malloc_grow == /\ pending # Idle
               /\ blocks # << >>
               /\ NewEnd(blocks, pending.size, 1) > End
               /\ sbrk_grow(NewEnd(blocks, pending.size, 1) - End)
               /\ blocks' = IF SbrkFailed THEN blocks
                            ELSE Got(mem_new_block(blocks, pending.size, 1), pending.old)
               /\ pending' = Idle
               /\ UNCHANGED <<kind, used_memory, halted>>

free(i) == /\ kind = "libc"
           /\ pending = Idle
           /\ i \in Held
           /\ blocks' = Mark(blocks, i, FALSE)
           /\ UNCHANGED <<asVars, kind, used_memory, pending, halted>>

\* The rest of the kernel; boot allocates on the kernel's heap first.
elsewhere == /\ kind = "kernel" => blocks # << >>
             /\ others
             /\ UNCHANGED heapVars

HNext == \/ \E align \in {1, PAGE}, n \in Sizes : aligned_alloc(align, n)
         \/ \E i \in DOMAIN blocks : kfree(i) \/ free(i)
         \/ load_program
         \/ \E n \in Sizes : malloc(n, 0) \/ \E i \in Held : malloc(n, i)
         \/ malloc_setup \/ malloc_grow
         \/ elsewhere

HSpec == HInit /\ [][HNext]_vars

-----------------------------------------------------------------------------

\* Where the heap's area ends: the break, or the end of the mapped area.
Limit == IF kind = "kernel" THEN KernelHeapEnd ELSE End

\* What a caller holds is its own memory: the blocks follow each other without
\* overlap, the data of every one lies below the break (or the end of the
\* kernel's area) on pages that are mapped, and only gaps too small for a block
\* are lost to alignment - also after reuse, realloc and an sbrk that failed
\* between two steps of an allocation.
BlocksSound ==
    /\ \A i \in 1..(Len(blocks) - 1) : blocks[i + 1].addr - EndOf(blocks[i]) \in 0..(SIZEOF + 1)
    /\ \A i \in DOMAIN blocks : /\ Data(blocks[i]) + blocks[i].size <= Limit
                                /\ \A u \in blocks[i].addr..(Data(blocks[i]) + blocks[i].size - 1) :
                                      page[u \div PAGE] # Absent

\* memory_usage() is exact: the sizes of the blocks handed out, whatever was
\* freed, reused whole for a smaller request or left behind as a filler.
UsageExact == kind = "kernel" =>
    LET sum[k \in 0..Len(blocks)] ==
            IF k = 0 THEN 0 ELSE sum[k - 1] + IF blocks[k].used THEN blocks[k].size ELSE 0
    IN  used_memory = sum[Len(blocks)]
=============================================================================
