-------------------------------- MODULE Pmm ---------------------------------
(***************************************************************************)
(* The physical memory manager (kernel/src/mem/pmm.c): a bitmap of blocks  *)
(* and a counter of used blocks that mmap_set and mmap_unset move by one   *)
(* whatever the bit was.  The state starts as init_pmm leaves it.          *)
(*                                                                         *)
(* `holders' is a history variable: how many callers hold each block.  The *)
(* callers free only blocks they hold.                                     *)
(***************************************************************************)
EXTENDS Integers, FiniteSets

CONSTANTS Blocks,     \* blocks the bitmap has bits for
          Avail,      \* blocks of the regions the memory map calls available
          MaxBlocks,  \* max_blocks: available bytes / block size
          KernelEnd,  \* blocks below the end of the kernel and its modules
          BootInfo,   \* blocks of the multiboot structure
          WORD,       \* bits in a word of the bitmap (32)
          LARGE,      \* blocks in a large page (1024)
          WRAP,       \* counters are taken modulo WRAP (2^32)
          MaxRun      \* bound: the longest run asked of pmm_alloc_pages

Block == 0..(Blocks - 1)

ASSUME PmmAssumption ==
    /\ Blocks \in Nat /\ Avail \subseteq Block /\ BootInfo \subseteq Block
    /\ MaxBlocks \in Nat /\ MaxBlocks <= Blocks
    /\ KernelEnd \in 1..Blocks
    /\ WORD \in Nat \ {0} /\ LARGE \in Nat \ {0} /\ WRAP \in Nat \ {0} /\ MaxRun \in Nat
    /\ 4 * Blocks + MaxRun + 2 * LARGE <= WRAP   \* 2^20 blocks, 2^32 counts

VARIABLES used,         \* the bitmap: blocks whose bit is set
          used_blocks,  \* the counter
          holders,      \* history: callers holding a block
          aborted       \* pmm_alloc_page called abort()

pmmVars == <<used, used_blocks, holders, aborted>>

\* Blocks taken by low memory, the kernel, its modules and the boot structure.
Reserved == {b \in Block : b < KernelEnd} \cup BootInfo

\* Blocks the scans look at: whole words only.
Scanned == {b \in Block : b < (MaxBlocks \div WORD) * WORD}

\* init_pmm: everything taken, the available regions given back (never block
\* 0), the counter set to max_blocks, then every reserved block set once more.
Init == /\ used = {b \in Block : b = 0 \/ b \notin Avail \/ b \in Reserved}
        /\ used_blocks = (MaxBlocks + KernelEnd + Cardinality(BootInfo)) % WRAP
        /\ holders = [b \in Block |-> 0]
        /\ aborted = FALSE

\* A plausible bug, used to test the properties.
HeadroomSigned == MaxBlocks - used_blocks

\* max_blocks - used_blocks in unsigned arithmetic.
Headroom == (MaxBlocks - used_blocks) % WRAP

-----------------------------------------------------------------------------
(* The scans.                                                              *)

\* The run of num blocks from f.
Run(f, num) == {b \in Block : f <= b /\ b < f + num}

\* mmap_find_free_frame counts free bits and stops at the first e that ends
\* num of them in a row.
RunEndsAt(e, num) == /\ e - num + 1 >= 0
                     /\ \A b \in Block : e - num < b /\ b <= e => b \in Scanned \ used

FirstRunEnd(e, num) == /\ RunEndsAt(e, num)
                       /\ \A d \in Block : d < e => ~RunEndsAt(d, num)

NoRun(num) == \A e \in Block : ~RunEndsAt(e, num)

\* first == 0 means "not seen yet" in the scan, so a run that starts at block
\* 0 is reported from block 1 (and a run of just block 0 as a failure).
FrameStart(e, num) == IF e - num + 1 = 0 /\ num > 1 THEN 1 ELSE e - num + 1

\* mmap_find_free returns the first free block, 0 meaning none.
FirstFree(b) == /\ b \in Scanned \ used
                /\ \A c \in Scanned \ used : b <= c

\* Plausible bugs, used to test the properties.
SetForgotten(bs) == used' = used /\ used_blocks' = (used_blocks + Cardinality(bs)) % WRAP
UnsetForgotten(bs) == used' = used /\ used_blocks' = (used_blocks - Cardinality(bs)) % WRAP

\* mmap_set on each block of bs.
mmap_set(bs) == /\ used' = used \cup bs
                /\ used_blocks' = (used_blocks + Cardinality(bs)) % WRAP

\* mmap_unset on each block of bs.
mmap_unset(bs) == /\ used' = used \ bs
                  /\ used_blocks' = (used_blocks - Cardinality(bs)) % WRAP

\* The caller now holds the blocks of bs.
Give(bs) == holders' = [b \in Block |-> IF b \in bs THEN holders[b] + 1 ELSE holders[b]]

Take(bs) == holders' = [b \in Block |-> IF b \in bs THEN holders[b] - 1 ELSE holders[b]]

Fails == UNCHANGED pmmVars

-----------------------------------------------------------------------------
(* The operations.                                                         *)

\* Aborts when the counter says there is nothing left, returns 0 when the scan
\* finds nothing.
pmm_alloc_page ==
    /\ ~aborted
    /\ \/ /\ Headroom <= 0
          /\ aborted' = TRUE
          /\ UNCHANGED <<used, used_blocks, holders>>
       \/ /\ Headroom > 0
          /\ \E b \in Block : /\ FirstFree(b)
                              /\ b # 0
                              /\ mmap_set({b})
                              /\ Give({b})
          /\ UNCHANGED aborted
       \/ /\ Headroom > 0
          /\ Scanned \subseteq used \/ FirstFree(0)
          /\ Fails

\* num consecutive blocks, or 0.
pmm_alloc_pages(num) ==
    /\ ~aborted
    /\ \/ /\ Headroom >= num
          /\ \E e \in Block : /\ FirstRunEnd(e, num)
                              /\ FrameStart(e, num) # 0
                              /\ mmap_set(Run(FrameStart(e, num), num))
                              /\ Give(Run(FrameStart(e, num), num))
          /\ UNCHANGED aborted
       \/ /\ \/ Headroom < num
             \/ NoRun(num)
             \/ \E e \in Block : FirstRunEnd(e, num) /\ FrameStart(e, num) = 0
          /\ Fails

\* The next multiple of LARGE above f.
AlignUp(f) == ((f \div LARGE) + 1) * LARGE

\* A run twice as long surely holds an aligned large page.
pmm_alloc_aligned_large_page ==
    /\ ~aborted
    /\ \/ /\ Headroom >= 2 * LARGE
          /\ \E e \in Block : LET f == FrameStart(e, 2 * LARGE)
                              IN  /\ FirstRunEnd(e, 2 * LARGE)
                                  /\ f # 0
                                  /\ mmap_set(Run(AlignUp(f), LARGE))
                                  /\ Give(Run(AlignUp(f), LARGE))
          /\ UNCHANGED aborted
       \/ /\ \/ Headroom < 2 * LARGE
             \/ NoRun(2 * LARGE)
             \/ \E e \in Block : FirstRunEnd(e, 2 * LARGE) /\ FrameStart(e, 2 * LARGE) = 0
          /\ Fails

\* A caller gives back a run it holds (pmm_free_page is num = 1).
pmm_free_pages(f, num) == /\ ~aborted
                          /\ f + num <= Blocks
                          /\ \A b \in Run(f, num) : holders[b] > 0
                          /\ mmap_unset(Run(f, num))
                          /\ Take(Run(f, num))
                          /\ UNCHANGED aborted

Next == \/ pmm_alloc_page
        \/ \E num \in 1..MaxRun : pmm_alloc_pages(num)
        \/ pmm_alloc_aligned_large_page
        \/ \E f \in Block, num \in 1..MaxRun : pmm_free_pages(f, num)

Spec == Init /\ [][Next]_pmmVars

-----------------------------------------------------------------------------

\* The types of the allocator's state.
TypeOK == /\ used \subseteq Block
          /\ used_blocks \in 0..(WRAP - 1)
          /\ holders \in [Block -> Nat]
          /\ aborted \in BOOLEAN

\* No block is ever handed to two callers, and only blocks of available memory
\* that are neither block 0 nor the kernel's own are handed out: first-fit, run
\* search and aligned search all work on one bitmap that every allocation and
\* release must keep exact.
NoDoubleAllocation == /\ \A b \in Block : holders[b] <= 1
                      /\ \A b \in Block : holders[b] > 0 => b \in (Avail \ Reserved) \ {0}

\* The bitmap is exact: a block's bit is set if it is held, reserved or block
\* 0, and cleared again once its holder frees it, so nothing is lost.
BitmapExact == used = {b \in Block : \/ holders[b] > 0 \/ b = 0
                                     \/ b \notin Avail \/ b \in Reserved}

\* The tests against the counter never stop a caller, or the kernel, while the
\* scan would still find what was asked for: the counter starts above
\* max_blocks and its unsigned differences wrap around.
NeverFalselyFull ==
    /\ aborted => Scanned \subseteq used
    /\ \A num \in 1..MaxRun : ~NoRun(num) => Headroom >= num
    /\ ~NoRun(2 * LARGE) => Headroom >= 2 * LARGE

\* "If there are no free memory blocks available, it prints an error message
\* and aborts the operation" (comment of pmm_alloc_page).
AbortsWhenFull == ~aborted /\ used = Block => ENABLED (pmm_alloc_page /\ aborted')
=============================================================================
