----------------------------- MODULE AddrSpace ------------------------------
(***************************************************************************)
(* The memory of one process: how proc_run_code (kernel/src/sys/proc.c)    *)
(* and elf_load (sys/elf.c) fill its address space, and proc_sbrk on the   *)
(* page table (mem/paging.c) and the physical memory manager, whose other  *)
(* callers keep allocating and freeing.  Every program of the image is an  *)
(* ELF file whose segments start at page 1 (userspace/linker.ld); code_len *)
(* is counted from the file, so pages between the last segment and the     *)
(* initial break are not mapped.  The heap lies in the 4 MiB of the        *)
(* program, so sbrk finds its page table.  Only libc's malloc calls sbrk,  *)
(* and it never shrinks the heap; who calls it when is in Heap.            *)
(***************************************************************************)
EXTENDS Pmm, Sequences

CONSTANTS PAGE,        \* bytes in a page (0x1000), here counted in units of 4 bytes
          CodeLen,     \* process_t.code_len: pages of the program's file
          Segments,    \* the areas of the PT_LOAD headers that have pages
          StackPages,  \* PROC_STACK_PAGES
          MaxLen       \* bound: process_t.mem_len

ASSUME AddrSpaceAssumption == /\ PAGE \in Nat \ {0, 1} /\ CodeLen \in Nat \ {0}
                              /\ MaxLen \in Nat

\* The linker puts a segment in the file where it is in memory, one page or
\* more behind the one before it, with .bss written out: none reaches past the
\* file's last page.  A program is shorter than the kernel and its modules,
\* one of which is the file system it comes from.
ASSUME ProgramAssumption ==
    /\ Segments \in Seq([base : Nat, num : 1..KernelEnd]) /\ Segments # << >>
    /\ \A i \in 1..Len(Segments) : Segments[i].base + Segments[i].num <= 1 + CodeLen
    /\ \A i, j \in 1..Len(Segments) :
          i < j => Segments[i].base + Segments[i].num <= Segments[j].base
    /\ StackPages \in 1..KernelEnd

VARIABLES mem_len,  \* process_t.mem_len
          page,     \* page tables: frame of a virtual page, Absent when not present
          table,    \* frame of the page directory and of the two page tables
          loaded,   \* how many areas are mapped
          mine      \* history: the frames this process was given and has not freed

asVars == <<used, used_blocks, holders, aborted, mem_len, page, table, loaded, mine>>

Absent == -1

\* The last page the heap may have, and the stack, which is far above.
HeapTop == 2 + CodeLen + (MaxLen \div PAGE)
Stack == [base |-> HeapTop + 1, num |-> StackPages]
Virt == 0..(HeapTop + StackPages)
InHeap(v) == v > CodeLen /\ v <= HeapTop

\* What is mapped, in this order.
Areas == Append(Segments, Stack)
Pages(a) == a.base..(a.base + a.num - 1)

\* Page tables hold 4 MiB: the segments share one, the stack has its own.
Region(i) == IF i = Len(Areas) THEN "stack" ELSE "program"
Tables == {"directory", "program", "stack"}

DivideUp(n) == (n + PAGE - 1) \div PAGE

\* The break, and the bytes left in its last page.
End == PAGE + PAGE * CodeLen + mem_len

\* A plausible bug, used to test the properties.
RemainingIgnored == IF End % PAGE = 0 THEN 0 ELSE PAGE

Remaining == IF End % PAGE = 0 THEN 0 ELSE PAGE - (End % PAGE)

\* A plausible bug, used to test the properties.
PageOfBreak == End \div PAGE

\* Where sbrk maps: align_to(end, 0x1000).
PageAfter == DivideUp(End)

ASInit == /\ Init
          /\ mem_len = 0
          /\ page = [v \in Virt |-> Absent]
          /\ table = [t \in Tables |-> Absent]
          /\ loaded = 0
          /\ mine = {}

-----------------------------------------------------------------------------
(* Loading a program: one call of the memory manager per step.             *)

\* What the call of the memory manager has handed out, and its result.
Taken == used' \ used
Result == IF Taken = {} THEN 0 ELSE CHOOSE b \in Taken : \A c \in Taken : b <= c

\* A plausible bug, used to test the properties.
MapSameFrame(a, phys) == [v \in Virt |-> IF v \in Pages(a) THEN phys ELSE page[v]]

\* paging_map_pages: consecutive frames from phys on, whatever phys is.
MapPages(a, phys) == [v \in Virt |-> IF v \in Pages(a) THEN phys + (v - a.base) ELSE page[v]]

\* The page directory; without it proc_run_code gives up.
new_directory == /\ table["directory"] = Absent
                 /\ pmm_alloc_page
                 /\ table' = [table EXCEPT !["directory"] = IF Taken = {} THEN Absent ELSE Result]
                 /\ mine' = mine \cup Taken
                 /\ UNCHANGED <<mem_len, page, loaded>>

\* The area mapped last is the first of its 4 MiB.
TableMissing == loaded > 0 /\ table[Region(loaded)] = Absent

\* paging_get_page: a page table, at frame 0 when none is left.
new_table == /\ TableMissing
             /\ pmm_alloc_page
             /\ table' = [table EXCEPT ![Region(loaded)] = Result]
             /\ mine' = mine \cup Taken
             /\ UNCHANGED <<mem_len, page, loaded>>

\* A segment or the stack: nobody looks whether the frames could be had, and
\* the area is mapped from frame 0 on if not.
map_area == /\ table["directory"] # Absent
            /\ ~TableMissing
            /\ loaded < Len(Areas)
            /\ LET a == Areas[loaded + 1]
               IN  /\ pmm_alloc_pages(a.num)
                   /\ page' = MapPages(a, Result)
            /\ loaded' = loaded + 1
            /\ mine' = mine \cup Taken
            /\ UNCHANGED <<mem_len, table>>

load_step == new_directory \/ map_area \/ new_table

\* Interrupts are off while a program is loaded.
Loading == table["directory"] # Absent /\ (loaded < Len(Areas) \/ TableMissing)

\* The process runs, maybe on frames that are not its own; but page tables at
\* frame 0 are what the program wrote there, which is left out.
Running == /\ table["directory"] # Absent /\ ~Loading
           /\ \A t \in Tables : table[t] # 0
           /\ ~aborted

-----------------------------------------------------------------------------

\* The first n blocks mmap_find_free returns one after the other, fewer if it
\* runs out; none at all when block 0 is free, which reads as a failure.
Frames(n) == LET free == Scanned \ used
             IN  IF 0 \in free THEN {}
                 ELSE {b \in free : Cardinality({c \in free : c < b}) < n}

\* The i-th smallest element, from 0.
Nth(S, i) == CHOOSE b \in S : Cardinality({c \in S : c < b}) = i

\* paging_alloc_pages: the pages obtained are mapped over whatever was there.
MapFrom(v, fs) == [w \in Virt |-> IF w >= v /\ w < v + Cardinality(fs) THEN Nth(fs, w - v) ELSE page[w]]

sbrk_grow(size) ==
    /\ Running
    /\ size > 0
    /\ mem_len + size <= MaxLen
    /\ LET num == IF Remaining < size THEN DivideUp(size - Remaining) ELSE 0
           fs  == Frames(num)
       IN  /\ Headroom > num  \* always so: the counter starts above max_blocks
           /\ mmap_set(fs)
           /\ Give(fs)
           /\ page' = MapFrom(PageAfter, fs)
           /\ mine' = mine \cup fs
           \* a page missing: -1, and the pages already mapped stay
           /\ mem_len' = IF Cardinality(fs) = num THEN mem_len + size ELSE mem_len
           /\ UNCHANGED <<aborted, table, loaded>>

\* The rest of the kernel uses the manager too, but frees only its own frames.
others == /\ ~Loading
          /\ Next
          /\ \A b \in mine : holders'[b] >= holders[b]
          /\ UNCHANGED <<mem_len, page, table, loaded, mine>>

-----------------------------------------------------------------------------

\* The pages the program may use.
Granted(v) == \/ \E i \in 1..Len(Areas) : v \in Pages(Areas[i])
              \/ v > CodeLen /\ PAGE * v < End

\* Every byte of the segments, of the stack and of the heap up to the break is
\* on a page: no size, and no failure half way through paging_alloc_pages,
\* moves the break past the mapped pages.
HeapBacked == Running => \A v \in Virt : Granted(v) => page[v] # Absent

\* The area of v could not be given frames and is mapped from frame 0 on.
OnLowMemory(v) == \E i \in 1..Len(Areas) :
    v \in Pages(Areas[i]) /\ page[v] = v - Areas[i].base

\* A frame that only this process has, on one page of it at most.
OwnFrame(f) == /\ f \in used /\ holders[f] = 1
               /\ \A v, w \in Virt : page[v] = f /\ page[w] = f => v = w

\* Every mapped frame backs one page and is held, so no other caller of the
\* manager can be given a page of this process, except where a segment or the
\* stack found no frames: those lie on low memory, and no page of the heap
\* does.  No page is mapped to a page table or the directory, and those differ.
FramesPrivate ==
    /\ \A v \in Virt : page[v] # Absent => OwnFrame(page[v]) \/ OnLowMemory(v)
    /\ \A t \in Tables : table[t] \notin {Absent, 0} =>
          /\ OwnFrame(table[t])
          /\ \A v \in Virt : page[v] # table[t]
          /\ \A u \in Tables : table[u] = table[t] => u = t

\* Memory in use keeps its frame: neither loading nor sbrk, which does not look
\* at what was mapped, maps over the program, the stack or the heap below the
\* break.
MemoryStays == [][\A v \in Virt :
                    page[v] # Absent /\ ~(InHeap(v) /\ PAGE * v >= End) => page'[v] = page[v]]_asVars
=============================================================================
