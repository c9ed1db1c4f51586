# Verification of Saynaa OS

Saynaa OS is a small 32-bit x86 kernel in C with a window manager and its
programs in user space. This directory models the parts of it where something
can go wrong that a test would hardly reach: the scheduler and the life of
processes, physical memory and the heaps on top of it, the keyboard and mouse
drivers, the message device `/dev/wm`, the window manager with its clients, the
file tree with the file tables of processes, and the way from a key through
terminal, pty and shell back to the screen. TLC checks
the models on small instances; TLAPS proves the theorems of the `*_proofs`
modules for every value of the constants.

`tlc -config X.cfg M` runs a model, `tlapm M_proofs.tla` checks the proofs. The
runs, their properties, the map from definitions to source lines, the findings
and the hazards are in `PROJECT.json`.

## 1. Inventory

How control moves: the kernel is entered by interrupts and by `int 0x80`, with
interrupts off (every stub in `interrupt.asm` starts with `cli`), and stays so
until `iret`. User code can be interrupted anywhere; a handler runs alone until
it returns or switches stacks in `proc_switch_process`. So one handler is one
action of a model, and the interleavings are those of user programs between two
system calls, and of `waitpid`, which calls the scheduler in a loop from inside
the kernel.

| Component (source) | State | Operations | Correct when |
|---|---|---|---|
| Scheduler (`sys/sched_robin.c`) | circular list of nodes, head, sleep ticks | add, next, exit, exists | nobody is lost, doubled or overtaken for ever; sleepers run only when all sleep |
| Processes (`sys/proc.c`, `sys/syscall.c`, `cpu/isr.c`, `interrupt.asm`) | current process, saved stacks, shared stdout buffers, the PIC's in-service bit | boot, exec, yield, sleep, waitpid, maketty, exit, timer | ring = live processes; buffers counted exactly; waitpid returns after its target and does return; the timer is acknowledged |
| Physical memory (`mem/pmm.c`) | bitmap, used-block counter | allocate one page, a run, an aligned large page; free | a frame has one owner; bitmap exact; the counter never refuses wrongly |
| Address space (`mem/paging.c`, `sys/elf.c`, `proc_run_code`, `proc_sbrk`) | page directory, page tables, break | load a program, sbrk | segments, stack and heap are mapped and stay where they are; a frame is private unless a failed allocation left it on low memory |
| Heaps (`mem/malloc.c`, libc's `stdlib/malloc.c`) | chain of blocks, top, bytes in use | allocate, free, reallocate | blocks do not overlap and lie on mapped pages, also after a failed sbrk; usage exact |
| Input rings (`dev_kbd.c`, `dev_mouse.c`, `keyboard.c`, captured stdout) | buffer, two indices | push, read | a FIFO that drops its oldest item |
| Drivers (`keyboard.c`, `mouse.c`) | modifiers, prefix, packet bytes, pointer | interrupt handlers, keyboard mode | characters as typed; the pointer follows, also after lost bytes |
| `/dev/wm` (`dev_wm.c`) | endpoints, byte ring of each, server pid | write, read | whole messages in order; one endpoint per process; clients reach only the server |
| Shared memory (`mem/shm.c`) | table of counted objects, mappings | create, map, close | mapped frames are not given back |
| Window manager (`wm.c`) | 32 window slots in stacking order, focus, hover, drag | create, close, mouse, keyboard | focus exact and told; layers kept; no dangling ids |
| libgui (`gui.c`), `startwm.c`, `background.c` | windows, requests, polls | open, close, poll | a returned window exists; opening never hangs |
| Pseudo terminals (`dev_pty.c`) | two FIFOs, line buffer, table of ptys | master and slave read and write, create | lines as edited, echo as edited |
| Terminal and shell (`terminal.c`, `shell.c`) | text, event queue, line, child | read, key, redraw, run | the screen shows what is sent; every line is run |
| Files (`vfs.c`, `device.c`, `devfs.c`, `ext2.c`, `pathutil.c`, file system calls, `cat.c`, `ls.c`) | device table, file tables, directories | open, close, read, readdir, stat, chdir, exec | a terminal stays connected to its shell; cat and ls are exact |
| Framebuffer, libc formatting, drawing, boot tables, FPU | – | – | not modelled, see section 6 |

How the components interact: system calls and the timer call the scheduler;
`exec` adds to the ring, `exit` removes. `sbrk`, `exec` and shared memory take
frames from the physical memory manager. The keyboard and mouse interrupts push
into rings that the window manager and, for the text console, the shell read.
`exec` copies the parent's file table; a terminal puts its pty's slave in place
of files 0 to 2 before it starts a shell. Programs and the window manager talk
only through `/dev/wm` messages and shared buffers; neither side is told when
the other exits, and a full queue drops messages.

What is hard here: the scheduler's pointer surgery while it skips sleepers;
the first switch to a process, which leaves the kernel by another path than all
later ones; `waitpid`'s loop across switches; unsigned arithmetic in the frame
allocator and in sbrk; frames that run out half way through loading a program or
growing a heap, mostly unnoticed; byte rings that
wrap inside a message; who writes to `/dev/wm` first; clients that give up while
their request is still queued; remembered window ids when windows close; file
numbers that depend on what was inherited; a line edited in one program while
another still works on the last one; packet boundaries after a lost byte.

## 2. Modules

    RoundRobin   <- implemented by - SchedRobin          (scheduler)
       ^  instantiated by Kernel and Startup
    Pmm <- AddrSpace <- extended by - Heap               (memory)
    LossyQueue   <- implemented by - InputRing <- extended by - Drivers
    MsgQueue     <- implemented by - WmQueue             (/dev/wm, one endpoint)
    DevWm        <- extended by ---- Startup (+ RoundRobin)
    WinMgr, Shm  <- extended by ---- Desktop
    Pty          <- extended by ---- Terminal            (keys, shell, screen)
    Ext2         <- extended by ---- Files               (file tree, file tables)

`X_proofs` holds the theorems about `X` and about the modules only `X` extends
(`Heap_proofs` also has `Pmm` and `AddrSpace`, `Drivers_proofs` also
`InputRing`). `DevWm_proofs` has everything about `/dev/wm`: `WmQueue`, `DevWm`
and `Startup`. `Programs_proofs` has everything about the programs a user sees:
`Terminal` and `Files` with `Pty` and `Ext2`. Modules whose theorems share a
proof module have names of their own for their specifications (`QSpec` of
`WmQueue`, `TSpec` of `Terminal`). `MCX` supplies constants (and `MCDevWm` lets `Init` pick
which of the device's two layers runs); `SchedConsts` holds the constants that the
scheduler modules and `Kernel` share; `Picking` has one operator, the elements of
a sequence at given places, that `Terminal` and `Ext2` share.

- **RoundRobin** states what `sched_t` promises over a run queue: `queue[1]` is
  the node at the ring's head. `sched_next` scans from the second to the head,
  takes a tick from each sleeper it passes and elects the first ready process;
  when all sleep, the next in line.
- **SchedRobin** is the list itself, with `next` pointers, the loop of
  `sched_robin_next` one iteration per step and the three assignments that
  relink a ready node. Pruning is the identity: no process is ever invalidated.
- **Kernel** puts processes around the queue. `saved` says where a process that
  was switched away from will resume: `fresh` (at `irq_handler_end`), inside a
  `handler`, or in the `wait` loop. `in_service` is the PIC's bit for IRQ0.
  `stdout` and `refcount` are the output buffers children share.
- **Pmm** is the bitmap as a set of blocks, the counter modulo `WRAP`, and a
  history variable `holders`, which counts how many callers hold a block.
- **AddrSpace** is one process's memory on top of `Pmm`, in units with a page
  size of `PAGE`, beside callers that allocate and free as they like but free
  only what is theirs. Loading is one call of the frame allocator per step, each
  of which may fail: the page directory (`new_directory`, the only call whose
  result is looked at), then per ELF segment and for the stack the frames
  (`map_area`) and a page table where the first page of its 4 MiB needs one
  (`new_table`). `code_len` is counted from the file (`CodeLen`), not from the
  segments: pages between the last segment and the initial break have no frame,
  and the model does not give them any. The flat-binary branch of
  `proc_run_code` is left out, since every program of the image is an ELF file.
  `ProgramAssumption` is what `userspace/linker.ld` gives: segments at least a
  page apart, each in the file where it is in memory, with `.bss` inside `.data`
  and so written to the file, so that no segment reaches past the initial break.
- **Heap** is both first-fit allocators over one block chain: the kernel's, on an
  area mapped by its first allocation, and libc's, whose `malloc` is up to three
  steps because each `sbrk` is a system call of its own and may fail. `Init`
  picks one; the other users of `Pmm` go on beside it. Lengths are in units of
  four bytes, with the offsets of the real header (8 and 12 bytes).
- **Drivers** has the keyboard's and the mouse's interrupt handlers. The devices
  are external: what they send waits in `wire`, each byte with what was meant by
  it, so that a property can compare. `Init` picks keyboard, tty ring or mouse,
  which do not influence each other.
- **Pty** is the line discipline as functions on the state of one pty;
  **Terminal** the terminal's loop, the shell and the person typing around it.
  In the `console` mode the same shell edits by itself on the tty ring.
- **Ext2** is the reader as functions of an image: a byte is named by its block
  and place, so a wrong block or offset shows. **Files** has the paths, devfs,
  `/dev/pts`, the device table, the file tables and the programs that use them,
  one system call per step, except that a read and the write of what it
  returned are one. `out` is what a program prints: of `cat` the bytes it read
  and then the newline it always adds.
- **InputRing** is the one algorithm behind four rings; **LossyQueue** the queue
  it implements.
- **WmQueue** is an endpoint's byte ring; a byte is `<<message, index>>`, so a
  torn message would show. **MsgQueue** is what it implements.
- **DevWm** is the endpoint table, the election of the server and the routing
  rule, with whole-message queues.
- **Startup** runs `startwm`, `wm` and `background` over `DevWm` under the
  scheduler, one system call per step, with timer switches in between.
- **Shm** is the table of shared objects and, per process, what it has mapped.
- **WinMgr** is the window table. A slot's index is its depth. Positions are
  abstracted to what `win_at` finds: any window that takes input, or none. That
  is more than a screen allows, so the invariants hold for every layout. `told`
  is a history variable of the focus events sent.
- **Desktop** composes `WinMgr` and `Shm` with clients that open, close and give
  up on windows. Requests wait in a bounded endpoint that drops its oldest.
  It takes the window manager for the server of `/dev/wm`: `Startup` covers how
  that comes about and how it fails.

Definitions with the source's names model the function of that name; actions
model whole handlers. Operators marked as plausible bugs are not part of a
model: each shows that a property notices such a bug in the definition it stands
for.

## 3. Runs

Run | What it asks | Bounds
---|---|---
`sched_robin` | the list is one closed ring (`OneRing`) and implements `RoundRobin`; `TurnsAdvance`, `SleepersLast` of the list itself | 4 processes, sleeps of 2 ticks: relinking needs two sleepers between head and a ready node
`kernel` | `RunQueueExact`, `StdoutCounted`, `WaitsParked`, `WaitOutlivesChild`; liveness `EveryoneRuns`, `WaitReturns` | 3 processes, 2 buffers, sleeps of one tick
`kernel_eoi` | *violated*: `TimerAcknowledged` | 2 processes
`memory` | `NoDoubleAllocation`, `BitmapExact`, `NeverFalselyFull`, `HeapBacked`, `FramesPrivate`, `MemoryStays`, `BlocksSound`, `UsageExact` | 13 blocks with a hole, a kernel of 2 and boot data, words of 4 bits with a partial last one; a program of two segments of a page, with a file of 3 pages and a stack of 2: with the directory and two page tables it takes 7 of the 8 frames there are, so every call made while it is loaded and every sbrk can fail; pages of 8 units, a kernel heap of 3 pages, requests of 1 and 9 units: blocks cross pages, both heaps run out
`pmm_full` | *violated*: `AbortsWhenFull` | 8 blocks
`drivers` | the ring implements `LossyQueue`; `CharsAsTyped`, `PointerFollows` | ring of 3; six kinds of keys, 2 held at once; movements with header-like bytes and with signs; a device sends while fewer than 2 bytes wait
`dev_wm` | messages are never torn (`Framed`), the ring implements `MsgQueue`; `OneEndpoint`, `ClientsIsolated`, `ServerReachable` | a ring of 8 bytes, messages of 2, 3 and 5; 3 processes for 2 endpoints, so the table fills. Init picks the ring or the endpoint table: they are two layers, not two parties
`startup` | `WindowsAgree`; liveness `BackgroundSettles` | 3 polls instead of 500: slower and faster answers than the polls both happen
`startup_race` | *violated*: `WmIsServer` | the same
`desktop` | `FocusExact`, `FocusTold`, `LayersOrdered`, `NoDangling`, `WindowsKept`, `MappedAlive` | background and 3 programs for 4 slots and 2 queued requests: a full table, holes, both cases of raising, lost requests
`terminal` | `LinesFaithful`, `SeenIsSent`; liveness `LinesRun` | 4 keys, lines of 2, FIFOs of 6 bytes, reads of 4, a window of 2 rows of 3: echo overflows, reads split echo sequences, rows break and scroll, the line buffer fills. The FIFO to the shell does not fill up with so few keys
`files` | `TerminalConnected`, `CatExact`, `ListingExact` | 5 processes, file tables of 5, 2 ptys: a terminal inside a terminal, no pty left, no process left. The image has holes, an indirect block, files ending inside and at the end of a block, deleted entries

The runs `kernel`, `sched_robin`, `terminal` and `files` do not check deadlock:
there the system may really stop (every process may exit, nobody types). All
other passing runs show its absence.

At most one property per question: type invariants are kept in the modules for
the proofs and are not run, and what is asked of the abstract queue is asked of
the list in `sched_robin`, which implements it. That an election loses nobody
(`NobodyLost`) is proved and not run: a run of the refinement includes it.

The bounds are small because the behaviours are about order, not size: each run
is just large enough to reach the case that is hard (the table full, the ring
wrapped, two sleepers overtaken), and each property has been seen to fail when
the code it is about is changed in a plausible way.

### What the violated runs show

- `kernel_eoi`: when the timer's handler switches to a process that has never
  run, that process resumes at `irq_handler_end`, which returns to user mode
  past the tail of `isr_irq_handler`. The PIC gets no end of interrupt and does
  not interrupt the new process until one of its system calls sends one.
- `startup_race`: the ring links a new process right behind the running one, so
  of the two programs `startwm` starts, the second runs first. The background's
  CREATE can be the first write to `/dev/wm`, which makes the background the
  server. It then reads back its own request until it gives up.
- `pmm_full`: `pmm_alloc_page` promises to print an error and abort when no block
  is free. `init_pmm` leaves `used_blocks` above `max_blocks`, so the unsigned
  difference that is compared with 0 never is 0: the call returns 0 instead, which
  the `@return` line of the same comment allows. `NeverFalselyFull` is the other
  half: the wrapped difference stops nobody while the scan still finds memory.

### Other observations

- Of the allocations made while a program is loaded only the page directory's is
  checked. When memory runs out, `elf_load` (`elf.c:47-48`), the mapping of the
  stack (`proc.c:156-157`) and `paging_get_page` (`paging.c:78-79`) take the 0 that
  means failure for an address and map block 0 and those behind it, against the
  note in `pmm.c:124` that address 0 is never mapped. `FramesPrivate` says how far
  that goes: only whole areas that found no frames lie there, never a page of the
  heap. What a program does to a page table that lies on block 0 is left out: a
  process does not run with one.
- Closing a window drops one reference where opening took two, so a shared
  object is never freed. `MappedAlive` is the good side of that; after 64
  windows `shm_create` has no entry left.
- `proc_sleep` computes `ms * TIMER_FREQ` in 32 bits, so sleeps above 42949 seconds
  wake early; the models count sleeps in ticks.
- `vfs_walk` cuts a name of more than 63 characters in two and walks it as two
  directories; names in the models are shorter.
- `raise_window` stops at the first free slot, which may be below a window that
  covers the raised one. The comments promise the layers only, and those hold.
- `proc_sbrk` with a negative size computes the bytes freed with the wrong sign.
  No program does that (libc's `free` keeps the memory), so the models have a
  heap that only grows.
- When a FIFO of a pty is full the newest bytes go, of a line its newline first,
  and two lines become one. The properties of `terminal` are stated for
  behaviours without overflow (`lost`, `clean`).
- A carriage return that is the last byte of a read becomes a row of its own,
  because its newline is still in the FIFO. A tab is echoed as four blanks and
  erased as one; `SeenIsSent` leaves such lines out.
- The window shows the last rows only. A line of more than
  `MAX_COL * (MAX_LINE - 1)` characters (67 times 18 for the real window, while
  the pty takes lines of 4095) scrolls its own beginning away; `SeenIsSent` is
  stated for lines that fit (`Fits`).
- Two held shift keys share one flag, a held caps lock toggles with each repeat,
  movements below -128 are decoded as positive: `CharsAsTyped` and
  `PointerFollows` name these exceptions.
- Ptys are never given back, and the shell of a closed terminal stays.
- A failed read falls back to the tty: `cat` on a directory takes typed keys.
- `cat` resolves its argument against `/`, not the shell's directory; the models
  do the same.
- `FocusExact` shows that the window manager's "Recover focus" code never acts.

## 4. Fairness

- `RoundRobin`, `SchedRobin`: weak fairness of `sched_next`. The timer calls it
  for ever, and the loop of `sched_robin_next` runs with interrupts off.
- `Kernel`: weak fairness of entering user mode and of `waitpid`'s loop, which
  is kernel code that nothing blocks; strong fairness of the timer interrupt,
  since the PIT raises IRQ0 for ever and the PIC latches it until it can be
  delivered. User programs have none: they may compute for ever, so liveness
  rests on preemption. Because of the missing end of interrupt the two liveness
  properties assume `[]<>(~in_service)`: without it a process that makes no
  system call keeps the CPU.
- `Startup`: weak fairness of the timer and of `startwm`'s wait, strong fairness
  of the programs' steps: a program that gets the CPU again and again reaches
  its next system call. Its programs keep making system calls, so the end of
  interrupt is not in the model.

- `Terminal`: weak fairness of the terminal's and of the shell's steps: both poll
  and sleep, and `EveryoneRuns` gives them the CPU again. Programs the shell
  starts have none, so `LinesRun` assumes that no program runs for ever
  (`[]<>(~child)`), nor does the person at the keyboard or the window's close.

No other specification states fairness; their properties are safety.

## 5. Proofs

Every theorem holds for every value of the constants that the named ASSUMEs
allow. "Checked as" names the property of a run with the same statement.

Theorem | Checked as | Argument
---|---|---
`QueueSound` (RoundRobin_proofs) | – | types and `RingSound` are inductive together; lemmas on `MoveToHead`, `Rotate`, `InsertNext`, `RemoveAt`: they permute, extend or shrink a sequence without repetitions
`RingKeepsEverybody`, `ReadyFirst`, `WaitingIsBounded` | – (of the abstract queue) | from the permutation lemma of `sched_next`; the scan finds the first ready process whenever there is one; positions go down
`RingStaysClosed` (SchedRobin_proofs) | `OneRing` | from `RingInv`
`NobodyIsLost`, `SleepersComeLast`, `TurnsComeCloser` | –, `SleepersLast`, `TurnsAdvance` | each election of the list is an election of the queue, for which `RoundRobin_proofs` has the lemmas
`RingIsRoundRobin` | safety part of `ImplementsRoundRobin` | one lemma per assignment pattern: what the pointers spell after it is what `RoundRobin` has after the operation; steps of the loop over sleepers stutter, because the mapping puts back the ticks taken so far
`RunQueueIsLive`, `StdoutRefsExact`, `WaitersResumeWaiting`, `WaitpidWaits` (Kernel_proofs) | `RunQueueExact`, `StdoutCounted`, `WaitsParked`, `WaitOutlivesChild` | from `KernelInv`, with the ring lemmas of `RoundRobin_proofs`; counting through `FS_AddElement` and `FS_RemoveElement`
`AllocatorSound` (Heap_proofs) | – (`Pmm` alone) | from `PmmInv`
`FramesHaveOneOwner`, `BitmapIsExact`, `CounterNeverRefuses` | `NoDoubleAllocation`, `BitmapExact`, `NeverFalselyFull` | the same with sbrk and both heaps on top; the counter is computed exactly and stays below `WRAP`
`BreakIsBacked`, `FramesArePrivate` | `HeapBacked`, `FramesPrivate` | from `MapInv` and `AreaMapped`
`MemoryIsKept` | `MemoryStays` | an area that is loaded was not mapped before (`Placed`), and sbrk maps from the first page behind the break on
`BlocksAreSound`, `UsageIsExact` | `BlocksSound`, `UsageExact` | from `Chain`; the sum over the blocks changes by one block at a time
`RingTyped`, `RingIsLossyQueue`, `TtyIsLossyQueue` (Drivers_proofs) | – , – , `ImplementsLossyQueue` | the abstract queue is the window of unread slots; a push slides or extends it, a read shortens it; the drivers use the ring only by these operations
`TypedIsRead`, `PointerIsMoved` | `CharsAsTyped`, `PointerFollows` | from `KbdInv` and `MouseInv`
`MessagesStayFramed`, `RingIsMsgQueue` (DevWm_proofs) | `Framed`, `ImplementsMsgQueue` | from `QueueInv`; places are counted back from `w`, so wrapping is dealt with once, in `BackShift` and `BackAdd`
`EndpointsUnique`, `OnlyServerReachesClients`, `ServerKeepsEndpoint` (DevWm_proofs) | `OneEndpoint`, `ClientsIsolated`, `ServerReachable` | from `DevWmInv`
`WindowsExist` (DevWm_proofs) | `WindowsAgree` | from `StartupInv`
`LinesAreFaithful` (Programs_proofs) | `LinesFaithful` | from `TermInv`; lemmas on what `Edited` makes of one key more
`ScreenIsTrue` (Programs_proofs) | `SeenIsSent` | from `TermInv` and `ScreenInv`; every row before the last is not empty, so the last rows hold a line that fits
`TerminalsConnected` (Programs_proofs) | `TerminalConnected` | from `FilesInv`; which entry `alloc_fd` takes after the three closes
`CatIsExact`, `ListingsAreExact` (Programs_proofs) | `CatExact`, `ListingExact` | from `ProgramsInv`; `ReadFile`: `ext2_read_file` is a slice of the file, by induction over its loop; `Stays`: steps of other processes only add names behind those of a directory
`FocusIsRight`, `FocusEventsAgree`, `LayersKept`, `NoDanglingWindow`, `WindowsStay`, `BuffersOutliveMappings` (Desktop_proofs) | `FocusExact`, `FocusTold`, `LayersOrdered`, `NoDangling`, `WindowsKept`, `MappedAlive` | from `DesktopInv`

The inductive invariants, and what each adds to what it is for:

- `RRInv`: types and that a process occurs once; without the latter the elected
  process could be found at a second place when it is moved to the head.
- `RingInv` (list): the pointers, entered at the head, spell a sequence without
  repetitions that closes and holds every linked node; while the loop runs, the
  cursor is on that ring and all nodes it passed have lost a tick.
- `KernelInv`: a process that has not run resumes in user mode and waits for
  nobody (`Started`). `WaitsParked` alone says nothing of unborn processes, so a
  birth could break it.
- `PmmInv`: no double allocation is not inductive without the exact bitmap, nor
  that without the other, and neither allocation succeeds without the exact
  counter. `MapInv`: frames of the process have one holder, so the rest of the
  kernel can neither free nor get them, and page tables have frames of their own;
  an area that found none lies on blocks below the kernel's end, which are
  nobody's. `AreaMapped`: which areas are mapped is a matter of how far loading
  got (`Placed`), and every heap page below the break is (`HeapMapped`); the
  pages between segments and break are mapped by nobody. `Chain`: blocks follow
  each other inside the area, with the size of the gap between.
- `RingInv` (InputRing): every slot between the indices holds an item.
- `KbdInv`: the handler's flags say nothing of the keys held, since codes are
  still on their way. What holds is that reading the whole wire from the present
  flags on leads to the flags of the keys held, and meets every character with
  the flags that were meant for it; each key adds a piece at the far end, each
  interrupt takes one off the front.
- `MouseInv`: the wire holds packets, the first maybe without its front; in step,
  the handler has collected what comes before the next byte. Out of step only
  the number of collected bytes counts, and a quiet packet takes each of the
  three possible numbers to none.
- `QueueInv`: there are messages whose bytes, one after the other, are what lies
  between `r` and `w`. `Framed` follows the lengths in the buffer; the invariant
  gives the messages those lengths belong to.
- `DevWmInv`: free slots have no messages, and all are free until there is a
  server: so the first writer finds room and nobody inherits a queue.
- `StartupInv`: `WindowsAgree` counts windows; what carries it is that a request
  is in one place at a time (`OneRequest`): waiting for the window manager, with
  it, answered, or lost. Between two requests nothing is under way, also when the
  background itself has become the server.
- `TermInv`: what was read so far, edited, is what the shell has and what is in the
  line buffer. To follow a backspace the invariant also says at which places of
  the keys the characters of the unfinished line were typed (`OnLine`): those are
  the ones a backspace to come can take back. The pty keeps a tab in its line and
  the shell drops it, so tabs are left out on both sides, behind the editing in
  the first mode and before it in the second.
- `ScreenInv`: what is in the FIFO to the terminal, read on from the text, will
  show the line of the pty (`WillShow`): from the last character that was not
  typed on, in the text already or still in the FIFO, each byte adds a character
  to the line or takes one back, and the three bytes of an erase do one after the
  other what the terminal does with them. So a read may end anywhere, inside an
  erase or between `cr` and `nl`. In the console mode the same holds with nothing
  on its way (`Behind`), and the shell has no line while it does not read.
- `FilesInv`: of every program, wherever it is, files 0 and 1 are in use; once
  `reserve_stdio_fds` is done, file 2 too, so the master gets a number above 2.
  Numbers of ptys differ and lie below `g_ptys`; the shell of a terminal keeps the
  slave because a shell never closes files.
- `ProgramsInv` adds, of `cat`, that its offset is the length of what it printed,
  and that this is a slice of the file its path leads to, with the newline behind
  it once that is all of the file; of `ls`, that it has
  listed the first names of what `readdir` gives now, each found but the last one
  while it is being asked for; and of the registry, that the visible devices are
  those of `kernel_main`. Both refer to what a path means at present, so what is
  needed for every step of every other process is that it changes little
  (`Change`, `Extends`): an inode stays, nothing becomes a pty's device, and names
  come behind those there are.
- `DesktopInv`: ids are unique, background and bar are in the first and the last
  slot; a client has at most one CREATE on its way, a CLOSE never names a window
  that its client still uses; the background program is alone until it has both
  windows; an object's count is the number of its users.

Assumptions: processes other than `NONE`, finitely many of them for the list and
for the kernel; an input ring of at least two slots; movements of nine bits with
sign, as a PS/2 mouse reports them; a memory map whose counts fit the counter
with room for a request (`4 * Blocks + MaxRun + 2 * LARGE <= WRAP`: 2^20 blocks,
2^32 counts); pages of at least two units; segments one behind the other and
inside the pages `code_len` counts, each of them and the stack smaller than the
kernel with its modules (`ProgramAssumption`; the image the programs come from is
one of those modules); a kernel heap inside the modelled
address range; a header of at least one byte and messages that fit below
`WMQ_BYTES` (12 + 256 < 8192 in `dev_wm.c`); at least one endpoint and window
slot; of the start-up, three different programs. The keyboard has no carriage
return and no form feed, and the window at least a row and a column
(`TerminalAssumption`); what a program prints ends in a newline, a form feed or
something that shows (`OutputAssumption`: after a tab or backspace at its end,
which has no place of its own in a text, "right behind it" means nothing). Of files: a table of at least three numbers, room
in the device table for two devices of every pty, `tty`, `null`, `wm` and `ptmx`
among the devices (`FilesAssumption`); device names that differ and are none of
the words the model uses for other kinds of nodes (`NamesAssumption`); different
decimal numerals for different ptys (`DecimalAssumption`). Of the image
(`Ext2Assumption`, `ImageAssumption`): block numbers inside it, indirect blocks as
long as their files need, directory entries that name inodes, each name once in
its directory, and no `dev` in the root, which would be listed beside devfs. The
build makes the image with `mkfs.ext2` from the programs and assets, which has
all of this; TLC evaluates the assumptions on the image of `MCFiles`.

Facts about recursive functions (`Dropped`, `Walk`, byte sums) are proved by the
least index at which they would fail, which the well-foundedness of the natural
numbers gives (`LeastElement`).

Only model-checked: liveness (fairness and ENABLED are out of the prover's
reach), so also the fairness part of `ImplementsRoundRobin`. Every
invariant and every action property of the passing runs has a theorem.

## 6. Not modelled

Of the ELF loader only the mapping of segments is modelled, not the checks of
the headers, which the image's programs pass, nor the copying. ext2's on-disk
encoding (group descriptors, inode tables, record lengths) is abstracted to
functions; a malformed image is outside the models. Framebuffer, drawing and
compositing produce pixels; the console is modelled as the text on it, without
wrapping. GDT, IDT, TSS and ports are set-up without protocol. libc's formatting
and scanning are sequential. The FPU switch copies a buffer; nothing calls the
two functions that would move the registers into it (listed as a hazard).

Process exit frees only the stdout buffer, so the models have no release of
frames, stacks or endpoints either.

Settings of a pty other than the default have no program that uses them. getcwd
returns `cwd`, which `Files` resolves the argument of `ls` against when it is
started; only the process itself can change it. seek is called by the window
manager only, on the framebuffer and on devices that ignore the offset. The
mouse driver passes the buttons on as they come, so `Drivers` leaves them out;
what `wm.c` does with them (click, drag, release) is in `WinMgr`. Names longer
than a buffer, and wrap-around of 32-bit ids (2^32 processes, windows or
objects), are left out.

## 7. Plan

Done, in this order: scheduler and its refinement, processes, physical memory,
input rings, `/dev/wm`, start-up, window manager with shared memory; theorems
for scheduler, allocator and input ring; heaps, drivers, pty with terminal and
shell, files; then the theorems about the list, processes, the heaps, both
layers of `/dev/wm`, the desktop and the drivers; last those about the start-up,
the terminal's lines, the file tables, `cat`, `ls` and the screen.
