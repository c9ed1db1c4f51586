-------------------------------- MODULE Files -------------------------------
(***************************************************************************)
(* Files as programs use them: path names (libc/src/pathutil.c), the       *)
(* virtual file system (fs/vfs.c) over ext2, devfs and /dev/pts, the       *)
(* device registry (fs/device.c), the file tables of processes (sys/proc.c,*)
(* sys/syscall.c), and the programs that depend on them: the shell, cat,   *)
(* ls, background and the terminal, which gets its pty, puts it in place   *)
(* of files 0 to 2 and starts a shell on it.                               *)
(*                                                                         *)
(* A path is a sequence of names.  Every system call is one step; file     *)
(* tables belong to one process, the registry and the ptys to all.         *)
(***************************************************************************)
EXTENDS Ext2

CONSTANTS MaxProc,      \* bound: processes; exec fails beyond it, as without memory
          PROC_MAX_FD,
          PTY_MAX,
          DEVICE_MAX_COUNT,
          BootDevices,  \* names registered by kernel_main, in order
          FileArg,      \* what follows cat: [abs, segs]
          DirArg,       \* what follows ls and cd
          CATBUF        \* bytes cat reads at once (512)

\* The registry never fills up: kernel_main's devices and two for each pty.
ASSUME FilesAssumption == /\ PTY_MAX \in Nat /\ PROC_MAX_FD \in Nat /\ MaxProc \in Nat
                          /\ CATBUF \in Nat \ {0}
                          /\ Len(BootDevices) + 2 * PTY_MAX <= DEVICE_MAX_COUNT
                          /\ PROC_MAX_FD > 2 /\ MaxProc > 0
                          /\ {"tty", "null", "wm", "ptmx"} \subseteq Range(BootDevices)

\* A device has a name of its own, which is none of the words this module and
\* devfs use; arguments are sequences of names.
ASSUME NamesAssumption ==
    /\ BootDevices \in Seq(STRING \ {"ext2", "devfs", "pts", "none", "master", "slave", ".", ".."})
    /\ \A j, k \in DOMAIN BootDevices : BootDevices[j] = BootDevices[k] => j = k
    /\ \A a \in FileArg \cup DirArg : a.segs \in Seq(STRING)

\* Numbers in decimal are different.
ASSUME DecimalAssumption == \A i, j \in 0..PTY_MAX : /\ ToString(i) = ToString(j) => i = j
                                                    /\ ToString(i) \notin {".", ".."}

VARIABLES proc,       \* pid -> its state
          next_pid,
          g_devices,  \* registered devices, in order
          g_ptys      \* number of ptys: they get ids in order and are never freed

vars == <<proc, next_pid, g_devices, g_ptys>>

Pid == 1..MaxProc
Fd == 0..(PROC_MAX_FD - 1)

Node(kind, id) == [kind |-> kind, id |-> id]
NoNode == Node("none", 0)
Unused == [node |-> NoNode, flags |-> {}, offset |-> 0]
Nobody == [prog |-> "none", pc |-> "none", fds |-> [f \in Fd |-> Unused], cwd |-> << >>,
           path |-> << >>, fd |-> -1, out |-> << >>, child |-> 0, was |-> {}]

-----------------------------------------------------------------------------
(* Paths and nodes.                                                        *)

\* normalize_path: "." is dropped, ".." takes back a name if there is one.
normalize_path(segs) ==
    LET Push(top, s) == CASE s = "." -> top
                          [] s = ".." -> IF top = << >> THEN top ELSE Front(top)
                          [] OTHER -> Append(top, s)
        top[k \in 0..Len(segs)] == IF k = 0 THEN << >> ELSE Push(top[k - 1], segs[k])
    IN  top[Len(segs)]

make_abs_path(cwd, arg) == normalize_path(IF arg.abs THEN arg.segs ELSE cwd \o arg.segs)

Hidden(d) == d.kind \in {"master", "slave"}
Pts == Node("pts", 0)
Devfs == Node("devfs", 0)

\* device_lookup: the ptys' devices have names of their own, which nobody asks for.
device_lookup(name) == IF Node(name, 0) \in Range(g_devices) THEN Node(name, 0) ELSE NoNode

dev_root_finddir(name) == IF name = "pts" THEN Pts ELSE device_lookup(name)

\* A pty is found by its number in decimal.
pts_finddir(name) ==
    LET ids == {i \in 0..(g_ptys - 1) : name = ToString(i)}
    IN  IF ids = {} THEN NoNode ELSE Node("slave", Min(ids))

\* Devfs hides an entry "dev" of the image's root.
DirFind(i, name) ==
    CASE i = ROOT /\ name = "dev" -> Devfs
      [] (i # ROOT \/ name # "dev") /\ Inode[i].dir /\ ext2_finddir(i, name) # 0 ->
            Node("ext2", ext2_finddir(i, name))
      [] OTHER -> NoNode

\* The finddir operation of the node n.
finddir(n, name) == CASE n.kind = "ext2" -> DirFind(n.id, name)
                      [] n = Devfs -> dev_root_finddir(name)
                      [] n = Pts -> pts_finddir(name)
                      [] OTHER -> NoNode

\* NoNode has no entries.
vfs_walk(start, path) ==
    LET walk[k \in 0..Len(path)] == IF k = 0 THEN start ELSE finddir(walk[k - 1], path[k])
    IN  walk[Len(path)]

vfs_lookup(path) == vfs_walk(Node("ext2", ROOT), path)

IsDir(n) == n \in {Devfs, Pts} \/ (n.kind = "ext2" /\ Inode[n.id].dir)

\* Plausible bug, used to test the properties.
VisibleCountsHidden == [k \in DOMAIN g_devices |-> IF Hidden(g_devices[k]) THEN "pts" ELSE g_devices[k].kind]

\* The names dev_root_readdir shows of the registry.
VisibleDevices == LET shown == Pick(g_devices, {k \in DOMAIN g_devices : ~Hidden(g_devices[k])})
                  IN  [k \in DOMAIN shown |-> shown[k].kind]

dev_root_readdir == <<"pts">> \o VisibleDevices
pts_readdir == [k \in 1..g_ptys |-> ToString(k - 1)]

\* The names of a directory in the order readdir gives them.
readdir(n) ==
    CASE n = Devfs -> dev_root_readdir
      [] n = Pts -> pts_readdir
      [] n.kind = "ext2" /\ Inode[n.id].dir -> ext2_readdir(n.id)
      [] OTHER -> << >>

-----------------------------------------------------------------------------
(* File tables.                                                            *)

\* alloc_fd: the first unused entry, -1 if there is none.
FreeFd(fds) == LET free == {f \in Fd : fds[f] = Unused}
               IN  IF free = {} THEN -1 ELSE Min(free)

alloc_fd(fds, node, flags) ==
    IF FreeFd(fds) = -1 THEN fds
    ELSE [fds EXCEPT ![FreeFd(fds)] = [node |-> node, flags |-> flags, offset |-> 0]]

Close(fds, f) == IF f \in Fd THEN [fds EXCEPT ![f] = Unused] ELSE fds

RDWR == {"r", "w"}
tty == Node("tty", 0)

\* proc_init_fd_table: what a process without parent gets.
proc_init_fd_table == [f \in Fd |-> CASE f = 0 -> [node |-> tty, flags |-> {"r"}, offset |-> 0]
                                      [] f = 1 -> [node |-> tty, flags |-> {"w"}, offset |-> 0]
                                      [] OTHER -> Unused]

Init == /\ proc = [p \in Pid |-> IF p = 1 THEN [Nobody EXCEPT !.prog = "shell", !.pc = "ready",
                                                              !.fds = proc_init_fd_table]
                                 ELSE Nobody]
        /\ next_pid = 2
        /\ g_devices = [k \in DOMAIN BootDevices |-> Node(BootDevices[k], 0)]
        /\ g_ptys = 0

-----------------------------------------------------------------------------
(* Starting programs.                                                      *)

\* proc_run_code: the parent's files (with their offsets) and directory are copied.
Child(me, prog, path) ==
    [Nobody EXCEPT !.prog = prog, !.pc = IF prog \in {"shell", "background"} THEN "ready" ELSE "start",
                   !.fds = me.fds, !.cwd = me.cwd, !.path = path]

\* waitpid of the shell is left to its next step.
exec(p, me, prog, path) ==
    \/ /\ next_pid <= MaxProc
       /\ proc' = [proc EXCEPT ![p] = [me EXCEPT !.child = next_pid], ![next_pid] = Child(me, prog, path)]
       /\ next_pid' = next_pid + 1
    \/ /\ next_pid > MaxProc
       /\ proc' = [proc EXCEPT ![p] = [me EXCEPT !.child = 0]]
       /\ UNCHANGED next_pid

At(p, prog, pc) == proc[p].prog = prog /\ proc[p].pc = pc
Goes(p, pc) == proc' = [proc EXCEPT ![p].pc = pc]
Globals == <<next_pid, g_devices, g_ptys>>

Gone == [Nobody EXCEPT !.pc = "exited"]

\* cat resolves its argument against the root, ls against the shell's directory.
shell_exec(p) ==
    /\ At(p, "shell", "ready")
    /\ proc[p].child = 0
    /\ \/ \E a \in FileArg : exec(p, proc[p], "cat", make_abs_path(<< >>, a))
       \/ \E a \in DirArg : exec(p, proc[p], "ls", make_abs_path(proc[p].cwd, a))
       \/ \E prog \in {"terminal", "background"} : exec(p, proc[p], prog, << >>)
    /\ UNCHANGED <<g_devices, g_ptys>>

\* waitpid returns; the process is no longer in the ring.
shell_wait(p) ==
    /\ At(p, "shell", "ready")
    /\ proc[p].child # 0
    /\ proc[proc[p].child].pc = "exited"
    /\ proc' = [proc EXCEPT ![proc[p].child] = Gone, ![p].child = 0]
    /\ UNCHANGED Globals

\* cd: syscall_chdir accepts directories only.
syscall_chdir(p) ==
    /\ At(p, "shell", "ready")
    /\ proc[p].child = 0
    /\ \E a \in DirArg :
           LET resolved == make_abs_path(proc[p].cwd, a)
           IN  /\ IsDir(vfs_lookup(resolved))
               /\ proc' = [proc EXCEPT ![p].cwd = resolved]
    /\ UNCHANGED Globals

\* The background opens a terminal for every click on its button.
background_click(p) == /\ At(p, "background", "ready")
                       /\ exec(p, proc[p], "terminal", << >>)
                       /\ UNCHANGED <<g_devices, g_ptys>>

-----------------------------------------------------------------------------
(* cat.c                                                                   *)

\* syscall_open refuses what does not exist or has no read operation.
Readable(node) == node \notin {NoNode, Devfs, Pts}

\* syscall_read gave data.  A directory falls back to the active tty, whose read
\* leaves the offset alone.
syscall_read(fds, f, data) ==
    LET dir == fds[f].node.kind = "ext2" /\ Inode[fds[f].node.id].dir
    IN  [fds EXCEPT ![f].offset = IF dir THEN @ ELSE @ + Len(data)]

cat_open(p) ==
    /\ At(p, "cat", "start")
    /\ LET node == vfs_lookup(proc[p].path)
           f == FreeFd(proc[p].fds)
       IN  \/ /\ ~Readable(node) \/ f = -1
              /\ Goes(p, "exited")
           \/ /\ Readable(node) /\ f # -1
              /\ proc' = [proc EXCEPT ![p].fds = alloc_fd(@, node, {"r"}), ![p].fd = f, ![p].pc = "read"]
    /\ UNCHANGED Globals

\* The newline cat writes of its own, unlike any byte of the image.
Newline == <<-1, 0>>

\* sys_read and sys_write of what it returned; a short read is the last.  The
\* tty, and a directory that falls back to it, give whatever has been typed.
cat_read(p) ==
    /\ At(p, "cat", "read")
    /\ LET f == proc[p].fd
           node == proc[p].fds[f].node
           file == node.kind = "ext2" /\ ~Inode[node.id].dir
           typed == {[k \in 1..n |-> Zero] : n \in 0..1}
       IN  \E data \in IF file THEN {ext2_read_file(Inode[node.id], proc[p].fds[f].offset, CATBUF)} ELSE typed :
              proc' = [proc EXCEPT ![p].out = @ \o data,
                                   ![p].fds = syscall_read(@, f, data),
                                   ![p].pc = IF Len(data) < CATBUF THEN "newline" ELSE "read"]
    /\ UNCHANGED Globals

\* sys_write(1, "\n", 1).
cat_newline(p) ==
    /\ At(p, "cat", "newline")
    /\ proc' = [proc EXCEPT ![p].out = Append(@, Newline), ![p].pc = "close"]
    /\ UNCHANGED Globals

cat_close(p) ==
    /\ At(p, "cat", "close")
    /\ proc' = [proc EXCEPT ![p].fds = Close(@, proc[p].fd), ![p].pc = "exited"]
    /\ UNCHANGED Globals

-----------------------------------------------------------------------------
(* ls.c                                                                    *)

\* The first readdir; was remembers what the directory holds now.
ls_start(p) ==
    /\ At(p, "ls", "start")
    /\ proc' = [proc EXCEPT ![p].was = Range(readdir(vfs_lookup(proc[p].path))), ![p].pc = "readdir"]
    /\ UNCHANGED Globals

\* SYS_READDIR with the next index; SYS_STAT of the name follows.
ls_readdir(p) ==
    /\ At(p, "ls", "readdir")
    /\ LET names == readdir(vfs_lookup(proc[p].path))
           idx == Len(proc[p].out) + 1
       IN  \/ /\ idx > Len(names)
              /\ Goes(p, "exited")
           \/ /\ idx <= Len(names)
              /\ proc' = [proc EXCEPT ![p].out = Append(@, [name |-> names[idx], node |-> NoNode]),
                                      ![p].pc = "stat"]
    /\ UNCHANGED Globals

ls_stat(p) ==
    /\ At(p, "ls", "stat")
    /\ LET full == make_abs_path(proc[p].path, [abs |-> FALSE, segs |-> <<Last(proc[p].out).name>>])
       IN  proc' = [proc EXCEPT ![p].out[Len(proc[p].out)].node = vfs_lookup(full), ![p].pc = "readdir"]
    /\ UNCHANGED Globals

-----------------------------------------------------------------------------
(* terminal.c up to its loop.                                              *)

\* Plausible bugs, used to test the properties.
ReserveNothing(p) == /\ At(p, "terminal", "start")
                     /\ Goes(p, "window")
                     /\ UNCHANGED Globals

\* /dev/null keeps an unused one of files 0 to 2 taken.
reserve_stdio_fds(p) ==
    /\ At(p, "terminal", "start")
    /\ LET f == FreeFd(proc[p].fds)
           opened == alloc_fd(proc[p].fds, Node("null", 0), RDWR)
       IN  proc' = [proc EXCEPT ![p].fds = IF f > 2 THEN Close(opened, f) ELSE opened, ![p].pc = "window"]
    /\ UNCHANGED Globals

\* open_window: libgui opens /dev/wm for each message and closes it.
open_window(p) ==
    /\ At(p, "terminal", "window")
    /\ IF FreeFd(proc[p].fds) = -1 THEN Goes(p, "exited") ELSE Goes(p, "pty")
    /\ UNCHANGED Globals

\* device_register: the table has room, see FilesAssumption.
device_register(devices, d) == Append(devices, d)

\* pty_create: the next number, and two hidden devices.
pty_create == /\ g_devices' = device_register(device_register(g_devices, Node("master", g_ptys)),
                                              Node("slave", g_ptys))
              /\ g_ptys' = g_ptys + 1

\* setup_pty: opening /dev/ptmx creates a pty, TIOCGPTN tells its number.
setup_pty(p) ==
    /\ At(p, "terminal", "pty")
    /\ \/ /\ g_ptys < PTY_MAX
          /\ pty_create
          /\ LET f == FreeFd(proc[p].fds)
             IN  proc' = [proc EXCEPT ![p].fds = alloc_fd(@, Node("master", g_ptys), RDWR),
                                      ![p].fd = f,
                                      ![p].path = <<"dev", "pts", ToString(g_ptys)>>,
                                      ![p].pc = IF f = -1 THEN "exited" ELSE "stdio"]
       \/ /\ g_ptys = PTY_MAX
          /\ Goes(p, "exited")
          /\ UNCHANGED <<g_devices, g_ptys>>
    /\ UNCHANGED next_pid

\* spawn_shell: close 0, 1 and 2, open the slave three times.
spawn_shell_files(p) ==
    /\ At(p, "terminal", "stdio")
    /\ LET closed == Close(Close(Close(proc[p].fds, 0), 1), 2)
           node == vfs_lookup(proc[p].path)
           opened == alloc_fd(alloc_fd(alloc_fd(closed, node, RDWR), node, RDWR), node, RDWR)
           ok == node # NoNode /\ \A f \in 0..2 : opened[f].node = node
       IN  proc' = [proc EXCEPT ![p].fds = opened, ![p].pc = IF ok THEN "exec" ELSE "exited"]
    /\ UNCHANGED Globals

spawn_shell_exec(p) ==
    /\ At(p, "terminal", "exec")
    /\ exec(p, [proc[p] EXCEPT !.pc = IF next_pid <= MaxProc THEN "loop" ELSE "exited"], "shell", << >>)
    /\ UNCHANGED <<g_devices, g_ptys>>

\* The window is closed: the process goes, the pty and the shell stay.
terminal_exit(p) == /\ At(p, "terminal", "loop")
                    /\ proc' = [proc EXCEPT ![p] = Gone]
                    /\ UNCHANGED Globals

Next == \E p \in Pid : \/ shell_exec(p) \/ shell_wait(p) \/ syscall_chdir(p) \/ background_click(p)
                       \/ cat_open(p) \/ cat_read(p) \/ cat_newline(p) \/ cat_close(p)
                       \/ ls_start(p) \/ ls_readdir(p) \/ ls_stat(p)
                       \/ reserve_stdio_fds(p) \/ open_window(p) \/ setup_pty(p)
                       \/ spawn_shell_files(p) \/ spawn_shell_exec(p) \/ terminal_exit(p)

Spec == Init /\ [][Next]_vars

-----------------------------------------------------------------------------

\* A running terminal still holds the master of a pty that is nobody else's,
\* and its shell has that pty's slave as files 0, 1 and 2, whatever files the
\* terminal inherited (from a shell on the console, from the background, from a
\* shell inside another terminal): closing 0 to 2 never closes the master.
TerminalConnected ==
    \A p \in Pid : At(p, "terminal", "loop") =>
        LET master == proc[p].fds[proc[p].fd].node
        IN  /\ master.kind = "master"
            /\ \A f \in 0..2 : proc[proc[p].child].fds[f].node = Node("slave", master.id)
            /\ \A o \in Pid \ {p} : At(o, "terminal", "loop") => proc[o].fds[proc[o].fd].node # master

\* The byte of a regular file at a position, read off its block numbers.
FileByte(inode, pos) == LET i == pos \div BLOCK
                            blk == IF i < DIRECT THEN inode.block[i + 1]
                                   ELSE IF inode.block[DIRECT + 1] = 0 THEN 0
                                   ELSE Indirect[inode.block[DIRECT + 1]][i - DIRECT + 1]
                        IN  IF blk = 0 THEN Zero ELSE <<blk, pos % BLOCK>>

Content(inode) == [k \in 1..inode.size |-> FileByte(inode, k - 1)]

\* What cat prints of a file: its bytes and one more newline.
Printed(inode) == Append(Content(inode), Newline)

\* cat prints the file and a newline after it: what it has printed so far is the
\* beginning of that, and when it closes the file it is all of it, with holes as
\* zeros, across block boundaries that its buffer does not respect and into the
\* indirect block.
CatExact ==
    \A p \in Pid : proc[p].prog = "cat" /\ proc[p].fd # -1 =>
        LET node == vfs_lookup(proc[p].path)
        IN  node.kind = "ext2" /\ ~Inode[node.id].dir =>
               /\ IsPrefix(proc[p].out, Printed(Inode[node.id]))
               /\ proc[p].pc \in {"close", "exited"} => proc[p].out = Printed(Inode[node.id])

\* ls lists a directory exactly although it asks for one index at a time while
\* others create ptys: no name twice, every name that was there when it began,
\* and every name it lists can be looked up.
ListingExact ==
    \A p \in Pid : proc[p].prog = "ls" =>
        LET out == proc[p].out
        IN  /\ \A i, j \in DOMAIN out : out[i].name = out[j].name => i = j
            /\ proc[p].pc \in {"readdir", "exited"} => \A i \in DOMAIN out : out[i].node # NoNode
            /\ proc[p].pc = "exited" => proc[p].was \subseteq {out[i].name : i \in DOMAIN out}
=============================================================================
