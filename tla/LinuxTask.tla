----------------------------- MODULE LinuxTask -----------------------------
(***************************************************************************)
(* Open files of Linux processes: the TaskStruct that liblinux keeps in    *)
(* each process (fd_table.rs, task.rs, fs.rs, proc.rs) against the one     *)
(* table of open files that the file server keeps for all of them          *)
(* (usr/fs/server.rs, usr/fs/file.rs).                                     *)
(*                                                                         *)
(* A process is one thread, and what it does to its own TaskStruct nobody  *)
(* sees: a system call is one step up to its first request to the file     *)
(* server and one step between an answer and the next request.  Request    *)
(* and answer are two steps, since sys_ipc_call sends on the one channel   *)
(* all processes share and then waits on it (ipc.rs, native.rs).           *)
(*                                                                         *)
(* A request made while another process waits for its answer is handed to  *)
(* that process as its answer (KernelIpc shows it).  What follows has no   *)
(* bounds: sys_read copies as many bytes as the request, taken for an      *)
(* answer, says.  The model stops there, with crossed set, and everything  *)
(* below is about what happens up to the first such overlap.               *)
(*                                                                         *)
(* Left out: file contents and sizes that change, the bytes in a pipe, the *)
(* console, the pid table.                                                 *)
(***************************************************************************)
EXTENDS Naturals, Sequences, FiniteSets

CONSTANTS
  Procs,     \* processes; each is one kernel thread, and a ThreadId is not reused
  First,     \* bash
  Paths,     \* the files that exist
  Size,      \* their sizes, in IPC payloads
  MaxFds,    \* entries of a process's FdTable (256 in the code)
  MaxFids,   \* entries of the server's FdTable (256)
  MaxPipes,  \* pipes of a process (16)
  CountMod,  \* a usize counts modulo this (2^64)
  ArgFds,    \* the fds programs name
  MaxCalls,  \* bound on the number of system calls
  None       \* no task, no file, no pipe

ASSUME TableAssumption ==
  /\ MaxFds \in Nat /\ MaxFds >= 3 /\ MaxFids \in Nat \ {0} /\ MaxPipes \in Nat
  /\ CountMod \in Nat /\ CountMod > MaxFds
  /\ MaxCalls \in Nat /\ First \in Procs
  /\ Size \in [Paths -> Nat \ {0}]

Fds   == 0 .. MaxFds - 1
Fids  == 0 .. MaxFids - 1
Pipes == 0 .. MaxPipes - 1

ASSUME ArgFdsAssumption == ArgFds \subseteq Fds

-----------------------------------------------------------------------------
(* enum FdKind; n is the fid or the index of the pipe.                     *)
FdKind == [k : {"Free", "Console"}, n : {0}]
            \cup [k : {"File"}, n : Fids]
            \cup [k : {"PipeRead", "PipeWrite"}, n : Pipes]

Kind(k, n) == [k |-> k, n |-> n]
Free    == Kind("Free", 0)
Console == Kind("Console", 0)

Pipe == [readers : 0 .. CountMod - 1, writers : 0 .. CountMod - 1]

TaskStruct == [fds : [Fds -> FdKind], pipes : [Pipes -> Pipe \cup {None}]]

(* TaskStruct::new.                                                        *)
NewTask ==
  [fds   |-> [fd \in Fds |-> IF fd < 3 THEN Console ELSE Free],
   pipes |-> [i \in Pipes |-> None]]

(* usr/fs/file.rs File, pos in payloads.                                   *)
File == [path : Paths, pos : Nat]

ASSUME NoneAssumption ==
  None \notin File /\ None \notin Pipe /\ None \notin TaskStruct /\ None \notin Procs

(* The requests of liblinux: fs_open for sys_openat, sys_newfstatat and    *)
(* sys_execve, fs_fstat for the last two, fs_read (or fs_lseek) of a       *)
(* descriptor, fs_read of execve's loop, the fs_close after that loop, and *)
(* any other fs_close.                                                     *)
Opens    == {"openat", "newfstatat", "execve"}
Requests == Opens \cup {"stat", "size", "seek", "read", "loaded", "close"}

(* What a call does next that holds a fid no descriptor of its process     *)
(* names.                                                                  *)
Holding == {"open", "stat", "size", "read", "loaded", "close"}

(* A system call under way: its next request or, once nothing is left to   *)
(* ask, what it does next; the fid it is about and, in execve, the         *)
(* program, its size as fs_fstat gave it and the payloads read so far.     *)
Call ==
  [op : Opens, fid : {0}, path : Paths, size : {0}, got : {<< >>}]
    \cup [op   : (Requests \ Opens) \cup {"none", "open", "exec"},
          fid  : Fids,
          path : Paths \cup {None},
          size : Nat,
          got  : Seq(Paths \X Nat)]

Stage(op, n, path) == [op |-> op, fid |-> n, path |-> path, size |-> 0, got |-> << >>]
Doing(op, n) == Stage(op, n, None)
NoCall == Doing("none", 0)

VARIABLES
  task,    \* per process its TASK, None before clone and after exit
  call,    \* per process the system call under way
  waiter,  \* the process that waits for an answer, None when the server is idle
  crossed, \* a request was made while another process waited
  files,   \* FsServer.fd_tables[0]
  born,    \* the processes created so far
  calls,   \* system calls begun, for the bound only
  shared,  \* history: the fids dup, dup3, fcntl or clone duplicated, until nobody names them
  uneven,  \* history: per process the pipes that dup or dup3 touched
  lost     \* history: fids that exit, exec or dup3 dropped without a close

vars == <<task, call, waiter, crossed, files, born, calls, shared, uneven, lost>>

FreeFds(fds) == {fd \in Fds : fds[fd] = Free}
Lowest(i, S) == i \in S /\ \A j \in S : i <= j

(* The fids a process's descriptors name.                                  *)
FidsOf(p) == {n \in Fids : \E fd \in Fds : task[p].fds[fd] = Kind("File", n)}

(* The descriptors, and the calls under way, that name fid n.              *)
NamedBy(n) ==
  {x \in Procs \X Fds : task[x[1]] # None /\ task[x[1]].fds[x[2]] = Kind("File", n)}
    \cup {<<p, MaxFds>> : p \in {q \in Procs : call[q].op \in Holding /\ call[q].fid = n}}

Begin(p) ==
  /\ ~crossed /\ task[p] # None /\ call[p] = NoCall
  /\ calls < MaxCalls /\ calls' = calls + 1

-----------------------------------------------------------------------------
Init ==
  /\ task = [p \in Procs |-> IF p = First THEN NewTask ELSE None]
  /\ call = [p \in Procs |-> NoCall]
  /\ waiter = None
  /\ crossed = FALSE
  /\ files = [n \in Fids |-> None]
  /\ born = {First}
  /\ calls = 0
  /\ shared = {}
  /\ uneven = [p \in Procs |-> {}]
  /\ lost = {}

(* sys_ipc_call: send on the channel, then wait on it for the answer.      *)
Request(p) ==
  /\ call[p].op \in Requests
  /\ waiter = None
  /\ waiter' = p
  /\ UNCHANGED <<task, call, crossed, files, born, calls, shared, uneven, lost>>

(* The same while another process waits on the channel: the request goes   *)
(* to that process instead of the server.                                  *)
Overlap(p) ==
  /\ call[p].op \in Requests
  /\ waiter \notin {None, p}
  /\ crossed' = TRUE
  /\ UNCHANGED <<task, call, waiter, files, born, calls, shared, uneven, lost>>

(* Mutant: the process stays in the channel's queue of receivers.          *)
AnswerKeepsWaiter(p, next) ==
  /\ waiter = p
  /\ waiter' = p
  /\ call' = [call EXCEPT ![p] = next]
  /\ UNCHANGED <<task, crossed, born, calls, uneven>>

(* The server's answer to p, which leaves it with the call next.           *)
Answer(p, next) ==
  /\ waiter = p
  /\ waiter' = None
  /\ call' = [call EXCEPT ![p] = next]
  /\ UNCHANGED <<task, crossed, born, calls, uneven>>

(* FsServer::open for pid 0: the lowest free entry.                        *)
FsOpen(n, path) ==
  /\ Lowest(n, {m \in Fids : files[m] = None})
  /\ files' = [files EXCEPT ![n] = [path |-> path, pos |-> 0]]
  /\ lost' = lost \ {n}
  /\ shared' = IF NamedBy(n) = {} THEN shared \ {n} ELSE shared

(* FsServer::close: EBADF, which callers ignore, when the entry is free.   *)
FsClose(n) ==
  /\ files' = [files EXCEPT ![n] = None]
  /\ UNCHANGED <<shared, lost>>

-----------------------------------------------------------------------------
(* sys_openat, sys_newfstatat and sys_execve begin with fs_open.  (bash    *)
(* itself is never replaced: the kernel stops, see Lifecycle.)             *)
OpenAt(p, path) ==
  /\ Begin(p)
  /\ call' = [call EXCEPT ![p] = Stage("openat", 0, path)]
  /\ UNCHANGED <<task, waiter, crossed, files, born, shared, uneven, lost>>

NewFstatAt(p, path) ==
  /\ Begin(p)
  /\ call' = [call EXCEPT ![p] = Stage("newfstatat", 0, path)]
  /\ UNCHANGED <<task, waiter, crossed, files, born, shared, uneven, lost>>

Execve(p, path) ==
  /\ Begin(p) /\ p # First
  /\ call' = [call EXCEPT ![p] = Stage("execve", 0, path)]
  /\ UNCHANGED <<task, waiter, crossed, files, born, shared, uneven, lost>>

(* The answer to fs_open, and what comes next.                             *)
AfterOpen(op) ==
  CASE op = "openat"     -> "open"
    [] op = "newfstatat" -> "stat"
    [] op = "execve"     -> "size"

Opened(p, n) ==
  /\ call[p].op \in Opens
  /\ FsOpen(n, call[p].path)
  /\ Answer(p, Stage(AfterOpen(call[p].op), n, call[p].path))

(* No such file, or no free entry.                                         *)
OpenFails(p) ==
  /\ call[p].op \in Opens
  /\ Answer(p, NoCall)
  /\ UNCHANGED <<files, shared, lost>>

(* sys_newfstatat: fs_close whatever fs_fstat answered.                    *)
Stated(p) ==
  /\ call[p].op = "stat"
  /\ Answer(p, Doing("close", call[p].fid))
  /\ UNCHANGED <<files, shared, lost>>

(* sys_openat goes on: the lowest free fd; without one, fs_close and       *)
(* EMFILE.                                                                 *)
OpenAtAlloc(p, fd) ==
  /\ call[p].op = "open"
  /\ Lowest(fd, FreeFds(task[p].fds))
  /\ task' = [task EXCEPT ![p].fds[fd] = Kind("File", call[p].fid)]
  /\ call' = [call EXCEPT ![p] = NoCall]
  /\ UNCHANGED <<waiter, crossed, files, born, calls, shared, uneven, lost>>

(* Mutant: the file stays open at the server.                              *)
OpenAtFullForgets(p) ==
  /\ call[p].op = "open"
  /\ FreeFds(task[p].fds) = {}
  /\ call' = [call EXCEPT ![p] = NoCall]
  /\ UNCHANGED <<task, waiter, crossed, files, born, calls, shared, uneven, lost>>

OpenAtFull(p) ==
  /\ call[p].op = "open"
  /\ FreeFds(task[p].fds) = {}
  /\ call' = [call EXCEPT ![p] = Doing("close", call[p].fid)]
  /\ UNCHANGED <<task, waiter, crossed, files, born, calls, shared, uneven, lost>>

(* Mutant: the read end is not counted down.                               *)
PipeLeftMiscounts(pipe, kind) ==
  IF pipe = None THEN None
  ELSE LET r == pipe.readers
           w == IF kind.k = "PipeWrite" THEN (pipe.writers + CountMod - 1) % CountMod
                                        ELSE pipe.writers
       IN  IF r = 0 /\ w = 0 THEN None ELSE [readers |-> r, writers |-> w]

(* The pipe arms of sys_close: count down, and free the pipe with its last *)
(* end.  The subtraction wraps in the release build.                       *)
PipeLeft(pipe, kind) ==
  IF pipe = None THEN None
  ELSE LET r == IF kind.k = "PipeRead" THEN (pipe.readers + CountMod - 1) % CountMod
                                       ELSE pipe.readers
           w == IF kind.k = "PipeWrite" THEN (pipe.writers + CountMod - 1) % CountMod
                                        ELSE pipe.writers
       IN  IF r = 0 /\ w = 0 THEN None ELSE [readers |-> r, writers |-> w]

(* sys_close: of the console ...                                           *)
CloseConsole(p, fd) ==
  /\ Begin(p)
  /\ task[p].fds[fd] = Console
  /\ task' = [task EXCEPT ![p].fds[fd] = Free]
  /\ UNCHANGED <<call, waiter, crossed, files, born, shared, uneven, lost>>

(* ... of a pipe end ...                                                   *)
ClosePipe(p, fd) ==
  /\ Begin(p)
  /\ LET kind == task[p].fds[fd]
     IN  /\ kind.k \in {"PipeRead", "PipeWrite"}
         /\ task' = [task EXCEPT ![p] =
                       [fds   |-> [task[p].fds EXCEPT ![fd] = Free],
                        pipes |-> [task[p].pipes EXCEPT ![kind.n] = PipeLeft(@, kind)]]]
  /\ UNCHANGED <<call, waiter, crossed, files, born, shared, uneven, lost>>

(* Mutant: the fd is not freed.                                            *)
CloseFileKeepsFd(p, fd) ==
  /\ Begin(p)
  /\ LET kind == task[p].fds[fd]
     IN  /\ kind.k = "File"
         /\ call' = [call EXCEPT ![p] = Doing("close", kind.n)]
  /\ UNCHANGED <<task, waiter, crossed, files, born, shared, uneven, lost>>

(* ... of a file: the fd first, then fs_close.                             *)
CloseFile(p, fd) ==
  /\ Begin(p)
  /\ LET kind == task[p].fds[fd]
     IN  /\ kind.k = "File"
         /\ call' = [call EXCEPT ![p] = Doing("close", kind.n)]
  /\ task' = [task EXCEPT ![p].fds[fd] = Free]
  /\ UNCHANGED <<waiter, crossed, files, born, shared, uneven, lost>>

(* The answer to the fs_close that ends sys_close, a failed sys_openat,    *)
(* sys_newfstatat and a failed sys_execve.                                 *)
Closed(p) ==
  /\ call[p].op = "close"
  /\ FsClose(call[p].fid)
  /\ Answer(p, NoCall)

(* sys_read, sys_lseek, sys_fstat and sys_getdents64 of a file ...         *)
SetPos(p, fd) ==
  /\ Begin(p)
  /\ LET kind == task[p].fds[fd]
     IN  /\ kind.k = "File"
         /\ call' = [call EXCEPT ![p] = Doing("seek", kind.n)]
  /\ UNCHANGED <<task, waiter, crossed, files, born, shared, uneven, lost>>

(* ... may move the server's position (past the end reads as at the end),  *)
(* or fail when the fid is closed.                                         *)
PosSet(p, pos) ==
  /\ call[p].op = "seek" /\ files[call[p].fid] # None
  /\ pos <= Size[files[call[p].fid].path]
  /\ files' = [files EXCEPT ![call[p].fid].pos = pos]
  /\ Answer(p, NoCall)
  /\ UNCHANGED <<shared, lost>>

SeekFails(p) ==
  /\ call[p].op = "seek" /\ files[call[p].fid] = None
  /\ Answer(p, NoCall)
  /\ UNCHANGED <<files, shared, lost>>

-----------------------------------------------------------------------------
(* What a copy of the descriptor kind does to the histories.               *)
Shares(kind) == IF kind.k = "File" THEN {kind.n} ELSE {}
Unevens(kind) == IF kind.k \in {"PipeRead", "PipeWrite"} THEN {kind.n} ELSE {}

(* sys_dup: counts of pipes are left alone.                                *)
Dup(p, old, fd) ==
  /\ Begin(p)
  /\ LET kind == task[p].fds[old]
     IN  /\ kind # Free
         /\ Lowest(fd, FreeFds(task[p].fds))
         /\ task' = [task EXCEPT ![p].fds[fd] = kind]
         /\ shared' = shared \cup Shares(kind)
         /\ uneven' = [uneven EXCEPT ![p] = @ \cup Unevens(kind)]
  /\ UNCHANGED <<call, waiter, crossed, files, born, lost>>

(* sys_dup3: FdTable::close of new, which tells neither server nor pipe,   *)
(* then the lowest free fd, which need not be new.                         *)
Dup3(p, old, new, fd) ==
  /\ Begin(p) /\ old # new
  /\ LET kind == task[p].fds[old]
         over == task[p].fds[new]
         fds  == [task[p].fds EXCEPT ![new] = Free]
     IN  /\ kind # Free
         /\ Lowest(fd, FreeFds(fds))
         /\ task' = [task EXCEPT ![p].fds = [fds EXCEPT ![fd] = kind]]
         /\ shared' = shared \cup Shares(kind)
         /\ lost' = lost \cup Shares(over)
         /\ uneven' = [uneven EXCEPT ![p] = @ \cup Unevens(kind) \cup Unevens(over)]
  /\ UNCHANGED <<call, waiter, crossed, files, born>>

(* sys_fcntl F_DUPFD: needs a free fd from arg on and takes the lowest     *)
(* free one; what is not a file becomes the console.                       *)
DupFd(p, old, arg, fd) ==
  /\ Begin(p)
  /\ LET kind == task[p].fds[old]
     IN  /\ kind # Free
         /\ \E new \in FreeFds(task[p].fds) : new >= arg
         /\ Lowest(fd, FreeFds(task[p].fds))
         /\ task' = [task EXCEPT ![p].fds[fd] = IF kind.k = "File" THEN kind ELSE Console]
         /\ shared' = shared \cup Shares(kind)
  /\ UNCHANGED <<call, waiter, crossed, files, born, uneven, lost>>

(* sys_pipe2.  With fewer than two free fds everything is undone.          *)
Pipe2(p, i, r, w) ==
  /\ Begin(p)
  /\ Lowest(i, {j \in Pipes : task[p].pipes[j] = None})
  /\ Lowest(r, FreeFds(task[p].fds)) /\ Lowest(w, FreeFds(task[p].fds) \ {r})
  /\ task' = [task EXCEPT ![p] =
                [fds   |-> [task[p].fds EXCEPT ![r] = Kind("PipeRead", i),
                                               ![w] = Kind("PipeWrite", i)],
                 pipes |-> [task[p].pipes EXCEPT ![i] = [readers |-> 1, writers |-> 1]]]]
  /\ UNCHANGED <<call, waiter, crossed, files, born, shared, uneven, lost>>

-----------------------------------------------------------------------------
(* sys_clone: the child's address space, and TASK in it, is a copy.        *)
Clone(p, q) ==
  /\ Begin(p) /\ q \notin born
  /\ task' = [task EXCEPT ![q] = task[p]]
  /\ born' = born \cup {q}
  /\ shared' = shared \cup FidsOf(p)
  /\ uneven' = [uneven EXCEPT ![q] = uneven[p]]
  /\ UNCHANGED <<call, waiter, crossed, files, lost>>

(* sys_exit and sys_exit_group close nothing.                              *)
Exit(p) ==
  /\ ~crossed /\ task[p] # None /\ call[p] = NoCall
  /\ task' = [task EXCEPT ![p] = None]
  /\ lost' = lost \cup FidsOf(p)
  /\ UNCHANGED <<call, waiter, crossed, files, born, calls, shared, uneven>>

(* sys_execve after fs_open: fs_fstat, and pages for as many bytes ...     *)
Sized(p) ==
  /\ call[p].op = "size" /\ files[call[p].fid] # None
  /\ Answer(p, [op |-> "read", fid |-> call[p].fid, path |-> call[p].path,
                size |-> Size[files[call[p].fid].path], got |-> << >>])
  /\ UNCHANGED <<files, shared, lost>>

(* ... or it gives up: the fid is closed, the file empty or too large, or  *)
(* there are not enough pages.                                             *)
SizeFails(p) ==
  /\ call[p].op = "size"
  /\ Answer(p, Doing("close", call[p].fid))
  /\ UNCHANGED <<files, shared, lost>>

(* Mutant: the server does not advance the position.                       *)
ExecReadStays(p) ==
  /\ call[p].op = "read" /\ files[call[p].fid] # None
  /\ LET f    == files[call[p].fid]
         got  == Append(call[p].got, <<f.path, f.pos>>)
     IN  Answer(p, [call[p] EXCEPT !.got = got,
                                   !.op = IF Len(got) = call[p].size THEN "loaded" ELSE @])
  /\ UNCHANGED <<files, shared, lost>>

(* Mutant: an empty answer does not end the loop.                          *)
ExecReadLoops(p) ==
  /\ call[p].op = "read" /\ files[call[p].fid] # None
  /\ LET f    == files[call[p].fid]
         more == f.pos < Size[f.path]
         got  == IF more THEN Append(call[p].got, <<f.path, f.pos>>) ELSE call[p].got
     IN  /\ Answer(p, [call[p] EXCEPT !.got = got])
         /\ files' = [files EXCEPT ![call[p].fid].pos = IF more THEN @ + 1 ELSE @]
  /\ UNCHANGED <<shared, lost>>

(* The answer to one fs_read of its loop: the loop ends with the size      *)
(* fs_fstat gave or an empty answer.                                       *)
ExecRead(p) ==
  /\ call[p].op = "read" /\ files[call[p].fid] # None
  /\ LET f    == files[call[p].fid]
         more == f.pos < Size[f.path]
         got  == IF more THEN Append(call[p].got, <<f.path, f.pos>>) ELSE call[p].got
         done == ~more \/ Len(got) = call[p].size
     IN  /\ Answer(p, [op |-> IF done THEN "loaded" ELSE "read", fid |-> call[p].fid,
                       path |-> call[p].path, size |-> call[p].size, got |-> got])
         /\ files' = [files EXCEPT ![call[p].fid].pos = IF more THEN @ + 1 ELSE @]
  /\ UNCHANGED <<shared, lost>>

(* fs_read fails when the fid is closed.                                   *)
ExecReadFails(p) ==
  /\ call[p].op = "read" /\ files[call[p].fid] = None
  /\ Answer(p, Doing("close", call[p].fid))
  /\ UNCHANGED <<files, shared, lost>>

ExecClosed(p) ==
  /\ call[p].op = "loaded"
  /\ FsClose(call[p].fid)
  /\ Answer(p, Doing("exec", 0))

(* native::exec: the new image starts with a new TaskStruct ...            *)
ExecDone(p) ==
  /\ call[p].op = "exec"
  /\ task' = [task EXCEPT ![p] = NewTask]
  /\ call' = [call EXCEPT ![p] = NoCall]
  /\ lost' = lost \cup FidsOf(p)
  /\ uneven' = [uneven EXCEPT ![p] = {}]
  /\ UNCHANGED <<waiter, crossed, files, born, calls, shared>>

(* ... or, when it is no ELF file or the kernel refuses, the call returns. *)
ExecFails(p) ==
  /\ call[p].op = "exec"
  /\ call' = [call EXCEPT ![p] = NoCall]
  /\ UNCHANGED <<task, waiter, crossed, files, born, calls, shared, uneven, lost>>

-----------------------------------------------------------------------------
(* One turn of run_ipc_loop: the server answers the process that waits.    *)
Serve ==
  /\ ~crossed
  /\ \E p \in Procs :
       \/ \E n \in Fids : Opened(p, n)
       \/ OpenFails(p) \/ Stated(p) \/ Closed(p) \/ SeekFails(p)
       \/ \E path \in Paths : \E pos \in 0 .. Size[path] : PosSet(p, pos)
       \/ Sized(p) \/ SizeFails(p) \/ ExecRead(p) \/ ExecReadFails(p) \/ ExecClosed(p)

(* A process goes on with its system call.                                 *)
Continue(p) ==
  /\ ~crossed
  /\ \/ Request(p) \/ Overlap(p)
     \/ \E fd \in Fds : OpenAtAlloc(p, fd)
     \/ OpenAtFull(p) \/ ExecDone(p) \/ ExecFails(p)

Next ==
  \/ Serve
  \/ \E p \in Procs :
       \/ \E path \in Paths : OpenAt(p, path) \/ NewFstatAt(p, path) \/ Execve(p, path)
       \/ \E fd \in ArgFds :
            CloseConsole(p, fd) \/ ClosePipe(p, fd) \/ CloseFile(p, fd) \/ SetPos(p, fd)
       \/ \E old, arg \in ArgFds, fd \in Fds :
            Dup(p, old, fd) \/ Dup3(p, old, arg, fd) \/ DupFd(p, old, arg, fd)
       \/ \E i \in Pipes, r, w \in Fds : Pipe2(p, i, r, w)
       \/ \E q \in Procs : Clone(p, q)
       \/ Exit(p)
       \/ Continue(p)

Spec == Init /\ [][Next]_vars

(* A process in a system call goes on, and the server answers: both are    *)
(* threads, and the scheduler runs every Ready one (ReadyRuns of           *)
(* KernelIpc).                                                             *)
FairSpec == Spec /\ WF_vars(Serve) /\ \A p \in Procs : WF_vars(Continue(p))

-----------------------------------------------------------------------------
(* Types of TaskStruct, FdTable and the server's table.                    *)
TypeOK ==
  /\ task \in [Procs -> TaskStruct \cup {None}]
  /\ call \in [Procs -> Call]
  /\ waiter # None => waiter \in Procs /\ call[waiter].op \in Requests
  /\ crossed \in BOOLEAN
  /\ files \in [Fids -> File \cup {None}]
  /\ born \subseteq Procs
  /\ calls \in Nat
  /\ shared \subseteq Fids /\ lost \subseteq Fids
  /\ uneven \in [Procs -> SUBSET Pipes]
  /\ \A p \in Procs : task[p] = None => call[p] = NoCall

(* The server's one table against the processes' many: until two requests  *)
(* overlap, a fid that is not duplicated is open, and named once, as long  *)
(* as anybody names it, so no close or seek of another descriptor, in any  *)
(* process, reaches the file behind it.                                    *)
OneName ==
  \A n \in Fids \ shared :
    /\ NamedBy(n) # {} => files[n] # None
    /\ \A x, y \in NamedBy(n) : x = y

(* sys_execve's loop between other processes' requests: until two of them  *)
(* overlap, what it has read from a fid that is not duplicated is the file *)
(* it opened, in order, and all of it when the loop ends.                  *)
ExecLoadsProgram ==
  \A p \in Procs :
    call[p].op \in {"read", "loaded"} /\ call[p].fid \notin shared
      => /\ call[p].got = [i \in 1 .. Len(call[p].got) |-> <<call[p].path, i - 1>>]
         /\ call[p].op = "loaded" => Len(call[p].got) = Size[call[p].path]

(* Until two requests overlap, no file stays open at the server without a  *)
(* descriptor or a call that names it, except those exit, exec and dup3    *)
(* drop.                                                                   *)
OpenIsNamed ==
  \A n \in Fids : files[n] # None => NamedBy(n) # {} \/ n \in lost

Ends(p, kind) == {fd \in Fds : task[p].fds[fd] = kind}

(* readers and writers of a pipe count the fds that refer to it, and the   *)
(* pipe goes with the last of them, as long as dup and dup3 left it alone; *)
(* clone copies fds and counts together.                                   *)
PipeCounts ==
  \A p \in Procs : task[p] # None => \A i \in Pipes \ uneven[p] :
    LET r == Cardinality(Ends(p, Kind("PipeRead", i)))
        w == Cardinality(Ends(p, Kind("PipeWrite", i)))
    IN  task[p].pipes[i] = IF r = 0 /\ w = 0 THEN None
                           ELSE [readers |-> r, writers |-> w]

(* Every system call comes back, execve's loop included, unless a request  *)
(* of another process overlaps one of its own.                             *)
CallEnds == \A p \in Procs : call[p] # NoCall ~> call[p] = NoCall \/ crossed

-----------------------------------------------------------------------------
(* The strengthening the proofs use: a process not yet created has no      *)
(* task, a read or seek under way is of a descriptor, and execve's loop is *)
(* where the server's position says.                                       *)
BornInv == \A p \in Procs \ born : task[p] = None

ReadInv ==
  \A p \in Procs :
    call[p].op \in {"size", "read"} /\ call[p].fid \notin shared =>
      LET f == files[call[p].fid]
      IN  /\ f # None /\ f.path = call[p].path
          /\ f.pos = Len(call[p].got) /\ f.pos < Size[f.path]
          /\ call[p].op = "size" => call[p].got = << >>
          /\ call[p].op = "read" => call[p].size = Size[f.path]

SeekInv == \A p \in Procs : call[p].op = "seek" => call[p].fid \in FidsOf(p)

TaskInv ==
  /\ BornInv /\ SeekInv
  /\ OneName /\ OpenIsNamed /\ ReadInv /\ ExecLoadsProgram /\ PipeCounts

=============================================================================
