-------------------------- MODULE LinuxTask_proofs --------------------------
(***************************************************************************)
(* Descriptors against the file server's one table, pipes against their    *)
(* counters, and execve's loop, for any number of processes, files, table  *)
(* sizes and calls, up to the first request that overlaps another.         *)
(***************************************************************************)
EXTENDS LinuxTask, FiniteSetTheorems, TLAPS

FdMap   == [Fds -> FdKind]
PipeMap == [Pipes -> Pipe \cup {None}]

-----------------------------------------------------------------------------
(* Types.                                                                  *)
LEMMA Kinds ==
  /\ Free \in FdKind /\ Console \in FdKind /\ 0 \in Fids
  /\ \A n \in Fids : Kind("File", n) \in FdKind
  /\ \A i \in Pipes : Kind("PipeRead", i) \in FdKind /\ Kind("PipeWrite", i) \in FdKind
BY TableAssumption DEF Free, Console, Kind, FdKind, Fids

LEMMA KindFacts ==
  ASSUME NEW k \in FdKind
  PROVE  /\ k = Kind(k.k, k.n)
         /\ k.k = "File" => k.n \in Fids
         /\ k.k \in {"PipeRead", "PipeWrite"} => k.n \in Pipes
         /\ Shares(k) \subseteq Fids /\ Unevens(k) \subseteq Pipes
BY DEF FdKind, Kind, Shares, Unevens

LEMMA KindNames ==
  ASSUME NEW k, NEW l, NEW m, NEW n
  PROVE  /\ Kind(k, m) = Kind(l, n) <=> k = l /\ m = n
         /\ Kind(k, m).k = k /\ Kind(k, m).n = m
BY DEF Kind

LEMMA CallTyped ==
  /\ NoCall \in Call /\ NoCall.op = "none"
  /\ \A op \in Holding \cup {"none", "exec", "seek"}, n \in Fids : Doing(op, n) \in Call
  /\ \A op \in Holding, n \in Fids, path \in Paths : Stage(op, n, path) \in Call
  /\ \A op \in Opens, path \in Paths : Stage(op, 0, path) \in Call
  /\ "none" \notin Requests /\ "open" \notin Requests /\ "exec" \notin Requests
<1>1. \A S : << >> \in Seq(S)
  OBVIOUS
<1>2. 0 \in Fids
  BY Kinds
<1> QED BY <1>1, <1>2 DEF NoCall, Doing, Stage, Call, Requests, Opens, Holding

LEMMA AfterOpenFacts ==
  /\ AfterOpen("openat") = "open" /\ AfterOpen("newfstatat") = "stat"
  /\ AfterOpen("execve") = "size"
  /\ \A op \in Opens : AfterOpen(op) \in {"open", "stat", "size"}
<1>1. /\ AfterOpen("openat") = "open" /\ AfterOpen("newfstatat") = "stat"
      /\ AfterOpen("execve") = "size"
  BY DEF AfterOpen
<1> QED BY <1>1 DEF Opens

LEMMA CallParts ==
  ASSUME NEW c \in Call
  PROVE  /\ c.fid \in Fids /\ c.got \in Seq(Paths \X Nat)
         /\ c.path \in Paths \cup {None} /\ c.size \in Nat
         /\ c.op \in Opens => c.path \in Paths
<1>1. CASE c \in [op : Opens, fid : {0}, path : Paths, size : {0}, got : {<< >>}]
  <2>1. 0 \in Fids /\ << >> \in Seq(Paths \X Nat)
    BY Kinds
  <2>2. c.fid = 0 /\ c.path \in Paths /\ c.size = 0 /\ c.got = << >>
    BY <1>1
  <2> QED BY <2>1, <2>2
<1>2. CASE c \in [op   : (Requests \ Opens) \cup {"none", "open", "exec"},
                  fid  : Fids, path : Paths \cup {None}, size : Nat,
                  got  : Seq(Paths \X Nat)]
  <2>1. /\ c.op \in (Requests \ Opens) \cup {"none", "open", "exec"}
        /\ c.fid \in Fids /\ c.path \in Paths \cup {None} /\ c.size \in Nat
        /\ c.got \in Seq(Paths \X Nat)
    BY <1>2
  <2>2. c.op \notin Opens
    BY <2>1 DEF Opens
  <2> QED BY <2>1, <2>2
<1> QED BY <1>1, <1>2 DEF Call

LEMMA TypeParts ==
  ASSUME TypeOK
  PROVE  /\ task \in [Procs -> TaskStruct \cup {None}] /\ call \in [Procs -> Call]
         /\ files \in [Fids -> File \cup {None}]
         /\ \A p \in Procs : task[p] # None =>
              /\ task[p] \in TaskStruct /\ task[p].fds \in FdMap /\ task[p].pipes \in PipeMap
         /\ \A p \in Procs : call[p].fid \in Fids /\ call[p].got \in Seq(Paths \X Nat)
         /\ \A p \in Procs : call[p].op \in Opens => call[p].path \in Paths
<1>1. /\ task \in [Procs -> TaskStruct \cup {None}] /\ call \in [Procs -> Call]
      /\ files \in [Fids -> File \cup {None}]
      /\ \A p \in Procs : task[p] # None =>
           /\ task[p] \in TaskStruct /\ task[p].fds \in FdMap /\ task[p].pipes \in PipeMap
  BY DEF TypeOK, TaskStruct, FdMap, PipeMap
<1>2. \A c \in Call : /\ c.fid \in Fids /\ c.got \in Seq(Paths \X Nat)
                      /\ c.op \in Opens => c.path \in Paths
  BY CallParts
<1> QED BY <1>1, <1>2

(* A step that writes the TaskStruct of p.                                 *)
Retasked(p, F, P) == task' = [task EXCEPT ![p] = [fds |-> F, pipes |-> P]]

LEMMA RetaskFacts ==
  ASSUME TypeOK, NEW p \in Procs, NEW F \in FdMap, NEW P \in PipeMap, Retasked(p, F, P)
  PROVE  /\ task' \in [Procs -> TaskStruct \cup {None}]
         /\ task'[p] # None /\ task'[p].fds = F /\ task'[p].pipes = P
         /\ \A q \in Procs : q # p => task'[q] = task[q]
<1>1. [fds |-> F, pipes |-> P] \in TaskStruct
  BY DEF TaskStruct, FdMap, PipeMap
<1> QED BY <1>1, TypeParts, NoneAssumption DEF Retasked

(* One descriptor of p.                                                    *)
LEMMA OneFd ==
  ASSUME TypeOK, NEW p \in Procs, task[p] # None, NEW fd \in Fds, NEW k \in FdKind,
         task' = [task EXCEPT ![p].fds[fd] = k]
  PROVE  /\ [task[p].fds EXCEPT ![fd] = k] \in FdMap /\ task[p].pipes \in PipeMap
         /\ Retasked(p, [task[p].fds EXCEPT ![fd] = k], task[p].pipes)
<1>1. task[p] \in TaskStruct /\ task[p].fds \in FdMap /\ task[p].pipes \in PipeMap
  BY TypeParts
<1>2. [task[p].fds EXCEPT ![fd] = k] \in FdMap
  BY <1>1 DEF FdMap
<1>3. task[p] = [fds |-> task[p].fds, pipes |-> task[p].pipes]
  BY <1>1 DEF TaskStruct
<1>4. [task[p] EXCEPT !.fds[fd] = k]
        = [fds |-> [task[p].fds EXCEPT ![fd] = k], pipes |-> task[p].pipes]
  BY <1>3
<1>5. task' = [task EXCEPT ![p] = [task[p] EXCEPT !.fds[fd] = k]]
  OBVIOUS
<1> QED BY <1>1, <1>2, <1>4, <1>5 DEF Retasked

LEMMA PipeLeftTyped ==
  ASSUME NEW pipe \in Pipe \cup {None}, NEW k
  PROVE  PipeLeft(pipe, k) \in Pipe \cup {None}
BY TableAssumption DEF PipeLeft, Pipe

LEMMA ClosePipeTask ==
  ASSUME TypeOK, NEW p \in Procs, NEW fd \in Fds, ClosePipe(p, fd)
  PROVE  LET k == task[p].fds[fd]
             F == [task[p].fds EXCEPT ![fd] = Free]
             P == [task[p].pipes EXCEPT ![k.n] = PipeLeft(@, k)]
         IN  /\ task[p] # None /\ k \in FdKind /\ k.k \in {"PipeRead", "PipeWrite"} /\ k.n \in Pipes
             /\ F \in FdMap /\ P \in PipeMap /\ Retasked(p, F, P)
<1> DEFINE k == task[p].fds[fd]
           P == [task[p].pipes EXCEPT ![k.n] = PipeLeft(@, k)]
<1>1. task[p] # None /\ k.k \in {"PipeRead", "PipeWrite"}
  BY DEF ClosePipe, Begin
<1>2. task[p] \in TaskStruct /\ task[p].fds \in FdMap /\ task[p].pipes \in PipeMap /\ k \in FdKind
  BY <1>1, TypeParts DEF FdMap
<1>3. k.n \in Pipes
  BY <1>1, <1>2, KindFacts
<1>4. P \in PipeMap
  BY <1>2, <1>3, PipeLeftTyped DEF PipeMap
<1>5. [task[p].fds EXCEPT ![fd] = Free] \in FdMap
  BY <1>2, Kinds DEF FdMap
<1>6. Retasked(p, [task[p].fds EXCEPT ![fd] = Free], P)
  BY DEF ClosePipe, Retasked
<1> QED BY <1>1, <1>2, <1>3, <1>4, <1>5, <1>6

LEMMA Dup3Task ==
  ASSUME TypeOK, NEW p \in Procs, NEW old \in Fds, NEW new \in Fds, NEW fd \in Fds,
         Dup3(p, old, new, fd)
  PROVE  LET k == task[p].fds[old]
             F == [[task[p].fds EXCEPT ![new] = Free] EXCEPT ![fd] = k]
         IN  /\ task[p] # None /\ k \in FdKind /\ task[p].fds[new] \in FdKind
             /\ F \in FdMap /\ task[p].pipes \in PipeMap /\ Retasked(p, F, task[p].pipes)
<1>1. task[p] # None
  BY DEF Dup3, Begin
<1>2. task[p] \in TaskStruct /\ task[p].fds \in FdMap /\ task[p].pipes \in PipeMap
  BY <1>1, TypeParts
<1>3. [[task[p].fds EXCEPT ![new] = Free] EXCEPT ![fd] = task[p].fds[old]] \in FdMap
  BY <1>2, Kinds DEF FdMap
<1>4. Retasked(p, [[task[p].fds EXCEPT ![new] = Free] EXCEPT ![fd] = task[p].fds[old]],
               task[p].pipes)
  <2> DEFINE F == [[task[p].fds EXCEPT ![new] = Free] EXCEPT ![fd] = task[p].fds[old]]
  <2>1. task[p] = [fds |-> task[p].fds, pipes |-> task[p].pipes]
    BY <1>2 DEF TaskStruct
  <2>2. task' = [task EXCEPT ![p].fds = F]
    BY DEF Dup3
  <2> HIDE DEF F
  <2>3. [task[p] EXCEPT !.fds = F] = [fds |-> F, pipes |-> task[p].pipes]
    BY <2>1
  <2>4. task' = [task EXCEPT ![p] = [task[p] EXCEPT !.fds = F]]
    BY <2>2
  <2>5. Retasked(p, F, task[p].pipes)
    BY <2>3, <2>4 DEF Retasked
  <2> QED BY <2>5 DEF F
<1> QED BY <1>1, <1>2, <1>3, <1>4 DEF FdMap

LEMMA Pipe2Task ==
  ASSUME TypeOK, NEW p \in Procs, NEW i \in Pipes, NEW r \in Fds, NEW w \in Fds, Pipe2(p, i, r, w)
  PROVE  LET F == [[task[p].fds EXCEPT ![r] = Kind("PipeRead", i)]
                                EXCEPT ![w] = Kind("PipeWrite", i)]
             P == [task[p].pipes EXCEPT ![i] = [readers |-> 1, writers |-> 1]]
         IN  /\ task[p] # None /\ r # w /\ task[p].fds[r] = Free /\ task[p].fds[w] = Free
             /\ task[p].pipes[i] = None
             /\ F \in FdMap /\ P \in PipeMap /\ Retasked(p, F, P)
<1> DEFINE F == [[task[p].fds EXCEPT ![r] = Kind("PipeRead", i)] EXCEPT ![w] = Kind("PipeWrite", i)]
           P == [task[p].pipes EXCEPT ![i] = [readers |-> 1, writers |-> 1]]
<1>1. /\ task[p] # None /\ r # w /\ task[p].fds[r] = Free /\ task[p].fds[w] = Free
      /\ task[p].pipes[i] = None
  BY DEF Pipe2, Begin, Lowest, FreeFds
<1>2. task[p] \in TaskStruct /\ task[p].fds \in FdMap /\ task[p].pipes \in PipeMap
  BY <1>1, TypeParts
<1>3. F \in FdMap
  BY <1>2, Kinds DEF FdMap
<1>4. [readers |-> 1, writers |-> 1] \in Pipe
  BY TableAssumption DEF Pipe
<1>5. P \in PipeMap
  BY <1>2, <1>4 DEF PipeMap
<1>6. Retasked(p, F, P)
  BY DEF Pipe2, Retasked
<1> QED BY <1>1, <1>3, <1>5, <1>6

LEMMA CloneTask ==
  ASSUME TypeOK, NEW p \in Procs, NEW q \in Procs, Clone(p, q)
  PROVE  /\ task[p] # None /\ task[p].fds \in FdMap /\ task[p].pipes \in PipeMap
         /\ Retasked(q, task[p].fds, task[p].pipes)
<1>1. task[p] # None
  BY DEF Clone, Begin
<1>2. task[p] \in TaskStruct /\ task[p].fds \in FdMap /\ task[p].pipes \in PipeMap
  BY <1>1, TypeParts
<1>3. task[p] = [fds |-> task[p].fds, pipes |-> task[p].pipes]
  BY <1>2 DEF TaskStruct
<1> QED BY <1>1, <1>2, <1>3 DEF Clone, Retasked

LEMMA NewTaskTyped ==
  /\ NewTask.fds \in FdMap /\ NewTask.pipes \in PipeMap
  /\ NewTask = [fds |-> NewTask.fds, pipes |-> NewTask.pipes]
  /\ \A fd \in Fds : NewTask.fds[fd] \in {Free, Console}
  /\ \A i \in Pipes : NewTask.pipes[i] = None
BY Kinds DEF NewTask, FdMap, PipeMap

(* The pieces of TypeOK a step can touch: the system call of p, the        *)
(* server's table, the histories.                                          *)
LEMMA CallStep ==
  ASSUME TypeOK, NEW p \in Procs, task[p] # None, NEW c \in Call,
         call' = [call EXCEPT ![p] = c], task' = task, crossed' = crossed,
         waiter' = None \/ (waiter' = waiter /\ call[p].op \notin Requests),
         files' \in [Fids -> File \cup {None}], lost' \subseteq Fids, shared' \subseteq Fids,
         calls' \in Nat, UNCHANGED <<born, uneven>>
  PROVE  TypeOK'
<1>1. /\ call' \in [Procs -> Call]
      /\ \A q \in Procs : q # p => call'[q] = call[q]
  BY DEF TypeOK
<1>2. waiter' # None => waiter' \in Procs /\ call'[waiter'].op \in Requests
  BY <1>1 DEF TypeOK
<1> QED BY <1>1, <1>2 DEF TypeOK

LEMMA TaskStep ==
  ASSUME TypeOK, NEW q \in Procs, NEW F \in FdMap, NEW P \in PipeMap, Retasked(q, F, P),
         \/ call' = call
         \/ call[q].op \notin Requests /\ \E c \in Call : call' = [call EXCEPT ![q] = c],
         UNCHANGED <<waiter, crossed>>,
         files' = files, born' \subseteq Procs, calls' \in Nat, shared' \subseteq Fids,
         lost' \subseteq Fids, uneven' \in [Procs -> SUBSET Pipes]
  PROVE  TypeOK'
<1>1. /\ task' \in [Procs -> TaskStruct \cup {None}] /\ task'[q] # None
      /\ \A r \in Procs : r # q => task'[r] = task[r]
  BY RetaskFacts
<1>2. call' \in [Procs -> Call] /\ \A r \in Procs : r # q => call'[r] = call[r]
  BY DEF TypeOK
<1>3. waiter' # None => waiter' \in Procs /\ call'[waiter'].op \in Requests
  BY <1>2 DEF TypeOK
<1> QED BY <1>1, <1>2, <1>3 DEF TypeOK

LEMMA Answered ==
  ASSUME TypeOK, NEW p \in Procs, call[p].op # "none", NEW c \in Call, Answer(p, c),
         files' \in [Fids -> File \cup {None}], lost' \subseteq Fids, shared' \subseteq Fids
  PROVE  TypeOK'
<1>1. task[p] # None
  BY CallTyped DEF TypeOK
<1>2. calls' \in Nat
  BY DEF Answer, TypeOK
<1> QED BY <1>1, <1>2, CallStep DEF Answer

LEMMA FsOpenTyped ==
  ASSUME TypeOK, NEW n \in Fids, NEW path \in Paths, FsOpen(n, path)
  PROVE  /\ files' \in [Fids -> File \cup {None}] /\ lost' \subseteq Fids /\ shared' \subseteq Fids
         /\ files[n] = None /\ files'[n] = [path |-> path, pos |-> 0] /\ files'[n] # None
         /\ \A m \in Fids : m # n => files'[m] = files[m]
<1>1. [path |-> path, pos |-> 0] \in File
  BY DEF File
<1>2. files' = [files EXCEPT ![n] = [path |-> path, pos |-> 0]] /\ files[n] = None
  BY DEF FsOpen, Lowest
<1>3. lost' \subseteq Fids /\ shared' \subseteq Fids
  BY DEF FsOpen, TypeOK
<1> QED BY <1>1, <1>2, <1>3, NoneAssumption DEF TypeOK

LEMMA InCall ==
  ASSUME TypeOK, NEW p \in Procs, call[p].op # "none"
  PROVE  task[p] # None /\ call[p] \in Call /\ call[p].fid \in Fids
BY TypeParts, CallTyped DEF TypeOK

LEMMA InitTyped == Init => TypeOK
<1> SUFFICES ASSUME Init PROVE TypeOK
  OBVIOUS
<1>1. NewTask \in TaskStruct
  BY NewTaskTyped DEF TaskStruct, FdMap, PipeMap
<1>2. task \in [Procs -> TaskStruct \cup {None}] /\ call \in [Procs -> Call]
  BY <1>1, CallTyped DEF Init
<1> QED BY <1>2, TableAssumption DEF Init, TypeOK

LEMMA FidsOfTyped == \A p \in Procs : FidsOf(p) \subseteq Fids
BY DEF FidsOf

(* What one turn of execve's loop leaves behind.                           *)
LEMMA ExecReadStep ==
  ASSUME TypeOK, NEW p \in Procs, ExecRead(p)
  PROVE  LET c    == call[p]
             f    == files[c.fid]
             more == f.pos < Size[f.path]
             got  == IF more THEN Append(c.got, <<f.path, f.pos>>) ELSE c.got
             done == ~more \/ Len(got) = c.size
             c2   == [op |-> IF done THEN "loaded" ELSE "read", fid |-> c.fid,
                      path |-> c.path, size |-> c.size, got |-> got]
             f2   == [path |-> f.path, pos |-> IF more THEN f.pos + 1 ELSE f.pos]
         IN  /\ c.op = "read" /\ c.fid \in Fids /\ f \in File /\ c \in Call
             /\ c2 \in Call /\ Answer(p, c2)
             /\ f2 \in File /\ files' = [files EXCEPT ![c.fid] = f2]
<1> DEFINE c    == call[p]
           f    == files[c.fid]
           more == f.pos < Size[f.path]
           got  == IF more THEN Append(c.got, <<f.path, f.pos>>) ELSE c.got
           done == ~more \/ Len(got) = c.size
           c2   == [op |-> IF done THEN "loaded" ELSE "read", fid |-> c.fid,
                    path |-> c.path, size |-> c.size, got |-> got]
           f2   == [path |-> f.path, pos |-> IF more THEN f.pos + 1 ELSE f.pos]
<1>1. c.op = "read" /\ c.fid \in Fids /\ f \in File /\ c \in Call
  BY TypeParts DEF ExecRead, TypeOK
<1>2. f = [path |-> f.path, pos |-> f.pos] /\ f.path \in Paths /\ f.pos \in Nat
  BY <1>1 DEF File
<1>3. c.got \in Seq(Paths \X Nat) /\ c.path \in Paths \cup {None} /\ c.size \in Nat
  BY <1>1, CallParts
<1>4. got \in Seq(Paths \X Nat)
  BY <1>2, <1>3
<1>5. Answer(p, c2) /\ files' = [files EXCEPT ![c.fid].pos = IF more THEN @ + 1 ELSE @]
  BY DEF ExecRead
<1> HIDE DEF got, more, done
<1>6. c2 \in Call
  BY <1>1, <1>3, <1>4 DEF Call, Requests, Opens
<1>7. f2 \in File
  BY <1>2 DEF File
<1>8. files' = [files EXCEPT ![c.fid] = f2]
  <2>1. files' = [files EXCEPT ![c.fid] = [f EXCEPT !.pos = IF more THEN f.pos + 1 ELSE f.pos]]
    BY <1>5
  <2>2. [f EXCEPT !.pos = IF more THEN f.pos + 1 ELSE f.pos] = f2
    BY <1>2
  <2> QED BY <2>1, <2>2
<1> QED BY <1>1, <1>5, <1>6, <1>7, <1>8 DEF got, more, done

(* The call that fs_fstat leaves execve with.                              *)
LEMMA SizedStep ==
  ASSUME TypeOK, NEW p \in Procs, Sized(p)
  PROVE  LET c2 == [op |-> "read", fid |-> call[p].fid, path |-> call[p].path,
                    size |-> Size[files[call[p].fid].path], got |-> << >>]
         IN  c2 \in Call /\ Answer(p, c2) /\ call[p].op = "size"
<1>1. call[p] \in Call /\ call[p].op = "size" /\ call[p].fid \in Fids /\ files[call[p].fid] # None
  BY TypeParts DEF Sized
<1>2. files[call[p].fid] \in File
  BY <1>1 DEF TypeOK
<1>3. Size[files[call[p].fid].path] \in Nat
  BY <1>2, TableAssumption DEF File
<1>4. call[p].path \in Paths \cup {None} /\ << >> \in Seq(Paths \X Nat)
  BY <1>1 DEF Call
<1> QED BY <1>1, <1>3, <1>4 DEF Sized, Call, Requests, Opens

(* The entry of the server's table that one request writes.                *)
LEMMA PosTyped ==
  ASSUME TypeOK, NEW n \in Fids, files[n] # None, NEW pos \in Nat,
         files' = [files EXCEPT ![n].pos = pos]
  PROVE  /\ files' \in [Fids -> File \cup {None}] /\ files'[n] # None
         /\ \A m \in Fids : m # n => files'[m] = files[m]
<1>1. files[n] \in File
  BY DEF TypeOK
<1>2. [files[n] EXCEPT !.pos = pos] \in File
  BY <1>1 DEF File
<1>3. files' = [files EXCEPT ![n] = [files[n] EXCEPT !.pos = pos]]
  OBVIOUS
<1> QED BY <1>2, <1>3, NoneAssumption DEF TypeOK

LEMMA ServeTyped ==
  ASSUME TypeOK, Serve
  PROVE  TypeOK'
<1>0. /\ files \in [Fids -> File \cup {None}] /\ lost \subseteq Fids /\ shared \subseteq Fids
      /\ \A p \in Procs : call[p].fid \in Fids
  BY TypeParts DEF TypeOK
<1>1. ASSUME NEW p \in Procs, NEW n \in Fids, Opened(p, n) PROVE TypeOK'
  <2> DEFINE c == Stage(AfterOpen(call[p].op), n, call[p].path)
  <2>1. call[p].op \in Opens /\ FsOpen(n, call[p].path) /\ Answer(p, c)
    BY <1>1 DEF Opened
  <2>2. call[p].path \in Paths /\ AfterOpen(call[p].op) \in Holding
    BY <2>1, TypeParts, AfterOpenFacts DEF Holding
  <2>3. c \in Call
    BY <2>2, CallTyped
  <2>4. call[p].op # "none"
    BY <2>1 DEF Opens
  <2> HIDE DEF c
  <2> QED BY <2>1, <2>2, <2>3, <2>4, FsOpenTyped, Answered
<1>2. ASSUME NEW p \in Procs,
             OpenFails(p) \/ Stated(p) \/ SeekFails(p) \/ SizeFails(p) \/ ExecReadFails(p)
      PROVE  TypeOK'
  <2>1. /\ call[p].op # "none" /\ UNCHANGED <<files, shared, lost>>
        /\ \E c \in {NoCall, Doing("close", call[p].fid)} : Answer(p, c)
    BY <1>2 DEF OpenFails, Stated, SeekFails, SizeFails, ExecReadFails, Opens
  <2>2. NoCall \in Call /\ Doing("close", call[p].fid) \in Call
    BY <1>0, CallTyped DEF Holding
  <2> QED BY <1>0, <2>1, <2>2, Answered
<1>3. ASSUME NEW p \in Procs, Closed(p) \/ ExecClosed(p) PROVE TypeOK'
  <2>1. /\ call[p].op # "none" /\ UNCHANGED <<shared, lost>>
        /\ files' = [files EXCEPT ![call[p].fid] = None]
        /\ \E c \in {NoCall, Doing("exec", 0)} : Answer(p, c)
    BY <1>3 DEF Closed, ExecClosed, FsClose
  <2>2. NoCall \in Call /\ Doing("exec", 0) \in Call
    BY CallTyped, Kinds
  <2>3. files' \in [Fids -> File \cup {None}]
    BY <1>0, <2>1
  <2> QED BY <1>0, <2>1, <2>2, <2>3, Answered
<1>4. ASSUME NEW p \in Procs, NEW pos \in Nat, PosSet(p, pos) PROVE TypeOK'
  <2>1. /\ call[p].op # "none" /\ UNCHANGED <<shared, lost>> /\ Answer(p, NoCall)
        /\ files[call[p].fid] # None /\ files' = [files EXCEPT ![call[p].fid].pos = pos]
    BY <1>4 DEF PosSet
  <2>2. files' \in [Fids -> File \cup {None}]
    BY <1>0, <2>1, PosTyped
  <2> QED BY <1>0, <2>1, <2>2, CallTyped, Answered
<1>5. ASSUME NEW p \in Procs, Sized(p) PROVE TypeOK'
  <2>1. UNCHANGED <<files, shared, lost>>
    BY <1>5 DEF Sized
  <2>2. PICK c \in Call : Answer(p, c) /\ call[p].op = "size"
    BY <1>5, SizedStep
  <2> QED BY <1>0, <2>1, <2>2, Answered
<1>6. ASSUME NEW p \in Procs, ExecRead(p) PROVE TypeOK'
  <2>1. PICK c \in Call : Answer(p, c) /\ call[p].op = "read"
    BY <1>6, ExecReadStep
  <2>2. PICK f \in File : files' = [files EXCEPT ![call[p].fid] = f]
    BY <1>6, ExecReadStep
  <2>3. files' \in [Fids -> File \cup {None}]
    BY <1>0, <2>2
  <2>4. UNCHANGED <<shared, lost>>
    BY <1>6 DEF ExecRead
  <2> QED BY <1>0, <2>1, <2>3, <2>4, Answered
<1>7. \A path \in Paths : 0 .. Size[path] \subseteq Nat
  BY TableAssumption
<1> QED BY <1>1, <1>2, <1>3, <1>4, <1>5, <1>6, <1>7 DEF Serve

LEMMA NextTyped ==
  ASSUME TypeOK, [Next]_vars
  PROVE  TypeOK'
<1>0. ASSUME NEW p \in Procs, Begin(p)
      PROVE  /\ task[p] # None /\ calls' \in Nat /\ task[p].fds \in FdMap
             /\ \A fd \in Fds : task[p].fds[fd] \in FdKind
             /\ call[p].op \notin Requests
  BY <1>0, TypeParts, CallTyped DEF Begin, TypeOK, FdMap
<1>1. ASSUME NEW p \in Procs, NEW path \in Paths,
             OpenAt(p, path) \/ NewFstatAt(p, path) \/ Execve(p, path)
      PROVE  TypeOK'
  <2>1. Begin(p) /\ UNCHANGED <<task, waiter, crossed, files, born, shared, uneven, lost>>
    BY <1>1 DEF OpenAt, NewFstatAt, Execve
  <2>2. \E c \in Call : call' = [call EXCEPT ![p] = c]
    BY <1>1, CallTyped DEF OpenAt, NewFstatAt, Execve, Opens
  <2>3. task[p] # None /\ call[p].op \notin Requests /\ calls' \in Nat
    BY <1>0, <2>1
  <2> QED BY <2>1, <2>2, <2>3, CallStep DEF TypeOK
<1>2. ASSUME NEW p \in Procs, NEW fd \in Fds,
             CloseConsole(p, fd) \/ CloseFile(p, fd) \/ OpenAtAlloc(p, fd)
      PROVE  TypeOK'
  <2>1. task[p] # None /\ calls' \in Nat /\ call[p].op \notin Requests
    BY <1>0, <1>2, InCall, CallTyped DEF CloseConsole, CloseFile, OpenAtAlloc, TypeOK
  <2>2. task[p].fds[fd] \in FdKind
    BY <2>1, TypeParts DEF FdMap
  <2>3. PICK k \in FdKind : task' = [task EXCEPT ![p].fds[fd] = k]
    BY <1>2, Kinds, TypeParts DEF CloseConsole, CloseFile, OpenAtAlloc
  <2>4. call' = call \/ \E c \in Call : call' = [call EXCEPT ![p] = c]
    BY <1>2, <2>2, CallTyped, KindFacts DEF CloseConsole, CloseFile, OpenAtAlloc, Holding
  <2>5. UNCHANGED <<waiter, crossed, files, born, shared, uneven, lost>>
    BY <1>2 DEF CloseConsole, CloseFile, OpenAtAlloc
  <2> HIDE DEF Retasked
  <2> QED BY <2>1, <2>3, <2>4, <2>5, OneFd, TaskStep DEF TypeOK
<1>3. ASSUME NEW p \in Procs, NEW fd \in Fds, ClosePipe(p, fd) PROVE TypeOK'
  BY <1>0, <1>3, ClosePipeTask, TaskStep DEF ClosePipe, TypeOK
<1>4. ASSUME NEW p \in Procs, NEW old \in Fds, NEW arg \in Fds, NEW fd \in Fds,
             Dup(p, old, fd) \/ DupFd(p, old, arg, fd)
      PROVE  TypeOK'
  <2>1. Begin(p) /\ UNCHANGED <<call, waiter, crossed, files, born, lost>>
    BY <1>4 DEF Dup, DupFd
  <2>2. task[p] # None /\ calls' \in Nat /\ task[p].fds[old] \in FdKind
    BY <1>0, <2>1
  <2>3. Shares(task[p].fds[old]) \subseteq Fids /\ Unevens(task[p].fds[old]) \subseteq Pipes
    BY <2>2, KindFacts
  <2>4. shared' \subseteq Fids /\ uneven' \in [Procs -> SUBSET Pipes]
    BY <1>4, <2>3 DEF Dup, DupFd, TypeOK
  <2>5. PICK k \in FdKind : task' = [task EXCEPT ![p].fds[fd] = k]
    BY <1>4, <2>2, Kinds DEF Dup, DupFd
  <2> QED BY <2>1, <2>2, <2>4, <2>5, OneFd, TaskStep DEF TypeOK
<1>5. ASSUME NEW p \in Procs, NEW old \in Fds, NEW arg \in Fds, NEW fd \in Fds,
             Dup3(p, old, arg, fd)
      PROVE  TypeOK'
  <2>1. Begin(p) /\ UNCHANGED <<call, waiter, crossed, files, born>>
    BY <1>5 DEF Dup3
  <2>2. calls' \in Nat /\ task[p].fds[old] \in FdKind /\ task[p].fds[arg] \in FdKind
    BY <1>0, <2>1
  <2>3. /\ Shares(task[p].fds[old]) \subseteq Fids /\ Unevens(task[p].fds[old]) \subseteq Pipes
        /\ Shares(task[p].fds[arg]) \subseteq Fids /\ Unevens(task[p].fds[arg]) \subseteq Pipes
    BY <2>2, KindFacts
  <2>4. shared' \subseteq Fids /\ lost' \subseteq Fids /\ uneven' \in [Procs -> SUBSET Pipes]
    BY <1>5, <2>3 DEF Dup3, TypeOK
  <2> QED BY <1>5, <2>1, <2>2, <2>4, Dup3Task, TaskStep DEF TypeOK
<1>6. ASSUME NEW p \in Procs, NEW i \in Pipes, NEW r \in Fds, NEW w \in Fds, Pipe2(p, i, r, w)
      PROVE  TypeOK'
  BY <1>0, <1>6, Pipe2Task, TaskStep DEF Pipe2, TypeOK
<1>7. ASSUME NEW p \in Procs, NEW q \in Procs, Clone(p, q) PROVE TypeOK'
  <2>1. calls' \in Nat /\ shared' \subseteq Fids /\ uneven' \in [Procs -> SUBSET Pipes]
        /\ born' \subseteq Procs /\ UNCHANGED <<call, waiter, crossed, files, lost>>
    BY <1>0, <1>7, FidsOfTyped DEF Clone, TypeOK
  <2> QED BY <1>7, <2>1, CloneTask, TaskStep DEF TypeOK
<1>8. ASSUME NEW p \in Procs, Exit(p) PROVE TypeOK'
  BY <1>8, FidsOfTyped DEF Exit, TypeOK
<1>9. ASSUME NEW p \in Procs, NEW fd \in Fds, SetPos(p, fd) PROVE TypeOK'
  <2>1. Begin(p) /\ UNCHANGED <<task, waiter, crossed, files, born, shared, uneven, lost>>
    BY <1>9 DEF SetPos
  <2>2. task[p].fds[fd] \in FdKind /\ task[p].fds[fd].k = "File"
    BY <1>0, <1>9, <2>1 DEF SetPos
  <2>3. \E c \in Call : call' = [call EXCEPT ![p] = c]
    BY <1>9, <2>2, KindFacts, CallTyped DEF SetPos
  <2>4. task[p] # None /\ call[p].op \notin Requests /\ calls' \in Nat
    BY <1>0, <2>1
  <2> QED BY <2>1, <2>3, <2>4, CallStep DEF TypeOK
<1>10. ASSUME NEW p \in Procs, OpenAtFull(p) \/ ExecFails(p) PROVE TypeOK'
  <2>1. task[p] # None /\ call[p].fid \in Fids /\ call[p].op \notin Requests
    BY <1>10, InCall, CallTyped DEF OpenAtFull, ExecFails
  <2>2. UNCHANGED <<task, waiter, crossed, files, born, calls, shared, uneven, lost>>
    BY <1>10 DEF OpenAtFull, ExecFails
  <2>3. \E c \in Call : call' = [call EXCEPT ![p] = c]
    BY <1>10, <2>1, CallTyped DEF OpenAtFull, ExecFails, Holding
  <2> QED BY <2>1, <2>2, <2>3, CallStep DEF TypeOK
<1>11. ASSUME NEW p \in Procs, Request(p) \/ Overlap(p) PROVE TypeOK'
  BY <1>11 DEF Request, Overlap, TypeOK
<1>12. ASSUME NEW p \in Procs, ExecDone(p) PROVE TypeOK'
  <2>1. Retasked(p, NewTask.fds, NewTask.pipes)
    BY <1>12, NewTaskTyped DEF ExecDone, Retasked
  <2>2. lost' \subseteq Fids /\ uneven' \in [Procs -> SUBSET Pipes]
    BY <1>12, FidsOfTyped DEF ExecDone, TypeOK
  <2> QED BY <1>12, <2>1, <2>2, NewTaskTyped, CallTyped, TaskStep DEF ExecDone, TypeOK
<1>13. CASE UNCHANGED vars
  BY <1>13 DEF vars, TypeOK
<1>14. ArgFds \subseteq Fds
  BY ArgFdsAssumption
<1>15. CASE Serve
  BY <1>15, ServeTyped
<1> QED
  BY <1>1, <1>2, <1>3, <1>4, <1>5, <1>6, <1>7, <1>8, <1>9, <1>10, <1>11, <1>12, <1>13, <1>14, <1>15
  DEF Next, Continue

-----------------------------------------------------------------------------
(* Names of fids: a descriptor, or a system call under way.                *)
FdNames(p, fd, n) == task[p] # None /\ task[p].fds[fd] = Kind("File", n)
CallNames(p, n)   == call[p].op \in Holding /\ call[p].fid = n

(* OneName, descriptor by descriptor.                                      *)
NameInv ==
  \A n \in Fids \ shared :
    /\ \A p \in Procs, fd \in Fds : FdNames(p, fd, n) => files[n] # None
    /\ \A p \in Procs : CallNames(p, n) => files[n] # None
    /\ \A p, q \in Procs, fd, fe \in Fds :
         FdNames(p, fd, n) /\ FdNames(q, fe, n) => p = q /\ fd = fe
    /\ \A p, q \in Procs : CallNames(p, n) /\ CallNames(q, n) => p = q
    /\ \A p, q \in Procs, fd \in Fds : ~(FdNames(p, fd, n) /\ CallNames(q, n))

OpenInv ==
  \A n \in Fids : files[n] # None =>
    \/ \E p \in Procs, fd \in Fds : FdNames(p, fd, n)
    \/ \E p \in Procs : CallNames(p, n)
    \/ n \in lost

LEMMA NamedByFacts ==
  ASSUME NEW n \in Fids
  PROVE  /\ \A p \in Procs, fd \in Fds : FdNames(p, fd, n) <=> <<p, fd>> \in NamedBy(n)
         /\ \A p \in Procs : CallNames(p, n) <=> <<p, MaxFds>> \in NamedBy(n)
         /\ \A x \in NamedBy(n) :
              \/ \E p \in Procs, fd \in Fds : x = <<p, fd>> /\ FdNames(p, fd, n)
              \/ \E p \in Procs : x = <<p, MaxFds>> /\ CallNames(p, n)
<1> DEFINE D == {x \in Procs \X Fds : task[x[1]] # None /\ task[x[1]].fds[x[2]] = Kind("File", n)}
           C == {<<p, MaxFds>> : p \in {q \in Procs : call[q].op \in Holding /\ call[q].fid = n}}
<1>1. NamedBy(n) = D \cup C
  BY DEF NamedBy
<1>2. \A p \in Procs, fd \in Fds : <<p, fd>> \in D <=> FdNames(p, fd, n)
  BY DEF FdNames
<1>3. \A p \in Procs : <<p, MaxFds>> \in C <=> CallNames(p, n)
  BY DEF CallNames
<1>4. \A p \in Procs, fd \in Fds : <<p, fd>> \notin C
  BY TableAssumption DEF Fds
<1>5. \A p \in Procs : <<p, MaxFds>> \notin D
  BY TableAssumption DEF Fds
<1>6. \A x \in D : \E p \in Procs, fd \in Fds : x = <<p, fd>>
  OBVIOUS
<1>7. \A x \in C : \E p \in Procs : x = <<p, MaxFds>>
  OBVIOUS
<1> HIDE DEF D, C
<1> QED BY <1>1, <1>2, <1>3, <1>4, <1>5, <1>6, <1>7

LEMMA NamesFromInv == (NameInv <=> OneName) /\ (OpenInv <=> OpenIsNamed)
<1>1. ASSUME NEW n \in Fids
      PROVE  NamedBy(n) # {} <=> \/ \E p \in Procs, fd \in Fds : FdNames(p, fd, n)
                                 \/ \E p \in Procs : CallNames(p, n)
  BY NamedByFacts
<1>2. ASSUME NEW n \in Fids
      PROVE  (\A x, y \in NamedBy(n) : x = y) <=>
               /\ \A p, q \in Procs, fd, fe \in Fds :
                    FdNames(p, fd, n) /\ FdNames(q, fe, n) => p = q /\ fd = fe
               /\ \A p, q \in Procs : CallNames(p, n) /\ CallNames(q, n) => p = q
               /\ \A p, q \in Procs, fd \in Fds : ~(FdNames(p, fd, n) /\ CallNames(q, n))
  <2>1. MaxFds \notin Fds
    BY TableAssumption DEF Fds
  <2>2. ASSUME \A x, y \in NamedBy(n) : x = y
        PROVE  /\ \A p, q \in Procs, fd, fe \in Fds :
                    FdNames(p, fd, n) /\ FdNames(q, fe, n) => p = q /\ fd = fe
               /\ \A p, q \in Procs : CallNames(p, n) /\ CallNames(q, n) => p = q
               /\ \A p, q \in Procs, fd \in Fds : ~(FdNames(p, fd, n) /\ CallNames(q, n))
    <3>1. ASSUME NEW p \in Procs, NEW q \in Procs, NEW fd, NEW fe,
                 <<p, fd>> \in NamedBy(n), <<q, fe>> \in NamedBy(n)
          PROVE  p = q /\ fd = fe
      <4>1. <<p, fd>> = <<q, fe>>
        BY <2>2, <3>1
      <4> QED BY <4>1
    <3>2. \A p \in Procs, fd \in Fds : FdNames(p, fd, n) => <<p, fd>> \in NamedBy(n)
      BY NamedByFacts
    <3>3. \A p \in Procs : CallNames(p, n) => <<p, MaxFds>> \in NamedBy(n)
      BY NamedByFacts
    <3>4. ASSUME NEW p \in Procs, NEW q \in Procs, NEW fd \in Fds, FdNames(p, fd, n),
                 CallNames(q, n)
          PROVE  FALSE
      BY <2>1, <3>1, <3>2, <3>3, <3>4
    <3>5. \A p, q \in Procs : CallNames(p, n) /\ CallNames(q, n) => p = q
      BY <3>1, <3>3
    <3>6. \A p, q \in Procs, fd, fe \in Fds :
            FdNames(p, fd, n) /\ FdNames(q, fe, n) => p = q /\ fd = fe
      BY <3>1, <3>2
    <3> QED BY <3>4, <3>5, <3>6
  <2>3. ASSUME \A p, q \in Procs, fd, fe \in Fds :
                 FdNames(p, fd, n) /\ FdNames(q, fe, n) => p = q /\ fd = fe,
               \A p, q \in Procs : CallNames(p, n) /\ CallNames(q, n) => p = q,
               \A p, q \in Procs, fd \in Fds : ~(FdNames(p, fd, n) /\ CallNames(q, n)),
               NEW x \in NamedBy(n), NEW y \in NamedBy(n)
        PROVE  x = y
    <3>1. \/ \E p \in Procs, fd \in Fds : x = <<p, fd>> /\ FdNames(p, fd, n)
          \/ \E p \in Procs : x = <<p, MaxFds>> /\ CallNames(p, n)
      BY NamedByFacts
    <3>2. \/ \E p \in Procs, fd \in Fds : y = <<p, fd>> /\ FdNames(p, fd, n)
          \/ \E p \in Procs : y = <<p, MaxFds>> /\ CallNames(p, n)
      BY NamedByFacts
    <3> QED BY <2>3, <3>1, <3>2
  <2> QED BY <2>2, <2>3
<1>3. OpenInv <=> OpenIsNamed
  BY <1>1 DEF OpenInv, OpenIsNamed
<1>4. NameInv => OneName
  BY <1>1, <1>2 DEF NameInv, OneName
<1>5. OneName => NameInv
  BY <1>1, <1>2 DEF NameInv, OneName
<1> QED BY <1>3, <1>4, <1>5

(* How names change with a system call, and with a TaskStruct.             *)
LEMMA CallChange ==
  ASSUME TypeOK, NEW p \in Procs, NEW c, call' = [call EXCEPT ![p] = c]
  PROVE  \A q \in Procs, n \in Fids : CallNames(q, n)' <=>
           IF q = p THEN c.op \in Holding /\ c.fid = n
           ELSE CallNames(q, n)
BY TypeParts DEF CallNames

LEMMA FdChange ==
  ASSUME TypeOK, NEW p \in Procs, NEW F \in FdMap, NEW P \in PipeMap, Retasked(p, F, P)
  PROVE  \A q \in Procs, fd \in Fds, n \in Fids : FdNames(q, fd, n)' <=>
           IF q = p THEN F[fd] = Kind("File", n) ELSE FdNames(q, fd, n)
BY RetaskFacts DEF FdNames

LEMMA DoingFacts ==
  /\ \A op, n : Doing(op, n).op = op /\ Doing(op, n).fid = n
  /\ \A op, n, path : /\ Stage(op, n, path).op = op /\ Stage(op, n, path).fid = n
                      /\ Stage(op, n, path).path = path /\ Stage(op, n, path).got = << >>
  /\ NoCall.op = "none"
BY DEF Doing, NoCall, Stage

(* The calls that sys_openat, sys_newfstatat and sys_execve, and a call    *)
(* on a descriptor, begin with.                                            *)
LEMMA OpenStage ==
  ASSUME NEW p \in Procs, NEW path, OpenAt(p, path) \/ NewFstatAt(p, path) \/ Execve(p, path)
  PROVE  \E c : call' = [call EXCEPT ![p] = c] /\ c.op \in Opens
<1>1. PICK op \in Opens : call' = [call EXCEPT ![p] = Stage(op, 0, path)]
  BY DEF OpenAt, NewFstatAt, Execve, Opens
<1>2. Stage(op, 0, path).op \in Opens
  BY DoingFacts
<1> QED BY <1>1, <1>2

LEMMA SeekStage ==
  ASSUME NEW p \in Procs, NEW fd, SetPos(p, fd)
  PROVE  \E c : call' = [call EXCEPT ![p] = c] /\ c.op = "seek"
<1>1. PICK n : call' = [call EXCEPT ![p] = Doing("seek", n)]
  BY DEF SetPos
<1>2. Doing("seek", n).op = "seek"
  BY DoingFacts
<1> QED BY <1>1, <1>2

LEMMA IdleNames ==
  ASSUME NEW p \in Procs, call[p] = NoCall
  PROVE  \A n \in Fids : ~CallNames(p, n)
BY DoingFacts DEF CallNames, Holding

(* The server opens n for a call of p.                                     *)
LEMMA NamesOpened ==
  ASSUME NameInv, OpenInv, NEW p \in Procs, NEW n \in Fids, files[n] = None, files'[n] # None,
         \A m \in Fids : m # n => files'[m] = files[m],
         \A m \in Fids : m # n => (m \in shared' <=> m \in shared), lost' = lost \ {n},
         n \notin shared' => /\ \A q \in Procs, fd \in Fds : ~FdNames(q, fd, n)
                            /\ \A q \in Procs : ~CallNames(q, n),
         \A q \in Procs, fd \in Fds, m \in Fids : FdNames(q, fd, m)' <=> FdNames(q, fd, m),
         \A q \in Procs, m \in Fids : CallNames(q, m)' <=> CallNames(q, m) \/ (q = p /\ m = n)
  PROVE  NameInv' /\ OpenInv'
<1>1. NameInv'
  BY DEF NameInv
<1>2. OpenInv'
  BY DEF OpenInv
<1> QED BY <1>1, <1>2

(* FsServer::open: nobody names n unless it stays counted as duplicated.   *)
LEMMA FreshFid ==
  ASSUME TypeOK, NameInv, NEW n \in Fids, NEW path \in Paths, FsOpen(n, path)
  PROVE  /\ \A m \in Fids : m # n => (m \in shared' <=> m \in shared)
         /\ n \notin shared' => /\ \A q \in Procs, fd \in Fds : ~FdNames(q, fd, n)
                                /\ \A q \in Procs : ~CallNames(q, n)
<1>1. files[n] = None /\ shared' = IF NamedBy(n) = {} THEN shared \ {n} ELSE shared
  BY DEF FsOpen, Lowest
<1>2. NamedBy(n) = {} => /\ \A q \in Procs, fd \in Fds : ~FdNames(q, fd, n)
                         /\ \A q \in Procs : ~CallNames(q, n)
  BY NamedByFacts
<1>3. n \notin shared => /\ \A q \in Procs, fd \in Fds : ~FdNames(q, fd, n)
                        /\ \A q \in Procs : ~CallNames(q, n)
  BY <1>1 DEF NameInv
<1> QED BY <1>1, <1>2, <1>3

(* Names only go, or are of duplicated fids; a file closes with its name.  *)
LEMMA NamesGo ==
  ASSUME NameInv, shared \subseteq shared',
         \A n \in Fids \ shared' :
           /\ \A q \in Procs, fd \in Fds : FdNames(q, fd, n)' => FdNames(q, fd, n)
           /\ \A q \in Procs : CallNames(q, n)' => CallNames(q, n)
           /\ \/ files'[n] # None \/ files[n] = None
              \/ /\ \A q \in Procs, fd \in Fds : ~FdNames(q, fd, n)'
                 /\ \A q \in Procs : ~CallNames(q, n)'
  PROVE  NameInv'
BY DEF NameInv

(* A file stays named, or is counted lost, or is closed.                   *)
LEMMA OpenGo ==
  ASSUME OpenInv,
         \A n \in Fids : files'[n] # None =>
           /\ files[n] # None
           /\ \/ n \in lost'
              \/ /\ n \in lost => n \in lost'
                 /\ \A q \in Procs, fd \in Fds : FdNames(q, fd, n) =>
                      \/ \E r \in Procs, e \in Fds : FdNames(r, e, n)'
                      \/ \E r \in Procs : CallNames(r, n)'
                 /\ \A q \in Procs : CallNames(q, n) =>
                      \/ \E r \in Procs, e \in Fds : FdNames(r, e, n)'
                      \/ \E r \in Procs : CallNames(r, n)'
  PROVE  OpenInv'
BY DEF OpenInv

(* A call hands its fid to a descriptor, or a descriptor to a call.        *)
LEMMA NamesMoved ==
  ASSUME NameInv, NEW p \in Procs, NEW fd \in Fds, NEW n \in Fids,
         files' = files, shared' = shared,
         \/ /\ CallNames(p, n)
            /\ \A q \in Procs, m \in Fids : CallNames(q, m)' <=> q # p /\ CallNames(q, m)
            /\ \A q \in Procs, e \in Fds, m \in Fids : FdNames(q, e, m)' <=>
                 IF q = p /\ e = fd THEN m = n ELSE FdNames(q, e, m)
         \/ /\ FdNames(p, fd, n)
            /\ \A q \in Procs, m \in Fids : CallNames(q, m)' <=>
                 IF q = p THEN m = n ELSE CallNames(q, m)
            /\ \A q \in Procs, e \in Fds, m \in Fids : FdNames(q, e, m)' <=>
                 ~(q = p /\ e = fd) /\ FdNames(q, e, m)
            /\ \A m \in Fids : ~CallNames(p, m)
  PROVE  NameInv'
BY DEF NameInv

(* The names after the steps that write one TaskStruct.                    *)
LEMMA TaskNames ==
  ASSUME TypeOK, NameInv, OpenInv, NEW q \in Procs, NEW F \in FdMap, NEW P \in PipeMap,
         Retasked(q, F, P), files' = files, shared \subseteq shared', lost \subseteq lost',
         \A r \in Procs, n \in Fids : CallNames(r, n)' <=> CallNames(r, n),
         \A fd \in Fds, n \in Fids \ shared' : F[fd] = Kind("File", n) => FdNames(q, fd, n),
         \A fd \in Fds, n \in Fids : FdNames(q, fd, n) =>
           F[fd] = Kind("File", n) \/ n \in lost'
  PROVE  NameInv' /\ OpenInv'
<1>1. \A r \in Procs, fd \in Fds, n \in Fids : FdNames(r, fd, n)' <=>
        IF r = q THEN F[fd] = Kind("File", n) ELSE FdNames(r, fd, n)
  BY FdChange
<1>2. NameInv'
  BY <1>1, NamesGo
<1>3. OpenInv'
  BY <1>1, OpenGo
<1> QED BY <1>2, <1>3

LEMMA ServeNames ==
  ASSUME TypeOK, NameInv, OpenInv, Serve
  PROVE  NameInv' /\ OpenInv'
<1>0. /\ files \in [Fids -> File \cup {None}] /\ \A p \in Procs : call[p].fid \in Fids
      /\ call \in [Procs -> Call]
  BY TypeParts
<1>a. ASSUME NEW p \in Procs, NEW c, Answer(p, c)
      PROVE  /\ \A q \in Procs, fd \in Fds, n \in Fids : FdNames(q, fd, n)' <=> FdNames(q, fd, n)
             /\ \A q \in Procs, n \in Fids : CallNames(q, n)' <=>
                  IF q = p THEN c.op \in Holding /\ c.fid = n ELSE CallNames(q, n)
  <2>1. task' = task /\ call' = [call EXCEPT ![p] = c]
    BY <1>a DEF Answer
  <2>2. \A q \in Procs, fd \in Fds, n \in Fids : FdNames(q, fd, n)' <=> FdNames(q, fd, n)
    BY <2>1 DEF FdNames
  <2> QED BY <2>1, <2>2, CallChange
<1>b. ASSUME NEW p \in Procs, NEW c, Answer(p, c), UNCHANGED <<shared, lost>>,
             \A n \in Fids : files'[n] # None <=> files[n] # None,
             c.op \in Holding <=> call[p].op \in Holding,
             c.op \in Holding => c.fid = call[p].fid
      PROVE  NameInv' /\ OpenInv'
  <2>1. \A q \in Procs, n \in Fids : CallNames(q, n)' <=> CallNames(q, n)
    BY <1>a, <1>b DEF CallNames
  <2>2. \A q \in Procs, fd \in Fds, n \in Fids : FdNames(q, fd, n)' <=> FdNames(q, fd, n)
    BY <1>a, <1>b
  <2>3. NameInv'
    BY <1>b, <2>1, <2>2, NamesGo
  <2>4. OpenInv'
    BY <1>b, <2>1, <2>2, OpenGo
  <2> QED BY <2>3, <2>4
<1>1. ASSUME NEW p \in Procs, NEW n \in Fids, Opened(p, n) PROVE NameInv' /\ OpenInv'
  <2> DEFINE c == Stage(AfterOpen(call[p].op), n, call[p].path)
  <2>1. call[p].op \in Opens /\ FsOpen(n, call[p].path) /\ Answer(p, c)
    BY <1>1 DEF Opened
  <2>2. call[p].path \in Paths /\ c.op \in Holding /\ c.fid = n
    BY <2>1, TypeParts, AfterOpenFacts, DoingFacts DEF Holding
  <2>3. \A m \in Fids : ~CallNames(p, m)
    BY <2>1 DEF CallNames, Opens, Holding
  <2> HIDE DEF c
  <2>4. \A q \in Procs, m \in Fids : CallNames(q, m)' <=> CallNames(q, m) \/ (q = p /\ m = n)
    BY <1>a, <2>1, <2>2, <2>3
  <2>5. \A q \in Procs, fd \in Fds, m \in Fids : FdNames(q, fd, m)' <=> FdNames(q, fd, m)
    BY <1>a, <2>1
  <2>6. /\ files[n] = None /\ files'[n] # None
        /\ \A m \in Fids : m # n => files'[m] = files[m]
    BY <2>1, <2>2, FsOpenTyped
  <2>7. lost' = lost \ {n}
    BY <2>1 DEF FsOpen
  <2>8. /\ \A m \in Fids : m # n => (m \in shared' <=> m \in shared)
        /\ n \notin shared' => /\ \A q \in Procs, fd \in Fds : ~FdNames(q, fd, n)
                               /\ \A q \in Procs : ~CallNames(q, n)
    BY <2>1, <2>2, FreshFid
  <2> QED BY <2>4, <2>5, <2>6, <2>7, <2>8, NamesOpened
<1>2. ASSUME NEW p \in Procs, OpenFails(p) \/ SeekFails(p) PROVE NameInv' /\ OpenInv'
  <2>1. call[p].op \in Opens \cup {"seek"} /\ Answer(p, NoCall) /\ UNCHANGED <<files, shared, lost>>
    BY <1>2 DEF OpenFails, SeekFails
  <2>2. call[p].op \notin Holding /\ NoCall.op \notin Holding
    BY <2>1, DoingFacts DEF Opens, Holding
  <2> QED BY <1>b, <2>1, <2>2
<1>3. ASSUME NEW p \in Procs, Stated(p) \/ SizeFails(p) \/ ExecReadFails(p)
      PROVE  NameInv' /\ OpenInv'
  <2> DEFINE c == Doing("close", call[p].fid)
  <2>1. call[p].op \in Holding /\ Answer(p, c) /\ UNCHANGED <<files, shared, lost>>
    BY <1>3 DEF Stated, SizeFails, ExecReadFails, Holding
  <2>2. c.op \in Holding /\ c.fid = call[p].fid
    BY DoingFacts DEF Holding
  <2> HIDE DEF c
  <2> QED BY <1>b, <2>1, <2>2
<1>4. ASSUME NEW p \in Procs, Sized(p) PROVE NameInv' /\ OpenInv'
  <2> DEFINE c == [op |-> "read", fid |-> call[p].fid, path |-> call[p].path,
                   size |-> Size[files[call[p].fid].path], got |-> << >>]
  <2>1. Answer(p, c) /\ call[p].op = "size" /\ c.op = "read" /\ c.fid = call[p].fid
    BY <1>4, SizedStep
  <2>2. UNCHANGED <<files, shared, lost>>
    BY <1>4 DEF Sized
  <2> HIDE DEF c
  <2> QED BY <1>b, <2>1, <2>2 DEF Holding
<1>5. ASSUME NEW p \in Procs, NEW pos \in Nat, PosSet(p, pos) PROVE NameInv' /\ OpenInv'
  <2>1. /\ call[p].op = "seek" /\ files[call[p].fid] # None /\ Answer(p, NoCall)
        /\ files' = [files EXCEPT ![call[p].fid].pos = pos] /\ UNCHANGED <<shared, lost>>
    BY <1>5 DEF PosSet
  <2>2. \A n \in Fids : files'[n] # None <=> files[n] # None
    BY <1>0, <2>1, PosTyped
  <2>3. call[p].op \notin Holding /\ NoCall.op \notin Holding
    BY <2>1, DoingFacts DEF Holding
  <2> QED BY <1>b, <2>1, <2>2, <2>3
<1>6. ASSUME NEW p \in Procs, Closed(p) \/ ExecClosed(p) PROVE NameInv' /\ OpenInv'
  <2> DEFINE n == call[p].fid
  <2>1. /\ call[p].op \in {"close", "loaded"} /\ files' = [files EXCEPT ![n] = None]
        /\ UNCHANGED <<shared, lost>>
    BY <1>6 DEF Closed, ExecClosed, FsClose
  <2>2. PICK c : Answer(p, c) /\ c.op \in {"none", "exec"}
    BY <1>6, DoingFacts DEF Closed, ExecClosed
  <2>3. n \in Fids /\ CallNames(p, n)
    BY <1>0, <2>1 DEF CallNames, Holding
  <2>4. \A q \in Procs, m \in Fids : CallNames(q, m)' <=> q # p /\ CallNames(q, m)
    BY <1>a, <2>2 DEF Holding
  <2>5. \A q \in Procs, fd \in Fds, m \in Fids : FdNames(q, fd, m)' <=> FdNames(q, fd, m)
    BY <1>a, <2>2
  <2>6. \A m \in Fids : files'[m] = IF m = n THEN None ELSE files[m]
    BY <1>0, <2>1
  <2>7. n \notin shared => /\ \A q \in Procs, fd \in Fds : ~FdNames(q, fd, n)
                           /\ \A q \in Procs : CallNames(q, n) => q = p
    BY <2>3 DEF NameInv
  <2>8. \A m \in Fids : CallNames(p, m) => m = n
    BY DEF CallNames
  <2> HIDE DEF n
  <2>9. NameInv'
    BY <2>1, <2>4, <2>5, <2>6, <2>7, NamesGo
  <2>10. OpenInv'
    BY <2>1, <2>4, <2>5, <2>6, <2>8, OpenGo
  <2> QED BY <2>9, <2>10
<1>7. ASSUME NEW p \in Procs, ExecRead(p) PROVE NameInv' /\ OpenInv'
  <2>1. PICK c \in Call : /\ Answer(p, c) /\ c.op \in {"read", "loaded"} /\ c.fid = call[p].fid
    BY <1>7, ExecReadStep
  <2>2. PICK f \in File : files' = [files EXCEPT ![call[p].fid] = f]
    BY <1>7, ExecReadStep
  <2>3. call[p].op = "read" /\ files[call[p].fid] # None /\ UNCHANGED <<shared, lost>>
    BY <1>7 DEF ExecRead
  <2>4. \A n \in Fids : files'[n] # None <=> files[n] # None
    BY <1>0, <2>2, <2>3, NoneAssumption
  <2> QED BY <1>b, <2>1, <2>3, <2>4 DEF Holding
<1>8. \A path \in Paths : 0 .. Size[path] \subseteq Nat
  BY TableAssumption
<1> QED BY <1>1, <1>2, <1>3, <1>4, <1>5, <1>6, <1>7, <1>8 DEF Serve

LEMMA NextNames ==
  ASSUME TypeOK, BornInv, NameInv, OpenInv, [Next]_vars
  PROVE  NameInv' /\ OpenInv'
<1>0. ASSUME NEW p \in Procs, Begin(p)
      PROVE  /\ task[p] # None /\ call[p] = NoCall /\ task[p].fds \in FdMap
             /\ \A fd \in Fds : task[p].fds[fd] \in FdKind
             /\ \A n \in Fids : ~CallNames(p, n)
  BY <1>0, TypeParts, IdleNames DEF Begin, FdMap
<1>a. ASSUME call' = call
      PROVE  \A q \in Procs, n \in Fids : CallNames(q, n)' <=> CallNames(q, n)
  BY <1>a DEF CallNames
<1>b. ASSUME task' = task
      PROVE  \A q \in Procs, fd \in Fds, n \in Fids : FdNames(q, fd, n)' <=> FdNames(q, fd, n)
  BY <1>b DEF FdNames
<1>c. \A n \in Fids : Free # Kind("File", n) /\ Console # Kind("File", n)
  BY KindNames DEF Free, Console
<1>d. ASSUME NEW p \in Procs, call[p].op \notin Holding, NEW c, c.op \notin Holding,
             call' = [call EXCEPT ![p] = c]
      PROVE  \A q \in Procs, n \in Fids : CallNames(q, n)' <=> CallNames(q, n)
  BY <1>d, CallChange DEF CallNames
<1>e. ASSUME \A q \in Procs, n \in Fids : CallNames(q, n)' <=> CallNames(q, n),
             task' = task, UNCHANGED <<shared, lost>>,
             \A n \in Fids : files'[n] # None <=> files[n] # None
      PROVE  NameInv' /\ OpenInv'
  <2>1. NameInv'
    BY <1>b, <1>e, NamesGo
  <2>2. OpenInv'
    BY <1>b, <1>e, OpenGo
  <2> QED BY <2>1, <2>2
<1>1. ASSUME NEW p \in Procs, NEW path \in Paths,
             OpenAt(p, path) \/ NewFstatAt(p, path) \/ Execve(p, path)
      PROVE  NameInv' /\ OpenInv'
  <2>1. Begin(p) /\ UNCHANGED <<task, files, shared, lost>>
    BY <1>1 DEF OpenAt, NewFstatAt, Execve
  <2>2. call[p].op \notin Holding
    BY <1>0, <2>1, DoingFacts DEF Holding
  <2>3. PICK c : call' = [call EXCEPT ![p] = c] /\ c.op \in Opens
    BY <1>1, OpenStage
  <2>4. c.op \notin Holding
    BY <2>3 DEF Opens, Holding
  <2> QED BY <1>d, <1>e, <2>1, <2>2, <2>3, <2>4
<1>2. ASSUME NEW p \in Procs, NEW fd \in Fds, OpenAtAlloc(p, fd) PROVE NameInv' /\ OpenInv'
  <2>0. PICK n \in Fids : n = call[p].fid
    BY TypeParts
  <2> DEFINE F == [task[p].fds EXCEPT ![fd] = Kind("File", n)]
  <2>1. /\ call[p].op = "open" /\ task' = [task EXCEPT ![p].fds[fd] = Kind("File", n)]
        /\ call' = [call EXCEPT ![p] = NoCall] /\ UNCHANGED <<files, shared, lost>>
        /\ task[p].fds[fd] = Free
    BY <1>2, <2>0 DEF OpenAtAlloc, Lowest, FreeFds
  <2>2. task[p] # None /\ n \in Fids /\ CallNames(p, n) /\ task[p].fds \in FdMap
    BY <2>0, <2>1, InCall, TypeParts DEF CallNames, Holding
  <2>3. \A q \in Procs, m \in Fids : CallNames(q, m)' <=> q # p /\ CallNames(q, m)
    BY <2>1, CallChange, DoingFacts DEF Holding
  <2>4. F \in FdMap /\ task[p].pipes \in PipeMap /\ Retasked(p, F, task[p].pipes)
    BY <2>1, <2>2, OneFd, Kinds
  <2>5. \A q \in Procs, e \in Fds, m \in Fids : FdNames(q, e, m)' <=>
          IF q = p /\ e = fd THEN m = n ELSE FdNames(q, e, m)
    <3>1. \A q \in Procs, e \in Fds, m \in Fids : FdNames(q, e, m)' <=>
            IF q = p THEN F[e] = Kind("File", m) ELSE FdNames(q, e, m)
      BY <2>4, FdChange
    <3>2. \A e \in Fds : F[e] = IF e = fd THEN Kind("File", n) ELSE task[p].fds[e]
      BY <2>2 DEF FdMap
    <3> HIDE DEF F
    <3> QED BY <2>2, <3>1, <3>2, KindNames DEF FdNames
  <2>6. ~\E m \in Fids : FdNames(p, fd, m)
    BY <1>c, <2>1 DEF FdNames
  <2>7. NameInv'
    BY <2>1, <2>2, <2>3, <2>5, NamesMoved
  <2>8. OpenInv'
    <3>1. FdNames(p, fd, n)'
      BY <2>2, <2>5
    <3>2. \A q \in Procs, e \in Fds, m \in Fids : FdNames(q, e, m) => FdNames(q, e, m)'
      BY <2>5, <2>6
    <3>3. \A q \in Procs, m \in Fids : CallNames(q, m) => CallNames(q, m)' \/ m = n
      BY <2>0, <2>3 DEF CallNames
    <3> QED BY <2>1, <3>1, <3>2, <3>3, OpenGo
  <2> QED BY <2>7, <2>8
<1>3. ASSUME NEW p \in Procs, NEW fd \in Fds, CloseFile(p, fd) PROVE NameInv' /\ OpenInv'
  <2>a. Begin(p) /\ task[p].fds[fd].k = "File"
    BY <1>3 DEF CloseFile
  <2>b. task[p].fds[fd] \in FdKind
    BY <1>0, <2>a
  <2>0. PICK n \in Fids : n = task[p].fds[fd].n
    BY <2>a, <2>b, KindFacts
  <2> DEFINE F == [task[p].fds EXCEPT ![fd] = Free]
  <2>1. /\ Begin(p) /\ task[p].fds[fd].k = "File" /\ task' = [task EXCEPT ![p].fds[fd] = Free]
        /\ call' = [call EXCEPT ![p] = Doing("close", n)] /\ UNCHANGED <<files, shared, lost>>
    BY <1>3, <2>0 DEF CloseFile
  <2>2. n \in Fids /\ task[p].fds[fd] = Kind("File", n) /\ task[p] # None /\ FdNames(p, fd, n)
    BY <1>0, <2>0, <2>1, KindFacts DEF FdNames
  <2>3. \A q \in Procs, m \in Fids : CallNames(q, m)' <=> IF q = p THEN m = n ELSE CallNames(q, m)
    <3> DEFINE d == Doing("close", n)
    <3>0. call' = [call EXCEPT ![p] = d] /\ d.op = "close" /\ d.fid = n
      BY <2>1, DoingFacts
    <3> HIDE DEF d
    <3>1. PICK c : call' = [call EXCEPT ![p] = c] /\ c.op = "close" /\ c.fid = n
      BY <3>0
    <3> QED BY <3>1, CallChange DEF Holding
  <2>4. F \in FdMap /\ task[p].pipes \in PipeMap /\ Retasked(p, F, task[p].pipes)
    BY <2>1, <2>2, OneFd, Kinds
  <2>5. \A q \in Procs, e \in Fds, m \in Fids : FdNames(q, e, m)' <=>
          ~(q = p /\ e = fd) /\ FdNames(q, e, m)
    <3>1. \A q \in Procs, e \in Fds, m \in Fids : FdNames(q, e, m)' <=>
            IF q = p THEN F[e] = Kind("File", m) ELSE FdNames(q, e, m)
      BY <2>4, FdChange
    <3>2. \A e \in Fds : F[e] = IF e = fd THEN Free ELSE task[p].fds[e]
      BY <1>0, <2>1 DEF FdMap
    <3> HIDE DEF F
    <3> QED BY <1>c, <2>2, <3>1, <3>2 DEF FdNames
  <2>6. \A m \in Fids : ~CallNames(p, m)
    BY <1>0, <2>1
  <2>7. \A m \in Fids : FdNames(p, fd, m) => m = n
    BY <2>2, KindNames DEF FdNames
  <2>8. NameInv'
    BY <2>1, <2>2, <2>3, <2>5, <2>6, NamesMoved
  <2>9. OpenInv'
    <3>1. CallNames(p, n)'
      BY <2>2, <2>3
    <3>2. \A q \in Procs, e \in Fds, m \in Fids : FdNames(q, e, m) => FdNames(q, e, m)' \/ m = n
      BY <2>5, <2>7
    <3>3. \A q \in Procs, m \in Fids : CallNames(q, m) => CallNames(q, m)'
      BY <2>3, <2>6
    <3> QED BY <2>1, <3>1, <3>2, <3>3, OpenGo
  <2> QED BY <2>8, <2>9
<1>4. ASSUME NEW p \in Procs, NEW fd \in Fds, CloseConsole(p, fd) PROVE NameInv' /\ OpenInv'
  <2> DEFINE F == [task[p].fds EXCEPT ![fd] = Free]
  <2>1. /\ Begin(p) /\ task[p].fds[fd] = Console /\ task' = [task EXCEPT ![p].fds[fd] = Free]
        /\ UNCHANGED <<call, files, shared, lost>>
    BY <1>4 DEF CloseConsole
  <2>2. F \in FdMap /\ task[p].pipes \in PipeMap /\ Retasked(p, F, task[p].pipes)
    BY <1>0, <2>1, OneFd, Kinds
  <2>3. \A e \in Fds, n \in Fids : F[e] = Kind("File", n) <=> FdNames(p, e, n)
    BY <1>0, <1>c, <2>1 DEF FdNames, FdMap
  <2> HIDE DEF F
  <2> QED BY <1>a, <2>1, <2>2, <2>3, TaskNames
<1>5. ASSUME NEW p \in Procs, NEW fd \in Fds, ClosePipe(p, fd) PROVE NameInv' /\ OpenInv'
  <2> DEFINE F == [task[p].fds EXCEPT ![fd] = Free]
  <2>1. /\ task[p] # None /\ task[p].fds[fd].k \in {"PipeRead", "PipeWrite"}
        /\ F \in FdMap /\ \E P \in PipeMap : Retasked(p, F, P)
    BY <1>5, ClosePipeTask
  <2>2. Begin(p) /\ UNCHANGED <<call, files, shared, lost>>
    BY <1>5 DEF ClosePipe
  <2>3. \A n \in Fids : task[p].fds[fd] # Kind("File", n)
    BY <2>1, KindNames
  <2>4. \A e \in Fds, n \in Fids : F[e] = Kind("File", n) <=> FdNames(p, e, n)
    BY <1>0, <1>c, <2>1, <2>2, <2>3 DEF FdNames, FdMap
  <2> HIDE DEF F
  <2> QED BY <1>a, <2>1, <2>2, <2>4, TaskNames
<1>6. ASSUME NEW p \in Procs, NEW old \in Fds, NEW arg \in Fds, NEW fd \in Fds,
             Dup(p, old, fd) \/ DupFd(p, old, arg, fd)
      PROVE  NameInv' /\ OpenInv'
  <2> DEFINE k == task[p].fds[old]
  <2>1. /\ Begin(p) /\ task[p].fds[fd] = Free /\ UNCHANGED <<call, files, lost>>
        /\ shared' = shared \cup Shares(k)
    BY <1>6 DEF Dup, DupFd, Lowest, FreeFds
  <2>2. PICK l \in {k, Console} : task' = [task EXCEPT ![p].fds[fd] = l]
    BY <1>6 DEF Dup, DupFd
  <2>3. l \in FdKind /\ k \in FdKind /\ task[p] # None
    BY <1>0, <2>1, <2>2, Kinds
  <2> DEFINE F == [task[p].fds EXCEPT ![fd] = l]
  <2>4. F \in FdMap /\ task[p].pipes \in PipeMap /\ Retasked(p, F, task[p].pipes)
    BY <2>2, <2>3, OneFd
  <2>5. \A n \in Fids \ shared' : l # Kind("File", n)
    BY <1>c, <2>1, <2>2, KindNames DEF Shares
  <2>6. \A e \in Fds : F[e] = IF e = fd THEN l ELSE task[p].fds[e]
    BY <1>0, <2>1 DEF FdMap
  <2> HIDE DEF F, k
  <2>7. \A e \in Fds, n \in Fids \ shared' : F[e] = Kind("File", n) => FdNames(p, e, n)
    BY <2>3, <2>5, <2>6 DEF FdNames
  <2>8. \A e \in Fds, n \in Fids : FdNames(p, e, n) => F[e] = Kind("File", n)
    BY <1>c, <2>1, <2>6 DEF FdNames
  <2> QED BY <1>a, <2>1, <2>4, <2>7, <2>8, TaskNames
<1>7. ASSUME NEW p \in Procs, NEW old \in Fds, NEW arg \in Fds, NEW fd \in Fds,
             Dup3(p, old, arg, fd)
      PROVE  NameInv' /\ OpenInv'
  <2> DEFINE k == task[p].fds[old]
             o == task[p].fds[arg]
             F == [[task[p].fds EXCEPT ![arg] = Free] EXCEPT ![fd] = k]
  <2>1. /\ Begin(p) /\ UNCHANGED <<call, files>>
        /\ shared' = shared \cup Shares(k) /\ lost' = lost \cup Shares(o)
        /\ [task[p].fds EXCEPT ![arg] = Free][fd] = Free
    BY <1>7 DEF Dup3, Lowest, FreeFds
  <2>2. /\ task[p] # None /\ F \in FdMap /\ task[p].pipes \in PipeMap
        /\ Retasked(p, F, task[p].pipes)
    BY <1>7, Dup3Task
  <2>3. /\ \A e \in Fds : F[e] = IF e = fd THEN k ELSE IF e = arg THEN Free ELSE task[p].fds[e]
        /\ fd = arg \/ task[p].fds[fd] = Free
    BY <1>0, <2>1 DEF FdMap
  <2>4. \A n \in Fids \ shared' : k # Kind("File", n)
    BY <2>1, KindNames DEF Shares
  <2>5. \A n \in Fids : o = Kind("File", n) => n \in lost'
    BY <2>1, KindNames DEF Shares
  <2> HIDE DEF F, k
  <2>6. \A e \in Fds, n \in Fids \ shared' : F[e] = Kind("File", n) => FdNames(p, e, n)
    BY <1>c, <2>2, <2>3, <2>4 DEF FdNames
  <2>7. \A e \in Fds, n \in Fids : FdNames(p, e, n) => F[e] = Kind("File", n) \/ n \in lost'
    BY <1>c, <2>3, <2>5 DEF FdNames
  <2> QED BY <1>a, <2>1, <2>2, <2>6, <2>7, TaskNames
<1>8. ASSUME NEW p \in Procs, NEW i \in Pipes, NEW r \in Fds, NEW w \in Fds, Pipe2(p, i, r, w)
      PROVE  NameInv' /\ OpenInv'
  <2> DEFINE F == [[task[p].fds EXCEPT ![r] = Kind("PipeRead", i)] EXCEPT ![w] = Kind("PipeWrite", i)]
             P == [task[p].pipes EXCEPT ![i] = [readers |-> 1, writers |-> 1]]
  <2>1. /\ task[p] # None /\ task[p].fds[r] = Free /\ task[p].fds[w] = Free
        /\ F \in FdMap /\ P \in PipeMap /\ Retasked(p, F, P)
    BY <1>8, Pipe2Task
  <2>2. Begin(p) /\ UNCHANGED <<call, files, shared, lost>>
    BY <1>8 DEF Pipe2
  <2>3. \A e \in Fds : F[e] = IF e = w THEN Kind("PipeWrite", i)
                              ELSE IF e = r THEN Kind("PipeRead", i) ELSE task[p].fds[e]
    BY <1>0, <2>2 DEF FdMap
  <2>4. \A n \in Fids : Kind("PipeRead", i) # Kind("File", n) /\ Kind("PipeWrite", i) # Kind("File", n)
    BY KindNames
  <2> HIDE DEF F, P
  <2>5. \A e \in Fds, n \in Fids : F[e] = Kind("File", n) <=> FdNames(p, e, n)
    BY <1>c, <2>1, <2>3, <2>4 DEF FdNames
  <2> QED BY <1>a, <2>1, <2>2, <2>5, TaskNames
<1>9. ASSUME NEW p \in Procs, NEW q \in Procs, Clone(p, q) PROVE NameInv' /\ OpenInv'
  <2>1. /\ Begin(p) /\ q \notin born /\ UNCHANGED <<call, files, lost>>
        /\ shared' = shared \cup FidsOf(p)
    BY <1>9 DEF Clone
  <2>2. /\ task[p] # None /\ task[p].fds \in FdMap /\ task[p].pipes \in PipeMap
        /\ Retasked(q, task[p].fds, task[p].pipes)
    BY <1>9, CloneTask
  <2>3. task[q] = None
    BY <2>1 DEF BornInv
  <2>4. \A fd \in Fds, n \in Fids \ shared' : task[p].fds[fd] # Kind("File", n)
    BY <2>1 DEF FidsOf
  <2>5. \A fd \in Fds, n \in Fids : ~FdNames(q, fd, n)
    BY <2>3 DEF FdNames
  <2> QED BY <1>a, <2>1, <2>2, <2>4, <2>5, TaskNames
<1>10. ASSUME NEW p \in Procs, Exit(p) PROVE NameInv' /\ OpenInv'
  <2>1. /\ task' = [task EXCEPT ![p] = None] /\ UNCHANGED <<call, files, shared>>
        /\ lost' = lost \cup FidsOf(p) /\ task \in [Procs -> TaskStruct \cup {None}]
    BY <1>10, TypeParts DEF Exit
  <2>2. \A q \in Procs, fd \in Fds, n \in Fids : FdNames(q, fd, n)' <=> q # p /\ FdNames(q, fd, n)
    BY <2>1 DEF FdNames
  <2>3. \A fd \in Fds, n \in Fids : FdNames(p, fd, n) => n \in lost'
    BY <2>1 DEF FdNames, FidsOf
  <2>4. NameInv'
    BY <1>a, <2>1, <2>2, NamesGo
  <2>5. OpenInv'
    BY <1>a, <2>1, <2>2, <2>3, OpenGo
  <2> QED BY <2>4, <2>5
<1>11. ASSUME NEW p \in Procs, NEW fd \in Fds, SetPos(p, fd) PROVE NameInv' /\ OpenInv'
  <2>1. Begin(p) /\ UNCHANGED <<task, files, shared, lost>>
    BY <1>11 DEF SetPos
  <2>2. call[p].op \notin Holding
    BY <1>0, <2>1, DoingFacts DEF Holding
  <2>3. PICK c : call' = [call EXCEPT ![p] = c] /\ c.op = "seek"
    BY <1>11, SeekStage
  <2>4. c.op \notin Holding
    BY <2>3 DEF Holding
  <2> QED BY <1>d, <1>e, <2>1, <2>2, <2>3, <2>4
<1>12. ASSUME NEW p \in Procs, OpenAtFull(p) PROVE NameInv' /\ OpenInv'
  <2>1. /\ call[p].op = "open" /\ call' = [call EXCEPT ![p] = Doing("close", call[p].fid)]
        /\ UNCHANGED <<task, files, shared, lost>>
    BY <1>12 DEF OpenAtFull
  <2>2. \A q \in Procs, n \in Fids : CallNames(q, n)' <=> CallNames(q, n)
    BY <2>1, CallChange, DoingFacts DEF CallNames, Holding
  <2> QED BY <1>e, <2>1, <2>2
<1>13. ASSUME NEW p \in Procs, Request(p) \/ Overlap(p) PROVE NameInv' /\ OpenInv'
  BY <1>13, <1>a, <1>e DEF Request, Overlap
<1>14. CASE Serve
  BY <1>14, ServeNames
<1>15. ASSUME NEW p \in Procs, ExecDone(p) \/ ExecFails(p) PROVE NameInv' /\ OpenInv'
  <2>1. /\ call[p].op = "exec" /\ call' = [call EXCEPT ![p] = NoCall]
        /\ UNCHANGED <<files, shared>> /\ lost \subseteq lost'
    BY <1>15 DEF ExecDone, ExecFails
  <2>2. \A q \in Procs, n \in Fids : CallNames(q, n)' <=> CallNames(q, n)
    BY <1>d, <2>1, DoingFacts DEF Holding
  <2>3. CASE ExecFails(p)
    <3>1. task' = task /\ lost' = lost
      BY <2>3 DEF ExecFails
    <3>2. NameInv'
      BY <1>b, <2>1, <2>2, <3>1, NamesGo
    <3>3. OpenInv'
      BY <1>b, <2>1, <2>2, <3>1, OpenGo
    <3> QED BY <3>2, <3>3
  <2>4. CASE ExecDone(p)
    <3>1. Retasked(p, NewTask.fds, NewTask.pipes) /\ lost' = lost \cup FidsOf(p)
      BY <2>4, NewTaskTyped DEF ExecDone, Retasked
    <3>2. \A fd \in Fds, n \in Fids : NewTask.fds[fd] # Kind("File", n)
      BY <1>c, NewTaskTyped
    <3>3. \A fd \in Fds, n \in Fids : FdNames(p, fd, n) => n \in lost'
      BY <3>1 DEF FdNames, FidsOf
    <3>4. NewTask.fds \in FdMap /\ NewTask.pipes \in PipeMap
      BY NewTaskTyped
    <3> QED BY <2>1, <2>2, <3>1, <3>2, <3>3, <3>4, TaskNames
  <2> QED BY <1>15, <2>3, <2>4
<1>16. CASE UNCHANGED vars
  <2>1. UNCHANGED <<task, call, files, shared, lost>>
    BY <1>16 DEF vars
  <2>2. NameInv'
    BY <1>a, <1>b, <2>1, NamesGo
  <2>3. OpenInv'
    BY <1>a, <1>b, <2>1, OpenGo
  <2> QED BY <2>2, <2>3
<1>17. ArgFds \subseteq Fds
  BY ArgFdsAssumption
<1> QED
  BY <1>1, <1>2, <1>3, <1>4, <1>5, <1>6, <1>7, <1>8, <1>9, <1>10, <1>11, <1>12, <1>13, <1>14,
     <1>15, <1>16, <1>17
  DEF Next, Continue

-----------------------------------------------------------------------------
(* Only clone creates a task.                                              *)
LEMMA ServeLeaves ==
  ASSUME Serve
  PROVE  UNCHANGED <<task, born, uneven>>
<1>1. \E p \in Procs : \E c : Answer(p, c)
  BY DEF Serve, Opened, OpenFails, Stated, Closed, SeekFails, PosSet, Sized, SizeFails, ExecRead,
         ExecReadFails, ExecClosed
<1> QED BY <1>1 DEF Answer

LEMMA NextBorn ==
  ASSUME TypeOK, BornInv, [Next]_vars
  PROVE  BornInv'
<1>1. ASSUME NEW p \in Procs, p \in born, born' = born,
             \A q \in Procs : q # p => task'[q] = task[q]
      PROVE  BornInv'
  BY <1>1 DEF BornInv
<1>2. ASSUME UNCHANGED <<task, born>> PROVE BornInv'
  BY <1>2 DEF BornInv
<1>3. ASSUME NEW p \in Procs, task[p] # None PROVE p \in born
  BY <1>3 DEF BornInv
<1>4. ASSUME NEW p \in Procs, NEW q \in Procs, Clone(p, q) PROVE BornInv'
  BY <1>4 DEF Clone, BornInv, TypeOK
<1>5. ASSUME NEW p \in Procs, Exit(p) \/ ExecDone(p) PROVE BornInv'
  <2>1. task[p] # None /\ born' = born
    BY <1>5, InCall DEF Exit, ExecDone
  <2>2. \A q \in Procs : q # p => task'[q] = task[q]
    BY <1>5, TypeParts DEF Exit, ExecDone
  <2> QED BY <1>1, <1>3, <2>1, <2>2
<1>6. ASSUME NEW p \in Procs, NEW old \in Fds, NEW arg \in Fds, NEW fd \in Fds,
             \/ Dup(p, old, fd) \/ Dup3(p, old, arg, fd) \/ DupFd(p, old, arg, fd)
             \/ CloseConsole(p, fd) \/ ClosePipe(p, fd) \/ CloseFile(p, fd) \/ OpenAtAlloc(p, fd)
      PROVE  BornInv'
  <2>1. task[p] # None /\ born' = born
    BY <1>6, InCall
    DEF Dup, Dup3, DupFd, CloseConsole, ClosePipe, CloseFile, OpenAtAlloc, Begin
  <2>2. \A q \in Procs : q # p => task'[q] = task[q]
    BY <1>6, TypeParts DEF Dup, Dup3, DupFd, CloseConsole, ClosePipe, CloseFile, OpenAtAlloc
  <2> QED BY <1>1, <1>3, <2>1, <2>2
<1>7. ASSUME NEW p \in Procs, NEW i \in Pipes, NEW r \in Fds, NEW w \in Fds, Pipe2(p, i, r, w)
      PROVE  BornInv'
  <2>1. task[p] # None /\ born' = born
    BY <1>7 DEF Pipe2, Begin
  <2>2. \A q \in Procs : q # p => task'[q] = task[q]
    BY <1>7, TypeParts DEF Pipe2
  <2> QED BY <1>1, <1>3, <2>1, <2>2
<1>8. ASSUME NEW p \in Procs, NEW path, NEW fd,
             OpenAt(p, path) \/ NewFstatAt(p, path) \/ Execve(p, path) \/ SetPos(p, fd)
      PROVE  BornInv'
  BY <1>2, <1>8 DEF OpenAt, NewFstatAt, Execve, SetPos
<1>9. CASE Serve
  BY <1>2, <1>9, ServeLeaves
<1>10. ASSUME NEW p \in Procs, Request(p) \/ Overlap(p) \/ OpenAtFull(p) \/ ExecFails(p)
       PROVE  BornInv'
  BY <1>2, <1>10 DEF Request, Overlap, OpenAtFull, ExecFails
<1>11. CASE UNCHANGED vars
  BY <1>2, <1>11 DEF vars
<1>12. ArgFds \subseteq Fds /\ 0 \in Fds
  BY ArgFdsAssumption, TableAssumption DEF Fds
<1> QED
  BY <1>4, <1>5, <1>6, <1>7, <1>8, <1>9, <1>10, <1>11, <1>12 DEF Next, Continue

-----------------------------------------------------------------------------
(* execve's loop, one process at a time.                                   *)
LoadOf(p) ==
  /\ call[p].op \in {"size", "read"} /\ call[p].fid \notin shared =>
       LET f == files[call[p].fid]
       IN  /\ f # None /\ f.path = call[p].path
           /\ f.pos = Len(call[p].got) /\ f.pos < Size[f.path]
           /\ call[p].op = "size" => call[p].got = << >>
           /\ call[p].op = "read" => call[p].size = Size[f.path]
  /\ call[p].op \in {"read", "loaded"} /\ call[p].fid \notin shared
       => /\ call[p].got = [i \in 1 .. Len(call[p].got) |-> <<call[p].path, i - 1>>]
          /\ call[p].op = "loaded" => Len(call[p].got) = Size[call[p].path]

LEMMA LoadFacts == (ReadInv /\ ExecLoadsProgram) <=> \A p \in Procs : LoadOf(p)
BY DEF ReadInv, ExecLoadsProgram, LoadOf

(* A process whose call and file a step leaves alone.                      *)
LEMMA LoadKept ==
  ASSUME NEW q \in Procs, LoadOf(q), call'[q] = call[q],
         call[q].op \in Holding /\ call[q].fid \notin shared' => call[q].fid \notin shared,
         call[q].op \in {"size", "read"} /\ call[q].fid \notin shared' =>
           files'[call[q].fid] = files[call[q].fid]
  PROVE  LoadOf(q)'
BY DEF LoadOf, Holding

(* A step of p that ends no call in the loop and leaves every file alone   *)
(* that a call of another process names alone.                             *)
LEMMA LoadsKept ==
  ASSUME \A q \in Procs : LoadOf(q), NEW p \in Procs, LoadOf(p)',
         \A q \in Procs : q # p => call'[q] = call[q],
         \A q \in Procs :
           call[q].op \in Holding /\ call[q].fid \notin shared' => call[q].fid \notin shared,
         \A q \in Procs :
           q # p /\ call[q].op \in {"size", "read"} /\ call[q].fid \notin shared' =>
             files'[call[q].fid] = files[call[q].fid]
  PROVE  \A q \in Procs : LoadOf(q)'
BY LoadKept

LEMMA NoLoad ==
  ASSUME NEW p \in Procs, call'[p].op \notin {"size", "read", "loaded"}
  PROVE  LoadOf(p)'
BY DEF LoadOf

(* One payload more.                                                       *)
LEMMA AppendLoad ==
  ASSUME NEW path, NEW got, NEW S, got \in Seq(S), <<path, Len(got)>> \in S,
         got = [i \in 1 .. Len(got) |-> <<path, i - 1>>]
  PROVE  LET new == Append(got, <<path, Len(got)>>)
         IN  /\ Len(new) = Len(got) + 1
             /\ new = [i \in 1 .. Len(new) |-> <<path, i - 1>>]
<1> DEFINE new == Append(got, <<path, Len(got)>>)
<1>1. Len(got) \in Nat
  OBVIOUS
<1>2. new \in Seq(S) /\ Len(new) = Len(got) + 1
  OBVIOUS
<1>3. new = [i \in 1 .. Len(new) |-> new[i]]
  BY <1>2
<1>4. \A i \in 1 .. Len(new) : new[i] = IF i <= Len(got) THEN got[i] ELSE <<path, Len(got)>>
  BY <1>1, <1>2
<1>5. \A i \in 1 .. Len(got) : got[i] = <<path, i - 1>>
  OBVIOUS
<1>6. \A i \in 1 .. Len(new) : i > Len(got) => i - 1 = Len(got)
  BY <1>1, <1>2
<1> HIDE DEF new
<1>7. \A i \in 1 .. Len(new) : new[i] = <<path, i - 1>>
  BY <1>1, <1>2, <1>4, <1>5, <1>6
<1> QED BY <1>2, <1>3, <1>7 DEF new

LEMMA ServeLoads ==
  ASSUME TypeOK, NameInv, SeekInv, \A q \in Procs : LoadOf(q), Serve
  PROVE  \A q \in Procs : LoadOf(q)'
<1>0. /\ files \in [Fids -> File \cup {None}] /\ \A p \in Procs : call[p].fid \in Fids
      /\ call \in [Procs -> Call]
  BY TypeParts
<1>b. ASSUME NEW p \in Procs, NEW c, Answer(p, c)
      PROVE  call'[p] = c /\ \A q \in Procs : q # p => call'[q] = call[q]
  BY <1>0, <1>b DEF Answer
<1>c. ASSUME NEW q \in Procs, call[q].op \in {"size", "read"}, call[q].fid \notin shared
      PROVE  files[call[q].fid] # None /\ CallNames(q, call[q].fid) /\ call[q].fid \in Fids
  BY <1>0, <1>c DEF LoadOf, CallNames, Holding
(* An answer that leaves p outside the loop and every file alone.          *)
<1>d. ASSUME NEW p \in Procs, NEW c, Answer(p, c), c.op \notin {"size", "read", "loaded"},
             UNCHANGED <<files, shared>>
      PROVE  \A q \in Procs : LoadOf(q)'
  <2>1. call'[p] = c /\ \A q \in Procs : q # p => call'[q] = call[q]
    BY <1>b, <1>d
  <2>2. LoadOf(p)'
    BY <1>d, <2>1, NoLoad
  <2> QED BY <1>d, <2>1, <2>2, LoadsKept
(* A request of p about the fid it holds concerns no other call.           *)
<1>e. ASSUME NEW p \in Procs, call[p].op \in Holding, shared' = shared,
             \A m \in Fids : m # call[p].fid => files'[m] = files[m]
      PROVE  \A q \in Procs :
               q # p /\ call[q].op \in {"size", "read"} /\ call[q].fid \notin shared' =>
                 files'[call[q].fid] = files[call[q].fid]
  <2>1. CallNames(p, call[p].fid) /\ call[p].fid \in Fids
    BY <1>0, <1>e DEF CallNames
  <2> QED BY <1>c, <1>e, <2>1 DEF NameInv
<1>1. ASSUME NEW p \in Procs, NEW n \in Fids, Opened(p, n) PROVE \A q \in Procs : LoadOf(q)'
  <2> DEFINE c == Stage(AfterOpen(call[p].op), n, call[p].path)
  <2>1. call[p].op \in Opens /\ FsOpen(n, call[p].path) /\ Answer(p, c)
    BY <1>1 DEF Opened
  <2>2. /\ call[p].path \in Paths /\ c.op \in {"open", "stat", "size"} /\ c.fid = n
        /\ c.path = call[p].path /\ c.got = << >>
    BY <2>1, TypeParts, AfterOpenFacts, DoingFacts
  <2> HIDE DEF c
  <2>3. call'[p] = c /\ \A q \in Procs : q # p => call'[q] = call[q]
    BY <1>b, <2>1
  <2>4. /\ files[n] = None /\ files'[n] = [path |-> call[p].path, pos |-> 0] /\ files'[n] # None
        /\ \A m \in Fids : m # n => files'[m] = files[m]
    BY <2>1, <2>2, FsOpenTyped
  <2>5. /\ \A m \in Fids : m # n => (m \in shared' <=> m \in shared)
        /\ n \notin shared' => \A q \in Procs : ~CallNames(q, n)
    BY <2>1, <2>2, FreshFid
  <2>6. LoadOf(p)'
    <3>1. files'[n].path = call[p].path /\ files'[n].pos = 0 /\ Len(<< >>) = 0
      BY <2>4
    <3>2. 0 < Size[call[p].path]
      BY <2>2, TableAssumption
    <3> QED BY <2>2, <2>3, <2>4, <3>1, <3>2 DEF LoadOf
  <2>7. ASSUME NEW q \in Procs, call[q].op \in Holding, call[q].fid \notin shared'
        PROVE  call[q].fid # n /\ call[q].fid \notin shared
    BY <1>0, <2>5, <2>7 DEF CallNames
  <2>8. \A q \in Procs : call[q].op \in {"size", "read"} => call[q].op \in Holding
    BY DEF Holding
  <2> QED BY <1>0, <2>3, <2>4, <2>6, <2>7, <2>8, LoadsKept
<1>2. ASSUME NEW p \in Procs, OpenFails(p) \/ SeekFails(p) \/ Stated(p) \/ SizeFails(p)
                              \/ ExecReadFails(p)
      PROVE  \A q \in Procs : LoadOf(q)'
  <2>1. PICK c \in {NoCall, Doing("close", call[p].fid)} : Answer(p, c)
    BY <1>2 DEF OpenFails, SeekFails, Stated, SizeFails, ExecReadFails
  <2>2. UNCHANGED <<files, shared>>
    BY <1>2 DEF OpenFails, SeekFails, Stated, SizeFails, ExecReadFails
  <2>3. c.op \in {"none", "close"}
    BY <2>1, DoingFacts
  <2> QED BY <1>d, <2>1, <2>2, <2>3
<1>3. ASSUME NEW p \in Procs, Closed(p) \/ ExecClosed(p) PROVE \A q \in Procs : LoadOf(q)'
  <2>1. /\ call[p].op \in Holding /\ shared' = shared
        /\ files' = [files EXCEPT ![call[p].fid] = None]
    BY <1>3 DEF Closed, ExecClosed, FsClose, Holding
  <2>2. PICK c : Answer(p, c) /\ c.op \in {"none", "exec"}
    BY <1>3, DoingFacts DEF Closed, ExecClosed
  <2>3. \A m \in Fids : m # call[p].fid => files'[m] = files[m]
    BY <1>0, <2>1
  <2>4. call'[p] = c /\ \A q \in Procs : q # p => call'[q] = call[q]
    BY <1>b, <2>2
  <2>5. LoadOf(p)'
    BY <2>2, <2>4, NoLoad
  <2> QED BY <1>e, <2>1, <2>3, <2>4, <2>5, LoadsKept
<1>4. ASSUME NEW p \in Procs, NEW pos \in Nat, PosSet(p, pos)
      PROVE  \A q \in Procs : LoadOf(q)'
  <2> DEFINE n == call[p].fid
  <2>1. /\ call[p].op = "seek" /\ files[n] # None /\ Answer(p, NoCall) /\ shared' = shared
        /\ files' = [files EXCEPT ![n].pos = pos]
    BY <1>4 DEF PosSet
  <2>2. PICK fd \in Fds : n \in Fids /\ FdNames(p, fd, n)
    BY <1>0, <2>1, InCall DEF SeekInv, FidsOf, FdNames
  <2>3. \A m \in Fids : m # n => files'[m] = files[m]
    BY <1>0, <2>1, PosTyped
  <2>4. call'[p] = NoCall /\ \A q \in Procs : q # p => call'[q] = call[q]
    BY <1>b, <2>1
  <2>5. LoadOf(p)'
    BY <2>4, DoingFacts, NoLoad
  <2> HIDE DEF n
  <2>6. \A q \in Procs : call[q].op \in {"size", "read"} /\ call[q].fid \notin shared =>
          call[q].fid # n
    BY <1>c, <2>2 DEF NameInv
  <2> QED BY <1>0, <2>1, <2>3, <2>4, <2>5, <2>6, LoadsKept
<1>5. ASSUME NEW p \in Procs, Sized(p) PROVE \A q \in Procs : LoadOf(q)'
  <2> DEFINE f == files[call[p].fid]
             c == [op |-> "read", fid |-> call[p].fid, path |-> call[p].path,
                   size |-> Size[f.path], got |-> << >>]
  <2>1. Answer(p, c) /\ call[p].op = "size" /\ UNCHANGED <<files, shared>>
    BY <1>5 DEF Sized
  <2>2. /\ c.op = "read" /\ c.fid = call[p].fid /\ c.path = call[p].path
        /\ c.size = Size[f.path] /\ c.got = << >>
    OBVIOUS
  <2> HIDE DEF c
  <2>3. call'[p] = c /\ \A q \in Procs : q # p => call'[q] = call[q]
    BY <1>b, <2>1
  <2>4. call[p].fid \notin shared =>
          /\ f # None /\ f.path = call[p].path /\ f.pos = Len(<< >>) /\ f.pos < Size[f.path]
    BY <2>1 DEF LoadOf
  <2>5. << >> = [i \in 1 .. Len(<< >>) |-> <<call[p].path, i - 1>>]
    OBVIOUS
  <2> HIDE DEF f
  <2>6. LoadOf(p)'
    <3>1. files'[call'[p].fid] = f /\ shared' = shared
      BY <2>1, <2>2, <2>3 DEF f
    <3> QED BY <2>2, <2>3, <2>4, <2>5, <3>1 DEF LoadOf
  <2> QED BY <2>1, <2>3, <2>6, LoadsKept
<1>6. ASSUME NEW p \in Procs, ExecRead(p) PROVE \A q \in Procs : LoadOf(q)'
  <2> DEFINE c    == call[p]
             f    == files[c.fid]
             more == f.pos < Size[f.path]
             got  == IF more THEN Append(c.got, <<f.path, f.pos>>) ELSE c.got
             done == ~more \/ Len(got) = c.size
             c2   == [op |-> IF done THEN "loaded" ELSE "read", fid |-> c.fid,
                      path |-> c.path, size |-> c.size, got |-> got]
             f2   == [path |-> f.path, pos |-> IF more THEN f.pos + 1 ELSE f.pos]
  <2>1. /\ c.op = "read" /\ c.fid \in Fids /\ f \in File /\ c \in Call
        /\ Answer(p, c2) /\ files' = [files EXCEPT ![c.fid] = f2] /\ f2 \in File
    BY <1>6, ExecReadStep
  <2>2. shared' = shared
    BY <1>6 DEF ExecRead
  <2>3. /\ c2.fid = c.fid /\ c2.path = c.path /\ c2.size = c.size /\ c2.got = got
        /\ c2.op = IF done THEN "loaded" ELSE "read"
    OBVIOUS
  <2>4. f2.path = f.path /\ f2.pos = IF more THEN f.pos + 1 ELSE f.pos
    OBVIOUS
  <2> HIDE DEF c2, f2
  <2>5. call'[p] = c2 /\ \A q \in Procs : q # p => call'[q] = call[q]
    BY <1>b, <2>1
  <2>6. files'[c.fid] = f2 /\ \A m \in Fids : m # c.fid => files'[m] = files[m]
    BY <1>0, <2>1
  <2>7. ASSUME c.fid \notin shared PROVE LoadOf(p)'
    <3>1. /\ f.path = c.path /\ f.pos = Len(c.got) /\ f.pos < Size[f.path]
          /\ c.got = [i \in 1 .. Len(c.got) |-> <<c.path, i - 1>>]
          /\ c.size = Size[c.path]
      BY <2>1, <2>7 DEF LoadOf
    <3>2. /\ c.got \in Seq(Paths \X Nat) /\ f.path \in Paths /\ f.pos \in Nat
          /\ Size[f.path] \in Nat
      BY <2>1, TypeParts, TableAssumption DEF File
    <3>3. got = Append(c.got, <<c.path, Len(c.got)>>)
      BY <3>1
    <3>4. Len(got) = Len(c.got) + 1 /\ got = [i \in 1 .. Len(got) |-> <<c.path, i - 1>>]
      <4>1. <<c.path, Len(c.got)>> \in Paths \X Nat
        BY <3>1, <3>2
      <4> HIDE DEF got, f, c
      <4> QED BY <3>1, <3>2, <3>3, <4>1, AppendLoad
    <3>5. f2.pos = Len(got) /\ f2.path = c.path /\ f2 # None
      BY <2>1, <2>4, <3>1, <3>4, NoneAssumption
    <3>6. c2.op = IF Len(got) = Size[c.path] THEN "loaded" ELSE "read"
      BY <2>3, <3>1
    <3>7. Len(got) <= Size[c.path] /\ Len(got) \in Nat /\ Size[c.path] \in Nat
      BY <3>1, <3>2, <3>4
    <3> HIDE DEF got, f, c, done, more
    <3>8. /\ call'[p].fid = c.fid /\ call'[p].path = c.path /\ call'[p].got = got
          /\ call'[p].op = IF Len(got) = Size[c.path] THEN "loaded" ELSE "read"
          /\ call'[p].size = Size[c.path] /\ files'[call'[p].fid] = f2
      BY <2>3, <2>5, <2>6, <3>1, <3>6
    <3>9. call'[p].got = [i \in 1 .. Len(call'[p].got) |-> <<call'[p].path, i - 1>>]
      BY <3>4, <3>8
    <3>10. call'[p].op = "read" => /\ f2 # None /\ f2.path = call'[p].path
                                  /\ f2.pos = Len(call'[p].got) /\ f2.pos < Size[f2.path]
                                  /\ call'[p].size = Size[f2.path]
      BY <3>5, <3>7, <3>8
    <3>11. call'[p].op \in {"read", "loaded"}
           /\ (call'[p].op = "loaded" => Len(call'[p].got) = Size[call'[p].path])
      BY <3>8
    <3> QED BY <3>8, <3>9, <3>10, <3>11 DEF LoadOf
  <2>8. ASSUME c.fid \in shared PROVE LoadOf(p)'
    BY <2>2, <2>3, <2>5, <2>8 DEF LoadOf
  <2>9. LoadOf(p)'
    BY <2>7, <2>8
  <2>10. \A q \in Procs :
           q # p /\ call[q].op \in {"size", "read"} /\ call[q].fid \notin shared' =>
             files'[call[q].fid] = files[call[q].fid]
    <3>1. call[p].op \in Holding
      BY <2>1 DEF Holding
    <3> QED BY <1>e, <2>2, <2>6, <3>1
  <2> HIDE DEF c, f, more, got, done
  <2> QED BY <2>2, <2>5, <2>9, <2>10, LoadsKept
<1>7. \A path \in Paths : 0 .. Size[path] \subseteq Nat
  BY TableAssumption
<1> QED BY <1>1, <1>2, <1>3, <1>4, <1>5, <1>6, <1>7 DEF Serve

LEMMA NextLoads ==
  ASSUME TypeOK, NameInv, SeekInv, \A q \in Procs : LoadOf(q), [Next]_vars
  PROVE  \A q \in Procs : LoadOf(q)'
<1>a. ASSUME UNCHANGED <<call, files>>, shared \subseteq shared'
      PROVE  \A q \in Procs : LoadOf(q)'
  BY <1>a, LoadKept
<1>b. ASSUME NEW p \in Procs, NEW c, call' = [call EXCEPT ![p] = c],
             c.op \notin {"size", "read", "loaded"}, UNCHANGED <<files, shared>>
      PROVE  \A q \in Procs : LoadOf(q)'
  <2>1. call'[p] = c /\ \A q \in Procs : q # p => call'[q] = call[q]
    BY <1>b, TypeParts
  <2>2. LoadOf(p)'
    BY <1>b, <2>1, NoLoad
  <2> QED BY <1>b, <2>1, <2>2, LoadsKept
<1>1. ASSUME NEW p \in Procs, NEW path \in Paths,
             OpenAt(p, path) \/ NewFstatAt(p, path) \/ Execve(p, path)
      PROVE  \A q \in Procs : LoadOf(q)'
  <2>1. PICK c : call' = [call EXCEPT ![p] = c] /\ c.op \in Opens
    BY <1>1, OpenStage
  <2>2. UNCHANGED <<files, shared>>
    BY <1>1 DEF OpenAt, NewFstatAt, Execve
  <2> QED BY <1>b, <2>1, <2>2 DEF Opens
<1>2. ASSUME NEW p \in Procs, NEW fd \in Fds,
             OpenAtAlloc(p, fd) \/ CloseFile(p, fd) \/ SetPos(p, fd)
      PROVE  \A q \in Procs : LoadOf(q)'
  <2>1. PICK c : call' = [call EXCEPT ![p] = c] /\ c.op \in {"none", "close", "seek"}
    BY <1>2, DoingFacts DEF OpenAtAlloc, CloseFile, SetPos
  <2>2. UNCHANGED <<files, shared>>
    BY <1>2 DEF OpenAtAlloc, CloseFile, SetPos
  <2> QED BY <1>b, <2>1, <2>2
<1>3. ASSUME NEW p \in Procs, NEW old \in Fds, NEW arg \in Fds, NEW fd \in Fds,
             \/ Dup(p, old, fd) \/ Dup3(p, old, arg, fd) \/ DupFd(p, old, arg, fd)
             \/ CloseConsole(p, fd) \/ ClosePipe(p, fd)
      PROVE  \A q \in Procs : LoadOf(q)'
  BY <1>a, <1>3 DEF Dup, Dup3, DupFd, CloseConsole, ClosePipe
<1>4. ASSUME NEW p \in Procs, NEW i \in Pipes, NEW r \in Fds, NEW w \in Fds, Pipe2(p, i, r, w)
      PROVE  \A q \in Procs : LoadOf(q)'
  BY <1>a, <1>4 DEF Pipe2
<1>5. ASSUME NEW p \in Procs, NEW q \in Procs, Clone(p, q) \/ Exit(p)
      PROVE  \A r \in Procs : LoadOf(r)'
  BY <1>a, <1>5 DEF Clone, Exit
<1>6. ASSUME NEW p \in Procs, OpenAtFull(p) \/ ExecDone(p) \/ ExecFails(p)
      PROVE  \A q \in Procs : LoadOf(q)'
  <2>1. PICK c : call' = [call EXCEPT ![p] = c] /\ c.op \in {"none", "close"}
    BY <1>6, DoingFacts DEF OpenAtFull, ExecDone, ExecFails
  <2>2. UNCHANGED <<files, shared>>
    BY <1>6 DEF OpenAtFull, ExecDone, ExecFails
  <2> QED BY <1>b, <2>1, <2>2
<1>7. ASSUME NEW p \in Procs, Request(p) \/ Overlap(p) PROVE \A q \in Procs : LoadOf(q)'
  BY <1>a, <1>7 DEF Request, Overlap
<1>8. CASE Serve
  BY <1>8, ServeLoads
<1>9. CASE UNCHANGED vars
  BY <1>a, <1>9 DEF vars
<1>10. ArgFds \subseteq Fds
  BY ArgFdsAssumption
<1> QED
  BY <1>1, <1>2, <1>3, <1>4, <1>5, <1>6, <1>7, <1>8, <1>9, <1>10 DEF Next, Continue

-----------------------------------------------------------------------------
(* A descriptor names the fid a read or a seek is about.                   *)
LEMMA SeekKept ==
  ASSUME SeekInv,
         \A q \in Procs : call'[q].op = "seek" => call'[q] = call[q] /\ task'[q] = task[q]
  PROVE  SeekInv'
BY DEF SeekInv, FidsOf

LEMMA NextSeek ==
  ASSUME TypeOK, BornInv, SeekInv, [Next]_vars
  PROVE  SeekInv'
<1>a. ASSUME NEW p \in Procs, NEW c, call' = [call EXCEPT ![p] = c], c.op # "seek",
             \A q \in Procs : q # p => task'[q] = task[q]
      PROVE  SeekInv'
  <2>1. call'[p] = c /\ \A q \in Procs : q # p => call'[q] = call[q]
    BY <1>a, TypeParts
  <2> QED BY <1>a, <2>1, SeekKept
<1>b. ASSUME NEW p \in Procs, call[p] = NoCall, call' = call,
             \A q \in Procs : q # p => task'[q] = task[q]
      PROVE  SeekInv'
  BY <1>b, DoingFacts, SeekKept
<1>1. ASSUME NEW p \in Procs, NEW path \in Paths,
             OpenAt(p, path) \/ NewFstatAt(p, path) \/ Execve(p, path)
      PROVE  SeekInv'
  <2>1. PICK c : call' = [call EXCEPT ![p] = c] /\ c.op \in Opens
    BY <1>1, OpenStage
  <2>2. task' = task
    BY <1>1 DEF OpenAt, NewFstatAt, Execve
  <2> QED BY <1>a, <2>1, <2>2 DEF Opens
<1>2. ASSUME NEW p \in Procs, NEW fd \in Fds, SetPos(p, fd) PROVE SeekInv'
  <2> DEFINE n == task[p].fds[fd].n
  <2>1. /\ call' = [call EXCEPT ![p] = Doing("seek", n)] /\ task' = task
        /\ task[p].fds[fd].k = "File" /\ task[p] # None
    BY <1>2 DEF SetPos, Begin
  <2>2. task[p].fds[fd] \in FdKind
    BY <2>1, TypeParts DEF FdMap
  <2>3. n \in Fids /\ task[p].fds[fd] = Kind("File", n)
    BY <2>1, <2>2, KindFacts
  <2> HIDE DEF n
  <2>4. call'[p].fid = n /\ \A q \in Procs : q # p => call'[q] = call[q]
    BY <2>1, TypeParts, DoingFacts
  <2>5. n \in FidsOf(p)
    BY <2>3 DEF FidsOf
  <2>6. \A q \in Procs : FidsOf(q)' = FidsOf(q)
    BY <2>1 DEF FidsOf
  <2> QED BY <2>4, <2>5, <2>6 DEF SeekInv
<1>3. ASSUME NEW p \in Procs, NEW fd \in Fds, OpenAtAlloc(p, fd) \/ CloseFile(p, fd)
      PROVE  SeekInv'
  <2>1. PICK c : call' = [call EXCEPT ![p] = c] /\ c.op \in {"none", "close"}
    BY <1>3, DoingFacts DEF OpenAtAlloc, CloseFile
  <2>2. \A q \in Procs : q # p => task'[q] = task[q]
    BY <1>3, TypeParts DEF OpenAtAlloc, CloseFile
  <2> QED BY <1>a, <2>1, <2>2
<1>4. ASSUME NEW p \in Procs, NEW old \in Fds, NEW arg \in Fds, NEW fd \in Fds,
             \/ Dup(p, old, fd) \/ Dup3(p, old, arg, fd) \/ DupFd(p, old, arg, fd)
             \/ CloseConsole(p, fd) \/ ClosePipe(p, fd)
      PROVE  SeekInv'
  <2>1. call[p] = NoCall /\ call' = call
    BY <1>4 DEF Dup, Dup3, DupFd, CloseConsole, ClosePipe, Begin
  <2>2. \A q \in Procs : q # p => task'[q] = task[q]
    BY <1>4, TypeParts DEF Dup, Dup3, DupFd, CloseConsole, ClosePipe
  <2> QED BY <1>b, <2>1, <2>2
<1>5. ASSUME NEW p \in Procs, NEW i \in Pipes, NEW r \in Fds, NEW w \in Fds, Pipe2(p, i, r, w)
      PROVE  SeekInv'
  <2>1. call[p] = NoCall /\ call' = call /\ \A q \in Procs : q # p => task'[q] = task[q]
    BY <1>5, TypeParts DEF Pipe2, Begin
  <2> QED BY <1>b, <2>1
<1>6. ASSUME NEW p \in Procs, NEW q \in Procs, Clone(p, q) PROVE SeekInv'
  <2>1. q \notin born /\ call' = call /\ \A r \in Procs : r # q => task'[r] = task[r]
    BY <1>6, TypeParts DEF Clone
  <2>2. call[q] = NoCall
    BY <2>1 DEF BornInv, TypeOK
  <2> QED BY <1>b, <2>1, <2>2
<1>7. ASSUME NEW p \in Procs, Exit(p) PROVE SeekInv'
  <2>1. call[p] = NoCall /\ call' = call /\ \A r \in Procs : r # p => task'[r] = task[r]
    BY <1>7, TypeParts DEF Exit
  <2> QED BY <1>b, <2>1
<1>8. ASSUME NEW p \in Procs, OpenAtFull(p) \/ ExecDone(p) \/ ExecFails(p) PROVE SeekInv'
  <2>1. PICK c : call' = [call EXCEPT ![p] = c] /\ c.op \in {"none", "close"}
    BY <1>8, DoingFacts DEF OpenAtFull, ExecDone, ExecFails
  <2>2. \A q \in Procs : q # p => task'[q] = task[q]
    BY <1>8, TypeParts DEF OpenAtFull, ExecDone, ExecFails
  <2> QED BY <1>a, <2>1, <2>2
<1>9. ASSUME NEW p \in Procs, Request(p) \/ Overlap(p) PROVE SeekInv'
  BY <1>9, SeekKept DEF Request, Overlap
<1>10. CASE Serve
  <2>1. \E p \in Procs : \E c : Answer(p, c) /\ c.op # "seek"
    <3>1. ASSUME NEW p \in Procs, NEW n \in Fids, Opened(p, n)
          PROVE  \E c : Answer(p, c) /\ c.op # "seek"
      <4> DEFINE c == Stage(AfterOpen(call[p].op), n, call[p].path)
      <4>1. Answer(p, c) /\ c.op \in {"open", "stat", "size"}
        BY <3>1, AfterOpenFacts, DoingFacts DEF Opened
      <4> HIDE DEF c
      <4> QED BY <4>1
    <3>2. ASSUME NEW p \in Procs, NEW pos,
                 \/ OpenFails(p) \/ Stated(p) \/ Closed(p) \/ SeekFails(p) \/ PosSet(p, pos)
                 \/ SizeFails(p) \/ ExecReadFails(p) \/ ExecClosed(p)
          PROVE  \E c : Answer(p, c) /\ c.op # "seek"
      <4>1. \E c \in {NoCall, Doing("close", call[p].fid), Doing("exec", 0)} : Answer(p, c)
        BY <3>2 DEF OpenFails, Stated, Closed, SeekFails, PosSet, SizeFails, ExecReadFails, ExecClosed
      <4>2. /\ NoCall.op # "seek" /\ Doing("close", call[p].fid).op # "seek"
            /\ Doing("exec", 0).op # "seek"
        BY DoingFacts
      <4> QED BY <4>1, <4>2
    <3>3. ASSUME NEW p \in Procs, Sized(p) PROVE \E c : Answer(p, c) /\ c.op # "seek"
      <4> DEFINE c == [op |-> "read", fid |-> call[p].fid, path |-> call[p].path,
                       size |-> Size[files[call[p].fid].path], got |-> << >>]
      <4>1. Answer(p, c) /\ c.op = "read"
        BY <3>3, SizedStep
      <4> HIDE DEF c
      <4> QED BY <4>1
    <3>4. ASSUME NEW p \in Procs, ExecRead(p) PROVE \E c : Answer(p, c) /\ c.op # "seek"
      <4>1. PICK op \in {"read", "loaded"}, got \in {call[p].got, Append(call[p].got,
                     <<files[call[p].fid].path, files[call[p].fid].pos>>)} :
              Answer(p, [op |-> op, fid |-> call[p].fid, path |-> call[p].path,
                         size |-> call[p].size, got |-> got])
        BY <3>4 DEF ExecRead
      <4> DEFINE c == [op |-> op, fid |-> call[p].fid, path |-> call[p].path,
                       size |-> call[p].size, got |-> got]
      <4>2. c.op # "seek"
        OBVIOUS
      <4> QED BY <4>1, <4>2
    <3> QED BY <1>10, <3>1, <3>2, <3>3, <3>4 DEF Serve
  <2>2. PICK p \in Procs : \E c : Answer(p, c) /\ c.op # "seek"
    BY <2>1
  <2>3. PICK c : Answer(p, c) /\ c.op # "seek"
    BY <2>2
  <2>4. call' = [call EXCEPT ![p] = c] /\ task' = task
    BY <2>3 DEF Answer
  <2> QED BY <1>a, <2>3, <2>4
<1>11. CASE UNCHANGED vars
  BY <1>11, SeekKept DEF vars
<1>12. ArgFds \subseteq Fds
  BY ArgFdsAssumption
<1> QED
  BY <1>1, <1>2, <1>3, <1>4, <1>5, <1>6, <1>7, <1>8, <1>9, <1>10, <1>11, <1>12 DEF Next, Continue

-----------------------------------------------------------------------------
(* A pipe of a TaskStruct with descriptors F and pipes P: its counters are *)
(* the numbers of its ends.                                                *)
FdsOf(F, k) == {fd \in Fds : F[fd] = k}

PipeOK(F, P, i) ==
  LET r == Cardinality(FdsOf(F, Kind("PipeRead", i)))
      w == Cardinality(FdsOf(F, Kind("PipeWrite", i)))
  IN  P[i] = IF r = 0 /\ w = 0 THEN None ELSE [readers |-> r, writers |-> w]

LEMMA PipeFacts ==
  PipeCounts <=> \A p \in Procs : task[p] # None =>
                   \A i \in Pipes \ uneven[p] : PipeOK(task[p].fds, task[p].pipes, i)
BY DEF PipeCounts, PipeOK, FdsOf, Ends

LEMMA FdsFinite ==
  /\ IsFiniteSet(Fds) /\ Cardinality(Fds) = MaxFds
  /\ \A F, k : /\ IsFiniteSet(FdsOf(F, k)) /\ Cardinality(FdsOf(F, k)) \in Nat
               /\ Cardinality(FdsOf(F, k)) <= MaxFds
               /\ Cardinality(FdsOf(F, k)) = 0 <=> FdsOf(F, k) = {}
<1>1. IsFiniteSet(Fds) /\ Cardinality(Fds) = MaxFds
  BY FS_Interval, TableAssumption DEF Fds
<1>2. ASSUME NEW F, NEW k
      PROVE  /\ IsFiniteSet(FdsOf(F, k)) /\ Cardinality(FdsOf(F, k)) \in Nat
             /\ Cardinality(FdsOf(F, k)) <= MaxFds
             /\ Cardinality(FdsOf(F, k)) = 0 <=> FdsOf(F, k) = {}
  <2>1. FdsOf(F, k) \subseteq Fds
    BY DEF FdsOf
  <2>2. IsFiniteSet(FdsOf(F, k)) /\ Cardinality(FdsOf(F, k)) <= MaxFds
    BY <1>1, <2>1, FS_Subset
  <2> QED BY <2>2, FS_CardinalityType, FS_EmptySet
<1> QED BY <1>1, <1>2

(* Steps that write one TaskStruct, or none.                               *)
LEMMA PipesRetasked ==
  ASSUME TypeOK, PipeCounts, NEW q \in Procs, NEW F \in FdMap, NEW P \in PipeMap,
         Retasked(q, F, P), \A p \in Procs : p # q => uneven'[p] = uneven[p],
         \A i \in Pipes \ uneven'[q] : PipeOK(F, P, i)
  PROVE  PipeCounts'
<1>1. /\ task'[q] # None /\ task'[q].fds = F /\ task'[q].pipes = P
      /\ \A p \in Procs : p # q => task'[p] = task[p]
  BY RetaskFacts
<1>2. \A p \in Procs : task'[p] # None =>
        \A i \in Pipes \ uneven'[p] : PipeOK(task'[p].fds, task'[p].pipes, i)
  BY <1>1, PipeFacts
<1> QED BY <1>2 DEF PipeOK, FdsOf, PipeCounts, Ends

LEMMA PipesSame ==
  ASSUME PipeCounts, UNCHANGED <<task, uneven>>
  PROVE  PipeCounts'
BY DEF PipeCounts, Ends

(* The pipe i is as it was when its ends are.                              *)
LEMMA PipeKept ==
  ASSUME NEW F, NEW G, NEW P, NEW Q, NEW i, PipeOK(F, P, i), Q[i] = P[i],
         \A fd \in Fds, k \in {Kind("PipeRead", i), Kind("PipeWrite", i)} :
           G[fd] = k <=> F[fd] = k
  PROVE  PipeOK(G, Q, i)
<1>1. \A k \in {Kind("PipeRead", i), Kind("PipeWrite", i)} : FdsOf(G, k) = FdsOf(F, k)
  BY DEF FdsOf
<1> QED BY <1>1 DEF PipeOK

(* The wrapping subtraction takes one from a counter that is not 0.        *)
LEMMA CountDown ==
  ASSUME NEW c \in Nat, c >= 1, c <= MaxFds
  PROVE  (c + CountMod - 1) % CountMod = c - 1
<1>1. c - 1 \in Nat /\ c - 1 < CountMod /\ CountMod \in Nat /\ CountMod > 0
  BY TableAssumption
<1>2. c + CountMod - 1 = CountMod + (c - 1)
  BY <1>1
<1>3. \A x \in Nat : x < CountMod => (CountMod + x) % CountMod = x
  BY <1>1
<1> QED BY <1>1, <1>2, <1>3

(* Counting down one end of a pipe with r readers and w writers.           *)
LEMMA PipeLeftFacts ==
  ASSUME NEW r \in Nat, NEW w \in Nat, r <= MaxFds, w <= MaxFds, NEW i
  PROVE  LET pipe == [readers |-> r, writers |-> w]
         IN  /\ pipe # None
             /\ r >= 1 => PipeLeft(pipe, Kind("PipeRead", i)) =
                  IF r - 1 = 0 /\ w = 0 THEN None ELSE [readers |-> r - 1, writers |-> w]
             /\ w >= 1 => PipeLeft(pipe, Kind("PipeWrite", i)) =
                  IF r = 0 /\ w - 1 = 0 THEN None ELSE [readers |-> r, writers |-> w - 1]
<1> DEFINE pipe == [readers |-> r, writers |-> w]
<1>1. pipe \in Pipe
  BY TableAssumption DEF Pipe
<1>2. pipe # None /\ pipe.readers = r /\ pipe.writers = w
  BY <1>1, NoneAssumption
<1>3. /\ r >= 1 => (r + CountMod - 1) % CountMod = r - 1
      /\ w >= 1 => (w + CountMod - 1) % CountMod = w - 1
  BY CountDown
<1>4. Kind("PipeRead", i).k = "PipeRead" /\ Kind("PipeWrite", i).k = "PipeWrite"
  BY KindNames
<1> HIDE DEF pipe
<1>5. ASSUME r >= 1
      PROVE  PipeLeft(pipe, Kind("PipeRead", i)) =
               IF r - 1 = 0 /\ w = 0 THEN None ELSE [readers |-> r - 1, writers |-> w]
  BY <1>2, <1>3, <1>4, <1>5 DEF PipeLeft
<1>6. ASSUME w >= 1
      PROVE  PipeLeft(pipe, Kind("PipeWrite", i)) =
               IF r = 0 /\ w - 1 = 0 THEN None ELSE [readers |-> r, writers |-> w - 1]
  BY <1>2, <1>3, <1>4, <1>6 DEF PipeLeft
<1> QED BY <1>2, <1>5, <1>6 DEF pipe

(* Closing one end.                                                        *)
LEMMA EndClosed ==
  ASSUME NEW F \in FdMap, NEW P \in PipeMap, NEW fd \in Fds, NEW i \in Pipes, PipeOK(F, P, i),
         F[fd] \in {Kind("PipeRead", i), Kind("PipeWrite", i)}
  PROVE  PipeOK([F EXCEPT ![fd] = Free], [P EXCEPT ![i] = PipeLeft(@, F[fd])], i)
<1> DEFINE k == F[fd]
           G == [F EXCEPT ![fd] = Free]
           R == FdsOf(F, Kind("PipeRead", i))
           W == FdsOf(F, Kind("PipeWrite", i))
           r == Cardinality(R)
           w == Cardinality(W)
<1>1. /\ IsFiniteSet(R) /\ IsFiniteSet(W) /\ r \in Nat /\ w \in Nat
      /\ r <= MaxFds /\ w <= MaxFds /\ (r = 0 <=> R = {}) /\ (w = 0 <=> W = {})
  BY FdsFinite
<1>2. \A e \in Fds : G[e] = IF e = fd THEN Free ELSE F[e]
  BY DEF FdMap
<1>3. /\ \A x : Free # Kind("PipeRead", x) /\ Free # Kind("PipeWrite", x)
      /\ Kind("PipeRead", i) # Kind("PipeWrite", i)
      /\ Kind("PipeRead", i).k = "PipeRead" /\ Kind("PipeWrite", i).k = "PipeWrite"
  BY KindNames DEF Free
<1> HIDE DEF G
<1>4. FdsOf(G, Kind("PipeRead", i)) = R \ {fd} /\ FdsOf(G, Kind("PipeWrite", i)) = W \ {fd}
  BY <1>2, <1>3 DEF FdsOf
<1>5. P[i] = (IF r = 0 /\ w = 0 THEN None ELSE [readers |-> r, writers |-> w])
  BY DEF PipeOK
<1>6. [P EXCEPT ![i] = PipeLeft(@, k)][i] = PipeLeft(P[i], k)
  BY DEF PipeMap
<1>7. CASE k = Kind("PipeRead", i)
  <2>1. fd \in R /\ fd \notin W
    BY <1>3, <1>7 DEF FdsOf
  <2>2. r # 0 /\ W \ {fd} = W
    BY <1>1, <2>1
  <2>3. Cardinality(R \ {fd}) = r - 1
    BY <1>1, <2>1, FS_RemoveElement
  <2>4. r >= 1
    BY <1>1, <2>2
  <2>5. P[i] = [readers |-> r, writers |-> w]
    BY <1>5, <2>2
  <2> HIDE DEF r, w, k
  <2>6. PipeLeft(P[i], k) = IF r - 1 = 0 /\ w = 0 THEN None ELSE [readers |-> r - 1, writers |-> w]
    <3>1. r \in Nat /\ w \in Nat /\ r <= MaxFds /\ w <= MaxFds
      BY <1>1
    <3>2. PipeLeft([readers |-> r, writers |-> w], Kind("PipeRead", i)) =
            IF r - 1 = 0 /\ w = 0 THEN None ELSE [readers |-> r - 1, writers |-> w]
      BY <2>4, <3>1, PipeLeftFacts
    <3> QED BY <1>7, <2>5, <3>2
  <2>7. /\ Cardinality(FdsOf(G, Kind("PipeRead", i))) = r - 1
        /\ Cardinality(FdsOf(G, Kind("PipeWrite", i))) = w
    BY <1>4, <2>2, <2>3 DEF w
  <2> QED BY <1>6, <2>6, <2>7 DEF PipeOK, G, k
<1>8. CASE k = Kind("PipeWrite", i)
  <2>1. fd \in W /\ fd \notin R
    BY <1>3, <1>8 DEF FdsOf
  <2>2. w # 0 /\ R \ {fd} = R
    BY <1>1, <2>1
  <2>3. Cardinality(W \ {fd}) = w - 1
    BY <1>1, <2>1, FS_RemoveElement
  <2>4. w >= 1
    BY <1>1, <2>2
  <2>5. P[i] = [readers |-> r, writers |-> w]
    BY <1>5, <2>2
  <2> HIDE DEF r, w, k
  <2>6. PipeLeft(P[i], k) = IF r = 0 /\ w - 1 = 0 THEN None ELSE [readers |-> r, writers |-> w - 1]
    <3>1. r \in Nat /\ w \in Nat /\ r <= MaxFds /\ w <= MaxFds
      BY <1>1
    <3>2. PipeLeft([readers |-> r, writers |-> w], Kind("PipeWrite", i)) =
            IF r = 0 /\ w - 1 = 0 THEN None ELSE [readers |-> r, writers |-> w - 1]
      BY <2>4, <3>1, PipeLeftFacts
    <3> QED BY <1>8, <2>5, <3>2
  <2>7. /\ Cardinality(FdsOf(G, Kind("PipeRead", i))) = r
        /\ Cardinality(FdsOf(G, Kind("PipeWrite", i))) = w - 1
    BY <1>4, <2>2, <2>3 DEF r
  <2> QED BY <1>6, <2>6, <2>7 DEF PipeOK, G, k
<1> QED BY <1>7, <1>8

(* No end of a pipe is left, or there never was one.                       *)
LEMMA NoEnds ==
  ASSUME NEW F, NEW P, NEW i, P[i] = None,
         \A fd \in Fds : F[fd] \in {Free, Console}
  PROVE  PipeOK(F, P, i)
<1>1. \A k \in {Kind("PipeRead", i), Kind("PipeWrite", i)} : FdsOf(F, k) = {}
  BY KindNames DEF FdsOf, Free, Console
<1> QED BY <1>1, FS_EmptySet DEF PipeOK

(* pipe2: the new pipe had no end before.                                  *)
LEMMA PipeMade ==
  ASSUME NEW F \in FdMap, NEW P \in PipeMap, NEW i \in Pipes, NEW r \in Fds, NEW w \in Fds, r # w,
         PipeOK(F, P, i), P[i] = None
  PROVE  PipeOK([[F EXCEPT ![r] = Kind("PipeRead", i)] EXCEPT ![w] = Kind("PipeWrite", i)],
                [P EXCEPT ![i] = [readers |-> 1, writers |-> 1]], i)
<1> DEFINE G == [[F EXCEPT ![r] = Kind("PipeRead", i)] EXCEPT ![w] = Kind("PipeWrite", i)]
           R == FdsOf(F, Kind("PipeRead", i))
           W == FdsOf(F, Kind("PipeWrite", i))
<1>1. R = {} /\ W = {}
  <2>1. /\ Cardinality(R) \in Nat /\ Cardinality(W) \in Nat
        /\ Cardinality(R) <= MaxFds /\ Cardinality(W) <= MaxFds
        /\ (Cardinality(R) = 0 <=> R = {}) /\ (Cardinality(W) = 0 <=> W = {})
    BY FdsFinite
  <2>2. [readers |-> Cardinality(R), writers |-> Cardinality(W)] \in Pipe
    BY <2>1, TableAssumption DEF Pipe
  <2> QED BY <2>1, <2>2, NoneAssumption DEF PipeOK
<1>2. \A e \in Fds : G[e] = IF e = w THEN Kind("PipeWrite", i)
                            ELSE IF e = r THEN Kind("PipeRead", i) ELSE F[e]
  BY DEF FdMap
<1>3. Kind("PipeRead", i) # Kind("PipeWrite", i)
  BY KindNames
<1> HIDE DEF G
<1>4. FdsOf(G, Kind("PipeRead", i)) = {r} /\ FdsOf(G, Kind("PipeWrite", i)) = {w}
  BY <1>1, <1>2, <1>3 DEF FdsOf
<1>5. /\ Cardinality(FdsOf(G, Kind("PipeRead", i))) = 1
      /\ Cardinality(FdsOf(G, Kind("PipeWrite", i))) = 1
  BY <1>4, FS_Singleton
<1>6. [P EXCEPT ![i] = [readers |-> 1, writers |-> 1]][i] = [readers |-> 1, writers |-> 1]
  BY DEF PipeMap
<1> QED BY <1>5, <1>6 DEF PipeOK, G

LEMMA NextPipes ==
  ASSUME TypeOK, PipeCounts, [Next]_vars
  PROVE  PipeCounts'
<1>0. ASSUME NEW p \in Procs, task[p] # None
      PROVE  /\ task[p].fds \in FdMap /\ task[p].pipes \in PipeMap
             /\ \A fd \in Fds : task[p].fds[fd] \in FdKind
             /\ \A i \in Pipes \ uneven[p] : PipeOK(task[p].fds, task[p].pipes, i)
  BY <1>0, TypeParts, PipeFacts DEF FdMap
<1>a. \A i : /\ Free # Kind("PipeRead", i) /\ Free # Kind("PipeWrite", i)
             /\ Console # Kind("PipeRead", i) /\ Console # Kind("PipeWrite", i)
  BY KindNames DEF Free, Console
<1>b. \A n, i : Kind("File", n) # Kind("PipeRead", i) /\ Kind("File", n) # Kind("PipeWrite", i)
  BY KindNames
<1>c. ASSUME NEW k \in FdKind, NEW i, k \in {Kind("PipeRead", i), Kind("PipeWrite", i)}
      PROVE  i \in Unevens(k)
  BY <1>c, KindNames DEF Unevens
<1>1. ASSUME NEW p \in Procs, NEW fd \in Fds,
             CloseConsole(p, fd) \/ CloseFile(p, fd) \/ OpenAtAlloc(p, fd)
      PROVE  PipeCounts'
  <2>1. task[p] # None /\ uneven' = uneven
    BY <1>1, InCall DEF CloseConsole, CloseFile, OpenAtAlloc, Begin
  <2>2. task[p].fds[fd].k \in {"Console", "File", "Free"}
    BY <1>1 DEF CloseConsole, CloseFile, OpenAtAlloc, Lowest, FreeFds, Free, Console, Kind
  <2>3. PICK l \in {Free, Kind("File", call[p].fid)} : task' = [task EXCEPT ![p].fds[fd] = l]
    BY <1>1 DEF CloseConsole, CloseFile, OpenAtAlloc
  <2>4. l \in FdKind
    BY <2>3, Kinds, TypeParts
  <2> DEFINE F == [task[p].fds EXCEPT ![fd] = l]
  <2>5. F \in FdMap /\ task[p].pipes \in PipeMap /\ Retasked(p, F, task[p].pipes)
    BY <2>1, <2>3, <2>4, OneFd
  <2>6. \A e \in Fds : F[e] = IF e = fd THEN l ELSE task[p].fds[e]
    BY <1>0, <2>1 DEF FdMap
  <2>7. \A i : /\ l # Kind("PipeRead", i) /\ l # Kind("PipeWrite", i)
               /\ task[p].fds[fd] # Kind("PipeRead", i) /\ task[p].fds[fd] # Kind("PipeWrite", i)
    BY <1>a, <1>b, <2>2, <2>3, KindNames
  <2> HIDE DEF F
  <2>8. \A i \in Pipes \ uneven'[p] : PipeOK(F, task[p].pipes, i)
    BY <1>0, <2>1, <2>6, <2>7, PipeKept
  <2> QED BY <2>1, <2>5, <2>8, PipesRetasked
<1>2. ASSUME NEW p \in Procs, NEW fd \in Fds, ClosePipe(p, fd) PROVE PipeCounts'
  <2> DEFINE k == task[p].fds[fd]
             F == [task[p].fds EXCEPT ![fd] = Free]
             P == [task[p].pipes EXCEPT ![k.n] = PipeLeft(@, k)]
  <2>1. /\ task[p] # None /\ k \in FdKind /\ k.k \in {"PipeRead", "PipeWrite"} /\ k.n \in Pipes
        /\ F \in FdMap /\ P \in PipeMap /\ Retasked(p, F, P) /\ uneven' = uneven
    BY <1>2, ClosePipeTask DEF ClosePipe
  <2>2. k \in {Kind("PipeRead", k.n), Kind("PipeWrite", k.n)}
    BY <2>1, KindFacts
  <2>3. /\ \A e \in Fds : F[e] = IF e = fd THEN Free ELSE task[p].fds[e]
        /\ \A i \in Pipes : i # k.n => P[i] = task[p].pipes[i]
    BY <1>0, <2>1 DEF FdMap, PipeMap
  <2>4. k.n \notin uneven[p] => PipeOK(F, P, k.n)
    BY <1>0, <2>1, <2>2, EndClosed
  <2>5. \A i : i # k.n => k # Kind("PipeRead", i) /\ k # Kind("PipeWrite", i)
    BY KindNames
  <2>6. ASSUME NEW i \in Pipes \ uneven[p], i # k.n PROVE PipeOK(F, P, i)
    <3>1. \A e \in Fds, l \in {Kind("PipeRead", i), Kind("PipeWrite", i)} :
            F[e] = l <=> task[p].fds[e] = l
      BY <1>a, <2>3, <2>5, <2>6
    <3>2. PipeOK(task[p].fds, task[p].pipes, i) /\ P[i] = task[p].pipes[i]
      BY <1>0, <2>1, <2>3, <2>6
    <3> HIDE DEF F, P, k
    <3> QED BY <3>1, <3>2, PipeKept
  <2> HIDE DEF F, P, k
  <2> QED BY <2>1, <2>4, <2>6, PipesRetasked
<1>3. ASSUME NEW p \in Procs, NEW old \in Fds, NEW arg \in Fds, NEW fd \in Fds,
             Dup(p, old, fd) \/ DupFd(p, old, arg, fd)
      PROVE  PipeCounts'
  <2> DEFINE k == task[p].fds[old]
  <2>1. task[p] # None /\ task[p].fds[fd] = Free
    BY <1>3 DEF Dup, DupFd, Begin, Lowest, FreeFds
  <2>2. k \in FdKind
    BY <1>0, <2>1
  <2>3. PICK l \in FdKind :
          /\ task' = [task EXCEPT ![p].fds[fd] = l]
          /\ \/ l = k /\ uneven' = [uneven EXCEPT ![p] = @ \cup Unevens(k)]
             \/ l.k \in {"File", "Console"} /\ uneven' = uneven
    BY <1>3, <2>2, Kinds DEF Dup, DupFd, Console, Kind
  <2>4. /\ \A q \in Procs : q # p => uneven'[q] = uneven[q]
        /\ uneven[p] \subseteq uneven'[p]
        /\ \A i \in Pipes \ uneven'[p] : l # Kind("PipeRead", i) /\ l # Kind("PipeWrite", i)
    <3>1. CASE l = k /\ uneven' = [uneven EXCEPT ![p] = @ \cup Unevens(k)]
      <4>1. uneven'[p] = uneven[p] \cup Unevens(k) /\ \A q \in Procs : q # p => uneven'[q] = uneven[q]
        BY <3>1 DEF TypeOK
      <4> QED BY <1>c, <2>2, <3>1, <4>1
    <3>2. CASE l.k \in {"File", "Console"} /\ uneven' = uneven
      BY <3>2, KindNames
    <3> QED BY <2>3, <3>1, <3>2
  <2> DEFINE F == [task[p].fds EXCEPT ![fd] = l]
  <2>5. F \in FdMap /\ task[p].pipes \in PipeMap /\ Retasked(p, F, task[p].pipes)
    BY <2>1, <2>3, OneFd
  <2>6. \A e \in Fds : F[e] = IF e = fd THEN l ELSE task[p].fds[e]
    BY <1>0, <2>1 DEF FdMap
  <2> HIDE DEF F, k
  <2>7. \A i \in Pipes \ uneven'[p] : PipeOK(F, task[p].pipes, i)
    BY <1>0, <1>a, <2>1, <2>4, <2>6, PipeKept
  <2> QED BY <2>4, <2>5, <2>7, PipesRetasked
<1>4. ASSUME NEW p \in Procs, NEW old \in Fds, NEW arg \in Fds, NEW fd \in Fds,
             Dup3(p, old, arg, fd)
      PROVE  PipeCounts'
  <2> DEFINE k == task[p].fds[old]
             o == task[p].fds[arg]
             F == [[task[p].fds EXCEPT ![arg] = Free] EXCEPT ![fd] = k]
  <2>1. /\ uneven' = [uneven EXCEPT ![p] = @ \cup Unevens(k) \cup Unevens(o)]
        /\ [task[p].fds EXCEPT ![arg] = Free][fd] = Free
    BY <1>4 DEF Dup3, Lowest, FreeFds
  <2>2. /\ task[p] # None /\ F \in FdMap /\ task[p].pipes \in PipeMap
        /\ Retasked(p, F, task[p].pipes) /\ k \in FdKind /\ o \in FdKind
    BY <1>4, Dup3Task
  <2>3. /\ \A e \in Fds : F[e] = IF e = fd THEN k ELSE IF e = arg THEN Free ELSE task[p].fds[e]
        /\ fd = arg \/ task[p].fds[fd] = Free
    BY <1>0, <2>1, <2>2 DEF FdMap
  <2>4. /\ uneven'[p] = uneven[p] \cup Unevens(k) \cup Unevens(o)
        /\ \A q \in Procs : q # p => uneven'[q] = uneven[q]
    BY <2>1 DEF TypeOK
  <2>5. \A i \in Pipes \ uneven'[p] :
          /\ k # Kind("PipeRead", i) /\ k # Kind("PipeWrite", i)
          /\ o # Kind("PipeRead", i) /\ o # Kind("PipeWrite", i)
    BY <1>c, <2>2, <2>4
  <2> HIDE DEF F, k
  <2>6. ASSUME NEW i \in Pipes \ uneven'[p] PROVE PipeOK(F, task[p].pipes, i)
    <3>1. \A e \in Fds, l \in {Kind("PipeRead", i), Kind("PipeWrite", i)} :
            F[e] = l <=> task[p].fds[e] = l
      BY <1>a, <2>3, <2>5, <2>6
    <3> QED BY <1>0, <2>2, <2>4, <2>6, <3>1, PipeKept
  <2> QED BY <2>2, <2>4, <2>6, PipesRetasked
<1>5. ASSUME NEW p \in Procs, NEW i \in Pipes, NEW r \in Fds, NEW w \in Fds, Pipe2(p, i, r, w)
      PROVE  PipeCounts'
  <2> DEFINE F == [[task[p].fds EXCEPT ![r] = Kind("PipeRead", i)] EXCEPT ![w] = Kind("PipeWrite", i)]
             P == [task[p].pipes EXCEPT ![i] = [readers |-> 1, writers |-> 1]]
  <2>1. /\ task[p] # None /\ r # w /\ task[p].fds[r] = Free /\ task[p].fds[w] = Free
        /\ task[p].pipes[i] = None /\ F \in FdMap /\ P \in PipeMap /\ Retasked(p, F, P)
        /\ uneven' = uneven
    BY <1>5, Pipe2Task DEF Pipe2
  <2>2. /\ \A e \in Fds : F[e] = IF e = w THEN Kind("PipeWrite", i)
                                 ELSE IF e = r THEN Kind("PipeRead", i) ELSE task[p].fds[e]
        /\ \A j \in Pipes : j # i => P[j] = task[p].pipes[j]
    BY <1>0, <2>1 DEF FdMap, PipeMap
  <2>3. i \notin uneven[p] => PipeOK(F, P, i)
    BY <1>0, <2>1, PipeMade
  <2>4. ASSUME NEW j \in Pipes \ uneven[p], j # i PROVE PipeOK(F, P, j)
    <3>1. /\ Kind("PipeWrite", i) # Kind("PipeWrite", j) /\ Kind("PipeWrite", i) # Kind("PipeRead", j)
          /\ Kind("PipeRead", i) # Kind("PipeWrite", j) /\ Kind("PipeRead", i) # Kind("PipeRead", j)
      BY <2>4, KindNames
    <3>2. \A e \in Fds, l \in {Kind("PipeRead", j), Kind("PipeWrite", j)} :
            F[e] = l <=> task[p].fds[e] = l
      BY <1>a, <2>1, <2>2, <3>1
    <3>3. PipeOK(task[p].fds, task[p].pipes, j) /\ P[j] = task[p].pipes[j]
      BY <1>0, <2>1, <2>2, <2>4
    <3> HIDE DEF F, P
    <3> QED BY <3>2, <3>3, PipeKept
  <2> HIDE DEF F, P
  <2> QED BY <2>1, <2>3, <2>4, PipesRetasked
<1>6. ASSUME NEW p \in Procs, NEW q \in Procs, Clone(p, q) PROVE PipeCounts'
  <2>1. /\ task[p] # None /\ task[p].fds \in FdMap /\ task[p].pipes \in PipeMap
        /\ Retasked(q, task[p].fds, task[p].pipes)
    BY <1>6, CloneTask
  <2>2. uneven'[q] = uneven[p] /\ \A r \in Procs : r # q => uneven'[r] = uneven[r]
    BY <1>6 DEF Clone, TypeOK
  <2> QED BY <1>0, <2>1, <2>2, PipesRetasked
<1>7. ASSUME NEW p \in Procs, ExecDone(p) PROVE PipeCounts'
  <2>1. Retasked(p, NewTask.fds, NewTask.pipes)
    BY <1>7, NewTaskTyped DEF ExecDone, Retasked
  <2>2. \A q \in Procs : q # p => uneven'[q] = uneven[q]
    BY <1>7 DEF ExecDone, TypeOK
  <2>3. \A i \in Pipes : PipeOK(NewTask.fds, NewTask.pipes, i)
    BY NewTaskTyped, NoEnds
  <2> QED BY <2>1, <2>2, <2>3, NewTaskTyped, PipesRetasked
<1>8. ASSUME NEW p \in Procs, Exit(p) PROVE PipeCounts'
  <2>1. /\ task' = [task EXCEPT ![p] = None] /\ uneven' = uneven
        /\ task \in [Procs -> TaskStruct \cup {None}]
    BY <1>8, TypeParts DEF Exit
  <2>2. \A q \in Procs : task'[q] # None => task'[q] = task[q]
    BY <2>1
  <2> QED BY <2>1, <2>2 DEF PipeCounts, Ends
<1>9. ASSUME NEW p \in Procs, NEW path, NEW fd,
             OpenAt(p, path) \/ NewFstatAt(p, path) \/ Execve(p, path) \/ SetPos(p, fd)
      PROVE  PipeCounts'
  BY <1>9, PipesSame DEF OpenAt, NewFstatAt, Execve, SetPos
<1>10. CASE Serve
  BY <1>10, ServeLeaves, PipesSame
<1>11. ASSUME NEW p \in Procs, Request(p) \/ Overlap(p) \/ OpenAtFull(p) \/ ExecFails(p)
       PROVE  PipeCounts'
  BY <1>11, PipesSame DEF Request, Overlap, OpenAtFull, ExecFails
<1>12. CASE UNCHANGED vars
  BY <1>12, PipesSame DEF vars
<1>13. ArgFds \subseteq Fds /\ 0 \in Fds
  BY ArgFdsAssumption, TableAssumption DEF Fds
<1> QED
  BY <1>1, <1>2, <1>3, <1>4, <1>5, <1>6, <1>7, <1>8, <1>9, <1>10, <1>11, <1>12, <1>13
  DEF Next, Continue

-----------------------------------------------------------------------------
LEMMA InitTask == Init => TaskInv
<1> SUFFICES ASSUME Init PROVE TaskInv
  OBVIOUS
<1>1. /\ \A p \in Procs : call[p] = NoCall /\ (task[p] # None => p = First /\ task[p] = NewTask)
      /\ \A n \in Fids : files[n] = None
      /\ First \in Procs /\ born = {First} /\ shared = {}
  BY TableAssumption DEF Init
<1>2. BornInv
  BY <1>1 DEF BornInv
<1>3. \A p \in Procs, n \in Fids : ~CallNames(p, n)
  BY <1>1, IdleNames
<1>4. \A p \in Procs, fd \in Fds, n \in Fids : ~FdNames(p, fd, n)
  BY <1>1, NewTaskTyped, KindNames DEF FdNames, Free, Console
<1>5. NameInv /\ OpenInv
  BY <1>1, <1>3, <1>4 DEF NameInv, OpenInv
<1>6. \A p \in Procs : LoadOf(p)
  BY <1>1, DoingFacts DEF LoadOf
<1>7. \A i \in Pipes : PipeOK(NewTask.fds, NewTask.pipes, i)
  BY NewTaskTyped, NoEnds
<1>8. PipeCounts
  BY <1>1, <1>7, PipeFacts
<1>9. SeekInv
  BY <1>1, DoingFacts DEF SeekInv
<1> QED BY <1>2, <1>5, <1>6, <1>8, <1>9, NamesFromInv, LoadFacts DEF TaskInv

LEMMA NextTask ==
  ASSUME TypeOK, TaskInv, [Next]_vars
  PROVE  TaskInv'
<1>1. BornInv /\ SeekInv /\ NameInv /\ OpenInv /\ PipeCounts /\ \A p \in Procs : LoadOf(p)
  BY NamesFromInv, LoadFacts DEF TaskInv
<1>2. BornInv' /\ SeekInv' /\ PipeCounts'
  BY <1>1, NextBorn, NextSeek, NextPipes
<1>3. NameInv' /\ OpenInv'
  BY <1>1, NextNames
<1>4. (\A p \in Procs : LoadOf(p))'
  BY <1>1, NextLoads
<1>5. (NameInv' <=> OneName') /\ (OpenInv' <=> OpenIsNamed')
  BY NamesFromInv, PTL
<1>6. (ReadInv' /\ ExecLoadsProgram') <=> (\A p \in Procs : LoadOf(p))'
  BY LoadFacts, PTL
<1> QED BY <1>2, <1>3, <1>4, <1>5, <1>6 DEF TaskInv

(* The inductive invariant: types, only created processes have a task,     *)
(* fids and pipe ends are named and counted, and execve's loop is where    *)
(* the server's position is (LinuxTask).                                   *)
THEOREM TaskInvHolds == Spec => [](TypeOK /\ TaskInv)
<1>1. Init => TypeOK /\ TaskInv
  BY InitTyped, InitTask
<1>2. TypeOK /\ TaskInv /\ [Next]_vars => (TypeOK /\ TaskInv)'
  BY NextTyped, NextTask
<1> QED BY <1>1, <1>2, PTL DEF Spec

(* The tables of every process and of the file server keep their types     *)
(* under every order of system calls (fd_table.rs, usr/fs/file.rs).        *)
THEOREM TasksTyped == Spec => []TypeOK
BY TaskInvHolds, PTL

(* Up to the first request that overlaps another, a fid that dup, dup3,    *)
(* fcntl and clone left alone since it was opened is open, and named once, *)
(* as long as any process names it: sys_close and sys_lseek of other       *)
(* descriptors cannot reach the file (FsServer.fd_tables[0]).              *)
THEOREM FidsNamedOnce == Spec => []OneName
<1>1. TypeOK /\ TaskInv => OneName
  BY DEF TaskInv
<1> QED BY <1>1, TaskInvHolds, PTL

(* Up to the first overlap, sys_openat, sys_newfstatat, sys_execve and     *)
(* sys_close leave no file open that nobody names, their error paths       *)
(* included; only exit, exec and dup3 do.                                  *)
THEOREM OpenFilesNamed == Spec => []OpenIsNamed
<1>1. TypeOK /\ TaskInv => OpenIsNamed
  BY DEF TaskInv
<1> QED BY <1>1, TaskInvHolds, PTL

(* Up to the first overlap, sys_execve reads the program it opened, in     *)
(* order and to its end, whatever the other processes ask of the file      *)
(* server between its requests, unless its fid is a duplicated one.        *)
THEOREM ExecLoadsWhatItOpened == Spec => []ExecLoadsProgram
<1>1. TypeOK /\ TaskInv => ExecLoadsProgram
  BY DEF TaskInv
<1> QED BY <1>1, TaskInvHolds, PTL

(* The counters of a pipe that dup and dup3 left alone are the numbers of  *)
(* its ends, so sys_close never wraps one below 0 and frees the pipe with  *)
(* its last end; up to the first overlap, after which a process may        *)
(* overwrite its own memory.                                               *)
THEOREM PipeEndsCounted == Spec => []PipeCounts
<1>1. TypeOK /\ TaskInv => PipeCounts
  BY DEF TaskInv
<1> QED BY <1>1, TaskInvHolds, PTL

=============================================================================
