----------------------------- MODULE CloneExec ------------------------------
(***************************************************************************)
(* How a task is made and how it takes on a new program: sys_clone() with  *)
(* the writes into user memory that follow clone_(), vfork, the execve     *)
(* calls up to and past their point of no return, and the two ways out     *)
(* (exit of a thread, exit of the group), with the robust-futex lists the  *)
(* kernel walks for a thread that goes (syscall/process.rs, task/task.rs). *)
(*                                                                         *)
(* A call is a list of steps; a step that fails ends the call.  A lock is  *)
(* a futex word in memory every process shares.                            *)
(***************************************************************************)
EXTENDS Integers, Sequences, SequencesExt, TLC

CONSTANTS
    CxTasks,       \* task control blocks
    CxLocks,       \* futex words
    CxScenarios    \* records: the tasks there are, their robust lists, their programs

VARIABLES
    cxSc,
    cxT,       \* task control blocks
    cxLife,    \* ProcessLifecycle, by the number of the process
    cxKids,    \* tasks some process has as a child
    cxMgr,     \* TASK_MANAGER
    cxFd,      \* file tables: the descriptors that are open
    cxWord,    \* futex words
    cxQueue,   \* tasks asleep on a word
    cxOp       \* the call of each task

cxVars == <<cxSc, cxT, cxLife, cxKids, cxMgr, cxFd, cxWord, cxQueue, cxOp>>
CxErr == -1
Whole == {"tid", "stack", "tls"}
NoTask == [st |-> "none", proc |-> 0, tid |-> 0, mm |-> 0, fds |-> 0, vf |-> 0, init |-> {}]
CxIdle == [todo |-> <<>>, k |-> 0, ret |-> 0, who |-> 0, list |-> <<>>, val |-> <<>>, sibs |-> {}, was |-> <<>>]

CxInit ==
    /\ cxSc \in CxScenarios
    /\ cxT = [t \in CxTasks |-> IF cxSc.proc[t] = 0 THEN NoTask
                 ELSE [st |-> "ready", proc |-> cxSc.proc[t], tid |-> t, mm |-> cxSc.proc[t], fds |-> cxSc.proc[t],
                       vf |-> 0, init |-> Whole]]
    /\ cxLife = [p \in CxTasks |-> "run"]
    /\ cxKids = {}
    /\ cxMgr = {t \in CxTasks : cxSc.proc[t] # 0}
    /\ cxFd = [f \in CxTasks |-> {"keep", "cloexec"}]
    /\ cxWord = [w \in CxLocks |-> [owner |-> cxSc.held[w], waiters |-> FALSE, died |-> FALSE]]
    /\ cxQueue = [w \in CxLocks |-> {}]
    /\ cxOp = [t \in CxTasks |-> CxIdle]

CxCall(t) == cxSc.prog[t][cxOp[t].k]
CxRuns(t) == cxT[t].st = "ready"
CxAt(t, s) == CxRuns(t) /\ cxOp[t].todo # <<>> /\ Head(cxOp[t].todo) = s
CxPut(t, r) == cxOp' = [cxOp EXCEPT ![t] = r @@ @]
CxDo(t, r) == CxPut(t, [todo |-> Tail(cxOp[t].todo)] @@ r)
CxThen(t, more, r) == CxPut(t, [todo |-> more \o Tail(cxOp[t].todo)] @@ r)
CxOver(t, ret) == CxPut(t, [todo |-> <<>>, ret |-> ret])
Group(t) == {u \in CxTasks : cxT[u].proc = cxT[t].proc /\ cxT[u].st \notin {"none", "dead"}}
CxKeep == UNCHANGED <<cxSc, cxLife, cxKids, cxMgr, cxFd, cxWord, cxQueue>>     \* all but cxT, cxOp

-----------------------------------------------------------------------------
MakeChild == <<"flags", "clone", "parent_settid", "child_settid">>
\* sys_clone(): the child is whole, and the parent of a vfork Blocked, before
\* the child can run.
sys_clone == MakeChild \o <<"context", "vfork", "add_task", "switch">>
Prepare == <<"copy", "lookup", "permission", "head", "load">>
Script == <<"copy", "lookup", "permission", "head", "lookup", "permission", "head", "load">>
release_early == <<"user_stack", "begin_exec", "siblings", "adopt", "walk", "release", "swap", "files", "close_on_exec", "finish_exec">>             \* mutant
\* install_exec_image()
install_exec_image == <<"user_stack", "begin_exec", "siblings", "adopt", "walk", "swap", "files", "close_on_exec", "finish_exec", "release">>
CxSteps(call) ==
    CASE call.op = "clone" -> sys_clone
      [] call.op = "exec" -> (IF call.script THEN Script ELSE Prepare) \o install_exec_image
      [] call.op = "exit" -> <<"task_exit">>
      [] call.op = "exit_group" -> <<"begin_exit">>
      [] call.op = "lock" -> <<"lock">>
      [] call.op = "unlock" -> <<"unlock">>

cx_begin(t) ==
    /\ CxRuns(t) /\ cxOp[t].todo = <<>> /\ cxOp[t].k < Len(cxSc.prog[t])
    /\ CxPut(t, [todo |-> CxSteps(cxSc.prog[t][cxOp[t].k + 1]), k |-> cxOp[t].k + 1, ret |-> 0, who |-> t, list |-> cxSc.robust[t],
                 was |-> [mm |-> cxT[t].mm, fds |-> cxT[t].fds, group |-> Group(t)]])
    /\ CxKeep /\ UNCHANGED cxT

-----------------------------------------------------------------------------
(* sys_clone()                                                             *)

Has(t, f) == f \in CxCall(t).flags
clone_flags(t) ==
    /\ CxAt(t, "flags")
    /\ IF (Has(t, "THREAD") /\ ~Has(t, "SIGHAND")) \/ (Has(t, "SIGHAND") /\ ~Has(t, "VM"))
       THEN CxOver(t, CxErr) ELSE CxDo(t, <<>>)
    /\ CxKeep /\ UNCHANGED cxT
\* clone_(): what the flags share and what is the child's own; everything
\* that may fail, then the child is entered everywhere.
NewTask(t, c) ==
    LET p == cxT[t]
        thread == Has(t, "THREAD")
    IN  [st |-> "new", proc |-> IF thread THEN p.proc ELSE c, tid |-> c, mm |-> IF Has(t, "VM") THEN p.mm ELSE c,
         fds |-> IF thread \/ Has(t, "FILES") THEN p.fds ELSE c, vf |-> 0, init |-> {}]
clone_(t) ==
    /\ CxAt(t, "clone")
    /\ LET c == CxCall(t).child
           own == NewTask(t, c)
           thread == Has(t, "THREAD")
       IN  IF CxCall(t).fail = "clone" THEN CxOver(t, CxErr) /\ UNCHANGED <<cxT, cxKids, cxMgr, cxFd>>
           ELSE /\ cxT' = [cxT EXCEPT ![c] = own]
                /\ cxKids' = IF thread THEN cxKids ELSE cxKids \cup {c}
                /\ cxMgr' = cxMgr \cup {c}
                /\ cxFd' = IF own.fds = c THEN [cxFd EXCEPT ![c] = cxFd[cxT[t].fds]] ELSE cxFd
                /\ CxDo(t, <<>>)
    /\ UNCHANGED <<cxSc, cxLife, cxWord, cxQueue>>
\* The writes of the child's number; either may find the address bad.
clone_settid(t) ==
    /\ CxAt(t, "parent_settid") \/ CxAt(t, "child_settid")
    /\ IF CxCall(t).fail = Head(cxOp[t].todo) THEN CxOver(t, CxErr) /\ UNCHANGED cxT
       ELSE /\ cxT' = IF CxAt(t, "child_settid") THEN [cxT EXCEPT ![CxCall(t).child].init = @ \cup {"tid"}] ELSE cxT
            /\ CxDo(t, <<>>)
    /\ CxKeep
clone_context(t) ==
    /\ CxAt(t, "context")
    /\ cxT' = [cxT EXCEPT ![CxCall(t).child].init = @ \cup {"stack", "tls"}]
    /\ CxDo(t, <<>>) /\ CxKeep
\* prepare_current_task_blocked() refuses only where no task runs, which
\* sys_clone() has excluded before.
clone_vfork(t) ==
    /\ CxAt(t, "vfork")
    /\ cxT' = IF Has(t, "VFORK") THEN [cxT EXCEPT ![CxCall(t).child].vf = t, ![t].st = "blocked"] ELSE cxT
    /\ CxDo(t, <<>>) /\ CxKeep
\* A parent that is Blocked still runs up to its switch.
add_task(t) ==
    /\ cxT[t].st \in {"ready", "blocked"} /\ cxOp[t].todo # <<>> /\ Head(cxOp[t].todo) = "add_task"
    /\ cxT' = [cxT EXCEPT ![CxCall(t).child].st = "ready"]
    /\ CxDo(t, <<>>) /\ CxKeep
clone_return(t) == CxAt(t, "switch") /\ CxOver(t, CxCall(t).child) /\ CxKeep /\ UNCHANGED cxT
\* release_vfork_parent()
release(t) ==
    /\ CxAt(t, "release")
    /\ LET v == cxT[t].vf
       IN  cxT' = [u \in CxTasks |-> CASE u = v /\ cxT[u].st = "blocked" -> [cxT[u] EXCEPT !.st = "ready"]
                                       [] u = t -> [cxT[u] EXCEPT !.vf = 0]
                                       [] OTHER -> cxT[u]]
    /\ CxDo(t, <<>>) /\ CxKeep

-----------------------------------------------------------------------------
(* execve(), execveat()                                                    *)

\* The arguments, the file, the permission, the head of the file (a script's
\* interpreter goes the same way), the image and its stack: any may fail.
exec_prepare(t) ==
    /\ \E s \in {"copy", "lookup", "permission", "head", "load", "user_stack"} : CxAt(t, s)
    /\ IF CxCall(t).fail = Head(cxOp[t].todo) THEN CxOver(t, CxErr) ELSE CxDo(t, <<>>)
    /\ CxKeep /\ UNCHANGED cxT
begin_exec(t) ==
    /\ CxAt(t, "begin_exec")
    /\ IF cxLife[cxT[t].proc] = "run"
       THEN cxLife' = [cxLife EXCEPT ![cxT[t].proc] = "exec"] /\ CxDo(t, <<>>)
       ELSE CxOver(t, CxErr) /\ UNCHANGED cxLife
    /\ UNCHANGED <<cxSc, cxT, cxKids, cxMgr, cxFd, cxWord, cxQueue>>
\* close_other_threads_for_exec(): the siblings stop where they are, then
\* their robust lists are walked and they go.
Stopped(t) == [u \in CxTasks |-> IF u \in Group(t) \ {t} THEN [cxT[u] EXCEPT !.st = "stopped"] ELSE cxT[u]]
close_other_threads_for_exec(t) ==
    /\ CxAt(t, "siblings")
    /\ cxT' = Stopped(t)
    /\ CxThen(t, <<"retire">>, [sibs |-> Group(t) \ {t}])
    /\ CxKeep
retire(t) ==
    /\ CxAt(t, "retire")
    /\ IF cxOp[t].sibs = {} THEN CxDo(t, [who |-> t, list |-> cxSc.robust[t]])
       ELSE \E u \in cxOp[t].sibs :
              CxPut(t, [todo |-> <<"walk", "retired">> \o cxOp[t].todo, who |-> u, list |-> cxSc.robust[u], sibs |-> cxOp[t].sibs \ {u}])
    /\ CxKeep /\ UNCHANGED cxT
\* exit_thread_inner()
forget(u) == cxMgr \ {u}
Gone(u) == [cxT EXCEPT ![u].st = "dead"]
retired(t) ==
    /\ CxAt(t, "retired")
    /\ LET u == cxOp[t].who
       IN  cxT' = Gone(u) /\ cxMgr' = forget(u) /\ cxQueue' = [w \in CxLocks |-> cxQueue[w] \ {u}]
    /\ CxDo(t, <<>>)
    /\ UNCHANGED <<cxSc, cxLife, cxKids, cxFd, cxWord>>
\* adopt_process_tgid_for_exec()
adopt_process_tgid(t) == [cxT EXCEPT ![t].tid = cxT[t].proc]
adopt(t) == CxAt(t, "adopt") /\ cxT' = adopt_process_tgid(t) /\ CxDo(t, <<>>) /\ CxKeep
swap_image(t) == CxAt(t, "swap") /\ cxT' = [cxT EXCEPT ![t].mm = t] /\ CxDo(t, <<>>) /\ CxKeep
\* unshare_fd_table_for_exec(), close_on_exec()
unshare_fd_table(t) == IF \E u \in CxTasks \ {t} : cxT[u].fds = cxT[t].fds /\ cxT[u].st # "dead" THEN t ELSE cxT[t].fds
exec_files(t) ==
    /\ CxAt(t, "files")
    /\ cxT' = [cxT EXCEPT ![t].fds = unshare_fd_table(t)]
    /\ cxFd' = [cxFd EXCEPT ![unshare_fd_table(t)] = cxFd[cxT[t].fds]]
    /\ CxDo(t, <<>>)
    /\ UNCHANGED <<cxSc, cxLife, cxKids, cxMgr, cxWord, cxQueue>>
exec_close_on_exec(t) ==
    /\ CxAt(t, "close_on_exec")
    /\ cxFd' = [cxFd EXCEPT ![cxT[t].fds] = @ \ {"cloexec"}]
    /\ CxDo(t, <<>>)
    /\ UNCHANGED <<cxSc, cxT, cxLife, cxKids, cxMgr, cxWord, cxQueue>>
finish_exec(t) ==
    /\ CxAt(t, "finish_exec")
    /\ cxLife' = [cxLife EXCEPT ![cxT[t].proc] = "run"]
    /\ CxDo(t, <<>>)
    /\ UNCHANGED <<cxSc, cxT, cxKids, cxMgr, cxFd, cxWord, cxQueue>>

-----------------------------------------------------------------------------
(* Robust lists                                                            *)

\* exit_robust_list(): the entries in order, up to one that cannot be read.
exit_robust_list(t) ==
    /\ CxAt(t, "walk")
    /\ IF cxOp[t].list = <<>> \/ Head(cxOp[t].list) = 0 THEN CxDo(t, <<>>)
       ELSE CxPut(t, [todo |-> <<"entry">> \o cxOp[t].todo, val |-> cxWord[Head(cxOp[t].list)]])
    /\ CxKeep /\ UNCHANGED cxT
\* futex_wake() of one.
Woken(t, w) == IF cxQueue[w] = {} THEN {} ELSE {CHOOSE u \in cxQueue[w] : TRUE}
wakes_one(t, w) == Woken(t, w)
\* handle_robust_entry(): the word read before is written back, marked.
handle_robust_entry(t) ==
    /\ CxAt(t, "entry")
    /\ LET o == cxOp[t]
           w == Head(o.list)
           ours == o.val.owner # 0 /\ o.val.owner = cxT[o.who].tid
           woken == IF ours THEN wakes_one(t, w) ELSE {}
       IN  /\ cxWord' = [cxWord EXCEPT ![w] = IF ours THEN [owner |-> 0, waiters |-> o.val.waiters, died |-> TRUE] ELSE @]
           /\ cxQueue' = [cxQueue EXCEPT ![w] = @ \ woken]
           /\ cxT' = [u \in CxTasks |-> IF u \in woken /\ cxT[u].st = "blocked" THEN [cxT[u] EXCEPT !.st = "ready"] ELSE cxT[u]]
           /\ CxDo(t, [list |-> Tail(o.list)])
    /\ UNCHANGED <<cxSc, cxLife, cxKids, cxMgr, cxFd>>

-----------------------------------------------------------------------------
(* exit(), exit_group()                                                    *)

\* task_exit(): one thread of several, or the group.
task_exit(t) ==
    /\ CxAt(t, "task_exit")
    /\ CxPut(t, [todo |-> IF cxLife[cxT[t].proc] # "run" \/ Group(t) = {t} THEN <<"begin_exit">> ELSE <<"walk", "retired">>])
    /\ CxKeep /\ UNCHANGED cxT
\* exit_process_group(): one winner; the others wait for it to end them.
begin_exit(t) ==
    /\ CxAt(t, "begin_exit") /\ cxLife[cxT[t].proc] = "run"
    /\ cxLife' = [cxLife EXCEPT ![cxT[t].proc] = "exit"]
    /\ cxT' = Stopped(t)
    /\ CxPut(t, [todo |-> <<"retire", "walk", "zombie">>, sibs |-> Group(t) \ {t}, was |-> [cxOp[t].was EXCEPT !.group = Group(t)]])
    /\ UNCHANGED <<cxSc, cxKids, cxMgr, cxFd, cxWord, cxQueue>>
\* The leader, if it is still in the group, or this task releases the parent.
zombie(t) ==
    /\ CxAt(t, "zombie")
    /\ LET there == {u \in cxOp[t].was.group : cxT[u].tid = cxT[t].proc}
           vs == {cxT[u].vf : u \in IF there = {} THEN {t} ELSE there}
       IN  cxT' = [u \in CxTasks |-> CASE u = t -> [cxT[u] EXCEPT !.st = "dead"]
                                       [] u \in vs /\ cxT[u].st = "blocked" -> [cxT[u] EXCEPT !.st = "ready"]
                                       [] OTHER -> cxT[u]]
    /\ cxLife' = [cxLife EXCEPT ![cxT[t].proc] = "zombie"]
    /\ cxMgr' = forget(t)
    /\ CxDo(t, <<>>)
    /\ UNCHANGED <<cxSc, cxKids, cxFd, cxWord, cxQueue>>

-----------------------------------------------------------------------------
(* A robust lock in user code.                                             *)

user_lock(t) ==
    /\ CxAt(t, "lock")
    /\ LET w == CxCall(t).w
           word == cxWord[w]
       IN  IF word.owner = 0
           THEN /\ cxWord' = [cxWord EXCEPT ![w] = [owner |-> cxT[t].tid, waiters |-> word.waiters, died |-> FALSE]]
                /\ CxDo(t, <<>>)
           ELSE /\ cxWord' = [cxWord EXCEPT ![w].waiters = TRUE]
                /\ CxThen(t, <<"futex_wait", "lock">>, [val |-> [word EXCEPT !.waiters = TRUE]])
    /\ UNCHANGED <<cxSc, cxT, cxLife, cxKids, cxMgr, cxFd, cxQueue>>
\* futex_wait(): asleep only if the word is what was seen.
user_wait(t) ==
    /\ CxAt(t, "futex_wait")
    /\ LET w == CxCall(t).w
           same == cxWord[w] = cxOp[t].val
       IN  /\ cxQueue' = [cxQueue EXCEPT ![w] = IF same THEN @ \cup {t} ELSE @]
           /\ cxT' = [cxT EXCEPT ![t].st = IF same THEN "blocked" ELSE @]
    /\ CxDo(t, <<>>)
    /\ UNCHANGED <<cxSc, cxLife, cxKids, cxMgr, cxFd, cxWord>>
user_unlock(t) ==
    /\ CxAt(t, "unlock")
    /\ LET w == CxCall(t).w
           woken == IF cxWord[w].waiters THEN Woken(t, w) ELSE {}
       IN  /\ cxWord' = [cxWord EXCEPT ![w] = [owner |-> 0, waiters |-> FALSE, died |-> FALSE]]
           /\ cxQueue' = [cxQueue EXCEPT ![w] = @ \ woken]
           /\ cxT' = [u \in CxTasks |-> IF u \in woken /\ cxT[u].st = "blocked" THEN [cxT[u] EXCEPT !.st = "ready"] ELSE cxT[u]]
    /\ CxDo(t, <<>>)
    /\ UNCHANGED <<cxSc, cxLife, cxKids, cxMgr, cxFd>>

CxNext ==
    \E t \in CxTasks :
       \/ cx_begin(t) \/ clone_flags(t) \/ clone_(t) \/ clone_settid(t) \/ clone_context(t) \/ clone_vfork(t) \/ add_task(t)
       \/ clone_return(t) \/ release(t) \/ exec_prepare(t) \/ begin_exec(t) \/ close_other_threads_for_exec(t) \/ retire(t)
       \/ retired(t) \/ adopt(t) \/ swap_image(t) \/ exec_files(t) \/ exec_close_on_exec(t) \/ finish_exec(t)
       \/ exit_robust_list(t) \/ handle_robust_entry(t) \/ task_exit(t) \/ begin_exit(t) \/ zombie(t)
       \/ user_lock(t) \/ user_wait(t) \/ user_unlock(t)
CxSpec == CxInit /\ [][CxNext]_cxVars

-----------------------------------------------------------------------------
(* Properties.                                                             *)

CxLast(t) == IF cxOp[t].k = 0 THEN [op |-> "none"] ELSE CxCall(t)
CxReturned(t, op) == cxT[t].st = "ready" /\ cxOp[t].todo = <<>> /\ CxLast(t).op = op
CxLive(t) == cxT[t].st \notin {"none", "dead"}

\* Types; and the task manager knows exactly the tasks there are.
CxTypeOK ==
    /\ cxMgr = {t \in CxTasks : CxLive(t)}
    /\ \A t, u \in cxMgr : t # u => cxT[t].tid # cxT[u].tid \/ cxT[t].st = "stopped" \/ cxT[u].st = "stopped"
    /\ cxLife \in [CxTasks -> {"run", "exec", "exit", "zombie"}]

\* A task the task manager and its process know of, and that cannot run yet, is
\* one whose clone() is still at work: a clone() that ends with an error leaves
\* none behind. It does when its last failure is clone_()'s own ("避免外部观察到
\* 半初始化任务", task.rs:852-853); CxBadAddress is a later one.
NoHalfChild ==
    \A c \in CxTasks : cxT[c].st = "new" =>
       \E t \in CxTasks : cxOp[t].todo # <<>> /\ CxCall(t).op = "clone" /\ CxCall(t).child = c

\* An execve() that returns an error left the program as it was: its memory,
\* its files and its other threads ("失败必须保持旧映像可继续执行", process.rs:1306).
FailedExecKeepsImage ==
    \A t \in CxTasks : (CxReturned(t, "exec") /\ cxOp[t].ret = CxErr) =>
       LET was == cxOp[t].was
       IN  /\ cxT[t].mm = was.mm /\ cxT[t].fds = was.fds
           /\ \A u \in was.group : CxLive(u) \/ CxLast(u).op = "exit"

\* After an execve() that succeeded the process is one thread with the number
\* of the process, and its file table is its own.
ExecLeavesOne ==
    \A t \in CxTasks : (CxReturned(t, "exec") /\ cxOp[t].ret = 0) =>
       /\ Group(t) = {t} /\ cxT[t].tid = cxT[t].proc
       /\ \A u \in CxTasks \ {t} : CxLive(u) => cxT[u].fds # cxT[t].fds /\ cxT[u].mm # cxT[t].mm

\* The parent of a vfork does not run while the child uses its memory.
VforkHolds ==
    \A p \in CxTasks : (CxReturned(p, "clone") /\ cxOp[p].ret > 0 /\ Has(p, "VFORK")) =>
       LET c == CxCall(p).child IN ~(cxT[c].st = "ready" /\ cxT[c].mm = cxT[p].mm)

\* And it does not sleep any longer: while it sleeps, someone of the child's
\* process is still in that memory, or on its way out of it.
VforkReleases ==
    \A p \in CxTasks : (cxT[p].st = "blocked" /\ CxLast(p).op = "clone") =>
       \E u \in CxTasks : /\ cxT[u].proc = CxCall(p).child /\ CxLive(u)
                         /\ (cxT[u].mm = cxT[p].mm \/ cxOp[u].todo # <<>>)

\* Who sleeps on a robust lock sleeps while its owner is there to release it,
\* while a list is being walked, or behind another that was woken.
RobustReleased ==
    \A w \in CxLocks : cxQueue[w] # {} =>
       \/ \E v \in cxMgr : cxT[v].tid = cxWord[w].owner
       \/ \E v \in CxTasks : CxLive(v) /\ cxT[v].st # "blocked" /\ cxOp[v].todo # <<>> /\ CxLast(v).op # "clone"

-----------------------------------------------------------------------------
(***************************************************************************)
(* What execve() builds before its point of no return: the argument vector *)
(* a script's first line asks for (syscall/process.rs), the metadata image *)
(* of the ELF file and the areas of the new address space                  *)
(* (mm/memory_set.rs), and the initial stack (task/task.rs).  Each is a    *)
(* computation on its inputs; the machine below runs them in order on      *)
(* every input of ImgInputs and keeps what they return.                    *)
(*                                                                         *)
(* A file is described by its program headers; a byte of it by its offset. *)
(* A string is a token with a length.                                      *)
(***************************************************************************)

CONSTANTS
    PAGE_SIZE, WORD, STACK_ALIGN,
    USER_STACK_SIZE, PIE_LOAD_OFFSET, DL_INTERP_OFFSET,
    RANDOM_BYTES, PLATFORM_LEN,
    ELF64_HEADER_SIZE, ELF64_PROGRAM_HEADER_SIZE, ELF_METADATA_LIMIT, ELF_INTERP_LIMIT,
    ImgInputs      \* records: the file, its interpreter, argv, envp

VARIABLES
    imgIn,     \* the input
    imgPc,     \* what is computed next, or how it ended
    imgArgs,   \* the argument vector
    imgMeta,   \* where each byte of the metadata image is from
    imgMem,    \* the address space
    imgStack   \* the initial stack
imgVars == <<imgIn, imgPc, imgArgs, imgMeta, imgMem, imgStack>>

ImgStart(s) ==
    /\ imgIn = s
    /\ imgPc = "head" /\ imgArgs = <<>> /\ imgMeta = <<>> /\ imgMem = <<>> /\ imgStack = <<>>
ImgInit == \E s \in ImgInputs : ImgStart(s)

-----------------------------------------------------------------------------
(* The argument vector.                                                    *)

Str(tok, len) == [tok |-> tok, len |-> len]
\* shebang_args(): a shell is the busybox of the image; another interpreter
\* keeps its name and at most one argument; argv[0] gives way to the script.
drops_argv0(a) == IF a = <<>> THEN <<>> ELSE Tail(a)
shebang_args(in) ==
    (CASE in.head = "sh" -> <<Str("busybox", 7), Str("sh", 2)>>
       [] in.head = "interp" -> <<Str("interp", 6)>>
       [] in.head = "interp_arg" -> <<Str("interp", 6), Str("opt", 3)>>)
    \o <<in.exe>> \o drops_argv0(in.args)
\* exec_fs_file(): ELF, or a script whose interpreter is one; execve() of an
\* empty vector makes one of an empty string.
exec_fs_file ==
    /\ imgPc = "head"
    /\ LET args == IF imgIn.head = "elf" THEN imgIn.args ELSE shebang_args(imgIn)
       IN  IF imgIn.head = "other" THEN imgPc' = "ENOEXEC" /\ UNCHANGED imgArgs
           ELSE imgPc' = "metadata" /\ imgArgs' = IF args = <<>> THEN <<Str("", 0)>> ELSE args
    /\ UNCHANGED <<imgIn, imgMeta, imgMem, imgStack>>

-----------------------------------------------------------------------------
(* read_elf_metadata(): the headers, and a copy of each PT_INTERP string,  *)
(* which its header then points to.                                        *)

PhEnd(f) == f.phoff + f.phnum * ELF64_PROGRAM_HEADER_SIZE
MetaOK(f) ==
    /\ f.size >= ELF64_HEADER_SIZE /\ f.phnum > 0
    /\ PhEnd(f) <= f.size /\ PhEnd(f) <= ELF_METADATA_LIMIT
    /\ \A i \in DOMAIN f.interps : f.interps[i].off + f.interps[i].len <= f.size /\ f.interps[i].len \in 1..ELF_INTERP_LIMIT
\* A metadata image: its length, and the relocated strings.
append_interp(m, s) == [len |-> m.len + s.len, at |-> m.at @@ (Len(m.seen) + 1 :> m.len), seen |-> Append(m.seen, s)]
Relocated(f) == FoldLeft(append_interp, [len |-> Max({PhEnd(f), ELF64_HEADER_SIZE}), at |-> <<>>, seen |-> <<>>], f.interps)
\* The file's byte at position p of the image, -1 where there is none.
MetaByte(f, m, p) ==
    LET ends == [i \in DOMAIN m.seen |-> Max({PhEnd(f), ELF64_HEADER_SIZE}) + FoldLeft(LAMBDA a, s : a + s.len, 0, SubSeq(m.seen, 1, i))]
        in == {i \in DOMAIN m.seen : p < ends[i] /\ p >= ends[i] - m.seen[i].len}
    IN  IF p < Max({PhEnd(f), ELF64_HEADER_SIZE}) THEN p
        ELSE IF in = {} THEN -1 ELSE LET i == CHOOSE j \in in : TRUE IN m.seen[i].off + (p - (ends[i] - m.seen[i].len))
read_elf_metadata ==
    /\ imgPc = "metadata"
    /\ IF MetaOK(imgIn.file) /\ Relocated(imgIn.file).len <= ELF_METADATA_LIMIT
       THEN imgMeta' = Relocated(imgIn.file) /\ imgPc' = "load"
       ELSE imgPc' = "ENOEXEC" /\ UNCHANGED imgMeta
    /\ UNCHANGED <<imgIn, imgArgs, imgMem, imgStack>>

-----------------------------------------------------------------------------
(* try_from_elf_source(): areas.                                           *)

Floor(a) == a \div PAGE_SIZE
Ceil(a) == (a + PAGE_SIZE - 1) \div PAGE_SIZE
\* A PT_LOAD that the file cannot fill, or that starts before the file does.
SegmentOK(f, s) == s.filesz <= s.memsz /\ s.off + s.filesz <= f.size /\ s.off >= (s.va % PAGE_SIZE)
backing_len(s, start) == (start % PAGE_SIZE) + s.filesz
load_segment(s, bias) ==
    LET start == s.va + bias
    IN  [first |-> Floor(start), end |-> Ceil(start + s.memsz), off |-> s.off - (start % PAGE_SIZE), len |-> backing_len(s, start)]
Areas(f, bias) == {load_segment(f.loads[i], bias) : i \in DOMAIN f.loads}
LastPage(as) == Max({a.end : a \in as} \cup {0})
Dynamic(in) == in.file.interps # <<>>
load_bias(in) == IF in.file.pie /\ Dynamic(in) THEN PIE_LOAD_OFFSET ELSE 0
\* The interpreter, from the file system or built in; without one the program
\* starts by itself.
NeedDl(in) == Dynamic(in) /\ in.linker # <<>>
user_stack_bottom(pages) == pages * PAGE_SIZE + PAGE_SIZE
heap_bottom(app, all, top, dl) == IF dl THEN app * PAGE_SIZE + PAGE_SIZE ELSE top + PAGE_SIZE
app_entry_point(in) == in.file.entry + load_bias(in)
Image(in) ==
    LET app == Areas(in.file, load_bias(in))
        dl == NeedDl(in)
        linker == IF dl THEN Areas(in.linker, DL_INTERP_OFFSET) ELSE {}
        bottom == user_stack_bottom(LastPage(app \cup linker))
        top == bottom + USER_STACK_SIZE
    IN  [app |-> app, linker |-> linker, stack |-> [first |-> Floor(bottom), end |-> Floor(top)], top |-> top,
         heap |-> heap_bottom(LastPage(app), LastPage(app \cup linker), top, dl),
         entry |-> IF dl THEN in.linker.entry + DL_INTERP_OFFSET ELSE app_entry_point(in),
         at_entry |-> app_entry_point(in),
         at_phdr |-> in.file.loads[1].va + load_bias(in) + in.file.phoff,
         aux |-> 10 + IF dl THEN 1 ELSE 0]
try_from_elf_source ==
    /\ imgPc = "load"
    /\ IF \A f \in {imgIn.file} \cup (IF NeedDl(imgIn) THEN {imgIn.linker} ELSE {}) : \A i \in DOMAIN f.loads : SegmentOK(f, f.loads[i])
       THEN imgMem' = Image(imgIn) /\ imgPc' = "stack"
       ELSE imgPc' = "ENOEXEC" /\ UNCHANGED imgMem
    /\ UNCHANGED <<imgIn, imgArgs, imgMeta, imgStack>>

-----------------------------------------------------------------------------
(* init_user_stack(): from the top down, strings, platform, random bytes,  *)
(* and the vectors.                                                        *)

align_down(a) == a - (a % STACK_ALIGN)
\* push_strings_to_stack(): the final NUL and then the bytes.
push_string(acc, s) == [sp |-> acc.sp - 1 - s.len, at |-> Append(acc.at, acc.sp - 1 - s.len)]
push_strings_to_stack(strs, sp) ==
    LET all == FoldLeft(push_string, [sp |-> sp, at |-> <<>>], strs) IN [all EXCEPT !.sp = align_down(@)]
pointer_count(argc, envc, aux) == 1 + argc + 1 + envc + 1 + aux * 2
padding(n) == (STACK_ALIGN - ((n * WORD) % STACK_ALIGN)) % STACK_ALIGN
\* push_usize_to_stack() n times, and the terminating zero of a vector.
push_words(sp, n) == sp - n * WORD
stack_of(top, args, envs, exe, aux0) ==
    LET envp == push_strings_to_stack(envs, align_down(top))
        argv == push_strings_to_stack(args, envp.sp)
        execfn == argv.sp - 1 - exe.len
        below == align_down(execfn) - (PLATFORM_LEN + 1)
        platform == below - (below % WORD)
        random == platform - RANDOM_BYTES
        aux == aux0 + 4
        start == random - padding(pointer_count(Len(args), Len(envs), aux))
        auxv == push_words(start, 2 * aux)
        envv == push_words(auxv, Len(envs) + 1)
        argvv == push_words(envv, Len(args) + 1)
    IN  [sp |-> push_words(argvv, 1), argv_base |-> argvv, envp_base |-> envv, auxv_base |-> auxv, auxv_end |-> start,
         argv |-> argv.at, envp |-> envp.at, execfn |-> execfn, platform |-> platform, random |-> random]
init_user_stack ==
    /\ imgPc = "stack"
    /\ imgStack' = stack_of(imgMem.top, imgArgs, imgIn.envs, imgIn.exe, imgMem.aux)
    /\ imgPc' = "done"
    /\ UNCHANGED <<imgIn, imgArgs, imgMeta, imgMem>>

ImgNext == exec_fs_file \/ read_elf_metadata \/ try_from_elf_source \/ init_user_stack
ImgSpec == ImgInit /\ [][ImgNext]_imgVars

-----------------------------------------------------------------------------
(* Properties.                                                             *)

ImgLoaded == imgPc \in {"stack", "done"}
\* Types: the computation ends in an image or an error, and no area reads
\* before or past the end of its file.
ImgTypeOK ==
    /\ imgPc \in {"head", "metadata", "load", "stack", "done", "ENOEXEC"}
    /\ (imgPc = "done") = (imgStack # <<>>) /\ ImgLoaded = (imgMem # <<>>)
    /\ ImgLoaded => \A a \in imgMem.app : a.off >= 0 /\ a.off + a.len <= imgIn.file.size

\* Every header that names an interpreter points, in the metadata image, at
\* the bytes it pointed at in the file, however far away they were.
InterpFollowed ==
    imgMeta # <<>> => \A i \in DOMAIN imgMeta.seen : \A b \in 0..(imgMeta.seen[i].len - 1) :
       MetaByte(imgIn.file, imgMeta, imgMeta.at[i] + b) = imgMeta.seen[i].off + b

\* Every byte of a segment reads as the file's byte or, past its size in the
\* file, as zero, wherever in its page the segment starts.
AreaByte(a, va) == LET rel == va - a.first * PAGE_SIZE IN IF rel < a.len THEN a.off + rel ELSE -1
SegmentBytes ==
    ImgLoaded => \A i \in DOMAIN imgIn.file.loads :
       LET s == imgIn.file.loads[i]
           a == load_segment(s, load_bias(imgIn))
       IN  \A b \in {0, 1, s.filesz - 1, s.filesz, s.memsz - 1} \cap (0..(s.memsz - 1)) :
             /\ AreaByte(a, s.va + load_bias(imgIn) + b) = IF b < s.filesz THEN s.off + b ELSE -1
             /\ (s.va + load_bias(imgIn) + b) \div PAGE_SIZE \in a.first..(a.end - 1)

\* The stack has an unmapped page below it, and the heap starts outside every
\* area, with nothing of the program above it that it would run into at once.
ImageApart ==
    ImgLoaded =>
       LET as == imgMem.app \cup imgMem.linker
       IN  /\ \A a \in as : a.end < imgMem.stack.first
           /\ \A a \in as \cup {imgMem.stack} : Floor(imgMem.heap) \notin (a.first - 1)..(a.end - 1)
           /\ \A a \in imgMem.app : Floor(imgMem.heap) >= a.end

\* The initial stack is what a program's start code expects: sp aligned,
\* argc, argv, envp and the auxiliary vector one after another from sp, each
\* pointer at its own string, and no string over another or over a vector.
StackLayout ==
    imgPc = "done" =>
       LET s == imgStack
           n == Len(imgArgs)
           m == Len(imgIn.envs)
           texts == {<<s.argv[i], imgArgs[i].len + 1>> : i \in 1..n} \cup {<<s.envp[i], imgIn.envs[i].len + 1>> : i \in 1..m}
                    \cup {<<s.execfn, imgIn.exe.len + 1>>, <<s.platform, PLATFORM_LEN + 1>>, <<s.random, RANDOM_BYTES>>}
       IN  /\ s.sp % STACK_ALIGN = 0
           /\ s.argv_base = s.sp + WORD /\ s.envp_base = s.argv_base + (n + 1) * WORD
           /\ s.auxv_base = s.envp_base + (m + 1) * WORD /\ s.auxv_end = s.auxv_base + 2 * WORD * (imgMem.aux + 4)
           /\ \A x \in texts : x[1] >= s.auxv_end /\ x[1] + x[2] <= imgMem.top
           /\ \A x, y \in texts : x # y => x[1] + x[2] <= y[1] \/ y[1] + y[2] <= x[1]
           /\ Cardinality(texts) = n + m + 3

=============================================================================
