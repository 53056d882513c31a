------------------------------ MODULE MCMemory ------------------------------
(* One run for the parts of memory management: every behaviour is about one *)
(* of them, with a scenario of that component.                             *)
EXTENDS AddressSpace, FileMapping, Allocators, PageTables, SharedMemory, TLC

-----------------------------------------------------------------------------
(* AddressSpace *)
CONSTANTS p1, p2

Kind(perm, shared, file, grow) ==
    [perm |-> perm, shared |-> shared, file |-> file, grow |-> grow, locked |-> FALSE]
Vm(arch, frames, ops, calls, hows, sizes, kinds, perms) ==
    [arch |-> arch, frames |-> frames, ops |-> ops, size |-> 3, calls |-> calls, hows |-> hows,
     sizes |-> sizes, kinds |-> kinds, perms |-> perms]
Anonymous == Kind("rw", FALSE, FALSE, FALSE)
SharedFile == Kind("rw", TRUE, TRUE, FALSE)
VmMain == {
    Vm("rv", 3, {"mmap", "fault", "fork", "exit", "madvise"}, 5, {"auto"}, {1},
       {Anonymous, Kind("rw", FALSE, TRUE, FALSE)}, {}),
    Vm("la", 3, {"mmap", "fault", "mprotect"}, 5, {"auto"}, {1}, {Anonymous}, {"none", "r", "rw"}),
    Vm("la", 3, {"mmap", "fault", "fork", "mprotect"}, 5, {"auto"}, {1}, {Anonymous}, {"none", "r"}),
    Vm("la", 4, {"mmap", "fault", "fork", "mprotect"}, 5, {"auto"}, {1},
       {Kind("r", FALSE, TRUE, FALSE)}, {"r", "rw"}),
    Vm("la", 2, {"brk", "mmap", "fault", "fork", "mprotect"}, 5, {"auto"}, {1}, {SharedFile}, {"r"}),
    Vm("rv", 3, {"mmap", "fault", "mremap", "munmap"}, 4, {"auto", "fixed"}, {2}, {Anonymous}, {}),
    Vm("rv", 3, {"mmap", "fault", "mremap", "munmap", "fork"}, 4, {"auto", "fixed"}, {2}, {SharedFile}, {}),
    Vm("rv", 3, {"mmap", "fault", "munmap", "mlock"}, 4, {"hint"}, {1, 2}, {Kind("rw", FALSE, FALSE, TRUE)}, {}),
    Vm("la", 4, {"mmap", "fault", "fork", "elf", "mprotect"}, 4, {"noreplace"}, {1},
       {Kind("rw", TRUE, FALSE, FALSE)}, {"rw"})}

\* Outside the run, VmasAgree and CallsReturn fail: access to a private page of a RISC-V
\* process is taken away and given back.
VmNoAccess == {Vm("rv", 3, {"mmap", "fault", "fork", "mprotect"}, 4, {"auto"}, {1}, {Anonymous},
                  {"none", "rw"})}
\* Outside the run, PrivateIsolation and ReadsOwnStores fail: a page that was read-only at the
\* fork is made writable by mprotect().
VmProtectShared == {Vm("la", 3, {"mmap", "fault", "fork", "mprotect"}, 6, {"auto"}, {1}, {Anonymous},
                       {"r", "rw"})}
\* Outside the run, PrivateIsolation and ReadsOwnStores fail: mremap() moves a page that waits for
\* its copy after a fork.
VmMoveShared == {Vm("rv", 3, {"mmap", "fault", "fork", "mremap"}, 5, {"auto"}, {2}, {Anonymous}, {})}
\* Outside the run, PtesOwned fails: memory runs out while mprotect() copies the pages of a
\* private file mapping.
VmProtectFull == {Vm("la", 1, {"mmap", "fault", "mprotect"}, 4, {"auto"}, {2},
                     {Kind("r", FALSE, TRUE, FALSE)}, {"rw"})}
\* Outside the run, CallsReturn fails: a shared anonymous mapping of more pages than there are
\* frames.
VmSharedFull == {Vm("la", 1, {"mmap"}, 2, {"auto"}, {2}, {Kind("rw", TRUE, FALSE, FALSE)}, {})}

-----------------------------------------------------------------------------
(* FileMapping *)
FmMap(d, sh, wr) == [op |-> "mmap", fd |-> d, shared |-> sh, write |-> wr]
FmLoad(p, i) == [op |-> "load", page |-> p, unit |-> i]
FmStore(p, i, v) == [op |-> "store", page |-> p, unit |-> i, val |-> v]
FmRead(d, u) == [op |-> "read", fd |-> d, off |-> u]
FmWrite(d, u, v) == [op |-> "write", fd |-> d, off |-> u, val |-> v]
FmTrunc(d, n) == [op |-> "truncate", fd |-> d, size |-> n]
FmPunch(d, u, n) == [op |-> "punch", fd |-> d, off |-> u, len |-> n]
FmMsync == [op |-> "msync"]
FmMunmap == [op |-> "munmap"]
FmDontNeed(d) == [op |-> "fadvise", fd |-> d]

FmSce(kind, size, full, spaces, left, progs) ==
    [kind |-> kind, size |-> size, full |-> full, space |-> spaces, left |-> left, prog |-> progs]
Apart == <<1, 2>>
Threads == <<1, 1>>

(* A shrink and a regrowth against stores and loads of another process.       *)
FmShrinks == FmSce("cached", 4, FALSE, Apart, 2,
    <<<<FmMap(1, TRUE, TRUE), FmStore(1, 0, 2), FmLoad(1, 0), FmStore(1, 1, 3)>>,
      <<FmMap(2, FALSE, TRUE), FmLoad(1, 0), FmTrunc(2, 2), FmLoad(1, 0), FmTrunc(2, 4), FmLoad(1, 0)>>>>)
FmShrinkInside == FmSce("cached", 4, FALSE, Apart, 2,
    <<<<FmMap(1, TRUE, TRUE), FmStore(1, 1, 2), FmStore(1, 1, 3), FmLoad(1, 1)>>,
      <<FmTrunc(2, 3), FmTrunc(1, 4)>>>>)
(* The first stores to a page while its own open file is truncated.           *)
FmFirstStore == FmSce("cached", 4, FALSE, Apart, 2,
    <<<<FmMap(1, TRUE, TRUE), FmStore(0, 0, 2), FmStore(1, 0, 3)>>, <<FmTrunc(1, 1), FmRead(1, 0)>>>>)
(* A growth inside a page that is already writable, with and without room.    *)
FmGrows(full) == FmSce("cached", 1, full, Apart, 2,
    <<<<FmMap(1, TRUE, TRUE), FmStore(0, 0, 2), FmStore(0, 1, 3), FmLoad(0, 0)>>,
      <<FmTrunc(2, 2), FmRead(2, 1)>>>>)
(* A hole under loads of a shared and of a private, already copied page.      *)
FmHoles == FmSce("cached", 4, FALSE, Apart, 2,
    <<<<FmMap(1, TRUE, TRUE), FmLoad(0, 0), FmLoad(0, 0), FmLoad(1, 0)>>,
      <<FmMap(2, FALSE, TRUE), FmStore(0, 0, 3), FmLoad(1, 0), FmPunch(2, 0, 3), FmLoad(0, 0)>>>>)
(* Evictions around a mapping that is stored to, synced and removed.          *)
FmEvicts == FmSce("cached", 4, FALSE, Apart, 2,
    <<<<FmMap(1, TRUE, TRUE), FmStore(0, 0, 2), FmMunmap, FmRead(1, 0)>>,
      <<FmDontNeed(2), FmRead(2, 0), FmWrite(2, 2, 3), FmDontNeed(2)>>>>)
FmSyncs == FmSce("cached", 3, FALSE, Threads, 2,
    <<<<FmMap(1, TRUE, TRUE), FmStore(1, 0, 2), FmMsync, FmStore(0, 0, 3)>>,
      <<FmLoad(1, 0), FmDontNeed(2), FmRead(2, 2)>>>>)
(* A file without a PageCache.                                                *)
FmPlain == FmSce("plain", 3, FALSE, Apart, 1,
    <<<<FmMap(1, TRUE, TRUE), FmStore(0, 0, 2), FmMsync, FmLoad(0, 1)>>,
      <<FmMap(2, TRUE, FALSE), FmWrite(2, 1, 3), FmRead(2, 1), FmPunch(2, 0, 1)>>>>)
FmPlainCut == FmSce("plain", 4, FALSE, Apart, 1,
    <<<<FmMap(1, TRUE, TRUE), FmLoad(1, 0), FmMunmap>>,
      <<FmMap(2, FALSE, FALSE), FmLoad(1, 0), FmTrunc(2, 1), FmTrunc(2, 3)>>>>)

(* Two processes map a plain file at once; stores without permission, reads   *)
(* and holes past the end.                                                    *)
FmEdges == FmSce("plain", 2, FALSE, Apart, 3,
    <<<<FmMap(1, TRUE, TRUE), FmStore(0, 1, 2), FmStore(1, 0, 2)>>,
      <<FmMap(2, TRUE, FALSE), FmStore(0, 0, 3), FmRead(2, 3), FmPunch(2, 3, 1), FmLoad(0, 1)>>>>)

FmExtends == {FmSce("cached", 4, FALSE, Apart, 1,
    <<<<FmMap(1, TRUE, TRUE), FmStore(1, 0, 2), FmMunmap>>, <<FmTrunc(2, 2)>>>>)}
FmMain == {FmEdges, FmFirstStore, FmShrinks, FmShrinkInside, FmGrows(FALSE), FmGrows(TRUE), FmHoles, FmEvicts, FmSyncs,
           FmPlain, FmPlainCut} \cup FmExtends

(* Instances in which a property fails.                                       *)
\* Outside the run, MappedIsCached and NothingPastEnd fail: the file is cut and grown again
\* while a page is being mapped.
FmMapRace == {FmSce("cached", 4, FALSE, Apart, 2,
    <<<<FmMap(1, TRUE, TRUE), FmLoad(1, 0)>>, <<FmTrunc(2, 2), FmTrunc(2, 4), FmRead(2, 2)>>>>)}
\* Outside the run, WritableIsReserved fails: a store into a hole that was punched under a
\* writable mapping.
FmPunchStore == {FmSce("cached", 2, FALSE, Apart, 2,
    <<<<FmMap(1, TRUE, TRUE), FmStore(0, 0, 2), FmPunch(1, 0, 2), FmStore(0, 0, 3)>>, <<>>>>)}
\* Outside the run, WritableIsReserved fails: write() grows the file within a page that is
\* mapped writable.
FmGrowWrite == {FmSce("cached", 1, FALSE, Apart, 1,
    <<<<FmMap(1, TRUE, TRUE), FmStore(0, 0, 2), FmStore(0, 1, 3)>>, <<FmWrite(2, 2, 1)>>>>)}
\* Outside the run, FrameShowsFile fails: a write to a file without a cache while its page is
\* being mapped.
FmPlainRace == {FmSce("plain", 2, FALSE, Apart, 2,
    <<<<FmMap(1, TRUE, TRUE), FmLoad(0, 0)>>, <<FmWrite(2, 0, 3)>>>>)}
\* Outside the run, UnsavedIsHeld and WritableIsReserved fail: two holes are punched in one
\* page that is being mapped.
FmPunchRace == {FmSce("cached", 2, FALSE, Apart, 1,
    <<<<FmMap(1, TRUE, TRUE), FmPunch(1, 0, 2), FmStore(0, 0, 3)>>, <<FmPunch(2, 0, 2)>>>>)}

-----------------------------------------------------------------------------
(* KernelHeap *)
HpGet(n, size, align) == [call |-> "alloc", name |-> n, size |-> size, align |-> align]
HpPut(n) == [call |-> "dealloc", name |-> n, size |-> 0, align |-> 1]
HpDo(call) == [call |-> call, name |-> 0, size |-> 0, align |-> 1]

HpProgs(a, b, i) == [c \in HpCtxs |-> CASE c = <<1, 0>> -> a [] c = <<2, 0>> -> b [] c = <<1, 1>> -> i [] OTHER -> <<>>]

\* a block freed on the other hart, magazines over their capacity
HpAcross == HpProgs(<<HpGet(1, 1, 1), HpGet(2, 1, 1), HpPut(3)>>, <<HpGet(3, 2, 1), HpPut(1), HpPut(2)>>, <<>>)
HpFull == HpProgs(<<HpGet(1, 1, 1), HpGet(2, 1, 1), HpGet(3, 1, 1), HpPut(1), HpPut(2), HpPut(3)>>, <<HpDo("drain_magazines"), HpDo("stats")>>, <<>>)
\* the last free block is in a magazine: the other hart drains it
HpReclaim == HpProgs(<<HpGet(1, 1, 1), HpPut(1), HpGet(2, 3, 4), HpGet(3, 2, 2), HpPut(3)>>, <<HpDo("try_stats"), HpDo("reset")>>, <<>>)
HpReclaimLarge == HpProgs(<<HpGet(1, 2, 1), HpPut(1), HpGet(2, 8, 1), HpPut(2), HpGet(3, 1, 4), HpGet(1, 4, 1)>>, <<>>, <<>>)
HpLateSmall == HpProgs(<<HpGet(1, 4, 1), HpGet(2, 1, 1)>>, <<HpGet(3, 2, 1), HpPut(3)>>, <<>>)
\* an interrupt handler allocates
HpInterrupt == HpProgs(<<HpGet(1, 1, 1), HpPut(1), HpDo("stats")>>, <<HpGet(3, 4, 1)>>, <<HpGet(2, 1, 1), HpPut(2)>>)

HpMain == {HpAcross, HpFull, HpReclaim, HpReclaimLarge, HpLateSmall, HpInterrupt}

\* Outside the run, FailureIsReal and NoHeapDeadlock fail: both harts run out of memory; one
\* of them reports it.
HpTwoOut == {HpProgs(<<HpGet(1, 1, 1), HpPut(1), HpGet(2, 8, 1), HpPut(2)>>, <<HpGet(3, 8, 1)>>, <<>>)}
\* Outside the run, NoHeapDeadlock fails: a hart reports that memory ran out while the other
\* allocates.
HpReports == {HpProgs(<<HpGet(1, 8, 1), HpGet(2, 8, 1)>>, <<HpGet(3, 1, 1)>>, <<>>)}

-----------------------------------------------------------------------------
(* FramePool *)
\* RAM from 8 on; the heap follows the kernel
FpRv == {[arch |-> "rv64", kernel_end |-> k, heap_at |-> 0, bitmap |-> b, heap |-> s, start |-> 8, low_end |-> 0, high |-> 0, end |-> e] :
            k \in {9, 12, 15}, b \in {4, 5}, s \in {4}, e \in {39}}
\* a low range after the kernel and a high one that begins with the heap
FpLa == {[arch |-> "loongarch64", kernel_end |-> k, heap_at |-> 32, bitmap |-> b, heap |-> s, start |-> 0, low_end |-> l, high |-> 32, end |-> e] :
            k \in {5, 8}, b \in {5}, s \in {8}, l \in {15, 16}, e \in {48, 55}}
FpBoards == FpRv \cup FpLa

-----------------------------------------------------------------------------
(* PageTables *)
PtDo(op, p, v, perm) == [op |-> op, p |-> p, v |-> v, perm |-> perm]
Kst(op, slot) == [op |-> op, slot |-> slot]
PR == {"READ"}
PRW == {"READ", "WRITE"}
PW == {"WRITE"}
PRX == {"READ", "EXECUTE"}
PtNew(p) == PtDo("new", p, 0, {})
PtEnd(p) == <<PtDo("retire", p, 0, {}), PtDo("release", p, 0, {})>>
PtUsers ==
    {<<PtNew(1), PtDo("map", 1, 5, a), PtDo("cow", 1, 5, a), PtDo("protect", 1, 5, b), PtDo("map", 1, 1, PR),
       PtDo("flush", 1, 0, {}), PtDo("unmap", 1, 1, {})>> \o PtEnd(1) : a \in {PRW, PW}, b \in {{}, PR, PRX}}
    \cup {<<PtNew(1), PtDo("map", 1, 2, PRW), PtNew(2), PtDo("map", 2, 7, a), PtDo("protect", 2, 7, {}), PtDo("map", 2, 7, PR), PtDo("protect", 2, 7, PRW)>>
            \o PtEnd(2) \o <<PtDo("map", 1, 6, PRW)>> : a \in {PR, PRW}}
    \cup {<<PtNew(1), PtDo("map", 1, 3, PRW), PtDo("cow", 1, 3, PRW), PtDo(x, 1, 3, PRW), PtDo("unmap", 1, 3, {}), PtDo("unmap", 1, 7, {}), PtDo("map", 1, 0, {})>> : x \in {"own", "replace"}}
PtKernels ==
    {<<Kst("stack", 0), Kst("stack", 0), Kst("drop", 0), Kst("stack", 0)>>,
     <<Kst("stack", 0), Kst("drop", 0), Kst("stack", 0), Kst("drop", 1), Kst("stack", 0)>>}
PtMain == {[arch |-> a, user |-> u, kernel |-> k] : a \in {"rv", "la"}, u \in PtUsers, k \in PtKernels}

-----------------------------------------------------------------------------
(* MemFiles *)
MfMapped(w, r) == [w |-> w, r |-> r]
MfSc(a, b, data, seals, one, append) ==
    [prog |-> [t \in MfTasks |-> IF t = 1 THEN a ELSE b], data |-> data, seals |-> seals, append |-> [f \in MfFds |-> append],
     rw |-> [f \in MfFds |-> TRUE], maps |-> [p \in MfProcs |-> IF p = 1 THEN one ELSE MfMapped(0, 0)]]

MfW(f, n) == [call |-> "write", fd |-> f, n |-> n]
MfR(f, n) == [call |-> "read", fd |-> f, n |-> n]
MfPw(f, o, n) == [call |-> "pwrite", fd |-> f, off |-> o, n |-> n]
MfT(n) == [call |-> "truncate", fd |-> 1, n |-> n]
MfAl(o, n) == [call |-> "allocate", fd |-> 1, off |-> o, n |-> n]
MfPh(o, n) == [call |-> "punch", fd |-> 1, off |-> o, n |-> n]
MfSl(s) == [call |-> "add_seals", fd |-> 1, seals |-> s]
MfMm(p, n, w) == [call |-> "mmap", fd |-> 1, proc |-> p, n |-> n, to |-> w]
MfUn(p, n) == [call |-> "munmap", fd |-> 1, proc |-> p, n |-> n]
MfPr(p, n, w) == [call |-> "mprotect", fd |-> 1, proc |-> p, n |-> n, to |-> w]
MfFk == [call |-> "fork", fd |-> 1, proc |-> 1, to |-> 2]
MfEx(p) == [call |-> "exit", fd |-> 1, proc |-> p]
MfFt(f, o, n) == [call |-> "fault", fd |-> f, off |-> o, n |-> n]
MfWb(f, o, n) == [call |-> "writeback", fd |-> f, off |-> o, n |-> n]

MfLateWrite == {MfSc(<<MfSl({"WRITE"})>>, <<MfW(2, 1)>>, <<1, 1>>, {}, MfMapped(0, 0), FALSE)}
MfLateMap == {MfSc(<<MfSl({"WRITE"})>>, <<MfMm(1, 1, 1)>>, <<1, 1>>, {}, MfMapped(0, 0), FALSE)}
MfAppends == {MfSc(<<MfWb(1, 0, 1)>>, <<>>, <<1, 1>>, {}, MfMapped(1, 0), TRUE)}
MfMain == {
    \* mappings come and go while a task tries to seal
    MfSc(<<MfMm(1, 2, 1), MfFk, MfUn(1, 1), MfEx(1)>>, <<MfPr(2, 1, 0), MfEx(2), MfSl({"GROW"})>>, <<1, 1>>, {}, MfMapped(0, 0), FALSE),
    MfSc(<<MfSl({"WRITE"}), MfPr(1, 2, 0), MfSl({"WRITE"}), MfW(1, 1), MfPr(1, 1, 1), MfMm(1, 1, 1)>>, <<MfR(2, 1)>>, <<1, 1>>, {}, MfMapped(2, 0), FALSE),
    MfSc(<<MfPr(1, 1, 1), MfEx(1)>>, <<MfFk, MfMm(2, 1, 0), MfEx(2)>>, <<1>>, {}, MfMapped(0, 2), FALSE),
    \* sealed files refuse
    MfSc(<<MfSl({"WRITE"}), MfPw(1, 0, 1), MfPh(0, 1), MfT(3)>>, <<MfW(2, 1)>>, <<1, 1>>, {"WRITE"}, MfMapped(0, 0), FALSE),
    MfSc(<<MfW(1, 1), MfW(1, 2), MfAl(0, 3), MfT(3), MfT(0)>>, <<MfPw(2, 1, 2)>>, <<1, 1>>, {"GROW", "SHRINK", "SEAL"}, MfMapped(0, 0), FALSE),
    \* faults and write-back of one open file beside the calls of another
    MfSc(<<MfR(1, 1), MfW(1, 1), MfT(3)>>, <<MfFt(2, 1, 1), MfWb(2, 0, 1)>>, <<1, 1, 1>>, {}, MfMapped(1, 0), FALSE),
    MfSc(<<MfW(1, 1), MfPh(0, 1), MfAl(2, 2)>>, <<MfR(2, 2), MfW(2, 1)>>, <<1>>, {}, MfMapped(0, 0), TRUE)}
          \cup MfLateWrite \cup MfLateMap \cup MfAppends

\* Outside the run, CursorUndisturbed fails: a fault reads through the cursor that a read() is
\* using.
MfFaultRace == {MfSc(<<MfR(1, 1)>>, <<MfFt(1, 1, 1)>>, <<1, 1>>, {}, MfMapped(1, 0), FALSE)}

-----------------------------------------------------------------------------
(* SysVShm *)
Get(key, pages, creat, excl) == [op |-> "get", key |-> key, pages |-> pages, creat |-> creat, excl |-> excl, oth |-> {"r"}]
Attach(s) == [op |-> "at", seg |-> s, ro |-> FALSE, fault |-> FALSE]
AttachRo(s) == [op |-> "at", seg |-> s, ro |-> TRUE, fault |-> FALSE]
AttachFails(s) == [op |-> "at", seg |-> s, ro |-> FALSE, fault |-> TRUE]
Detach(s) == [op |-> "dt", seg |-> s]
Munmap(s) == [op |-> "munmap", seg |-> s]
Ctl(cmd, s) == [op |-> "ctl", cmd |-> cmd, seg |-> s, uid |-> 2]
Fork(c) == [op |-> "fork", child |-> c, vm |-> FALSE]
Vfork(c) == [op |-> "fork", child |-> c, vm |-> TRUE]
ShExec(ms) == [op |-> "exec", ms |-> ms]
ShExit == [op |-> "exit"]

ShSc(first, u, a, b, c) == [first |-> first, uid |-> u, ms |-> <<1, 2, 3>>, shSpaces |-> 1 .. 4, prog |-> <<a, b, c>>]
\* Attach, fail to attach and detach against IPC_RMID.
ShRemoves == ShSc({1, 2, 3}, <<1, 1, 2>>, <<Get(7, 1, TRUE, FALSE), Attach(1), Ctl("stat", 1), Detach(1)>>, <<AttachFails(1), Attach(1), Ctl("rmid", 1), Detach(1)>>,
                  <<AttachRo(1), Attach(1), Ctl("rmid", 1), Ctl("stat", 1), Detach(1)>>)
\* Attachments that fork copies, exec and exit drop.
ShForks == ShSc({1}, <<1, 1, 1>>, <<Get(0, 1, FALSE, FALSE), Attach(1), Fork(2), Ctl("rmid", 1), Detach(1), ShExit>>,
                <<Vfork(3), ShExit>>, <<Ctl("lock", 1), ShExec(4), ShExit>>)
\* Keys and limits.
ShKeys == ShSc({1, 2}, <<1, 2, 1>>, <<Get(7, 2, TRUE, FALSE), Get(0, 1, TRUE, FALSE), Get(0, 1, TRUE, FALSE), Get(7, 1, TRUE, TRUE), Munmap(2), Ctl("set", 1)>>,
               <<Get(7, 1, TRUE, FALSE), Get(8, 1, FALSE, FALSE), Get(8, 2, TRUE, FALSE), Get(9, 0, TRUE, FALSE), Attach(1), Ctl("rmid", 1), Get(7, 2, TRUE, FALSE)>>, <<>>)
ShMain == {ShRemoves, ShForks, ShKeys}

\* Outside the run, RemovedSegmentReclaimed fails: a vfork child and its parent exit with a
\* removed segment attached.
ShVfork == {ShSc({1}, <<1, 1, 1>>, <<Get(7, 1, TRUE, FALSE), Attach(1), Ctl("rmid", 1), Vfork(2), ShExit>>, <<ShExit>>, <<>>)}
\* Outside the run, RemovedSegmentReclaimed fails: a removed segment leaves by munmap().
ShMunmaps == {ShSc({1}, <<1, 1, 1>>, <<Get(7, 1, TRUE, FALSE), Attach(1), Ctl("rmid", 1), Munmap(1)>>, <<>>, <<>>)}

-----------------------------------------------------------------------------
CONSTANT MemoryParts     \* the components this run is about
VARIABLE part       \* the one this behaviour is about
memoryVars == <<part, vmVars, fmVars, hpVars, fpVars, ibVars, ptVars, mfVars, shVars>>

VmFirst == CHOOSE s \in VmScenarios : TRUE
FmFirst == CHOOSE s \in FmScenarios : TRUE
HpFirst == CHOOSE s \in HpScenarios : TRUE
FpFirst == CHOOSE s \in {y \in FpLayouts : Boots(y)} : TRUE
PtFirst == CHOOSE s \in PtScenarios : TRUE
MfFirst == CHOOSE s \in MfScenarios : TRUE
ShFirst == CHOOSE s \in ShScenarios : TRUE
MemoryInit ==
    /\ part \in MemoryParts
    /\ VmInit /\ (part # "space" => vmSc = VmFirst)
    /\ FmInit /\ (part # "mapping" => fmSc = FmFirst)
    /\ HpInit /\ (part # "heap" => hpProg = HpFirst)
    /\ IF part = "frames" THEN FpInit ELSE FpStart(FpFirst)
    /\ IbInit
    /\ IF part = "tables" THEN PtInit ELSE PtStart(PtFirst)
    /\ IF part = "memfd" THEN MfInit ELSE MfStart(MfFirst)
    /\ ShInit /\ (part # "shm" => shSc = ShFirst)
MemoryNext ==
    \/ part = "space" /\ VmNext /\ UNCHANGED <<part, fmVars, hpVars, fpVars, ibVars, ptVars, mfVars, shVars>>
    \/ part = "mapping" /\ FmNext /\ UNCHANGED <<part, vmVars, hpVars, fpVars, ibVars, ptVars, mfVars, shVars>>
    \/ part = "heap" /\ HpNext /\ UNCHANGED <<part, vmVars, fmVars, fpVars, ibVars, ptVars, mfVars, shVars>>
    \/ part = "frames" /\ FpNext /\ UNCHANGED <<part, vmVars, fmVars, hpVars, ibVars, ptVars, mfVars, shVars>>
    \/ part = "buffers" /\ IbNext /\ UNCHANGED <<part, vmVars, fmVars, hpVars, fpVars, ptVars, mfVars, shVars>>
    \/ part = "tables" /\ PtNext /\ UNCHANGED <<part, vmVars, fmVars, hpVars, fpVars, ibVars, mfVars, shVars>>
    \/ part = "memfd" /\ MfNext /\ UNCHANGED <<part, vmVars, fmVars, hpVars, fpVars, ibVars, ptVars, shVars>>
    \/ part = "shm" /\ ShNext /\ UNCHANGED <<part, vmVars, fmVars, hpVars, fpVars, ibVars, ptVars, mfVars>>
MemorySpec == MemoryInit /\ [][MemoryNext]_memoryVars

-----------------------------------------------------------------------------
(* What the run checks: the properties of each component in the behaviours that are about
   it. In the others it stays in a state that some behaviour about it starts from. *)

\* Areas, page table and frames of an address space agree after every call and fault,
\* failed ones included, and no process sees or changes the private memory of another.
SpacesIsolated ==
    /\ part = "space" =>
           /\ VmTypeOK /\ VmasAgree /\ PtesOwned /\ PrivateIsolation /\ ReadsOwnStores
           /\ OneKeyPerFilePage /\ CallsReturn

\* The mappings of a file and its page cache stay one: through truncation, punching,
\* eviction and writeback no page is mapped that the file does not have, no store is
\* lost, and nobody waits for ever for the locks.
MappingsCoherent ==
    /\ part = "mapping" =>
           /\ FmTypeOK /\ NothingPastEnd /\ MappedIsCached /\ WritableIsReserved
           /\ UnsavedIsHeld /\ NoLockCycle /\ FrameShowsFile

\* Words of the heap, frames and I/O buffers have one owner each and the accounts are
\* exact. Unless two harts run out of memory together, an allocation gives up only when the
\* heap has no such block; unless one reports that it did, nobody waits for a lock for ever.
MemoryOwnedOnce ==
    /\ part = "heap" =>
           /\ HpTypeOK /\ OneOwnerPerWord /\ UserBytesExact /\ NoHeapDeadlock
           /\ FailureIsReal
    /\ part = "frames" =>
           /\ FpTypeOK /\ FramesAccounted /\ NewFrameIsClear /\ FramesOutsideHeap
    /\ part = "buffers" =>
           /\ BufferOfOneCall

\* The trees of both architectures map what was mapped and nothing else, share the
\* kernel half, and own their tables.
TablesHold ==
    /\ part = "tables" =>
           /\ PtTypeOK /\ TablesOwned /\ KernelEverywhere /\ TreeIsMap /\ StackOfItsOwn

\* Shared memory lives exactly as long as it is used: segments and their attachments,
\* memory files and their writable pages are counted right through fork, exec and exit.
SegmentsExact ==
    /\ part = "memfd" =>
           /\ MfTypeOK /\ CountIsPages /\ CursorUndisturbed
    /\ part = "shm" =>
           /\ ShTypeOK /\ SegmentOutlivesAttachments /\ RemovedSegmentReclaimed
           /\ OwnersExact

=============================================================================
