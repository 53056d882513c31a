--------------------------------- MODULE Tlb ---------------------------------
(***************************************************************************)
(* Translation caches of several harts: which hart may hold entries of an  *)
(* address space (active and TLB masks of MemorySet), the LoongArch        *)
(* shootdown protocol (arch/loongarch64/smp.rs), retirement of frames and  *)
(* address-space identifiers, and the release of a page table's own frames.*)
(*                                                                         *)
(* One user page per address space stands for all.  A hart runs user code  *)
(* of the space it has loaded, sits in the idle loop, or executes one      *)
(* page-table operation in the kernel with interrupts off.                 *)
(***************************************************************************)
EXTENDS Integers

CONSTANTS
    NHarts,
    Spaces,
    First,           \* the address space that exists from the beginning
    NoSpace,
    NUserFrames,
    NAsids,
    TlbScenarios     \* records: arch, harts, operations allowed and their number

TlbOps == {"map", "cow", "unmap", "exit", "fork"}

ASSUME TlbAssumption ==
    /\ {NHarts, NUserFrames, NAsids} \subseteq Nat \ {0}
    /\ First \in Spaces /\ NoSpace \notin Spaces
    /\ \A s \in TlbScenarios : /\ s.harts \in 1 .. NHarts /\ s.arch \in {"rv", "la"} /\ s.max \in Nat
                               /\ s.ops \subseteq TlbOps

VARIABLES
    tlbSc,     \* the scenario
    space,     \* MemorySet: page-table entry, masks, ASID, writer, retired frames
    cpu,       \* each hart: loaded space and ASID, its TLB, its kernel step
    slot,      \* TLB_SHOOTDOWN_REQUEST/ACK/ASID and the pending IPI of each hart
    asids,     \* ASID_ALLOCATOR: used and retired numbers; the next generation
    pool,      \* free frames
    tlbops     \* operations started so far

tlbVars == <<tlbSc, space, cpu, slot, asids, pool, tlbops>>

Harts == 1 .. NHarts
NoHart == 0
Online == 1 .. tlbSc.harts
UserFrames == 1 .. NUserFrames
Asids == 1 .. NAsids
LA == tlbSc.arch = "la"

\* A space is "none" (a free record), "new" (under construction), "live", or
\* "retired": its process has exited and only loaded roots keep it.
NewSpace(root, a) == [root |-> root, pte |-> 0, active |-> {}, resident |-> {}, asid |-> a,
                      writer |-> NoHart, retired |-> {}]

TlbInit ==
    /\ tlbSc \in TlbScenarios
    /\ space = [s \in Spaces |-> IF s = First THEN NewSpace("live", 1) ELSE NewSpace("none", 0)]
    /\ cpu = [h \in Harts |-> [on |-> NoSpace, csr |-> 0, tlb |-> {}, at |-> "idle", op |-> "none",
                               sp |-> NoSpace, child |-> NoSpace, gen |-> 0, pending |-> {},
                               targets |-> {}, batch |-> {}, reclaim |-> {}, seen |-> 0]]
    /\ slot = [h \in Harts |-> [req |-> 0, ack |-> 0, asid |-> 0, ipi |-> FALSE]]
    /\ asids = [used |-> {1}, retired |-> {}, gen |-> 1]
    /\ pool = UserFrames
    /\ tlbops = 0

HartAt(h, l) == h \in Online /\ cpu[h].at = l /\ cpu[h].seen = 0
Lowest(S) == CHOOSE x \in S : \A y \in S : x <= y

\* The operation of hart h is over.
BackToUser(c) == [c EXCEPT !.at = "user", !.op = "none", !.sp = NoSpace, !.child = NoSpace, !.gen = 0,
                           !.targets = {}, !.pending = {}, !.batch = {}, !.reclaim = {}]
Purged(tlb, a) == IF a = 0 THEN {} ELSE {e \in tlb : e[1] # a}

-----------------------------------------------------------------------------
(* The scheduler and user code.                                            *)

\* mark_current_hart_active() under the read lock, before __switch.
mark_active_only(s, h) ==       \* mutant: tlb_hart_mask is not updated
    space' = [space EXCEPT ![s].active = @ \cup {h}]
mark_current_hart_active(s, h) ==
    space' = [space EXCEPT ![s] = [space[s] EXCEPT !.active = @ \cup {h}, !.resident = @ \cup {h}]]
mark(h, s) ==
    /\ HartAt(h, "idle") /\ space[s].root = "live" /\ space[s].writer = NoHart
    /\ mark_current_hart_active(s, h)
    /\ cpu' = [cpu EXCEPT ![h] = [cpu[h] EXCEPT !.at = "enter", !.sp = s]]
    /\ UNCHANGED <<tlbSc, slot, asids, pool, tlbops>>

\* __switch: the root and the ASID in the task's saved token; RISC-V flushes.
__switch_in(h) ==
    /\ HartAt(h, "enter")
    /\ cpu' = [cpu EXCEPT ![h] =
                  [cpu[h] EXCEPT !.at = "user", !.on = cpu[h].sp, !.sp = NoSpace,
                            !.csr = space[cpu[h].sp].asid, !.tlb = IF LA THEN @ ELSE {}]]
    /\ UNCHANGED <<tlbSc, space, slot, asids, pool, tlbops>>
__switch_out(h) ==
    /\ HartAt(h, "user")
    /\ cpu' = [cpu EXCEPT ![h] =
                  [cpu[h] EXCEPT !.at = "leave", !.on = NoSpace, !.sp = cpu[h].on,
                            !.csr = 0, !.tlb = IF LA THEN @ ELSE {}]]
    /\ UNCHANGED <<tlbSc, space, slot, asids, pool, tlbops>>

\* clear_current_hart_active(): the last hart out frees the retired root.
clear_active(s, h) ==
    space' = [space EXCEPT ![s] =
                [space[s] EXCEPT !.active = @ \ {h},
                          !.root = IF space[s].active = {h} /\ @ = "retired" THEN "none" ELSE @]]
clear_current_hart_active(h) ==
    /\ HartAt(h, "leave") /\ space[cpu[h].sp].writer = NoHart
    /\ clear_active(cpu[h].sp, h)
    /\ cpu' = [cpu EXCEPT ![h] = [cpu[h] EXCEPT !.at = "idle", !.sp = NoSpace]]
    /\ UNCHANGED <<tlbSc, slot, asids, pool, tlbops>>

\* A user access fills the TLB from the loaded page table.
tlb_fill(h) ==
    /\ HartAt(h, "user") /\ space[cpu[h].on].pte # 0
    /\ cpu' = [cpu EXCEPT ![h].tlb = @ \cup {<<cpu[h].csr, space[cpu[h].on].pte>>}]
    /\ UNCHANGED <<tlbSc, space, slot, asids, pool, tlbops>>

-----------------------------------------------------------------------------
(* Answering a shootdown: in user mode and in the idle loop by interrupt,  *)
(* in the kernel only where the code polls.                                *)

never_polls == {"idle", "user", "claim", "wait"}       \* mutant: lock waiters do not poll
poll_pending_ipi == {"idle", "user", "lock", "leave", "claim", "wait"}

acknowledge_ipi(h) ==
    /\ h \in Online /\ cpu[h].at \in poll_pending_ipi /\ cpu[h].seen = 0 /\ slot[h].ipi
    /\ cpu[h].at = "leave" => space[cpu[h].sp].writer # NoHart
    /\ cpu' = [cpu EXCEPT ![h].seen = slot[h].req]
    /\ slot' = [slot EXCEPT ![h].ipi = FALSE]
    /\ UNCHANGED <<tlbSc, space, asids, pool, tlbops>>

\* invalidate_local() and the acknowledgement of the generation read.
acknowledge_done(h) ==
    /\ h \in Online /\ cpu[h].seen # 0
    /\ cpu' = [cpu EXCEPT ![h] = [cpu[h] EXCEPT !.seen = 0, !.tlb = Purged(@, slot[h].asid)]]
    /\ slot' = [slot EXCEPT ![h].ack = cpu[h].seen]
    /\ UNCHANGED <<tlbSc, space, asids, pool, tlbops>>

-----------------------------------------------------------------------------
(* Page-table operations of the space a hart has loaded.                   *)

syscall(h, op) ==
    /\ HartAt(h, "user") /\ op \in tlbSc.ops /\ tlbops < tlbSc.max
    /\ cpu' = [cpu EXCEPT ![h] = [cpu[h] EXCEPT !.at = "lock", !.op = op, !.sp = cpu[h].on]]
    /\ tlbops' = tlbops + 1
    /\ UNCHANGED <<tlbSc, space, slot, asids, pool>>

\* What the operation finds under the write lock; otherwise it returns.
Admitted(op, s) ==
    \/ op = "map" /\ space[s].pte = 0 /\ space[s].root = "live"
    \/ op \in {"cow", "unmap"} /\ space[s].pte # 0
    \/ op = "exit" /\ space[s].root = "live"
    \/ op = "fork" /\ space[s].root = "live" /\ \E c \in Spaces : space[c].root = "none"

memory_set_write(h) ==
    /\ HartAt(h, "lock") /\ space[cpu[h].sp].writer = NoHart
    /\ LET s == cpu[h].sp IN
       \/ /\ Admitted(cpu[h].op, s) /\ cpu[h].op # "fork"
          /\ space' = [space EXCEPT ![s].writer = h]
          /\ cpu' = [cpu EXCEPT ![h].at = "change"]
       \/ /\ Admitted("fork", s) /\ cpu[h].op = "fork"
          /\ \E c \in Spaces :
                /\ space[c].root = "none"
                /\ space' = [space EXCEPT ![s].writer = h, ![c].root = "new"]
                /\ cpu' = [cpu EXCEPT ![h] = [cpu[h] EXCEPT !.at = "asid", !.child = c]]
       \/ /\ ~Admitted(cpu[h].op, s)
          /\ cpu' = [cpu EXCEPT ![h] = BackToUser(cpu[h])]
          /\ UNCHANGED space
    /\ UNCHANGED <<tlbSc, slot, asids, pool, tlbops>>

\* map(), replace_pte() or unmap(): the old frame is retired with the page
\* table (LoongArch) or dropped at once (RISC-V).  Without a free frame the
\* operation fails and nothing has changed.  recycle_data_pages() flushes on
\* LoongArch only.
change(h) ==
    /\ HartAt(h, "change")
    /\ LET s == cpu[h].sp
           old == {space[s].pte} \ {0}
           fresh == cpu[h].op \in {"map", "cow"}
           new == IF fresh THEN Lowest(pool) ELSE 0
       IN  \/ /\ fresh => pool # {}
              /\ space' = [space EXCEPT ![s] =
                              [space[s] EXCEPT !.pte = new, !.retired = IF LA THEN @ \cup old ELSE @]]
              /\ pool' = (pool \ {new}) \cup (IF LA THEN {} ELSE old)
              /\ cpu' = [cpu EXCEPT ![h].at = IF cpu[h].op = "exit" /\ ~LA THEN "flushed" ELSE "flush"]
           \/ /\ fresh /\ pool = {}
              /\ space' = [space EXCEPT ![s].writer = NoHart]
              /\ cpu' = [cpu EXCEPT ![h] = BackToUser(cpu[h])]
              /\ UNCHANGED pool
    /\ UNCHANGED <<tlbSc, slot, asids, tlbops>>

\* flush_tlb() up to the remote part: the batch is frozen, the local entries
\* go, and the targets are the harts that may hold entries.
flush_targets(s) == IF LA THEN space[s].resident ELSE space[s].active
flush_tlb(h) ==
    /\ HartAt(h, "flush")
    /\ LET s == cpu[h].sp
           t == flush_targets(s) \ {h}
       IN  /\ cpu' = [cpu EXCEPT ![h] =
                         [cpu[h] EXCEPT !.at = IF t = {} THEN "flushed" ELSE IF LA THEN "claim" ELSE "rfence",
                                   !.targets = t, !.pending = t, !.batch = space[s].retired,
                                   !.tlb = IF LA THEN Purged(@, space[s].asid) ELSE {},
                                   !.gen = asids.gen]]
           /\ space' = [space EXCEPT ![s].retired = {}]
           /\ asids' = [asids EXCEPT !.gen = IF t # {} THEN @ + 1 ELSE @]
    /\ UNCHANGED <<tlbSc, slot, pool, tlbops>>

\* SBI remote_sfence_vma(): the firmware fences the targets one by one.
remote_sfence_vma(h, t) ==
    /\ HartAt(h, "rfence") /\ t \in cpu[h].pending
    /\ cpu' = [cpu EXCEPT ![t] = [cpu[t] EXCEPT !.tlb = {}],
                          ![h] = [cpu[h] EXCEPT !.pending = @ \ {t},
                                           !.at = IF cpu[h].pending = {t} THEN "flushed" ELSE @]]
    /\ UNCHANGED <<tlbSc, space, slot, asids, pool, tlbops>>

\* remote_tlb_shootdown(): claim the slots in ascending order, ...
claim_slot(h) ==
    /\ HartAt(h, "claim")
    /\ LET t == Lowest(cpu[h].pending)
       IN  /\ slot[t].req = 0
           /\ slot' = [slot EXCEPT ![t].req = cpu[h].gen]
    /\ cpu' = [cpu EXCEPT ![h].at = "fill"]
    /\ UNCHANGED <<tlbSc, space, asids, pool, tlbops>>

\* ... fill in the request, and send the interrupts once all are claimed.
fill_slot(h) ==
    /\ HartAt(h, "fill")
    /\ LET t == Lowest(cpu[h].pending)
           left == cpu[h].pending \ {t}
           a == IF cpu[h].reclaim # {} THEN 0 ELSE space[cpu[h].sp].asid
       IN  IF left # {}
           THEN /\ slot' = [slot EXCEPT ![t] = [slot[t] EXCEPT !.ack = 0, !.asid = a]]
                /\ cpu' = [cpu EXCEPT ![h] = [cpu[h] EXCEPT !.at = "claim", !.pending = left]]
           ELSE /\ slot' = [u \in Harts |->
                              [slot[u] EXCEPT !.ack = IF u = t THEN 0 ELSE @,
                                              !.asid = IF u = t THEN a ELSE @,
                                              !.ipi = @ \/ u \in cpu[h].targets]]
                /\ cpu' = [cpu EXCEPT ![h] = [cpu[h] EXCEPT !.at = "wait", !.pending = cpu[h].targets]]
    /\ UNCHANGED <<tlbSc, space, asids, pool, tlbops>>

\* Wait for the acknowledgements in the same order, freeing each slot.
wait_ack(h) ==
    /\ HartAt(h, "wait")
    /\ LET t == Lowest(cpu[h].pending)
       IN  /\ slot[t].ack = cpu[h].gen
           /\ slot' = [slot EXCEPT ![t].req = 0]
           /\ cpu' = [cpu EXCEPT ![h] =
                         [cpu[h] EXCEPT !.pending = @ \ {t},
                                   !.at = IF cpu[h].pending # {t} THEN "wait"
                                          ELSE IF cpu[h].reclaim # {} THEN "reclaim" ELSE "flushed"]]
    /\ UNCHANGED <<tlbSc, space, asids, pool, tlbops>>

\* The end of flush_tlb() and of the operation.  The exit of the last thread
\* also retires the page table's own frames and the ASID (recycle_data_pages,
\* retire_asid).
flushed(h) ==
    /\ HartAt(h, "flushed")
    /\ LET s == cpu[h].sp
           gone == cpu[h].op = "exit"
       IN  /\ space' = [space EXCEPT ![s] = [space[s] EXCEPT !.writer = NoHart, !.resident = space[s].active,
                                                     !.root = IF gone THEN "retired" ELSE @]]
           /\ asids' = [asids EXCEPT !.retired = IF gone /\ LA THEN @ \cup {space[s].asid} ELSE @]
    /\ pool' = pool \cup cpu[h].batch
    /\ cpu' = [cpu EXCEPT ![h] = BackToUser(cpu[h])]
    /\ UNCHANGED <<tlbSc, slot, tlbops>>

-----------------------------------------------------------------------------
(* allocate_asid() inside a fork, which holds the parent's write lock.     *)

\* The child's MemorySet exists, or the fork has failed with ENOMEM.
ForkDone(h, a) ==
    /\ space' = [space EXCEPT ![cpu[h].sp].writer = NoHart, ![cpu[h].child] = NewSpace("live", a)]
    /\ cpu' = [cpu EXCEPT ![h] = BackToUser(cpu[h])]
ForkFails(h) ==
    /\ space' = [space EXCEPT ![cpu[h].sp].writer = NoHart, ![cpu[h].child].root = "none"]
    /\ cpu' = [cpu EXCEPT ![h] = BackToUser(cpu[h])]

\* alloc(), and when it fails, take_retired() and the global barrier.
allocate_asid(h) ==
    /\ HartAt(h, "asid")
    /\ \/ ~LA /\ ForkDone(h, 0) /\ UNCHANGED asids
       \/ /\ LA /\ Asids \ asids.used # {}
          /\ ForkDone(h, Lowest(Asids \ asids.used))
          /\ asids' = [asids EXCEPT !.used = @ \cup {Lowest(Asids \ asids.used)}]
       \/ /\ LA /\ Asids \subseteq asids.used /\ asids.retired = {}
          /\ ForkFails(h) /\ UNCHANGED asids
       \/ /\ LA /\ Asids \subseteq asids.used /\ asids.retired # {}
          /\ LET t == Online \ {h}
             IN  cpu' = [cpu EXCEPT ![h] =
                           [cpu[h] EXCEPT !.at = IF t = {} THEN "reclaim" ELSE "claim", !.tlb = {},
                                     !.targets = t, !.pending = t, !.gen = asids.gen,
                                     !.reclaim = asids.retired]]
          /\ asids' = [asids EXCEPT !.retired = {}, !.gen = @ + 1]
          /\ UNCHANGED space
    /\ UNCHANGED <<tlbSc, slot, pool, tlbops>>

\* reclaim() and alloc() after the global barrier.
reclaim(h) ==
    /\ HartAt(h, "reclaim")
    /\ LET used == asids.used \ cpu[h].reclaim
       IN  \/ /\ Asids \ used # {}
              /\ ForkDone(h, Lowest(Asids \ used))
              /\ asids' = [asids EXCEPT !.used = used \cup {Lowest(Asids \ used)}]
           \/ /\ Asids \subseteq used
              /\ ForkFails(h)
              /\ asids' = [asids EXCEPT !.used = used]
    /\ UNCHANGED <<tlbSc, slot, pool, tlbops>>

TlbHart(h) ==
    \/ __switch_in(h) \/ clear_current_hart_active(h)
    \/ acknowledge_ipi(h) \/ acknowledge_done(h)
    \/ memory_set_write(h) \/ change(h) \/ flush_tlb(h)
    \/ \E t \in Online : remote_sfence_vma(h, t)
    \/ claim_slot(h) \/ fill_slot(h) \/ wait_ack(h) \/ flushed(h)
    \/ allocate_asid(h) \/ reclaim(h)
TlbUser(h) ==
    \/ \E s \in Spaces : mark(h, s)
    \/ __switch_out(h) \/ tlb_fill(h)
    \/ \E op \in tlbSc.ops : syscall(h, op)
TlbNext == \E h \in Harts : TlbHart(h) \/ TlbUser(h)

\* Kernel code makes progress on every hart, and a pending interrupt is taken
\* if the hart keeps returning to where it is enabled.
TlbFair == \A h \in Harts : WF_tlbVars(TlbHart(h)) /\ SF_tlbVars(acknowledge_ipi(h))
TlbSpec == TlbInit /\ [][TlbNext]_tlbVars /\ TlbFair

-----------------------------------------------------------------------------
(* Properties.                                                             *)

\* The shape of the state: free and mapped frames are disjoint, masks hold
\* online harts, and an ASID that is retired is still in use.
TlbTypeOK ==
    /\ pool \subseteq UserFrames /\ asids.retired \subseteq asids.used
    /\ \A s \in Spaces : /\ space[s].active \cup space[s].resident \subseteq Online
                         /\ space[s].pte \in {0} \cup (UserFrames \ pool)
    /\ \A h \in Harts : cpu[h].tlb \subseteq (0 .. NAsids) \X UserFrames

\* Whenever no writer holds a space, every translation a hart can use for it
\* is the page table's: flush_tlb() reached every hart that might hold another
\* (on LoongArch also those that left the space, tlb_hart_mask), and an ASID
\* is given to a new space only after every entry of the old one is gone.
NoStaleTranslation ==
    \A s \in Spaces, h \in Online :
       space[s].root = "live" /\ space[s].writer = NoHart /\ (LA \/ cpu[h].on = s) =>
          \A e \in cpu[h].tlb : e[1] = space[s].asid => e[2] = space[s].pte

\* On LoongArch no hart's TLB holds a translation to a frame that is back in the
\* pool, whatever identifier it is tagged with ("页表页和数据 frame 只有在所有相关 hart 完成失效后才可回收",
\* memory_set.rs:16).
FreedFrameUnreachable ==
    LA => \A h \in Online : \A e \in cpu[h].tlb : e[2] \notin pool

\* A page table's own frames outlive every hart that has its root loaded
\* (retire_owned_frames, release_retired_page_table_frames).
LoadedRootKept == \A h \in Online : cpu[h].on # NoSpace => space[cpu[h].on].root # "none"

\* Concurrent page-table writers, ASID reclamation and lock waiters never wait
\* for one another for ever: every operation that entered the kernel returns
\* (the comments of remote_tlb_shootdown and poll_pending_ipi).
ShootdownCompletes == \A h \in Harts : HartAt(h, "lock") ~> HartAt(h, "user")

\* No hart uses a translation that is not the page table's, or a frame or a table that
\* was given back.
TranslationsCurrent ==
    /\ TlbTypeOK /\ NoStaleTranslation /\ FreedFrameUnreachable /\ LoadedRootKept

=============================================================================
