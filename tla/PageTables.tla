----------------------------- MODULE PageTables -----------------------------
(***************************************************************************)
(* The page tables of both architectures (arch/*/mm/page_table.rs): trees   *)
(* of table frames with bit-encoded entries, the kernel half that every     *)
(* user root shares below its top level (MemorySet::new_kernel()), and the  *)
(* kernel stacks mapped into it while the system runs (task/kstack.rs).     *)
(*                                                                         *)
(* A tree has three levels; a page number is <<root index, middle, low>>    *)
(* packed into a number.  Entries hold the bits the code stores.  Calls of  *)
(* one address space are under its lock, the kernel's under another, so     *)
(* every call is one step and the two programs of a scenario interleave.    *)
(***************************************************************************)
EXTENDS Integers, Sequences, FiniteSets

CONSTANTS
    PtSpaces,       \* user address spaces, numbers from 1; 0 is KERNEL_SPACE
    PT_ROOT,        \* entries of a root; the lower tables have two
    KERNEL_INDEX,   \* first root entry of the kernel half
    PtFrames,       \* frames of the allocator
    STACK_SLOTS,    \* kernel-stack slots there are addresses for
    PtScenarios

VARIABLES ptSc, tables, ptSpace, stacks, ptAt
ptVars == <<ptSc, tables, ptSpace, stacks, ptAt>>

LA == ptSc.arch = "la"
PT_PAGES == 0 .. PT_ROOT * 4 - 1
get_vpn_indexes(vpn) == <<vpn \div 4, (vpn \div 2) % 2, vpn % 2>>
KernelPages == {v \in PT_PAGES : v \div 4 >= KERNEL_INDEX}
NO_START == 1000        \* usize::MAX

-----------------------------------------------------------------------------
(* Entries.                                                                *)

EmptyEntry == [bits |-> {}, to |-> 0]
EmptyTable == [i \in 0 .. PT_ROOT - 1 |-> EmptyEntry]
new_table(f) == [bits |-> {"V"}, to |-> f]

\* flags_to_la64() of flags with VALID: the page without permissions has a
\* bit of its own and is invalid for the hardware.
flags_to_la64(flags) ==
    LET prot_none == "USER" \in flags /\ flags \cap {"READ", "WRITE", "EXECUTE"} = {} IN
    (IF prot_none THEN {"PROTNONE"} ELSE {"V"})
        \cup {"P"} \cup (IF flags \cap {"DIRTY", "WRITE"} # {} THEN {"D"} ELSE {})
        \cup (IF "USER" \in flags THEN {"PLV"} ELSE {}) \cup (IF "GLOBAL" \in flags THEN {"G"} ELSE {})
        \cup (flags \cap {"COW"}) \cup (IF "WRITE" \in flags THEN {"W"} ELSE {})
        \cup (IF "READ" \in flags THEN {} ELSE {"NR"}) \cup (IF "EXECUTE" \in flags THEN {} ELSE {"NX"})
flags_from_la64(bits) ==
    (IF "W" \in bits THEN {"WRITE"} ELSE {}) \cup (IF "D" \in bits THEN {"DIRTY"} ELSE {})
        \cup (IF "NR" \in bits THEN {} ELSE {"READ"}) \cup (IF "NX" \in bits THEN {} ELSE {"EXECUTE"})
        \cup (IF "PLV" \in bits THEN {"USER"} ELSE {}) \cup (IF "G" \in bits THEN {"GLOBAL"} ELSE {})
        \cup (bits \cap {"COW"})
\* Sv39 keeps the flags as they are; every mapping is dirty from the start.
LeafBits(flags) == IF LA THEN flags_to_la64(flags) ELSE {"V", "DIRTY"} \cup flags
LeafFlags(e) == IF LA THEN flags_from_la64(e.bits) ELSE e.bits \ {"V"}
Leaf(ppn, flags) == [bits |-> LeafBits(flags), to |-> ppn]
is_valid(e) == e.bits \cap {"V", "PROTNONE"} # {}
is_cow(e) == "COW" \in e.bits
\* PTEFlags::from(MapPermission) for a user page.
PermFlags(perm) == {"USER"} \cup perm \cup (IF ~ LA /\ "WRITE" \in perm THEN {"READ"} ELSE {})
make_cow(e) == [e EXCEPT !.bits = IF LA THEN (@ \ {"W", "D"}) \cup {"COW", "P", "V"} ELSE @ \cup {"COW"}]
clear_cow_bit(e) == [e EXCEPT !.bits = @ \ {"COW"}]

-----------------------------------------------------------------------------
(* Trees.                                                                  *)

Owned == UNION {ptSpace[p].frames \cup ptSpace[p].retired : p \in DOMAIN ptSpace}
\* The allocator gives any frame nobody owns, cleared; here the least.
UnownedFrames == PtFrames \ Owned
LeastOf(S) == CHOOSE f \in S : \A g \in S : f <= g
NoSlot == <<0, 0>>
\* find_pte(): the table and the index of the last-level entry.
find_pte(tb, root, vpn) ==
    LET ix == get_vpn_indexes(vpn)
        e0 == tb[root][ix[1]]
        e1 == tb[e0.to][ix[2]] IN
    IF is_valid(e0) /\ is_valid(e1) THEN <<e1.to, ix[3]>> ELSE NoSlot
EntryAt(tb, slot) == IF slot = NoSlot THEN EmptyEntry ELSE tb[slot[1]][slot[2]]

push_frame(s, f) == [s EXCEPT !.frames = @ \cup {f}]
\* find_pte_create(): missing tables are allocated on the way down; those
\* stay when a later one cannot be.  A result is the trees, the spaces and
\* whether the entry is there.
Branch(r, p, f, i) ==
    IF ~ r.ok \/ is_valid(r.tb[f][i]) THEN r
    ELSE LET free == PtFrames \ UNION {r.sp[q].frames \cup r.sp[q].retired : q \in DOMAIN r.sp} IN
         IF free = {} THEN [r EXCEPT !.ok = FALSE]
         ELSE LET n == LeastOf(free) IN
              [r EXCEPT !.tb = [@ EXCEPT ![n] = EmptyTable, ![f][i] = new_table(n)], !.sp[p] = push_frame(@, n)]
Here == [tb |-> tables, sp |-> ptSpace, ok |-> TRUE]
find_pte_create(r, p, vpn) ==
    LET ix == get_vpn_indexes(vpn)
        r1 == Branch(r, p, r.sp[p].root, ix[1]) IN
    IF ~ r1.ok THEN r1 ELSE Branch(r1, p, r1.tb[r1.sp[p].root][ix[1]].to, ix[2])

record_tlb_range(pending, start, n) ==
    [start |-> IF pending.start < start THEN pending.start ELSE start,
     end |-> IF pending.end > start + n THEN pending.end ELSE start + n]
\* Only LoongArch keeps the range; RISC-V flushes the whole space.
Changed(s, vpn, n) == IF ~ LA THEN s ELSE [s EXCEPT !.pending = record_tlb_range(@, vpn, n), !.changed = @ \cup (vpn .. vpn + n - 1)]
\* A last-level entry of a space is written.
Put(r, p, vpn, e) ==
    LET s == find_pte(r.tb, r.sp[p].root, vpn) IN
    [r EXCEPT !.tb[s[1]][s[2]] = e, !.sp[p] = Changed(@, vpn, 1)]
\* map(): EEXIST for a valid entry, ENOMEM without a table.
map(r, p, vpn, e) ==
    LET r1 == find_pte_create(r, p, vpn) IN
    IF ~ r1.ok THEN r1
    ELSE IF is_valid(EntryAt(r1.tb, find_pte(r1.tb, r1.sp[p].root, vpn))) THEN [r1 EXCEPT !.ok = FALSE]
    ELSE Put(r1, p, vpn, e)
Take(r) == tables' = r.tb /\ ptSpace' = r.sp

-----------------------------------------------------------------------------
(* MemorySet::new_kernel(), before any user space: the pages of the kernel  *)
(* image one by one, the rest of memory in large leaves (a middle entry on  *)
(* LoongArch, a root entry on RISC-V), pairs of pages global on LoongArch,  *)
(* and at last a branch for every root entry that is still empty.           *)

ImagePages == {KERNEL_INDEX * 4, KERNEL_INDEX * 4 + 1, KERNEL_INDEX * 4 + 3}
LargeIndex == KERNEL_INDEX + 1
NewSpace(f) == [root |-> f, frames |-> {f}, retired |-> {}, live |-> TRUE,
                pending |-> [start |-> NO_START, end |-> 0], changed |-> {}, flat |-> [v \in {} |-> {}]]
NoSpaceYet == [NewSpace(0) EXCEPT !.frames = {}, !.live = FALSE]
KernelFlags == {"READ", "WRITE"}
Map3(r, a, b, c) ==
    map(map(map(r, 0, a, Leaf(100 + a, KernelFlags)), 0, b, Leaf(100 + b, KernelFlags)), 0, c, Leaf(100 + c, KernelFlags))
map_gigabyte(r) ==
    [r EXCEPT !.tb[r.sp[0].root][LargeIndex] = Leaf(100 + LargeIndex * 4, KernelFlags)]
map_huge_2m(r) ==
    LET r1 == Branch(r, 0, r.sp[0].root, LargeIndex)
        f == r1.tb[r1.sp[0].root][LargeIndex].to
        Huge(i) == [Leaf(100 + LargeIndex * 4 + 2 * i, KernelFlags) EXCEPT !.bits = @ \cup {"HUGE"}] IN
    [r1 EXCEPT !.tb[f][0] = Huge(0), !.tb[f][1] = Huge(1), !.sp[0] = Changed(@, LargeIndex * 4, 4)]
both_of_pair(a, b) == is_valid(a) /\ is_valid(b)
mark_pair(r, vpn) ==
    LET f == find_pte(r.tb, r.sp[0].root, vpn)[1]
        t == r.tb[f] IN
    IF both_of_pair(t[0], t[1])
    THEN [r EXCEPT !.tb[f][0].bits = @ \cup {"G"}, !.tb[f][1].bits = @ \cup {"G"}] ELSE r
mark_existing_kernel_global(r) == mark_pair(mark_pair(r, KERNEL_INDEX * 4), KERNEL_INDEX * 4 + 3)
\* mutant: root entries are made when they are needed.
no_root_branches(r) == r
prepare_kernel_root_branches(r) ==
    IF PT_ROOT - 1 > LargeIndex THEN Branch(r, 0, r.sp[0].root, PT_ROOT - 1) ELSE r
new_kernel ==
    /\ ptAt.user = 0
    /\ LET f == LeastOf(PtFrames)
           r0 == [tb |-> tables, sp |-> [ptSpace EXCEPT ![0] = NewSpace(f)], ok |-> TRUE]
           r1 == Map3(r0, KERNEL_INDEX * 4, KERNEL_INDEX * 4 + 1, KERNEL_INDEX * 4 + 3)
           r2 == IF LA THEN mark_existing_kernel_global(map_huge_2m(r1)) ELSE map_gigabyte(r1) IN
       Take([prepare_kernel_root_branches(r2) EXCEPT
               !.sp[0].flat = [v \in ImagePages \cup {w \in PT_PAGES : w \div 4 = LargeIndex} |-> KernelFlags]])
    /\ ptAt' = [user |-> 1, kernel |-> 1]
    /\ UNCHANGED <<ptSc, stacks>>

PtStart(s) ==
    /\ ptSc = s
    /\ tables = [f \in PtFrames \cup {0} |-> EmptyTable]
    /\ ptSpace = [p \in PtSpaces \cup {0} |-> NoSpaceYet]
    /\ stacks = [recycled |-> <<>>, next |-> 0, live |-> {}, mapped |-> {}]
    /\ ptAt = [user |-> 0, kernel |-> 0]
PtInit == \E s \in PtScenarios : PtStart(s)

-----------------------------------------------------------------------------
(* Calls of user address spaces.                                           *)

UserCall == ptSc.user[ptAt.user]
Calls(op) == ptAt.user \in DOMAIN ptSc.user /\ UserCall.op = op /\ ptAt' = [ptAt EXCEPT !.user = @ + 1]
On(op) == Calls(op) /\ ptSpace[UserCall.p].live
UserSpace == ptSpace[UserCall.p]
Entry == EntryAt(tables, find_pte(tables, UserSpace.root, UserCall.v))
SetFlat(r, x) ==
    [r EXCEPT !.sp[UserCall.p].flat =
        [v \in (DOMAIN @ \cup {UserCall.v}) \ (IF x = "gone" THEN {UserCall.v} ELSE {}) |->
            IF v = UserCall.v THEN UserCall.perm ELSE @[v]]]

\* from_kernel(): the kernel half of the root is copied.
from_kernel ==
    /\ Calls("new") /\ ~ UserSpace.live
    /\ IF UnownedFrames = {} THEN UNCHANGED <<tables, ptSpace>>
       ELSE LET f == LeastOf(UnownedFrames)
                k == tables[ptSpace[0].root] IN
            /\ tables' = [tables EXCEPT ![f] = [i \in DOMAIN k |-> IF i >= KERNEL_INDEX THEN k[i] ELSE EmptyEntry]]
            /\ ptSpace' = [ptSpace EXCEPT ![UserCall.p] = NewSpace(f)]
    /\ UNCHANGED <<ptSc, stacks>>
map_page ==
    /\ On("map")
    /\ LET r == map(Here, UserCall.p, UserCall.v, Leaf(UserCall.v, PermFlags(UserCall.perm))) IN
       Take(IF r.ok THEN SetFlat(r, "there") ELSE r)
    /\ UNCHANGED <<ptSc, stacks>>
try_unmap ==
    /\ On("unmap")
    /\ IF is_valid(Entry) THEN Take(SetFlat(Put(Here, UserCall.p, UserCall.v, EmptyEntry), "gone"))
       ELSE UNCHANGED <<tables, ptSpace>>
    /\ UNCHANGED <<ptSc, stacks>>
\* translate() of a last-level entry: on RISC-V one that can be neither read
\* nor executed is not found.
found(e) == is_valid(e) /\ (LA \/ e.bits \cap {"READ", "EXECUTE"} # {})
\* modify_pte() as mprotect uses it (modify_user_pte_perm): copy-on-write
\* stays, without WRITE.
modify_pte ==
    /\ On("protect") /\ found(Entry)
    /\ LET flags == IF is_cow(Entry) THEN (PermFlags(UserCall.perm) \ {"WRITE"}) \cup {"COW"} ELSE PermFlags(UserCall.perm) IN
       Take(SetFlat(Put(Here, UserCall.p, UserCall.v, Leaf(Entry.to, flags)), "there"))
    /\ UNCHANGED <<ptSc, stacks>>
\* make_pte_cow() after modify_pte(): how fork shares a page of a writable
\* area.
make_pte_cow ==
    /\ On("cow") /\ is_valid(Entry) /\ "WRITE" \in UserSpace.flat[UserCall.v]
    /\ Take(Put(Here, UserCall.p, UserCall.v, make_cow(Leaf(Entry.to, LeafFlags(Entry) \ {"WRITE", "DIRTY"}))))
    /\ UNCHANGED <<ptSc, stacks>>
\* clear_pte_cow() after modify_pte() with the permission of the area: a
\* store to a page nobody shares any more.
clear_pte_cow ==
    /\ On("own") /\ is_cow(Entry)
    /\ Take(SetFlat(Put(Here, UserCall.p, UserCall.v, clear_cow_bit(Leaf(Entry.to, PermFlags(UserCall.perm)))), "there"))
    /\ UNCHANGED <<ptSc, stacks>>
\* replace_pte(): a store to a shared page, which gets a frame of its own.
replace_pte ==
    /\ On("replace") /\ is_valid(Entry)
    /\ Take(SetFlat(Put(Here, UserCall.p, UserCall.v, Leaf(Entry.to + 50, PermFlags(UserCall.perm))), "there"))
    /\ UNCHANGED <<ptSc, stacks>>
emptied(pending) == [start |-> NO_START, end |-> 0]
take_pending_tlb_range ==
    /\ On("flush")
    /\ ptSpace' = [ptSpace EXCEPT ![UserCall.p].pending = emptied(@), ![UserCall.p].changed = {}]
    /\ UNCHANGED <<ptSc, tables, stacks>>
\* retire_owned_frames(), and release_retired_page_table_frames() when the
\* last hart has left the root.
retire_owned_frames ==
    /\ On("retire")
    /\ ptSpace' = [ptSpace EXCEPT ![UserCall.p].retired = UserSpace.frames, ![UserCall.p].frames = {}]
    /\ UNCHANGED <<ptSc, tables, stacks>>
release_retired_page_table_frames ==
    /\ On("release")
    /\ ptSpace' = [ptSpace EXCEPT ![UserCall.p] = NoSpaceYet]
    /\ UNCHANGED <<ptSc, tables, stacks>>

-----------------------------------------------------------------------------
(* Kernel stacks.                                                          *)

KernelCall == ptSc.kernel[ptAt.kernel]
InKernel(op) == ptAt.kernel \in DOMAIN ptSc.kernel /\ KernelCall.op = op /\ ptAt' = [ptAt EXCEPT !.kernel = @ + 1]
StackPage(slot) == PT_ROOT * 4 - 1 - 2 * slot      \* a guard page between two
StackSlot == IF stacks.recycled # <<>> THEN stacks.recycled[Len(stacks.recycled)] ELSE stacks.next
popped(s) ==
    IF s.recycled # <<>> THEN [s EXCEPT !.recycled = SubSeq(@, 1, Len(@) - 1)] ELSE [s EXCEPT !.next = @ + 1]
\* KernelStack::new() with insert_stack_area(): the mapping of a slot that
\* was used before is still there.
KernelStack_new ==
    /\ InKernel("stack") /\ StackSlot < STACK_SLOTS
    /\ LET slot == StackSlot
           v == StackPage(slot)
           r == IF slot \in stacks.mapped THEN Here ELSE map(Here, 0, v, Leaf(100 + v, KernelFlags))
           s == popped(stacks) IN
       IF r.ok
       THEN /\ tables' = r.tb
            /\ ptSpace' = [r.sp EXCEPT ![0].flat = [w \in DOMAIN @ \cup {v} |-> KernelFlags]]
            /\ stacks' = [s EXCEPT !.live = @ \cup {slot}, !.mapped = @ \cup {slot}]
       ELSE /\ Take(r)
            /\ stacks' = [s EXCEPT !.recycled = Append(@, slot)]
    /\ UNCHANGED ptSc
KernelStack_drop ==
    /\ InKernel("drop") /\ KernelCall.slot \in stacks.live
    /\ stacks' = [stacks EXCEPT !.live = @ \ {KernelCall.slot}, !.recycled = Append(@, KernelCall.slot)]
    /\ UNCHANGED <<ptSc, tables, ptSpace>>
\* A call that finds nothing to do.
Skip ==
    \/ /\ ptAt.user \in DOMAIN ptSc.user /\ (UserSpace.live <=> UserCall.op = "new")
       /\ ptAt' = [ptAt EXCEPT !.user = @ + 1] /\ UNCHANGED <<ptSc, tables, ptSpace, stacks>>
    \/ /\ Calls("cow") \/ Calls("own") \/ Calls("replace")
       /\ UserSpace.live /\ ~ is_valid(Entry) /\ UNCHANGED <<ptSc, tables, ptSpace, stacks>>
    \/ /\ On("protect") /\ ~ found(Entry) /\ UNCHANGED <<ptSc, tables, ptSpace, stacks>>
    \/ /\ InKernel("drop") /\ KernelCall.slot \notin stacks.live /\ UNCHANGED <<ptSc, tables, ptSpace, stacks>>

PtNext ==
    \/ new_kernel \/ from_kernel \/ map_page \/ try_unmap \/ modify_pte \/ make_pte_cow \/ clear_pte_cow \/ replace_pte
    \/ take_pending_tlb_range \/ retire_owned_frames \/ release_retired_page_table_frames
    \/ KernelStack_new \/ KernelStack_drop \/ Skip
PtSpec == PtInit /\ [][PtNext]_ptVars
-----------------------------------------------------------------------------
\* What the hardware finds at a page of a space: large leaves are entries
\* above the last level that are not branches.
IsLarge(e) == IF LA THEN "HUGE" \in e.bits ELSE e.bits \cap {"READ", "EXECUTE"} # {}
HwWalk(p, vpn) ==
    LET ix == get_vpn_indexes(vpn)
        e0 == tables[ptSpace[p].root][ix[1]]
        e1 == tables[e0.to][ix[2]]
        slot == <<e1.to, ix[3]>> IN
    IF ~ is_valid(e0) THEN EmptyEntry
    ELSE IF IsLarge(e0) THEN [e0 EXCEPT !.to = @ + (vpn % 4)]
    ELSE IF ~ is_valid(e1) THEN EmptyEntry
    ELSE IF IsLarge(e1) THEN [e1 EXCEPT !.to = @ + (vpn % 2)]
    ELSE tables[slot[1]][slot[2]]
LiveSpaces == {p \in DOMAIN ptSpace : ptSpace[p].live}
\* Tables reachable from a root through branches.
Reaches(root) ==
    LET kids(f) == {tables[f][i].to : i \in {j \in 0 .. PT_ROOT - 1 : is_valid(tables[f][j]) /\ ~ IsLarge(tables[f][j])}} IN
    {root} \cup kids(root) \cup UNION {kids(f) : f \in kids(root)}

(* Type invariant: a recorded range is empty or has an end past its start   *)
(* (asserted in take_pending_tlb_range()), and a LoongArch page is global   *)
(* only together with the other page of its pair.                           *)
PtTypeOK ==
    /\ \A p \in DOMAIN ptSpace : LET r == ptSpace[p].pending IN
          IF r.start = NO_START THEN r.end = 0 ELSE r.start < r.end
    /\ \A f \in PtFrames : ("G" \in tables[f][0].bits) = ("G" \in tables[f][1].bits)
    /\ stacks.next <= STACK_SLOTS /\ stacks.live \subseteq stacks.mapped

(* Every address space has the kernel's mappings: a page the kernel maps    *)
(* after the space was made, a kernel stack above all, is found through     *)
(* each root, at the same frame.                                            *)
KernelEverywhere ==
    \A p \in LiveSpaces : \A v \in KernelPages :
        /\ HwWalk(p, v) = HwWalk(0, v)
        /\ is_valid(HwWalk(0, v)) = (v \in DOMAIN ptSpace[0].flat)
        /\ is_valid(HwWalk(0, v)) => HwWalk(0, v).to = 100 + v

(* The tree of a space is the map its calls describe: a page has a valid    *)
(* entry just when it was mapped last, and the hardware gives it no access  *)
(* its permission does not: none at all without permissions, also where     *)
(* the emulator ignores NR and NX, and no store while it is copy-on-write.  *)
TreeIsMap ==
    \A p \in LiveSpaces \ {0} : \A v \in PT_PAGES \ KernelPages :
        LET e == HwWalk(p, v)
            perm == ptSpace[p].flat[v]
            stores == IF LA THEN "D" \in e.bits ELSE "WRITE" \in e.bits
            reaches == "V" \in e.bits /\ (LA \/ e.bits \cap {"READ", "WRITE", "EXECUTE"} # {}) IN
        /\ is_valid(e) = (v \in DOMAIN ptSpace[p].flat)
        /\ is_valid(e) /\ perm = {} => ~ reaches
        /\ is_valid(e) /\ stores => "WRITE" \in perm /\ ~ is_cow(e)
        /\ is_valid(e) /\ "READ" \in perm => reaches /\ "READ" \in LeafFlags(e)

(* Every table reachable from a root is owned, by that space in its own     *)
(* half and by the kernel in the other, and by nobody else: what an exiting *)
(* space gives back is never a table another one uses.                      *)
TablesOwned ==
    /\ \A p, q \in DOMAIN ptSpace : p # q =>
          (ptSpace[p].frames \cup ptSpace[p].retired) \cap (ptSpace[q].frames \cup ptSpace[q].retired) = {}
    /\ \A p \in LiveSpaces :
          Reaches(ptSpace[p].root) \subseteq ptSpace[p].frames \cup ptSpace[p].retired \cup ptSpace[0].frames

(* A kernel stack in use has a slot of its own, mapped, with unmapped pages *)
(* below it.                                                                *)
StackOfItsOwn ==
    /\ \A s \in stacks.live :
          /\ is_valid(HwWalk(0, StackPage(s))) /\ ~ is_valid(HwWalk(0, StackPage(s) - 1))
          /\ \A i \in DOMAIN stacks.recycled : stacks.recycled[i] # s
    /\ \A i, j \in DOMAIN stacks.recycled : stacks.recycled[i] = stacks.recycled[j] => i = j

=============================================================================
