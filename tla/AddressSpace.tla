----------------------------- MODULE AddressSpace -----------------------------
(***************************************************************************)
(* User address spaces: the VMAs, page-table entries and frames of a       *)
(* MemorySet (mm/memory_set.rs), the mm system calls (syscall/mm.rs), the  *)
(* page-fault handler and the copy-on-write fork.                          *)
(*                                                                         *)
(* Every operation runs under the write lock of its MemorySet and is one   *)
(* step.  Addresses and lengths are pages; file offsets and lengths are in *)
(* half pages, so that a file may end inside a page.  Read and execute     *)
(* permission are one.  Page-table pages are not counted.  File pages are  *)
(* page-cache frames; the file does not change size here (FileMapping).    *)
(***************************************************************************)
EXTENDS Integers, Sequences, SequencesExt, FiniteSets, FiniteSetsExt, TLC

CONSTANTS
    Procs,
    VmTop,         \* pages 0 .. VmTop-1; mmap takes MmapMin .. VmTop-1
    MmapMin,       \* MMAP_MIN_ADDR; the heap starts at page 0
    NoOne,         \* not a process
    NFrames,       \* the most anonymous frames a machine has
    STACK_GUARD_GAP_PAGES,
    VmScenarios    \* records: arch "rv" or "la", the operations allowed, the
                   \* anonymous frames of the machine, the size of the file in
                   \* half pages, the number of calls

ASSUME VmAssumption ==
    /\ {VmTop, MmapMin, NFrames, STACK_GUARD_GAP_PAGES} \subseteq Nat /\ MmapMin < VmTop
    /\ \A s \in VmScenarios : s.arch \in {"rv", "la"} /\ {s.size, s.calls} \subseteq Nat
                            /\ s.frames \in 1 .. NFrames

VARIABLES
    vmSc,      \* the scenario
    vms,       \* the MemorySet of each process
    vmcalls,   \* calls made so far
    vmHeld,    \* what each frame holds: who stored there last, NoOne for zeroes or
               \* the contents of the file
    vmPanic    \* whether the kernel has panicked

vmVars == <<vmSc, vms, vmcalls, vmHeld, vmPanic>>

PG == 2
VPages == 0 .. VmTop - 1
Anon == 1 .. NFrames
CacheFrame(i) == NFrames + 1 + i      \* page-cache frame of file page i
Frames == 1 .. NFrames + 1 + VmTop
Perms == {"none", "r", "rw"}

\* An area; frames gives for each resident page its frame f and, as history,
\* what the process last stored or inherited there (own).
NoArea == [lo |-> 0, hi |-> 0, perm |-> "none", shared |-> FALSE, locked |-> FALSE,
           grow |-> FALSE, wipe |-> FALSE, dontfork |-> FALSE, file |-> FALSE, off |-> 0,
           len |-> 0, live_eof |-> FALSE, frames |-> <<>>]
Clean(f) == [f |-> f, own |-> NoOne]
NewSet == [live |-> FALSE, brk |-> 0, mmap_start |-> MmapMin, areas |-> {}, ptes |-> <<>>]

VmInit ==
    /\ vmSc \in VmScenarios
    /\ vms = [p \in Procs |-> [NewSet EXCEPT !.live = (p = CHOOSE q \in Procs : TRUE)]]
    /\ vmcalls = 0
    /\ vmHeld = [f \in Frames |-> NoOne]
    /\ vmPanic = FALSE

RestrictTo(f, S) == [x \in DOMAIN f \cap S |-> f[x]]
Intersects(a, lo, hi) == a.lo < hi /\ lo < a.hi
AreasAt(m, v) == {a \in m.areas : a.lo <= v /\ v < a.hi}
Contains_(a, lo, hi) == a.lo <= lo /\ hi <= a.hi

\* References to a frame (Arc::strong_count without the page cache's own).
Refs(V, f) == {x \in Procs \X VPages :
                 \E a \in V[x[1]].areas : x[2] \in DOMAIN a.frames /\ a.frames[x[2]].f = f}
FreeFrames(V) == {f \in 1 .. vmSc.frames : Refs(V, f) = {}}

\* PageTable::translate(): on RISC-V a leaf without R and X looks like a
\* branch and is not found.
translate(m, v) == v \in DOMAIN m.ptes /\ (vmSc.arch = "la" \/ m.ptes[v].acc)
Pte(f, perm, cow) == [f |-> f, acc |-> perm # "none", w |-> perm = "rw" /\ ~cow, cow |-> cow]

\* split_file_window() and meta_for_subrange(): the part lo .. hi-1 of an area.
split_file_window(off, len, delta, range) == <<off + delta, Min({Max({len - delta, 0}), range})>>
SubArea(a, lo, hi) ==
    LET w == split_file_window(a.off, a.len, (lo - a.lo) * PG, (hi - lo) * PG)
    IN  [a EXCEPT !.lo = lo, !.hi = hi, !.frames = RestrictTo(@, lo .. hi - 1),
                  !.off = IF a.file THEN w[1] ELSE @, !.len = IF a.file THEN w[2] ELSE @]

\* split_by_overlap() at lo .. hi-1 clipped to the area.
Middle(a, lo, hi) == SubArea(a, Max({a.lo, lo}), Min({a.hi, hi}))
Outside(a, lo, hi) ==
    (IF a.lo < lo THEN {SubArea(a, a.lo, lo)} ELSE {})
      \cup (IF hi < a.hi THEN {SubArea(a, hi, a.hi)} ELSE {})

DropPtes(m, S) == [m EXCEPT !.ptes = RestrictTo(@, VPages \ S)]

\* MapArea::unmap_one() for the pages of S.
unmap_pages(m, S) ==
    [DropPtes(m, S) EXCEPT
       !.areas = {[a EXCEPT !.frames = RestrictTo(@, VPages \ S)] : a \in @}]

\* remove_area_with_overlap_range().
unmap_whole_areas(m, lo, hi) ==       \* mutant: an area is not split
    [m EXCEPT !.areas = {a \in @ : ~Intersects(a, lo, hi)}]
remove_area_with_overlap_range(m, lo, hi) ==
    LET hit == {a \in m.areas : Intersects(a, lo, hi)}
    IN  [DropPtes(m, UNION {DOMAIN Middle(a, lo, hi).frames : a \in hit}) EXCEPT
           !.areas = (@ \ hit) \cup UNION {Outside(a, lo, hi) : a \in hit}]

-----------------------------------------------------------------------------
(* Page faults.                                                            *)

\* Where map_one() takes the frame of a page from: the page cache, a fresh
\* frame, or nowhere because the file ends before the page.
Source(a, v) ==
    LET at == (v - a.lo) * PG
    IN  IF ~a.file \/ (~a.live_eof /\ at >= a.len) THEN "fresh"
        ELSE IF a.off + at >= vmSc.size THEN "eof"
        ELSE IF ~a.live_eof /\ at + PG > a.len THEN "fresh"
        ELSE "cache"

\* MapArea::map_one(): the frame and the entry of one page; the entry of a
\* page-cache page is never writable at first.
map_one_pte(a, v, f) ==
    [Pte(f, a.perm, Source(a, v) = "cache" /\ ~a.shared /\ a.perm = "rw")
       EXCEPT !.w = @ /\ ~(a.shared /\ a.file)]
MapOne(m, a, v, f) ==
    [m EXCEPT !.areas = (@ \ {a}) \cup
                          {[a EXCEPT !.frames = (v :> Clean(f)) @@ @]},
              !.ptes = (v :> map_one_pte(a, v, f)) @@ @]
FrameFor(a, v, free) ==
    IF Source(a, v) = "cache" THEN {CacheFrame((a.off + (v - a.lo) * PG) \div PG)}
    ELSE IF Source(a, v) = "fresh" /\ free # {} THEN {Min(free)} ELSE {}

\* page_table.map() of a page whose leaf is valid though translate() does not
\* see it fails with EEXIST after the frame entry was replaced: both go.
MapOneClash(m, a, v) ==
    [m EXCEPT !.areas = (@ \ {a}) \cup {[a EXCEPT !.frames = RestrictTo(@, VPages \ {v})]}]

\* The COW branch of handle_page_fault(): the last user of an anonymous frame
\* takes it over, anyone else copies it.
sole_owner(V, a, f) == Cardinality(Refs(V, f)) = 1 /\ ~a.file
CowFault(V, p, a, v) ==
    LET m == V[p]
        f == a.frames[v].f
        free == FreeFrames(V)
    IN  IF v \notin DOMAIN a.frames THEN {}
        ELSE IF sole_owner(V, a, f) THEN {[m EXCEPT !.ptes[v] = Pte(f, "rw", FALSE)]}
        ELSE IF free = {} THEN {}
        ELSE {[m EXCEPT !.ptes[v] = Pte(Min(free), "rw", FALSE),
                        !.areas = (@ \ {a}) \cup {[a EXCEPT !.frames[v].f = Min(free)]}]}

\* handle_page_fault() on a page inside area a; the set is empty when the
\* fault is refused.  The shared file write goes through page_mkwrite.
FaultIn(V, p, a, v, store) ==
    LET m == V[p]
        seen == translate(m, v)
    IN  IF store /\ seen /\ m.ptes[v].cow
        THEN (IF a.shared \/ a.perm # "rw" THEN {} ELSE CowFault(V, p, a, v))
        ELSE IF store /\ seen /\ ~m.ptes[v].w /\ a.shared /\ a.file /\ a.perm = "rw"
        THEN (IF a.off + (v - a.lo) * PG >= vmSc.size THEN {}
              ELSE {[m EXCEPT !.ptes[v] = Pte(@.f, "rw", FALSE)]})
        ELSE IF ~seen
        THEN (IF a.perm = "none" \/ (store /\ a.perm # "rw") THEN {}
              ELSE IF v \in DOMAIN m.ptes THEN {MapOneClash(m, a, v)}
              ELSE {MapOne(m, a, v, f) : f \in FrameFor(a, v, FreeFrames(V))})
        ELSE IF (IF store THEN a.perm = "rw" /\ m.ptes[v].w ELSE m.ptes[v].acc) THEN {m}
        ELSE {}

\* expand_grows_down(): the page below a growing area, far enough from the
\* area before it.
expand_grows_down(m, v) ==
    {a \in m.areas : /\ a.grow /\ a.lo = v + 1
                     /\ \A b \in m.areas : b.hi <= a.lo => v - b.hi >= STACK_GUARD_GAP_PAGES}

-----------------------------------------------------------------------------
(* The steps.                                                              *)

Allowed(p, op) ==
    vms[p].live /\ op \in vmSc.ops /\ vmcalls < vmSc.calls /\ ~vmPanic
Commit(p, m) == vms' = [vms EXCEPT ![p] = m]

\* What a new frame starts with: remap_one_with_data() and privatize_one() copy
\* the page it replaces, every other frame is zeroed or read from the file.
new_frame(held, old, v) ==
    IF old = {} THEN NoOne ELSE held[(CHOOSE a \in old : TRUE).frames[v].f]

\* What the frames hold after a step without a store.
Settle(held, V, W) ==
    [f \in Frames |->
       IF f \notin Anon \/ Refs(V, f) # {} \/ Refs(W, f) = {} THEN held[f]
       ELSE LET x == CHOOSE y \in Refs(W, f) : TRUE
                old == {a \in AreasAt(V[x[1]], x[2]) : x[2] \in DOMAIN a.frames /\ ~a.shared}
            IN  new_frame(held, old, x[2])]
VmEnds(panic) ==
    /\ vmcalls' = vmcalls + 1
    /\ vmHeld' = Settle(vmHeld, vms, vms')
    /\ vmPanic' = panic
    /\ UNCHANGED vmSc
VmCall == VmEnds(FALSE)

\* The store of process p to page v once its entry allows it.
Stored(V, held, p, v) ==
    IF v \notin DOMAIN V[p].ptes \/ ~V[p].ptes[v].w THEN <<V, held>>
    ELSE <<[V EXCEPT ![p].areas = {IF v \in DOMAIN a.frames
                                   THEN [a EXCEPT !.frames[v].own = p] ELSE a : a \in @}],
           [held EXCEPT ![V[p].ptes[v].f] = p]>>

\* A user access: the page faults it takes until the entry allows it, and the
\* store.  copy_from_user()/copy_to_user() reach the page the same way
\* (ensure_user_page_access), without growing a stack (trap is FALSE).
Faulted(V, p, v, store) ==
    {[V EXCEPT ![p] = m] : m \in UNION {FaultIn(V, p, a, v, store) : a \in AreasAt(V[p], v)}}
Grown(V, p, v) ==
    {[V EXCEPT ![p].areas = (@ \ {a}) \cup {[a EXCEPT !.lo = v]}] :
       a \in IF AreasAt(V[p], v) = {} THEN expand_grows_down(V[p], v) ELSE {}}
access(p, v, store, trap) ==
    /\ Allowed(p, "fault")
    /\ \E V \in {vms} \cup (IF trap THEN Grown(vms, p, v) ELSE {}) :
       \E W \in Faulted(V, p, v, store) \cup (IF V # vms THEN {V} ELSE {}) :
       \E X \in IF store /\ Faulted(W, p, v, TRUE) # {} THEN Faulted(W, p, v, TRUE) ELSE {W} :
          LET held == Settle(Settle(vmHeld, vms, W), W, X)
              done == IF store THEN Stored(X, held, p, v) ELSE <<X, held>>
          IN  vms' = done[1] /\ vmHeld' = done[2]
    /\ vms' # vms
    /\ vmcalls' = vmcalls + 1
    /\ UNCHANGED <<vmSc, vmPanic>>

\* choose_mmap_start(): from mmap_start up, past every area in the way (one
\* page further on LoongArch).  VmTop + 1 stands for ENOMEM.
choose_mmap_start(m, n) ==
    LET go[s \in 0 .. VmTop + 1] ==
          LET hit == {a \in m.areas : Intersects(a, s, s + n)}
              nxt == Min({a.hi : a \in {b \in hit : \A c \in hit : b.lo <= c.lo}})
                       + (IF vmSc.arch = "la" THEN 1 ELSE 0)
          IN  IF s + n > VmTop THEN VmTop + 1
              ELSE IF hit = {} THEN s ELSE go[Min({nxt, VmTop + 1})]
    IN  go[m.mmap_start]

\* prepare_mmap(): the start of the new area; the empty set is an error.
\* how is "auto", "hint", "fixed" or "noreplace".
prepare_mmap(m, how, at, n) ==
    LET clash(s) == \E a \in m.areas : Intersects(a, s, s + n)
        outside == at < MmapMin \/ at + n > VmTop
        auto == choose_mmap_start(m, n)
        start == IF how = "auto" \/ (how = "hint" /\ (outside \/ clash(at))) THEN auto ELSE at
    IN  IF start < MmapMin \/ start + n > VmTop \/ (how = "noreplace" /\ clash(start)) THEN {}
        ELSE {start}

\* record_auto_mmap().
record_auto_mmap(m, end, perm) ==
    IF vmSc.arch = "la" /\ perm = "none" /\ end < VmTop THEN end + 1 ELSE end

\* mmap_area() with the private and shared, anonymous and file backings.  A
\* shared anonymous area gets its frames now, a shared file area the cached
\* frames of the pages inside the file.  The kernel panics when there is no
\* frame for a shared anonymous page (push_empty_map_area).
Backed(a, free) ==
    LET pages == a.lo .. a.hi - 1
        n == a.hi - a.lo
        firsts == CHOOSE s \in [1 .. n -> free] : \A i, j \in 1 .. n : i < j => s[i] < s[j]
    IN  IF ~a.shared THEN a
        ELSE IF a.file
        THEN [a EXCEPT !.frames = [v \in {u \in pages : Source(a, u) = "cache"} |->
                                     Clean(CacheFrame((a.off + (v - a.lo) * PG) \div PG))]]
        ELSE [a EXCEPT !.frames = [v \in pages |-> Clean(firsts[v - a.lo + 1])]]
sys_mmap(p, how, at, n, perm, shared, file, grow, locked) ==
    /\ Allowed(p, "mmap")
    /\ \E s \in prepare_mmap(vms[p], how, at, n) :
          LET m0 == IF how = "fixed" THEN remove_area_with_overlap_range(vms[p], s, s + n)
                    ELSE vms[p]
              free == FreeFrames([vms EXCEPT ![p] = m0])
              a0 == [NoArea EXCEPT !.lo = s, !.hi = s + n, !.perm = perm, !.shared = shared,
                       !.locked = locked, !.grow = grow, !.file = file, !.live_eof = file,
                       !.len = IF ~file THEN 0 ELSE IF shared THEN n * PG
                               ELSE Min({vmSc.size, n * PG})]
              a == Backed(a0, free)
              short == shared /\ ~file /\ Cardinality(free) < n
          IN  /\ Commit(p, IF short THEN m0 ELSE [m0 EXCEPT
                   !.areas = @ \cup {a},
                   !.ptes = [v \in DOMAIN a.frames |-> map_one_pte(a, v, a.frames[v].f)] @@ @,
                   !.mmap_start = IF how = "auto" THEN record_auto_mmap(m0, s + n, perm) ELSE @])
              /\ VmEnds(short)

\* A PT_LOAD segment of an executable: try_from_elf_source() maps the file
\* prefix of a segment lazily and leaves the rest anonymous.
load_segment(p, at, n, len, perm) ==
    /\ Allowed(p, "elf") /\ \A a \in vms[p].areas : ~Intersects(a, at, at + n)
    /\ at + n <= MmapMin /\ len <= n * PG /\ len <= vmSc.size
    /\ Commit(p, [vms[p] EXCEPT !.areas = @ \cup
                    {[NoArea EXCEPT !.lo = at, !.hi = at + n, !.perm = perm, !.file = TRUE,
                                    !.len = len]}])
    /\ VmCall

sys_munmap(p, lo, hi) ==
    /\ Allowed(p, "munmap") /\ MmapMin <= lo /\ hi <= VmTop
    /\ LET m == remove_area_with_overlap_range(vms[p], lo, hi)
           back == m.mmap_start \in {hi} \cup (IF vmSc.arch = "la" THEN {hi + 1} ELSE {})
       IN  Commit(p, [m EXCEPT !.mmap_start = IF back THEN lo ELSE @])
    /\ VmCall

\* Every page of the range lies in an area (check_user_mapped_range and the
\* first pass of the range operations).
Covered(m, lo, hi) == \A v \in lo .. hi - 1 : AreasAt(m, v) # {}

\* Splits the areas at the ends of the range and rewrites the parts inside.
MapRange(m, lo, hi, F(_)) ==
    LET hit == {a \in m.areas : Intersects(a, lo, hi)}
    IN  [m EXCEPT !.areas = (@ \ hit) \cup UNION {Outside(a, lo, hi) : a \in hit}
                              \cup {F(Middle(a, lo, hi)) : a \in hit}]

\* set_locked_range(), advise_fork_behavior(), advise_dontfork().
sys_mlock(p, lo, hi, on) ==
    /\ Allowed(p, "mlock") /\ Covered(vms[p], lo, hi)
    /\ Commit(p, MapRange(vms[p], lo, hi, LAMBDA a : [a EXCEPT !.locked = on]))
    /\ VmCall
madvise_fork(p, lo, hi, on) ==
    /\ Allowed(p, "madvise") /\ Covered(vms[p], lo, hi)
    /\ \A a \in vms[p].areas : Intersects(a, lo, hi) => ~a.shared /\ ~a.file
    /\ Commit(p, MapRange(vms[p], lo, hi, LAMBDA a : [a EXCEPT !.wipe = on]))
    /\ VmCall
madvise_dontfork(p, lo, hi, on) ==
    /\ Allowed(p, "madvise") /\ Covered(vms[p], lo, hi)
    /\ Commit(p, MapRange(vms[p], lo, hi, LAMBDA a : [a EXCEPT !.dontfork = on]))
    /\ VmCall

\* MADV_DONTNEED: refused on locked areas, drops the private pages.
madvise_dontneed(p, lo, hi) ==
    /\ Allowed(p, "madvise") /\ Covered(vms[p], lo, hi)
    /\ \A a \in vms[p].areas : Intersects(a, lo, hi) => ~a.locked
    /\ Commit(p, unmap_pages(vms[p], UNION {DOMAIN Middle(a, lo, hi).frames :
                    a \in {b \in vms[p].areas : Intersects(b, lo, hi) /\ ~b.shared}}))
    /\ VmCall

\* The modification loop of remap_area_with_overlap_range() on one area: the
\* pages of a private file area that becomes writable are copied first, then
\* modify_user_pte_perm() rewrites the entries it can see.  When no frame is
\* left for a copy the call fails; the area, removed before, is gone and its
\* entries stay, the copied pages' with the new frames.
privatize_pages(a, perm) ==
    IF ~a.shared /\ a.file /\ a.perm # "rw" /\ perm = "rw" THEN DOMAIN a.frames ELSE {}
modify_user_pte_perm(m, v, perm) ==
    IF translate(m, v) THEN Pte(m.ptes[v].f, perm, m.ptes[v].cow) ELSE m.ptes[v]
mprotect_area(acc, a, lo, hi, perm) ==
    LET mid == Middle(a, lo, hi)
        todo == SetToSortSeq(privatize_pages(mid, perm), <)
        new == SetToSortSeq(acc.free, <)
        copied == 1 .. Min({Len(todo), Len(new)})
        m1 == [acc.m EXCEPT !.ptes = [i \in {todo[k] : k \in copied} |->
                 Pte(new[CHOOSE k \in copied : todo[k] = i], mid.perm, FALSE)] @@ @]
        mid1 == [mid EXCEPT !.perm = perm,
                   !.frames = [v \in DOMAIN @ |-> IF v \in privatize_pages(mid, perm)
                                                  THEN [@[v] EXCEPT !.f = m1.ptes[v].f]
                                                  ELSE @[v]]]
        entry == IF mid.shared /\ mid.file /\ perm = "rw" THEN "r" ELSE perm
    IN  IF ~acc.ok THEN acc
        ELSE IF Len(todo) > Len(new)
        THEN [acc EXCEPT !.ok = FALSE, !.m = [m1 EXCEPT !.areas = @ \ {a}]]
        ELSE [acc EXCEPT
               !.free = @ \ {m1.ptes[v].f : v \in privatize_pages(mid, perm)},
               !.m = [m1 EXCEPT
                  !.areas = (@ \ {a}) \cup Outside(a, lo, hi) \cup {mid1},
                  !.ptes = [v \in DOMAIN mid1.frames |->
                              modify_user_pte_perm(m1, v, entry)] @@ @]]
sys_mprotect(p, lo, hi, perm) ==
    /\ Allowed(p, "mprotect") /\ Covered(vms[p], lo, hi)
    /\ LET hit == SetToSortSeq({a \in vms[p].areas : Intersects(a, lo, hi)},
                               LAMBDA a, b : a.lo < b.lo)
           res == FoldLeft(LAMBDA acc, a : mprotect_area(acc, a, lo, hi, perm),
                           [m |-> vms[p], free |-> FreeFrames(vms), ok |-> TRUE], hit)
       IN  Commit(p, res.m)
    /\ VmCall

-----------------------------------------------------------------------------
(* brk, mremap, fork, exit.                                                *)

\* is_private_writable_anonymous() and can_merge_private_anonymous().
PrivateHeap(a) == ~a.shared /\ ~a.file /\ a.perm = "rw"
can_merge(a, b) ==
    /\ a.hi = b.lo /\ ~a.shared /\ ~a.file
    /\ [a EXCEPT !.lo = 0, !.hi = 0, !.frames = <<>>]
         = [b EXCEPT !.lo = 0, !.hi = 0, !.frames = <<>>]

\* merge_adjacent_private_anonymous_areas(): each maximal chain becomes one.
Merged(areas) ==
    LET go[n \in 0 .. VmTop] ==
          IF n = 0 THEN areas
          ELSE LET prev == go[n - 1]
                   pairs == {x \in prev \X prev : can_merge(x[1], x[2])}
               IN  IF pairs = {} THEN prev
                   ELSE LET x == CHOOSE y \in pairs : \A z \in pairs : y[1].lo <= z[1].lo
                        IN  (prev \ {x[1], x[2]}) \cup
                              {[x[1] EXCEPT !.hi = x[2].hi, !.frames = @ @@ x[2].frames]}
    IN  go[VmTop]

\* The holes of lo .. hi-1 become heap areas, one for each maximal hole.
Holes(m, lo, hi) ==
    {[NoArea EXCEPT !.lo = x[1], !.hi = x[2], !.perm = "rw"] :
       x \in {y \in (lo .. hi) \X (lo .. hi) :
                /\ y[1] < y[2] /\ \A v \in y[1] .. y[2] - 1 : AreasAt(m, v) = {}
                /\ y[1] = lo \/ AreasAt(m, y[1] - 1) # {}
                /\ y[2] = hi \/ AreasAt(m, y[2]) # {}}}

\* ensure_user_page_access(WRITE) over a range: page by page until one fails.
Populate(V, p, lo, hi) ==
    FoldLeft(LAMBDA acc, v :
               LET a == CHOOSE b \in AreasAt(acc.V[p], v) : TRUE
                   out == FaultIn(acc.V, p, a, v, TRUE)
               IN  IF ~acc.ok THEN acc
                   ELSE IF out = {} THEN [acc EXCEPT !.ok = FALSE]
                   ELSE [acc EXCEPT !.V[p] = CHOOSE m \in out : TRUE],
             [V |-> V, ok |-> TRUE], SetToSortSeq(lo .. hi - 1, <))

sys_brk(p, new) ==
    /\ Allowed(p, "brk") /\ new # vms[p].brk /\ new <= MmapMin
    /\ LET m == vms[p]
           old == m.brk
           grown == [m EXCEPT !.areas = Merged(@ \cup Holes(m, old, new))]
           res == IF vmSc.arch = "la" THEN Populate([vms EXCEPT ![p] = grown], p, old, new)
                  ELSE [V |-> [vms EXCEPT ![p] = grown], ok |-> TRUE]
       IN  IF new < old
           THEN Commit(p, [remove_area_with_overlap_range(m, new, old) EXCEPT !.brk = new])
           ELSE /\ \A a \in m.areas : Intersects(a, old, new) => PrivateHeap(a)
                /\ vms' = [res.V EXCEPT ![p].brk = IF res.ok THEN new ELSE old]
    /\ VmCall

\* take_exact_area() plus rebase() and remap_existing_frames(): the entries of
\* the moved frames carry the permission of the area.
remap_flags(a) == Pte(0, a.perm, FALSE)
MoveArea(m, a, lo, hi, to, n) ==
    LET mid == Middle(a, lo, hi)
        d == to - lo
        kept == {v \in DOMAIN mid.frames : v - lo < n}
        frames == [v \in {u + d : u \in kept} |-> mid.frames[v - d]]
        new == [mid EXCEPT !.lo = to, !.hi = to + n, !.frames = frames,
                           !.len = IF a.file THEN n * PG ELSE @]
        base == [DropPtes(m, DOMAIN mid.frames) EXCEPT
                   !.areas = (@ \ {a}) \cup Outside(a, lo, hi)]
        clear == remove_area_with_overlap_range(base, to, to + n)
    IN  [clear EXCEPT !.areas = @ \cup {new},
                      !.ptes = [v \in DOMAIN frames |->
                                  [remap_flags(new) EXCEPT !.f = frames[v].f]] @@ @]

\* mremap_range(): n is the new length, to the target of MREMAP_FIXED or
\* VmTop for none.
sys_mremap(p, lo, hi, n, maymove, to) ==
    /\ Allowed(p, "mremap") /\ lo < hi /\ n > 0
    /\ LET m == vms[p]
           whole == {a \in m.areas : Contains_(a, lo, hi)}
           room == lo + n <= VmTop /\ \A a \in m.areas : ~Intersects(a, hi, lo + n)
           auto == choose_mmap_start(m, n)
       IN  \/ /\ to < VmTop /\ MmapMin <= to /\ to + n <= VmTop
              /\ ~(lo < to + n /\ to < hi)
              /\ \E a \in whole : Commit(p, MoveArea(m, a, lo, hi, to, n))
           \/ /\ to = VmTop /\ n < hi - lo
              /\ Commit(p, remove_area_with_overlap_range(m, lo + n, hi))
           \/ /\ to = VmTop /\ n > hi - lo /\ room
              /\ \E a \in whole :
                    Commit(p, [m EXCEPT !.areas = (@ \ {a}) \cup Outside(a, lo, hi) \cup
                      {[Middle(a, lo, hi) EXCEPT !.hi = lo + n,
                                                 !.len = IF a.file THEN n * PG ELSE @]}])
           \/ /\ to = VmTop /\ n > hi - lo /\ ~room /\ maymove
              /\ MmapMin <= auto /\ auto <= VmTop
              /\ \E a \in whole : Commit(p, MoveArea(m, a, lo, hi, auto, n))
    /\ VmCall

\* from_existed_user(): frames stay shared; a writable private page becomes
\* copy-on-write on both sides.  A resident page that translate() does not
\* find stops the kernel (translate(..).unwrap()).
cow_parent(pte) == [pte EXCEPT !.w = FALSE, !.cow = TRUE]
fork(p, q) ==
    /\ Allowed(p, "fork") /\ ~vms[q].live
    /\ LET m == vms[p]
           kin == {a \in m.areas : ~a.dontfork}
           copied == {a \in kin : ~a.wipe}
           shown == UNION {DOMAIN a.frames : a \in copied}
           cow == UNION {DOMAIN a.frames : a \in {b \in copied : ~b.shared /\ b.perm = "rw"}}
           child == [m EXCEPT
                       !.areas = copied \cup {[a EXCEPT !.frames = <<>>] : a \in kin \ copied},
                       !.ptes = [v \in shown |-> IF v \in cow
                                   THEN [m.ptes[v] EXCEPT !.w = FALSE, !.cow = TRUE]
                                   ELSE m.ptes[v]]]
           parent == [m EXCEPT !.ptes = [v \in cow |-> cow_parent(m.ptes[v])] @@ @]
           seen == \A v \in shown : translate(m, v)
       IN  /\ vms' = IF seen THEN [vms EXCEPT ![p] = parent, ![q] = child] ELSE vms
           /\ VmEnds(~seen)

\* exit and exec: recycle_data_pages().
recycle_data_pages(p) ==
    /\ Allowed(p, "exit")
    /\ Commit(p, NewSet)
    /\ VmCall

VmRanges == {r \in (0 .. VmTop) \X (0 .. VmTop) : r[1] < r[2]}
VmNext ==
    \E p \in Procs :
       \/ \E v \in VPages, store, trap \in BOOLEAN : access(p, v, store, trap)
       \/ \E how \in vmSc.hows, at \in VPages, n \in vmSc.sizes, k \in vmSc.kinds :
             /\ how = "auto" => at = 0
             /\ sys_mmap(p, how, at, n, k.perm, k.shared, k.file, k.grow, k.locked)
       \/ \E at \in 0 .. MmapMin, n \in vmSc.sizes, len \in 1 .. VmTop, perm \in {"r", "rw"} :
             load_segment(p, at, n, len, perm)
       \/ \E r \in VmRanges :
             \/ sys_munmap(p, r[1], r[2])
             \/ \E perm \in vmSc.perms : sys_mprotect(p, r[1], r[2], perm)
             \/ \E on \in BOOLEAN :
                   \/ sys_mlock(p, r[1], r[2], on)
                   \/ madvise_fork(p, r[1], r[2], on)
                   \/ madvise_dontfork(p, r[1], r[2], on)
             \/ madvise_dontneed(p, r[1], r[2])
             \/ \E n \in vmSc.sizes, maymove \in BOOLEAN, to \in MmapMin .. VmTop :
                   sys_mremap(p, r[1], r[2], n, maymove, to)
       \/ \E new \in 0 .. MmapMin : sys_brk(p, new)
       \/ \E q \in Procs : fork(p, q)
       \/ recycle_data_pages(p)

VmSpec == VmInit /\ [][VmNext]_vmVars

-----------------------------------------------------------------------------
(* Properties.                                                             *)

\* The shape of the state: areas lie inside the user range, hold known frames
\* and have an entry format the hardware accepts.
VmTypeOK ==
    /\ vmSc \in VmScenarios /\ vmcalls \in 0 .. vmSc.calls
    /\ \A p \in Procs :
          /\ vms[p].brk \in 0 .. MmapMin /\ vms[p].mmap_start \in MmapMin .. VmTop
          /\ \A a \in vms[p].areas : 0 <= a.lo /\ a.hi <= VmTop /\ a.perm \in Perms
          /\ DOMAIN vms[p].ptes \subseteq VPages

\* debug_check_invariants() (memory_set.rs): areas are ordered and disjoint, a file
\* window is no longer than its area, every resident page lies in its area and
\* has an entry translate() finds, with the permission the area gives unless
\* copy-on-write or page_mkwrite still owes the write permission.
VmasAgree ==
    \A p \in Procs : LET m == vms[p] IN
       /\ \A a \in m.areas : a.lo < a.hi /\ (a.file => a.len <= (a.hi - a.lo) * PG)
       /\ \A a, b \in m.areas : a # b => ~Intersects(a, b.lo, b.hi)
       /\ \A a \in m.areas : \A v \in DOMAIN a.frames :
             /\ a.lo <= v /\ v < a.hi /\ translate(m, v)
             /\ a.perm # "none" => m.ptes[v].acc
             /\ ~(a.shared /\ m.ptes[v].cow) /\ ~(m.ptes[v].cow /\ m.ptes[v].w)
             /\ \/ m.ptes[v].cow \/ m.ptes[v].w = (a.perm = "rw")
                \/ a.shared /\ a.file /\ a.perm = "rw" /\ ~m.ptes[v].w

\* A valid entry always names the frame the area holds for that page, so no
\* access goes to memory the allocator may have handed out again (unmap_one,
\* remap_one_with_data, MapArea::rebase).
PtesOwned ==
    \A p \in Procs : \A v \in DOMAIN vms[p].ptes :
       \E a \in AreasAt(vms[p], v) :
          v \in DOMAIN a.frames /\ a.frames[v].f = vms[p].ptes[v].f

\* Private pages with a writable entry whose frame is used elsewhere too.
Exposed(V) ==
    {f \in Anon \cup {CacheFrame(i) : i \in 0 .. VmTop} :
       \E p \in Procs : \E a \in V[p].areas : \E v \in DOMAIN a.frames :
          /\ ~a.shared /\ a.frames[v].f = f
          /\ v \in DOMAIN V[p].ptes /\ V[p].ptes[v].w
          /\ f \notin Anon \/ Cardinality(Refs(V, f)) > 1}

\* Copy-on-write isolation ("私有可写映射通过 COW 隔离", memory_set.rs:12): a
\* private page a process can write is in nobody else's memory and not in the
\* page cache, whatever sequence of calls and faults led there.
PrivateIsolation == Exposed(vms) = {}

\* A private page holds what its own process last stored there or inherited
\* at the fork, and never the store of another process: fork, the COW fault,
\* mprotect's copy of file pages, splitting, moving and discarding areas keep
\* the contents with the page (from_existed_user, remap_one_with_data,
\* privatize_one, rebase).
ReadsOwnStores ==
    \A p \in Procs : \A a \in vms[p].areas : \A v \in DOMAIN a.frames :
       ~a.shared => vmHeld[a.frames[v].f] = a.frames[v].own

\* No call of a process stops the kernel: mmap() finds its frames, and fork
\* finds the entry of every resident page (translate(..).unwrap()).
CallsReturn == ~vmPanic

\* shared_futex_key(): the page of the file, or the frame and the page within
\* the area of an anonymous mapping.
shared_futex_key(a, v) ==
    IF a.file THEN [owner |-> 0, page |-> (a.off + (v - a.lo) * PG) \div PG]
    ELSE [owner |-> a.frames[v].f, page |-> v - a.lo]

\* Waiters and wakers meet: two shared mappings of one page of a file give a
\* futex in it the same key, however either was split, cut or moved since
\* (shared_futex_key, split_file_window).
OneKeyPerFilePage ==
    \A p, q \in Procs : \A a \in vms[p].areas, b \in vms[q].areas :
       a.shared /\ b.shared /\ a.file /\ b.file =>
       \A v \in DOMAIN a.frames, w \in DOMAIN b.frames :
          a.frames[v].f = b.frames[w].f => shared_futex_key(a, v) = shared_futex_key(b, w)

=============================================================================
