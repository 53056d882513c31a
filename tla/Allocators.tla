----------------------------- MODULE Allocators -----------------------------
(***************************************************************************)
(* The kernel's global allocator (os/src/mm/heap_allocator.rs): a buddy    *)
(* heap behind one lock and, with the feature heap_magazine, a magazine of *)
(* small blocks for every hart in front of it.  The buddy heap itself      *)
(* (vendor/respos_buddy_allocator) is its free lists, one for every order. *)
(*                                                                         *)
(* A call is a list of steps; taking a lock is a step of its own, so every *)
(* moment at which another hart can come in is a state.  Every hart has a  *)
(* second context for the allocations of its interrupt handlers.  Sizes    *)
(* are in machine words.                                                   *)
(***************************************************************************)
EXTENDS Integers, FiniteSets, Sequences, SequencesExt, FiniteSetsExt, TLC

CONSTANTS
    HpHarts,                 \* the harts, 1 .. n; lock 0 is the buddy heap's
    HpWords,                 \* the size of the heap in words
    HpNames,                 \* names the programs give their allocations
    MAGAZINE_MAX_ORDER, MAGAZINE_CLASS_CAPACITY, MAGAZINE_REFILL_BATCH,
    HpScenarios              \* [context -> sequence of calls]

ASSUME HpAssumption == HpHarts = 1 .. Cardinality(HpHarts)

VARIABLES
    hpProg,    \* what each context still has to call
    hpBuddy,   \* [lists: the free blocks of every order, user: bytes asked for, peak]
    hpMag,     \* the magazine of each hart
    hpLock,    \* the context that holds each lock
    hpIrq,     \* whether the hart's ordinary context can be interrupted
    hpOp,      \* the call of each context
    hpLive     \* the blocks the callers own

hpVars == <<hpProg, hpBuddy, hpMag, hpLock, hpIrq, hpOp, hpLive>>

HpLocks == {0} \cup HpHarts
HpCtxs == HpHarts \X {0, 1}     \* 1: the hart's interrupt handler
HpNobody == <<0, 0>>
HpNoBlock == [base |-> -1, size |-> 0, align |-> 1]
HpNoCall == [call |-> "none", todo |-> <<>>, name |-> 0, size |-> 0, align |-> 1, base |-> -1, drained |-> 0, spare |-> FALSE]

(***************************************************************************)
(* Orders.                                                                 *)
(***************************************************************************)
next_power_of_two(n) == CHOOSE p \in {1, 2, 4, 8, 16} : p >= n /\ p < 2 * n
HpMax(a, b) == IF a > b THEN a ELSE b
Log2(size) == CHOOSE o \in 0 .. 4 : 2 ^ o = size

layout_order(l) == Log2(HpMax(next_power_of_two(HpMax(l.size, 1)), l.align))

magazine_order(l) ==
    /\ l.align <= next_power_of_two(HpMax(l.size, 1))
    /\ layout_order(l) <= MAGAZINE_MAX_ORDER

(***************************************************************************)
(* The buddy heap: a list of free blocks for every order.  A block is cut  *)
(* from the first larger one, upper half first; a freed block is joined    *)
(* with its buddy as long as that is free.                                 *)
(***************************************************************************)
HpTop == Log2(HpWords)
HpRun(base, order) == base .. (base + 2 ^ order - 1)
HpFree(lists) == UNION {UNION {HpRun(b, o) : b \in Range(lists[o])} : o \in DOMAIN lists}

alloc_order(lists, order) ==
    LET sources == {o \in order .. HpTop : lists[o] # <<>>} IN
    IF sources = {} THEN [base |-> -1, lists |-> lists]
    ELSE LET src == Min(sources)
             end == Head(lists[src]) + 2 ^ src
         IN [base |-> end - 2 ^ order,
             lists |-> [o \in 0 .. HpTop |-> IF o = src THEN Tail(lists[o])
                                            ELSE IF o \in order .. (src - 1) THEN <<end - 2 ^ (o + 1)>>
                                            ELSE lists[o]]]

holder(base, order) == base - (base % 2 ^ order)
buddy(base, order) == LET b == holder(base, order) IN IF (b \div 2 ^ order) % 2 = 0 THEN b + 2 ^ order ELSE b - 2 ^ order

joined_order(lists, base, order) ==
    Min({o \in order .. HpTop : o = HpTop \/ buddy(base, o) \notin Range(lists[o])})

dealloc_order(lists, base, order) ==
    LET top == joined_order(lists, base, order) IN
    [o \in 0 .. HpTop |-> IF o = top THEN <<holder(base, o)>> \o lists[o]
                         ELSE IF o \in order .. (top - 1) THEN Remove(lists[o], buddy(base, o))
                         ELSE lists[o]]

HpInit ==
    /\ hpProg \in HpScenarios
    /\ hpBuddy = [lists |-> [o \in 0 .. HpTop |-> IF o = HpTop THEN <<0>> ELSE <<>>], user |-> 0, peak |-> 0]
    /\ hpMag = [h \in HpHarts |-> [blocks |-> [o \in 0 .. MAGAZINE_MAX_ORDER |-> <<>>], allocated |-> 0, deallocated |-> 0, cached |-> 0, peak |-> 0]]
    /\ hpLock = [l \in HpLocks |-> HpNobody]
    /\ hpIrq = [h \in HpHarts |-> TRUE]
    /\ hpOp = [c \in HpCtxs |-> HpNoCall]
    /\ hpLive = [n \in HpNames |-> HpNoBlock]

(***************************************************************************)
(* Steps.  An interrupt handler runs to its end before the code it         *)
(* interrupted goes on.                                                    *)
(***************************************************************************)
HpAt(c, s) ==
    /\ hpOp[c].todo # <<>>
    /\ hpOp[c].todo[1][1] = s
    /\ c[2] = 0 => hpOp[<<c[1], 1>>].todo = <<>>

HpArg(c) == hpOp[c].todo[1][2]
HpGo(c, more, r) == hpOp' = [hpOp EXCEPT ![c] = [r EXCEPT !.todo = more \o Tail(hpOp[c].todo)]]
HpRelease(locks) == hpLock' = [l \in HpLocks |-> IF l \in locks THEN HpNobody ELSE hpLock[l]]

HpOrder == SetToSortSeq(HpHarts, <)
ForMagazines(steps(_)) == FlattenSeq([i \in 1 .. Len(HpOrder) |-> steps(HpOrder[i])])

(* One magazine after the other, each with the heap inside it.             *)
drain_one(i) == << <<"lock", i>>, <<"lock", 0>>, <<"drain", i>> >>
drain_steps == ForMagazines(drain_one)

read_one(i) == << <<"lock", i>>, <<"read", i>> >>
heap_first == << <<"irqoff", 0>>, <<"lock", 0>> >> \o ForMagazines(read_one) \o << <<"sum", 0>>, <<"irqon", 0>> >>    \* mutant
stats_alloc_user ==
    << <<"irqoff", 0>> >> \o ForMagazines(read_one) \o << <<"irqon", 0>>, <<"irqoff", 0>>, <<"lock", 0>>, <<"sum", 0>>, <<"irqon", 0>> >>

try_stats_alloc_user ==
    << <<"irqoff", 0>> >> \o FlattenSeq([i \in 1 .. Len(HpOrder) |-> << <<"try", HpOrder[i]>> >>])
                       \o << <<"irqon", 0>>, <<"irqoff", 0>>, <<"try", 0>>, <<"irqon", 0>> >>

reset_one(i) == << <<"lock", i>>, <<"reset", i>> >>
reset_perf_peak == << <<"irqoff", 0>>, <<"lock", 0>>, <<"reset", 0>>, <<"irqon", 0>>, <<"irqoff", 0>> >> \o ForMagazines(reset_one) \o << <<"irqon", 0>> >>

(* The report of a failed allocation: it still holds the heap when it      *)
(* looks at the magazines.                                                 *)
handle_alloc_error ==
    stats_alloc_user \o << <<"irqoff", 0>>, <<"lock", 0>> >> \o ForMagazines(read_one) \o << <<"panic", 0>> >>

alloc(h, small) == << <<"irqoff", 0>>, <<"lock", IF small THEN h ELSE 0>>, <<IF small THEN "pop" ELSE "direct", h>>, <<"irqon", 0>> >>
dealloc(h, small) == << <<"irqoff", 0>>, <<"lock", IF small THEN h ELSE 0>>, <<IF small THEN "push" ELSE "give", h>>, <<"irqon", 0>> >>

HpCallSteps(h, q) ==
    CASE q.call = "alloc" -> alloc(h, magazine_order(q))
      [] q.call = "dealloc" -> dealloc(h, magazine_order(hpLive[q.name]))
      [] q.call = "stats" -> stats_alloc_user
      [] q.call = "try_stats" -> try_stats_alloc_user
      [] q.call = "reset" -> reset_perf_peak
      [] q.call = "drain_magazines" -> << <<"irqoff", 0>> >> \o drain_steps \o << <<"irqon", 0>> >>

(* A block can be freed by any hart once its allocation has returned.      *)
HpBegin(c) ==
    /\ hpOp[c].todo = <<>> /\ hpProg[c] # <<>>
    /\ IF c[2] = 1 THEN hpIrq[c[1]] ELSE hpOp[<<c[1], 1>>].todo = <<>>
    /\ LET q == Head(hpProg[c]) IN
       /\ q.call = "dealloc" => hpLive[q.name] # HpNoBlock
       /\ hpProg' = [hpProg EXCEPT ![c] = Tail(@)]
       /\ hpOp' = [hpOp EXCEPT ![c] = [HpNoCall EXCEPT !.call = q.call, !.todo = HpCallSteps(c[1], q), !.name = q.name,
                       !.size = IF q.call = "dealloc" THEN hpLive[q.name].size ELSE q.size,
                       !.align = IF q.call = "dealloc" THEN hpLive[q.name].align ELSE q.align,
                       !.base = IF q.call = "dealloc" THEN hpLive[q.name].base ELSE -1]]
       /\ hpLive' = IF q.call = "dealloc" THEN [hpLive EXCEPT ![q.name] = HpNoBlock] ELSE hpLive
    /\ UNCHANGED <<hpBuddy, hpMag, hpLock, hpIrq>>

(* InterruptGuard: the handler's own context is never interrupted.         *)
HpIrqOff(c) ==
    /\ HpAt(c, "irqoff")
    /\ hpIrq' = IF c[2] = 0 THEN [hpIrq EXCEPT ![c[1]] = FALSE] ELSE hpIrq
    /\ HpGo(c, <<>>, hpOp[c])
    /\ UNCHANGED <<hpProg, hpBuddy, hpMag, hpLock, hpLive>>

(* The end of the guard's scope; at the end of an allocation the caller    *)
(* gets its block, or the kernel reports that there is none.               *)
HpReturns(c) == hpOp[c].call = "alloc" /\ Len(hpOp[c].todo) = 1

HpIrqOn(c) ==
    /\ HpAt(c, "irqon")
    /\ hpIrq' = IF c[2] = 0 THEN [hpIrq EXCEPT ![c[1]] = TRUE] ELSE hpIrq
    /\ HpGo(c, IF HpReturns(c) /\ hpOp[c].base = -1 THEN handle_alloc_error ELSE <<>>,
               IF HpReturns(c) THEN [hpOp[c] EXCEPT !.call = "none"] ELSE hpOp[c])
    /\ hpLive' = IF HpReturns(c) /\ hpOp[c].base # -1
                 THEN [hpLive EXCEPT ![hpOp[c].name] = [base |-> hpOp[c].base, size |-> hpOp[c].size, align |-> hpOp[c].align]]
                 ELSE hpLive
    /\ UNCHANGED <<hpProg, hpBuddy, hpMag, hpLock>>

HpTake(c) ==
    /\ HpAt(c, "lock")
    /\ hpLock[HpArg(c)] = HpNobody
    /\ hpLock' = [hpLock EXCEPT ![HpArg(c)] = c]
    /\ HpGo(c, <<>>, hpOp[c])
    /\ UNCHANGED <<hpProg, hpBuddy, hpMag, hpIrq, hpLive>>

(***************************************************************************)
(* Allocation of a small block: from the magazine, or a batch from the     *)
(* heap, or once more after every magazine has been given back.            *)
(***************************************************************************)
HpOrderOf(c) == layout_order(hpOp[c])
HpOwn(c) == hpMag[c[1]]
add_cached(m, words) == [m EXCEPT !.cached = @ + words, !.peak = HpMax(@, m.cached + words)]

HpPop(c) ==
    /\ HpAt(c, "pop")
    /\ LET o == HpOrderOf(c) s == HpOwn(c).blocks[o] IN
       IF s # <<>>
       THEN /\ hpMag' = [hpMag EXCEPT ![c[1]].blocks[o] = Tail(@), ![c[1]].cached = @ - 2 ^ o, ![c[1]].allocated = @ + hpOp[c].size]
            /\ HpGo(c, <<>>, [hpOp[c] EXCEPT !.base = Head(s)])
            /\ HpRelease({c[1]})
       ELSE /\ HpGo(c, << <<"lock", 0>>, <<"refill", 0>> >>, hpOp[c])
            /\ UNCHANGED <<hpMag, hpLock>>
    /\ UNCHANGED <<hpProg, hpBuddy, hpIrq, hpLive>>

(* The blocks of a refill: as long as the heap has any and the class is   *)
(* short of a batch.                                                       *)
refill_one(got, order) ==
    LET a == alloc_order(got.lists, order) IN
    IF a.base = -1 \/ Len(got.blocks) >= MAGAZINE_REFILL_BATCH - 1 THEN got
    ELSE [lists |-> a.lists, blocks |-> <<a.base>> \o got.blocks]
refill(lists, blocks, order) ==
    FoldLeft(LAMBDA got, i : refill_one(got, order), [lists |-> lists, blocks |-> blocks], [i \in 1 .. MAGAZINE_REFILL_BATCH |-> i])

HpRefill(c) ==
    /\ HpAt(c, "refill")
    /\ LET o == HpOrderOf(c)
           m == HpOwn(c)
           first == alloc_order(hpBuddy.lists, o)
           got == refill(first.lists, m.blocks[o], o)
           n == Len(got.blocks) - Len(m.blocks[o])
       IN IF first.base = -1
          THEN /\ HpGo(c, drain_steps \o << <<"retry", 0>> >>, hpOp[c])
               /\ UNCHANGED <<hpBuddy, hpMag>>
          ELSE /\ hpBuddy' = [hpBuddy EXCEPT !.lists = got.lists]
               /\ hpMag' = [hpMag EXCEPT ![c[1]] = [add_cached(m, n * 2 ^ o) EXCEPT !.blocks[o] = got.blocks, !.allocated = @ + hpOp[c].size]]
               /\ HpGo(c, <<>>, [hpOp[c] EXCEPT !.base = first.base])
    /\ HpRelease({0, c[1]})
    /\ UNCHANGED <<hpProg, hpIrq, hpLive>>

(* drain_magazines(): a whole magazine goes back, class by class.          *)
drained(m) == [m EXCEPT !.blocks = [o \in DOMAIN @ |-> <<>>], !.cached = @ - Cardinality(HpFree(m.blocks))]
drain_class(lists, blocks, order) == FoldLeft(LAMBDA l, b : dealloc_order(l, b, order), lists, blocks)
drain_all(lists, m) == FoldLeft(LAMBDA l, o : drain_class(l, m.blocks[o], o), lists, [i \in 1 .. (MAGAZINE_MAX_ORDER + 1) |-> i - 1])
BlockCount(m) == FoldFunction(+, 0, [o \in DOMAIN m.blocks |-> Len(m.blocks[o])])

HpDrain(c) ==
    /\ HpAt(c, "drain")
    /\ LET m == hpMag[HpArg(c)] IN
       /\ hpMag' = [hpMag EXCEPT ![HpArg(c)] = drained(m)]
       /\ hpBuddy' = [hpBuddy EXCEPT !.lists = drain_all(@, m)]
       /\ HpGo(c, <<>>, [hpOp[c] EXCEPT !.drained = @ + BlockCount(m)])
    /\ HpRelease({0, HpArg(c)})
    /\ UNCHANGED <<hpProg, hpIrq, hpLive>>

(* The second attempt, made only if the drain gave something back.         *)
HpSpare(order) == \E b \in 0 .. (HpWords - 1) : b % 2 ^ order = 0 /\ HpRun(b, order) \subseteq HpFree(hpBuddy.lists)
HpGivesUp(c) == [hpOp[c] EXCEPT !.spare = HpSpare(HpOrderOf(c))]
HpSmall(c) == magazine_order(hpOp[c])

gives_up_now(c) == hpOp[c].drained = 0

HpRetry(c) ==
    /\ HpAt(c, "retry")
    /\ IF gives_up_now(c)
       THEN HpGo(c, <<>>, HpGivesUp(c))
       ELSE HpGo(c, << <<"lock", 0>>, <<"again", 0>> >>, hpOp[c])
    /\ UNCHANGED <<hpProg, hpBuddy, hpMag, hpLock, hpIrq, hpLive>>

HpTaken(c, lists) ==
    [hpBuddy EXCEPT !.lists = lists,
                    !.user = IF HpSmall(c) THEN @ ELSE @ + hpOp[c].size,
                    !.peak = IF HpSmall(c) THEN @ ELSE HpMax(@, hpBuddy.user + hpOp[c].size)]

account_steps(c) == IF HpSmall(c) THEN << <<"lock", c[1]>>, <<"account", 0>> >> ELSE <<>>

HpAgain(c) ==
    /\ HpAt(c, "again")
    /\ LET a == alloc_order(hpBuddy.lists, HpOrderOf(c)) IN
       IF a.base = -1 THEN HpGo(c, <<>>, HpGivesUp(c)) /\ UNCHANGED hpBuddy
       ELSE /\ hpBuddy' = HpTaken(c, a.lists)
            /\ HpGo(c, account_steps(c), [hpOp[c] EXCEPT !.base = a.base])
    /\ HpRelease({0})
    /\ UNCHANGED <<hpProg, hpMag, hpIrq, hpLive>>

HpAccount(c) ==
    /\ HpAt(c, "account")
    /\ hpMag' = [hpMag EXCEPT ![c[1]].allocated = @ + hpOp[c].size]
    /\ HpGo(c, <<>>, hpOp[c])
    /\ HpRelease({c[1]})
    /\ UNCHANGED <<hpProg, hpBuddy, hpIrq, hpLive>>

(* A large block, or one with an unusual alignment.                        *)
HpDirect(c) ==
    /\ HpAt(c, "direct")
    /\ LET a == alloc_order(hpBuddy.lists, HpOrderOf(c)) IN
       IF a.base = -1 THEN HpGo(c, drain_steps \o << <<"retry", 0>> >>, hpOp[c]) /\ UNCHANGED hpBuddy
       ELSE hpBuddy' = HpTaken(c, a.lists) /\ HpGo(c, <<>>, [hpOp[c] EXCEPT !.base = a.base])
    /\ HpRelease({0})
    /\ UNCHANGED <<hpProg, hpMag, hpIrq, hpLive>>

(***************************************************************************)
(* Deallocation: into the magazine of the freeing hart, past a full one.   *)
(***************************************************************************)
has_room(len) == len < MAGAZINE_CLASS_CAPACITY

HpPush(c) ==
    /\ HpAt(c, "push")
    /\ LET o == HpOrderOf(c) m == [HpOwn(c) EXCEPT !.deallocated = @ + hpOp[c].size] IN
       IF has_room(Len(m.blocks[o]))
       THEN /\ hpMag' = [hpMag EXCEPT ![c[1]] = add_cached([m EXCEPT !.blocks[o] = <<hpOp[c].base>> \o @], 2 ^ o)]
            /\ HpGo(c, <<>>, [hpOp[c] EXCEPT !.base = -1])
            /\ HpRelease({c[1]})
       ELSE /\ hpMag' = [hpMag EXCEPT ![c[1]] = m]
            /\ HpGo(c, << <<"lock", 0>>, <<"give", 0>> >>, hpOp[c])
            /\ UNCHANGED hpLock
    /\ UNCHANGED <<hpProg, hpBuddy, hpIrq, hpLive>>

HpGive(c) ==
    /\ HpAt(c, "give")
    /\ hpBuddy' = [hpBuddy EXCEPT !.lists = dealloc_order(@, hpOp[c].base, HpOrderOf(c)), !.user = IF HpSmall(c) THEN @ ELSE @ - hpOp[c].size]
    /\ HpGo(c, <<>>, [hpOp[c] EXCEPT !.base = -1])
    /\ HpRelease({0} \cup (IF HpSmall(c) THEN {c[1]} ELSE {}))
    /\ UNCHANGED <<hpProg, hpMag, hpIrq, hpLive>>

(***************************************************************************)
(* Statistics: each magazine is read under its own lock, the heap last.    *)
(* The answer is not kept; user_bytes is what it adds up.                  *)
(***************************************************************************)
HpSumOf(f) == FoldFunction(+, 0, f)
magazine_user_bytes == HpSumOf([h \in HpHarts |-> hpMag[h].allocated - hpMag[h].deallocated])
user_bytes == magazine_user_bytes + hpBuddy.user

HpRead(c) ==
    /\ HpAt(c, "read") \/ HpAt(c, "sum")
    /\ HpGo(c, <<>>, hpOp[c])
    /\ HpRelease({HpArg(c)})
    /\ UNCHANGED <<hpProg, hpBuddy, hpMag, hpIrq, hpLive>>

(* try_lock(): a lock that is taken ends the call without an answer.       *)
HpTry(c) ==
    /\ HpAt(c, "try")
    /\ IF hpLock[HpArg(c)] # HpNobody
       THEN hpOp' = [hpOp EXCEPT ![c].todo = << <<"irqon", 0>> >>]
       ELSE HpGo(c, <<>>, hpOp[c])
    /\ UNCHANGED <<hpProg, hpBuddy, hpMag, hpLock, hpIrq, hpLive>>

HpReset(c) ==
    /\ HpAt(c, "reset")
    /\ IF HpArg(c) = 0
       THEN hpBuddy' = [hpBuddy EXCEPT !.peak = hpBuddy.user] /\ UNCHANGED hpMag
       ELSE hpMag' = [hpMag EXCEPT ![HpArg(c)].peak = hpMag[HpArg(c)].cached] /\ UNCHANGED hpBuddy
    /\ HpGo(c, <<>>, hpOp[c])
    /\ HpRelease({HpArg(c)})
    /\ UNCHANGED <<hpProg, hpIrq, hpLive>>

HpNext ==
    \E c \in HpCtxs :
        \/ HpBegin(c) \/ HpIrqOff(c) \/ HpIrqOn(c) \/ HpTake(c)
        \/ HpPop(c) \/ HpRefill(c) \/ HpDrain(c) \/ HpRetry(c) \/ HpAgain(c) \/ HpAccount(c) \/ HpDirect(c)
        \/ HpPush(c) \/ HpGive(c)
        \/ HpRead(c) \/ HpTry(c) \/ HpReset(c)

HpSpec == HpInit /\ [][HpNext]_hpVars

(***************************************************************************)
(* Properties.                                                             *)
(***************************************************************************)
HpTypeOK ==
    /\ \A o \in 0 .. HpTop : \A b \in Range(hpBuddy.lists[o]) : b % 2 ^ o = 0 /\ HpRun(b, o) \subseteq 0 .. (HpWords - 1)
    /\ hpBuddy.user \in Nat /\ hpBuddy.peak >= hpBuddy.user
    /\ \A h \in HpHarts : /\ hpMag[h].cached \in Nat /\ hpMag[h].peak >= hpMag[h].cached
                           /\ \A o \in 0 .. MAGAZINE_MAX_ORDER : Len(hpMag[h].blocks[o]) <= MAGAZINE_CLASS_CAPACITY
    /\ \A l \in HpLocks : hpLock[l] \in HpCtxs \cup {HpNobody}
    /\ hpIrq \in [HpHarts -> BOOLEAN]

(* Every word of the heap has one owner: the buddy heap, a magazine, a     *)
(* caller, or the call that is moving it.  A refill, a cross-hart free, a  *)
(* full magazine and a drain move blocks without losing or doubling one.   *)
HpOwned ==
    [x \in {"live"} \X HpNames |-> IF hpLive[x[2]] = HpNoBlock THEN {} ELSE HpRun(hpLive[x[2]].base, layout_order(hpLive[x[2]]))]
    @@ [x \in {"magazine"} \X HpHarts |-> HpFree(hpMag[x[2]].blocks)]
    @@ [x \in {"moving"} \X HpCtxs |-> IF hpOp[x[2]].base = -1 \/ hpOp[x[2]].call = "none" THEN {} ELSE HpRun(hpOp[x[2]].base, HpOrderOf(x[2]))]
    @@ [x \in {<<"buddy", 0>>} |-> HpFree(hpBuddy.lists)]

HpListed(lists) == FoldFunction(+, 0, [o \in DOMAIN lists |-> Len(lists[o]) * 2 ^ o])

OneOwnerPerWord ==
    /\ UNION {HpOwned[x] : x \in DOMAIN HpOwned} = 0 .. (HpWords - 1)
    /\ FoldFunction(+, 0, [x \in DOMAIN HpOwned |-> Cardinality(HpOwned[x])]) = HpWords
    /\ Cardinality(HpFree(hpBuddy.lists)) = HpListed(hpBuddy.lists)
    /\ \A h \in HpHarts : HpListed(hpMag[h].blocks) = hpMag[h].cached /\ Cardinality(HpFree(hpMag[h].blocks)) = hpMag[h].cached

(* Between calls the counters kept by the harts and by the buddy heap add  *)
(* up to the bytes the callers own, although a block is often freed on     *)
(* another hart than the one that allocated it, and although a late        *)
(* allocation is counted only after the drain that made room for it.       *)
UserBytesExact ==
    (\A c \in HpCtxs : hpOp[c].todo = <<>>) => user_bytes = HpSumOf([n \in HpNames |-> hpLive[n].size])

(* Nobody waits for a lock that cannot be released before it: neither      *)
(* across harts (a magazine comes before the heap) nor on one hart between *)
(* an interrupt handler and the code it interrupted (the lock is only held *)
(* with interrupts off).  It is checked where no allocation fails for good *)
(* beside another call: handle_alloc_error() asks for the magazines with   *)
(* the heap locked, and HpReports and HpTwoOut then end in a deadlock.     *)
HpBlocks(c) ==
    (IF HpAt(c, "lock") THEN {hpLock[HpArg(c)]} \ {HpNobody} ELSE {})
    \cup (IF c[2] = 0 /\ hpOp[<<c[1], 1>>].todo # <<>> THEN {<<c[1], 1>>} ELSE {})

NoHeapDeadlock ==
    ~\E s \in SUBSET HpCtxs : s # {} /\ \A c \in s : HpBlocks(c) \cap s # {}

(* An allocation gives up only when no aligned run of free words of its    *)
(* size is left: it has drained every magazine before, and the buddy heap  *)
(* has joined again what it had split, in whatever order it came back.     *)
FailureIsReal == \A c \in HpCtxs : ~hpOp[c].spare

-----------------------------------------------------------------------------
(***************************************************************************)
(* The page frames of the machine (os/src/mm/frame_allocator.rs): how boot *)
(* lays out the kernel, the heap (init_heap() of heap_allocator.rs) and    *)
(* the ranges of ordinary frames, the stack allocator over those ranges,   *)
(* and FrameTracker, which clears a frame after it has been handed out and *)
(* gives it back when it is dropped.  Addresses are in small units,        *)
(* FP_PAGE of them to a page.                                              *)
(***************************************************************************)

CONSTANTS
    FpTasks,
    FP_PAGE,          \* PAGE_SIZE
    FpLayouts         \* [arch, kernel_end, heap_at, bitmap, heap, start, low_end, high, end]: a board and a kernel image

VARIABLES
    fpLay,     \* the layout the machine booted with
    fpRanges,  \* the allocator's ranges: [start, current, end] in pages
    fpActive,  \* active_range
    fpFree,    \* recycled, and its bitmap
    fpHeld,    \* [frame -> "new" | "used"] for the frames handed out
    fpDirty,   \* frames that hold somebody's bytes
    fpTask     \* the frame each task has taken and not cleared yet

fpVars == <<fpLay, fpRanges, fpActive, fpFree, fpHeld, fpDirty, fpTask>>

(***************************************************************************)
(* Boot.                                                                   *)
(***************************************************************************)
FpCeil(a) == (a + FP_PAGE - 1) \div FP_PAGE
FpFloor(a) == a \div FP_PAGE
align_up(a) == FpCeil(a) * FP_PAGE
FpMax(a, b) == IF a > b THEN a ELSE b

bitmap_start(y) == IF y.heap_at = 0 THEN align_up(y.kernel_end) ELSE y.heap_at
heap_start(y) == align_up(bitmap_start(y) + y.bitmap)
init_heap(y) == align_up(heap_start(y) + y.heap)           \* the end of the reservation

(* The assertions of init_heap(): a machine that fails one does not boot.  *)
Boots(y) == (y.heap_at # 0 => y.heap_at >= y.kernel_end) /\ init_heap(y) <= y.end

FpRange(from, to) == [start |-> FpCeil(from), current |-> FpCeil(from), end |-> FpFloor(to)]
init_frame_allocator(y) ==
    LET all == IF y.arch = "rv64"
               THEN << FpRange(FpMax(init_heap(y), y.start), y.end) >>
               ELSE << FpRange(FpMax(y.kernel_end, y.start), y.low_end), FpRange(FpMax(init_heap(y), y.high), y.end) >>
    IN SelectSeq(all, LAMBDA r : r.start < r.end)

FpStart(y) ==
    /\ fpLay = y
    /\ fpRanges = init_frame_allocator(fpLay)
    /\ fpActive = 1
    /\ fpFree = [recycled |-> <<>>, bitmap |-> {}]
    /\ fpHeld = <<>>
    /\ fpDirty = UNION {r.start .. (r.end - 1) : r \in Range(fpRanges)}    \* RAM holds anything at boot
    /\ fpTask = [t \in FpTasks |-> -1]
FpInit == \E y \in {l \in FpLayouts : Boots(l)} : FpStart(y)

(***************************************************************************)
(* The allocator.                                                          *)
(***************************************************************************)
Give(t, p) == fpTask' = [fpTask EXCEPT ![t] = p]

(* The first range from the active one on that is not used up.             *)
Usable == {i \in fpActive .. Len(fpRanges) : fpRanges[i].current < fpRanges[i].end}

StackAlloc(t) ==
    \/ /\ fpFree.recycled # <<>>
       /\ Give(t, Last(fpFree.recycled))
       /\ fpFree' = [recycled |-> Front(fpFree.recycled), bitmap |-> fpFree.bitmap \ {Last(fpFree.recycled)}]
       /\ UNCHANGED <<fpRanges, fpActive>>
    \/ /\ fpFree.recycled = <<>> /\ Usable # {}
       /\ fpActive' = Min(Usable)
       /\ fpRanges' = [fpRanges EXCEPT ![Min(Usable)].current = @ + 1]
       /\ Give(t, fpRanges[Min(Usable)].current)
       /\ UNCHANGED fpFree
    \/ /\ fpFree.recycled = <<>> /\ Usable = {}
       /\ fpActive' = Len(fpRanges) + 1
       /\ UNCHANGED <<fpRanges, fpFree, fpTask>>

frame_alloc(t) ==
    /\ fpTask[t] = -1
    /\ StackAlloc(t)
    /\ UNCHANGED <<fpLay, fpHeld, fpDirty>>

(* FrameTracker::new(), after the allocator's lock is released.            *)
cleared(p) == fpDirty \ {p}

FrameTracker(t) ==
    /\ fpTask[t] # -1
    /\ fpDirty' = cleared(fpTask[t])
    /\ fpHeld' = [p \in DOMAIN fpHeld \cup {fpTask[t]} |-> IF p = fpTask[t] THEN "new" ELSE fpHeld[p]]
    /\ Give(t, -1)
    /\ UNCHANGED <<fpLay, fpRanges, fpActive, fpFree>>

UseFrame(p) ==
    /\ p \in DOMAIN fpHeld /\ fpHeld[p] = "new"
    /\ fpHeld' = [fpHeld EXCEPT ![p] = "used"]
    /\ fpDirty' = fpDirty \cup {p}
    /\ UNCHANGED <<fpLay, fpRanges, fpActive, fpFree, fpTask>>

(* FrameTracker::drop().  dealloc() panics on a frame it never handed out  *)
(* or already has.                                                         *)
was_allocated(p) == \E i \in DOMAIN fpRanges : p >= fpRanges[i].start /\ p < fpRanges[i].current

ReleaseRefused(p) == ~was_allocated(p) \/ p \in fpFree.bitmap
marked(p) == fpFree.bitmap \cup {p}

DropFrame(p) ==
    /\ p \in DOMAIN fpHeld
    /\ ~ReleaseRefused(p)
    /\ fpFree' = [recycled |-> Append(fpFree.recycled, p), bitmap |-> marked(p)]
    /\ fpHeld' = [q \in DOMAIN fpHeld \ {p} |-> fpHeld[q]]
    /\ UNCHANGED <<fpLay, fpRanges, fpActive, fpDirty, fpTask>>

free_frames ==
    FoldFunction(+, 0, [i \in DOMAIN fpRanges |-> fpRanges[i].end - fpRanges[i].current]) + Len(fpFree.recycled)

FpNext ==
    \/ \E t \in FpTasks : frame_alloc(t) \/ FrameTracker(t)
    \/ \E p \in DOMAIN fpHeld : UseFrame(p) \/ DropFrame(p)

FpSpec == FpInit /\ [][FpNext]_fpVars

(***************************************************************************)
(* Properties.                                                             *)
(***************************************************************************)
FpTypeOK ==
    /\ fpActive \in 1 .. (Len(fpRanges) + 1)
    /\ fpFree.bitmap = Range(fpFree.recycled)
    /\ \A p \in DOMAIN fpHeld : fpHeld[p] \in {"new", "used"}

(* A frame has one owner: no two trackers, no tracker and the free list,   *)
(* hold the same frame, and free_frames() counts exactly the others; a     *)
(* drop on one hart and an allocation on another never lose a frame.       *)
Total == FoldFunction(+, 0, [i \in DOMAIN fpRanges |-> fpRanges[i].end - fpRanges[i].start])
InHand == {fpTask[t] : t \in {u \in FpTasks : fpTask[u] # -1}}

FramesAccounted ==
    /\ \A t, u \in FpTasks : t # u /\ fpTask[t] # -1 => fpTask[t] # fpTask[u]
    /\ DOMAIN fpHeld \cap InHand = {}
    /\ (DOMAIN fpHeld \cup InHand) \cap Range(fpFree.recycled) = {}
    /\ free_frames + Cardinality(DOMAIN fpHeld \cup InHand) = Total

(* A new owner finds a frame of zeroes, although the frame is cleared only *)
(* after the allocator's lock has been released, and never bytes of the    *)
(* owner before it.                                                        *)
NewFrameIsClear == \A p \in DOMAIN fpHeld : fpHeld[p] = "new" => p \notin fpDirty

(* No frame the allocator can hand out lies in the kernel image, in the    *)
(* heap's bitmap or in the heap, on any board ("heap pages can never be    *)
(* handed out as ordinary frames").                                        *)
Pages(from, to) == FpFloor(from) .. (FpCeil(to) - 1)
FramesOutsideHeap ==
    \A i \in DOMAIN fpRanges :
        LET f == fpRanges[i].start .. (fpRanges[i].end - 1) IN
        /\ f \cap Pages(bitmap_start(fpLay), bitmap_start(fpLay) + fpLay.bitmap) = {}
        /\ f \cap Pages(heap_start(fpLay), heap_start(fpLay) + fpLay.heap) = {}
        /\ f \cap Pages(fpLay.start, fpLay.kernel_end) = {}
        /\ fpRanges[i].end * FP_PAGE <= fpLay.end
        /\ \A j \in DOMAIN fpRanges \ {i} : f \cap (fpRanges[j].start .. (fpRanges[j].end - 1)) = {}

-----------------------------------------------------------------------------
(***************************************************************************)
(* The bounce buffers of read, write, splice and tee                       *)
(* (os/src/mm/io_buffer.rs): one retained buffer per hart, taken at the    *)
(* start of a call and put back when the call drops it, and a drain that   *)
(* empties every slot.  A task may run on another hart when it drops.      *)
(***************************************************************************)

CONSTANTS
    IbTasks, IbHarts,
    MAX_CACHED_IO_BUFFER_SIZE,
    IbSizes,          \* the lengths asked for
    IbDrains          \* how often the caches are drained

VARIABLES
    ibPool,    \* the slot of each hart: a buffer or IbNone
    ibEpoch,   \* IO_BUFFER_DRAIN_EPOCH
    ibTask,    \* what each task is doing, and its buffer
    ibDrain    \* the drain in progress: [next slot, epoch it returned with]

ibVars == <<ibPool, ibEpoch, ibTask, ibDrain>>

(* from: the epoch of the last checkout, kept to state the properties.     *)
IbNone == [id |-> 0, cap |-> 0, from |-> 0]
Idle == [at |-> "idle", len |-> 0, epoch |-> 0, buf |-> IbNone]

IbInit ==
    /\ ibPool = [h \in IbHarts |-> IbNone]
    /\ ibEpoch = 0
    /\ ibTask = [t \in IbTasks |-> Idle]
    /\ ibDrain = [at |-> 0, done |-> 0]

InPool == {ibPool[h].id : h \in IbHarts} \ {0}
InUse == {ibTask[t].buf.id : t \in IbTasks} \ {0}
Fresh == Min((1 .. (Cardinality(IbTasks) + Cardinality(IbHarts) + 1)) \ (InPool \cup InUse))

(* KernelIoBuffer::new(): the epoch is read before the slot is emptied.    *)
IbNew(t, len) ==
    /\ ibTask[t].at = "idle"
    /\ ibTask' = [ibTask EXCEPT ![t] = [Idle EXCEPT !.at = "take", !.len = len, !.epoch = ibEpoch]]
    /\ UNCHANGED <<ibPool, ibEpoch, ibDrain>>

slot_emptied(h) == [ibPool EXCEPT ![h] = IbNone]

IbTake(t, h) ==
    /\ ibTask[t].at = "take"
    /\ LET had == ibPool[h]
           cap == IF had.cap >= ibTask[t].len THEN had.cap ELSE ibTask[t].len
       IN ibTask' = [ibTask EXCEPT ![t].at = "use", ![t].buf = [id |-> IF had = IbNone THEN Fresh ELSE had.id, cap |-> cap, from |-> ibTask[t].epoch]]
    /\ ibPool' = slot_emptied(h)
    /\ UNCHANGED <<ibEpoch, ibDrain>>

(* drop(): an old or a large buffer is freed; otherwise it goes to the     *)
(* slot of the hart, if that is empty.                                     *)
may_cache(b, epoch) == epoch = ibEpoch /\ b.cap <= MAX_CACHED_IO_BUFFER_SIZE

IbDrop(t) ==
    /\ ibTask[t].at = "use"
    /\ ibTask' = [ibTask EXCEPT ![t] = IF may_cache(@.buf, @.epoch) THEN [@ EXCEPT !.at = "put"] ELSE Idle]
    /\ UNCHANGED <<ibPool, ibEpoch, ibDrain>>

IbPut(t, h) ==
    /\ ibTask[t].at = "put"
    /\ ibPool' = IF ibPool[h] = IbNone THEN [ibPool EXCEPT ![h] = ibTask[t].buf] ELSE ibPool
    /\ ibTask' = [ibTask EXCEPT ![t] = Idle]
    /\ UNCHANGED <<ibEpoch, ibDrain>>

(* drain_io_buffers(): a new epoch, then one slot after the other.         *)
IbDrainStart ==
    /\ ibDrain.at = 0 /\ ibEpoch < IbDrains
    /\ ibEpoch' = ibEpoch + 1
    /\ ibDrain' = [ibDrain EXCEPT !.at = 1]
    /\ UNCHANGED <<ibPool, ibTask>>

IbDrainSlot ==
    /\ ibDrain.at \in IbHarts
    /\ ibPool' = slot_emptied(ibDrain.at)
    /\ ibDrain' = IF ibDrain.at = Max(IbHarts) THEN [at |-> 0, done |-> ibEpoch] ELSE [ibDrain EXCEPT !.at = @ + 1]
    /\ UNCHANGED <<ibEpoch, ibTask>>

IbNext ==
    \/ \E t \in IbTasks : IbDrop(t) \/ (\E len \in IbSizes : IbNew(t, len)) \/ (\E h \in IbHarts : IbTake(t, h) \/ IbPut(t, h))
    \/ IbDrainStart \/ IbDrainSlot

IbSpec == IbInit /\ [][IbNext]_ibVars

(***************************************************************************)
(* Properties.                                                             *)
(***************************************************************************)

(* A buffer is in one slot or in one call, never in two: a call that takes *)
(* the slot of a hart, or migrates before it drops, shares its bytes with  *)
(* nobody; and what is retained stays within the bound per hart.           *)
BufferOfOneCall ==
    /\ InPool \cap InUse = {}
    /\ \A h, g \in IbHarts : h # g /\ ibPool[h] # IbNone => ibPool[h].id # ibPool[g].id
    /\ \A t, u \in IbTasks : t # u /\ ibTask[t].buf # IbNone => ibTask[t].buf.id # ibTask[u].buf.id

=============================================================================
