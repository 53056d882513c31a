-------------------------------- MODULE Namei -------------------------------
(***************************************************************************)
(* Path names: the walk of fs/namei.rs, the dentries it makes              *)
(* (fs/vfs/dentry.rs), the cache that finds them (fs/dentry_cache.rs), the *)
(* mount tree (fs/mount.rs) and the calls that change the name space.      *)
(*                                                                         *)
(* The file system below is addressed by path, as lwext4 is: `names` maps  *)
(* the paths that exist to inodes.  A dentry knows its name and its parent *)
(* and finds its path by going up; the root of a mount has a path of its   *)
(* own.  Changes of the name space hold NAMEI_MUTATION_LOCK; look-ups take *)
(* no lock, and a look-up that misses the cache asks the file system and   *)
(* adds a dentry in a second step.  Users other than root and the owner of *)
(* a file are one class.                                                   *)
(***************************************************************************)
EXTENDS Integers, Sequences, SequencesExt, FiniteSets, FiniteSetsExt, Functions, TLC

CONSTANTS
    NmTasks,
    DENTRY_CACHE_CAPACITY,
    MAX_SYMLINK_FOLLOWS,
    NmScenarios

VARIABLES
    nmSc,      \* the tasks' programs, their users and the first names
    names,     \* path -> inode
    inodes,    \* sequence of inodes
    dens,      \* sequence of dentries
    cache,     \* DENTRY_CACHE: path -> dentry
    mnts,      \* sequence of mounts; `on` while in the mount table
    nlk,       \* who holds NAMEI_MUTATION_LOCK, 0 for nobody
    nt         \* the tasks

nmVars == <<nmSc, names, inodes, dens, cache, mnts, nlk, nt>>

Inode(ty, uid, oth) == [ty |-> ty, uid |-> uid, oth |-> oth, sticky |-> FALSE, made |-> TRUE, nlink |-> 1, abs |-> FALSE, to |-> <<>>]
NewMount(mp, root, par, vfs, back) == [mp |-> mp, root |-> root, par |-> par, vfs |-> vfs, back |-> back, ro |-> FALSE, nosym |-> FALSE, expire |-> 0, on |-> TRUE]
RootPos == [m |-> 1, d |-> 1]
NmTask == [pc |-> "idle", k |-> 1, m |-> 1, d |-> 1, segs |-> <<>>, n |-> 0, child |-> 0, old |-> RootPos, first |-> TRUE, to |-> <<>>,
           ret |-> "ok", root |-> RootPos, cwd |-> RootPos, files |-> {}, was |-> <<>>]

NmInit ==
    /\ nmSc \in NmScenarios
    /\ names = nmSc.names
    /\ inodes = nmSc.inodes
    /\ dens = <<[base |-> <<>>, up |-> 0, ino |-> 1]>>
    /\ cache = <<>>
    /\ mnts = <<NewMount(1, 1, 0, 1, FALSE)>>
    /\ nlk = 0
    /\ nt = [t \in NmTasks |-> NmTask]

NSet(t, r) == nt' = [nt EXCEPT ![t] = r @@ @]
NAt(t, l) == nt[t].pc = l
NOp(t) == nmSc.prog[t][nt[t].k]
NCalls(t, ops) == NAt(t, "idle") /\ nt[t].k <= Len(nmSc.prog[t]) /\ NOp(t).op \in ops
NDone(t, r) == [pc |-> "idle", k |-> nt[t].k + 1, ret |-> r, first |-> TRUE, child |-> 0, m |-> 1, d |-> 1, segs |-> <<>>, n |-> 0, old |-> RootPos]
Unlocked(t) == nlk' = IF nlk = t THEN 0 ELSE nlk
NFail(t, e) == NSet(t, NDone(t, e)) /\ Unlocked(t)
\* The step changes no more than the task and the lock.
NmOnlyTask == UNCHANGED <<nmSc, names, inodes, dens, cache, mnts>>

-----------------------------------------------------------------------------
(* Dentries, the cache and the lower file system.                          *)

\* current_abs_path()
RECURSIVE PathOf(_)
PathOf(d) == IF dens[d].up = 0 THEN dens[d].base ELSE PathOf(dens[d].up) \o dens[d].base
RECURSIVE Chain(_)
Chain(d) == {d} \cup (IF dens[d].up = 0 THEN {} ELSE Chain(dens[d].up))
Under(a, q) == IsPrefix(a, q)
Ino(d) == inodes[dens[d].ino]
IsDir(d) == Ino(d).ty = "dir"
Child(t) == PathOf(nt[t].d) \o <<Head(nt[t].segs)>>
KidsOf(p) == {q \in DOMAIN names : Len(q) = Len(p) + 1 /\ Under(p, q)}

TaskRefs == UNION {{nt[t].d, nt[t].old.d, nt[t].root.d, nt[t].cwd.d} \cup {f.d : f \in nt[t].files}
                   \cup (IF nt[t].pc \in {"have", "unlinked", "rename", "renamed"} /\ nt[t].child # 0 THEN {nt[t].child} ELSE {}) : t \in NmTasks}
MountRefs == UNION {{mnts[i].mp, mnts[i].root} : i \in {j \in DOMAIN mnts : mnts[j].on}}
\* mutant: the entries that others refer to are victims, too.
victims_any == DOMAIN cache
\* Arc::strong_count(d) == 1: only the cache has it.
victims == LET live == UNION {Chain(d) : d \in TaskRefs \cup MountRefs \cup Range(cache)}
           IN  {p \in DOMAIN cache : cache[p] \notin TaskRefs \cup MountRefs /\ \A c \in live : dens[c].up # cache[p]}
insert_dentry_cache(c, p, d) ==
    {(p :> d) @@ e : e \in IF Cardinality(DOMAIN c) >= DENTRY_CACHE_CAPACITY /\ victims \cap DOMAIN c # {}
                           THEN {Restrict(c, DOMAIN c \ {v}) : v \in victims \cap DOMAIN c} ELSE {c}}
remove_dentry_cache_tree(c, p) == Restrict(c, {q \in DOMAIN c : ~ Under(p, q)})
remove_dentry_cache_descendants(c, p) == Restrict(c, {q \in DOMAIN c : ~ Under(p, q) \/ q = p})

\* ext4_frename(): the entry and what is below it.
Renamed(a, b) == LET keep == {q \in DOMAIN names : ~ Under(a, q)}
                     moved == {q \in DOMAIN names : Under(a, q)}
                     new(q) == b \o SubSeq(q, Len(a) + 1, Len(q))
                 IN  [q \in keep \cup {new(r) : r \in moved} |-> IF q \in keep THEN names[q] ELSE names[CHOOSE r \in moved : new(r) = q]]
Removed(p) == Restrict(names, DOMAIN names \ {p})
\* lwext4 finds the directory of a new entry by its path.
HasParent(p) == Front(p) \in DOMAIN names /\ inodes[names[Front(p)]].ty = "dir"
Unlinked(i) == [inodes EXCEPT ![i].nlink = @ - 1]

OfVfs(v) == mnts[Min({i \in DOMAIN mnts : mnts[i].vfs = v})]

-----------------------------------------------------------------------------
(* Permissions.                                                            *)

Uid(t) == nmSc.uid[t]
inode_allows_perm(t, d, mask) == Uid(t) = 0 \/ Uid(t) = Ino(d).uid \/ mask \in Ino(d).oth
check_mount_writable(v) == ~ OfVfs(v).ro
check_sticky_rename_permission(t, parent, target) == ~ Ino(parent).sticky \/ Uid(t) \in {0, Ino(parent).uid, Ino(target).uid}
check_dir_write_and_search_permission(t, d) == inode_allows_perm(t, d, "x") /\ inode_allows_perm(t, d, "w")
\* The permission to open d of the mount m, after check_mount_writable().
check_open_permission(t, m, d) ==
    IF NOp(t).w /\ ~ check_mount_writable(m) THEN "EROFS"
    ELSE IF IsDir(d) /\ NOp(t).w THEN "EISDIR"
    ELSE IF ~ inode_allows_perm(t, d, IF NOp(t).w THEN "w" ELSE "r") THEN "EACCES" ELSE "ok"

-----------------------------------------------------------------------------
(* Mounts.                                                                 *)

Mounted(S) == IF S = {} THEN 0 ELSE Min(S)
get_mount_by_dentry(d) == Mounted({i \in DOMAIN mnts : mnts[i].on /\ mnts[i].mp = d /\ mnts[i].par # 0})
get_mount_by_vfsmount(v) == Mounted({i \in DOMAIN mnts : mnts[i].on /\ mnts[i].vfs = v})
Submounts(i) == {j \in DOMAIN mnts : mnts[j].on /\ mnts[j].par = i}
\* Down into what is mounted on the dentry.
Crossed(pos) == LET i == get_mount_by_dentry(pos.d) IN IF i = 0 THEN pos ELSE [m |-> mnts[i].vfs, d |-> mnts[i].root]

UpOrSelf(d) == IF dens[d].up = 0 THEN d ELSE dens[d].up
follow_dotdot(t, pos) ==
    LET i == get_mount_by_vfsmount(pos.m)
        root == nt[t].root
    IN  IF pos = root THEN pos
        ELSE IF pos.d = OfVfs(pos.m).root /\ i # 0 /\ mnts[i].par # 0 /\ mnts[mnts[i].par].on
        THEN (IF mnts[mnts[i].par].vfs = root.m /\ mnts[i].mp = root.d THEN pos
              ELSE [m |-> mnts[mnts[i].par].vfs, d |-> UpOrSelf(mnts[i].mp)])
        ELSE [m |-> pos.m, d |-> UpOrSelf(pos.d)]

-----------------------------------------------------------------------------
(* The walk.  A path is [abs, segs]; the last name is looked up by the     *)
(* walk itself (Whole) or left to the call (its parent is wanted).         *)

Changes == {"create", "symlink", "link_tmpfile", "unlink", "link", "rename"}
Whole(t) == NOp(t).op \notin Changes \cup {"opencreat"} \/ (nt[t].first /\ NOp(t).op \in {"link", "rename"})
FollowLast(t) == NOp(t).op \notin {"rename", "lstat"}
CrossLast(t) == NOp(t).op \notin {"mount", "umount", "move", "bind"} \/ (NOp(t).op = "bind" /\ ~ nt[t].first)
Begin(t, path) == LET b == IF path.abs THEN nt[t].root ELSE nt[t].cwd
                  IN  [pc |-> "walk", m |-> b.m, d |-> b.d, segs |-> path.segs, n |-> 0]
Pos(t) == [m |-> nt[t].m, d |-> nt[t].d]

nm_start(t) ==
    /\ NCalls(t, Changes \cup {"stat", "lstat", "open", "opencreat", "chdir", "chroot", "mount", "umount", "move", "bind"})
    /\ IF NOp(t).op \in Changes THEN nlk = 0 /\ nlk' = t ELSE UNCHANGED nlk
    /\ NSet(t, Begin(t, NOp(t).path) @@ [was |-> IF NOp(t).op \in Changes THEN names ELSE <<>>])
    /\ NmOnlyTask

\* The component has been found to be dentry c (of dens'): cross what is
\* mounted there, follow a symbolic link, or go on below it.
Component(t, c, ds) ==
    LET last == Len(nt[t].segs) = 1
        pos == IF ~ last \/ CrossLast(t) THEN Crossed([m |-> nt[t].m, d |-> c]) ELSE [m |-> nt[t].m, d |-> c]
        i == inodes[ds[pos.d].ino]
        rest == Tail(nt[t].segs)
        b == IF i.abs THEN nt[t].root ELSE Pos(t)
    IN  IF i.ty = "lnk" /\ (~ last \/ FollowLast(t))
        THEN IF OfVfs(pos.m).nosym \/ nt[t].n + 1 >= MAX_SYMLINK_FOLLOWS THEN NSet(t, NDone(t, "ELOOP")) /\ Unlocked(t)
             ELSE NSet(t, [pc |-> "walk", m |-> b.m, d |-> b.d, segs |-> i.to \o rest, n |-> nt[t].n + 1]) /\ UNCHANGED nlk
        ELSE NSet(t, [pc |-> "walk", m |-> pos.m, d |-> pos.d, segs |-> rest]) /\ UNCHANGED nlk

Dots(t) == IF Head(nt[t].segs) = "." THEN Pos(t) ELSE follow_dotdot(t, Pos(t))
walk_dots(t) ==
    /\ NAt(t, "walk") /\ nt[t].segs # <<>> /\ Head(nt[t].segs) \in {".", ".."} /\ (Whole(t) \/ Len(nt[t].segs) > 1)
    /\ LET p == Dots(t) IN
       NSet(t, [m |-> p.m, d |-> p.d, segs |-> Tail(nt[t].segs)])
    /\ UNCHANGED nlk /\ NmOnlyTask

\* lookup_dentry(): the cache, then the file system.
walk_name(t) ==
    /\ NAt(t, "walk") /\ nt[t].segs # <<>> /\ Head(nt[t].segs) \notin {".", ".."} /\ (Whole(t) \/ Len(nt[t].segs) > 1)
    /\ IF ~ IsDir(nt[t].d) THEN NFail(t, "ENOTDIR")
       ELSE IF ~ inode_allows_perm(t, nt[t].d, "x") THEN NFail(t, "EACCES")
       ELSE IF Child(t) \in DOMAIN cache THEN Component(t, cache[Child(t)], dens)
       ELSE IF Child(t) \notin DOMAIN names THEN NFail(t, "ENOENT")
       ELSE NSet(t, [pc |-> "insert", child |-> names[Child(t)]]) /\ UNCHANGED nlk
    /\ NmOnlyTask
NewDentry(t, i) == Append(dens, [base |-> <<Head(nt[t].segs)>>, up |-> nt[t].d, ino |-> i])
walk_insert(t) ==
    /\ NAt(t, "insert")
    /\ dens' = NewDentry(t, nt[t].child)
    /\ cache' \in insert_dentry_cache(cache, Child(t), Len(dens'))
    /\ Component(t, Len(dens'), dens')
    /\ UNCHANGED <<nmSc, names, inodes, mnts>>

\* O_CREAT with "." or "..": the directory is opened.
OpenDots(t) == NOp(t).op = "opencreat" /\ nt[t].segs \in {<<".">>, <<"..">>}
open_dots(t) ==
    /\ NAt(t, "walk") /\ OpenDots(t)
    /\ LET p == Dots(t) IN NSet(t, NDone(t, "ok") @@ [files |-> nt[t].files \cup {[m |-> p.m, d |-> p.d, i |-> dens[p.d].ino]}])
    /\ UNCHANGED nlk /\ NmOnlyTask
\* The parent has been found: what every change checks before it looks for
\* the last name.
walk_parent(t) ==
    /\ NAt(t, "walk") /\ ~ Whole(t) /\ Len(nt[t].segs) <= 1 /\ ~ OpenDots(t)
    /\ IF nt[t].segs = <<>> \/ Head(nt[t].segs) \in {".", ".."}
       THEN NFail(t, IF NOp(t).op = "opencreat" THEN "EISDIR" ELSE IF NOp(t).op = "unlink" THEN (IF ~ NOp(t).dir THEN "EISDIR" ELSE IF nt[t].segs = <<>> THEN "EBUSY" ELSE "EINVAL") ELSE IF NOp(t).op = "rename" /\ nt[t].segs # <<>> THEN "EBUSY" ELSE "EEXIST")
       ELSE IF NOp(t).op \in Changes /\ ~ check_mount_writable(nt[t].m) THEN NFail(t, "EROFS")
       ELSE IF NOp(t).op \in Changes /\ ~ check_dir_write_and_search_permission(t, nt[t].d) THEN NFail(t, "EACCES")
       ELSE NSet(t, [pc |-> "look", to |-> Child(t)]) /\ UNCHANGED nlk
    /\ NmOnlyTask
\* lookup_dentry() for the last name: `child` is its dentry, 0 for ENOENT.
Found(t, c) == LET p == Crossed([m |-> nt[t].m, d |-> c]) IN
               [pc |-> "have", child |-> p.d] @@ (IF p.d = c THEN <<>> ELSE [m |-> p.m, d |-> p.d])
nm_look(t) ==
    /\ NAt(t, "look")
    /\ NSet(t, IF ~ IsDir(nt[t].d) THEN NDone(t, "ENOTDIR")
               ELSE IF Child(t) \in DOMAIN cache THEN Found(t, cache[Child(t)])
               ELSE IF Child(t) \in DOMAIN names THEN [pc |-> "lookinsert", child |-> names[Child(t)]]
               ELSE [pc |-> "have", child |-> 0])
    /\ (IF ~ IsDir(nt[t].d) THEN Unlocked(t) ELSE UNCHANGED nlk)
    /\ NmOnlyTask
look_insert(t) ==
    /\ NAt(t, "lookinsert")
    /\ dens' = NewDentry(t, nt[t].child)
    /\ cache' \in insert_dentry_cache(cache, Child(t), Len(dens'))
    /\ NSet(t, Found(t, Len(dens')))
    /\ UNCHANGED <<nmSc, names, inodes, mnts, nlk>>

-----------------------------------------------------------------------------
(* Calls that end with a path.                                             *)

Arrived(t, ops) == NAt(t, "walk") /\ nt[t].segs = <<>> /\ NOp(t).op \in ops /\ Whole(t)
\* link() and rename() go on to their second path, a moved mount to its source.
second_path(t) ==
    /\ Arrived(t, {"link", "rename", "move", "bind"}) /\ nt[t].first
    /\ IF NOp(t).op = "bind" /\ get_mount_by_dentry(nt[t].d) # 0 THEN NFail(t, "EBUSY")
       ELSE IF NOp(t).op = "rename" /\ ~ check_mount_writable(nt[t].m) THEN NFail(t, "EROFS")
       ELSE IF NOp(t).op = "rename" /\ ~ (/\ check_dir_write_and_search_permission(t, UpOrSelf(nt[t].d))
                                     /\ check_sticky_rename_permission(t, UpOrSelf(nt[t].d), nt[t].d))
       THEN NFail(t, "EACCES")
       ELSE NSet(t, Begin(t, NOp(t).path2) @@ [old |-> Pos(t), first |-> FALSE]) /\ UNCHANGED nlk
    /\ NmOnlyTask
sys_stat(t) ==
    /\ Arrived(t, {"stat", "lstat"})
    /\ NSet(t, NDone(t, "ok")) /\ UNCHANGED nlk /\ NmOnlyTask
sys_chdir(t) ==
    /\ Arrived(t, {"chdir"})
    /\ NSet(t, IF ~ IsDir(nt[t].d) THEN NDone(t, "ENOTDIR")
               ELSE IF ~ inode_allows_perm(t, nt[t].d, "x") THEN NDone(t, "EACCES") ELSE NDone(t, "ok") @@ [cwd |-> Pos(t)])
    /\ UNCHANGED nlk /\ NmOnlyTask
sys_chroot(t) ==
    /\ Arrived(t, {"chroot"})
    /\ NSet(t, IF ~ IsDir(nt[t].d) THEN NDone(t, "ENOTDIR")
               ELSE IF ~ inode_allows_perm(t, nt[t].d, "x") THEN NDone(t, "EACCES")
               ELSE IF Uid(t) # 0 THEN NDone(t, "EPERM") ELSE NDone(t, "ok") @@ [root |-> Pos(t)])
    /\ UNCHANGED nlk /\ NmOnlyTask

\* The file is opened: `files` has the mount, the dentry and the inode.
Opened(t, d) == NDone(t, "ok") @@ [files |-> nt[t].files \cup {[m |-> nt[t].m, d |-> d, i |-> dens[d].ino]}]
path_open(t) ==
    /\ Arrived(t, {"open"})
    /\ LET e == check_open_permission(t, nt[t].m, nt[t].d) IN NSet(t, IF e # "ok" THEN NDone(t, e) ELSE Opened(t, nt[t].d))
    /\ UNCHANGED nlk /\ NmOnlyTask
sys_close_all(t) ==
    /\ NCalls(t, {"close"})
    /\ NSet(t, NDone(t, "ok") @@ [files |-> {}]) /\ UNCHANGED nlk /\ NmOnlyTask

-----------------------------------------------------------------------------
(* Changes of the name space, under the lock.                              *)

Have(t, ops) == NAt(t, "have") /\ NOp(t).op \in ops

\* open_last_lookups() for an entry that exists.
open_existing(t) ==
    /\ Have(t, {"opencreat"}) /\ nt[t].child # 0
    /\ LET c == nt[t].child
           i == Ino(c)
           b == IF i.abs THEN nt[t].root ELSE Pos(t)
           e == check_open_permission(t, nt[t].m, c)
       IN  IF nlk = t THEN NSet(t, [pc |-> "look"]) /\ nlk' = 0
           ELSE /\ UNCHANGED nlk
                /\ NSet(t, IF NOp(t).excl THEN NDone(t, "EEXIST")
                           ELSE IF i.ty = "lnk" THEN (IF NOp(t).nofollow \/ nt[t].n + 1 >= MAX_SYMLINK_FOLLOWS THEN NDone(t, "ELOOP")
                                                      ELSE [pc |-> "walk", m |-> b.m, d |-> b.d, segs |-> i.to, n |-> nt[t].n + 1])
                           ELSE IF i.ty = "dir" THEN NDone(t, "EISDIR")
                           ELSE IF e # "ok" THEN NDone(t, e) ELSE Opened(t, c))
    /\ NmOnlyTask
open_recheck(t) == nlk = 0 /\ nlk' = t /\ NSet(t, [pc |-> "look", was |-> names])
open_lock(t) ==
    /\ Have(t, {"opencreat"}) /\ nt[t].child = 0 /\ nlk # t
    /\ open_recheck(t)
    /\ NmOnlyTask
\* A new entry, when there is none.
Make(t) ==
    /\ IF nt[t].child # 0 THEN NFail(t, "EEXIST") ELSE NSet(t, [pc |-> "create"]) /\ UNCHANGED nlk
    /\ NmOnlyTask
filename_create(t) == Have(t, {"create"}) /\ Make(t)
filename_symlink(t) == Have(t, {"symlink"}) /\ Make(t)
filename_link_tmpfile(t) == Have(t, {"link_tmpfile"}) /\ Make(t)
open_create(t) ==
    /\ Have(t, {"opencreat"}) /\ nt[t].child = 0 /\ nlk = t
    /\ (IF ~ check_mount_writable(nt[t].m) THEN NFail(t, "EROFS")
        ELSE IF ~ check_dir_write_and_search_permission(t, nt[t].d) THEN NFail(t, "EACCES") ELSE NSet(t, [pc |-> "create"]) /\ UNCHANGED nlk)
    /\ NmOnlyTask
\* The mode ext4_fs_alloc_inode() gives: everybody's.
LowerMode(ty) == IF ty = "file" THEN {"r", "w"} ELSE {"r", "w", "x"}
\* create() of the file system: the inode has its name, not yet its owner.
create_inode(t) ==
    /\ NAt(t, "create")
    /\ IF Child(t) \in DOMAIN names THEN NFail(t, "EEXIST") /\ NmOnlyTask
       ELSE IF ~ HasParent(Child(t)) THEN NFail(t, "ENOENT") /\ NmOnlyTask
       ELSE /\ inodes' = Append(inodes, [Inode(NOp(t).ty, 0, LowerMode(NOp(t).ty)) EXCEPT !.made = FALSE, !.abs = NOp(t).abs, !.to = NOp(t).to])
            /\ names' = (Child(t) :> Len(inodes')) @@ names
            /\ NSet(t, [pc |-> "meta", child |-> Len(inodes')])
            /\ UNCHANGED <<nmSc, dens, cache, mnts, nlk>>
rollback_created(t) == Removed(Child(t))
install_created_inode(t) ==
    /\ NAt(t, "meta")
    /\ IF NOp(t).fault
       THEN /\ names' = rollback_created(t) /\ inodes' = Unlinked(nt[t].child)
            /\ NFail(t, "EIO") /\ UNCHANGED <<nmSc, dens, cache, mnts>>
       ELSE /\ inodes' = [inodes EXCEPT ![nt[t].child].made = TRUE, ![nt[t].child].uid = Uid(t), ![nt[t].child].oth = NOp(t).oth]
            /\ NSet(t, [pc |-> "made"]) /\ UNCHANGED <<nmSc, names, dens, cache, mnts, nlk>>
CreatedDentry(t) == NewDentry(t, nt[t].child)
publish_created(t) ==
    /\ NAt(t, "made")
    /\ dens' = CreatedDentry(t)
    /\ cache' \in insert_dentry_cache(cache, Child(t), Len(dens'))
    /\ NSet(t, IF NOp(t).op = "opencreat" THEN NDone(t, "ok") @@ [files |-> nt[t].files \cup {[m |-> nt[t].m, d |-> Len(dens'), i |-> nt[t].child]}] ELSE NDone(t, "ok"))
    /\ Unlocked(t) /\ UNCHANGED <<nmSc, names, inodes, mnts>>

filename_unlink(t) ==
    /\ Have(t, {"unlink"})
    /\ LET c == nt[t].child
           p == PathOf(c)
           e == IF c = 0 THEN "ENOENT"
                ELSE IF IsDir(c) /\ ~ NOp(t).dir THEN "EISDIR"
                ELSE IF ~ IsDir(c) /\ NOp(t).dir THEN "ENOTDIR"
                ELSE IF dens[c].up = 0 THEN "EBUSY"
                ELSE IF ~ check_sticky_rename_permission(t, dens[c].up, c) THEN "EPERM"
                ELSE IF p \notin DOMAIN names THEN "ENOENT"
                ELSE IF IsDir(c) /\ KidsOf(p) # {} THEN "ENOTEMPTY" ELSE "ok"
       IN  IF e # "ok" THEN NFail(t, e) /\ NmOnlyTask
           ELSE /\ names' = Removed(p) /\ inodes' = Unlinked(names[p])
                /\ NSet(t, [pc |-> "unlinked", to |-> p]) /\ UNCHANGED <<nmSc, dens, cache, mnts, nlk>>
unlink_uncache(t) == remove_dentry_cache_tree(cache, nt[t].to)
unlink_done(t) ==
    /\ NAt(t, "unlinked")
    /\ cache' = unlink_uncache(t)
    /\ NFail(t, "ok") /\ UNCHANGED <<nmSc, names, inodes, dens, mnts>>

filename_link(t) ==
    /\ Have(t, {"link"})
    /\ LET o == nt[t].old.d
           e == IF IsDir(o) THEN "EPERM" ELSE IF nt[t].child # 0 THEN "EEXIST" ELSE IF PathOf(o) \notin DOMAIN names \/ ~ HasParent(Child(t)) THEN "ENOENT" ELSE "ok"
           i == names[PathOf(o)]
       IN  IF e # "ok" THEN NFail(t, e) /\ NmOnlyTask
           ELSE /\ names' = (Child(t) :> i) @@ names
                /\ inodes' = [inodes EXCEPT ![i].nlink = @ + 1]
                /\ NSet(t, [pc |-> "made", child |-> dens[o].ino]) /\ UNCHANGED <<nmSc, dens, cache, mnts, nlk>>

OldPath(t) == PathOf(nt[t].old.d)
Backup(t) == Front(nt[t].to) \o <<"backup">>
rename_into_itself(t) == IsDir(nt[t].old.d) /\ Under(OldPath(t), nt[t].to)
\* What is replaced is set aside first.
rename_checked(t) ==
    /\ Have(t, {"rename"})
    /\ LET o == nt[t].old.d
           c == nt[t].child
           e == IF nt[t].to = OldPath(t) THEN (IF NOp(t).noreplace THEN "EEXIST" ELSE "same")
                ELSE IF rename_into_itself(t) THEN "EINVAL"
                ELSE IF c = 0 THEN "ok"
                ELSE IF NOp(t).noreplace THEN "EEXIST"
                ELSE IF ~ IsDir(o) /\ IsDir(c) THEN "EISDIR"
                ELSE IF IsDir(o) /\ ~ IsDir(c) THEN "ENOTDIR"
                ELSE IF dens[o].ino = dens[c].ino THEN "same"
                ELSE IF ~ check_sticky_rename_permission(t, nt[t].d, c) THEN "EPERM"
                ELSE IF IsDir(c) /\ KidsOf(PathOf(c)) # {} THEN "ENOTEMPTY"
                ELSE IF PathOf(c) \notin DOMAIN names THEN "ENOENT" ELSE "ok"
       IN  IF e # "ok" THEN NFail(t, IF e = "same" THEN "ok" ELSE e) /\ NmOnlyTask
           ELSE /\ names' = IF c = 0 THEN names ELSE Renamed(PathOf(c), Backup(t))
                /\ cache' = IF c = 0 THEN cache ELSE remove_dentry_cache_tree(cache, PathOf(c))
                /\ NSet(t, [pc |-> "rename"]) /\ UNCHANGED <<nmSc, inodes, dens, mnts, nlk>>
\* mutant: what was set aside is not put back.
leave_backup(t) == names
restore_backup(t) == IF nt[t].child = 0 THEN names ELSE Renamed(Backup(t), nt[t].to)
rename_main(t) ==
    /\ NAt(t, "rename")
    /\ IF NOp(t).fault \/ OldPath(t) \notin DOMAIN names \/ ~ HasParent(nt[t].to)
       THEN names' = restore_backup(t) /\ NFail(t, "EIO") /\ UNCHANGED <<nmSc, inodes, dens, cache, mnts>>
       ELSE names' = Renamed(OldPath(t), nt[t].to) /\ NSet(t, [pc |-> "renamed"]) /\ UNCHANGED <<nmSc, inodes, dens, cache, mnts, nlk>>
rename_uncache(t) == remove_dentry_cache_tree(remove_dentry_cache_tree(cache, OldPath(t)), nt[t].to)
rename_done(t) ==
    /\ NAt(t, "renamed")
    /\ names' = IF nt[t].child = 0 THEN names ELSE Removed(Backup(t))
    /\ inodes' = IF nt[t].child = 0 THEN inodes ELSE Unlinked(names[Backup(t)])
    /\ dens' = [dens EXCEPT ![nt[t].old.d] = [base |-> <<Last(nt[t].to)>>, up |-> nt[t].d, ino |-> @.ino]]
    /\ cache' \in insert_dentry_cache(rename_uncache(t), nt[t].to, nt[t].old.d)
    /\ NFail(t, "ok") /\ UNCHANGED <<nmSc, mnts>>

-----------------------------------------------------------------------------
(* mount, umount.                                                          *)

\* path_global_abs_path()
RECURSIVE GlobalPath(_)
GlobalPath(pos) ==
    LET i == get_mount_by_vfsmount(pos.m)
        prefix == GlobalPath([m |-> mnts[mnts[i].par].vfs, d |-> mnts[i].mp])
        root == PathOf(OfVfs(pos.m).root)
    IN  IF i = 0 \/ mnts[i].par = 0 \/ ~ mnts[mnts[i].par].on THEN PathOf(pos.d)
        ELSE prefix \o (IF Under(root, PathOf(pos.d)) THEN SubSeq(PathOf(pos.d), Len(root) + 1, Len(PathOf(pos.d))) ELSE PathOf(pos.d))
\* remove_mount_tree_inner() goes through the children first.
RECURSIVE Tree(_)
Tree(i) == {i} \cup UNION {Tree(j) : j \in Submounts(i)}
\* lookup_mount_target()
TargetMount(t) == LET i == get_mount_by_dentry(nt[t].d)
                  IN  IF i # 0 THEN i ELSE IF nt[t].d = OfVfs(nt[t].m).root THEN get_mount_by_vfsmount(nt[t].m) ELSE 0

\* The roots of the backing trees in the mounts, and what leaves the cache
\* with the mounts.
BackingRoots(gone) == {PathOf(mnts[j].root) : j \in {k \in gone : mnts[k].back}}
Uncached(c, gone) ==
    LET points == {GlobalPath([m |-> mnts[mnts[j].par].vfs, d |-> mnts[j].mp]) : j \in gone}
    IN  Restrict(c, {q \in DOMAIN c : (\A p \in BackingRoots(gone) \cup points : ~ Under(p, q)) /\ \A j \in gone : q # PathOf(mnts[j].mp)})

do_mount(t) ==
    /\ Arrived(t, {"mount"})
    /\ LET i == get_mount_by_dentry(nt[t].d) IN
       \/ /\ NOp(t).remount
          /\ mnts' = IF ~ IsDir(nt[t].d) \/ i = 0 \/ NOp(t).ro THEN mnts
                     ELSE [j \in DOMAIN mnts |-> IF mnts[j].vfs = mnts[i].vfs THEN [mnts[j] EXCEPT !.nosym = NOp(t).nosym, !.ro = FALSE] ELSE mnts[j]]
          /\ NSet(t, NDone(t, IF ~ IsDir(nt[t].d) THEN "ENOTDIR" ELSE IF i = 0 THEN "EINVAL" ELSE IF NOp(t).ro THEN "EBUSY" ELSE "ok"))
       \/ /\ ~ NOp(t).remount /\ UNCHANGED mnts
          /\ NSet(t, IF ~ IsDir(nt[t].d) THEN NDone(t, "ENOTDIR") ELSE IF i # 0 THEN NDone(t, "EBUSY") ELSE [pc |-> "mount", old |-> Pos(t)])
    /\ UNCHANGED <<nmSc, names, inodes, dens, cache, nlk>>
\* The names of the directories that mounts live in.
BackingNames == <<"mount1", "mount2", "mount3", "mount4">>
BackingName == BackingNames[Len(mnts)]
Vfs == 1 + Max({mnts[i].vfs : i \in DOMAIN mnts})
WithFlags(t, mount) == [mount EXCEPT !.ro = NOp(t).ro, !.nosym = NOp(t).nosym]
mount_backing(t) ==
    /\ NAt(t, "mount")
    /\ names' = (<<BackingName>> :> Len(inodes) + 1) @@ names
    /\ inodes' = Append(inodes, Inode("dir", 0, {"r", "x"}))
    /\ dens' = Append(dens, [base |-> <<BackingName>>, up |-> 0, ino |-> Len(inodes')])
    /\ LET par == get_mount_by_vfsmount(nt[t].m) IN
       IF par = 0 THEN NSet(t, NDone(t, "EINVAL")) /\ UNCHANGED <<mnts, cache>>
       ELSE /\ mnts' = Append(mnts, WithFlags(t, NewMount(nt[t].d, Len(dens'), par, Vfs, TRUE)))
            /\ cache' = remove_dentry_cache_descendants(cache, GlobalPath(Pos(t)))
            /\ NSet(t, NDone(t, "ok"))
    /\ UNCHANGED <<nmSc, nlk>>
mount_bind(t) ==
    /\ Arrived(t, {"bind"}) /\ ~ nt[t].first
    /\ LET par == get_mount_by_vfsmount(nt[t].old.m) IN
       IF par = 0 THEN NFail(t, "EINVAL") /\ NmOnlyTask
       ELSE /\ mnts' = Append(mnts, WithFlags(t, NewMount(nt[t].old.d, nt[t].d, par, Vfs, FALSE)))
            /\ cache' = remove_dentry_cache_descendants(cache, GlobalPath(nt[t].old))
            /\ NSet(t, NDone(t, "ok")) /\ UNCHANGED <<nmSc, names, inodes, dens, nlk>>
mount_move(t) ==
    /\ Arrived(t, {"move"}) /\ ~ nt[t].first
    /\ LET i == TargetMount(t)
           par == get_mount_by_vfsmount(nt[t].old.m)
           c == remove_dentry_cache_descendants(cache, GlobalPath(nt[t].old))
       IN  IF i = 0 \/ par = 0 THEN NFail(t, "EINVAL") /\ NmOnlyTask
           ELSE IF get_mount_by_dentry(nt[t].old.d) # 0 THEN NFail(t, "EBUSY") /\ NmOnlyTask
           ELSE /\ mnts' = Append([j \in DOMAIN mnts |-> IF j \in Tree(i) THEN [mnts[j] EXCEPT !.on = FALSE] ELSE mnts[j]],
                                  [mnts[i] EXCEPT !.mp = nt[t].old.d, !.par = par, !.expire = 0])
                /\ cache' = remove_dentry_cache_tree(Uncached(c, Tree(i)), PathOf(mnts[i].mp))
                /\ NSet(t, NDone(t, "ok")) /\ UNCHANGED <<nmSc, names, inodes, dens, nlk>>

\* A file system of the tree that cannot be flushed keeps its mount.
do_umount2(t) ==
    /\ Arrived(t, {"umount"})
    /\ LET i == TargetMount(t)
           e == IF i = 0 THEN "EINVAL" ELSE IF mnts[i].par = 0 \/ (~ NOp(t).detach /\ Submounts(i) # {}) THEN "EBUSY" ELSE "ok"
           expire == e = "ok" /\ NOp(t).expire
       IN  /\ mnts' = IF expire THEN [mnts EXCEPT ![i].expire = @ + 1] ELSE mnts
           /\ NSet(t, IF e # "ok" THEN NDone(t, e) ELSE IF expire /\ mnts[i].expire < 2 THEN NDone(t, "EAGAIN")
                      ELSE IF NOp(t).fault THEN NDone(t, "EIO") ELSE [pc |-> "umount", child |-> i])
    /\ UNCHANGED <<nmSc, names, inodes, dens, cache, nlk>>
remove_mount_tree(t) ==
    /\ NAt(t, "umount")
    /\ LET gone == Tree(nt[t].child) IN
       /\ mnts' = [j \in DOMAIN mnts |-> IF j \in gone THEN [mnts[j] EXCEPT !.on = FALSE] ELSE mnts[j]]
       /\ cache' = Uncached(cache, gone)
       /\ names' = Restrict(names, {q \in DOMAIN names : \A p \in BackingRoots(gone) : ~ Under(p, q)})
    /\ NSet(t, NDone(t, "ok")) /\ UNCHANGED <<nmSc, inodes, dens, nlk>>

NmNext == \E t \in NmTasks :
    \/ nm_start(t) \/ walk_dots(t) \/ walk_name(t) \/ walk_insert(t) \/ walk_parent(t) \/ nm_look(t) \/ look_insert(t)
    \/ second_path(t) \/ sys_stat(t) \/ sys_chdir(t) \/ sys_chroot(t) \/ path_open(t) \/ sys_close_all(t)
    \/ open_dots(t) \/ open_existing(t) \/ open_lock(t) \/ open_create(t) \/ filename_create(t) \/ filename_symlink(t) \/ filename_link_tmpfile(t)
    \/ create_inode(t) \/ install_created_inode(t) \/ publish_created(t)
    \/ filename_unlink(t) \/ unlink_done(t) \/ filename_link(t) \/ rename_checked(t) \/ rename_main(t) \/ rename_done(t)
    \/ do_mount(t) \/ mount_backing(t) \/ mount_bind(t) \/ mount_move(t) \/ do_umount2(t) \/ remove_mount_tree(t)
NmSpec == NmInit /\ [][NmNext]_nmVars
-----------------------------------------------------------------------------
(* Properties.                                                             *)

\* What does not go with a mount (umount takes no lock).
Lasting(ns) == Restrict(ns, {p \in DOMAIN ns : p = <<>> \/ Head(p) \notin Range(BackingNames)})

\* Type correctness.
NmTypeOK ==
    /\ <<>> \in DOMAIN names /\ \A p \in DOMAIN names : names[p] \in DOMAIN inodes
    /\ \A d \in DOMAIN dens : dens[d].up \in 0 .. Len(dens) /\ dens[d].ino \in DOMAIN inodes
    /\ \A p \in DOMAIN cache : cache[p] \in DOMAIN dens
    /\ nlk \in NmTasks \cup {0}
    /\ \A t \in NmTasks : nt[t].d \in DOMAIN dens /\ nt[t].m \in 1 .. Len(mnts)

\* The name space is a tree whatever is created, linked, moved and removed:
\* every entry is in a directory, and a directory has one name.
NamesAreTree ==
    /\ \A p \in DOMAIN names : p # <<>> => Front(p) \in DOMAIN names /\ inodes[names[Front(p)]].ty = "dir"
    /\ \A p, q \in DOMAIN names : (names[p] = names[q] /\ inodes[names[p]].ty = "dir") => p = q

\* The cache says what the file system says once a change is complete: a
\* path that is cached exists and has the inode of its dentry, and the
\* dentry knows that path.
CacheTrue == nlk = 0 => \A p \in DOMAIN Lasting(cache) : PathOf(cache[p]) = p /\ p \in DOMAIN names /\ names[p] = dens[cache[p]].ino

\* What is mounted is found: the dentry it is mounted on is the one in the
\* cache, so that a walk crosses it.
MountSeen == \A i \in DOMAIN mnts : (mnts[i].on /\ mnts[i].par # 0) =>
    LET p == PathOf(mnts[i].mp) IN p \in DOMAIN cache /\ cache[p] = mnts[i].mp

\* What is unmounted is not in use, unless it is only detached: no file, no
\* working directory and no root is on it, and nothing is mounted on it.
UmountIdle == \A t \in NmTasks : (NAt(t, "umount") /\ ~ NOp(t).detach) =>
    /\ Submounts(nt[t].child) = {}
    /\ \A u \in NmTasks : \A pos \in nt[u].files \cup {nt[u].cwd, nt[u].root} : pos.m # mnts[nt[t].child].vfs

\* A file that is open exists: its creation is complete or still going on,
\* never taken back.
OpenedStays == \A t \in NmTasks : \A f \in nt[t].files :
    inodes[f.i].made \/ \E u \in NmTasks : nt[u].pc \in {"meta", "made"} /\ nt[u].child = f.i

\* A file is opened when it has its owner and its mode.
OpenedIsMade == \A t \in NmTasks : \A f \in nt[t].files : inodes[f.i].made

\* A call that fails leaves the names as it found them (the failed creation
\* is rolled back, the replaced entry is put back).
FailedChangeUndone == \A t \in NmTasks : (nlk = t /\ nlk' = 0 /\ nt'[t].ret # "ok" /\ nt'[t].k # nt[t].k) => Lasting(names') = Lasting(nt[t].was)

\* open() with O_CREAT but without O_EXCL does not fail because another task
\* created the file at the same time.
CreateIsShared == \A t \in NmTasks : (nt'[t].k # nt[t].k /\ NOp(t).op = "opencreat" /\ ~ NOp(t).excl) => nt'[t].ret # "EEXIST"

\* An entry of a sticky directory is removed or replaced by its owner, the
\* owner of the directory or root.
StickyKept == \A t \in NmTasks : nlk = t => \A p \in DOMAIN names :
    (p # <<>> /\ inodes[names[Front(p)]].sticky /\ (p \notin DOMAIN names' \/ names'[p] # names[p]) /\ inodes[names[p]].made)
        => Uid(t) \in {0, inodes[names[Front(p)]].uid, inodes[names[p]].uid}

\* A task that works below its root stays below it: no "..", no symbolic
\* link and no mount point on the way leads above the root.
RECURSIVE Above(_, _)
Above(pos, n) == {pos} \cup (IF n = 0 THEN {} ELSE
    LET i == get_mount_by_vfsmount(pos.m)
        up == IF pos.d = OfVfs(pos.m).root /\ i # 0 /\ mnts[i].par # 0 THEN [m |-> mnts[mnts[i].par].vfs, d |-> mnts[i].mp] ELSE [m |-> pos.m, d |-> UpOrSelf(pos.d)]
    IN  Above(up, n - 1))
RootHolds == \A t \in NmTasks : (nt[t].pc # "idle" /\ nt[t].root # RootPos /\ nt[t].root \in Above(nt[t].cwd, 6)) => nt[t].root \in Above(Pos(t), 6)

\* Changes of the name space are all or nothing, do not hurt each other, and respect
\* the sticky bit.
NamesChange == [][FailedChangeUndone /\ CreateIsShared /\ StickyKept]_nmVars

=============================================================================
