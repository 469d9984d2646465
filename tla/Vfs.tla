-------------------------------- MODULE Vfs --------------------------------
(***************************************************************************)
(* The ramfs behind the hosted kernel's file system calls (vfs/vfs.zig):   *)
(* fixed tables of dentries, inodes and open files, a tree kept both as    *)
(* parent links and as bounded child lists, a byte quota, and the jail     *)
(* that confines a workspace and is wiped by a reset.                      *)
(*                                                                         *)
(* One call at a time.  A path is the sequence of its components and a     *)
(* name is the path it was set from: createFile names a dentry by its last *)
(* component, mkdirat and linkat by the whole path.  File bytes are their  *)
(* number.  A freed slot keeps its contents until it is allocated again,   *)
(* and the code can still reach it.  The mount table (which no lookup      *)
(* reads), devices, pipes, modes and stat are left out.                    *)
(***************************************************************************)
EXTENDS Integers, Sequences, FiniteSets, SequencesExt, FiniteSetsExt

CONSTANTS
  MAX_DENTRIES, MAX_INODES, MAX_OPEN_FILES,
  MAX_CHILDREN,   \* entries of Dentry.children
  FS_CAP_BYTES,
  Paths,          \* paths calls are given
  NewDirs,        \* those mkdirat is given
  JailPath,       \* "/workspace": the jail's path, and the one linkat makes
  Counts,         \* byte counts of creates, reads and writes
  MaxBends        \* bound on the calls that bend the tree

ASSUME VfsAssumption ==
  /\ {MAX_DENTRIES, MAX_INODES, MAX_OPEN_FILES} \subseteq Nat \ {0}
  /\ {MAX_CHILDREN, FS_CAP_BYTES, MaxBends} \subseteq Nat
  /\ Counts \subseteq Nat
  /\ JailPath \in Paths /\ NewDirs \subseteq Paths
  /\ \A p \in Paths : p \in Seq(STRING) /\ p # <<>>

VARIABLES
  dentries,   \* the dentry slots
  inodes,     \* the inode slots
  files,      \* open_files
  jail,       \* jail_root
  used,       \* fs_used_bytes
  held,       \* history: bytes taken from the page allocator and not returned
  bends       \* history: calls that bent the tree (see CalmTree)

vars == <<dentries, inodes, files, jail, used, held, bends>>

None == 0
NoData == -1
Root == 1
Dentries == 1..MAX_DENTRIES
Inodes == 1..MAX_INODES
Fds == 1..MAX_OPEN_FILES

Blank == [used |-> TRUE, name |-> <<>>, inode |-> None, parent |-> None, children |-> <<>>]
NewInode == [used |-> TRUE, data |-> NoData, size |-> 0, ops |-> FALSE]

\* A call counted in bends, or not.  linkat of a freed dentry is not: it meets an
\* earlier bend.
bend(counts) ==
  IF counts THEN bends < MaxBends /\ bends' = bends + 1 ELSE UNCHANGED bends

\* No call so far bent the tree.
calm == bends = 0

-----------------------------------------------------------------------------
(* Slots *)

\* The first slot not in use, None when the table is full.
FreeSlot(table) ==
  LET free == {i \in DOMAIN table : ~table[i].used}
  IN  IF free = {} THEN None ELSE Min(free)

\* The child is dropped from the list, not from the table, when the list is full.
registerChild(D, d) ==
  LET p == D[d].parent
  IN  IF Len(D[p].children) < MAX_CHILDREN
      THEN [D EXCEPT ![p].children = Append(@, d)]
      ELSE D

-----------------------------------------------------------------------------
(* Lookup *)

\* The child list first, live or not; then any live dentry with that parent.
lookupChild(D, parent, component) ==
  LET list == D[parent].children
      hits == {k \in DOMAIN list : D[list[k]].name = <<component>>}
      stray == {d \in Dentries : /\ D[d].used /\ D[d].inode # None
                                 /\ D[d].parent = parent /\ D[d].name = <<component>>}
  IN  IF hits # {} THEN list[Min(hits)] ELSE IF stray # {} THEN Min(stray) ELSE None

lookupPath(D, start, path) ==
  LET at[k \in 0..Len(path)] ==
        IF k = 0 THEN start
        ELSE IF at[k - 1] = None THEN None ELSE lookupChild(D, at[k - 1], path[k])
  IN  at[Len(path)]

lookup(path) == lookupPath(dentries, Root, path)

\* d and the dentries above it.  The walk of a cycle never ends.
Chain(d) ==
  LET up[k \in 0..MAX_DENTRIES] ==
        IF k = 0 THEN d ELSE IF up[k - 1] = None THEN None ELSE dentries[up[k - 1]].parent
  IN  {up[k] : k \in 0..MAX_DENTRIES}

WalkEnds(d) == jail \in Chain(d) \/ None \in Chain(d)

\* Without a jail a path starts at the open directory dirfd names, or the root.
resolveRaw(dirfd, path) ==
  LET start == IF dirfd # None /\ files[dirfd].used THEN files[dirfd].dentry ELSE Root
  IN  lookupPath(dentries, start, path)

\* Mutant: absolute paths are not held against the jail.
resolvePath_unchecked(dirfd, abs, path) ==
  IF jail = None THEN resolveRaw(dirfd, path)
  ELSE lookupPath(dentries, IF abs THEN Root ELSE jail, path)

resolvePath(dirfd, abs, path) ==
  IF jail = None THEN resolveRaw(dirfd, path)
  ELSE IF ~abs THEN lookupPath(dentries, jail, path)
  ELSE LET d == lookup(path) IN IF d # None /\ jail \in Chain(d) THEN d ELSE None

\* resolveJailed's "." and ".." are resolved on the components, clamped at the jail.
normalized(path) ==
  LET parts[k \in 0..Len(path)] ==
        IF k = 0 THEN <<>>
        ELSE CASE path[k] = "." -> parts[k - 1]
               [] path[k] = ".." -> IF parts[k - 1] = <<>> THEN <<>> ELSE Front(parts[k - 1])
               [] OTHER -> Append(parts[k - 1], path[k])
  IN  parts[Len(path)]

resolveJailed(abs, path) ==
  LET rel == IF abs /\ IsPrefix(JailPath, path)
             THEN SubSeq(path, Len(JailPath) + 1, Len(path)) ELSE path
  IN  lookupPath(dentries, jail, normalized(rel))

-----------------------------------------------------------------------------
(* Quota *)

\* fsCharge: whether growth fits.
fsCharge(growth) == used + growth <= FS_CAP_BYTES

fsRelease(n) == used' = IF n > used THEN 0 ELSE used - n

-----------------------------------------------------------------------------
(* Creation *)

\* The tables once createFile has linked d and before it charges the quota.
linked(d, i, path) ==
  LET named == [dentries EXCEPT ![d] = [Blank EXCEPT !.name = <<Last(path)>>, !.inode = i]]
      above == IF Len(path) > 1 THEN lookupPath(named, Root, Front(path)) ELSE Root
  IN  registerChild([named EXCEPT ![d].parent = IF above = None THEN Root ELSE above], d)

\* d has an entry on its parent's list.
registered(D, d) == d \in Range(D[D[d].parent].children)

\* What createFile does to the tables; alloc says whether the page allocator
\* gives the backing array.  A failure after the linking gives the slots back
\* and leaves the parent's list as it is.
created(path, n, alloc) ==
  LET d == FreeSlot(dentries)
      i == FreeSlot(inodes)
      D == linked(d, i, path)
  IN  /\ d # None
      /\ \/ /\ i = None
            /\ dentries' = [dentries EXCEPT ![d] = [Blank EXCEPT !.used = FALSE]]
            /\ UNCHANGED <<inodes, used, held, bends>>
         \/ /\ i # None /\ fsCharge(n) /\ alloc
            /\ dentries' = D
            /\ inodes' = [inodes EXCEPT ![i] = [NewInode EXCEPT !.data = n, !.size = n, !.ops = TRUE]]
            /\ used' = used + n /\ held' = held + n
            /\ bend(~registered(D, d))
         \/ /\ i # None /\ ~(fsCharge(n) /\ alloc)
            /\ dentries' = [D EXCEPT ![d].used = FALSE]
            /\ inodes' = [inodes EXCEPT ![i] = [NewInode EXCEPT !.used = FALSE]]
            /\ bend(registered(D, d))
            /\ UNCHANGED <<used, held>>

createFile(path, n, alloc) == created(path, n, alloc) /\ UNCHANGED <<files, jail>>

\* The whole path becomes one name under the root; without an inode the dentry
\* stays taken.  The result is the new dentry, None on failure.
mkdirResult == IF FreeSlot(inodes) = None THEN None ELSE FreeSlot(dentries)

mkdiratImpl(path) ==
  LET d == FreeSlot(dentries)
      i == FreeSlot(inodes)
      D == registerChild([dentries EXCEPT ![d] =
             [Blank EXCEPT !.name = path, !.inode = i, !.parent = Root]], d)
  IN  /\ d # None
      /\ \/ /\ i = None
            /\ dentries' = [dentries EXCEPT ![d] = Blank]
            /\ UNCHANGED <<inodes, bends>>
         \/ /\ i # None
            /\ dentries' = D
            /\ inodes' = [inodes EXCEPT ![i] = [NewInode EXCEPT !.ops = TRUE]]
            /\ bend(~registered(D, d))

mkdirat(path) == mkdiratImpl(path) /\ UNCHANGED <<files, jail, used, held>>

-----------------------------------------------------------------------------
(* Open files *)

Closed == [used |-> FALSE, dentry |-> None, inode |-> None, pos |-> 0]

\* The open file table with dentry d, whose inode is i, opened in it.
openFile(d, i) ==
  LET f == FreeSlot(files)
  IN  IF f = None THEN files
      ELSE [files EXCEPT ![f] = [used |-> TRUE, dentry |-> d, inode |-> i, pos |-> 0]]

\* resolvePath returns: its walk up from the dentry ends.
Resolves(abs, path) ==
  jail # None /\ abs /\ lookup(path) # None => WalkEnds(lookup(path))

openat(dirfd, abs, path) ==
  LET d == resolvePath(dirfd, abs, path)
  IN  /\ Resolves(abs, path)
      /\ d # None /\ dentries[d].inode # None
      /\ files' = openFile(d, dentries[d].inode)
      /\ UNCHANGED <<dentries, inodes, jail, used, held, bends>>

\* With O_CREAT a path that is not found is not created: only a dentry that has
\* lost its inode, which linkat makes of a freed one, is created anew.
openatCreate(dirfd, abs, path) ==
  LET d == resolvePath(dirfd, abs, path)
  IN  /\ Resolves(abs, path)
      /\ d # None /\ dentries[d].inode = None
      /\ \E alloc \in BOOLEAN :
           /\ created(path, 0, alloc)
           /\ files' = IF alloc /\ FreeSlot(inodes) # None
                       THEN openFile(FreeSlot(dentries), FreeSlot(inodes)) ELSE files
      /\ UNCHANGED jail

\* The file an operation on fd reaches, with the operations of its inode.
Usable(fd) == files[fd].used /\ inodes[files[fd].inode].ops

\* A closed slot is overwritten before it is read.
close(fd) ==
  /\ files[fd].used
  /\ files' = [files EXCEPT ![fd] = Closed]
  /\ UNCHANGED <<dentries, inodes, jail, used, held, bends>>

read(fd, n) ==
  LET len == inodes[files[fd].inode].data
      pos == files[fd].pos
  IN  /\ Usable(fd) /\ len # NoData
      /\ files' = [files EXCEPT ![fd].pos = @ + Min({n, IF pos < len THEN len - pos ELSE 0})]
      /\ UNCHANGED <<dentries, inodes, jail, used, held, bends>>

\* Mutant: an inode without an array gets its first one uncharged.
growth_fresh(old, new_len) == IF old # NoData /\ new_len > old THEN new_len - old ELSE 0

\* Bytes by which the backing array must grow to hold new_len.
growth(old, new_len) ==
  LET old_len == IF old = NoData THEN 0 ELSE old
  IN  IF new_len > old_len THEN new_len - old_len ELSE 0

write(fd, n, alloc) ==
  LET i == files[fd].inode
      old == inodes[i].data
      end == files[fd].pos + n
      grows == old = NoData \/ end > old
      more == growth(old, end)
  IN  /\ Usable(fd)
      /\ grows => fsCharge(more) /\ alloc
      /\ inodes' = [inodes EXCEPT ![i].data = IF grows THEN end ELSE @,
                                  ![i].size = Max({@, end})]
      /\ files' = [files EXCEPT ![fd].pos = end]
      /\ used' = IF grows THEN used + more ELSE used
      /\ held' = IF grows THEN held + end - Max({old, 0}) ELSE held
      /\ UNCHANGED <<dentries, jail, bends>>

seek(fd, pos) ==
  /\ Usable(fd)
  /\ pos \in 0..inodes[files[fd].inode].size
  /\ files' = [files EXCEPT ![fd].pos = pos]
  /\ UNCHANGED <<dentries, inodes, jail, used, held, bends>>

-----------------------------------------------------------------------------
(* Links *)

\* Only the inode's slot is released: not its bytes, its dentry or its charge.
unlinkat(path) ==
  LET d == lookup(path)
  IN  /\ d # None /\ dentries[d].inode # None
      /\ inodes' = [inodes EXCEPT ![dentries[d].inode].used = FALSE]
      /\ bend(TRUE)
      /\ UNCHANGED <<dentries, files, jail, used, held>>

\* The new dentry is under the root and on no child list.  old_d may be a freed
\* dentry, and then the very one that is allocated.
linkat(old_path, new_path) ==
  LET old_d == lookup(old_path)
      d == FreeSlot(dentries)
  IN  /\ old_d # None /\ d # None
      /\ dentries' = [dentries EXCEPT ![d] =
           [Blank EXCEPT !.name = new_path, !.inode = IF d = old_d THEN None ELSE dentries[old_d].inode,
             !.parent = Root]]
      /\ bend(dentries[old_d].used)
      /\ UNCHANGED <<inodes, files, jail, used, held>>

-----------------------------------------------------------------------------
(* Jail *)

setJail(path) ==
  /\ UNCHANGED <<files, used, held>>
  /\ \/ /\ lookup(path) # None
        /\ jail' = lookup(path)
        /\ UNCHANGED <<dentries, inodes, bends>>
     \/ /\ lookup(path) = None
        /\ mkdiratImpl(path)
        /\ jail' = IF mkdirResult = None THEN jail ELSE mkdirResult

clearJail ==
  /\ jail # None
  /\ jail' = None
  /\ UNCHANGED <<dentries, inodes, files, used, held, bends>>

\* The dentries freeDentryTree reaches from S along child lists.
Below(S) ==
  LET down[k \in 0..MAX_DENTRIES] ==
        IF k = 0 THEN S ELSE down[k - 1] \cup UNION {Range(dentries[d].children) : d \in down[k - 1]}
  IN  down[MAX_DENTRIES]

\* freeDentryTree of a tree that contains itself never returns.
TreeEnds(S) == \A d \in Below(S) : d \notin Below(Range(dentries[d].children))

\* The bytes of the backing arrays of the inodes S.
lengths(S) == MapThenSumSet(LAMBDA i : inodes[i].data, S)

\* The inodes of the dentries D whose backing arrays freeDentryTree frees.
Freed(D) == {i \in {dentries[d].inode : d \in D} \ {None} : inodes[i].data # NoData}

\* Mutant: the jail's own list is left as it was.
pruned_keepsList(gone) ==
  [d \in Dentries |->
    IF d \in gone THEN [dentries[d] EXCEPT !.used = FALSE, !.children = <<>>] ELSE dentries[d]]

\* The dentries once those in gone are freed, each list emptied as it is walked,
\* the jail's too.
pruned(gone) ==
  [d \in Dentries |->
    CASE d \in gone -> [dentries[d] EXCEPT !.used = FALSE, !.children = <<>>]
      [] d \notin gone /\ d = jail -> [dentries[d] EXCEPT !.children = <<>>]
      [] OTHER -> dentries[d]]

\* Mutant: the index advances past the child swapped into the hole.
walked_skips(list) == {list[k] : k \in {j \in DOMAIN list : 2 * j <= Len(list) + 1}}

\* The children the loop frees: the one swapped into the hole is looked at next.
walked(list) == Range(list)

\* freeDentryTree of every child of the jail.
clearJailContents ==
  LET gone == Below(walked(dentries[jail].children))
      inos == {dentries[d].inode : d \in gone} \ {None}
      bytes == lengths(Freed(gone))
  IN  /\ jail # None /\ TreeEnds({jail})
      /\ dentries' = pruned(gone)
      /\ inodes' = [i \in Inodes |->
           IF i \in inos THEN [inodes[i] EXCEPT !.used = FALSE, !.data = NoData, !.size = 0]
           ELSE inodes[i]]
      /\ fsRelease(bytes)
      /\ held' = held - bytes
      /\ UNCHANGED <<files, jail, bends>>

-----------------------------------------------------------------------------
\* init, once it has the root; its seed files and directories are calls like any.
Init ==
  /\ dentries = [d \in Dentries |-> IF d = Root THEN [Blank EXCEPT !.name = <<"/">>, !.inode = 1]
                                   ELSE [Blank EXCEPT !.used = FALSE]]
  /\ inodes = [i \in Inodes |-> [NewInode EXCEPT !.used = (i = 1)]]
  /\ files = [f \in Fds |-> Closed]
  /\ jail = None
  /\ used = 0 /\ held = 0 /\ bends = 0

Next ==
  \/ \E path \in Paths, n \in Counts, alloc \in BOOLEAN : createFile(path, n, alloc)
  \/ \E path \in Paths, dirfd \in Fds \cup {None}, abs \in BOOLEAN :
       openat(dirfd, abs, path) \/ openatCreate(dirfd, abs, path)
  \/ \E path \in Paths : unlinkat(path)
  \/ \E path \in NewDirs : mkdirat(path)
  \/ \E path \in Paths : linkat(path, JailPath)
  \/ setJail(JailPath)
  \/ \E fd \in Fds, n \in Counts :
       read(fd, n) \/ seek(fd, n) \/ \E alloc \in BOOLEAN : write(fd, n, alloc)
  \/ \E fd \in Fds : close(fd)
  \/ clearJail
  \/ clearJailContents

Spec == Init /\ [][Next]_vars

-----------------------------------------------------------------------------
(* Properties *)

\* The quota counts exactly the bytes the file system holds from the page
\* allocator, and never more than the cap: creates, growing writes, failed
\* allocations, unlinks that forget a file's bytes, recycled inodes and resets
\* included.
FsBytesExact == used = held /\ used <= FS_CAP_BYTES

\* While no call has failed after linking, unlinked, linked or overfilled a child
\* list, the tree is one: the dentries in use with an inode are those on their
\* parents' lists, once, each below the root and with an inode of its own.
CalmTree ==
  calm =>
    LET live == {d \in Dentries : dentries[d].used /\ dentries[d].inode # None}
    IN  /\ \A d \in live : Root \in Chain(d) /\ inodes[dentries[d].inode].used
        /\ \A d, e \in live : dentries[d].inode = dentries[e].inode => d = e
        /\ \A d \in live : LET list == dentries[d].children
                           IN  /\ Len(list) = Cardinality(Range(list))
                               /\ Range(list) = {e \in live : dentries[e].parent = d}

\* Paths to names beside the jail, and paths that climb out of where they start.
Probes == UNION {{<<Last(p)>>, <<"..">> \o p, JailPath \o <<"..", ".">> \o p} : p \in Paths}

\* In a calm tree whatever a workspace path resolves to, by either resolver and
\* however many ".." it has, is the jail or below it.
JailConfines ==
  calm /\ jail # None =>
    \A abs \in BOOLEAN, path \in Paths \cup Probes :
      \A d \in {resolveJailed(abs, path), resolvePath(None, abs, path)} \ {None} :
        jail \in Chain(d)

\* A reset of a calm tree removes what is below the jail and nothing else.
ResetWipes ==
  [][calm /\ clearJailContents =>
       \A d \in Dentries :
         dentries'[d].used = (dentries[d].used /\ (jail \notin Chain(d) \/ d = jail))]_vars

\* "Reset: destroy all children under jail": no name is found there afterwards.
ResetEmptiesJail ==
  [][clearJailContents => \A path \in Paths : lookupChild(dentries, jail, Last(path))' = None]_vars
=============================================================================
