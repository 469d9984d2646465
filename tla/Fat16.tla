------------------------------- MODULE Fat16 -------------------------------
(***************************************************************************)
(* The boot volume verifier scripts/qualify-native/fat16.py: it accepts an *)
(* image only if it is a raw FAT16 volume of the supported profile, whose  *)
(* directory tree owns every allocated cluster exactly once, and only if   *)
(* the expected files are in it byte for byte.                             *)
(*                                                                         *)
(* A volume is its boot sector (bpb), its two FATs, the root directory,    *)
(* and what each cluster holds: the entries it has when it is read as part *)
(* of a directory, and a token for its bytes when it is part of a file.    *)
(* FAT entries and clusters past those given are zero.  The limits are     *)
(* CONSTANTS: 128 MiB, 4085, 65525, 8 and 4096 in the script.              *)
(***************************************************************************)
EXTENDS Transcript, SequencesExt

CONSTANTS MAX_IMAGE, MIN_CLUSTERS, MAX_CLUSTERS, MAX_DEPTH, MAX_PATHS

ASSUME Fat16Assumption ==
  /\ {MAX_IMAGE, MIN_CLUSTERS, MAX_CLUSTERS, MAX_DEPTH, MAX_PATHS} \subseteq Nat
  /\ 0 < MIN_CLUSTERS /\ MIN_CLUSTERS < MAX_CLUSTERS /\ MAX_CLUSTERS <= 65525

SECTOR == 512
ENTRY == 32
RESERVED == 65520    \* 0xFFF0: the first identifier that is no cluster
EOC == 65528         \* 0xFFF8: the end of a chain
DIR == 16
FILE == 32

End == [kind |-> "end"]
Deleted == [kind |-> "deleted"]

fat(v, c) == IF c \in DOMAIN v.fat THEN v.fat[c] ELSE 0
contents(v, c) == IF c \in DOMAIN v.clusters THEN v.clusters[c] ELSE [entries |-> <<End>>, bytes |-> 0]

\* A slot <<c, j>> is the j-th entry in cluster c, or in the root directory if c is 0.
block(v, c) == IF c = 0 THEN v.root ELSE contents(v, c).entries
entry(v, slot) == block(v, slot[1])[slot[2]]

cluster_bytes(v) == SECTOR * v.bpb.spc
root_offset(v) == (v.bpb.reserved + v.bpb.nfats * v.bpb.fat_sectors) * SECTOR
data_offset(v) == root_offset(v) + v.bpb.roots * ENTRY
cluster_count(v) == (v.bpb.bytes - data_offset(v)) \div cluster_bytes(v)
DataClusters(v) == 2..(cluster_count(v) + 1)
allocated(v) == {c \in DataClusters(v) : fat(v, c) # 0}

\* The checks FAT16's constructor makes before it walks the tree.
geometry_ok(v) ==
  LET b == v.bpb IN
  /\ SECTOR <= b.bytes /\ b.bytes <= MAX_IMAGE
  /\ b.signature /\ b.sector = SECTOR
  /\ b.spc \in {1, 2, 4, 8, 16, 32, 64, 128}
  /\ b.reserved >= 1 /\ b.nfats = 2
  /\ 0 < b.roots /\ b.roots <= 4096 /\ b.roots % 16 = 0
  /\ (b.total16 # 0) # (b.total32 # 0)
  /\ (IF b.total16 # 0 THEN b.total16 ELSE b.total32) * SECTOR = b.bytes
  /\ b.hidden = 0
  /\ b.fat_sectors > 0
  /\ data_offset(v) < b.bytes
  /\ MIN_CLUSTERS <= cluster_count(v) /\ cluster_count(v) < MAX_CLUSTERS
  /\ (cluster_count(v) + 2) * 2 <= b.fat_sectors * SECTOR
  /\ v.fat = v.fat2
  /\ fat(v, 0) = 65280 + b.media /\ fat(v, 1) >= EOC

\* What the input of the verifier is: any image file, read as a volume.
Entries ==
  [kind : {"end", "deleted"}]
    \cup [kind : {"used"}, name : STRING, attr : Nat, first : Nat, size : Nat,
          extended : BOOLEAN, valid_name : BOOLEAN]
IsVolume(v) ==
  /\ v.bpb \in [bytes : Nat, signature : BOOLEAN, sector : Nat, spc : Nat, reserved : Nat, nfats : Nat,
                roots : Nat, total16 : Nat, total32 : Nat, hidden : Nat, fat_sectors : Nat, media : Nat]
  /\ \A c \in DOMAIN v.fat : v.fat[c] \in Nat
  /\ v.root \in Seq(Entries)
  /\ \A c \in DOMAIN v.clusters : v.clusters[c].entries \in Seq(Entries)

-----------------------------------------------------------------------------
(* chain and walk *)

\* Mutant: only a chain's own clusters are looked at.
taken_own(claimed, clusters, c) == c \in Range(clusters)

taken(claimed, clusters, c) == c \in Range(clusters) \/ c \in claimed

\* One turn of the loop of chain; s is [ok, more, current, clusters].
follow(v, claimed, s) ==
  LET following == fat(v, s.current) IN
  IF ~s.more THEN s
  ELSE IF \/ s.current >= RESERVED \/ s.current \notin DataClusters(v)
          \/ taken(claimed, s.clusters, s.current)
  THEN [s EXCEPT !.ok = FALSE, !.more = FALSE]
  ELSE [ok |-> following >= EOC \/ (2 <= following /\ following < RESERVED),
        more |-> 2 <= following /\ following < RESERVED,
        current |-> following, clusters |-> Append(s.clusters, s.current)]

\* Follow the FAT from start, claiming each cluster: [ok, clusters].  Every turn
\* claims a cluster nobody has, so there are no more turns than clusters.
chain(v, claimed, start) ==
  LET go[n \in 0..(cluster_count(v) + 1)] ==
        IF n = 0 THEN [ok |-> TRUE, more |-> TRUE, current |-> start, clusters |-> << >>]
                 ELSE Once(LAMBDA s : follow(v, claimed, s), go[n - 1])
  IN go[cluster_count(v) + 1]

\* A directory being walked; at is the place of the next of its slots.
Frame(dir, cluster, parent, slots) ==
  [dir |-> dir, cluster |-> cluster, parent |-> parent, slots |-> slots, at |-> 1,
   names |-> {}, dots |-> {}]

\* The slots of a directory, in the order of its clusters.
payload(v, clusters) ==
  FlattenSeq([i \in DOMAIN clusters |->
                [j \in DOMAIN block(v, clusters[i]) |-> <<clusters[i], j>>]])
content(v, size, clusters) ==
  [size |-> size, blocks |-> [i \in DOMAIN clusters |-> contents(v, clusters[i]).bytes]]

\* Attributes, case and high-cluster fields, name(), and no name twice.
entry_ok(f, e) == e.attr \in {DIR, FILE} /\ ~e.extended /\ e.valid_name /\ e.name \notin f.names

dot_ok(f, e) ==
  /\ f.dir # << >> /\ e.attr = DIR /\ e.size = 0
  /\ e.first = IF e.name = "." THEN f.cluster ELSE f.parent

blocksFor(v, size) == (size + cluster_bytes(v) - 1) \div cluster_bytes(v)

\* A named entry: its chain is claimed; a directory is walked at once, before
\* the entries after it.
enter(v, a, f, e) ==
  LET path  == Append(f.dir, e.name)
      empty == e.attr = FILE /\ e.size = 0
      got   == IF empty THEN [ok |-> e.first = 0, clusters |-> << >>]
               ELSE chain(v, a.claimed, e.first)
      sized == IF e.attr = FILE THEN Len(got.clusters) = blocksFor(v, e.size) ELSE e.size = 0
      after == [f EXCEPT !.names = @ \cup {e.name}, !.at = @ + 1]
      below == IF e.attr = DIR THEN <<Frame(path, e.first, f.cluster, payload(v, got.clusters))>>
               ELSE << >>
  IN [ok      |-> /\ path \notin a.paths /\ Cardinality(a.paths) < MAX_PATHS
                  /\ got.ok /\ sized
                  /\ e.attr = DIR => Len(path) <= MAX_DEPTH,
      claimed |-> a.claimed \cup Range(got.clusters),
      paths   |-> a.paths \cup {path},
      files   |-> IF e.attr = DIR THEN a.files
                  ELSE [p \in DOMAIN a.files \cup {path} |->
                          IF p = path THEN content(v, e.size, got.clusters) ELSE a.files[p]],
      stack   |-> below \o <<after>> \o Tail(a.stack)]

over(v, f) == f.at > Len(f.slots) \/ entry(v, f.slots[f.at]).kind = "end"
dots_ok(f) == f.dir # << >> => f.dots = {".", ".."}

\* One turn of the entry loop of the innermost directory, or its end.
walkEntry(v, a) ==
  LET f      == Head(a.stack)
      e      == entry(v, f.slots[f.at])
      passed == [f EXCEPT !.at = @ + 1]
      top(g) == [a EXCEPT !.stack = <<g>> \o Tail(@)]
      reject == [a EXCEPT !.ok = FALSE]
  IN IF ~a.ok \/ a.stack = << >> THEN a
     ELSE IF over(v, f) THEN [a EXCEPT !.ok = dots_ok(f), !.stack = Tail(@)]
     ELSE IF e.kind = "deleted" THEN top(passed)
     ELSE IF ~entry_ok(f, e) THEN reject
     ELSE IF e.name \notin {".", ".."} THEN enter(v, a, f, e)
     ELSE IF dot_ok(f, e)
          THEN top([passed EXCEPT !.names = @ \cup {e.name}, !.dots = @ \cup {e.name}])
          ELSE reject

NoFiles == [p \in {} |-> << >>]

\* A turn passes a slot without an end mark, or ends a directory: <<c, 0>> stands for
\* the end of the one that begins at c.  Each is met once; so many turns empty the stack.
Turns(v) ==
  UNION {{<<c, j>> : j \in {0} \cup {i \in DOMAIN block(v, c) : block(v, c)[i].kind # "end"}} :
           c \in allocated(v) \cup {0}}

walk(v) ==
  LET turns == Cardinality(Turns(v))
      go[n \in 0..turns] ==
        IF n = 0 THEN [ok |-> TRUE, claimed |-> {}, paths |-> {}, files |-> NoFiles,
                       stack |-> <<Frame(<< >>, 0, 0, payload(v, <<0>>))>>]
        ELSE Once(LAMBDA a : walkEntry(v, a), go[n - 1])
  IN go[turns]

\* FAT16(data): the tree is walked, then every allocated cluster must be claimed.
volume(v) ==
  IF ~geometry_ok(v) THEN [ok |-> FALSE, files |-> NoFiles]
  ELSE LET w == walk(v) IN
       [ok |-> w.ok /\ allocated(v) \subseteq w.claimed,
        files |-> w.files]

-----------------------------------------------------------------------------
(* verify *)

\* A path as it was given: whether it starts at the root, and per part its
\* upper-case form and whether it is ASCII.
IsPath(p) == p \in [absolute : BOOLEAN, parts : Seq([upper : STRING, ascii : BOOLEAN])]
canonical_ok(p) ==
  /\ p.absolute /\ p.parts # << >>
  /\ \A i \in DOMAIN p.parts : p.parts[i].upper \notin {"", ".", ".."} /\ p.parts[i].ascii
canonical_path(p) == [i \in DOMAIN p.parts |-> p.parts[i].upper]

plain(names) == [absolute |-> TRUE,
                 parts |-> [i \in DOMAIN names |-> [upper |-> names[i], ascii |-> TRUE]]]
LOADER_PATH == plain(<<"EFI", "BOOT", "BOOTX64.EFI">>)
KERNEL_PATH == plain(<<"ZK", "KERNEL.ELF">>)

\* expected: a sequence of paths and the content each must have.
verify(v, expected) ==
  LET vol     == volume(v)
      path(i) == canonical_path(expected[i].path)
  IN IF /\ vol.ok
        /\ \A i \in DOMAIN expected :
             /\ canonical_ok(expected[i].path)
             /\ \A j \in 1..(i - 1) : path(j) # path(i)
             /\ path(i) \in DOMAIN vol.files /\ vol.files[path(i)] = expected[i].wanted
     THEN "pass" ELSE "fail"

-----------------------------------------------------------------------------
(* What a sound volume is, without a walk: the directories level by level,  *)
(* each entry's chain on its own, and then how the chains lie together.     *)

\* The clusters of the chain that starts at c; empty if it never ends, or leaves the
\* clusters that a link may name.
Usable(v) == {c \in DataClusters(v) : c < RESERVED}
ChainFrom(v, c) ==
  LET n == cluster_count(v)
      at[i \in 1..n] == IF i = 1 THEN c ELSE Once(LAMBDA x : fat(v, x), at[i - 1])
      ends == {i \in 1..n : fat(v, at[i]) >= EOC /\ \A j \in 1..i : at[j] \in Usable(v)}
  IN IF ends = {} THEN << >> ELSE [i \in 1..Min(ends) |-> at[i]]

\* A directory is its path, its cluster and its parent's, and its slots.  Those in
\* use lie before the first end mark.
Nth(v, d, i) == entry(v, d.slots[i])
InUse(v, d) ==
  {i \in DOMAIN d.slots : /\ Nth(v, d, i).kind = "used"
                          /\ \A j \in 1..i : Nth(v, d, j).kind # "end"}
Named(v, d) == {i \in InUse(v, d) : Nth(v, d, i).name \notin {".", ".."}}

Root(v) == [path |-> << >>, cluster |-> 0, parent |-> 0, slots |-> payload(v, <<0>>)]
Child(v, d, e) ==
  [path |-> Append(d.path, e.name), cluster |-> e.first, parent |-> d.cluster,
   slots |-> payload(v, ChainFrom(v, e.first))]
Below(v, d) == {Child(v, d, Nth(v, d, i)) : i \in {j \in Named(v, d) : Nth(v, d, j).attr = DIR}}

DirsAt(v) ==
  LET level[k \in 0..(MAX_DEPTH + 1)] ==
        IF k = 0 THEN {Root(v)}
        ELSE Once(LAMBDA ds : UNION {Below(v, d) : d \in ds}, level[k - 1])
  IN level

Extent(v, e) == IF e.attr = FILE /\ e.size = 0 THEN << >> ELSE ChainFrom(v, e.first)

ExtentFits(v, e) ==
  IF e.attr = FILE
  THEN Len(Extent(v, e)) = blocksFor(v, e.size) /\ (e.size = 0 => e.first = 0)
  ELSE e.size = 0 /\ Extent(v, e) # << >>

DirSound(v, d) ==
  LET e(i) == Nth(v, d, i)
      dots == {<<e(i).name, e(i).first>> : i \in InUse(v, d) \ Named(v, d)}
  IN /\ \A i \in InUse(v, d) :
          /\ e(i).attr \in {DIR, FILE} /\ ~e(i).extended /\ e(i).valid_name
          /\ \A j \in InUse(v, d) \ {i} : e(i).name # e(j).name
          /\ i \notin Named(v, d) => e(i).attr = DIR /\ e(i).size = 0
          /\ i \in Named(v, d) => ExtentFits(v, e(i))
     /\ dots = IF d.path = << >> THEN {} ELSE {<<".", d.cluster>>, <<"..", d.parent>>}

Dirs(v) == UNION {DirsAt(v)[k] : k \in 0..MAX_DEPTH}
Items(v) == UNION {{<<d.path, Nth(v, d, i)>> : i \in Named(v, d)} : d \in Dirs(v)}

Sound(v) ==
  LET span(x) == Range(Extent(v, x[2])) IN
  /\ DirsAt(v)[MAX_DEPTH + 1] = {}
  /\ \A d \in Dirs(v) : DirSound(v, d)
  /\ Cardinality(Items(v)) <= MAX_PATHS
  /\ \A x, y \in Items(v) : x # y => span(x) \cap span(y) = {}
  /\ UNION {span(x) : x \in Items(v)} = allocated(v)

\* The layout a boot sector describes: the FAT entry of every data cluster lies
\* in the first FAT, and every data cluster in the image, after the root.
LayoutSafe(v) ==
  \A c \in DataClusters(v) :
    /\ 2 * c + 2 <= v.bpb.fat_sectors * SECTOR
    /\ data_offset(v) + (c - 1) * cluster_bytes(v) <= v.bpb.bytes

\* The file at a path, found level by level.
HasFile(v, path, wanted) ==
  /\ path # << >> /\ Len(path) <= MAX_DEPTH + 1
  /\ \E d \in DirsAt(v)[Len(path) - 1] :
       /\ d.path = Front(path)
       /\ \E i \in Named(v, d) : LET e == Nth(v, d, i) IN
            e.name = Last(path) /\ e.attr = FILE /\ content(v, e.size, Extent(v, e)) = wanted
=============================================================================
