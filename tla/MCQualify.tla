----------------------------- MODULE MCQualify -----------------------------
(***************************************************************************)
(* The qualifiers with the logs a guest may leave: the true log of every   *)
(* mode, and every log one deviation away from a true one: a line dropped, *)
(* repeated, exchanged with the next, added, or with other fields.         *)
(***************************************************************************)
EXTENDS Qualify

K == 4096   \* bytes in a frame

Pmm(free) == [total |-> 100, free |-> free, used |-> 100 - free, unmanaged |-> 7, excluded |-> 3]

\* The fields cycle c shows; the original CR3 carries a cache-control bit.
Shown(c, stage, mode) ==
  CASE stage = "control" -> [shape |-> "control", cr3 |-> 32 * K + 8, rflags |-> 2, cr0 |-> CR0_WP + 1,
                             cr4 |-> 32, efer |-> EFER_NXE, pmm |-> Pmm(60)]
    [] stage = "template" -> [shape |-> "template", root |-> 32 * K,
                              pdpt0 |-> 33 * K + 3 + (IF c = 2 THEN 32 ELSE 0)]
    [] stage = "construct" -> [shape |-> "construct", owned |-> 26, image |-> 4, stack |-> 16,
                               tables |-> 6, root |-> (38 + c) * K]
    [] stage = "walk" -> [shape |-> "walk", image_pts |-> 2, stack_pts |-> 1, rx |-> 50 * K,
                          rx1 |-> 51 * K, ro |-> 52 * K, rw |-> 53 * K]
    [] stage = "switch" -> [shape |-> "pair", expected |-> (38 + c) * K,
                            observed |-> IF mode = "skip-switch" THEN 32 * K ELSE (38 + c) * K]
    [] stage = "content" -> [shape |-> "content"]
    [] stage = "restore" -> [shape |-> "pair", expected |-> 32 * K + 8, observed |-> 32 * K + 8]
    [] stage = "destroy" -> [shape |-> "destroy", pmm |-> Pmm(60)]
    [] OTHER -> LET i == CHOOSE j \in DOMAIN FAULTS : FAULTS[j] = stage
                IN [shape |-> "fault", pfec |-> PFEC[i], cr2 |-> FAULT_CR2[i], gen |-> 5 * (c - 1) + i,
                    rip |-> IF i = 2 THEN FAULT_CR2[2] ELSE KERNEL_LO]

CycleLines(c, n, mode) ==
  <<[k |-> "fixture", cycle |-> c, len |-> FIXTURE_LEN, sha |-> FIXTURE_SHA256[c]]>>
    \o [i \in 1..n |-> [k |-> "cycle", cycle |-> c, stage |-> CYCLE_STAGES[i],
                        fields |-> Shown(c, CYCLE_STAGES[i], mode)]]

Boot(a, b) == [i \in 1..(b - a + 1) |-> Marker(MARKERS[a + i - 1])]
VmFail(mode) == [k |-> "vmfail", cycle |-> 1, stage |-> expected_stage(mode),
                 reason |-> expected_reason(mode)]

TrueScript(mode) ==
  CASE mode = "base" -> Boot(1, 18) \o <<Exit(10)>>
    [] mode = "positive" ->
         Boot(1, 16) \o <<[k |-> "start", mode |-> mode]>> \o CycleLines(1, 13, mode)
           \o CycleLines(2, 13, mode) \o <<[k |-> "complete"]>> \o Boot(17, 18) \o <<Exit(10)>>
    [] OTHER ->
         Boot(1, 16) \o <<[k |-> "start", mode |-> mode]>>
           \o CycleLines(1, Len(required_stages(mode)), mode) \o <<VmFail(mode), Exit(17)>>

-----------------------------------------------------------------------------

Swap(s, i) == [s EXCEPT ![i] = s[i + 1], ![i + 1] = s[i]]

\* Lines a log could hold that it should not, or that it may hold.
Extra(mode) ==
  {Failure, Noise, Exit(10), Exit(17), Exit(0), Marker("map-frozen"), Marker("pmm-ok"),
   Marker("timer-ok"), [k |-> "vmbad"], [k |-> "complete"],
   [k |-> "start", mode |-> IF mode = "base" THEN "positive" ELSE mode], VmFail("skip-switch")}

\* Other fields for a line.
Others(l) ==
  CASE l.k = "marker" -> {[l EXCEPT !.more = TRUE]}
    [] l.k = "exit" -> {Exit(c) : c \in {0, 10, 17}}
    [] l.k = "fixture" -> {[l EXCEPT !.len = 5121], [l EXCEPT !.sha = "0000"], [l EXCEPT !.cycle = 2]}
    [] l.k = "start" -> {[l EXCEPT !.mode = m] : m \in MODES}
    [] l.k = "vmfail" -> {[l EXCEPT !.cycle = 2], [l EXCEPT !.stage = "walk"],
                          [l EXCEPT !.reason = "expected-pf"]}
    [] l.k = "complete" -> {}
    [] l.k = "cycle" ->
         {[l EXCEPT !.cycle = 3 - @], [l EXCEPT !.stage = "unknown"], [l EXCEPT !.fields = [shape |-> "bad"]]}
         \cup (CASE l.stage = "control" ->
                     {[l EXCEPT !.fields.cr3 = 32 * K], [l EXCEPT !.fields.cr3 = 0],
                      [l EXCEPT !.fields.rflags = 514], [l EXCEPT !.fields.cr0 = 1],
                      [l EXCEPT !.fields.cr4 = 131072], [l EXCEPT !.fields.efer = 0],
                      [l EXCEPT !.fields.pmm = Pmm(59)], [l EXCEPT !.fields.pmm.used = 41],
                      [l EXCEPT !.fields.pmm.excluded = 4]}
                 [] l.stage = "template" ->
                     {[l EXCEPT !.fields.root = 34 * K]} \cup
                     {[l EXCEPT !.fields.pdpt0 = v] :
                        v \in {33 * K + 2, 33 * K + 7, 33 * K + 131, 32 * K + 3, 34 * K + 3, 3, 33 * K + 99}}
                 [] l.stage = "construct" ->
                     {[l EXCEPT !.fields.owned = 27], [l EXCEPT !.fields.image = 5, !.fields.owned = 27]}
                     \cup {[l EXCEPT !.fields.root = v] : v \in {32 * K, 50 * K, 39 * K + 8, PHYS_TOP}}
                 [] l.stage = "walk" ->
                     {[l EXCEPT !.fields.image_pts = 3], [l EXCEPT !.fields.rx1 = 50 * K],
                      [l EXCEPT !.fields.rw = 39 * K], [l EXCEPT !.fields.ro = 40 * K],
                      [l EXCEPT !.fields.rx = 0], [l EXCEPT !.fields.rx = 54 * K]}
                 [] l.stage \in {"switch", "restore"} ->
                     {[l EXCEPT !.fields.observed = v] : v \in {32 * K, 32 * K + 8, 39 * K, 40 * K}}
                     \cup {[l EXCEPT !.fields.expected = v] : v \in {32 * K, 40 * K}}
                 [] l.stage = "destroy" -> {[l EXCEPT !.fields.pmm = Pmm(59)]}
                 [] l.stage = "content" -> {}
                 [] OTHER -> {[l EXCEPT !.fields.pfec = 2], [l EXCEPT !.fields.cr2 = 0],
                              [l EXCEPT !.fields.gen = 0], [l EXCEPT !.fields.gen = 6],
                              [l EXCEPT !.fields.gen = 20], [l EXCEPT !.fields.rip = 0],
                              [l EXCEPT !.fields.rip = KERNEL_HI]})

Deviations(mode) ==
  LET s == TrueScript(mode) IN
  {SubSeq(s, 1, i) : i \in DOMAIN s}
    \cup {RemoveAt(s, i) : i \in DOMAIN s}
    \cup {InsertAt(s, i, s[i]) : i \in DOMAIN s}
    \cup {Swap(s, i) : i \in 1..(Len(s) - 1)}
    \cup UNION {{InsertAt(s, i, l) : l \in Extra(mode)} : i \in 1..(Len(s) + 1)}
    \cup UNION {{[s EXCEPT ![i] = l] : l \in Others(s[i])} : i \in DOMAIN s}

-----------------------------------------------------------------------------
(* Volumes: /EFI/BOOT/BOOTX64.EFI, and /ZK, a directory of two clusters with *)
(* KERNEL.ELF, INITRD.BIN and an empty file; cluster 11 is free.             *)

Entry(name, attr, first, size) ==
  [kind |-> "used", name |-> name, attr |-> attr, first |-> first, size |-> size,
   extended |-> FALSE, valid_name |-> TRUE]
Dots(self, parent) == <<Entry(".", DIR, self, 0), Entry("..", DIR, parent, 0)>>

MCLoader == [size |-> 700, blocks |-> <<4, 5>>]
MCKernel == [size |-> 512, blocks |-> <<7>>]
MCInitramfs == [size |-> 513, blocks |-> <<8, 9>>]

Sectors(n) ==
  [bytes |-> n * SECTOR, signature |-> TRUE, sector |-> SECTOR, spc |-> 1, reserved |-> 1, nfats |-> 2,
   roots |-> 16, total16 |-> n, total32 |-> 0, hidden |-> 0, fat_sectors |-> 1, media |-> 248]

GoodFat == [c \in 0..11 |-> CASE c = 0 -> 65528 [] c = 4 -> 5 [] c = 6 -> 10 [] c = 8 -> 9
                              [] c = 11 -> 0 [] OTHER -> 65535]
GoodClusters ==
  [c \in 2..11 |->
     [bytes |-> IF c = 11 THEN 5 ELSE c,
      entries |-> CASE c = 2 -> Dots(2, 0) \o <<Entry("BOOT", DIR, 3, 0), End>>
                    [] c = 3 -> Dots(3, 2) \o <<Entry("BOOTX64.EFI", FILE, 4, 700), End>>
                    [] c = 6 -> Dots(6, 0) \o <<Entry("KERNEL.ELF", FILE, 7, 512)>>
                    [] c = 10 -> <<Entry("INITRD.BIN", FILE, 8, 513), Deleted,
                                   Entry("EMPTY", FILE, 0, 0), End, Entry("OLD", FILE, 4, 9)>>
                    [] c = 11 -> Dots(11, 3) \o <<End>>
                    [] OTHER -> <<Entry("", 0, 0, 0)>>]]
Good == [bpb |-> Sectors(14), fat |-> GoodFat, fat2 |-> GoodFat, clusters |-> GoodClusters,
         root |-> <<Entry("ZK", DIR, 6, 0), Deleted, Entry("EFI", DIR, 2, 0), End>>]

WithFat(v, f) == [v EXCEPT !.fat = f, !.fat2 = f]
Links == {0, 2, 5, 11, 12, 65527, 65535}
Relinked(C, X) ==
  {WithFat(Good, [GoodFat EXCEPT ![a] = x, ![b] = y]) : a \in C, b \in C, x \in X, y \in X}

\* Other contents for the fields of an entry that the walk follows, and for the rest.
Followed(e) ==
  {[e EXCEPT !.first = x] : x \in {0, 1, 2, 4, 6, 8, 11, 12}}
    \cup {[e EXCEPT !.size = x] : x \in {0, 512, 513, 1025}} \cup {[e EXCEPT !.attr = DIR + FILE - @]}
Marked(e) ==
  {End, Deleted, [e EXCEPT !.attr = 15], [e EXCEPT !.extended = TRUE], [e EXCEPT !.valid_name = FALSE]}
    \cup {[e EXCEPT !.name = n] : n \in {".", "..", "ZK", "KERNEL.ELF", "OTHER"}}

Edited(v, Other(_)) ==
  LET used(s) == {i \in DOMAIN s : s[i].kind = "used"} IN
  UNION {{[v EXCEPT !.root[i] = o] : o \in Other(v.root[i])} : i \in used(v.root)}
    \cup UNION {UNION {{[v EXCEPT !.clusters[c].entries[i] = o] :
                         o \in Other(v.clusters[c].entries[i])} :
                       i \in used(v.clusters[c].entries)} : c \in {2, 3, 6, 10}}

\* Another boot sector: each field off, and the smallest and largest FATs.
Resized ==
  LET b == Sectors(14) IN
  {[b EXCEPT !.signature = FALSE], [b EXCEPT !.sector = 1024], [b EXCEPT !.spc = 3],
   [b EXCEPT !.spc = 2], [b EXCEPT !.reserved = 0], [b EXCEPT !.reserved = 7], [b EXCEPT !.reserved = 14],
   [b EXCEPT !.nfats = 1], [b EXCEPT !.roots = 17], [b EXCEPT !.roots = 0], [b EXCEPT !.total16 = 15],
   [b EXCEPT !.total32 = 14], [b EXCEPT !.total16 = 0, !.total32 = 14], [b EXCEPT !.hidden = 1],
   [b EXCEPT !.fat_sectors = 0], [b EXCEPT !.media = 240], [b EXCEPT !.bytes = 256]}
  \cup {Sectors(n) : n \in {13, 15, 258, 259, 304, 320}}

\* A directory more, in the root or where it is too deep; a file in fragments.
Grown == [Good EXCEPT !.root = <<Entry("NEW", DIR, 11, 0)>> \o @, !.fat[11] = 65535, !.fat2[11] = 65535,
                      !.clusters[11].entries = Dots(11, 0) \o <<End>>]
Deep == [Good EXCEPT !.clusters[3].entries = <<Entry("NEW", DIR, 11, 0)>> \o @, !.fat[11] = 65535,
                     !.fat2[11] = 65535]
Fragmented == WithFat(Good, [GoodFat EXCEPT ![4] = 11, ![11] = 65535, ![5] = 0])

MCVolumes ==
  {Good, Grown, Deep, Fragmented} \cup Relinked({2, 4, 5, 6, 8, 9, 11}, Links)
    \cup UNION {Edited(v, Followed) : v \in Relinked({4, 11}, {0, 8, 65535})}
    \cup Edited(Good, Marked) \cup Edited(Grown, Followed)
    \cup {[Good EXCEPT !.bpb = b] : b \in Resized}
    \cup {[Good EXCEPT !.fat2[9] = 0], WithFat(Good, [GoodFat EXCEPT ![1] = 0])}

InitrdPath == plain(<<"ZK", "INITRD.BIN">>)
MCPaths == {InitrdPath, KERNEL_PATH, plain(<<"ZK", "EMPTY">>), plain(<<"ZK", "NONE">>),
            plain(<<"ZK", "">>), plain(<<"..">>), [InitrdPath EXCEPT !.absolute = FALSE],
            [InitrdPath EXCEPT !.parts[2].ascii = FALSE]}

-----------------------------------------------------------------------------

Run(mode, script) ==
  [mode |-> mode, image |-> "pinned", faults |-> FALSE, script |-> script, esp |-> Good,
   path |-> InitrdPath]

\* Every qualifier sees its own deviations and the true log of every artifact;
\* faults are explored with its own, volumes and paths with the bootstrap one.
MCBoots ==
  {Run(m, TrueScript(o)) : m \in Modes, o \in Modes}
  \cup UNION {{Run(m, s) : s \in Deviations(m)} : m \in Modes}
  \cup {[Run(m, TrueScript(m)) EXCEPT !.faults = TRUE, !.image = i] :
          m \in Modes, i \in {"pinned", "other"}}
  \cup {[Run("base", TrueScript("base")) EXCEPT !.esp = v] : v \in MCVolumes}
  \cup {[Run("base", TrueScript("base")) EXCEPT !.path = p] : p \in MCPaths}
=============================================================================
