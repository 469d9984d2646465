------------------------------ MODULE UserElf ------------------------------
(***************************************************************************)
(* The static-user ELF planner (src/arch/x86_64/native/user_elf.zig) and   *)
(* the file-to-page copy of user_vm.zig that consumes its segments.        *)
(*                                                                         *)
(* An image is its length, entry point and program headers; the checks of  *)
(* the ELF header (magic, class, machine, sizes, table bounds) are one     *)
(* Boolean, and which error a rejected image gets is not told apart.       *)
(* Flags are a set of letters.  A byte of the file is its offset.          *)
(***************************************************************************)
EXTENDS Integers, Sequences, FiniteSets, FiniteSetsExt, SequencesExt

CONSTANTS
  PAGE,            \* bytes in a page
  IMAGE_LO, IMAGE_HI,
  MAX_LOADS,       \* PT_LOAD headers a plan may hold
  MAX_IMAGE_PAGES, \* image pages, and pages of the image's span
  MAX_IMAGE_PTS,   \* page tables user_vm budgets for the image
  ADDR_LIMIT,      \* 2^64
  Images           \* the images given to the planner

Phdr == [type : STRING, flags : SUBSET STRING, offset : Nat, vaddr : Nat,
         filesz : Nat, memsz : Nat, align : Nat]
ElfImage == [header : BOOLEAN, len : Nat, entry : Nat, phdrs : Seq(Phdr)]

ASSUME ElfAssumption ==
  /\ PAGE \in Nat \ {0} /\ IMAGE_LO % PAGE = 0 /\ IMAGE_HI % PAGE = 0
  /\ {MAX_LOADS, MAX_IMAGE_PAGES, MAX_IMAGE_PTS} \subseteq Nat
  /\ {IMAGE_LO, IMAGE_HI, ADDR_LIMIT} \subseteq Nat /\ IMAGE_HI < ADDR_LIMIT
  /\ Images \subseteq ElfImage

checkFileRange(img, offset, filesz) ==
  /\ offset + filesz < ADDR_LIMIT
  /\ offset + filesz <= img.len

pageFloor(a) == a - (a % PAGE)
alignUpPage(a) == pageFloor(a + PAGE - 1)

isPowerOfTwo(n) == \E k \in 0..n : n = 2^k

\* appendLoad's checks of one PT_LOAD header.
loadAccepted(img, ph) ==
  /\ ph.memsz # 0 /\ ph.filesz <= ph.memsz
  /\ checkFileRange(img, ph.offset, ph.filesz)
  /\ ph.vaddr + ph.memsz < ADDR_LIMIT
  /\ ph.flags \subseteq {"R", "W", "X"}
  /\ "R" \in ph.flags /\ ~({"W", "X"} \subseteq ph.flags)
  /\ ph.align > 1 => /\ isPowerOfTwo(ph.align)
                     /\ ph.vaddr % ph.align = ph.offset % ph.align
  /\ ph.vaddr + ph.memsz + PAGE - 1 < ADDR_LIMIT
  /\ ph.vaddr >= IMAGE_LO /\ ph.vaddr + ph.memsz <= IMAGE_HI
  /\ pageFloor(ph.vaddr) >= IMAGE_LO /\ alignUpPage(ph.vaddr + ph.memsz) <= IMAGE_HI

segment(ph) ==
  [file_off |-> ph.offset, filesz |-> ph.filesz, vaddr |-> ph.vaddr, flags |-> ph.flags,
   map_start |-> pageFloor(ph.vaddr), map_end |-> alignUpPage(ph.vaddr + ph.memsz)]

pageOverlap(segs) ==
  \E a, b \in 1..Len(segs) :
    a < b /\ segs[a].map_start < segs[b].map_end /\ segs[b].map_start < segs[a].map_end

\* Mutant: pages counted, the span between segments not.
imageBudgetExceeded_noSpan(segs) ==
  MapThenSumSet(LAMBDA k : (segs[k].map_end - segs[k].map_start) \div PAGE, 1..Len(segs))
    > MAX_IMAGE_PAGES

imageBudgetExceeded(segs) ==
  LET lowest  == Min({segs[k].map_start : k \in 1..Len(segs)})
      highest == Max({segs[k].map_end : k \in 1..Len(segs)})
      pages   == MapThenSumSet(LAMBDA k : (segs[k].map_end - segs[k].map_start) \div PAGE,
                               1..Len(segs))
  IN highest - lowest > MAX_IMAGE_PAGES * PAGE \/ pages > MAX_IMAGE_PAGES

executableFileEntry(entry, segs) ==
  \E k \in 1..Len(segs) :
    /\ "X" \in segs[k].flags
    /\ segs[k].vaddr <= entry /\ entry < segs[k].vaddr + segs[k].filesz

isLoad(ph) == ph.type = "LOAD"

otherAccepted(img, ph) ==
  /\ ph.type \in {"NULL", "NOTE", "GNU_STACK"}
  /\ ph.type = "GNU_STACK" => "X" \notin ph.flags
  /\ checkFileRange(img, ph.offset, ph.filesz)

Rejected == [ok |-> FALSE, entry |-> 0, segments |-> << >>]

\* The segments appendLoad has listed once the loop is over.
segments(img) ==
  LET listed[k \in 0..Len(img.phdrs)] ==
        IF k = 0 THEN << >>
        ELSE IF isLoad(img.phdrs[k]) THEN Append(listed[k - 1], segment(img.phdrs[k]))
        ELSE listed[k - 1]
  IN listed[Len(img.phdrs)]

plan(img) ==
  LET segs == segments(img)
  IN IF /\ img.header
        /\ \A k \in 1..Len(img.phdrs) :
             IF isLoad(img.phdrs[k]) THEN loadAccepted(img, img.phdrs[k])
                                     ELSE otherAccepted(img, img.phdrs[k])
        /\ Cardinality({k \in 1..Len(img.phdrs) : img.phdrs[k].type = "GNU_STACK"}) <= 1
        /\ Len(segs) \in 1..MAX_LOADS
        /\ ~pageOverlap(segs)
        /\ ~imageBudgetExceeded(segs)
        /\ executableFileEntry(img.entry, segs)
       THEN [ok |-> TRUE, entry |-> img.entry, segments |-> segs]
       ELSE Rejected

-----------------------------------------------------------------------------
(* copyFileBytes: what a zeroed page of a segment holds afterwards. *)

Zero == -1   \* a byte that is not from the file

\* Mutant: every page copied from its start.
copyLo_page(seg, va) == va

copyLo(seg, va) == Max({seg.vaddr, va})
copyHi(seg, va) == Min({seg.vaddr + seg.filesz, va + PAGE})

copies(seg, va) == copyLo(seg, va) < copyHi(seg, va)

copyFailed(img, seg, va) ==
  LET file_off == seg.file_off + (copyLo(seg, va) - seg.vaddr)
      len      == copyHi(seg, va) - copyLo(seg, va)
  IN copies(seg, va) /\ \/ file_off + len >= ADDR_LIMIT
                        \/ file_off + len > img.len
                        \/ (copyLo(seg, va) - va) + len > PAGE

copyFileBytes(seg, va) ==
  LET page_off == copyLo(seg, va) - va
      file_off == seg.file_off + (copyLo(seg, va) - seg.vaddr)
      len      == copyHi(seg, va) - copyLo(seg, va)
  IN [b \in 0..(PAGE - 1) |->
        IF copies(seg, va) /\ b \in page_off..(page_off + len - 1)
        THEN file_off + (b - page_off) ELSE Zero]

\* The pages of a plan, as addresses.
pagesOf(seg) == {va \in seg.map_start..(seg.map_end - 1) : va % PAGE = 0}
=============================================================================
