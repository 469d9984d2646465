------------------------------- MODULE UserVm -------------------------------
(***************************************************************************)
(* Construction and teardown of one private user address space             *)
(* (src/arch/x86_64/native/user_vm.zig), over a provider of frames.        *)
(*                                                                         *)
(* A call of construct, destroy or retryRelease is a run of small steps,   *)
(* one per frame taken, per access to a frame and per iteration of the     *)
(* release loops, because every one of them can fail and what is owned at  *)
(* that point is the question.  Nothing interleaves with a call.           *)
(*                                                                         *)
(* The provider is external: live is the set of frames it has handed out.  *)
(* It may run out, answer with an unusable address, refuse to map a frame  *)
(* or to take it back; MaxFaults and MaxTroubles bound how often.          *)
(***************************************************************************)
EXTENDS UserElf

CONSTANTS
  N,                     \* entries of a page table (512)
  PHYS_TOP,              \* end of physical memory the tables may name
  STACK_LO, STACK_TOP,   \* the user stack; the page below STACK_LO is the guard
  MAX_STACK_PAGES, MAX_STACK_PTS,
  Caps,                  \* lengths the caller's journal storage may have
  Templates,             \* inputs of construct, with Images
  KernelRoot,            \* the root in CR3 while no private root is
  Offers(_),             \* addresses the provider may answer with, given live
  MaxFaults, MaxTroubles  \* faults, and faults and refused releases together

MAX_OWNED_FRAMES ==
  MAX_IMAGE_PAGES + MAX_STACK_PAGES + 3 + MAX_IMAGE_PTS + MAX_STACK_PTS

Frames == {f \in 1..(PHYS_TOP - 1) : f % PAGE = 0}

ASSUME VmAssumption ==
  /\ N \in Nat \ {0, 1} /\ PHYS_TOP \in Nat /\ Caps \subseteq Nat
  /\ MaxFaults \in Nat /\ MaxTroubles \in Nat
  /\ MAX_STACK_PAGES \in Nat /\ MAX_STACK_PTS \in Nat
  /\ STACK_LO \in Nat /\ STACK_TOP \in Nat /\ STACK_LO % PAGE = 0
  \* The second GiB: 0x40000000 to 0x80000000 with pages of 4096 and 512 entries.
  /\ PAGE * N * N <= IMAGE_LO /\ IMAGE_HI <= 2 * (PAGE * N * N)
  /\ PAGE * N * N <= STACK_LO /\ STACK_TOP <= 2 * (PAGE * N * N)
  /\ KernelRoot \in Frames
  /\ \A out \in SUBSET (Frames \cup {0}) : Offers(out) \subseteq Nat

VARIABLES
  pc,        \* where the running call is; "idle" between calls
  space,     \* the AddressSpace
  frames,    \* journal.frames
  count,     \* journal.count
  mem,       \* frame -> its N words
  work,      \* locals of construct
  rel,       \* locals of releaseAll
  live,      \* provider: frames handed out
  cr3,       \* the CPU's CR3
  result,    \* what the last call returned
  faults, refusals

vars == <<pc, space, frames, count, mem, work, rel, live, cr3, result, faults, refusals>>

journal == <<frames, count>>

Trouble == faults + refusals < MaxTroubles
Fault   == faults < MaxFaults /\ Trouble

-----------------------------------------------------------------------------
(* Words of a table and the address split. *)

NoWord   == [to |-> 0, flags |-> {}]
DataWord == [to |-> 0, flags |-> {"P", "data"}]   \* bytes that are not a table

ZeroFrame == [k \in 0..(N - 1) |-> NoWord]
DataFrame == [k \in 0..(N - 1) |-> DataWord]

ptIndex(va)   == (va \div PAGE) % N
pdIndex(va)   == (va \div (PAGE * N)) % N
pdptIndex(va) == (va \div (PAGE * N * N)) % N
pml4Index(va) == (va \div (PAGE * N * N * N)) % N

\* Mutant: the cache-control bits are compared too.
cr3Root_raw(c) == c

cr3Root(c) == c - (c % PAGE)

contains(phys) == \E k \in 1..count : frames[k] = phys

\* Mutant: only writable pages are no-execute.
leafFlags_rodata(flags) == {"P", "U"} \cup (IF "W" \in flags THEN {"W"} ELSE {})

leafFlags(flags) ==
  {"P", "U"} \cup (IF "W" \in flags THEN {"W", "NX"} ELSE IF "X" \in flags THEN {} ELSE {"NX"})

templateError(t) ==
  CASE t.root_phys = 0 -> "TemplateZero"
    [] t.root_phys # 0 /\ (t.root_phys % PAGE # 0 \/ t.root_phys >= PHYS_TOP) -> "TemplateRange"
    [] OTHER ->
        IF ~t.present \/ t.user \/ t.huge THEN "TemplateBits"
        ELSE IF t.addr = 0 THEN "TemplateZero"
        ELSE IF t.addr % PAGE # 0 \/ t.addr >= PHYS_TOP THEN "TemplateRange"
        ELSE IF t.addr = t.root_phys THEN "TemplateRoot" ELSE "ok"

EmptySpace ==
  [state |-> "empty", root_phys |-> 0, entry |-> 0, stack_top |-> 0,
   image_pages |-> 0, stack_pages |-> 0, table_pages |-> 0, image_pts |-> 0, stack_pts |-> 0,
   failed_release_frame |-> 0, owns_zero |-> FALSE]

NoWork ==
  [plan |-> Rejected, len |-> 0, root |-> 0, borrowed |-> 0, seg |-> 0, kind |-> "image",
   va |-> 0, pml4 |-> 0, pdpt |-> 0, pd |-> 0, pt |-> 0, frame |-> 0]

NoRel == [i |-> 0, r |-> 0, w |-> 0, fail |-> << >>, cause |-> "none", err |-> "ok"]

-----------------------------------------------------------------------------
(* Entering construct, with the caller's plan or without one. *)

Return(error) ==
  /\ result' = error
  /\ UNCHANGED <<pc, space, journal, mem, work, rel, live, cr3, faults, refusals>>

constructPlan(img, p, t) ==
  IF space.state # "empty" \/ count # 0 \/ space.owns_zero THEN Return("InvalidState")
  ELSE IF templateError(t) # "ok" THEN Return(templateError(t))
  ELSE /\ pc' = "pml4"
       /\ space' = [space EXCEPT !.state = "building"]
       /\ work' = [NoWork EXCEPT !.plan = p, !.len = img.len, !.seg = 1,
                                 !.root = t.root_phys, !.borrowed = t.addr]
       /\ result' = "none"
       /\ UNCHANGED <<journal, mem, rel, live, cr3, faults, refusals>>

construct(img, t) ==
  /\ pc = "idle"
  /\ IF plan(img).ok THEN constructPlan(img, plan(img), t) ELSE Return("BadElf")

constructClaimedPlan(img, claimed, t) ==
  /\ pc = "idle"
  /\ IF ~plan(img).ok THEN Return("BadElf")
     ELSE IF plan(img) # claimed THEN Return("PlanMismatch")
     ELSE constructPlan(img, plan(img), t)

\* An error inside construct enters releaseAll with n frames journaled.
Unwind(error, n) ==
  /\ pc' = "release"
  /\ rel' = [NoRel EXCEPT !.i = n, !.cause = "construct", !.err = error]

-----------------------------------------------------------------------------
(* takeFrame. *)

Taking == {"pml4", "pdpt", "pd", "pt", "leaf"}

fullError ==
  IF count >= Len(frames) THEN "JournalFull"
  ELSE IF count >= MAX_OWNED_FRAMES THEN "BudgetExceeded" ELSE "ok"

frameError(phys) ==
  IF phys = 0 THEN "PhysicalZero"
  ELSE IF phys % PAGE # 0 THEN "FrameUnaligned"
  ELSE IF phys >= PHYS_TOP THEN "FrameOutOfDomain"
  ELSE IF contains(phys) THEN "DuplicateFrame"
  ELSE IF phys \in {work.root, work.borrowed} THEN "ReservedFrame" ELSE "ok"

\* No room, or the provider returned an error.
TakeRefused ==
  /\ pc \in Taking
  /\ \/ fullError # "ok" /\ Unwind(fullError, count) /\ UNCHANGED faults
     \/ /\ fullError = "ok" /\ Fault
        /\ faults' = faults + 1
        /\ \E error \in {"OutOfMemory", "PhysicalZero"} : Unwind(error, count)
     \/ /\ fullError = "ok" /\ \A phys \in Offers(live) : frameError(phys) # "ok"
        /\ Unwind("OutOfMemory", count) /\ UNCHANGED faults
  /\ UNCHANGED <<space, journal, mem, work, live, cr3, result, refusals>>

\* The provider returned an address takeFrame does not keep.  Zero has been
\* handed out and is remembered in owns_zero.  An unaligned, out-of-range, owned
\* or reserved answer is neither journaled nor freed: live does not count it,
\* since no sound provider makes it (UserVmPmm, DefencesNeverFire).
TakeUnusable(phys) ==
  /\ pc \in Taking /\ fullError = "ok" /\ phys \in Offers(live)
  /\ frameError(phys) # "ok"
  /\ Fault /\ faults' = faults + 1
  /\ space' = [space EXCEPT !.owns_zero = @ \/ phys = 0]
  /\ live' = IF phys = 0 THEN live \cup {0} ELSE live
  /\ Unwind(frameError(phys), count)
  /\ UNCHANGED <<journal, mem, work, cr3, result, refusals>>

Journaled(phys) ==
  /\ fullError = "ok" /\ phys \in Offers(live) /\ frameError(phys) = "ok"
  /\ frames' = [frames EXCEPT ![count + 1] = phys]
  /\ count' = count + 1
  /\ live' = live \cup {phys}

\* Mutant: journaled only once the page has been reached.
TakeUnreadable_late(phys) ==
  /\ pc \in Taking /\ fullError = "ok" /\ phys \in Offers(live) /\ frameError(phys) = "ok"
  /\ live' = live \cup {phys} /\ Fault /\ faults' = faults + 1
  /\ Unwind("PageAccess", count)
  /\ UNCHANGED <<space, journal, mem, work, cr3, result, refusals>>

\* Journaled, but pageBytes fails: the frame is owned and unused.
TakeUnreadable(phys) ==
  /\ pc \in Taking /\ Journaled(phys)
  /\ Fault /\ faults' = faults + 1
  /\ Unwind("PageAccess", count + 1)
  /\ UNCHANGED <<space, mem, work, cr3, result, refusals>>

Taken(phys) ==
  /\ Journaled(phys)
  /\ mem' = [mem EXCEPT ![phys] = ZeroFrame]
  /\ UNCHANGED <<rel, cr3, result, faults, refusals>>

TakePml4(phys) ==
  /\ pc = "pml4" /\ Taken(phys)
  /\ pc' = "pdpt"
  /\ space' = [space EXCEPT !.table_pages = @ + 1, !.root_phys = phys]
  /\ work' = [work EXCEPT !.pml4 = phys]

TakePdpt(phys) ==
  /\ pc = "pdpt" /\ Taken(phys)
  /\ pc' = "linkPdpt"
  /\ space' = [space EXCEPT !.table_pages = @ + 1]
  /\ work' = [work EXCEPT !.pdpt = phys]

TakePd(phys) ==
  /\ pc = "pd" /\ Taken(phys)
  /\ pc' = "linkPd"
  /\ space' = [space EXCEPT !.table_pages = @ + 1]
  /\ work' = [work EXCEPT !.pd = phys]

TakePt(phys) ==
  /\ pc = "pt" /\ Taken(phys)
  /\ pc' = "linkPt"
  /\ space' = IF work.kind = "image"
                THEN [space EXCEPT !.table_pages = @ + 1, !.image_pts = @ + 1]
                ELSE [space EXCEPT !.table_pages = @ + 1, !.stack_pts = @ + 1]
  /\ work' = [work EXCEPT !.pt = phys]

TakeLeaf(phys) ==
  /\ pc = "leaf" /\ Taken(phys)
  /\ IF work.kind = "image"
       THEN pc' = "copy" /\ space' = [space EXCEPT !.image_pages = @ + 1]
       ELSE pc' = "linkLeaf" /\ space' = [space EXCEPT !.stack_pages = @ + 1]
  /\ work' = [work EXCEPT !.frame = phys]

-----------------------------------------------------------------------------
(* inner: linking the tables, the segments, the stack. *)

Table == {"P", "W", "U"}

Store(table, k, to, flags) ==
  mem' = [mem EXCEPT ![table][k] = [to |-> to, flags |-> flags]]

AtSegment == work.seg <= Len(work.plan.segments)
Segment   == work.plan.segments[work.seg]

pageEnd   == IF work.kind = "stack" THEN STACK_TOP ELSE Segment.map_end
pageFlags == IF work.kind = "stack" THEN {"R", "W"} ELSE Segment.flags

LinkPdpt ==
  /\ pc = "linkPdpt"
  /\ Store(work.pml4, 0, work.pdpt, Table)
  /\ pc' = "borrow"
  /\ UNCHANGED <<space, journal, work, rel, live, cr3, result, faults, refusals>>

\* writeBorrowedPdpt0: the supervisor entry, present and without the user bit.
Borrow ==
  /\ pc = "borrow"
  /\ Store(work.pdpt, 0, work.borrowed, {"P", "W"})
  /\ IF work.borrowed \in {work.pdpt, work.pml4}
       THEN Unwind("ReservedFrame", count)
       ELSE pc' = "pd" /\ UNCHANGED rel
  /\ UNCHANGED <<space, journal, work, live, cr3, result, faults, refusals>>

LinkPd ==
  /\ pc = "linkPd"
  /\ Store(work.pdpt, 1, work.pd, Table)
  /\ pc' = "segment"
  /\ UNCHANGED <<space, journal, work, rel, live, cr3, result, faults, refusals>>

\* The next segment, or the stack after the last one.
NextSegment ==
  /\ pc = "segment"
  /\ IF AtSegment /\ {"W", "X"} \subseteq Segment.flags
       THEN Unwind("WriteExecute", count) /\ UNCHANGED work
       ELSE /\ pc' = "page"
            /\ work' = IF AtSegment THEN [work EXCEPT !.va = Segment.map_start]
                                    ELSE [work EXCEPT !.kind = "stack", !.va = STACK_LO]
            /\ UNCHANGED rel
  /\ UNCHANGED <<space, journal, mem, live, cr3, result, faults, refusals>>

ptBudgetLeft ==
  IF work.kind = "image" THEN space.image_pts < MAX_IMAGE_PTS ELSE space.stack_pts < MAX_STACK_PTS

\* ensurePt for the page at va: the table the directory names, or a new one.
EnsurePt ==
  /\ pc = "page" /\ work.va < pageEnd
  /\ LET entry == mem[work.pd][pdIndex(work.va)] IN
     IF pml4Index(work.va) # 0 \/ pdptIndex(work.va) # 1
       THEN Unwind("OutsideWindow", count) /\ UNCHANGED work
     ELSE IF "P" \in entry.flags
       THEN IF contains(entry.to)
              THEN pc' = "slot" /\ work' = [work EXCEPT !.pt = entry.to] /\ UNCHANGED rel
              ELSE Unwind("ReservedFrame", count) /\ UNCHANGED work
     ELSE IF ptBudgetLeft THEN pc' = "pt" /\ UNCHANGED <<work, rel>>
       ELSE Unwind("BudgetExceeded", count) /\ UNCHANGED work
  /\ UNCHANGED <<space, journal, mem, live, cr3, result, faults, refusals>>

LinkPt ==
  /\ pc = "linkPt"
  /\ Store(work.pd, pdIndex(work.va), work.pt, Table)
  /\ pc' = "slot"
  /\ UNCHANGED <<space, journal, work, rel, live, cr3, result, faults, refusals>>

leafBudgetLeft ==
  IF work.kind = "image" THEN space.image_pages < MAX_IMAGE_PAGES
                         ELSE space.stack_pages < MAX_STACK_PAGES

CheckSlot ==
  /\ pc = "slot"
  /\ IF "P" \in mem[work.pt][ptIndex(work.va)].flags THEN Unwind("MappingConflict", count)
     ELSE IF leafBudgetLeft THEN pc' = "leaf" /\ UNCHANGED rel
     ELSE Unwind("BudgetExceeded", count)
  /\ UNCHANGED <<space, journal, mem, work, live, cr3, result, faults, refusals>>

CopyFile ==
  /\ pc = "copy"
  /\ IF copyFailed([len |-> work.len], Segment, work.va)
       THEN Unwind("CopyFailed", count) /\ UNCHANGED mem
       ELSE /\ pc' = "linkLeaf" /\ UNCHANGED rel
            /\ mem' = IF copies(Segment, work.va) THEN [mem EXCEPT ![work.frame] = DataFrame] ELSE mem
  /\ UNCHANGED <<space, journal, work, live, cr3, result, faults, refusals>>

LinkLeaf ==
  /\ pc = "linkLeaf"
  /\ Store(work.pt, ptIndex(work.va), work.frame, leafFlags(pageFlags))
  /\ pc' = "page"
  /\ work' = [work EXCEPT !.va = @ + PAGE]
  /\ UNCHANGED <<space, journal, rel, live, cr3, result, faults, refusals>>

\* Past the last page: on to the next segment, or the space is ready.  work then
\* stays as it is, the record of what was built.
PagesDone ==
  /\ pc = "page" /\ work.va >= pageEnd
  /\ IF work.kind = "image"
       THEN pc' = "segment" /\ work' = [work EXCEPT !.seg = @ + 1] /\ UNCHANGED <<space, result>>
       ELSE /\ pc' = "idle" /\ UNCHANGED work /\ result' = "ok"
            /\ space' = [space EXCEPT !.entry = work.plan.entry, !.stack_top = STACK_TOP,
                                      !.state = "ready"]
  /\ UNCHANGED <<journal, mem, rel, live, cr3, faults, refusals>>

\* pageBytes fails inside readEntry, writeRaw or copyFileBytes.
AccessFault ==
  /\ \/ pc \in {"linkPdpt", "borrow", "linkPd", "linkPt", "slot", "linkLeaf"}
     \/ pc = "page" /\ work.va < pageEnd
     \/ pc = "copy" /\ copies(Segment, work.va)
  /\ Fault /\ faults' = faults + 1
  /\ Unwind(IF pc = "copy" THEN "CopyFailed" ELSE "PageAccess", count)
  /\ UNCHANGED <<space, journal, mem, work, live, cr3, result, refusals>>

-----------------------------------------------------------------------------
(* releaseAll: free every journaled frame, newest first, and mark it; then   *)
(* compact the journal; then physical zero.                                  *)

\* Mutant: the first refusal is not remembered.
FirstFailure_lost(phys) == rel.fail

FirstFailure(phys) == IF rel.fail = << >> THEN <<phys>> ELSE rel.fail

\* scrub, whose failure is ignored, leaves the frame zeroed or as it was.
Scrubbed(phys) ==
  \/ mem' = [mem EXCEPT ![phys] = ZeroFrame] /\ UNCHANGED faults
  \/ Fault /\ faults' = faults + 1 /\ UNCHANGED mem

ReleaseFrame ==
  /\ pc = "release" /\ rel.i > 0
  /\ LET phys == frames[rel.i] IN
     /\ Scrubbed(phys)
     /\ frames' = [frames EXCEPT ![rel.i] = 0]
     /\ live' = live \ {phys}
  /\ rel' = [rel EXCEPT !.i = @ - 1]
  /\ UNCHANGED <<pc, space, count, work, cr3, result, refusals>>

ReleaseRefused ==
  /\ pc = "release" /\ rel.i > 0
  /\ Trouble /\ refusals' = refusals + 1
  /\ Scrubbed(frames[rel.i])
  /\ rel' = [rel EXCEPT !.i = @ - 1, !.fail = FirstFailure(frames[rel.i])]
  /\ UNCHANGED <<pc, space, journal, work, live, cr3, result>>

StartCompaction ==
  /\ pc = "release" /\ rel.i = 0
  /\ pc' = "compact"
  /\ rel' = [rel EXCEPT !.r = 1, !.w = 1]
  /\ UNCHANGED <<space, journal, mem, work, live, cr3, result, faults, refusals>>

\* Mutant: the read index stops at a released entry.
Compact_stuck ==
  /\ pc = "compact" /\ rel.r <= count /\ frames[rel.r] # 0
  /\ frames' = [frames EXCEPT ![rel.w] = frames[rel.r]]
  /\ rel' = [rel EXCEPT !.r = @ + 1, !.w = @ + 1]
  /\ UNCHANGED <<pc, space, count, mem, work, live, cr3, result, faults, refusals>>

Compact ==
  /\ pc = "compact" /\ rel.r <= count
  /\ IF frames[rel.r] # 0
       THEN /\ frames' = [frames EXCEPT ![rel.w] = frames[rel.r]]
            /\ rel' = [rel EXCEPT !.r = @ + 1, !.w = @ + 1]
       ELSE UNCHANGED frames /\ rel' = [rel EXCEPT !.r = @ + 1]
  /\ UNCHANGED <<pc, space, count, mem, work, live, cr3, result, faults, refusals>>

CompactDone ==
  /\ pc = "compact" /\ rel.r > count
  /\ count' = rel.w - 1
  /\ pc' = "zero"
  /\ UNCHANGED <<space, frames, mem, work, rel, live, cr3, result, faults, refusals>>

\* What the caller of releaseAll does with its outcome.
Finish(fail, owns_zero) ==
  /\ pc' = "idle" /\ rel' = NoRel /\ work' = NoWork
  /\ IF fail # << >>
       THEN /\ space' = [space EXCEPT !.state = "destroyed", !.failed_release_frame = fail[1],
                                      !.owns_zero = owns_zero]
            /\ result' = "ReleaseFailed"
       ELSE /\ space' = [EmptySpace EXCEPT
                           !.state = IF rel.cause = "construct" THEN "empty" ELSE "destroyed"]
            /\ result' = rel.err
  /\ UNCHANGED <<journal, mem, cr3, faults>>

ReleaseZero ==
  /\ pc = "zero"
  /\ live' = IF space.owns_zero THEN live \ {0} ELSE live
  /\ Finish(rel.fail, FALSE)
  /\ UNCHANGED refusals

ZeroRefused ==
  /\ pc = "zero" /\ space.owns_zero
  /\ Trouble /\ refusals' = refusals + 1
  /\ Finish(FirstFailure(0), TRUE)
  /\ UNCHANGED live

-----------------------------------------------------------------------------
(* destroy, retryRelease, reset, and the caller's use of CR3. *)

StartRelease(cause) ==
  /\ pc' = "release"
  /\ rel' = [NoRel EXCEPT !.i = count, !.cause = cause]
  /\ result' = "none"
  /\ UNCHANGED <<space, journal, mem, work, live, cr3, faults, refusals>>

\* The caller passes the CR3 it reads (vm_probe.zig).
destroy ==
  /\ pc = "idle"
  /\ CASE space.state = "empty" -> Return("InvalidState")
       [] space.state = "destroyed" -> Return("DuplicateDestroy")
       [] OTHER -> IF space.root_phys # 0 /\ cr3Root(cr3) = space.root_phys
                     THEN Return("ActiveRoot") ELSE StartRelease("destroy")

retryRelease ==
  /\ pc = "idle"
  /\ IF space.state # "destroyed" THEN Return("InvalidState")
     ELSE IF count = 0 /\ ~space.owns_zero THEN Return("ok")
     ELSE StartRelease("retry")

reset ==
  /\ pc = "idle"
  /\ IF space.state # "destroyed" \/ count # 0 \/ space.owns_zero THEN Return("InvalidState")
     ELSE /\ space' = EmptySpace /\ result' = "ok"
          /\ UNCHANGED <<pc, journal, mem, work, rel, live, cr3, faults, refusals>>

\* The root goes into CR3 with any cache-control bits below the address field.
Activate(bits) ==
  /\ pc = "idle" /\ space.state = "ready"
  /\ cr3' = space.root_phys + bits
  /\ UNCHANGED <<pc, space, journal, mem, work, rel, live, result, faults, refusals>>

Restore ==
  /\ pc = "idle"
  /\ cr3' = KernelRoot
  /\ UNCHANGED <<pc, space, journal, mem, work, rel, live, result, faults, refusals>>

-----------------------------------------------------------------------------
Init ==
  /\ pc = "idle" /\ space = EmptySpace
  /\ frames \in {[k \in 1..cap |-> 0] : cap \in Caps} /\ count = 0
  /\ mem = [f \in Frames |-> DataFrame]
  /\ work = NoWork /\ rel = NoRel /\ live = {} /\ cr3 = KernelRoot
  /\ result = "none" /\ faults = 0 /\ refusals = 0

Call ==
  \/ \E img \in Images, t \in Templates :
       construct(img, t) \/ \E other \in Images : constructClaimedPlan(img, plan(other), t)
  \/ destroy
  \/ retryRelease
  \/ reset
  \/ \E bits \in 0..(PAGE - 1) : Activate(bits)
  \/ Restore

Take ==
  \/ TakeRefused
  \/ \E phys \in Offers(live) :
       \/ TakeUnusable(phys) \/ TakeUnreadable(phys)
       \/ TakePml4(phys) \/ TakePdpt(phys) \/ TakePd(phys) \/ TakePt(phys) \/ TakeLeaf(phys)

Map ==
  \/ LinkPdpt \/ Borrow \/ LinkPd \/ NextSegment \/ EnsurePt \/ LinkPt
  \/ CheckSlot \/ CopyFile \/ LinkLeaf \/ PagesDone \/ AccessFault

Release ==
  \/ ReleaseFrame \/ ReleaseRefused \/ StartCompaction \/ Compact \/ CompactDone
  \/ ReleaseZero \/ ZeroRefused

Running == Take \/ Map \/ Release

Next == Call \/ Running

\* A call runs on: the caller's thread is the only one.
Spec == Init /\ [][Next]_vars /\ WF_vars(Running)

-----------------------------------------------------------------------------
(* What construction and teardown promise. *)

\* The frames the journal still answers for; compaction moves them in place.
OwnedFrames ==
  (IF pc = "compact" THEN {frames[k] : k \in (1..(rel.w - 1)) \cup (rel.r..count)}
                     ELSE {frames[k] : k \in 1..count}) \ {0}

\* At every point of every call, the frames the provider counts as handed out
\* are the ones the journal and owns_zero account for, each listed once and,
\* between calls, without release marks: no failure path, refused release or
\* compaction step loses a frame, invents one or frees one twice.
Conserved ==
  /\ live = OwnedFrames \cup (IF space.owns_zero THEN {0} ELSE {})
  /\ pc # "compact" => \A j, k \in 1..count : frames[j] = frames[k] /\ frames[j] # 0 => j = k
  /\ pc = "idle" => \A k \in 1..count : frames[k] # 0

Follow(entry, k) == IF "P" \in entry.flags THEN mem[entry.to][k] ELSE NoWord

\* The hardware walk of a user address.
Leaf(va) == Follow(Follow(Follow(mem[space.root_phys][pml4Index(va)],
                                 pdptIndex(va)), pdIndex(va)), ptIndex(va))

UserWindow == {va \in (PAGE * N * N)..(2 * PAGE * N * N - 1) : va % PAGE = 0}
StackPages == {va \in STACK_LO..(STACK_TOP - 1) : va % PAGE = 0}
PlanPages  == UNION {pagesOf(work.plan.segments[k]) : k \in 1..Len(work.plan.segments)}

\* A ready space maps exactly the plan and the stack, whatever the recycled
\* frames held before: writable pages never executable, the rest of the user
\* window (the guard page with it) absent, bss and stack zero, one frame per
\* page, none of them a table, and the supervisor half without the user bit.
ReadyMapsPlan ==
  pc = "idle" /\ space.state = "ready" =>
    /\ \A k \in 1..Len(work.plan.segments) : \A va \in pagesOf(work.plan.segments[k]) :
         LET seg == work.plan.segments[k] IN
         /\ {"P", "U"} \subseteq Leaf(va).flags
         /\ "W" \in Leaf(va).flags <=> "W" \in seg.flags
         /\ "NX" \in Leaf(va).flags <=> "X" \notin seg.flags
         /\ mem[Leaf(va).to] = IF copies(seg, va) THEN DataFrame ELSE ZeroFrame
    /\ \A va \in StackPages : /\ Leaf(va).flags = {"P", "U", "W", "NX"}
                              /\ mem[Leaf(va).to] = ZeroFrame
    /\ \A va \in UserWindow \ (PlanPages \cup StackPages) : Leaf(va) = NoWord
    /\ LET mapped == PlanPages \cup StackPages
           leaves == {Leaf(va).to : va \in mapped} IN
       /\ Cardinality(leaves) = Cardinality(mapped) /\ leaves \subseteq live
       /\ Cardinality(leaves) = space.image_pages + space.stack_pages
       /\ Cardinality(live \ leaves) = space.table_pages
    /\ Follow(mem[space.root_phys][0], 0) = [to |-> work.borrowed, flags |-> {"P", "W"}]

\* Between calls, frames are out only for a ready space or one that reported
\* ReleaseFailed; then failed_release_frame and owns_zero name one of them.
FailureNamed ==
  pc = "idle" /\ live # {} /\ space.state # "ready" =>
    /\ space.state = "destroyed"
    /\ \/ contains(space.failed_release_frame)
       \/ space.failed_release_frame = 0 /\ space.owns_zero

\* While the CPU runs on the private root, the space stays ready: destroy frees
\* no table under it, whatever cache bits CR3 carries.
ActiveRootKept ==
  pageFloor(cr3) # KernelRoot =>
    /\ pc = "idle" /\ space.state = "ready" /\ pageFloor(cr3) = space.root_phys

\* Every call returns: construction, unwinding and compaction terminate.
CallsReturn == pc # "idle" ~> pc = "idle"
=============================================================================
