-------------------------------- MODULE Pmm --------------------------------
(***************************************************************************)
(* The native physical page allocator (src/arch/x86_64/native/pmm.zig).    *)
(*                                                                         *)
(* init walks the boot map range by range and page by page; that walk is   *)
(* modelled one iteration per step, its local variables being the record   *)
(* loop, because what the walk establishes is what every later operation   *)
(* relies on.  allocPage and freePage are one step each.  held is a        *)
(* history variable: the pages handed out and not yet taken back.          *)
(***************************************************************************)
EXTENDS BootInfo, FiniteSets

CONSTANT MaxInits   \* bound on the number of calls of init

ASSUME MaxInitsAssumption == MaxInits \in Nat

VARIABLES
  pc,              \* "idle", or where init is: "ranges" or "push"
  inits,           \* calls of init so far (bounded by MaxInits)
  loop,            \* init's locals
  res,             \* outcome of the last init
  initialized,
  cached,          \* the ranges of the published boot map; << >> for null
  free_stack,      \* backing[0..free_count)
  total_pages, used_pages, unmanaged_pages, excluded_pages,
  held             \* history: pages out with callers

pmmVars == <<pc, inits, loop, res, initialized, cached, free_stack, total_pages,
             used_pages, unmanaged_pages, excluded_pages, held>>

stats == <<total_pages, used_pages, unmanaged_pages, excluded_pages>>

BACKING_LIMIT == MANAGED_TOP \div PAGE

rangeUsable(r) == r.kind = "conventional" /\ r.page_count > 0

inManagedDomain(p) == p % PAGE = 0 /\ p < MANAGED_TOP

inRange(p, r) == r.phys_start <= p /\ p < endAddr(r)

\* The first range of the map that contains p decides.
isAllocatableIn(rs, p) ==
  /\ inManagedDomain(p)
  /\ \E i \in 1..Len(rs) :
       /\ inRange(p, rs[i])
       /\ \A j \in 1..(i - 1) : ~inRange(p, rs[j])
       /\ rangeUsable(rs[i])

isAllocatable(p) == isAllocatableIn(cached, p)

OnStack(stack, p) == \E k \in 1..Len(stack) : stack[k] = p

-----------------------------------------------------------------------------
(* init: reset, validate, enumerate, publish. *)

\* init's locals: range i of rs, pages of it already pushed, backing[0..free_count)
\* and the three counters.
Walk(rs, i, page, backing, total, unmanaged, excluded) ==
  [ranges |-> rs, i |-> i, page |-> page, backing |-> backing,
   total |-> total, unmanaged |-> unmanaged, excluded |-> excluded]

Loop0(rs) == Walk(rs, 1, 0, << >>, 0, 0, 0)

NoLoop == Loop0(<< >>)

\* Mutants: the end of the range, the ceiling or the last page is forgotten.
managedPages_noEnd(r) == (MANAGED_TOP - r.phys_start) \div PAGE
managedPages_noClip(r) == r.page_count
managedPages_short(r) ==
  IF endAddr(r) < MANAGED_TOP THEN r.page_count - 1
  ELSE (MANAGED_TOP - r.phys_start) \div PAGE

\* Pages of a usable range that lie below the ceiling (first_end clips).
managedPages(r) ==
  IF endAddr(r) < MANAGED_TOP THEN r.page_count
  ELSE (MANAGED_TOP - r.phys_start) \div PAGE

reset ==
  /\ free_stack' = << >>
  /\ total_pages' = 0 /\ used_pages' = 0
  /\ unmanaged_pages' = 0 /\ excluded_pages' = 0
  /\ initialized' = FALSE
  /\ cached' = << >>
  /\ held' = {}

\* init(info) up to the loop: nothing of the previous map survives the reset.
InitBegin(info) ==
  /\ pc = "idle" /\ inits < MaxInits
  /\ inits' = inits + 1
  /\ reset
  /\ IF validate(info)
       THEN pc' = "ranges" /\ loop' = Loop0(info.ranges) /\ res' = "running"
       ELSE pc' = "idle" /\ loop' = NoLoop /\ res' = "BadBootInfo"

InitFail(error) ==
  /\ pc' = "idle" /\ loop' = NoLoop /\ res' = error
  /\ UNCHANGED <<inits, initialized, cached, free_stack, stats, held>>

\* The checks of one range, in order; "ok" if it passes them all.
rangeError(r) ==
  CASE r.page_count = 0 -> "BadBootInfo"
    [] r.page_count # 0 /\ ~rangeUsable(r) -> "ok"
    [] r.page_count # 0 /\ rangeUsable(r) /\ r.phys_start % PAGE # 0 -> "MisalignedRange"
    [] OTHER -> IF endAddr(r) >= ADDR_LIMIT THEN "RangeOverflow" ELSE "ok"

InitRange ==
  /\ pc = "ranges" /\ loop.i <= Len(loop.ranges)
  /\ LET r == loop.ranges[loop.i] IN
     IF rangeError(r) # "ok" THEN InitFail(rangeError(r))
     ELSE
       /\ \/ /\ ~rangeUsable(r)
             /\ pc' = "ranges"
             /\ loop' = Walk(loop.ranges, loop.i + 1, 0, loop.backing, loop.total,
                          loop.unmanaged, loop.excluded + r.page_count)
          \/ /\ rangeUsable(r) /\ r.phys_start >= MANAGED_TOP
             /\ pc' = "ranges"
             /\ loop' = Walk(loop.ranges, loop.i + 1, 0, loop.backing, loop.total,
                          loop.unmanaged + r.page_count, loop.excluded)
          \/ /\ rangeUsable(r) /\ r.phys_start < MANAGED_TOP
             /\ pc' = "push"
             /\ loop' = Walk(loop.ranges, loop.i, 0, loop.backing, loop.total,
                          loop.unmanaged + (r.page_count - managedPages(r)), loop.excluded)
       /\ UNCHANGED <<inits, res, initialized, cached, free_stack, stats, held>>

\* One page of the current range goes on the stack; after the last one the
\* range is added to the total.
InitPush ==
  /\ pc = "push"
  /\ LET r == loop.ranges[loop.i] IN
     IF Len(loop.backing) >= BACKING_LIMIT THEN InitFail("TooManyPages")
     ELSE
       /\ LET stack == Append(loop.backing, r.phys_start + loop.page * PAGE) IN
          IF loop.page + 1 < managedPages(r)
            THEN /\ pc' = "push"
                 /\ loop' = Walk(loop.ranges, loop.i, loop.page + 1, stack, loop.total,
                                 loop.unmanaged, loop.excluded)
            ELSE /\ pc' = "ranges"
                 /\ loop' = Walk(loop.ranges, loop.i + 1, 0, stack,
                                 loop.total + managedPages(r), loop.unmanaged, loop.excluded)
       /\ UNCHANGED <<inits, res, initialized, cached, free_stack, stats, held>>

InitPublish ==
  /\ pc = "ranges" /\ loop.i > Len(loop.ranges)
  /\ free_stack' = loop.backing
  /\ total_pages' = loop.total /\ used_pages' = 0
  /\ unmanaged_pages' = loop.unmanaged /\ excluded_pages' = loop.excluded
  /\ cached' = loop.ranges
  /\ initialized' = TRUE
  /\ res' = "ok" /\ pc' = "idle" /\ loop' = NoLoop
  /\ UNCHANGED <<inits, held>>

-----------------------------------------------------------------------------
(* allocPage and freePage. *)

\* The page allocPage would return, when it returns one.
Top == free_stack[Len(free_stack)]

canAlloc == initialized /\ free_stack # << >>

allocPage ==
  /\ pc = "idle" /\ canAlloc
  /\ free_stack' = SubSeq(free_stack, 1, Len(free_stack) - 1)
  /\ used_pages' = used_pages + 1
  /\ held' = held \cup {Top}
  /\ UNCHANGED <<pc, inits, loop, res, initialized, cached, total_pages,
                 unmanaged_pages, excluded_pages>>

\* Mutants: no double-free scan, no eligibility test.
freeAccepts_noScan(p) == initialized /\ isAllocatable(p) /\ Len(free_stack) < BACKING_LIMIT
freeAccepts_any(p) == initialized /\ ~OnStack(free_stack, p) /\ Len(free_stack) < BACKING_LIMIT

freeAccepts(p) ==
  /\ initialized
  /\ isAllocatable(p)
  /\ ~OnStack(free_stack, p)
  /\ Len(free_stack) < BACKING_LIMIT

\* A refused free changes nothing, so only the accepted one is a step.
freePage(p) ==
  /\ pc = "idle" /\ freeAccepts(p)
  /\ free_stack' = Append(free_stack, p)
  /\ used_pages' = IF used_pages > 0 THEN used_pages - 1 ELSE 0
  /\ held' = held \ {p}
  /\ UNCHANGED <<pc, inits, loop, res, initialized, cached, total_pages,
                 unmanaged_pages, excluded_pages>>

PmmInit ==
  /\ pc = "idle" /\ inits = 0 /\ loop = NoLoop /\ res = "none"
  /\ initialized = FALSE /\ cached = << >> /\ free_stack = << >>
  /\ total_pages = 0 /\ used_pages = 0
  /\ unmanaged_pages = 0 /\ excluded_pages = 0
  /\ held = {}

InitNext ==
  \/ \E info \in BootInfos : InitBegin(info)
  \/ InitRange
  \/ InitPush
  \/ InitPublish

\* Callers free any address at all, their own pages or not.
Next ==
  \/ InitNext
  \/ allocPage
  \/ \E p \in 0..MANAGED_TOP : freePage(p)

Spec == PmmInit /\ [][Next]_pmmVars

-----------------------------------------------------------------------------
(* What the allocator promises. *)

Pages(stack) == {stack[k] : k \in 1..Len(stack)}

LoopType == [ranges : Seq(PhysRange), i : Nat \ {0}, page : Nat, backing : Seq(Nat),
             total : Nat, unmanaged : Nat, excluded : Nat]

PmmTypeOK ==
  /\ pc \in {"idle", "ranges", "push"}
  /\ inits \in Nat
  /\ loop \in LoopType
  /\ res \in {"none", "running", "ok", "BadBootInfo", "MisalignedRange",
              "RangeOverflow", "TooManyPages"}
  /\ initialized \in BOOLEAN
  /\ cached \in Seq(PhysRange)
  /\ free_stack \in Seq(Nat)
  /\ total_pages \in Nat /\ used_pages \in Nat
  /\ unmanaged_pages \in Nat /\ excluded_pages \in Nat
  /\ held \subseteq Nat

\* A page is on the free stack at most once and never while a caller holds it,
\* however allocations, frees of arbitrary addresses and re-initialisations
\* interleave (pmm.zig allocPage, freePage).
NoAlias ==
  /\ \A j, k \in 1..Len(free_stack) : free_stack[j] = free_stack[k] => j = k
  /\ Pages(free_stack) \cap held = {}

\* No byte of a free or handed-out page lies in a range the map reserves
\* (kernel, stack, initramfs, boot info, firmware) or above the ceiling.
OwnedNeverHandedOut ==
  \A p \in Pages(free_stack) \cup held :
    /\ p + PAGE <= MANAGED_TOP
    /\ \A i \in 1..Len(cached) :
         ~rangeUsable(cached[i]) =>
           (p + PAGE <= cached[i].phys_start \/ endAddr(cached[i]) <= p)

\* Every conventional page below the ceiling is either free or held: init loses
\* none and no sequence of calls leaks one.
NothingLost ==
  {p \in 0..MANAGED_TOP : isAllocatable(p)} = Pages(free_stack) \cup held

\* The identity vm_probe and main.zig test after each phase, with used_pages the
\* number of pages really out.
Accounting ==
  /\ total_pages = Len(free_stack) + used_pages
  /\ IsFiniteSet(held) /\ used_pages = Cardinality(held)

\* A map that passes validation never overruns backing: its conventional pages
\* are disjoint and clipped, so error.TooManyPages is never returned.
NeverTooManyPages == res # "TooManyPages"

\* A failed init publishes nothing, even when an earlier init had succeeded.
FailClosed ==
  res # "ok" => free_stack = << >> /\ ~initialized /\ total_pages = 0

-----------------------------------------------------------------------------
(* The inductive invariant behind these properties. *)

Injective(s) == \A j, k \in 1..Len(s) : s[j] = s[k] => j = k

PagesOf(r, n) == {r.phys_start + k * PAGE : k \in 0..(n - 1)}

\* A usable range with pages below the ceiling.
Managed(r) == rangeUsable(r) /\ r.phys_start < MANAGED_TOP

\* The pages of the ranges before range i, and those with the first n of range i.
EarlierPages(rs, i) ==
  UNION {PagesOf(rs[j], managedPages(rs[j])) :
           j \in {x \in 1..Len(rs) : x < i /\ Managed(rs[x])}}

Walked(rs, i, n) == EarlierPages(rs, i) \cup PagesOf(rs[i], n)

AlignedBefore(rs, i) ==
  \A j \in 1..Len(rs) : j < i /\ rangeUsable(rs[j]) => rs[j].phys_start % PAGE = 0

\* While init runs nothing is published and backing holds the walked pages.
LoopInv ==
  /\ pc # "idle" =>
       /\ ~rangesOverlap(loop.ranges)
       /\ loop.i <= Len(loop.ranges) + 1
       /\ AlignedBefore(loop.ranges, loop.i)
       /\ Injective(loop.backing)
       /\ Pages(loop.backing) = Walked(loop.ranges, loop.i, loop.page)
       /\ Len(loop.backing) = loop.total + loop.page
       /\ res = "running"
  /\ pc = "ranges" => loop.page = 0
  /\ pc = "push" =>
       /\ loop.i <= Len(loop.ranges)
       /\ AlignedBefore(loop.ranges, loop.i + 1)
       /\ Managed(loop.ranges[loop.i])
       /\ loop.page < managedPages(loop.ranges[loop.i])

\* The published map is disjoint and aligned, and its pages are the free and
\* the held ones.
PublishedInv ==
  /\ initialized <=> res = "ok"
  /\ initialized => pc = "idle"
  /\ ~initialized => /\ cached = << >> /\ free_stack = << >> /\ held = {}
                     /\ total_pages = 0 /\ used_pages = 0
  /\ ~rangesOverlap(cached)
  /\ AlignedBefore(cached, Len(cached) + 1)
  /\ res # "TooManyPages"

PmmIInv ==
  /\ PmmTypeOK
  /\ LoopInv
  /\ PublishedInv
  /\ NoAlias
  /\ NothingLost
  /\ Accounting
=============================================================================
