-------------------------- MODULE UserVmPmmProofs --------------------------
(***************************************************************************)
(* Proofs about the page allocator and the adapters over it.               *)
(*                                                                         *)
(* The first part is about the allocator alone, Pmm, for every page size,  *)
(* ceiling and set of boot maps.  The second is about any number of        *)
(* adapters with any capacity, beside a client that uses the allocator     *)
(* directly; it rests on the allocator's own inductive invariant,          *)
(* PmmIInv, which the first part shows every operation of pmm.zig to keep. *)
(***************************************************************************)
EXTENDS UserVmPmm, FiniteSetTheorems, SequenceTheorems, TLAPS

-----------------------------------------------------------------------------
(* The page allocator: arithmetic of pages. *)

\* An aligned address is a whole number of pages.
LEMMA AlignedIsMultiple ==
  ASSUME NEW x \in Nat, x % PAGE = 0
  PROVE  \E q \in Nat : x = q * PAGE
<1>1. x = PAGE * (x \div PAGE) + (x % PAGE)
  BY PageAssumption, SMT
<1>2. x \div PAGE \in Nat
  BY PageAssumption, SMT
<1>3. QED
  BY <1>1, <1>2, PageAssumption, SMT

\* A whole number of pages is an aligned address.
LEMMA MultipleIsAligned ==
  ASSUME NEW q \in Nat
  PROVE  q * PAGE \in Nat /\ (q * PAGE) % PAGE = 0 /\ (q * PAGE) \div PAGE = q
BY PageAssumption, SMT

\* Two different multiples of a page are at least a page apart.
LEMMA PageStep ==
  ASSUME NEW j \in Nat, NEW k \in Nat, j < k
  PROVE  j * PAGE + PAGE <= k * PAGE
<1>1. PICK d \in Nat : k = j + 1 + d
  BY SMT
<1>2. k * PAGE = j * PAGE + PAGE + d * PAGE
  BY <1>1, PageAssumption, SMT
<1>3. d * PAGE >= 0
  BY PageAssumption, SMT
<1>4. QED
  BY <1>2, <1>3, PageAssumption, SMT

\* endAddr of a range is a natural, no smaller than its start.
LEMMA RangeEnds ==
  ASSUME NEW r \in PhysRange
  PROVE  /\ r.phys_start \in Nat /\ r.page_count \in Nat
         /\ endAddr(r) \in Nat /\ r.phys_start <= endAddr(r)
<1>1. r.phys_start \in Nat /\ r.page_count \in Nat
  BY DEF PhysRange
<1>2. r.page_count * PAGE \in Nat
  BY <1>1, PageAssumption
<1>3. QED
  BY <1>1, <1>2 DEF endAddr

\* Clipping at the ceiling leaves at least one page, none beyond the range and
\* none beyond the ceiling.
LEMMA ManagedPagesBounds ==
  ASSUME NEW r \in PhysRange, Managed(r), r.phys_start % PAGE = 0
  PROVE  /\ managedPages(r) \in Nat \ {0}
         /\ managedPages(r) <= r.page_count
         /\ r.phys_start + managedPages(r) * PAGE <= MANAGED_TOP
         /\ r.phys_start + managedPages(r) * PAGE <= endAddr(r)
         /\ \A p \in Nat : p % PAGE = 0 /\ inRange(p, r) /\ p < MANAGED_TOP =>
              p \in PagesOf(r, managedPages(r))
<1>1. PICK s \in Nat : r.phys_start = s * PAGE
  BY AlignedIsMultiple DEF PhysRange
<1>2. PICK t \in Nat : MANAGED_TOP = t * PAGE
  BY AlignedIsMultiple, TopAssumption
<1>3. s < t
  <2>1. SUFFICES ASSUME t <= s PROVE FALSE
    OBVIOUS
  <2>2. t = s \/ t * PAGE + PAGE <= s * PAGE
    BY <2>1, PageStep
  <2>3. QED
    BY <1>1, <1>2, <2>2, PageAssumption DEF Managed, PhysRange
<1>4. r.page_count \in Nat \ {0} /\ endAddr(r) = (s + r.page_count) * PAGE
  BY <1>1, PageAssumption DEF Managed, rangeUsable, PhysRange, endAddr
<1>5. PICK n \in Nat \ {0} : /\ managedPages(r) = n /\ n <= r.page_count /\ s + n <= t
                             /\ n = r.page_count \/ s + n = t
  <2>1. CASE endAddr(r) < MANAGED_TOP
    <3>1. s + r.page_count < t
      <4>1. SUFFICES ASSUME t <= s + r.page_count PROVE FALSE
        BY <1>4
      <4>2. t = s + r.page_count \/ t * PAGE + PAGE <= (s + r.page_count) * PAGE
        BY <4>1, <1>4, PageStep
      <4>3. QED
        BY <4>2, <2>1, <1>2, <1>4, PageAssumption
    <3>2. QED
      BY <2>1, <3>1, <1>4 DEF managedPages
  <2>2. CASE ~(endAddr(r) < MANAGED_TOP)
    <3>1. MANAGED_TOP - r.phys_start = (t - s) * PAGE
      BY <1>1, <1>2, <1>3, PageAssumption
    <3>2. managedPages(r) = t - s
      BY <2>2, <3>1, <1>3, MultipleIsAligned DEF managedPages
    <3>3. t - s <= r.page_count
      <4>1. SUFFICES ASSUME s + r.page_count < t PROVE FALSE
        BY <1>3, <1>4
      <4>2. (s + r.page_count) * PAGE + PAGE <= t * PAGE
        BY <4>1, <1>4, PageStep
      <4>3. QED
        BY <4>2, <2>2, <1>2, <1>4, PageAssumption
    <3>4. QED
      BY <3>2, <3>3, <1>3, <1>4
  <2>3. QED
    BY <2>1, <2>2
<1>6. r.phys_start + managedPages(r) * PAGE = (s + n) * PAGE
  BY <1>1, <1>5, PageAssumption
<1>7. (s + n) * PAGE <= t * PAGE /\ (s + n) * PAGE <= (s + r.page_count) * PAGE
  <2>1. \A j, k \in Nat : j <= k => j * PAGE <= k * PAGE
    BY PageStep, PageAssumption
  <2>2. QED
    BY <2>1, <1>4, <1>5
<1>8. ASSUME NEW p \in Nat, p % PAGE = 0, inRange(p, r), p < MANAGED_TOP
      PROVE  p \in PagesOf(r, managedPages(r))
  <2>1. PICK q \in Nat : p = q * PAGE
    BY <1>8, AlignedIsMultiple
  <2>2. s <= q
    <3>1. SUFFICES ASSUME q < s PROVE FALSE
      OBVIOUS
    <3>2. q * PAGE + PAGE <= s * PAGE
      BY <3>1, PageStep
    <3>3. QED
      BY <3>2, <2>1, <1>1, <1>8, PageAssumption DEF inRange
  <2>3. q < s + n
    <3>1. SUFFICES ASSUME s + n <= q PROVE FALSE
      BY <1>5
    <3>2. s + n = q \/ (s + n) * PAGE + PAGE <= q * PAGE
      BY <3>1, <1>5, PageStep
    <3>3. (s + n) * PAGE = MANAGED_TOP \/ (s + n) * PAGE = endAddr(r)
      BY <1>2, <1>4, <1>5
    <3>4. QED
      BY <3>2, <3>3, <2>1, <1>8, <1>5, PageAssumption, TopAssumption DEF inRange
  <2>4. p = r.phys_start + (q - s) * PAGE /\ q - s \in 0..(n - 1)
    BY <2>1, <2>2, <2>3, <1>1, <1>5, PageAssumption
  <2>5. QED
    BY <2>4, <1>5 DEF PagesOf
<1>9. QED
  BY <1>2, <1>4, <1>5, <1>6, <1>7, <1>8

\* The pages enumerated from a range are aligned, inside it and below the
\* ceiling.
LEMMA PagesOfBounds ==
  ASSUME NEW r \in PhysRange, Managed(r), r.phys_start % PAGE = 0,
         NEW n \in Nat, n <= managedPages(r), NEW p \in PagesOf(r, n)
  PROVE  /\ p \in Nat /\ p % PAGE = 0
         /\ r.phys_start <= p /\ p + PAGE <= endAddr(r) /\ p + PAGE <= MANAGED_TOP
<1>1. PICK k \in 0..(n - 1) : p = r.phys_start + k * PAGE
  BY DEF PagesOf
<1>2. PICK s \in Nat : r.phys_start = s * PAGE
  BY AlignedIsMultiple DEF PhysRange
<1>3. p = (s + k) * PAGE /\ p \in Nat /\ p % PAGE = 0
  <2>1. p = (s + k) * PAGE
    BY <1>1, <1>2, PageAssumption
  <2>2. QED
    BY <2>1, MultipleIsAligned
<1>4. k * PAGE + PAGE <= managedPages(r) * PAGE
  BY <1>1, ManagedPagesBounds, PageStep
<1>5. QED
  BY <1>1, <1>3, <1>4, ManagedPagesBounds, PageAssumption, TopAssumption
    DEF PhysRange, endAddr

-----------------------------------------------------------------------------
(* The walk over the ranges. *)

\* An aligned page of one range starts outside every other range of a map
\* without overlap.
LEMMA RangesDisjoint ==
  ASSUME NEW rs \in Seq(PhysRange), ~rangesOverlap(rs),
         NEW i \in 1..Len(rs), NEW j \in 1..Len(rs), i # j,
         NEW p \in Nat, inRange(p, rs[i])
  PROVE  ~inRange(p, rs[j])
<1>1. rs[i] \in PhysRange /\ rs[j] \in PhysRange
  OBVIOUS
<1>2. i < j \/ j < i
  OBVIOUS
<1>3. endAddr(rs[i]) \in Nat /\ endAddr(rs[j]) \in Nat
  BY <1>1, RangeEnds
<1>4. ~(rs[i].phys_start < endAddr(rs[j]) /\ rs[j].phys_start < endAddr(rs[i]))
  BY <1>2 DEF rangesOverlap
<1>5. rs[i].phys_start \in Nat /\ rs[j].phys_start \in Nat
  BY <1>1 DEF PhysRange
<1>6. SUFFICES ASSUME inRange(p, rs[j]) PROVE FALSE
  OBVIOUS
<1>7. QED
  BY <1>3, <1>4, <1>5, <1>6 DEF inRange

\* What the walk enumerates over a whole map is what isAllocatable accepts.
LEMMA WalkedIsAllocatable ==
  ASSUME NEW rs \in Seq(PhysRange), ~rangesOverlap(rs), AlignedBefore(rs, Len(rs) + 1)
  PROVE  Walked(rs, Len(rs) + 1, 0) = {p \in 0..MANAGED_TOP : isAllocatableIn(rs, p)}
<1> DEFINE All == {p \in 0..MANAGED_TOP : isAllocatableIn(rs, p)}
<1>1. ASSUME NEW p \in Walked(rs, Len(rs) + 1, 0)
      PROVE  p \in All
  <2>1. PICK j \in 1..Len(rs) : Managed(rs[j]) /\ p \in PagesOf(rs[j], managedPages(rs[j]))
    <3>1. PagesOf(rs[Len(rs) + 1], 0) = {}
      BY DEF PagesOf
    <3>2. QED
      BY <1>1, <3>1 DEF Walked, EarlierPages
  <2>2. rs[j] \in PhysRange /\ rs[j].phys_start % PAGE = 0
    BY <2>1 DEF AlignedBefore, Managed
  <2>3. p \in Nat /\ p % PAGE = 0 /\ p < MANAGED_TOP /\ inRange(p, rs[j])
    <3>1. managedPages(rs[j]) \in Nat
      BY <2>1, <2>2, ManagedPagesBounds
    <3>2. /\ p \in Nat /\ p % PAGE = 0 /\ rs[j].phys_start <= p
          /\ p + PAGE <= endAddr(rs[j]) /\ p + PAGE <= MANAGED_TOP
      BY <2>1, <2>2, <3>1, PagesOfBounds
    <3>3. QED
      BY <2>2, <3>2, RangeEnds, PageAssumption, TopAssumption DEF inRange
  <2>4. \A m \in 1..(j - 1) : ~inRange(p, rs[m])
    BY <2>3, RangesDisjoint
  <2>5. QED
    BY <2>1, <2>3, <2>4, TopAssumption DEF isAllocatableIn, inManagedDomain, Managed
<1>2. ASSUME NEW p \in All
      PROVE  p \in Walked(rs, Len(rs) + 1, 0)
  <2>1. PICK j \in 1..Len(rs) : inRange(p, rs[j]) /\ rangeUsable(rs[j])
    BY <1>2 DEF isAllocatableIn
  <2>2. p \in Nat /\ p % PAGE = 0 /\ p < MANAGED_TOP
    BY <1>2, TopAssumption DEF isAllocatableIn, inManagedDomain
  <2>3. rs[j] \in PhysRange /\ rs[j].phys_start % PAGE = 0 /\ Managed(rs[j])
    <3>1. rs[j] \in PhysRange /\ rs[j].phys_start % PAGE = 0
      BY <2>1 DEF AlignedBefore
    <3>2. rs[j].phys_start \in Nat /\ rs[j].phys_start <= p
      BY <2>1, <3>1, RangeEnds DEF inRange
    <3>3. QED
      BY <2>1, <2>2, <3>1, <3>2, TopAssumption DEF Managed
  <2>4. p \in PagesOf(rs[j], managedPages(rs[j]))
    BY <2>1, <2>2, <2>3, ManagedPagesBounds
  <2>5. j \in {x \in 1..Len(rs) : x < Len(rs) + 1 /\ Managed(rs[x])}
    BY <2>3
  <2>6. QED
    BY <2>4, <2>5 DEF Walked, EarlierPages
<1>3. QED
  BY <1>1, <1>2

\* The page the walk pushes next is new.
LEMMA NextPageIsNew ==
  ASSUME NEW rs \in Seq(PhysRange), ~rangesOverlap(rs),
         NEW i \in 1..Len(rs), AlignedBefore(rs, i + 1), Managed(rs[i]),
         NEW n \in Nat, n < managedPages(rs[i])
  PROVE  /\ rs[i].phys_start + n * PAGE \notin Walked(rs, i, n)
         /\ Walked(rs, i, n + 1) = Walked(rs, i, n) \cup {rs[i].phys_start + n * PAGE}
<1> DEFINE p == rs[i].phys_start + n * PAGE
<1>1. rs[i] \in PhysRange /\ rs[i].phys_start % PAGE = 0 /\ managedPages(rs[i]) \in Nat
  BY ManagedPagesBounds DEF AlignedBefore, Managed
<1>2. p \in PagesOf(rs[i], n + 1)
  BY DEF PagesOf
<1>3. p \in Nat /\ inRange(p, rs[i])
  <2>1. /\ p \in Nat /\ rs[i].phys_start <= p /\ p + PAGE <= endAddr(rs[i])
    BY <1>1, <1>2, PagesOfBounds
  <2>2. QED
    BY <1>1, <2>1, RangeEnds, PageAssumption DEF inRange
<1>4. ASSUME NEW j \in 1..Len(rs), j < i, Managed(rs[j])
      PROVE  p \notin PagesOf(rs[j], managedPages(rs[j]))
  <2>1. rs[j] \in PhysRange /\ rs[j].phys_start % PAGE = 0 /\ managedPages(rs[j]) \in Nat
    BY <1>4, ManagedPagesBounds DEF AlignedBefore, Managed
  <2>2. ~inRange(p, rs[j])
    BY <1>3, <1>4, RangesDisjoint
  <2>3. SUFFICES ASSUME p \in PagesOf(rs[j], managedPages(rs[j])) PROVE FALSE
    OBVIOUS
  <2>4. rs[j].phys_start <= p /\ p + PAGE <= endAddr(rs[j])
    BY <1>4, <2>1, <2>3, PagesOfBounds
  <2>5. QED
    BY <1>3, <2>1, <2>2, <2>4, RangeEnds, PageAssumption DEF inRange
<1>5. p \notin PagesOf(rs[i], n)
  <2>1. SUFFICES ASSUME NEW k \in 0..(n - 1), p = rs[i].phys_start + k * PAGE
                 PROVE  FALSE
    BY DEF PagesOf
  <2>2. k * PAGE + PAGE <= n * PAGE
    BY PageStep
  <2>3. k * PAGE \in Nat /\ n * PAGE \in Nat /\ rs[i].phys_start \in Nat
    <3>1. k \in Nat
      OBVIOUS
    <3>2. k * PAGE \in Nat /\ n * PAGE \in Nat
      BY <3>1, PageAssumption
    <3>3. QED
      BY <1>1, <3>2, RangeEnds
  <2>4. QED
    BY <2>1, <2>2, <2>3, PageAssumption
<1>6. PagesOf(rs[i], n + 1) = PagesOf(rs[i], n) \cup {p}
  <2>1. 0..(n + 1 - 1) = 0..(n - 1) \cup {n}
    OBVIOUS
  <2>2. \A k : k \in 0..(n + 1 - 1) <=> k \in 0..(n - 1) \/ k = n
    BY <2>1
  <2>3. PagesOf(rs[i], n + 1) = {rs[i].phys_start + k * PAGE : k \in 0..(n + 1 - 1)}
    BY DEF PagesOf
  <2>4. p \in PagesOf(rs[i], n + 1) /\ PagesOf(rs[i], n) \subseteq PagesOf(rs[i], n + 1)
    BY <1>2, <2>2, <2>3, Zenon DEF PagesOf
  <2>5. \A x \in PagesOf(rs[i], n + 1) : x \in PagesOf(rs[i], n) \/ x = p
    BY <2>2, <2>3, Zenon DEF PagesOf
  <2>6. QED
    BY <2>4, <2>5
<1>7. p \notin EarlierPages(rs, i)
  BY <1>4 DEF EarlierPages
<1>8. QED
  BY <1>5, <1>6, <1>7 DEF Walked

\* Moving on to the next range.
LEMMA WalkedNextRange ==
  ASSUME NEW rs \in Seq(PhysRange), NEW i \in 1..Len(rs)
  PROVE  /\ ~Managed(rs[i]) => Walked(rs, i + 1, 0) = Walked(rs, i, 0)
         /\ Managed(rs[i]) => Walked(rs, i + 1, 0) = Walked(rs, i, managedPages(rs[i]))
<1> DEFINE Before(k) == {x \in 1..Len(rs) : x < k /\ Managed(rs[x])}
<1>1. ~Managed(rs[i]) => Before(i + 1) = Before(i)
  OBVIOUS
<1>2. Managed(rs[i]) => Before(i + 1) = Before(i) \cup {i}
  OBVIOUS
<1>3. ~Managed(rs[i]) => EarlierPages(rs, i + 1) = EarlierPages(rs, i)
  BY <1>1 DEF EarlierPages
<1>4. Managed(rs[i]) =>
        EarlierPages(rs, i + 1) = EarlierPages(rs, i) \cup PagesOf(rs[i], managedPages(rs[i]))
  BY <1>2 DEF EarlierPages
<1>5. \A r : PagesOf(r, 0) = {}
  BY DEF PagesOf
<1>6. QED
  BY <1>3, <1>4, <1>5 DEF Walked

\* Everything walked is an aligned page below the ceiling.
LEMMA WalkedBounds ==
  ASSUME NEW rs \in Seq(PhysRange), NEW i \in 1..Len(rs), AlignedBefore(rs, i + 1),
         Managed(rs[i]), NEW n \in Nat, n <= managedPages(rs[i]),
         NEW p \in Walked(rs, i, n)
  PROVE  p \in Nat /\ p % PAGE = 0 /\ p < MANAGED_TOP
<1>1. PICK j \in 1..Len(rs), m \in Nat :
        /\ Managed(rs[j]) /\ j <= i /\ m <= managedPages(rs[j]) /\ p \in PagesOf(rs[j], m)
  <2>1. CASE p \in PagesOf(rs[i], n)
    BY <2>1
  <2>2. CASE p \in EarlierPages(rs, i)
    <3>1. PICK j \in 1..Len(rs) : /\ j < i /\ Managed(rs[j])
                                  /\ p \in PagesOf(rs[j], managedPages(rs[j]))
      BY <2>2 DEF EarlierPages
    <3>2. rs[j] \in PhysRange /\ rs[j].phys_start % PAGE = 0
      BY <3>1 DEF AlignedBefore, Managed
    <3>3. managedPages(rs[j]) \in Nat
      BY <3>1, <3>2, ManagedPagesBounds
    <3>4. QED
      BY <3>1, <3>3
  <2>3. QED
    BY <2>1, <2>2 DEF Walked
<1>2. rs[j] \in PhysRange /\ rs[j].phys_start % PAGE = 0
  BY <1>1 DEF AlignedBefore, Managed
<1>3. p \in Nat /\ p % PAGE = 0 /\ p + PAGE <= MANAGED_TOP
  BY <1>1, <1>2, PagesOfBounds
<1>4. QED
  BY <1>3, PageAssumption, TopAssumption

-----------------------------------------------------------------------------
(* The stack. *)

\* Appending a page to a stack adds that page and no other; a new page
\* keeps the stack free of duplicates.
LEMMA PushStack ==
  ASSUME NEW s \in Seq(Nat), NEW x \in Nat
  PROVE  /\ Append(s, x) \in Seq(Nat) /\ Len(Append(s, x)) = Len(s) + 1
         /\ Pages(Append(s, x)) = Pages(s) \cup {x}
         /\ Injective(s) /\ x \notin Pages(s) => Injective(Append(s, x))
<1>1. /\ Append(s, x) \in Seq(Nat) /\ Len(Append(s, x)) = Len(s) + 1
      /\ Append(s, x)[Len(s) + 1] = x
      /\ \A k \in 1..Len(s) : Append(s, x)[k] = s[k]
  OBVIOUS
<1>2. 1..(Len(s) + 1) = 1..Len(s) \cup {Len(s) + 1}
  OBVIOUS
<1>3. Pages(Append(s, x)) = Pages(s) \cup {x}
  BY <1>1, <1>2 DEF Pages
<1>4. Injective(s) /\ x \notin Pages(s) => Injective(Append(s, x))
  BY <1>1, <1>2 DEF Injective, Pages
<1>5. QED
  BY <1>1, <1>3, <1>4

\* A stack is its prefix and its last page; without duplicates the prefix
\* has none either and does not hold that page.
LEMMA PrefixStack ==
  ASSUME NEW s \in Seq(Nat), NEW t \in Seq(Nat), Len(s) = Len(t) + 1,
         \A k \in 1..Len(t) : t[k] = s[k]
  PROVE  /\ Pages(s) = Pages(t) \cup {s[Len(s)]}
         /\ Injective(s) => Injective(t) /\ s[Len(s)] \notin Pages(t)
<1>1. Len(t) \in Nat /\ 1..Len(s) = 1..Len(t) \cup {Len(s)} /\ Len(s) \notin 1..Len(t)
  OBVIOUS
<1>2. Pages(s) = Pages(t) \cup {s[Len(s)]}
  BY <1>1 DEF Pages
<1>3. Injective(s) => Injective(t) /\ s[Len(s)] \notin Pages(t)
  BY <1>1 DEF Injective, Pages
<1>4. QED
  BY <1>2, <1>3

\* Popping removes exactly the top page of a stack without duplicates.
LEMMA PopStack ==
  ASSUME NEW s \in Seq(Nat), s # << >>
  PROVE  LET t == SubSeq(s, 1, Len(s) - 1) IN
         /\ t \in Seq(Nat) /\ Len(s) = Len(t) + 1 /\ s[Len(s)] \in Nat
         /\ Pages(s) = Pages(t) \cup {s[Len(s)]}
         /\ Injective(s) => Injective(t) /\ s[Len(s)] \notin Pages(t)
<1> DEFINE n == Len(s) - 1
           t == SubSeq(s, 1, n)
<1>1. n \in Nat /\ Len(s) = n + 1 /\ s[Len(s)] \in Nat
  OBVIOUS
<1>2. \A i \in 1..n : s[i] \in Nat
  BY <1>1
<1> HIDE DEF n
<1>3. t \in Seq(Nat) /\ Len(t) = n /\ \A k \in 1..n : t[k] = s[k]
  BY <1>1, <1>2, SubSeqProperties
<1> HIDE DEF t
<1>4. /\ Pages(s) = Pages(t) \cup {s[Len(s)]}
      /\ Injective(s) => Injective(t) /\ s[Len(s)] \notin Pages(t)
  BY <1>1, <1>3, PrefixStack
<1>5. QED
  BY <1>1, <1>3, <1>4 DEF t, n

\* Distinct managed pages fit in backing.
LEMMA PagesFit ==
  ASSUME NEW s \in Seq(Nat), Injective(s),
         \A p \in Pages(s) : p % PAGE = 0 /\ p < MANAGED_TOP
  PROVE  Len(s) <= BACKING_LIMIT
<1> DEFINE f == [k \in 1..Len(s) |-> s[k] \div PAGE]
<1>1. PICK t \in Nat : MANAGED_TOP = t * PAGE /\ BACKING_LIMIT = t
  BY AlignedIsMultiple, MultipleIsAligned, TopAssumption DEF BACKING_LIMIT
<1>2. ASSUME NEW k \in 1..Len(s)
      PROVE  \E q \in 0..(t - 1) : s[k] = q * PAGE /\ f[k] = q
  <2>1. s[k] \in Nat /\ s[k] % PAGE = 0 /\ s[k] < MANAGED_TOP
    BY <1>2 DEF Pages
  <2>2. PICK q \in Nat : s[k] = q * PAGE
    BY <2>1, AlignedIsMultiple
  <2>3. f[k] = q
    BY <1>2, <2>2, MultipleIsAligned
  <2>4. q < t
    <3>1. SUFFICES ASSUME t <= q PROVE FALSE
      OBVIOUS
    <3>2. t = q \/ t * PAGE + PAGE <= q * PAGE
      BY <3>1, PageStep
    <3>3. QED
      BY <3>2, <2>1, <2>2, <1>1, PageAssumption, TopAssumption
  <2>5. QED
    BY <2>2, <2>3, <2>4
<1>3. f \in [1..Len(s) -> 0..(t - 1)]
  BY <1>2
<1>4. \A j, k \in 1..Len(s) : f[j] = f[k] => j = k
  BY <1>2 DEF Injective
<1> HIDE DEF f
<1>5. /\ IsFiniteSet(1..Len(s)) /\ Cardinality(1..Len(s)) = Len(s)
      /\ IsFiniteSet(0..(t - 1)) /\ Cardinality(0..(t - 1)) = t
  <2>1. Len(s) \in Nat
    OBVIOUS
  <2>2. /\ IsFiniteSet(1..Len(s))
        /\ Cardinality(1..Len(s)) = (IF 1 > Len(s) THEN 0 ELSE Len(s) - 1 + 1)
    BY <2>1, FS_Interval
  <2>3. /\ IsFiniteSet(0..(t - 1))
        /\ Cardinality(0..(t - 1)) = (IF 0 > t - 1 THEN 0 ELSE t - 1 - 0 + 1)
    BY FS_Interval
  <2>4. QED
    BY <2>1, <2>2, <2>3
<1>6. SUFFICES ASSUME Cardinality(1..Len(s)) > Cardinality(0..(t - 1)) PROVE FALSE
  BY <1>1, <1>5
<1>7. \E j, k \in 1..Len(s) : j # k /\ f[j] = f[k]
  BY <1>3, <1>5, <1>6, FS_PigeonHole
<1>8. QED
  BY <1>4, <1>7

-----------------------------------------------------------------------------
(* The invariant is inductive: one lemma per action. *)

\* The empty map has no page and no overlap.
LEMMA EmptyMap ==
  /\ ~rangesOverlap(<< >>) /\ AlignedBefore(<< >>, Len(<< >>) + 1)
  /\ {p \in 0..MANAGED_TOP : isAllocatableIn(<< >>, p)} = {}
  /\ Pages(<< >>) = {} /\ Injective(<< >>)
BY DEF rangesOverlap, AlignedBefore, isAllocatableIn, Pages, Injective

\* The locals init starts its walk with have their types.
LEMMA LoopStartType ==
  ASSUME NEW rs \in Seq(PhysRange)
  PROVE  Loop0(rs) \in LoopType /\ NoLoop \in LoopType
<1>1. << >> \in Seq(Nat) /\ << >> \in Seq(PhysRange)
  OBVIOUS
<1>2. QED
  BY <1>1 DEF Loop0, NoLoop, Walk, LoopType

\* Before the first init everything is empty, so PmmIInv holds.
LEMMA InitHolds == PmmInit => PmmIInv
<1>1. SUFFICES ASSUME PmmInit PROVE PmmIInv
  OBVIOUS
<1>2. PmmTypeOK
  <2>1. << >> \in Seq(Nat) /\ << >> \in Seq(PhysRange)
    OBVIOUS
  <2>2. QED
    BY <1>1, <2>1, LoopStartType DEF PmmInit, PmmTypeOK
<1>3. LoopInv
  BY <1>1 DEF PmmInit, LoopInv
<1>4. PublishedInv
  BY <1>1, EmptyMap DEF PmmInit, PublishedInv
<1>5. NoAlias /\ NothingLost
  BY <1>1, EmptyMap DEF PmmInit, NoAlias, NothingLost, isAllocatable
<1>6. Accounting
  BY <1>1, FS_EmptySet DEF PmmInit, Accounting
<1>7. QED
  BY <1>2, <1>3, <1>4, <1>5, <1>6 DEF PmmIInv

\* init's reset and validation (pmm.zig:65-70) keep PmmIInv.
LEMMA InitBeginKeeps ==
  ASSUME PmmIInv, NEW info \in BootInfos, InitBegin(info)
  PROVE  PmmIInv'
<1> USE DEF PmmIInv
<1>1. info.ranges \in Seq(PhysRange)
  BY BootInfosAssumption DEF Record
<1>2. /\ cached' = << >> /\ free_stack' = << >> /\ held' = {} /\ initialized' = FALSE
      /\ total_pages' = 0 /\ used_pages' = 0 /\ unmanaged_pages' = 0 /\ excluded_pages' = 0
  BY DEF InitBegin, reset
<1>3. PmmTypeOK'
  <2>1. << >> \in Seq(Nat) /\ << >> \in Seq(PhysRange)
    OBVIOUS
  <2>2. loop' \in LoopType /\ inits' \in Nat
    BY <1>1, LoopStartType DEF InitBegin, PmmTypeOK
  <2>3. QED
    BY <1>2, <2>1, <2>2 DEF InitBegin, PmmTypeOK
<1>4. LoopInv'
  <2>1. CASE ~validate(info)
    BY <2>1 DEF InitBegin, LoopInv
  <2>2. CASE validate(info)
    <3>1. /\ pc' = "ranges" /\ res' = "running" /\ loop'.ranges = info.ranges
          /\ loop'.i = 1 /\ loop'.page = 0 /\ loop'.backing = << >> /\ loop'.total = 0
      BY <2>2 DEF InitBegin, Loop0, Walk
    <3>2. ~rangesOverlap(info.ranges)
      BY <2>2 DEF validate
    <3>3. AlignedBefore(info.ranges, 1)
      BY <1>1 DEF AlignedBefore
    <3>4. Walked(info.ranges, 1, 0) = {}
      BY <1>1 DEF Walked, EarlierPages, PagesOf
    <3>5. Pages(loop'.backing) = {} /\ Injective(loop'.backing) /\ Len(loop'.backing) = 0
      BY <3>1, EmptyMap
    <3>6. loop'.i <= Len(loop'.ranges) + 1 /\ Len(loop'.backing) = loop'.total + loop'.page
      BY <1>1, <3>1, <3>5
    <3>7. /\ ~rangesOverlap(loop'.ranges) /\ AlignedBefore(loop'.ranges, loop'.i)
          /\ Pages(loop'.backing) = Walked(loop'.ranges, loop'.i, loop'.page)
      BY <3>1, <3>2, <3>3, <3>4, <3>5
    <3>8. QED
      BY <3>1, <3>5, <3>6, <3>7 DEF LoopInv
  <2>3. QED
    BY <2>1, <2>2
<1>5. PublishedInv'
  BY <1>2, EmptyMap DEF InitBegin, PublishedInv
<1>6. (NoAlias /\ NothingLost /\ Accounting)'
  <2>1. NoAlias' /\ NothingLost'
    BY <1>2, EmptyMap DEF NoAlias, NothingLost, isAllocatable
  <2>2. Accounting'
    BY <1>2, FS_EmptySet DEF Accounting
  <2>3. QED
    BY <2>1, <2>2
<1>7. QED
  BY <1>3, <1>4, <1>5, <1>6

\* A step of the walk that leaves the published part alone.
LEMMA WalkKeepsPublished ==
  ASSUME PmmIInv, pc # "idle", res' # "ok", res' # "TooManyPages",
         UNCHANGED <<inits, initialized, cached, free_stack, stats, held>>
  PROVE  PublishedInv' /\ NoAlias' /\ NothingLost' /\ Accounting'
<1>1. ~initialized
  BY DEF PmmIInv, PublishedInv
<1>2. PublishedInv'
  BY <1>1 DEF PmmIInv, PublishedInv, stats
<1>3. NoAlias' /\ NothingLost' /\ Accounting'
  BY DEF PmmIInv, NoAlias, NothingLost, Accounting, isAllocatable, stats
<1>4. QED
  BY <1>2, <1>3

\* An error return of init (its errdefer) keeps PmmIInv.
LEMMA InitFailKeeps ==
  ASSUME PmmIInv, pc # "idle", NEW e, InitFail(e),
         e \in {"BadBootInfo", "MisalignedRange", "RangeOverflow"}
  PROVE  PmmIInv'
<1>1. PmmTypeOK'
  <2>1. NoLoop \in LoopType
    BY LoopStartType DEF PmmIInv, PmmTypeOK
  <2>2. QED
    BY <2>1 DEF PmmIInv, PmmTypeOK, InitFail, stats
<1>2. LoopInv'
  BY DEF InitFail, LoopInv
<1>3. PublishedInv' /\ NoAlias' /\ NothingLost' /\ Accounting'
  BY WalkKeepsPublished DEF InitFail
<1>4. QED
  BY <1>1, <1>2, <1>3 DEF PmmIInv

\* Each of init's locals has its type.
LEMMA LoopFields ==
  ASSUME NEW l \in LoopType
  PROVE  /\ l.ranges \in Seq(PhysRange) /\ l.i \in Nat \ {0} /\ l.page \in Nat
         /\ l.backing \in Seq(Nat)
         /\ l.total \in Nat /\ l.unmanaged \in Nat /\ l.excluded \in Nat
BY DEF LoopType

\* One push of the walk: the page is new, the stack stays within backing.
LEMMA PushOne ==
  ASSUME NEW rs \in Seq(PhysRange), ~rangesOverlap(rs), NEW i \in 1..Len(rs),
         AlignedBefore(rs, i + 1), Managed(rs[i]), NEW n \in Nat, n < managedPages(rs[i]),
         NEW b \in Seq(Nat), Injective(b), Pages(b) = Walked(rs, i, n)
  PROVE  LET s == Append(b, rs[i].phys_start + n * PAGE) IN
         /\ s \in Seq(Nat) /\ Len(s) = Len(b) + 1 /\ Injective(s)
         /\ Pages(s) = Walked(rs, i, n + 1)
         /\ managedPages(rs[i]) \in Nat /\ ~(Len(b) >= BACKING_LIMIT)
<1> DEFINE p == rs[i].phys_start + n * PAGE
           s == Append(b, p)
<1>1. rs[i] \in PhysRange /\ rs[i].phys_start % PAGE = 0
  BY DEF AlignedBefore, Managed
<1>2. managedPages(rs[i]) \in Nat /\ n + 1 <= managedPages(rs[i])
  <2>1. managedPages(rs[i]) \in Nat
    BY <1>1, ManagedPagesBounds
  <2>2. QED
    BY <2>1
<1>3. p \in Nat
  <2>1. rs[i].phys_start \in Nat
    BY <1>1, RangeEnds
  <2>2. n * PAGE \in Nat
    BY PageAssumption
  <2>3. QED
    BY <2>1, <2>2
<1>4. p \notin Pages(b) /\ Walked(rs, i, n + 1) = Pages(b) \cup {p}
  BY NextPageIsNew
<1> HIDE DEF p
<1>5. s \in Seq(Nat) /\ Len(s) = Len(b) + 1 /\ Injective(s) /\ Pages(s) = Walked(rs, i, n + 1)
  BY <1>3, <1>4, PushStack
<1>6. Len(s) <= BACKING_LIMIT
  <2>1. ASSUME NEW q \in Walked(rs, i, n + 1) PROVE q % PAGE = 0 /\ q < MANAGED_TOP
    <3>1. n + 1 \in Nat
      OBVIOUS
    <3>2. QED
      BY <1>2, <2>1, <3>1, WalkedBounds
  <2>2. QED
    BY <1>5, <2>1, PagesFit
<1>7. BACKING_LIMIT \in Nat
  BY AlignedIsMultiple, MultipleIsAligned, TopAssumption DEF BACKING_LIMIT
<1>8. ~(Len(b) >= BACKING_LIMIT)
  <2>1. Len(b) \in Nat
    OBVIOUS
  <2>2. QED
    BY <1>5, <1>6, <1>7, <2>1
<1>9. QED
  BY <1>2, <1>5, <1>8 DEF p

\* The fields of init's locals, named.
LEMMA LoopNames ==
  ASSUME PmmIInv
  PROVE  \E rs \in Seq(PhysRange), i \in Nat \ {0}, n \in Nat, b \in Seq(Nat),
            t \in Nat, u \in Nat, x \in Nat :
           /\ loop.ranges = rs /\ loop.i = i /\ loop.page = n /\ loop.backing = b
           /\ loop.total = t /\ loop.unmanaged = u /\ loop.excluded = x
<1>1. loop \in LoopType
  BY DEF PmmIInv, PmmTypeOK
<1>2. QED
  BY <1>1, LoopFields

\* A step of the walk keeps the invariant when its new locals satisfy the
\* conjuncts of LoopInv.
LEMMA WalkStepKeeps ==
  ASSUME PmmIInv, pc # "idle",
         UNCHANGED <<inits, res, initialized, cached, free_stack, stats, held>>,
         NEW rs \in Seq(PhysRange), NEW i \in Nat \ {0}, NEW n \in Nat, NEW b \in Seq(Nat),
         NEW t \in Nat, NEW u \in Nat, NEW x \in Nat,
         loop' = Walk(rs, i, n, b, t, u, x),
         ~rangesOverlap(rs), i <= Len(rs) + 1, AlignedBefore(rs, i),
         Injective(b), Pages(b) = Walked(rs, i, n), Len(b) = t + n,
         \/ pc' = "ranges" /\ n = 0
         \/ /\ pc' = "push" /\ i <= Len(rs) /\ AlignedBefore(rs, i + 1)
            /\ Managed(rs[i]) /\ n < managedPages(rs[i])
  PROVE  PmmIInv'
<1>1. /\ loop' \in LoopType /\ loop'.ranges = rs /\ loop'.i = i /\ loop'.page = n
      /\ loop'.backing = b /\ loop'.total = t
  <2> DEFINE w == Walk(rs, i, n, b, t, u, x)
  <2>1. /\ w \in LoopType /\ w.ranges = rs /\ w.i = i /\ w.page = n
        /\ w.backing = b /\ w.total = t
    BY DEF Walk, LoopType
  <2> HIDE DEF w
  <2>2. loop' = w
    BY DEF w
  <2>3. QED
    BY <2>1, <2>2
<1>2. res = "running" /\ res' = "running"
  BY DEF PmmIInv, LoopInv
<1>3. LoopInv'
  BY <1>1, <1>2 DEF LoopInv
<1>4. PmmTypeOK'
  BY <1>1 DEF PmmIInv, PmmTypeOK, stats
<1>5. PublishedInv' /\ NoAlias' /\ NothingLost' /\ Accounting'
  BY <1>2, WalkKeepsPublished
<1>6. QED
  BY <1>3, <1>4, <1>5 DEF PmmIInv

\* Entering or skipping a range (pmm.zig:71-91) keeps PmmIInv.
LEMMA InitRangeKeeps ==
  ASSUME PmmIInv, InitRange
  PROVE  PmmIInv'
<1>1. PICK rs \in Seq(PhysRange), i \in Nat \ {0}, n \in Nat, b \in Seq(Nat),
           t \in Nat, u \in Nat, x \in Nat :
        /\ loop.ranges = rs /\ loop.i = i /\ loop.page = n /\ loop.backing = b
        /\ loop.total = t /\ loop.unmanaged = u /\ loop.excluded = x
  BY LoopNames
<1>2. pc = "ranges" /\ i <= Len(rs) /\ n = 0
  BY <1>1 DEF InitRange, PmmIInv, LoopInv
<1>3. /\ ~rangesOverlap(rs) /\ AlignedBefore(rs, i) /\ Injective(b)
      /\ Pages(b) = Walked(rs, i, 0) /\ Len(b) = t + 0
  BY <1>1, <1>2 DEF PmmIInv, LoopInv
<1> DEFINE r == rs[i]
<1>4. i \in 1..Len(rs) /\ r \in PhysRange
  BY <1>2
<1>5. r.page_count \in Nat /\ r.phys_start \in Nat
  BY <1>4, RangeEnds
<1>6. CASE rangeError(r) # "ok"
  <2>1. InitFail(rangeError(r))
    BY <1>1, <1>6 DEF InitRange
  <2>2. rangeError(r) \in {"BadBootInfo", "MisalignedRange", "RangeOverflow"}
    BY <1>6 DEF rangeError
  <2>3. QED
    BY <1>2, <2>1, <2>2, InitFailKeeps
<1>7. CASE rangeError(r) = "ok"
  <2>1. UNCHANGED <<inits, res, initialized, cached, free_stack, stats, held>>
    BY <1>1, <1>7 DEF InitRange
  <2>2. rangeUsable(r) => r.phys_start % PAGE = 0
    BY <1>5, <1>7 DEF rangeError, rangeUsable
  <2>3. AlignedBefore(rs, i + 1)
    <3>1. \A j \in 1..Len(rs) : j < i + 1 => j < i \/ j = i
      OBVIOUS
    <3>2. QED
      BY <1>3, <2>2, <3>1 DEF AlignedBefore
  <2>4. CASE ~Managed(r)
    <3>1. Walked(rs, i + 1, 0) = Walked(rs, i, 0)
      BY <1>4, <2>4, WalkedNextRange
    <3>2. /\ pc' = "ranges"
          /\ \E v, w \in Nat : loop' = Walk(rs, i + 1, 0, b, t, v, w)
      <4>1. u + r.page_count \in Nat /\ x + r.page_count \in Nat
        BY <1>5
      <4>2. /\ pc' = "ranges"
            /\ \/ loop' = Walk(rs, i + 1, 0, b, t, u, x + r.page_count)
               \/ loop' = Walk(rs, i + 1, 0, b, t, u + r.page_count, x)
        BY <1>1, <1>7, <2>4 DEF InitRange, Managed
      <4>3. QED
        BY <4>1, <4>2
    <3>3. i + 1 \in Nat \ {0} /\ i + 1 <= Len(rs) + 1
      BY <1>2
    <3>4. QED
      BY <1>2, <1>3, <2>1, <2>3, <3>1, <3>2, <3>3, WalkStepKeeps
  <2>5. CASE Managed(r)
    <3>1. managedPages(r) \in Nat \ {0} /\ managedPages(r) <= r.page_count
      BY <1>4, <2>2, <2>5, ManagedPagesBounds DEF Managed
    <3>2. /\ pc' = "push"
          /\ loop' = Walk(rs, i, 0, b, t, u + (r.page_count - managedPages(r)), x)
      <4>1. ~(r.phys_start >= MANAGED_TOP) /\ rangeUsable(r)
        BY <1>5, <2>5, TopAssumption DEF Managed
      <4>2. QED
        BY <1>1, <1>7, <4>1 DEF InitRange
    <3>3. u + (r.page_count - managedPages(r)) \in Nat
      BY <1>5, <3>1
    <3>4. i <= Len(rs) + 1 /\ 0 < managedPages(r)
      BY <1>2, <3>1
    <3>5. QED
      BY <1>2, <1>3, <2>1, <2>3, <2>5, <3>2, <3>3, <3>4, WalkStepKeeps
  <2>6. QED
    BY <2>4, <2>5
<1>8. QED
  BY <1>6, <1>7

\* Pushing one page of a range (pmm.zig:92-97) keeps PmmIInv.
LEMMA InitPushKeeps ==
  ASSUME PmmIInv, InitPush
  PROVE  PmmIInv'
<1>1. PICK rs \in Seq(PhysRange), i \in Nat \ {0}, n \in Nat, b \in Seq(Nat),
           t \in Nat, u \in Nat, x \in Nat :
        /\ loop.ranges = rs /\ loop.i = i /\ loop.page = n /\ loop.backing = b
        /\ loop.total = t /\ loop.unmanaged = u /\ loop.excluded = x
  BY LoopNames
<1>2. pc = "push" /\ i <= Len(rs)
  BY <1>1 DEF InitPush, PmmIInv, LoopInv
<1>3. /\ ~rangesOverlap(rs) /\ AlignedBefore(rs, i) /\ AlignedBefore(rs, i + 1)
      /\ Managed(rs[i]) /\ n < managedPages(rs[i])
      /\ Injective(b) /\ Pages(b) = Walked(rs, i, n) /\ Len(b) = t + n
  BY <1>1, <1>2 DEF PmmIInv, LoopInv
<1> DEFINE stack == Append(b, rs[i].phys_start + n * PAGE)
<1>4. i \in 1..Len(rs)
  BY <1>2
<1>5. /\ stack \in Seq(Nat) /\ Len(stack) = Len(b) + 1 /\ Injective(stack)
      /\ Pages(stack) = Walked(rs, i, n + 1)
      /\ managedPages(rs[i]) \in Nat /\ ~(Len(b) >= BACKING_LIMIT)
  BY <1>3, <1>4, PushOne
<1>6. UNCHANGED <<inits, res, initialized, cached, free_stack, stats, held>>
  BY <1>1, <1>5 DEF InitPush
<1>7. n + 1 \in Nat /\ i + 1 \in Nat \ {0} /\ i <= Len(rs) + 1 /\ i + 1 <= Len(rs) + 1
  BY <1>2
<1>8. Len(stack) = t + (n + 1)
  BY <1>3, <1>5
<1>9. CASE n + 1 < managedPages(rs[i])
  <2>1. pc' = "push" /\ loop' = Walk(rs, i, n + 1, stack, t, u, x)
    BY <1>1, <1>5, <1>9 DEF InitPush
  <2> HIDE DEF stack
  <2>2. QED
    BY <1>2, <1>3, <1>5, <1>6, <1>7, <1>8, <1>9, <2>1, WalkStepKeeps
<1>10. CASE ~(n + 1 < managedPages(rs[i]))
  <2>1. pc' = "ranges" /\ loop' = Walk(rs, i + 1, 0, stack, t + managedPages(rs[i]), u, x)
    BY <1>1, <1>5, <1>10 DEF InitPush
  <2> HIDE DEF stack
  <2>2. n + 1 = managedPages(rs[i])
    BY <1>3, <1>5, <1>10
  <2>3. t + managedPages(rs[i]) \in Nat /\ Len(stack) = t + managedPages(rs[i]) + 0
    <3>1. t + (n + 1) \in Nat /\ t + (n + 1) = t + (n + 1) + 0
      OBVIOUS
    <3>2. QED
      BY <1>8, <2>2, <3>1
  <2>4. Walked(rs, i + 1, 0) = Walked(rs, i, n + 1)
    BY <1>3, <1>4, <2>2, WalkedNextRange
  <2>5. QED
    BY <1>2, <1>3, <1>5, <1>6, <1>7, <2>1, <2>3, <2>4, WalkStepKeeps
<1>11. QED
  BY <1>9, <1>10

\* Publishing the walk's result at the end of init keeps PmmIInv.
LEMMA InitPublishKeeps ==
  ASSUME PmmIInv, InitPublish
  PROVE  PmmIInv'
<1>1. PICK rs \in Seq(PhysRange), i \in Nat \ {0}, n \in Nat, b \in Seq(Nat),
           t \in Nat, u \in Nat, x \in Nat :
        /\ loop.ranges = rs /\ loop.i = i /\ loop.page = n /\ loop.backing = b
        /\ loop.total = t /\ loop.unmanaged = u /\ loop.excluded = x
  BY LoopNames
<1>2. pc = "ranges" /\ i > Len(rs) /\ i <= Len(rs) + 1 /\ n = 0
  BY <1>1 DEF InitPublish, PmmIInv, LoopInv
<1>3. i = Len(rs) + 1
  BY <1>2
<1>4. /\ ~rangesOverlap(rs) /\ AlignedBefore(rs, i) /\ Injective(b)
      /\ Pages(b) = Walked(rs, i, 0) /\ Len(b) = t + 0
  BY <1>1, <1>2 DEF PmmIInv, LoopInv
<1>5. held = {} /\ held' = {}
  BY <1>2 DEF InitPublish, PmmIInv, PublishedInv
<1>6. /\ free_stack' = b /\ cached' = rs /\ total_pages' = t /\ used_pages' = 0
      /\ unmanaged_pages' = u /\ excluded_pages' = x
      /\ initialized' = TRUE /\ res' = "ok" /\ pc' = "idle" /\ loop' = NoLoop
      /\ inits' = inits
  BY <1>1 DEF InitPublish
<1>7. PmmTypeOK'
  BY <1>5, <1>6, LoopStartType DEF PmmIInv, PmmTypeOK
<1>8. LoopInv'
  BY <1>6 DEF LoopInv
<1>9. PublishedInv'
  BY <1>3, <1>4, <1>6 DEF PublishedInv
<1>10. NoAlias'
  BY <1>4, <1>5, <1>6 DEF NoAlias, Injective
<1>11. NothingLost'
  <2>1. Walked(rs, Len(rs) + 1, 0) = {p \in 0..MANAGED_TOP : isAllocatableIn(rs, p)}
    BY <1>3, <1>4, WalkedIsAllocatable
  <2>2. QED
    BY <1>3, <1>4, <1>5, <1>6, <2>1 DEF NothingLost, isAllocatable
<1>12. Accounting'
  BY <1>4, <1>5, <1>6, FS_EmptySet DEF Accounting
<1>13. QED
  BY <1>7, <1>8, <1>9, <1>10, <1>11, <1>12 DEF PmmIInv

\* allocPage keeps PmmIInv: the page it pops was free and becomes held.
LEMMA AllocKeeps ==
  ASSUME PmmIInv, allocPage
  PROVE  PmmIInv'
<1> DEFINE t == SubSeq(free_stack, 1, Len(free_stack) - 1)
           p == free_stack[Len(free_stack)]
<1>1. free_stack \in Seq(Nat) /\ free_stack # << >> /\ initialized
  BY DEF allocPage, canAlloc, PmmIInv, PmmTypeOK
<1>2. Injective(free_stack) /\ Pages(free_stack) \cap held = {}
  BY DEF PmmIInv, NoAlias, Injective
<1>3. /\ t \in Seq(Nat) /\ Len(free_stack) = Len(t) + 1 /\ p \in Nat
      /\ Pages(free_stack) = Pages(t) \cup {p}
      /\ Injective(t) /\ p \notin Pages(t)
  BY <1>1, <1>2, PopStack
<1>4. /\ free_stack' = t /\ used_pages' = used_pages + 1 /\ held' = held \cup {p}
      /\ UNCHANGED <<pc, inits, loop, res, initialized, cached, total_pages,
                     unmanaged_pages, excluded_pages>>
  BY DEF allocPage, Top
<1> HIDE DEF t, p
<1>5. PmmTypeOK'
  <2>1. used_pages' \in Nat /\ held' \subseteq Nat
    BY <1>3, <1>4 DEF PmmIInv, PmmTypeOK
  <2>2. QED
    BY <1>3, <1>4, <2>1 DEF PmmIInv, PmmTypeOK
<1>6. LoopInv'
  BY <1>4 DEF PmmIInv, LoopInv
<1>7. PublishedInv'
  BY <1>1, <1>4 DEF PmmIInv, PublishedInv
<1>8. NoAlias'
  BY <1>2, <1>3, <1>4 DEF NoAlias, Injective
<1>9. NothingLost'
  BY <1>3, <1>4 DEF PmmIInv, NothingLost, isAllocatable
<1>10. Accounting'
  <2>1. IsFiniteSet(held) /\ used_pages = Cardinality(held) /\ p \notin held
    BY <1>2, <1>3 DEF PmmIInv, Accounting
  <2>2. IsFiniteSet(held') /\ Cardinality(held') = Cardinality(held) + 1
    BY <1>4, <2>1, FS_AddElement
  <2>3. total_pages = (Len(t) + 1) + used_pages
    BY <1>3 DEF PmmIInv, Accounting
  <2>4. Len(t) \in Nat /\ used_pages \in Nat
    BY <1>3 DEF PmmIInv, PmmTypeOK
  <2>5. total_pages = Len(t) + (used_pages + 1)
    BY <2>3, <2>4
  <2>6. QED
    BY <1>4, <2>1, <2>2, <2>5 DEF Accounting
<1>11. QED
  BY <1>5, <1>6, <1>7, <1>8, <1>9, <1>10 DEF PmmIInv

\* freePage accepts only a page that is out, although it never looks one up in
\* a table of handed-out pages.
LEMMA FreeKeeps ==
  ASSUME PmmIInv, NEW p \in 0..MANAGED_TOP, freePage(p)
  PROVE  PmmIInv'
<1> DEFINE t == Append(free_stack, p)
<1>1. free_stack \in Seq(Nat) /\ initialized /\ p \in Nat
  BY TopAssumption DEF freePage, freeAccepts, PmmIInv, PmmTypeOK
<1>2. Injective(free_stack) /\ Pages(free_stack) \cap held = {}
  BY DEF PmmIInv, NoAlias, Injective
<1>3. p \notin Pages(free_stack)
  BY DEF freePage, freeAccepts, OnStack, Pages
<1>4. p \in held
  BY <1>3 DEF freePage, freeAccepts, PmmIInv, NothingLost
<1>5. /\ t \in Seq(Nat) /\ Len(t) = Len(free_stack) + 1
      /\ Pages(t) = Pages(free_stack) \cup {p} /\ Injective(t)
  BY <1>1, <1>2, <1>3, PushStack
<1>6. IsFiniteSet(held) /\ used_pages = Cardinality(held) /\ used_pages \in Nat
  BY DEF PmmIInv, Accounting, PmmTypeOK
<1>7. IsFiniteSet(held \ {p}) /\ Cardinality(held \ {p}) = used_pages - 1
  BY <1>4, <1>6, FS_RemoveElement
<1>8. used_pages # 0
  <2>1. SUFFICES ASSUME used_pages = 0 PROVE FALSE
    OBVIOUS
  <2>2. held = {}
    BY <1>6, <2>1, FS_EmptySet
  <2>3. QED
    BY <1>4, <2>2
<1>9. /\ free_stack' = t /\ used_pages' = used_pages - 1 /\ held' = held \ {p}
      /\ UNCHANGED <<pc, inits, loop, res, initialized, cached, total_pages,
                     unmanaged_pages, excluded_pages>>
  <2>1. used_pages > 0
    BY <1>6, <1>8
  <2>2. QED
    BY <2>1 DEF freePage
<1> HIDE DEF t
<1>10. PmmTypeOK'
  <2>1. used_pages' \in Nat
    BY <1>6, <1>8, <1>9
  <2>2. QED
    BY <1>5, <1>9, <2>1 DEF PmmIInv, PmmTypeOK
<1>11. LoopInv'
  BY <1>9 DEF PmmIInv, LoopInv
<1>12. PublishedInv'
  BY <1>1, <1>9 DEF PmmIInv, PublishedInv
<1>13. NoAlias'
  BY <1>2, <1>5, <1>9 DEF NoAlias, Injective
<1>14. NothingLost'
  BY <1>4, <1>5, <1>9 DEF PmmIInv, NothingLost, isAllocatable
<1>15. Accounting'
  <2>1. total_pages = Len(free_stack) + used_pages
    BY DEF PmmIInv, Accounting
  <2>2. Len(free_stack) \in Nat
    BY <1>1
  <2>3. total_pages = (Len(free_stack) + 1) + (used_pages - 1)
    BY <1>6, <2>1, <2>2
  <2>4. QED
    BY <1>5, <1>7, <1>9, <2>3 DEF Accounting
<1>16. QED
  BY <1>10, <1>11, <1>12, <1>13, <1>14, <1>15 DEF PmmIInv

-----------------------------------------------------------------------------
(* The theorems. *)

\* PmmIInv holds of every state init, allocPage and freePage reach: while init
\* walks the map nothing is published and backing holds exactly the pages
\* walked; afterwards the pages of the published map are the free and the held
\* ones, each once.
THEOREM PmmInvariant == Spec => []PmmIInv
<1>1. PmmIInv /\ [Next]_pmmVars => PmmIInv'
  <2>1. SUFFICES ASSUME PmmIInv, [Next]_pmmVars PROVE PmmIInv'
    OBVIOUS
  <2>2. CASE UNCHANGED pmmVars
    BY <2>1, <2>2 DEF pmmVars, PmmIInv, PmmTypeOK, LoopInv, PublishedInv, NoAlias,
                      NothingLost, isAllocatable, Accounting
  <2>3. CASE \E info \in BootInfos : InitBegin(info)
    BY <2>1, <2>3, InitBeginKeeps
  <2>4. CASE InitRange
    BY <2>1, <2>4, InitRangeKeeps
  <2>5. CASE InitPush
    BY <2>1, <2>5, InitPushKeeps
  <2>6. CASE InitPublish
    BY <2>1, <2>6, InitPublishKeeps
  <2>7. CASE allocPage
    BY <2>1, <2>7, AllocKeeps
  <2>8. CASE \E p \in 0..MANAGED_TOP : freePage(p)
    BY <2>1, <2>8, FreeKeeps
  <2>9. QED
    BY <2>1, <2>2, <2>3, <2>4, <2>5, <2>6, <2>7, <2>8 DEF Next, InitNext
<1>2. QED
  BY <1>1, InitHolds, PTL DEF Spec

\* The allocator's variables and init's locals keep their types.
THEOREM PmmTypes == Spec => []PmmTypeOK
<1>1. PmmIInv => PmmTypeOK
  BY DEF PmmIInv
<1>2. QED
  BY <1>1, PmmInvariant, PTL

\* A page is free at most once and never both free and held, for every map
\* init accepts and every sequence of allocPage and freePage calls, those that
\* free addresses the caller does not own included.
THEOREM PageNeverAliased == Spec => []NoAlias
<1>1. PmmIInv => NoAlias
  BY DEF PmmIInv
<1>2. QED
  BY <1>1, PmmInvariant, PTL

\* Every conventional page below the ceiling is free or held.
THEOREM NoPageLost == Spec => []NothingLost
<1>1. PmmIInv => NothingLost
  BY DEF PmmIInv
<1>2. QED
  BY <1>1, PmmInvariant, PTL

\* used_pages counts the pages out and total = free + used always.
THEOREM CountersAgree == Spec => []Accounting
<1>1. PmmIInv => Accounting
  BY DEF PmmIInv
<1>2. QED
  BY <1>1, PmmInvariant, PTL

\* init never returns TooManyPages and never writes past backing.
THEOREM BackingSuffices == Spec => []NeverTooManyPages
<1>1. PmmIInv => NeverTooManyPages
  BY DEF PmmIInv, PublishedInv, NeverTooManyPages
<1>2. QED
  BY <1>1, PmmInvariant, PTL

\* After a failed init nothing is published.
THEOREM FailsClosed == Spec => []FailClosed
<1>1. PmmIInv => FailClosed
  BY DEF PmmIInv, PublishedInv, FailClosed
<1>2. QED
  BY <1>1, PmmInvariant, PTL

\* No byte of a free or held page is in a range the loader reserved or above
\* the ceiling.
THEOREM ReservedNeverHandedOut == Spec => []OwnedNeverHandedOut
<1>1. ASSUME PmmIInv PROVE OwnedNeverHandedOut
  <2>1. SUFFICES ASSUME NEW p \in Pages(free_stack) \cup held
                 PROVE  /\ p + PAGE <= MANAGED_TOP
                        /\ \A i \in 1..Len(cached) : ~rangeUsable(cached[i]) =>
                             (p + PAGE <= cached[i].phys_start \/ endAddr(cached[i]) <= p)
    BY DEF OwnedNeverHandedOut
  <2>2. /\ cached \in Seq(PhysRange) /\ ~rangesOverlap(cached)
        /\ AlignedBefore(cached, Len(cached) + 1)
    BY <1>1 DEF PmmIInv, PmmTypeOK, PublishedInv
  <2>3. p \in Walked(cached, Len(cached) + 1, 0)
    BY <1>1, <2>1, <2>2, WalkedIsAllocatable DEF PmmIInv, NothingLost, isAllocatable
  <2>4. PICK j \in 1..Len(cached) :
          Managed(cached[j]) /\ p \in PagesOf(cached[j], managedPages(cached[j]))
    <3>1. PagesOf(cached[Len(cached) + 1], 0) = {}
      BY DEF PagesOf
    <3>2. QED
      BY <2>3, <3>1 DEF Walked, EarlierPages
  <2>5. cached[j] \in PhysRange /\ cached[j].phys_start % PAGE = 0
    BY <2>2, <2>4 DEF AlignedBefore, Managed
  <2>6. managedPages(cached[j]) \in Nat
    BY <2>4, <2>5, ManagedPagesBounds
  <2>7. /\ p \in Nat /\ cached[j].phys_start <= p
        /\ p + PAGE <= endAddr(cached[j]) /\ p + PAGE <= MANAGED_TOP
    BY <2>4, <2>5, <2>6, PagesOfBounds
  <2>8. ASSUME NEW i \in 1..Len(cached), ~rangeUsable(cached[i])
        PROVE  p + PAGE <= cached[i].phys_start \/ endAddr(cached[i]) <= p
    <3>1. i # j /\ cached[i] \in PhysRange
      BY <2>2, <2>4, <2>8 DEF Managed
    <3>2. ~(cached[i].phys_start < endAddr(cached[j]) /\ cached[j].phys_start < endAddr(cached[i]))
      <4>1. i < j \/ j < i
        BY <3>1
      <4>2. QED
        BY <2>2, <4>1 DEF rangesOverlap
    <3>3. /\ cached[i].phys_start \in Nat /\ endAddr(cached[i]) \in Nat
          /\ cached[j].phys_start \in Nat /\ endAddr(cached[j]) \in Nat
      BY <2>5, <3>1, RangeEnds
    <3>4. QED
      BY <2>7, <3>2, <3>3, PageAssumption
  <2>9. QED
    BY <2>7, <2>8
<1>2. QED
  BY <1>1, PmmInvariant, PTL

-----------------------------------------------------------------------------
(* The adapters: types and the inductive invariant. *)

AdapterTypeOK ==
  /\ owned \in [Adapters -> Seq(Nat)]
  /\ direct \subseteq Nat

\* The allocator's invariant, and that its held pages are the clients' frames.
\* Neither half is inductive alone: that a popped frame has no owner is what
\* NoAlias says of a held page, and that no owner is left when init resets the
\* allocator is what Boot's guard says of the clients.
AdapterIInv ==
  /\ PmmIInv
  /\ AdapterTypeOK
  /\ ExclusiveOwners
  /\ DefencesNeverFire

-----------------------------------------------------------------------------
(* Lists of frames. *)

\* owns is membership in the adapter's list.
LEMMA OwnsIsMember ==
  ASSUME NEW a, NEW p
  PROVE  owns(a, p) <=> p \in Pages(owned[a])
BY DEF owns, OnStack, Pages

\* Moving the last entry into the hole removes exactly the entry at k.
LEMMA SwapRemove ==
  ASSUME NEW s \in Seq(Nat), NEW k \in 1..Len(s), Injective(s)
  PROVE  LET t == swapRemove(s, k) IN
         /\ t \in Seq(Nat) /\ Injective(t)
         /\ Pages(t) = Pages(s) \ {s[k]}
<1> DEFINE n == Len(s)
           u == [s EXCEPT ![k] = s[n]]
           t == swapRemove(s, k)
<1>1. n \in Nat /\ n > 0 /\ k \in 1..n /\ n \in 1..n
  OBVIOUS
<1>2. u \in Seq(Nat) /\ Len(u) = n
  BY <1>1
<1>3. \A j \in 1..n : u[j] = IF j = k THEN s[n] ELSE s[j]
  BY <1>1
<1>4. /\ t \in Seq(Nat) /\ Len(t) = n - 1 /\ \A j \in 1..(n - 1) : t[j] = u[j]
  BY <1>1, <1>2 DEF swapRemove
<1>5. \A j \in 1..(n - 1) : t[j] = IF j = k THEN s[n] ELSE s[j]
  BY <1>1, <1>3, <1>4
<1> HIDE DEF n, t, u
<1>6. \A i, j \in 1..n : s[i] = s[j] => i = j
  BY DEF Injective, n
<1>7. Injective(t)
  BY <1>1, <1>4, <1>5, <1>6 DEF Injective
<1>8. Pages(t) = {t[j] : j \in 1..(n - 1)} /\ Pages(s) = {s[j] : j \in 1..n}
  BY <1>4 DEF Pages, n
<1>9. ASSUME NEW x \in Pages(t) PROVE x \in Pages(s) \ {s[k]}
  <2>1. PICK j \in 1..(n - 1) : x = t[j]
    BY <1>8, <1>9
  <2>2. j \in 1..n /\ j # n
    BY <1>1
  <2>3. CASE j = k
    BY <1>1, <1>5, <1>6, <1>8, <2>1, <2>2, <2>3
  <2>4. CASE j # k
    BY <1>1, <1>5, <1>6, <1>8, <2>1, <2>2, <2>4
  <2>5. QED
    BY <2>3, <2>4
<1>10. ASSUME NEW x \in Pages(s) \ {s[k]} PROVE x \in Pages(t)
  <2>1. PICK j \in 1..n : x = s[j]
    BY <1>8, <1>10
  <2>2. j # k
    BY <1>10, <2>1
  <2>3. CASE j = n
    <3>1. k \in 1..(n - 1)
      BY <1>1, <2>2, <2>3
    <3>2. QED
      BY <1>5, <1>8, <2>1, <2>3, <3>1
  <2>4. CASE j # n
    <3>1. j \in 1..(n - 1)
      BY <1>1, <2>4
    <3>2. QED
      BY <1>5, <1>8, <2>1, <2>2, <3>1
  <2>5. QED
    BY <2>3, <2>4
<1>11. QED
  BY <1>4, <1>7, <1>9, <1>10 DEF t

-----------------------------------------------------------------------------
(* What the allocator's invariant says of the frame about to be popped. *)

\* The page on top of the stack is allocatable, below the ceiling and owned by
\* nobody, and the stack without it would take it back.
LEMMA TopIsFresh ==
  ASSUME AdapterIInv, canAlloc
  PROVE  /\ Top \in Nat /\ Top \in 0..MANAGED_TOP
         /\ isAllocatable(Top)
         /\ takesBack(Top)
         /\ Top \notin held /\ Top \notin direct
         /\ \A a \in Adapters : Top \notin Pages(owned[a])
<1>1. free_stack \in Seq(Nat) /\ free_stack # << >> /\ Injective(free_stack)
  BY DEF AdapterIInv, PmmIInv, PmmTypeOK, NoAlias, Injective, canAlloc
<1>2. /\ Top \in Nat /\ Top \in Pages(free_stack)
      /\ Top \notin Pages(SubSeq(free_stack, 1, Len(free_stack) - 1))
  BY <1>1, PopStack DEF Top
<1>3. Top \in 0..MANAGED_TOP /\ isAllocatable(Top) /\ Top \notin held
  BY <1>2 DEF AdapterIInv, PmmIInv, NothingLost, NoAlias
<1>4. takesBack(Top)
  BY <1>2, <1>3 DEF takesBack, OnStack, Pages
<1>5. QED
  BY <1>2, <1>3, <1>4 DEF AdapterIInv, ExclusiveOwners

\* A held page can be freed: it is in the managed domain.
LEMMA HeldIsManaged ==
  ASSUME PmmIInv
  PROVE  held \subseteq 0..MANAGED_TOP /\ held \subseteq Nat
<1>1. held \subseteq 0..MANAGED_TOP
  BY DEF PmmIInv, NothingLost
<1>2. QED
  BY <1>1 DEF PmmIInv, PmmTypeOK

-----------------------------------------------------------------------------
(* Who owns what, of given lists of frames ow and direct frames d: the same
   facts are needed before and after a step. *)

Owners == Adapters \cup {Direct}

HoldsIn(ow, d, o, p) ==
  \/ o = Direct /\ p \in d
  \/ o \in Adapters /\ p \in Pages(ow[o])

OwnerIn(ow, d, p) ==
  IF p \in d THEN Direct
  ELSE IF \E a \in Adapters : p \in Pages(ow[a])
         THEN CHOOSE a \in Adapters : p \in Pages(ow[a])
  ELSE Nobody

\* No frame has two owners.
OneHolder(ow, d) ==
  /\ \A a, b \in Adapters : a # b => Pages(ow[a]) \cap Pages(ow[b]) = {}
  /\ \A a \in Adapters : Pages(ow[a]) \cap d = {}

\* The frames in the adapters' lists.
Frames(ow) == UNION {Pages(ow[a]) : a \in Adapters}

\* A frame is among them when an adapter lists it.
LEMMA InFrames ==
  ASSUME NEW ow, NEW x
  PROVE  x \in Frames(ow) <=> \E a \in Adapters : x \in Pages(ow[a])
BY DEF Frames

\* OwnerOf before and after a step, in these terms.
LEMMA OwnerOfIs ==
  /\ \A p : OwnerOf(p) = OwnerIn(owned, direct, p)
  /\ \A p : OwnerOf(p)' = OwnerIn(owned', direct', p)
BY DEF OwnerOf, OwnerIn, owns, OnStack, Pages

\* Then the owner of a frame is the one that holds it.
LEMMA OwnerHolds ==
  ASSUME NEW ow, NEW d, OneHolder(ow, d), NEW p
  PROVE  /\ \A o \in Owners : HoldsIn(ow, d, o, p) => OwnerIn(ow, d, p) = o
         /\ (\A o \in Owners : ~HoldsIn(ow, d, o, p)) => OwnerIn(ow, d, p) = Nobody
<1>1. ASSUME NEW o \in Owners, HoldsIn(ow, d, o, p) PROVE OwnerIn(ow, d, p) = o
  <2>1. CASE p \in d
    <3>1. o = Direct
      BY <1>1, <2>1 DEF HoldsIn, OneHolder
    <3>2. QED
      BY <2>1, <3>1 DEF OwnerIn
  <2>2. CASE p \notin d
    <3>1. o \in Adapters /\ p \in Pages(ow[o])
      BY <1>1, <2>2 DEF HoldsIn
    <3>2. \A a \in Adapters : p \in Pages(ow[a]) => a = o
      BY <3>1 DEF OneHolder
    <3>3. (CHOOSE a \in Adapters : p \in Pages(ow[a])) = o
      BY <3>1, <3>2
    <3>4. QED
      BY <2>2, <3>1, <3>3 DEF OwnerIn
  <2>3. QED
    BY <2>1, <2>2
<1>2. ASSUME \A o \in Owners : ~HoldsIn(ow, d, o, p) PROVE OwnerIn(ow, d, p) = Nobody
  BY <1>2 DEF HoldsIn, Owners, OwnerIn
<1>3. QED
  BY <1>1, <1>2

\* A frame nobody held that one owner holds afterwards is a Take.
LEMMA TakeStep ==
  ASSUME OneHolder(owned, direct), OneHolder(owned', direct'),
         NEW o \in Owners, NEW f \in 0..MANAGED_TOP,
         \A c \in Owners : ~HoldsIn(owned, direct, c, f),
         \A c \in Owners, p \in 0..MANAGED_TOP :
           HoldsIn(owned', direct', c, p) <=>
             HoldsIn(owned, direct, c, p) \/ (c = o /\ p = f)
  PROVE  Ownership!Next
<1>1. OwnerIn(owned, direct, f) = Nobody
  BY OwnerHolds
<1>2. OwnerIn(owned', direct', f) = o
  BY OwnerHolds
<1>3. ASSUME NEW p \in 0..MANAGED_TOP, p # f
      PROVE  OwnerIn(owned', direct', p) = OwnerIn(owned, direct, p)
  <2>1. CASE \E c \in Owners : HoldsIn(owned, direct, c, p)
    BY <1>3, <2>1, OwnerHolds
  <2>2. CASE ~\E c \in Owners : HoldsIn(owned, direct, c, p)
    BY <1>3, <2>2, OwnerHolds
  <2>3. QED
    BY <2>1, <2>2
<1>4. Ownership!Take(o, f)
  BY <1>1, <1>2, <1>3, OwnerOfIs DEF Ownership!Take
<1>5. QED
  BY <1>4 DEF Ownership!Next, Owners

\* A frame that its owner gives up, every other holding unchanged, is a GiveBack.
LEMMA GiveBackStep ==
  ASSUME OneHolder(owned, direct), OneHolder(owned', direct'),
         NEW o \in Owners, NEW f \in 0..MANAGED_TOP,
         HoldsIn(owned, direct, o, f),
         \A c \in Owners : ~HoldsIn(owned', direct', c, f),
         \A c \in Owners, p \in 0..MANAGED_TOP :
           p # f => (HoldsIn(owned', direct', c, p) <=> HoldsIn(owned, direct, c, p))
  PROVE  Ownership!Next
<1>1. OwnerIn(owned, direct, f) = o
  BY OwnerHolds
<1>2. OwnerIn(owned', direct', f) = Nobody
  BY OwnerHolds
<1>3. ASSUME NEW p \in 0..MANAGED_TOP, p # f
      PROVE  OwnerIn(owned', direct', p) = OwnerIn(owned, direct, p)
  <2>1. CASE \E c \in Owners : HoldsIn(owned, direct, c, p)
    BY <1>3, <2>1, OwnerHolds
  <2>2. CASE ~\E c \in Owners : HoldsIn(owned, direct, c, p)
    BY <1>3, <2>2, OwnerHolds
  <2>3. QED
    BY <2>1, <2>2
<1>4. Ownership!GiveBack(o, f)
  BY <1>1, <1>2, <1>3, OwnerOfIs DEF Ownership!GiveBack
<1>5. QED
  BY <1>4 DEF Ownership!Next, Owners

\* A step that leaves the lists alone leaves every owner alone.
LEMMA SameOwners ==
  ASSUME UNCHANGED <<owned, direct>>
  PROVE  UNCHANGED [p \in 0..MANAGED_TOP |-> OwnerOf(p)]
BY DEF OwnerOf, owns, OnStack

-----------------------------------------------------------------------------
(* One lemma per operation: the invariant is kept, and the step is one of the
   ownership discipline or leaves every owner alone. *)

\* What the two ends of a step owe: the invariant, and an ownership step.
StepKeeps ==
  /\ AdapterIInv'
  /\ [Ownership!Next]_([p \in 0..MANAGED_TOP |-> OwnerOf(p)])

\* ExclusiveOwners across a step that leaves the clients' frames alone.
LEMMA SameFrames ==
  ASSUME AdapterIInv, PmmIInv', UNCHANGED <<owned, direct>>, held' = held,
         DefencesNeverFire'
  PROVE  AdapterIInv'
BY DEF AdapterIInv, AdapterTypeOK, ExclusiveOwners

\* init runs only when no client holds a frame (main.zig), so the reset takes
\* none away.
LEMMA BootKeeps ==
  ASSUME AdapterIInv, Boot
  PROVE  StepKeeps
<1>1. InitNext /\ UNCHANGED <<owned, direct, last>> /\ direct = {}
      /\ \A a \in Adapters : owned[a] = << >>
  BY DEF Boot
<1>2. PmmIInv'
  BY <1>1, InitBeginKeeps, InitRangeKeeps, InitPushKeeps, InitPublishKeeps
     DEF InitNext, AdapterIInv
<1>3. held = {}
  <2>1. \A a \in Adapters : Pages(owned[a]) = {}
    BY <1>1 DEF Pages
  <2>2. QED
    BY <1>1, <2>1 DEF AdapterIInv, ExclusiveOwners
<1>4. held' = held
  BY <1>1, <1>3 DEF InitNext, InitBegin, reset, InitRange, InitPush, InitPublish, InitFail
<1>5. DefencesNeverFire'
  BY <1>1 DEF AdapterIInv, DefencesNeverFire, owns, OnStack
<1>6. QED
  BY <1>1, <1>2, <1>4, <1>5, SameFrames, SameOwners DEF StepKeeps

\* ExclusiveOwners, in the terms of the lemmas above.
LEMMA ExclusiveIs ==
  ExclusiveOwners <=> /\ \A a \in Adapters : Injective(owned[a])
                      /\ OneHolder(owned, direct)
                      /\ held = direct \cup Frames(owned)
BY DEF ExclusiveOwners, Injective, OneHolder, Frames

\* An adapter that appends a fresh frame other than zero to its list.
LEMMA RecordKeeps ==
  ASSUME AdapterIInv, NEW a \in Adapters, canAlloc, allocPage, Record1(a, Top), Top # 0,
         UNCHANGED direct, last' = <<a, "frame">>
  PROVE  StepKeeps
<1> DEFINE f == Top
<1>1. /\ f \in Nat /\ f \in 0..MANAGED_TOP /\ f \notin direct
      /\ \A b \in Adapters : f \notin Pages(owned[b])
  BY TopIsFresh
<1>2. /\ owned \in [Adapters -> Seq(Nat)] /\ direct \subseteq Nat /\ PmmIInv
      /\ ExclusiveOwners /\ DefencesNeverFire
  BY DEF AdapterIInv, AdapterTypeOK
<1>3. PmmIInv'
  BY <1>2, AllocKeeps
<1>4. /\ owned' = [owned EXCEPT ![a] = Append(owned[a], f)]
      /\ held' = held \cup {f}
  BY DEF Record1, allocPage
<1>5. /\ owned'[a] \in Seq(Nat) /\ Injective(owned'[a])
      /\ Pages(owned'[a]) = Pages(owned[a]) \cup {f}
      /\ \A b \in Adapters : b # a => owned'[b] = owned[b]
  <2>1. owned'[a] = Append(owned[a], f) /\ owned[a] \in Seq(Nat) /\ Injective(owned[a])
    BY <1>2, <1>4, ExclusiveIs
  <2>2. QED
    BY <1>1, <1>2, <1>4, <2>1, PushStack
<1>6. owned' \in [Adapters -> Seq(Nat)]
  <2>1. owned' = [b \in Adapters |-> owned'[b]]
    BY <1>2, <1>4
  <2>2. \A b \in Adapters : owned'[b] \in Seq(Nat)
    BY <1>2, <1>5
  <2>3. QED
    BY <2>1, <2>2
<1> HIDE DEF f
<1>7. OneHolder(owned, direct) /\ OneHolder(owned', direct')
  <2>1. OneHolder(owned, direct)
    BY <1>2, ExclusiveIs
  <2>2. \A b \in Adapters : b # a => Pages(owned'[b]) = Pages(owned[b])
    BY <1>5
  <2>3. ASSUME NEW b \in Adapters, NEW c \in Adapters, b # c
        PROVE  Pages(owned'[b]) \cap Pages(owned'[c]) = {}
    <3>1. Pages(owned[b]) \cap Pages(owned[c]) = {}
      BY <2>1, <2>3 DEF OneHolder
    <3>2. \A e \in {b, c} : /\ f \notin Pages(owned[e])
                            /\ Pages(owned'[e]) = IF e = a THEN Pages(owned[e]) \cup {f}
                                                  ELSE Pages(owned[e])
      BY <1>1, <1>5, <2>2
    <3>3. QED
      BY <2>3, <3>1, <3>2
  <2>4. ASSUME NEW b \in Adapters PROVE Pages(owned'[b]) \cap direct' = {}
    BY <1>1, <1>5, <2>1, <2>2 DEF OneHolder
  <2>5. QED
    BY <2>1, <2>3, <2>4 DEF OneHolder
<1>8. Frames(owned') = Frames(owned) \cup {f}
  BY <1>5, InFrames
<1>9. ExclusiveOwners'
  <2>1. \A b \in Adapters : Injective(owned'[b])
    BY <1>2, <1>5, ExclusiveIs
  <2>2. held' = direct' \cup Frames(owned')
    BY <1>2, <1>4, <1>8, ExclusiveIs
  <2>3. QED
    BY <1>7, <2>1, <2>2 DEF ExclusiveOwners, Injective, OneHolder, Frames
<1>10. DefencesNeverFire'
  <2>1. \A b \in Adapters : 0 \notin Pages(owned[b])
    BY <1>2, OwnsIsMember DEF DefencesNeverFire
  <2>2. \A b \in Adapters : 0 \notin Pages(owned'[b])
    BY <1>5, <2>1 DEF f
  <2>3. QED
    BY <2>2 DEF DefencesNeverFire, owns, OnStack, Pages
<1>11. AdapterIInv'
  BY <1>2, <1>3, <1>6, <1>9, <1>10 DEF AdapterIInv, AdapterTypeOK
<1>12. Ownership!Next
  <2>1. a \in Owners /\ \A c \in Owners : ~HoldsIn(owned, direct, c, f)
    BY <1>1 DEF HoldsIn, Owners
  <2>2. \A c \in Owners, p \in 0..MANAGED_TOP :
          HoldsIn(owned', direct', c, p) <=>
            HoldsIn(owned, direct, c, p) \/ (c = a /\ p = f)
    BY <1>5, AdaptersAssumption DEF HoldsIn, Owners
  <2>3. QED
    BY <1>1, <1>7, <2>1, <2>2, TakeStep
<1>13. QED
  BY <1>11, <1>12 DEF StepKeeps

\* allocPage of an adapter: whatever it returns, a frame is recorded exactly
\* when it left the allocator.
LEMMA AllocKeepsOwners ==
  ASSUME AdapterIInv, NEW a \in Adapters,
         AllocOutOfMemory(a) \/ AllocZero(a) \/ AllocFrame(a)
  PROVE  StepKeeps
<1>1. ASSUME UNCHANGED <<pmmVars, owned, direct>>,
             last'[2] \notin {"zero", "ReservedFrame", "DuplicateFrame"}
      PROVE  StepKeeps
  <2>1. PmmIInv' /\ held' = held
    BY <1>1 DEF AdapterIInv, pmmVars, PmmIInv, PmmTypeOK, LoopInv, PublishedInv, NoAlias,
                NothingLost, isAllocatable, Accounting
  <2>2. DefencesNeverFire'
    BY <1>1 DEF AdapterIInv, DefencesNeverFire, owns, OnStack
  <2>3. QED
    BY <1>1, <2>1, <2>2, SameFrames, SameOwners DEF StepKeeps
<1>2. CASE AllocOutOfMemory(a)
  BY <1>1, <1>2 DEF AllocOutOfMemory
<1>3. CASE AllocZero(a)
  <2>1. canAlloc /\ Top = 0
    BY <1>3 DEF AllocZero
  <2>2. takesBack(0)
    BY <2>1, TopIsFresh
  <2>3. UNCHANGED <<pmmVars, owned, direct>> /\ last' = <<a, "PhysicalZero">>
    BY <1>3, <2>2 DEF AllocZero
  <2>4. QED
    BY <1>1, <2>3
<1>4. CASE AllocFrame(a)
  <2>1. canAlloc /\ Top # 0
    BY <1>4 DEF AllocFrame
  <2>2. isAllocatable(Top) /\ ~owns(a, Top)
    BY <2>1, TopIsFresh, OwnsIsMember
  <2>3. allocPage /\ Record1(a, Top) /\ last' = <<a, "frame">> /\ UNCHANGED direct
    BY <1>4, <2>2 DEF AllocFrame
  <2>4. QED
    BY <2>1, <2>3, RecordKeeps
<1>5. QED
  BY <1>2, <1>3, <1>4

\* freePage of an adapter takes exactly the freed frame out of its list.
LEMMA FreeKeepsOwners ==
  ASSUME AdapterIInv, NEW a \in Adapters, NEW f \in 0..MANAGED_TOP, FreeFrame(a, f)
  PROVE  StepKeeps
<1> DEFINE s == owned[a]
           k == indexOf(a, f)
<1>1. /\ owned \in [Adapters -> Seq(Nat)] /\ direct \subseteq Nat /\ PmmIInv
      /\ ExclusiveOwners /\ DefencesNeverFire
  BY DEF AdapterIInv, AdapterTypeOK
<1>2. /\ owns(a, f) /\ freePage(f) /\ UNCHANGED direct /\ last' = <<a, "freed">>
      /\ owned' = [owned EXCEPT ![a] = swapRemove(s, k)]
  BY DEF FreeFrame
<1>3. PmmIInv' /\ held' = held \ {f}
  BY <1>1, <1>2, FreeKeeps DEF freePage
<1>4. k \in 1..Len(s) /\ s[k] = f
  BY <1>2 DEF owns, OnStack, indexOf
<1>5. s \in Seq(Nat) /\ Injective(s)
  BY <1>1, ExclusiveIs
<1>6. /\ owned'[a] = swapRemove(s, k)
      /\ \A b \in Adapters : b # a => owned'[b] = owned[b]
      /\ owned' = [b \in Adapters |-> owned'[b]]
  BY <1>1, <1>2
<1> HIDE DEF s, k
<1>7. /\ owned'[a] \in Seq(Nat) /\ Injective(owned'[a])
      /\ Pages(owned'[a]) = Pages(owned[a]) \ {f}
  BY <1>4, <1>5, <1>6, SwapRemove DEF s
<1>8. owned' \in [Adapters -> Seq(Nat)]
  <2>1. \A b \in Adapters : owned'[b] \in Seq(Nat)
    BY <1>1, <1>6, <1>7
  <2>2. QED
    BY <1>6, <2>1
<1>9. f \in Pages(owned[a]) /\ f \notin direct
      /\ \A b \in Adapters : b # a => f \notin Pages(owned[b])
  BY <1>1, <1>2, OwnsIsMember DEF ExclusiveOwners
<1>10. OneHolder(owned, direct) /\ OneHolder(owned', direct')
  BY <1>1, <1>2, <1>6, <1>7, ExclusiveIs DEF OneHolder
<1>11. Frames(owned') = Frames(owned) \ {f}
  BY <1>6, <1>7, <1>9, InFrames
<1>12. ExclusiveOwners'
  <2>1. \A b \in Adapters : Injective(owned'[b])
    BY <1>1, <1>6, <1>7, ExclusiveIs
  <2>2. held' = direct' \cup Frames(owned')
    BY <1>1, <1>2, <1>3, <1>9, <1>11, ExclusiveIs
  <2>3. QED
    BY <1>10, <2>1, <2>2 DEF ExclusiveOwners, Injective, OneHolder, Frames
<1>13. DefencesNeverFire'
  <2>1. \A b \in Adapters : 0 \notin Pages(owned[b])
    BY <1>1, OwnsIsMember DEF DefencesNeverFire
  <2>2. \A b \in Adapters : 0 \notin Pages(owned'[b])
    BY <1>6, <1>7, <2>1
  <2>3. QED
    BY <1>2, <2>2 DEF DefencesNeverFire, owns, OnStack, Pages
<1>14. AdapterIInv'
  BY <1>1, <1>2, <1>3, <1>8, <1>12, <1>13 DEF AdapterIInv, AdapterTypeOK
<1>15. Ownership!Next
  <2>1. a \in Owners /\ HoldsIn(owned, direct, a, f)
    BY <1>9 DEF HoldsIn, Owners
  <2>2. \A c \in Owners : ~HoldsIn(owned', direct', c, f)
    BY <1>2, <1>6, <1>7, <1>9, AdaptersAssumption DEF HoldsIn, Owners
  <2>3. \A c \in Owners, p \in 0..MANAGED_TOP :
          p # f => (HoldsIn(owned', direct', c, p) <=> HoldsIn(owned, direct, c, p))
    BY <1>2, <1>6, <1>7, AdaptersAssumption DEF HoldsIn, Owners
  <2>4. QED
    BY <1>10, <2>1, <2>2, <2>3, GiveBackStep
<1>16. QED
  BY <1>14, <1>15 DEF StepKeeps

\* A refused free changes nothing.
LEMMA RefusedKeeps ==
  ASSUME AdapterIInv, NEW a \in Adapters, NEW f, FreeRefused(a, f)
  PROVE  StepKeeps
<1>1. UNCHANGED <<pmmVars, owned, direct>> /\ last' = <<a, "refused">>
  BY DEF FreeRefused
<1>2. PmmIInv' /\ held' = held
  BY <1>1 DEF AdapterIInv, pmmVars, PmmIInv, PmmTypeOK, LoopInv, PublishedInv, NoAlias,
              NothingLost, isAllocatable, Accounting
<1>3. DefencesNeverFire'
  BY <1>1 DEF AdapterIInv, DefencesNeverFire, owns, OnStack
<1>4. QED
  BY <1>1, <1>2, <1>3, SameFrames, SameOwners DEF StepKeeps

\* The direct client's allocation gives it a frame nobody holds.
LEMMA DirectAllocKeeps ==
  ASSUME AdapterIInv, DirectAlloc
  PROVE  StepKeeps
<1> DEFINE f == Top
<1>1. canAlloc /\ allocPage /\ direct' = direct \cup {f} /\ UNCHANGED <<owned, last>>
  BY DEF DirectAlloc, allocPage
<1>2. /\ f \in Nat /\ f \in 0..MANAGED_TOP /\ f \notin direct
      /\ \A b \in Adapters : f \notin Pages(owned[b])
  BY <1>1, TopIsFresh
<1>3. /\ owned \in [Adapters -> Seq(Nat)] /\ direct \subseteq Nat /\ PmmIInv
      /\ ExclusiveOwners /\ DefencesNeverFire
  BY DEF AdapterIInv, AdapterTypeOK
<1>4. PmmIInv' /\ held' = held \cup {f}
  BY <1>1, <1>3, AllocKeeps DEF allocPage
<1> HIDE DEF f
<1>5. OneHolder(owned, direct) /\ OneHolder(owned', direct')
  BY <1>1, <1>2, <1>3, ExclusiveIs DEF OneHolder
<1>6. ExclusiveOwners'
  <2>1. held' = direct' \cup Frames(owned')
    BY <1>1, <1>3, <1>4, ExclusiveIs
  <2>2. \A b \in Adapters : Injective(owned'[b])
    BY <1>1, <1>3, ExclusiveIs
  <2>3. QED
    BY <1>5, <2>1, <2>2 DEF ExclusiveOwners, Injective, OneHolder, Frames
<1>7. DefencesNeverFire'
  BY <1>1, <1>3 DEF DefencesNeverFire, owns, OnStack
<1>8. AdapterIInv'
  BY <1>1, <1>2, <1>3, <1>4, <1>6, <1>7 DEF AdapterIInv, AdapterTypeOK
<1>9. Ownership!Next
  <2>1. Direct \in Owners /\ \A c \in Owners : ~HoldsIn(owned, direct, c, f)
    BY <1>2 DEF HoldsIn, Owners
  <2>2. \A c \in Owners, p \in 0..MANAGED_TOP :
          HoldsIn(owned', direct', c, p) <=>
            HoldsIn(owned, direct, c, p) \/ (c = Direct /\ p = f)
    BY <1>1, AdaptersAssumption DEF HoldsIn, Owners
  <2>3. QED
    BY <1>2, <1>5, <2>1, <2>2, TakeStep
<1>10. QED
  BY <1>8, <1>9 DEF StepKeeps

\* The direct client frees a frame it holds.
LEMMA DirectFreeKeeps ==
  ASSUME AdapterIInv, NEW f \in direct, DirectFree(f)
  PROVE  StepKeeps
<1>1. freePage(f) /\ direct' = direct \ {f} /\ UNCHANGED <<owned, last>>
  BY DEF DirectFree
<1>2. /\ owned \in [Adapters -> Seq(Nat)] /\ direct \subseteq Nat /\ PmmIInv
      /\ ExclusiveOwners /\ DefencesNeverFire
  BY DEF AdapterIInv, AdapterTypeOK
<1>3. f \in 0..MANAGED_TOP
  BY <1>2, HeldIsManaged DEF ExclusiveOwners
<1>4. PmmIInv' /\ held' = held \ {f}
  BY <1>1, <1>2, <1>3, FreeKeeps DEF freePage
<1>5. \A b \in Adapters : f \notin Pages(owned[b])
  BY <1>2 DEF ExclusiveOwners
<1>6. OneHolder(owned, direct) /\ OneHolder(owned', direct')
  BY <1>1, <1>2, ExclusiveIs DEF OneHolder
<1>7. ExclusiveOwners'
  <2>1. held' = direct' \cup Frames(owned')
    <3>1. held = direct \cup Frames(owned) /\ f \notin Frames(owned)
      BY <1>2, <1>5, ExclusiveIs, InFrames
    <3>2. QED
      BY <1>1, <1>4, <3>1
  <2>2. \A b \in Adapters : Injective(owned'[b])
    BY <1>1, <1>2, ExclusiveIs
  <2>3. QED
    BY <1>6, <2>1, <2>2 DEF ExclusiveOwners, Injective, OneHolder, Frames
<1>8. DefencesNeverFire'
  BY <1>1, <1>2 DEF DefencesNeverFire, owns, OnStack
<1>9. AdapterIInv'
  BY <1>1, <1>2, <1>4, <1>7, <1>8 DEF AdapterIInv, AdapterTypeOK
<1>10. Ownership!Next
  <2>1. Direct \in Owners /\ HoldsIn(owned, direct, Direct, f)
    BY DEF HoldsIn, Owners
  <2>2. \A c \in Owners : ~HoldsIn(owned', direct', c, f)
    BY <1>1, <1>5 DEF HoldsIn, Owners
  <2>3. \A c \in Owners, p \in 0..MANAGED_TOP :
          p # f => (HoldsIn(owned', direct', c, p) <=> HoldsIn(owned, direct, c, p))
    BY <1>1 DEF HoldsIn, Owners
  <2>4. QED
    BY <1>3, <1>6, <2>1, <2>2, <2>3, GiveBackStep
<1>11. QED
  BY <1>9, <1>10 DEF StepKeeps

-----------------------------------------------------------------------------
(* The theorems. *)

\* Before the first call nobody holds a frame.
LEMMA AdapterInitHolds ==
  AdapterInit => AdapterIInv /\ Ownership!Init
<1> SUFFICES ASSUME AdapterInit PROVE AdapterIInv /\ Ownership!Init
  OBVIOUS
<1>1. /\ PmmIInv /\ held = {} /\ direct = {} /\ last = << >>
      /\ owned = [a \in Adapters |-> << >>]
  BY InitHolds DEF AdapterInit, PmmInit
<1>2. \A a \in Adapters : owned[a] = << >> /\ Pages(owned[a]) = {}
  BY <1>1 DEF Pages
<1>3. AdapterTypeOK
  BY <1>1 DEF AdapterTypeOK
<1>4. ExclusiveOwners
  <2>1. UNION {Pages(owned[a]) : a \in Adapters} = {}
    BY <1>2
  <2>2. \A a \in Adapters : Len(owned[a]) = 0
    BY <1>2
  <2>3. QED
    BY <1>1, <1>2, <2>1, <2>2 DEF ExclusiveOwners
<1>5. DefencesNeverFire
  BY <1>1, <1>2, OwnsIsMember DEF DefencesNeverFire
<1>6. \A p : OwnerOf(p) = Nobody
  BY <1>1, <1>2, OwnsIsMember DEF OwnerOf
<1>7. Ownership!Init
  BY <1>6 DEF Ownership!Init
<1>8. QED
  BY <1>1, <1>3, <1>4, <1>5, <1>7 DEF AdapterIInv

\* Every step of the kernel's boot, of the direct client or of an adapter keeps
\* the invariant and is a step of the ownership discipline.
LEMMA AdapterStep ==
  AdapterIInv /\ [AdapterNext]_vars => StepKeeps
<1> SUFFICES ASSUME AdapterIInv, [AdapterNext]_vars PROVE StepKeeps
  OBVIOUS
<1>1. CASE UNCHANGED vars
  <2>1. UNCHANGED <<pmmVars, owned, direct, last>>
    BY <1>1 DEF vars
  <2>2. PmmIInv' /\ held' = held
    BY <2>1 DEF AdapterIInv, pmmVars, PmmIInv, PmmTypeOK, LoopInv, PublishedInv, NoAlias,
                NothingLost, isAllocatable, Accounting
  <2>3. DefencesNeverFire'
    BY <2>1 DEF AdapterIInv, DefencesNeverFire, owns, OnStack
  <2>4. QED
    BY <2>1, <2>2, <2>3, SameFrames, SameOwners DEF StepKeeps
<1>2. CASE Boot
  BY <1>2, BootKeeps
<1>3. CASE DirectAlloc
  BY <1>3, DirectAllocKeeps
<1>4. CASE \E p \in direct : DirectFree(p)
  BY <1>4, DirectFreeKeeps
<1>5. CASE \E a \in Adapters : AllocOutOfMemory(a) \/ AllocZero(a) \/ AllocFrame(a)
  BY <1>5, AllocKeepsOwners
<1>6. CASE \E a \in Adapters : \E p \in 0..MANAGED_TOP : FreeFrame(a, p) \/ FreeRefused(a, p)
  BY <1>6, FreeKeepsOwners, RefusedKeeps
<1>7. QED
  BY <1>1, <1>2, <1>3, <1>4, <1>5, <1>6 DEF AdapterNext

\* AdapterIInv holds in every reachable state of the allocator and its clients.
THEOREM AdapterInvariant == AdapterSpec => []AdapterIInv
<1>1. AdapterIInv /\ [AdapterNext]_vars => AdapterIInv'
  BY AdapterStep DEF StepKeeps
<1>2. AdapterInit => AdapterIInv
  BY AdapterInitHolds
<1>3. QED
  BY <1>1, <1>2, PTL DEF AdapterSpec

\* A frame has one owner, is listed once, and the allocator's pages out are
\* exactly the clients' frames, for any number of adapters and any capacity
\* (user_vm_pmm.zig allocPage, freePage).
THEOREM FramesHaveOneOwner == AdapterSpec => []ExclusiveOwners
<1>1. AdapterIInv => ExclusiveOwners
  BY DEF AdapterIInv
<1>2. QED
  BY <1>1, AdapterInvariant, PTL

\* No adapter ever keeps frame zero, and no popped frame is reserved or already
\* owned: the error returns that would drop a frame are never taken.
THEOREM AdapterDefencesIdle == AdapterSpec => []DefencesNeverFire
<1>1. AdapterIInv => DefencesNeverFire
  BY DEF AdapterIInv
<1>2. QED
  BY <1>1, AdapterInvariant, PTL

\* The allocator with its adapters implements the ownership discipline: a frame
\* changes hands only through the free pool and only its owner returns it.
THEOREM AdaptersImplementOwnership == AdapterSpec => RefinesOwnership
<1>1. AdapterInit => Ownership!Init
  BY AdapterInitHolds
<1>2. AdapterIInv /\ [AdapterNext]_vars =>
        [Ownership!Next]_([p \in 0..MANAGED_TOP |-> OwnerOf(p)])
  BY AdapterStep DEF StepKeeps
<1>3. QED
  BY <1>1, <1>2, AdapterInvariant, PTL DEF AdapterSpec, RefinesOwnership, Ownership!Spec
=============================================================================
