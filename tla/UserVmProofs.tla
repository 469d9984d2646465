---------------------------- MODULE UserVmProofs ----------------------------
(***************************************************************************)
(* Proofs about the ELF planner and about construction and teardown of an  *)
(* address space: a plan fits the page-table budget and its copies are     *)
(* exact; frames are conserved through every call, fault and refused       *)
(* release, a failure names what is still out, an active root is never     *)
(* torn down; and a ready space maps exactly its plan and the stack.  For  *)
(* any image, template, journal length, provider and number of faults.     *)
(***************************************************************************)
EXTENDS UserVm, ElfPlan, FiniteSetTheorems, NaturalsInduction, WellFoundedInduction,
        SequenceTheorems, FunctionTheorems, TLAPS

-----------------------------------------------------------------------------
(* Numbers. *)

\* A set of naturals that is not empty has a least element.
LEMMA LeastNat ==
  ASSUME NEW S, S \subseteq Nat, S # {}
  PROVE  \E n \in S : \A m \in S : n <= m
<1>1. PICK n \in S : \A m \in S : ~(<<m, n>> \in OpToRel(<, Nat))
  BY NatLessThanWellFounded, WFMin
<1>2. \A m \in S : ~(m < n)
  BY <1>1 DEF OpToRel
<1> QED
  BY <1>2

\* What holds at 0, and at k when at k - 1, holds up to n.
LEMMA UpTo ==
  ASSUME NEW n \in Nat, NEW S, 0 \in S, \A k \in 1..n : k - 1 \in S => k \in S
  PROVE  \A k \in 0..n : k \in S
<1>1. SUFFICES ASSUME NEW m \in 0..n, m \notin S PROVE FALSE
  OBVIOUS
<1> DEFINE Bad == {k \in 0..n : k \notin S}
<1>2. Bad \subseteq Nat /\ Bad # {}
  BY <1>1
<1>3. PICK k \in Bad : \A j \in Bad : k <= j
  BY <1>2, LeastNat
<1>4. k \in 1..n /\ k - 1 \in 0..n /\ ~(k <= k - 1)
  BY <1>3
<1>5. k - 1 \notin Bad
  BY <1>3, <1>4
<1> QED
  BY <1>3, <1>4, <1>5

-----------------------------------------------------------------------------
(* The planner's segments. *)

PlanSegment == [file_off : Nat, filesz : Nat, vaddr : Nat, flags : SUBSET STRING,
            map_start : Nat, map_end : Nat]

LEMMA FloorDoes ==
  ASSUME NEW a \in Nat
  PROVE  pageFloor(a) \in Nat /\ pageFloor(a) <= a /\ pageFloor(a) % PAGE = 0
<1>1. PICK p : p = PAGE
  OBVIOUS
<1>2. p \in Nat \ {0}
  BY <1>1, ElfAssumption
<1>3. PICK q : q = a \div p
  OBVIOUS
<1>4. q \in Nat /\ a = p * q + (a % p) /\ a % p \in 0..(p - 1)
  BY <1>2, <1>3
<1>5. PICK r \in 0..(p - 1), x \in Nat : r = a % p /\ x = p * q
  BY <1>2, <1>4
<1>6. a - r = x
  BY <1>4, <1>5
<1>7. x % p = 0
  <2>1. ASSUME NEW m \in Nat PROVE (m * p) % p = 0
    BY <1>2
  <2>2. x = q * p
    BY <1>2, <1>4, <1>5
  <2> QED
    BY <1>4, <2>1, <2>2
<1>8. pageFloor(a) = x
  BY <1>1, <1>5, <1>6 DEF pageFloor
<1> QED
  BY <1>1, <1>2, <1>4, <1>5, <1>6, <1>7, <1>8

LEMMA SegmentDoes ==
  ASSUME NEW ph \in Phdr
  PROVE  /\ segment(ph) \in PlanSegment
         /\ segment(ph).file_off = ph.offset /\ segment(ph).filesz = ph.filesz
         /\ segment(ph).vaddr = ph.vaddr /\ segment(ph).flags = ph.flags
         /\ segment(ph).map_start % PAGE = 0 /\ segment(ph).map_end % PAGE = 0
         /\ segment(ph).map_end = alignUpPage(ph.vaddr + ph.memsz)
<1>1. /\ ph.offset \in Nat /\ ph.filesz \in Nat /\ ph.vaddr \in Nat /\ ph.memsz \in Nat
      /\ ph.flags \in SUBSET STRING
  BY DEF Phdr
<1>2. PICK lo, hi : lo = pageFloor(ph.vaddr) /\ hi = alignUpPage(ph.vaddr + ph.memsz)
  OBVIOUS
<1>3. lo \in Nat /\ lo % PAGE = 0
  BY <1>1, <1>2, FloorDoes
<1>4. hi \in Nat /\ hi % PAGE = 0
  <2>1. PICK e : e = ph.vaddr + ph.memsz + PAGE - 1
    OBVIOUS
  <2>2. e \in Nat
    BY <1>1, <2>1, ElfAssumption
  <2>3. hi = pageFloor(e)
    BY <1>2, <2>1 DEF alignUpPage
  <2> QED
    BY <2>2, <2>3, FloorDoes
<1>5. PICK s : s = segment(ph)
  OBVIOUS
<1>6. s = [file_off |-> ph.offset, filesz |-> ph.filesz, vaddr |-> ph.vaddr, flags |-> ph.flags,
           map_start |-> lo, map_end |-> hi]
  BY <1>2, <1>5 DEF segment
<1>7. s \in PlanSegment
  BY <1>1, <1>3, <1>4, <1>6 DEF PlanSegment
<1> QED
  BY <1>2, <1>3, <1>4, <1>5, <1>6, <1>7

\* Every segment of a plan is that of a PT_LOAD header.
LEMMA SegmentsDo ==
  ASSUME NEW im \in ElfImage
  PROVE  /\ segments(im) \in Seq(PlanSegment)
         /\ \A i \in 1..Len(segments(im)) : \E k \in 1..Len(im.phdrs) :
              isLoad(im.phdrs[k]) /\ segments(im)[i] = segment(im.phdrs[k])
<1>1. PICK ps, n : ps = im.phdrs /\ n = Len(im.phdrs)
  OBVIOUS
<1>2. ps \in Seq(Phdr) /\ n = Len(ps) /\ n \in Nat /\ \A k \in 1..n : ps[k] \in Phdr
  <2>1. ps \in Seq(Phdr)
    BY <1>1 DEF ElfImage
  <2> QED
    BY <1>1, <2>1
<1> DEFINE Add(s, ph) == IF isLoad(ph) THEN Append(s, segment(ph)) ELSE s
           Lists(h, m) ==
             /\ h = [k \in 0..m |-> h[k]] /\ h[0] = << >>
             /\ \A k \in 1..m : h[k] = Add(h[k - 1], ps[k])
           Step(h) == h = [k \in 0..n |-> IF k = 0 THEN << >> ELSE Add(h[k - 1], ps[k])]
           Have == {m \in 0..n : \E h : Lists(h, m)}
<1> HIDE DEF Add
<1>3. 0 \in Have
  <2>1. PICK h : h = [k \in 0..0 |-> << >>]
    OBVIOUS
  <2>2. Lists(h, 0)
    BY <2>1
  <2> HIDE DEF Lists
  <2> QED
    BY <1>2, <2>2
<1>4. ASSUME NEW m \in 1..n, m - 1 \in Have PROVE m \in Have
  <2>1. m - 1 \in 0..n /\ m \in 0..n /\ m \in Nat
    BY <1>2
  <2>2. PICK g : Lists(g, m - 1)
    BY <1>4
  <2>3. PICK h : h = [k \in 0..m |-> IF k = m THEN Add(g[m - 1], ps[m]) ELSE g[k]]
    OBVIOUS
  <2>4. h = [k \in 0..m |-> h[k]]
    BY <2>3
  <2>5. h[0] = << >>
    BY <2>1, <2>2, <2>3
  <2>6. ASSUME NEW k \in 1..m PROVE h[k] = Add(h[k - 1], ps[k])
    <3>1. k \in 0..m /\ k - 1 \in 0..m /\ k - 1 # m
      BY <2>1
    <3>2. h[k - 1] = g[k - 1]
      BY <2>3, <3>1
    <3>3. CASE k = m
      BY <2>3, <3>1, <3>2, <3>3
    <3>4. CASE k # m
      <4>1. k \in 1..(m - 1)
        BY <3>4, <2>1
      <4>2. g[k] = Add(g[k - 1], ps[k]) /\ h[k] = g[k]
        BY <2>2, <2>3, <3>1, <3>4, <4>1
      <4> QED
        BY <3>2, <4>2
    <3> QED
      BY <3>3, <3>4
  <2>7. Lists(h, m)
    BY <2>4, <2>5, <2>6
  <2> HIDE DEF Lists
  <2> QED
    BY <2>1, <2>7
<1>5. n \in Have
  <2> HIDE DEF Have
  <2>1. \A k \in 0..n : k \in Have
    BY <1>2, <1>3, <1>4, UpTo
  <2> QED
    BY <1>2, <2>1
<1>6. PICK g : Lists(g, n)
  BY <1>5
<1>7. Step(g)
  <2>1. \A k \in 0..n : k = 0 \/ k \in 1..n
    BY <1>2
  <2> QED
    BY <1>6, <2>1
<1>8. PICK f : f = CHOOSE h : Step(h)
  OBVIOUS
<1>9. Step(f)
  BY <1>7, <1>8
<1>10. segments(im) = f[n]
  BY <1>1, <1>8 DEF segments, Add
<1>11. f[0] = << >> /\ \A k \in 1..n : f[k] = Add(f[k - 1], ps[k])
  BY <1>2, <1>9
<1> DEFINE FromLoads(s) ==
             /\ s \in Seq(PlanSegment)
             /\ \A i \in 1..Len(s) : \E k \in 1..n : isLoad(ps[k]) /\ s[i] = segment(ps[k])
           Good == {k \in 0..n : FromLoads(f[k])}
<1>12. 0 \in Good
  <2>1. FromLoads(<< >>)
    OBVIOUS
  <2> HIDE DEF FromLoads
  <2>2. FromLoads(f[0]) /\ 0 \in 0..n
    BY <1>2, <1>11, <2>1
  <2> QED
    BY <2>2
<1>13. ASSUME NEW s, NEW k \in 1..n, FromLoads(s) PROVE FromLoads(Add(s, ps[k]))
  <2>1. CASE ~isLoad(ps[k])
    BY <1>13, <2>1 DEF Add
  <2>2. CASE isLoad(ps[k])
    <3>1. PICK e : e = segment(ps[k])
      OBVIOUS
    <3>2. e \in PlanSegment
      BY <1>2, <3>1, SegmentDoes
    <3>3. Add(s, ps[k]) = Append(s, e)
      BY <2>2, <3>1 DEF Add
    <3>4. s \in Seq(PlanSegment) /\ Append(s, e) \in Seq(PlanSegment) /\ Len(s) \in Nat
      BY <1>13, <3>2
    <3>5. /\ Len(Append(s, e)) = Len(s) + 1 /\ Append(s, e)[Len(s) + 1] = e
          /\ \A i \in 1..Len(s) : Append(s, e)[i] = s[i]
      BY <3>2, <3>4
    <3>6. \A i \in 1..(Len(s) + 1) : i \in 1..Len(s) \/ i = Len(s) + 1
      BY <3>4
    <3>7. ASSUME NEW i \in 1..Len(Append(s, e))
          PROVE  \E j \in 1..n : isLoad(ps[j]) /\ Append(s, e)[i] = segment(ps[j])
      <4>1. CASE i \in 1..Len(s)
        BY <1>13, <3>5, <4>1
      <4>2. CASE i = Len(s) + 1
        BY <2>2, <3>1, <3>5, <4>2
      <4> QED
        BY <3>5, <3>6, <4>1, <4>2
    <3> QED
      BY <3>3, <3>4, <3>7
  <2> QED
    BY <2>1, <2>2
<1>14. ASSUME NEW k \in 1..n, k - 1 \in Good PROVE k \in Good
  <2> HIDE DEF FromLoads
  <2>1. k \in 0..n
    BY <1>2
  <2>2. FromLoads(f[k])
    BY <1>11, <1>13, <1>14
  <2> QED
    BY <2>1, <2>2
<1>15. FromLoads(f[n])
  <2>1. n \in Good
    <3> HIDE DEF Good
    <3>1. \A k \in 0..n : k \in Good
      BY <1>2, <1>12, <1>14, UpTo
    <3> QED
      BY <1>2, <3>1
  <2> HIDE DEF FromLoads
  <2> QED
    BY <2>1
<1> QED
  BY <1>1, <1>10, <1>15

\* What a plan holds: segments of accepted headers.
PlanShape(im, o) ==
  /\ o.segments \in Seq(PlanSegment)
  /\ \A i \in 1..Len(o.segments) :
       LET s == o.segments[i] IN
       /\ s.map_start % PAGE = 0 /\ s.map_end % PAGE = 0
       /\ s.file_off + s.filesz <= im.len /\ s.file_off + s.filesz < ADDR_LIMIT
       /\ s.map_end <= IMAGE_HI
  /\ o.ok => Len(o.segments) # 0 /\ ~imageBudgetExceeded(o.segments)

LEMMA PlanDoes ==
  ASSUME NEW im \in ElfImage
  PROVE  PlanShape(im, plan(im))
<1>1. PICK segs, o : segs = segments(im) /\ o = plan(im)
  OBVIOUS
<1>2. PICK good \in BOOLEAN :
        good <=> /\ im.header
                 /\ \A k \in 1..Len(im.phdrs) :
                      IF isLoad(im.phdrs[k]) THEN loadAccepted(im, im.phdrs[k])
                                             ELSE otherAccepted(im, im.phdrs[k])
                 /\ Cardinality({k \in 1..Len(im.phdrs) : im.phdrs[k].type = "GNU_STACK"}) <= 1
                 /\ Len(segs) \in 1..MAX_LOADS
                 /\ ~pageOverlap(segs)
                 /\ ~imageBudgetExceeded(segs)
                 /\ executableFileEntry(im.entry, segs)
  OBVIOUS
<1>3. o = IF good THEN [ok |-> TRUE, entry |-> im.entry, segments |-> segs] ELSE Rejected
  BY <1>1, <1>2 DEF plan
<1>4. CASE ~good
  <2>1. o = Rejected
    BY <1>3, <1>4
  <2>2. o.ok = FALSE /\ o.segments = << >>
    BY <2>1 DEF Rejected
  <2> QED
    BY <1>1, <2>2 DEF PlanShape
<1>5. CASE good
  <2>1. o.segments = segs
    BY <1>3, <1>5
  <2>2. /\ segs \in Seq(PlanSegment)
        /\ \A i \in 1..Len(segs) : \E k \in 1..Len(im.phdrs) :
             isLoad(im.phdrs[k]) /\ segs[i] = segment(im.phdrs[k])
    BY <1>1, SegmentsDo
  <2>3. Len(segs) # 0 /\ ~imageBudgetExceeded(segs)
    BY <1>2, <1>5
  <2>4. ASSUME NEW i \in 1..Len(segs)
        PROVE  /\ segs[i].map_start % PAGE = 0 /\ segs[i].map_end % PAGE = 0
               /\ segs[i].file_off + segs[i].filesz <= im.len
               /\ segs[i].file_off + segs[i].filesz < ADDR_LIMIT
               /\ segs[i].map_end <= IMAGE_HI
    <3>1. PICK k \in 1..Len(im.phdrs) : isLoad(im.phdrs[k]) /\ segs[i] = segment(im.phdrs[k])
      BY <2>2
    <3>2. PICK ph : ph = im.phdrs[k]
      OBVIOUS
    <3>3. ph \in Phdr
      <4>1. im.phdrs \in Seq(Phdr)
        BY DEF ElfImage
      <4> QED
        BY <3>2, <4>1
    <3>4. loadAccepted(im, ph)
      BY <1>2, <1>5, <3>1, <3>2
    <3> QED
      BY <3>1, <3>2, <3>3, <3>4, SegmentDoes DEF loadAccepted, checkFileRange
  <2> QED
    BY <1>1, <2>1, <2>2, <2>3, <2>4 DEF PlanShape
<1> QED
  BY <1>4, <1>5

-----------------------------------------------------------------------------
(* The page copy and the page tables. *)

LEMMA Extremes ==
  ASSUME NEW a \in Nat, NEW b \in Nat
  PROVE  /\ Max({a, b}) = IF a >= b THEN a ELSE b
         /\ Min({a, b}) = IF a <= b THEN a ELSE b
  BY DEF Max, Min

\* The bytes of a page of a segment, from the file and from nowhere past its end.
LEMMA CopyIsExact ==
  ASSUME NEW im, im.len \in Nat, NEW seg \in PlanSegment, NEW va \in Nat, NEW b \in 0..(PAGE - 1),
         seg.file_off + seg.filesz <= im.len, seg.file_off + seg.filesz < ADDR_LIMIT
  PROVE  /\ ~copyFailed(im, seg, va)
         /\ copyFileBytes(seg, va)[b] =
              IF va + b \in seg.vaddr..(seg.vaddr + seg.filesz - 1)
              THEN seg.file_off + ((va + b) - seg.vaddr) ELSE Zero
<1>1. PICK v, z, f, p, l, m :
        /\ v = seg.vaddr /\ z = seg.filesz /\ f = seg.file_off /\ p = PAGE
        /\ l = ADDR_LIMIT /\ m = im.len
  OBVIOUS
<1>2. /\ v \in Nat /\ z \in Nat /\ f \in Nat /\ p \in Nat \ {0} /\ l \in Nat /\ m \in Nat
      /\ b \in 0..(p - 1) /\ f + z <= m /\ f + z < l
  BY <1>1, ElfAssumption DEF PlanSegment
<1>3. PICK lo, hi : lo = copyLo(seg, va) /\ hi = copyHi(seg, va)
  OBVIOUS
<1>4. lo = IF v >= va THEN v ELSE va
  BY <1>1, <1>2, <1>3, Extremes DEF copyLo
<1>5. hi = IF v + z <= va + p THEN v + z ELSE va + p
  <2>1. PICK x, y : x = v + z /\ y = va + p
    OBVIOUS
  <2>2. x \in Nat /\ y \in Nat
    BY <1>2, <2>1
  <2>3. hi = Min({x, y})
    BY <1>1, <1>3, <2>1 DEF copyHi
  <2> QED
    BY <2>1, <2>2, <2>3, Extremes
<1>6. ~copyFailed(im, seg, va)
  <2>1. copyFailed(im, seg, va) <=>
          /\ lo < hi
          /\ \/ f + (lo - v) + (hi - lo) >= l
             \/ f + (lo - v) + (hi - lo) > m
             \/ (lo - va) + (hi - lo) > p
    BY <1>1, <1>3 DEF copyFailed, copies
  <2> QED
    BY <1>2, <1>4, <1>5, <2>1
<1>7. copyFileBytes(seg, va)[b] =
        IF lo < hi /\ b \in (lo - va)..((lo - va) + (hi - lo) - 1)
        THEN f + (lo - v) + (b - (lo - va)) ELSE Zero
  BY <1>1, <1>3 DEF copyFileBytes, copies
<1>8. (lo < hi /\ b \in (lo - va)..((lo - va) + (hi - lo) - 1)) <=> va + b \in v..(v + z - 1)
  BY <1>2, <1>4, <1>5
<1>9. f + (lo - v) + (b - (lo - va)) = f + ((va + b) - v)
  BY <1>2, <1>4
<1> QED
  BY <1>1, <1>6, <1>7, <1>8, <1>9

\* Addresses less than MAX_IMAGE_PTS tables apart, whole pages from a whole page on.
LEMMA TablesOf ==
  ASSUME NEW lo \in Nat, NEW va \in Nat, lo % PAGE = 0, va % PAGE = 0,
         lo <= va, va < lo + MAX_IMAGE_PAGES * PAGE
  PROVE  LET t == lo \div (PAGE * PTES) IN
         va \div (PAGE * PTES) \in t..(t + MAX_IMAGE_PTS - 1)
<1>1. PICK p, e, n, m : p = PAGE /\ e = PTES /\ n = MAX_IMAGE_PAGES /\ m = MAX_IMAGE_PTS
  OBVIOUS
<1>2. /\ p \in Nat \ {0} /\ e \in Nat \ {0} /\ n \in Nat /\ m \in Nat \ {0}
      /\ n <= (m - 1) * e + 1
  BY <1>1, ElfAssumption, PlanAssumption
<1>3. ASSUME NEW x \in Nat, x % p = 0 PROVE \E q \in Nat : x = q * p
  <2>1. PICK q : q = x \div p
    OBVIOUS
  <2>2. q \in Nat /\ x = p * q + (x % p)
    BY <1>2, <1>3, <2>1
  <2>3. x = q * p
    BY <1>2, <1>3, <2>2
  <2> QED
    BY <2>2, <2>3
<1>4. PICK a \in Nat : lo = a * p
  BY <1>1, <1>3
<1>5. PICK b \in Nat : va = b * p
  BY <1>1, <1>3
<1>6. a <= b /\ b < a + n
  <2>1. ASSUME NEW x \in Nat, NEW y \in Nat, x < y PROVE x * p < y * p
    <3>1. PICK d \in Nat : y = x + 1 + d
      <4>1. y - x - 1 \in Nat /\ y = x + 1 + (y - x - 1)
        BY <2>1
      <4> QED
        BY <4>1
    <3>2. y * p = x * p + p + d * p
      BY <1>2, <3>1
    <3>3. x * p \in Nat /\ d * p \in Nat
      BY <1>2
    <3> QED
      BY <1>2, <3>2, <3>3
  <2>2. PICK c \in Nat : c = a + n
    BY <1>2
  <2>3. c * p = a * p + n * p
    BY <1>2, <2>2
  <2>4. a * p <= b * p /\ b * p < c * p
    BY <1>1, <1>4, <1>5, <2>3
  <2>5. \A x \in Nat, y \in Nat : x * p \in Nat
    BY <1>2
  <2>6. ~(b < a) /\ ~(c < b) /\ b # c
    BY <2>1, <2>4, <2>5
  <2> QED
    BY <2>2, <2>6
<1>7. ASSUME NEW q \in Nat PROVE (q * p) \div (p * e) = q \div e
  <2>1. PICK t : t = q \div e
    OBVIOUS
  <2>2. t \in Nat /\ q = e * t + (q % e) /\ q % e \in 0..(e - 1)
    BY <1>2, <2>1
  <2>3. PICK r \in 0..(e - 1) : q = e * t + r
    BY <2>2
  <2>4. PICK d \in Nat \ {0} : d = p * e
    <3>1. p * e \in Nat /\ p * e # 0
      BY <1>2
    <3> QED
      BY <3>1
  <2>5. q * p = d * t + r * p
    BY <1>2, <2>2, <2>3, <2>4
  <2>6. r * p \in Nat /\ r * p < d
    <3>1. PICK s \in Nat : e = r + 1 + s
      <4>1. e - r - 1 \in Nat /\ e = r + 1 + (e - r - 1)
        BY <1>2
      <4> QED
        BY <4>1
    <3>2. d = r * p + p + s * p
      BY <1>2, <2>4, <3>1
    <3>3. r * p \in Nat /\ s * p \in Nat
      BY <1>2
    <3> QED
      BY <1>2, <3>2, <3>3
  <2>7. ASSUME NEW x \in Nat, NEW y \in Nat, NEW z \in Nat, x = d * y + z, z < d PROVE x \div d = y
    <3>1. PICK w : w = x \div d
      OBVIOUS
    <3>2. w \in Nat /\ x = d * w + (x % d) /\ x % d \in 0..(d - 1)
      BY <3>1
    <3>3. PICK u \in 0..(d - 1) : x = d * w + u
      BY <3>2
    <3>4. ASSUME NEW i \in Nat, NEW j \in Nat, i < j PROVE d * i + d <= d * j
      <4>1. PICK k \in Nat : j = i + 1 + k
        <5>1. j - i - 1 \in Nat /\ j = i + 1 + (j - i - 1)
          BY <3>4
        <5> QED
          BY <5>1
      <4>2. d * j = d * i + d + d * k
        BY <4>1
      <4>3. d * k \in Nat /\ d * i \in Nat
        OBVIOUS
      <4> QED
        BY <4>2, <4>3
    <3>5. PICK g \in Nat, h \in Nat : g = d * w /\ h = d * y
      BY <3>2
    <3>6. ~(w < y)
      <4>1. w < y => g + d <= h
        BY <3>2, <3>4, <3>5
      <4> QED
        BY <2>7, <3>3, <3>5, <4>1
    <3>7. ~(y < w)
      <4>1. y < w => h + d <= g
        BY <3>2, <3>4, <3>5
      <4> QED
        BY <2>7, <3>3, <3>5, <4>1
    <3> QED
      BY <3>1, <3>2, <3>6, <3>7
  <2>8. PICK x \in Nat, z \in Nat : x = q * p /\ z = r * p
    BY <1>2, <2>6
  <2>9. x \div d = t
    BY <2>2, <2>5, <2>6, <2>7, <2>8
  <2> QED
    BY <2>1, <2>4, <2>8, <2>9
<1>8. PICK s, t : s = a \div e /\ t = b \div e
  OBVIOUS
<1>9. /\ s \in Nat /\ a = e * s + (a % e) /\ a % e \in 0..(e - 1)
      /\ t \in Nat /\ b = e * t + (b % e) /\ b % e \in 0..(e - 1)
  BY <1>2, <1>8
<1>10. PICK i \in 0..(e - 1), j \in 0..(e - 1) : a = e * s + i /\ b = e * t + j
  BY <1>9
<1>11. ASSUME NEW x \in Nat, NEW y \in Nat, x < y PROVE e * x + e <= e * y
  <2>1. PICK k \in Nat : y = x + 1 + k
    <3>1. y - x - 1 \in Nat /\ y = x + 1 + (y - x - 1)
      BY <1>11
    <3> QED
      BY <3>1
  <2>2. e * y = e * x + e + e * k
    BY <1>2, <2>1
  <2>3. e * k \in Nat /\ e * x \in Nat
    BY <1>2
  <2> QED
    BY <1>2, <2>2, <2>3
<1>12. PICK x \in Nat, y \in Nat : x = e * s /\ y = e * t
  BY <1>2, <1>9
<1>13. ~(t < s)
  <2>1. t < s => y + e <= x
    BY <1>9, <1>11, <1>12
  <2> QED
    BY <1>2, <1>6, <1>10, <1>12, <2>1
<1>14. ~(s + m - 1 < t)
  <2>1. PICK c \in Nat : c = s + m - 1
    <3>1. s + m - 1 \in Nat
      BY <1>2, <1>9
    <3> QED
      BY <3>1
  <2>2. c < t => e * c + e <= y
    BY <1>9, <1>11, <1>12, <2>1
  <2>3. e * c = x + (m - 1) * e
    BY <1>2, <1>9, <1>12, <2>1
  <2>4. PICK w \in Nat : w = (m - 1) * e
    <3>1. m - 1 \in Nat
      BY <1>2
    <3>2. (m - 1) * e \in Nat
      BY <1>2, <3>1
    <3> QED
      BY <3>2
  <2> QED
    BY <1>2, <1>6, <1>10, <1>12, <2>1, <2>2, <2>3, <2>4
<1>15. t \in s..(s + m - 1)
  BY <1>2, <1>9, <1>13, <1>14
<1> QED
  BY <1>1, <1>4, <1>5, <1>7, <1>8, <1>15

LEMMA MinDoes ==
  ASSUME NEW S, S \subseteq Nat, S # {}
  PROVE  Min(S) \in S /\ \A y \in S : Min(S) <= y
<1>1. PICK n \in S : \A m \in S : n <= m
  BY LeastNat
<1> QED
  BY <1>1 DEF Min

LEMMA MaxDoes ==
  ASSUME NEW n \in Nat, NEW S, S \subseteq 0..n, S # {}
  PROVE  Max(S) \in S /\ \A y \in S : Max(S) >= y
<1> DEFINE T == {n - x : x \in S}
<1>1. T \subseteq Nat /\ T # {}
  <2>1. \A x \in S : n - x \in Nat
    OBVIOUS
  <2>2. PICK x \in S : TRUE
    OBVIOUS
  <2>3. n - x \in T
    OBVIOUS
  <2> QED
    BY <2>1, <2>3
<1>2. PICK t \in T : \A u \in T : t <= u
  BY <1>1, LeastNat
<1>3. PICK x \in S : t = n - x
  BY <1>2
<1>4. ASSUME NEW y \in S PROVE x >= y
  <2>1. n - x <= n - y
    BY <1>2, <1>3
  <2>2. x \in Nat /\ y \in Nat
    OBVIOUS
  <2> QED
    BY <2>1, <2>2
<1> QED
  BY <1>4 DEF Max

\* The page tables of an image the budget allows.
LEMMA PlanFits ==
  ASSUME NEW im, NEW o, PlanShape(im, o), o.ok
  PROVE  Cardinality({va \div (PAGE * PTES) :
                        va \in UNION {pagesOf(o.segments[k]) : k \in 1..Len(o.segments)}})
           <= MAX_IMAGE_PTS
<1>1. PICK segs, n : segs = o.segments /\ n = Len(segs)
  OBVIOUS
<1>2. /\ n \in Nat /\ n # 0 /\ \A k \in 1..n : segs[k] \in PlanSegment
      /\ \A k \in 1..n : /\ segs[k].map_start % PAGE = 0 /\ segs[k].map_end % PAGE = 0
                         /\ segs[k].map_end <= IMAGE_HI
      /\ ~imageBudgetExceeded(segs)
  <2>1. segs \in Seq(PlanSegment)
    BY <1>1 DEF PlanShape
  <2>2. n \in Nat /\ \A k \in 1..n : segs[k] \in PlanSegment
    BY <1>1, <2>1
  <2> QED
    BY <1>1, <2>2 DEF PlanShape
<1>3. \A k \in 1..n : segs[k].map_start \in Nat /\ segs[k].map_end \in Nat
  BY <1>2 DEF PlanSegment
<1>4. PICK lo, hi : /\ lo = Min({segs[k].map_start : k \in 1..n})
                    /\ hi = Max({segs[k].map_end : k \in 1..n})
  OBVIOUS
<1>5. 1 \in 1..n
  BY <1>2
<1>6. lo \in Nat /\ lo % PAGE = 0 /\ \A k \in 1..n : lo <= segs[k].map_start
  <2>1. PICK S : S = {segs[k].map_start : k \in 1..n}
    OBVIOUS
  <2>2. S \subseteq Nat /\ S # {}
    BY <1>3, <1>5, <2>1
  <2>3. lo \in S /\ \A y \in S : lo <= y
    BY <1>4, <2>1, <2>2, MinDoes
  <2> QED
    BY <1>2, <1>3, <2>1, <2>3
<1>7. hi \in Nat /\ \A k \in 1..n : segs[k].map_end <= hi
  <2>1. PICK S : S = {segs[k].map_end : k \in 1..n}
    OBVIOUS
  <2>2. IMAGE_HI \in Nat /\ S \subseteq 0..IMAGE_HI /\ S # {}
    BY <1>2, <1>3, <1>5, <2>1, ElfAssumption
  <2>3. hi \in S /\ \A y \in S : hi >= y
    BY <1>4, <2>1, <2>2, MaxDoes
  <2>4. \A k \in 1..n : segs[k].map_end \in S
    BY <2>1
  <2>5. \A y \in S : y \in Nat /\ hi \in Nat /\ hi >= y
    BY <2>2, <2>3
  <2>6. \A y \in S : y <= hi
    BY <2>5
  <2> QED
    BY <2>3, <2>4, <2>5, <2>6
<1>8. hi - lo <= MAX_IMAGE_PAGES * PAGE
  <2>1. ~(hi - lo > MAX_IMAGE_PAGES * PAGE)
    BY <1>1, <1>2, <1>4 DEF imageBudgetExceeded
  <2>2. MAX_IMAGE_PAGES * PAGE \in Nat
    BY ElfAssumption
  <2> QED
    BY <1>6, <1>7, <2>1, <2>2
<1>9. PICK t : t = lo \div (PAGE * PTES)
  OBVIOUS
<1>10. t \in Nat /\ MAX_IMAGE_PTS \in Nat \ {0}
  <2>1. PAGE \in Nat \ {0} /\ PTES \in Nat \ {0} /\ MAX_IMAGE_PTS \in Nat \ {0}
    BY ElfAssumption, PlanAssumption
  <2>2. PICK d : d = PAGE * PTES
    OBVIOUS
  <2>3. d \in Nat \ {0}
    BY <2>1, <2>2
  <2> QED
    BY <1>6, <1>9, <2>1, <2>2, <2>3
<1>11. PICK U : U = UNION {pagesOf(segs[k]) : k \in 1..n}
  OBVIOUS
<1>12. ASSUME NEW va \in U PROVE va \div (PAGE * PTES) \in t..(t + MAX_IMAGE_PTS - 1)
  <2>1. PICK k \in 1..n : va \in pagesOf(segs[k])
    BY <1>11
  <2>2. va \in segs[k].map_start..(segs[k].map_end - 1) /\ va % PAGE = 0
    BY <2>1 DEF pagesOf
  <2>3. PICK x, y, z : x = segs[k].map_start /\ y = segs[k].map_end /\ z = MAX_IMAGE_PAGES * PAGE
    OBVIOUS
  <2>4. x \in Nat /\ y \in Nat /\ z \in Nat /\ lo <= x /\ y <= hi /\ hi - lo <= z
    BY <1>3, <1>6, <1>7, <1>8, <2>3, ElfAssumption
  <2>5. va \in Nat /\ lo <= va /\ va < lo + z
    BY <1>6, <1>7, <2>2, <2>3, <2>4
  <2> QED
    BY <1>6, <1>9, <2>2, <2>3, <2>5, TablesOf
<1>13. PICK T : T = {va \div (PAGE * PTES) : va \in U}
  OBVIOUS
<1>14. T \subseteq t..(t + MAX_IMAGE_PTS - 1)
  BY <1>12, <1>13
<1>15. PICK e : e = t + MAX_IMAGE_PTS - 1
  OBVIOUS
<1>16. e \in Nat /\ t <= e /\ e - t + 1 = MAX_IMAGE_PTS
  BY <1>10, <1>15
<1>17. IsFiniteSet(t..e) /\ Cardinality(t..e) = e - t + 1
  BY <1>10, <1>16, FS_Interval
<1>18. Cardinality(T) <= Cardinality(t..e)
  BY <1>14, <1>15, <1>17, FS_Subset
<1> QED
  BY <1>1, <1>11, <1>13, <1>16, <1>17, <1>18

\* The image in memory and what was made of it.
PlanInv ==
  /\ image \in ElfImage
  /\ planned = None \/ planned = plan(image)

LEMMA PlanInvHolds == ElfSpec => []PlanInv
<1>1. ElfInit => PlanInv
  BY ElfAssumption DEF ElfInit, PlanInv
<1>2. PlanInv /\ [Plan]_elfVars => PlanInv'
  <2> SUFFICES ASSUME PlanInv, [Plan]_elfVars PROVE PlanInv'
    OBVIOUS
  <2>1. image' = image /\ (planned' = planned \/ planned' = plan(image))
    BY DEF Plan, elfVars
  <2>2. plan(image') = plan(image)
    BY <2>1
  <2> QED
    BY <2>1, <2>2 DEF PlanInv
<1> QED
  BY <1>1, <1>2, PTL DEF ElfSpec

LEMMA NonePlans == PlanInv => PlanShape(image, planned)
<1> SUFFICES ASSUME PlanInv PROVE PlanShape(image, planned)
  OBVIOUS
<1>1. CASE planned = None
  <2>1. planned.ok = FALSE /\ planned.segments = << >>
    BY <1>1 DEF None
  <2> QED
    BY <2>1 DEF PlanShape
<1>2. CASE planned = plan(image)
  BY <1>2, PlanDoes DEF PlanInv
<1> QED
  BY <1>1, <1>2 DEF PlanInv

\* No accepted image needs more page tables than user_vm has budgeted, however its
\* segments lie.
THEOREM PlansFitTables == ElfSpec => []PlanFitsTables
<1>1. PlanInv => PlanFitsTables
  BY NonePlans, PlanFits DEF PlanFitsTables, Segs
<1> QED
  BY <1>1, PlanInvHolds, PTL

\* Every page of every accepted image holds the file's bytes at their addresses and
\* zeroes elsewhere, and copying them never reads past the file.
THEOREM CopiesAreExact == ElfSpec => []PagesHoldFile
<1>1. PlanInv => PagesHoldFile
  <2> SUFFICES ASSUME PlanInv, NEW k \in Segs, NEW va \in pagesOf(planned.segments[k])
               PROVE  LET seg == planned.segments[k] IN
                      /\ ~copyFailed(image, seg, va)
                      /\ \A b \in 0..(PAGE - 1) :
                           copyFileBytes(seg, va)[b] =
                             IF va + b \in seg.vaddr..(seg.vaddr + seg.filesz - 1)
                             THEN seg.file_off + ((va + b) - seg.vaddr) ELSE Zero
    BY DEF PagesHoldFile
  <2>1. PICK seg : seg = planned.segments[k]
    OBVIOUS
  <2>2. planned.segments \in Seq(PlanSegment) /\ k \in 1..Len(planned.segments)
    BY NonePlans DEF PlanShape, Segs
  <2>3. seg \in PlanSegment
    BY <2>1, <2>2
  <2>4. seg.file_off + seg.filesz <= image.len /\ seg.file_off + seg.filesz < ADDR_LIMIT
    BY <2>1, <2>2, NonePlans DEF PlanShape
  <2>5. va \in Nat
    <3>1. seg.map_start \in Nat /\ seg.map_end \in Nat /\ va \in seg.map_start..(seg.map_end - 1)
      BY <2>1, <2>3 DEF pagesOf, PlanSegment
    <3> QED
      BY <3>1
  <2>6. image.len \in Nat /\ 0 \in 0..(PAGE - 1)
    BY ElfAssumption DEF PlanInv, ElfImage
  <2>7. \A b \in 0..(PAGE - 1) :
          /\ ~copyFailed(image, seg, va)
          /\ copyFileBytes(seg, va)[b] =
               IF va + b \in seg.vaddr..(seg.vaddr + seg.filesz - 1)
               THEN seg.file_off + ((va + b) - seg.vaddr) ELSE Zero
    BY <2>3, <2>4, <2>5, <2>6, CopyIsExact
  <2> QED
    BY <2>1, <2>6, <2>7
<1> QED
  BY <1>1, PlanInvHolds, PTL

-----------------------------------------------------------------------------
(* The inductive invariant, by the phase of the running call. *)

Storage == UNION {[1..n -> Frames \cup {0}] : n \in Nat}

\* What the journal storage and count look like.
JournalShape(fr, c) == fr \in Storage /\ c \in 0..Len(fr)

SpaceShape(s) ==
  s \in [state : {s.state}, root_phys : {s.root_phys}, entry : {s.entry},
         stack_top : {s.stack_top}, image_pages : {s.image_pages},
         stack_pages : {s.stack_pages}, table_pages : {s.table_pages},
         image_pts : {s.image_pts}, stack_pts : {s.stack_pts},
         failed_release_frame : {s.failed_release_frame}, owns_zero : BOOLEAN]

RelShape(x) ==
  x \in [i : Nat, r : Nat, w : Nat, fail : {x.fail}, cause : {x.cause}, err : {x.err}]

Building == {"pml4", "pdpt", "linkPdpt", "borrow", "pd", "linkPd", "segment", "page", "pt",
             "linkPt", "slot", "leaf", "copy", "linkLeaf"}

ZeroOut(oz) == IF oz THEN {0} ELSE {}

\* The entries of fr at the places K, without release marks.
Listed(fr, K) == {fr[k] : k \in K} \ {0}

Once(fr, K) == \A j, k \in K : fr[j] = fr[k] /\ fr[j] # 0 => j = k

Unmarked(fr, K) == \A k \in K : fr[k] # 0

\* The first refusal is the frame of one of the places K that are done; without
\* one they are all released.
FailNames(fr, K, fail) ==
  \/ fail = << >> /\ \A k \in K : fr[k] = 0
  \/ \E k \in K : fr[k] # 0 /\ fail = <<fr[k]>>

Plain(fr, c, out, oz) ==
  /\ out = Listed(fr, 1..c) \cup ZeroOut(oz)
  /\ Once(fr, 1..c) /\ Unmarked(fr, 1..c)

Releasing(fr, c, x, out, oz) ==
  /\ RelShape(x) /\ x.i \in 0..c
  /\ out = Listed(fr, 1..c) \cup ZeroOut(oz)
  /\ Once(fr, 1..c) /\ Unmarked(fr, 1..x.i)
  /\ FailNames(fr, (x.i + 1)..c, x.fail)

Places(c, x) == (1..(x.w - 1)) \cup (x.r..c)

Compacting(fr, c, x, out, oz) ==
  /\ RelShape(x) /\ x.r \in 1..(c + 1) /\ x.w \in 1..x.r
  /\ out = Listed(fr, Places(c, x)) \cup ZeroOut(oz)
  /\ Once(fr, Places(c, x)) /\ Unmarked(fr, 1..(x.w - 1))
  /\ FailNames(fr, Places(c, x), x.fail)

Ending(fr, c, x, out, oz) ==
  /\ RelShape(x) /\ Plain(fr, c, out, oz) /\ FailNames(fr, 1..c, x.fail)

\* Between calls: what the space's state says about what is still out.
Resting(s, fr, c) ==
  \/ s.state = "empty" /\ c = 0 /\ ~s.owns_zero
  \/ s.state = "ready" /\ s.root_phys \in Frames
  \/ /\ s.state = "destroyed"
     /\ \/ c = 0 /\ ~s.owns_zero
        \/ \E k \in 1..c : fr[k] = s.failed_release_frame
        \/ s.failed_release_frame = 0 /\ s.owns_zero

\* The CPU is on the kernel's root, or on the root of a ready space.
RootInv(cr, p, s) ==
  /\ cr \in Nat
  /\ \/ pageFloor(cr) = KernelRoot
     \/ p = "idle" /\ s.state = "ready" /\ pageFloor(cr) = s.root_phys

VmInv ==
  /\ SpaceShape(space) /\ JournalShape(frames, count)
  /\ RootInv(cr3, pc, space)
  /\ \/ /\ pc = "idle" /\ Plain(frames, count, live, space.owns_zero)
        /\ Resting(space, frames, count)
     \/ /\ pc \in Building /\ Plain(frames, count, live, space.owns_zero)
        /\ space.state = "building" /\ (pc = "pml4" \/ space.root_phys \in Frames)
     \/ pc = "release" /\ Releasing(frames, count, rel, live, space.owns_zero)
     \/ pc = "compact" /\ Compacting(frames, count, rel, live, space.owns_zero)
     \/ pc = "zero" /\ Ending(frames, count, rel, live, space.owns_zero)

-----------------------------------------------------------------------------
(* The journal's storage. *)

LEMMA StorageLen ==
  ASSUME NEW fr \in Storage
  PROVE  Len(fr) \in Nat /\ fr \in [1..Len(fr) -> Frames \cup {0}]
<1>1. PICK n \in Nat : fr \in [1..n -> Frames \cup {0}]
  BY DEF Storage
<1>2. fr \in Seq(Frames \cup {0}) /\ Len(fr) = n
  BY <1>1
<1>3. QED
  BY <1>1, <1>2

LEMMA StorageWrite ==
  ASSUME NEW fr \in Storage, NEW k \in 1..Len(fr), NEW f \in Frames \cup {0}
  PROVE  LET fs == [fr EXCEPT ![k] = f] IN
         /\ fs \in Storage /\ Len(fs) = Len(fr) /\ fs[k] = f
         /\ \A j \in 1..Len(fr) : j # k => fs[j] = fr[j]
<1> DEFINE fs == [fr EXCEPT ![k] = f]
           n == Len(fr)
<1>1. n \in Nat /\ fr \in [1..n -> Frames \cup {0}]
  BY StorageLen
<1> HIDE DEF n
<1>2. fs \in [1..n -> Frames \cup {0}]
  BY <1>1
<1>3. fs \in Storage
  BY <1>1, <1>2 DEF Storage
<1>4. Len(fs) \in Nat /\ fs \in [1..Len(fs) -> Frames \cup {0}]
  BY <1>3, StorageLen
<1>5. Len(fs) = n
  <2> HIDE DEF fs
  <2>1. 1..Len(fs) = 1..n
    BY <1>2, <1>4
  <2>2. PICK m \in Nat : m = Len(fs) /\ 1..m = 1..n
    BY <1>4, <2>1
  <2>3. m = n
    <3>1. m > 0 => m \in 1..n
      <4>1. m > 0 => m \in 1..m
        OBVIOUS
      <4>2. QED
        BY <2>2, <4>1
    <3>2. n > 0 => n \in 1..m
      <4>1. n > 0 => n \in 1..n
        BY <1>1
      <4>2. QED
        BY <2>2, <4>1
    <3>3. QED
      BY <1>1, <2>2, <3>1, <3>2
  <2>4. QED
    BY <2>2, <2>3
<1>6. fs[k] = f /\ \A j \in 1..Len(fr) : j # k => fs[j] = fr[j]
  BY <1>1 DEF n
<1>7. QED
  BY <1>3, <1>5, <1>6 DEF n

\* A frame taken is journaled and handed out.
LEMMA JournalAdds ==
  ASSUME NEW fr, NEW c, NEW out, NEW oz \in BOOLEAN, JournalShape(fr, c), Plain(fr, c, out, oz),
         c < Len(fr), NEW f \in Frames, \A k \in 1..c : fr[k] # f
  PROVE  LET fs == [fr EXCEPT ![c + 1] = f] IN
         JournalShape(fs, c + 1) /\ Plain(fs, c + 1, out \cup {f}, oz)
<1> DEFINE fs == [fr EXCEPT ![c + 1] = f]
<1>1. Len(fr) \in Nat /\ c \in Nat /\ c + 1 \in 1..Len(fr) /\ c \in 0..Len(fr)
  BY StorageLen DEF JournalShape
<1>2. /\ fs \in Storage /\ Len(fs) = Len(fr) /\ fs[c + 1] = f
      /\ \A j \in 1..Len(fr) : j # c + 1 => fs[j] = fr[j]
  BY <1>1, StorageWrite DEF JournalShape
<1> HIDE DEF fs
<1>3. JournalShape(fs, c + 1)
  BY <1>1, <1>2 DEF JournalShape
<1>4. f # 0
  BY DEF Frames
<1>5. \A k \in 1..c : fs[k] = fr[k] /\ k \in 1..(c + 1) /\ k # c + 1
  BY <1>1, <1>2
<1>6. \A k \in 1..(c + 1) : k \in 1..c \/ k = c + 1
  BY <1>1
<1>7. c + 1 \in 1..(c + 1)
  BY <1>1
<1>8. Listed(fs, 1..(c + 1)) = Listed(fr, 1..c) \cup {f}
  <2>1. \A z \in Listed(fs, 1..(c + 1)) : z \in Listed(fr, 1..c) \cup {f}
    BY <1>2, <1>5, <1>6 DEF Listed
  <2>2. \A z \in Listed(fr, 1..c) \cup {f} : z \in Listed(fs, 1..(c + 1))
    BY <1>2, <1>4, <1>5, <1>7 DEF Listed
  <2>3. QED
    BY <2>1, <2>2
<1>9. Once(fs, 1..(c + 1))
  BY <1>2, <1>5, <1>6 DEF Plain, Once
<1>10. Unmarked(fs, 1..(c + 1))
  BY <1>2, <1>4, <1>5, <1>6 DEF Plain, Unmarked
<1>11. QED
  BY <1>3, <1>8, <1>9, <1>10 DEF Plain, fs

\* Releasing starts from the newest frame.
LEMMA ReleaseStarts ==
  ASSUME NEW fr, NEW c \in Nat, NEW out, NEW oz, Plain(fr, c, out, oz), NEW cause, NEW err
  PROVE  Releasing(fr, c, [NoRel EXCEPT !.i = c, !.cause = cause, !.err = err], out, oz)
<1> DEFINE x == [NoRel EXCEPT !.i = c, !.cause = cause, !.err = err]
<1>1. RelShape(x) /\ x.i = c /\ x.fail = << >>
  BY DEF NoRel, RelShape
<1> HIDE DEF x
<1>2. (c + 1)..c = {} /\ c \in 0..c
  OBVIOUS
<1>3. FailNames(fr, (c + 1)..c, << >>)
  BY <1>2 DEF FailNames
<1>4. Releasing(fr, c, x, out, oz)
  BY <1>1, <1>2, <1>3 DEF Releasing, Plain
<1>5. QED
  BY <1>4 DEF x

\* One frame released and marked.
LEMMA ReleaseFrees ==
  ASSUME NEW fr, NEW c, NEW x, NEW out, NEW oz \in BOOLEAN, JournalShape(fr, c),
         Releasing(fr, c, x, out, oz), x.i > 0
  PROVE  LET fs == [fr EXCEPT ![x.i] = 0] IN
         /\ JournalShape(fs, c)
         /\ Releasing(fs, c, [x EXCEPT !.i = @ - 1], out \ {fr[x.i]}, oz)
<1> DEFINE y == [x EXCEPT !.i = @ - 1]
           fs == [fr EXCEPT ![x.i] = 0]
<1>1. PICK i \in Nat : i = x.i /\ i \in 1..c /\ c \in Nat /\ Len(fr) \in Nat /\ c <= Len(fr)
  BY StorageLen DEF JournalShape, Releasing
<1>2. RelShape(y) /\ y.i = i - 1 /\ y.fail = x.fail
  BY <1>1 DEF Releasing, RelShape
<1> HIDE DEF y
<1>3. /\ fs \in Storage /\ Len(fs) = Len(fr) /\ fs[i] = 0
      /\ \A j \in 1..Len(fr) : j # i => fs[j] = fr[j]
  <2>1. i \in 1..Len(fr) /\ fr \in Storage /\ 0 \in Frames \cup {0} /\ fs = [fr EXCEPT ![i] = 0]
    BY <1>1 DEF JournalShape
  <2>2. QED
    BY <2>1, StorageWrite
<1> HIDE DEF fs
<1>4. JournalShape(fs, c)
  BY <1>3 DEF JournalShape
<1>5. \A k \in 1..c : k # i => fs[k] = fr[k]
  BY <1>1, <1>3
<1>6. /\ out = Listed(fr, 1..c) \cup ZeroOut(oz) /\ Once(fr, 1..c) /\ Unmarked(fr, 1..i)
      /\ FailNames(fr, (i + 1)..c, x.fail) /\ fr[i] # 0
  BY <1>1 DEF Releasing, Unmarked
<1>7. Listed(fs, 1..c) = Listed(fr, 1..c) \ {fr[i]}
  <2>1. ASSUME NEW z \in Listed(fs, 1..c) PROVE z \in Listed(fr, 1..c) \ {fr[i]}
    <3>1. PICK k \in 1..c : z = fs[k] /\ z # 0
      BY DEF Listed
    <3>2. k # i /\ fs[k] = fr[k]
      BY <1>3, <1>5, <3>1
    <3>3. QED
      BY <1>1, <1>6, <3>1, <3>2 DEF Listed, Once
  <2>2. ASSUME NEW z \in Listed(fr, 1..c) \ {fr[i]} PROVE z \in Listed(fs, 1..c)
    <3>1. PICK k \in 1..c : z = fr[k] /\ z # 0 /\ k # i
      BY DEF Listed
    <3>2. QED
      BY <1>5, <3>1 DEF Listed
  <2>3. QED
    BY <2>1, <2>2
<1>8. Once(fs, 1..c)
  BY <1>3, <1>5, <1>6 DEF Once
<1>9. Unmarked(fs, 1..(i - 1))
  <2>1. \A k \in 1..(i - 1) : k \in 1..c /\ k # i /\ k \in 1..i
    BY <1>1
  <2>2. QED
    BY <1>5, <1>6, <2>1 DEF Unmarked
<1>10. FailNames(fs, ((i - 1) + 1)..c, x.fail)
  <2>1. \A k \in ((i - 1) + 1)..c : k = i \/ k \in (i + 1)..c
    BY <1>1
  <2>2. \A k \in (i + 1)..c : k \in ((i - 1) + 1)..c /\ k \in 1..c /\ k # i
    BY <1>1
  <2>3. CASE x.fail = << >> /\ \A k \in (i + 1)..c : fr[k] = 0
    BY <1>3, <1>5, <2>1, <2>2, <2>3 DEF FailNames
  <2>4. CASE \E k \in (i + 1)..c : fr[k] # 0 /\ x.fail = <<fr[k]>>
    BY <1>5, <2>2, <2>4 DEF FailNames
  <2>5. QED
    BY <1>6, <2>3, <2>4 DEF FailNames
<1>11. out \ {fr[i]} = Listed(fs, 1..c) \cup ZeroOut(oz)
  BY <1>6, <1>7 DEF ZeroOut
<1>12. i - 1 \in 0..c
  BY <1>1
<1>13. Releasing(fs, c, y, out \ {fr[i]}, oz)
  BY <1>2, <1>8, <1>9, <1>10, <1>11, <1>12 DEF Releasing
<1>14. QED
  BY <1>1, <1>4, <1>13 DEF y, fs

\* A refused release stays listed, and the first one is remembered.
LEMMA ReleaseKeeps ==
  ASSUME NEW fr, NEW c \in Nat, NEW x, NEW out, NEW oz, Releasing(fr, c, x, out, oz), x.i > 0
  PROVE  Releasing(fr, c, [x EXCEPT !.i = @ - 1,
                                    !.fail = IF x.fail = << >> THEN <<fr[x.i]>> ELSE x.fail], out, oz)
<1> DEFINE y == [x EXCEPT !.i = @ - 1, !.fail = IF x.fail = << >> THEN <<fr[x.i]>> ELSE x.fail]
<1>1. PICK i \in Nat : i = x.i /\ i \in 1..c
  BY DEF Releasing
<1>2. RelShape(y) /\ y.i = i - 1 /\ y.fail = IF x.fail = << >> THEN <<fr[i]>> ELSE x.fail
  <2>1. PICK v : v = IF x.fail = << >> THEN <<fr[i]>> ELSE x.fail
    OBVIOUS
  <2>2. RelShape(x) /\ i - 1 \in Nat
    BY <1>1 DEF Releasing
  <2>3. y = [x EXCEPT !.i = i - 1, !.fail = v]
    BY <1>1, <2>1
  <2> HIDE DEF y
  <2>4. RelShape(y) /\ y.i = i - 1 /\ y.fail = v
    BY <2>2, <2>3 DEF RelShape
  <2>5. QED
    BY <2>1, <2>4
<1> HIDE DEF y
<1>3. Unmarked(fr, 1..i) /\ FailNames(fr, (i + 1)..c, x.fail)
  BY <1>1 DEF Releasing
<1>4. Unmarked(fr, 1..(i - 1)) /\ fr[i] # 0
  <2>1. \A k \in 1..(i - 1) : k \in 1..i
    BY <1>1
  <2>2. QED
    BY <1>1, <1>3, <2>1 DEF Unmarked
<1>5. FailNames(fr, ((i - 1) + 1)..c, y.fail)
  <2>1. i \in ((i - 1) + 1)..c /\ \A k \in (i + 1)..c : k \in ((i - 1) + 1)..c
    BY <1>1
  <2>2. CASE x.fail = << >>
    BY <1>2, <1>4, <2>1, <2>2 DEF FailNames
  <2>3. CASE x.fail # << >>
    BY <1>2, <1>3, <2>1, <2>3 DEF FailNames
  <2>4. QED
    BY <2>2, <2>3
<1>6. i - 1 \in 0..c
  BY <1>1
<1>7. Releasing(fr, c, y, out, oz)
  BY <1>2, <1>4, <1>5, <1>6 DEF Releasing
<1>8. QED
  BY <1>7 DEF y

\* Compaction starts with every place to read.
LEMMA CompactionStarts ==
  ASSUME NEW fr, NEW c \in Nat, NEW x, NEW out, NEW oz, Releasing(fr, c, x, out, oz), x.i = 0
  PROVE  Compacting(fr, c, [x EXCEPT !.r = 1, !.w = 1], out, oz)
<1> DEFINE y == [x EXCEPT !.r = 1, !.w = 1]
<1>1. RelShape(y) /\ y.r = 1 /\ y.w = 1 /\ y.fail = x.fail
  BY DEF Releasing, RelShape
<1> HIDE DEF y
<1>2. 1..(1 - 1) = {} /\ (0 + 1)..c = 1..c /\ 1 \in 1..(c + 1) /\ 1 \in 1..1
  OBVIOUS
<1>3. Places(c, y) = 1..c
  BY <1>1, <1>2 DEF Places
<1>4. FailNames(fr, 1..c, x.fail)
  BY <1>2 DEF Releasing
<1>5. Compacting(fr, c, y, out, oz)
  BY <1>1, <1>2, <1>3, <1>4 DEF Compacting, Releasing, Unmarked
<1>6. QED
  BY <1>5 DEF y

\* One place read: an entry moves down, a mark is skipped.
LEMMA CompactionMoves ==
  ASSUME NEW fr, NEW c, NEW x, NEW out, NEW oz, JournalShape(fr, c),
         Compacting(fr, c, x, out, oz), x.r <= c, fr[x.r] # 0
  PROVE  LET fs == [fr EXCEPT ![x.w] = fr[x.r]] IN
         /\ JournalShape(fs, c)
         /\ Compacting(fs, c, [x EXCEPT !.r = @ + 1, !.w = @ + 1], out, oz)
<1> DEFINE y == [x EXCEPT !.r = @ + 1, !.w = @ + 1]
           fs == [fr EXCEPT ![x.w] = fr[x.r]]
<1>1. PICK r \in Nat, w \in Nat : /\ r = x.r /\ w = x.w /\ r \in 1..c /\ w \in 1..r
                                  /\ c \in Nat /\ Len(fr) \in Nat /\ c <= Len(fr)
  <2>1. Len(fr) \in Nat /\ c \in 0..Len(fr)
    BY StorageLen DEF JournalShape
  <2>2. QED
    BY <2>1 DEF Compacting
<1>2. RelShape(y) /\ y.r = r + 1 /\ y.w = w + 1 /\ y.fail = x.fail
  <2>1. RelShape(x) /\ r + 1 \in Nat /\ w + 1 \in Nat
    BY <1>1 DEF Compacting
  <2>2. y = [x EXCEPT !.r = r + 1, !.w = w + 1]
    BY <1>1
  <2> HIDE DEF y
  <2>3. QED
    BY <2>1, <2>2 DEF RelShape
<1> HIDE DEF y
<1>3. fr[r] \in Frames \cup {0}
  BY <1>1, StorageLen DEF JournalShape
<1>4. /\ fs \in Storage /\ Len(fs) = Len(fr) /\ fs[w] = fr[r]
      /\ \A j \in 1..Len(fr) : j # w => fs[j] = fr[j]
  BY <1>1, <1>3, StorageWrite DEF JournalShape
<1> HIDE DEF fs
<1>5. JournalShape(fs, c)
  BY <1>4 DEF JournalShape
<1> DEFINE K == Places(c, x)
           L == Places(c, y)
<1>6. K = (1..(w - 1)) \cup (r..c) /\ L = (1..((w + 1) - 1)) \cup ((r + 1)..c)
  BY <1>1, <1>2 DEF Places
<1>7. /\ w \in L /\ r \in K
      /\ \A k \in L : k = w \/ (k \in K /\ k # r /\ fs[k] = fr[k])
      /\ \A k \in K : k = r \/ (k \in L /\ k # w /\ fs[k] = fr[k])
  <2>1. w \in L /\ r \in K /\ \A k \in K \cup L : k \in 1..Len(fr)
    BY <1>1, <1>6
  <2>2. \A k \in L : k = w \/ (k \in K /\ k # r)
    BY <1>1, <1>6
  <2>3. \A k \in K : k = r \/ (k \in L /\ k # w)
    BY <1>1, <1>6
  <2> HIDE DEF K, L
  <2>4. QED
    BY <1>4, <2>1, <2>2, <2>3
<1> HIDE DEF K, L
<1>8. /\ out = Listed(fr, K) \cup ZeroOut(oz) /\ Once(fr, K) /\ Unmarked(fr, 1..(w - 1))
      /\ FailNames(fr, K, x.fail) /\ fr[r] # 0
  BY <1>1 DEF Compacting, K
<1>9. Listed(fs, L) = Listed(fr, K)
  <2>1. ASSUME NEW z \in Listed(fs, L) PROVE z \in Listed(fr, K)
    <3>1. PICK k \in L : z = fs[k] /\ z # 0
      BY DEF Listed
    <3>2. QED
      BY <1>4, <1>7, <3>1 DEF Listed
  <2>2. ASSUME NEW z \in Listed(fr, K) PROVE z \in Listed(fs, L)
    <3>1. PICK k \in K : z = fr[k] /\ z # 0
      BY DEF Listed
    <3>2. QED
      BY <1>4, <1>7, <3>1 DEF Listed
  <2>3. QED
    BY <2>1, <2>2
<1>10. Once(fs, L)
  BY <1>4, <1>7, <1>8 DEF Once
<1>11. Unmarked(fs, 1..((w + 1) - 1))
  <2>1. \A k \in 1..((w + 1) - 1) : k = w \/ (k \in 1..(w - 1) /\ fs[k] = fr[k])
    BY <1>1, <1>4
  <2>2. QED
    BY <1>4, <1>8, <2>1 DEF Unmarked
<1>12. FailNames(fs, L, x.fail)
  BY <1>4, <1>7, <1>8 DEF FailNames
<1>13. r + 1 \in 1..(c + 1) /\ w + 1 \in 1..(r + 1)
  BY <1>1
<1>14. Compacting(fs, c, y, out, oz)
  BY <1>2, <1>8, <1>9, <1>10, <1>11, <1>12, <1>13 DEF Compacting, L
<1>15. QED
  BY <1>5, <1>14 DEF y, fs

LEMMA CompactionSkips ==
  ASSUME NEW fr, NEW c \in Nat, NEW x, NEW out, NEW oz, Compacting(fr, c, x, out, oz),
         x.r <= c, fr[x.r] = 0
  PROVE  Compacting(fr, c, [x EXCEPT !.r = @ + 1], out, oz)
<1> DEFINE y == [x EXCEPT !.r = @ + 1]
<1>1. PICK r \in Nat, w \in Nat : r = x.r /\ w = x.w /\ r \in 1..c /\ w \in 1..r
  BY DEF Compacting
<1>2. RelShape(y) /\ y.r = r + 1 /\ y.w = w /\ y.fail = x.fail
  BY <1>1 DEF Compacting, RelShape
<1> HIDE DEF y
<1> DEFINE K == Places(c, x)
           L == Places(c, y)
<1>3. K = (1..(w - 1)) \cup (r..c) /\ L = (1..(w - 1)) \cup ((r + 1)..c)
  BY <1>1, <1>2 DEF Places
<1>4. L \subseteq K /\ \A k \in K : k = r \/ k \in L
  BY <1>1, <1>3
<1> HIDE DEF K, L
<1>5. /\ out = Listed(fr, K) \cup ZeroOut(oz) /\ Once(fr, K) /\ Unmarked(fr, 1..(w - 1))
      /\ FailNames(fr, K, x.fail) /\ fr[r] = 0
  BY <1>1 DEF Compacting, K
<1>6. Listed(fr, L) = Listed(fr, K) /\ Once(fr, L) /\ FailNames(fr, L, x.fail)
  BY <1>4, <1>5 DEF Listed, Once, FailNames
<1>7. r + 1 \in 1..(c + 1) /\ w \in 1..(r + 1)
  BY <1>1
<1>8. Compacting(fr, c, y, out, oz)
  BY <1>2, <1>5, <1>6, <1>7 DEF Compacting, L
<1>9. QED
  BY <1>8 DEF y

\* What was moved down is the journal.
LEMMA CompactionEnds ==
  ASSUME NEW fr, NEW c, NEW x, NEW out, NEW oz, JournalShape(fr, c), Compacting(fr, c, x, out, oz),
         x.r > c
  PROVE  JournalShape(fr, x.w - 1) /\ Ending(fr, x.w - 1, x, out, oz)
<1>1. PICK w \in Nat : /\ w = x.w /\ w \in 1..(c + 1) /\ x.r = c + 1
                       /\ c \in Nat /\ Len(fr) \in Nat /\ c <= Len(fr)
  <2>1. Len(fr) \in Nat /\ c \in 0..Len(fr)
    BY StorageLen DEF JournalShape
  <2>2. QED
    BY <2>1 DEF Compacting
<1>2. Places(c, x) = 1..(w - 1)
  BY <1>1 DEF Places
<1>3. JournalShape(fr, w - 1)
  BY <1>1 DEF JournalShape
<1>4. Ending(fr, w - 1, x, out, oz)
  BY <1>1, <1>2 DEF Compacting, Ending, Plain
<1>5. QED
  BY <1>1, <1>3, <1>4

-----------------------------------------------------------------------------
(* Addresses and frames. *)

\* Bits below the page size do not change the page.
LEMMA FloorOfRoot ==
  ASSUME NEW root \in Frames, NEW bits \in 0..(PAGE - 1)
  PROVE  pageFloor(root + bits) = root /\ root + bits \in Nat
<1>1. PAGE \in Nat \ {0} /\ root \in Nat /\ root % PAGE = 0 /\ bits \in Nat /\ bits < PAGE
  BY ElfAssumption, VmAssumption DEF Frames
<1>2. PICK p \in Nat \ {0} : p = PAGE
  BY <1>1
<1>3. PICK q \in Nat : root = p * q
  <2>1. root = p * (root \div p) + (root % p) /\ root \div p \in Nat
    BY <1>1, <1>2
  <2>2. QED
    BY <1>1, <1>2, <2>1
<1>4. PICK x \in Nat : x = root + bits
  BY <1>1
<1>5. x = p * (x \div p) + (x % p) /\ x \div p \in Nat /\ x % p \in 0..(p - 1)
  OBVIOUS
<1>6. PICK e \in Nat, r \in Nat : e = x \div p /\ r = x % p /\ r < p /\ x = p * e + r
  BY <1>5
<1>7. r = bits
  <2>1. p * e + r = p * q + bits
    BY <1>3, <1>4, <1>6
  <2>2. CASE e = q
    <3>1. p * q \in Nat
      OBVIOUS
    <3>2. QED
      BY <1>1, <2>1, <2>2, <3>1
  <2>3. CASE e > q
    <3>1. PICK d \in Nat : e = q + 1 + d
      BY <2>3
    <3>2. p * e = p * q + p + p * d /\ p * d \in Nat /\ p * q \in Nat
      BY <3>1
    <3>3. QED
      BY <1>1, <1>2, <1>6, <2>1, <3>2
  <2>4. CASE e < q
    <3>1. PICK d \in Nat : q = e + 1 + d
      BY <2>4
    <3>2. p * q = p * e + p + p * d /\ p * d \in Nat /\ p * e \in Nat
      BY <3>1
    <3>3. QED
      BY <1>1, <1>2, <1>6, <2>1, <3>2
  <2>5. QED
    BY <2>2, <2>3, <2>4
<1>8. QED
  BY <1>1, <1>2, <1>4, <1>6, <1>7 DEF pageFloor

LEMMA FloorOfKernelRoot == KernelRoot \in Nat /\ pageFloor(KernelRoot) = KernelRoot
<1>1. KernelRoot \in Frames /\ PAGE \in Nat \ {0}
  BY VmAssumption, ElfAssumption
<1>2. 0 \in 0..(PAGE - 1) /\ KernelRoot + 0 = KernelRoot /\ KernelRoot \in Nat
  BY <1>1, VmAssumption DEF Frames
<1>3. pageFloor(KernelRoot + 0) = KernelRoot
  BY <1>1, <1>2, FloorOfRoot
<1>4. QED
  BY <1>2, <1>3

\* What is handed out is made of frames, and zero.
LEMMA OutIsFrames ==
  ASSUME NEW fr, NEW c, NEW out, NEW oz, JournalShape(fr, c), Plain(fr, c, out, oz)
  PROVE  out \in SUBSET (Frames \cup {0})
<1>1. fr \in [1..Len(fr) -> Frames \cup {0}] /\ Len(fr) \in Nat /\ c \in 0..Len(fr)
  BY StorageLen DEF JournalShape
<1>2. \A k \in 1..c : k \in 1..Len(fr)
  BY <1>1
<1>3. QED
  BY <1>1, <1>2 DEF Plain, Listed, ZeroOut

\* takeFrame keeps only a frame of the machine that it does not own yet.
LEMMA FrameKept ==
  ASSUME JournalShape(frames, count), NEW oz, Plain(frames, count, live, oz),
         NEW phys \in Offers(live), frameError(phys) = "ok"
  PROVE  phys \in Frames /\ \A k \in 1..count : frames[k] # phys
<1>1. live \in SUBSET (Frames \cup {0})
  BY OutIsFrames
<1>2. phys \in Nat /\ PHYS_TOP \in Nat
  BY <1>1, VmAssumption
<1>3. phys # 0 /\ phys % PAGE = 0 /\ ~(phys >= PHYS_TOP) /\ ~contains(phys)
  BY DEF frameError
<1>4. phys \in 1..(PHYS_TOP - 1)
  BY <1>2, <1>3
<1>5. QED
  BY <1>3, <1>4 DEF Frames, contains

\* Journaled: the frame is listed and out.
LEMMA JournaledKeeps ==
  ASSUME JournalShape(frames, count), space.owns_zero \in BOOLEAN,
         Plain(frames, count, live, space.owns_zero), NEW phys, Journaled(phys)
  PROVE  /\ phys \in Frames /\ count \in Nat /\ count' = count + 1
         /\ JournalShape(frames', count') /\ Plain(frames', count', live', space.owns_zero)
<1>1. /\ fullError = "ok" /\ phys \in Offers(live) /\ frameError(phys) = "ok"
      /\ frames' = [frames EXCEPT ![count + 1] = phys] /\ count' = count + 1
      /\ live' = live \cup {phys}
  BY DEF Journaled
<1>2. phys \in Frames /\ \A k \in 1..count : frames[k] # phys
  BY <1>1, FrameKept
<1>3. Len(frames) \in Nat /\ count \in 0..Len(frames)
  BY StorageLen DEF JournalShape
<1>4. count < Len(frames)
  BY <1>1, <1>3 DEF fullError
<1>5. /\ JournalShape([frames EXCEPT ![count + 1] = phys], count + 1)
      /\ Plain([frames EXCEPT ![count + 1] = phys], count + 1, live \cup {phys}, space.owns_zero)
  BY <1>2, <1>4, JournalAdds
<1>6. QED
  BY <1>1, <1>2, <1>3, <1>5

-----------------------------------------------------------------------------
(* The steps of a call. *)

\* While construct runs.
BuildInv ==
  /\ SpaceShape(space) /\ JournalShape(frames, count)
  /\ cr3 \in Nat /\ pageFloor(cr3) = KernelRoot
  /\ pc \in Building /\ Plain(frames, count, live, space.owns_zero)
  /\ space.state = "building" /\ (pc = "pml4" \/ space.root_phys \in Frames)
  /\ count \in Nat /\ space.owns_zero \in BOOLEAN

LEMMA BuildInvHolds ==
  ASSUME VmInv, pc \in Building
  PROVE  BuildInv
<1>1. pc \notin {"idle", "release", "compact", "zero"}
  BY DEF Building
<1>2. count \in Nat
  BY StorageLen DEF VmInv, JournalShape
<1>3. space.owns_zero \in BOOLEAN
  BY DEF VmInv, SpaceShape
<1>4. QED
  BY <1>1, <1>2, <1>3 DEF VmInv, BuildInv, RootInv

\* A step of construct that takes nothing and does not fail.
LEMMA BuildsOn ==
  ASSUME BuildInv, pc # "pml4", pc' \in Building,
         UNCHANGED <<space, frames, count, live, cr3>>
  PROVE  VmInv'
<1>1. pc' # "idle"
  BY DEF Building
<1>2. QED
  BY <1>1 DEF BuildInv, VmInv, RootInv

\* A failing one.
LEMMA Unwinds ==
  ASSUME BuildInv, NEW error, Unwind(error, count'), SpaceShape(space'),
         JournalShape(frames', count'), count' \in Nat,
         Plain(frames', count', live', space'.owns_zero), cr3' = cr3
  PROVE  VmInv'
<1>1. pc' = "release" /\ rel' = [NoRel EXCEPT !.i = count', !.cause = "construct", !.err = error]
  BY DEF Unwind
<1>2. Releasing(frames', count', rel', live', space'.owns_zero)
  <2>1. \E fr, out, oz : fr = frames' /\ out = live' /\ oz = space'.owns_zero
    OBVIOUS
  <2> PICK fr, out, oz : fr = frames' /\ out = live' /\ oz = space'.owns_zero
    BY <2>1
  <2> PICK c \in Nat : c = count'
    OBVIOUS
  <2>2. Plain(fr, c, out, oz)
    OBVIOUS
  <2>3. Releasing(fr, c, [NoRel EXCEPT !.i = c, !.cause = "construct", !.err = error], out, oz)
    BY <2>2, ReleaseStarts
  <2>4. QED
    BY <1>1, <2>3
<1>3. QED
  BY <1>1, <1>2 DEF BuildInv, VmInv, RootInv

LEMMA UnwindsHere ==
  ASSUME BuildInv, NEW error, Unwind(error, count), UNCHANGED <<space, frames, count, live, cr3>>
  PROVE  VmInv'
<1>1. /\ SpaceShape(space') /\ JournalShape(frames', count') /\ count' \in Nat
      /\ Plain(frames', count', live', space'.owns_zero) /\ Unwind(error, count')
  BY DEF BuildInv, Unwind
<1>2. QED
  BY <1>1, Unwinds

\* A frame taken: the counters and the root change, and the construction goes on.
LEMMA TakesOn ==
  ASSUME BuildInv, NEW phys, Taken(phys), SpaceShape(space'),
         space'.owns_zero = space.owns_zero, space'.state = space.state,
         space'.root_phys = (IF pc = "pml4" THEN phys ELSE space.root_phys),
         pc' \in Building
  PROVE  VmInv'
<1>1. Journaled(phys) /\ cr3' = cr3
  BY DEF Taken
<1>2. /\ phys \in Frames /\ JournalShape(frames', count')
      /\ Plain(frames', count', live', space.owns_zero)
  BY <1>1, JournaledKeeps DEF BuildInv
<1>3. space'.root_phys \in Frames /\ space'.state = "building" /\ pc' # "idle"
  BY <1>2 DEF BuildInv, Building
<1>4. QED
  BY <1>1, <1>2, <1>3 DEF BuildInv, VmInv, RootInv

LEMMA TakeKeeps ==
  ASSUME VmInv, Take
  PROVE  VmInv'
<1>1. pc \in Taking
  BY DEF Take, TakeRefused, TakeUnusable, TakeUnreadable, TakePml4, TakePdpt, TakePd, TakePt,
         TakeLeaf, Taking
<1>2. BuildInv
  BY <1>1, BuildInvHolds DEF Taking, Building
<1>3. CASE TakeRefused
  <2>1. PICK error : Unwind(error, count)
    BY <1>3 DEF TakeRefused
  <2>2. UNCHANGED <<space, frames, count, live, cr3>>
    BY <1>3 DEF TakeRefused, journal
  <2>3. QED
    BY <1>2, <2>1, <2>2, UnwindsHere
<1>4. ASSUME NEW phys \in Offers(live), TakeUnusable(phys) PROVE VmInv'
  <2>1. /\ space' = [space EXCEPT !.owns_zero = @ \/ phys = 0]
        /\ live' = (IF phys = 0 THEN live \cup {0} ELSE live)
        /\ Unwind(frameError(phys), count) /\ frames' = frames /\ count' = count /\ cr3' = cr3
    BY <1>4 DEF TakeUnusable, journal
  <2>2. SpaceShape(space') /\ space'.owns_zero = (space.owns_zero \/ phys = 0)
    <3>1. PICK b \in BOOLEAN : b = (space.owns_zero \/ phys = 0)
      OBVIOUS
    <3>2. space' = [space EXCEPT !.owns_zero = b]
      BY <2>1, <3>1
    <3>3. SpaceShape(space') /\ space'.owns_zero = b
      BY <1>2, <3>2 DEF BuildInv, SpaceShape
    <3>4. QED
      BY <3>1, <3>3
  <2>3. Plain(frames', count', live', space'.owns_zero)
    BY <1>2, <2>1, <2>2 DEF BuildInv, Plain, ZeroOut
  <2>4. Unwind(frameError(phys), count') /\ JournalShape(frames', count') /\ count' \in Nat
    BY <1>2, <2>1 DEF BuildInv
  <2>5. QED
    BY <1>2, <2>1, <2>2, <2>3, <2>4, Unwinds
<1>5. ASSUME NEW phys \in Offers(live), TakeUnreadable(phys) PROVE VmInv'
  <2>1. Journaled(phys) /\ Unwind("PageAccess", count + 1) /\ space' = space /\ cr3' = cr3
    BY <1>5 DEF TakeUnreadable
  <2>2. /\ count' = count + 1 /\ JournalShape(frames', count') /\ count' \in Nat
        /\ Plain(frames', count', live', space.owns_zero)
    BY <1>2, <2>1, JournaledKeeps DEF BuildInv
  <2>3. SpaceShape(space') /\ Unwind("PageAccess", count')
    BY <1>2, <2>1, <2>2 DEF BuildInv
  <2>4. QED
    BY <1>2, <2>1, <2>2, <2>3, Unwinds
<1>6. ASSUME NEW phys \in Offers(live), TakePml4(phys) PROVE VmInv'
  <2>1. /\ pc = "pml4" /\ pc' \in Building /\ Taken(phys)
        /\ space' = [space EXCEPT !.table_pages = @ + 1, !.root_phys = phys]
    BY <1>6 DEF TakePml4, Building
  <2>2. /\ SpaceShape(space') /\ space'.owns_zero = space.owns_zero
        /\ space'.state = space.state /\ space'.root_phys = phys
    BY <1>2, <2>1 DEF BuildInv, SpaceShape
  <2>3. QED
    BY <1>2, <2>1, <2>2, TakesOn
<1>7. ASSUME NEW phys \in Offers(live), TakePdpt(phys) \/ TakePd(phys) PROVE VmInv'
  <2>1. /\ pc # "pml4" /\ pc' \in Building /\ Taken(phys)
        /\ space' = [space EXCEPT !.table_pages = @ + 1]
    BY <1>7 DEF TakePdpt, TakePd, Building
  <2>2. /\ SpaceShape(space') /\ space'.owns_zero = space.owns_zero
        /\ space'.state = space.state /\ space'.root_phys = space.root_phys
    BY <1>2, <2>1 DEF BuildInv, SpaceShape
  <2>3. QED
    BY <1>2, <2>1, <2>2, TakesOn
<1>8. ASSUME NEW phys \in Offers(live), TakePt(phys) PROVE VmInv'
  <2>1. /\ pc # "pml4" /\ pc' \in Building /\ Taken(phys)
        /\ \/ space' = [space EXCEPT !.table_pages = @ + 1, !.image_pts = @ + 1]
           \/ space' = [space EXCEPT !.table_pages = @ + 1, !.stack_pts = @ + 1]
    BY <1>8 DEF TakePt, Building
  <2>2. /\ SpaceShape(space') /\ space'.owns_zero = space.owns_zero
        /\ space'.state = space.state /\ space'.root_phys = space.root_phys
    BY <1>2, <2>1 DEF BuildInv, SpaceShape
  <2>3. QED
    BY <1>2, <2>1, <2>2, TakesOn
<1>9. ASSUME NEW phys \in Offers(live), TakeLeaf(phys) PROVE VmInv'
  <2>1. /\ pc # "pml4" /\ pc' \in Building /\ Taken(phys)
        /\ \/ space' = [space EXCEPT !.image_pages = @ + 1]
           \/ space' = [space EXCEPT !.stack_pages = @ + 1]
    BY <1>9 DEF TakeLeaf, Building
  <2>2. /\ SpaceShape(space') /\ space'.owns_zero = space.owns_zero
        /\ space'.state = space.state /\ space'.root_phys = space.root_phys
    BY <1>2, <2>1 DEF BuildInv, SpaceShape
  <2>3. QED
    BY <1>2, <2>1, <2>2, TakesOn
<1>10. QED
  BY <1>3, <1>4, <1>5, <1>6, <1>7, <1>8, <1>9 DEF Take

LEMMA MapKeeps ==
  ASSUME VmInv, Map
  PROVE  VmInv'
<1>1. pc \in Building \ {"pml4"}
  BY DEF Map, LinkPdpt, Borrow, LinkPd, NextSegment, EnsurePt, LinkPt, CheckSlot, CopyFile,
         LinkLeaf, PagesDone, AccessFault, Building
<1>2. BuildInv
  BY <1>1, BuildInvHolds
<1>3. CASE ~PagesDone
  <2>1. UNCHANGED <<space, frames, count, live, cr3>>
    BY <1>3 DEF Map, LinkPdpt, Borrow, LinkPd, NextSegment, EnsurePt, LinkPt, CheckSlot, CopyFile,
                LinkLeaf, AccessFault, journal
  <2>2. pc' \in Building \/ \E error : Unwind(error, count)
    <3>1. CASE LinkPdpt \/ LinkPd \/ LinkPt \/ LinkLeaf
      BY <3>1 DEF LinkPdpt, LinkPd, LinkPt, LinkLeaf, Building
    <3>2. CASE Borrow
      BY <3>2 DEF Borrow, Building
    <3>3. CASE NextSegment
      BY <3>3 DEF NextSegment, Building
    <3>4. CASE EnsurePt
      BY <3>4 DEF EnsurePt, Building
    <3>5. CASE CheckSlot \/ CopyFile
      BY <3>5 DEF CheckSlot, CopyFile, Building
    <3>6. CASE AccessFault
      BY <3>6 DEF AccessFault
    <3>7. QED
      BY <1>3, <3>1, <3>2, <3>3, <3>4, <3>5, <3>6 DEF Map
  <2>3. QED
    BY <1>1, <1>2, <2>1, <2>2, BuildsOn, UnwindsHere
<1>4. CASE PagesDone
  <2>1. frames' = frames /\ count' = count /\ live' = live /\ cr3' = cr3
    BY <1>4 DEF PagesDone, journal
  <2>2. CASE work.kind = "image"
    <3>1. pc' \in Building /\ space' = space
      BY <1>4, <2>2 DEF PagesDone, Building
    <3>2. QED
      BY <1>1, <1>2, <2>1, <3>1, BuildsOn
  <2>3. CASE work.kind # "image"
    <3>1. /\ pc' = "idle"
          /\ space' = [space EXCEPT !.entry = work.plan.entry, !.stack_top = STACK_TOP,
                                    !.state = "ready"]
      BY <1>4, <2>3 DEF PagesDone
    <3>2. /\ SpaceShape(space') /\ space'.owns_zero = space.owns_zero
          /\ space'.state = "ready" /\ space'.root_phys = space.root_phys
      BY <1>2, <3>1 DEF BuildInv, SpaceShape
    <3>3. space'.root_phys \in Frames
      BY <1>1, <1>2, <3>2 DEF BuildInv
    <3>4. QED
      BY <1>2, <2>1, <3>1, <3>2, <3>3 DEF BuildInv, VmInv, RootInv, Resting
  <2>4. QED
    BY <2>2, <2>3
<1>5. QED
  BY <1>3, <1>4

\* While releaseAll runs.
ReleaseInv ==
  /\ SpaceShape(space) /\ JournalShape(frames, count)
  /\ cr3 \in Nat /\ pageFloor(cr3) = KernelRoot
  /\ count \in Nat /\ space.owns_zero \in BOOLEAN
  /\ pc \in {"release", "compact", "zero"}
  /\ pc = "release" => Releasing(frames, count, rel, live, space.owns_zero)
  /\ pc = "compact" => Compacting(frames, count, rel, live, space.owns_zero)
  /\ pc = "zero" => Ending(frames, count, rel, live, space.owns_zero)

LEMMA ReleaseInvHolds ==
  ASSUME VmInv, pc \in {"release", "compact", "zero"}
  PROVE  ReleaseInv
<1>1. count \in Nat
  BY StorageLen DEF VmInv, JournalShape
<1>2. space.owns_zero \in BOOLEAN
  BY DEF VmInv, SpaceShape
<1>3. pc \notin Building /\ pc # "idle"
  BY DEF Building
<1>4. QED
  BY <1>1, <1>2, <1>3 DEF VmInv, ReleaseInv, RootInv

LEMMA ReleaseInvEnough ==
  ASSUME ReleaseInv'
  PROVE  VmInv'
BY DEF VmInv, ReleaseInv, RootInv

\* releaseAll's outcome: everything is back, or the space names a frame that is not.
LEMMA FinishKeeps ==
  ASSUME ReleaseInv, pc = "zero", NEW fail, NEW oz \in BOOLEAN, Finish(fail, oz),
         Plain(frames, count, live', oz),
         fail = << >> => count = 0 /\ ~oz,
         fail # << >> => \/ \E k \in 1..count : fail = <<frames[k]>>
                         \/ fail = << 0 >> /\ oz
  PROVE  VmInv'
<1>1. pc' = "idle" /\ frames' = frames /\ count' = count /\ cr3' = cr3
  BY DEF Finish, journal
<1>2. CASE fail # << >>
  <2>1. space' = [space EXCEPT !.state = "destroyed", !.failed_release_frame = fail[1],
                               !.owns_zero = oz]
    BY <1>2 DEF Finish
  <2>2. /\ SpaceShape(space') /\ space'.owns_zero = oz /\ space'.state = "destroyed"
        /\ space'.failed_release_frame = fail[1]
    BY <2>1 DEF ReleaseInv, SpaceShape
  <2>3. \/ \E k \in 1..count : frames[k] = fail[1]
        \/ fail[1] = 0 /\ oz
    BY <1>2
  <2>4. Resting(space', frames', count')
    BY <1>1, <2>2, <2>3 DEF Resting
  <2>5. QED
    BY <1>1, <2>2, <2>4 DEF ReleaseInv, VmInv, RootInv
<1>3. CASE fail = << >>
  <2>1. space' = [EmptySpace EXCEPT !.state = IF rel.cause = "construct" THEN "empty" ELSE "destroyed"]
    BY <1>3 DEF Finish
  <2>2. /\ SpaceShape(space') /\ space'.owns_zero = FALSE /\ space'.state \in {"empty", "destroyed"}
    BY <2>1 DEF EmptySpace, SpaceShape
  <2>3. Resting(space', frames', count')
    BY <1>1, <1>3, <2>2 DEF Resting
  <2>4. Plain(frames', count', live', space'.owns_zero)
    BY <1>1, <1>3, <2>2
  <2>5. QED
    BY <1>1, <2>2, <2>3, <2>4 DEF ReleaseInv, VmInv, RootInv
<1>4. QED
  BY <1>2, <1>3

LEMMA ReleaseStepKeeps ==
  ASSUME VmInv, Release
  PROVE  VmInv'
<1>1. pc \in {"release", "compact", "zero"}
  BY DEF Release, ReleaseFrame, ReleaseRefused, StartCompaction, Compact, CompactDone, ReleaseZero,
         ZeroRefused
<1>2. ReleaseInv
  BY <1>1, ReleaseInvHolds
<1>3. CASE ReleaseFrame
  <2>1. /\ pc = "release" /\ rel.i > 0 /\ pc' = pc /\ space' = space /\ count' = count /\ cr3' = cr3
        /\ frames' = [frames EXCEPT ![rel.i] = 0] /\ live' = live \ {frames[rel.i]}
        /\ rel' = [rel EXCEPT !.i = @ - 1]
    BY <1>3 DEF ReleaseFrame
  <2>2. /\ JournalShape([frames EXCEPT ![rel.i] = 0], count)
        /\ Releasing([frames EXCEPT ![rel.i] = 0], count, [rel EXCEPT !.i = @ - 1],
                     live \ {frames[rel.i]}, space.owns_zero)
    <3>1. /\ JournalShape(frames, count) /\ Releasing(frames, count, rel, live, space.owns_zero)
          /\ space.owns_zero \in BOOLEAN /\ rel.i > 0
      BY <1>2, <2>1 DEF ReleaseInv
    <3>2. PICK fr, c, x, out : fr = frames /\ c = count /\ x = rel /\ out = live
      OBVIOUS
    <3>3. PICK oz \in BOOLEAN : oz = space.owns_zero
      BY <3>1
    <3>4. /\ JournalShape([fr EXCEPT ![x.i] = 0], c)
          /\ Releasing([fr EXCEPT ![x.i] = 0], c, [x EXCEPT !.i = @ - 1], out \ {fr[x.i]}, oz)
      BY <3>1, <3>2, <3>3, ReleaseFrees
    <3>5. QED
      BY <3>2, <3>3, <3>4
  <2>3. ReleaseInv'
    BY <1>2, <2>1, <2>2 DEF ReleaseInv
  <2>4. QED
    BY <2>3, ReleaseInvEnough
<1>4. CASE ReleaseRefused
  <2>1. /\ pc = "release" /\ rel.i > 0 /\ pc' = pc /\ space' = space /\ count' = count /\ cr3' = cr3
        /\ frames' = frames /\ live' = live
        /\ rel' = [rel EXCEPT !.i = @ - 1, !.fail = FirstFailure(frames[rel.i])]
    BY <1>4 DEF ReleaseRefused, journal
  <2>2. FirstFailure(frames[rel.i]) = IF rel.fail = << >> THEN <<frames[rel.i]>> ELSE rel.fail
    BY DEF FirstFailure
  <2>3. Releasing(frames, count, [rel EXCEPT !.i = @ - 1,
                    !.fail = IF rel.fail = << >> THEN <<frames[rel.i]>> ELSE rel.fail],
                  live, space.owns_zero)
    BY <1>2, <2>1, ReleaseKeeps DEF ReleaseInv
  <2>4. Releasing(frames, count, rel', live, space.owns_zero)
    BY <2>1, <2>2, <2>3
  <2>5. ReleaseInv'
    BY <1>2, <2>1, <2>4 DEF ReleaseInv
  <2>6. QED
    BY <2>5, ReleaseInvEnough
<1>5. CASE StartCompaction
  <2>1. /\ pc = "release" /\ rel.i = 0 /\ pc' = "compact" /\ space' = space /\ count' = count
        /\ cr3' = cr3 /\ frames' = frames /\ live' = live
        /\ rel' = [rel EXCEPT !.r = 1, !.w = 1]
    BY <1>5 DEF StartCompaction, journal
  <2>2. Compacting(frames, count, rel', live, space.owns_zero)
    BY <1>2, <2>1, CompactionStarts DEF ReleaseInv
  <2>3. ReleaseInv'
    BY <1>2, <2>1, <2>2 DEF ReleaseInv
  <2>4. QED
    BY <2>3, ReleaseInvEnough
<1>6. CASE Compact
  <2>1. /\ pc = "compact" /\ rel.r <= count /\ pc' = pc /\ space' = space /\ count' = count
        /\ cr3' = cr3 /\ live' = live
    BY <1>6 DEF Compact
  <2>2. CASE frames[rel.r] # 0
    <3>1. /\ frames' = [frames EXCEPT ![rel.w] = frames[rel.r]]
          /\ rel' = [rel EXCEPT !.r = @ + 1, !.w = @ + 1]
      BY <1>6, <2>2 DEF Compact
    <3>2. /\ JournalShape([frames EXCEPT ![rel.w] = frames[rel.r]], count)
          /\ Compacting([frames EXCEPT ![rel.w] = frames[rel.r]], count,
                        [rel EXCEPT !.r = @ + 1, !.w = @ + 1], live, space.owns_zero)
      BY <1>2, <2>1, <2>2, CompactionMoves DEF ReleaseInv
    <3>3. ReleaseInv'
      BY <1>2, <2>1, <3>1, <3>2 DEF ReleaseInv
    <3>4. QED
      BY <3>3, ReleaseInvEnough
  <2>3. CASE frames[rel.r] = 0
    <3>1. frames' = frames /\ rel' = [rel EXCEPT !.r = @ + 1]
      BY <1>6, <2>3 DEF Compact
    <3>2. Compacting(frames, count, rel', live, space.owns_zero)
      BY <1>2, <2>1, <2>3, <3>1, CompactionSkips DEF ReleaseInv
    <3>3. ReleaseInv'
      BY <1>2, <2>1, <3>1, <3>2 DEF ReleaseInv
    <3>4. QED
      BY <3>3, ReleaseInvEnough
  <2>4. QED
    BY <2>2, <2>3
<1>7. CASE CompactDone
  <2>1. /\ pc = "compact" /\ rel.r > count /\ pc' = "zero" /\ space' = space /\ count' = rel.w - 1
        /\ cr3' = cr3 /\ frames' = frames /\ live' = live /\ rel' = rel
    BY <1>7 DEF CompactDone
  <2>2. JournalShape(frames, rel.w - 1) /\ Ending(frames, rel.w - 1, rel, live, space.owns_zero)
    BY <1>2, <2>1, CompactionEnds DEF ReleaseInv
  <2>3. count' \in Nat
    BY <2>1, <2>2, StorageLen DEF JournalShape
  <2>4. ReleaseInv'
    BY <1>2, <2>1, <2>2, <2>3 DEF ReleaseInv
  <2>5. QED
    BY <2>4, ReleaseInvEnough
<1>8. ASSUME pc = "zero"
      PROVE  /\ Plain(frames, count, live, space.owns_zero)
             /\ rel.fail = << >> => count = 0
             /\ rel.fail # << >> => \E k \in 1..count : rel.fail = <<frames[k]>>
             /\ 0 \notin Listed(frames, 1..count)
  <2>1. Plain(frames, count, live, space.owns_zero) /\ FailNames(frames, 1..count, rel.fail)
    BY <1>2, <1>8 DEF ReleaseInv, Ending
  <2>2. ASSUME rel.fail = << >> PROVE count = 0
    <3>1. \A k \in 1..count : frames[k] = 0
      BY <2>1, <2>2 DEF FailNames
    <3>2. 1..count = {}
      BY <2>1, <3>1 DEF Plain, Unmarked
    <3>3. count \in Nat
      BY <1>2 DEF ReleaseInv
    <3>4. count # 0 => 1 \in 1..count
      BY <3>3
    <3>5. QED
      BY <3>2, <3>4
  <2>3. QED
    BY <2>1, <2>2 DEF FailNames, Listed
<1>9. CASE ReleaseZero
  <2>1. /\ pc = "zero" /\ live' = (IF space.owns_zero THEN live \ {0} ELSE live)
        /\ Finish(rel.fail, FALSE)
    BY <1>9 DEF ReleaseZero
  <2>2. Plain(frames, count, live', FALSE)
    <3>1. live' = Listed(frames, 1..count)
      BY <1>8, <2>1 DEF Plain, ZeroOut
    <3>2. QED
      BY <1>8, <2>1, <3>1 DEF Plain, ZeroOut
  <2>3. QED
    BY <1>2, <1>8, <2>1, <2>2, FinishKeeps
<1>10. CASE ZeroRefused
  <2>1. /\ pc = "zero" /\ space.owns_zero = TRUE /\ live' = live /\ Finish(FirstFailure(0), TRUE)
    BY <1>2, <1>10 DEF ZeroRefused, ReleaseInv
  <2>2. Plain(frames, count, live', TRUE)
    BY <1>8, <2>1
  <2>3. /\ FirstFailure(0) # << >>
        /\ \/ \E k \in 1..count : FirstFailure(0) = <<frames[k]>>
           \/ FirstFailure(0) = <<0>>
    BY <1>8, <2>1 DEF FirstFailure
  <2>4. QED
    BY <1>2, <2>1, <2>2, <2>3, FinishKeeps
<1>11. QED
  BY <1>3, <1>4, <1>5, <1>6, <1>7, <1>9, <1>10 DEF Release

-----------------------------------------------------------------------------
(* The calls. *)

IdleInv ==
  /\ SpaceShape(space) /\ JournalShape(frames, count)
  /\ pc = "idle" /\ count \in Nat /\ space.owns_zero \in BOOLEAN
  /\ Plain(frames, count, live, space.owns_zero) /\ Resting(space, frames, count)
  /\ RootInv(cr3, pc, space)

LEMMA IdleInvHolds ==
  ASSUME VmInv, pc = "idle"
  PROVE  IdleInv
<1>1. count \in Nat
  BY StorageLen DEF VmInv, JournalShape
<1>2. space.owns_zero \in BOOLEAN
  BY DEF VmInv, SpaceShape
<1>3. pc \notin Building
  BY DEF Building
<1>4. QED
  BY <1>1, <1>2, <1>3 DEF VmInv, IdleInv

\* A call that returns at once.
LEMMA ReturnKeeps ==
  ASSUME IdleInv, NEW error, Return(error)
  PROVE  VmInv'
BY DEF Return, journal, IdleInv, VmInv

\* construct begins only on an empty space, while the CPU is on the kernel's root.
LEMMA ConstructKeeps ==
  ASSUME IdleInv, NEW img, NEW p, NEW tp, constructPlan(img, p, tp)
  PROVE  VmInv'
<1>1. CASE \E error : Return(error)
  BY <1>1, ReturnKeeps
<1>2. CASE ~\E error : Return(error)
  <2>1. space.state = "empty"
    BY <1>2 DEF constructPlan
  <2>2. /\ pc' = "pml4" /\ space' = [space EXCEPT !.state = "building"]
        /\ frames' = frames /\ count' = count /\ live' = live /\ cr3' = cr3
    BY <1>2 DEF constructPlan, journal
  <2>3. SpaceShape(space') /\ space'.owns_zero = space.owns_zero /\ space'.state = "building"
    BY <2>2 DEF IdleInv, SpaceShape
  <2>4. pageFloor(cr3) = KernelRoot
    BY <2>1 DEF IdleInv, RootInv
  <2>5. pc' \in Building
    BY <2>2 DEF Building
  <2>6. QED
    BY <2>2, <2>3, <2>4, <2>5 DEF IdleInv, VmInv, RootInv
<1>3. QED
  BY <1>1, <1>2

\* Releasing begins only while the CPU is on the kernel's root.
LEMMA StartReleaseKeeps ==
  ASSUME IdleInv, NEW cause, StartRelease(cause), pageFloor(cr3) = KernelRoot
  PROVE  VmInv'
<1>1. /\ pc' = "release" /\ rel' = [NoRel EXCEPT !.i = count, !.cause = cause]
      /\ space' = space /\ frames' = frames /\ count' = count /\ live' = live /\ cr3' = cr3
  BY DEF StartRelease, journal
<1>2. rel' = [NoRel EXCEPT !.i = count, !.cause = cause, !.err = "ok"]
  <2>1. NoRel = [NoRel EXCEPT !.err = "ok"] /\ RelShape(NoRel)
    BY DEF NoRel, RelShape
  <2>2. QED
    BY <1>1, <2>1 DEF RelShape
<1>3. Releasing(frames, count, rel', live, space.owns_zero)
  BY <1>2, ReleaseStarts DEF IdleInv
<1>4. QED
  BY <1>1, <1>3 DEF IdleInv, VmInv, RootInv

LEMMA CallKeeps ==
  ASSUME VmInv, Call
  PROVE  VmInv'
<1>1. pc = "idle"
  BY DEF Call, construct, constructClaimedPlan, destroy, retryRelease, reset, Activate, Restore
<1>2. IdleInv
  BY <1>1, IdleInvHolds
<1>3. ASSUME NEW img, NEW tp, construct(img, tp) PROVE VmInv'
  BY <1>2, <1>3, ReturnKeeps, ConstructKeeps DEF construct
<1>4. ASSUME NEW img, NEW claimed, NEW tp, constructClaimedPlan(img, claimed, tp) PROVE VmInv'
  BY <1>2, <1>4, ReturnKeeps, ConstructKeeps DEF constructClaimedPlan
<1>5. CASE destroy
  <2>1. CASE \E error : Return(error)
    BY <1>2, <2>1, ReturnKeeps
  <2>2. CASE ~\E error : Return(error)
    <3>1. space.state \in {"empty", "ready", "destroyed"}
      BY <1>2 DEF IdleInv, Resting
    <3>2. space.state = "ready" /\ space.root_phys \in Frames
      <4>1. space.state # "empty" /\ space.state # "destroyed"
        BY <1>5, <2>2 DEF destroy
      <4>2. QED
        BY <1>2, <3>1, <4>1 DEF IdleInv, Resting
    <3>3. /\ ~(space.root_phys # 0 /\ cr3Root(cr3) = space.root_phys)
          /\ StartRelease("destroy")
      BY <1>5, <2>2, <3>2 DEF destroy
    <3>4. pageFloor(cr3) = KernelRoot
      BY <1>2, <3>2, <3>3 DEF IdleInv, RootInv, cr3Root, pageFloor, Frames
    <3>5. QED
      BY <1>2, <3>3, <3>4, StartReleaseKeeps
  <2>3. QED
    BY <2>1, <2>2
<1>6. CASE retryRelease
  <2>1. CASE \E error : Return(error)
    BY <1>2, <2>1, ReturnKeeps
  <2>2. CASE ~\E error : Return(error)
    <3>1. space.state = "destroyed" /\ StartRelease("retry")
      BY <1>6, <2>2 DEF retryRelease
    <3>2. pageFloor(cr3) = KernelRoot
      BY <1>2, <3>1 DEF IdleInv, RootInv
    <3>3. QED
      BY <1>2, <3>1, <3>2, StartReleaseKeeps
  <2>3. QED
    BY <2>1, <2>2
<1>7. CASE reset
  <2>1. CASE \E error : Return(error)
    BY <1>2, <2>1, ReturnKeeps
  <2>2. CASE ~\E error : Return(error)
    <3>1. space.state = "destroyed" /\ count = 0 /\ ~space.owns_zero
      BY <1>7, <2>2 DEF reset
    <3>2. /\ space' = EmptySpace /\ pc' = pc /\ frames' = frames /\ count' = count
          /\ live' = live /\ cr3' = cr3
      BY <1>7, <2>2 DEF reset, journal
    <3>3. SpaceShape(EmptySpace) /\ EmptySpace.owns_zero = FALSE /\ EmptySpace.state = "empty"
      BY DEF EmptySpace, SpaceShape
    <3>4. pageFloor(cr3) = KernelRoot
      BY <1>2, <3>1 DEF IdleInv, RootInv
    <3>5. space.owns_zero = FALSE
      BY <1>2, <3>1 DEF IdleInv
    <3>6. QED
      BY <1>2, <3>1, <3>2, <3>3, <3>4, <3>5 DEF IdleInv, VmInv, RootInv, Resting
  <2>3. QED
    BY <2>1, <2>2
<1>8. ASSUME NEW bits \in 0..(PAGE - 1), Activate(bits) PROVE VmInv'
  <2>1. /\ space.state = "ready" /\ cr3' = space.root_phys + bits
        /\ pc' = pc /\ space' = space /\ frames' = frames /\ count' = count /\ live' = live
    BY <1>8 DEF Activate, journal
  <2>2. space.root_phys \in Frames
    BY <1>2, <2>1 DEF IdleInv, Resting
  <2>3. cr3' \in Nat /\ pageFloor(cr3') = space.root_phys
    BY <2>1, <2>2, FloorOfRoot
  <2>4. RootInv(cr3', pc', space')
    BY <1>1, <2>1, <2>3 DEF RootInv
  <2>5. QED
    BY <1>2, <2>1, <2>4 DEF IdleInv, VmInv
<1>9. CASE Restore
  <2>1. /\ cr3' = KernelRoot
        /\ pc' = pc /\ space' = space /\ frames' = frames /\ count' = count /\ live' = live
    BY <1>9 DEF Restore, journal
  <2>2. RootInv(cr3', pc', space')
    BY <2>1, FloorOfKernelRoot DEF RootInv
  <2>3. QED
    BY <1>2, <2>1, <2>2 DEF IdleInv, VmInv
<1>10. QED
  BY <1>3, <1>4, <1>5, <1>6, <1>7, <1>8, <1>9 DEF Call

LEMMA InitInv ==
  ASSUME Init
  PROVE  VmInv
<1>1. PICK cap \in Caps : frames = [k \in 1..cap |-> 0]
  BY DEF Init
<1>2. cap \in Nat
  BY VmAssumption
<1>3. frames \in [1..cap -> Frames \cup {0}]
  BY <1>1
<1>4. frames \in Storage
  BY <1>2, <1>3 DEF Storage
<1>5. JournalShape(frames, count)
  BY <1>4, StorageLen DEF JournalShape, Init
<1>6. 1..0 = {}
  OBVIOUS
<1>7. SpaceShape(EmptySpace) /\ EmptySpace.owns_zero = FALSE /\ EmptySpace.state = "empty"
  BY DEF EmptySpace, SpaceShape
<1>8. Plain(frames, count, live, FALSE)
  BY <1>6 DEF Init, Plain, Listed, Once, Unmarked, ZeroOut
<1>9. RootInv(cr3, pc, space)
  BY FloorOfKernelRoot DEF Init, RootInv
<1>10. QED
  BY <1>5, <1>7, <1>8, <1>9 DEF Init, VmInv, Resting

\* The invariant holds at every step of every call.
THEOREM VmInvariant == Spec => []VmInv
<1>1. Init => VmInv
  BY InitInv
<1>2. VmInv /\ [Next]_vars => VmInv'
  <2>1. SUFFICES ASSUME VmInv, [Next]_vars PROVE VmInv'
    OBVIOUS
  <2>2. CASE UNCHANGED vars
    BY <2>1, <2>2 DEF vars, journal, VmInv
  <2>3. QED
    BY <2>1, <2>2, CallKeeps, TakeKeeps, MapKeeps, ReleaseStepKeeps DEF Next, Running
<1>3. QED
  BY <1>1, <1>2, PTL DEF Spec

\* No failure, refusal or compaction loses a frame, invents one or frees one twice:
\* the provider's count and the journal agree at every step.
THEOREM FramesConserved == Spec => []Conserved
<1>1. VmInv => Conserved
  <2>1. SUFFICES ASSUME VmInv PROVE Conserved
    OBVIOUS
  <2>2. CASE pc = "idle" \/ pc \in Building
    <3>1. pc # "compact" /\ Plain(frames, count, live, space.owns_zero)
      BY <2>1, <2>2 DEF VmInv, Building
    <3>2. QED
      BY <3>1 DEF Conserved, OwnedFrames, Plain, Listed, Once, Unmarked, ZeroOut
  <2>3. CASE pc = "release"
    <3>1. Releasing(frames, count, rel, live, space.owns_zero)
      BY <2>1, <2>3 DEF VmInv, Building
    <3>2. QED
      BY <2>3, <3>1 DEF Conserved, OwnedFrames, Releasing, Listed, Once, ZeroOut
  <2>4. CASE pc = "compact"
    <3>1. Compacting(frames, count, rel, live, space.owns_zero)
      BY <2>1, <2>4 DEF VmInv, Building
    <3>2. QED
      BY <2>4, <3>1 DEF Conserved, OwnedFrames, Compacting, Places, Listed, ZeroOut
  <2>5. CASE pc = "zero"
    <3>1. Ending(frames, count, rel, live, space.owns_zero)
      BY <2>1, <2>5 DEF VmInv, Building
    <3>2. QED
      BY <2>5, <3>1 DEF Conserved, OwnedFrames, Ending, Plain, Listed, Once, ZeroOut
  <2>6. QED
    BY <2>1, <2>2, <2>3, <2>4, <2>5 DEF VmInv
<1>2. QED
  BY <1>1, VmInvariant, PTL

\* Between calls, frames are out only for a ready space or one that names one of
\* them: a failed teardown can always be retried.
THEOREM FailuresNamed == Spec => []FailureNamed
<1>1. VmInv => FailureNamed
  <2>1. SUFFICES ASSUME VmInv, pc = "idle", live # {}, space.state # "ready"
                 PROVE  /\ space.state = "destroyed"
                        /\ \/ contains(space.failed_release_frame)
                           \/ space.failed_release_frame = 0 /\ space.owns_zero
    BY DEF FailureNamed
  <2>2. IdleInv
    BY <2>1, IdleInvHolds
  <2>3. ~(count = 0 /\ ~space.owns_zero)
    <3>1. SUFFICES ASSUME count = 0, ~space.owns_zero PROVE FALSE
      OBVIOUS
    <3>2. 1..0 = {}
      OBVIOUS
    <3>3. live = {}
      BY <2>2, <3>1, <3>2 DEF IdleInv, Plain, Listed, ZeroOut
    <3>4. QED
      BY <2>1, <3>3
  <2>4. QED
    BY <2>1, <2>2, <2>3 DEF IdleInv, Resting, contains
<1>2. QED
  BY <1>1, VmInvariant, PTL

\* No table is freed under the CPU: a root in CR3, with whatever cache bits,
\* belongs to a space that is ready.
THEOREM ActiveRootIsKept == Spec => []ActiveRootKept
<1>1. VmInv => ActiveRootKept
  BY DEF VmInv, RootInv, ActiveRootKept
<1>2. QED
  BY <1>1, VmInvariant, PTL

-----------------------------------------------------------------------------
(* The page tables.  m is the machine's memory, w construct's locals, s the  *)
(* space, K the frames it holds.                                             *)

Idx == 0..(N - 1)

Held == Listed(frames, 1..count)

Link(f) == [to |-> f, flags |-> Table]

\* The word of page table i at j, or none.
At(m, w, i, j) == IF m[w.pd][i] = NoWord THEN NoWord ELSE m[m[w.pd][i].to][j]

IsTable(m, w, f) == \E i \in Idx : m[w.pd][i] # NoWord /\ m[w.pd][i].to = f
IsLeaf(m, w, f)  == \E i, j \in Idx : At(m, w, i, j) # NoWord /\ At(m, w, i, j).to = f

\* In no role: not linked anywhere, nor one of the three tables at the top.
Loose(m, w, f) ==
  f \notin {w.pml4, w.pdpt, w.pd} /\ ~IsTable(m, w, f) /\ ~IsLeaf(m, w, f)

Heads(m, w, s, K) ==
  /\ w.pml4 \in K /\ w.pdpt \in K /\ w.pd \in K
  /\ w.pml4 # w.pdpt /\ w.pml4 # w.pd /\ w.pdpt # w.pd
  /\ s.root_phys = w.pml4
  /\ m[w.pml4] = [i \in Idx |-> IF i = 0 THEN Link(w.pdpt) ELSE NoWord]
  /\ m[w.pdpt] = [i \in Idx |-> IF i = 0 THEN [to |-> w.borrowed, flags |-> {"P", "W"}]
                                ELSE IF i = 1 THEN Link(w.pd) ELSE NoWord]

\* The directory links tables of the space, each once.
Directory(m, w, K) ==
  /\ m[w.pd] = [i \in Idx |-> m[w.pd][i]]
  /\ \A i \in Idx : m[w.pd][i] # NoWord =>
       LET p == m[w.pd][i].to IN
       /\ m[w.pd][i] = Link(p) /\ p \in K /\ p \notin {w.pml4, w.pdpt, w.pd}
       /\ m[p] = [j \in Idx |-> m[p][j]]
       /\ \A k \in Idx : m[w.pd][k] = Link(p) => k = i

\* The tables link frames of the space that are no tables, each once.
Leaves(m, w, K) ==
  \A i, j \in Idx : At(m, w, i, j) # NoWord =>
    LET a == At(m, w, i, j) IN
    /\ "P" \in a.flags /\ a.to \in K
    /\ a.to \notin {w.pml4, w.pdpt, w.pd} /\ ~IsTable(m, w, a.to)
    /\ \A k, l \in Idx : At(m, w, k, l) # NoWord /\ At(m, w, k, l).to = a.to => k = i /\ l = j

\* The pages that are mapped when construct is at address lim of a segment or of the stack.
SegsOf(w) == 1..Len(w.plan.segments)
DoneSeg(w, lim, k) ==
  {va \in pagesOf(w.plan.segments[k]) : k < w.seg \/ (k = w.seg /\ va < lim)}
DoneStack(w, lim) == {va \in StackPages : w.kind = "stack" /\ va < lim}
Done(w, lim) == DoneStack(w, lim) \cup UNION {DoneSeg(w, lim, k) : k \in SegsOf(w)}

Page(m, w, va) == At(m, w, pdIndex(va), ptIndex(va))

Maps(m, w, va, flags, data) ==
  /\ va \in Nat /\ Page(m, w, va) # NoWord
  /\ Page(m, w, va).flags = leafFlags(flags) /\ m[Page(m, w, va).to] = data

SegData(seg, va) == IF copies(seg, va) THEN DataFrame ELSE ZeroFrame

\* They are mapped as the plan says, and nothing else is.
Content(m, w, lim) ==
  /\ \A k \in SegsOf(w) : \A va \in DoneSeg(w, lim, k) :
       LET seg == w.plan.segments[k] IN
       Maps(m, w, va, seg.flags, SegData(seg, va)) /\ ~({"W", "X"} \subseteq seg.flags)
  /\ \A va \in DoneStack(w, lim) : Maps(m, w, va, {"R", "W"}, ZeroFrame)
  /\ \A i, j \in Idx : At(m, w, i, j) # NoWord =>
       \E va \in Done(w, lim) : pdIndex(va) = i /\ ptIndex(va) = j

Tree(m, w, s, K, lim) ==
  Heads(m, w, s, K) /\ Directory(m, w, K) /\ Leaves(m, w, K) /\ Content(m, w, lim)

Filled(m, w) == {q \in Idx \X Idx : At(m, w, q[1], q[2]) # NoWord}

\* h leaves are taken and not linked yet.
Counted(m, w, s, h) == s.image_pages + s.stack_pages = Cardinality(Filled(m, w)) + h

\* Segments lie in the window, and construct within them.
PlanIn(w) ==
  /\ Len(w.plan.segments) \in Nat
  /\ \A k \in SegsOf(w) : LET seg == w.plan.segments[k] IN
       /\ seg.map_start \in Nat /\ seg.map_end \in Nat /\ seg.map_start % PAGE = 0
       /\ IMAGE_LO <= seg.map_start /\ seg.map_end <= IMAGE_HI

Cursor(w) ==
  /\ w.kind \in {"image", "stack"} /\ w.seg \in 1..(Len(w.plan.segments) + 1)
  /\ w.kind = "stack" => w.seg = Len(w.plan.segments) + 1

\* At a page of a segment or of the stack, or past its end.
AtPage(w) ==
  /\ w.va \in Nat /\ w.va % PAGE = 0
  /\ w.kind = "image" => /\ w.seg \in SegsOf(w) /\ w.plan.segments[w.seg].map_start <= w.va
                         /\ ~({"W", "X"} \subseteq w.plan.segments[w.seg].flags)
  /\ w.kind = "stack" => STACK_LO <= w.va

InPage(w) ==
  w.va < IF w.kind = "stack" THEN STACK_TOP ELSE w.plan.segments[w.seg].map_end

\* The tables at the top, while they are made.
Early == {"pml4", "pdpt", "linkPdpt", "borrow", "pd", "linkPd"}

Rooted(p, m, w, s, K) ==
  /\ p # "pml4" => w.pml4 \in K /\ s.root_phys = w.pml4
  /\ p \notin {"pml4", "pdpt"} => w.pdpt \in K /\ w.pml4 # w.pdpt
  /\ p \in {"pdpt", "linkPdpt"} => m[w.pml4] = ZeroFrame
  /\ p \in {"linkPdpt", "borrow"} => m[w.pdpt] = ZeroFrame
  /\ p \in {"borrow", "pd", "linkPd"} =>
       m[w.pml4] = [i \in Idx |-> IF i = 0 THEN Link(w.pdpt) ELSE NoWord]
  /\ p \in {"pd", "linkPd"} =>
       m[w.pdpt] = [i \in Idx |-> IF i = 0 THEN [to |-> w.borrowed, flags |-> {"P", "W"}]
                                  ELSE NoWord]
  /\ p = "linkPd" => w.pd \in K /\ w.pd \notin {w.pml4, w.pdpt} /\ m[w.pd] = ZeroFrame

Directed == {"slot", "leaf", "copy", "linkLeaf"}
Inside   == {"pt", "linkPt"} \cup Directed

\* The frame in hand, and the words it will be linked by.
InHand(p, m, w, K) ==
  /\ p \in {"pt", "linkPt"} => m[w.pd][pdIndex(w.va)] = NoWord
  /\ p = "linkPt" => w.pt \in K /\ Loose(m, w, w.pt) /\ m[w.pt] = ZeroFrame
  /\ p \in Directed => m[w.pd][pdIndex(w.va)] = Link(w.pt)
  /\ p \in {"leaf", "copy", "linkLeaf"} => Page(m, w, w.va) = NoWord
  /\ p \in {"copy", "linkLeaf"} => w.frame \in K /\ Loose(m, w, w.frame)
  /\ p = "copy" => w.kind = "image" /\ m[w.frame] = ZeroFrame
  /\ p = "linkLeaf" => m[w.frame] = IF w.kind = "image"
                                      THEN SegData(w.plan.segments[w.seg], w.va) ELSE ZeroFrame

Sums(s, c) ==
  /\ s.image_pages \in Nat /\ s.stack_pages \in Nat /\ s.table_pages \in Nat
  /\ s.table_pages + s.image_pages + s.stack_pages = c
  /\ ~s.owns_zero

InEarly(p, m, w, s, K) ==
  /\ s.image_pages = 0 /\ s.stack_pages = 0
  /\ w.seg = 1 /\ w.kind = "image" /\ Rooted(p, m, w, s, K)

InPages(p, m, w, s, K) ==
  /\ Tree(m, w, s, K, IF p = "segment" THEN 0 ELSE w.va)
  /\ Counted(m, w, s, IF p \in {"copy", "linkLeaf"} THEN 1 ELSE 0)
  /\ Cursor(w) /\ (p = "segment" => w.kind = "image")
  /\ p # "segment" => AtPage(w)
  /\ p \in Inside => InPage(w)
  /\ InHand(p, m, w, K)

Built(p, m, w, s, c, K) ==
  /\ PlanIn(w) /\ Sums(s, c)
  /\ p \in Early => InEarly(p, m, w, s, K)
  /\ p \notin Early => InPages(p, m, w, s, K)

WorkShape(w) ==
  w \in [plan : {w.plan}, len : {w.len}, root : {w.root}, borrowed : {w.borrowed},
         seg : {w.seg}, kind : {w.kind}, va : {w.va}, pml4 : {w.pml4}, pdpt : {w.pdpt},
         pd : {w.pd}, pt : {w.pt}, frame : {w.frame}]

\* The tables of a space under construction, and of one that is ready.
TablesInv ==
  /\ mem = [f \in Frames |-> mem[f]] /\ WorkShape(work)
  /\ pc \in Building => Built(pc, mem, work, space, count, Held)
  /\ pc = "idle" /\ space.state = "empty" => space = EmptySpace
  /\ pc = "idle" /\ space.state = "ready" =>
       /\ Built("page", mem, work, space, count, Held)
       /\ work.kind = "stack" /\ work.va >= STACK_TOP

-----------------------------------------------------------------------------
(* Addresses and their indices. *)

LEMMA DivIs ==
  ASSUME NEW b \in Nat \ {0}, NEW q \in Nat, NEW r \in 0..(b - 1), NEW a \in Nat, a = b * q + r
  PROVE  a \div b = q /\ a % b = r
<1>1. PICK w : w = a \div b
  OBVIOUS
<1>2. w \in Nat /\ a = b * w + (a % b) /\ a % b \in 0..(b - 1)
  BY <1>1
<1>3. PICK u \in 0..(b - 1) : u = a % b /\ a = b * w + u
  BY <1>2
<1>4. ASSUME NEW i \in Nat, NEW j \in Nat, i < j PROVE b * i + b <= b * j
  <2>1. PICK k \in Nat : j = i + 1 + k
    <3>1. j - i - 1 \in Nat /\ j = i + 1 + (j - i - 1)
      BY <1>4
    <3> QED
      BY <3>1
  <2>2. b * j = b * i + b + b * k
    BY <2>1
  <2>3. b * k \in Nat /\ b * i \in Nat
    OBVIOUS
  <2> QED
    BY <2>2, <2>3
<1>5. PICK g \in Nat, h \in Nat : g = b * w /\ h = b * q
  BY <1>2
<1>6. ~(w < q)
  <2>1. w < q => g + b <= h
    BY <1>2, <1>4, <1>5
  <2> QED
    BY <1>3, <1>5, <2>1
<1>7. ~(q < w)
  <2>1. q < w => h + b <= g
    BY <1>2, <1>4, <1>5
  <2> QED
    BY <1>3, <1>5, <2>1
<1>8. w = q
  BY <1>2, <1>6, <1>7
<1> QED
  BY <1>1, <1>3, <1>5, <1>8

LEMMA NestedDiv ==
  ASSUME NEW a \in Nat, NEW b \in Nat \ {0}, NEW c \in Nat \ {0}
  PROVE  a \div (b * c) = (a \div b) \div c
<1>1. PICK q, t : q = a \div b /\ t = q \div c
  OBVIOUS
<1>2. q \in Nat /\ a = b * q + (a % b) /\ a % b \in 0..(b - 1)
  BY <1>1
<1>3. t \in Nat /\ q = c * t + (q % c) /\ q % c \in 0..(c - 1)
  BY <1>1, <1>2
<1>4. PICK r \in 0..(b - 1), u \in 0..(c - 1) : a = b * q + r /\ q = c * t + u
  BY <1>2, <1>3
<1>5. PICK d \in Nat \ {0} : d = b * c
  <2>1. b * c \in Nat /\ b * c # 0
    OBVIOUS
  <2> QED
    BY <2>1
<1>6. a = d * t + (b * u + r)
  BY <1>2, <1>3, <1>4, <1>5
<1>7. PICK e : e = b * u + r
  OBVIOUS
<1>8. e \in 0..(d - 1)
  <2>1. PICK s \in Nat : c = u + 1 + s
    <3>1. c - u - 1 \in Nat /\ c = u + 1 + (c - u - 1)
      OBVIOUS
    <3> QED
      BY <3>1
  <2>2. d = b * u + b + b * s
    BY <1>5, <2>1
  <2>3. b * u \in Nat /\ b * s \in Nat
    OBVIOUS
  <2> QED
    BY <1>7, <2>2, <2>3
<1>9. a \div d = t
  BY <1>3, <1>5, <1>6, <1>7, <1>8, DivIs
<1> QED
  BY <1>1, <1>5, <1>9

\* A page of the window is in the second gigabyte, and known by its two indices.
LEMMA WindowDoes ==
  ASSUME NEW va \in UserWindow
  PROVE  /\ va \in Nat /\ pml4Index(va) = 0 /\ pdptIndex(va) = 1
         /\ pdIndex(va) \in Idx /\ ptIndex(va) \in Idx
         /\ va = PAGE * (N * (N + pdIndex(va)) + ptIndex(va))
<1>1. PICK p, n : p = PAGE /\ n = N
  OBVIOUS
<1>2. p \in Nat \ {0} /\ n \in Nat \ {0, 1}
  BY <1>1, ElfAssumption, VmAssumption
<1>3. PICK w \in Nat \ {0}, pn \in Nat \ {0} : w = p * n * n /\ pn = p * n
  <2>1. p * n \in Nat /\ p * n # 0
    BY <1>2
  <2>2. PICK pn \in Nat \ {0} : pn = p * n
    BY <2>1
  <2>3. pn * n \in Nat /\ pn * n # 0
    BY <1>2
  <2> QED
    BY <2>2, <2>3
<1>4. va \in w..(2 * w - 1) /\ va % p = 0
  <2>1. 2 * p * n * n = 2 * w
    BY <1>2, <1>3
  <2> QED
    BY <1>1, <1>3, <2>1 DEF UserWindow
<1>5. va \in Nat
  BY <1>3, <1>4
<1>6. va \div w = 1
  <2>1. va - w \in 0..(w - 1) /\ va = w * 1 + (va - w)
    BY <1>3, <1>4
  <2> QED
    BY <1>3, <1>5, <2>1, DivIs
<1>7. 1 \div n = 0 /\ 1 % n = 1 /\ 0 % n = 0
  <2>1. 1 \in 0..(n - 1) /\ 1 = n * 0 + 1 /\ 0 \in 0..(n - 1) /\ 0 = n * 0 + 0
    BY <1>2
  <2> QED
    BY <1>2, <2>1, DivIs
<1>8. va \div (w * n) = 0
  <2>1. va \div (w * n) = (va \div w) \div n
    <3>1. n \in Nat \ {0} /\ w \in Nat \ {0}
      BY <1>2, <1>3
    <3> QED
      BY <1>5, <3>1, NestedDiv, Zenon
  <2> QED
    BY <1>6, <1>7, <2>1
<1>9. PICK q, d : q = va \div p /\ d = va \div pn
  OBVIOUS
<1>10. q \in Nat /\ d \in Nat /\ va = p * q
  <2>1. q \in Nat /\ va = p * q + (va % p)
    BY <1>2, <1>5, <1>9
  <2>2. d \in Nat
    BY <1>3, <1>5, <1>9
  <2>3. p * q \in Nat
    BY <1>2, <2>1
  <2> QED
    BY <1>4, <2>1, <2>2, <2>3
<1>11. d = q \div n
  BY <1>2, <1>3, <1>5, <1>9, NestedDiv
<1>12. d \div n = 1
  <2>1. w = pn * n
    BY <1>3
  <2> QED
    BY <1>2, <1>3, <1>5, <1>6, <1>9, <2>1, NestedDiv
<1>13. PICK i \in 0..(n - 1), j \in 0..(n - 1) : i = d % n /\ j = q % n
  BY <1>2, <1>10
<1>14. d = n * 1 + i /\ q = n * d + j
  BY <1>2, <1>10, <1>11, <1>12, <1>13
<1>15. d = n + i
  BY <1>2, <1>14
<1>16. va = p * (n * (n + i) + j)
  BY <1>10, <1>14, <1>15
<1>17. pdIndex(va) = i /\ ptIndex(va) = j
  BY <1>1, <1>3, <1>9, <1>13 DEF pdIndex, ptIndex
<1>18. pml4Index(va) = 0 /\ pdptIndex(va) = 1
  BY <1>1, <1>3, <1>6, <1>7, <1>8 DEF pml4Index, pdptIndex
<1> QED
  BY <1>1, <1>5, <1>13, <1>16, <1>17, <1>18 DEF Idx

LEMMA IndexDoes == \A va \in Nat : pdIndex(va) \in Idx /\ ptIndex(va) \in Idx
<1>1. SUFFICES ASSUME NEW va \in Nat PROVE pdIndex(va) \in Idx /\ ptIndex(va) \in Idx
  OBVIOUS
<1>2. PICK p, n : p = PAGE /\ n = N
  OBVIOUS
<1>3. p \in Nat \ {0} /\ n \in Nat \ {0}
  BY <1>2, ElfAssumption, VmAssumption
<1>4. PICK t \in Nat \ {0} : t = p * n
  <2>1. p * n \in Nat /\ p * n # 0
    BY <1>3
  <2> QED
    BY <2>1
<1>5. PICK a, b : a = va \div p /\ b = va \div t
  OBVIOUS
<1>6. a \in Nat /\ b \in Nat
  BY <1>1, <1>3, <1>4, <1>5
<1>7. a % n \in 0..(n - 1) /\ b % n \in 0..(n - 1)
  BY <1>3, <1>6
<1> QED
  BY <1>2, <1>4, <1>5, <1>7 DEF pdIndex, ptIndex, Idx

\* Aligned numbers less than a page apart.
LEMMA NextAligned ==
  ASSUME NEW a \in Nat, NEW b \in Nat, a % PAGE = 0, b % PAGE = 0, a <= b, b < a + PAGE
  PROVE  a = b
<1>1. PICK p : p = PAGE
  OBVIOUS
<1>2. p \in Nat \ {0}
  BY <1>1, ElfAssumption
<1>3. PICK q : q = a \div p
  OBVIOUS
<1>4. q \in Nat /\ a = p * q
  <2>1. q \in Nat /\ a = p * q + (a % p)
    BY <1>2, <1>3
  <2>2. p * q \in Nat
    BY <1>2, <2>1
  <2> QED
    BY <1>1, <2>1, <2>2
<1>5. PICK r \in 0..(p - 1) : r = b - a /\ b = p * q + r
  <2>1. p * q \in Nat
    BY <1>2, <1>4
  <2> QED
    BY <1>1, <1>2, <1>4, <2>1
<1>6. b % p = r
  <2>1. q \in Nat /\ b = p * q + r /\ r \in 0..(p - 1) /\ p \in Nat \ {0} /\ b \in Nat
    BY <1>2, <1>4, <1>5
  <2> QED
    BY ONLY <2>1, DivIs
<1> QED
  BY <1>1, <1>5, <1>6

LEMMA AlignedNext ==
  ASSUME NEW a \in Nat, a % PAGE = 0
  PROVE  a + PAGE \in Nat /\ (a + PAGE) % PAGE = 0
<1>1. PICK p : p = PAGE
  OBVIOUS
<1>2. p \in Nat \ {0}
  BY <1>1, ElfAssumption
<1>3. PICK q : q = a \div p
  OBVIOUS
<1>4. q \in Nat /\ a = p * q
  <2>1. q \in Nat /\ a = p * q + (a % p)
    BY <1>2, <1>3
  <2>2. p * q \in Nat
    BY <1>2, <2>1
  <2> QED
    BY <1>1, <2>1, <2>2
<1>5. a + p \in Nat /\ a + p = p * (q + 1) + 0 /\ q + 1 \in Nat /\ 0 \in 0..(p - 1)
  BY <1>2, <1>4
<1>6. (a + p) % p = 0
  BY <1>2, <1>5, DivIs
<1> QED
  BY <1>1, <1>5, <1>6

-----------------------------------------------------------------------------
(* What a write to memory does to the tables. *)

\* The locals that the tables hang on.
Alike(w, x) ==
  /\ x.pml4 = w.pml4 /\ x.pdpt = w.pdpt /\ x.pd = w.pd /\ x.borrowed = w.borrowed
  /\ x.plan = w.plan /\ x.seg = w.seg /\ x.kind = w.kind

LEMMA LinkIsWord == \A f : Link(f) # NoWord /\ Link(f).to = f
  BY DEF Link, NoWord, Table

LEMMA AlikeSame ==
  ASSUME NEW m, NEW w, NEW x, Alike(w, x)
  PROVE  /\ \A i, j : At(m, x, i, j) = At(m, w, i, j)
         /\ \A f : IsTable(m, x, f) <=> IsTable(m, w, f)
         /\ \A f : IsLeaf(m, x, f) <=> IsLeaf(m, w, f)
         /\ \A f : Loose(m, x, f) <=> Loose(m, w, f)
         /\ \A va : Page(m, x, va) = Page(m, w, va)
         /\ Filled(m, x) = Filled(m, w)
         /\ \A lim : Done(x, lim) = Done(w, lim)
         /\ \A s, K, lim : Tree(m, w, s, K, lim) => Tree(m, x, s, K, lim)
<1>1. /\ x.pml4 = w.pml4 /\ x.pdpt = w.pdpt /\ x.pd = w.pd /\ x.borrowed = w.borrowed
      /\ x.plan = w.plan /\ x.seg = w.seg /\ x.kind = w.kind
  BY DEF Alike
<1>2. \A i, j : At(m, x, i, j) = At(m, w, i, j)
  BY <1>1 DEF At
<1>3. /\ \A f : IsTable(m, x, f) <=> IsTable(m, w, f)
      /\ \A f : IsLeaf(m, x, f) <=> IsLeaf(m, w, f)
  BY <1>1, <1>2 DEF IsTable, IsLeaf
<1>4. \A f : Loose(m, x, f) <=> Loose(m, w, f)
  BY <1>1, <1>3 DEF Loose
<1>5. \A va : Page(m, x, va) = Page(m, w, va)
  BY <1>2 DEF Page
<1>6. Filled(m, x) = Filled(m, w)
  BY <1>2 DEF Filled
<1>7. SegsOf(x) = SegsOf(w)
  BY <1>1 DEF SegsOf
<1>8. \A lim, k : DoneSeg(x, lim, k) = DoneSeg(w, lim, k)
  BY <1>1 DEF DoneSeg
<1>9. \A lim : DoneStack(x, lim) = DoneStack(w, lim)
  BY <1>1 DEF DoneStack
<1>10. \A lim : Done(x, lim) = Done(w, lim)
  BY <1>7, <1>8, <1>9 DEF Done
<1>11. ASSUME NEW s, NEW K, NEW lim, Tree(m, w, s, K, lim) PROVE Tree(m, x, s, K, lim)
  <2>1. Heads(m, x, s, K)
    BY <1>1, <1>11 DEF Tree, Heads
  <2>2. Directory(m, x, K)
    BY <1>1, <1>11 DEF Tree, Directory
  <2>3. Leaves(m, x, K)
    BY <1>1, <1>2, <1>3, <1>11 DEF Tree, Leaves
  <2>4. \A va, flags, data : Maps(m, w, va, flags, data) => Maps(m, x, va, flags, data)
    BY <1>5 DEF Maps
  <2>5. Content(m, x, lim)
    BY <1>1, <1>2, <1>7, <1>8, <1>9, <1>10, <1>11, <2>4 DEF Tree, Content
  <2> QED
    BY <2>1, <2>2, <2>3, <2>5 DEF Tree
<1> QED
  BY <1>2, <1>3, <1>4, <1>5, <1>6, <1>10, <1>11

\* Only frames in no role change, and more may be held.
Spared(m, y, w, s, z, K, L) ==
  /\ K \subseteq L /\ z.root_phys = s.root_phys
  /\ \A f \in K : ~Loose(m, w, f) => y[f] = m[f]

LEMMA TreeStays ==
  ASSUME NEW m, NEW y, NEW w, NEW s, NEW z, NEW K, NEW L, NEW lim, Tree(m, w, s, K, lim),
         Spared(m, y, w, s, z, K, L)
  PROVE  /\ Tree(y, w, z, L, lim) /\ y[w.pd] = m[w.pd]
         /\ \A i, j \in Idx : At(y, w, i, j) = At(m, w, i, j)
         /\ \A f : Loose(y, w, f) <=> Loose(m, w, f)
         /\ Filled(y, w) = Filled(m, w)
<1> USE DEF Spared
<1>1. Heads(m, w, s, K) /\ Directory(m, w, K) /\ Leaves(m, w, K) /\ Content(m, w, lim)
  BY DEF Tree
<1>2. /\ w.pml4 \in K /\ w.pdpt \in K /\ w.pd \in K
      /\ y[w.pml4] = m[w.pml4] /\ y[w.pdpt] = m[w.pdpt] /\ y[w.pd] = m[w.pd]
  BY <1>1 DEF Heads, Loose
<1>3. \A i \in Idx : m[w.pd][i] # NoWord =>
        m[w.pd][i].to \in K /\ y[m[w.pd][i].to] = m[m[w.pd][i].to]
  <2> SUFFICES ASSUME NEW i \in Idx, m[w.pd][i] # NoWord
               PROVE  m[w.pd][i].to \in K /\ y[m[w.pd][i].to] = m[m[w.pd][i].to]
    OBVIOUS
  <2>1. m[w.pd][i].to \in K
    BY <1>1 DEF Directory
  <2>2. IsTable(m, w, m[w.pd][i].to)
    BY DEF IsTable
  <2> QED
    BY <2>1, <2>2 DEF Loose
<1>4. \A i, j \in Idx : At(y, w, i, j) = At(m, w, i, j)
  BY <1>2, <1>3 DEF At
<1>5. \A f : IsTable(y, w, f) <=> IsTable(m, w, f)
  BY <1>2 DEF IsTable
<1>6. \A f : IsLeaf(y, w, f) <=> IsLeaf(m, w, f)
  BY <1>4 DEF IsLeaf
<1>7. \A f : Loose(y, w, f) <=> Loose(m, w, f)
  BY <1>5, <1>6 DEF Loose
<1>8. Heads(y, w, z, L)
  BY <1>1, <1>2 DEF Heads
<1>9. Directory(y, w, L)
  BY <1>1, <1>2, <1>3 DEF Directory
<1>10. Leaves(y, w, L)
  BY <1>1, <1>4, <1>5 DEF Leaves
<1>11. \A i, j \in Idx : At(m, w, i, j) # NoWord => y[At(m, w, i, j).to] = m[At(m, w, i, j).to]
  <2> SUFFICES ASSUME NEW i \in Idx, NEW j \in Idx, At(m, w, i, j) # NoWord
               PROVE  y[At(m, w, i, j).to] = m[At(m, w, i, j).to]
    OBVIOUS
  <2>1. At(m, w, i, j).to \in K
    BY <1>1 DEF Leaves
  <2>2. IsLeaf(m, w, At(m, w, i, j).to)
    BY DEF IsLeaf
  <2> QED
    BY <2>1, <2>2 DEF Loose
<1>12. \A va, flags, data : Maps(m, w, va, flags, data) => Maps(y, w, va, flags, data)
  <2> SUFFICES ASSUME NEW va, NEW flags, NEW data, Maps(m, w, va, flags, data)
               PROVE  Maps(y, w, va, flags, data)
    OBVIOUS
  <2>1. pdIndex(va) \in Idx /\ ptIndex(va) \in Idx
    BY IndexDoes DEF Maps
  <2> QED
    BY <1>4, <1>11, <2>1 DEF Maps, Page
<1>13. Content(y, w, lim)
  BY <1>1, <1>4, <1>12 DEF Content
<1>14. Filled(y, w) = Filled(m, w)
  BY <1>4 DEF Filled
<1> QED
  BY <1>2, <1>4, <1>7, <1>8, <1>9, <1>10, <1>13, <1>14 DEF Tree

\* A page table goes into the directory.
Linked(m, y, w, K, i, p) ==
  /\ i \in Idx /\ p \in K /\ Loose(m, w, p) /\ m[p] = ZeroFrame /\ m[w.pd][i] = NoWord
  /\ y[w.pd] = [j \in Idx |-> IF j = i THEN Link(p) ELSE m[w.pd][j]]
  /\ \A f \in K : f # w.pd => y[f] = m[f]

LEMMA TableLinked ==
  ASSUME NEW m, NEW y, NEW w, NEW s, NEW K, NEW lim, Tree(m, w, s, K, lim),
         NEW i, NEW p, Linked(m, y, w, K, i, p)
  PROVE  /\ Tree(y, w, s, K, lim) /\ y[w.pd][i] = Link(p)
         /\ \A k, l \in Idx : At(y, w, k, l) = At(m, w, k, l)
         /\ Filled(y, w) = Filled(m, w)
<1> USE DEF Linked
<1>1. Heads(m, w, s, K) /\ Directory(m, w, K) /\ Leaves(m, w, K) /\ Content(m, w, lim)
  BY DEF Tree
<1>2. p \notin {w.pml4, w.pdpt, w.pd} /\ ~IsTable(m, w, p) /\ ~IsLeaf(m, w, p)
  BY DEF Loose
<1>3. \A k \in Idx : y[w.pd][k] = IF k = i THEN Link(p) ELSE m[w.pd][k]
  OBVIOUS
<1>4. Link(p) # NoWord /\ Link(p).to = p
  BY LinkIsWord
<1>5. \A l \in Idx : m[p][l] = NoWord
  BY DEF ZeroFrame, Idx
<1>6. \A k \in Idx : m[w.pd][k] # NoWord =>
        m[w.pd][k].to \in K /\ y[m[w.pd][k].to] = m[m[w.pd][k].to]
  BY <1>1 DEF Directory
<1>7. ASSUME NEW k \in Idx, NEW l \in Idx PROVE At(y, w, k, l) = At(m, w, k, l)
  <2>1. CASE k = i
    <3>1. At(m, w, k, l) = NoWord
      BY <2>1 DEF At
    <3>2. At(y, w, k, l) = y[p][l]
      BY <1>3, <1>4, <2>1 DEF At
    <3>3. y[p][l] = NoWord
      BY <1>2, <1>5
    <3> QED
      BY <3>1, <3>2, <3>3
  <2>2. CASE k # i
    BY <1>3, <1>6, <2>2 DEF At
  <2> QED
    BY <2>1, <2>2
<1>8. \A f : IsTable(y, w, f) => IsTable(m, w, f) \/ f = p
  BY <1>3, <1>4 DEF IsTable
<1>9. Heads(y, w, s, K)
  BY <1>1 DEF Heads
<1>10. Directory(y, w, K)
  <2>1. y[w.pd] = [j \in Idx |-> y[w.pd][j]]
    OBVIOUS
  <2>2. ASSUME NEW k \in Idx, y[w.pd][k] # NoWord, NEW q, q = y[w.pd][k].to
        PROVE  /\ y[w.pd][k] = Link(q) /\ q \in K /\ q \notin {w.pml4, w.pdpt, w.pd}
               /\ y[q] = [j \in Idx |-> y[q][j]]
               /\ \A l \in Idx : y[w.pd][l] = Link(q) => l = k
    <3>1. CASE k = i
      <4>1. q = p /\ y[w.pd][k] = Link(q)
        BY <1>3, <1>4, <2>2, <3>1
      <4>2. y[q] = [j \in Idx |-> y[q][j]]
        <5>1. y[q] = ZeroFrame
          BY <1>2, <4>1
        <5> QED
          BY <5>1 DEF ZeroFrame, Idx
      <4>3. ASSUME NEW l \in Idx, y[w.pd][l] = Link(q), l # k PROVE FALSE
        <5>1. m[w.pd][l] = Link(p)
          BY <1>3, <3>1, <4>1, <4>3
        <5> QED
          BY <1>2, <1>4, <5>1 DEF IsTable
      <4> QED
        BY <1>2, <4>1, <4>2, <4>3
    <3>2. CASE k # i
      <4>1. m[w.pd][k] = y[w.pd][k]
        BY <1>3, <3>2
      <4>2. /\ m[w.pd][k] = Link(q) /\ q \in K /\ q \notin {w.pml4, w.pdpt, w.pd}
            /\ m[q] = [j \in Idx |-> m[q][j]]
            /\ \A l \in Idx : m[w.pd][l] = Link(q) => l = k
        BY <1>1, <2>2, <4>1 DEF Directory
      <4>3. y[q] = m[q]
        BY <4>2
      <4>4. q # p
        BY <1>2, <2>2, <4>1 DEF IsTable
      <4>5. ASSUME NEW l \in Idx, y[w.pd][l] = Link(q) PROVE l = k
        <5>1. l # i
          BY <1>3, <1>4, <4>4, <4>5, LinkIsWord
        <5> QED
          BY <1>3, <4>2, <4>5, <5>1
      <4> QED
        BY <4>1, <4>2, <4>3, <4>5
    <3> QED
      BY <3>1, <3>2
  <2> QED
    BY <2>1, <2>2 DEF Directory
<1>11. Leaves(y, w, K)
  <2> SUFFICES ASSUME NEW k \in Idx, NEW l \in Idx, At(m, w, k, l) # NoWord, NEW a, a = At(m, w, k, l)
               PROVE  /\ "P" \in a.flags /\ a.to \in K
                      /\ a.to \notin {w.pml4, w.pdpt, w.pd} /\ ~IsTable(y, w, a.to)
                      /\ \A g, h \in Idx : At(m, w, g, h) # NoWord /\ At(m, w, g, h).to = a.to
                                            => g = k /\ h = l
    BY <1>7 DEF Leaves
  <2>1. a.to # p
    BY <1>2 DEF IsLeaf
  <2> QED
    BY <1>1, <1>8, <2>1 DEF Leaves
<1>12. \A k, l \in Idx : At(m, w, k, l) # NoWord => y[At(m, w, k, l).to] = m[At(m, w, k, l).to]
  BY <1>1 DEF Leaves
<1>13. \A va, flags, data : Maps(m, w, va, flags, data) => Maps(y, w, va, flags, data)
  BY <1>7, <1>12, IndexDoes DEF Maps, Page
<1>14. Content(y, w, lim)
  BY <1>1, <1>7, <1>13 DEF Content
<1>15. Filled(y, w) = Filled(m, w)
  BY <1>7 DEF Filled
<1> QED
  BY <1>3, <1>7, <1>9, <1>10, <1>11, <1>14, <1>15 DEF Tree

\* A frame goes into a page table.
Filling(m, y, w, K, i, j, p, f, a) ==
  /\ i \in Idx /\ j \in Idx /\ m[w.pd][i] = Link(p) /\ At(m, w, i, j) = NoWord
  /\ f \in K /\ Loose(m, w, f) /\ a.to = f /\ "P" \in a.flags
  /\ y[p] = [l \in Idx |-> IF l = j THEN a ELSE m[p][l]]
  /\ \A g \in K : g # p => y[g] = m[g]

LEMMA LeafLinked ==
  ASSUME NEW m, NEW y, NEW w, NEW s, NEW K, NEW lim, Tree(m, w, s, K, lim),
         NEW i, NEW j, NEW p, NEW f, NEW a, Filling(m, y, w, K, i, j, p, f, a)
  PROVE  /\ Heads(y, w, s, K) /\ Directory(y, w, K) /\ Leaves(y, w, K) /\ y[f] = m[f]
         /\ \A k, l \in Idx : At(y, w, k, l) = IF k = i /\ l = j THEN a ELSE At(m, w, k, l)
         /\ \A va, flags, data : Maps(m, w, va, flags, data) => Maps(y, w, va, flags, data)
         /\ Filled(y, w) = Filled(m, w) \cup {<<i, j>>} /\ <<i, j>> \notin Filled(m, w)
<1> USE DEF Filling
<1>1. Heads(m, w, s, K) /\ Directory(m, w, K) /\ Leaves(m, w, K) /\ Content(m, w, lim)
  BY DEF Tree
<1>2. f \notin {w.pml4, w.pdpt, w.pd} /\ ~IsTable(m, w, f) /\ ~IsLeaf(m, w, f)
  BY DEF Loose
<1>3. a # NoWord
  BY DEF NoWord
<1>4. Link(p) # NoWord /\ Link(p).to = p /\ m[w.pd][i] # NoWord /\ m[w.pd][i].to = p
  BY LinkIsWord
<1>5. /\ p \in K /\ p \notin {w.pml4, w.pdpt, w.pd} /\ IsTable(m, w, p)
      /\ \A k \in Idx : m[w.pd][k] = Link(p) => k = i
  BY <1>1, <1>4 DEF Directory, IsTable
<1>6. y[w.pd] = m[w.pd] /\ y[w.pml4] = m[w.pml4] /\ y[w.pdpt] = m[w.pdpt] /\ y[f] = m[f]
  BY <1>1, <1>2, <1>5 DEF Heads
<1>7. ASSUME NEW k \in Idx, NEW l \in Idx
      PROVE  At(y, w, k, l) = IF k = i /\ l = j THEN a ELSE At(m, w, k, l)
  <2>1. CASE k = i
    <3>1. At(y, w, k, l) = y[p][l] /\ At(m, w, k, l) = m[p][l]
      BY <1>4, <1>6, <2>1 DEF At
    <3> QED
      BY <2>1, <3>1
  <2>2. CASE k # i /\ m[w.pd][k] = NoWord
    BY <1>6, <2>2 DEF At
  <2>3. CASE k # i /\ m[w.pd][k] # NoWord
    <3>1. PICK q : q = m[w.pd][k].to
      OBVIOUS
    <3>2. m[w.pd][k] = Link(q) /\ q \in K
      BY <1>1, <2>3, <3>1 DEF Directory
    <3>3. q # p
      BY <1>5, <2>3, <3>2
    <3>4. y[q] = m[q]
      BY <3>2, <3>3
    <3> QED
      BY <1>6, <2>3, <3>1, <3>4 DEF At
  <2> QED
    BY <2>1, <2>2, <2>3
<1>8. \A g : IsTable(y, w, g) <=> IsTable(m, w, g)
  BY <1>6 DEF IsTable
<1>9. Heads(y, w, s, K)
  BY <1>1, <1>6 DEF Heads
<1>10. Directory(y, w, K)
  <2>1. ASSUME NEW k \in Idx, y[w.pd][k] # NoWord, NEW q, q = y[w.pd][k].to
        PROVE  /\ y[w.pd][k] = Link(q) /\ q \in K /\ q \notin {w.pml4, w.pdpt, w.pd}
               /\ y[q] = [l \in Idx |-> y[q][l]]
               /\ \A l \in Idx : y[w.pd][l] = Link(q) => l = k
    <3>1. /\ m[w.pd][k] = Link(q) /\ q \in K /\ q \notin {w.pml4, w.pdpt, w.pd}
          /\ m[q] = [l \in Idx |-> m[q][l]]
          /\ \A l \in Idx : m[w.pd][l] = Link(q) => l = k
      BY <1>1, <1>6, <2>1 DEF Directory
    <3>2. y[q] = [l \in Idx |-> y[q][l]]
      <4>1. CASE q = p
        BY <4>1
      <4>2. CASE q # p
        BY <3>1, <4>2
      <4> QED
        BY <4>1, <4>2
    <3> QED
      BY <1>6, <3>1, <3>2
  <2>2. y[w.pd] = [l \in Idx |-> y[w.pd][l]]
    BY <1>1, <1>6 DEF Directory
  <2> QED
    BY <2>1, <2>2 DEF Directory
<1>11. ASSUME NEW k \in Idx, NEW l \in Idx, At(y, w, k, l) # NoWord, NEW b, b = At(y, w, k, l)
       PROVE  /\ "P" \in b.flags /\ b.to \in K
              /\ b.to \notin {w.pml4, w.pdpt, w.pd} /\ ~IsTable(y, w, b.to)
              /\ \A g, h \in Idx : At(y, w, g, h) # NoWord /\ At(y, w, g, h).to = b.to
                                    => g = k /\ h = l
  <2>1. CASE k = i /\ l = j
    <3>1. b = a
      BY <1>7, <1>11, <2>1
    <3>2. ASSUME NEW g \in Idx, NEW h \in Idx, At(y, w, g, h) # NoWord, At(y, w, g, h).to = f,
                 ~(g = i /\ h = j)
          PROVE  FALSE
      <4>1. At(m, w, g, h) = At(y, w, g, h)
        BY <1>7, <3>2
      <4> QED
        BY <1>2, <3>2, <4>1 DEF IsLeaf
    <3> QED
      BY <1>2, <1>8, <2>1, <3>1, <3>2
  <2>2. CASE ~(k = i /\ l = j)
    <3>1. b = At(m, w, k, l)
      BY <1>7, <1>11, <2>2
    <3>2. /\ "P" \in b.flags /\ b.to \in K
          /\ b.to \notin {w.pml4, w.pdpt, w.pd} /\ ~IsTable(m, w, b.to)
          /\ \A g, h \in Idx : At(m, w, g, h) # NoWord /\ At(m, w, g, h).to = b.to
                                => g = k /\ h = l
      BY <1>1, <1>11, <3>1 DEF Leaves
    <3>3. b.to # f
      BY <1>2, <1>11, <3>1 DEF IsLeaf
    <3>4. ASSUME NEW g \in Idx, NEW h \in Idx, At(y, w, g, h) # NoWord, At(y, w, g, h).to = b.to
          PROVE  g = k /\ h = l
      <4>1. ~(g = i /\ h = j)
        BY <1>7, <3>3, <3>4
      <4>2. At(m, w, g, h) = At(y, w, g, h)
        BY <1>7, <4>1
      <4> QED
        BY <3>2, <3>4, <4>2
    <3> QED
      BY <1>8, <3>2, <3>4
  <2> QED
    BY <2>1, <2>2
<1>12. Leaves(y, w, K)
  BY <1>11 DEF Leaves
<1>13. ASSUME NEW va, NEW flags, NEW data, Maps(m, w, va, flags, data)
       PROVE  Maps(y, w, va, flags, data)
  <2>1. PICK k \in Idx, l \in Idx : k = pdIndex(va) /\ l = ptIndex(va)
    BY <1>13, IndexDoes DEF Maps
  <2>2. PICK b : b = At(m, w, k, l)
    OBVIOUS
  <2>3. b # NoWord /\ b.flags = leafFlags(flags) /\ m[b.to] = data /\ va \in Nat
    BY <1>13, <2>1, <2>2 DEF Maps, Page
  <2>4. At(y, w, k, l) = b
    BY <1>7, <2>2, <2>3
  <2>5. b.to \in K /\ ~IsTable(m, w, b.to)
    BY <1>1, <2>2, <2>3 DEF Leaves
  <2>6. y[b.to] = m[b.to]
    BY <1>5, <2>5
  <2> QED
    BY <2>1, <2>3, <2>4, <2>6 DEF Maps, Page
<1>14. Filled(y, w) = Filled(m, w) \cup {<<i, j>>} /\ <<i, j>> \notin Filled(m, w)
  <2>1. ASSUME NEW q \in Idx \X Idx PROVE q \in Filled(y, w) <=> q \in Filled(m, w) \/ q = <<i, j>>
    <3>1. PICK k \in Idx, l \in Idx : q = <<k, l>>
      OBVIOUS
    <3>2. q[1] = k /\ q[2] = l
      BY <3>1
    <3> QED
      BY <1>3, <1>7, <3>1, <3>2 DEF Filled
  <2>2. Filled(y, w) \subseteq Idx \X Idx /\ Filled(m, w) \subseteq Idx \X Idx /\ <<i, j>> \in Idx \X Idx
    BY DEF Filled
  <2>3. <<i, j>> \notin Filled(m, w)
    BY DEF Filled
  <2> QED
    BY <2>1, <2>2, <2>3
<1> QED
  BY <1>6, <1>7, <1>9, <1>10, <1>12, <1>13, <1>14

\* What is mapped depends on the cursor by the pages done.
LEMMA ContentMoves ==
  ASSUME NEW m, NEW w, NEW x, NEW lim, NEW to, Content(m, w, lim),
         x.pd = w.pd, x.plan = w.plan,
         \A k \in SegsOf(w) : DoneSeg(x, to, k) = DoneSeg(w, lim, k),
         DoneStack(x, to) = DoneStack(w, lim)
  PROVE  Content(m, x, to)
<1>1. SegsOf(x) = SegsOf(w)
  BY DEF SegsOf
<1>2. \A i, j : At(m, x, i, j) = At(m, w, i, j)
  BY DEF At
<1>3. Done(x, to) = Done(w, lim)
  <2>1. {DoneSeg(x, to, k) : k \in SegsOf(x)} = {DoneSeg(w, lim, k) : k \in SegsOf(w)}
    BY <1>1
  <2> QED
    BY <2>1 DEF Done
<1>4. \A va, flags, data : Maps(m, w, va, flags, data) => Maps(m, x, va, flags, data)
  BY <1>2 DEF Maps, Page
<1> QED
  BY <1>1, <1>2, <1>3, <1>4 DEF Content

-----------------------------------------------------------------------------
(* Writes to memory, and the frames a step takes. *)

\* One word of a table is written.
LEMMA WordWritten ==
  ASSUME NEW m, m = [f \in Frames |-> m[f]], NEW t \in Frames, NEW c, m[t] = [j \in Idx |-> c[j]],
         NEW k \in Idx, NEW v, NEW y, y = [m EXCEPT ![t][k] = v]
  PROVE  /\ y = [f \in Frames |-> y[f]] /\ \A f \in Frames : f # t => y[f] = m[f]
         /\ y[t] = [j \in Idx |-> IF j = k THEN v ELSE c[j]]
<1>1. PICK a : a = m[t]
  OBVIOUS
<1>2. y = [f \in Frames |-> IF f = t THEN [a EXCEPT ![k] = v] ELSE m[f]]
  BY <1>1
<1>3. [a EXCEPT ![k] = v] = [j \in Idx |-> IF j = k THEN v ELSE c[j]]
  BY <1>1
<1> QED
  BY <1>2, <1>3

\* A whole frame is written.
LEMMA FrameWritten ==
  ASSUME NEW m, m = [f \in Frames |-> m[f]], NEW t, NEW v, NEW y, y = [m EXCEPT ![t] = v]
  PROVE  /\ y = [f \in Frames |-> y[f]] /\ \A f \in Frames : f # t => y[f] = m[f]
         /\ t \in Frames => y[t] = v
  OBVIOUS

LEMMA HeldAreFrames ==
  ASSUME JournalShape(frames, count)
  PROVE  Held \subseteq Frames
<1>1. Len(frames) \in Nat /\ frames \in [1..Len(frames) -> Frames \cup {0}] /\ count \in 0..Len(frames)
  BY StorageLen DEF JournalShape
<1>2. \A k \in 1..count : k \in 1..Len(frames)
  BY <1>1
<1> QED
  BY <1>1, <1>2 DEF Held, Listed

LEMMA HeldGrows ==
  ASSUME BuildInv, NEW phys, Taken(phys), mem = [f \in Frames |-> mem[f]]
  PROVE  /\ phys \in Frames /\ phys \notin Held /\ Held' = Held \cup {phys}
         /\ Held \subseteq Frames /\ count \in Nat /\ count' = count + 1
         /\ mem' = [f \in Frames |-> mem'[f]] /\ mem'[phys] = ZeroFrame
         /\ \A f \in Held : mem'[f] = mem[f]
<1>1. Journaled(phys) /\ mem' = [mem EXCEPT ![phys] = ZeroFrame]
  BY DEF Taken
<1>2. phys \in Frames /\ count \in Nat /\ count' = count + 1
  BY <1>1, JournaledKeeps DEF BuildInv
<1>3. frames' = [frames EXCEPT ![count + 1] = phys]
  BY <1>1 DEF Journaled
<1>4. \A k \in 1..count : frames[k] # phys
  BY <1>1, FrameKept DEF BuildInv, Journaled
<1>5. Len(frames) \in Nat /\ count < Len(frames)
  <2>1. Len(frames) \in Nat /\ count \in 0..Len(frames)
    BY StorageLen DEF JournalShape, BuildInv
  <2> QED
    BY <1>1, <2>1 DEF Journaled, fullError
<1>6. Held \subseteq Frames
  BY HeldAreFrames DEF BuildInv
<1>7. 0 \notin Frames
  BY DEF Frames
<1>8. frames \in Storage /\ count + 1 \in 1..Len(frames)
  BY <1>2, <1>5 DEF JournalShape, BuildInv
<1>9. PICK c, fr, fs : c = count /\ fr = frames /\ fs = frames'
  OBVIOUS
<1>10. fs[c + 1] = phys /\ \A j \in 1..c : fs[j] = fr[j]
  <2>1. [fr EXCEPT ![c + 1] = phys][c + 1] = phys
        /\ \A j \in 1..Len(fr) : j # c + 1 => [fr EXCEPT ![c + 1] = phys][j] = fr[j]
    BY <1>2, <1>8, <1>9, StorageWrite
  <2>2. \A j \in 1..c : j \in 1..Len(fr) /\ j # c + 1
    BY <1>2, <1>5, <1>9
  <2> QED
    BY <1>3, <1>9, <2>1, <2>2
<1>11. {fs[k] : k \in 1..(c + 1)} = {fr[k] : k \in 1..c} \cup {phys}
  <2>1. \A k \in 1..(c + 1) : k \in 1..c \/ k = c + 1
    BY <1>2, <1>9
  <2>2. (\A k \in 1..c : k \in 1..(c + 1)) /\ c + 1 \in 1..(c + 1)
    BY <1>2, <1>9
  <2> QED
    BY <1>10, <2>1, <2>2
<1>12. Held' = Held \cup {phys}
  BY <1>2, <1>7, <1>9, <1>11 DEF Held, Listed
<1>13. phys \notin Held
  BY <1>4 DEF Held, Listed
<1>14. /\ mem' = [f \in Frames |-> mem'[f]] /\ mem'[phys] = ZeroFrame
       /\ \A f \in Frames : f # phys => mem'[f] = mem[f]
  BY <1>1, <1>2, FrameWritten
<1> QED
  BY <1>2, <1>6, <1>12, <1>13, <1>14

\* A frame that is not held is in no role.
LEMMA NewIsLoose ==
  ASSUME NEW m, NEW w, NEW s, NEW K, NEW lim, Tree(m, w, s, K, lim), NEW f, f \notin K
  PROVE  Loose(m, w, f)
<1>1. f \notin {w.pml4, w.pdpt, w.pd}
  BY DEF Tree, Heads
<1>2. ~IsTable(m, w, f)
  BY DEF Tree, Directory, IsTable
<1>3. ~IsLeaf(m, w, f)
  BY DEF Tree, Leaves, IsLeaf
<1> QED
  BY <1>1, <1>2, <1>3 DEF Loose

-----------------------------------------------------------------------------
(* The tables at the top. *)

LEMMA BuildingDoes ==
  ASSUME TablesInv, VmInv, pc \in Building
  PROVE  /\ BuildInv /\ Built(pc, mem, work, space, count, Held) /\ PlanIn(work)
         /\ Sums(space, count) /\ mem = [f \in Frames |-> mem[f]] /\ WorkShape(work)
         /\ SpaceShape(space) /\ Held \subseteq Frames
         /\ pc \in Early => InEarly(pc, mem, work, space, Held)
         /\ pc \notin Early => InPages(pc, mem, work, space, Held)
<1>1. BuildInv
  BY BuildInvHolds
<1>2. Built(pc, mem, work, space, count, Held) /\ mem = [f \in Frames |-> mem[f]] /\ WorkShape(work)
  BY DEF TablesInv
<1>3. SpaceShape(space) /\ Held \subseteq Frames
  BY <1>1, HeldAreFrames DEF BuildInv
<1> QED
  BY <1>1, <1>2, <1>3 DEF Built

LEMMA BuildingGoesOn ==
  ASSUME mem' = [f \in Frames |-> mem'[f]], WorkShape(work'), pc' \in Building,
         Built(pc', mem', work', space', count', Held')
  PROVE  TablesInv'
<1>1. pc' # "idle"
  BY DEF Building
<1> QED
  BY <1>1 DEF TablesInv

\* What construct does not do to the journal.
LEMMA HeldStays ==
  ASSUME UNCHANGED journal
  PROVE  Held' = Held /\ count' = count
  BY DEF journal, Held

LEMMA PlanStays ==
  ASSUME NEW w, NEW x, PlanIn(w), x.plan = w.plan
  PROVE  PlanIn(x)
<1>1. SegsOf(x) = SegsOf(w)
  BY DEF SegsOf
<1> QED
  BY <1>1 DEF PlanIn

LEMMA EarlyTakes ==
  ASSUME TablesInv, VmInv, NEW phys, TakePml4(phys) \/ TakePdpt(phys) \/ TakePd(phys)
  PROVE  TablesInv'
<1>1. pc \in {"pml4", "pdpt", "pd"} /\ Taken(phys)
  BY DEF TakePml4, TakePdpt, TakePd
<1>2. pc \in Building /\ pc \in Early
  BY <1>1 DEF Building, Early
<1>3. /\ BuildInv /\ PlanIn(work) /\ Sums(space, count) /\ mem = [f \in Frames |-> mem[f]]
      /\ WorkShape(work) /\ SpaceShape(space) /\ InEarly(pc, mem, work, space, Held)
  BY <1>2, BuildingDoes
<1>4. /\ phys \in Frames /\ phys \notin Held /\ Held' = Held \cup {phys}
      /\ Held \subseteq Frames /\ count \in Nat /\ count' = count + 1
      /\ mem' = [f \in Frames |-> mem'[f]] /\ mem'[phys] = ZeroFrame
      /\ \A f \in Held : mem'[f] = mem[f]
  BY <1>1, <1>3, HeldGrows
<1>5. Rooted(pc, mem, work, space, Held)
  BY <1>3 DEF InEarly
<1>6. CASE TakePml4(phys)
  <2>1. /\ pc' = "pdpt" /\ space' = [space EXCEPT !.table_pages = @ + 1, !.root_phys = phys]
        /\ work' = [work EXCEPT !.pml4 = phys]
    BY <1>6 DEF TakePml4
  <2>2. /\ WorkShape(work') /\ work'.pml4 = phys /\ work'.plan = work.plan
        /\ work'.seg = work.seg /\ work'.kind = work.kind
    BY <1>3, <2>1 DEF WorkShape
  <2>3. /\ space'.root_phys = phys /\ space'.table_pages = space.table_pages + 1
        /\ space'.image_pages = space.image_pages /\ space'.stack_pages = space.stack_pages
        /\ space'.owns_zero = space.owns_zero
    BY <1>3, <2>1 DEF SpaceShape
  <2>4. Sums(space', count')
    BY <1>3, <1>4, <2>3 DEF Sums
  <2>5. Rooted("pdpt", mem', work', space', Held')
    BY <1>4, <2>2, <2>3 DEF Rooted
  <2>6. InEarly("pdpt", mem', work', space', Held')
    BY <1>3, <2>2, <2>3, <2>5 DEF InEarly
  <2>7. Built(pc', mem', work', space', count', Held') /\ pc' \in Building
    BY <1>3, <2>1, <2>2, <2>4, <2>6, PlanStays DEF Built, Early, Building
  <2> QED
    BY <1>4, <2>2, <2>7, BuildingGoesOn
<1>7. CASE TakePdpt(phys)
  <2>1. /\ pc = "pdpt" /\ pc' = "linkPdpt" /\ space' = [space EXCEPT !.table_pages = @ + 1]
        /\ work' = [work EXCEPT !.pdpt = phys]
    BY <1>7 DEF TakePdpt
  <2>2. /\ WorkShape(work') /\ work'.pml4 = work.pml4 /\ work'.pdpt = phys
        /\ work'.plan = work.plan /\ work'.seg = work.seg /\ work'.kind = work.kind
    BY <1>3, <2>1 DEF WorkShape
  <2>3. /\ space'.root_phys = space.root_phys /\ space'.table_pages = space.table_pages + 1
        /\ space'.image_pages = space.image_pages /\ space'.stack_pages = space.stack_pages
        /\ space'.owns_zero = space.owns_zero
    BY <1>3, <2>1 DEF SpaceShape
  <2>4. Sums(space', count')
    BY <1>3, <1>4, <2>3 DEF Sums
  <2>5. work.pml4 \in Held /\ space.root_phys = work.pml4 /\ mem[work.pml4] = ZeroFrame
    BY <1>5, <2>1 DEF Rooted
  <2>6. Rooted("linkPdpt", mem', work', space', Held')
    BY <1>4, <2>2, <2>3, <2>5 DEF Rooted
  <2>7. InEarly("linkPdpt", mem', work', space', Held')
    BY <1>3, <2>2, <2>3, <2>6 DEF InEarly
  <2>8. Built(pc', mem', work', space', count', Held') /\ pc' \in Building
    BY <1>3, <2>1, <2>2, <2>4, <2>7, PlanStays DEF Built, Early, Building
  <2> QED
    BY <1>4, <2>2, <2>8, BuildingGoesOn
<1>8. CASE TakePd(phys)
  <2>1. /\ pc = "pd" /\ pc' = "linkPd" /\ space' = [space EXCEPT !.table_pages = @ + 1]
        /\ work' = [work EXCEPT !.pd = phys]
    BY <1>8 DEF TakePd
  <2>2. /\ WorkShape(work') /\ work'.pml4 = work.pml4 /\ work'.pdpt = work.pdpt /\ work'.pd = phys
        /\ work'.plan = work.plan /\ work'.seg = work.seg /\ work'.kind = work.kind
        /\ work'.borrowed = work.borrowed
    BY <1>3, <2>1 DEF WorkShape
  <2>3. /\ space'.root_phys = space.root_phys /\ space'.table_pages = space.table_pages + 1
        /\ space'.image_pages = space.image_pages /\ space'.stack_pages = space.stack_pages
        /\ space'.owns_zero = space.owns_zero
    BY <1>3, <2>1 DEF SpaceShape
  <2>4. Sums(space', count')
    BY <1>3, <1>4, <2>3 DEF Sums
  <2>5. /\ work.pml4 \in Held /\ space.root_phys = work.pml4 /\ work.pdpt \in Held
        /\ work.pml4 # work.pdpt
        /\ mem[work.pml4] = [i \in Idx |-> IF i = 0 THEN Link(work.pdpt) ELSE NoWord]
        /\ mem[work.pdpt] = [i \in Idx |-> IF i = 0 THEN [to |-> work.borrowed, flags |-> {"P", "W"}]
                                           ELSE NoWord]
    BY <1>5, <2>1 DEF Rooted
  <2>6. Rooted("linkPd", mem', work', space', Held')
    BY <1>4, <2>2, <2>3, <2>5 DEF Rooted
  <2>7. InEarly("linkPd", mem', work', space', Held')
    BY <1>3, <2>2, <2>3, <2>6 DEF InEarly
  <2>8. Built(pc', mem', work', space', count', Held') /\ pc' \in Building
    BY <1>3, <2>1, <2>2, <2>4, <2>7, PlanStays DEF Built, Early, Building
  <2> QED
    BY <1>4, <2>2, <2>8, BuildingGoesOn
<1> QED
  BY <1>6, <1>7, <1>8

\* A failing step leaves no claim but the shape of memory.
LEMMA TablesUnwind ==
  ASSUME NEW error, NEW n, Unwind(error, n), mem' = [f \in Frames |-> mem'[f]], WorkShape(work')
  PROVE  TablesInv'
<1>1. pc' = "release" /\ "release" \notin Building
  BY DEF Unwind, Building
<1> QED
  BY <1>1 DEF TablesInv

LEMMA ZeroIsClear == ZeroFrame = [j \in Idx |-> [i \in Idx |-> NoWord][j]] /\ 0 \in Idx /\ 1 \in Idx
  BY VmAssumption DEF ZeroFrame, Idx

LEMMA EarlyLinks ==
  ASSUME TablesInv, VmInv, LinkPdpt \/ Borrow
  PROVE  TablesInv'
<1>1. pc \in {"linkPdpt", "borrow"} /\ UNCHANGED journal /\ space' = space /\ work' = work
  BY DEF LinkPdpt, Borrow
<1>2. pc \in Building /\ pc \in Early
  BY <1>1 DEF Building, Early
<1>3. /\ PlanIn(work) /\ Sums(space, count) /\ mem = [f \in Frames |-> mem[f]]
      /\ WorkShape(work) /\ InEarly(pc, mem, work, space, Held) /\ Held \subseteq Frames
  BY <1>2, BuildingDoes
<1>4. Held' = Held /\ count' = count
  BY <1>1, HeldStays
<1>5. Rooted(pc, mem, work, space, Held)
  BY <1>3 DEF InEarly
<1>6. /\ work.pml4 \in Held /\ space.root_phys = work.pml4 /\ work.pdpt \in Held
      /\ work.pml4 # work.pdpt /\ mem[work.pdpt] = ZeroFrame
  BY <1>1, <1>5 DEF Rooted
<1>7. CASE LinkPdpt
  <2>1. /\ pc = "linkPdpt" /\ pc' = "borrow"
        /\ mem' = [mem EXCEPT ![work.pml4][0] = Link(work.pdpt)]
    BY <1>7 DEF LinkPdpt, Store, Link
  <2>2. mem[work.pml4] = [j \in Idx |-> [i \in Idx |-> NoWord][j]]
    BY <1>5, <2>1, ZeroIsClear DEF Rooted
  <2>3. /\ mem' = [f \in Frames |-> mem'[f]]
        /\ \A f \in Frames : f # work.pml4 => mem'[f] = mem[f]
        /\ mem'[work.pml4] = [j \in Idx |-> IF j = 0 THEN Link(work.pdpt) ELSE [i \in Idx |-> NoWord][j]]
    <3>1. work.pml4 \in Frames /\ 0 \in Idx
      BY <1>3, <1>6, ZeroIsClear
    <3> QED
      BY <1>3, <2>1, <2>2, <3>1, WordWritten
  <2>4. mem'[work.pml4] = [i \in Idx |-> IF i = 0 THEN Link(work.pdpt) ELSE NoWord]
    BY <2>3
  <2>5. mem'[work.pdpt] = ZeroFrame
    BY <1>3, <1>6, <2>3
  <2>6. Rooted("borrow", mem', work', space', Held')
    BY <1>1, <1>4, <1>6, <2>4, <2>5 DEF Rooted
  <2>7. InEarly("borrow", mem', work', space', Held')
    BY <1>1, <1>3, <2>6 DEF InEarly
  <2>8. Built(pc', mem', work', space', count', Held') /\ pc' \in Building
    BY <1>1, <1>3, <1>4, <2>1, <2>7 DEF Built, Early, Building
  <2> QED
    BY <1>1, <1>3, <2>3, <2>8, BuildingGoesOn
<1>8. CASE Borrow
  <2>1. /\ pc = "borrow"
        /\ mem' = [mem EXCEPT ![work.pdpt][0] = [to |-> work.borrowed, flags |-> {"P", "W"}]]
        /\ pc' = "pd" \/ Unwind("ReservedFrame", count)
    BY <1>8 DEF Borrow, Store
  <2>2. mem[work.pdpt] = [j \in Idx |-> [i \in Idx |-> NoWord][j]]
    BY <1>6, ZeroIsClear
  <2>3. /\ mem' = [f \in Frames |-> mem'[f]]
        /\ \A f \in Frames : f # work.pdpt => mem'[f] = mem[f]
        /\ mem'[work.pdpt] = [j \in Idx |-> IF j = 0 THEN [to |-> work.borrowed, flags |-> {"P", "W"}]
                                            ELSE [i \in Idx |-> NoWord][j]]
    <3>1. work.pdpt \in Frames /\ 0 \in Idx
      BY <1>3, <1>6, ZeroIsClear
    <3> QED
      BY <1>3, <2>1, <2>2, <3>1, WordWritten
  <2>4. mem'[work.pdpt] = [i \in Idx |-> IF i = 0 THEN [to |-> work.borrowed, flags |-> {"P", "W"}]
                                         ELSE NoWord]
    BY <2>3
  <2>5. mem'[work.pml4] = [i \in Idx |-> IF i = 0 THEN Link(work.pdpt) ELSE NoWord]
    BY <1>3, <1>5, <1>6, <2>1, <2>3 DEF Rooted
  <2>6. Rooted("pd", mem', work', space', Held')
    BY <1>1, <1>4, <1>6, <2>4, <2>5 DEF Rooted
  <2>7. InEarly("pd", mem', work', space', Held')
    BY <1>1, <1>3, <2>6 DEF InEarly
  <2>8. CASE pc' = "pd"
    <3>1. Built(pc', mem', work', space', count', Held') /\ pc' \in Building
      BY <1>1, <1>3, <1>4, <2>7, <2>8 DEF Built, Early, Building
    <3> QED
      BY <1>1, <1>3, <2>3, <3>1, BuildingGoesOn
  <2>9. CASE Unwind("ReservedFrame", count)
    BY <1>1, <1>3, <2>3, <2>9, TablesUnwind
  <2> QED
    BY <2>1, <2>8, <2>9
<1> QED
  BY <1>7, <1>8

\* The directory is linked, and empty: nothing is mapped.
LEMMA EmptyTree ==
  ASSUME NEW m, NEW w, NEW s, NEW K, Heads(m, w, s, K), m[w.pd] = ZeroFrame,
         w.seg = 1, w.kind = "image", PlanIn(w)
  PROVE  Tree(m, w, s, K, 0) /\ Filled(m, w) = {}
<1>1. \A i \in Idx : m[w.pd][i] = NoWord
  BY DEF ZeroFrame, Idx
<1>2. \A i, j \in Idx : At(m, w, i, j) = NoWord
  BY <1>1 DEF At
<1>3. Directory(m, w, K)
  BY <1>1 DEF Directory, ZeroFrame, Idx
<1>4. Leaves(m, w, K)
  BY <1>2 DEF Leaves
<1>5. \A k \in SegsOf(w) : DoneSeg(w, 0, k) = {}
  <2> SUFFICES ASSUME NEW k \in SegsOf(w), NEW va \in DoneSeg(w, 0, k) PROVE FALSE
    OBVIOUS
  <2>1. PICK lo, hi : lo = w.plan.segments[k].map_start /\ hi = w.plan.segments[k].map_end
    OBVIOUS
  <2>2. lo \in Nat /\ hi \in Nat /\ Len(w.plan.segments) \in Nat
    BY <2>1 DEF PlanIn
  <2>3. va \in lo..(hi - 1) /\ (k < 1 \/ va < 0)
    BY <2>1 DEF DoneSeg, pagesOf
  <2>4. k \in 1..Len(w.plan.segments)
    BY DEF SegsOf
  <2> QED
    BY <2>2, <2>3, <2>4
<1>6. DoneStack(w, 0) = {}
  BY DEF DoneStack
<1>7. Content(m, w, 0)
  BY <1>2, <1>5, <1>6 DEF Content
<1>8. Filled(m, w) = {}
  BY <1>2 DEF Filled
<1> QED
  BY <1>3, <1>4, <1>7, <1>8 DEF Tree

LEMMA DirectoryLinked ==
  ASSUME TablesInv, VmInv, LinkPd
  PROVE  TablesInv'
<1>1. /\ pc = "linkPd" /\ pc' = "segment" /\ UNCHANGED journal /\ space' = space /\ work' = work
      /\ mem' = [mem EXCEPT ![work.pdpt][1] = Link(work.pd)]
  BY DEF LinkPd, Store, Link
<1>2. pc \in Building /\ pc \in Early
  BY <1>1 DEF Building, Early
<1>3. /\ PlanIn(work) /\ Sums(space, count) /\ mem = [f \in Frames |-> mem[f]]
      /\ WorkShape(work) /\ InEarly(pc, mem, work, space, Held) /\ Held \subseteq Frames
  BY <1>2, BuildingDoes
<1>4. Held' = Held /\ count' = count
  BY <1>1, HeldStays
<1>5. /\ work.pml4 \in Held /\ space.root_phys = work.pml4 /\ work.pdpt \in Held
      /\ work.pml4 # work.pdpt /\ work.pd \in Held /\ work.pd \notin {work.pml4, work.pdpt}
      /\ mem[work.pml4] = [i \in Idx |-> IF i = 0 THEN Link(work.pdpt) ELSE NoWord]
      /\ mem[work.pdpt] = [i \in Idx |-> IF i = 0 THEN [to |-> work.borrowed, flags |-> {"P", "W"}]
                                         ELSE NoWord]
      /\ mem[work.pd] = ZeroFrame
  BY <1>1, <1>3 DEF InEarly, Rooted
<1>6. PICK c : c = [i \in Idx |-> IF i = 0 THEN [to |-> work.borrowed, flags |-> {"P", "W"}]
                                  ELSE NoWord]
  OBVIOUS
<1>7. /\ mem' = [f \in Frames |-> mem'[f]]
      /\ \A f \in Frames : f # work.pdpt => mem'[f] = mem[f]
      /\ mem'[work.pdpt] = [j \in Idx |-> IF j = 1 THEN Link(work.pd) ELSE c[j]]
  <2>1. work.pdpt \in Frames /\ 1 \in Idx /\ mem[work.pdpt] = [j \in Idx |-> c[j]]
    BY <1>3, <1>5, <1>6, ZeroIsClear
  <2> QED
    BY <1>1, <1>3, <2>1, WordWritten
<1>8. mem'[work.pdpt] = [i \in Idx |-> IF i = 0 THEN [to |-> work.borrowed, flags |-> {"P", "W"}]
                                       ELSE IF i = 1 THEN Link(work.pd) ELSE NoWord]
  <2>1. 0 # 1
    OBVIOUS
  <2> QED
    BY <1>6, <1>7, <2>1
<1>9. mem'[work.pml4] = mem[work.pml4] /\ mem'[work.pd] = ZeroFrame
  BY <1>3, <1>5, <1>7
<1>10. Heads(mem', work', space', Held')
  BY <1>1, <1>4, <1>5, <1>8, <1>9 DEF Heads
<1>11. Tree(mem', work', space', Held', 0) /\ Filled(mem', work') = {}
  <2>1. work'.seg = 1 /\ work'.kind = "image" /\ PlanIn(work') /\ mem'[work'.pd] = ZeroFrame
    BY <1>1, <1>3, <1>9 DEF InEarly
  <2> QED
    BY <1>10, <2>1, EmptyTree
<1>12. InPages("segment", mem', work', space', Held')
  <2>1. Counted(mem', work', space', 0)
    BY <1>1, <1>3, <1>11, FS_EmptySet DEF Counted, InEarly
  <2>2. Cursor(work')
    <3>1. Len(work.plan.segments) \in Nat
      BY <1>3 DEF PlanIn
    <3> QED
      BY <1>1, <1>3, <3>1 DEF Cursor, InEarly
  <2>3. InHand("segment", mem', work', Held')
    BY DEF InHand, Directed
  <2>4. "segment" \notin Inside /\ work'.kind = "image"
    BY <1>1, <1>3 DEF Inside, Directed, InEarly
  <2> QED
    BY <1>11, <2>1, <2>2, <2>3, <2>4 DEF InPages
<1>13. Built(pc', mem', work', space', count', Held') /\ pc' \in Building
  BY <1>1, <1>3, <1>4, <1>12 DEF Built, Early, Building
<1> QED
  BY <1>1, <1>3, <1>7, <1>13, BuildingGoesOn

-----------------------------------------------------------------------------
(* The pages. *)

Later == {"segment", "page", "pt", "linkPt", "slot", "leaf", "copy", "linkLeaf"}

LEMMA LaterDoes ==
  ASSUME TablesInv, VmInv, pc \in Later
  PROVE  /\ PlanIn(work) /\ Sums(space, count) /\ mem = [f \in Frames |-> mem[f]]
         /\ WorkShape(work) /\ SpaceShape(space) /\ Held \subseteq Frames
         /\ BuildInv /\ InPages(pc, mem, work, space, Held)
         /\ Tree(mem, work, space, Held, IF pc = "segment" THEN 0 ELSE work.va)
         /\ Counted(mem, work, space, IF pc \in {"copy", "linkLeaf"} THEN 1 ELSE 0)
         /\ Cursor(work) /\ (pc = "segment" => work.kind = "image")
         /\ pc # "segment" => AtPage(work)
         /\ pc \in Inside => InPage(work)
         /\ InHand(pc, mem, work, Held)
<1>1. pc \in Building /\ pc \notin Early
  BY DEF Building, Early, Later
<1>2. BuildInv /\ InPages(pc, mem, work, space, Held)
  BY <1>1, BuildingDoes
<1> QED
  BY <1>1, <1>2, BuildingDoes DEF InPages

LEMMA LaterGoesOn ==
  ASSUME mem' = [f \in Frames |-> mem'[f]], WorkShape(work'), pc' \in Later,
         PlanIn(work'), Sums(space', count'),
         Tree(mem', work', space', Held', IF pc' = "segment" THEN 0 ELSE work'.va),
         Counted(mem', work', space', IF pc' \in {"copy", "linkLeaf"} THEN 1 ELSE 0),
         Cursor(work'), pc' = "segment" => work'.kind = "image",
         pc' # "segment" => AtPage(work'), pc' \in Inside => InPage(work'),
         InHand(pc', mem', work', Held')
  PROVE  TablesInv'
<1>1. InPages(pc', mem', work', space', Held')
  BY DEF InPages
<1>2. pc' \in Building /\ pc' \notin Early
  BY DEF Building, Early, Later
<1>3. Built(pc', mem', work', space', count', Held')
  BY <1>1, <1>2 DEF Built
<1> QED
  BY <1>2, <1>3, BuildingGoesOn

\* Nothing of a segment is below its start, nor of the stack below its own.
LEMMA NoneBelow ==
  ASSUME NEW w, PlanIn(w), Cursor(w), NEW x, x.plan = w.plan, x.seg = w.seg,
         \/ x.kind = "image" /\ w.kind = "image" /\ x.seg \in SegsOf(w)
            /\ x.va = w.plan.segments[x.seg].map_start
         \/ x.kind = "stack" /\ w.kind = "image" /\ w.seg = Len(w.plan.segments) + 1 /\ x.va = STACK_LO
  PROVE  /\ \A k \in SegsOf(w) : DoneSeg(x, x.va, k) = DoneSeg(w, 0, k)
         /\ DoneStack(x, x.va) = DoneStack(w, 0)
<1>1. ASSUME NEW k \in SegsOf(w) PROVE DoneSeg(x, x.va, k) = DoneSeg(w, 0, k)
  <2>1. PICK lo, hi : lo = w.plan.segments[k].map_start /\ hi = w.plan.segments[k].map_end
    OBVIOUS
  <2>2. lo \in Nat /\ hi \in Nat /\ Len(w.plan.segments) \in Nat /\ k \in 1..Len(w.plan.segments)
    BY <2>1 DEF PlanIn, SegsOf
  <2>3. \A va \in pagesOf(w.plan.segments[k]) : va \in lo..(hi - 1)
    BY <2>1 DEF pagesOf
  <2>4. \A va \in pagesOf(w.plan.segments[k]) : ~(va < 0)
    BY <2>2, <2>3
  <2>5. \A va \in pagesOf(w.plan.segments[k]) : ~(k = x.seg /\ va < x.va)
    <3>1. CASE x.kind = "image"
      BY <2>1, <2>2, <2>3, <3>1
    <3>2. CASE x.kind = "stack"
      BY <2>2, <3>2
    <3> QED
      BY <3>1, <3>2
  <2> QED
    BY <2>4, <2>5 DEF DoneSeg
<1>2. DoneStack(w, 0) = {}
  BY DEF DoneStack
<1>3. DoneStack(x, x.va) = {}
  <2>1. \A va \in StackPages : ~(va < STACK_LO)
    BY VmAssumption DEF StackPages
  <2> QED
    BY <2>1 DEF DoneStack
<1> QED
  BY <1>1, <1>2, <1>3

\* The cursor moves and the tables stay.
Moved(w, lim, x, to) ==
  /\ x.pml4 = w.pml4 /\ x.pdpt = w.pdpt /\ x.pd = w.pd /\ x.borrowed = w.borrowed
  /\ x.plan = w.plan
  /\ \A k \in SegsOf(w) : DoneSeg(x, to, k) = DoneSeg(w, lim, k)
  /\ DoneStack(x, to) = DoneStack(w, lim)

LEMMA TreeMoves ==
  ASSUME NEW m, NEW w, NEW x, NEW s, NEW K, NEW lim, NEW to, Tree(m, w, s, K, lim),
         Moved(w, lim, x, to)
  PROVE  Tree(m, x, s, K, to) /\ Filled(m, x) = Filled(m, w)
<1> USE DEF Moved
<1>1. \A i, j : At(m, x, i, j) = At(m, w, i, j)
  BY DEF At
<1>2. \A f : IsTable(m, x, f) <=> IsTable(m, w, f)
  BY DEF IsTable
<1>3. Heads(m, x, s, K)
  BY DEF Tree, Heads
<1>4. Directory(m, x, K)
  BY DEF Tree, Directory
<1>5. Leaves(m, x, K)
  BY <1>1, <1>2 DEF Tree, Leaves
<1>6. Content(m, x, to)
  BY ContentMoves DEF Tree
<1>7. Filled(m, x) = Filled(m, w)
  BY <1>1 DEF Filled
<1> QED
  BY <1>3, <1>4, <1>5, <1>6, <1>7 DEF Tree

LEMMA TablesNext ==
  ASSUME TablesInv, VmInv, NextSegment
  PROVE  TablesInv'
<1>1. pc = "segment" /\ UNCHANGED journal /\ mem' = mem /\ space' = space
  BY DEF NextSegment
<1>2. /\ PlanIn(work) /\ Sums(space, count) /\ mem = [f \in Frames |-> mem[f]]
      /\ WorkShape(work) /\ Tree(mem, work, space, Held, 0) /\ Counted(mem, work, space, 0)
      /\ Cursor(work) /\ work.kind = "image"
  BY <1>1, LaterDoes DEF Later
<1>3. Held' = Held /\ count' = count
  BY <1>1, HeldStays
<1>4. Len(work.plan.segments) \in Nat /\ work.seg \in 1..(Len(work.plan.segments) + 1)
  BY <1>2 DEF PlanIn, Cursor
<1>5. CASE AtSegment /\ {"W", "X"} \subseteq Segment.flags
  BY <1>1, <1>2, <1>5, TablesUnwind DEF NextSegment
<1>6. CASE ~(AtSegment /\ {"W", "X"} \subseteq Segment.flags)
  <2>1. /\ pc' = "page"
        /\ work' = IF AtSegment THEN [work EXCEPT !.va = Segment.map_start]
                                ELSE [work EXCEPT !.kind = "stack", !.va = STACK_LO]
    BY <1>6 DEF NextSegment
  <2>2. /\ WorkShape(work') /\ work'.plan = work.plan /\ work'.seg = work.seg
        /\ work'.pml4 = work.pml4 /\ work'.pdpt = work.pdpt /\ work'.pd = work.pd
        /\ work'.borrowed = work.borrowed
        /\ work'.kind = (IF AtSegment THEN "image" ELSE "stack")
        /\ work'.va = (IF AtSegment THEN Segment.map_start ELSE STACK_LO)
    BY <1>2, <2>1 DEF WorkShape
  <2>3. /\ AtSegment => work.seg \in SegsOf(work)
        /\ ~AtSegment => work.seg = Len(work.plan.segments) + 1
    BY <1>4 DEF AtSegment, SegsOf
  <2>4. /\ \A k \in SegsOf(work) : DoneSeg(work', work'.va, k) = DoneSeg(work, 0, k)
        /\ DoneStack(work', work'.va) = DoneStack(work, 0)
    BY <1>2, <2>2, <2>3, NoneBelow DEF Segment
  <2>5. Tree(mem', work', space', Held', work'.va) /\ Filled(mem', work') = Filled(mem, work)
    <3>1. Moved(work, 0, work', work'.va)
      BY <2>2, <2>4 DEF Moved
    <3> QED
      BY <1>1, <1>2, <1>3, <3>1, TreeMoves
  <2>6. Counted(mem', work', space', 0)
    BY <1>1, <1>2, <2>5 DEF Counted
  <2>7. Cursor(work')
    BY <1>4, <2>2, <2>3 DEF Cursor
  <2>8. AtPage(work')
    <3>1. CASE AtSegment
      <4>1. /\ Segment.map_start \in Nat /\ Segment.map_start % PAGE = 0
            /\ ~({"W", "X"} \subseteq Segment.flags)
        BY <1>2, <1>6, <2>3, <3>1 DEF PlanIn, Segment
      <4>2. SegsOf(work') = SegsOf(work)
        BY <2>2 DEF SegsOf
      <4> QED
        BY <2>2, <2>3, <3>1, <4>1, <4>2 DEF AtPage, Segment
    <3>2. CASE ~AtSegment
      BY <2>2, <3>2, VmAssumption DEF AtPage
    <3> QED
      BY <3>1, <3>2
  <2>9. InHand("page", mem', work', Held')
    BY DEF InHand, Directed
  <2>10. PlanIn(work')
    BY <1>2, <2>2, PlanStays
  <2>11. mem' = [f \in Frames |-> mem'[f]] /\ Sums(space', count')
    BY <1>1, <1>2, <1>3
  <2> QED
    BY <2>1, <2>2, <2>5, <2>6, <2>7, <2>8, <2>9, <2>10, <2>11, LaterGoesOn DEF Later, Inside, Directed
<1> QED
  BY <1>5, <1>6

\* The locals that construct's position is in.
LEMMA CursorStays ==
  ASSUME NEW w, NEW x, Alike(w, x), x.va = w.va
  PROVE  /\ PlanIn(w) => PlanIn(x)
         /\ Cursor(w) => Cursor(x)
         /\ AtPage(w) => AtPage(x)
         /\ InPage(w) => InPage(x)
<1>1. x.plan = w.plan /\ x.seg = w.seg /\ x.kind = w.kind
  BY DEF Alike
<1>2. SegsOf(x) = SegsOf(w)
  BY <1>1 DEF SegsOf
<1>3. AtPage(w) => AtPage(x)
  BY <1>1, <1>2 DEF AtPage
<1> QED
  BY <1>1, <1>3, PlanStays DEF Cursor, InPage

LEMMA PageIs ==
  ASSUME NEW m, NEW w, NEW p, m[w.pd][pdIndex(w.va)] = Link(p)
  PROVE  Page(m, w, w.va) = m[p][ptIndex(w.va)]
<1>1. PICK e : e = m[w.pd][pdIndex(w.va)]
  OBVIOUS
<1>2. e # NoWord /\ e.to = p
  BY <1>1, LinkIsWord
<1> QED
  BY <1>1, <1>2 DEF Page, At

LEMMA TablesEnsure ==
  ASSUME TablesInv, VmInv, EnsurePt
  PROVE  TablesInv'
<1>1. /\ pc = "page" /\ UNCHANGED journal /\ mem' = mem /\ space' = space
      /\ work.va < pageEnd
  BY DEF EnsurePt
<1>2. /\ PlanIn(work) /\ Sums(space, count) /\ mem = [f \in Frames |-> mem[f]]
      /\ WorkShape(work) /\ Tree(mem, work, space, Held, work.va)
      /\ Counted(mem, work, space, 0) /\ Cursor(work) /\ AtPage(work)
  BY <1>1, LaterDoes DEF Later
<1>3. Held' = Held /\ count' = count
  BY <1>1, HeldStays
<1>4. InPage(work)
  BY <1>1 DEF InPage, pageEnd, Segment
<1>5. pdIndex(work.va) \in Idx /\ ptIndex(work.va) \in Idx
  BY <1>2, IndexDoes DEF AtPage
<1>6. PICK e : e = mem[work.pd][pdIndex(work.va)]
  OBVIOUS
<1>7. CASE \E error : Unwind(error, count) /\ UNCHANGED work
  BY <1>1, <1>2, <1>7, TablesUnwind
<1>8. CASE /\ "P" \in e.flags /\ contains(e.to)
           /\ pc' = "slot" /\ work' = [work EXCEPT !.pt = e.to]
  <2>1. e = Link(e.to)
    <3>1. e # NoWord
      BY <1>8 DEF NoWord
    <3> QED
      BY <1>2, <1>5, <1>6, <3>1 DEF Tree, Directory
  <2>2. Alike(work, work') /\ work'.va = work.va /\ WorkShape(work') /\ work'.pt = e.to
        /\ work'.pd = work.pd
    BY <1>2, <1>8 DEF WorkShape, Alike
  <2>3. /\ Tree(mem', work', space', Held', work'.va) /\ Filled(mem', work') = Filled(mem, work)
    BY <1>1, <1>2, <1>3, <2>2, AlikeSame
  <2>4. Counted(mem', work', space', 0)
    BY <1>1, <1>2, <2>3 DEF Counted
  <2>5. InHand("slot", mem', work', Held')
    BY <1>1, <1>6, <2>1, <2>2 DEF InHand, Directed
  <2>6. PlanIn(work') /\ Cursor(work') /\ AtPage(work') /\ InPage(work')
    BY <1>2, <1>4, <2>2, CursorStays
  <2>7. mem' = [f \in Frames |-> mem'[f]] /\ Sums(space', count')
    BY <1>1, <1>2, <1>3
  <2> QED
    BY <1>8, <2>2, <2>3, <2>4, <2>5, <2>6, <2>7, LaterGoesOn DEF Later
<1>9. CASE "P" \notin e.flags /\ pc' = "pt" /\ work' = work
  <2>1. e = NoWord
    <3>1. e # NoWord => e = Link(e.to)
      BY <1>2, <1>5, <1>6 DEF Tree, Directory
    <3>2. \A f : "P" \in Link(f).flags
      BY DEF Link, Table
    <3> QED
      BY <1>9, <3>1, <3>2
  <2>2. InHand("pt", mem', work', Held')
    BY <1>1, <1>6, <1>9, <2>1 DEF InHand, Directed
  <2>3. /\ mem' = [f \in Frames |-> mem'[f]] /\ Sums(space', count') /\ WorkShape(work')
        /\ PlanIn(work') /\ Tree(mem', work', space', Held', work'.va)
        /\ Counted(mem', work', space', 0) /\ Cursor(work') /\ AtPage(work') /\ InPage(work')
    BY <1>1, <1>2, <1>3, <1>4, <1>9
  <2> QED
    BY <1>9, <2>2, <2>3, LaterGoesOn DEF Later
<1> QED
  BY <1>1, <1>6, <1>7, <1>8, <1>9 DEF EnsurePt

LEMMA TablesTakePt ==
  ASSUME TablesInv, VmInv, NEW phys, TakePt(phys)
  PROVE  TablesInv'
<1>1. /\ pc = "pt" /\ Taken(phys) /\ pc' = "linkPt" /\ work' = [work EXCEPT !.pt = phys]
      /\ \/ space' = [space EXCEPT !.table_pages = @ + 1, !.image_pts = @ + 1]
         \/ space' = [space EXCEPT !.table_pages = @ + 1, !.stack_pts = @ + 1]
  BY DEF TakePt
<1>2. /\ PlanIn(work) /\ Sums(space, count) /\ mem = [f \in Frames |-> mem[f]]
      /\ WorkShape(work) /\ SpaceShape(space) /\ BuildInv
      /\ Tree(mem, work, space, Held, work.va) /\ Counted(mem, work, space, 0)
      /\ Cursor(work) /\ AtPage(work) /\ InPage(work)
      /\ mem[work.pd][pdIndex(work.va)] = NoWord
  BY <1>1, LaterDoes DEF Later, Inside, InHand
<1>3. /\ phys \in Frames /\ phys \notin Held /\ Held' = Held \cup {phys}
      /\ count \in Nat /\ count' = count + 1
      /\ mem' = [f \in Frames |-> mem'[f]] /\ mem'[phys] = ZeroFrame
      /\ \A f \in Held : mem'[f] = mem[f]
  BY <1>1, <1>2, HeldGrows
<1>4. /\ space'.root_phys = space.root_phys /\ space'.table_pages = space.table_pages + 1
      /\ space'.image_pages = space.image_pages /\ space'.stack_pages = space.stack_pages
      /\ space'.owns_zero = space.owns_zero
  BY <1>1, <1>2 DEF SpaceShape
<1>5. Sums(space', count')
  BY <1>2, <1>3, <1>4 DEF Sums
<1>6. Alike(work, work') /\ work'.va = work.va /\ WorkShape(work') /\ work'.pt = phys
  BY <1>1, <1>2 DEF WorkShape, Alike
<1>7. /\ Tree(mem', work, space', Held', work.va) /\ mem'[work.pd] = mem[work.pd]
      /\ Filled(mem', work) = Filled(mem, work) /\ Loose(mem', work, phys)
  <2>1. Loose(mem, work, phys)
    BY <1>2, <1>3, NewIsLoose
  <2>2. Spared(mem, mem', work, space, space', Held, Held')
    BY <1>3, <1>4 DEF Spared
  <2>3. /\ Tree(mem', work, space', Held', work.va) /\ mem'[work.pd] = mem[work.pd]
        /\ \A f : Loose(mem', work, f) <=> Loose(mem, work, f)
        /\ Filled(mem', work) = Filled(mem, work)
    BY <1>2, <2>2, TreeStays
  <2> QED
    BY <2>1, <2>3
<1>8. /\ Tree(mem', work', space', Held', work'.va) /\ Filled(mem', work') = Filled(mem, work)
      /\ Loose(mem', work', phys)
  BY <1>6, <1>7, AlikeSame
<1>9. Counted(mem', work', space', 0)
  BY <1>2, <1>4, <1>8 DEF Counted
<1>10. InHand("linkPt", mem', work', Held')
  BY <1>2, <1>3, <1>6, <1>7, <1>8 DEF InHand, Directed, Alike
<1>11. PlanIn(work') /\ Cursor(work') /\ AtPage(work') /\ InPage(work')
  BY <1>2, <1>6, CursorStays
<1> QED
  BY <1>1, <1>3, <1>5, <1>6, <1>8, <1>9, <1>10, <1>11, LaterGoesOn DEF Later

LEMMA TablesLinkPt ==
  ASSUME TablesInv, VmInv, LinkPt
  PROVE  TablesInv'
<1>1. /\ pc = "linkPt" /\ pc' = "slot" /\ UNCHANGED journal /\ space' = space /\ work' = work
      /\ mem' = [mem EXCEPT ![work.pd][pdIndex(work.va)] = Link(work.pt)]
  BY DEF LinkPt, Store, Link
<1>2. /\ PlanIn(work) /\ Sums(space, count) /\ mem = [f \in Frames |-> mem[f]]
      /\ WorkShape(work) /\ Held \subseteq Frames
      /\ Tree(mem, work, space, Held, work.va) /\ Counted(mem, work, space, 0)
      /\ Cursor(work) /\ AtPage(work) /\ InPage(work)
      /\ mem[work.pd][pdIndex(work.va)] = NoWord
      /\ work.pt \in Held /\ Loose(mem, work, work.pt) /\ mem[work.pt] = ZeroFrame
  BY <1>1, LaterDoes DEF Later, Inside, InHand
<1>3. Held' = Held /\ count' = count
  BY <1>1, HeldStays
<1>4. pdIndex(work.va) \in Idx
  BY <1>2, IndexDoes DEF AtPage
<1>5. PICK c : c = mem[work.pd]
  OBVIOUS
<1>6. /\ mem' = [f \in Frames |-> mem'[f]]
      /\ \A f \in Frames : f # work.pd => mem'[f] = mem[f]
      /\ mem'[work.pd] = [j \in Idx |-> IF j = pdIndex(work.va) THEN Link(work.pt) ELSE c[j]]
  <2>1. work.pd \in Frames /\ mem[work.pd] = [j \in Idx |-> c[j]]
    BY <1>2, <1>5 DEF Tree, Heads, Directory
  <2> QED
    BY <1>1, <1>2, <1>4, <2>1, WordWritten
<1>7. /\ Tree(mem', work, space, Held, work.va)
      /\ mem'[work.pd][pdIndex(work.va)] = Link(work.pt)
      /\ Filled(mem', work) = Filled(mem, work)
  <2>1. Linked(mem, mem', work, Held, pdIndex(work.va), work.pt)
    BY <1>2, <1>4, <1>5, <1>6 DEF Linked
  <2> QED
    BY <1>2, <2>1, TableLinked
<1>8. Counted(mem', work', space', 0)
  BY <1>1, <1>2, <1>7 DEF Counted
<1>9. InHand("slot", mem', work', Held')
  BY <1>1, <1>7 DEF InHand, Directed
<1>10. /\ Sums(space', count') /\ WorkShape(work') /\ PlanIn(work')
       /\ Tree(mem', work', space', Held', work'.va) /\ Cursor(work') /\ AtPage(work') /\ InPage(work')
  BY <1>1, <1>2, <1>3, <1>7
<1> QED
  BY <1>1, <1>6, <1>8, <1>9, <1>10, LaterGoesOn DEF Later

LEMMA TablesSlot ==
  ASSUME TablesInv, VmInv, CheckSlot
  PROVE  TablesInv'
<1>1. pc = "slot" /\ UNCHANGED journal /\ mem' = mem /\ space' = space /\ work' = work
  BY DEF CheckSlot
<1>2. /\ PlanIn(work) /\ Sums(space, count) /\ mem = [f \in Frames |-> mem[f]]
      /\ WorkShape(work)
      /\ Tree(mem, work, space, Held, work.va) /\ Counted(mem, work, space, 0)
      /\ Cursor(work) /\ AtPage(work) /\ InPage(work)
      /\ mem[work.pd][pdIndex(work.va)] = Link(work.pt)
  BY <1>1, LaterDoes DEF Later, Inside, InHand, Directed
<1>3. Held' = Held /\ count' = count
  BY <1>1, HeldStays
<1>4. CASE \E error : Unwind(error, count)
  BY <1>1, <1>2, <1>4, TablesUnwind
<1>5. CASE "P" \notin mem[work.pt][ptIndex(work.va)].flags /\ pc' = "leaf"
  <2>1. Page(mem, work, work.va) = mem[work.pt][ptIndex(work.va)]
    BY <1>2, PageIs
  <2>2. pdIndex(work.va) \in Idx /\ ptIndex(work.va) \in Idx
    BY <1>2, IndexDoes DEF AtPage
  <2>3. Page(mem, work, work.va) = NoWord
    BY <1>2, <1>5, <2>1, <2>2 DEF Page, Tree, Leaves
  <2>4. InHand("leaf", mem', work', Held')
    BY <1>1, <1>2, <2>3 DEF InHand, Directed
  <2>5. /\ mem' = [f \in Frames |-> mem'[f]] /\ Sums(space', count') /\ WorkShape(work')
        /\ PlanIn(work') /\ Tree(mem', work', space', Held', work'.va)
        /\ Counted(mem', work', space', 0) /\ Cursor(work') /\ AtPage(work') /\ InPage(work')
    BY <1>1, <1>2, <1>3
  <2> QED
    BY <1>5, <2>4, <2>5, LaterGoesOn DEF Later
<1> QED
  BY <1>4, <1>5 DEF CheckSlot

LEMMA FilledFinite == \A m, w : IsFiniteSet(Filled(m, w))
<1>1. SUFFICES ASSUME NEW m, NEW w PROVE IsFiniteSet(Filled(m, w))
  OBVIOUS
<1>2. IsFiniteSet(Idx)
  <2>1. 0 \in Int /\ N - 1 \in Int
    BY VmAssumption
  <2> QED
    BY <2>1, FS_Interval DEF Idx
<1>3. IsFiniteSet(Idx \X Idx)
  BY <1>2, FS_Product
<1>4. Filled(m, w) \in SUBSET (Idx \X Idx)
  BY DEF Filled
<1> QED
  BY <1>3, <1>4, FS_Subset

LEMMA TablesTakeLeaf ==
  ASSUME TablesInv, VmInv, NEW phys, TakeLeaf(phys)
  PROVE  TablesInv'
<1>1. /\ pc = "leaf" /\ Taken(phys) /\ work' = [work EXCEPT !.frame = phys]
      /\ \/ work.kind = "image" /\ pc' = "copy" /\ space' = [space EXCEPT !.image_pages = @ + 1]
         \/ work.kind # "image" /\ pc' = "linkLeaf" /\ space' = [space EXCEPT !.stack_pages = @ + 1]
  BY DEF TakeLeaf
<1>2. /\ PlanIn(work) /\ Sums(space, count) /\ mem = [f \in Frames |-> mem[f]]
      /\ WorkShape(work) /\ SpaceShape(space) /\ BuildInv
      /\ Tree(mem, work, space, Held, work.va) /\ Counted(mem, work, space, 0)
      /\ Cursor(work) /\ AtPage(work) /\ InPage(work)
      /\ mem[work.pd][pdIndex(work.va)] = Link(work.pt) /\ Page(mem, work, work.va) = NoWord
  BY <1>1, LaterDoes DEF Later, Inside, InHand, Directed
<1>3. /\ phys \in Frames /\ phys \notin Held /\ Held' = Held \cup {phys}
      /\ count \in Nat /\ count' = count + 1
      /\ mem' = [f \in Frames |-> mem'[f]] /\ mem'[phys] = ZeroFrame
      /\ \A f \in Held : mem'[f] = mem[f]
  BY <1>1, <1>2, HeldGrows
<1>4. /\ space'.root_phys = space.root_phys /\ space'.table_pages = space.table_pages
      /\ space'.image_pages \in Nat /\ space'.stack_pages \in Nat
      /\ space'.image_pages + space'.stack_pages = space.image_pages + space.stack_pages + 1
      /\ space'.owns_zero = space.owns_zero
  BY <1>1, <1>2 DEF SpaceShape, Sums
<1>5. Sums(space', count')
  <2>1. PICK a, b, c, d, e : /\ a = space.image_pages /\ b = space.stack_pages
                             /\ c = space.table_pages /\ d = space'.image_pages /\ e = space'.stack_pages
    OBVIOUS
  <2>2. /\ a \in Nat /\ b \in Nat /\ c \in Nat /\ d \in Nat /\ e \in Nat
        /\ c + a + b = count /\ d + e = a + b + 1
    BY <1>2, <1>4, <2>1 DEF Sums
  <2>3. c + d + e = count + 1
    BY <2>2
  <2> QED
    BY <1>2, <1>3, <1>4, <2>1, <2>2, <2>3 DEF Sums
<1>6. Alike(work, work') /\ work'.va = work.va /\ WorkShape(work') /\ work'.frame = phys
      /\ work'.pt = work.pt
  BY <1>1, <1>2 DEF WorkShape, Alike
<1>7. /\ Tree(mem', work, space', Held', work.va) /\ mem'[work.pd] = mem[work.pd]
      /\ \A i, j \in Idx : At(mem', work, i, j) = At(mem, work, i, j)
      /\ Filled(mem', work) = Filled(mem, work) /\ Loose(mem', work, phys)
  <2>1. Loose(mem, work, phys)
    BY <1>2, <1>3, NewIsLoose
  <2>2. Spared(mem, mem', work, space, space', Held, Held')
    BY <1>3, <1>4 DEF Spared
  <2> QED
    BY <1>2, <2>1, <2>2, TreeStays
<1>8. /\ Tree(mem', work', space', Held', work'.va) /\ Filled(mem', work') = Filled(mem, work)
      /\ Loose(mem', work', phys)
  BY <1>6, <1>7, AlikeSame
<1>9. Page(mem', work', work'.va) = NoWord
  <2>1. pdIndex(work.va) \in Idx /\ ptIndex(work.va) \in Idx
    BY <1>2, IndexDoes DEF AtPage
  <2>2. Page(mem', work, work.va) = NoWord
    BY <1>2, <1>7, <2>1 DEF Page
  <2> QED
    BY <1>6, <2>2, AlikeSame
<1>10. Counted(mem', work', space', 1)
  <2>1. PICK n \in Nat : n = Cardinality(Filled(mem, work))
    BY FilledFinite, FS_CardinalityType
  <2>2. space.image_pages + space.stack_pages = n + 0
    BY <1>2, <2>1 DEF Counted
  <2>3. space'.image_pages + space'.stack_pages = n + 1
    BY <1>4, <2>1, <2>2
  <2> QED
    BY <1>8, <2>1, <2>3 DEF Counted
<1>11. mem'[work'.pd][pdIndex(work'.va)] = Link(work'.pt) /\ work'.kind = work.kind
  BY <1>2, <1>6, <1>7 DEF Alike
<1>12. work.kind \in {"image", "stack"}
  BY <1>2 DEF Cursor
<1>13. InHand(pc', mem', work', Held')
  BY <1>1, <1>3, <1>6, <1>8, <1>9, <1>11, <1>12 DEF InHand, Directed
<1>14. PlanIn(work') /\ Cursor(work') /\ AtPage(work') /\ InPage(work')
  BY <1>2, <1>6, CursorStays
<1> QED
  BY <1>1, <1>3, <1>5, <1>6, <1>8, <1>10, <1>13, <1>14, LaterGoesOn DEF Later

LEMMA TablesCopy ==
  ASSUME TablesInv, VmInv, CopyFile
  PROVE  TablesInv'
<1>1. pc = "copy" /\ UNCHANGED journal /\ space' = space /\ work' = work
  BY DEF CopyFile
<1>2. /\ PlanIn(work) /\ Sums(space, count) /\ mem = [f \in Frames |-> mem[f]]
      /\ WorkShape(work) /\ Held \subseteq Frames
      /\ Tree(mem, work, space, Held, work.va) /\ Counted(mem, work, space, 1)
      /\ Cursor(work) /\ AtPage(work) /\ InPage(work)
      /\ mem[work.pd][pdIndex(work.va)] = Link(work.pt) /\ Page(mem, work, work.va) = NoWord
      /\ work.frame \in Held /\ Loose(mem, work, work.frame)
      /\ work.kind = "image" /\ mem[work.frame] = ZeroFrame
  BY <1>1, LaterDoes DEF Later, Inside, InHand, Directed
<1>3. Held' = Held /\ count' = count
  BY <1>1, HeldStays
<1>4. CASE mem' = mem /\ \E error : Unwind(error, count)
  BY <1>1, <1>2, <1>4, TablesUnwind
<1>5. CASE /\ pc' = "linkLeaf"
           /\ mem' = IF copies(Segment, work.va) THEN [mem EXCEPT ![work.frame] = DataFrame] ELSE mem
  <2>1. /\ mem' = [f \in Frames |-> mem'[f]]
        /\ \A f \in Frames : f # work.frame => mem'[f] = mem[f]
        /\ mem'[work.frame] = IF copies(Segment, work.va) THEN DataFrame ELSE ZeroFrame
    <3>1. CASE copies(Segment, work.va)
      <4>1. mem' = [mem EXCEPT ![work.frame] = DataFrame] /\ work.frame \in Frames
        BY <1>2, <1>5, <3>1
      <4>2. /\ mem' = [f \in Frames |-> mem'[f]] /\ mem'[work.frame] = DataFrame
            /\ \A f \in Frames : f # work.frame => mem'[f] = mem[f]
        BY <1>2, <4>1, FrameWritten
      <4> QED
        BY <3>1, <4>2
    <3>2. CASE ~copies(Segment, work.va)
      BY <1>2, <1>5, <3>2
    <3> QED
      BY <3>1, <3>2
  <2>2. Spared(mem, mem', work, space, space', Held, Held')
    BY <1>1, <1>2, <1>3, <2>1 DEF Spared
  <2>3. /\ Tree(mem', work, space', Held', work.va) /\ mem'[work.pd] = mem[work.pd]
        /\ \A i, j \in Idx : At(mem', work, i, j) = At(mem, work, i, j)
        /\ \A f : Loose(mem', work, f) <=> Loose(mem, work, f)
        /\ Filled(mem', work) = Filled(mem, work)
    BY <1>2, <2>2, TreeStays
  <2>4. pdIndex(work.va) \in Idx /\ ptIndex(work.va) \in Idx
    BY <1>2, IndexDoes DEF AtPage
  <2>5. Page(mem', work, work.va) = NoWord
    BY <1>2, <2>3, <2>4 DEF Page
  <2>6. InHand("linkLeaf", mem', work', Held')
    BY <1>1, <1>2, <1>3, <2>1, <2>3, <2>5 DEF InHand, Directed, SegData, Segment
  <2>7. Counted(mem', work', space', 1)
    BY <1>1, <1>2, <2>3 DEF Counted
  <2>8. /\ Sums(space', count') /\ WorkShape(work') /\ PlanIn(work')
        /\ Tree(mem', work', space', Held', work'.va)
        /\ Cursor(work') /\ AtPage(work') /\ InPage(work')
    BY <1>1, <1>2, <1>3, <2>3
  <2> QED
    BY <1>5, <2>1, <2>6, <2>7, <2>8, LaterGoesOn DEF Later
<1> QED
  BY <1>4, <1>5 DEF CopyFile

\* One page more is done.
LEMMA DoneNext ==
  ASSUME NEW w, NEW x, Alike(w, x), PlanIn(w), Cursor(w), AtPage(w), InPage(w), x.va = w.va + PAGE
  PROVE  /\ AtPage(x) /\ w.va \in Done(x, x.va)
         /\ w.kind = "image" => w.seg \in SegsOf(w)
         /\ \A k \in SegsOf(w) : DoneSeg(x, x.va, k) =
              DoneSeg(w, w.va, k) \cup (IF w.kind = "image" /\ k = w.seg THEN {w.va} ELSE {})
         /\ DoneStack(x, x.va) = DoneStack(w, w.va) \cup (IF w.kind = "stack" THEN {w.va} ELSE {})
<1>1. x.plan = w.plan /\ x.seg = w.seg /\ x.kind = w.kind /\ SegsOf(x) = SegsOf(w)
  BY DEF Alike, SegsOf
<1>2. /\ w.va \in Nat /\ w.va % PAGE = 0 /\ x.va \in Nat /\ x.va % PAGE = 0 /\ w.va < x.va
      /\ PAGE \in Nat /\ w.va <= x.va
  <2>1. w.va \in Nat /\ w.va % PAGE = 0 /\ PAGE \in Nat \ {0}
    BY ElfAssumption DEF AtPage
  <2> QED
    BY <2>1, AlignedNext
<1>3. ASSUME NEW va \in Nat, va % PAGE = 0 PROVE va < x.va <=> va < w.va \/ va = w.va
  <2>1. va < x.va /\ ~(va < w.va) => va = w.va
    <3>1. SUFFICES ASSUME va < w.va + PAGE, w.va <= va PROVE va = w.va
      BY <1>2
    <3> QED
      BY <1>2, <1>3, <3>1, NextAligned
  <2> QED
    BY <1>2, <2>1
<1>4. ASSUME NEW k \in SegsOf(w), NEW va \in pagesOf(w.plan.segments[k])
      PROVE  va \in Nat /\ va % PAGE = 0
  <2>1. PICK lo, hi : lo = w.plan.segments[k].map_start /\ hi = w.plan.segments[k].map_end
    OBVIOUS
  <2>2. lo \in Nat /\ hi \in Nat
    BY <2>1 DEF PlanIn
  <2>3. va \in lo..(hi - 1) /\ va % PAGE = 0
    BY <2>1 DEF pagesOf
  <2> QED
    BY <2>2, <2>3
<1>5. w.kind = "image" => w.seg \in SegsOf(w) /\ w.va \in pagesOf(w.plan.segments[w.seg])
  <2> SUFFICES ASSUME w.kind = "image"
               PROVE  w.seg \in SegsOf(w) /\ w.va \in pagesOf(w.plan.segments[w.seg])
    OBVIOUS
  <2>1. PICK lo, hi : lo = w.plan.segments[w.seg].map_start /\ hi = w.plan.segments[w.seg].map_end
    OBVIOUS
  <2>2. w.seg \in SegsOf(w) /\ lo <= w.va
    BY <2>1 DEF AtPage
  <2>3. lo \in Nat /\ hi \in Nat /\ w.va < hi
    BY <2>1, <2>2 DEF PlanIn, InPage
  <2>4. w.va \in lo..(hi - 1)
    BY <1>2, <2>2, <2>3
  <2> QED
    BY <1>2, <2>1, <2>2, <2>4 DEF pagesOf
<1>6. w.kind = "stack" => w.va \in StackPages
  <2>1. w.kind = "stack" => STACK_LO <= w.va /\ w.va < STACK_TOP
    BY DEF AtPage, InPage
  <2>2. STACK_LO \in Nat /\ STACK_TOP \in Nat
    BY VmAssumption
  <2> QED
    BY <1>2, <2>1, <2>2 DEF StackPages
<1>7. Len(w.plan.segments) \in Nat /\ w.seg \in Nat
  BY DEF PlanIn, Cursor
<1>8. ASSUME NEW k \in SegsOf(w)
      PROVE  DoneSeg(x, x.va, k) =
               DoneSeg(w, w.va, k) \cup (IF w.kind = "image" /\ k = w.seg THEN {w.va} ELSE {})
  <2>1. CASE k = w.seg
    <3>1. w.kind = "image"
      <4>1. k \in 1..Len(w.plan.segments)
        BY DEF SegsOf
      <4>2. w.kind = "stack" => w.seg = Len(w.plan.segments) + 1
        BY DEF Cursor
      <4>3. w.kind # "stack"
        BY <1>7, <2>1, <4>1, <4>2
      <4> QED
        BY <4>3 DEF Cursor
    <3>2. ~(k < w.seg)
      BY <1>7, <2>1
    <3>3. \A va \in pagesOf(w.plan.segments[k]) : va < x.va <=> va < w.va \/ va = w.va
      BY <1>3, <1>4
    <3> QED
      BY <1>1, <1>5, <2>1, <3>1, <3>2, <3>3 DEF DoneSeg
  <2>2. CASE k # w.seg
    BY <1>1, <2>2 DEF DoneSeg
  <2> QED
    BY <2>1, <2>2
<1>9. DoneStack(x, x.va) = DoneStack(w, w.va) \cup (IF w.kind = "stack" THEN {w.va} ELSE {})
  <2>1. \A va \in StackPages : va \in Nat /\ va % PAGE = 0
    BY VmAssumption DEF StackPages
  <2>2. \A va \in StackPages : va < x.va <=> va < w.va \/ va = w.va
    BY <1>3, <2>1
  <2> QED
    BY <1>1, <1>6, <2>2 DEF DoneStack
<1>10. w.va \in Done(x, x.va)
  <2>1. CASE w.kind = "image"
    <3>1. w.va \in DoneSeg(x, x.va, w.seg)
      BY <1>5, <1>8, <2>1
    <3> QED
      BY <1>1, <1>5, <2>1, <3>1 DEF Done
  <2>2. CASE w.kind = "stack"
    BY <1>9, <2>2 DEF Done
  <2> QED
    BY <2>1, <2>2 DEF Cursor
<1>11. AtPage(x)
  <2>1. w.kind = "image" => /\ w.seg \in SegsOf(w) /\ w.plan.segments[w.seg].map_start <= w.va
                            /\ ~({"W", "X"} \subseteq w.plan.segments[w.seg].flags)
    BY DEF AtPage
  <2>2. w.kind = "image" => w.plan.segments[w.seg].map_start <= x.va
    <3>1. w.kind = "image" => w.plan.segments[w.seg].map_start \in Nat
      BY <2>1 DEF PlanIn
    <3> QED
      BY <1>2, <2>1, <3>1
  <2>3. w.kind = "stack" => STACK_LO <= x.va
    BY <1>2, VmAssumption DEF AtPage
  <2> QED
    BY <1>1, <1>2, <2>1, <2>2, <2>3 DEF AtPage
<1> QED
  BY <1>5, <1>8, <1>9, <1>10, <1>11

\* The word of a page: present, and what the plan or the stack asks for.
LEMMA WordIs == \A flags : "P" \in leafFlags(flags)
  BY DEF leafFlags

LEMMA TablesLinkLeaf ==
  ASSUME TablesInv, VmInv, LinkLeaf
  PROVE  TablesInv'
<1>1. PICK i, j, a : /\ i = pdIndex(work.va) /\ j = ptIndex(work.va)
                     /\ a = [to |-> work.frame, flags |-> leafFlags(pageFlags)]
  OBVIOUS
<1>2. /\ pc = "linkLeaf" /\ pc' = "page" /\ UNCHANGED journal /\ space' = space
      /\ work' = [work EXCEPT !.va = @ + PAGE]
      /\ mem' = [mem EXCEPT ![work.pt][j] = a]
  BY <1>1 DEF LinkLeaf, Store
<1>3. /\ PlanIn(work) /\ Sums(space, count) /\ mem = [f \in Frames |-> mem[f]]
      /\ WorkShape(work) /\ Held \subseteq Frames
      /\ Tree(mem, work, space, Held, work.va) /\ Counted(mem, work, space, 1)
      /\ Cursor(work) /\ AtPage(work) /\ InPage(work)
      /\ mem[work.pd][i] = Link(work.pt) /\ Page(mem, work, work.va) = NoWord
      /\ work.frame \in Held /\ Loose(mem, work, work.frame)
      /\ mem[work.frame] = IF work.kind = "image"
                             THEN SegData(work.plan.segments[work.seg], work.va) ELSE ZeroFrame
  BY <1>1, <1>2, LaterDoes DEF Later, Inside, InHand, Directed
<1>4. Held' = Held /\ count' = count
  BY <1>2, HeldStays
<1>5. i \in Idx /\ j \in Idx /\ work.va \in Nat
  BY <1>1, <1>3, IndexDoes DEF AtPage
<1>6. At(mem, work, i, j) = NoWord
  BY <1>1, <1>3 DEF Page
<1>7. work.pt \in Held /\ mem[work.pt] = [l \in Idx |-> mem[work.pt][l]]
  <2>1. Link(work.pt) # NoWord /\ Link(work.pt).to = work.pt
    BY LinkIsWord
  <2>2. mem[work.pd][i] # NoWord /\ mem[work.pd][i].to = work.pt
    BY <1>3, <2>1
  <2>3. Directory(mem, work, Held)
    BY <1>3 DEF Tree
  <2>4. LET p == mem[work.pd][i].to IN p \in Held /\ mem[p] = [l \in Idx |-> mem[p][l]]
    BY <1>5, <2>2, <2>3 DEF Directory
  <2> QED
    BY <2>2, <2>4
<1>8. PICK c : c = mem[work.pt]
  OBVIOUS
<1>9. /\ mem' = [f \in Frames |-> mem'[f]]
      /\ \A f \in Frames : f # work.pt => mem'[f] = mem[f]
      /\ mem'[work.pt] = [l \in Idx |-> IF l = j THEN a ELSE c[l]]
  <2>1. work.pt \in Frames /\ mem[work.pt] = [l \in Idx |-> c[l]]
    BY <1>3, <1>7, <1>8
  <2> QED
    BY <1>2, <1>3, <1>5, <2>1, WordWritten
<1>10. a.to = work.frame /\ "P" \in a.flags /\ a.flags = leafFlags(pageFlags) /\ a # NoWord
  <2>1. a.to = work.frame /\ a.flags = leafFlags(pageFlags)
    BY <1>1
  <2>2. "P" \in a.flags
    BY <2>1, WordIs
  <2> QED
    BY <2>1, <2>2 DEF NoWord
<1>11. Filling(mem, mem', work, Held, i, j, work.pt, work.frame, a)
  BY <1>3, <1>5, <1>6, <1>8, <1>9, <1>10 DEF Filling
<1>12. /\ Heads(mem', work, space, Held) /\ Directory(mem', work, Held) /\ Leaves(mem', work, Held)
       /\ mem'[work.frame] = mem[work.frame]
       /\ \A k, l \in Idx : At(mem', work, k, l) = IF k = i /\ l = j THEN a ELSE At(mem, work, k, l)
       /\ \A va, flags, data : Maps(mem, work, va, flags, data) => Maps(mem', work, va, flags, data)
       /\ Filled(mem', work) = Filled(mem, work) \cup {<<i, j>>} /\ <<i, j>> \notin Filled(mem, work)
  BY <1>3, <1>11, LeafLinked
<1>13. /\ Alike(work, work') /\ work'.va = work.va + PAGE /\ WorkShape(work')
  BY <1>2, <1>3 DEF WorkShape, Alike
<1>14. /\ AtPage(work') /\ work.va \in Done(work', work'.va)
       /\ work.kind = "image" => work.seg \in SegsOf(work)
       /\ \A k \in SegsOf(work) : DoneSeg(work', work'.va, k) =
            DoneSeg(work, work.va, k)
              \cup (IF work.kind = "image" /\ k = work.seg THEN {work.va} ELSE {})
       /\ DoneStack(work', work'.va) =
            DoneStack(work, work.va) \cup (IF work.kind = "stack" THEN {work.va} ELSE {})
  BY <1>3, <1>13, DoneNext
<1>15. Content(mem, work, work.va)
  BY <1>3 DEF Tree
<1>16. Page(mem', work, work.va) = a
  BY <1>1, <1>5, <1>12 DEF Page
<1>17. /\ work'.plan = work.plan /\ SegsOf(work') = SegsOf(work)
       /\ \A k, l : At(mem', work', k, l) = At(mem', work, k, l)
       /\ \A va : Page(mem', work', va) = Page(mem', work, va)
  BY <1>13, AlikeSame DEF Alike, SegsOf
<1>18. \A va, flags, data : Maps(mem', work, va, flags, data) => Maps(mem', work', va, flags, data)
  BY <1>17 DEF Maps
<1>19. ASSUME NEW k \in SegsOf(work), NEW va \in DoneSeg(work', work'.va, k)
       PROVE  LET seg == work.plan.segments[k] IN
              Maps(mem', work', va, seg.flags, SegData(seg, va)) /\ ~({"W", "X"} \subseteq seg.flags)
  <2>1. PICK seg : seg = work.plan.segments[k]
    OBVIOUS
  <2>2. CASE va \in DoneSeg(work, work.va, k)
    <3>1. Maps(mem, work, va, seg.flags, SegData(seg, va)) /\ ~({"W", "X"} \subseteq seg.flags)
      BY <1>15, <2>1, <2>2 DEF Content
    <3> QED
      BY <1>12, <1>18, <2>1, <3>1
  <2>3. CASE work.kind = "image" /\ k = work.seg /\ va = work.va
    <3>1. pageFlags = seg.flags /\ mem[work.frame] = SegData(seg, va)
      BY <1>3, <2>1, <2>3 DEF pageFlags, Segment
    <3>2. ~({"W", "X"} \subseteq seg.flags)
      BY <1>3, <2>1, <2>3 DEF AtPage
    <3>3. Maps(mem', work, va, seg.flags, SegData(seg, va))
      BY <1>5, <1>10, <1>12, <1>16, <2>3, <3>1 DEF Maps
    <3> QED
      BY <1>18, <2>1, <3>2, <3>3
  <2> QED
    BY <1>14, <2>2, <2>3
<1>20. ASSUME NEW va \in DoneStack(work', work'.va)
       PROVE  Maps(mem', work', va, {"R", "W"}, ZeroFrame)
  <2>1. CASE va \in DoneStack(work, work.va)
    <3>1. Maps(mem, work, va, {"R", "W"}, ZeroFrame)
      BY <1>15, <2>1 DEF Content
    <3> QED
      BY <1>12, <1>18, <3>1
  <2>2. CASE work.kind = "stack" /\ va = work.va
    <3>1. pageFlags = {"R", "W"} /\ mem[work.frame] = ZeroFrame
      BY <1>3, <2>2 DEF pageFlags
    <3>2. Maps(mem', work, va, {"R", "W"}, ZeroFrame)
      BY <1>5, <1>10, <1>12, <1>16, <2>2, <3>1 DEF Maps
    <3> QED
      BY <1>18, <3>2
  <2> QED
    BY <1>14, <2>1, <2>2
<1>21. Done(work, work.va) \subseteq Done(work', work'.va)
  <2>1. \A k \in SegsOf(work) : DoneSeg(work, work.va, k) \subseteq DoneSeg(work', work'.va, k)
    BY <1>14
  <2>2. DoneStack(work, work.va) \subseteq DoneStack(work', work'.va)
    BY <1>14
  <2> QED
    BY <1>17, <2>1, <2>2 DEF Done
<1>22. ASSUME NEW k \in Idx, NEW l \in Idx, At(mem', work', k, l) # NoWord
       PROVE  \E va \in Done(work', work'.va) : pdIndex(va) = k /\ ptIndex(va) = l
  <2>1. CASE k = i /\ l = j
    BY <1>1, <1>14, <2>1
  <2>2. CASE ~(k = i /\ l = j)
    <3>1. At(mem, work, k, l) # NoWord
      BY <1>12, <1>17, <1>22, <2>2
    <3>2. PICK va \in Done(work, work.va) : pdIndex(va) = k /\ ptIndex(va) = l
      BY <1>15, <3>1 DEF Content
    <3> QED
      BY <1>21, <3>2
  <2> QED
    BY <2>1, <2>2
<1>23. Content(mem', work', work'.va)
  BY <1>17, <1>19, <1>20, <1>22 DEF Content
<1>24. Tree(mem', work', space', Held', work'.va)
  <2>1. Heads(mem', work', space', Held')
    BY <1>2, <1>4, <1>12, <1>13 DEF Heads, Alike
  <2>2. Directory(mem', work', Held')
    BY <1>4, <1>12, <1>13 DEF Directory, Alike
  <2>3. \A f : IsTable(mem', work', f) <=> IsTable(mem', work, f)
    BY <1>13, AlikeSame
  <2>4. Leaves(mem', work', Held')
    BY <1>4, <1>12, <1>13, <1>17, <2>3 DEF Leaves, Alike
  <2> QED
    BY <1>23, <2>1, <2>2, <2>4 DEF Tree
<1>25. Counted(mem', work', space', 0)
  <2>1. PICK n \in Nat : n = Cardinality(Filled(mem, work))
    BY FilledFinite, FS_CardinalityType
  <2>2. Cardinality(Filled(mem', work)) = n + 1
    <3>1. Filled(mem', work) = Filled(mem, work) \cup {<<i, j>>} /\ <<i, j>> \notin Filled(mem, work)
      BY <1>12
    <3> QED
      BY <2>1, <3>1, FilledFinite, FS_AddElement
  <2>3. Filled(mem', work') = Filled(mem', work)
    BY <1>13, AlikeSame
  <2>4. space.image_pages + space.stack_pages = n + 1
    BY <1>3, <2>1 DEF Counted
  <2> QED
    BY <1>2, <2>1, <2>2, <2>3, <2>4 DEF Counted
<1>26. PlanIn(work') /\ Cursor(work')
  <2>1. Cursor(work')
    BY <1>3, <1>13 DEF Cursor, Alike
  <2> QED
    BY <1>3, <1>17, <2>1, PlanStays
<1>27. InHand("page", mem', work', Held')
  BY DEF InHand, Directed
<1>28. Sums(space', count')
  BY <1>2, <1>3, <1>4
<1> QED
  BY <1>2, <1>9, <1>13, <1>14, <1>24, <1>25, <1>26, <1>27, <1>28, LaterGoesOn
     DEF Later, Inside, Directed

LEMMA TablesDone ==
  ASSUME TablesInv, VmInv, PagesDone
  PROVE  TablesInv'
<1>1. pc = "page" /\ work.va >= pageEnd /\ UNCHANGED journal /\ mem' = mem
  BY DEF PagesDone
<1>2. /\ PlanIn(work) /\ Sums(space, count) /\ mem = [f \in Frames |-> mem[f]]
      /\ WorkShape(work) /\ SpaceShape(space) /\ Tree(mem, work, space, Held, work.va)
      /\ Counted(mem, work, space, 0) /\ Cursor(work) /\ AtPage(work)
  BY <1>1, LaterDoes DEF Later
<1>3. Held' = Held /\ count' = count
  BY <1>1, HeldStays
<1>4. CASE work.kind = "image"
  <2>1. pc' = "segment" /\ work' = [work EXCEPT !.seg = @ + 1] /\ space' = space
    BY <1>4 DEF PagesDone
  <2>2. /\ WorkShape(work') /\ work'.plan = work.plan /\ work'.seg = work.seg + 1
        /\ work'.pml4 = work.pml4 /\ work'.pdpt = work.pdpt /\ work'.pd = work.pd
        /\ work'.borrowed = work.borrowed /\ work'.kind = "image"
    BY <1>2, <1>4, <2>1 DEF WorkShape
  <2>3. work.seg \in SegsOf(work) /\ Len(work.plan.segments) \in Nat
    BY <1>2, <1>4 DEF AtPage, PlanIn
  <2>4. ASSUME NEW k \in SegsOf(work) PROVE DoneSeg(work', 0, k) = DoneSeg(work, work.va, k)
    <3>1. PICK lo, hi : lo = work.plan.segments[k].map_start /\ hi = work.plan.segments[k].map_end
      OBVIOUS
    <3>2. lo \in Nat /\ hi \in Nat /\ k \in Nat /\ work.seg \in Nat
      BY <1>2, <2>3, <3>1 DEF PlanIn, SegsOf
    <3>3. \A va \in pagesOf(work.plan.segments[k]) : va \in lo..(hi - 1)
      BY <3>1 DEF pagesOf
    <3>4. \A va \in pagesOf(work.plan.segments[k]) : va \in Nat /\ ~(va < 0)
      BY <3>2, <3>3
    <3>5. k = work.seg => \A va \in pagesOf(work.plan.segments[k]) : va < work.va
      <4>1. k = work.seg => work.va >= hi
        BY <1>1, <1>4, <3>1 DEF pageEnd, Segment
      <4>2. work.va \in Nat
        BY <1>2 DEF AtPage
      <4> QED
        BY <3>2, <3>3, <4>1, <4>2
    <3>6. k < work.seg + 1 <=> k < work.seg \/ k = work.seg
      BY <3>2
    <3> QED
      BY <2>2, <3>4, <3>5, <3>6 DEF DoneSeg
  <2>5. DoneStack(work', 0) = DoneStack(work, work.va)
    BY <1>4, <2>2 DEF DoneStack
  <2>6. Tree(mem', work', space', Held', 0) /\ Filled(mem', work') = Filled(mem, work)
    <3>1. Moved(work, work.va, work', 0)
      BY <2>2, <2>4, <2>5 DEF Moved
    <3> QED
      BY <1>1, <1>2, <1>3, <2>1, <3>1, TreeMoves
  <2>7. Counted(mem', work', space', 0)
    BY <1>2, <2>1, <2>6 DEF Counted
  <2>8. Cursor(work')
    BY <2>2, <2>3 DEF Cursor, SegsOf
  <2>9. InHand("segment", mem', work', Held')
    BY DEF InHand, Directed
  <2>10. PlanIn(work')
    BY <1>2, <2>2, PlanStays
  <2>11. mem' = [f \in Frames |-> mem'[f]] /\ Sums(space', count')
    BY <1>1, <1>2, <1>3, <2>1
  <2> QED
    BY <2>1, <2>2, <2>6, <2>7, <2>8, <2>9, <2>10, <2>11, LaterGoesOn DEF Later, Inside, Directed
<1>5. CASE work.kind # "image"
  <2>1. /\ pc' = "idle" /\ work' = work
        /\ space' = [space EXCEPT !.entry = work.plan.entry, !.stack_top = STACK_TOP,
                                  !.state = "ready"]
    BY <1>5 DEF PagesDone
  <2>2. /\ space'.state = "ready" /\ space'.root_phys = space.root_phys
        /\ space'.table_pages = space.table_pages /\ space'.image_pages = space.image_pages
        /\ space'.stack_pages = space.stack_pages /\ space'.owns_zero = space.owns_zero
    BY <1>2, <2>1 DEF SpaceShape
  <2>3. Sums(space', count')
    BY <1>2, <1>3, <2>2 DEF Sums
  <2>4. Tree(mem', work', space', Held', work'.va)
    BY <1>1, <1>2, <1>3, <2>1, <2>2 DEF Tree, Heads
  <2>5. Counted(mem', work', space', 0)
    BY <1>1, <1>2, <2>1, <2>2 DEF Counted
  <2>6. InHand("page", mem', work', Held')
    BY DEF InHand, Directed
  <2>7. InPages("page", mem', work', space', Held')
    BY <1>2, <2>1, <2>4, <2>5, <2>6 DEF InPages, Inside, Directed
  <2>8. Built("page", mem', work', space', count', Held')
    BY <1>2, <2>1, <2>3, <2>7 DEF Built, Early
  <2>9. work'.kind = "stack" /\ work'.va >= STACK_TOP
    BY <1>1, <1>2, <1>5, <2>1 DEF Cursor, pageEnd
  <2>10. mem' = [f \in Frames |-> mem'[f]] /\ WorkShape(work')
    BY <1>1, <1>2, <2>1
  <2>11. pc' \notin Building /\ space'.state # "empty"
    BY <2>1, <2>2 DEF Building
  <2> QED
    BY <2>8, <2>9, <2>10, <2>11 DEF TablesInv
<1> QED
  BY <1>4, <1>5

-----------------------------------------------------------------------------
(* The failing steps, the release and the calls. *)

LEMMA TablesFail ==
  ASSUME TablesInv, VmInv,
         \/ TakeRefused \/ AccessFault
         \/ \E phys \in Offers(live) : TakeUnusable(phys) \/ TakeUnreadable(phys)
  PROVE  TablesInv'
<1>1. \E error, n : Unwind(error, n)
  BY DEF TakeRefused, AccessFault, TakeUnusable, TakeUnreadable
<1>2. mem' = mem /\ work' = work
  BY DEF TakeRefused, AccessFault, TakeUnusable, TakeUnreadable
<1>3. mem' = [f \in Frames |-> mem'[f]] /\ WorkShape(work')
  BY <1>2 DEF TablesInv
<1> QED
  BY <1>1, <1>3, TablesUnwind

LEMMA TablesTake ==
  ASSUME TablesInv, VmInv, Take
  PROVE  TablesInv'
  BY TablesFail, EarlyTakes, TablesTakePt, TablesTakeLeaf DEF Take

LEMMA TablesMap ==
  ASSUME TablesInv, VmInv, Map
  PROVE  TablesInv'
  BY TablesFail, EarlyLinks, DirectoryLinked, TablesNext, TablesEnsure, TablesLinkPt, TablesSlot,
     TablesCopy, TablesLinkLeaf, TablesDone DEF Map

LEMMA TablesRelease ==
  ASSUME TablesInv, VmInv, Release
  PROVE  TablesInv'
<1>1. mem = [f \in Frames |-> mem[f]] /\ WorkShape(work)
  BY DEF TablesInv
<1>2. WorkShape(NoWork)
  BY DEF NoWork, WorkShape
<1>3. ASSUME NEW phys, Scrubbed(phys) PROVE mem' = [f \in Frames |-> mem'[f]]
  BY <1>1, <1>3 DEF Scrubbed
<1>4. CASE ReleaseFrame \/ ReleaseRefused
  <2>1. /\ pc' = "release" /\ work' = work /\ \E phys : Scrubbed(phys)
    BY <1>4 DEF ReleaseFrame, ReleaseRefused
  <2> QED
    BY <1>1, <1>3, <2>1 DEF TablesInv, Building
<1>5. CASE StartCompaction \/ Compact \/ CompactDone
  <2>1. pc' \in {"compact", "zero"} /\ work' = work /\ mem' = mem
    BY <1>5 DEF StartCompaction, Compact, CompactDone
  <2> QED
    BY <1>1, <2>1 DEF TablesInv, Building
<1>6. ASSUME NEW fail, NEW oz, Finish(fail, oz) PROVE TablesInv'
  <2>1. /\ pc' = "idle" /\ work' = NoWork /\ mem' = mem
        /\ \/ space' = [space EXCEPT !.state = "destroyed", !.failed_release_frame = fail[1],
                                     !.owns_zero = oz]
           \/ space' = [EmptySpace EXCEPT !.state = "empty"]
           \/ space' = [EmptySpace EXCEPT !.state = "destroyed"]
    BY <1>6 DEF Finish
  <2>2. SpaceShape(space)
    BY DEF VmInv
  <2>3. space'.state = "destroyed" \/ space' = EmptySpace
    <3>1. [EmptySpace EXCEPT !.state = "empty"] = EmptySpace
      BY DEF EmptySpace
    <3>2. [EmptySpace EXCEPT !.state = "destroyed"].state = "destroyed"
      BY DEF EmptySpace
    <3> QED
      BY <2>1, <2>2, <3>1, <3>2 DEF SpaceShape
  <2>4. EmptySpace.state = "empty"
    BY DEF EmptySpace
  <2> QED
    BY <1>1, <1>2, <2>1, <2>3, <2>4 DEF TablesInv, Building
<1>7. CASE ReleaseZero \/ ZeroRefused
  BY <1>6, <1>7 DEF ReleaseZero, ZeroRefused
<1> QED
  BY <1>4, <1>5, <1>7 DEF Release

\* Every segment of an accepted image lies in the user window.
LEMMA PlansAreIn ==
  ASSUME NEW im \in ElfImage, plan(im).ok, NEW w, w.plan = plan(im)
  PROVE  PlanIn(w)
<1>1. PICK segs : segs = segments(im)
  OBVIOUS
<1>2. /\ plan(im).segments = segs
      /\ \A k \in 1..Len(im.phdrs) : isLoad(im.phdrs[k]) => loadAccepted(im, im.phdrs[k])
  <2>1. PICK good \in BOOLEAN :
          good <=> /\ im.header
                   /\ \A k \in 1..Len(im.phdrs) :
                        IF isLoad(im.phdrs[k]) THEN loadAccepted(im, im.phdrs[k])
                                               ELSE otherAccepted(im, im.phdrs[k])
                   /\ Cardinality({k \in 1..Len(im.phdrs) : im.phdrs[k].type = "GNU_STACK"}) <= 1
                   /\ Len(segs) \in 1..MAX_LOADS
                   /\ ~pageOverlap(segs)
                   /\ ~imageBudgetExceeded(segs)
                   /\ executableFileEntry(im.entry, segs)
    OBVIOUS
  <2>2. plan(im) = IF good THEN [ok |-> TRUE, entry |-> im.entry, segments |-> segs] ELSE Rejected
    BY <1>1, <2>1 DEF plan
  <2>3. good
    BY <2>2 DEF Rejected
  <2> QED
    BY <2>1, <2>2, <2>3
<1>3. /\ segs \in Seq(PlanSegment)
      /\ \A i \in 1..Len(segs) : \E k \in 1..Len(im.phdrs) :
           isLoad(im.phdrs[k]) /\ segs[i] = segment(im.phdrs[k])
  BY <1>1, SegmentsDo
<1>4. ASSUME NEW i \in 1..Len(segs)
      PROVE  /\ segs[i].map_start \in Nat /\ segs[i].map_end \in Nat
             /\ segs[i].map_start % PAGE = 0
             /\ IMAGE_LO <= segs[i].map_start /\ segs[i].map_end <= IMAGE_HI
  <2>1. PICK k \in 1..Len(im.phdrs) : isLoad(im.phdrs[k]) /\ segs[i] = segment(im.phdrs[k])
    BY <1>3
  <2>2. PICK ph : ph = im.phdrs[k]
    OBVIOUS
  <2>3. ph \in Phdr
    <3>1. im.phdrs \in Seq(Phdr)
      BY DEF ElfImage
    <3> QED
      BY <2>2, <3>1
  <2>4. pageFloor(ph.vaddr) >= IMAGE_LO /\ alignUpPage(ph.vaddr + ph.memsz) <= IMAGE_HI
    BY <1>2, <2>1, <2>2 DEF loadAccepted
  <2>5. segs[i] \in PlanSegment /\ segs[i].map_start % PAGE = 0
        /\ segs[i].map_end = alignUpPage(ph.vaddr + ph.memsz)
    BY <1>3, <2>1, <2>2, <2>3, SegmentDoes
  <2>6. segs[i].map_start = pageFloor(ph.vaddr)
    BY <2>1, <2>2 DEF segment
  <2>7. segs[i].map_start \in Nat /\ segs[i].map_end \in Nat /\ IMAGE_LO \in Nat
    BY <2>5, ElfAssumption DEF PlanSegment
  <2> QED
    BY <2>4, <2>5, <2>6, <2>7
<1>5. Len(segs) \in Nat
  BY <1>3
<1>6. w.plan.segments = segs
  BY <1>2
<1> QED
  BY <1>4, <1>5, <1>6 DEF PlanIn, SegsOf

LEMMA TablesStart ==
  ASSUME TablesInv, VmInv, pc = "idle", NEW img \in Images, plan(img).ok, NEW tp,
         constructPlan(img, plan(img), tp)
  PROVE  TablesInv'
<1>1. mem = [f \in Frames |-> mem[f]] /\ WorkShape(work)
  BY DEF TablesInv
<1>2. CASE \E error : Return(error)
  BY <1>2 DEF Return, TablesInv, journal, Held
<1>3. CASE ~\E error : Return(error)
  <2>1. space.state = "empty" /\ count = 0 /\ ~space.owns_zero
    BY <1>3 DEF constructPlan
  <2>2. /\ pc' = "pml4" /\ space' = [space EXCEPT !.state = "building"]
        /\ work' = [NoWork EXCEPT !.plan = plan(img), !.len = img.len, !.seg = 1,
                                  !.root = tp.root_phys, !.borrowed = tp.addr]
        /\ UNCHANGED journal /\ mem' = mem
    BY <1>3 DEF constructPlan
  <2>3. space = EmptySpace
    BY <2>1 DEF TablesInv
  <2>4. /\ space'.image_pages = 0 /\ space'.stack_pages = 0 /\ space'.table_pages = 0
        /\ space'.owns_zero = FALSE
    BY <2>2, <2>3 DEF EmptySpace
  <2>5. WorkShape(work') /\ work'.plan = plan(img) /\ work'.seg = 1 /\ work'.kind = "image"
    BY <2>2 DEF NoWork, WorkShape
  <2>6. PlanIn(work')
    <3>1. img \in ElfImage
      BY ElfAssumption
    <3> QED
      BY <2>5, <3>1, PlansAreIn
  <2>7. Sums(space', count')
    BY <2>1, <2>2, <2>4, HeldStays DEF Sums
  <2>8. InEarly("pml4", mem', work', space', Held')
    BY <2>4, <2>5 DEF InEarly, Rooted
  <2>9. Built(pc', mem', work', space', count', Held') /\ pc' \in Building
    BY <2>2, <2>6, <2>7, <2>8 DEF Built, Early, Building
  <2> QED
    BY <1>1, <2>2, <2>5, <2>9, BuildingGoesOn
<1> QED
  BY <1>2, <1>3

LEMMA TablesCall ==
  ASSUME TablesInv, VmInv, Call
  PROVE  TablesInv'
<1>1. pc = "idle"
  BY DEF Call, construct, constructClaimedPlan, destroy, retryRelease, reset, Activate, Restore
<1>2. ASSUME NEW error, Return(error) PROVE TablesInv'
  BY <1>2 DEF Return, TablesInv, journal, Held
<1>3. ASSUME NEW cause, StartRelease(cause) PROVE TablesInv'
  BY <1>3 DEF StartRelease, TablesInv, Building
<1>4. ASSUME NEW img \in Images, NEW tp, construct(img, tp) PROVE TablesInv'
  BY <1>1, <1>2, <1>4, TablesStart DEF construct
<1>5. ASSUME NEW img \in Images, NEW claimed, NEW tp, constructClaimedPlan(img, claimed, tp)
      PROVE  TablesInv'
  BY <1>1, <1>2, <1>5, TablesStart DEF constructClaimedPlan
<1>6. CASE destroy
  <2>1. (\E error : Return(error)) \/ \E cause : StartRelease(cause)
    <3>1. CASE space.state = "empty" \/ space.state = "destroyed"
      BY <1>6, <3>1 DEF destroy
    <3>2. CASE space.state # "empty" /\ space.state # "destroyed"
      BY <1>6, <3>2 DEF destroy
    <3> QED
      BY <3>1, <3>2
  <2> QED
    BY <1>2, <1>3, <2>1
<1>7. CASE retryRelease
  BY <1>2, <1>3, <1>7 DEF retryRelease
<1>8. CASE reset
  <2>1. CASE \E error : Return(error)
    BY <1>2, <2>1
  <2>2. CASE ~\E error : Return(error)
    <3>1. space' = EmptySpace /\ pc' = pc /\ mem' = mem /\ work' = work
      BY <1>8, <2>2 DEF reset
    <3>2. EmptySpace.state = "empty"
      BY DEF EmptySpace
    <3> QED
      BY <1>1, <3>1, <3>2 DEF TablesInv, Building
  <2> QED
    BY <2>1, <2>2
<1>9. CASE Restore \/ \E bits \in 0..(PAGE - 1) : Activate(bits)
  BY <1>9 DEF Restore, Activate, TablesInv, journal, Held
<1> QED
  BY <1>4, <1>5, <1>6, <1>7, <1>8, <1>9 DEF Call

LEMMA TablesInit ==
  ASSUME Init
  PROVE  TablesInv
<1>1. mem = [f \in Frames |-> mem[f]] /\ work = NoWork /\ pc = "idle" /\ space = EmptySpace
  BY DEF Init
<1>2. WorkShape(NoWork) /\ EmptySpace.state = "empty" /\ pc \notin Building
  BY <1>1 DEF NoWork, WorkShape, EmptySpace, Building
<1> QED
  BY <1>1, <1>2 DEF TablesInv

\* While a space is built and once it is ready, its tables map the pages that are
\* done as the plan says, and nothing else; every frame held has one role.
THEOREM TablesInvariant == Spec => []TablesInv
<1>1. Init => TablesInv
  BY TablesInit
<1>2. TablesInv /\ VmInv /\ [Next]_vars => TablesInv'
  <2>1. SUFFICES ASSUME TablesInv, VmInv, [Next]_vars PROVE TablesInv'
    OBVIOUS
  <2>2. CASE UNCHANGED vars
    BY <2>1, <2>2 DEF vars, journal, TablesInv, Held
  <2>3. QED
    BY <2>1, <2>2, TablesCall, TablesTake, TablesMap, TablesRelease DEF Next, Running
<1>3. QED
  BY <1>1, <1>2, VmInvariant, PTL DEF Spec

-----------------------------------------------------------------------------
(* A ready space. *)

\* The image of a finite set under a function that tells its members apart.
LEMMA SameSize ==
  ASSUME NEW S, IsFiniteSet(S), NEW g, \A x, y \in S : g[x] = g[y] => x = y
  PROVE  LET T == {g[x] : x \in S} IN IsFiniteSet(T) /\ Cardinality(T) = Cardinality(S)
<1> DEFINE T == {g[x] : x \in S}
           f == [x \in S |-> g[x]]
<1>1. f \in [S -> T] /\ (\A t \in T : \E x \in S : f[x] = t) /\ \A x, y \in S : f[x] = f[y] => x = y
  OBVIOUS
<1>2. ExistsBijection(S, T)
  <2> HIDE DEF f, T
  <2>1. f \in Bijection(S, T)
    BY <1>1, Fun_IsBij
  <2> QED
    BY <2>1 DEF ExistsBijection
<1> QED
  BY <1>2, FS_Bijection

Ready(m, w, s, K, lim) ==
  /\ Tree(m, w, s, K, lim) /\ PlanIn(w) /\ Cursor(w) /\ w.kind = "stack"
  /\ lim >= STACK_TOP /\ lim \in Nat

\* Everything is done.
LEMMA AllDone ==
  ASSUME NEW m, NEW w, NEW s, NEW K, NEW lim, Ready(m, w, s, K, lim)
  PROVE  /\ \A k \in SegsOf(w) : DoneSeg(w, lim, k) = pagesOf(w.plan.segments[k])
         /\ DoneStack(w, lim) = StackPages
         /\ Done(w, lim) = StackPages \cup UNION {pagesOf(w.plan.segments[k]) : k \in SegsOf(w)}
         /\ Done(w, lim) \subseteq UserWindow
<1>1. Len(w.plan.segments) \in Nat /\ w.seg = Len(w.plan.segments) + 1
  BY DEF Ready, PlanIn, Cursor
<1>2. \A k \in SegsOf(w) : DoneSeg(w, lim, k) = pagesOf(w.plan.segments[k])
  <2>1. \A k \in SegsOf(w) : k < w.seg
    BY <1>1 DEF SegsOf
  <2> QED
    BY <2>1 DEF DoneSeg
<1>3. DoneStack(w, lim) = StackPages
  <2>1. \A va \in StackPages : va < lim
    BY VmAssumption DEF StackPages, Ready
  <2> QED
    BY <2>1 DEF DoneStack, Ready
<1>4. {DoneSeg(w, lim, k) : k \in SegsOf(w)} = {pagesOf(w.plan.segments[k]) : k \in SegsOf(w)}
  BY <1>2
<1>5. PICK b, t : b = PAGE * N * N /\ t = 2 * (PAGE * N * N)
  OBVIOUS
<1>6. b \in Nat /\ t \in Nat /\ t = 2 * b /\ 2 * PAGE * N * N = t
  <2>1. PAGE \in Nat /\ N \in Nat
    BY ElfAssumption, VmAssumption
  <2>2. PAGE * N \in Nat
    BY <2>1
  <2>3. PAGE * N * N \in Nat
    BY <2>1, <2>2
  <2>4. 2 * PAGE * N * N = 2 * (PAGE * N * N)
    BY <2>1
  <2> QED
    BY <1>5, <2>3, <2>4
<1>7. UserWindow = {va \in b..(t - 1) : va % PAGE = 0}
  BY <1>5, <1>6 DEF UserWindow
<1>8. StackPages \subseteq UserWindow
  <2>1. STACK_LO \in Nat /\ STACK_TOP \in Nat /\ b <= STACK_LO /\ STACK_TOP <= t
    BY <1>5, VmAssumption
  <2>2. STACK_LO..(STACK_TOP - 1) \subseteq b..(t - 1)
    BY <1>6, <2>1
  <2> QED
    BY <1>7, <2>2 DEF StackPages
<1>9. \A k \in SegsOf(w) : pagesOf(w.plan.segments[k]) \subseteq UserWindow
  <2> SUFFICES ASSUME NEW k \in SegsOf(w) PROVE pagesOf(w.plan.segments[k]) \subseteq UserWindow
    OBVIOUS
  <2>1. PICK lo, hi : lo = w.plan.segments[k].map_start /\ hi = w.plan.segments[k].map_end
    OBVIOUS
  <2>2. lo \in Nat /\ hi \in Nat /\ IMAGE_LO <= lo /\ hi <= IMAGE_HI
    BY <2>1 DEF Ready, PlanIn
  <2>3. IMAGE_LO \in Nat /\ IMAGE_HI \in Nat /\ b <= IMAGE_LO /\ IMAGE_HI <= t
    BY <1>5, ElfAssumption, VmAssumption
  <2>4. lo..(hi - 1) \subseteq b..(t - 1)
    BY <1>6, <2>2, <2>3
  <2> QED
    BY <1>7, <2>1, <2>4 DEF pagesOf
<1> QED
  BY <1>2, <1>3, <1>4, <1>8, <1>9 DEF Done

\* The hardware walk ends at the word of the page.
LEMMA WalkIs ==
  ASSUME NEW lim, Tree(mem, work, space, Held, lim), NEW va \in UserWindow
  PROVE  Leaf(va) = Page(mem, work, va)
<1>1. /\ pml4Index(va) = 0 /\ pdptIndex(va) = 1 /\ pdIndex(va) \in Idx /\ ptIndex(va) \in Idx
  BY WindowDoes
<1>2. Heads(mem, work, space, Held) /\ Directory(mem, work, Held)
  BY DEF Tree
<1>3. 0 \in Idx /\ 1 \in Idx /\ 0 # 1
  BY ZeroIsClear
<1>4. \A f : "P" \in Link(f).flags /\ Link(f).to = f
  BY DEF Link, Table
<1>5. mem[space.root_phys][0] = Link(work.pdpt)
  BY <1>2, <1>3 DEF Heads
<1>6. mem[work.pdpt][1] = Link(work.pd)
  BY <1>2, <1>3 DEF Heads
<1>7. Follow(mem[space.root_phys][0], 1) = Link(work.pd)
  BY <1>4, <1>5, <1>6 DEF Follow
<1>8. Follow(Link(work.pd), pdIndex(va)) = mem[work.pd][pdIndex(va)]
  BY <1>4 DEF Follow
<1>9. PICK e : e = mem[work.pd][pdIndex(va)]
  OBVIOUS
<1>10. Leaf(va) = Follow(e, ptIndex(va))
  BY <1>1, <1>7, <1>8, <1>9 DEF Leaf
<1>11. CASE e = NoWord
  <2>1. Follow(e, ptIndex(va)) = NoWord
    BY <1>11 DEF Follow, NoWord
  <2> QED
    BY <1>9, <1>10, <1>11, <2>1 DEF Page, At
<1>12. CASE e # NoWord
  <2>1. e = Link(e.to)
    BY <1>1, <1>2, <1>9, <1>12 DEF Directory
  <2>2. Follow(e, ptIndex(va)) = mem[e.to][ptIndex(va)]
    BY <1>4, <2>1 DEF Follow
  <2> QED
    BY <1>9, <1>10, <1>12, <2>2 DEF Page, At
<1> QED
  BY <1>11, <1>12

\* Journaled frames are counted once.
LEMMA HeldCount ==
  ASSUME JournalShape(frames, count), NEW oz, Plain(frames, count, live, oz)
  PROVE  IsFiniteSet(Held) /\ Cardinality(Held) = count /\ (~oz => live = Held)
<1>1. Len(frames) \in Nat /\ count \in 0..Len(frames)
  BY StorageLen DEF JournalShape
<1>2. count \in Nat
  BY <1>1
<1>3. IsFiniteSet(1..count) /\ Cardinality(1..count) = count
  <2>1. 1 \in Int /\ count \in Int
    BY <1>2
  <2>2. IsFiniteSet(1..count) /\ Cardinality(1..count) = IF 1 > count THEN 0 ELSE count - 1 + 1
    BY <2>1, FS_Interval
  <2> QED
    BY <1>2, <2>2
<1>4. \A j, k \in 1..count : frames[j] = frames[k] => j = k
  BY DEF Plain, Once, Unmarked
<1>5. Held = {frames[k] : k \in 1..count}
  BY DEF Held, Listed, Plain, Unmarked
<1>6. live = Held \/ oz
  BY DEF Held, Plain, ZeroOut
<1> QED
  <2>1. PICK S, g : S = 1..count /\ g = frames
    OBVIOUS
  <2>2. IsFiniteSet(S) /\ Cardinality(S) = count /\ Held = {g[x] : x \in S}
    BY <1>3, <1>5, <2>1
  <2>3. \A x, y \in S : g[x] = g[y] => x = y
    BY <1>4, <2>1
  <2>4. IsFiniteSet({g[x] : x \in S}) /\ Cardinality({g[x] : x \in S}) = Cardinality(S)
    BY <2>2, <2>3, SameSize
  <2> QED
    BY <1>6, <2>2, <2>4

\* The frames at the pages: one per page, all held.
LEMMA LeavesDo ==
  ASSUME NEW lim, Ready(mem, work, space, Held, lim)
  PROVE  LET mapped == Done(work, lim)
             leaves == {Leaf(va).to : va \in mapped} IN
         /\ IsFiniteSet(leaves) /\ leaves \subseteq Held
         /\ Cardinality(leaves) = Cardinality(mapped)
         /\ Cardinality(leaves) = Cardinality(Filled(mem, work))
<1> DEFINE mapped == Done(work, lim)
           leaves == {Leaf(va).to : va \in mapped}
<1>1. Tree(mem, work, space, Held, lim)
  BY DEF Ready
<1>2. mapped \subseteq UserWindow
  BY AllDone
<1>3. PICK g : g = [va \in mapped |-> <<pdIndex(va), ptIndex(va)>>]
  OBVIOUS
<1>4. PICK h : h = [q \in Filled(mem, work) |-> At(mem, work, q[1], q[2]).to]
  OBVIOUS
<1>5. \A va \in mapped : Page(mem, work, va) # NoWord
  <2> SUFFICES ASSUME NEW va \in mapped PROVE Page(mem, work, va) # NoWord
    OBVIOUS
  <2>1. Content(mem, work, lim)
    BY <1>1 DEF Tree
  <2>2. va \in DoneStack(work, lim) \/ \E k \in SegsOf(work) : va \in DoneSeg(work, lim, k)
    BY DEF Done
  <2> QED
    BY <2>1, <2>2 DEF Content, Maps
<1>6. {g[va] : va \in mapped} = Filled(mem, work)
  <2>1. ASSUME NEW va \in mapped PROVE g[va] \in Filled(mem, work)
    <3>1. pdIndex(va) \in Idx /\ ptIndex(va) \in Idx
      BY <1>2, WindowDoes
    <3>2. At(mem, work, pdIndex(va), ptIndex(va)) # NoWord
      BY <1>5 DEF Page
    <3> QED
      BY <1>3, <3>1, <3>2 DEF Filled
  <2>2. ASSUME NEW q \in Filled(mem, work) PROVE \E va \in mapped : g[va] = q
    <3>1. PICK i \in Idx, j \in Idx : q = <<i, j>>
      BY DEF Filled
    <3>2. At(mem, work, i, j) # NoWord
      BY <3>1 DEF Filled
    <3>3. PICK va \in mapped : pdIndex(va) = i /\ ptIndex(va) = j
      BY <1>1, <3>2 DEF Tree, Content
    <3> QED
      BY <1>3, <3>1, <3>3
  <2> QED
    BY <2>1, <2>2
<1>7. \A va, vb \in mapped : g[va] = g[vb] => va = vb
  <2> SUFFICES ASSUME NEW va \in mapped, NEW vb \in mapped, g[va] = g[vb] PROVE va = vb
    OBVIOUS
  <2>1. pdIndex(va) = pdIndex(vb) /\ ptIndex(va) = ptIndex(vb)
    BY <1>3
  <2>2. /\ va = PAGE * (N * (N + pdIndex(va)) + ptIndex(va))
        /\ vb = PAGE * (N * (N + pdIndex(vb)) + ptIndex(vb))
    BY <1>2, WindowDoes
  <2> QED
    BY <2>1, <2>2
<1>8. \A q, r \in Filled(mem, work) : h[q] = h[r] => q = r
  <2> SUFFICES ASSUME NEW q \in Filled(mem, work), NEW r \in Filled(mem, work), h[q] = h[r]
               PROVE  q = r
    OBVIOUS
  <2>1. PICK i \in Idx, j \in Idx : q = <<i, j>>
    BY DEF Filled
  <2>2. PICK k \in Idx, l \in Idx : r = <<k, l>>
    BY DEF Filled
  <2>3. At(mem, work, i, j) # NoWord /\ At(mem, work, k, l) # NoWord
    BY <2>1, <2>2 DEF Filled
  <2>4. At(mem, work, i, j).to = At(mem, work, k, l).to
    BY <1>4, <2>1, <2>2
  <2>5. k = i /\ l = j
    BY <1>1, <2>3, <2>4 DEF Tree, Leaves
  <2> QED
    BY <2>1, <2>2, <2>5
<1>9. IsFiniteSet(Filled(mem, work))
  BY FilledFinite
<1>10. \A va \in mapped : Leaf(va).to = h[g[va]] /\ Leaf(va).to \in Held
  <2> SUFFICES ASSUME NEW va \in mapped PROVE Leaf(va).to = h[g[va]] /\ Leaf(va).to \in Held
    OBVIOUS
  <2>1. PICK i \in Idx, j \in Idx : i = pdIndex(va) /\ j = ptIndex(va)
    BY <1>2, WindowDoes
  <2>2. Leaf(va) = At(mem, work, i, j) /\ At(mem, work, i, j) # NoWord
    BY <1>1, <1>2, <1>5, <2>1, WalkIs DEF Page
  <2>3. g[va] = <<i, j>> /\ <<i, j>> \in Filled(mem, work)
    BY <1>3, <2>1, <2>2 DEF Filled
  <2>4. h[g[va]] = At(mem, work, i, j).to
    BY <1>4, <2>3
  <2>5. At(mem, work, i, j).to \in Held
    BY <1>1, <2>2 DEF Tree, Leaves
  <2> QED
    BY <2>2, <2>4, <2>5
<1>11. leaves = {h[q] : q \in Filled(mem, work)} /\ leaves \subseteq Held
  BY <1>6, <1>10
<1>12. IsFiniteSet(mapped) /\ Cardinality(mapped) = Cardinality(Filled(mem, work))
  <2>1. PICK b : b = [q \in Filled(mem, work) |-> PAGE * (N * (N + q[1]) + q[2])]
    OBVIOUS
  <2>2. \A va \in mapped : b[g[va]] = va
    <3> SUFFICES ASSUME NEW va \in mapped PROVE b[g[va]] = va
      OBVIOUS
    <3>1. va = PAGE * (N * (N + pdIndex(va)) + ptIndex(va))
      BY <1>2, WindowDoes
    <3>2. g[va] = <<pdIndex(va), ptIndex(va)>> /\ g[va] \in Filled(mem, work)
      BY <1>3, <1>6
    <3>3. g[va][1] = pdIndex(va) /\ g[va][2] = ptIndex(va)
      BY <3>2
    <3> QED
      BY <2>1, <3>1, <3>2, <3>3
  <2>3. mapped = {b[q] : q \in Filled(mem, work)}
    BY <1>6, <2>2
  <2>4. \A q, r \in Filled(mem, work) : b[q] = b[r] => q = r
    BY <1>6, <2>2
  <2> HIDE DEF mapped
  <2> QED
    BY <1>9, <2>3, <2>4, SameSize
<1>13. IsFiniteSet(leaves) /\ Cardinality(leaves) = Cardinality(Filled(mem, work))
  <2> HIDE DEF leaves
  <2> QED
    BY <1>8, <1>9, <1>11, SameSize
<1> QED
  BY <1>11, <1>12, <1>13

\* A ready space maps exactly the plan and the stack: each page with the rights its
\* segment asks for and the bytes of the file or zero, on a frame of its own, and
\* nothing else in the user window.
THEOREM ReadySpaceMapsPlan == Spec => []ReadyMapsPlan
<1>1. VmInv /\ TablesInv => ReadyMapsPlan
  <2> SUFFICES ASSUME VmInv, TablesInv, pc = "idle", space.state = "ready" PROVE ReadyMapsPlan
    BY DEF ReadyMapsPlan
  <2>1. /\ PlanIn(work) /\ Sums(space, count) /\ Tree(mem, work, space, Held, work.va)
        /\ Counted(mem, work, space, 0) /\ Cursor(work) /\ AtPage(work)
        /\ work.kind = "stack" /\ work.va >= STACK_TOP
    BY DEF TablesInv, Built, InPages, Early
  <2>2. Ready(mem, work, space, Held, work.va)
    BY <2>1 DEF Ready, AtPage
  <2>3. /\ \A k \in SegsOf(work) : DoneSeg(work, work.va, k) = pagesOf(work.plan.segments[k])
        /\ DoneStack(work, work.va) = StackPages
        /\ Done(work, work.va) = PlanPages \cup StackPages
        /\ Done(work, work.va) \subseteq UserWindow
    BY <2>2, AllDone DEF PlanPages, SegsOf
  <2>4. \A va \in UserWindow : Leaf(va) = Page(mem, work, va)
    BY <2>1, WalkIs
  <2>5. Content(mem, work, work.va)
    BY <2>1 DEF Tree
  <2>6. ASSUME NEW k \in 1..Len(work.plan.segments), NEW va \in pagesOf(work.plan.segments[k])
        PROVE  LET seg == work.plan.segments[k] IN
               /\ {"P", "U"} \subseteq Leaf(va).flags
               /\ "W" \in Leaf(va).flags <=> "W" \in seg.flags
               /\ "NX" \in Leaf(va).flags <=> "X" \notin seg.flags
               /\ mem[Leaf(va).to] = IF copies(seg, va) THEN DataFrame ELSE ZeroFrame
    <3>1. PICK seg : seg = work.plan.segments[k]
      OBVIOUS
    <3>2. k \in SegsOf(work) /\ va \in DoneSeg(work, work.va, k) /\ va \in UserWindow
      <4>1. k \in SegsOf(work)
        BY DEF SegsOf
      <4>2. va \in DoneSeg(work, work.va, k)
        BY <2>3, <4>1
      <4>3. va \in Done(work, work.va)
        BY <4>1, <4>2 DEF Done
      <4> QED
        BY <2>3, <4>1, <4>2, <4>3
    <3>3. Maps(mem, work, va, seg.flags, SegData(seg, va)) /\ ~({"W", "X"} \subseteq seg.flags)
      BY <2>5, <3>1, <3>2 DEF Content
    <3>4. PICK a : a = Leaf(va)
      OBVIOUS
    <3>5. a.flags = leafFlags(seg.flags) /\ mem[a.to] = SegData(seg, va)
      BY <2>4, <3>2, <3>3, <3>4 DEF Maps
    <3>6. /\ {"P", "U"} \subseteq a.flags /\ ("W" \in a.flags <=> "W" \in seg.flags)
          /\ "NX" \in a.flags <=> "X" \notin seg.flags
      BY <3>3, <3>5 DEF leafFlags
    <3> QED
      BY <3>1, <3>4, <3>5, <3>6 DEF SegData
  <2>7. ASSUME NEW va \in StackPages
        PROVE  Leaf(va).flags = {"P", "U", "W", "NX"} /\ mem[Leaf(va).to] = ZeroFrame
    <3>1. Maps(mem, work, va, {"R", "W"}, ZeroFrame) /\ va \in UserWindow
      BY <2>3, <2>5 DEF Content
    <3>2. leafFlags({"R", "W"}) = {"P", "U", "W", "NX"}
      BY DEF leafFlags
    <3> QED
      BY <2>4, <3>1, <3>2 DEF Maps
  <2>8. ASSUME NEW va \in UserWindow \ (PlanPages \cup StackPages) PROVE Leaf(va) = NoWord
    <3>1. SUFFICES ASSUME Page(mem, work, va) # NoWord PROVE FALSE
      BY <2>4
    <3>2. PICK i \in Idx, j \in Idx : i = pdIndex(va) /\ j = ptIndex(va)
      BY WindowDoes
    <3>3. PICK vb \in Done(work, work.va) : pdIndex(vb) = i /\ ptIndex(vb) = j
      BY <2>5, <3>1, <3>2 DEF Content, Page
    <3>4. /\ va = PAGE * (N * (N + pdIndex(va)) + ptIndex(va))
          /\ vb = PAGE * (N * (N + pdIndex(vb)) + ptIndex(vb))
      BY <2>3, WindowDoes
    <3>5. va = vb
      BY <3>2, <3>3, <3>4
    <3> QED
      BY <2>3, <3>5
  <2>9. LET mapped == PlanPages \cup StackPages
            leaves == {Leaf(va).to : va \in mapped} IN
        /\ Cardinality(leaves) = Cardinality(mapped) /\ leaves \subseteq live
        /\ Cardinality(leaves) = space.image_pages + space.stack_pages
        /\ Cardinality(live \ leaves) = space.table_pages
    <3>1. PICK leaves : leaves = {Leaf(va).to : va \in PlanPages \cup StackPages}
      OBVIOUS
    <3>2. /\ IsFiniteSet(leaves) /\ leaves \subseteq Held
          /\ Cardinality(leaves) = Cardinality(PlanPages \cup StackPages)
          /\ Cardinality(leaves) = Cardinality(Filled(mem, work))
      BY <2>2, <2>3, <3>1, LeavesDo
    <3>3. IsFiniteSet(Held) /\ Cardinality(Held) = count /\ live = Held
      <4>1. JournalShape(frames, count) /\ Plain(frames, count, live, space.owns_zero)
        BY DEF VmInv, Building
      <4>2. ~space.owns_zero
        BY <2>1 DEF Sums
      <4> QED
        BY <4>1, <4>2, HeldCount
    <3>4. Cardinality(Held \ leaves) = Cardinality(Held) - Cardinality(leaves)
      <4>1. Held \cap leaves = leaves
        BY <3>2
      <4> QED
        BY <3>3, <4>1, FS_Difference
    <3>5. PICK n \in Nat : n = Cardinality(leaves)
      BY <3>2, FS_CardinalityType
    <3>6. n = space.image_pages + space.stack_pages
      <4>1. space.image_pages + space.stack_pages = n + 0
        BY <2>1, <3>2, <3>5 DEF Counted
      <4> QED
        BY <4>1
    <3>7. count - n = space.table_pages
      BY <2>1, <3>6 DEF Sums
    <3> QED
      BY <3>1, <3>2, <3>3, <3>4, <3>5, <3>6, <3>7
  <2>10. Follow(mem[space.root_phys][0], 0) = [to |-> work.borrowed, flags |-> {"P", "W"}]
    <3>1. Heads(mem, work, space, Held) /\ 0 \in Idx
      BY <2>1, ZeroIsClear DEF Tree
    <3>2. mem[space.root_phys][0] = Link(work.pdpt)
      BY <3>1 DEF Heads
    <3>3. mem[work.pdpt][0] = [to |-> work.borrowed, flags |-> {"P", "W"}]
      BY <3>1 DEF Heads
    <3>4. "P" \in Link(work.pdpt).flags /\ Link(work.pdpt).to = work.pdpt
      BY DEF Link, Table
    <3> QED
      BY <3>2, <3>3, <3>4 DEF Follow
  <2> QED
    BY <2>6, <2>7, <2>8, <2>9, <2>10 DEF ReadyMapsPlan
<1>2. QED
  BY <1>1, VmInvariant, TablesInvariant, PTL
=============================================================================
