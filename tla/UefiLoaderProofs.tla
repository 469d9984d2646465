-------------------------- MODULE UefiLoaderProofs --------------------------
(***************************************************************************)
(* Proofs about UefiLoader, for every machine, map, placement and bound:   *)
(* what the loader may still ask of the firmware once it has tried to exit *)
(* boot services, which map the kernel is given, and what it is told of    *)
(* every page of the machine.                                              *)
(***************************************************************************)
EXTENDS UefiLoader, FiniteSetTheorems, NaturalsInduction, WellFoundedInduction,
        SequenceTheorems, TLAPS

-----------------------------------------------------------------------------
(* Carving a piece. *)

\* A set of naturals that is not empty has a least element.
LEMMA LeastNat ==
  ASSUME NEW S, S \subseteq Nat, S # {}
  PROVE  \E n \in S : \A m \in S : n <= m
<1>1. PICK n \in S : \A m \in S : ~(<<m, n>> \in OpToRel(<, Nat))
  BY NatLessThanWellFounded, WFMin
<1>2. \A m \in S : ~(m < n)
  BY <1>1 DEF OpToRel
<1> QED
  BY <1>2

\* The addresses of a piece or a span, and its alignment.
In(p, a) == p.base <= a /\ a < p.base + p.size

Span == [base : Nat, size : Nat, kind : Kinds]

Aligned(p) == p.base % PAGE = 0 /\ p.size % PAGE = 0

LEMMA MaxMin ==
  ASSUME NEW a \in Nat, NEW b \in Nat
  PROVE  /\ Max({a, b}) = IF a >= b THEN a ELSE b
         /\ Min({a, b}) = IF a <= b THEN a ELSE b
  BY DEF Max, Min

LEMMA AlignedSum ==
  ASSUME NEW p \in Nat \ {0}, NEW x \in Nat, NEW y \in Nat, x % p = 0, y % p = 0
  PROVE  /\ (x + y) % p = 0
         /\ x <= y => (y - x) % p = 0
<1>1. PICK q \in Nat : x = q * p
  <2>1. x = p * (x \div p) + (x % p) /\ x \div p \in Nat
    OBVIOUS
  <2> QED
    BY <2>1
<1>2. PICK r \in Nat : y = r * p
  <2>1. y = p * (y \div p) + (y % p) /\ y \div p \in Nat
    OBVIOUS
  <2> QED
    BY <2>1
<1>3. ASSUME NEW m \in Nat PROVE (m * p) % p = 0
  OBVIOUS
<1>4. (x + y) % p = 0
  <2>1. PICK m \in Nat : m = q + r
    OBVIOUS
  <2>2. x + y = m * p
    BY <1>1, <1>2, <2>1
  <2> QED
    BY <1>3, <2>2
<1>5. ASSUME x <= y PROVE (y - x) % p = 0
  <2>1. q <= r
    BY <1>1, <1>2, <1>5
  <2>2. PICK m \in Nat : r = q + m
    BY <2>1
  <2>3. y - x = m * p
    BY <1>1, <1>2, <2>2
  <2> QED
    BY <1>3, <2>3
<1> QED
  BY <1>4, <1>5

\* The piece of ps at a is aligned and of the given kind.
Shows(ps, a, kind) ==
  \E i \in 1..Len(ps) : Aligned(ps[i]) /\ In(ps[i], a) /\ ps[i].kind = kind

LEMMA PieceDoes ==
  ASSUME NEW lo \in Nat, NEW hi \in Nat, lo <= hi, NEW kind \in Kinds
  PROVE  /\ Piece(lo, hi, kind) \in Span /\ Piece(lo, hi, kind).kind = kind
         /\ \A a \in Nat : In(Piece(lo, hi, kind), a) <=> lo <= a /\ a < hi
         /\ lo % PAGE = 0 /\ hi % PAGE = 0 => Aligned(Piece(lo, hi, kind))
<1>1. PICK p : p = Piece(lo, hi, kind)
  OBVIOUS
<1>2. p.base = lo /\ p.size = hi - lo /\ p.kind = kind /\ p \in Span
  BY <1>1 DEF Piece, Span
<1>3. lo + (hi - lo) = hi
  OBVIOUS
<1>4. \A a \in Nat : In(p, a) <=> lo <= a /\ a < hi
  BY <1>2, <1>3 DEF In
<1>5. lo % PAGE = 0 /\ hi % PAGE = 0 => Aligned(p)
  BY <1>2, PageAssumption, AlignedSum DEF Aligned
<1> QED
  BY <1>1, <1>2, <1>4, <1>5

\* What carve makes of a piece: pieces again, and at an address of the span the
\* span's kind, elsewhere the piece's.
LEMMA CarveDoes ==
  ASSUME NEW p \in Span, NEW o \in Span
  PROVE  /\ carve(p, o) \in Seq(Span)
         /\ \A a \in Nat : Aligned(p) /\ Aligned(o) /\ In(p, a) =>
              Shows(carve(p, o), a, IF In(o, a) THEN o.kind ELSE p.kind)
<1>1. PICK pb, pe, ob, oe : pb = p.base /\ pe = p.base + p.size /\ ob = o.base /\ oe = o.base + o.size
  OBVIOUS
<1>2. /\ pb \in Nat /\ pe \in Nat /\ ob \in Nat /\ oe \in Nat /\ pb <= pe /\ ob <= oe
      /\ p.kind \in Kinds /\ o.kind \in Kinds
  BY <1>1 DEF Span
<1>3. \A a \in Nat : /\ In(p, a) <=> pb <= a /\ a < pe
                     /\ In(o, a) <=> ob <= a /\ a < oe
  BY <1>1, <1>2 DEF In, Span
<1>4. Aligned(p) /\ Aligned(o) => pb % PAGE = 0 /\ pe % PAGE = 0 /\ ob % PAGE = 0 /\ oe % PAGE = 0
  BY <1>1, PageAssumption, AlignedSum DEF Span, Aligned
<1>5. CASE o.size = 0 \/ oe <= pb \/ ob >= pe
  <2>1. carve(p, o) = <<p>>
    BY <1>1, <1>5 DEF carve
  <2>2. ASSUME NEW a \in Nat, In(p, a) PROVE ~In(o, a)
    BY <1>1, <1>2, <1>3, <1>5, <2>2 DEF Span
  <2>3. <<p>> \in Seq(Span) /\ Len(<<p>>) = 1 /\ <<p>>[1] = p
    OBVIOUS
  <2> QED
    BY <2>1, <2>2, <2>3 DEF Shows
<1>6. CASE ~(o.size = 0 \/ oe <= pb \/ ob >= pe)
  <2>1. PICK lo, hi : lo = (IF ob >= pb THEN ob ELSE pb) /\ hi = (IF oe <= pe THEN oe ELSE pe)
    OBVIOUS
  <2>2. lo = Max({ob, pb}) /\ hi = Min({oe, pe})
    BY <1>2, <2>1, MaxMin
  <2>3. lo \in Nat /\ hi \in Nat /\ lo <= hi
    BY <1>1, <1>2, <1>6, <2>1 DEF Span
  <2>4. PICK x, y, z : /\ x = (IF ob > pb THEN <<Piece(pb, ob, p.kind)>> ELSE << >>)
                      /\ y = Piece(lo, hi, o.kind)
                      /\ z = (IF oe < pe THEN <<Piece(oe, pe, p.kind)>> ELSE << >>)
    OBVIOUS
  <2>5. carve(p, o) = x \o <<y>> \o z
    BY <1>1, <1>6, <2>2, <2>4 DEF carve
  <2>6. x \in Seq(Span) /\ y \in Span /\ z \in Seq(Span)
    BY <1>2, <2>3, <2>4, PieceDoes
  <2>7. carve(p, o) \in Seq(Span)
    BY <2>5, <2>6
  <2>8. ASSUME NEW a \in Nat, Aligned(p), Aligned(o), In(p, a)
        PROVE  Shows(carve(p, o), a, IF In(o, a) THEN o.kind ELSE p.kind)
    <3>1. pb <= a /\ a < pe
      BY <1>3, <2>8
    <3>2. /\ pb % PAGE = 0 /\ pe % PAGE = 0 /\ ob % PAGE = 0 /\ oe % PAGE = 0
          /\ lo % PAGE = 0 /\ hi % PAGE = 0
      BY <1>4, <2>1, <2>8
    <3>3. CASE In(o, a)
      <4>1. In(y, a) /\ Aligned(y) /\ y.kind = o.kind
        BY <1>2, <1>3, <2>1, <2>3, <2>4, <3>1, <3>2, <3>3, PieceDoes
      <4>2. PICK i : i = Len(x) + 1
        OBVIOUS
      <4>3. i \in 1..Len(carve(p, o)) /\ carve(p, o)[i] = y
        BY <2>5, <2>6, <4>2
      <4> QED
        BY <3>3, <4>1, <4>3 DEF Shows
    <3>4. CASE a < ob
      <4>1. PICK w : w = Piece(pb, ob, p.kind)
        OBVIOUS
      <4>2. In(w, a) /\ Aligned(w) /\ w.kind = p.kind /\ w \in Span
        BY <1>2, <3>1, <3>2, <3>4, <4>1, PieceDoes
      <4>3. x = <<w>>
        BY <1>2, <2>4, <3>1, <3>4, <4>1
      <4>4. 1 \in 1..Len(carve(p, o)) /\ carve(p, o)[1] = w
        BY <2>5, <2>6, <4>2, <4>3
      <4>5. ~In(o, a)
        BY <1>2, <1>3, <3>4
      <4> QED
        BY <4>2, <4>4, <4>5 DEF Shows
    <3>5. CASE oe <= a
      <4>1. PICK w : w = Piece(oe, pe, p.kind)
        OBVIOUS
      <4>2. In(w, a) /\ Aligned(w) /\ w.kind = p.kind /\ w \in Span
        BY <1>2, <3>1, <3>2, <3>5, <4>1, PieceDoes
      <4>3. z = <<w>>
        BY <1>2, <2>4, <3>1, <3>5, <4>1
      <4>4. PICK i : i = Len(x) + 2
        OBVIOUS
      <4>5. i \in 1..Len(carve(p, o)) /\ carve(p, o)[i] = w
        BY <2>5, <2>6, <4>2, <4>3, <4>4
      <4>6. ~In(o, a)
        BY <1>2, <1>3, <3>5
      <4> QED
        BY <4>2, <4>5, <4>6 DEF Shows
    <3> QED
      BY <1>2, <1>3, <3>3, <3>4, <3>5
  <2> QED
    BY <2>7, <2>8
<1> QED
  BY <1>5, <1>6

-----------------------------------------------------------------------------
(* Sequences put together. *)

\* What a property of numbers needs to hold up to n: the least number at which it
\* fails does not exist.
LEMMA UpTo ==
  ASSUME NEW n \in Nat, NEW S, 0 \in S, \A k \in 1..n : k - 1 \in S => k \in S
  PROVE  \A k \in 0..n : k \in S
<1>1. SUFFICES ASSUME NEW m \in 0..n, m \notin S PROVE FALSE
  OBVIOUS
<1> DEFINE Bad == {k \in 0..n : k \notin S}
<1>2. Bad \subseteq Nat /\ Bad # {}
  BY <1>1
<1>3. PICK k \in Bad : \A j \in Bad : k <= j
  BY <1>2, LeastNat
<1>4. k \in 1..n /\ k - 1 \in 0..n /\ ~(k <= k - 1)
  BY <1>3
<1>5. k - 1 \notin Bad
  BY <1>3, <1>4
<1> QED
  BY <1>3, <1>4, <1>5

\* FlattenSeq keeps every element of every sequence.
LEMMA FlattenDoes ==
  ASSUME NEW X, NEW ss \in Seq(Seq(X))
  PROVE  /\ FlattenSeq(ss) \in Seq(X)
         /\ \A j \in 1..Len(ss) : \A i \in 1..Len(ss[j]) :
              \E k \in 1..Len(FlattenSeq(ss)) : FlattenSeq(ss)[k] = ss[j][i]
<1> DEFINE n == Len(ss)
<1>0. n \in Nat /\ \A j \in 1..n : ss[j] \in Seq(X)
  OBVIOUS
<1>1. CASE n = 0
  <2>1. FlattenSeq(ss) = ss /\ ss = << >>
    BY <1>1 DEF FlattenSeq
  <2> QED
    BY <1>1, <2>1
<1>2. CASE n # 0
  <2> DEFINE Joins(h, m) ==
               /\ h = [i \in 1..m |-> h[i]] /\ h[1] = ss[1]
               /\ \A i \in 2..m : h[i] = h[i - 1] \o ss[i]
             Unfolds(h) == h = [i \in 1..n |-> IF i = 1 THEN ss[i] ELSE h[i - 1] \o ss[i]]
             Have == {m \in 0..n : m = 0 \/ \E h : Joins(h, m)}
  <2>1. ASSUME NEW m \in 1..n, m - 1 \in Have PROVE m \in Have
    <3>1. CASE m = 1
      <4>1. PICK h : h = [i \in 1..1 |-> ss[1]]
        OBVIOUS
      <4>2. Joins(h, 1)
        BY <4>1
      <4> HIDE DEF Joins
      <4> QED
        BY <1>0, <3>1, <4>2
    <3>2. CASE m # 1
      <4>1. m - 1 \in 1..n /\ m \in 2..n /\ m - 1 # 0
        BY <3>2, <1>0
      <4>2. PICK g : Joins(g, m - 1)
        BY <2>1, <4>1
      <4>3. PICK h : h = [i \in 1..m |-> IF i = m THEN g[m - 1] \o ss[m] ELSE g[i]]
        OBVIOUS
      <4>4. h = [i \in 1..m |-> h[i]]
        BY <4>3
      <4>5. h[1] = ss[1]
        BY <4>1, <4>2, <4>3
      <4>6. ASSUME NEW i \in 2..m PROVE h[i] = h[i - 1] \o ss[i]
        <5>1. i \in 1..m /\ i - 1 \in 1..m /\ i - 1 # m
          BY <4>1
        <5>2. h[i - 1] = g[i - 1]
          BY <4>3, <5>1
        <5>3. CASE i = m
          BY <4>3, <5>1, <5>2, <5>3
        <5>4. CASE i # m
          <6>1. i \in 2..(m - 1)
            BY <5>4, <4>1
          <6>2. g[i] = g[i - 1] \o ss[i] /\ h[i] = g[i]
            BY <4>2, <4>3, <5>1, <5>4, <6>1
          <6> QED
            BY <5>2, <6>2
        <5> QED
          BY <5>3, <5>4
      <4>7. Joins(h, m)
        BY <4>4, <4>5, <4>6
      <4> HIDE DEF Joins
      <4> QED
        BY <4>7, <1>0
    <3> QED
      BY <3>1, <3>2
  <2>2. n \in Have
    <3>1. 0 \in Have
      BY <1>0
    <3> HIDE DEF Have
    <3>2. \A k \in 0..n : k \in Have
      BY <1>0, <2>1, <3>1, UpTo
    <3> QED
      BY <1>0, <3>2
  <2>3. PICK g : Joins(g, n)
    BY <1>2, <2>2
  <2>4. Unfolds(g)
    <3>1. \A i \in 1..n : i = 1 \/ i \in 2..n
      BY <1>0
    <3> QED
      BY <2>3, <3>1
  <2>5. PICK f : f = CHOOSE h : Unfolds(h)
    OBVIOUS
  <2>6. Unfolds(f)
    BY <2>4, <2>5
  <2>7. FlattenSeq(ss) = f[n]
    BY <1>2, <2>5 DEF FlattenSeq
  <2> DEFINE Full(m) == /\ f[m] \in Seq(X)
                        /\ \A j \in 1..m : \A i \in 1..Len(ss[j]) :
                             \E k \in 1..Len(f[m]) : f[m][k] = ss[j][i]
             Done == {m \in 0..n : m = 0 \/ Full(m)}
  <2>8. ASSUME NEW m \in 1..n, m - 1 \in Done PROVE m \in Done
    <3>1. CASE m = 1
      <4>1. f[1] = ss[1]
        BY <2>6, <3>1
      <4>2. Full(1)
        BY <1>0, <3>1, <4>1
      <4> QED
        BY <3>1, <4>2
    <3>2. CASE m # 1
      <4>1. m - 1 \in 1..n /\ m - 1 # 0 /\ m \in Nat
        BY <3>2, <1>0
      <4>2. Full(m - 1)
        BY <2>8, <4>1
      <4>3. f[m] = f[m - 1] \o ss[m]
        BY <2>6, <3>2
      <4>4. PICK u, v, w : u = f[m - 1] /\ v = ss[m] /\ w = f[m]
        OBVIOUS
      <4>5. u \in Seq(X) /\ v \in Seq(X) /\ w = u \o v
        BY <1>0, <4>2, <4>3, <4>4
      <4>6. /\ w \in Seq(X) /\ Len(w) = Len(u) + Len(v) /\ Len(u) \in Nat /\ Len(v) \in Nat
            /\ \A k \in 1..Len(u) : w[k] = u[k]
            /\ \A k \in 1..Len(v) : w[Len(u) + k] = v[k]
        BY <4>5
      <4>7. ASSUME NEW j \in 1..m, NEW i \in 1..Len(ss[j])
            PROVE  \E k \in 1..Len(w) : w[k] = ss[j][i]
        <5>1. CASE j = m
          <6>1. i \in 1..Len(v) /\ ss[j] = v
            BY <4>4, <5>1
          <6>2. PICK k : k = Len(u) + i
            OBVIOUS
          <6>3. k \in 1..Len(w) /\ w[k] = v[i]
            BY <4>6, <6>1, <6>2
          <6> QED
            BY <6>1, <6>3
        <5>2. CASE j # m
          <6>1. j \in 1..(m - 1)
            BY <4>1, <5>2
          <6>2. PICK k \in 1..Len(u) : u[k] = ss[j][i]
            BY <4>2, <4>4, <6>1
          <6>3. k \in 1..Len(w) /\ w[k] = u[k]
            BY <4>6
          <6> QED
            BY <6>2, <6>3
        <5> QED
          BY <5>1, <5>2
      <4>8. Full(m)
        BY <4>4, <4>6, <4>7
      <4> QED
        BY <4>8, <1>0
    <3> QED
      BY <3>1, <3>2
  <2>9. n \in Done
    <3>1. 0 \in Done
      BY <1>0
    <3> HIDE DEF Done
    <3>2. \A k \in 0..n : k \in Done
      BY <1>0, <2>8, <3>1, UpTo
    <3> QED
      BY <1>0, <3>2
  <2>10. Full(n)
    BY <1>2, <2>9
  <2> QED
    BY <2>7, <2>10
<1> QED
  BY <1>1, <1>2

-----------------------------------------------------------------------------
(* normalize. *)

LEMMA SplitDoes ==
  ASSUME NEW ps \in Seq(Span), NEW o \in Span
  PROVE  /\ split(ps, o) \in Seq(Span)
         /\ \A a \in Nat : \A kind : Aligned(o) /\ Shows(ps, a, kind) =>
              Shows(split(ps, o), a, IF In(o, a) THEN o.kind ELSE kind)
<1>1. PICK ss : ss = [i \in 1..Len(ps) |-> carve(ps[i], o)]
  OBVIOUS
<1>2. split(ps, o) = FlattenSeq(ss)
  BY <1>1 DEF split, With
<1>3. \A i \in 1..Len(ps) : ps[i] \in Span /\ carve(ps[i], o) \in Seq(Span)
  <2>1. \A i \in 1..Len(ps) : ps[i] \in Span
    OBVIOUS
  <2>2. \A p \in Span : carve(p, o) \in Seq(Span)
    BY CarveDoes
  <2> QED
    BY <2>1, <2>2
<1>4. ss \in Seq(Seq(Span)) /\ Len(ss) = Len(ps)
  BY <1>1, <1>3
<1>5. PICK f : f = FlattenSeq(ss)
  OBVIOUS
<1>6. /\ f \in Seq(Span)
      /\ \A j \in 1..Len(ss) : \A i \in 1..Len(ss[j]) : \E k \in 1..Len(f) : f[k] = ss[j][i]
  BY <1>4, <1>5, FlattenDoes
<1>7. ASSUME NEW a \in Nat, NEW kind, Aligned(o), Shows(ps, a, kind)
      PROVE  Shows(f, a, IF In(o, a) THEN o.kind ELSE kind)
  <2>1. PICK j \in 1..Len(ps) : Aligned(ps[j]) /\ In(ps[j], a) /\ ps[j].kind = kind
    BY <1>7 DEF Shows
  <2>2. Shows(carve(ps[j], o), a, IF In(o, a) THEN o.kind ELSE kind)
    BY <1>3, <1>7, <2>1, CarveDoes
  <2>3. ss[j] = carve(ps[j], o) /\ j \in 1..Len(ss)
    BY <1>1, <1>4
  <2>4. PICK i \in 1..Len(ss[j]) : /\ Aligned(ss[j][i]) /\ In(ss[j][i], a)
                                   /\ ss[j][i].kind = IF In(o, a) THEN o.kind ELSE kind
    BY <2>2, <2>3 DEF Shows
  <2>5. PICK k \in 1..Len(f) : f[k] = ss[j][i]
    BY <1>6, <2>3
  <2> QED
    BY <2>4, <2>5 DEF Shows
<1> QED
  BY <1>2, <1>5, <1>6, <1>7

\* The kind of an address of a descriptor of the given kind, after the first k
\* spans: that of one it lies in, or the descriptor's.
Coloured(own, k, base, a, kind) ==
  \/ \E m \in 1..k : In(own[m], a) /\ kind = own[m].kind
  \/ (\A m \in 1..k : ~In(own[m], a)) /\ kind = base

Descriptor == [start : Nat, pages : Nat, kind : Kinds]

LEMMA PiecesDo ==
  ASSUME NEW d \in Descriptor, NEW own \in Seq(Span)
  PROVE  /\ pieces(d, own) \in Seq(Span)
         /\ \A a \in Nat :
              /\ d.start % PAGE = 0 /\ \A m \in 1..Len(own) : Aligned(own[m])
              /\ d.start <= a /\ a < d.start + d.pages * PAGE
              => \E kind : /\ Shows(pieces(d, own), a, kind)
                           /\ Coloured(own, Len(own), d.kind, a, kind)
<1> DEFINE n == Len(own)
<1>0. n \in Nat /\ \A m \in 1..n : own[m] \in Span
  OBVIOUS
<1>1. PICK first : first = <<Piece(d.start, d.start + d.pages * PAGE, d.kind)>>
  OBVIOUS
<1> DEFINE Splits(h, m) ==
             /\ h = [k \in 0..m |-> h[k]] /\ h[0] = first
             /\ \A k \in 1..m : h[k] = split(h[k - 1], own[k])
           Unfolds(h) == h = [k \in 0..n |-> IF k = 0 THEN first ELSE split(h[k - 1], own[k])]
           Have == {m \in 0..n : \E h : Splits(h, m)}
<1>2. 0 \in Have
  <2>1. PICK h : h = [k \in 0..0 |-> first]
    OBVIOUS
  <2>2. Splits(h, 0)
    BY <2>1
  <2> HIDE DEF Splits
  <2> QED
    BY <1>0, <2>2
<1>3. ASSUME NEW m \in 1..n, m - 1 \in Have PROVE m \in Have
  <2>1. m - 1 \in 0..n /\ m \in 0..n /\ m \in Nat
    BY <1>0
  <2>2. PICK g : Splits(g, m - 1)
    BY <1>3
  <2>3. PICK h : h = [k \in 0..m |-> IF k = m THEN split(g[m - 1], own[m]) ELSE g[k]]
    OBVIOUS
  <2>4. h = [k \in 0..m |-> h[k]]
    BY <2>3
  <2>5. h[0] = first
    BY <2>1, <2>2, <2>3
  <2>6. ASSUME NEW k \in 1..m PROVE h[k] = split(h[k - 1], own[k])
    <3>1. k \in 0..m /\ k - 1 \in 0..m /\ k - 1 # m
      BY <2>1
    <3>2. h[k - 1] = g[k - 1]
      BY <2>3, <3>1
    <3>3. CASE k = m
      BY <2>3, <3>1, <3>2, <3>3
    <3>4. CASE k # m
      <4>1. k \in 1..(m - 1)
        BY <3>4, <2>1
      <4>2. g[k] = split(g[k - 1], own[k]) /\ h[k] = g[k]
        BY <2>2, <2>3, <3>1, <3>4, <4>1
      <4> QED
        BY <3>2, <4>2
    <3> QED
      BY <3>3, <3>4
  <2>7. Splits(h, m)
    BY <2>4, <2>5, <2>6
  <2> HIDE DEF Splits
  <2> QED
    BY <2>1, <2>7
<1>4. n \in Have
  <2> HIDE DEF Have
  <2>1. \A k \in 0..n : k \in Have
    BY <1>0, <1>2, <1>3, UpTo
  <2> QED
    BY <1>0, <2>1
<1>5. PICK g : Splits(g, n)
  BY <1>4
<1>6. Unfolds(g)
  <2>1. \A k \in 0..n : k = 0 \/ k \in 1..n
    BY <1>0
  <2> QED
    BY <1>5, <2>1
<1>7. PICK f : f = CHOOSE h : Unfolds(h)
  OBVIOUS
<1>8. Unfolds(f)
  BY <1>6, <1>7
<1>9. pieces(d, own) = f[n]
  BY <1>1, <1>7 DEF pieces
<1>10. f[0] = first /\ \A k \in 1..n : f[k] = split(f[k - 1], own[k])
  BY <1>0, <1>8
<1>11. PICK lo, hi : lo = d.start /\ hi = d.start + d.pages * PAGE
  OBVIOUS
<1>12. lo \in Nat /\ hi \in Nat /\ lo <= hi /\ d.kind \in Kinds /\ first = <<Piece(lo, hi, d.kind)>>
  BY <1>1, <1>11, PageAssumption DEF Descriptor
<1>13. \A k \in 0..n : f[k] \in Seq(Span)
  <2> DEFINE Typed == {k \in 0..n : f[k] \in Seq(Span)}
  <2>1. Piece(lo, hi, d.kind) \in Span
    BY <1>12, PieceDoes
  <2>2. 0 \in Typed
    <3>1. PICK p \in Span : p = Piece(lo, hi, d.kind)
      BY <2>1
    <3>2. PICK s : s = <<p>>
      OBVIOUS
    <3>3. s \in Seq(Span) /\ f[0] = s
      BY <1>10, <1>12, <3>1, <3>2
    <3>4. 0 \in 0..n
      BY <1>0
    <3> QED
      BY <3>3, <3>4
  <2>3. ASSUME NEW k \in 1..n, k - 1 \in Typed PROVE k \in Typed
    <3>1. PICK ps, o : ps = f[k - 1] /\ o = own[k]
      OBVIOUS
    <3>2. ps \in Seq(Span) /\ o \in Span /\ f[k] = split(ps, o)
      BY <1>0, <1>10, <2>3, <3>1
    <3>3. f[k] \in Seq(Span)
      BY <3>2, SplitDoes
    <3> QED
      BY <1>0, <3>3
  <2>4. ASSUME NEW k \in 0..n PROVE k \in Typed
    <3> HIDE DEF Typed
    <3> QED
      BY <1>0, <2>2, <2>3, UpTo
  <2> QED
    BY <2>4
<1>14. ASSUME NEW a \in Nat, d.start % PAGE = 0, \A m \in 1..n : Aligned(own[m]), lo <= a, a < hi
       PROVE  \E kind : Shows(f[n], a, kind) /\ Coloured(own, n, d.kind, a, kind)
  <2> DEFINE Painted(k) == \E kind : Shows(f[k], a, kind) /\ Coloured(own, k, d.kind, a, kind)
             Done == {k \in 0..n : Painted(k)}
  <2>1. 0 \in Done
    <3>1. PICK p : p = Piece(lo, hi, d.kind)
      OBVIOUS
    <3>2. hi % PAGE = 0 /\ lo % PAGE = 0
      <4>1. PICK x : x = d.pages * PAGE
        OBVIOUS
      <4>2. x \in Nat /\ x % PAGE = 0
        <5>1. d.pages \in Nat /\ PAGE \in Nat \ {0}
          BY PageAssumption DEF Descriptor
        <5>2. PICK q, r : q = d.pages /\ r = PAGE
          OBVIOUS
        <5>3. q \in Nat /\ r \in Nat \ {0} => (q * r) \in Nat /\ (q * r) % r = 0
          OBVIOUS
        <5> QED
          BY <4>1, <5>1, <5>2, <5>3
      <4> QED
        BY <1>11, <1>12, <1>14, <4>1, <4>2, PageAssumption, AlignedSum
    <3>3. Aligned(p) /\ In(p, a) /\ p.kind = d.kind
      BY <1>12, <1>14, <3>1, <3>2, PieceDoes
    <3>4. f[0] = <<p>>
      BY <1>10, <1>12, <3>1
    <3>5. Shows(f[0], a, d.kind)
      BY <3>3, <3>4 DEF Shows
    <3>6. Coloured(own, 0, d.kind, a, d.kind)
      BY DEF Coloured
    <3> QED
      BY <1>0, <3>5, <3>6
  <2>2. ASSUME NEW k \in 1..n, k - 1 \in Done PROVE k \in Done
    <3>1. PICK kind : Shows(f[k - 1], a, kind) /\ Coloured(own, k - 1, d.kind, a, kind)
      BY <2>2
    <3>2. k \in 0..n /\ k - 1 \in 0..n /\ own[k] \in Span /\ Aligned(own[k])
      BY <1>0, <1>14
    <3>3. PICK new : new = IF In(own[k], a) THEN own[k].kind ELSE kind
      OBVIOUS
    <3>4. Shows(f[k], a, new)
      BY <1>10, <1>13, <3>1, <3>2, <3>3, SplitDoes
    <3>5. Coloured(own, k, d.kind, a, new)
      <4>1. CASE In(own[k], a)
        BY <3>3, <4>1 DEF Coloured
      <4>2. CASE ~In(own[k], a)
        <5>1. \A m \in 1..k : m = k \/ m \in 1..(k - 1)
          OBVIOUS
        <5>2. \A m \in 1..(k - 1) : m \in 1..k
          OBVIOUS
        <5> QED
          BY <3>1, <3>3, <4>2, <5>1, <5>2 DEF Coloured
      <4> QED
        BY <4>1, <4>2
    <3> QED
      BY <3>2, <3>4, <3>5
  <2>3. n \in Done
    <3> HIDE DEF Done
    <3>1. \A k \in 0..n : k \in Done
      BY <1>0, <2>1, <2>2, UpTo
    <3> QED
      BY <1>0, <3>1
  <2> QED
    BY <2>3
<1>15. f[n] \in Seq(Span)
  BY <1>0, <1>13
<1> QED
  BY <1>9, <1>11, <1>14, <1>15

LEMMA EmitDoes ==
  ASSUME NEW p \in Span
  PROVE  /\ emit(p) \in PhysRange /\ emit(p).kind = p.kind
         /\ \A a \in Nat : Aligned(p) /\ In(p, a) =>
              emit(p).phys_start <= a /\ a < endAddr(emit(p))
<1>1. PICK b, z : b = p.base /\ z = p.size
  OBVIOUS
<1>2. b \in Nat /\ z \in Nat /\ PAGE \in Nat \ {0}
  BY <1>1, PageAssumption DEF Span
<1>3. PICK e : e = emit(p)
  OBVIOUS
<1>4. e = [phys_start |-> b, page_count |-> z \div PAGE, kind |-> p.kind]
  BY <1>1, <1>3 DEF emit
<1>5. z \div PAGE \in Nat
  BY <1>2
<1>6. e \in PhysRange /\ e.phys_start = b /\ e.page_count = z \div PAGE /\ e.kind = p.kind
  BY <1>2, <1>4, <1>5 DEF PhysRange, Span
<1>7. z % PAGE = 0 => (z \div PAGE) * PAGE = z
  <2>1. z = PAGE * (z \div PAGE) + (z % PAGE)
    BY <1>2
  <2>2. PICK q \in Nat : q = z \div PAGE
    BY <1>5
  <2> QED
    BY <1>2, <2>1, <2>2
<1>8. ASSUME NEW a \in Nat, Aligned(p), In(p, a)
      PROVE  e.phys_start <= a /\ a < endAddr(e)
  <2>1. endAddr(e) = b + z
    BY <1>1, <1>6, <1>7, <1>8 DEF endAddr, Aligned
  <2> QED
    BY <1>1, <1>6, <1>8, <2>1 DEF In
<1> QED
  BY <1>3, <1>6, <1>8

\* The ranges of a map that was not refused show every address of a descriptor
\* with the kind of the span it lies in, or with its own.
LEMMA NormalizeDoes ==
  ASSUME NEW descs \in Seq(Descriptor), NEW own \in Seq(Span), NEW capacity,
         normalize(descs, own, capacity).ok
  PROVE  /\ normalize(descs, own, capacity).ranges \in Seq(PhysRange)
         /\ \A j \in 1..Len(descs) : \A a \in Nat :
              /\ descs[j].start % PAGE = 0 /\ \A m \in 1..Len(own) : Aligned(own[m])
              /\ descs[j].start <= a /\ a < descs[j].start + descs[j].pages * PAGE
              => \E i \in 1..Len(normalize(descs, own, capacity).ranges) :
                   LET r == normalize(descs, own, capacity).ranges[i] IN
                   /\ r.phys_start <= a /\ a < endAddr(r)
                   /\ Coloured(own, Len(own), descs[j].kind, a, r.kind)
<1>1. PICK c, cut : c = carved(descs, own) /\ cut = FlattenSeq(c)
  OBVIOUS
<1>2. Len(descs) \in Nat /\ \A j \in 1..Len(descs) : descs[j] \in Descriptor
  OBVIOUS
<1>3. \A j \in 1..Len(descs) : pieces(descs[j], own) \in Seq(Span)
  BY <1>2, PiecesDo
<1>4. c \in Seq(Seq(Span)) /\ Len(c) = Len(descs)
  BY <1>1, <1>2, <1>3 DEF carved
<1>5. /\ cut \in Seq(Span)
      /\ \A j \in 1..Len(c) : \A i \in 1..Len(c[j]) : \E k \in 1..Len(cut) : cut[k] = c[j][i]
  <2>1. c \in Seq(Seq(Span))
    BY <1>4
  <2>2. /\ FlattenSeq(c) \in Seq(Span)
        /\ \A j \in 1..Len(c) : \A i \in 1..Len(c[j]) :
             \E k \in 1..Len(FlattenSeq(c)) : FlattenSeq(c)[k] = c[j][i]
    BY <2>1, FlattenDoes, Zenon
  <2> QED
    BY <1>1, <2>2
<1>6. PICK rs : rs = [i \in 1..Len(cut) |-> emit(cut[i])]
  OBVIOUS
<1>7. normalize(descs, own, capacity).ranges = rs
  <2>1. PICK n : n = normalize(descs, own, capacity)
    OBVIOUS
  <2>2. n = IF \/ refused(descs, own) \/ Len(cut) > capacity
               \/ \E j \in 1..Len(c) : Len(c[j]) > MAX_PIECES
            THEN [ok |-> FALSE, ranges |-> << >>]
            ELSE [ok |-> TRUE, ranges |-> rs]
    BY <1>1, <1>6, <2>1 DEF normalize, With
  <2>3. n.ok
    BY <2>1
  <2> QED
    BY <2>1, <2>2, <2>3
<1>8. Len(cut) \in Nat /\ \A i \in 1..Len(cut) : cut[i] \in Span /\ emit(cut[i]) \in PhysRange
  BY <1>5, EmitDoes
<1>9. rs \in Seq(PhysRange) /\ Len(rs) = Len(cut)
  BY <1>6, <1>8
<1>10. ASSUME NEW j \in 1..Len(descs), NEW a \in Nat,
              descs[j].start % PAGE = 0, \A m \in 1..Len(own) : Aligned(own[m]),
              descs[j].start <= a, a < descs[j].start + descs[j].pages * PAGE
       PROVE  \E i \in 1..Len(rs) : /\ rs[i].phys_start <= a /\ a < endAddr(rs[i])
                                    /\ Coloured(own, Len(own), descs[j].kind, a, rs[i].kind)
  <2>1. PICK d \in Descriptor : d = descs[j]
    BY <1>2
  <2>2. PICK kind : /\ Shows(pieces(d, own), a, kind)
                    /\ Coloured(own, Len(own), d.kind, a, kind)
    BY <1>10, <2>1, PiecesDo
  <2>3. d.pages # 0
    BY <1>10, <2>1, PageAssumption DEF Descriptor
  <2>4. c[j] = pieces(d, own)
    BY <1>1, <2>1, <2>3 DEF carved
  <2>5. PICK k \in 1..Len(c[j]) : Aligned(c[j][k]) /\ In(c[j][k], a) /\ c[j][k].kind = kind
    BY <2>2, <2>4 DEF Shows
  <2>6. PICK i \in 1..Len(cut) : cut[i] = c[j][k]
    BY <1>4, <1>5
  <2>7. rs[i] = emit(cut[i]) /\ i \in 1..Len(rs)
    BY <1>6, <1>9
  <2>8. rs[i].phys_start <= a /\ a < endAddr(rs[i]) /\ rs[i].kind = kind
    BY <1>8, <2>5, <2>6, <2>7, EmitDoes
  <2> QED
    BY <2>1, <2>2, <2>7, <2>8
<1> QED
  BY <1>7, <1>9, <1>10

-----------------------------------------------------------------------------
(* The firmware's map. *)

LEMMA MinDoes ==
  ASSUME NEW S, S \subseteq Nat, S # {}
  PROVE  Min(S) \in S /\ \A y \in S : Min(S) <= y
<1>1. PICK n \in S : \A m \in S : n <= m
  BY LeastNat
<1> QED
  BY <1>1 DEF Min

LEMMA PageOrder ==
  ASSUME NEW a \in Nat, NEW b \in Nat
  PROVE  /\ a * PAGE \in Nat /\ (a * PAGE) % PAGE = 0
         /\ a <= b => a * PAGE <= b * PAGE /\ a * PAGE + (b - a) * PAGE = b * PAGE
         /\ a < b => a * PAGE < b * PAGE
<1>1. PICK p : p = PAGE
  OBVIOUS
<1>2. p \in Nat \ {0}
  BY <1>1, PageAssumption
<1>3. a * p \in Nat /\ (a * p) % p = 0
  BY <1>2
<1>4. ASSUME NEW d \in Nat, b = a + d PROVE a * p <= b * p /\ a * p + (b - a) * p = b * p
  <2>1. b * p = a * p + d * p /\ d * p \in Nat /\ b - a = d
    BY <1>2, <1>4
  <2> QED
    BY <1>3, <2>1
<1>5. ASSUME NEW d \in Nat, b = a + 1 + d PROVE a * p < b * p
  <2>1. b * p = a * p + p + d * p /\ d * p \in Nat
    BY <1>2, <1>5
  <2> QED
    BY <1>2, <1>3, <2>1
<1>6. a <= b => \E d \in Nat : b = a + d
  OBVIOUS
<1>7. a < b => \E d \in Nat : b = a + 1 + d
  OBVIOUS
<1> QED
  BY <1>1, <1>3, <1>4, <1>5, <1>6, <1>7

\* The elements of a finite set of naturals can be listed in order: each has a
\* rank of its own, and every number up to the size of the set is a rank.
Rank(S, q) == Cardinality({r \in S : r <= q})

LEMMA Ranks ==
  ASSUME NEW S, S \subseteq Nat, IsFiniteSet(S)
  PROVE  /\ Cardinality(S) \in Nat
         /\ \A q \in S : Rank(S, q) \in 1..Cardinality(S)
         /\ \A q, r \in S : Rank(S, q) = Rank(S, r) => q = r
         /\ \A j \in 1..Cardinality(S) : \E q \in S : Rank(S, q) = j
<1> DEFINE n == Cardinality(S)
           Upto(q) == {r \in S : r <= q}
<1>1. n \in Nat
  BY FS_CardinalityType
<1>2. ASSUME NEW q \in S PROVE IsFiniteSet(Upto(q)) /\ Rank(S, q) \in 1..n
  <2>1. Upto(q) \in SUBSET S /\ q \in Upto(q)
    OBVIOUS
  <2>2. IsFiniteSet(Upto(q)) /\ Cardinality(Upto(q)) <= n
    BY <2>1, FS_Subset
  <2>3. Cardinality(Upto(q)) \in Nat /\ Cardinality(Upto(q)) # 0
    BY <2>1, <2>2, FS_CardinalityType, FS_EmptySet
  <2> QED
    BY <1>1, <2>2, <2>3 DEF Rank
<1>3. ASSUME NEW q \in S, NEW r \in S, q < r PROVE Rank(S, q) # Rank(S, r)
  <2>1. Upto(q) \in SUBSET Upto(r) /\ r \in Upto(r) /\ r \notin Upto(q)
    <3>1. q \in Nat /\ r \in Nat
      OBVIOUS
    <3>2. ASSUME NEW x \in Upto(q) PROVE x \in Upto(r)
      <4>1. x \in S /\ x \in Nat /\ x <= q
        OBVIOUS
      <4> QED
        BY <1>3, <3>1, <4>1
    <3>3. r <= r /\ ~(r <= q)
      BY <1>3, <3>1
    <3> QED
      BY <3>2, <3>3
  <2> QED
    BY <1>2, <2>1, FS_Subset DEF Rank
<1>4. ASSUME NEW q \in S, NEW r \in S, Rank(S, q) = Rank(S, r) PROVE q = r
  BY <1>3, <1>4
<1>5. PICK f : f = [q \in S |-> Rank(S, q)]
  OBVIOUS
<1>6. f \in Injection(S, 1..n)
  BY <1>2, <1>4, <1>5 DEF Injection, IsInjective
<1>7. IsFiniteSet(1..n) /\ Cardinality(1..n) = n
  BY <1>1, FS_Interval
<1>8. f \in Surjection(S, 1..n)
  BY <1>6, <1>7, FS_Injection
<1>9. \A j \in 1..n : \E q \in S : Rank(S, q) = j
  BY <1>5, <1>8 DEF Surjection
<1> QED
  BY <1>1, <1>2, <1>4, <1>9

\* The map the firmware reports: descriptors of whole pages, and one for each page
\* of the machine, of the page's type.
LEMMA FirmwareMapDoes ==
  /\ FirmwareMap \in Seq([start : Nat, type : {types[p] : p \in 0..(Pages - 1)}, pages : Nat])
  /\ \A j \in 1..Len(FirmwareMap) : FirmwareMap[j].start % PAGE = 0
  /\ \A p \in 0..(Pages - 1) : \E j \in 1..Len(FirmwareMap) :
       LET d == FirmwareMap[j] IN
       d.start <= p * PAGE /\ p * PAGE < d.start + d.pages * PAGE /\ d.type = types[p]
<1>0. Pages \in Nat \ {0}
  BY LoaderAssumption
<1>1. PICK S : S = Starts
  OBVIOUS
<1>2. S \subseteq 0..(Pages - 1) /\ S \subseteq Nat
  BY <1>0, <1>1 DEF Starts
<1>3. IsFiniteSet(S)
  <2>1. IsFiniteSet(0..(Pages - 1))
    BY <1>0, FS_Interval
  <2> QED
    BY <1>2, <2>1, FS_Subset
<1>4. PICK n : n = Cardinality(S)
  OBVIOUS
<1>5. /\ n \in Nat
      /\ \A q \in S : Rank(S, q) \in 1..n
      /\ \A q, r \in S : Rank(S, q) = Rank(S, r) => q = r
      /\ \A j \in 1..n : \E q \in S : Rank(S, q) = j
  BY <1>2, <1>3, <1>4, Ranks
<1> DEFINE at(j) == CHOOSE q \in S : Cardinality({r \in S : r <= q}) = j
           end(q) == Min({r \in S : r > q} \cup {Pages})
<1>6. PICK m : m = [j \in 1..n |-> [start |-> at(j) * PAGE, type |-> types[at(j)],
                                   pages |-> end(at(j)) - at(j)]]
  OBVIOUS
<1>7. FirmwareMap = m
  <2> DEFINE Listed(starts) ==
               [j \in 1..Cardinality(starts) |->
                  LET p == CHOOSE q \in starts : Cardinality({r \in starts : r <= q}) = j
                  IN [start |-> p * PAGE, type |-> types[p],
                      pages |-> Min({q \in starts : q > p} \cup {Pages}) - p]]
  <2>1. FirmwareMap = CHOOSE l \in {Listed(starts) : starts \in {Starts}} : TRUE
    BY DEF FirmwareMap, With
  <2>2. FirmwareMap = Listed(Starts)
    <3> HIDE DEF Listed
    <3> QED
      BY <2>1
  <2> QED
    BY <1>1, <1>4, <1>6, <2>2
<1>8. \A j \in 1..n : at(j) \in S /\ Rank(S, at(j)) = j
  BY <1>5 DEF Rank
<1>9. \A q \in S : at(Rank(S, q)) = q
  BY <1>5 DEF Rank
<1>10. ASSUME NEW q \in S
       PROVE  end(q) \in Nat /\ q < end(q) /\ (end(q) = Pages \/ (end(q) \in S /\ end(q) > q))
  <2>1. PICK T : T = {r \in S : r > q} \cup {Pages}
    OBVIOUS
  <2>2. T \subseteq Nat /\ T # {} /\ \A r \in T : q < r
    <3>1. q \in Nat /\ q < Pages
      BY <1>0, <1>2
    <3> QED
      BY <1>0, <1>2, <2>1, <3>1
  <2>3. Min(T) \in T
    BY <2>2, MinDoes
  <2> QED
    BY <2>1, <2>2, <2>3
<1>11. \A j \in 1..n : m[j] = [start |-> at(j) * PAGE, type |-> types[at(j)], pages |-> end(at(j)) - at(j)]
  BY <1>6
<1> HIDE DEF at, end
<1>12. ASSUME NEW j \in 1..n
       PROVE  /\ m[j] \in [start : Nat, type : {types[p] : p \in 0..(Pages - 1)}, pages : Nat]
              /\ m[j].start % PAGE = 0
  <2>1. PICK q : q = at(j)
    OBVIOUS
  <2>2. q \in S /\ q \in Nat /\ q \in 0..(Pages - 1)
    BY <1>2, <1>8, <2>1
  <2>3. PICK e : e = end(q)
    OBVIOUS
  <2>4. e \in Nat /\ q < e
    BY <1>10, <2>2, <2>3
  <2>5. e - q \in Nat
    BY <2>2, <2>4
  <2>6. q * PAGE \in Nat /\ (q * PAGE) % PAGE = 0
    BY <2>2, PageOrder
  <2>7. m[j] = [start |-> q * PAGE, type |-> types[q], pages |-> e - q]
    BY <1>11, <2>1, <2>3
  <2> QED
    BY <2>2, <2>5, <2>6, <2>7
<1>13. m \in Seq([start : Nat, type : {types[p] : p \in 0..(Pages - 1)}, pages : Nat]) /\ Len(m) = n
  <2>1. PICK R : R = [start : Nat, type : {types[p] : p \in 0..(Pages - 1)}, pages : Nat]
    OBVIOUS
  <2>2. m = [j \in 1..n |-> m[j]] /\ \A j \in 1..n : m[j] \in R
    BY <1>6, <1>12, <2>1
  <2>3. m \in Seq(R) /\ Len(m) = n
    BY <1>5, <2>2
  <2> QED
    BY <2>1, <2>3
<1>14. ASSUME NEW p \in 0..(Pages - 1)
       PROVE  \E j \in 1..n : /\ m[j].start <= p * PAGE /\ p * PAGE < m[j].start + m[j].pages * PAGE
                              /\ m[j].type = types[p]
  <2>0. p \in Nat
    BY <1>0
  <2>1. PICK q \in S : q <= p /\ \A r \in S : r <= p => r <= q
    <3> DEFINE Gaps == {x \in Nat : \E r \in S : r <= p /\ x = p - r}
    <3>1. 0 \in S
      BY <1>0, <1>1 DEF Starts
    <3>2. p - 0 \in Gaps
      BY <2>0, <3>1
    <3>3. PICK x \in Gaps : \A y \in Gaps : x <= y
      BY <3>2, LeastNat
    <3>4. PICK q \in S : q <= p /\ x = p - q
      BY <3>3
    <3>5. ASSUME NEW r \in S, r <= p PROVE r <= q
      <4>1. r \in Nat /\ q \in Nat
        BY <1>2, <3>4
      <4>2. p - r \in Gaps
        BY <2>0, <3>5, <4>1
      <4>3. x <= p - r
        BY <3>3, <4>2
      <4> QED
        BY <2>0, <3>4, <4>1, <4>3
    <3> QED
      BY <3>4, <3>5
  <2>2. q \in Nat
    BY <1>2
  <2>3. types[p] = types[q]
    <3> DEFINE Run == {k \in 0..(p - q) : types[q + k] = types[q]}
    <3>1. p - q \in Nat
      BY <2>0, <2>1, <2>2
    <3>2. 0 \in Run
      BY <2>2, <3>1
    <3>3. ASSUME NEW k \in 1..(p - q), k - 1 \in Run PROVE k \in Run
      <4>1. k \in Nat /\ 1 <= k /\ q + k <= p /\ q + k \in 0..(Pages - 1)
        BY <1>0, <2>0, <2>1, <2>2, <3>1
      <4>2. q + k \notin S
        BY <2>1, <2>2, <4>1
      <4>3. types[q + k] = types[(q + k) - 1]
        BY <1>1, <4>1, <4>2, <2>2 DEF Starts
      <4>4. (q + k) - 1 = q + (k - 1)
        BY <2>2, <4>1
      <4> QED
        BY <3>1, <3>3, <4>3, <4>4
    <3>4. \A k \in 0..(p - q) : k \in Run
      <4> HIDE DEF Run
      <4> QED
        BY <3>1, <3>2, <3>3, UpTo
    <3>5. p - q \in Run
      BY <3>1, <3>4
    <3>6. q + (p - q) = p
      BY <2>0, <2>2
    <3> QED
      BY <3>5, <3>6
  <2>4. PICK e, j : e = end(q) /\ j = Rank(S, q)
    OBVIOUS
  <2>5. j \in 1..n /\ at(j) = q
    BY <1>5, <1>9, <2>4
  <2>6. e \in Nat /\ q < e /\ p < e
    <3>1. e \in Nat /\ q < e /\ (e = Pages \/ (e \in S /\ e > q))
      BY <1>10, <2>4
    <3>2. CASE e = Pages
      BY <1>0, <2>0, <3>1, <3>2
    <3>3. CASE e \in S
      BY <2>0, <2>1, <2>2, <3>1, <3>3
    <3> QED
      BY <3>1, <3>2, <3>3
  <2>7. m[j] = [start |-> q * PAGE, type |-> types[q], pages |-> e - q]
    BY <1>11, <2>4, <2>5
  <2>8. q * PAGE <= p * PAGE /\ p * PAGE < e * PAGE /\ q * PAGE + (e - q) * PAGE = e * PAGE
    BY <2>0, <2>1, <2>2, <2>6, PageOrder
  <2> QED
    BY <2>3, <2>5, <2>7, <2>8
<1> QED
  BY <1>7, <1>12, <1>13, <1>14

-----------------------------------------------------------------------------
(* The handoff. *)

\* The handoff spans: whole pages, and no address in two of them.
Spanned(own) ==
  /\ own \in Seq(Span)
  /\ \A m \in 1..Len(own) : Aligned(own[m])
  /\ \A m, n \in 1..Len(own) : \A a \in Nat : In(own[m], a) /\ In(own[n], a) => m = n

\* The page of an address of c pages from page p on.
LEMMA PageOf ==
  ASSUME NEW p \in Nat, NEW c \in Nat, NEW a \in Nat,
         p * PAGE <= a, a < p * PAGE + c * PAGE
  PROVE  p <= a \div PAGE /\ a \div PAGE < p + c
<1>1. PICK z : z = PAGE
  OBVIOUS
<1>2. z \in Nat \ {0}
  BY <1>1, PageAssumption
<1>3. PICK q : q = a \div z
  OBVIOUS
<1>4. q \in Nat /\ a = z * q + (a % z) /\ a % z \in 0..(z - 1)
  BY <1>2, <1>3
<1>5. PICK r \in 0..(z - 1) : a = z * q + r
  BY <1>4
<1>6. q * z <= a /\ a < (q + 1) * z
  <2>1. q * z = z * q /\ (q + 1) * z = z * q + z
    BY <1>2, <1>4
  <2>2. z * q \in Nat
    BY <1>2, <1>4
  <2> QED
    BY <1>2, <1>5, <2>1, <2>2
<1>7. q + 1 <= p => (q + 1) * PAGE <= p * PAGE
  BY <1>4, PageOrder
<1>8. p + c <= q => (p + c) * PAGE <= q * PAGE
  <2>1. PICK e \in Nat : e = p + c
    OBVIOUS
  <2> QED
    BY <1>4, <2>1, PageOrder
<1>9. (p + c) * PAGE = p * PAGE + c * PAGE
  BY PageAssumption
<1>10. PICK x, y, u, v : x = q * PAGE /\ y = (q + 1) * PAGE /\ u = p * PAGE /\ v = (p + c) * PAGE
  OBVIOUS
<1>11. x \in Nat /\ y \in Nat /\ u \in Nat /\ v \in Nat
  <2>1. PICK e \in Nat, f \in Nat : e = p + c /\ f = q + 1
    BY <1>4
  <2> QED
    BY <1>4, <1>10, <2>1, PageOrder
<1> QED
  BY <1>1, <1>3, <1>4, <1>6, <1>7, <1>8, <1>9, <1>10, <1>11

LEMMA SpanOf ==
  ASSUME NEW p \in Nat, NEW c \in Nat, NEW kind \in Kinds, NEW o,
         o = [base |-> p * PAGE, size |-> c * PAGE, kind |-> kind]
  PROVE  /\ o \in Span /\ Aligned(o)
         /\ \A a \in Nat : In(o, a) => p <= a \div PAGE /\ a \div PAGE < p + c
<1>1. /\ p * PAGE \in Nat /\ (p * PAGE) % PAGE = 0
      /\ c * PAGE \in Nat /\ (c * PAGE) % PAGE = 0
  BY PageOrder
<1>2. o \in Span
  BY <1>1 DEF Span
<1>3. o.base = p * PAGE /\ o.size = c * PAGE
  OBVIOUS
<1>4. Aligned(o)
  BY <1>1, <1>3 DEF Aligned
<1>5. \A a \in Nat : In(o, a) => p <= a \div PAGE /\ a \div PAGE < p + c
  BY <1>3, PageOf DEF In
<1> QED
  BY <1>2, <1>4, <1>5

\* The firmware gives the loader pages that are free, so no two objects share one.
LEMMA LoadSpans ==
  ASSUME Load PROVE Spanned(owned')
<1>1. PICK place \in Placements :
        LET i == place[1]
            s == place[2]
            b == place[3]
            k == KERNEL_BASE \div PAGE
            span(p, n, kind) == [base |-> p * PAGE, size |-> n * PAGE, kind |-> kind] IN
        /\ {i, s, b} \cap (k..(k + KernelPages - 1)) = {}
        /\ owned' = <<span(k, KernelPages, "kernel"), span(i, 1, "initramfs"),
                      span(s, 1, "kernel_stack"), span(b, 1, "boot_info")>>
  BY DEF Load
<1>2. PICK i, s, b, k, n :
        /\ i = place[1] /\ s = place[2] /\ b = place[3]
        /\ k = KERNEL_BASE \div PAGE /\ n = KernelPages
  OBVIOUS
<1>3. i \in Nat /\ s \in Nat /\ b \in Nat /\ i # s /\ i # b /\ s # b
  <2>1. {i, s, b} \subseteq 0..(Pages - 1) /\ i # s /\ i # b /\ s # b
    BY <1>2, LoaderAssumption
  <2> QED
    BY <2>1
<1>4. k \in Nat /\ n \in Nat
  <2>1. KERNEL_BASE \in Nat /\ n \in Nat /\ PAGE \in Nat \ {0}
    BY <1>2, LoaderAssumption, PageAssumption
  <2> QED
    BY <1>2, <2>1
<1>5. i \notin k..(k + n - 1) /\ s \notin k..(k + n - 1) /\ b \notin k..(k + n - 1)
  BY <1>1, <1>2
<1>6. PICK o1, o2, o3, o4 :
        /\ o1 = [base |-> k * PAGE, size |-> n * PAGE, kind |-> "kernel"]
        /\ o2 = [base |-> i * PAGE, size |-> 1 * PAGE, kind |-> "initramfs"]
        /\ o3 = [base |-> s * PAGE, size |-> 1 * PAGE, kind |-> "kernel_stack"]
        /\ o4 = [base |-> b * PAGE, size |-> 1 * PAGE, kind |-> "boot_info"]
  OBVIOUS
<1>7. owned' = <<o1, o2, o3, o4>>
  BY <1>1, <1>2, <1>6
<1>8. {"kernel", "initramfs", "kernel_stack", "boot_info"} \subseteq Kinds
  BY DEF Kinds
<1>9. /\ o1 \in Span /\ Aligned(o1) /\ o2 \in Span /\ Aligned(o2)
      /\ o3 \in Span /\ Aligned(o3) /\ o4 \in Span /\ Aligned(o4)
  BY <1>3, <1>4, <1>6, <1>8, SpanOf
<1>10. ASSUME NEW a \in Nat
       PROVE  /\ ~(In(o1, a) /\ In(o2, a)) /\ ~(In(o1, a) /\ In(o3, a)) /\ ~(In(o1, a) /\ In(o4, a))
              /\ ~(In(o2, a) /\ In(o3, a)) /\ ~(In(o2, a) /\ In(o4, a)) /\ ~(In(o3, a) /\ In(o4, a))
  <2>1. PICK q : q = a \div PAGE
    OBVIOUS
  <2>2. q \in Nat
    BY <2>1, PageAssumption
  <2>3. In(o1, a) => k <= q /\ q < k + n
    BY <1>4, <1>6, <1>8, <2>1, SpanOf
  <2>4. In(o2, a) => i <= q /\ q < i + 1
    BY <1>3, <1>6, <1>8, <2>1, SpanOf
  <2>5. In(o3, a) => s <= q /\ q < s + 1
    BY <1>3, <1>6, <1>8, <2>1, SpanOf
  <2>6. In(o4, a) => b <= q /\ q < b + 1
    BY <1>3, <1>6, <1>8, <2>1, SpanOf
  <2>7. (In(o2, a) => q = i) /\ (In(o3, a) => q = s) /\ (In(o4, a) => q = b)
    BY <1>3, <2>2, <2>4, <2>5, <2>6
  <2>8. In(o1, a) => q \in k..(k + n - 1)
    BY <1>4, <2>2, <2>3
  <2> QED
    BY <1>3, <1>5, <2>7, <2>8
<1>11. PICK own : own = <<o1, o2, o3, o4>>
  OBVIOUS
<1>12. /\ own \in Seq(Span) /\ Len(own) = 4
       /\ own[1] = o1 /\ own[2] = o2 /\ own[3] = o3 /\ own[4] = o4
  BY <1>9, <1>11
<1>13. \A m \in 1..4 : m = 1 \/ m = 2 \/ m = 3 \/ m = 4
  OBVIOUS
<1>14. \A m \in 1..Len(own) : Aligned(own[m])
  BY <1>9, <1>12, <1>13
<1>15. ASSUME NEW m \in 1..Len(own), NEW r \in 1..Len(own), NEW a \in Nat, In(own[m], a), In(own[r], a)
       PROVE  m = r
  BY <1>10, <1>12, <1>13, <1>15
<1> QED
  BY <1>7, <1>11, <1>12, <1>14, <1>15 DEF Spanned

\* A record that was built shows the normalised map, and no two of its ranges overlap.
LEMMA PublishDoes ==
  ASSUME NEW m, publishBootInfo(m).ok
  PROVE  LET n == normalize(readFinalMap(m), owned, RangeStorage) IN
         n.ok /\ publishBootInfo(m).info.ranges = n.ranges /\ ~rangesOverlap(n.ranges)
<1>1. PICK n : n = normalize(readFinalMap(m), owned, RangeStorage)
  OBVIOUS
<1>2. PICK rec :
        rec = [header |-> Len(n.ranges) <= MAX_RANGES, ranges |-> n.ranges,
               entry |-> KERNEL_BASE,
               kernel |-> [base |-> owned[1].base, size |-> owned[1].size],
               initramfs |-> [base |-> owned[2].base, size |-> initrd_len],
               stack |-> [base |-> owned[3].base, size |-> owned[3].size],
               self |-> [base |-> owned[4].base, size |-> owned[4].size]]
  OBVIOUS
<1>3. PICK p : p = publishBootInfo(m)
  OBVIOUS
<1>4. p = [ok |-> ~mapRefused(m) /\ n.ok /\ n.ranges # << >> /\ validate(rec), info |-> rec]
  BY <1>1, <1>2, <1>3 DEF publishBootInfo, With
<1>5. p.ok <=> ~mapRefused(m) /\ n.ok /\ n.ranges # << >> /\ validate(rec)
  BY <1>4
<1>6. p.info = rec /\ rec.ranges = n.ranges
  BY <1>2, <1>4
<1>7. validate(rec) => ~rangesOverlap(rec.ranges)
  BY DEF validate
<1> QED
  BY <1>1, <1>3, <1>5, <1>6, <1>7

LEMMA MapKindDoes == \A t : mapKind(t) \in Kinds
  BY DEF mapKind, Kinds

\* The firmware's map as normalize reads it: for each page a descriptor of its kind.
LEMMA ReadDoes ==
  /\ readFinalMap(FirmwareMap) \in Seq(Descriptor)
  /\ \A p \in 0..(Pages - 1) : \E j \in 1..Len(readFinalMap(FirmwareMap)) :
       LET d == readFinalMap(FirmwareMap)[j] IN
       /\ d.start % PAGE = 0 /\ d.start <= p * PAGE /\ p * PAGE < d.start + d.pages * PAGE
       /\ d.kind = mapKind(types[p])
<1>1. PICK m, rd : m = FirmwareMap /\ rd = readFinalMap(m)
  OBVIOUS
<1>2. PICK T : T = {types[p] : p \in 0..(Pages - 1)}
  OBVIOUS
<1>3. /\ m \in Seq([start : Nat, type : T, pages : Nat])
      /\ \A j \in 1..Len(m) : m[j].start % PAGE = 0
      /\ \A p \in 0..(Pages - 1) : \E j \in 1..Len(m) :
           m[j].start <= p * PAGE /\ p * PAGE < m[j].start + m[j].pages * PAGE /\ m[j].type = types[p]
  BY <1>1, <1>2, FirmwareMapDoes
<1>4. Len(m) \in Nat /\ \A j \in 1..Len(m) : m[j].start \in Nat /\ m[j].pages \in Nat
  <2>1. Len(m) \in Nat /\ \A j \in 1..Len(m) : m[j] \in [start : Nat, type : T, pages : Nat]
    <3>1. PICK D : D = [start : Nat, type : T, pages : Nat]
      OBVIOUS
    <3>2. m \in Seq(D)
      BY <1>3, <3>1
    <3>3. Len(m) \in Nat /\ \A j \in 1..Len(m) : m[j] \in D
      BY <3>2
    <3> QED
      BY <3>1, <3>3
  <2> QED
    BY <2>1
<1>5. rd = [j \in 1..Len(m) |->
              [start |-> m[j].start, pages |-> m[j].pages, kind |-> mapKind(m[j].type)]]
  BY <1>1 DEF readFinalMap
<1>6. \A j \in 1..Len(m) :
        [start |-> m[j].start, pages |-> m[j].pages, kind |-> mapKind(m[j].type)] \in Descriptor
  BY <1>4, MapKindDoes DEF Descriptor
<1>7. rd \in Seq(Descriptor) /\ Len(rd) = Len(m)
  BY <1>4, <1>5, <1>6
<1>8. \A j \in 1..Len(m) : /\ rd[j].start = m[j].start /\ rd[j].pages = m[j].pages
                           /\ rd[j].kind = mapKind(m[j].type)
  BY <1>5
<1>9. ASSUME NEW p \in 0..(Pages - 1)
      PROVE  \E j \in 1..Len(rd) :
               /\ rd[j].start % PAGE = 0 /\ rd[j].start <= p * PAGE
               /\ p * PAGE < rd[j].start + rd[j].pages * PAGE /\ rd[j].kind = mapKind(types[p])
  <2>1. PICK j \in 1..Len(m) :
          m[j].start <= p * PAGE /\ p * PAGE < m[j].start + m[j].pages * PAGE /\ m[j].type = types[p]
    BY <1>3
  <2>2. m[j].start % PAGE = 0
    BY <1>3
  <2> QED
    BY <1>7, <1>8, <2>1, <2>2
<1> QED
  BY <1>1, <1>7, <1>9

\* What the kernel is told of every page, when the record was built from the map
\* the firmware has.
LEMMA RecordTellsTheTruth ==
  ASSUME Spanned(owned), publishBootInfo(FirmwareMap).ok,
         info = publishBootInfo(FirmwareMap).info
  PROVE  HandoffIsCurrent
<1>1. PICK rd, rs : /\ rd = readFinalMap(FirmwareMap)
                    /\ rs = normalize(rd, owned, RangeStorage).ranges
  OBVIOUS
<1>2. normalize(rd, owned, RangeStorage).ok /\ info.ranges = rs /\ ~rangesOverlap(rs)
  BY <1>1, PublishDoes
<1>3. /\ rd \in Seq(Descriptor) /\ Len(rd) \in Nat
      /\ \A p \in 0..(Pages - 1) : \E j \in 1..Len(rd) :
           /\ rd[j].start % PAGE = 0 /\ rd[j].start <= p * PAGE
           /\ p * PAGE < rd[j].start + rd[j].pages * PAGE
           /\ rd[j].kind = mapKind(types[p])
  BY <1>1, ReadDoes
<1>4. owned \in Seq(Span) /\ \A m \in 1..Len(owned) : Aligned(owned[m])
  BY DEF Spanned
<1>5. /\ rs \in Seq(PhysRange)
      /\ \A j \in 1..Len(rd) : \A a \in Nat :
           /\ rd[j].start % PAGE = 0 /\ \A m \in 1..Len(owned) : Aligned(owned[m])
           /\ rd[j].start <= a /\ a < rd[j].start + rd[j].pages * PAGE
           => \E i \in 1..Len(rs) : /\ rs[i].phys_start <= a /\ a < endAddr(rs[i])
                                    /\ Coloured(owned, Len(owned), rd[j].kind, a, rs[i].kind)
  <2>1. rd \in Seq(Descriptor) /\ owned \in Seq(Span) /\ normalize(rd, owned, RangeStorage).ok
    BY <1>2, <1>3, <1>4
  <2>2. /\ normalize(rd, owned, RangeStorage).ranges \in Seq(PhysRange)
        /\ \A j \in 1..Len(rd) : \A a \in Nat :
             /\ rd[j].start % PAGE = 0 /\ \A m \in 1..Len(owned) : Aligned(owned[m])
             /\ rd[j].start <= a /\ a < rd[j].start + rd[j].pages * PAGE
             => \E i \in 1..Len(normalize(rd, owned, RangeStorage).ranges) :
                  LET r == normalize(rd, owned, RangeStorage).ranges[i] IN
                  /\ r.phys_start <= a /\ a < endAddr(r)
                  /\ Coloured(owned, Len(owned), rd[j].kind, a, r.kind)
    BY <2>1, NormalizeDoes, Zenon
  <2> QED
    BY <1>1, <2>2, Zenon
<1>6. Len(rs) \in Nat /\ \A i \in 1..Len(rs) : rs[i].phys_start \in Nat /\ endAddr(rs[i]) \in Nat
  <2>1. Len(rs) \in Nat /\ \A i \in 1..Len(rs) : rs[i] \in PhysRange
    BY <1>5
  <2>2. \A i \in 1..Len(rs) : rs[i].phys_start \in Nat /\ rs[i].page_count \in Nat
    BY <2>1 DEF PhysRange
  <2>3. \A x, y \in Nat : x + y * PAGE \in Nat
    BY PageAssumption
  <2> QED
    BY <2>1, <2>2, <2>3 DEF endAddr
<1> SUFFICES ASSUME NEW p \in 0..(Pages - 1)
             PROVE  LET a == p * PAGE
                        at == {j \in 1..Len(rs) : rs[j].phys_start <= a /\ a < endAddr(rs[j])}
                        mine == {k \in 1..Len(owned) : owned[k].base <= a /\ a < owned[k].base + owned[k].size}
                    IN \E j \in at :
                         /\ at = {j}
                         /\ rs[j].kind = IF mine # {} THEN owned[Min(mine)].kind ELSE mapKind(types[p])
  BY <1>2 DEF HandoffIsCurrent
<1>7. PICK a : a = p * PAGE
  OBVIOUS
<1>8. a \in Nat
  <2>1. p \in Nat
    BY LoaderAssumption
  <2> QED
    BY <1>7, <2>1, PageOrder
<1>9. PICK j \in 1..Len(rd) :
        /\ rd[j].start % PAGE = 0 /\ rd[j].start <= a
        /\ a < rd[j].start + rd[j].pages * PAGE /\ rd[j].kind = mapKind(types[p])
  BY <1>3, <1>7
<1>10. PICK i \in 1..Len(rs) : /\ rs[i].phys_start <= a /\ a < endAddr(rs[i])
                               /\ Coloured(owned, Len(owned), rd[j].kind, a, rs[i].kind)
  BY <1>4, <1>5, <1>8, <1>9
<1>11. ASSUME NEW l \in 1..Len(rs), rs[l].phys_start <= a, a < endAddr(rs[l]) PROVE l = i
  <2>1. /\ rs[i].phys_start < endAddr(rs[l]) /\ rs[l].phys_start < endAddr(rs[i])
    BY <1>6, <1>8, <1>10, <1>11
  <2>2. ~(i < l) /\ ~(l < i)
    BY <1>2, <2>1 DEF rangesOverlap
  <2> QED
    BY <1>6, <2>2
<1>12. {l \in 1..Len(rs) : rs[l].phys_start <= a /\ a < endAddr(rs[l])} = {i}
  BY <1>10, <1>11
<1>13. PICK mine : mine = {k \in 1..Len(owned) : owned[k].base <= a /\ a < owned[k].base + owned[k].size}
  OBVIOUS
<1>14. \A k \in 1..Len(owned) : k \in mine <=> In(owned[k], a)
  BY <1>13 DEF In
<1>15. Len(owned) \in Nat /\ mine \subseteq 1..Len(owned) /\ mine \subseteq Nat
  BY <1>4, <1>13
<1>16. rs[i].kind = IF mine # {} THEN owned[Min(mine)].kind ELSE mapKind(types[p])
  <2>1. CASE mine = {}
    BY <1>9, <1>10, <1>14, <2>1 DEF Coloured
  <2>2. CASE mine # {}
    <3>1. PICK k : k = Min(mine)
      OBVIOUS
    <3>2. k \in mine /\ k \in 1..Len(owned) /\ In(owned[k], a)
      BY <1>14, <1>15, <2>2, <3>1, MinDoes
    <3>3. \A m \in 1..Len(owned) : In(owned[m], a) => m = k
      BY <1>8, <3>2 DEF Spanned
    <3> QED
      BY <1>10, <2>2, <3>1, <3>2, <3>3 DEF Coloured
  <2> QED
    BY <2>1, <2>2
<1> QED
  BY <1>7, <1>10, <1>12, <1>13, <1>16

-----------------------------------------------------------------------------
(* The loader's steps. *)

\* Where the loader can be once it has tried ExitBootServices: boundary records it
\* from the first refusal on, and without a refusal the loader is in the kernel.
Boundary ==
  /\ boundary \in {"pre_ebs", "post_ebs"} /\ tried \in BOOLEAN
  /\ tried => boundary = "post_ebs" \/ pc = "handoff"
  /\ tried => pc \in {"publish", "ebs", "retry_retained", "fail_halt", "halted", "handoff"}

\* Retries and growths stay within their limits.
Limits ==
  /\ attempt \in Nat /\ attempt < EBS_RETRIES
  /\ growth \in Nat /\ growth <= MAP_GROWTHS
  /\ pc = "grow" => growth < MAP_GROWTHS

\* The snapshot is what the firmware would say now, unless it is stale.
Snapshot ==
  /\ stale \in BOOLEAN
  /\ stale = FALSE => map = FirmwareMap

\* The record was built from the snapshot in the buffer, and passed its checks.
Built ==
  pc \in {"ebs", "handoff"} => publishBootInfo(map).ok /\ info = publishBootInfo(map).info

\* The kernel is entered with a record built from the map the firmware had when
\* ExitBootServices succeeded.
HandoffIsBuilt ==
  pc = "handoff" =>
    /\ stale = FALSE /\ map = FirmwareMap
    /\ publishBootInfo(FirmwareMap).ok /\ info = publishBootInfo(FirmwareMap).info

LoaderInv ==
  /\ Boundary /\ Limits /\ Snapshot /\ Built
  /\ pc = "handoff" => stale = FALSE

-----------------------------------------------------------------------------

LEMMA MapOfTypes == ASSUME UNCHANGED types PROVE FirmwareMap' = FirmwareMap
  BY DEF FirmwareMap, Starts, With

LEMMA RecordOfOwned ==
  ASSUME UNCHANGED owned, UNCHANGED map PROVE publishBootInfo(map)' = publishBootInfo(map)
  BY DEF publishBootInfo, With

\* Stop leaves everything but where the loader is.
LEMMA StopKeeps ==
  ASSUME LoaderInv, NEW where \in {"returned", "halted"}, Stop(where),
         where = "returned" => tried = FALSE, pc # "handoff"
  PROVE  LoaderInv'
<1>1. FirmwareMap' = FirmwareMap /\ publishBootInfo(map)' = publishBootInfo(map)
  BY MapOfTypes, RecordOfOwned DEF Stop, fwVars
<1>2. pc' = where /\ UNCHANGED <<stale, tried, growth, map, attempt, boundary, info>>
  BY DEF Stop, fwVars
<1>3. Boundary'
  BY <1>2 DEF LoaderInv, Boundary
<1>4. Limits'
  BY <1>2 DEF LoaderInv, Limits
<1> QED
  BY <1>1, <1>2, <1>3, <1>4 DEF LoaderInv, Snapshot, Built

\* The steps before the first ExitBootServices.
LEMMA EarlyKeeps ==
  ASSUME LoaderInv, Load \/ LoadFails \/ MapInfo \/ AllocMap \/ FreeMap \/ Grow \/ GiveUp
  PROVE  LoaderInv'
<1> USE LoaderAssumption
<1>1. tried = FALSE
  BY DEF LoaderInv, Boundary, Load, LoadFails, MapInfo, AllocMap, FreeMap, Grow, GiveUp
<1>2. CASE LoadFails \/ GiveUp
  BY <1>1, <1>2, StopKeeps DEF LoadFails, GiveUp
<1>3. CASE Load \/ MapInfo \/ AllocMap \/ FreeMap \/ Grow
  <2>1. /\ pc' \in {"info", "alloc", "get", "grow", "fail_return"} /\ tried' = FALSE
        /\ UNCHANGED <<map, boundary, attempt, info>>
    BY <1>1, <1>3 DEF Load, MapInfo, AllocMap, FreeMap, Grow, Calls, onGetMemoryMapError
  <2>2. stale' = TRUE \/ UNCHANGED <<types, stale>>
    BY <1>3 DEF Load, MapInfo, AllocMap, FreeMap, Grow, NoChange
  <2>3. Snapshot'
    BY <2>1, <2>2, MapOfTypes DEF LoaderInv, Snapshot
  <2>4. growth \in Nat /\ growth <= MAP_GROWTHS /\ (pc = "grow" => growth < MAP_GROWTHS)
    BY DEF LoaderInv, Limits
  <2>5. growth' \in Nat /\ growth' <= MAP_GROWTHS /\ (pc' = "grow" => growth' < MAP_GROWTHS)
    <3>1. CASE Grow
      BY <2>4, <3>1 DEF Grow
    <3>2. CASE FreeMap
      BY <2>4, <3>2 DEF FreeMap, onGetMemoryMapError
    <3>3. CASE Load \/ MapInfo \/ AllocMap
      BY <2>4, <3>3 DEF Load, MapInfo, AllocMap
    <3> QED
      BY <1>3, <3>1, <3>2, <3>3
  <2>6. Limits'
    BY <2>1, <2>5 DEF LoaderInv, Limits
  <2>7. Boundary'
    BY <2>1 DEF LoaderInv, Boundary
  <2> QED
    BY <2>1, <2>3, <2>6, <2>7 DEF LoaderInv, Built
<1> QED
  BY <1>2, <1>3

\* GetMemoryMap, before the boundary and after it.
LEMMA GetMapKeeps ==
  ASSUME LoaderInv, NEW where \in {"get", "retry_retained"}, GetMap(where)
  PROVE  LoaderInv'
<1>1. /\ pc = where /\ pc' = "publish" /\ map' = FirmwareMap
      /\ UNCHANGED <<tried, types, attempt, growth, boundary>> /\ stale' = FALSE
  BY DEF GetMap, Calls
<1>2. FirmwareMap' = FirmwareMap
  BY <1>1, MapOfTypes
<1>3. Boundary'
  BY <1>1 DEF LoaderInv, Boundary
<1>4. Limits'
  BY <1>1 DEF LoaderInv, Limits
<1> QED
  BY <1>1, <1>2, <1>3, <1>4 DEF LoaderInv, Snapshot, Built

\* The record is built, or the loader stops on its side of the boundary.
LEMMA PublishKeeps ==
  ASSUME LoaderInv, Publish
  PROVE  LoaderInv'
<1>1. pc = "publish"
  BY DEF Publish
<1>2. CASE publishBootInfo(map).ok /\ Published(publishBootInfo(map).info)
  <2>1. /\ pc' = "ebs" /\ info' = publishBootInfo(map).info
        /\ UNCHANGED <<tried, types, stale, map, owned, attempt, growth, boundary>>
    BY <1>2 DEF Published, Calls, NoChange
  <2>2. FirmwareMap' = FirmwareMap /\ publishBootInfo(map)' = publishBootInfo(map)
    BY <2>1, MapOfTypes, RecordOfOwned
  <2>3. Boundary'
    BY <1>1, <2>1 DEF LoaderInv, Boundary
  <2>4. Limits'
    BY <2>1 DEF LoaderInv, Limits
  <2> QED
    BY <1>2, <2>1, <2>2, <2>3, <2>4 DEF LoaderInv, Snapshot, Built
<1>3. CASE Unpublished
  <2>1. boundary = "post_ebs" \/ tried = FALSE
    BY <1>1 DEF LoaderInv, Boundary
  <2> QED
    BY <1>1, <1>3, <2>1, StopKeeps DEF Unpublished
<1> QED
  BY <1>2, <1>3 DEF Publish

\* ExitBootServices and what follows a refusal.
LEMMA ExitKeeps ==
  ASSUME LoaderInv, Exit \/ Refused \/ RegetFails \/ Halt
  PROVE  LoaderInv'
<1> USE LoaderAssumption
<1>1. CASE RegetFails \/ Halt
  BY <1>1, StopKeeps DEF RegetFails, Halt
<1>2. CASE Exit \/ Refused
  <2>1. /\ pc = "ebs" /\ tried' = TRUE
        /\ UNCHANGED <<types, stale, map, owned, growth, info>>
    BY <1>2 DEF Exit, Refused, NoChange
  <2>2. FirmwareMap' = FirmwareMap /\ publishBootInfo(map)' = publishBootInfo(map)
    BY <2>1, MapOfTypes, RecordOfOwned
  <2>3. CASE Exit
    <3>1. pc' = "handoff" /\ stale = FALSE /\ UNCHANGED <<attempt, boundary>>
      BY <2>3 DEF Exit, LoaderInv, Snapshot
    <3>2. Boundary'
      BY <2>1, <3>1 DEF LoaderInv, Boundary
    <3>3. Limits'
      BY <2>1, <3>1 DEF LoaderInv, Limits
    <3> QED
      BY <2>1, <2>2, <3>1, <3>2, <3>3 DEF LoaderInv, Snapshot, Built
  <2>4. CASE Refused
    <3>1. pc' \in {"retry_retained", "fail_halt"} /\ boundary' = "post_ebs"
      BY <2>4 DEF Refused, onExitBootServicesError
    <3>2. Boundary'
      BY <2>1, <3>1 DEF LoaderInv, Boundary
    <3>3. attempt \in Nat /\ attempt < EBS_RETRIES /\ EBS_RETRIES \in Nat
      BY DEF LoaderInv, Limits
    <3>4. attempt' = attempt \/ (attempt' = attempt + 1 /\ attempt + 1 < EBS_RETRIES)
      BY <2>4 DEF Refused, onExitBootServicesError
    <3>5. attempt' \in Nat /\ attempt' < EBS_RETRIES
      BY <3>3, <3>4
    <3>6. Limits'
      BY <2>1, <3>1, <3>5 DEF LoaderInv, Limits
    <3> QED
      BY <2>1, <2>2, <3>1, <3>2, <3>6 DEF LoaderInv, Snapshot, Built
  <2> QED
    BY <1>2, <2>3, <2>4
<1> QED
  BY <1>1, <1>2

\* The firmware changes its map only while the loader looks.
LEMMA ChangeKeeps ==
  ASSUME LoaderInv, Change
  PROVE  LoaderInv'
<1>1. /\ stale' = TRUE /\ pc # "handoff"
      /\ UNCHANGED <<tried, pc, growth, map, attempt, boundary, owned, info>>
  BY DEF Change, Ended
<1>2. publishBootInfo(map)' = publishBootInfo(map)
  BY <1>1, RecordOfOwned
<1>3. Boundary'
  BY <1>1 DEF LoaderInv, Boundary
<1>4. Limits'
  BY <1>1 DEF LoaderInv, Limits
<1> QED
  BY <1>1, <1>2, <1>3, <1>4 DEF LoaderInv, Snapshot, Built

-----------------------------------------------------------------------------
(* The theorems. *)

LEMMA LoaderInit == Init => LoaderInv
<1> SUFFICES ASSUME Init PROVE LoaderInv
  OBVIOUS
<1>1. 0 < EBS_RETRIES /\ 0 <= MAP_GROWTHS
  <2>1. EBS_RETRIES \in Nat \ {0} /\ MAP_GROWTHS \in Nat
    BY LoaderAssumption
  <2> QED
    BY <2>1
<1>2. Limits
  BY <1>1 DEF Init, Limits
<1> QED
  BY <1>2 DEF Init, LoaderInv, Boundary, Snapshot, Built

LEMMA LoaderStep == LoaderInv /\ [Next]_vars => LoaderInv'
<1> SUFFICES ASSUME LoaderInv, [Next]_vars PROVE LoaderInv'
  OBVIOUS
<1>1. CASE Step
  BY <1>1, EarlyKeeps, GetMapKeeps, PublishKeeps, ExitKeeps DEF Step
<1>2. CASE Change
  BY <1>2, ChangeKeeps
<1>3. CASE UNCHANGED vars
  <2>1. FirmwareMap' = FirmwareMap /\ publishBootInfo(map)' = publishBootInfo(map)
    BY <1>3, MapOfTypes, RecordOfOwned DEF vars, fwVars
  <2>2. Boundary' /\ Limits'
    BY <1>3 DEF LoaderInv, Boundary, Limits, vars, fwVars
  <2> QED
    BY <1>3, <2>1, <2>2 DEF LoaderInv, Snapshot, Built, vars, fwVars
<1> QED
  BY <1>1, <1>2, <1>3 DEF Next

\* The inductive invariant: the boundary flag is set from the first refusal on,
\* retries and growths are within their limits, a snapshot that is not stale is the
\* firmware's own map, and the record offered to ExitBootServices was built from it.
THEOREM LoaderInvariant == Spec => []LoaderInv
  BY LoaderInit, LoaderStep, PTL DEF Spec

\* After the first ExitBootServices the loader asks the firmware for nothing but
\* the map and another exit, and an error halts it instead of returning.
THEOREM FirmwareCallsAreLegal == Spec => OnlyLegalCalls
<1> DEFINE Legal == tried => call' \in {"none", "get_memory_map", "exit_boot_services", "halt"}
<1>1. LoaderInv /\ [Next]_vars => [Legal]_vars
  <2> SUFFICES ASSUME LoaderInv, Next, tried PROVE Legal
    BY DEF vars
  <2>1. pc \in {"publish", "ebs", "retry_retained", "fail_halt", "halted", "handoff"}
    BY DEF LoaderInv, Boundary
  <2>2. CASE Change
    BY <2>2 DEF Change
  <2>3. CASE Publish
    <3>1. boundary = "post_ebs"
      BY <2>3 DEF LoaderInv, Boundary, Publish
    <3> QED
      BY <2>3, <3>1 DEF Publish, Published, Unpublished, Stop, Calls
  <2>4. CASE Exit \/ Refused \/ GetMap("retry_retained") \/ RegetFails \/ Halt
    BY <2>4 DEF Exit, Refused, GetMap, RegetFails, Halt, Stop, Calls
  <2>5. ~(Load \/ LoadFails \/ MapInfo \/ AllocMap \/ GetMap("get") \/ FreeMap \/ Grow \/ GiveUp)
    BY <2>1 DEF Load, LoadFails, MapInfo, AllocMap, GetMap, FreeMap, Grow, GiveUp
  <2> QED
    BY <2>2, <2>3, <2>4, <2>5 DEF Next, Step
<1> QED
  BY <1>1, LoaderInvariant, PTL DEF Spec, OnlyLegalCalls

\* However often the map changed before, the record the kernel is entered with was
\* built from the map the firmware has at that moment, and passed validate.
THEOREM HandoffMapIsCurrent == Spec => []HandoffIsBuilt
<1>1. LoaderInv => HandoffIsBuilt
  BY DEF LoaderInv, Snapshot, Built, HandoffIsBuilt
<1> QED
  BY <1>1, LoaderInvariant, PTL

LEMMA SpansStep == Spanned(owned) /\ [Next]_vars => Spanned(owned)'
<1> SUFFICES ASSUME Spanned(owned), [Next]_vars PROVE Spanned(owned)'
  OBVIOUS
<1>1. CASE Load
  BY <1>1, LoadSpans
<1>2. CASE ~Load
  <2>1. owned' = owned
    BY <1>2 DEF Next, Step, vars, fwVars, Change, LoadFails, MapInfo, AllocMap, GetMap, FreeMap,
                Grow, GiveUp, Publish, Published, Unpublished, Exit, Refused, RegetFails, Halt, Stop
  <2> QED
    BY <2>1
<1> QED
  BY <1>1, <1>2

\* The objects the loader hands over are whole pages that no two of them share.
THEOREM SpansAreDisjoint == Spec => []Spanned(owned)
<1>1. Init => Spanned(owned)
  BY DEF Init, Spanned
<1> QED
  BY <1>1, SpansStep, PTL DEF Spec

\* The kernel is told the truth: at the jump every page of the machine is in exactly
\* one range of the BootInfo, of the kind of the loader's object it belongs to or
\* else of what the firmware says it is at that moment.
THEOREM HandoffTellsTheTruth == Spec => []HandoffIsCurrent
<1>1. HandoffIsBuilt /\ Spanned(owned) => HandoffIsCurrent
  <2>1. CASE pc = "handoff"
    BY <2>1, RecordTellsTheTruth DEF HandoffIsBuilt
  <2>2. CASE pc # "handoff"
    BY <2>2 DEF HandoffIsCurrent
  <2> QED
    BY <2>1, <2>2
<1> QED
  BY <1>1, HandoffMapIsCurrent, SpansAreDisjoint, PTL
=============================================================================
