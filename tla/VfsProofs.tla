----------------------------- MODULE VfsProofs -----------------------------
(***************************************************************************)
(* Proofs about the ramfs, for tables, child lists, quotas and sets of     *)
(* paths of any size.                                                      *)
(***************************************************************************)
EXTENDS Vfs, FiniteSetTheorems, NaturalsInduction, WellFoundedInduction, SequenceTheorems, TLAPS

-----------------------------------------------------------------------------
(* Naturals, and walks of a bounded number of steps. *)

\* A set of naturals that is not empty has a least element.
LEMMA LeastNat ==
  ASSUME NEW S, S \subseteq Nat, S # {}
  PROVE  \E n \in S : \A m \in S : n <= m
<1>1. PICK n \in S : \A m \in S : ~(<<m, n>> \in OpToRel(<, Nat))
  BY NatLessThanWellFounded, WFMin
<1>2. \A m \in S : ~(m < n)
  BY <1>1 DEF OpToRel
<1> QED
  BY <1>2

\* What holds at 0, and at k when at k - 1, holds up to n.
LEMMA UpTo ==
  ASSUME NEW n \in Nat, NEW S, 0 \in S, \A k \in 1..n : k - 1 \in S => k \in S
  PROVE  \A k \in 0..n : k \in S
<1>1. SUFFICES ASSUME NEW m \in 0..n, m \notin S PROVE FALSE
  OBVIOUS
<1> DEFINE Bad == {k \in 0..n : k \notin S}
<1>2. Bad \subseteq Nat /\ Bad # {}
  BY <1>1
<1>3. PICK k \in Bad : \A j \in Bad : k <= j
  BY <1>2, LeastNat
<1>4. k \in 1..n /\ k - 1 \in 0..n /\ ~(k <= k - 1)
  BY <1>3
<1>5. k - 1 \notin Bad
  BY <1>3, <1>4
<1> QED
  BY <1>3, <1>4, <1>5

\* A step and the one before it.
LEMMA StepBack ==
  ASSUME NEW n \in Nat, NEW k \in 1..n
  PROVE  k \in 0..n /\ k - 1 \in 0..n
OBVIOUS

\* Among n + 1 places taken from n, two are the same.
LEMMA TwoMeet ==
  ASSUME NEW n \in Nat, NEW f \in [0..n -> 1..n]
  PROVE  \E x, y \in 0..n : x # y /\ f[x] = f[y]
<1>1. /\ IsFiniteSet(1..n) /\ Cardinality(1..n) = n
      /\ IsFiniteSet(0..n) /\ Cardinality(0..n) = n + 1
  BY FS_Interval
<1>2. PICK S, T : S = 0..n /\ T = 1..n
  OBVIOUS
<1>3. IsFiniteSet(S) /\ IsFiniteSet(T) /\ Cardinality(T) < Cardinality(S) /\ f \in [S -> T]
  BY <1>1, <1>2
<1>4. \E x, y \in S : x # y /\ f[x] = f[y]
  BY <1>3, FS_PigeonHole
<1> QED
  BY <1>2, <1>4

\* Min picks a member.
LEMMA MinDoes ==
  ASSUME NEW S, S \subseteq Nat, S # {}
  PROVE  Min(S) \in S /\ \A x \in S : Min(S) <= x
<1>1. PICK n \in S : \A m \in S : n <= m
  BY LeastNat
<1> QED
  BY <1>1 DEF Min

\* A walk of n steps: h starts at a and F gives each next place.
Walk(h, n, S, a, F) ==
  /\ h \in [0..n -> S]
  /\ h[0] = a
  /\ \A k \in 1..n : h[k] = F[<<k, h[k - 1]>>]

\* There is a walk of any number of steps.
LEMMA WalkExists ==
  ASSUME NEW n \in Nat, NEW S, NEW a \in S, NEW F \in [(1..n) \X S -> S]
  PROVE  \E h : Walk(h, n, S, a, F)
<1> DEFINE Have == {m \in 0..n : \E h : Walk(h, m, S, a, F)}
<1>1. 0 \in Have
  <2>1. PICK h : h = [k \in 0..0 |-> a]
    OBVIOUS
  <2>2. Walk(h, 0, S, a, F)
    BY <2>1 DEF Walk
  <2> QED
    BY <2>2
<1>2. ASSUME NEW m \in 1..n, m - 1 \in Have PROVE m \in Have
  <2>1. m - 1 \in Nat /\ m \in 0..n /\ m \in Nat /\ m - 1 \in 0..(m - 1)
    OBVIOUS
  <2>2. PICK g : Walk(g, m - 1, S, a, F)
    BY <1>2
  <2>3. g \in [0..(m - 1) -> S] /\ g[m - 1] \in S
    BY <2>1, <2>2 DEF Walk
  <2>4. PICK h : h = [k \in 0..m |-> IF k = m THEN F[<<m, g[m - 1]>>] ELSE g[k]]
    OBVIOUS
  <2>5. h \in [0..m -> S]
    <3>1. \A k \in 0..m : k # m => k \in 0..(m - 1)
      BY <2>1
    <3>2. F[<<m, g[m - 1]>>] \in S
      BY <2>3
    <3> QED
      BY <2>3, <2>4, <3>1, <3>2
  <2>6. h[0] = a
    <3>1. 0 \in 0..m /\ 0 # m
      BY <2>1
    <3> QED
      BY <2>2, <2>4, <3>1 DEF Walk
  <2>7. ASSUME NEW k \in 1..m PROVE h[k] = F[<<k, h[k - 1]>>]
    <3>1. k \in 0..m /\ k - 1 \in 0..m /\ k - 1 # m
      BY <2>1
    <3>2. h[k - 1] = g[k - 1]
      BY <2>4, <3>1
    <3>3. CASE k = m
      BY <2>4, <3>1, <3>2, <3>3
    <3>4. CASE k # m
      <4>1. k \in 1..(m - 1)
        BY <3>4, <2>1
      <4>2. g[k] = F[<<k, g[k - 1]>>] /\ h[k] = g[k]
        BY <2>2, <2>4, <3>1, <3>4, <4>1 DEF Walk
      <4> QED
        BY <3>2, <4>2
    <3> QED
      BY <3>3, <3>4
  <2>8. Walk(h, m, S, a, F)
    BY <2>5, <2>6, <2>7 DEF Walk
  <2> QED
    BY <2>1, <2>8
<1>3. n \in Have
  <2>1. \A k \in 1..n : k - 1 \in Have => k \in Have
    BY <1>2
  <2> HIDE DEF Have
  <2>2. \A k \in 0..n : k \in Have
    BY <1>1, <2>1, UpTo
  <2> QED
    BY <2>2
<1> QED
  BY <1>3

-----------------------------------------------------------------------------
(* Tables. *)

\* Components of paths, and the root's name.
Words == STRING \cup {"/", ".", ".."}

Dentry == [used : BOOLEAN, name : Seq(Words), inode : 0..MAX_INODES, parent : 0..MAX_DENTRIES,
           children : Seq(Dentries)]
Inode == [used : BOOLEAN, data : Nat \cup {NoData}, size : Nat, ops : BOOLEAN]
File == [used : BOOLEAN, dentry : 0..MAX_DENTRIES, inode : 0..MAX_INODES, pos : Nat]
Table == [Dentries -> Dentry]

\* The types of the tables; a file in use names a dentry and an inode.
VfsTypeOK ==
  /\ dentries \in Table
  /\ inodes \in [Inodes -> Inode]
  /\ files \in [Fds -> File]
  /\ \A fd \in Fds : files[fd].used => files[fd].dentry # None /\ files[fd].inode # None
  /\ jail \in 0..MAX_DENTRIES
  /\ used \in Nat /\ held \in Int /\ bends \in Nat

\* A slot FreeSlot gives is one that is not in use.
LEMMA FreeSlotDoes ==
  ASSUME NEW n \in Nat, NEW R, NEW table \in [1..n -> R]
  PROVE  /\ FreeSlot(table) \in 0..n
         /\ FreeSlot(table) # None => FreeSlot(table) \in 1..n /\ ~table[FreeSlot(table)].used
<1> DEFINE free == {i \in DOMAIN table : ~table[i].used}
<1>1. free \subseteq Nat /\ DOMAIN table = 1..n
  OBVIOUS
<1>2. CASE free = {}
  BY <1>2 DEF FreeSlot, None
<1>3. CASE free # {}
  <2>1. Min(free) \in free
    BY <1>1, <1>3, MinDoes
  <2> QED
    BY <1>1, <1>3, <2>1 DEF FreeSlot, None
<1> QED
  BY <1>2, <1>3

\* A child found by lookupChild is on the list, or a live dentry with that parent.
LEMMA LookupChildDoes ==
  ASSUME NEW D \in Table, NEW p \in Dentries, NEW c
  PROVE  LET e == lookupChild(D, p, c) IN
         /\ e \in 0..MAX_DENTRIES
         /\ e # None => \/ e \in Range(D[p].children)
                        \/ e \in Dentries /\ D[e].used /\ D[e].inode # None /\ D[e].parent = p
<1> DEFINE list == D[p].children
           hits == {k \in DOMAIN list : D[list[k]].name = <<c>>}
           stray == {d \in Dentries : /\ D[d].used /\ D[d].inode # None
                                      /\ D[d].parent = p /\ D[d].name = <<c>>}
<1>1. MAX_DENTRIES \in Nat
  BY VfsAssumption
<1>2. list \in Seq(Dentries)
  BY DEF Table, Dentry
<1>3. CASE hits # {}
  <2>1. hits \subseteq Nat
    BY <1>2
  <2>2. Min(hits) \in hits
    BY <1>3, <2>1, MinDoes
  <2>3. PICK l, m : l = list /\ m = Min(hits)
    OBVIOUS
  <2>4. l \in Seq(Dentries) /\ m \in DOMAIN l
    BY <1>2, <2>2, <2>3
  <2>5. l[m] \in Range(l) /\ l[m] \in Dentries
    BY <2>4 DEF Range
  <2>6. l[m] \in 0..MAX_DENTRIES
    BY <1>1, <2>5 DEF Dentries
  <2>7. lookupChild(D, p, c) = l[m]
    BY <1>3, <2>3 DEF lookupChild
  <2> QED
    BY <2>3, <2>5, <2>6, <2>7
<1>4. CASE hits = {} /\ stray # {}
  <2>1. stray \subseteq Nat
    BY <1>1 DEF Dentries
  <2>2. Min(stray) \in stray
    BY <1>4, <2>1, MinDoes
  <2>3. lookupChild(D, p, c) = Min(stray)
    BY <1>4 DEF lookupChild
  <2> QED
    BY <1>1, <2>2, <2>3 DEF Dentries
<1>5. CASE hits = {} /\ stray = {}
  <2>1. lookupChild(D, p, c) = None
    BY <1>5 DEF lookupChild
  <2> QED
    BY <1>1, <2>1 DEF None
<1> QED
  BY <1>3, <1>4, <1>5

\* lookupPath follows the components one by one.
LEMMA LookupPathDoes ==
  ASSUME NEW D \in Table, NEW start \in 0..MAX_DENTRIES, NEW path \in Seq(Words)
  PROVE  \E f \in [0..Len(path) -> 0..MAX_DENTRIES] :
           /\ f[0] = start /\ lookupPath(D, start, path) = f[Len(path)]
           /\ \A k \in 1..Len(path) :
                f[k] = IF f[k - 1] = None THEN None ELSE lookupChild(D, f[k - 1], path[k])
<1> DEFINE n == Len(path)
           S == 0..MAX_DENTRIES
           next(x, k) == IF x = None THEN None ELSE lookupChild(D, x, path[k])
           F == [q \in (1..n) \X S |-> next(q[2], q[1])]
           Unfolds(h) == h = [k \in 0..n |-> IF k = 0 THEN start
                                            ELSE IF h[k - 1] = None THEN None
                                                 ELSE lookupChild(D, h[k - 1], path[k])]
<1>1. n \in Nat /\ MAX_DENTRIES \in Nat
  BY VfsAssumption
<1>2. ASSUME NEW x \in S, NEW k PROVE next(x, k) \in S
  <2>1. CASE x = None
    BY <1>1, <2>1 DEF None
  <2>2. CASE x # None
    <3>1. x \in Dentries
      BY <1>1, <2>2 DEF None, Dentries
    <3>2. lookupChild(D, x, path[k]) \in S
      BY <3>1, LookupChildDoes
    <3> QED
      BY <2>2, <3>2
  <2> QED
    BY <2>1, <2>2
<1>3. F \in [(1..n) \X S -> S]
  BY <1>2
<1>4. PICK g : Walk(g, n, S, start, F)
  <2> HIDE DEF n, F, S
  <2> QED
    BY <1>1, <1>3, WalkExists DEF S
<1>5. g \in [0..n -> S] /\ g[0] = start
  BY <1>4 DEF Walk
<1>6. ASSUME NEW k \in 1..n PROVE g[k] = next(g[k - 1], k)
  <2>1. k - 1 \in 0..n
    BY <1>1
  <2>2. g[k - 1] \in S
    BY <1>5, <2>1
  <2>3. g[k] = F[<<k, g[k - 1]>>]
    BY <1>4 DEF Walk
  <2> HIDE DEF next
  <2> QED
    BY <2>2, <2>3
<1>7. Unfolds(g)
  <2>1. \A k \in 0..n : k = 0 \/ k \in 1..n
    BY <1>1
  <2> QED
    BY <1>5, <1>6, <2>1
<1>8. PICK f : f = CHOOSE h : Unfolds(h)
  OBVIOUS
<1>9. Unfolds(f)
  BY <1>7, <1>8
<1>10. lookupPath(D, start, path) = f[n]
  BY <1>8 DEF lookupPath
<1>11. f[0] = start /\ \A k \in 1..n : f[k] = next(f[k - 1], k)
  BY <1>1, <1>9
<1>12. \A k \in 0..n : f[k] \in S
  <2> DEFINE Typed == {k \in 0..n : f[k] \in S}
  <2>1. 0 \in Typed
    BY <1>1, <1>11
  <2>2. \A k \in 1..n : k - 1 \in Typed => k \in Typed
    <3> HIDE DEF next, S
    <3> QED
      BY <1>1, <1>2, <1>11
  <2> HIDE DEF Typed
  <2>3. \A k \in 0..n : k \in Typed
    BY <1>1, <2>1, <2>2, UpTo
  <2> QED
    BY <2>3 DEF Typed
<1>13. f \in [0..n -> S]
  <2>1. f = [k \in 0..n |-> f[k]]
    BY <1>9
  <2> QED
    BY <1>12, <2>1
<1> QED
  BY <1>10, <1>11, <1>13

\* Whatever a path resolves to is a dentry, or nothing.
LEMMA LookupTyped ==
  ASSUME NEW D \in Table, NEW start \in 0..MAX_DENTRIES, NEW path \in Seq(Words)
  PROVE  lookupPath(D, start, path) \in 0..MAX_DENTRIES
<1>1. PICK f \in [0..Len(path) -> 0..MAX_DENTRIES] : lookupPath(D, start, path) = f[Len(path)]
  BY LookupPathDoes
<1> QED
  BY <1>1

-----------------------------------------------------------------------------
(* Bytes.  The sum over a set removes its elements in an order that CHOOSE
   fixes; counting the units shows that the order does not matter. *)

\* The units of the entries of F at the indices T.
Units(F, T) == {u \in T \X Nat : 1 <= u[2] /\ u[2] <= F[u[1]]}

IsCount(F, T) == \A i \in T : F[i] \in Nat

\* Taking one index away takes its units away.
LEMMA UnitsStep ==
  ASSUME NEW F, NEW T, IsCount(F, T), NEW x \in T,
         IsFiniteSet(Units(F, T \ {x}))
  PROVE  /\ IsFiniteSet(Units(F, T))
         /\ Cardinality(Units(F, T)) = F[x] + Cardinality(Units(F, T \ {x}))
<1> DEFINE A == Units(F, T \ {x})
           B == {x} \X (1..F[x])
<1>1. F[x] \in Nat
  BY DEF IsCount
<1>2. IsFiniteSet(1..F[x]) /\ Cardinality(1..F[x]) = F[x]
  BY <1>1, FS_Interval
<1>3. IsFiniteSet(B) /\ Cardinality(B) = F[x]
  <2>1. IsFiniteSet({x}) /\ Cardinality({x}) = 1
    BY FS_Singleton
  <2>2. PICK a, b : a = {x} /\ b = 1..F[x]
    OBVIOUS
  <2>3. IsFiniteSet(a) /\ Cardinality(a) = 1 /\ IsFiniteSet(b) /\ Cardinality(b) = F[x]
    BY <1>2, <2>1, <2>2
  <2>4. IsFiniteSet(a \X b) /\ Cardinality(a \X b) = 1 * F[x]
    BY <2>3, FS_Product
  <2>5. QED
    BY <1>1, <2>2, <2>4
<1>4. Units(F, T) = A \cup B
  <2>1. ASSUME NEW u \in Units(F, T) PROVE u \in A \cup B
    BY <1>1 DEF Units
  <2>2. ASSUME NEW u \in A \cup B PROVE u \in Units(F, T)
    BY <1>1 DEF Units
  <2>3. QED
    BY <2>1, <2>2
<1>5. A \cap B = {}
  BY DEF Units
<1>6. /\ IsFiniteSet(A \cup B)
      /\ Cardinality(A \cup B) = Cardinality(A) + Cardinality(B) - Cardinality(A \cap B)
  BY <1>3, FS_Union
<1>7. Cardinality(A \cap B) = 0
  BY <1>5, FS_EmptySet
<1>8. Cardinality(A) \in Nat
  BY FS_CardinalityType
<1>9. QED
  BY <1>1, <1>3, <1>4, <1>6, <1>7, <1>8

\* Finitely many indices have finitely many units.
LEMMA UnitsFinite ==
  ASSUME NEW F, NEW S, IsFiniteSet(S), IsCount(F, S)
  PROVE  \A T \in SUBSET S : IsFiniteSet(Units(F, T))
<1> SUFFICES ASSUME NEW T0 \in SUBSET S, ~IsFiniteSet(Units(F, T0)) PROVE FALSE
  OBVIOUS
<1> DEFINE Bad == {T \in SUBSET S : ~IsFiniteSet(Units(F, T))}
           Sizes0 == {Cardinality(T) : T \in Bad}
<1>1. \A T \in SUBSET S : IsFiniteSet(T) /\ Cardinality(T) \in Nat
  BY FS_Subset, FS_CardinalityType
<1>2. Sizes0 \subseteq Nat /\ Sizes0 # {}
  BY <1>1
<1>3. PICK n \in Sizes0 : \A m \in Sizes0 : n <= m
  BY <1>2, LeastNat
<1>4. PICK T \in Bad : n = Cardinality(T)
  BY <1>3
<1>5. T # {}
  <2>1. Units(F, {}) = {}
    BY DEF Units
  <2>2. QED
    BY <1>4, <2>1, FS_EmptySet
<1>6. PICK x \in T : TRUE
  BY <1>5
<1>7. Cardinality(T \ {x}) = Cardinality(T) - 1 /\ T \ {x} \in SUBSET S
  BY <1>1, <1>4, <1>6, FS_RemoveElement
<1>8. T \ {x} \notin Bad
  <2>1. SUFFICES ASSUME T \ {x} \in Bad PROVE FALSE
    OBVIOUS
  <2>2. n <= Cardinality(T) - 1 /\ Cardinality(T) \in Nat
    BY <1>1, <1>3, <1>4, <1>7, <2>1
  <2>3. QED
    BY <1>4, <2>2
<1>9. IsCount(F, T)
  BY <1>4 DEF IsCount
<1>10. IsFiniteSet(Units(F, T))
  BY <1>6, <1>7, <1>8, <1>9, UnitsStep
<1>11. QED
  BY <1>4, <1>10

\* The sum of the sizes of arrays counts their units.
LEMMA SumIsUnits ==
  ASSUME NEW F, NEW S, IsFiniteSet(S), IsCount(F, S), \A i \in S : F[i] = inodes[i].data
  PROVE  lengths(S) = Cardinality(Units(F, S))
<1> DEFINE pick(T) == CHOOSE x \in T : TRUE
           g == [T \in SUBSET S |-> Cardinality(Units(F, T))]
           Sums(h) == h = [T \in SUBSET S |->
                             IF T = {} THEN 0 ELSE inodes[pick(T)].data + h[T \ {pick(T)}]]
<1>1. \A T \in SUBSET S : T # {} => pick(T) \in T
  OBVIOUS
<1>2. \A T \in SUBSET S : IsFiniteSet(T) /\ Cardinality(T) \in Nat
  BY FS_Subset, FS_CardinalityType
<1>3. \A T \in SUBSET S : IsFiniteSet(Units(F, T))
  BY UnitsFinite
<1>4. Cardinality(Units(F, {})) = 0
  <2>1. Units(F, {}) = {}
    BY DEF Units
  <2>2. QED
    BY <2>1, FS_EmptySet
<1>5. ASSUME NEW T \in SUBSET S, T # {}
      PROVE  g[T] = F[pick(T)] + g[T \ {pick(T)}]
  <2>1. pick(T) \in T /\ T \ {pick(T)} \in SUBSET S
    BY <1>1, <1>5
  <2>2. IsCount(F, T)
    BY DEF IsCount
  <2> HIDE DEF pick
  <2>3. QED
    BY <1>3, <2>1, <2>2, UnitsStep
<1>6. Sums(g)
  <2>1. ASSUME NEW T \in SUBSET S
        PROVE  g[T] = IF T = {} THEN 0 ELSE inodes[pick(T)].data + g[T \ {pick(T)}]
    <3>1. CASE T = {}
      BY <1>4, <3>1
    <3>2. CASE T # {}
      <4>1. pick(T) \in S
        BY <1>1, <3>2
      <4>2. F[pick(T)] = inodes[pick(T)].data
        BY <4>1
      <4> HIDE DEF g, pick
      <4> QED
        BY <1>5, <3>2, <4>2
    <3> QED
      BY <3>1, <3>2
  <2>2. g = [T \in SUBSET S |-> g[T]]
    OBVIOUS
  <2> HIDE DEF g, pick
  <2> QED
    BY <2>1, <2>2
<1>7. ASSUME NEW h, Sums(h) PROVE h = g
  <2>1. h = [T \in SUBSET S |-> h[T]]
    BY <1>7
  <2>2. SUFFICES ASSUME NEW T0 \in SUBSET S, h[T0] # g[T0] PROVE FALSE
    BY <2>1
  <2> DEFINE Bad == {T \in SUBSET S : h[T] # g[T]}
             Sizes0 == {Cardinality(T) : T \in Bad}
  <2>3. Sizes0 \subseteq Nat /\ Sizes0 # {}
    BY <1>2, <2>2
  <2>4. PICK n \in Sizes0 : \A m \in Sizes0 : n <= m
    BY <2>3, LeastNat
  <2>5. PICK T \in Bad : n = Cardinality(T)
    BY <2>4
  <2>6. T # {}
    BY <1>4, <1>7, <2>5
  <2>7. pick(T) \in T
    BY <1>1, <2>5, <2>6
  <2>8. Cardinality(T \ {pick(T)}) = Cardinality(T) - 1 /\ T \ {pick(T)} \in SUBSET S
    BY <1>2, <2>5, <2>7, FS_RemoveElement
  <2>9. T \ {pick(T)} \notin Bad
    <3>1. SUFFICES ASSUME T \ {pick(T)} \in Bad PROVE FALSE
      OBVIOUS
    <3>2. n <= Cardinality(T) - 1 /\ Cardinality(T) \in Nat
      BY <1>2, <2>4, <2>5, <2>8, <3>1
    <3>3. QED
      BY <2>5, <3>2
  <2>10. h[T \ {pick(T)}] = g[T \ {pick(T)}]
    BY <2>8, <2>9
  <2>11. h[T] = F[pick(T)] + h[T \ {pick(T)}]
    BY <1>7, <2>5, <2>6, <2>7
  <2>12. QED
    BY <1>5, <2>5, <2>6, <2>10, <2>11
<1>8. lengths(S) = (CHOOSE h : Sums(h))[S]
  BY DEF lengths, MapThenSumSet, MapThenFoldSet
<1>9. (CHOOSE h : Sums(h)) = g
  BY <1>6, <1>7
<1>10. QED
  BY <1>8, <1>9

\* The bytes of each inode's backing array.
Bytes(I) == [i \in Inodes |-> IF I[i].data = NoData THEN 0 ELSE I[i].data]
Stored(I) == Cardinality(Units(Bytes(I), Inodes))

LEMMA StoredTyped ==
  ASSUME NEW I \in [Inodes -> Inode]
  PROVE  /\ IsCount(Bytes(I), Inodes) /\ IsFiniteSet(Inodes)
         /\ \A T \in SUBSET Inodes : IsFiniteSet(Units(Bytes(I), T))
         /\ Stored(I) \in Nat
<1>1. \A i \in Inodes : I[i].data \in Nat \cup {NoData}
  BY DEF Inode
<1>2. IsCount(Bytes(I), Inodes)
  BY <1>1 DEF IsCount, Bytes
<1>3. IsFiniteSet(Inodes)
  BY VfsAssumption, FS_Interval DEF Inodes
<1>4. \A T \in SUBSET Inodes : IsFiniteSet(Units(Bytes(I), T))
  BY <1>2, <1>3, UnitsFinite
<1> QED
  BY <1>2, <1>3, <1>4, FS_CardinalityType DEF Stored

\* Writing one inode replaces what its array added.
LEMMA StoredWrite ==
  ASSUME NEW I \in [Inodes -> Inode], NEW J \in [Inodes -> Inode], NEW i \in Inodes,
         \A j \in Inodes : j # i => J[j].data = I[j].data
  PROVE  Stored(J) + Bytes(I)[i] = Stored(I) + Bytes(J)[i]
<1>1. Units(Bytes(J), Inodes \ {i}) = Units(Bytes(I), Inodes \ {i})
  BY DEF Units, Bytes
<1>2. PICK c \in Nat : c = Cardinality(Units(Bytes(I), Inodes \ {i}))
  BY StoredTyped, FS_CardinalityType
<1>3. Stored(I) = Bytes(I)[i] + c
  BY <1>2, StoredTyped, UnitsStep DEF Stored
<1>4. Stored(J) = Bytes(J)[i] + c
  BY <1>1, <1>2, StoredTyped, UnitsStep DEF Stored
<1>5. Bytes(I)[i] \in Nat /\ Bytes(J)[i] \in Nat
  BY StoredTyped DEF IsCount
<1> QED
  BY <1>3, <1>4, <1>5

\* Emptying the arrays of the inodes T takes away their sum.
LEMMA StoredClear ==
  ASSUME inodes \in [Inodes -> Inode], NEW J \in [Inodes -> Inode], NEW T \in SUBSET Inodes,
         \A j \in Inodes : J[j].data = IF j \in T THEN NoData ELSE inodes[j].data,
         NEW n, n = lengths({i \in T : inodes[i].data # NoData})
  PROVE  n \in Nat /\ Stored(J) = Stored(inodes) - n /\ n <= Stored(inodes)
<1> DEFINE F == Bytes(inodes)
           Z == {i \in T : inodes[i].data # NoData}
<1>1. Z \in SUBSET Inodes /\ IsFiniteSet(Z) /\ IsCount(F, Z)
  <2>1. IsFiniteSet(Inodes) /\ IsCount(F, Inodes)
    BY StoredTyped
  <2>2. Z \in SUBSET Inodes
    OBVIOUS
  <2> HIDE DEF Z
  <2> QED
    BY <2>1, <2>2, FS_Subset DEF IsCount
<1>2. \A i \in Z : F[i] = inodes[i].data
  BY DEF Bytes
<1>3. lengths(Z) = Cardinality(Units(F, Z))
  <2> HIDE DEF Z, F
  <2> QED
    BY <1>1, <1>2, SumIsUnits
<1> DEFINE A == Units(F, Z)
           B == Units(Bytes(J), Inodes)
<1>4. Units(F, Inodes) = A \cup B
  <2>1. ASSUME NEW u \in Inodes \X Nat, 1 <= u[2]
        PROVE  u[2] <= F[u[1]] <=> (u[1] \in Z /\ u[2] <= F[u[1]]) \/ u[2] <= Bytes(J)[u[1]]
    <3>1. u[1] \in Inodes /\ u[2] \in Nat
      OBVIOUS
    <3>2. CASE u[1] \in T
      BY <2>1, <3>1, <3>2 DEF Bytes
    <3>3. CASE u[1] \notin T
      BY <2>1, <3>1, <3>3 DEF Bytes
    <3> QED
      BY <3>2, <3>3
  <2> QED
    BY <1>1, <2>1 DEF Units
<1>5. A \cap B = {}
  <2>1. SUFFICES ASSUME NEW u \in A, u \in B PROVE FALSE
    OBVIOUS
  <2>2. u[1] \in Z /\ u[1] \in Inodes /\ u[2] \in Nat /\ 1 <= u[2] /\ u[2] <= Bytes(J)[u[1]]
    BY <2>1 DEF Units
  <2>3. Bytes(J)[u[1]] = 0
    BY <2>2 DEF Bytes
  <2> QED
    BY <2>2, <2>3
<1>6. IsFiniteSet(A) /\ IsFiniteSet(B)
  BY <1>1, StoredTyped
<1> HIDE DEF A, B, F, Z
<1>7. Cardinality(A \cup B) = Cardinality(A) + Cardinality(B) - Cardinality(A \cap B)
  BY <1>6, FS_Union
<1>8. Cardinality(A) \in Nat /\ Cardinality(B) \in Nat /\ Cardinality({}) = 0
  BY <1>6, FS_CardinalityType, FS_EmptySet
<1>9. Stored(inodes) = Cardinality(A \cup B) /\ Stored(J) = Cardinality(B)
  BY <1>4 DEF Stored, B, F
<1>10. lengths(Z) = Cardinality(A)
  BY <1>3 DEF A
<1>11. Stored(inodes) = Cardinality(A) + Cardinality(B)
  <2>1. Cardinality(A \cap B) = 0
    BY <1>5, <1>8
  <2> QED
    BY <1>7, <1>8, <1>9, <2>1
<1> QED
  BY <1>8, <1>9, <1>10, <1>11 DEF Z

-----------------------------------------------------------------------------
(* New dentries. *)

\* R is D with the dentry d in use, of inode i and under p, which may have taken
\* it on its list.
Adds(D, R, d, i, p) ==
  /\ R \in Table
  /\ R[d].used /\ R[d].inode = i /\ R[d].parent = p
  /\ \A e \in Dentries \ {d} :
       R[e].used = D[e].used /\ R[e].inode = D[e].inode /\ R[e].parent = D[e].parent
  /\ \A e \in Dentries \ {d, p} : R[e].children = D[e].children
  /\ d # p => /\ R[d].children = <<>>
              /\ \/ R[p].children = D[p].children
                 \/ R[p].children = Append(D[p].children, d)

LEMMA RegisterDoes ==
  ASSUME NEW D \in Table, NEW d \in Dentries, NEW p \in Dentries, D[d].parent = p
  PROVE  LET R == registerChild(D, d) IN
         /\ R \in Table
         /\ \A e \in Dentries :
              R[e].used = D[e].used /\ R[e].inode = D[e].inode /\ R[e].parent = D[e].parent
         /\ \A e \in Dentries \ {p} : R[e].children = D[e].children
         /\ \/ R[p].children = D[p].children
            \/ R[p].children = Append(D[p].children, d)
<1>1. CASE registerChild(D, d) = D
  BY <1>1
<1>2. CASE registerChild(D, d) # D
  <2>1. PICK l : l = Append(D[p].children, d)
    OBVIOUS
  <2>2. l \in Seq(Dentries)
    <3>1. D[p].children \in Seq(Dentries)
      BY DEF Table, Dentry
    <3> QED
      BY <2>1, <3>1
  <2>3. registerChild(D, d) = [D EXCEPT ![p].children = l]
    BY <1>2, <2>1 DEF registerChild
  <2>4. PICK r : r = [D[p] EXCEPT !.children = l]
    OBVIOUS
  <2>5. D[p] \in Dentry
    BY DEF Table
  <2>6. /\ r \in Dentry /\ r.children = l /\ r.used = D[p].used
        /\ r.inode = D[p].inode /\ r.parent = D[p].parent
    BY <2>2, <2>4, <2>5 DEF Dentry
  <2>7. registerChild(D, d) = [D EXCEPT ![p] = r]
    BY <2>3, <2>4, <2>5 DEF Table, Dentry
  <2> QED
    BY <2>1, <2>6, <2>7 DEF Table
<1> QED
  BY <1>1, <1>2

\* A blank slot, named and hung under p, then offered to p's list.
LEMMA AddsDoes ==
  ASSUME NEW D \in Table, NEW d \in Dentries, NEW p \in Dentries, NEW i,
         NEW r \in Dentry, r.used, r.inode = i, r.parent = p, r.children = <<>>
  PROVE  Adds(D, registerChild([D EXCEPT ![d] = r], d), d, i, p)
<1>1. PICK E : E = [D EXCEPT ![d] = r]
  OBVIOUS
<1>2. E \in Table /\ E[d] = r /\ \A e \in Dentries : e # d => E[e] = D[e]
  BY <1>1 DEF Table
<1>3. PICK R : R = registerChild(E, d)
  OBVIOUS
<1>4. E[d].parent = p
  BY <1>2
<1>5. /\ R \in Table
      /\ \A e \in Dentries :
           R[e].used = E[e].used /\ R[e].inode = E[e].inode /\ R[e].parent = E[e].parent
      /\ \A e \in Dentries \ {p} : R[e].children = E[e].children
      /\ \/ R[p].children = E[p].children
         \/ R[p].children = Append(E[p].children, d)
  BY <1>2, <1>3, <1>4, RegisterDoes
<1>6. R[d].used /\ R[d].inode = i /\ R[d].parent = p
  BY <1>2, <1>5
<1>7. \A e \in Dentries \ {d} :
        R[e].used = D[e].used /\ R[e].inode = D[e].inode /\ R[e].parent = D[e].parent
  BY <1>2, <1>5
<1>8. \A e \in Dentries \ {d, p} : R[e].children = D[e].children
  BY <1>2, <1>5
<1>9. d # p => /\ R[d].children = <<>>
               /\ \/ R[p].children = D[p].children
                  \/ R[p].children = Append(D[p].children, d)
  BY <1>2, <1>5
<1> QED
  BY <1>1, <1>3, <1>5, <1>6, <1>7, <1>8, <1>9 DEF Adds

\* Slots as a failed call leaves them.
LEMMA BlankTyped ==
  /\ Blank \in Dentry /\ [Blank EXCEPT !.used = FALSE] \in Dentry
  /\ Blank.used /\ ~[Blank EXCEPT !.used = FALSE].used
  /\ Blank.inode = None /\ Blank.parent = None
<1>1. None \in 0..MAX_DENTRIES /\ None \in 0..MAX_INODES
  BY VfsAssumption DEF None
<1>2. << >> \in Seq(Words) /\ << >> \in Seq(Dentries)
  OBVIOUS
<1> QED
  BY <1>1, <1>2 DEF Blank, Dentry

\* The table with the new dentry named and hung nowhere yet.
Named(d, i, path) == [dentries EXCEPT ![d] = [Blank EXCEPT !.name = <<Last(path)>>, !.inode = i]]
Above(d, i, path) == lookupPath(Named(d, i, path), Root, Front(path))

LEMMA WordsDo == \A path \in Paths : path \in Seq(Words) /\ path # <<>>
<1>1. \A s : s \in Seq(STRING) => s \in Seq(Words)
  <2>1. PICK A, B : A = STRING /\ B = Words
    OBVIOUS
  <2>2. A \subseteq B
    BY <2>1 DEF Words
  <2>3. \A s : s \in Seq(A) => s \in Seq(B)
    BY <2>2
  <2> QED
    BY <2>1, <2>3, Zenon
<1> QED
  BY <1>1, VfsAssumption, Zenon

LEMMA PathTyped ==
  ASSUME NEW path \in Paths
  PROVE  /\ path \in Seq(Words) /\ <<Last(path)>> \in Seq(Words) /\ Len(path) \in Nat
         /\ Len(path) > 1 => Front(path) \in Seq(Words)
<1>1. path \in Seq(Words) /\ path # <<>>
  BY WordsDo
<1>2. Len(path) \in Nat \ {0}
  BY <1>1
<1>3. Last(path) \in Words
  BY <1>1, <1>2 DEF Last
<1>4. Front(path) \in Seq(Words)
  BY <1>1, <1>2 DEF Front
<1> QED
  BY <1>1, <1>2, <1>3, <1>4

LEMMA LinkedDoes ==
  ASSUME dentries \in Table, NEW d \in Dentries, NEW i \in 0..MAX_INODES, NEW path \in Paths
  PROVE  /\ Named(d, i, path) \in Table
         /\ \E p \in Dentries : /\ Adds(dentries, linked(d, i, path), d, i, p)
                                /\ \/ p = Root
                                   \/ /\ p = Above(d, i, path) /\ p # None
                                      /\ Front(path) \in Seq(Words)
<1>1. PICK N : N = Named(d, i, path)
  OBVIOUS
<1>2. PICK name : name = <<Last(path)>> /\ name \in Seq(Words)
  BY PathTyped
<1>3. PICK r : r = [Blank EXCEPT !.name = name, !.inode = i]
  OBVIOUS
<1>4. N = [dentries EXCEPT ![d] = r]
  BY <1>1, <1>2, <1>3 DEF Named
<1>5. MAX_DENTRIES \in Nat \ {0}
  BY VfsAssumption
<1>6. r \in Dentry /\ r.used /\ r.inode = i /\ r.children = <<>> /\ N \in Table
  <2>1. Blank \in Dentry /\ Blank.used /\ Blank.children = <<>>
    BY BlankTyped DEF Blank
  <2>2. r \in Dentry /\ r.used /\ r.inode = i /\ r.children = <<>>
    BY <1>2, <1>3, <2>1 DEF Dentry
  <2> QED
    BY <1>4, <2>2 DEF Table
<1>7. Root \in Dentries /\ Root \in 0..MAX_DENTRIES
  BY <1>5 DEF Root, Dentries
<1>8. PICK above : above = IF Len(path) > 1 THEN lookupPath(N, Root, Front(path)) ELSE Root
  OBVIOUS
<1>9. above \in 0..MAX_DENTRIES
  BY <1>6, <1>7, <1>8, PathTyped, LookupTyped
<1>10. PICK p : p = IF above = None THEN Root ELSE above
  OBVIOUS
<1>11. p \in Dentries
  BY <1>5, <1>7, <1>9, <1>10 DEF None, Dentries
<1>12. PICK s : s = [r EXCEPT !.parent = p]
  OBVIOUS
<1>13. s \in Dentry /\ s.used /\ s.inode = i /\ s.parent = p /\ s.children = <<>>
  <2>1. p \in 0..MAX_DENTRIES
    BY <1>5, <1>11 DEF Dentries
  <2> QED
    BY <1>6, <1>12, <2>1 DEF Dentry
<1>14. linked(d, i, path) = registerChild([N EXCEPT ![d].parent = p], d)
  BY <1>1, <1>8, <1>10 DEF linked, Named
<1>15. [N EXCEPT ![d].parent = p] = [dentries EXCEPT ![d] = s]
  <2>1. N[d] = r
    BY <1>4 DEF Table
  <2>2. [N EXCEPT ![d].parent = p] = [N EXCEPT ![d] = s]
    BY <1>12, <2>1
  <2> QED
    BY <1>4, <2>2 DEF Table
<1>16. p = Root \/ (p = Above(d, i, path) /\ p # None /\ Front(path) \in Seq(Words))
  BY <1>1, <1>8, <1>10, PathTyped DEF Above
<1>17. Adds(dentries, linked(d, i, path), d, i, p)
  BY <1>11, <1>13, <1>14, <1>15, AddsDoes
<1> QED
  BY <1>1, <1>6, <1>11, <1>16, <1>17

\* The table with a directory of one name, the whole path, under the root.
MadeDir(d, i, path) ==
  registerChild([dentries EXCEPT ![d] = [Blank EXCEPT !.name = path, !.inode = i, !.parent = Root]], d)

LEMMA MadeDirDoes ==
  ASSUME dentries \in Table, NEW d \in Dentries, NEW i \in 0..MAX_INODES, NEW path \in Paths
  PROVE  Adds(dentries, MadeDir(d, i, path), d, i, Root)
<1>1. PICK r : r = [Blank EXCEPT !.name = path, !.inode = i, !.parent = Root]
  OBVIOUS
<1>2. Root \in Dentries /\ Root \in 0..MAX_DENTRIES /\ path \in Seq(Words)
  BY VfsAssumption, WordsDo DEF Root, Dentries
<1>3. Blank \in Dentry /\ Blank.used /\ Blank.children = <<>>
  BY BlankTyped DEF Blank
<1>4. r \in Dentry /\ r.used /\ r.inode = i /\ r.parent = Root /\ r.children = <<>>
  BY <1>1, <1>2, <1>3 DEF Dentry
<1> QED
  BY <1>1, <1>2, <1>4, AddsDoes DEF MadeDir

-----------------------------------------------------------------------------
(* The quota. *)

\* The bytes of the arrays that inodes still name are among those charged.  An
\* unlinked file's bytes stay charged when its inode is taken again, so the two
\* need not be equal; that they are among them is why a reset never releases
\* more than is charged, which fsRelease would hide by stopping at zero.
QuotaInv ==
  /\ FsBytesExact
  /\ Stored(inodes) <= used

FsInv == VfsTypeOK /\ QuotaInv

LEMMA SlotsTyped ==
  ASSUME VfsTypeOK
  PROVE  /\ FreeSlot(dentries) # None =>
              FreeSlot(dentries) \in Dentries /\ ~dentries[FreeSlot(dentries)].used
         /\ FreeSlot(inodes) # None =>
              FreeSlot(inodes) \in Inodes /\ ~inodes[FreeSlot(inodes)].used
         /\ FreeSlot(files) # None =>
              FreeSlot(files) \in Fds /\ ~files[FreeSlot(files)].used
         /\ FreeSlot(dentries) \in 0..MAX_DENTRIES /\ FreeSlot(inodes) \in 0..MAX_INODES
<1>1. MAX_DENTRIES \in Nat /\ MAX_INODES \in Nat /\ MAX_OPEN_FILES \in Nat
  BY VfsAssumption
<1>2. /\ dentries \in [1..MAX_DENTRIES -> Dentry] /\ inodes \in [1..MAX_INODES -> Inode]
      /\ files \in [1..MAX_OPEN_FILES -> File]
  BY DEF VfsTypeOK, Table, Dentries, Inodes, Fds
<1> QED
  BY <1>1, <1>2, FreeSlotDoes DEF Dentries, Inodes, Fds

\* Giving a slot back changes nothing else in it.
LEMMA UnuseDoes ==
  ASSUME NEW D \in Table, NEW d \in Dentries
  PROVE  LET R == [D EXCEPT ![d].used = FALSE] IN
         /\ R \in Table /\ ~R[d].used
         /\ R[d].inode = D[d].inode /\ R[d].parent = D[d].parent /\ R[d].children = D[d].children
         /\ \A e \in Dentries : e # d => R[e] = D[e]
<1>1. PICK r : r = [D[d] EXCEPT !.used = FALSE]
  OBVIOUS
<1>2. D[d] \in Dentry
  BY DEF Table
<1>3. /\ r \in Dentry /\ ~r.used /\ r.inode = D[d].inode /\ r.parent = D[d].parent
      /\ r.children = D[d].children
  BY <1>1, <1>2 DEF Dentry
<1>4. [D EXCEPT ![d].used = FALSE] = [D EXCEPT ![d] = r]
  BY <1>1
<1> QED
  BY <1>3, <1>4 DEF Table

LEMMA BendTyped ==
  ASSUME NEW c, bend(c), bends \in Nat
  PROVE  bends' \in Nat /\ (bends' = 0 => bends = 0 /\ ~c)
BY DEF bend

\* A new array in a free inode, or none.
LEMMA InodeTaken ==
  ASSUME VfsTypeOK, NEW i \in Inodes, NEW r \in Inode, NEW J, J = [inodes EXCEPT ![i] = r]
  PROVE  /\ J \in [Inodes -> Inode] /\ J[i] = r /\ \A j \in Inodes : j # i => J[j] = inodes[j]
         /\ r.data = NoData => Stored(J) <= Stored(inodes)
         /\ r.data # NoData => Stored(J) <= Stored(inodes) + r.data
         /\ Stored(J) \in Nat /\ Stored(inodes) \in Nat /\ r.data \in Nat \cup {NoData}
<1>1. J \in [Inodes -> Inode] /\ J[i] = r /\ \A j \in Inodes : j # i => J[j] = inodes[j]
  BY DEF VfsTypeOK
<1>2. inodes \in [Inodes -> Inode]
  BY DEF VfsTypeOK
<1>3. Stored(J) + Bytes(inodes)[i] = Stored(inodes) + Bytes(J)[i]
  BY <1>1, <1>2, StoredWrite
<1>4. Stored(J) \in Nat /\ Stored(inodes) \in Nat /\ Bytes(inodes)[i] \in Nat /\ Bytes(J)[i] \in Nat
  BY <1>1, <1>2, StoredTyped DEF IsCount
<1>5. Bytes(J)[i] = IF r.data = NoData THEN 0 ELSE r.data
  BY <1>1 DEF Bytes
<1>6. r.data \in Nat \cup {NoData}
  BY DEF Inode
<1> QED
  BY <1>1, <1>3, <1>4, <1>5, <1>6

\* createFile, and the creation openat falls back on.
LEMMA CreatedKeeps ==
  ASSUME FsInv, NEW path \in Paths, NEW n \in Nat, NEW alloc \in BOOLEAN, created(path, n, alloc)
  PROVE  /\ dentries' \in Table /\ inodes' \in [Inodes -> Inode]
         /\ used' \in Nat /\ held' \in Int /\ bends' \in Nat
         /\ QuotaInv'
<1>1. PICK d, i : d = FreeSlot(dentries) /\ i = FreeSlot(inodes)
  OBVIOUS
<1>2. d \in Dentries /\ (i # None => i \in Inodes) /\ i \in 0..MAX_INODES
  BY <1>1, SlotsTyped DEF FsInv, created
<1>3. PICK D : D = linked(d, i, path)
  OBVIOUS
<1>4. D \in Table
  BY <1>2, <1>3, LinkedDoes DEF FsInv, VfsTypeOK, Adds
<1>5. /\ dentries \in Table /\ used \in Nat /\ held \in Int /\ bends \in Nat
      /\ used = held /\ used <= FS_CAP_BYTES /\ Stored(inodes) <= used
  BY DEF FsInv, VfsTypeOK, QuotaInv, FsBytesExact
<1>6. CASE /\ i = None
           /\ dentries' = [dentries EXCEPT ![d] = [Blank EXCEPT !.used = FALSE]]
           /\ UNCHANGED <<inodes, used, held, bends>>
  <2>1. dentries' \in Table
    BY <1>2, <1>5, <1>6, BlankTyped DEF Table
  <2> QED
    BY <1>5, <1>6, <2>1 DEF FsInv, VfsTypeOK, QuotaInv, FsBytesExact, Stored, Bytes
<1>7. CASE /\ i # None /\ fsCharge(n) /\ alloc
           /\ dentries' = D
           /\ inodes' = [inodes EXCEPT ![i] = [NewInode EXCEPT !.data = n, !.size = n, !.ops = TRUE]]
           /\ used' = used + n /\ held' = held + n
           /\ bend(~registered(D, d))
  <2>1. PICK r : r = [NewInode EXCEPT !.data = n, !.size = n, !.ops = TRUE]
    OBVIOUS
  <2>2. r \in Inode /\ r.data = n /\ n # NoData
    <3>1. r = [used |-> TRUE, data |-> n, size |-> n, ops |-> TRUE]
      BY <2>1 DEF NewInode
    <3> QED
      BY <3>1 DEF Inode, NoData
  <2>3. /\ inodes' \in [Inodes -> Inode] /\ Stored(inodes') <= Stored(inodes) + n
        /\ Stored(inodes') \in Nat /\ Stored(inodes) \in Nat
    <3>1. VfsTypeOK /\ i \in Inodes
      BY <1>2, <1>7 DEF FsInv
    <3>2. PICK J : J = inodes' /\ J = [inodes EXCEPT ![i] = r]
      BY <1>7, <2>1
    <3>3. /\ J \in [Inodes -> Inode] /\ Stored(J) <= Stored(inodes) + r.data
          /\ Stored(J) \in Nat /\ Stored(inodes) \in Nat
      BY <2>2, <3>1, <3>2, InodeTaken
    <3> QED
      BY <2>2, <3>2, <3>3
  <2>4. bends' \in Nat
    BY <1>5, <1>7, BendTyped
  <2>5. used' <= FS_CAP_BYTES
    BY <1>7 DEF fsCharge
  <2>6. Stored(inodes)' = Stored(inodes')
    BY DEF Stored, Bytes
  <2>7. FS_CAP_BYTES \in Nat
    BY VfsAssumption
  <2>8. Stored(inodes)' <= used'
    BY <1>5, <1>7, <2>3, <2>6
  <2> QED
    BY <1>4, <1>5, <1>7, <2>3, <2>4, <2>5, <2>8 DEF QuotaInv, FsBytesExact
<1>8. CASE /\ i # None /\ ~(fsCharge(n) /\ alloc)
           /\ dentries' = [D EXCEPT ![d].used = FALSE]
           /\ inodes' = [inodes EXCEPT ![i] = [NewInode EXCEPT !.used = FALSE]]
           /\ bend(registered(D, d))
           /\ UNCHANGED <<used, held>>
  <2>1. PICK r : r = [NewInode EXCEPT !.used = FALSE]
    OBVIOUS
  <2>2. r \in Inode /\ r.data = NoData
    BY <2>1 DEF NewInode, Inode, NoData
  <2>3. /\ inodes' \in [Inodes -> Inode] /\ Stored(inodes') <= Stored(inodes)
        /\ Stored(inodes') \in Nat /\ Stored(inodes) \in Nat
    <3>1. VfsTypeOK /\ i \in Inodes
      BY <1>2, <1>8 DEF FsInv
    <3>2. PICK J : J = inodes' /\ J = [inodes EXCEPT ![i] = r]
      BY <1>8, <2>1
    <3>3. /\ J \in [Inodes -> Inode] /\ Stored(J) <= Stored(inodes)
          /\ Stored(J) \in Nat /\ Stored(inodes) \in Nat
      BY <2>2, <3>1, <3>2, InodeTaken
    <3> QED
      BY <3>2, <3>3
  <2>4. bends' \in Nat
    BY <1>5, <1>8, BendTyped
  <2>5. Stored(inodes)' = Stored(inodes')
    BY DEF Stored, Bytes
  <2>6. dentries' \in Table
    BY <1>2, <1>4, <1>8, UnuseDoes
  <2>7. Stored(inodes)' <= used'
    BY <1>5, <1>8, <2>3, <2>5
  <2> QED
    BY <1>5, <1>8, <2>3, <2>4, <2>6, <2>7 DEF QuotaInv, FsBytesExact
<1> QED
  BY <1>1, <1>3, <1>6, <1>7, <1>8 DEF created

LEMMA MkdirKeeps ==
  ASSUME FsInv, NEW path \in Paths, mkdiratImpl(path), UNCHANGED <<used, held>>
  PROVE  /\ dentries' \in Table /\ inodes' \in [Inodes -> Inode]
         /\ used' \in Nat /\ held' \in Int /\ bends' \in Nat
         /\ QuotaInv'
<1>1. PICK d, i : d = FreeSlot(dentries) /\ i = FreeSlot(inodes)
  OBVIOUS
<1>2. d \in Dentries /\ (i # None => i \in Inodes) /\ i \in 0..MAX_INODES
  BY <1>1, SlotsTyped DEF FsInv, mkdiratImpl
<1>3. PICK D : D = MadeDir(d, i, path)
  OBVIOUS
<1>4. D \in Table
  BY <1>2, <1>3, MadeDirDoes DEF FsInv, VfsTypeOK, Adds
<1>5. /\ dentries \in Table /\ used \in Nat /\ held \in Int /\ bends \in Nat
      /\ used = held /\ used <= FS_CAP_BYTES /\ Stored(inodes) <= used
  BY DEF FsInv, VfsTypeOK, QuotaInv, FsBytesExact
<1>6. CASE i = None /\ dentries' = [dentries EXCEPT ![d] = Blank] /\ UNCHANGED <<inodes, bends>>
  <2>1. dentries' \in Table
    BY <1>2, <1>5, <1>6, BlankTyped DEF Table
  <2> QED
    BY <1>5, <1>6, <2>1 DEF FsInv, VfsTypeOK, QuotaInv, FsBytesExact, Stored, Bytes
<1>7. CASE /\ i # None
           /\ dentries' = D
           /\ inodes' = [inodes EXCEPT ![i] = [NewInode EXCEPT !.ops = TRUE]]
           /\ bend(~registered(D, d))
  <2>1. PICK r : r = [NewInode EXCEPT !.ops = TRUE]
    OBVIOUS
  <2>2. r \in Inode /\ r.data = NoData
    BY <2>1 DEF NewInode, Inode, NoData
  <2>3. /\ inodes' \in [Inodes -> Inode] /\ Stored(inodes') <= Stored(inodes)
        /\ Stored(inodes') \in Nat /\ Stored(inodes) \in Nat
    <3>1. VfsTypeOK /\ i \in Inodes
      BY <1>2, <1>7 DEF FsInv
    <3>2. PICK J : J = inodes' /\ J = [inodes EXCEPT ![i] = r]
      BY <1>7, <2>1
    <3>3. /\ J \in [Inodes -> Inode] /\ Stored(J) <= Stored(inodes)
          /\ Stored(J) \in Nat /\ Stored(inodes) \in Nat
      BY <2>2, <3>1, <3>2, InodeTaken
    <3> QED
      BY <3>2, <3>3
  <2>4. bends' \in Nat
    BY <1>5, <1>7, BendTyped
  <2>5. Stored(inodes)' = Stored(inodes')
    BY DEF Stored, Bytes
  <2>6. Stored(inodes)' <= used'
    BY <1>5, <2>3, <2>5
  <2> QED
    BY <1>4, <1>5, <1>7, <2>3, <2>4, <2>6 DEF QuotaInv, FsBytesExact
<1> QED
  BY <1>1, <1>3, <1>6, <1>7 DEF mkdiratImpl, MadeDir

\* The dentry a path resolves to, by whichever start.
LEMMA ResolveTyped ==
  ASSUME VfsTypeOK, NEW dirfd \in Fds \cup {None}, NEW abs \in BOOLEAN, NEW path \in Seq(Words)
  PROVE  resolvePath(dirfd, abs, path) \in 0..MAX_DENTRIES /\ lookup(path) \in 0..MAX_DENTRIES
<1>1. Root \in 0..MAX_DENTRIES /\ None \in 0..MAX_DENTRIES
  BY VfsAssumption DEF Root, None
<1>2. dentries \in Table /\ jail \in 0..MAX_DENTRIES
  BY DEF VfsTypeOK
<1>3. lookup(path) \in 0..MAX_DENTRIES
  BY <1>1, <1>2, LookupTyped DEF lookup
<1>4. CASE jail = None
  <2>1. PICK start : start = IF dirfd # None /\ files[dirfd].used THEN files[dirfd].dentry ELSE Root
    OBVIOUS
  <2>2. start \in 0..MAX_DENTRIES
    BY <1>1, <2>1 DEF VfsTypeOK, File
  <2>3. lookupPath(dentries, start, path) \in 0..MAX_DENTRIES
    BY <1>2, <2>2, LookupTyped
  <2> QED
    BY <1>3, <1>4, <2>1, <2>3 DEF resolvePath, resolveRaw
<1>5. CASE jail # None /\ ~abs
  BY <1>2, <1>3, <1>5, LookupTyped DEF resolvePath
<1>6. CASE jail # None /\ abs
  BY <1>1, <1>3, <1>6 DEF resolvePath
<1> QED
  BY <1>4, <1>5, <1>6

\* The open file table takes a dentry and its inode.
LEMMA OpenTyped ==
  ASSUME VfsTypeOK, NEW d \in Dentries, NEW i \in Inodes
  PROVE  LET T == openFile(d, i) IN
         /\ T \in [Fds -> File]
         /\ \A fd \in Fds : T[fd].used => T[fd].dentry # None /\ T[fd].inode # None
<1>1. PICK f : f = FreeSlot(files)
  OBVIOUS
<1>2. f # None => f \in Fds
  BY <1>1, SlotsTyped
<1>3. PICK r : r = [used |-> TRUE, dentry |-> d, inode |-> i, pos |-> 0]
  OBVIOUS
<1>4. d \in 0..MAX_DENTRIES /\ d # None /\ i \in 0..MAX_INODES /\ i # None
  BY VfsAssumption DEF Dentries, Inodes, None
<1>5. r \in File /\ r.dentry # None /\ r.inode # None
  BY <1>3, <1>4 DEF File
<1>6. openFile(d, i) = IF f = None THEN files ELSE [files EXCEPT ![f] = r]
  BY <1>1, <1>3 DEF openFile
<1> QED
  BY <1>2, <1>5, <1>6 DEF VfsTypeOK

-----------------------------------------------------------------------------
(* What freeDentryTree reaches. *)

\* The children of the dentries of S, and a set that has its own.
Kids(S) == UNION {Range(dentries[d].children) : d \in S}
IsClosed(X) == Kids(X) \subseteq X

LEMMA KidsTyped ==
  ASSUME dentries \in Table, NEW S \in SUBSET Dentries
  PROVE  Kids(S) \subseteq Dentries
<1>1. \A d \in S : dentries[d].children \in Seq(Dentries)
  BY DEF Table, Dentry
<1>2. \A l \in Seq(Dentries) : Range(l) \subseteq Dentries
  BY DEF Range
<1> QED
  BY <1>1, <1>2 DEF Kids

\* Below(S) is the least set that contains S and the children of its members.
LEMMA BelowDoes ==
  ASSUME dentries \in Table, NEW S \in SUBSET Dentries
  PROVE  /\ S \subseteq Below(S) /\ Below(S) \subseteq Dentries /\ IsClosed(Below(S))
         /\ \A X \in SUBSET Dentries : S \subseteq X /\ IsClosed(X) => Below(S) \subseteq X
<1> DEFINE n == MAX_DENTRIES
           P == SUBSET Dentries
           next(x) == x \cup Kids(x)
           F == [q \in (1..n) \X P |-> next(q[2])]
           Unfolds(h) == h = [k \in 0..n |-> IF k = 0 THEN S
                                ELSE h[k - 1] \cup UNION {Range(dentries[d].children) : d \in h[k - 1]}]
<1>1. n \in Nat
  BY VfsAssumption
<1>2. \A x \in P : next(x) \in P
  BY KidsTyped
<1>3. F \in [(1..n) \X P -> P]
  BY <1>2
<1>4. PICK g : Walk(g, n, P, S, F)
  <2> HIDE DEF n, F, P
  <2> QED
    BY <1>1, <1>3, WalkExists DEF P
<1>5. g \in [0..n -> P] /\ g[0] = S
  BY <1>4 DEF Walk
<1>6. ASSUME NEW k \in 1..n PROVE g[k] = next(g[k - 1])
  <2>1. k - 1 \in 0..n
    BY <1>1
  <2>2. g[k - 1] \in P
    BY <1>5, <2>1
  <2>3. g[k] = F[<<k, g[k - 1]>>]
    BY <1>4 DEF Walk
  <2> HIDE DEF next
  <2> QED
    BY <2>2, <2>3
<1>7. Unfolds(g)
  <2>1. \A k \in 0..n : k = 0 \/ k \in 1..n
    BY <1>1
  <2> QED
    BY <1>5, <1>6, <2>1 DEF Kids
<1>8. PICK f : f = CHOOSE h : Unfolds(h)
  OBVIOUS
<1>9. Unfolds(f)
  BY <1>7, <1>8
<1>10. Below(S) = f[n]
  BY <1>8 DEF Below
<1>11. f[0] = S /\ \A k \in 1..n : f[k] = next(f[k - 1])
  BY <1>1, <1>9 DEF Kids
<1>12. \A k \in 0..n : f[k] \in P /\ S \subseteq f[k]
  <2> DEFINE Good == {k \in 0..n : f[k] \in P /\ S \subseteq f[k]}
  <2>1. 0 \in Good
    BY <1>1, <1>11
  <2>2. ASSUME NEW k \in 1..n, k - 1 \in Good PROVE k \in Good
    <3>1. f[k - 1] \in P /\ S \subseteq f[k - 1] /\ f[k] = next(f[k - 1]) /\ k \in 0..n
      BY <1>1, <1>11, <2>2
    <3>2. next(f[k - 1]) \in P
      BY <1>2, <3>1
    <3> QED
      BY <3>1, <3>2
  <2>3. \A k \in 1..n : k - 1 \in Good => k \in Good
    BY <2>2
  <2> HIDE DEF Good
  <2>4. \A k \in 0..n : k \in Good
    BY <1>1, <2>1, <2>3, UpTo
  <2> QED
    BY <2>4 DEF Good
<1>13. \A X \in P : S \subseteq X /\ IsClosed(X) => f[n] \subseteq X
  <2>1. SUFFICES ASSUME NEW X \in P, S \subseteq X, IsClosed(X) PROVE f[n] \subseteq X
    OBVIOUS
  <2> DEFINE Good == {k \in 0..n : f[k] \subseteq X}
  <2>2. 0 \in Good
    BY <1>1, <1>11, <2>1
  <2>3. ASSUME NEW k \in 1..n, k - 1 \in Good PROVE k \in Good
    <3>1. f[k - 1] \subseteq X /\ f[k] = f[k - 1] \cup Kids(f[k - 1]) /\ k \in 0..n
      BY <1>1, <1>11, <2>3
    <3>2. Kids(f[k - 1]) \subseteq Kids(X)
      BY <3>1 DEF Kids
    <3> QED
      BY <2>1, <3>1, <3>2 DEF IsClosed
  <2>4. \A k \in 1..n : k - 1 \in Good => k \in Good
    BY <2>3
  <2> HIDE DEF Good
  <2>5. \A k \in 0..n : k \in Good
    BY <1>1, <2>2, <2>4, UpTo
  <2> QED
    BY <1>1, <2>5 DEF Good
<1>14. IsClosed(f[n])
  <2> DEFINE Large == {k \in 0..n : IsClosed(f[k]) \/ k + 1 <= Cardinality(f[k])}
  <2>1. \A x \in P : IsFiniteSet(x) /\ Cardinality(x) \in Nat /\ Cardinality(x) <= n
    <3>1. IsFiniteSet(Dentries) /\ Cardinality(Dentries) = n
      BY <1>1, FS_Interval DEF Dentries
    <3> QED
      BY <3>1, FS_Subset, FS_CardinalityType
  <2>2. 0 \in Large
    <3>1. CASE S = {}
      BY <1>1, <1>11, <3>1 DEF IsClosed, Kids
    <3>2. CASE S # {}
      <4>1. Cardinality(S) # 0
        BY <2>1, <3>2, FS_EmptySet
      <4> QED
        BY <1>1, <1>11, <2>1, <4>1
    <3> QED
      BY <3>1, <3>2
  <2>3. ASSUME NEW k \in 1..n, k - 1 \in Large PROVE k \in Large
    <3>1. k - 1 \in 0..n /\ k \in 0..n /\ f[k] = f[k - 1] \cup Kids(f[k - 1])
      <4>1. k - 1 \in 0..n /\ k \in 0..n
        BY <1>1
      <4> QED
        BY <1>11, <4>1
    <3>2. CASE IsClosed(f[k - 1])
      <4>1. f[k] = f[k - 1]
        BY <3>1, <3>2 DEF IsClosed
      <4> QED
        BY <3>1, <3>2, <4>1
    <3>3. CASE ~IsClosed(f[k - 1])
      <4>1. PICK x \in f[k] : x \notin f[k - 1]
        BY <3>1, <3>3 DEF IsClosed
      <4>2. PICK a, b : a = f[k - 1] /\ b = f[k]
        OBVIOUS
      <4>3. a \in P /\ b \in P /\ a \subseteq b /\ x \in b /\ x \notin a
        BY <1>12, <3>1, <4>1, <4>2
      <4>4. /\ IsFiniteSet(a) /\ IsFiniteSet(b) /\ Cardinality(a) \in Nat /\ Cardinality(b) \in Nat
        BY <2>1, <4>3
      <4>5. Cardinality(a \cup {x}) = Cardinality(a) + 1
        BY <4>3, <4>4, FS_AddElement
      <4>6. Cardinality(a \cup {x}) <= Cardinality(b)
        BY <4>3, <4>4, FS_Subset
      <4>7. (k - 1) + 1 <= Cardinality(a)
        BY <2>3, <3>3, <4>2
      <4>8. k + 1 <= Cardinality(b)
        BY <4>4, <4>5, <4>6, <4>7
      <4> QED
        BY <3>1, <4>2, <4>8
    <3> QED
      BY <3>2, <3>3
  <2>4. \A k \in 1..n : k - 1 \in Large => k \in Large
    BY <2>3
  <2>5. n \in Large
    <3> HIDE DEF Large
    <3>1. \A k \in 0..n : k \in Large
      BY <1>1, <2>2, <2>4, UpTo
    <3> QED
      BY <1>1, <3>1
  <2>6. Cardinality(f[n]) \in Nat /\ Cardinality(f[n]) <= n
    BY <1>1, <1>12, <2>1
  <2> QED
    BY <1>1, <2>5, <2>6
<1>15. S \subseteq f[n] /\ f[n] \subseteq Dentries
  BY <1>1, <1>12
<1> QED
  BY <1>10, <1>13, <1>14, <1>15

-----------------------------------------------------------------------------
(* Every call keeps the tables and the quota. *)

LEMMA CreateKeepsFs ==
  ASSUME FsInv, NEW path \in Paths, NEW n \in Counts, NEW alloc \in BOOLEAN,
         createFile(path, n, alloc)
  PROVE  FsInv'
<1>1. n \in Nat
  BY VfsAssumption
<1>2. created(path, n, alloc) /\ UNCHANGED <<files, jail>>
  BY DEF createFile
<1>3. /\ dentries' \in Table /\ inodes' \in [Inodes -> Inode]
      /\ used' \in Nat /\ held' \in Int /\ bends' \in Nat /\ QuotaInv'
  BY <1>1, <1>2, CreatedKeeps
<1> QED
  BY <1>2, <1>3 DEF FsInv, VfsTypeOK

LEMMA MkdirKeepsFs ==
  ASSUME FsInv, NEW path \in Paths, mkdirat(path)
  PROVE  FsInv'
<1>1. mkdiratImpl(path) /\ UNCHANGED <<files, jail, used, held>>
  BY DEF mkdirat
<1>2. /\ dentries' \in Table /\ inodes' \in [Inodes -> Inode]
      /\ used' \in Nat /\ held' \in Int /\ bends' \in Nat /\ QuotaInv'
  BY <1>1, MkdirKeeps
<1> QED
  BY <1>1, <1>2 DEF FsInv, VfsTypeOK

\* The quota reads the inodes, used and held.
LEMMA QuotaFrame ==
  ASSUME QuotaInv, UNCHANGED <<inodes, used, held>>
  PROVE  QuotaInv'
BY DEF QuotaInv, FsBytesExact, Stored, Bytes

LEMMA OpenKeepsFs ==
  ASSUME FsInv, NEW path \in Paths, NEW dirfd \in Fds \cup {None}, NEW abs \in BOOLEAN,
         openat(dirfd, abs, path) \/ openatCreate(dirfd, abs, path)
  PROVE  FsInv'
<1>1. VfsTypeOK /\ QuotaInv /\ path \in Seq(Words)
  BY WordsDo DEF FsInv
<1>2. PICK d : d = resolvePath(dirfd, abs, path)
  OBVIOUS
<1>3. d # None => d \in Dentries
  <2>1. d \in 0..MAX_DENTRIES
    BY <1>1, <1>2, ResolveTyped
  <2> QED
    BY <2>1, VfsAssumption DEF None, Dentries
<1>4. CASE openat(dirfd, abs, path)
  <2>1. /\ d # None /\ dentries[d].inode # None /\ files' = openFile(d, dentries[d].inode)
        /\ UNCHANGED <<dentries, inodes, jail, used, held, bends>>
    BY <1>2, <1>4 DEF openat
  <2>2. dentries[d].inode \in Inodes
    <3>1. dentries[d].inode \in 0..MAX_INODES
      BY <1>1, <1>3, <2>1 DEF VfsTypeOK, Table, Dentry
    <3> QED
      BY <2>1, <3>1, VfsAssumption DEF None, Inodes
  <2>3. /\ files' \in [Fds -> File]
        /\ \A fd \in Fds : files'[fd].used => files'[fd].dentry # None /\ files'[fd].inode # None
    BY <1>1, <1>3, <2>1, <2>2, OpenTyped
  <2>4. QuotaInv'
    BY <1>1, <2>1, QuotaFrame
  <2> QED
    BY <1>1, <2>1, <2>3, <2>4 DEF FsInv, VfsTypeOK
<1>5. CASE openatCreate(dirfd, abs, path)
  <2>1. PICK alloc \in BOOLEAN :
          /\ created(path, 0, alloc)
          /\ files' = IF alloc /\ FreeSlot(inodes) # None
                      THEN openFile(FreeSlot(dentries), FreeSlot(inodes)) ELSE files
    BY <1>5 DEF openatCreate
  <2>2. UNCHANGED jail /\ FreeSlot(dentries) # None
    BY <1>5, <2>1 DEF openatCreate, created
  <2>3. /\ dentries' \in Table /\ inodes' \in [Inodes -> Inode]
        /\ used' \in Nat /\ held' \in Int /\ bends' \in Nat /\ QuotaInv'
    BY <2>1, CreatedKeeps
  <2>4. /\ files' \in [Fds -> File]
        /\ \A fd \in Fds : files'[fd].used => files'[fd].dentry # None /\ files'[fd].inode # None
    <3>1. CASE files' = files
      BY <1>1, <3>1 DEF VfsTypeOK
    <3>2. CASE files' # files
      <4>1. FreeSlot(inodes) \in Inodes /\ FreeSlot(dentries) \in Dentries
        BY <1>1, <2>1, <2>2, <3>2, SlotsTyped
      <4>2. files' = openFile(FreeSlot(dentries), FreeSlot(inodes))
        BY <2>1, <3>2
      <4> QED
        BY <1>1, <4>1, <4>2, OpenTyped
    <3> QED
      BY <3>1, <3>2
  <2> QED
    BY <1>1, <2>2, <2>3, <2>4 DEF FsInv, VfsTypeOK
<1> QED
  BY <1>4, <1>5

\* A call on an open file moves its position, and nothing else in the table.
LEMMA MoveTyped ==
  ASSUME VfsTypeOK, NEW fd \in Fds, NEW pos \in Nat, files' = [files EXCEPT ![fd].pos = pos]
  PROVE  /\ files' \in [Fds -> File]
         /\ \A g \in Fds : files'[g].used => files'[g].dentry # None /\ files'[g].inode # None
<1>1. PICK r : r = [files[fd] EXCEPT !.pos = pos]
  OBVIOUS
<1>2. files[fd] \in File
  BY DEF VfsTypeOK
<1>3. r \in File /\ r.used = files[fd].used /\ r.dentry = files[fd].dentry /\ r.inode = files[fd].inode
  BY <1>1, <1>2 DEF File
<1>4. files' = [files EXCEPT ![fd] = r]
  BY <1>1
<1> QED
  BY <1>3, <1>4 DEF VfsTypeOK

LEMMA SeekKeepsFs ==
  ASSUME FsInv, NEW fd \in Fds, NEW n \in Counts, read(fd, n) \/ seek(fd, n)
  PROVE  FsInv'
<1>1. VfsTypeOK /\ QuotaInv /\ n \in Nat
  BY VfsAssumption DEF FsInv
<1>2. UNCHANGED <<dentries, inodes, jail, used, held, bends>>
  BY DEF read, seek
<1>3. files[fd] \in File
  BY <1>1 DEF VfsTypeOK
<1>4. PICK pos : pos = files[fd].pos /\ pos \in Nat
  BY <1>3 DEF File
<1>5. CASE read(fd, n)
  <2>1. PICK len : len = inodes[files[fd].inode].data
    OBVIOUS
  <2>2. len # NoData /\ files[fd].used
    BY <1>5, <2>1 DEF read, Usable
  <2>3. files[fd].inode \in Inodes
    <3>1. files[fd].inode \in 0..MAX_INODES /\ files[fd].inode # None
      BY <1>1, <1>3, <2>2 DEF VfsTypeOK, File
    <3> QED
      BY <3>1, VfsAssumption DEF None, Inodes
  <2>4. len \in Nat
    <3>1. inodes[files[fd].inode] \in Inode
      BY <1>1, <2>3 DEF VfsTypeOK
    <3> QED
      BY <2>1, <2>2, <3>1 DEF Inode
  <2>5. PICK m : m = Min({n, IF pos < len THEN len - pos ELSE 0})
    OBVIOUS
  <2>6. m \in Nat
    <3>1. {n, IF pos < len THEN len - pos ELSE 0} \subseteq Nat
      BY <1>1, <1>4, <2>4
    <3>2. m \in {n, IF pos < len THEN len - pos ELSE 0}
      BY <2>5, <3>1, MinDoes
    <3> QED
      BY <3>1, <3>2
  <2>7. files' = [files EXCEPT ![fd].pos = pos + m]
    BY <1>4, <1>5, <2>1, <2>5 DEF read
  <2>8. pos + m \in Nat
    BY <1>4, <2>6
  <2>9. /\ files' \in [Fds -> File]
        /\ \A g \in Fds : files'[g].used => files'[g].dentry # None /\ files'[g].inode # None
    BY <1>1, <2>7, <2>8, MoveTyped
  <2>10. QuotaInv'
    BY <1>1, <1>2, QuotaFrame
  <2> QED
    BY <1>1, <1>2, <2>9, <2>10 DEF FsInv, VfsTypeOK
<1>6. CASE seek(fd, n)
  <2>1. files' = [files EXCEPT ![fd].pos = n]
    BY <1>6 DEF seek
  <2> QED
    BY <1>1, <1>2, <2>1, MoveTyped, QuotaFrame DEF FsInv, VfsTypeOK
<1> QED
  BY <1>5, <1>6

\* A file in use names an inode, whose array has a size or is none.
LEMMA FileInode ==
  ASSUME VfsTypeOK, NEW fd \in Fds, files[fd].used
  PROVE  /\ files[fd].inode \in Inodes /\ files[fd].pos \in Nat
         /\ inodes[files[fd].inode] \in Inode
<1>1. files[fd] \in File
  BY DEF VfsTypeOK
<1>2. files[fd].inode \in 0..MAX_INODES /\ files[fd].inode # None /\ files[fd].pos \in Nat
  BY <1>1 DEF VfsTypeOK, File
<1>3. files[fd].inode \in Inodes
  BY <1>2, VfsAssumption DEF None, Inodes
<1> QED
  BY <1>2, <1>3 DEF VfsTypeOK

\* A write grows the array, the charge and what is held by the same number.
LEMMA WriteKeepsFs ==
  ASSUME FsInv, NEW fd \in Fds, NEW n \in Counts, NEW alloc \in BOOLEAN, write(fd, n, alloc)
  PROVE  FsInv'
<1>1. VfsTypeOK /\ QuotaInv /\ n \in Nat /\ FS_CAP_BYTES \in Nat
  BY VfsAssumption DEF FsInv
<1>2. PICK i, old, end : i = files[fd].inode /\ old = inodes[i].data /\ end = files[fd].pos + n
  OBVIOUS
<1>3. files[fd].used /\ UNCHANGED <<dentries, jail, bends>>
  BY DEF write, Usable
<1>4. i \in Inodes /\ end \in Nat /\ inodes[i] \in Inode
  BY <1>1, <1>2, <1>3, FileInode
<1>5. old \in Nat \cup {NoData}
  BY <1>2, <1>4 DEF Inode
<1>6. PICK grows : grows = (old = NoData \/ end > old) /\ grows \in BOOLEAN
  OBVIOUS
<1>7. PICK size : size = Max({inodes[i].size, end})
  OBVIOUS
<1>8. size \in Nat
  <2>1. PICK s \in Nat : s = inodes[i].size
    BY <1>4 DEF Inode
  <2>2. \E x \in {s, end} : \A y \in {s, end} : x >= y
    BY <1>4, <2>1
  <2>3. Max({s, end}) \in {s, end}
    BY <2>2 DEF Max
  <2> QED
    BY <1>4, <1>7, <2>1, <2>3
<1>9. PICK r : r = [inodes[i] EXCEPT !.data = IF grows THEN end ELSE old, !.size = size]
  OBVIOUS
<1>10. PICK data : data = IF grows THEN end ELSE old
  OBVIOUS
<1>11. data \in Nat \cup {NoData}
  BY <1>4, <1>5, <1>10
<1>12. r \in Inode /\ r.data = data /\ r.used = inodes[i].used
  BY <1>4, <1>8, <1>9, <1>10, <1>11 DEF Inode
<1>13. inodes' = [inodes EXCEPT ![i] = r]
  BY <1>2, <1>6, <1>7, <1>9 DEF write
<1>14. inodes' \in [Inodes -> Inode] /\ Stored(inodes') + Bytes(inodes)[i] = Stored(inodes) + Bytes(inodes')[i]
  <2>1. PICK J : J = inodes' /\ J = [inodes EXCEPT ![i] = r]
    BY <1>13
  <2>2. J \in [Inodes -> Inode] /\ \A j \in Inodes : j # i => J[j] = inodes[j]
    BY <1>1, <1>12, <2>1 DEF VfsTypeOK
  <2>3. Stored(J) + Bytes(inodes)[i] = Stored(inodes) + Bytes(J)[i]
    BY <1>1, <1>4, <2>2, StoredWrite DEF VfsTypeOK
  <2> QED
    BY <2>1, <2>2, <2>3
<1>15. Stored(inodes') \in Nat /\ Stored(inodes) \in Nat
  BY <1>1, <1>14, StoredTyped DEF VfsTypeOK
<1>16. Bytes(inodes)[i] = IF old = NoData THEN 0 ELSE old
  BY <1>2, <1>4 DEF Bytes
<1>17. Bytes(inodes')[i] = IF data = NoData THEN 0 ELSE data
  <2>1. inodes'[i].data = data
    BY <1>1, <1>4, <1>12, <1>13 DEF VfsTypeOK
  <2> QED
    BY <1>4, <2>1 DEF Bytes
<1>18. PICK s, t : s = Stored(inodes) /\ t = Stored(inodes')
  OBVIOUS
<1>19. /\ used \in Nat /\ held \in Int /\ used = held /\ used <= FS_CAP_BYTES /\ s <= used
       /\ s \in Nat /\ t \in Nat
  BY <1>1, <1>15, <1>18 DEF VfsTypeOK, QuotaInv, FsBytesExact
<1>20. /\ used' \in Nat /\ held' \in Int /\ used' = held' /\ used' <= FS_CAP_BYTES /\ t <= used'
  <2>1. CASE ~grows
    <3>1. used' = used /\ held' = held
      BY <1>2, <1>6, <2>1 DEF write
    <3>2. t = s
      BY <1>10, <1>14, <1>16, <1>17, <1>18, <1>19, <2>1, <1>5 DEF NoData
    <3> QED
      BY <1>19, <3>1, <3>2
  <2>2. CASE grows
    <3>1. PICK o : o = IF old = NoData THEN 0 ELSE old
      OBVIOUS
    <3>2. o \in Nat /\ o <= end
      <4>1. old = NoData \/ end > old
        BY <1>6, <2>2, Zenon
      <4>2. CASE old = NoData
        BY <1>4, <3>1, <4>2
      <4>3. CASE old # NoData
        BY <1>4, <1>5, <3>1, <4>1, <4>3
      <4> QED
        BY <4>2, <4>3
    <3>3. growth(old, end) = end - o
      BY <1>4, <1>5, <3>1, <3>2 DEF growth
    <3>4. Max({old, 0}) = o
      <4>1. o \in {old, 0} /\ \A y \in {old, 0} : o >= y
        BY <1>5, <3>1 DEF NoData
      <4>2. \A x, y \in {old, 0} : x >= y /\ y >= x => x = y
        BY <1>5 DEF NoData
      <4> QED
        BY <4>1, <4>2 DEF Max
    <3>5. /\ fsCharge(growth(old, end)) /\ used' = used + growth(old, end)
          /\ held' = held + end - Max({old, 0})
      BY <1>2, <1>6, <2>2 DEF write
    <3>6. used' = used + (end - o) /\ held' = held + end - o /\ used + (end - o) <= FS_CAP_BYTES
      BY <3>3, <3>4, <3>5 DEF fsCharge
    <3>7. t + o = s + end
      BY <1>4, <1>10, <1>14, <1>16, <1>17, <1>18, <2>2, <3>1 DEF NoData
    <3> QED
      BY <1>1, <1>4, <1>19, <3>2, <3>6, <3>7
  <2> QED
    BY <1>6, <2>1, <2>2
<1>21. QuotaInv'
  <2>1. Stored(inodes)' = t
    BY <1>18 DEF Stored, Bytes
  <2> QED
    BY <1>20, <2>1 DEF QuotaInv, FsBytesExact
<1>22. files' = [files EXCEPT ![fd].pos = end]
  BY <1>2 DEF write
<1>23. /\ files' \in [Fds -> File]
       /\ \A g \in Fds : files'[g].used => files'[g].dentry # None /\ files'[g].inode # None
  BY <1>1, <1>4, <1>22, MoveTyped
<1> QED
  BY <1>1, <1>3, <1>14, <1>20, <1>21, <1>23 DEF FsInv, VfsTypeOK

LEMMA CloseKeepsFs ==
  ASSUME FsInv, NEW fd \in Fds, close(fd)
  PROVE  FsInv'
<1>1. Closed \in File /\ ~Closed.used
  BY VfsAssumption DEF Closed, File, None
<1>2. files' = [files EXCEPT ![fd] = Closed] /\ UNCHANGED <<dentries, inodes, jail, used, held, bends>>
  BY DEF close
<1>3. /\ files' \in [Fds -> File]
      /\ \A g \in Fds : files'[g].used => files'[g].dentry # None /\ files'[g].inode # None
  BY <1>1, <1>2 DEF FsInv, VfsTypeOK
<1>4. QuotaInv'
  BY <1>2, QuotaFrame DEF FsInv
<1> QED
  BY <1>2, <1>3, <1>4 DEF FsInv, VfsTypeOK

LEMMA UnlinkKeepsFs ==
  ASSUME FsInv, NEW path \in Paths, unlinkat(path)
  PROVE  FsInv'
<1>1. VfsTypeOK /\ path \in Seq(Words)
  BY WordsDo DEF FsInv
<1>2. PICK d, i : d = lookup(path) /\ i = dentries[d].inode
  OBVIOUS
<1>3. /\ d # None /\ i # None /\ inodes' = [inodes EXCEPT ![i].used = FALSE] /\ bend(TRUE)
      /\ UNCHANGED <<dentries, files, jail, used, held>>
  BY <1>2 DEF unlinkat
<1>4. d \in Dentries
  <2>1. d \in 0..MAX_DENTRIES
    BY <1>1, <1>2, ResolveTyped
  <2> QED
    BY <1>3, <2>1, VfsAssumption DEF None, Dentries
<1>5. i \in Inodes
  <2>1. i \in 0..MAX_INODES
    BY <1>1, <1>2, <1>4 DEF VfsTypeOK, Table, Dentry
  <2> QED
    BY <1>3, <2>1, VfsAssumption DEF None, Inodes
<1>6. PICK r : r = [inodes[i] EXCEPT !.used = FALSE]
  OBVIOUS
<1>7. r \in Inode /\ r.data = inodes[i].data
  BY <1>1, <1>5, <1>6 DEF VfsTypeOK, Inode
<1>8. inodes' = [inodes EXCEPT ![i] = r]
  BY <1>3, <1>6
<1>9. inodes' \in [Inodes -> Inode] /\ \A j \in Inodes : inodes'[j].data = inodes[j].data
  BY <1>1, <1>7, <1>8 DEF VfsTypeOK
<1>10. Bytes(inodes)' = Bytes(inodes)
  BY <1>9 DEF Bytes
<1>11. QuotaInv'
  BY <1>3, <1>10 DEF FsInv, QuotaInv, FsBytesExact, Stored
<1>12. bends' \in Nat
  BY <1>1, <1>3, BendTyped DEF VfsTypeOK
<1> QED
  BY <1>1, <1>3, <1>9, <1>11, <1>12 DEF FsInv, VfsTypeOK

LEMMA LinkKeepsFs ==
  ASSUME FsInv, NEW path \in Paths, linkat(path, JailPath)
  PROVE  FsInv'
<1>1. VfsTypeOK /\ path \in Seq(Words) /\ JailPath \in Seq(Words)
  BY VfsAssumption, WordsDo DEF FsInv
<1>2. PICK o, d : o = lookup(path) /\ d = FreeSlot(dentries)
  OBVIOUS
<1>3. o # None /\ d # None /\ bend(dentries[o].used) /\ UNCHANGED <<inodes, files, jail, used, held>>
  BY <1>2 DEF linkat
<1>4. o \in Dentries /\ d \in Dentries
  <2>1. o \in 0..MAX_DENTRIES
    BY <1>1, <1>2, ResolveTyped
  <2> QED
    BY <1>1, <1>2, <1>3, <2>1, SlotsTyped, VfsAssumption DEF None, Dentries
<1>5. PICK i : i = IF d = o THEN None ELSE dentries[o].inode
  OBVIOUS
<1>6. i \in 0..MAX_INODES /\ Root \in 0..MAX_DENTRIES
  <2>1. dentries[o].inode \in 0..MAX_INODES
    BY <1>1, <1>4 DEF VfsTypeOK, Table, Dentry
  <2>2. None \in 0..MAX_INODES /\ Root \in 0..MAX_DENTRIES
    BY VfsAssumption DEF None, Root
  <2> QED
    BY <1>5, <2>1, <2>2
<1>7. PICK r : r = [Blank EXCEPT !.name = JailPath, !.inode = i, !.parent = Root]
  OBVIOUS
<1>8. r \in Dentry
  BY <1>1, <1>6, <1>7, BlankTyped DEF Dentry
<1>9. dentries' = [dentries EXCEPT ![d] = r]
  BY <1>2, <1>5, <1>7 DEF linkat
<1>10. dentries' \in Table
  BY <1>1, <1>8, <1>9 DEF VfsTypeOK, Table
<1>11. bends' \in Nat
  BY <1>1, <1>3, BendTyped DEF VfsTypeOK
<1>12. QuotaInv'
  BY <1>3, QuotaFrame DEF FsInv
<1> QED
  BY <1>1, <1>3, <1>10, <1>11, <1>12 DEF FsInv, VfsTypeOK

LEMMA SetJailKeepsFs ==
  ASSUME FsInv, setJail(JailPath) \/ clearJail
  PROVE  FsInv'
<1>1. VfsTypeOK /\ QuotaInv /\ JailPath \in Paths /\ JailPath \in Seq(Words)
  BY VfsAssumption, WordsDo DEF FsInv
<1>2. lookup(JailPath) \in 0..MAX_DENTRIES /\ None \in 0..MAX_DENTRIES
  <2>1. None \in Fds \cup {None} /\ TRUE \in BOOLEAN
    OBVIOUS
  <2>2. lookup(JailPath) \in 0..MAX_DENTRIES
    BY <1>1, <2>1, ResolveTyped
  <2> QED
    BY <2>2, VfsAssumption DEF None
<1>3. CASE setJail(JailPath) /\ lookup(JailPath) # None
  <2>1. jail' = lookup(JailPath) /\ UNCHANGED <<dentries, inodes, files, used, held, bends>>
    BY <1>3 DEF setJail
  <2>2. QuotaInv'
    BY <1>1, <2>1, QuotaFrame
  <2>3. jail' \in 0..MAX_DENTRIES
    BY <1>2, <2>1
  <2> QED
    BY <1>1, <2>1, <2>2, <2>3 DEF FsInv, VfsTypeOK
<1>4. CASE setJail(JailPath) /\ lookup(JailPath) = None
  <2>1. /\ mkdiratImpl(JailPath) /\ UNCHANGED <<files, used, held>>
        /\ jail' = IF mkdirResult = None THEN jail ELSE mkdirResult
    BY <1>4 DEF setJail
  <2>2. /\ dentries' \in Table /\ inodes' \in [Inodes -> Inode]
        /\ used' \in Nat /\ held' \in Int /\ bends' \in Nat /\ QuotaInv'
    BY <1>1, <2>1, MkdirKeeps
  <2>3. jail' \in 0..MAX_DENTRIES
    BY <1>1, <1>2, <2>1, SlotsTyped DEF mkdirResult, VfsTypeOK
  <2> QED
    BY <1>1, <2>1, <2>2, <2>3 DEF FsInv, VfsTypeOK
<1>5. CASE clearJail
  <2>1. jail' = None /\ UNCHANGED <<dentries, inodes, files, used, held, bends>>
    BY <1>5 DEF clearJail
  <2>2. QuotaInv'
    BY <1>1, <2>1, QuotaFrame
  <2> QED
    BY <1>1, <1>2, <2>1, <2>2 DEF FsInv, VfsTypeOK
<1> QED
  BY <1>3, <1>4, <1>5

\* What a reset does to one dentry.
Pruned(gone, d) ==
  CASE d \in gone -> [dentries[d] EXCEPT !.used = FALSE, !.children = <<>>]
    [] d \notin gone /\ d = jail -> [dentries[d] EXCEPT !.children = <<>>]
    [] OTHER -> dentries[d]

\* The dentries a reset frees are below the jail, and it frees each.
LEMMA ResetDoes ==
  ASSUME VfsTypeOK, clearJailContents
  PROVE  \E kids, gone \in SUBSET Dentries :
           /\ jail \in Dentries
           /\ kids = Range(dentries[jail].children)
           /\ gone = Below(kids) /\ kids \subseteq gone /\ IsClosed(gone)
           /\ \A X \in SUBSET Dentries : kids \subseteq X /\ IsClosed(X) => gone \subseteq X
           /\ dentries' = [d \in Dentries |-> Pruned(gone, d)]
           /\ inodes' = [i \in Inodes |->
                IF i \in {dentries[d].inode : d \in gone} \ {None}
                THEN [inodes[i] EXCEPT !.used = FALSE, !.data = NoData, !.size = 0] ELSE inodes[i]]
           /\ LET bytes == lengths(Freed(gone))
              IN  fsRelease(bytes) /\ held' = held - bytes
           /\ UNCHANGED <<files, jail, bends>>
<1>1. jail \in Dentries
  <2>1. jail # None /\ jail \in 0..MAX_DENTRIES
    BY DEF VfsTypeOK, clearJailContents
  <2> QED
    BY <2>1, VfsAssumption DEF None, Dentries
<1>2. PICK kids, gone : kids = Range(dentries[jail].children) /\ gone = Below(kids)
  OBVIOUS
<1>3. kids \in SUBSET Dentries
  <2>1. PICK l : l = dentries[jail].children
    OBVIOUS
  <2>2. l \in Seq(Dentries)
    BY <1>1, <2>1 DEF VfsTypeOK, Table, Dentry
  <2>3. Range(l) \subseteq Dentries
    BY <2>2 DEF Range
  <2> QED
    BY <1>2, <2>1, <2>3
<1>4. /\ kids \subseteq gone /\ gone \in SUBSET Dentries /\ IsClosed(gone)
      /\ \A X \in SUBSET Dentries : kids \subseteq X /\ IsClosed(X) => gone \subseteq X
  BY <1>2, <1>3, BelowDoes DEF VfsTypeOK
<1>5. dentries' = pruned(gone)
  BY <1>2 DEF clearJailContents, walked
<1>6. dentries' = [d \in Dentries |-> Pruned(gone, d)]
  BY <1>5 DEF pruned, Pruned
<1>7. inodes' = [i \in Inodes |->
        IF i \in {dentries[d].inode : d \in gone} \ {None}
        THEN [inodes[i] EXCEPT !.used = FALSE, !.data = NoData, !.size = 0] ELSE inodes[i]]
  BY <1>2 DEF clearJailContents, walked
<1>8. LET bytes == lengths(Freed(gone))
      IN  fsRelease(bytes) /\ held' = held - bytes
  BY <1>2 DEF clearJailContents, walked
<1>9. UNCHANGED <<files, jail, bends>>
  BY DEF clearJailContents
<1> QED
  BY <1>1, <1>2, <1>3, <1>4, <1>6, <1>7, <1>8, <1>9

\* A reset leaves an empty list in what it frees and in the jail, and the others
\* as they were.
LEMMA PrunedDoes ==
  ASSUME VfsTypeOK, NEW gone \in SUBSET Dentries, NEW d \in Dentries
  PROVE  LET r == Pruned(gone, d) IN
         /\ r \in Dentry /\ r.inode = dentries[d].inode /\ r.parent = dentries[d].parent
         /\ d \in gone => ~r.used
         /\ d \notin gone => r.used = dentries[d].used
         /\ r.children = IF d \in gone \/ d = jail THEN <<>> ELSE dentries[d].children
<1>1. PICK e : e = dentries[d]
  OBVIOUS
<1>2. e \in Dentry /\ << >> \in Seq(Dentries)
  BY <1>1 DEF VfsTypeOK, Table
<1>3. CASE d \in gone
  <2>1. PICK r : r = [e EXCEPT !.used = FALSE, !.children = <<>>]
    OBVIOUS
  <2>2. /\ r \in Dentry /\ r.inode = e.inode /\ r.parent = e.parent /\ ~r.used
        /\ r.children = <<>>
    BY <1>2, <2>1 DEF Dentry
  <2>3. Pruned(gone, d) = r
    BY <1>1, <1>3, <2>1, Zenon DEF Pruned
  <2> QED
    BY <1>1, <1>3, <2>2, <2>3
<1>4. CASE d \notin gone /\ d = jail
  <2>1. PICK r : r = [e EXCEPT !.children = <<>>]
    OBVIOUS
  <2>2. /\ r \in Dentry /\ r.inode = e.inode /\ r.parent = e.parent /\ r.used = e.used
        /\ r.children = <<>>
    BY <1>2, <2>1 DEF Dentry
  <2>3. Pruned(gone, d) = r
    BY <1>1, <1>4, <2>1, Zenon DEF Pruned
  <2> QED
    BY <1>1, <1>4, <2>2, <2>3
<1>5. CASE d \notin gone /\ d # jail
  <2>1. Pruned(gone, d) = e
    BY <1>1, <1>5 DEF Pruned
  <2> QED
    BY <1>1, <1>2, <1>5, <2>1 DEF Dentry
<1> QED
  BY <1>3, <1>4, <1>5

LEMMA ResetKeepsFs ==
  ASSUME FsInv, clearJailContents
  PROVE  FsInv'
<1>1. VfsTypeOK /\ QuotaInv
  BY DEF FsInv
<1>2. PICK kids, gone \in SUBSET Dentries :
        /\ dentries' = [d \in Dentries |-> Pruned(gone, d)]
        /\ inodes' = [i \in Inodes |->
             IF i \in {dentries[d].inode : d \in gone} \ {None}
             THEN [inodes[i] EXCEPT !.used = FALSE, !.data = NoData, !.size = 0] ELSE inodes[i]]
        /\ LET bytes == lengths(Freed(gone))
           IN  fsRelease(bytes) /\ held' = held - bytes
        /\ UNCHANGED <<files, jail, bends>>
  BY <1>1, ResetDoes
<1>3. PICK T : T = {dentries[d].inode : d \in gone} \ {None}
  OBVIOUS
<1>4. T \in SUBSET Inodes
  <2>1. \A d \in gone : dentries[d].inode \in 0..MAX_INODES
    BY <1>1 DEF VfsTypeOK, Table, Dentry
  <2>2. \A i \in 0..MAX_INODES : i # None => i \in Inodes
    BY VfsAssumption DEF None, Inodes
  <2> QED
    BY <1>3, <2>1, <2>2
<1>5. PICK J : J = inodes'
  OBVIOUS
<1>6. \A i \in Inodes : J[i] = IF i \in T THEN [inodes[i] EXCEPT !.used = FALSE, !.data = NoData, !.size = 0]
                               ELSE inodes[i]
  BY <1>2, <1>3, <1>5
<1>7. ASSUME NEW i \in Inodes
      PROVE  J[i] \in Inode /\ J[i].data = IF i \in T THEN NoData ELSE inodes[i].data
  <2>1. inodes[i] \in Inode
    BY <1>1 DEF VfsTypeOK
  <2>2. PICK r : r = [inodes[i] EXCEPT !.used = FALSE, !.data = NoData, !.size = 0]
    OBVIOUS
  <2>3. r \in Inode /\ r.data = NoData
    BY <2>1, <2>2 DEF Inode
  <2> QED
    BY <1>6, <2>1, <2>2, <2>3
<1>8. J \in [Inodes -> Inode]
  <2>1. J = [i \in Inodes |-> J[i]]
    BY <1>2, <1>5
  <2> QED
    BY <1>7, <2>1
<1>9. Freed(gone) = {i \in T : inodes[i].data # NoData}
  BY <1>3 DEF Freed
<1>10. PICK n : n = lengths({i \in T : inodes[i].data # NoData})
  OBVIOUS
<1>11. n \in Nat /\ Stored(J) = Stored(inodes) - n /\ n <= Stored(inodes)
  <2>1. inodes \in [Inodes -> Inode]
    BY <1>1 DEF VfsTypeOK
  <2>2. \A j \in Inodes : J[j].data = IF j \in T THEN NoData ELSE inodes[j].data
    BY <1>7
  <2> QED
    BY <1>4, <1>8, <1>10, <2>1, <2>2, StoredClear, Zenon
<1>12. fsRelease(n) /\ held' = held - n
  BY <1>2, <1>9, <1>10
<1>13. PICK s : s = Stored(inodes) /\ s \in Nat
  BY <1>1, StoredTyped DEF VfsTypeOK
<1>14. /\ used \in Nat /\ held \in Int /\ used = held /\ used <= FS_CAP_BYTES /\ s <= used
       /\ FS_CAP_BYTES \in Nat
  BY <1>1, <1>13, VfsAssumption DEF VfsTypeOK, QuotaInv, FsBytesExact
<1>15. used' = used - n
  BY <1>11, <1>12, <1>13, <1>14 DEF fsRelease
<1>16. used' \in Nat /\ held' \in Int /\ used' = held' /\ used' <= FS_CAP_BYTES /\ s - n <= used'
  BY <1>11, <1>12, <1>13, <1>14, <1>15
<1>17. QuotaInv'
  <2>1. Stored(inodes)' = s - n
    BY <1>5, <1>11, <1>13 DEF Stored, Bytes
  <2> QED
    BY <1>16, <2>1 DEF QuotaInv, FsBytesExact
<1>18. dentries' \in Table
  <2>1. \A d \in Dentries : Pruned(gone, d) \in Dentry
    BY <1>1, PrunedDoes
  <2> QED
    BY <1>2, <2>1 DEF Table
<1> QED
  BY <1>1, <1>2, <1>5, <1>8, <1>16, <1>17, <1>18 DEF FsInv, VfsTypeOK

LEMMA FsInit == Init => FsInv
<1>1. SUFFICES ASSUME Init PROVE FsInv
  OBVIOUS
<1>2. MAX_DENTRIES \in Nat \ {0} /\ MAX_INODES \in Nat \ {0} /\ FS_CAP_BYTES \in Nat
  BY VfsAssumption
<1>3. dentries \in Table
  <2>1. PICK r : r = [Blank EXCEPT !.name = <<"/">>, !.inode = 1]
    OBVIOUS
  <2>2. r \in Dentry
    <3>1. <<"/">> \in Seq(Words) /\ 1 \in 0..MAX_INODES
      <4>1. 1 \in 0..MAX_INODES
        BY <1>2
      <4>2. "/" \in Words
        BY DEF Words
      <4>3. \A x \in Words : << x >> \in Seq(Words)
        OBVIOUS
      <4> QED
        BY <4>1, <4>2, <4>3, Zenon
    <3> QED
      BY <2>1, <3>1, BlankTyped DEF Dentry
  <2>3. dentries = [d \in Dentries |-> IF d = Root THEN r ELSE [Blank EXCEPT !.used = FALSE]]
    BY <1>1, <2>1 DEF Init
  <2> QED
    BY <2>2, <2>3, BlankTyped DEF Table
<1>4. inodes \in [Inodes -> Inode] /\ \A i \in Inodes : inodes[i].data = NoData
  <2>1. \A b \in BOOLEAN : /\ [NewInode EXCEPT !.used = b] \in Inode
                           /\ [NewInode EXCEPT !.used = b].data = NoData
    BY DEF NewInode, Inode, NoData
  <2>2. inodes = [i \in Inodes |-> [NewInode EXCEPT !.used = (i = 1)]]
    BY <1>1 DEF Init
  <2>3. \A i \in Inodes : (i = 1) \in BOOLEAN
    OBVIOUS
  <2> QED
    BY <2>1, <2>2, <2>3, Zenon
<1>5. Closed \in File /\ ~Closed.used
  BY <1>2 DEF Closed, File, None
<1>6. files \in [Fds -> File] /\ \A fd \in Fds : ~files[fd].used
  BY <1>1, <1>5 DEF Init
<1>7. jail \in 0..MAX_DENTRIES /\ used = 0 /\ held = 0 /\ bends = 0
  BY <1>1, <1>2 DEF Init, None
<1>8. Stored(inodes) = 0
  <2>1. \A i \in Inodes : Bytes(inodes)[i] = 0
    BY <1>4 DEF Bytes
  <2>2. Units(Bytes(inodes), Inodes) = {}
    BY <2>1 DEF Units
  <2> QED
    BY <2>2, FS_EmptySet DEF Stored
<1> QED
  BY <1>2, <1>3, <1>4, <1>6, <1>7, <1>8 DEF FsInv, VfsTypeOK, QuotaInv, FsBytesExact

LEMMA FsStep == FsInv /\ [Next]_vars => FsInv'
<1>1. SUFFICES ASSUME FsInv, [Next]_vars PROVE FsInv'
  OBVIOUS
<1>2. NewDirs \subseteq Paths
  BY VfsAssumption
<1>3. CASE \E path \in Paths, n \in Counts, alloc \in BOOLEAN : createFile(path, n, alloc)
  BY <1>1, <1>3, CreateKeepsFs
<1>4. CASE \E path \in Paths, dirfd \in Fds \cup {None}, abs \in BOOLEAN :
             openat(dirfd, abs, path) \/ openatCreate(dirfd, abs, path)
  BY <1>1, <1>4, OpenKeepsFs
<1>5. CASE \E path \in Paths : unlinkat(path)
  BY <1>1, <1>5, UnlinkKeepsFs
<1>6. CASE \E path \in NewDirs : mkdirat(path)
  BY <1>1, <1>2, <1>6, MkdirKeepsFs
<1>7. CASE \E path \in Paths : linkat(path, JailPath)
  BY <1>1, <1>7, LinkKeepsFs
<1>8. CASE setJail(JailPath) \/ clearJail
  BY <1>1, <1>8, SetJailKeepsFs
<1>9. CASE \E fd \in Fds, n \in Counts : read(fd, n) \/ seek(fd, n)
  BY <1>1, <1>9, SeekKeepsFs
<1>10. CASE \E fd \in Fds, n \in Counts, alloc \in BOOLEAN : write(fd, n, alloc)
  BY <1>1, <1>10, WriteKeepsFs
<1>11. CASE \E fd \in Fds : close(fd)
  BY <1>1, <1>11, CloseKeepsFs
<1>12. CASE clearJailContents
  BY <1>1, <1>12, ResetKeepsFs
<1>13. CASE UNCHANGED vars
  BY <1>1, <1>13, QuotaFrame DEF vars, FsInv, VfsTypeOK
<1> QED
  BY <1>1, <1>3, <1>4, <1>5, <1>6, <1>7, <1>8, <1>9, <1>10, <1>11, <1>12, <1>13 DEF Next

\* The tables keep their types and the quota its books, whatever calls are made.
THEOREM FsInvariant == Spec => []FsInv
BY FsInit, FsStep, PTL DEF Spec

\* fs_used_bytes is exactly what the file system holds from the page allocator,
\* and never above the cap.
THEOREM FsQuotaIsExact == Spec => []FsBytesExact
<1>1. FsInv => FsBytesExact
  BY DEF FsInv, QuotaInv
<1> QED
  BY <1>1, FsInvariant, PTL

-----------------------------------------------------------------------------
(* The calm tree. *)

IsLive(D, d) == D[d].used /\ D[d].inode # None

\* h orders the dentries from the root down.
Ranks(D, h) ==
  /\ h \in [Dentries -> Nat]
  /\ \A d \in Dentries : IsLive(D, d) /\ d # Root => h[D[d].parent] < h[d]

\* Parents are live, lists hold the live children once, and there are no cycles.
\* A slot taken without an inode hangs nowhere.
IsTree(D) ==
  /\ IsLive(D, Root) /\ D[Root].parent = None
  /\ \A d \in Dentries : IsLive(D, d) /\ d # Root => D[d].parent \in Dentries /\ IsLive(D, D[d].parent)
  /\ \A d \in Dentries : IsLive(D, d) =>
       /\ \A e \in Dentries : e \in Range(D[d].children) <=> IsLive(D, e) /\ D[e].parent = d
       /\ IsInjective(D[d].children)
  /\ \A d \in Dentries : D[d].used /\ D[d].inode = None => D[d].parent = None
  /\ \E h : Ranks(D, h)

\* Every live dentry has an inode of its own, which is in use.
OwnsInodes(D, I) ==
  /\ \A d \in Dentries : IsLive(D, d) => I[D[d].inode].used
  /\ \A d, e \in Dentries : IsLive(D, d) /\ IsLive(D, e) /\ D[d].inode = D[e].inode => d = e

CalmInv ==
  calm => /\ IsTree(dentries)
          /\ OwnsInodes(dentries, inodes)
          /\ jail # None => IsLive(dentries, jail)

\* A set of dentries that has the children of its members, by list or by parent,
\* has what any path resolves to from them.
LEMMA LookupStays ==
  ASSUME NEW D \in Table, NEW X \in SUBSET Dentries, NEW start \in X, NEW path \in Seq(Words),
         \A p \in X : Range(D[p].children) \subseteq X,
         \A p \in X, e \in Dentries : IsLive(D, e) /\ D[e].parent = p => e \in X
  PROVE  lookupPath(D, start, path) \in X \cup {None}
<1>1. start \in 0..MAX_DENTRIES
  BY VfsAssumption DEF Dentries
<1>2. PICK n : n = Len(path) /\ n \in Nat
  OBVIOUS
<1>3. PICK f \in [0..n -> 0..MAX_DENTRIES] :
        /\ f[0] = start /\ lookupPath(D, start, path) = f[n]
        /\ \A k \in 1..n : f[k] = IF f[k - 1] = None THEN None ELSE lookupChild(D, f[k - 1], path[k])
  <2>1. \E f \in [0..Len(path) -> 0..MAX_DENTRIES] :
          /\ f[0] = start /\ lookupPath(D, start, path) = f[Len(path)]
          /\ \A k \in 1..Len(path) :
               f[k] = IF f[k - 1] = None THEN None ELSE lookupChild(D, f[k - 1], path[k])
    <3>1. start \in 0..MAX_DENTRIES /\ D \in Table /\ path \in Seq(Words)
      BY <1>1
    <3> QED
      BY ONLY <3>1, LookupPathDoes, Zenon
  <2>2. Len(path) = n
    BY <1>2
  <2> QED
    BY ONLY <2>1, <2>2, Zenon
<1> DEFINE In == {k \in 0..n : f[k] \in X \cup {None}}
<1>4. 0 \in In
  BY <1>2, <1>3
<1>5. ASSUME NEW k \in 1..n, k - 1 \in In PROVE k \in In
  <2>1. PICK p, e : p = f[k - 1] /\ e = f[k]
    OBVIOUS
  <2>2. p \in X \cup {None} /\ e = IF p = None THEN None ELSE lookupChild(D, p, path[k])
    BY <1>3, <1>5, <2>1
  <2>3. e \in X \cup {None}
    <3>1. CASE p = None
      BY <2>2, <3>1
    <3>2. CASE p # None
      <4>1. p \in X /\ p \in Dentries /\ e = lookupChild(D, p, path[k])
        BY <2>2, <3>2
      <4>2. e # None => \/ e \in Range(D[p].children)
                        \/ e \in Dentries /\ D[e].used /\ D[e].inode # None /\ D[e].parent = p
        BY <4>1, LookupChildDoes
      <4> QED
        BY <4>1, <4>2 DEF IsLive
    <3> QED
      BY <3>1, <3>2
  <2> QED
    BY <1>2, <2>1, <2>3
<1>6. \A k \in 1..n : k - 1 \in In => k \in In
  BY <1>5
<1>7. n \in In
  <2> HIDE DEF In
  <2>1. \A k \in 0..n : k \in In
    BY <1>2, <1>4, <1>6, UpTo
  <2> QED
    BY <1>2, <2>1
<1> QED
  BY <1>3, <1>7

\* The walk up.
LEMMA ChainDoes ==
  ASSUME dentries \in Table, NEW d \in 0..MAX_DENTRIES
  PROVE  \E f \in [0..MAX_DENTRIES -> 0..MAX_DENTRIES] :
           /\ f[0] = d /\ Chain(d) = {f[k] : k \in 0..MAX_DENTRIES}
           /\ \A k \in 1..MAX_DENTRIES :
                f[k] = IF f[k - 1] = None THEN None ELSE dentries[f[k - 1]].parent
<1> DEFINE n == MAX_DENTRIES
           S == 0..MAX_DENTRIES
           next(x) == IF x = None THEN None ELSE dentries[x].parent
           F == [q \in (1..n) \X S |-> next(q[2])]
           Unfolds(h) == h = [k \in 0..n |-> IF k = 0 THEN d
                                            ELSE IF h[k - 1] = None THEN None
                                                 ELSE dentries[h[k - 1]].parent]
<1>1. n \in Nat
  BY VfsAssumption
<1>2. ASSUME NEW x \in S PROVE next(x) \in S
  <2>1. CASE x = None
    BY <1>1, <2>1 DEF None
  <2>2. CASE x # None
    <3>1. x \in Dentries
      BY <1>1, <2>2 DEF None, Dentries
    <3>2. dentries[x].parent \in S
      BY <3>1 DEF Table, Dentry
    <3> QED
      BY <2>2, <3>2
  <2> QED
    BY <2>1, <2>2
<1>3. F \in [(1..n) \X S -> S]
  BY <1>2
<1>4. PICK g : Walk(g, n, S, d, F)
  <2>1. d \in S
    OBVIOUS
  <2> HIDE DEF n, F, S
  <2> QED
    BY <1>1, <1>3, <2>1, WalkExists
<1>5. g \in [0..n -> S] /\ g[0] = d
  BY <1>4 DEF Walk
<1>6. ASSUME NEW k \in 1..n PROVE g[k] = next(g[k - 1])
  <2>1. k - 1 \in 0..n
    BY <1>1
  <2>2. g[k - 1] \in S
    BY <1>5, <2>1
  <2>3. g[k] = F[<<k, g[k - 1]>>]
    BY <1>4 DEF Walk
  <2> HIDE DEF next
  <2> QED
    BY <2>2, <2>3
<1>7. Unfolds(g)
  <2>1. \A k \in 0..n : k = 0 \/ k \in 1..n
    BY <1>1
  <2> QED
    BY <1>5, <1>6, <2>1
<1>8. PICK f : f = CHOOSE h : Unfolds(h)
  OBVIOUS
<1>9. Unfolds(f)
  BY <1>7, <1>8
<1>10. Chain(d) = {f[k] : k \in 0..n}
  BY <1>8 DEF Chain
<1>11. f[0] = d /\ \A k \in 1..n : f[k] = next(f[k - 1])
  BY <1>1, <1>9
<1>12. \A k \in 0..n : f[k] \in S
  <2> DEFINE Typed == {k \in 0..n : f[k] \in S}
  <2>1. 0 \in Typed
    BY <1>1, <1>11
  <2>2. \A k \in 1..n : k - 1 \in Typed => k \in Typed
    <3> HIDE DEF next, S
    <3> QED
      BY <1>1, <1>2, <1>11
  <2> HIDE DEF Typed
  <2>3. \A k \in 0..n : k \in Typed
    BY <1>1, <2>1, <2>2, UpTo
  <2> QED
    BY <2>3 DEF Typed
<1>13. f \in [0..n -> S]
  <2>1. f = [k \in 0..n |-> f[k]]
    BY <1>9
  <2> QED
    BY <1>12, <2>1
<1> QED
  BY <1>10, <1>11, <1>13

\* In a tree the walk up from a live dentry ends: it never meets the same dentry
\* twice and there are only so many.
LEMMA WalkUpEnds ==
  ASSUME dentries \in Table, IsTree(dentries), NEW d \in Dentries, IsLive(dentries, d),
         NEW f \in [0..MAX_DENTRIES -> 0..MAX_DENTRIES], f[0] = d,
         \A k \in 1..MAX_DENTRIES :
           f[k] = IF f[k - 1] = None THEN None ELSE dentries[f[k - 1]].parent
  PROVE  f[MAX_DENTRIES] = None
<1>1. PICK n : n = MAX_DENTRIES /\ n \in Nat
  BY VfsAssumption
<1>2. PICK h : Ranks(dentries, h)
  BY DEF IsTree
<1> DEFINE Lower(k) == /\ f[k] \in Dentries /\ IsLive(dentries, f[k])
                       /\ \A j \in 0..(k - 1) : f[j] # None /\ h[f[k]] < h[f[j]]
           Good == {k \in 0..n : f[k] = None \/ Lower(k)}
<1>3. 0 \in Good
  BY <1>1
<1>4. ASSUME NEW k \in 1..n, k - 1 \in Good PROVE k \in Good
  <2>1. PICK p, e : p = f[k - 1] /\ e = f[k]
    OBVIOUS
  <2>2. e = IF p = None THEN None ELSE dentries[p].parent
    BY <1>1, <2>1
  <2>3. k \in 0..n /\ k - 1 \in 0..n
    BY <1>1, StepBack
  <2>4. CASE p = None \/ p = Root
    <3>1. e = None
      BY <2>2, <2>4 DEF IsTree
    <3> QED
      BY <2>1, <2>3, <3>1
  <2>5. CASE p # None /\ p # Root
    <3>1. Lower(k - 1)
      BY <1>4, <2>1, <2>5
    <3>2. p \in Dentries /\ IsLive(dentries, p)
      BY <2>1, <3>1
    <3>3. e = dentries[p].parent /\ e \in Dentries /\ IsLive(dentries, e) /\ h[e] < h[p]
      BY <1>2, <2>2, <2>5, <3>2 DEF IsTree, Ranks
    <3>4. h[e] \in Nat /\ h[p] \in Nat
      BY <1>2, <3>2, <3>3 DEF Ranks
    <3>5. ASSUME NEW j \in 0..(k - 1) PROVE f[j] # None /\ h[e] < h[f[j]]
      <4>1. CASE j = k - 1
        BY <2>1, <2>5, <3>3, <4>1
      <4>2. CASE j # k - 1
        <5>1. j \in 0..((k - 1) - 1) /\ j \in 0..n
          BY <1>1, <4>2
        <5>2. f[j] # None /\ h[p] < h[f[j]]
          BY <2>1, <3>1, <5>1
        <5>3. f[j] \in Dentries
          <6>1. f[j] \in 0..MAX_DENTRIES
            BY <1>1, <5>1
          <6> QED
            BY <5>2, <6>1, VfsAssumption DEF None, Dentries
        <5>4. h[f[j]] \in Nat
          BY <1>2, <5>3 DEF Ranks
        <5> QED
          BY <3>3, <3>4, <5>2, <5>4
      <4> QED
        BY <4>1, <4>2
    <3>6. Lower(k)
      BY <2>1, <3>3, <3>5
    <3> HIDE DEF Lower
    <3> QED
      BY <2>3, <3>6
  <2> QED
    BY <2>4, <2>5
<1>5. \A k \in 0..n : k \in Good
  <2>1. \A k \in 1..n : k - 1 \in Good => k \in Good
    BY <1>4
  <2> HIDE DEF Good
  <2> QED
    BY <1>1, <1>3, <2>1, UpTo
<1>6. SUFFICES ASSUME f[n] # None PROVE FALSE
  BY <1>1
<1>7. Lower(n)
  <2>1. n \in 0..n
    BY <1>1
  <2> HIDE DEF Lower
  <2> QED
    BY <1>5, <1>6, <2>1
<1>8. \A k \in 0..n : f[k] # None
  <2>1. \A k \in 0..n : k = n \/ k \in 0..(n - 1)
    BY <1>1
  <2> QED
    BY <1>6, <1>7, <2>1
<1>9. \A k \in 0..n : Lower(k)
  <2> HIDE DEF Lower
  <2> QED
    BY <1>5, <1>8
<1>10. ASSUME NEW j \in 0..n, NEW k \in 0..n, j < k PROVE f[j] # f[k]
  <2>1. j \in 0..(k - 1)
    BY <1>1, <1>10
  <2>2. h[f[k]] < h[f[j]] /\ f[k] \in Dentries
    BY <1>9, <2>1
  <2>3. h[f[k]] \in Nat
    BY <1>2, <2>2 DEF Ranks
  <2> QED
    BY <2>2, <2>3
<1>11. \A j, k \in 0..n : j # k => f[j] # f[k]
  <2>1. \A j, k \in 0..n : j # k => j < k \/ k < j
    BY <1>1
  <2> QED
    BY <1>10, <2>1
<1>12. f \in [0..n -> Dentries]
  <2>1. \A k \in 0..n : f[k] \in Dentries
    BY <1>9
  <2> QED
    BY <1>1, <2>1
<1>13. f \in [0..n -> 1..n]
  BY <1>1, <1>12 DEF Dentries
<1>14. PICK x, y \in 0..n : x # y /\ f[x] = f[y]
  BY <1>1, <1>13, TwoMeet
<1> QED
  BY <1>11, <1>14

\* The walk up from a live dentry is the dentry and the walk up from its parent.
LEMMA ChainFacts ==
  ASSUME dentries \in Table, IsTree(dentries)
  PROVE  /\ \A d \in Dentries : d \in Chain(d)
         /\ \A d \in Dentries : dentries[d].parent = None => Chain(d) = {d, None}
         /\ \A d \in Dentries : IsLive(dentries, d) /\ d # Root =>
              Chain(d) = {d} \cup Chain(dentries[d].parent)
<1>1. PICK n : n = MAX_DENTRIES /\ n \in Nat /\ n > 0
  BY VfsAssumption
<1>2. \A d \in Dentries : d \in 0..MAX_DENTRIES
  BY <1>1 DEF Dentries
<1>3. ASSUME NEW d \in Dentries
      PROVE  d \in Chain(d) /\ (dentries[d].parent = None => Chain(d) = {d, None})
  <2>1. PICK f \in [0..MAX_DENTRIES -> 0..MAX_DENTRIES] :
          /\ f[0] = d /\ Chain(d) = {f[k] : k \in 0..MAX_DENTRIES}
          /\ \A k \in 1..MAX_DENTRIES :
               f[k] = IF f[k - 1] = None THEN None ELSE dentries[f[k - 1]].parent
    BY <1>2, ChainDoes
  <2>2. d \in Chain(d)
    BY <1>1, <2>1
  <2>3. ASSUME dentries[d].parent = None PROVE Chain(d) = {d, None}
    <3> DEFINE Good == {k \in 0..n : k = 0 \/ f[k] = None}
    <3>1. 0 \in Good
      BY <1>1
    <3>2. ASSUME NEW k \in 1..n, k - 1 \in Good PROVE k \in Good
      <4>1. k \in 0..n /\ f[k] = IF f[k - 1] = None THEN None ELSE dentries[f[k - 1]].parent
        BY <1>1, <2>1
      <4>2. CASE k - 1 = 0
        BY <2>1, <2>3, <4>1, <4>2
      <4>3. CASE k - 1 # 0
        BY <3>2, <4>1, <4>3
      <4> QED
        BY <4>2, <4>3
    <3>3. \A k \in 1..n : k - 1 \in Good => k \in Good
      BY <3>2
    <3>4. \A k \in 0..n : k \in Good
      <4> HIDE DEF Good
      <4> QED
        BY <1>1, <3>1, <3>3, UpTo
    <3>5. \A k \in 0..n : f[k] \in {d, None}
      BY <2>1, <3>4
    <3>6. 0 \in 0..n /\ 1 \in 0..n /\ f[1] = None
      BY <1>1, <3>4
    <3> QED
      BY <1>1, <2>1, <3>5, <3>6
  <2> QED
    BY <2>2, <2>3
<1>4. ASSUME NEW d \in Dentries, IsLive(dentries, d), d # Root
      PROVE  Chain(d) = {d} \cup Chain(dentries[d].parent)
  <2>1. PICK p : p = dentries[d].parent /\ p \in Dentries /\ IsLive(dentries, p)
    BY <1>4 DEF IsTree
  <2>2. PICK f \in [0..MAX_DENTRIES -> 0..MAX_DENTRIES] :
          /\ f[0] = d /\ Chain(d) = {f[k] : k \in 0..MAX_DENTRIES}
          /\ \A k \in 1..MAX_DENTRIES :
               f[k] = IF f[k - 1] = None THEN None ELSE dentries[f[k - 1]].parent
    BY <1>2, ChainDoes
  <2>3. PICK g \in [0..MAX_DENTRIES -> 0..MAX_DENTRIES] :
          /\ g[0] = p /\ Chain(p) = {g[k] : k \in 0..MAX_DENTRIES}
          /\ \A k \in 1..MAX_DENTRIES :
               g[k] = IF g[k - 1] = None THEN None ELSE dentries[g[k - 1]].parent
    BY <1>2, <2>1, ChainDoes
  <2>4. f[n] = None /\ g[n] = None
    BY <1>1, <1>4, <2>1, <2>2, <2>3, WalkUpEnds
  <2> DEFINE Good == {k \in 0..n : k = 0 \/ f[k] = g[k - 1]}
  <2>5. 0 \in Good
    BY <1>1
  <2>6. ASSUME NEW k \in 1..n, k - 1 \in Good PROVE k \in Good
    <3>1. k \in 0..n
      BY <1>1
    <3>2. f[k] = IF f[k - 1] = None THEN None ELSE dentries[f[k - 1]].parent
      BY <1>1, <2>2
    <3>3. CASE k - 1 = 0
      <4>1. d # None
        BY <1>1 DEF None, Dentries
      <4> QED
        BY <2>1, <2>2, <2>3, <3>1, <3>2, <3>3, <4>1
    <3>4. CASE k - 1 # 0
      <4>1. f[k - 1] = g[k - 1 - 1]
        BY <2>6, <3>4
      <4>2. k - 1 \in 1..n
        BY <1>1, <3>4
      <4>3. g[k - 1] = IF g[k - 1 - 1] = None THEN None ELSE dentries[g[k - 1 - 1]].parent
        BY <1>1, <2>3, <4>2
      <4> QED
        BY <3>1, <3>2, <4>1, <4>3
    <3> QED
      BY <3>3, <3>4
  <2>7. \A k \in 1..n : k - 1 \in Good => k \in Good
    BY <2>6
  <2>8. \A k \in 0..n : k \in Good
    <3> HIDE DEF Good
    <3> QED
      BY <1>1, <2>5, <2>7, UpTo
  <2>9. \A k \in 1..n : f[k] = g[k - 1]
    <3>1. \A k \in 1..n : k \in 0..n /\ k # 0
      BY <1>1
    <3> QED
      BY <2>8, <3>1
  <2>10. ASSUME NEW x \in Chain(d) PROVE x \in {d} \cup Chain(p)
    <3>1. PICK k \in 0..n : x = f[k]
      BY <1>1, <2>2
    <3>2. CASE k = 0
      BY <2>2, <3>1, <3>2
    <3>3. CASE k # 0
      <4>1. k \in 1..n /\ k - 1 \in 0..n
        BY <1>1, <3>3
      <4>2. x = g[k - 1]
        BY <2>9, <3>1, <4>1
      <4> QED
        BY <1>1, <2>3, <4>1, <4>2
    <3> QED
      BY <3>2, <3>3
  <2>11. ASSUME NEW x \in {d} \cup Chain(p) PROVE x \in Chain(d)
    <3>1. CASE x = d
      BY <1>3, <3>1
    <3>2. CASE x \in Chain(p)
      <4>1. PICK k \in 0..n : x = g[k]
        BY <1>1, <2>3, <3>2
      <4>2. CASE k = n
        <5>1. x = f[n] /\ n \in 0..n
          BY <1>1, <2>4, <4>1, <4>2
        <5> QED
          BY <1>1, <2>2, <5>1
      <4>3. CASE k # n
        <5>1. k + 1 \in 1..n /\ k + 1 \in 0..n /\ (k + 1) - 1 = k
          BY <1>1, <4>3
        <5>2. x = f[k + 1]
          BY <2>9, <4>1, <5>1
        <5> QED
          BY <1>1, <2>2, <5>1, <5>2
      <4> QED
        BY <4>2, <4>3
    <3> QED
      BY <2>11, <3>1, <3>2
  <2> QED
    BY <2>1, <2>10, <2>11
<1> QED
  BY <1>3, <1>4

\* Every live dentry is below the root.
LEMMA RootAbove ==
  ASSUME dentries \in Table, IsTree(dentries), NEW d \in Dentries, IsLive(dentries, d)
  PROVE  Root \in Chain(d)
<1>1. PICK h : Ranks(dentries, h)
  BY DEF IsTree
<1>2. SUFFICES ASSUME Root \notin Chain(d) PROVE FALSE
  OBVIOUS
<1> DEFINE Bad == {e \in Dentries : IsLive(dentries, e) /\ Root \notin Chain(e)}
           Low == {h[e] : e \in Bad}
<1>3. Low \subseteq Nat /\ Low # {}
  BY <1>1, <1>2 DEF Ranks
<1>4. PICK m \in Low : \A k \in Low : m <= k
  BY <1>3, LeastNat
<1>5. PICK e \in Bad : m = h[e]
  BY <1>4
<1>6. e \in Dentries /\ IsLive(dentries, e) /\ Root \notin Chain(e)
  BY <1>5
<1>7. e # Root
  BY <1>6, ChainFacts
<1>8. PICK p : /\ p = dentries[e].parent /\ p \in Dentries /\ IsLive(dentries, p)
               /\ h[p] < h[e] /\ Chain(e) = {e} \cup Chain(p)
  BY <1>1, <1>6, <1>7, ChainFacts DEF IsTree, Ranks
<1>9. p \in Bad
  BY <1>6, <1>8
<1>10. h[e] <= h[p]
  BY <1>4, <1>5, <1>9
<1>11. h[e] \in Nat /\ h[p] \in Nat
  BY <1>1, <1>6, <1>8 DEF Ranks
<1> QED
  BY <1>8, <1>10, <1>11

\* From a live dentry a path resolves to what is live and at it or below it.
LEMMA LookupLive ==
  ASSUME dentries \in Table, IsTree(dentries), NEW start \in Dentries, IsLive(dentries, start),
         NEW path \in Seq(Words), NEW d, d = lookupPath(dentries, start, path), d # None
  PROVE  d \in Dentries /\ IsLive(dentries, d) /\ start \in Chain(d)
<1> DEFINE X == {e \in Dentries : IsLive(dentries, e) /\ start \in Chain(e)}
<1>1. start \in X
  BY ChainFacts
<1>2. ASSUME NEW p \in X, NEW e \in Dentries, IsLive(dentries, e), dentries[e].parent = p
      PROVE  e \in X
  <2>1. p \in Dentries /\ start \in Chain(p)
    OBVIOUS
  <2>2. e # Root
    BY <1>2, <2>1 DEF IsTree, None, Dentries
  <2>3. Chain(e) = {e} \cup Chain(p)
    BY <1>2, <2>2, ChainFacts
  <2> QED
    BY <1>2, <2>1, <2>3
<1>3. ASSUME NEW p \in X, NEW e \in Range(dentries[p].children) PROVE e \in X
  <2>1. p \in Dentries /\ IsLive(dentries, p)
    OBVIOUS
  <2>2. e \in Dentries
    <3>1. PICK l : l = dentries[p].children
      OBVIOUS
    <3>2. l \in Seq(Dentries)
      BY <2>1, <3>1 DEF Table, Dentry
    <3>3. \A x \in Range(l) : x \in Dentries
      BY <3>2 DEF Range
    <3> QED
      BY <3>1, <3>3
  <2>3. IsLive(dentries, e) /\ dentries[e].parent = p
    BY <2>1, <2>2 DEF IsTree
  <2> QED
    BY <1>2, <2>2, <2>3
<1>4. X \in SUBSET Dentries
  OBVIOUS
<1>5. \A p \in X : Range(dentries[p].children) \subseteq X
  BY <1>3
<1>6. \A p \in X, e \in Dentries : IsLive(dentries, e) /\ dentries[e].parent = p => e \in X
  BY <1>2
<1>7. d \in X
  <2> HIDE DEF X
  <2> QED
    BY <1>1, <1>4, <1>5, <1>6, LookupStays
<1> QED
  BY <1>7

-----------------------------------------------------------------------------
(* Every call keeps the calm tree, or bends it. *)

\* A live dentry that its parent's list takes: the tree grows by a leaf.
LEMMA TreeGrows ==
  ASSUME NEW D \in Table, IsTree(D), NEW d \in Dentries, ~D[d].used, NEW i \in Inodes,
         NEW p \in Dentries, IsLive(D, p), NEW R, Adds(D, R, d, i, p), registered(R, d)
  PROVE  IsTree(R) /\ IsLive(R, d) /\ \A e \in Dentries \ {d} : IsLive(R, e) <=> IsLive(D, e)
<1>1. p # d /\ ~IsLive(D, d) /\ i # None
  BY VfsAssumption DEF IsLive, Inodes, None
<1>2. /\ R \in Table
      /\ R[d].used /\ R[d].inode = i /\ R[d].parent = p /\ R[d].children = <<>>
      /\ \A e \in Dentries \ {d} :
           R[e].used = D[e].used /\ R[e].inode = D[e].inode /\ R[e].parent = D[e].parent
      /\ \A e \in Dentries \ {d, p} : R[e].children = D[e].children
  BY <1>1 DEF Adds
<1>3. IsLive(R, d) /\ \A e \in Dentries \ {d} : IsLive(R, e) <=> IsLive(D, e)
  BY <1>1, <1>2 DEF IsLive
<1>4. PICK l : l = D[p].children /\ l \in Seq(Dentries)
  BY DEF Table, Dentry
<1>5. \A e \in Dentries : e \in Range(l) <=> IsLive(D, e) /\ D[e].parent = p
  BY <1>4 DEF IsTree
<1>6. d \notin Range(l) /\ IsInjective(l)
  BY <1>1, <1>4, <1>5 DEF IsTree
<1>7. R[p].children = Append(l, d)
  <2>1. d \in Range(R[p].children)
    BY <1>2 DEF registered
  <2> QED
    BY <1>1, <1>4, <1>6, <2>1 DEF Adds
<1>8. Range(Append(l, d)) = Range(l) \cup {d} /\ IsInjective(Append(l, d))
  <2>1. PICK n : n = Len(l) /\ n \in Nat
    BY <1>4
  <2>2. PICK m : m = Append(l, d)
    OBVIOUS
  <2>3. /\ DOMAIN l = 1..n /\ DOMAIN m = 1..(n + 1) /\ m[n + 1] = d
        /\ \A k \in 1..n : m[k] = l[k]
    BY <1>4, <2>1, <2>2
  <2>4. \A k \in 1..(n + 1) : k = n + 1 \/ k \in 1..n
    BY <2>1
  <2>5. n + 1 \in 1..(n + 1) /\ \A k \in 1..n : k \in 1..(n + 1)
    BY <2>1
  <2>6. \A k \in 1..n : l[k] \in Range(l) /\ l[k] # d
    BY <1>6, <2>3 DEF Range
  <2>7. Range(m) = Range(l) \cup {d}
    <3>1. \A x \in Range(m) : x \in Range(l) \cup {d}
      BY <2>3, <2>4, <2>6 DEF Range
    <3>2. \A x \in Range(l) : x \in Range(m)
      BY <2>3, <2>5 DEF Range
    <3>3. d \in Range(m)
      BY <2>3, <2>5 DEF Range
    <3> QED
      BY <3>1, <3>2, <3>3
  <2>8. IsInjective(m)
    <3>1. \A j, k \in 1..n : l[j] = l[k] => j = k
      BY <1>6, <2>3 DEF IsInjective
    <3>2. \A j, k \in 1..(n + 1) : m[j] = m[k] => j = k
      BY <2>3, <2>4, <2>6, <3>1
    <3> QED
      BY <2>3, <3>2 DEF IsInjective
  <2> QED
    BY <2>2, <2>7, <2>8
<1>9. IsLive(R, Root) /\ R[Root].parent = None
  <2>1. Root \in Dentries /\ Root # d
    BY <1>1, VfsAssumption DEF IsTree, Root, Dentries
  <2> QED
    BY <1>2, <1>3, <2>1 DEF IsTree
<1>10. ASSUME NEW e \in Dentries, IsLive(R, e), e # Root
       PROVE  R[e].parent \in Dentries /\ IsLive(R, R[e].parent)
  <2>1. CASE e = d
    BY <1>1, <1>2, <1>3, <2>1
  <2>2. CASE e # d
    <3>1. IsLive(D, e) /\ R[e].parent = D[e].parent
      BY <1>2, <1>3, <1>10, <2>2
    <3>2. D[e].parent \in Dentries /\ IsLive(D, D[e].parent)
      BY <1>10, <3>1 DEF IsTree
    <3> QED
      BY <1>1, <1>3, <3>1, <3>2
  <2> QED
    BY <2>1, <2>2
<1>11. ASSUME NEW e \in Dentries, IsLive(R, e)
       PROVE  /\ \A x \in Dentries : x \in Range(R[e].children) <=> IsLive(R, x) /\ R[x].parent = e
              /\ IsInjective(R[e].children)
  <2>1. CASE e = d
    <3>1. R[e].children = <<>> /\ Range(<< >>) = {} /\ IsInjective(<< >>)
      BY <1>2, <2>1 DEF Range, IsInjective
    <3>2. \A x \in Dentries : IsLive(R, x) => R[x].parent # e
      <4>1. SUFFICES ASSUME NEW x \in Dentries, IsLive(R, x), R[x].parent = e PROVE FALSE
        OBVIOUS
      <4>2. x # d
        BY <1>1, <1>2, <2>1, <4>1
      <4>3. IsLive(D, x) /\ D[x].parent = d
        BY <1>2, <1>3, <2>1, <4>1, <4>2
      <4>4. x # Root
        BY <4>3, VfsAssumption DEF IsTree, None, Dentries
      <4> QED
        BY <1>1, <4>3, <4>4 DEF IsTree
    <3> QED
      BY <3>1, <3>2
  <2>2. CASE e = p
    <3>1. \A x \in Dentries : x \in Range(l) \cup {d} <=> IsLive(R, x) /\ R[x].parent = e
      <4>1. SUFFICES ASSUME NEW x \in Dentries
                     PROVE  x \in Range(l) \cup {d} <=> IsLive(R, x) /\ R[x].parent = e
        OBVIOUS
      <4>2. CASE x = d
        BY <1>2, <1>3, <2>2, <4>2
      <4>3. CASE x # d
        BY <1>2, <1>3, <1>5, <2>2, <4>3
      <4> QED
        BY <4>2, <4>3
    <3> QED
      BY <1>7, <1>8, <2>2, <3>1
  <2>3. CASE e # d /\ e # p
    <3>1. IsLive(D, e) /\ R[e].children = D[e].children
      BY <1>2, <1>3, <1>11, <2>3
    <3>2. /\ \A x \in Dentries : x \in Range(D[e].children) <=> IsLive(D, x) /\ D[x].parent = e
          /\ IsInjective(D[e].children)
      BY <3>1 DEF IsTree
    <3>3. \A x \in Dentries : IsLive(D, x) /\ D[x].parent = e <=> IsLive(R, x) /\ R[x].parent = e
      <4>1. SUFFICES ASSUME NEW x \in Dentries
                     PROVE  IsLive(D, x) /\ D[x].parent = e <=> IsLive(R, x) /\ R[x].parent = e
        OBVIOUS
      <4>2. CASE x = d
        BY <1>1, <1>2, <2>3, <4>2
      <4>3. CASE x # d
        BY <1>2, <1>3, <4>3
      <4> QED
        BY <4>2, <4>3
    <3> QED
      BY <3>1, <3>2, <3>3
  <2> QED
    BY <2>1, <2>2, <2>3
<1>12. \A e \in Dentries : R[e].used /\ R[e].inode = None => R[e].parent = None
  BY <1>1, <1>2 DEF IsTree
<1>13. \E h : Ranks(R, h)
  <2>1. PICK g : Ranks(D, g)
    BY DEF IsTree
  <2>2. PICK h : h = [g EXCEPT ![d] = g[p] + 1]
    OBVIOUS
  <2>3. h \in [Dentries -> Nat] /\ h[d] = g[p] + 1 /\ \A e \in Dentries : e # d => h[e] = g[e]
    BY <2>1, <2>2 DEF Ranks
  <2>4. ASSUME NEW e \in Dentries, IsLive(R, e), e # Root PROVE h[R[e].parent] < h[e]
    <3>1. CASE e = d
      <4>1. h[R[e].parent] = g[p] /\ h[e] = g[p] + 1 /\ g[p] \in Nat
        BY <1>1, <1>2, <2>1, <2>3, <3>1 DEF Ranks
      <4> QED
        BY <4>1
    <3>2. CASE e # d
      <4>1. IsLive(D, e) /\ R[e].parent = D[e].parent
        BY <1>2, <1>3, <2>4, <3>2
      <4>2. D[e].parent \in Dentries /\ D[e].parent # d
        BY <1>1, <2>4, <4>1 DEF IsTree
      <4>3. g[D[e].parent] < g[e]
        BY <2>1, <2>4, <4>1 DEF Ranks
      <4> QED
        BY <2>3, <3>2, <4>1, <4>2, <4>3
    <3> QED
      BY <3>1, <3>2
  <2>5. Ranks(R, h)
    BY <2>3, <2>4 DEF Ranks
  <2> QED
    BY <2>5
<1> QED
  BY <1>3, <1>9, <1>10, <1>11, <1>12, <1>13 DEF IsTree

\* A slot that is live neither before nor after changes nothing.
LEMMA TreeStands ==
  ASSUME NEW D \in Table, IsTree(D), NEW R, NEW d \in Dentries, ~IsLive(D, d), ~IsLive(R, d),
         R[d].used => R[d].parent = None,
         \A e \in Dentries \ {d} :
           R[e].used = D[e].used /\ R[e].inode = D[e].inode /\ R[e].parent = D[e].parent,
         \A e \in Dentries \ {d} : IsLive(D, e) => R[e].children = D[e].children
  PROVE  IsTree(R) /\ \A e \in Dentries : IsLive(R, e) <=> IsLive(D, e)
<1>1. \A e \in Dentries : IsLive(R, e) <=> IsLive(D, e)
  BY DEF IsLive
<1>2. \A e \in Dentries : IsLive(D, e) => e # d /\ R[e].parent = D[e].parent /\ R[e].children = D[e].children
  OBVIOUS
<1>3. IsLive(R, Root) /\ R[Root].parent = None
  BY <1>1, <1>2, VfsAssumption DEF IsTree, Root, Dentries
<1>4. \A e \in Dentries : IsLive(R, e) /\ e # Root => R[e].parent \in Dentries /\ IsLive(R, R[e].parent)
  BY <1>1, <1>2 DEF IsTree
<1>5. ASSUME NEW e \in Dentries, IsLive(R, e)
      PROVE  /\ \A x \in Dentries : x \in Range(R[e].children) <=> IsLive(R, x) /\ R[x].parent = e
             /\ IsInjective(R[e].children)
  <2>1. IsLive(D, e) /\ R[e].children = D[e].children
    BY <1>1, <1>2, <1>5
  <2>2. /\ \A x \in Dentries : x \in Range(D[e].children) <=> IsLive(D, x) /\ D[x].parent = e
        /\ IsInjective(D[e].children)
    BY <2>1 DEF IsTree
  <2> QED
    BY <1>1, <1>2, <2>1, <2>2
<1>6. \A e \in Dentries : R[e].used /\ R[e].inode = None => R[e].parent = None
  BY DEF IsTree
<1>7. \E h : Ranks(R, h)
  <2>1. PICK h : Ranks(D, h)
    BY DEF IsTree
  <2>2. Ranks(R, h)
    BY <1>1, <1>2, <2>1 DEF Ranks
  <2> QED
    BY <2>2
<1> QED
  BY <1>1, <1>3, <1>4, <1>5, <1>6, <1>7 DEF IsTree

\* The parent createFile finds is live: the new dentry hangs nowhere yet, so the
\* walk that looks for the parent cannot meet it.
LEMMA AboveLive ==
  ASSUME dentries \in Table, IsTree(dentries), NEW d \in Dentries, ~dentries[d].used,
         NEW i \in 0..MAX_INODES, NEW path \in Paths, Front(path) \in Seq(Words),
         NEW p, p = Above(d, i, path), p # None
  PROVE  p \in Dentries /\ IsLive(dentries, p)
<1>1. PICK N : N = Named(d, i, path)
  OBVIOUS
<1>2. N \in Table
  BY <1>1, LinkedDoes
<1>3. PICK r : r = [Blank EXCEPT !.name = <<Last(path)>>, !.inode = i]
  OBVIOUS
<1>4. r.parent = None
  BY <1>3 DEF Blank
<1>5. N[d] = r /\ \A e \in Dentries : e # d => N[e] = dentries[e]
  BY <1>1, <1>3 DEF Named, Table
<1> DEFINE X == {e \in Dentries : IsLive(dentries, e)}
<1>6. X \in SUBSET Dentries /\ Root \in X /\ d \notin X
  BY VfsAssumption DEF IsTree, IsLive, Root, Dentries
<1>7. ASSUME NEW q \in X PROVE Range(N[q].children) \subseteq X
  <2>1. N[q] = dentries[q]
    BY <1>5, <1>6
  <2>2. PICK l : l = dentries[q].children /\ l \in Seq(Dentries)
    BY DEF Table, Dentry
  <2>3. \A x \in Range(l) : x \in Dentries
    BY <2>2 DEF Range
  <2>4. \A x \in Dentries : x \in Range(l) => IsLive(dentries, x)
    BY <2>2 DEF IsTree
  <2> QED
    BY <2>1, <2>2, <2>3, <2>4
<1>8. ASSUME NEW q \in X, NEW e \in Dentries, IsLive(N, e), N[e].parent = q PROVE e \in X
  <2>1. q # None
    BY VfsAssumption DEF None, Dentries
  <2>2. e # d
    BY <1>4, <1>5, <1>8, <2>1
  <2> QED
    BY <1>5, <1>8, <2>2 DEF IsLive
<1>9. p = lookupPath(N, Root, Front(path))
  BY <1>1 DEF Above
<1>10. p \in X
  <2>1. \A q \in X : Range(N[q].children) \subseteq X
    BY <1>7
  <2>2. \A q \in X, e \in Dentries : IsLive(N, e) /\ N[e].parent = q => e \in X
    BY <1>8
  <2>3. PICK parts : parts = Front(path) /\ parts \in Seq(Words)
    OBVIOUS
  <2> HIDE DEF X
  <2>4. lookupPath(N, Root, parts) \in X \cup {None}
    BY <1>2, <1>6, <2>1, <2>2, <2>3, LookupStays
  <2> QED
    BY <1>9, <2>3, <2>4
<1> QED
  BY <1>10

\* Ownership reads the inodes that live dentries name.
LEMMA OwnsStands ==
  ASSUME NEW D \in Table, NEW R, NEW I, NEW J, OwnsInodes(D, I),
         \A e \in Dentries : IsLive(R, e) => IsLive(D, e) /\ R[e].inode = D[e].inode,
         \A e \in Dentries : IsLive(R, e) /\ I[D[e].inode].used => J[D[e].inode].used
  PROVE  OwnsInodes(R, J)
<1>1. \A e \in Dentries : IsLive(R, e) => J[R[e].inode].used
  BY DEF OwnsInodes
<1>2. \A d, e \in Dentries : IsLive(R, d) /\ IsLive(R, e) /\ R[d].inode = R[e].inode => d = e
  BY DEF OwnsInodes
<1> QED
  BY <1>1, <1>2 DEF OwnsInodes

\* A free inode is nobody's, so the new dentry's is its own.
LEMMA OwnsGrows ==
  ASSUME NEW D \in Table, NEW R, NEW I \in [Inodes -> Inode], NEW d \in Dentries, NEW i \in Inodes,
         OwnsInodes(D, I), ~I[i].used, NEW r, r.used, NEW J, J = [I EXCEPT ![i] = r],
         IsLive(R, d), R[d].inode = i,
         \A e \in Dentries \ {d} : (IsLive(R, e) <=> IsLive(D, e)) /\ R[e].inode = D[e].inode
  PROVE  OwnsInodes(R, J)
<1>1. J[i].used /\ \A j \in Inodes : j # i => J[j] = I[j]
  OBVIOUS
<1>2. \A e \in Dentries : IsLive(D, e) => D[e].inode \in Inodes
  <2>1. \A e \in Dentries : D[e].inode \in 0..MAX_INODES
    BY DEF Table, Dentry
  <2> QED
    BY <2>1, VfsAssumption DEF IsLive, None, Inodes
<1>3. \A e \in Dentries \ {d} : IsLive(R, e) => R[e].inode \in Inodes /\ R[e].inode # i /\ I[R[e].inode].used
  BY <1>2 DEF OwnsInodes
<1>4. \A e \in Dentries : IsLive(R, e) => J[R[e].inode].used
  BY <1>1, <1>3
<1>5. \A e, f \in Dentries : IsLive(R, e) /\ IsLive(R, f) /\ R[e].inode = R[f].inode => e = f
  BY <1>3 DEF OwnsInodes
<1> QED
  BY <1>4, <1>5 DEF OwnsInodes

\* createFile, and the creation openat falls back on.
LEMMA CreatedTree ==
  ASSUME FsInv, CalmInv, NEW path \in Paths, NEW n \in Nat, NEW alloc \in BOOLEAN,
         created(path, n, alloc), calm'
  PROVE  /\ calm /\ IsTree(dentries') /\ OwnsInodes(dentries', inodes')
         /\ \A e \in Dentries : IsLive(dentries, e) => IsLive(dentries', e)
<1>1. VfsTypeOK /\ dentries \in Table /\ inodes \in [Inodes -> Inode] /\ bends \in Nat
  BY DEF FsInv, VfsTypeOK
<1>2. PICK d, i : d = FreeSlot(dentries) /\ i = FreeSlot(inodes)
  OBVIOUS
<1>3. /\ d \in Dentries /\ ~dentries[d].used /\ i \in 0..MAX_INODES
      /\ i # None => i \in Inodes /\ ~inodes[i].used
  BY <1>1, <1>2, SlotsTyped DEF created
<1>4. ~IsLive(dentries, d)
  BY <1>3 DEF IsLive
<1>5. PICK D : D = linked(d, i, path)
  OBVIOUS
<1>6. bends' = 0
  BY DEF calm
<1>7. calm
  <2>1. bends' = bends \/ bend(~registered(D, d)) \/ bend(registered(D, d))
    BY <1>2, <1>5 DEF created
  <2> QED
    BY <1>1, <1>6, <2>1, BendTyped DEF calm
<1>8. IsTree(dentries) /\ OwnsInodes(dentries, inodes)
  BY <1>7 DEF CalmInv
<1>9. PICK p \in Dentries : /\ Adds(dentries, D, d, i, p)
                            /\ \/ p = Root
                               \/ p = Above(d, i, path) /\ p # None /\ Front(path) \in Seq(Words)
  BY <1>1, <1>3, <1>5, LinkedDoes
<1>10. IsLive(dentries, p) /\ p # d
  <2>1. CASE p = Root
    BY <1>4, <1>8, <2>1 DEF IsTree
  <2>2. CASE p = Above(d, i, path) /\ p # None /\ Front(path) \in Seq(Words)
    BY <1>1, <1>3, <1>4, <1>8, <2>2, AboveLive
  <2> QED
    BY <1>9, <2>1, <2>2
<1>11. /\ D \in Table /\ D[d].used /\ D[d].inode = i /\ D[d].parent = p
       /\ \A e \in Dentries \ {d} :
            D[e].used = dentries[e].used /\ D[e].inode = dentries[e].inode /\ D[e].parent = dentries[e].parent
       /\ \A e \in Dentries \ {d, p} : D[e].children = dentries[e].children
       /\ \/ D[p].children = dentries[p].children
          \/ D[p].children = Append(dentries[p].children, d)
  BY <1>9, <1>10 DEF Adds
<1>12. CASE /\ i = None
            /\ dentries' = [dentries EXCEPT ![d] = [Blank EXCEPT !.used = FALSE]]
            /\ UNCHANGED <<inodes, used, held, bends>>
  <2>1. PICK r, R : r = [Blank EXCEPT !.used = FALSE] /\ R = dentries'
    OBVIOUS
  <2>2. ~r.used /\ R[d] = r /\ \A e \in Dentries : e # d => R[e] = dentries[e]
    <3>1. ~r.used
      BY <2>1 DEF Blank
    <3>2. R = [dentries EXCEPT ![d] = r]
      BY <1>12, <2>1
    <3>3. DOMAIN dentries = Dentries
      BY <1>1 DEF Table
    <3> QED
      BY <1>3, <3>1, <3>2, <3>3
  <2>3. ~IsLive(R, d)
    BY <2>2 DEF IsLive
  <2>4. IsTree(R) /\ \A e \in Dentries : IsLive(R, e) <=> IsLive(dentries, e)
    BY <1>1, <1>3, <1>4, <1>8, <2>2, <2>3, TreeStands
  <2>5. OwnsInodes(R, inodes)
    BY <1>1, <1>4, <1>8, <2>2, <2>4, OwnsStands
  <2> QED
    BY <1>7, <1>12, <2>1, <2>4, <2>5
<1>13. CASE /\ i # None /\ fsCharge(n) /\ alloc
            /\ dentries' = D
            /\ inodes' = [inodes EXCEPT ![i] = [NewInode EXCEPT !.data = n, !.size = n, !.ops = TRUE]]
            /\ used' = used + n /\ held' = held + n
            /\ bend(~registered(D, d))
  <2>1. registered(D, d)
    BY <1>1, <1>6, <1>13, BendTyped
  <2>2. IsTree(D) /\ IsLive(D, d) /\ \A e \in Dentries \ {d} : IsLive(D, e) <=> IsLive(dentries, e)
    BY <1>1, <1>3, <1>8, <1>9, <1>10, <1>13, <2>1, TreeGrows
  <2>3. PICK r : r = [NewInode EXCEPT !.data = n, !.size = n, !.ops = TRUE]
    OBVIOUS
  <2>4. r.used
    BY <2>3 DEF NewInode
  <2>5. PICK J : J = inodes' /\ J = [inodes EXCEPT ![i] = r]
    BY <1>13, <2>3
  <2>6. OwnsInodes(D, J)
    <3>1. \A e \in Dentries \ {d} : (IsLive(D, e) <=> IsLive(dentries, e)) /\ D[e].inode = dentries[e].inode
      BY <1>11, <2>2
    <3>2. i \in Inodes /\ ~inodes[i].used /\ d \in Dentries /\ D[d].inode = i
      BY <1>3, <1>11, <1>13
    <3>3. IsLive(D, d) /\ J = [inodes EXCEPT ![i] = r] /\ r.used
      BY <2>2, <2>4, <2>5
    <3>4. OwnsInodes(dentries, inodes) /\ dentries \in Table /\ inodes \in [Inodes -> Inode]
      BY <1>1, <1>8
    <3> QED
      BY <3>1, <3>2, <3>3, <3>4, OwnsGrows
  <2> QED
    BY <1>4, <1>7, <1>13, <2>2, <2>5, <2>6
<1>14. CASE /\ i # None /\ ~(fsCharge(n) /\ alloc)
            /\ dentries' = [D EXCEPT ![d].used = FALSE]
            /\ inodes' = [inodes EXCEPT ![i] = [NewInode EXCEPT !.used = FALSE]]
            /\ bend(registered(D, d))
            /\ UNCHANGED <<used, held>>
  <2>1. ~registered(D, d)
    BY <1>1, <1>6, <1>14, BendTyped
  <2>2. D[p].children = dentries[p].children
    <3>1. PICK l : l = dentries[p].children /\ l \in Seq(Dentries)
      BY <1>1 DEF Table, Dentry
    <3>2. d \in Range(Append(l, d))
      <4>1. Append(l, d)[Len(l) + 1] = d /\ Len(l) + 1 \in DOMAIN Append(l, d)
        BY <3>1
      <4> QED
        BY <4>1 DEF Range
    <3>3. d \notin Range(D[p].children)
      BY <1>11, <2>1 DEF registered
    <3> QED
      BY <1>11, <3>1, <3>2, <3>3
  <2>3. PICK R : R = dentries' /\ R = [D EXCEPT ![d].used = FALSE]
    BY <1>14
  <2>4. ~R[d].used /\ \A e \in Dentries : e # d => R[e] = D[e]
    BY <1>3, <1>11, <2>3, UnuseDoes
  <2>5. ~IsLive(R, d)
    BY <2>4 DEF IsLive
  <2>6. \A e \in Dentries \ {d} :
          /\ R[e].used = dentries[e].used /\ R[e].inode = dentries[e].inode
          /\ R[e].parent = dentries[e].parent /\ R[e].children = dentries[e].children
    <3>1. \A e \in Dentries \ {d} : R[e] = D[e] /\ D[e].children = dentries[e].children
      BY <1>11, <2>2, <2>4
    <3> QED
      BY <1>11, <3>1
  <2>7. IsTree(R) /\ \A e \in Dentries : IsLive(R, e) <=> IsLive(dentries, e)
    BY <1>1, <1>3, <1>4, <1>8, <2>4, <2>5, <2>6, TreeStands
  <2>8. PICK J : J = inodes' /\ \A j \in Inodes : j # i => J[j] = inodes[j]
    BY <1>1, <1>14
  <2>9. \A e \in Dentries : IsLive(R, e) /\ inodes[dentries[e].inode].used => J[dentries[e].inode].used
    <3>1. SUFFICES ASSUME NEW e \in Dentries, IsLive(R, e), inodes[dentries[e].inode].used
                   PROVE  J[dentries[e].inode].used
      OBVIOUS
    <3>2. dentries[e].inode \in Inodes
      <4>1. dentries[e].inode \in 0..MAX_INODES /\ dentries[e].inode # None
        BY <1>1, <2>7, <3>1 DEF Table, Dentry, IsLive
      <4> QED
        BY <4>1, VfsAssumption DEF None, Inodes
    <3>3. dentries[e].inode # i
      BY <1>3, <1>14, <3>1
    <3> QED
      BY <2>8, <3>1, <3>2, <3>3
  <2>10. \A e \in Dentries : IsLive(R, e) => IsLive(dentries, e) /\ R[e].inode = dentries[e].inode
    BY <1>4, <2>6, <2>7
  <2>11. OwnsInodes(R, J)
    BY <1>1, <1>8, <2>9, <2>10, OwnsStands
  <2> QED
    BY <1>7, <2>3, <2>7, <2>8, <2>11
<1> QED
  BY <1>2, <1>5, <1>12, <1>13, <1>14 DEF created

\* mkdirat, and the making of a jail.
LEMMA MkdirTree ==
  ASSUME FsInv, CalmInv, NEW path \in Paths, mkdiratImpl(path), calm'
  PROVE  /\ calm /\ IsTree(dentries') /\ OwnsInodes(dentries', inodes')
         /\ \A e \in Dentries : IsLive(dentries, e) => IsLive(dentries', e)
         /\ mkdirResult # None => IsLive(dentries', mkdirResult)
<1>1. VfsTypeOK /\ dentries \in Table /\ inodes \in [Inodes -> Inode] /\ bends \in Nat
  BY DEF FsInv, VfsTypeOK
<1>2. PICK d, i : d = FreeSlot(dentries) /\ i = FreeSlot(inodes)
  OBVIOUS
<1>3. /\ d \in Dentries /\ ~dentries[d].used /\ i \in 0..MAX_INODES
      /\ i # None => i \in Inodes /\ ~inodes[i].used
  BY <1>1, <1>2, SlotsTyped DEF mkdiratImpl
<1>4. ~IsLive(dentries, d)
  BY <1>3 DEF IsLive
<1>5. PICK D : D = MadeDir(d, i, path)
  OBVIOUS
<1>6. bends' = 0
  BY DEF calm
<1>7. calm
  <2>1. bends' = bends \/ bend(~registered(D, d))
    BY <1>2, <1>5 DEF mkdiratImpl, MadeDir
  <2> QED
    BY <1>1, <1>6, <2>1, BendTyped DEF calm
<1>8. IsTree(dentries) /\ OwnsInodes(dentries, inodes)
  BY <1>7 DEF CalmInv
<1>9. Adds(dentries, D, d, i, Root)
  BY <1>1, <1>3, <1>5, MadeDirDoes
<1>10. Root \in Dentries /\ IsLive(dentries, Root) /\ Root # d
  BY <1>4, <1>8, VfsAssumption DEF IsTree, Root, Dentries
<1>11. mkdirResult = IF i = None THEN None ELSE d
  BY <1>2 DEF mkdirResult
<1>12. CASE /\ i = None
            /\ dentries' = [dentries EXCEPT ![d] = Blank]
            /\ UNCHANGED <<inodes, bends>>
  <2>1. PICK r, R : r = Blank /\ R = dentries'
    OBVIOUS
  <2>2. r.inode = None /\ r.parent = None /\ R[d] = r /\ \A e \in Dentries : e # d => R[e] = dentries[e]
    <3>1. r.inode = None /\ r.parent = None
      BY <2>1 DEF Blank
    <3>2. R = [dentries EXCEPT ![d] = r]
      BY <1>12, <2>1
    <3>3. DOMAIN dentries = Dentries
      BY <1>1 DEF Table
    <3> QED
      BY <1>3, <3>1, <3>2, <3>3
  <2>3. ~IsLive(R, d) /\ R[d].parent = None
    BY <2>2 DEF IsLive
  <2>4. IsTree(R) /\ \A e \in Dentries : IsLive(R, e) <=> IsLive(dentries, e)
    BY <1>1, <1>3, <1>4, <1>8, <2>2, <2>3, TreeStands
  <2>5. OwnsInodes(R, inodes)
    BY <1>1, <1>4, <1>8, <2>2, <2>4, OwnsStands
  <2> QED
    BY <1>7, <1>11, <1>12, <2>1, <2>4, <2>5
<1>13. CASE /\ i # None
            /\ dentries' = D
            /\ inodes' = [inodes EXCEPT ![i] = [NewInode EXCEPT !.ops = TRUE]]
            /\ bend(~registered(D, d))
  <2>1. registered(D, d)
    BY <1>1, <1>6, <1>13, BendTyped
  <2>2. IsTree(D) /\ IsLive(D, d) /\ \A e \in Dentries \ {d} : IsLive(D, e) <=> IsLive(dentries, e)
    BY <1>1, <1>3, <1>8, <1>9, <1>10, <1>13, <2>1, TreeGrows
  <2>3. PICK r : r = [NewInode EXCEPT !.ops = TRUE]
    OBVIOUS
  <2>4. r.used
    BY <2>3 DEF NewInode
  <2>5. PICK J : J = inodes' /\ J = [inodes EXCEPT ![i] = r]
    BY <1>13, <2>3
  <2>6. OwnsInodes(D, J)
    <3>1. \A e \in Dentries \ {d} : D[e].inode = dentries[e].inode
      BY <1>9 DEF Adds
    <3>2. \A e \in Dentries \ {d} : (IsLive(D, e) <=> IsLive(dentries, e)) /\ D[e].inode = dentries[e].inode
      BY <2>2, <3>1
    <3>3. i \in Inodes /\ ~inodes[i].used /\ d \in Dentries /\ D[d].inode = i
      BY <1>3, <1>9, <1>13 DEF Adds
    <3>4. IsLive(D, d) /\ J = [inodes EXCEPT ![i] = r] /\ r.used
      BY <2>2, <2>4, <2>5
    <3>5. OwnsInodes(dentries, inodes) /\ dentries \in Table /\ inodes \in [Inodes -> Inode]
      BY <1>1, <1>8
    <3> QED
      BY <3>2, <3>3, <3>4, <3>5, OwnsGrows
  <2> QED
    BY <1>4, <1>7, <1>11, <1>13, <2>2, <2>5, <2>6
<1> QED
  BY <1>2, <1>5, <1>12, <1>13 DEF mkdiratImpl, MadeDir

\* A call that leaves the dentries, the use of the inodes and the jail alone.
LEMMA CalmFrame ==
  ASSUME CalmInv, UNCHANGED <<dentries, bends>>, dentries \in Table,
         \A i \in Inodes : inodes[i].used => inodes'[i].used,
         jail' \in {None, jail}
  PROVE  CalmInv'
<1>1. SUFFICES ASSUME calm'
               PROVE  /\ IsTree(dentries') /\ OwnsInodes(dentries', inodes')
                      /\ jail' # None => IsLive(dentries', jail')
  BY DEF CalmInv
<1>2. PICK D, J : D = dentries /\ J = inodes'
  OBVIOUS
<1>3. IsTree(D) /\ OwnsInodes(D, inodes) /\ (jail # None => IsLive(D, jail))
  BY <1>1, <1>2 DEF CalmInv, calm
<1>4. \A e \in Dentries : IsLive(D, e) => D[e].inode \in Inodes
  <2>1. \A e \in Dentries : D[e].inode \in 0..MAX_INODES
    BY <1>2 DEF Table, Dentry
  <2> QED
    BY <2>1, VfsAssumption DEF IsLive, None, Inodes
<1>5. OwnsInodes(D, J)
  BY <1>2, <1>3, <1>4 DEF OwnsInodes
<1> QED
  BY <1>2, <1>3, <1>5

\* In a calm tree a reset frees what is below the jail, and nothing else: what
\* freeDentryTree reaches ranks after the jail, and the highest of those it would
\* not reach has a parent that it does.
LEMMA GoneIs ==
  ASSUME dentries \in Table, IsTree(dentries), jail \in Dentries, IsLive(dentries, jail),
         NEW kids, kids = Range(dentries[jail].children), NEW gone \in SUBSET Dentries,
         kids \subseteq gone, IsClosed(gone),
         \A X \in SUBSET Dentries : kids \subseteq X /\ IsClosed(X) => gone \subseteq X
  PROVE  /\ \A d \in Dentries : d \in gone <=> IsLive(dentries, d) /\ d # jail /\ jail \in Chain(d)
         /\ \A h : Ranks(dentries, h) => \A d \in gone : h[jail] < h[d]
<1>1. ASSUME NEW p \in Dentries, IsLive(dentries, p), NEW e \in Range(dentries[p].children)
      PROVE  /\ e \in Dentries /\ IsLive(dentries, e) /\ dentries[e].parent = p
             /\ e # Root /\ Chain(e) = {e} \cup Chain(p)
  <2>1. e \in Dentries
    <3>1. PICK l : l = dentries[p].children /\ l \in Seq(Dentries)
      BY DEF Table, Dentry
    <3>2. \A x \in Range(l) : x \in Dentries
      BY <3>1 DEF Range
    <3> QED
      BY <3>1, <3>2
  <2>2. IsLive(dentries, e) /\ dentries[e].parent = p
    BY <1>1, <2>1 DEF IsTree
  <2>3. e # Root
    BY <2>2, VfsAssumption DEF IsTree, None, Dentries
  <2> QED
    BY <2>1, <2>2, <2>3, ChainFacts
<1>2. ASSUME NEW h, Ranks(dentries, h)
      PROVE  \A d \in gone : IsLive(dentries, d) /\ jail \in Chain(d) /\ h[jail] < h[d]
  <2> DEFINE X == {d \in Dentries : IsLive(dentries, d) /\ jail \in Chain(d) /\ h[jail] < h[d]}
  <2>1. jail \in Chain(jail)
    BY ChainFacts
  <2>2. ASSUME NEW e \in kids PROVE e \in X
    <3>1. /\ e \in Dentries /\ IsLive(dentries, e) /\ dentries[e].parent = jail
          /\ e # Root /\ Chain(e) = {e} \cup Chain(jail)
      BY <1>1, <2>2
    <3>2. h[jail] < h[e]
      BY <1>2, <3>1 DEF Ranks
    <3> QED
      BY <2>1, <3>1, <3>2
  <2>3. ASSUME NEW p \in X, NEW e \in Range(dentries[p].children) PROVE e \in X
    <3>1. p \in Dentries /\ IsLive(dentries, p) /\ jail \in Chain(p) /\ h[jail] < h[p]
      OBVIOUS
    <3>2. /\ e \in Dentries /\ IsLive(dentries, e) /\ dentries[e].parent = p
          /\ e # Root /\ Chain(e) = {e} \cup Chain(p)
      BY <1>1, <2>3, <3>1
    <3>3. h[p] < h[e]
      BY <1>2, <3>2 DEF Ranks
    <3>4. h[jail] \in Nat /\ h[p] \in Nat /\ h[e] \in Nat
      BY <1>2, <3>1, <3>2 DEF Ranks
    <3> QED
      BY <3>1, <3>2, <3>3, <3>4
  <2>4. X \in SUBSET Dentries /\ kids \subseteq X
    BY <2>2
  <2>5. IsClosed(X)
    BY <2>3 DEF IsClosed, Kids
  <2>6. gone \subseteq X
    <3> HIDE DEF X
    <3> QED
      BY <2>4, <2>5
  <2> QED
    BY <2>6
<1>3. PICK h : Ranks(dentries, h)
  BY DEF IsTree
<1>4. \A d \in gone : d # jail
  <2>1. h[jail] \in Nat
    BY <1>3 DEF Ranks
  <2> QED
    BY <1>2, <1>3, <2>1
<1>5. ASSUME NEW x \in Dentries, IsLive(dentries, x), x # jail, jail \in Chain(x), x \notin gone
      PROVE  FALSE
  <2> DEFINE Bad == {d \in Dentries : IsLive(dentries, d) /\ d # jail /\ jail \in Chain(d) /\ d \notin gone}
             Low == {h[d] : d \in Bad}
  <2>1. Low \subseteq Nat /\ Low # {}
    BY <1>3, <1>5 DEF Ranks
  <2>2. PICK m \in Low : \A k \in Low : m <= k
    BY <2>1, LeastNat
  <2>3. PICK d \in Bad : m = h[d]
    BY <2>2
  <2>4. d \in Dentries /\ IsLive(dentries, d) /\ d # jail /\ jail \in Chain(d) /\ d \notin gone
    BY <2>3
  <2>5. d # Root
    <3>1. SUFFICES ASSUME d = Root PROVE FALSE
      OBVIOUS
    <3>2. Chain(d) = {d, None}
      BY <2>4, <3>1, ChainFacts DEF IsTree
    <3>3. jail # None
      BY VfsAssumption DEF None, Dentries
    <3> QED
      BY <2>4, <3>2, <3>3
  <2>6. PICK p : /\ p = dentries[d].parent /\ p \in Dentries /\ IsLive(dentries, p)
                 /\ h[p] < h[d] /\ Chain(d) = {d} \cup Chain(p)
    BY <1>3, <2>4, <2>5, ChainFacts DEF IsTree, Ranks
  <2>7. d \in Range(dentries[p].children) /\ jail \in Chain(p)
    BY <2>4, <2>6 DEF IsTree
  <2>8. CASE p = jail
    BY <2>4, <2>7, <2>8
  <2>9. CASE p \in gone
    BY <2>4, <2>7, <2>9 DEF IsClosed, Kids
  <2>10. CASE p # jail /\ p \notin gone
    <3>1. p \in Bad
      BY <2>6, <2>7, <2>10
    <3>2. h[d] <= h[p]
      BY <2>2, <2>3, <3>1
    <3>3. h[d] \in Nat /\ h[p] \in Nat
      BY <1>3, <2>4, <2>6 DEF Ranks
    <3> QED
      BY <2>6, <3>2, <3>3
  <2> QED
    BY <2>8, <2>9, <2>10
<1> QED
  BY <1>2, <1>3, <1>4, <1>5

\* What a reset of a calm tree leaves: the dentries it does not free, as they were
\* but for the jail's list.
LEMMA ResetTree ==
  ASSUME FsInv, CalmInv, calm, clearJailContents
  PROVE  \E gone \in SUBSET Dentries :
           /\ \A d \in Dentries : d \in gone <=> IsLive(dentries, d) /\ d # jail /\ jail \in Chain(d)
           /\ \A d \in Dentries : dentries'[d].used <=> dentries[d].used /\ d \notin gone
           /\ IsTree(dentries') /\ OwnsInodes(dentries', inodes') /\ IsLive(dentries', jail)
<1>1. VfsTypeOK /\ dentries \in Table /\ inodes \in [Inodes -> Inode]
  BY DEF FsInv, VfsTypeOK
<1>2. PICK kids, gone \in SUBSET Dentries :
        /\ jail \in Dentries
        /\ kids = Range(dentries[jail].children)
        /\ kids \subseteq gone /\ IsClosed(gone)
        /\ \A X \in SUBSET Dentries : kids \subseteq X /\ IsClosed(X) => gone \subseteq X
        /\ dentries' = [d \in Dentries |-> Pruned(gone, d)]
        /\ inodes' = [i \in Inodes |->
             IF i \in {dentries[d].inode : d \in gone} \ {None}
             THEN [inodes[i] EXCEPT !.used = FALSE, !.data = NoData, !.size = 0] ELSE inodes[i]]
  BY <1>1, ResetDoes
<1>3. jail \in Dentries /\ jail # None
  <2>1. jail \in Dentries
    BY <1>2, Zenon
  <2> QED
    BY <2>1, VfsAssumption DEF None, Dentries
<1>4. IsTree(dentries) /\ OwnsInodes(dentries, inodes) /\ IsLive(dentries, jail)
  BY <1>3 DEF CalmInv
<1>5. /\ \A d \in Dentries : d \in gone <=> IsLive(dentries, d) /\ d # jail /\ jail \in Chain(d)
      /\ \A h : Ranks(dentries, h) => \A d \in gone : h[jail] < h[d]
  <2>1. kids \subseteq gone /\ IsClosed(gone) /\ kids = Range(dentries[jail].children)
    BY <1>2, Zenon
  <2>2. \A X \in SUBSET Dentries : kids \subseteq X /\ IsClosed(X) => gone \subseteq X
    BY <1>2, Zenon
  <2> QED
    BY <1>1, <1>3, <1>4, <2>1, <2>2, GoneIs
<1>6. PICK R, J : R = dentries' /\ J = inodes'
  OBVIOUS
<1>7. ASSUME NEW d \in Dentries
      PROVE  /\ R[d].inode = dentries[d].inode /\ R[d].parent = dentries[d].parent
             /\ R[d].used <=> dentries[d].used /\ d \notin gone
             /\ R[d].children = IF d \in gone \/ d = jail THEN <<>> ELSE dentries[d].children
  <2>1. R[d] = Pruned(gone, d)
    BY <1>2, <1>6
  <2>2. PICK r : r = Pruned(gone, d)
    OBVIOUS
  <2>3. /\ r.inode = dentries[d].inode /\ r.parent = dentries[d].parent
        /\ d \in gone => ~r.used
        /\ d \notin gone => r.used = dentries[d].used
        /\ r.children = IF d \in gone \/ d = jail THEN <<>> ELSE dentries[d].children
    BY <1>1, <2>2, PrunedDoes
  <2> QED
    BY <2>1, <2>2, <2>3
<1>8. \A d \in Dentries : IsLive(R, d) <=> IsLive(dentries, d) /\ d \notin gone
  BY <1>7 DEF IsLive
<1>9. jail \notin gone /\ IsLive(R, jail)
  BY <1>2, <1>4, <1>5, <1>8
<1>10. Root \in Dentries /\ Root \notin gone /\ IsLive(R, Root) /\ R[Root].parent = None
  <2>1. Root \in Dentries /\ dentries[Root].parent = None /\ IsLive(dentries, Root)
    BY <1>4, VfsAssumption DEF IsTree, Root, Dentries
  <2>2. Chain(Root) = {Root, None}
    BY <1>1, <1>4, <2>1, ChainFacts
  <2>3. Root \notin gone
    BY <1>3, <1>5, <2>1, <2>2
  <2> QED
    BY <1>7, <1>8, <2>1, <2>3
<1>11. ASSUME NEW e \in Dentries, IsLive(dentries, e), e # Root,
              dentries[e].parent \in gone
       PROVE  e \in gone
  <2>1. PICK p : p = dentries[e].parent /\ p \in Dentries /\ p \in gone
    BY <1>11
  <2>2. jail \in Chain(e)
    BY <1>1, <1>4, <1>5, <1>11, <2>1, ChainFacts
  <2>3. e # jail
    <3>1. PICK h : Ranks(dentries, h)
      BY <1>4 DEF IsTree
    <3>2. h[jail] < h[p] /\ h[p] < h[e] /\ h[jail] \in Nat /\ h[p] \in Nat
      BY <1>2, <1>5, <1>11, <2>1, <3>1 DEF Ranks
    <3> QED
      BY <3>2
  <2> QED
    BY <1>5, <1>11, <2>2, <2>3
<1>12. ASSUME NEW d \in Dentries, IsLive(R, d), d # Root
       PROVE  R[d].parent \in Dentries /\ IsLive(R, R[d].parent)
  <2>1. PICK p : p = R[d].parent /\ p = dentries[d].parent
    BY <1>7
  <2>2. IsLive(dentries, d) /\ d \notin gone
    BY <1>8, <1>12
  <2>3. p \in Dentries /\ IsLive(dentries, p) /\ p \notin gone
    BY <1>4, <1>11, <1>12, <2>1, <2>2 DEF IsTree
  <2> QED
    BY <1>8, <2>1, <2>3
<1>13. ASSUME NEW d \in Dentries, IsLive(R, d)
       PROVE  /\ \A e \in Dentries : e \in Range(R[d].children) <=> IsLive(R, e) /\ R[e].parent = d
              /\ IsInjective(R[d].children)
  <2>1. IsLive(dentries, d) /\ d \notin gone
    BY <1>8, <1>13
  <2>2. /\ \A e \in Dentries : e \in Range(dentries[d].children) <=> IsLive(dentries, e) /\ dentries[e].parent = d
        /\ IsInjective(dentries[d].children)
    BY <1>4, <2>1 DEF IsTree
  <2>3. CASE d = jail
    <3>1. R[d].children = <<>> /\ Range(<< >>) = {} /\ IsInjective(<< >>)
      BY <1>7, <2>3 DEF Range, IsInjective
    <3>2. \A e \in Dentries : IsLive(R, e) => R[e].parent # d
      <4>1. SUFFICES ASSUME NEW e \in Dentries, IsLive(R, e), R[e].parent = d PROVE FALSE
        OBVIOUS
      <4>2. IsLive(dentries, e) /\ e \notin gone /\ dentries[e].parent = d
        BY <1>7, <1>8, <4>1
      <4>3. e \in kids
        BY <1>2, <2>2, <2>3, <4>2
      <4> QED
        BY <1>2, <4>2, <4>3
    <3> QED
      BY <3>1, <3>2
  <2>4. CASE d # jail
    <3>1. R[d].children = dentries[d].children
      BY <1>7, <2>1, <2>4
    <3>2. ASSUME NEW e \in Dentries, IsLive(dentries, e), dentries[e].parent = d PROVE e \notin gone
      <4>1. e # Root
        <5>1. d # None
          BY VfsAssumption DEF None, Dentries
        <5> QED
          BY <1>4, <3>2, <5>1 DEF IsTree
      <4>2. Chain(e) = {e} \cup Chain(d)
        BY <1>1, <1>4, <3>2, <4>1, ChainFacts
      <4> QED
        BY <1>5, <2>1, <2>4, <4>2
    <3>3. \A e \in Dentries : IsLive(dentries, e) /\ dentries[e].parent = d <=> IsLive(R, e) /\ R[e].parent = d
      BY <1>7, <1>8, <3>2
    <3> QED
      BY <2>2, <3>1, <3>3
  <2> QED
    BY <2>3, <2>4
<1>14. \A d \in Dentries : R[d].used /\ R[d].inode = None => R[d].parent = None
  BY <1>4, <1>7 DEF IsTree
<1>15. \E h : Ranks(R, h)
  <2>1. PICK h : Ranks(dentries, h)
    BY <1>4 DEF IsTree
  <2>2. Ranks(R, h)
    BY <1>7, <1>8, <2>1 DEF Ranks
  <2> QED
    BY <2>2
<1>16. IsTree(R)
  BY <1>10, <1>12, <1>13, <1>14, <1>15 DEF IsTree
<1>17. OwnsInodes(R, J)
  <2>1. \A e \in Dentries : IsLive(R, e) => IsLive(dentries, e) /\ R[e].inode = dentries[e].inode
    BY <1>7, <1>8
  <2>2. ASSUME NEW e \in Dentries, IsLive(R, e), inodes[dentries[e].inode].used
        PROVE  J[dentries[e].inode].used
    <3>1. PICK i : i = dentries[e].inode
      OBVIOUS
    <3>2. i \in Inodes
      <4>1. i \in 0..MAX_INODES /\ i # None
        BY <1>1, <2>1, <2>2, <3>1 DEF Table, Dentry, IsLive
      <4> QED
        BY <4>1, VfsAssumption DEF None, Inodes
    <3>3. i \notin {dentries[d].inode : d \in gone}
      <4>1. SUFFICES ASSUME NEW d \in gone, i = dentries[d].inode PROVE FALSE
        OBVIOUS
      <4>2. d \in Dentries /\ IsLive(dentries, d)
        BY <1>5
      <4>3. d = e
        BY <1>4, <2>1, <2>2, <3>1, <4>1, <4>2 DEF OwnsInodes
      <4> QED
        BY <1>8, <2>2, <4>3
    <3>4. J[i] = inodes[i]
      BY <1>2, <1>6, <3>2, <3>3
    <3> QED
      BY <2>2, <3>1, <3>4
  <2>3. \A e \in Dentries : IsLive(R, e) /\ inodes[dentries[e].inode].used => J[dentries[e].inode].used
    BY <2>2
  <2> QED
    BY <1>1, <1>4, <2>1, <2>3, OwnsStands
<1> QED
  BY <1>5, <1>6, <1>7, <1>9, <1>16, <1>17

\* In a calm tree a name that lookup finds is live.
LEMMA FoundLive ==
  ASSUME FsInv, CalmInv, calm, NEW path \in Paths, lookup(path) # None
  PROVE  lookup(path) \in Dentries /\ IsLive(dentries, lookup(path))
<1>1. dentries \in Table /\ path \in Seq(Words) /\ Root \in Dentries
  BY WordsDo, VfsAssumption DEF FsInv, VfsTypeOK, Root, Dentries
<1>2. IsTree(dentries) /\ IsLive(dentries, Root)
  BY DEF CalmInv, IsTree
<1>3. PICK d : d = lookup(path) /\ d = lookupPath(dentries, Root, path)
  BY DEF lookup
<1>4. d # None
  BY <1>3
<1>5. d \in Dentries /\ IsLive(dentries, d)
  BY <1>1, <1>2, <1>3, <1>4, LookupLive
<1> QED
  BY <1>3, <1>5

LEMMA CreateCalm ==
  ASSUME FsInv, CalmInv, NEW path \in Paths, NEW n \in Nat, NEW alloc \in BOOLEAN,
         created(path, n, alloc), UNCHANGED jail
  PROVE  CalmInv'
<1>1. SUFFICES ASSUME calm'
               PROVE  /\ IsTree(dentries') /\ OwnsInodes(dentries', inodes')
                      /\ jail # None => IsLive(dentries', jail)
  BY DEF CalmInv
<1>2. /\ calm /\ IsTree(dentries') /\ OwnsInodes(dentries', inodes')
      /\ \A e \in Dentries : IsLive(dentries, e) => IsLive(dentries', e)
  BY <1>1, CreatedTree
<1>3. jail # None => jail \in Dentries /\ IsLive(dentries, jail)
  <2>1. jail \in 0..MAX_DENTRIES
    BY DEF FsInv, VfsTypeOK
  <2> QED
    BY <1>2, <2>1, VfsAssumption DEF CalmInv, None, Dentries
<1> QED
  BY <1>2, <1>3

\* mkdirat, and the setJail that makes its jail.
LEMMA MkdirCalm ==
  ASSUME FsInv, CalmInv, NEW path \in Paths, mkdiratImpl(path), jail' \in {jail, mkdirResult}
  PROVE  CalmInv'
<1>1. SUFFICES ASSUME calm'
               PROVE  /\ IsTree(dentries') /\ OwnsInodes(dentries', inodes')
                      /\ jail' # None => IsLive(dentries', jail')
  BY DEF CalmInv
<1>2. /\ calm /\ IsTree(dentries') /\ OwnsInodes(dentries', inodes')
      /\ \A e \in Dentries : IsLive(dentries, e) => IsLive(dentries', e)
      /\ mkdirResult # None => IsLive(dentries', mkdirResult)
  BY <1>1, MkdirTree
<1>3. jail # None => jail \in Dentries /\ IsLive(dentries, jail)
  <2>1. jail \in 0..MAX_DENTRIES
    BY DEF FsInv, VfsTypeOK
  <2> QED
    BY <1>2, <2>1, VfsAssumption DEF CalmInv, None, Dentries
<1> QED
  BY <1>2, <1>3

LEMMA OpenCalm ==
  ASSUME FsInv, CalmInv, NEW path \in Paths, NEW dirfd \in Fds \cup {None}, NEW abs \in BOOLEAN,
         openat(dirfd, abs, path) \/ openatCreate(dirfd, abs, path)
  PROVE  CalmInv'
<1>1. CASE openat(dirfd, abs, path)
  <2>1. UNCHANGED <<dentries, inodes, jail, used, held, bends>>
    BY <1>1 DEF openat
  <2> QED
    BY <2>1, CalmFrame DEF FsInv, VfsTypeOK
<1>2. CASE openatCreate(dirfd, abs, path)
  <2>1. PICK alloc \in BOOLEAN : created(path, 0, alloc)
    BY <1>2 DEF openatCreate
  <2>2. UNCHANGED jail
    BY <1>2 DEF openatCreate
  <2> QED
    BY <2>1, <2>2, CreateCalm
<1> QED
  BY <1>1, <1>2

\* unlinkat bends the tree, and so does linkat of any name a calm tree has.
LEMMA LinksBend ==
  ASSUME FsInv, CalmInv, NEW path \in Paths, unlinkat(path) \/ linkat(path, JailPath)
  PROVE  CalmInv'
<1>1. SUFFICES ASSUME calm' PROVE FALSE
  BY DEF CalmInv
<1>2. bends \in Nat /\ bends' = 0
  BY <1>1 DEF FsInv, VfsTypeOK, calm
<1>3. CASE unlinkat(path)
  <2>1. bend(TRUE)
    BY <1>3 DEF unlinkat
  <2> QED
    BY <1>2, <2>1, BendTyped
<1>4. CASE linkat(path, JailPath)
  <2>1. lookup(path) # None /\ bend(dentries[lookup(path)].used)
    BY <1>4 DEF linkat
  <2>2. calm /\ ~dentries[lookup(path)].used
    BY <1>2, <2>1, BendTyped DEF calm
  <2>3. IsLive(dentries, lookup(path))
    BY <2>1, <2>2, FoundLive
  <2> QED
    BY <2>2, <2>3 DEF IsLive
<1> QED
  BY <1>3, <1>4

\* What an open file does leaves the tree alone, and the use of inodes.
LEMMA FileCalm ==
  ASSUME FsInv, CalmInv, NEW fd \in Fds, NEW n \in Counts,
         \/ read(fd, n) \/ seek(fd, n) \/ close(fd)
         \/ \E alloc \in BOOLEAN : write(fd, n, alloc)
  PROVE  CalmInv'
<1>1. dentries \in Table /\ inodes \in [Inodes -> Inode]
  BY DEF FsInv, VfsTypeOK
<1>2. CASE read(fd, n) \/ seek(fd, n) \/ close(fd)
  <2>1. UNCHANGED <<dentries, inodes, jail, used, held, bends>>
    BY <1>2 DEF read, seek, close
  <2> QED
    BY <1>1, <2>1, CalmFrame
<1>3. CASE \E alloc \in BOOLEAN : write(fd, n, alloc)
  <2>1. UNCHANGED <<dentries, jail, bends>>
    BY <1>3 DEF write
  <2>2. PICK i, old, end : i = files[fd].inode /\ old = inodes[i].data /\ end = files[fd].pos + n
    OBVIOUS
  <2>3. i \in Inodes /\ inodes[i] \in Inode
    BY <1>1, <1>3, <2>2, FileInode DEF FsInv, write, Usable
  <2>4. PICK a, b : a = (IF old = NoData \/ end > old THEN end ELSE old) /\ b = Max({inodes[i].size, end})
    OBVIOUS
  <2>5. PICK r : r = [inodes[i] EXCEPT !.data = a, !.size = b]
    OBVIOUS
  <2>6. r.used = inodes[i].used
    BY <2>3, <2>5 DEF Inode
  <2>7. inodes' = [inodes EXCEPT ![i] = r]
    BY <1>3, <2>2, <2>4, <2>5 DEF write
  <2>8. \A j \in Inodes : inodes'[j].used = inodes[j].used
    BY <1>1, <2>3, <2>6, <2>7
  <2> QED
    BY <1>1, <2>1, <2>8, CalmFrame
<1> QED
  BY <1>2, <1>3

LEMMA JailCalm ==
  ASSUME FsInv, CalmInv, setJail(JailPath) \/ clearJail
  PROVE  CalmInv'
<1>1. dentries \in Table /\ JailPath \in Paths
  BY VfsAssumption DEF FsInv, VfsTypeOK
<1>2. CASE setJail(JailPath) /\ lookup(JailPath) # None
  <2>1. jail' = lookup(JailPath) /\ UNCHANGED <<dentries, inodes, bends>>
    BY <1>2 DEF setJail
  <2>2. SUFFICES ASSUME calm'
                 PROVE  IsTree(dentries') /\ OwnsInodes(dentries', inodes') /\ IsLive(dentries', jail')
    BY DEF CalmInv
  <2>3. calm
    BY <2>1, <2>2 DEF calm
  <2>4. IsLive(dentries, lookup(JailPath))
    BY <1>1, <1>2, <2>3, FoundLive
  <2>5. IsTree(dentries) /\ OwnsInodes(dentries, inodes)
    BY <2>3 DEF CalmInv
  <2> QED
    BY <2>1, <2>4, <2>5
<1>3. CASE setJail(JailPath) /\ lookup(JailPath) = None
  <2>1. mkdiratImpl(JailPath) /\ jail' = IF mkdirResult = None THEN jail ELSE mkdirResult
    BY <1>3 DEF setJail
  <2>2. jail' \in {jail, mkdirResult}
    BY <2>1
  <2> QED
    BY <1>1, <2>1, <2>2, MkdirCalm
<1>4. CASE clearJail
  <2>1. jail' = None /\ UNCHANGED <<dentries, inodes, bends>>
    BY <1>4 DEF clearJail
  <2> QED
    BY <1>1, <2>1, CalmFrame
<1> QED
  BY <1>2, <1>3, <1>4

LEMMA ResetCalm ==
  ASSUME FsInv, CalmInv, clearJailContents
  PROVE  CalmInv'
<1>1. UNCHANGED <<jail, bends>>
  BY DEF clearJailContents
<1>2. SUFFICES ASSUME calm'
               PROVE  IsTree(dentries') /\ OwnsInodes(dentries', inodes') /\ IsLive(dentries', jail')
  BY DEF CalmInv
<1>3. calm
  BY <1>1, <1>2 DEF calm
<1>4. IsTree(dentries') /\ OwnsInodes(dentries', inodes') /\ IsLive(dentries', jail)
  BY <1>3, ResetTree
<1> QED
  BY <1>1, <1>4

LEMMA CalmInit == Init => CalmInv
<1>1. SUFFICES ASSUME Init PROVE CalmInv
  OBVIOUS
<1>2. Root \in Dentries /\ 1 \in Inodes /\ Root # None
  BY VfsAssumption DEF Root, Dentries, Inodes, None
<1>3. PICK r, b : r = [Blank EXCEPT !.name = <<"/">>, !.inode = 1] /\ b = [Blank EXCEPT !.used = FALSE]
  OBVIOUS
<1>4. r.used /\ r.inode = 1 /\ r.parent = None /\ r.children = <<>> /\ ~b.used
  BY <1>3 DEF Blank
<1>5. dentries = [d \in Dentries |-> IF d = Root THEN r ELSE b]
  BY <1>1, <1>3 DEF Init
<1>6. dentries[Root] = r /\ \A d \in Dentries : d # Root => dentries[d] = b
  BY <1>2, <1>5
<1>7. IsLive(dentries, Root) /\ \A d \in Dentries : IsLive(dentries, d) => d = Root
  BY <1>4, <1>6 DEF IsLive, None
<1>8. Range(<< >>) = {} /\ IsInjective(<< >>)
  BY DEF Range, IsInjective
<1>9. \E h : Ranks(dentries, h)
  <2>1. PICK h : h = [d \in Dentries |-> 0]
    OBVIOUS
  <2>2. Ranks(dentries, h)
    BY <1>7, <2>1 DEF Ranks
  <2> QED
    BY <2>2
<1>10. \A d, e \in Dentries : IsLive(dentries, e) => dentries[e].parent # d
  BY <1>4, <1>6, <1>7, VfsAssumption DEF None, Dentries
<1>11. \A d \in Dentries : IsLive(dentries, d) =>
         /\ \A e \in Dentries : e \in Range(dentries[d].children) <=> IsLive(dentries, e) /\ dentries[e].parent = d
         /\ IsInjective(dentries[d].children)
  BY <1>4, <1>6, <1>7, <1>8, <1>10
<1>12. \A d \in Dentries : dentries[d].used /\ dentries[d].inode = None => dentries[d].parent = None
  BY <1>4, <1>6
<1>13. IsTree(dentries)
  BY <1>4, <1>6, <1>7, <1>9, <1>11, <1>12 DEF IsTree
<1>14. inodes[1].used
  <2>1. PICK s : s = [NewInode EXCEPT !.used = TRUE]
    OBVIOUS
  <2>2. s.used
    BY <2>1 DEF NewInode
  <2>3. inodes = [i \in Inodes |-> [NewInode EXCEPT !.used = (i = 1)]]
    BY <1>1 DEF Init
  <2>4. inodes[1] = [NewInode EXCEPT !.used = (1 = 1)]
    BY <1>2, <2>3
  <2>5. inodes[1].used = (1 = 1)
    BY <2>4 DEF NewInode
  <2> QED
    BY <2>5
<1>15. OwnsInodes(dentries, inodes)
  BY <1>4, <1>6, <1>7, <1>14 DEF OwnsInodes
<1>16. jail = None
  BY <1>1 DEF Init
<1> QED
  BY <1>13, <1>15, <1>16 DEF CalmInv

LEMMA CalmStep == FsInv /\ CalmInv /\ [Next]_vars => CalmInv'
<1>1. SUFFICES ASSUME FsInv, CalmInv, [Next]_vars PROVE CalmInv'
  OBVIOUS
<1>2. NewDirs \subseteq Paths /\ Counts \subseteq Nat
  BY VfsAssumption
<1>3. CASE \E path \in Paths, n \in Counts, alloc \in BOOLEAN : createFile(path, n, alloc)
  BY <1>1, <1>2, <1>3, CreateCalm DEF createFile
<1>4. CASE \E path \in Paths, dirfd \in Fds \cup {None}, abs \in BOOLEAN :
             openat(dirfd, abs, path) \/ openatCreate(dirfd, abs, path)
  BY <1>1, <1>4, OpenCalm
<1>5. CASE \E path \in Paths : unlinkat(path) \/ linkat(path, JailPath)
  BY <1>1, <1>5, LinksBend
<1>6. CASE \E path \in NewDirs : mkdirat(path)
  BY <1>1, <1>2, <1>6, MkdirCalm DEF mkdirat
<1>7. CASE setJail(JailPath) \/ clearJail
  BY <1>1, <1>7, JailCalm
<1>8. CASE \E fd \in Fds, n \in Counts :
             read(fd, n) \/ seek(fd, n) \/ \E alloc \in BOOLEAN : write(fd, n, alloc)
  BY <1>1, <1>8, FileCalm
<1>9. CASE \E fd \in Fds : close(fd)
  <2>1. UNCHANGED <<dentries, inodes, jail, used, held, bends>>
    BY <1>9 DEF close
  <2> QED
    BY <1>1, <2>1, CalmFrame DEF FsInv, VfsTypeOK
<1>10. CASE clearJailContents
  BY <1>1, <1>10, ResetCalm
<1>11. CASE UNCHANGED vars
  BY <1>1, <1>11, CalmFrame DEF vars, FsInv, VfsTypeOK
<1> QED
  BY <1>1, <1>3, <1>4, <1>5, <1>6, <1>7, <1>8, <1>9, <1>10, <1>11 DEF Next

\* The tree the calls build, and the jail in it.
THEOREM CalmInvariant == Spec => [](FsInv /\ CalmInv)
<1>1. Init => FsInv /\ CalmInv
  BY FsInit, CalmInit
<1>2. FsInv /\ CalmInv /\ [Next]_vars => (FsInv /\ CalmInv)'
  BY FsStep, CalmStep
<1> QED
  BY <1>1, <1>2, PTL DEF Spec

-----------------------------------------------------------------------------
(* What the tree gives. *)

\* While no call has bent it the dentries form one tree, in every reachable state.
THEOREM CalmTreeHolds == Spec => []CalmTree
<1>1. FsInv /\ CalmInv => CalmTree
  <2>1. SUFFICES ASSUME FsInv, CalmInv, calm
                 PROVE  LET live == {d \in Dentries : dentries[d].used /\ dentries[d].inode # None}
                        IN  /\ \A d \in live : Root \in Chain(d) /\ inodes[dentries[d].inode].used
                            /\ \A d, e \in live : dentries[d].inode = dentries[e].inode => d = e
                            /\ \A d \in live : LET list == dentries[d].children
                                               IN  /\ Len(list) = Cardinality(Range(list))
                                                   /\ Range(list) = {e \in live : dentries[e].parent = d}
    BY DEF CalmTree
  <2>2. dentries \in Table /\ IsTree(dentries) /\ OwnsInodes(dentries, inodes)
    BY <2>1 DEF FsInv, VfsTypeOK, CalmInv
  <2>3. PICK live : live = {d \in Dentries : dentries[d].used /\ dentries[d].inode # None}
    OBVIOUS
  <2>4. \A d \in Dentries : d \in live <=> IsLive(dentries, d)
    BY <2>3 DEF IsLive
  <2>5. live \subseteq Dentries
    BY <2>3
  <2>6. \A d \in live : Root \in Chain(d) /\ inodes[dentries[d].inode].used
    BY <2>2, <2>4, <2>5, RootAbove DEF OwnsInodes
  <2>7. \A d, e \in live : dentries[d].inode = dentries[e].inode => d = e
    BY <2>2, <2>4, <2>5 DEF OwnsInodes
  <2>8. ASSUME NEW d \in live
        PROVE  /\ Len(dentries[d].children) = Cardinality(Range(dentries[d].children))
               /\ Range(dentries[d].children) = {e \in live : dentries[e].parent = d}
    <3>1. PICK l : l = dentries[d].children /\ l \in Seq(Dentries)
      BY <2>2, <2>5 DEF Table, Dentry
    <3>2. /\ \A e \in Dentries : e \in Range(l) <=> IsLive(dentries, e) /\ dentries[e].parent = d
          /\ IsInjective(l)
      BY <2>2, <2>4, <2>5, <3>1 DEF IsTree
    <3>3. Range(l) \subseteq Dentries
      BY <3>1 DEF Range
    <3>4. Range(l) = {e \in live : dentries[e].parent = d}
      BY <2>4, <2>5, <3>2, <3>3
    <3>5. PICK n : n = Len(l) /\ n \in Nat /\ DOMAIN l = 1..n
      BY <3>1
    <3>6. l \in Injection(1..n, Range(l)) /\ l \in Surjection(1..n, Range(l))
      <4>1. l \in [1..n -> Range(l)]
        BY <3>1, <3>5 DEF Range
      <4>2. \A t \in Range(l) : \E k \in 1..n : l[k] = t
        BY <3>5 DEF Range
      <4> QED
        BY <3>2, <4>1, <4>2 DEF Injection, Surjection
    <3>7. ExistsBijection(1..n, Range(l))
      BY <3>6 DEF ExistsBijection, Bijection
    <3>8. Cardinality(Range(l)) = n
      BY <3>5, <3>7, FS_CountingElements
    <3> QED
      BY <3>1, <3>4, <3>5, <3>8
  <2> QED
    BY <2>3, <2>6, <2>7, <2>8
<1> QED
  BY <1>1, CalmInvariant, PTL

\* What "." and ".." leave of a path is a path.
LEMMA NormalizedTyped ==
  ASSUME NEW path \in Seq(Words)
  PROVE  normalized(path) \in Seq(Words)
<1> DEFINE n == Len(path)
           S == Seq(Words)
           next(x, k) == CASE path[k] = "." -> x
                           [] path[k] = ".." -> IF x = <<>> THEN <<>> ELSE Front(x)
                           [] OTHER -> Append(x, path[k])
           F == [q \in (1..n) \X S |-> next(q[2], q[1])]
           Unfolds(h) == h = [k \in 0..n |-> IF k = 0 THEN <<>>
                                ELSE CASE path[k] = "." -> h[k - 1]
                                       [] path[k] = ".." -> IF h[k - 1] = <<>> THEN <<>> ELSE Front(h[k - 1])
                                       [] OTHER -> Append(h[k - 1], path[k])]
<1>1. n \in Nat /\ << >> \in S
  OBVIOUS
<1>2. ASSUME NEW x \in S, NEW k \in 1..n PROVE next(x, k) \in S
  <2>1. PICK c : c = path[k] /\ c \in Words
    OBVIOUS
  <2>2. Append(x, c) \in S
    BY <2>1
  <2>3. x # <<>> => Front(x) \in S
    BY DEF Front
  <2>4. CASE c = "."
    BY <2>1, <2>4
  <2>5. CASE c # "." /\ c = ".."
    BY <1>1, <2>1, <2>3, <2>5
  <2>6. CASE c # "." /\ c # ".."
    BY <2>1, <2>2, <2>6
  <2> QED
    BY <2>4, <2>5, <2>6
<1>3. F \in [(1..n) \X S -> S]
  BY <1>2
<1>4. PICK g : Walk(g, n, S, <<>>, F)
  <2> HIDE DEF n, F, S
  <2> QED
    BY <1>1, <1>3, WalkExists
<1>5. g \in [0..n -> S] /\ g[0] = <<>>
  BY <1>4 DEF Walk
<1>6. ASSUME NEW k \in 1..n PROVE g[k] = next(g[k - 1], k)
  <2>1. k - 1 \in 0..n
    BY <1>1
  <2>2. g[k - 1] \in S
    BY <1>5, <2>1
  <2>3. g[k] = F[<<k, g[k - 1]>>]
    BY <1>4 DEF Walk
  <2> HIDE DEF next
  <2> QED
    BY <2>2, <2>3
<1>7. Unfolds(g)
  <2>1. \A k \in 0..n : k = 0 \/ k \in 1..n
    BY <1>1
  <2>2. ASSUME NEW k \in 0..n
        PROVE  g[k] = IF k = 0 THEN <<>> ELSE next(g[k - 1], k)
    <3> HIDE DEF next
    <3> QED
      BY <1>5, <1>6, <2>1
  <2>3. g = [k \in 0..n |-> IF k = 0 THEN <<>> ELSE next(g[k - 1], k)]
    <3> HIDE DEF next
    <3> QED
      BY <1>5, <2>2
  <2> QED
    BY <2>3
<1>8. PICK f : f = CHOOSE h : Unfolds(h)
  OBVIOUS
<1>9. Unfolds(f)
  BY <1>7, <1>8
<1>10. normalized(path) = f[n]
  BY <1>8 DEF normalized
<1>11. f[0] = <<>> /\ \A k \in 1..n : f[k] = next(f[k - 1], k)
  <2>1. \A k \in 1..n : k \in 0..n /\ k # 0
    BY <1>1
  <2>2. 0 \in 0..n
    BY <1>1
  <2>3. PICK G : G = [k \in 0..n |-> IF k = 0 THEN <<>> ELSE next(f[k - 1], k)]
    OBVIOUS
  <2>4. f = G
    BY <1>9, <2>3
  <2> HIDE DEF next
  <2> QED
    BY <2>1, <2>2, <2>3, <2>4
<1>12. \A k \in 0..n : f[k] \in S
  <2> DEFINE Typed == {k \in 0..n : f[k] \in S}
  <2>1. 0 \in Typed
    <3>1. 0 \in 0..n /\ f[0] \in S
      <4> HIDE DEF next, S
      <4> QED
        BY <1>1, <1>11
    <3> QED
      BY <3>1
  <2>2. \A k \in 1..n : k - 1 \in Typed => k \in Typed
    <3> HIDE DEF next, S
    <3> QED
      BY <1>1, <1>2, <1>11
  <2> HIDE DEF Typed
  <2>3. \A k \in 0..n : k \in Typed
    BY <1>1, <2>1, <2>2, UpTo
  <2> QED
    BY <2>3 DEF Typed
<1> QED
  BY <1>1, <1>10, <1>12

\* Every probe is a path of words.
LEMMA ProbesTyped == \A path \in Paths \cup Probes : path \in Seq(Words)
<1>1. SUFFICES ASSUME NEW path \in Paths \cup Probes PROVE path \in Seq(Words)
  OBVIOUS
<1>2. CASE path \in Paths
  BY <1>2, WordsDo
<1>3. CASE path \in Probes
  <2>1. PICK p \in Paths : path \in {<<Last(p)>>, <<"..">> \o p, JailPath \o <<"..", ".">> \o p}
    BY <1>3 DEF Probes
  <2>2. p \in Seq(Words) /\ JailPath \in Seq(Words)
    BY WordsDo, VfsAssumption
  <2>3. PICK up, dot : up = ".." /\ dot = "." /\ up \in Words /\ dot \in Words
    BY DEF Words
  <2>4. << up >> \in Seq(Words) /\ << up, dot >> \in Seq(Words)
    BY <2>3
  <2>5. << up >> \o p \in Seq(Words) /\ JailPath \o << up, dot >> \o p \in Seq(Words)
    BY <2>2, <2>4
  <2>6. <<Last(p)>> \in Seq(Words)
    BY PathTyped
  <2> QED
    BY <2>1, <2>3, <2>5, <2>6
<1> QED
  BY <1>2, <1>3

\* In a calm tree no path leaves the jail, however many ".." it has and by
\* whichever resolver: the relative walk starts at the jail, and what resolves from
\* a live dentry is at it or below it.
THEOREM JailConfinesPaths == Spec => []JailConfines
<1>1. FsInv /\ CalmInv => JailConfines
  <2>1. SUFFICES ASSUME FsInv, CalmInv, calm, jail # None,
                        NEW abs \in BOOLEAN, NEW path \in Paths \cup Probes,
                        NEW d \in {resolveJailed(abs, path), resolvePath(None, abs, path)} \ {None}
                 PROVE  jail \in Chain(d)
    BY DEF JailConfines
  <2>2. dentries \in Table /\ IsTree(dentries) /\ jail \in Dentries /\ IsLive(dentries, jail)
    <3>1. dentries \in Table /\ jail \in 0..MAX_DENTRIES
      BY <2>1 DEF FsInv, VfsTypeOK
    <3> QED
      BY <2>1, <3>1, VfsAssumption DEF CalmInv, None, Dentries
  <2>3. path \in Seq(Words) /\ JailPath \in Seq(Words)
    BY ProbesTyped, VfsAssumption
  <2>4. CASE d = resolveJailed(abs, path)
    <3>1. PICK rel : rel = IF abs /\ IsPrefix(JailPath, path)
                           THEN SubSeq(path, Len(JailPath) + 1, Len(path)) ELSE path
      OBVIOUS
    <3>2. rel \in Seq(Words)
      <4>1. Len(JailPath) \in Nat /\ Len(path) \in Nat
        BY <2>3
      <4>2. SubSeq(path, Len(JailPath) + 1, Len(path)) \in Seq(Words)
        BY <2>3, <4>1
      <4> QED
        BY <2>3, <3>1, <4>2
    <3>3. PICK parts : parts = normalized(rel) /\ parts \in Seq(Words)
      BY <3>2, NormalizedTyped
    <3>4. d = lookupPath(dentries, jail, parts)
      BY <2>4, <3>1, <3>3 DEF resolveJailed
    <3>5. d # None
      BY <2>1
    <3> QED
      BY <2>2, <3>3, <3>4, <3>5, LookupLive
  <2>5. CASE d = resolvePath(None, abs, path) /\ ~abs
    <3>1. d = lookupPath(dentries, jail, path)
      BY <2>1, <2>5 DEF resolvePath
    <3>2. d # None
      BY <2>1
    <3> QED
      BY <2>2, <2>3, <3>1, <3>2, LookupLive
  <2>6. CASE d = resolvePath(None, abs, path) /\ abs
    BY <2>1, <2>6 DEF resolvePath
  <2> QED
    BY <2>1, <2>4, <2>5, <2>6
<1> QED
  BY <1>1, CalmInvariant, PTL

\* A reset of a calm tree frees exactly what is below the jail.
THEOREM ResetWipesJail == Spec => ResetWipes
<1>1. ASSUME FsInv, CalmInv, calm, clearJailContents, NEW d \in Dentries
      PROVE  dentries'[d].used = (dentries[d].used /\ (jail \notin Chain(d) \/ d = jail))
  <2>1. PICK gone \in SUBSET Dentries :
          /\ \A e \in Dentries : e \in gone <=> IsLive(dentries, e) /\ e # jail /\ jail \in Chain(e)
          /\ \A e \in Dentries : dentries'[e].used <=> dentries[e].used /\ e \notin gone
    BY <1>1, ResetTree
  <2>2. dentries'[d].used <=> dentries[d].used /\ (jail \notin Chain(d) \/ d = jail)
    <3>1. CASE IsLive(dentries, d) \/ ~dentries[d].used
      BY <2>1, <3>1 DEF IsLive
    <3>2. CASE dentries[d].used /\ dentries[d].inode = None
      <4>1. dentries \in Table /\ IsTree(dentries) /\ jail # None
        BY <1>1 DEF FsInv, VfsTypeOK, CalmInv, clearJailContents
      <4>2. Chain(d) = {d, None}
        BY <3>2, <4>1, ChainFacts DEF IsTree
      <4>3. ~IsLive(dentries, d)
        BY <3>2 DEF IsLive
      <4> QED
        BY <2>1, <3>2, <4>1, <4>2, <4>3
    <3> QED
      BY <3>1, <3>2 DEF IsLive
  <2>3. dentries'[d].used \in BOOLEAN
    <3>1. FsInv'
      BY <1>1, ResetKeepsFs
    <3> QED
      BY <3>1 DEF FsInv, VfsTypeOK, Table, Dentry
  <2> QED
    BY <2>2, <2>3
<1>2. FsInv /\ CalmInv =>
        [calm /\ clearJailContents =>
           \A d \in Dentries :
             dentries'[d].used = (dentries[d].used /\ (jail \notin Chain(d) \/ d = jail))]_vars
  BY <1>1
<1> QED
  BY <1>2, CalmInvariant, PTL DEF ResetWipes
=============================================================================
