---------------------------- MODULE Fat16Proofs -----------------------------
(***************************************************************************)
(* Proofs about the walk of fat16.py, for every image file: the verifier   *)
(* accepts exactly the volumes that are sound, and finds exactly their     *)
(* files (VolumeIs).                                                       *)
(*                                                                         *)
(* The chains come first, then the directories by level, then the walk:    *)
(* Good says of its state what has been seen of the tree, every turn keeps *)
(* Good or shows that the volume is not Orderly, and every turn spends a   *)
(* token, so that it ends.                                                 *)
(***************************************************************************)
EXTENDS Fat16, FiniteSetTheorems, NaturalsInduction, WellFoundedInduction, SequenceTheorems,
        FunctionTheorems, TLAPS

-----------------------------------------------------------------------------
(* Sets of numbers. *)

\* A set of naturals that is not empty has a least element.
LEMMA LeastNat ==
  ASSUME NEW S, S \subseteq Nat, S # {}
  PROVE  \E n \in S : \A m \in S : n <= m
<1>1. PICK n \in S : \A m \in S : ~(<<m, n>> \in OpToRel(<, Nat))
  BY NatLessThanWellFounded, WFMin
<1>2. \A m \in S : ~(m < n)
  BY <1>1 DEF OpToRel
<1> QED
  BY <1>2

\* What holds at 0, and at k when at k - 1, holds up to n.
LEMMA UpTo ==
  ASSUME NEW n \in Nat, NEW S, 0 \in S, \A k \in 1..n : k - 1 \in S => k \in S
  PROVE  \A k \in 0..n : k \in S
<1>1. SUFFICES ASSUME NEW m \in 0..n, m \notin S PROVE FALSE
  OBVIOUS
<1> DEFINE Bad == {k \in 0..n : k \notin S}
<1>2. Bad \subseteq Nat /\ Bad # {}
  BY <1>1
<1>3. PICK k \in Bad : \A j \in Bad : k <= j
  BY <1>2, LeastNat
<1>4. k \in 1..n /\ k - 1 \in 0..n /\ ~(k <= k - 1)
  BY <1>3
<1>5. k - 1 \notin Bad
  BY <1>3, <1>4
<1>6. k - 1 \in S
  BY <1>4, <1>5
<1> QED
  BY <1>3, <1>4, <1>6

-----------------------------------------------------------------------------
(* The layout of a volume. *)

\* What the checks of the boot sector give the rest.
LEMMA GeometryIs ==
  ASSUME NEW v, IsVolume(v), geometry_ok(v)
  PROVE  /\ cluster_count(v) \in Nat /\ cluster_bytes(v) \in Nat \ {0}
         /\ cluster_count(v) * cluster_bytes(v) <= v.bpb.bytes - data_offset(v)
         /\ DataClusters(v) = 2..(cluster_count(v) + 1)
         /\ data_offset(v) \in Nat /\ v.bpb.bytes \in Nat
<1>1. PICK b : b = v.bpb
  OBVIOUS
<1>2. /\ b.bytes \in Nat /\ b.spc \in Nat /\ b.reserved \in Nat /\ b.nfats = 2 /\ b.fat_sectors \in Nat
      /\ b.roots \in Nat /\ b.spc > 0
  <2>1. /\ b.bytes \in Nat /\ b.spc \in Nat /\ b.reserved \in Nat /\ b.fat_sectors \in Nat
        /\ b.roots \in Nat
    BY <1>1 DEF IsVolume
  <2>2. b.spc \in {1, 2, 4, 8, 16, 32, 64, 128} /\ b.nfats = 2
    BY <1>1 DEF geometry_ok
  <2> QED
    BY <2>1, <2>2
<1>3. cluster_bytes(v) \in Nat \ {0}
  BY <1>1, <1>2 DEF cluster_bytes, SECTOR
<1>4. data_offset(v) \in Nat
  BY <1>1, <1>2 DEF data_offset, root_offset, SECTOR, ENTRY
<1>5. data_offset(v) < b.bytes
  BY <1>1 DEF geometry_ok
<1>6. PICK x, y, q : x = b.bytes - data_offset(v) /\ y = cluster_bytes(v) /\ q = x \div y
  OBVIOUS
<1>7. q \in Nat /\ q * y <= x
  <2>1. x \in Nat /\ y \in Nat \ {0}
    BY <1>2, <1>3, <1>4, <1>5, <1>6
  <2> QED
    BY <1>6, <2>1
<1>8. cluster_count(v) = q
  BY <1>1, <1>6 DEF cluster_count
<1> QED
  BY <1>1, <1>2, <1>3, <1>4, <1>6, <1>7, <1>8 DEF DataClusters

\* The volume's layout is sound.
LEMMA LayoutIsSafe ==
  ASSUME NEW v, IsVolume(v), geometry_ok(v)
  PROVE  LayoutSafe(v)
<1>1. SUFFICES ASSUME NEW c \in DataClusters(v)
               PROVE  /\ 2 * c + 2 <= v.bpb.fat_sectors * SECTOR
                      /\ data_offset(v) + (c - 1) * cluster_bytes(v) <= v.bpb.bytes
  BY DEF LayoutSafe
<1>2. PICK n, y, d, b : n = cluster_count(v) /\ y = cluster_bytes(v) /\ d = data_offset(v) /\ b = v.bpb.bytes
  OBVIOUS
<1>3. n \in Nat /\ y \in Nat \ {0} /\ n * y <= b - d /\ d \in Nat /\ b \in Nat /\ c \in 2..(n + 1)
  BY <1>1, <1>2, GeometryIs
<1>4. (c - 1) * y <= n * y
  <2>1. PICK m \in Nat : n = (c - 1) + m
    <3>1. n - (c - 1) \in Nat
      BY <1>3
    <3> QED
      BY <1>3, <3>1
  <2>2. n * y = (c - 1) * y + m * y /\ m * y \in Nat
    BY <1>3, <2>1
  <2>3. (c - 1) * y \in Nat
    BY <1>3
  <2> QED
    BY <1>3, <2>1, <2>2, <2>3
<1>5. d + (c - 1) * y <= b
  <2>1. PICK p, r : p = (c - 1) * y /\ r = n * y
    OBVIOUS
  <2>2. p \in Nat /\ r \in Nat
    BY <1>3, <2>1
  <2> QED
    BY <1>3, <1>4, <2>1, <2>2
<1>6. 2 * c + 2 <= v.bpb.fat_sectors * SECTOR
  <2>1. (n + 2) * 2 <= v.bpb.fat_sectors * SECTOR
    BY <1>2 DEF geometry_ok
  <2>2. v.bpb.fat_sectors \in Nat
    BY DEF IsVolume
  <2> QED
    BY <1>3, <2>1, <2>2 DEF SECTOR
<1> QED
  BY <1>2, <1>5, <1>6

-----------------------------------------------------------------------------
(* Cluster chains. *)

\* s lists the m clusters of the chain that starts at c.
Chains(v, c, s, m) ==
  /\ m \in 1..cluster_count(v) /\ s \in [1..m -> Usable(v)] /\ s[1] = c
  /\ \A i \in 1..(m - 1) : s[i + 1] = fat(v, s[i])
  /\ fat(v, s[m]) >= EOC

\* A table entry is a number, also beyond the end of the table.
LEMMA FatIs ==
  ASSUME NEW v, IsVolume(v), NEW c
  PROVE  fat(v, c) \in Nat
BY DEF IsVolume, fat

\* A usable cluster is a data cluster below the reserved numbers, so never an end mark.
LEMMA UsableIs ==
  ASSUME NEW v, IsVolume(v), geometry_ok(v)
  PROVE  Usable(v) \subseteq Nat /\ \A c \in Usable(v) : 2 <= c /\ c < RESERVED /\ c < EOC
BY GeometryIs DEF Usable, RESERVED, EOC

\* A chain never comes back to a cluster.
LEMMA ChainIsInjective ==
  ASSUME NEW v, IsVolume(v), geometry_ok(v), NEW c, NEW s, NEW m, Chains(v, c, s, m)
  PROVE  \A i, j \in 1..m : s[i] = s[j] => i = j
<1>1. SUFFICES ASSUME NEW i \in 1..m, NEW j \in 1..m, i < j, s[i] = s[j] PROVE FALSE
  <2>1. m \in Nat
    BY GeometryIs DEF Chains
  <2> QED
    BY <2>1
<1>2. m \in Nat /\ m - j \in Nat
  BY GeometryIs DEF Chains
<1> DEFINE S == {k \in 0..(m - j) : s[i + k] = s[j + k]}
<1>3. 0 \in S
  BY <1>1, <1>2
<1>4. ASSUME NEW k \in 1..(m - j), k - 1 \in S PROVE k \in S
  <2>1. i + (k - 1) \in 1..(m - 1) /\ j + (k - 1) \in 1..(m - 1)
        /\ (i + (k - 1)) + 1 = i + k /\ (j + (k - 1)) + 1 = j + k
    BY <1>1, <1>2
  <2>2. s[i + k] = fat(v, s[i + (k - 1)]) /\ s[j + k] = fat(v, s[j + (k - 1)])
    BY <2>1 DEF Chains
  <2>3. s[i + (k - 1)] = s[j + (k - 1)]
    BY <1>4
  <2> QED
    BY <1>2, <2>2, <2>3
<1>5. m - j \in S
  <2> HIDE DEF S
  <2>1. \A k \in 0..(m - j) : k \in S
    BY <1>2, <1>3, <1>4, UpTo
  <2> QED
    BY <1>2, <2>1
<1>6. PICK l : l = i + (m - j)
  OBVIOUS
<1>7. s[l] = s[m] /\ l \in 1..(m - 1) /\ l + 1 \in 1..m
  <2>1. j + (m - j) = m
    BY <1>1, <1>2
  <2>2. s[i + (m - j)] = s[j + (m - j)]
    BY <1>5
  <2> QED
    BY <1>1, <1>2, <1>6, <2>1, <2>2
<1>8. s[l + 1] = fat(v, s[l]) /\ s[l + 1] \in Usable(v) /\ fat(v, s[m]) >= EOC
  BY <1>7 DEF Chains
<1>9. s[l + 1] < EOC /\ s[l + 1] \in Nat
  BY <1>8, UsableIs
<1> QED
  BY <1>7, <1>8, <1>9 DEF EOC

\* Two chains from the same cluster are one.
LEMMA ChainIsOne ==
  ASSUME NEW v, IsVolume(v), geometry_ok(v), NEW c,
         NEW s, NEW m, Chains(v, c, s, m), NEW t, NEW n, Chains(v, c, t, n), m <= n
  PROVE  s = t /\ m = n
<1>1. m \in Nat /\ n \in Nat /\ 1 <= m
  BY GeometryIs DEF Chains
<1> DEFINE S == {k \in 0..m : k = 0 \/ s[k] = t[k]}
<1>2. ASSUME NEW k \in 1..m, k - 1 \in S PROVE k \in S
  <2>1. CASE k = 1
    BY <1>1, <2>1 DEF Chains
  <2>2. CASE k # 1
    <3>1. k - 1 \in 1..(m - 1) /\ k - 1 \in 1..(n - 1) /\ (k - 1) + 1 = k
      BY <1>1, <2>2
    <3>2. s[k] = fat(v, s[k - 1]) /\ t[k] = fat(v, t[k - 1])
      BY <3>1 DEF Chains
    <3> QED
      BY <1>1, <1>2, <3>1, <3>2
  <2> QED
    BY <2>1, <2>2
<1>3. \A k \in 1..m : s[k] = t[k]
  <2>1. 0 \in S
    BY <1>1
  <2> HIDE DEF S
  <2>2. \A k \in 0..m : k \in S
    BY <1>1, <1>2, <2>1, UpTo
  <2> USE DEF S
  <2> QED
    BY <1>1, <2>2
<1>4. m = n
  <2>1. SUFFICES ASSUME m < n PROVE FALSE
    BY <1>1
  <2>2. t[m + 1] = fat(v, t[m]) /\ t[m + 1] \in Usable(v) /\ fat(v, s[m]) >= EOC
    BY <1>1, <2>1 DEF Chains
  <2>3. t[m + 1] < EOC /\ t[m + 1] \in Nat
    BY <2>2, UsableIs
  <2>4. s[m] = t[m]
    BY <1>1, <1>3
  <2> QED
    BY <2>2, <2>3, <2>4 DEF EOC
<1> QED
  <2>1. DOMAIN s = 1..m /\ DOMAIN t = 1..m /\ s = [k \in 1..m |-> s[k]] /\ t = [k \in 1..m |-> t[k]]
    BY <1>4 DEF Chains
  <2> QED
    BY <1>3, <1>4, <2>1

\* The numbers that at stands for in ChainFrom.
Followed(v, c, n, at) ==
  /\ at[1] = c
  /\ \A i \in 2..n : at[i] = fat(v, at[i - 1])

\* Where a chain along at may end.
Ends(v, n, at) == {i \in 1..n : fat(v, at[i]) >= EOC /\ \A j \in 1..i : at[j] \in Usable(v)}

IsFrom(v, c, n, at) ==
  ChainFrom(v, c) = IF Ends(v, n, at) = {} THEN << >> ELSE [i \in 1..Min(Ends(v, n, at)) |-> at[i]]

\* ChainFrom as a list of the clusters met and the first of them that ends the chain.
LEMMA ChainFollows ==
  ASSUME NEW v, IsVolume(v), geometry_ok(v), NEW c, NEW N, N = cluster_count(v)
  PROVE  \E at : Followed(v, c, N, at) /\ IsFrom(v, c, N, at)
<1>1. N \in Nat /\ N >= 1
  BY GeometryIs, Fat16Assumption DEF geometry_ok
<1> DEFINE Turn(a) == CHOOSE r \in {fat(v, x) : x \in {a}} : TRUE
           Lists(h, m) ==
             /\ h = [k \in 1..m |-> h[k]]
             /\ \A k \in 1..m : h[k] = IF k = 1 THEN c ELSE Turn(h[k - 1])
           Step(h) == h = [k \in 1..N |-> IF k = 1 THEN c ELSE Turn(h[k - 1])]
           Have == {m \in 0..N : \E h : Lists(h, m)}
<1>2. \A a : Turn(a) = fat(v, a)
  OBVIOUS
<1> HIDE DEF Turn
<1>3. 0 \in Have
  <2>1. PICK h : h = [k \in 1..0 |-> c]
    OBVIOUS
  <2>2. Lists(h, 0)
    BY <2>1
  <2> HIDE DEF Lists
  <2> QED
    BY <1>1, <2>2
<1>4. ASSUME NEW m \in 1..N, m - 1 \in Have PROVE m \in Have
  <2>1. m - 1 \in 0..N /\ m \in 0..N /\ m \in Nat
    BY <1>1
  <2>2. PICK g : Lists(g, m - 1)
    BY <1>4
  <2>3. PICK h : h = [k \in 1..m |-> IF k = m THEN (IF k = 1 THEN c ELSE Turn(g[m - 1])) ELSE g[k]]
    OBVIOUS
  <2>4. h = [k \in 1..m |-> h[k]]
    BY <2>3
  <2>5. ASSUME NEW k \in 1..m PROVE h[k] = IF k = 1 THEN c ELSE Turn(h[k - 1])
    <3>1. k # 1 => k - 1 \in 1..m /\ k - 1 # m
      BY <2>1
    <3>2. k # 1 => h[k - 1] = g[k - 1]
      BY <2>3, <3>1
    <3>3. CASE k = m
      BY <2>3, <3>1, <3>2, <3>3
    <3>4. CASE k # m
      <4>1. k \in 1..(m - 1)
        BY <3>4, <2>1
      <4>2. g[k] = (IF k = 1 THEN c ELSE Turn(g[k - 1])) /\ h[k] = g[k]
        BY <2>2, <2>3, <3>1, <3>4, <4>1
      <4> QED
        BY <3>2, <4>2
    <3> QED
      BY <3>3, <3>4
  <2>6. Lists(h, m)
    BY <2>4, <2>5
  <2> HIDE DEF Lists
  <2> QED
    BY <2>1, <2>6
<1>5. N \in Have
  <2> HIDE DEF Have
  <2>1. \A k \in 0..N : k \in Have
    BY <1>1, <1>3, <1>4, UpTo
  <2> QED
    BY <1>1, <2>1
<1>6. PICK g : Lists(g, N)
  BY <1>5
<1>7. Step(g)
  BY <1>6
<1>8. PICK f : f = CHOOSE h : h = [i \in 1..cluster_count(v) |-> IF i = 1 THEN c ELSE Turn(h[i - 1])]
  OBVIOUS
<1>9. Step(f)
  BY <1>1, <1>7, <1>8
<1>10. IsFrom(v, c, N, f)
  BY <1>1, <1>8 DEF ChainFrom, Turn, Once, Ends, IsFrom
<1>11. Followed(v, c, N, f)
  <2>1. f[1] = c
    BY <1>1, <1>9
  <2>2. ASSUME NEW i \in 2..N PROVE f[i] = fat(v, f[i - 1])
    <3>1. i \in 1..N /\ i # 1
      BY <1>1
    <3>2. f[i] = Turn(f[i - 1])
      BY <1>9, <3>1
    <3> QED
      BY <1>2, <3>2
  <2> QED
    BY <1>1, <2>1, <2>2 DEF Followed
<1> QED
  BY <1>10, <1>11

\* ChainFrom finds the chain if there is one, and nothing else.
LEMMA ChainFromIs ==
  ASSUME NEW v, IsVolume(v), geometry_ok(v), NEW c
  PROVE  /\ ChainFrom(v, c) = << >> \/ \E m : Chains(v, c, ChainFrom(v, c), m)
         /\ \A s, m : Chains(v, c, s, m) => ChainFrom(v, c) = s
<1>1. PICK N : N = cluster_count(v) /\ N \in Nat /\ N >= 1
  BY GeometryIs, Fat16Assumption DEF geometry_ok
<1>2. PICK at : Followed(v, c, N, at) /\ IsFrom(v, c, N, at)
  BY <1>1, ChainFollows
<1>3. PICK ends : ends = {i \in 1..N : fat(v, at[i]) >= EOC /\ \A j \in 1..i : at[j] \in Usable(v)}
                  /\ ends = Ends(v, N, at)
  BY DEF Ends
<1>4. ChainFrom(v, c) = IF ends = {} THEN << >> ELSE [i \in 1..Min(ends) |-> at[i]]
  BY <1>2, <1>3 DEF IsFrom
<1>5. ASSUME ends # {} PROVE \E m : Chains(v, c, ChainFrom(v, c), m)
  <2>1. PICK l \in ends : \A i \in ends : l <= i
    BY <1>3, <1>5, LeastNat
  <2>2. Min(ends) = l
    <3>1. \A x \in ends : (\A y \in ends : x <= y) => x = l
      BY <1>1, <1>3, <2>1
    <3> QED
      BY <2>1, <3>1 DEF Min
  <2>3. PICK s : s = [i \in 1..l |-> at[i]]
    OBVIOUS
  <2>4. ChainFrom(v, c) = s
    BY <1>4, <1>5, <2>2, <2>3
  <2>5. l \in 1..N /\ fat(v, at[l]) >= EOC /\ \A j \in 1..l : at[j] \in Usable(v)
    BY <1>3, <2>1
  <2>6. \A i \in 1..(l - 1) : s[i + 1] = fat(v, s[i])
    <3>1. SUFFICES ASSUME NEW i \in 1..(l - 1) PROVE s[i + 1] = fat(v, s[i])
      OBVIOUS
    <3>2. i + 1 \in 2..N /\ (i + 1) - 1 = i /\ i + 1 \in 1..l /\ i \in 1..l
      BY <1>1, <2>5
    <3>3. at[i + 1] = fat(v, at[(i + 1) - 1])
      BY <1>2, <3>2 DEF Followed
    <3> QED
      BY <2>3, <3>2, <3>3
  <2>7. s[1] = c /\ fat(v, s[l]) >= EOC /\ s \in [1..l -> Usable(v)]
    BY <1>1, <1>2, <2>3, <2>5 DEF Followed
  <2> QED
    BY <1>1, <2>4, <2>5, <2>6, <2>7 DEF Chains
<1>6. ASSUME NEW s, NEW m, Chains(v, c, s, m) PROVE ends # {}
  <2>1. m \in 1..N
    BY <1>1, <1>6 DEF Chains
  <2> DEFINE S == {k \in 0..m : k = 0 \/ s[k] = at[k]}
  <2>2. ASSUME NEW k \in 1..m, k - 1 \in S PROVE k \in S
    <3>1. CASE k = 1
      BY <1>2, <1>6, <2>1, <3>1 DEF Chains, Followed
    <3>2. CASE k # 1
      <4>1. k - 1 \in 1..(m - 1) /\ (k - 1) + 1 = k /\ k \in 2..N /\ k - 1 # 0
        BY <1>1, <2>1, <3>2
      <4>2. s[k] = fat(v, s[k - 1]) /\ at[k] = fat(v, at[k - 1])
        BY <1>2, <1>6, <4>1 DEF Chains, Followed
      <4> QED
        BY <2>1, <2>2, <4>1, <4>2
    <3> QED
      BY <3>1, <3>2
  <2>3. \A k \in 1..m : s[k] = at[k]
    <3>1. 0 \in S
      BY <2>1
    <3> HIDE DEF S
    <3>2. \A k \in 0..m : k \in S
      BY <1>1, <2>1, <2>2, <3>1, UpTo
    <3> USE DEF S
    <3> QED
      BY <1>1, <2>1, <3>2
  <2>4. fat(v, at[m]) >= EOC /\ \A j \in 1..m : at[j] \in Usable(v)
    BY <1>1, <1>6, <2>1, <2>3 DEF Chains
  <2> QED
    BY <1>3, <2>1, <2>4
<1>7. ASSUME NEW s, NEW m, Chains(v, c, s, m) PROVE ChainFrom(v, c) = s
  <2>1. PICK n : Chains(v, c, ChainFrom(v, c), n)
    BY <1>5, <1>6, <1>7
  <2>2. m \in Nat /\ n \in Nat
    BY <1>1, <1>7, <2>1 DEF Chains
  <2>3. CASE m <= n
    BY <1>7, <2>1, <2>3, ChainIsOne
  <2>4. CASE n <= m
    BY <1>7, <2>1, <2>4, ChainIsOne
  <2> QED
    BY <2>2, <2>3, <2>4
<1> QED
  BY <1>4, <1>5, <1>7

-----------------------------------------------------------------------------
(* chain *)

\* Where the loop of chain begins.
Begun(start) == [ok |-> TRUE, more |-> TRUE, current |-> start, clusters |-> << >>]

\* The turns of that loop.
Turned(v, claimed, start, N, g) ==
  /\ g[0] = Begun(start)
  /\ \A n \in 1..N : g[n] = follow(v, claimed, g[n - 1])

\* The loop of FAT16.chain as a list of its states, one for each turn.
LEMMA ChainTurns ==
  ASSUME NEW v, IsVolume(v), geometry_ok(v), NEW claimed, NEW start,
         NEW N, N = cluster_count(v) + 1
  PROVE  \E g : Turned(v, claimed, start, N, g) /\ chain(v, claimed, start) = g[N]
<1>1. N \in Nat
  BY GeometryIs
<1> DEFINE Turn(a) == CHOOSE r \in {follow(v, claimed, b) : b \in {a}} : TRUE
           Lists(h, m) ==
             /\ h = [k \in 0..m |-> h[k]] /\ h[0] = Begun(start)
             /\ \A k \in 1..m : h[k] = Turn(h[k - 1])
           Step(h) == h = [k \in 0..N |-> IF k = 0 THEN Begun(start) ELSE Turn(h[k - 1])]
           Have == {m \in 0..N : \E h : Lists(h, m)}
<1>2. \A a : Turn(a) = follow(v, claimed, a)
  OBVIOUS
<1> HIDE DEF Turn
<1>3. 0 \in Have
  <2>1. PICK h : h = [k \in 0..0 |-> Begun(start)]
    OBVIOUS
  <2>2. Lists(h, 0)
    BY <2>1
  <2> HIDE DEF Lists
  <2> QED
    BY <1>1, <2>2
<1>4. ASSUME NEW m \in 1..N, m - 1 \in Have PROVE m \in Have
  <2>1. m - 1 \in 0..N /\ m \in 0..N /\ m \in Nat
    BY <1>1
  <2>2. PICK g : Lists(g, m - 1)
    BY <1>4
  <2>3. PICK h : h = [k \in 0..m |-> IF k = m THEN Turn(g[m - 1]) ELSE g[k]]
    OBVIOUS
  <2>4. h = [k \in 0..m |-> h[k]]
    BY <2>3
  <2>5. h[0] = Begun(start)
    BY <2>1, <2>2, <2>3
  <2>6. ASSUME NEW k \in 1..m PROVE h[k] = Turn(h[k - 1])
    <3>1. k \in 0..m /\ k - 1 \in 0..m /\ k - 1 # m
      BY <2>1
    <3>2. h[k - 1] = g[k - 1]
      BY <2>3, <3>1
    <3>3. CASE k = m
      BY <2>3, <3>1, <3>2, <3>3
    <3>4. CASE k # m
      <4>1. k \in 1..(m - 1)
        BY <3>4, <2>1
      <4>2. g[k] = Turn(g[k - 1]) /\ h[k] = g[k]
        BY <2>2, <2>3, <3>1, <3>4, <4>1
      <4> QED
        BY <3>2, <4>2
    <3> QED
      BY <3>3, <3>4
  <2>7. Lists(h, m)
    BY <2>4, <2>5, <2>6
  <2> HIDE DEF Lists
  <2> QED
    BY <2>1, <2>7
<1>5. N \in Have
  <2> HIDE DEF Have
  <2>1. \A k \in 0..N : k \in Have
    BY <1>1, <1>3, <1>4, UpTo
  <2> QED
    BY <1>1, <2>1
<1>6. PICK g : Lists(g, N)
  BY <1>5
<1>7. Step(g)
  <2>1. \A k \in 0..N : k = 0 \/ k \in 1..N
    BY <1>1
  <2> QED
    BY <1>6, <2>1
<1>8. PICK f : f = CHOOSE h : h = [n \in 0..(cluster_count(v) + 1) |-> IF n = 0 THEN Begun(start) ELSE Turn(h[n - 1])]
  OBVIOUS
<1>9. Step(f)
  BY <1>7, <1>8
<1>10. chain(v, claimed, start) = f[N]
  BY <1>8 DEF chain, Turn, Once, Begun
<1>11. f[0] = Begun(start) /\ \A k \in 1..N : f[k] = Turn(f[k - 1])
  BY <1>1, <1>9
<1>12. Turned(v, claimed, start, N, f)
  BY <1>2, <1>11 DEF Turned
<1> QED
  BY <1>10, <1>12

\* The clusters claimed after n turns.
Claims(v, claimed, start, n, s) ==
  LET m == Len(s.clusters)  t == s.clusters IN
  /\ s = [ok |-> s.ok, more |-> s.more, current |-> s.current, clusters |-> s.clusters]
  /\ s.ok \in BOOLEAN /\ s.more \in BOOLEAN /\ (s.more => s.ok)
  /\ t \in Seq(Usable(v)) /\ m <= n /\ (m >= 1 => t[1] = start)
  /\ \A i \in 1..m : t[i] \notin claimed
  /\ \A i, j \in 1..m : t[i] = t[j] => i = j
  /\ \A i \in 1..(m - 1) : t[i + 1] = fat(v, t[i])
  /\ s.more => m = n /\ s.current = IF n = 0 THEN start ELSE fat(v, t[m])
  /\ s.ok /\ ~s.more => m >= 1 /\ fat(v, t[m]) >= EOC

\* A turn of FAT16.chain keeps what is known of the clusters it has collected.
LEMMA FollowClaims ==
  ASSUME NEW v, IsVolume(v), geometry_ok(v), NEW claimed, NEW start \in Nat, NEW n \in Nat, NEW s,
         Claims(v, claimed, start, n, s)
  PROVE  Claims(v, claimed, start, n + 1, follow(v, claimed, s))
<1>1. PICK t, m : t = s.clusters /\ m = Len(t)
  OBVIOUS
<1>2. /\ t \in Seq(Usable(v)) /\ m \in Nat /\ m <= n /\ DOMAIN t = 1..m
      /\ s = [ok |-> s.ok, more |-> s.more, current |-> s.current, clusters |-> t]
  BY <1>1 DEF Claims
<1>3. PICK r : r = follow(v, claimed, s)
  OBVIOUS
<1>4. CASE ~s.more
  <2>1. r = s
    BY <1>3, <1>4 DEF follow
  <2> QED
    BY <1>1, <1>2, <1>3, <1>4, <2>1 DEF Claims
<1>5. CASE s.more /\ (s.current >= RESERVED \/ s.current \notin DataClusters(v) \/ taken(claimed, t, s.current))
  <2>1. r = [s EXCEPT !.ok = FALSE, !.more = FALSE]
    BY <1>1, <1>3, <1>5 DEF follow
  <2>2. PICK b, e, w : b = s.ok /\ e = s.more /\ w = s.current
    OBVIOUS
  <2>3. s = [ok |-> b, more |-> e, current |-> w, clusters |-> t]
    BY <1>2, <2>2
  <2>4. r = [ok |-> FALSE, more |-> FALSE, current |-> w, clusters |-> t]
    BY <2>1, <2>3
  <2>5. r.ok = FALSE /\ r.more = FALSE /\ r.clusters = t
        /\ r = [ok |-> r.ok, more |-> r.more, current |-> r.current, clusters |-> r.clusters]
    BY <2>4
  <2>6. /\ (m >= 1 => t[1] = start) /\ m <= n + 1
        /\ \A i \in 1..m : t[i] \notin claimed
        /\ \A i, j \in 1..m : t[i] = t[j] => i = j
        /\ \A i \in 1..(m - 1) : t[i + 1] = fat(v, t[i])
    BY <1>1, <1>2 DEF Claims
  <2>7. r.ok \in BOOLEAN /\ r.more \in BOOLEAN /\ ~r.ok /\ ~r.more
    BY <2>5
  <2>8. t \in Seq(Usable(v)) /\ t = r.clusters /\ m = Len(r.clusters)
    BY <1>1, <1>2, <2>5
  <2>9. Claims(v, claimed, start, n + 1, r)
    BY <2>5, <2>6, <2>7, <2>8, ZenonT(40) DEF Claims
  <2> QED
    BY <1>3, <2>9
<1>6. CASE s.more /\ ~(s.current >= RESERVED) /\ s.current \in DataClusters(v) /\ ~taken(claimed, t, s.current)
  <2>1. PICK c, x : c = s.current /\ x = fat(v, c)
    OBVIOUS
  <2>2. r = [ok |-> x >= EOC \/ (2 <= x /\ x < RESERVED), more |-> 2 <= x /\ x < RESERVED,
             current |-> x, clusters |-> Append(t, c)]
    BY <1>1, <1>3, <1>6, <2>1 DEF follow
  <2>3. c \in Usable(v) /\ c \in Nat /\ x \in Nat
    <3>1. c \in Nat
      BY <1>6, <2>1, GeometryIs
    <3> QED
      BY <1>6, <2>1, <3>1, FatIs DEF Usable, RESERVED
  <2>4. c \notin claimed /\ \A i \in 1..m : t[i] # c
    BY <1>2, <1>6, <2>1 DEF taken, Range
  <2>5. PICK u : u = Append(t, c)
    OBVIOUS
  <2>6. /\ u \in Seq(Usable(v)) /\ Len(u) = m + 1 /\ u[m + 1] = c
        /\ \A i \in 1..m : u[i] = t[i]
    BY <1>1, <1>2, <2>3, <2>5
  <2>7. m = n /\ c = IF n = 0 THEN start ELSE fat(v, t[m])
    BY <1>1, <1>6, <2>1 DEF Claims
  <2>8. u[1] = start
    BY <1>1, <1>2, <2>6, <2>7 DEF Claims
  <2>9. /\ \A i \in 1..(m + 1) : u[i] \notin claimed
        /\ \A i, j \in 1..(m + 1) : u[i] = u[j] => i = j
    <3>1. /\ \A i \in 1..m : t[i] \notin claimed
          /\ \A i, j \in 1..m : t[i] = t[j] => i = j
      BY <1>1 DEF Claims
    <3>2. \A i \in 1..(m + 1) : i = m + 1 \/ i \in 1..m
      BY <1>2
    <3> QED
      BY <2>4, <2>6, <3>1, <3>2
  <2>10. \A i \in 1..m : u[i + 1] = fat(v, u[i])
    <3>1. SUFFICES ASSUME NEW i \in 1..m PROVE u[i + 1] = fat(v, u[i])
      OBVIOUS
    <3>2. CASE i = m
      BY <1>2, <2>6, <2>7, <3>2
    <3>3. CASE i # m
      <4>1. i \in 1..(m - 1) /\ i + 1 \in 1..m
        BY <1>2, <3>3
      <4>2. t[i + 1] = fat(v, t[i])
        BY <1>1, <4>1 DEF Claims
      <4> QED
        BY <2>6, <4>1, <4>2
    <3> QED
      BY <3>2, <3>3
  <2>11. /\ r = [ok |-> r.ok, more |-> r.more, current |-> r.current, clusters |-> r.clusters]
         /\ r.ok \in BOOLEAN /\ r.more \in BOOLEAN /\ (r.more => r.ok)
         /\ r.clusters = u /\ r.current = x /\ (r.ok /\ ~r.more => x >= EOC)
    BY <2>2, <2>5
  <2>12. x = fat(v, u[m + 1]) /\ (m + 1) - 1 = m /\ n + 1 # 0 /\ m + 1 = n + 1 /\ m + 1 >= 1
    BY <1>2, <2>1, <2>6, <2>7
  <2>13. \A i \in 1..((m + 1) - 1) : u[i + 1] = fat(v, u[i])
    BY <2>10, <2>12
  <2>14. Claims(v, claimed, start, n + 1, r)
    <3>1. Len(r.clusters) = m + 1 /\ (m + 1 >= 1 => u[1] = start) /\ m + 1 <= n + 1
      BY <1>2, <2>6, <2>8, <2>11, <2>12
    <3>2. r.more => m + 1 = n + 1 /\ r.current = IF n + 1 = 0 THEN start ELSE fat(v, u[m + 1])
      BY <1>2, <2>11, <2>12
    <3>3. r.ok /\ ~r.more => m + 1 >= 1 /\ fat(v, u[m + 1]) >= EOC
      BY <2>11, <2>12
    <3> QED
      BY <2>6, <2>9, <2>11, <2>13, <3>1, <3>2, <3>3 DEF Claims
  <2> QED
    BY <1>3, <2>14
<1> QED
  BY <1>4, <1>5, <1>6

\* A chain that chain accepts is the one that starts there, and nobody has claimed it.
LEMMA ChainAccepts ==
  ASSUME NEW v, IsVolume(v), geometry_ok(v), NEW claimed, NEW start \in Nat,
         chain(v, claimed, start).ok
  PROVE  /\ \E m : Chains(v, start, chain(v, claimed, start).clusters, m)
         /\ Range(chain(v, claimed, start).clusters) \cap claimed = {}
         /\ chain(v, claimed, start).clusters # << >>
<1>1. PICK N : N = cluster_count(v) + 1 /\ N \in Nat /\ N - 1 = cluster_count(v)
  <2>1. PICK n : n = cluster_count(v)
    OBVIOUS
  <2>2. n \in Nat
    BY <2>1, GeometryIs
  <2>3. \E N : N = n + 1 /\ N \in Nat /\ N - 1 = n
    BY <2>2
  <2> QED
    BY <2>1, <2>3
<1>2. PICK g : Turned(v, claimed, start, N, g) /\ chain(v, claimed, start) = g[N]
  BY <1>1, ChainTurns
<1> DEFINE S == {n \in 0..N : Claims(v, claimed, start, n, g[n])}
<1>3. 0 \in S
  <2>1. g[0] = Begun(start)
    BY <1>2 DEF Turned
  <2>2. PICK b : b = Begun(start)
    OBVIOUS
  <2>3. /\ b = [ok |-> b.ok, more |-> b.more, current |-> b.current, clusters |-> b.clusters]
        /\ b.ok /\ b.more /\ b.clusters = << >> /\ b.current = start /\ b.ok \in BOOLEAN /\ b.more \in BOOLEAN
    BY <2>2 DEF Begun
  <2>4. Claims(v, claimed, start, 0, b)
    BY <2>3 DEF Claims
  <2> QED
    BY <1>1, <2>1, <2>2, <2>4
<1>4. ASSUME NEW n \in 1..N, n - 1 \in S PROVE n \in S
  <2>1. n - 1 \in Nat /\ (n - 1) + 1 = n /\ n \in 0..N
    BY <1>1
  <2>2. g[n] = follow(v, claimed, g[n - 1])
    BY <1>2 DEF Turned
  <2>3. Claims(v, claimed, start, n - 1, g[n - 1])
    BY <1>4
  <2>4. Claims(v, claimed, start, (n - 1) + 1, follow(v, claimed, g[n - 1]))
    BY <2>1, <2>3, FollowClaims
  <2> QED
    BY <2>1, <2>2, <2>4
<1>5. Claims(v, claimed, start, N, g[N])
  <2> HIDE DEF S
  <2>1. \A n \in 0..N : n \in S
    BY <1>1, <1>3, <1>4, UpTo
  <2> USE DEF S
  <2> QED
    BY <1>1, <2>1
<1>6. PICK s, t, m : s = g[N] /\ t = s.clusters /\ m = Len(t)
  OBVIOUS
<1>7. /\ t \in Seq(Usable(v)) /\ m \in Nat /\ DOMAIN t = 1..m /\ m <= N
      /\ t \in [1..m -> Usable(v)]
  BY <1>5, <1>6 DEF Claims
<1>8. m <= N - 1
  <2>1. t \in Injection(1..m, 2..N)
    <3>1. Usable(v) \subseteq 2..N
      BY <1>1, GeometryIs DEF Usable
    <3>2. t \in [1..m -> 2..N]
      BY <1>7, <3>1
    <3>3. \A i, j \in 1..m : t[i] = t[j] => i = j
      BY <1>5, <1>6 DEF Claims
    <3> QED
      BY <3>2, <3>3 DEF Injection, IsInjective
  <2>2. IsFiniteSet(2..N) /\ Cardinality(2..N) = IF 2 > N THEN 0 ELSE N - 2 + 1
    <3>1. 2 \in Int /\ N \in Int
      BY <1>1
    <3> QED
      BY <3>1, FS_Interval
  <2>3. Cardinality(1..m) <= Cardinality(2..N) /\ Cardinality(1..m) = IF 1 > m THEN 0 ELSE m - 1 + 1
    BY <1>7, <2>1, <2>2, FS_Injection, FS_Interval
  <2>4. N >= 2
    BY <1>1, Fat16Assumption DEF geometry_ok
  <2> QED
    BY <1>1, <1>7, <2>2, <2>3, <2>4
<1>9. ~s.more /\ s.ok
  <2>1. s.ok
    BY <1>2, <1>6
  <2>2. s.more => m = N
    BY <1>5, <1>6 DEF Claims
  <2> QED
    BY <1>1, <1>7, <1>8, <2>1, <2>2
<1>10. m >= 1 /\ fat(v, t[m]) >= EOC /\ t[1] = start
  BY <1>5, <1>6, <1>9 DEF Claims
<1>11. Chains(v, start, t, m)
  <2>1. \A i \in 1..(m - 1) : t[i + 1] = fat(v, t[i])
    BY <1>5, <1>6 DEF Claims
  <2> QED
    BY <1>1, <1>7, <1>8, <1>10, <2>1 DEF Chains
<1>12. Range(t) \cap claimed = {}
  <2>1. \A i \in 1..m : t[i] \notin claimed
    BY <1>5, <1>6 DEF Claims
  <2> QED
    BY <1>7, <2>1 DEF Range
<1>13. t # << >>
  BY <1>6, <1>7, <1>10
<1> QED
  BY <1>2, <1>6, <1>11, <1>12, <1>13

\* After n turns along the chain t, its first n clusters are claimed.
Along(v, t, m, n, s) ==
  /\ s.ok /\ s.clusters \in Seq(Usable(v)) /\ (s.more <=> n < m)
  /\ \A i \in 1..Len(s.clusters) : s.clusters[i] = t[i]
  /\ n < m => s.current = t[n + 1] /\ Len(s.clusters) = n

\* A chain that nobody has claimed is accepted.
LEMMA ChainIsAccepted ==
  ASSUME NEW v, IsVolume(v), geometry_ok(v), NEW claimed, NEW c, NEW t, NEW m,
         Chains(v, c, t, m), \A i \in 1..m : t[i] \notin claimed
  PROVE  chain(v, claimed, c).ok
<1>1. PICK N : N = cluster_count(v) + 1 /\ N \in Nat /\ N - 1 = cluster_count(v)
  <2>1. PICK n : n = cluster_count(v)
    OBVIOUS
  <2>2. n \in Nat
    BY <2>1, GeometryIs
  <2>3. \E N : N = n + 1 /\ N \in Nat /\ N - 1 = n
    BY <2>2
  <2> QED
    BY <2>1, <2>3
<1>2. PICK g : Turned(v, claimed, c, N, g) /\ chain(v, claimed, c) = g[N]
  BY <1>1, ChainTurns
<1>3. m \in 1..(N - 1) /\ t \in [1..m -> Usable(v)] /\ t[1] = c
  BY <1>1 DEF Chains
<1> DEFINE S == {n \in 0..N : Along(v, t, m, n, g[n])}
<1>4. 0 \in S
  <2>1. g[0] = Begun(c)
    BY <1>2 DEF Turned
  <2>2. PICK b : b = Begun(c)
    OBVIOUS
  <2>3. b.ok = TRUE /\ b.more = TRUE /\ b.clusters = << >> /\ b.current = c /\ Len(b.clusters) = 0
    BY <2>2 DEF Begun
  <2>4. 0 < m /\ t[0 + 1] = c /\ b.clusters \in Seq(Usable(v))
    BY <1>1, <1>3, <2>3
  <2>5. Along(v, t, m, 0, b)
    BY <2>3, <2>4 DEF Along
  <2> QED
    BY <1>1, <2>1, <2>2, <2>5
<1>5. ASSUME NEW n \in 1..N, n - 1 \in S PROVE n \in S
  <2>1. n - 1 \in Nat /\ n \in 0..N /\ (n - 1) + 1 = n /\ m \in Nat
    BY <1>1, <1>3
  <2>2. PICK s, r : s = g[n - 1] /\ r = follow(v, claimed, s) /\ g[n] = r
    BY <1>2 DEF Turned
  <2>3. Along(v, t, m, n - 1, s)
    BY <1>5, <2>2
  <2>4. CASE ~(n - 1 < m)
    <3>1. ~s.more /\ ~(n < m)
      BY <2>1, <2>3, <2>4 DEF Along
    <3>2. r = s
      BY <2>2, <3>1 DEF follow
    <3>3. Along(v, t, m, n, r)
      <4>1. s.more <=> n < m
        BY <3>1
      <4> QED
        BY <2>3, <3>1, <3>2, <4>1 DEF Along
    <3> QED
      BY <2>1, <2>2, <3>3
  <2>5. CASE n - 1 < m
    <3>1. n \in 1..m
      BY <2>1, <2>5
    <3>2. PICK q, x, a : q = s.clusters /\ a = t[n] /\ x = fat(v, a)
      OBVIOUS
    <3>3. /\ s.ok /\ s.more /\ s.current = a /\ q \in Seq(Usable(v)) /\ Len(q) = n - 1
          /\ \A i \in 1..(n - 1) : q[i] = t[i]
      BY <2>1, <2>3, <2>5, <3>2 DEF Along
    <3>4. a \in Usable(v)
      BY <1>3, <3>1, <3>2
    <3>5. a \in DataClusters(v) /\ ~(a >= RESERVED)
      BY <3>4, UsableIs DEF Usable, RESERVED
    <3>6. ~taken(claimed, q, a)
      <4>1. \A i \in 1..(n - 1) : q[i] # a
        <5>1. SUFFICES ASSUME NEW i \in 1..(n - 1), q[i] = a PROVE FALSE
          OBVIOUS
        <5>2. i \in 1..m /\ i # n
          BY <2>1, <3>1
        <5>3. t[i] = t[n]
          BY <3>2, <3>3, <5>1
        <5> QED
          BY <3>1, <5>2, <5>3, ChainIsInjective
      <4>2. a \notin claimed
        BY <3>1, <3>2
      <4> QED
        BY <3>3, <4>1, <4>2 DEF taken, Range
    <3>7. r = [ok |-> x >= EOC \/ (2 <= x /\ x < RESERVED), more |-> 2 <= x /\ x < RESERVED,
               current |-> x, clusters |-> Append(q, a)]
      BY <2>2, <3>2, <3>3, <3>5, <3>6 DEF follow
    <3>8. /\ r.ok <=> (x >= EOC \/ (2 <= x /\ x < RESERVED))
          /\ r.more <=> (2 <= x /\ x < RESERVED)
          /\ r.current = x /\ r.clusters = Append(q, a)
      BY <3>7
    <3>9. PICK u : u = Append(q, a)
      OBVIOUS
    <3>10. u \in Seq(Usable(v)) /\ Len(u) = n /\ \A i \in 1..n : u[i] = t[i]
      <4>1. /\ u \in Seq(Usable(v)) /\ Len(u) = n /\ u[n] = a
            /\ \A i \in 1..(n - 1) : u[i] = q[i]
        BY <2>1, <3>3, <3>4, <3>9
      <4>2. \A i \in 1..n : i = n \/ i \in 1..(n - 1)
        BY <2>1
      <4> QED
        BY <3>2, <3>3, <4>1, <4>2
    <3>11. CASE n < m
      <4>1. x = t[n + 1] /\ x \in Usable(v)
        <5>1. n \in 1..(m - 1) /\ n + 1 \in 1..m
          BY <2>1, <3>1, <3>11
        <5> QED
          BY <1>3, <3>2, <5>1 DEF Chains
      <4>2. 2 <= x /\ x < RESERVED
        BY <4>1, UsableIs
      <4>3. r.ok /\ (r.more <=> n < m) /\ r.current = t[n + 1] /\ r.clusters = u
        BY <3>8, <3>9, <3>11, <4>1, <4>2
      <4>4. Along(v, t, m, n, r)
        BY <3>10, <4>3 DEF Along
      <4> QED
        BY <2>1, <2>2, <4>4
    <3>12. CASE n = m
      <4>1. x >= EOC /\ x \in Nat
        BY <3>2, <3>12, FatIs DEF Chains
      <4>2. ~(x < RESERVED)
        BY <4>1 DEF EOC, RESERVED
      <4>3. ~(n < m)
        BY <2>1, <3>12
      <4>4. r.ok /\ (r.more <=> n < m) /\ r.clusters = u
        BY <3>8, <3>9, <4>1, <4>2, <4>3
      <4>5. Along(v, t, m, n, r)
        BY <3>10, <4>3, <4>4 DEF Along
      <4> QED
        BY <2>1, <2>2, <4>5
    <3> QED
      BY <2>1, <3>1, <3>11, <3>12
  <2> QED
    BY <2>4, <2>5
<1>6. N \in S
  <2> HIDE DEF S
  <2>1. \A n \in 0..N : n \in S
    BY <1>1, <1>4, <1>5, UpTo
  <2> QED
    BY <1>1, <2>1
<1>7. g[N].ok
  BY <1>6 DEF Along
<1> QED
  BY <1>2, <1>7

-----------------------------------------------------------------------------
(* The slots of a directory. *)

\* The partial joins that FlattenSeq stands for.
JoinsUp(q, m, f) == f[1] = q[1] /\ \A i \in 2..m : f[i] = f[i - 1] \o q[i]

\* The join of a list of sequences, as the list of its partial joins.
LEMMA FlattenIs ==
  ASSUME NEW q, NEW m \in Nat \ {0}, Len(q) = m
  PROVE  \E f : JoinsUp(q, m, f) /\ FlattenSeq(q) = f[m]
<1> DEFINE Lists(h, n) ==
             /\ h = [k \in 1..n |-> h[k]]
             /\ \A k \in 1..n : h[k] = IF k = 1 THEN q[k] ELSE h[k - 1] \o q[k]
           Step(h) == h = [k \in 1..m |-> IF k = 1 THEN q[k] ELSE h[k - 1] \o q[k]]
           Have == {n \in 0..m : \E h : Lists(h, n)}
<1>3. 0 \in Have
  <2>1. PICK h : h = [k \in 1..0 |-> q]
    OBVIOUS
  <2>2. Lists(h, 0)
    BY <2>1
  <2> HIDE DEF Lists
  <2> QED
    BY <2>2
<1>4. ASSUME NEW n \in 1..m, n - 1 \in Have PROVE n \in Have
  <2>1. n - 1 \in 0..m /\ n \in 0..m /\ n \in Nat
    OBVIOUS
  <2>2. PICK g : Lists(g, n - 1)
    BY <1>4
  <2>3. PICK h : h = [k \in 1..n |-> IF k = n THEN (IF k = 1 THEN q[k] ELSE g[n - 1] \o q[k]) ELSE g[k]]
    OBVIOUS
  <2>4. h = [k \in 1..n |-> h[k]]
    BY <2>3
  <2>5. ASSUME NEW k \in 1..n PROVE h[k] = IF k = 1 THEN q[k] ELSE h[k - 1] \o q[k]
    <3>1. k # 1 => k - 1 \in 1..n /\ k - 1 # n
      BY <2>1
    <3>2. k # 1 => h[k - 1] = g[k - 1]
      BY <2>3, <3>1
    <3>3. CASE k = n
      BY <2>3, <3>1, <3>2, <3>3
    <3>4. CASE k # n
      <4>1. k \in 1..(n - 1)
        BY <3>4, <2>1
      <4>2. g[k] = (IF k = 1 THEN q[k] ELSE g[k - 1] \o q[k]) /\ h[k] = g[k]
        BY <2>2, <2>3, <3>1, <3>4, <4>1
      <4> QED
        BY <3>2, <4>2
    <3> QED
      BY <3>3, <3>4
  <2>6. Lists(h, n)
    BY <2>4, <2>5
  <2> HIDE DEF Lists
  <2> QED
    BY <2>1, <2>6
<1>5. m \in Have
  <2> HIDE DEF Have
  <2>1. \A k \in 0..m : k \in Have
    BY <1>3, <1>4, UpTo
  <2> QED
    BY <2>1
<1>6. PICK g : Lists(g, m)
  BY <1>5
<1>7. Step(g)
  BY <1>6
<1>8. PICK f : f = CHOOSE h : h = [i \in 1..Len(q) |-> IF i = 1 THEN q[i] ELSE h[i - 1] \o q[i]]
  OBVIOUS
<1>9. Step(f)
  BY <1>7, <1>8
<1>10. FlattenSeq(q) = f[m]
  BY <1>8 DEF FlattenSeq
<1>11. JoinsUp(q, m, f)
  <2>1. f[1] = q[1]
    BY <1>9
  <2>2. ASSUME NEW i \in 2..m PROVE f[i] = f[i - 1] \o q[i]
    <3>1. i \in 1..m /\ i # 1
      OBVIOUS
    <3> QED
      BY <1>9, <3>1
  <2> QED
    BY <2>1, <2>2 DEF JoinsUp
<1> QED
  BY <1>10, <1>11

\* The contents of a cluster are directory entries, whatever lies there.
LEMMA BlockIs ==
  ASSUME NEW v, IsVolume(v), NEW c
  PROVE  block(v, c) \in Seq(Entries)
<1>1. <<End>> \in Seq(Entries)
  <2>1. End \in Entries
    BY DEF End, Entries
  <2> QED
    BY <2>1
<1>2. contents(v, c).entries \in Seq(Entries)
  <2>1. CASE c \in DOMAIN v.clusters
    BY <2>1 DEF IsVolume, contents
  <2>2. CASE c \notin DOMAIN v.clusters
    BY <1>1, <2>2 DEF contents
  <2> QED
    BY <2>1, <2>2
<1> QED
  BY <1>2 DEF block, IsVolume

\* p is a sequence of slots of the clusters C, none twice.
SlotsOf(v, p, C) ==
  /\ p \in Seq(Nat \X Nat)
  /\ \A i \in 1..Len(p) : p[i][1] \in C /\ p[i][2] \in DOMAIN block(v, p[i][1])
  /\ \A i, j \in 1..Len(p) : p[i] = p[j] => i = j

\* The slots of one cluster are places of that cluster, each listed once.
LEMMA PlacedBlock ==
  ASSUME NEW v, IsVolume(v), NEW c \in Nat
  PROVE  SlotsOf(v, [j \in DOMAIN block(v, c) |-> <<c, j>>], {c})
<1>1. PICK b, n : b = block(v, c) /\ n = Len(b)
  OBVIOUS
<1>2. n \in Nat /\ DOMAIN b = 1..n
  BY <1>1, BlockIs
<1>3. PICK p : p = [j \in 1..n |-> <<c, j>>]
  OBVIOUS
<1>4. p \in Seq(Nat \X Nat) /\ Len(p) = n /\ DOMAIN p = 1..n
  BY <1>2, <1>3
<1>5. \A i \in 1..n : p[i] = <<c, i>> /\ p[i][1] = c /\ p[i][2] = i
  BY <1>3
<1>6. SlotsOf(v, p, {c})
  BY <1>1, <1>2, <1>4, <1>5 DEF SlotsOf
<1> QED
  BY <1>1, <1>2, <1>3, <1>6

\* Slots of disjoint sets of clusters, joined, are still each listed once.
LEMMA PlacedJoin ==
  ASSUME NEW v, NEW p, NEW C, SlotsOf(v, p, C), NEW q, NEW D, SlotsOf(v, q, D), C \cap D = {}
  PROVE  SlotsOf(v, p \o q, C \cup D)
<1>1. PICK m, n, r : m = Len(p) /\ n = Len(q) /\ r = p \o q
  OBVIOUS
<1>2. /\ m \in Nat /\ n \in Nat /\ r \in Seq(Nat \X Nat) /\ Len(r) = m + n
      /\ \A i \in 1..(m + n) : r[i] = IF i <= m THEN p[i] ELSE q[i - m]
  BY <1>1, ConcatProperties DEF SlotsOf
<1>3. /\ \A i \in 1..m : p[i][1] \in C /\ p[i][2] \in DOMAIN block(v, p[i][1])
      /\ \A i, j \in 1..m : p[i] = p[j] => i = j
  BY <1>1 DEF SlotsOf
<1>4. /\ \A i \in 1..n : q[i][1] \in D /\ q[i][2] \in DOMAIN block(v, q[i][1])
      /\ \A i, j \in 1..n : q[i] = q[j] => i = j
  BY <1>1 DEF SlotsOf
<1>5. ASSUME NEW i \in 1..(m + n)
      PROVE  \/ i \in 1..m /\ r[i] = p[i]
             \/ i - m \in 1..n /\ r[i] = q[i - m] /\ i > m
  <2>1. CASE i <= m
    BY <1>2, <2>1
  <2>2. CASE i > m
    <3>1. i - m \in 1..n /\ ~(i <= m)
      BY <1>2, <2>2
    <3> QED
      BY <1>2, <2>2, <3>1
  <2> QED
    BY <1>2, <2>1, <2>2
<1>6. \A i \in 1..(m + n) : r[i][1] \in C \cup D /\ r[i][2] \in DOMAIN block(v, r[i][1])
  BY <1>3, <1>4, <1>5
<1>7. ASSUME NEW i \in 1..(m + n), NEW j \in 1..(m + n), r[i] = r[j] PROVE i = j
  <2>1. CASE i \in 1..m /\ r[i] = p[i]
    <3>1. r[j][1] \in C
      BY <1>3, <1>7, <2>1
    <3>2. j \in 1..m /\ r[j] = p[j]
      BY <1>4, <1>5, <3>1
    <3> QED
      BY <1>3, <1>7, <2>1, <3>2
  <2>2. CASE i - m \in 1..n /\ r[i] = q[i - m] /\ i > m
    <3>1. r[j][1] \in D
      BY <1>4, <1>7, <2>2
    <3>2. j - m \in 1..n /\ r[j] = q[j - m]
      BY <1>3, <1>5, <3>1
    <3>3. i - m = j - m
      BY <1>4, <1>7, <2>2, <3>2
    <3> QED
      BY <1>2, <3>3
  <2> QED
    BY <1>5, <2>1, <2>2
<1>8. SlotsOf(v, r, C \cup D)
  BY <1>2, <1>6, <1>7 DEF SlotsOf
<1> QED
  BY <1>1, <1>8

\* The slots of the clusters of t are theirs, and none comes twice.
LEMMA PayloadIs ==
  ASSUME NEW v, IsVolume(v), NEW m \in Nat, NEW t \in [1..m -> Nat],
         \A i, j \in 1..m : t[i] = t[j] => i = j
  PROVE  SlotsOf(v, payload(v, t), Range(t))
<1>1. PICK q : q = [i \in 1..m |-> [j \in DOMAIN block(v, t[i]) |-> <<t[i], j>>]]
  OBVIOUS
<1>2. payload(v, t) = FlattenSeq(q) /\ Len(q) = m
  BY <1>1 DEF payload
<1>3. CASE m = 0
  <2>1. q = << >> /\ payload(v, t) = << >>
    BY <1>1, <1>2, <1>3 DEF FlattenSeq
  <2> QED
    BY <2>1 DEF SlotsOf
<1>4. CASE m # 0
  <2>1. PICK f : JoinsUp(q, m, f) /\ FlattenSeq(q) = f[m]
    BY <1>2, <1>4, FlattenIs
  <2> DEFINE C(n) == {t[i] : i \in 1..n}
             S == {n \in 0..m : n = 0 \/ SlotsOf(v, f[n], C(n))}
  <2>2. ASSUME NEW n \in 1..m PROVE SlotsOf(v, q[n], {t[n]})
    BY <1>1, PlacedBlock
  <2>3. ASSUME NEW n \in 1..m, n - 1 \in S PROVE n \in S
    <3>1. CASE n = 1
      <4>1. C(1) = {t[1]} /\ f[1] = q[1]
        BY <2>1 DEF JoinsUp
      <4>2. SlotsOf(v, q[1], {t[1]})
        BY <2>2, <3>1
      <4> HIDE DEF C
      <4>3. SlotsOf(v, f[1], C(1))
        BY <4>1, <4>2
      <4>4. SlotsOf(v, f[n], C(n))
        BY <3>1, <4>3
      <4> QED
        BY <4>4
    <3>2. CASE n # 1
      <4>1. n \in 2..m /\ n - 1 \in 1..m
        BY <3>2
      <4>2. f[n] = f[n - 1] \o q[n]
        BY <2>1, <4>1 DEF JoinsUp
      <4>3. SlotsOf(v, f[n - 1], C(n - 1))
        BY <2>3, <3>2
      <4>4. C(n - 1) \cap {t[n]} = {}
        <5>1. \A i \in 1..(n - 1) : i \in 1..m /\ i # n
          BY <4>1
        <5> QED
          BY <5>1
      <4>5. C(n) = C(n - 1) \cup {t[n]}
        <5>1. \A i : i \in 1..n <=> i \in 1..(n - 1) \/ i = n
          BY <4>1
        <5> QED
          BY <5>1
      <4>6. SlotsOf(v, q[n], {t[n]})
        BY <2>2
      <4> HIDE DEF C
      <4>7. SlotsOf(v, f[n], C(n))
        BY <4>2, <4>3, <4>4, <4>5, <4>6, PlacedJoin
      <4> QED
        BY <4>7
    <3> QED
      BY <3>1, <3>2
  <2>4. SlotsOf(v, f[m], C(m))
    <3>1. 0 \in S
      OBVIOUS
    <3> HIDE DEF S
    <3>2. \A n \in 0..m : n \in S
      BY <2>3, <3>1, UpTo
    <3>3. m \in S
      BY <3>2
    <3> USE DEF S
    <3> HIDE DEF C
    <3> QED
      BY <1>4, <3>3
  <2>5. C(m) = Range(t)
    BY DEF Range
  <2> HIDE DEF C
  <2> QED
    BY <1>2, <2>1, <2>4, <2>5
<1> QED
  BY <1>3, <1>4

\* The slots of the chain from c are those of its clusters, all allocated.
LEMMA ChainSlots ==
  ASSUME NEW v, IsVolume(v), geometry_ok(v), NEW c
  PROVE  /\ SlotsOf(v, payload(v, ChainFrom(v, c)), Range(ChainFrom(v, c)))
         /\ Range(ChainFrom(v, c)) \subseteq allocated(v)
         /\ ChainFrom(v, c) # << >> => c \in Range(ChainFrom(v, c))
<1>1. PICK t : t = ChainFrom(v, c)
  OBVIOUS
<1>2. CASE t = << >>
  <2>1. t \in [1..0 -> Nat] /\ Range(t) = {} /\ \A i, j \in 1..0 : t[i] = t[j] => i = j
    BY <1>2 DEF Range
  <2>2. SlotsOf(v, payload(v, t), Range(t))
    BY <2>1, PayloadIs
  <2> QED
    BY <1>1, <1>2, <2>1, <2>2
<1>3. CASE t # << >>
  <2>1. PICK m : Chains(v, c, t, m)
    BY <1>1, <1>3, ChainFromIs
  <2>2. m \in Nat /\ m >= 1 /\ t \in [1..m -> Usable(v)] /\ t[1] = c
    BY <2>1, GeometryIs DEF Chains
  <2>3. t \in [1..m -> Nat]
    BY <2>2, UsableIs
  <2>4. \A i, j \in 1..m : t[i] = t[j] => i = j
    BY <2>1, ChainIsInjective
  <2>5. SlotsOf(v, payload(v, t), Range(t))
    BY <2>2, <2>3, <2>4, PayloadIs
  <2>6. \A i \in 1..m : t[i] \in allocated(v)
    <3>1. SUFFICES ASSUME NEW i \in 1..m PROVE t[i] \in allocated(v)
      OBVIOUS
    <3>2. t[i] \in DataClusters(v)
      BY <2>2 DEF Usable
    <3>3. fat(v, t[i]) # 0
      <4>1. CASE i = m
        BY <2>1, <4>1 DEF Chains, EOC
      <4>2. CASE i # m
        <5>1. i \in 1..(m - 1) /\ i + 1 \in 1..m
          BY <2>2, <4>2
        <5>2. fat(v, t[i]) \in Usable(v)
          BY <2>1, <2>2, <5>1 DEF Chains
        <5> QED
          BY <5>2, UsableIs
      <4> QED
        BY <4>1, <4>2
    <3> QED
      BY <3>2, <3>3 DEF allocated
  <2>7. Range(t) \subseteq allocated(v) /\ c \in Range(t)
    BY <2>2, <2>6 DEF Range
  <2> QED
    BY <1>1, <2>5, <2>7
<1> QED
  BY <1>2, <1>3

-----------------------------------------------------------------------------
(* The directories, level by level. *)

\* The recursive function DirsAt, as its first value and its step.
LEMMA LevelsAre ==
  ASSUME NEW v
  PROVE  /\ DirsAt(v)[0] = {Root(v)}
         /\ \A k \in 1..(MAX_DEPTH + 1) : DirsAt(v)[k] = UNION {Below(v, d) : d \in DirsAt(v)[k - 1]}
<1>1. PICK N : N = MAX_DEPTH + 1 /\ N \in Nat
  BY Fat16Assumption
<1> DEFINE Turn(a) == CHOOSE r \in {UNION {Below(v, d) : d \in b} : b \in {a}} : TRUE
           Lists(h, m) ==
             /\ h = [k \in 0..m |-> h[k]] /\ h[0] = {Root(v)}
             /\ \A k \in 1..m : h[k] = Turn(h[k - 1])
           Step(h) == h = [k \in 0..N |-> IF k = 0 THEN {Root(v)} ELSE Turn(h[k - 1])]
           Have == {m \in 0..N : \E h : Lists(h, m)}
<1>2. \A a : Turn(a) = UNION {Below(v, d) : d \in a}
  OBVIOUS
<1> HIDE DEF Turn
<1>3. 0 \in Have
  <2>1. PICK h : h = [k \in 0..0 |-> {Root(v)}]
    OBVIOUS
  <2>2. Lists(h, 0)
    BY <2>1
  <2> HIDE DEF Lists
  <2> QED
    BY <1>1, <2>2
<1>4. ASSUME NEW m \in 1..N, m - 1 \in Have PROVE m \in Have
  <2>1. m - 1 \in 0..N /\ m \in 0..N /\ m \in Nat
    BY <1>1
  <2>2. PICK g : Lists(g, m - 1)
    BY <1>4
  <2>3. PICK h : h = [k \in 0..m |-> IF k = m THEN Turn(g[m - 1]) ELSE g[k]]
    OBVIOUS
  <2>4. h = [k \in 0..m |-> h[k]]
    BY <2>3
  <2>5. h[0] = {Root(v)}
    BY <2>1, <2>2, <2>3
  <2>6. ASSUME NEW k \in 1..m PROVE h[k] = Turn(h[k - 1])
    <3>1. k \in 0..m /\ k - 1 \in 0..m /\ k - 1 # m
      BY <2>1
    <3>2. h[k - 1] = g[k - 1]
      BY <2>3, <3>1
    <3>3. CASE k = m
      BY <2>3, <3>1, <3>2, <3>3
    <3>4. CASE k # m
      <4>1. k \in 1..(m - 1)
        BY <3>4, <2>1
      <4>2. g[k] = Turn(g[k - 1]) /\ h[k] = g[k]
        BY <2>2, <2>3, <3>1, <3>4, <4>1
      <4> QED
        BY <3>2, <4>2
    <3> QED
      BY <3>3, <3>4
  <2>7. Lists(h, m)
    BY <2>4, <2>5, <2>6
  <2> HIDE DEF Lists
  <2> QED
    BY <2>1, <2>7
<1>5. N \in Have
  <2> HIDE DEF Have
  <2>1. \A k \in 0..N : k \in Have
    BY <1>1, <1>3, <1>4, UpTo
  <2> QED
    BY <1>1, <2>1
<1>6. PICK g : Lists(g, N)
  BY <1>5
<1>7. Step(g)
  <2>1. \A k \in 0..N : k = 0 \/ k \in 1..N
    BY <1>1
  <2> QED
    BY <1>6, <2>1
<1>8. PICK f : f = CHOOSE h : h = [k \in 0..(MAX_DEPTH + 1) |-> IF k = 0 THEN {Root(v)} ELSE Turn(h[k - 1])]
  OBVIOUS
<1>9. Step(f)
  BY <1>1, <1>7, <1>8
<1>10. DirsAt(v) = f
  BY <1>8 DEF DirsAt, Turn, Once
<1>11. f[0] = {Root(v)} /\ \A k \in 1..N : f[k] = Turn(f[k - 1])
  <2>1. f[0] = {Root(v)}
    BY <1>1, <1>9
  <2>2. ASSUME NEW k \in 1..N PROVE f[k] = Turn(f[k - 1])
    <3>1. k \in 0..N /\ k # 0
      BY <1>1
    <3> QED
      BY <1>9, <3>1
  <2> QED
    BY <2>1, <2>2
<1> QED
  BY <1>1, <1>2, <1>10, <1>11

\* The clusters a directory lies in; the root directory is in none.
Owned(v, d) == IF d.path = << >> THEN {0} ELSE Range(ChainFrom(v, d.cluster))

DirIs(v, d) ==
  /\ d = [path |-> d.path, cluster |-> d.cluster, parent |-> d.parent, slots |-> d.slots]
  /\ d.path \in Seq(STRING) /\ d.cluster \in Nat /\ d.parent \in Nat
  /\ SlotsOf(v, d.slots, Owned(v, d))

UsedIs(e) ==
  /\ e.name \in STRING /\ e.attr \in Nat /\ e.first \in Nat /\ e.size \in Nat
  /\ e.extended \in BOOLEAN /\ e.valid_name \in BOOLEAN

\* What lies in a slot is a directory entry, with every field if it is in use.
LEMMA EntryIs ==
  ASSUME NEW v, IsVolume(v), NEW p, NEW C, SlotsOf(v, p, C), NEW i \in 1..Len(p)
  PROVE  /\ entry(v, p[i]) \in Entries
         /\ entry(v, p[i]).kind = "used" => UsedIs(entry(v, p[i]))
<1>1. PICK c, j, b : c = p[i][1] /\ j = p[i][2] /\ b = block(v, c)
  OBVIOUS
<1>2. b \in Seq(Entries) /\ j \in DOMAIN b
  BY <1>1, BlockIs DEF SlotsOf
<1>3. PICK e : e = b[j]
  OBVIOUS
<1>4. e \in Entries
  BY <1>2, <1>3
<1>5. e.kind = "used" => UsedIs(e)
  BY <1>4 DEF Entries, UsedIs
<1>6. entry(v, p[i]) = e
  BY <1>1, <1>3 DEF entry
<1> QED
  BY <1>4, <1>5, <1>6

\* The entries of a directory: their numbers, and the fields of those in use.
LEMMA NthIs ==
  ASSUME NEW v, IsVolume(v), NEW d, DirIs(v, d)
  PROVE  /\ Len(d.slots) \in Nat /\ DOMAIN d.slots = 1..Len(d.slots)
         /\ InUse(v, d) \subseteq 1..Len(d.slots) /\ Named(v, d) \subseteq InUse(v, d)
         /\ \A i \in InUse(v, d) : UsedIs(Nth(v, d, i))
<1>1. SlotsOf(v, d.slots, Owned(v, d))
  BY DEF DirIs
<1>2. Len(d.slots) \in Nat /\ DOMAIN d.slots = 1..Len(d.slots)
  BY <1>1 DEF SlotsOf
<1>3. InUse(v, d) \subseteq 1..Len(d.slots) /\ Named(v, d) \subseteq InUse(v, d)
  BY <1>2 DEF InUse, Named
<1>4. ASSUME NEW i \in InUse(v, d) PROVE UsedIs(Nth(v, d, i))
  <2>1. i \in 1..Len(d.slots) /\ Nth(v, d, i).kind = "used"
    BY <1>2, <1>3 DEF InUse
  <2> QED
    BY <1>1, <2>1, EntryIs DEF Nth
<1> QED
  BY <1>2, <1>3, <1>4

\* The root directory is a directory, at cluster 0 with the empty path.
LEMMA RootIs ==
  ASSUME NEW v, IsVolume(v)
  PROVE  DirIs(v, Root(v)) /\ Root(v).path = << >> /\ Root(v).cluster = 0 /\ Root(v).parent = 0
         /\ Root(v).slots = payload(v, <<0>>)
<1>1. PICK t, m : t = <<0>> /\ m = 1
  OBVIOUS
<1>2. SlotsOf(v, payload(v, <<0>>), {0})
  <2>1. t \in [1..m -> Nat] /\ m \in Nat /\ \A i, j \in 1..m : t[i] = t[j] => i = j
    BY <1>1
  <2>2. Range(t) = {0}
    BY <1>1 DEF Range
  <2>3. SlotsOf(v, payload(v, t), Range(t))
    BY <2>1, PayloadIs
  <2> QED
    BY <1>1, <2>2, <2>3
<1>3. PICK s, r : s = payload(v, <<0>>) /\ r = Root(v)
  OBVIOUS
<1>4. r = [path |-> << >>, cluster |-> 0, parent |-> 0, slots |-> s]
  BY <1>3 DEF Root
<1>5. r.path = << >> /\ r.cluster = 0 /\ r.parent = 0 /\ r.slots = s
      /\ r = [path |-> r.path, cluster |-> r.cluster, parent |-> r.parent, slots |-> r.slots]
  BY <1>4
<1>6. Owned(v, r) = {0}
  BY <1>5 DEF Owned
<1>7. DirIs(v, r)
  BY <1>2, <1>3, <1>5, <1>6 DEF DirIs
<1> QED
  BY <1>3, <1>5, <1>7

\* Directory d has, at its place i, an entry for the directory c.
IsChild(v, d, i, c) ==
  /\ i \in Named(v, d) /\ Nth(v, d, i).attr = DIR /\ c = Child(v, d, Nth(v, d, i))

\* A subdirectory is a directory whose path, cluster and parent its entry gives.
LEMMA ChildIs ==
  ASSUME NEW v, IsVolume(v), geometry_ok(v), NEW d, DirIs(v, d), NEW i, NEW c, IsChild(v, d, i, c)
  PROVE  /\ DirIs(v, c) /\ c.path = Append(d.path, Nth(v, d, i).name) /\ c.path # << >>
         /\ Len(c.path) = Len(d.path) + 1
         /\ c.cluster = Nth(v, d, i).first /\ c.parent = d.cluster
         /\ c.slots = payload(v, ChainFrom(v, c.cluster))
         /\ Owned(v, c) = Range(ChainFrom(v, Nth(v, d, i).first))
<1>1. PICK e : e = Nth(v, d, i)
  OBVIOUS
<1>2. UsedIs(e) /\ c = Child(v, d, e)
  BY <1>1, NthIs DEF IsChild
<1>3. PICK s, p : s = payload(v, ChainFrom(v, e.first)) /\ p = Append(d.path, e.name)
  OBVIOUS
<1>4. c = [path |-> p, cluster |-> e.first, parent |-> d.cluster, slots |-> s]
  BY <1>2, <1>3 DEF Child
<1>5. c.path = p /\ c.cluster = e.first /\ c.parent = d.cluster /\ c.slots = s
      /\ c = [path |-> c.path, cluster |-> c.cluster, parent |-> c.parent, slots |-> c.slots]
  BY <1>4
<1>6. p \in Seq(STRING) /\ Len(p) = Len(d.path) + 1 /\ p # << >>
  BY <1>2, <1>3 DEF DirIs, UsedIs
<1>7. SlotsOf(v, s, Range(ChainFrom(v, e.first)))
  BY <1>3, ChainSlots
<1>8. Owned(v, c) = Range(ChainFrom(v, e.first))
  BY <1>5, <1>6 DEF Owned
<1>9. DirIs(v, c)
  BY <1>2, <1>5, <1>6, <1>7, <1>8 DEF DirIs, UsedIs
<1> QED
  BY <1>1, <1>3, <1>5, <1>6, <1>8, <1>9

\* Every level but the first holds the children of the one before.
LEMMA LevelIs ==
  ASSUME NEW v, NEW k \in 0..MAX_DEPTH
  PROVE  /\ \A d \in DirsAt(v)[k] : \A i, c : IsChild(v, d, i, c) => c \in DirsAt(v)[k + 1]
         /\ \A c \in DirsAt(v)[k + 1] : \E d \in DirsAt(v)[k] : \E i : IsChild(v, d, i, c)
<1>1. k + 1 \in 1..(MAX_DEPTH + 1) /\ (k + 1) - 1 = k
  BY Fat16Assumption
<1>2. DirsAt(v)[k + 1] = UNION {Below(v, d) : d \in DirsAt(v)[k]}
  BY <1>1, LevelsAre
<1>3. \A d, c : c \in Below(v, d) <=> \E i : IsChild(v, d, i, c)
  BY DEF Below, IsChild
<1> QED
  BY <1>2, <1>3

\* Every directory lies at the level its path says.
LEMMA DirsAre ==
  ASSUME NEW v, IsVolume(v), geometry_ok(v)
  PROVE  /\ \A k \in 0..(MAX_DEPTH + 1) : \A d \in DirsAt(v)[k] : DirIs(v, d) /\ Len(d.path) = k
         /\ Root(v) \in Dirs(v)
         /\ \A d \in Dirs(v) : DirIs(v, d) /\ Len(d.path) \in 0..MAX_DEPTH /\ d \in DirsAt(v)[Len(d.path)]
<1>1. PICK N : N = MAX_DEPTH + 1 /\ N \in Nat
  BY Fat16Assumption
<1> DEFINE S == {k \in 0..N : \A d \in DirsAt(v)[k] : DirIs(v, d) /\ Len(d.path) = k}
<1>2. 0 \in S
  BY <1>1, LevelsAre, RootIs
<1>3. ASSUME NEW k \in 1..N, k - 1 \in S PROVE k \in S
  <2>1. k - 1 \in 0..MAX_DEPTH /\ (k - 1) + 1 = k /\ k \in 0..N
    BY <1>1, Fat16Assumption
  <2>2. ASSUME NEW c \in DirsAt(v)[k] PROVE DirIs(v, c) /\ Len(c.path) = k
    <3>1. PICK d \in DirsAt(v)[k - 1] : \E i : IsChild(v, d, i, c)
      BY <2>1, LevelIs
    <3>2. DirIs(v, d) /\ Len(d.path) = k - 1
      BY <1>3
    <3> QED
      BY <2>1, <3>1, <3>2, ChildIs
  <2> QED
    BY <2>1, <2>2
<1>4. \A k \in 0..N : k \in S
  <2> HIDE DEF S
  <2> QED
    BY <1>1, <1>2, <1>3, UpTo
<1>5. \A k \in 0..N : \A d \in DirsAt(v)[k] : DirIs(v, d) /\ Len(d.path) = k
  BY <1>4
<1>6. Root(v) \in Dirs(v)
  <2>1. 0 \in 0..MAX_DEPTH /\ Root(v) \in DirsAt(v)[0]
    BY LevelsAre, Fat16Assumption
  <2> QED
    BY <2>1 DEF Dirs
<1>7. ASSUME NEW d \in Dirs(v)
      PROVE  DirIs(v, d) /\ Len(d.path) \in 0..MAX_DEPTH /\ d \in DirsAt(v)[Len(d.path)]
  <2>1. PICK k \in 0..MAX_DEPTH : d \in DirsAt(v)[k]
    BY <1>7 DEF Dirs
  <2>2. k \in 0..N
    BY <1>1, Fat16Assumption
  <2> QED
    BY <1>5, <2>1, <2>2
<1> QED
  BY <1>1, <1>5, <1>6, <1>7

\* A directory the tree goes on to, and where the others come from.
LEMMA ChildOfDir ==
  ASSUME NEW v, IsVolume(v), geometry_ok(v)
  PROVE  /\ \A d \in Dirs(v) : \A i, c :
              IsChild(v, d, i, c) => IF Len(d.path) < MAX_DEPTH THEN c \in Dirs(v)
                                     ELSE DirsAt(v)[MAX_DEPTH + 1] # {}
         /\ \A c \in Dirs(v) : c = Root(v) \/ \E d \in Dirs(v) : \E i : IsChild(v, d, i, c)
         /\ \A c \in DirsAt(v)[MAX_DEPTH + 1] :
              \E d \in Dirs(v) : Len(d.path) = MAX_DEPTH /\ \E i : IsChild(v, d, i, c)
<1>1. MAX_DEPTH \in Nat
  BY Fat16Assumption
<1>2. ASSUME NEW d \in Dirs(v), NEW i, NEW c, IsChild(v, d, i, c)
      PROVE  IF Len(d.path) < MAX_DEPTH THEN c \in Dirs(v) ELSE DirsAt(v)[MAX_DEPTH + 1] # {}
  <2>1. PICK k : k = Len(d.path) /\ k \in 0..MAX_DEPTH /\ d \in DirsAt(v)[k]
    BY DirsAre
  <2>2. c \in DirsAt(v)[k + 1]
    BY <1>2, <2>1, LevelIs
  <2>3. CASE k < MAX_DEPTH
    <3>1. k + 1 \in 0..MAX_DEPTH
      BY <1>1, <2>1, <2>3
    <3>2. c \in Dirs(v)
      BY <2>2, <3>1 DEF Dirs
    <3> QED
      BY <2>1, <2>3, <3>2
  <2>4. CASE ~(k < MAX_DEPTH)
    <3>1. k = MAX_DEPTH
      BY <1>1, <2>1, <2>4
    <3> QED
      BY <2>1, <2>2, <2>4, <3>1
  <2> QED
    BY <2>3, <2>4
<1>3. ASSUME NEW c \in Dirs(v), c # Root(v) PROVE \E d \in Dirs(v) : \E i : IsChild(v, d, i, c)
  <2>1. PICK k : k = Len(c.path) /\ k \in 0..MAX_DEPTH /\ c \in DirsAt(v)[k]
    BY DirsAre
  <2>2. k # 0
    BY <1>3, <2>1, LevelsAre
  <2>3. k - 1 \in 0..MAX_DEPTH /\ (k - 1) + 1 = k
    BY <1>1, <2>1, <2>2
  <2>4. PICK d \in DirsAt(v)[k - 1] : \E i : IsChild(v, d, i, c)
    BY <2>1, <2>3, LevelIs
  <2>5. d \in Dirs(v)
    BY <2>3, <2>4 DEF Dirs
  <2> QED
    BY <2>4, <2>5
<1>4. ASSUME NEW c \in DirsAt(v)[MAX_DEPTH + 1]
      PROVE  \E d \in Dirs(v) : Len(d.path) = MAX_DEPTH /\ \E i : IsChild(v, d, i, c)
  <2>1. MAX_DEPTH \in 0..MAX_DEPTH /\ MAX_DEPTH \in 0..(MAX_DEPTH + 1)
    BY <1>1
  <2>2. PICK d \in DirsAt(v)[MAX_DEPTH] : \E i : IsChild(v, d, i, c)
    BY <2>1, LevelIs
  <2>3. d \in Dirs(v)
    BY <2>1 DEF Dirs
  <2>4. Len(d.path) = MAX_DEPTH
    BY <2>1, DirsAre
  <2> QED
    BY <2>2, <2>3, <2>4
<1> QED
  BY <1>2, <1>3, <1>4

\* No directory has two entries of one name.
OneName(v, d) ==
  \A i, j \in InUse(v, d) : Nth(v, d, i).name = Nth(v, d, j).name => i = j

\* Append can be undone.
LEMMA AppendIs ==
  ASSUME NEW S, NEW s \in Seq(S), NEW t \in Seq(S), NEW x, NEW y, Append(s, x) = Append(t, y)
  PROVE  s = t /\ x = y
<1>1. PICK m, n, a, b : m = Len(s) /\ n = Len(t) /\ a = Append(s, x) /\ b = Append(t, y)
  OBVIOUS
<1>2. /\ m \in Nat /\ n \in Nat /\ Len(a) = m + 1 /\ Len(b) = n + 1 /\ a[m + 1] = x /\ b[n + 1] = y
      /\ (\A i \in 1..m : a[i] = s[i]) /\ (\A i \in 1..n : b[i] = t[i])
  BY <1>1
<1>3. m = n /\ x = y
  BY <1>1, <1>2
<1>4. \A i \in 1..Len(s) : s[i] = t[i]
  BY <1>1, <1>2, <1>3
<1>5. s = t
  BY <1>1, <1>3, <1>4, SeqEqual
<1> QED
  BY <1>3, <1>5

\* Then a path leads to one directory.
LEMMA OneDir ==
  ASSUME NEW v, IsVolume(v), geometry_ok(v), \A d \in Dirs(v) : OneName(v, d)
  PROVE  \A c, d \in Dirs(v) : c.path = d.path => c = d
<1>1. MAX_DEPTH \in Nat
  BY Fat16Assumption
<1> DEFINE S == {k \in 0..MAX_DEPTH : \A c, d \in DirsAt(v)[k] : c.path = d.path => c = d}
<1>2. 0 \in S
  BY <1>1, LevelsAre
<1>3. ASSUME NEW k \in 1..MAX_DEPTH, k - 1 \in S PROVE k \in S
  <2>1. k - 1 \in 0..MAX_DEPTH /\ (k - 1) + 1 = k /\ k \in 0..MAX_DEPTH
    BY <1>1
  <2>2. SUFFICES ASSUME NEW c \in DirsAt(v)[k], NEW d \in DirsAt(v)[k], c.path = d.path PROVE c = d
    BY <2>1
  <2>3. PICK p \in DirsAt(v)[k - 1] : \E i : IsChild(v, p, i, c)
    BY <2>1, LevelIs
  <2>4. PICK q \in DirsAt(v)[k - 1] : \E i : IsChild(v, q, i, d)
    BY <2>1, LevelIs
  <2>5. PICK i, j : IsChild(v, p, i, c) /\ IsChild(v, q, j, d)
    BY <2>3, <2>4
  <2>6. p \in Dirs(v) /\ q \in Dirs(v)
    BY <2>1 DEF Dirs
  <2>7. DirIs(v, p) /\ DirIs(v, q)
    BY <2>6, DirsAre
  <2>8. Append(p.path, Nth(v, p, i).name) = Append(q.path, Nth(v, q, j).name)
    BY <2>2, <2>5, <2>7, ChildIs
  <2>9. p.path = q.path /\ Nth(v, p, i).name = Nth(v, q, j).name
    <3>1. PICK s, t, x, y : s = p.path /\ t = q.path /\ x = Nth(v, p, i).name /\ y = Nth(v, q, j).name
      OBVIOUS
    <3>2. s \in Seq(STRING) /\ t \in Seq(STRING) /\ Append(s, x) = Append(t, y)
      BY <2>7, <2>8, <3>1 DEF DirIs
    <3>3. s = t /\ x = y
      BY <3>2, AppendIs
    <3> QED
      BY <3>1, <3>3
  <2>10. p = q
    BY <1>3, <2>9
  <2>11. i \in InUse(v, p) /\ j \in InUse(v, p)
    BY <2>5, <2>10 DEF IsChild, Named
  <2>12. i = j
    BY <2>6, <2>9, <2>10, <2>11 DEF OneName
  <2> QED
    BY <2>5, <2>10, <2>12 DEF IsChild
<1>4. \A k \in 0..MAX_DEPTH : k \in S
  <2> HIDE DEF S
  <2> QED
    BY <1>1, <1>2, <1>3, UpTo
<1>5. SUFFICES ASSUME NEW c \in Dirs(v), NEW d \in Dirs(v), c.path = d.path PROVE c = d
  OBVIOUS
<1>6. Len(c.path) \in 0..MAX_DEPTH /\ c \in DirsAt(v)[Len(c.path)] /\ d \in DirsAt(v)[Len(c.path)]
  BY <1>5, DirsAre
<1> QED
  BY <1>4, <1>5, <1>6

-----------------------------------------------------------------------------
(* The turns of walk. *)

\* The walk has a finite number of turns to spend.
LEMMA TurnsAre ==
  ASSUME NEW v, IsVolume(v), geometry_ok(v)
  PROVE  IsFiniteSet(Turns(v)) /\ Cardinality(Turns(v)) \in Nat
<1>1. IsFiniteSet(allocated(v) \cup {0})
  <2>1. PICK m : m = cluster_count(v) + 1 /\ m \in Int /\ 2 \in Int
    BY GeometryIs
  <2>2. IsFiniteSet(2..m)
    BY <2>1, FS_Interval
  <2>3. allocated(v) \in SUBSET (2..m)
    BY <2>1, GeometryIs DEF allocated
  <2>4. IsFiniteSet(allocated(v))
    BY <2>2, <2>3, FS_Subset
  <2> QED
    BY <2>4, FS_AddElement
<1> DEFINE places(c) == {0} \cup {i \in DOMAIN block(v, c) : block(v, c)[i].kind # "end"}
           turns(c) == {<<c, j>> : j \in places(c)}
<1>2. ASSUME NEW c PROVE IsFiniteSet(turns(c))
  <2>1. PICK n : n = Len(block(v, c)) /\ n \in Nat /\ DOMAIN block(v, c) = 1..n
    BY BlockIs
  <2>2. IsFiniteSet(0..n) /\ places(c) \in SUBSET (0..n)
    <3>1. 0 \in Int /\ n \in Int /\ 0 \in 0..n /\ 1..n \subseteq 0..n
      BY <2>1
    <3>2. IsFiniteSet(0..n)
      BY <3>1, FS_Interval
    <3>3. places(c) \in SUBSET (0..n)
      BY <2>1, <3>1
    <3> QED
      BY <3>2, <3>3
  <2>3. IsFiniteSet(places(c))
    BY <2>2, FS_Subset
  <2>4. PICK f : f = [j \in places(c) |-> <<c, j>>]
    OBVIOUS
  <2>5. f \in Surjection(places(c), turns(c))
    BY <2>4 DEF Surjection
  <2> QED
    BY <2>3, <2>5, FS_Surjection
<1>3. PICK T : T = {turns(c) : c \in allocated(v) \cup {0}} /\ Turns(v) = UNION T
  BY DEF Turns
<1>4. IsFiniteSet(T)
  <2>1. PICK f : f = [c \in allocated(v) \cup {0} |-> turns(c)]
    OBVIOUS
  <2> HIDE DEF turns
  <2>2. f \in Surjection(allocated(v) \cup {0}, T)
    BY <1>3, <2>1 DEF Surjection
  <2> QED
    BY <1>1, <2>2, FS_Surjection
<1>5. \A X \in T : IsFiniteSet(X)
  <2> HIDE DEF turns
  <2> QED
    BY <1>2, <1>3
<1>6. IsFiniteSet(Turns(v))
  BY <1>3, <1>4, <1>5, FS_UNION
<1> QED
  BY <1>6, FS_CardinalityType

\* Where walk begins.
Opened(v) ==
  [ok |-> TRUE, claimed |-> {}, paths |-> {}, files |-> NoFiles,
   stack |-> <<Frame(<< >>, 0, 0, payload(v, <<0>>))>>]

Walked(v, N, g) ==
  /\ g[0] = Opened(v)
  /\ \A n \in 1..N : g[n] = walkEntry(v, g[n - 1])

\* The loop of FAT16.walk as a list of its states, one for each turn.
LEMMA WalkTurns ==
  ASSUME NEW v, IsVolume(v), geometry_ok(v), NEW N, N = Cardinality(Turns(v))
  PROVE  \E g : Walked(v, N, g) /\ walk(v) = g[N]
<1>1. N \in Nat
  BY TurnsAre
<1> DEFINE Turn(a) == CHOOSE r \in {walkEntry(v, b) : b \in {a}} : TRUE
           Lists(h, m) ==
             /\ h = [k \in 0..m |-> h[k]] /\ h[0] = Opened(v)
             /\ \A k \in 1..m : h[k] = Turn(h[k - 1])
           Step(h) == h = [k \in 0..N |-> IF k = 0 THEN Opened(v) ELSE Turn(h[k - 1])]
           Have == {m \in 0..N : \E h : Lists(h, m)}
<1>2. \A a : Turn(a) = walkEntry(v, a)
  OBVIOUS
<1> HIDE DEF Turn
<1>3. 0 \in Have
  <2>1. PICK h : h = [k \in 0..0 |-> Opened(v)]
    OBVIOUS
  <2>2. Lists(h, 0)
    BY <2>1
  <2> HIDE DEF Lists
  <2> QED
    BY <1>1, <2>2
<1>4. ASSUME NEW m \in 1..N, m - 1 \in Have PROVE m \in Have
  <2>1. m - 1 \in 0..N /\ m \in 0..N /\ m \in Nat
    BY <1>1
  <2>2. PICK g : Lists(g, m - 1)
    BY <1>4
  <2>3. PICK h : h = [k \in 0..m |-> IF k = m THEN Turn(g[m - 1]) ELSE g[k]]
    OBVIOUS
  <2>4. h = [k \in 0..m |-> h[k]]
    BY <2>3
  <2>5. h[0] = Opened(v)
    BY <2>1, <2>2, <2>3
  <2>6. ASSUME NEW k \in 1..m PROVE h[k] = Turn(h[k - 1])
    <3>1. k \in 0..m /\ k - 1 \in 0..m /\ k - 1 # m
      BY <2>1
    <3>2. h[k - 1] = g[k - 1]
      BY <2>3, <3>1
    <3>3. CASE k = m
      BY <2>3, <3>1, <3>2, <3>3
    <3>4. CASE k # m
      <4>1. k \in 1..(m - 1)
        BY <3>4, <2>1
      <4>2. g[k] = Turn(g[k - 1]) /\ h[k] = g[k]
        BY <2>2, <2>3, <3>1, <3>4, <4>1
      <4> QED
        BY <3>2, <4>2
    <3> QED
      BY <3>3, <3>4
  <2>7. Lists(h, m)
    BY <2>4, <2>5, <2>6
  <2> HIDE DEF Lists
  <2> QED
    BY <2>1, <2>7
<1>5. N \in Have
  <2> HIDE DEF Have
  <2>1. \A k \in 0..N : k \in Have
    BY <1>1, <1>3, <1>4, UpTo
  <2> QED
    BY <1>1, <2>1
<1>6. PICK g : Lists(g, N)
  BY <1>5
<1>7. Step(g)
  <2>1. \A k \in 0..N : k = 0 \/ k \in 1..N
    BY <1>1
  <2> QED
    BY <1>6, <2>1
<1>8. PICK f : f = CHOOSE h : h = [n \in 0..Cardinality(Turns(v)) |-> IF n = 0 THEN Opened(v) ELSE Turn(h[n - 1])]
  OBVIOUS
<1>9. Step(f)
  BY <1>7, <1>8
<1>10. walk(v) = f[N]
  BY <1>8 DEF walk, Turn, Once, Opened
<1>11. f[0] = Opened(v) /\ \A k \in 1..N : f[k] = Turn(f[k - 1])
  <2>1. f[0] = Opened(v)
    BY <1>1, <1>9
  <2>2. ASSUME NEW k \in 1..N PROVE f[k] = Turn(f[k - 1])
    <3>1. k \in 0..N /\ k # 0
      BY <1>1
    <3> QED
      BY <1>9, <3>1
  <2> QED
    BY <2>1, <2>2
<1>12. Walked(v, N, f)
  BY <1>2, <1>11 DEF Walked
<1> QED
  BY <1>10, <1>12

-----------------------------------------------------------------------------
(* What the walk has seen of the tree.  G has, for each directory it has come *)
(* to, how many slots it has passed.                                          *)

Met(v, G, d, i) == d \in DOMAIN G /\ i \in InUse(v, d) /\ i <= G[d]
Found(v, G, d, i) == Met(v, G, d, i) /\ i \in Named(v, d)
NamesMet(v, d, n) == {Nth(v, d, i).name : i \in {j \in InUse(v, d) : j <= n}}

EntryFits(v, d, i) ==
  LET e == Nth(v, d, i) IN
  /\ e.attr \in {DIR, FILE} /\ ~e.extended /\ e.valid_name
  /\ i \notin Named(v, d) =>
       /\ d.path # << >> /\ e.attr = DIR /\ e.size = 0
       /\ e.first = IF e.name = "." THEN d.cluster ELSE d.parent
  /\ i \in Named(v, d) => ExtentFits(v, e)

\* The first n slots of d are as they should be.
ReadTo(v, d, n) ==
  /\ n \in 0..Len(d.slots)
  /\ \A j \in 1..n : Nth(v, d, j).kind # "end"
  /\ \A i \in InUse(v, d) : i <= n => EntryFits(v, d, i)
  /\ \A i, j \in InUse(v, d) :
       i <= n /\ j <= n /\ Nth(v, d, i).name = Nth(v, d, j).name => i = j

\* A directory is visited exactly if the entry for it has been passed.
Visits(v, G) ==
  /\ Root(v) \in DOMAIN G
  /\ \A d \in DOMAIN G : d \in Dirs(v) /\ ReadTo(v, d, G[d])
  /\ \A d \in DOMAIN G : \A i, c : IsChild(v, d, i, c) /\ i <= G[d] => c \in DOMAIN G
  /\ \A c \in DOMAIN G : c = Root(v) \/ \E d \in DOMAIN G : \E i : IsChild(v, d, i, c) /\ i <= G[d]

\* The next slot of d is passed, and the directories New are come to.
Advance(G, d, New) ==
  [x \in DOMAIN G \cup New |->
     IF x = d THEN G[d] + 1 ELSE IF x \in DOMAIN G THEN G[x] ELSE 0]

MayAdvance(v, G, d, New) ==
  /\ Visits(v, G) /\ d \in DOMAIN G
  /\ G[d] + 1 <= Len(d.slots) /\ Nth(v, d, G[d] + 1).kind # "end"
  /\ \A c : c \in New <=> IsChild(v, d, G[d] + 1, c)
  /\ New \subseteq Dirs(v) /\ New \cap DOMAIN G = {}
  /\ G[d] + 1 \in InUse(v, d) =>
       EntryFits(v, d, G[d] + 1) /\ Nth(v, d, G[d] + 1).name \notin NamesMet(v, d, G[d])

\* What is known of a directory the walk has entered.
LEMMA VisitIs ==
  ASSUME NEW v, IsVolume(v), geometry_ok(v), NEW G, Visits(v, G), NEW d \in DOMAIN G
  PROVE  /\ d \in Dirs(v) /\ DirIs(v, d)
         /\ G[d] \in Nat /\ G[d] <= Len(d.slots) /\ Len(d.slots) \in Nat
         /\ DOMAIN d.slots = 1..Len(d.slots)
         /\ InUse(v, d) \subseteq 1..Len(d.slots) /\ Named(v, d) \subseteq InUse(v, d)
<1>1. d \in Dirs(v) /\ ReadTo(v, d, G[d])
  BY DEF Visits
<1>2. DirIs(v, d)
  BY <1>1, DirsAre
<1>3. /\ Len(d.slots) \in Nat /\ DOMAIN d.slots = 1..Len(d.slots)
      /\ InUse(v, d) \subseteq 1..Len(d.slots) /\ Named(v, d) \subseteq InUse(v, d)
  BY <1>2, NthIs
<1>4. G[d] \in 0..Len(d.slots)
  BY <1>1 DEF ReadTo
<1> QED
  BY <1>1, <1>2, <1>3, <1>4

\* The slot after those passed is in use exactly if its entry is.
LEMMA NextInUse ==
  ASSUME NEW v, IsVolume(v), geometry_ok(v), NEW G, Visits(v, G), NEW d \in DOMAIN G,
         G[d] + 1 <= Len(d.slots)
  PROVE  G[d] + 1 \in InUse(v, d) <=> Nth(v, d, G[d] + 1).kind = "used"
<1>1. PICK n : n = G[d] /\ n \in Nat /\ n + 1 <= Len(d.slots) /\ Len(d.slots) \in Nat
               /\ DOMAIN d.slots = 1..Len(d.slots)
  BY VisitIs
<1>2. n + 1 \in DOMAIN d.slots
  BY <1>1
<1>3. \A j \in 1..n : Nth(v, d, j).kind # "end"
  BY <1>1 DEF Visits, ReadTo
<1>4. \A j \in 1..(n + 1) : j \in 1..n \/ j = n + 1
  BY <1>1
<1>5. Nth(v, d, n + 1).kind = "used" => \A j \in 1..(n + 1) : Nth(v, d, j).kind # "end"
  BY <1>3, <1>4
<1> QED
  BY <1>1, <1>2, <1>5 DEF InUse

Advanced(v, G, d, New, H) ==
  /\ DOMAIN H = DOMAIN G \cup New
  /\ H[d] = G[d] + 1 /\ \A x \in DOMAIN G : x # d => H[x] = G[x]
  /\ \A c \in New : H[c] = 0 /\ c # d /\ c \notin DOMAIN G /\ DirIs(v, c)

\* An advance passes one slot of one directory and enters the directories New.
LEMMA AdvanceIs ==
  ASSUME NEW v, IsVolume(v), geometry_ok(v), NEW G, NEW d, NEW New, MayAdvance(v, G, d, New),
         NEW H, H = Advance(G, d, New)
  PROVE  /\ Advanced(v, G, d, New, H)
         /\ \A x, i : Met(v, H, x, i) <=>
              Met(v, G, x, i) \/ (x = d /\ i = G[d] + 1 /\ i \in InUse(v, d))
<1>1. Visits(v, G) /\ d \in DOMAIN G /\ New \cap DOMAIN G = {} /\ New \subseteq Dirs(v)
  BY DEF MayAdvance
<1>2. /\ DOMAIN H = DOMAIN G \cup New
      /\ H[d] = G[d] + 1 /\ \A x \in DOMAIN G : x # d => H[x] = G[x]
  BY <1>1 DEF Advance
<1>3. \A c \in New : H[c] = 0 /\ c # d /\ c \notin DOMAIN G
  BY <1>1 DEF Advance
<1>4. \A c \in New : DirIs(v, c)
  BY <1>1, DirsAre
<1>5. ASSUME NEW x, NEW i
      PROVE  Met(v, H, x, i) <=>
               Met(v, G, x, i) \/ (x = d /\ i = G[d] + 1 /\ i \in InUse(v, d))
  <2>1. CASE x \in New
    <3>1. InUse(v, x) \subseteq 1..Len(x.slots) /\ Len(x.slots) \in Nat
      BY <1>4, <2>1, NthIs
    <3>2. H[x] = 0 /\ x # d /\ x \notin DOMAIN G
      BY <1>3, <2>1
    <3> QED
      BY <3>1, <3>2 DEF Met
  <2>2. CASE x \in DOMAIN G /\ x # d
    BY <1>2, <2>2 DEF Met
  <2>3. CASE x = d
    <3>1. InUse(v, d) \subseteq 1..Len(d.slots) /\ Len(d.slots) \in Nat /\ G[d] \in Nat
      BY <1>1, VisitIs
    <3>2. i \in InUse(v, d) => (i <= G[d] + 1 <=> i <= G[d] \/ i = G[d] + 1)
      BY <3>1
    <3> QED
      BY <1>1, <1>2, <2>3, <3>2 DEF Met
  <2>4. CASE x \notin DOMAIN H
    BY <1>1, <1>2, <2>4 DEF Met
  <2> QED
    BY <1>2, <2>1, <2>2, <2>3, <2>4
<1>6. Advanced(v, G, d, New, H)
  BY <1>2, <1>3, <1>4 DEF Advanced
<1> QED
  BY <1>5, <1>6

\* Passing a slot adds the name of its entry to the names met, and no other.
LEMMA NamesAdvance ==
  ASSUME NEW v, IsVolume(v), geometry_ok(v), NEW G, Visits(v, G), NEW d \in DOMAIN G
  PROVE  NamesMet(v, d, G[d] + 1) =
           NamesMet(v, d, G[d])
             \cup IF G[d] + 1 \in InUse(v, d) THEN {Nth(v, d, G[d] + 1).name} ELSE {}
<1>1. PICK n : n = G[d] /\ n \in Nat
  BY VisitIs
<1>2. InUse(v, d) \subseteq Nat
  BY VisitIs
<1>3. \A i \in InUse(v, d) : i <= n + 1 <=> i <= n \/ i = n + 1
  BY <1>1, <1>2
<1>4. \A x : x \in NamesMet(v, d, n + 1) <=>
        x \in NamesMet(v, d, n) \/ (n + 1 \in InUse(v, d) /\ x = Nth(v, d, n + 1).name)
  BY <1>3 DEF NamesMet
<1> QED
  BY <1>1, <1>4

\* An advance past a fit entry leaves a part of the tree visited.
LEMMA AdvanceVisits ==
  ASSUME NEW v, IsVolume(v), geometry_ok(v), NEW G, NEW d, NEW New, MayAdvance(v, G, d, New),
         NEW H, H = Advance(G, d, New)
  PROVE  Visits(v, H)
<1>1. PICK n, k : n = G[d] /\ k = n + 1
  OBVIOUS
<1>2. /\ Visits(v, G) /\ d \in DOMAIN G /\ k <= Len(d.slots) /\ Nth(v, d, k).kind # "end"
      /\ \A c : c \in New <=> IsChild(v, d, k, c)
      /\ New \subseteq Dirs(v)
      /\ k \in InUse(v, d) => EntryFits(v, d, k) /\ Nth(v, d, k).name \notin NamesMet(v, d, n)
  BY <1>1 DEF MayAdvance
<1>3. n \in Nat /\ k \in Nat /\ Len(d.slots) \in Nat /\ InUse(v, d) \subseteq Nat
      /\ Named(v, d) \subseteq InUse(v, d)
  BY <1>1, <1>2, VisitIs
<1>4. /\ DOMAIN H = DOMAIN G \cup New
      /\ H[d] = k /\ \A x \in DOMAIN G : x # d => H[x] = G[x]
      /\ \A c \in New : H[c] = 0 /\ c # d /\ c \notin DOMAIN G /\ DirIs(v, c)
  <2>1. Advanced(v, G, d, New, H)
    BY AdvanceIs
  <2> QED
    BY <1>1, <2>1 DEF Advanced
<1>5. Root(v) \in DOMAIN H
  BY <1>2, <1>4 DEF Visits
<1>6. ReadTo(v, d, k)
  <2>1. ReadTo(v, d, n)
    BY <1>1, <1>2 DEF Visits
  <2>2. \A j \in 1..k : j \in 1..n \/ j = k
    BY <1>1, <1>3
  <2>3. \A j \in 1..k : Nth(v, d, j).kind # "end"
    BY <1>2, <2>1, <2>2 DEF ReadTo
  <2>4. \A i \in InUse(v, d) : i <= k <=> i <= n \/ i = k
    BY <1>1, <1>3
  <2>5. \A i \in InUse(v, d) : i <= k => EntryFits(v, d, i)
    BY <1>2, <2>1, <2>4 DEF ReadTo
  <2>6. \A i \in InUse(v, d) : i <= n => Nth(v, d, i).name \in NamesMet(v, d, n)
    BY DEF NamesMet
  <2>7. ASSUME NEW i \in InUse(v, d), NEW j \in InUse(v, d), i <= k, j <= k,
               Nth(v, d, i).name = Nth(v, d, j).name
        PROVE  i = j
    <3>1. CASE i <= n /\ j <= n
      BY <2>1, <2>7, <3>1 DEF ReadTo
    <3>2. CASE i = k /\ j <= n
      BY <1>2, <2>6, <2>7, <3>2
    <3>3. CASE i <= n /\ j = k
      BY <1>2, <2>6, <2>7, <3>3
    <3> QED
      BY <2>4, <2>7, <3>1, <3>2, <3>3
  <2>8. k \in 0..Len(d.slots)
    BY <1>2, <1>3
  <2> QED
    BY <2>3, <2>5, <2>7, <2>8 DEF ReadTo
<1>7. ASSUME NEW c \in New PROVE ReadTo(v, c, 0)
  <2>1. Len(c.slots) \in Nat /\ InUse(v, c) \subseteq 1..Len(c.slots)
    BY <1>4, NthIs
  <2>2. \A i \in InUse(v, c) : ~(i <= 0)
    BY <2>1
  <2> QED
    BY <2>1, <2>2 DEF ReadTo
<1>8. \A x \in DOMAIN H : x \in Dirs(v) /\ ReadTo(v, x, H[x])
  <2>1. SUFFICES ASSUME NEW x \in DOMAIN H PROVE x \in Dirs(v) /\ ReadTo(v, x, H[x])
    OBVIOUS
  <2>2. CASE x \in New
    BY <1>2, <1>4, <1>7, <2>2
  <2>3. CASE x = d
    BY <1>2, <1>4, <1>6, <2>3 DEF Visits
  <2>4. CASE x \in DOMAIN G /\ x # d
    BY <1>2, <1>4, <2>4 DEF Visits
  <2> QED
    BY <1>4, <2>2, <2>3, <2>4
<1>9. ASSUME NEW x \in DOMAIN H, NEW i, NEW c, IsChild(v, x, i, c), i <= H[x] PROVE c \in DOMAIN H
  <2>1. CASE x \in New
    <3>1. InUse(v, x) \subseteq 1..Len(x.slots) /\ Len(x.slots) \in Nat /\ i \in InUse(v, x)
      BY <1>4, <1>9, <2>1, NthIs DEF IsChild
    <3> QED
      BY <1>4, <1>9, <2>1, <3>1
  <2>2. CASE x = d
    <3>1. i \in InUse(v, d)
      BY <1>3, <1>9, <2>2 DEF IsChild
    <3>2. i <= n \/ i = k
      BY <1>1, <1>3, <1>4, <1>9, <2>2, <3>1
    <3> QED
      BY <1>1, <1>2, <1>4, <1>9, <2>2, <3>2 DEF Visits
  <2>3. CASE x \in DOMAIN G /\ x # d
    BY <1>2, <1>4, <1>9, <2>3 DEF Visits
  <2> QED
    BY <1>4, <2>1, <2>2, <2>3
<1>10. ASSUME NEW c \in DOMAIN H, c # Root(v)
       PROVE  \E x \in DOMAIN H : \E i : IsChild(v, x, i, c) /\ i <= H[x]
  <2>1. CASE c \in New
    <3>1. IsChild(v, d, k, c) /\ k <= H[d] /\ d \in DOMAIN H
      BY <1>2, <1>3, <1>4, <2>1
    <3> QED
      BY <3>1
  <2>2. CASE c \in DOMAIN G
    <3>1. PICK x \in DOMAIN G : \E i : IsChild(v, x, i, c) /\ i <= G[x]
      BY <1>2, <1>10, <2>2 DEF Visits
    <3>2. PICK i : IsChild(v, x, i, c) /\ i <= G[x]
      BY <3>1
    <3>3. i <= H[x]
      <4>1. CASE x = d
        <5>1. i \in Nat
          BY <1>3, <3>2, <4>1 DEF IsChild
        <5> QED
          BY <1>1, <1>3, <1>4, <3>2, <4>1, <5>1
      <4>2. CASE x # d
        BY <1>4, <3>1, <3>2, <4>2
      <4> QED
        BY <4>1, <4>2
    <3> QED
      BY <1>4, <3>2, <3>3
  <2> QED
    BY <1>4, <2>1, <2>2
<1> QED
  BY <1>5, <1>8, <1>9, <1>10 DEF Visits

-----------------------------------------------------------------------------
(* The directories being walked. *)

Frames ==
  [dir : Seq(STRING), cluster : Nat, parent : Nat, slots : Seq(Nat \X Nat), at : Nat,
   names : SUBSET STRING, dots : SUBSET STRING]

DirOf(f) == [path |-> f.dir, cluster |-> f.cluster, parent |-> f.parent, slots |-> f.slots]

FrameIs(v, G, f) ==
  /\ DirOf(f) \in DOMAIN G
  /\ f.at = G[DirOf(f)] + 1
  /\ f.names = NamesMet(v, DirOf(f), G[DirOf(f)])
  /\ f.dots = f.names \cap {".", ".."}

Stacked(v, G, s) ==
  /\ s \in Seq(Frames)
  /\ \A k \in 1..Len(s) : FrameIs(v, G, s[k])
  /\ \A k, l \in 1..Len(s) : DirOf(s[k]) = DirOf(s[l]) => k = l

OnStack(s, d) == \E k \in 1..Len(s) : DirOf(s[k]) = d

\* The walk of directory d is over after n slots, and its dot entries are there.
EndsAt(v, d, n) ==
  /\ n = Len(d.slots) \/ Nth(v, d, n + 1).kind = "end"
  /\ d.path # << >> => {".", ".."} \subseteq NamesMet(v, d, n)

Closed(v, G, s) == \A d \in DOMAIN G : OnStack(s, d) \/ EndsAt(v, d, G[d])

\* A sequence with an element put before it.
LEMMA ConsIs ==
  ASSUME NEW S, NEW s \in Seq(S), NEW x \in S
  PROVE  /\ <<x>> \o s \in Seq(S) /\ Len(<<x>> \o s) = Len(s) + 1 /\ Len(s) \in Nat
         /\ (<<x>> \o s)[1] = x
         /\ \A i \in 1..Len(s) : (<<x>> \o s)[i + 1] = s[i]
         /\ <<x>> \o s # << >>
<1>1. PICK t, r, n : t = <<x>> /\ r = t \o s /\ n = Len(s)
  OBVIOUS
<1>2. t \in Seq(S) /\ Len(t) = 1 /\ t[1] = x /\ n \in Nat
  BY <1>1
<1>3. /\ r \in Seq(S) /\ Len(r) = 1 + n
      /\ \A i \in 1..(1 + n) : r[i] = IF i <= 1 THEN t[i] ELSE s[i - 1]
  <2>1. /\ t \o s \in Seq(S) /\ Len(t \o s) = Len(t) + Len(s)
        /\ \A i \in 1 .. Len(t) + Len(s) : (t \o s)[i] = IF i <= Len(t) THEN t[i] ELSE s[i - Len(t)]
    BY <1>2, ConcatProperties
  <2> QED
    BY <1>1, <1>2, <2>1
<1>4. r[1] = x
  BY <1>2, <1>3
<1>5. \A i \in 1..n : r[i + 1] = s[i]
  <2>1. SUFFICES ASSUME NEW i \in 1..n PROVE r[i + 1] = s[i]
    OBVIOUS
  <2>2. i + 1 \in 1..(1 + n) /\ ~(i + 1 <= 1) /\ (i + 1) - 1 = i
    BY <1>2
  <2> QED
    BY <1>3, <2>2
<1>6. r # << >>
  BY <1>2, <1>3
<1> QED
  BY <1>1, <1>2, <1>3, <1>4, <1>5, <1>6

\* A frame of a directory that is not on the stack can be put on it.
LEMMA PushStack ==
  ASSUME NEW v, NEW G, NEW s, Stacked(v, G, s), NEW f \in Frames, FrameIs(v, G, f), ~OnStack(s, DirOf(f))
  PROVE  /\ Stacked(v, G, <<f>> \o s) /\ <<f>> \o s # << >>
         /\ \A d : OnStack(<<f>> \o s, d) <=> d = DirOf(f) \/ OnStack(s, d)
<1>1. PICK r, n : r = <<f>> \o s /\ n = Len(s)
  OBVIOUS
<1>2. /\ r \in Seq(Frames) /\ Len(r) = n + 1 /\ n \in Nat /\ r[1] = f /\ r # << >>
      /\ \A i \in 1..n : r[i + 1] = s[i]
  BY <1>1, ConsIs DEF Stacked
<1>3. \A k \in 1..(n + 1) : k = 1 \/ (k - 1 \in 1..n /\ r[k] = s[k - 1])
  <2>1. SUFFICES ASSUME NEW k \in 1..(n + 1), k # 1 PROVE k - 1 \in 1..n /\ r[k] = s[k - 1]
    OBVIOUS
  <2>2. k - 1 \in 1..n /\ (k - 1) + 1 = k
    BY <1>2, <2>1
  <2> QED
    BY <1>2, <2>2
<1>4. \A k \in 1..(n + 1) : FrameIs(v, G, r[k])
  BY <1>1, <1>2, <1>3 DEF Stacked
<1>5. ASSUME NEW k \in 1..(n + 1), NEW l \in 1..(n + 1), DirOf(r[k]) = DirOf(r[l]) PROVE k = l
  <2>1. CASE k = 1 /\ l = 1
    BY <2>1
  <2>2. CASE k = 1 /\ l # 1
    BY <1>1, <1>2, <1>3, <1>5, <2>2 DEF OnStack
  <2>3. CASE k # 1 /\ l = 1
    BY <1>1, <1>2, <1>3, <1>5, <2>3 DEF OnStack
  <2>4. CASE k # 1 /\ l # 1
    <3>1. PICK i \in 1..n, j \in 1..n : i = k - 1 /\ j = l - 1 /\ r[k] = s[i] /\ r[l] = s[j]
      BY <1>3, <2>4
    <3>2. i = j
      BY <1>1, <1>5, <3>1 DEF Stacked
    <3> QED
      BY <1>2, <3>1, <3>2
  <2> QED
    BY <2>1, <2>2, <2>3, <2>4
<1>6. Stacked(v, G, r)
  BY <1>2, <1>4, <1>5 DEF Stacked
<1>7. ASSUME NEW d PROVE OnStack(r, d) <=> d = DirOf(f) \/ OnStack(s, d)
  <2>1. ASSUME OnStack(r, d) PROVE d = DirOf(f) \/ OnStack(s, d)
    BY <1>1, <1>2, <1>3, <2>1 DEF OnStack
  <2>2. ASSUME d = DirOf(f) PROVE OnStack(r, d)
    BY <1>2, <2>2 DEF OnStack
  <2>3. ASSUME OnStack(s, d) PROVE OnStack(r, d)
    <3>1. PICK k \in 1..n : DirOf(s[k]) = d
      BY <1>1, <2>3 DEF OnStack
    <3>2. k + 1 \in 1..(n + 1) /\ r[k + 1] = s[k]
      BY <1>2
    <3> QED
      BY <1>2, <3>1, <3>2 DEF OnStack
  <2> QED
    BY <2>1, <2>2, <2>3
<1> QED
  BY <1>1, <1>2, <1>6, <1>7

\* Taking the top frame off the stack removes its directory, and no other.
LEMMA PopStack ==
  ASSUME NEW v, NEW G, NEW s, Stacked(v, G, s), s # << >>
  PROVE  /\ Head(s) \in Frames /\ FrameIs(v, G, Head(s)) /\ OnStack(s, DirOf(Head(s)))
         /\ Stacked(v, G, Tail(s))
         /\ \A d : OnStack(Tail(s), d) <=> d # DirOf(Head(s)) /\ OnStack(s, d)
<1>1. PICK n, t, f : n = Len(s) /\ t = Tail(s) /\ f = Head(s)
  OBVIOUS
<1>2. /\ n \in Nat /\ n >= 1 /\ t \in Seq(Frames) /\ Len(t) = n - 1 /\ f = s[1] /\ f \in Frames
      /\ \A i \in 1..(n - 1) : t[i] = s[i + 1]
  <2>1. s \in Seq(Frames)
    BY DEF Stacked
  <2> QED
    BY <1>1, <2>1, HeadTailProperties
<1>3. \A k \in 1..n : k = 1 \/ (k - 1 \in 1..(n - 1) /\ s[k] = t[k - 1])
  <2>1. SUFFICES ASSUME NEW k \in 1..n, k # 1 PROVE k - 1 \in 1..(n - 1) /\ s[k] = t[k - 1]
    OBVIOUS
  <2>2. k - 1 \in 1..(n - 1) /\ (k - 1) + 1 = k
    BY <1>2, <2>1
  <2> QED
    BY <1>2, <2>2
<1>4. \A k \in 1..(n - 1) : k + 1 \in 1..n /\ k + 1 # 1 /\ t[k] = s[k + 1]
  BY <1>2
<1>5. 1 \in 1..n /\ FrameIs(v, G, f) /\ OnStack(s, DirOf(f))
  BY <1>1, <1>2 DEF Stacked, OnStack
<1>6. Stacked(v, G, t)
  <2>1. \A k \in 1..(n - 1) : FrameIs(v, G, t[k])
    BY <1>1, <1>4 DEF Stacked
  <2>2. ASSUME NEW k \in 1..(n - 1), NEW l \in 1..(n - 1), DirOf(t[k]) = DirOf(t[l]) PROVE k = l
    <3>1. k + 1 = l + 1
      BY <1>1, <1>4, <2>2 DEF Stacked
    <3> QED
      BY <1>2, <3>1
  <2> QED
    BY <1>2, <2>1, <2>2 DEF Stacked
<1>7. ASSUME NEW d PROVE OnStack(t, d) <=> d # DirOf(f) /\ OnStack(s, d)
  <2>1. ASSUME OnStack(t, d) PROVE d # DirOf(f) /\ OnStack(s, d)
    <3>1. PICK k \in 1..(n - 1) : DirOf(t[k]) = d
      BY <1>2, <2>1 DEF OnStack
    <3>2. k + 1 \in 1..n /\ k + 1 # 1 /\ DirOf(s[k + 1]) = d
      BY <1>4, <3>1
    <3>3. d # DirOf(f)
      BY <1>1, <1>2, <1>5, <3>2 DEF Stacked
    <3> QED
      BY <1>1, <3>2, <3>3 DEF OnStack
  <2>2. ASSUME d # DirOf(f), OnStack(s, d) PROVE OnStack(t, d)
    BY <1>1, <1>2, <1>3, <2>2 DEF OnStack
  <2> QED
    BY <2>1, <2>2
<1> QED
  BY <1>1, <1>2, <1>5, <1>6, <1>7

\* When one directory's count moves on, the other frames keep theirs.
LEMMA StackAdvances ==
  ASSUME NEW v, IsVolume(v), geometry_ok(v), NEW G, NEW d, NEW New, MayAdvance(v, G, d, New),
         NEW H, H = Advance(G, d, New), NEW s, Stacked(v, G, s), ~OnStack(s, d)
  PROVE  Stacked(v, H, s) /\ \A c \in New : ~OnStack(s, c)
<1>1. Advanced(v, G, d, New, H)
  BY AdvanceIs
<1>2. \A k \in 1..Len(s) : DirOf(s[k]) \in DOMAIN G /\ DirOf(s[k]) # d
  BY DEF Stacked, FrameIs, OnStack
<1>3. \A k \in 1..Len(s) : H[DirOf(s[k])] = G[DirOf(s[k])] /\ DirOf(s[k]) \in DOMAIN H
  BY <1>1, <1>2 DEF Advanced
<1>4. \A k \in 1..Len(s) : FrameIs(v, H, s[k])
  BY <1>3 DEF Stacked, FrameIs
<1>5. \A c \in New : ~OnStack(s, c)
  BY <1>1, <1>2 DEF Advanced, OnStack
<1> QED
  BY <1>4, <1>5 DEF Stacked

-----------------------------------------------------------------------------
(* What has been claimed, and the paths and files found. *)

SpanOf(v, d, i) == Range(Extent(v, Nth(v, d, i)))
PathOf(v, d, i) == Append(d.path, Nth(v, d, i).name)

Claimed(v, G, claimed) ==
  /\ \A c : c \in claimed <=> \E d, i : Found(v, G, d, i) /\ c \in SpanOf(v, d, i)
  /\ \A d, i, e, j :
       Found(v, G, d, i) /\ Found(v, G, e, j) /\ SpanOf(v, d, i) \cap SpanOf(v, e, j) # {} => d = e /\ i = j

Pathed(v, G, paths) ==
  /\ IsFiniteSet(paths) /\ Cardinality(paths) <= MAX_PATHS
  /\ \A p : p \in paths <=> \E d, i : Found(v, G, d, i) /\ p = PathOf(v, d, i)

IsFile(v, d, i) == Nth(v, d, i).attr = FILE
FileAt(v, d, i) == content(v, Nth(v, d, i).size, Extent(v, Nth(v, d, i)))

Filed(v, G, files) ==
  /\ \A p : p \in DOMAIN files <=>
              \E d, i : Found(v, G, d, i) /\ IsFile(v, d, i) /\ p = PathOf(v, d, i)
  /\ \A d, i : Found(v, G, d, i) /\ IsFile(v, d, i) => files[PathOf(v, d, i)] = FileAt(v, d, i)

\* An advance past a named entry finds that entry, and no other.
LEMMA FoundAdvances ==
  ASSUME NEW v, IsVolume(v), geometry_ok(v), NEW G, NEW d, NEW New, MayAdvance(v, G, d, New),
         NEW H, H = Advance(G, d, New)
  PROVE  \A x, i : Found(v, H, x, i) <=>
           Found(v, G, x, i) \/ (x = d /\ i = G[d] + 1 /\ i \in Named(v, d))
<1>1. \A x, i : Met(v, H, x, i) <=>
        Met(v, G, x, i) \/ (x = d /\ i = G[d] + 1 /\ i \in InUse(v, d))
  BY AdvanceIs
<1>2. Named(v, d) \subseteq InUse(v, d)
  BY VisitIs DEF MayAdvance
<1> QED
  BY <1>1, <1>2 DEF Found

\* A slot without a named entry changes nothing.
LEMMA PassesNothing ==
  ASSUME NEW v, IsVolume(v), geometry_ok(v), NEW G, NEW d, NEW New, MayAdvance(v, G, d, New),
         NEW H, H = Advance(G, d, New), G[d] + 1 \notin Named(v, d)
  PROVE  /\ \A claimed : Claimed(v, G, claimed) => Claimed(v, H, claimed)
         /\ \A paths : Pathed(v, G, paths) => Pathed(v, H, paths)
         /\ \A files : Filed(v, G, files) => Filed(v, H, files)
<1>1. \A x, i : Found(v, H, x, i) <=> Found(v, G, x, i)
  BY FoundAdvances
<1>2. \A claimed : Claimed(v, G, claimed) => Claimed(v, H, claimed)
  BY <1>1 DEF Claimed
<1>3. \A paths : Pathed(v, G, paths) => Pathed(v, H, paths)
  BY <1>1 DEF Pathed
<1>4. \A files : Filed(v, G, files) => Filed(v, H, files)
  BY <1>1 DEF Filed
<1> QED
  BY <1>2, <1>3, <1>4

\* A named entry adds its clusters, its path and, of a file, its content.
LEMMA ClaimsMore ==
  ASSUME NEW v, IsVolume(v), geometry_ok(v), NEW G, NEW d, NEW New, MayAdvance(v, G, d, New),
         NEW H, H = Advance(G, d, New), NEW k, k = G[d] + 1, k \in Named(v, d),
         NEW claimed, Claimed(v, G, claimed), SpanOf(v, d, k) \cap claimed = {}
  PROVE  Claimed(v, H, claimed \cup SpanOf(v, d, k))
<1>1. \A x, i : Found(v, H, x, i) <=> Found(v, G, x, i) \/ (x = d /\ i = k)
  BY FoundAdvances
<1>2. PICK more : more = claimed \cup SpanOf(v, d, k)
  OBVIOUS
<1>3. \A c : c \in claimed <=> \E x, i : Found(v, G, x, i) /\ c \in SpanOf(v, x, i)
  BY DEF Claimed
<1>4. \A c : c \in more <=> \E x, i : Found(v, H, x, i) /\ c \in SpanOf(v, x, i)
  BY <1>1, <1>2, <1>3
<1>5. \A x, i : Found(v, G, x, i) => SpanOf(v, x, i) \cap SpanOf(v, d, k) = {}
  BY <1>3
<1>6. ASSUME NEW x, NEW i, NEW e, NEW j, Found(v, H, x, i), Found(v, H, e, j),
             SpanOf(v, x, i) \cap SpanOf(v, e, j) # {}
      PROVE  x = e /\ i = j
  <2>1. CASE Found(v, G, x, i) /\ Found(v, G, e, j)
    BY <1>6, <2>1 DEF Claimed
  <2>2. CASE Found(v, G, x, i) /\ e = d /\ j = k
    BY <1>5, <1>6, <2>2
  <2>3. CASE Found(v, G, e, j) /\ x = d /\ i = k
    BY <1>5, <1>6, <2>3
  <2>4. CASE x = d /\ i = k /\ e = d /\ j = k
    BY <2>4
  <2> QED
    BY <1>1, <1>6, <2>1, <2>2, <2>3, <2>4
<1>7. Claimed(v, H, more)
  BY <1>4, <1>6 DEF Claimed
<1> QED
  BY <1>2, <1>7

\* The paths of the walk after a named entry whose path is new.
LEMMA PathsMore ==
  ASSUME NEW v, IsVolume(v), geometry_ok(v), NEW G, NEW d, NEW New, MayAdvance(v, G, d, New),
         NEW H, H = Advance(G, d, New), NEW k, k = G[d] + 1, k \in Named(v, d),
         NEW paths, Pathed(v, G, paths), PathOf(v, d, k) \notin paths, Cardinality(paths) < MAX_PATHS
  PROVE  Pathed(v, H, paths \cup {PathOf(v, d, k)})
<1>1. \A x, i : Found(v, H, x, i) <=> Found(v, G, x, i) \/ (x = d /\ i = k)
  BY FoundAdvances
<1>2. PICK p, more : p = PathOf(v, d, k) /\ more = paths \cup {p}
  OBVIOUS
<1>3. IsFiniteSet(paths) /\ Cardinality(paths) \in Nat
  BY FS_CardinalityType DEF Pathed
<1>4. IsFiniteSet(more) /\ Cardinality(more) = Cardinality(paths) + 1
  BY <1>2, <1>3, FS_AddElement
<1>5. Cardinality(more) <= MAX_PATHS
  BY <1>3, <1>4, Fat16Assumption
<1>6. \A q : q \in more <=> \E x, i : Found(v, H, x, i) /\ q = PathOf(v, x, i)
  <2>1. \A q : q \in paths <=> \E x, i : Found(v, G, x, i) /\ q = PathOf(v, x, i)
    BY DEF Pathed
  <2> QED
    BY <1>1, <1>2, <2>1
<1>7. Pathed(v, H, more)
  BY <1>4, <1>5, <1>6 DEF Pathed
<1> QED
  BY <1>2, <1>7

\* The files of the walk after a file whose path is new.
LEMMA FilesMore ==
  ASSUME NEW v, IsVolume(v), geometry_ok(v), NEW G, NEW d, NEW New, MayAdvance(v, G, d, New),
         NEW H, H = Advance(G, d, New), NEW k, k = G[d] + 1, k \in Named(v, d), IsFile(v, d, k),
         NEW paths, Pathed(v, G, paths), PathOf(v, d, k) \notin paths,
         NEW files, Filed(v, G, files), NEW more,
         more = [p \in DOMAIN files \cup {PathOf(v, d, k)} |->
                   IF p = PathOf(v, d, k) THEN FileAt(v, d, k) ELSE files[p]]
  PROVE  Filed(v, H, more)
<1>1. \A x, i : Found(v, H, x, i) <=> Found(v, G, x, i) \/ (x = d /\ i = k)
  BY FoundAdvances
<1>2. PICK q : q = PathOf(v, d, k)
  OBVIOUS
<1>3. /\ DOMAIN more = DOMAIN files \cup {q} /\ more[q] = FileAt(v, d, k)
      /\ \A p \in DOMAIN files : p # q => more[p] = files[p]
  BY <1>2
<1>4. /\ \A p : p \in DOMAIN files <=>
             \E x, i : Found(v, G, x, i) /\ IsFile(v, x, i) /\ p = PathOf(v, x, i)
      /\ \A x, i : Found(v, G, x, i) /\ IsFile(v, x, i) => files[PathOf(v, x, i)] = FileAt(v, x, i)
  BY DEF Filed
<1>5. \A p : p \in DOMAIN more <=>
             \E x, i : Found(v, H, x, i) /\ IsFile(v, x, i) /\ p = PathOf(v, x, i)
  BY <1>1, <1>2, <1>3, <1>4
<1>6. ASSUME NEW x, NEW i, Found(v, H, x, i), IsFile(v, x, i)
      PROVE  more[PathOf(v, x, i)] = FileAt(v, x, i)
  <2>1. CASE Found(v, G, x, i)
    <3>1. PathOf(v, x, i) \in paths /\ PathOf(v, x, i) \in DOMAIN files
      BY <1>4, <1>6, <2>1 DEF Pathed
    <3>2. PathOf(v, x, i) # q
      BY <1>2, <3>1
    <3> QED
      BY <1>3, <1>4, <1>6, <2>1, <3>1, <3>2
  <2>2. CASE x = d /\ i = k
    BY <1>2, <1>3, <2>2
  <2> QED
    BY <1>1, <1>6, <2>1, <2>2
<1> QED
  BY <1>5, <1>6 DEF Filed

\* An advance past anything but a file leaves the files as they are.
LEMMA DirsFileNothing ==
  ASSUME NEW v, IsVolume(v), geometry_ok(v), NEW G, NEW d, NEW New, MayAdvance(v, G, d, New),
         NEW H, H = Advance(G, d, New), ~IsFile(v, d, G[d] + 1), NEW files, Filed(v, G, files)
  PROVE  Filed(v, H, files)
<1>1. \A x, i : Found(v, H, x, i) /\ IsFile(v, x, i) <=> Found(v, G, x, i) /\ IsFile(v, x, i)
  BY FoundAdvances
<1> QED
  BY <1>1 DEF Filed

-----------------------------------------------------------------------------
(* The clusters of an entry. *)

GotOf(v, claimed, e) ==
  IF e.attr = FILE /\ e.size = 0 THEN [ok |-> e.first = 0, clusters |-> << >>]
  ELSE chain(v, claimed, e.first)

\* What an accepted entry occupies is its extent, and nobody has claimed it.
LEMMA GotIs ==
  ASSUME NEW v, IsVolume(v), geometry_ok(v), NEW claimed, NEW e, UsedIs(e), GotOf(v, claimed, e).ok
  PROVE  /\ GotOf(v, claimed, e).clusters = Extent(v, e)
         /\ Range(Extent(v, e)) \cap claimed = {}
         /\ IF e.attr = FILE /\ e.size = 0 THEN e.first = 0 ELSE Extent(v, e) # << >>
<1>1. CASE e.attr = FILE /\ e.size = 0
  <2>1. PICK g : g = GotOf(v, claimed, e) /\ g = [ok |-> e.first = 0, clusters |-> << >>]
    BY <1>1 DEF GotOf
  <2>2. g.ok => e.first = 0
    <3>1. PICK b \in BOOLEAN : b <=> e.first = 0
      OBVIOUS
    <3>2. g = [ok |-> b, clusters |-> << >>]
      BY <2>1, <3>1
    <3> QED
      BY <3>1, <3>2
  <2>3. g.clusters = << >> /\ Extent(v, e) = << >> /\ Range(<< >>) = {}
    BY <1>1, <2>1 DEF Extent, Range
  <2> QED
    BY <1>1, <2>1, <2>2, <2>3
<1>2. CASE ~(e.attr = FILE /\ e.size = 0)
  <2>1. GotOf(v, claimed, e) = chain(v, claimed, e.first) /\ Extent(v, e) = ChainFrom(v, e.first)
        /\ e.first \in Nat
    BY <1>2 DEF GotOf, Extent, UsedIs
  <2>2. chain(v, claimed, e.first).ok
    BY <2>1
  <2>3. PICK t : t = chain(v, claimed, e.first).clusters
    OBVIOUS
  <2>4. (\E m : Chains(v, e.first, t, m)) /\ Range(t) \cap claimed = {} /\ t # << >>
    BY <2>1, <2>2, <2>3, ChainAccepts
  <2>5. t = ChainFrom(v, e.first)
    BY <2>4, ChainFromIs
  <2> QED
    BY <1>2, <2>1, <2>3, <2>4, <2>5
<1> QED
  BY <1>1, <1>2

\* A file that is not empty needs a block.
LEMMA BlocksPositive ==
  ASSUME NEW a \in Nat, a # 0, NEW b \in Nat \ {0}
  PROVE  (a + b - 1) \div b # 0
<1>1. PICK n, q : n = a + b - 1 /\ q = n \div b
  OBVIOUS
<1>2. n \in Nat /\ n >= b
  BY <1>1
<1>3. q = 0 => n < b
  BY <1>1, <1>2
<1> QED
  BY <1>1, <1>2, <1>3

\* A fit extent that nobody has claimed is accepted.
LEMMA GotAccepts ==
  ASSUME NEW v, IsVolume(v), geometry_ok(v), NEW claimed, NEW e, UsedIs(e),
         e.attr \in {DIR, FILE}, ExtentFits(v, e), Range(Extent(v, e)) \cap claimed = {}
  PROVE  GotOf(v, claimed, e).ok
<1>1. CASE e.attr = FILE /\ e.size = 0
  <2>1. e.first = 0
    BY <1>1 DEF ExtentFits
  <2> QED
    BY <1>1, <2>1 DEF GotOf
<1>2. CASE ~(e.attr = FILE /\ e.size = 0)
  <2>1. GotOf(v, claimed, e) = chain(v, claimed, e.first) /\ Extent(v, e) = ChainFrom(v, e.first)
    BY <1>2 DEF GotOf, Extent
  <2>2. Extent(v, e) # << >>
    <3>1. CASE e.attr = FILE
      <4>1. Len(Extent(v, e)) = blocksFor(v, e.size)
        BY <3>1 DEF ExtentFits
      <4>2. PICK a, b : a = e.size /\ b = cluster_bytes(v) /\ a \in Nat /\ a # 0 /\ b \in Nat \ {0}
        BY <1>2, <3>1, GeometryIs DEF UsedIs
      <4>3. (a + b - 1) \div b # 0
        BY <4>2, BlocksPositive
      <4>4. blocksFor(v, e.size) # 0
        BY <4>2, <4>3 DEF blocksFor
      <4> QED
        BY <4>1, <4>4
    <3>2. CASE e.attr # FILE
      BY <3>2 DEF ExtentFits
    <3> QED
      BY <3>1, <3>2
  <2>3. PICK t, m : t = Extent(v, e) /\ Chains(v, e.first, t, m)
    BY <2>1, <2>2, ChainFromIs
  <2>4. \A i \in 1..m : t[i] \notin claimed
    BY <2>3 DEF Chains, Range
  <2> QED
    BY <2>1, <2>3, <2>4, ChainIsAccepted
<1> QED
  BY <1>1, <1>2

-----------------------------------------------------------------------------
(* Sound directories, entry by entry. *)

\* A sound volume, but for allocated clusters nobody owns.
Orderly(v) ==
  LET span(x) == Range(Extent(v, x[2])) IN
  /\ DirsAt(v)[MAX_DEPTH + 1] = {}
  /\ \A d \in Dirs(v) : DirSound(v, d)
  /\ Cardinality(Items(v)) <= MAX_PATHS
  /\ \A x, y \in Items(v) : x # y => span(x) \cap span(y) = {}

\* The dot entries of directory d.
DotsOf(v, d) == {<<Nth(v, d, i).name, Nth(v, d, i).first>> : i \in InUse(v, d) \ Named(v, d)}
DotsDue(d) == IF d.path = << >> THEN {} ELSE {<<".", d.cluster>>, <<"..", d.parent>>}

EntrySound(v, d, i) ==
  LET e == Nth(v, d, i) IN
  /\ e.attr \in {DIR, FILE} /\ ~e.extended /\ e.valid_name
  /\ \A j \in InUse(v, d) \ {i} : e.name # Nth(v, d, j).name
  /\ i \notin Named(v, d) => e.attr = DIR /\ e.size = 0
  /\ i \in Named(v, d) => ExtentFits(v, e)

\* A directory is sound when its entries are and its dots are those it owes.
LEMMA DirSoundIs ==
  ASSUME NEW v, NEW d
  PROVE  DirSound(v, d) <=> (\A i \in InUse(v, d) : EntrySound(v, d, i)) /\ DotsOf(v, d) = DotsDue(d)
BY DEF DirSound, EntrySound, DotsOf, DotsDue

\* The entries of a sound directory are fit, named once, and hold the dots it owes.
LEMMA SoundFits ==
  ASSUME NEW v, NEW d, DirSound(v, d)
  PROVE  /\ \A i \in InUse(v, d) : EntryFits(v, d, i)
         /\ OneName(v, d)
         /\ d.path # << >> => {".", ".."} \subseteq {Nth(v, d, i).name : i \in InUse(v, d)}
<1>1. (\A i \in InUse(v, d) : EntrySound(v, d, i)) /\ DotsOf(v, d) = DotsDue(d)
  BY DirSoundIs
<1>2. ASSUME NEW i \in InUse(v, d) PROVE EntryFits(v, d, i)
  <2>1. PICK e : e = Nth(v, d, i)
    OBVIOUS
  <2>2. /\ e.attr \in {DIR, FILE} /\ ~e.extended /\ e.valid_name
        /\ i \notin Named(v, d) => e.attr = DIR /\ e.size = 0
        /\ i \in Named(v, d) => ExtentFits(v, e)
    BY <1>1, <2>1 DEF EntrySound
  <2>3. CASE i \in Named(v, d)
    BY <2>1, <2>2, <2>3 DEF EntryFits
  <2>4. CASE i \notin Named(v, d)
    <3>1. <<e.name, e.first>> \in DotsDue(d)
      BY <1>1, <2>1, <2>4 DEF DotsOf
    <3>2. d.path # << >> /\ e.first = IF e.name = "." THEN d.cluster ELSE d.parent
      BY <3>1 DEF DotsDue
    <3> QED
      BY <2>1, <2>2, <2>4, <3>2 DEF EntryFits
  <2> QED
    BY <2>3, <2>4
<1>3. OneName(v, d)
  BY <1>1 DEF EntrySound, OneName
<1>4. ASSUME d.path # << >> PROVE {".", ".."} \subseteq {Nth(v, d, i).name : i \in InUse(v, d)}
  <2>1. <<".", d.cluster>> \in DotsOf(v, d) /\ <<"..", d.parent>> \in DotsOf(v, d)
    BY <1>1, <1>4 DEF DotsDue
  <2>2. PICK i \in InUse(v, d) : <<".", d.cluster>> = <<Nth(v, d, i).name, Nth(v, d, i).first>>
    BY <2>1 DEF DotsOf
  <2>3. PICK j \in InUse(v, d) : <<"..", d.parent>> = <<Nth(v, d, j).name, Nth(v, d, j).first>>
    BY <2>1 DEF DotsOf
  <2>4. Nth(v, d, i).name = "." /\ Nth(v, d, j).name = ".."
    BY <2>2, <2>3
  <2> QED
    BY <2>4
<1> QED
  BY <1>2, <1>3, <1>4

\* Once the walk of a directory is over, all its entries in use have been passed.
LEMMA AllPassed ==
  ASSUME NEW v, IsVolume(v), NEW d, DirIs(v, d), NEW n \in Nat,
         n = Len(d.slots) \/ (n + 1 <= Len(d.slots) /\ Nth(v, d, n + 1).kind = "end")
  PROVE  \A i \in InUse(v, d) : i <= n
<1>1. InUse(v, d) \subseteq 1..Len(d.slots) /\ Len(d.slots) \in Nat
  BY NthIs
<1>2. SUFFICES ASSUME NEW i \in InUse(v, d), ~(i <= n) PROVE FALSE
  OBVIOUS
<1>3. n + 1 \in 1..i /\ n # Len(d.slots)
  BY <1>1, <1>2
<1>4. Nth(v, d, n + 1).kind # "end"
  BY <1>3 DEF InUse
<1> QED
  BY <1>3, <1>4

\* A directory read to its end without a fault is sound.
LEMMA EndedSound ==
  ASSUME NEW v, IsVolume(v), NEW d, DirIs(v, d), NEW n, ReadTo(v, d, n), EndsAt(v, d, n)
  PROVE  DirSound(v, d) /\ \A i \in InUse(v, d) : i <= n
<1>1. n \in Nat /\ n <= Len(d.slots) /\ Len(d.slots) \in Nat
  BY NthIs DEF ReadTo
<1>2. \A i \in InUse(v, d) : i <= n
  <2>1. CASE n = Len(d.slots)
    BY <1>1, <2>1, AllPassed
  <2>2. CASE n # Len(d.slots)
    <3>1. n + 1 <= Len(d.slots) /\ Nth(v, d, n + 1).kind = "end"
      BY <1>1, <2>2 DEF EndsAt
    <3> QED
      BY <1>1, <3>1, AllPassed
  <2> QED
    BY <2>1, <2>2
<1>3. \A i \in InUse(v, d) : EntryFits(v, d, i)
  BY <1>2 DEF ReadTo
<1>4. OneName(v, d)
  BY <1>2 DEF ReadTo, OneName
<1>5. \A i \in InUse(v, d) : EntrySound(v, d, i)
  BY <1>3, <1>4 DEF EntryFits, OneName, EntrySound
<1>6. \A i \in InUse(v, d) \ Named(v, d) :
        /\ d.path # << >>
        /\ \/ Nth(v, d, i).name = "." /\ Nth(v, d, i).first = d.cluster
           \/ Nth(v, d, i).name = ".." /\ Nth(v, d, i).first = d.parent
  BY <1>3 DEF EntryFits, Named
<1>7. DotsOf(v, d) \subseteq DotsDue(d)
  BY <1>6 DEF DotsOf, DotsDue
<1>8. ASSUME d.path # << >> PROVE DotsDue(d) \subseteq DotsOf(v, d)
  <2>1. {".", ".."} \subseteq NamesMet(v, d, n)
    BY <1>8 DEF EndsAt
  <2>2. PICK i \in InUse(v, d), j \in InUse(v, d) : Nth(v, d, i).name = "." /\ Nth(v, d, j).name = ".."
    BY <2>1 DEF NamesMet
  <2>3. i \notin Named(v, d) /\ j \notin Named(v, d)
    BY <2>2 DEF Named
  <2>4. Nth(v, d, i).first = d.cluster /\ Nth(v, d, j).first = d.parent
    BY <1>6, <2>2, <2>3
  <2>5. <<".", d.cluster>> \in DotsOf(v, d) /\ <<"..", d.parent>> \in DotsOf(v, d)
    BY <2>2, <2>3, <2>4 DEF DotsOf
  <2> QED
    BY <1>8, <2>5 DEF DotsDue
<1>9. DotsOf(v, d) = DotsDue(d)
  BY <1>7, <1>8 DEF DotsDue
<1> QED
  BY <1>2, <1>5, <1>9, DirSoundIs

-----------------------------------------------------------------------------
(* On an orderly volume no check fails. *)

\* The directories of an orderly volume are sound, and each has a path of its own.
LEMMA OrderlyIs ==
  ASSUME NEW v, IsVolume(v), geometry_ok(v), Orderly(v)
  PROVE  /\ \A d \in Dirs(v) : DirSound(v, d) /\ OneName(v, d)
         /\ \A c, d \in Dirs(v) : c.path = d.path => c = d
<1>1. \A d \in Dirs(v) : DirSound(v, d)
  BY DEF Orderly
<1>2. \A d \in Dirs(v) : OneName(v, d)
  BY <1>1, SoundFits
<1> QED
  BY <1>1, <1>2, OneDir

\* On an orderly volume the next entry is fit and its name is new.
LEMMA OrderlyEntry ==
  ASSUME NEW v, IsVolume(v), geometry_ok(v), Orderly(v), NEW G, Visits(v, G), NEW d \in DOMAIN G,
         G[d] + 1 \in InUse(v, d)
  PROVE  EntryFits(v, d, G[d] + 1) /\ Nth(v, d, G[d] + 1).name \notin NamesMet(v, d, G[d])
<1>1. PICK n, k : n = G[d] /\ k = n + 1 /\ n \in Nat /\ d \in Dirs(v)
  BY VisitIs
<1>2. DirSound(v, d) /\ OneName(v, d)
  BY <1>1, OrderlyIs
<1>3. EntryFits(v, d, k)
  BY <1>1, <1>2, SoundFits
<1>4. \A i \in InUse(v, d) : i <= n => i # k
  BY <1>1
<1>5. Nth(v, d, k).name \notin NamesMet(v, d, n)
  BY <1>1, <1>2, <1>4 DEF OneName, NamesMet
<1> QED
  BY <1>1, <1>3, <1>5

\* On an orderly volume a directory that is over has been read to its end.
LEMMA OrderlyEnd ==
  ASSUME NEW v, IsVolume(v), geometry_ok(v), Orderly(v), NEW G, Visits(v, G), NEW d \in DOMAIN G,
         G[d] + 1 > Len(d.slots) \/ Nth(v, d, G[d] + 1).kind = "end"
  PROVE  EndsAt(v, d, G[d])
<1>1. PICK n : n = G[d] /\ n \in Nat /\ n <= Len(d.slots) /\ Len(d.slots) \in Nat /\ d \in Dirs(v)
               /\ DirIs(v, d)
  BY VisitIs
<1>2. n = Len(d.slots) \/ (n + 1 <= Len(d.slots) /\ Nth(v, d, n + 1).kind = "end")
  BY <1>1
<1>3. \A i \in InUse(v, d) : i <= n
  BY <1>1, <1>2, AllPassed
<1>4. d.path # << >> => {".", ".."} \subseteq {Nth(v, d, i).name : i \in InUse(v, d)}
  BY <1>1, OrderlyIs, SoundFits
<1>5. {Nth(v, d, i).name : i \in InUse(v, d)} \subseteq NamesMet(v, d, n)
  BY <1>3 DEF NamesMet
<1> QED
  BY <1>1, <1>2, <1>4, <1>5 DEF EndsAt

Item(v, d, i) == <<d.path, Nth(v, d, i)>>

\* The items of a volume are the named entries of its directories.
LEMMA ItemsAre ==
  ASSUME NEW v
  PROVE  \A x : x \in Items(v) <=> \E d \in Dirs(v) : \E i \in Named(v, d) : x = Item(v, d, i)
BY DEF Items, Item

\* On an orderly volume two named entries share neither path nor cluster.
LEMMA OrderlyApart ==
  ASSUME NEW v, IsVolume(v), geometry_ok(v), Orderly(v),
         NEW c \in Dirs(v), NEW d \in Dirs(v), NEW i \in Named(v, c), NEW j \in Named(v, d),
         c # d \/ i # j
  PROVE  PathOf(v, c, i) # PathOf(v, d, j) /\ SpanOf(v, c, i) \cap SpanOf(v, d, j) = {}
<1>1. DirIs(v, c) /\ DirIs(v, d)
  BY DirsAre
<1>2. c.path # d.path \/ Nth(v, c, i).name # Nth(v, d, j).name
  <2>1. CASE c # d
    BY <2>1, OrderlyIs
  <2>2. CASE c = d
    <3>1. i \in InUse(v, c) /\ j \in InUse(v, c) /\ i # j
      BY <2>2 DEF Named
    <3> QED
      BY <2>2, <3>1, OrderlyIs DEF OneName
  <2> QED
    BY <2>1, <2>2
<1>3. PathOf(v, c, i) # PathOf(v, d, j)
  <2>1. PICK s, t, x, y : s = c.path /\ t = d.path /\ x = Nth(v, c, i).name /\ y = Nth(v, d, j).name
    OBVIOUS
  <2>2. s \in Seq(STRING) /\ t \in Seq(STRING)
    BY <1>1, <2>1 DEF DirIs
  <2>3. Append(s, x) # Append(t, y)
    BY <1>2, <2>1, <2>2, AppendIs
  <2> QED
    BY <2>1, <2>3 DEF PathOf
<1>4. Item(v, c, i) # Item(v, d, j)
  <2>1. PICK s, t, x, y : s = c.path /\ t = d.path /\ x = Nth(v, c, i) /\ y = Nth(v, d, j)
    OBVIOUS
  <2>2. <<s, x>> # <<t, y>>
    BY <1>2, <2>1
  <2> QED
    BY <2>1, <2>2 DEF Item
<1>5. PICK x, y : x = Item(v, c, i) /\ y = Item(v, d, j)
  OBVIOUS
<1>6. x \in Items(v) /\ y \in Items(v) /\ x # y
  BY <1>4, <1>5, ItemsAre
<1>7. Range(Extent(v, x[2])) \cap Range(Extent(v, y[2])) = {}
  BY <1>6 DEF Orderly
<1>8. x[2] = Nth(v, c, i) /\ y[2] = Nth(v, d, j)
  BY <1>5 DEF Item
<1> QED
  BY <1>3, <1>7, <1>8 DEF SpanOf

\* On an orderly volume the next path is new and its clusters unclaimed.
LEMMA OrderlyFree ==
  ASSUME NEW v, IsVolume(v), geometry_ok(v), Orderly(v), NEW G, Visits(v, G), NEW d \in DOMAIN G,
         NEW k, k = G[d] + 1, k \in Named(v, d)
  PROVE  /\ \A paths : Pathed(v, G, paths) => PathOf(v, d, k) \notin paths
         /\ \A claimed : Claimed(v, G, claimed) => SpanOf(v, d, k) \cap claimed = {}
<1>1. d \in Dirs(v) /\ G[d] \in Nat
  BY VisitIs
<1>2. ASSUME NEW x, NEW i, Found(v, G, x, i)
      PROVE  PathOf(v, x, i) # PathOf(v, d, k) /\ SpanOf(v, x, i) \cap SpanOf(v, d, k) = {}
  <2>1. x \in Dirs(v) /\ i \in Named(v, x) /\ (x # d \/ i # k)
    <3>1. x \in DOMAIN G /\ i <= G[x] /\ i \in Named(v, x)
      BY <1>2 DEF Found, Met
    <3>2. x = d => i # k
      BY <1>1, <3>1
    <3> QED
      BY <3>1, <3>2, VisitIs
  <2> QED
    BY <1>1, <2>1, OrderlyApart
<1>3. \A paths : Pathed(v, G, paths) => PathOf(v, d, k) \notin paths
  BY <1>2 DEF Pathed
<1>4. \A claimed : Claimed(v, G, claimed) => SpanOf(v, d, k) \cap claimed = {}
  BY <1>2 DEF Claimed
<1> QED
  BY <1>3, <1>4

\* On an orderly volume no directory is too deep.
LEMMA OrderlyShallow ==
  ASSUME NEW v, IsVolume(v), geometry_ok(v), Orderly(v), NEW d \in Dirs(v), NEW i, NEW c, IsChild(v, d, i, c)
  PROVE  Len(c.path) <= MAX_DEPTH /\ c \in Dirs(v)
<1>1. Len(d.path) < MAX_DEPTH /\ c \in Dirs(v)
  <2>1. DirsAt(v)[MAX_DEPTH + 1] = {}
    BY DEF Orderly
  <2> QED
    BY <2>1, ChildOfDir
<1> QED
  BY <1>1, DirsAre

-----------------------------------------------------------------------------
(* The tree is finite. *)

\* The image of a finite set is finite.
LEMMA ImageFinite ==
  ASSUME NEW S, IsFiniteSet(S), NEW T, NEW f, \A y \in T : \E x \in S : y = f[x]
  PROVE  IsFiniteSet(T)
<1>1. PICK U : U = {x \in S : f[x] \in T}
  OBVIOUS
<1>2. IsFiniteSet(U)
  <2>1. U \in SUBSET S
    BY <1>1
  <2> QED
    BY <2>1, FS_Subset
<1>3. PICK g : g = [x \in U |-> f[x]]
  OBVIOUS
<1>4. g \in Surjection(U, T)
  BY <1>1, <1>3 DEF Surjection
<1> QED
  BY <1>2, <1>4, FS_Surjection

\* A directory names finitely many entries.
LEMMA NamedFinite ==
  ASSUME NEW v, IsVolume(v), NEW d, DirIs(v, d)
  PROVE  IsFiniteSet(Named(v, d))
<1>1. PICK n : n = Len(d.slots) /\ n \in Int /\ 1 \in Int /\ Named(v, d) \subseteq 1..n
  BY NthIs
<1>2. IsFiniteSet(1..n)
  BY <1>1, FS_Interval
<1>3. Named(v, d) \in SUBSET (1..n)
  BY <1>1
<1> QED
  BY <1>2, <1>3, FS_Subset

\* A directory has finitely many subdirectories.
LEMMA BelowFinite ==
  ASSUME NEW v, IsVolume(v), NEW d, DirIs(v, d)
  PROVE  IsFiniteSet(Below(v, d))
<1>1. PICK f : f = [i \in Named(v, d) |-> Child(v, d, Nth(v, d, i))]
  OBVIOUS
<1>2. \A c \in Below(v, d) : \E i \in Named(v, d) : c = f[i]
  BY <1>1 DEF Below
<1> QED
  BY <1>2, NamedFinite, ImageFinite

\* A finite union of finite sets is finite.
LEMMA UnionFinite ==
  ASSUME NEW S, IsFiniteSet(S), NEW f, \A x \in S : IsFiniteSet(f[x])
  PROVE  IsFiniteSet(UNION {f[x] : x \in S})
<1>1. PICK T : T = {f[x] : x \in S}
  OBVIOUS
<1>2. IsFiniteSet(T)
  BY <1>1, ImageFinite
<1>3. \A X \in T : IsFiniteSet(X)
  BY <1>1
<1> QED
  BY <1>1, <1>2, <1>3, FS_UNION

\* A volume has finitely many directories, down to the depth limit.
LEMMA DirsFinite ==
  ASSUME NEW v, IsVolume(v), geometry_ok(v)
  PROVE  IsFiniteSet(Dirs(v))
<1>1. MAX_DEPTH \in Nat
  BY Fat16Assumption
<1> DEFINE S == {k \in 0..MAX_DEPTH : IsFiniteSet(DirsAt(v)[k])}
<1>2. 0 \in S
  <2>1. DirsAt(v)[0] = {Root(v)}
    BY LevelsAre
  <2>2. IsFiniteSet({Root(v)})
    BY FS_Singleton
  <2>3. IsFiniteSet(DirsAt(v)[0])
    BY <2>1, <2>2
  <2> QED
    BY <1>1, <2>3
<1>3. ASSUME NEW k \in 1..MAX_DEPTH, k - 1 \in S PROVE k \in S
  <2>1. k \in 1..(MAX_DEPTH + 1) /\ k \in 0..MAX_DEPTH /\ k - 1 \in 0..(MAX_DEPTH + 1)
    BY <1>1
  <2>2. PICK D : D = DirsAt(v)[k - 1]
    OBVIOUS
  <2>3. DirsAt(v)[k] = UNION {Below(v, d) : d \in D}
    BY <2>1, <2>2, LevelsAre
  <2>4. IsFiniteSet(D) /\ \A d \in D : IsFiniteSet(Below(v, d))
    BY <1>3, <2>1, <2>2, DirsAre, BelowFinite
  <2>5. PICK f : f = [d \in D |-> Below(v, d)]
    OBVIOUS
  <2>6. IsFiniteSet(UNION {f[d] : d \in D})
    BY <2>4, <2>5, UnionFinite
  <2>7. {f[d] : d \in D} = {Below(v, d) : d \in D}
    BY <2>5
  <2> QED
    BY <2>1, <2>3, <2>6, <2>7
<1>4. \A k \in 0..MAX_DEPTH : k \in S
  <2> HIDE DEF S
  <2> QED
    BY <1>1, <1>2, <1>3, UpTo
<1>5. \A k \in 0..MAX_DEPTH : IsFiniteSet(DirsAt(v)[k])
  BY <1>4
<1>6. IsFiniteSet(0..MAX_DEPTH)
  <2>1. 0 \in Int /\ MAX_DEPTH \in Int
    BY <1>1
  <2> QED
    BY <2>1, FS_Interval
<1> QED
  BY <1>5, <1>6, UnionFinite DEF Dirs

\* A volume has finitely many named entries.
LEMMA ItemsFinite ==
  ASSUME NEW v, IsVolume(v), geometry_ok(v)
  PROVE  IsFiniteSet(Items(v))
<1>1. PICK f : f = [d \in Dirs(v) |-> {<<d.path, Nth(v, d, i)>> : i \in Named(v, d)}]
  OBVIOUS
<1>2. ASSUME NEW d \in Dirs(v) PROVE IsFiniteSet(f[d])
  <2>1. PICK h : h = [i \in Named(v, d) |-> <<d.path, Nth(v, d, i)>>]
    OBVIOUS
  <2>2. \A x \in f[d] : \E i \in Named(v, d) : x = h[i]
    BY <1>1, <2>1
  <2>3. IsFiniteSet(Named(v, d))
    BY DirsAre, NamedFinite
  <2> QED
    BY <2>2, <2>3, ImageFinite
<1>3. IsFiniteSet(UNION {f[d] : d \in Dirs(v)})
  BY <1>2, DirsFinite, UnionFinite
<1>4. {f[d] : d \in Dirs(v)} = {{<<d.path, Nth(v, d, i)>> : i \in Named(v, d)} : d \in Dirs(v)}
  BY <1>1
<1> QED
  BY <1>3, <1>4 DEF Items

\* There is room for one more path.
LEMMA OrderlyRoom ==
  ASSUME NEW v, IsVolume(v), geometry_ok(v), Orderly(v), NEW G, Visits(v, G), NEW d \in DOMAIN G,
         NEW k, k = G[d] + 1, k \in Named(v, d), NEW paths, Pathed(v, G, paths)
  PROVE  Cardinality(paths) < MAX_PATHS
<1>1. PICK p, more : p = PathOf(v, d, k) /\ more = paths \cup {p}
  OBVIOUS
<1>2. p \notin paths /\ IsFiniteSet(paths) /\ Cardinality(paths) \in Nat
  BY <1>1, OrderlyFree, FS_CardinalityType DEF Pathed
<1>3. Cardinality(more) = Cardinality(paths) + 1
  BY <1>1, <1>2, FS_AddElement
<1> DEFINE from(q, x) == q = Append(x[1], x[2].name)
<1>4. ASSUME NEW q \in more PROVE \E x \in Items(v) : from(q, x)
  <2>1. PICK c, i : c \in DOMAIN G /\ i \in Named(v, c) /\ q = PathOf(v, c, i)
    BY <1>1, <1>4 DEF Pathed, Found, Met
  <2>2. PICK x : x = Item(v, c, i)
    OBVIOUS
  <2>3. x \in Items(v)
    BY <2>1, <2>2, VisitIs, ItemsAre
  <2>4. x[1] = c.path /\ x[2] = Nth(v, c, i)
    BY <2>2 DEF Item
  <2>5. from(q, x)
    BY <2>1, <2>4 DEF PathOf
  <2> QED
    BY <2>3, <2>5
<1>5. PICK f : f = [q \in more |-> CHOOSE x \in Items(v) : from(q, x)]
  OBVIOUS
<1>6. \A q \in more : f[q] \in Items(v) /\ from(q, f[q])
  <2> HIDE DEF from
  <2> QED
    BY <1>4, <1>5
<1>7. f \in [more -> Items(v)]
  <2> HIDE DEF from
  <2> QED
    BY <1>5, <1>6
<1>8. \A q, r \in more : f[q] = f[r] => q = r
  BY <1>6
<1>9. f \in Injection(more, Items(v))
  BY <1>7, <1>8 DEF Injection, IsInjective
<1>10. Cardinality(more) <= Cardinality(Items(v)) /\ Cardinality(Items(v)) \in Nat
  BY <1>9, ItemsFinite, FS_Injection, FS_CardinalityType
<1>11. Cardinality(Items(v)) <= MAX_PATHS
  BY DEF Orderly
<1> QED
  BY <1>2, <1>3, <1>10, <1>11, Fat16Assumption

-----------------------------------------------------------------------------
(* A turn of walk. *)

\* All that holds between turns.
Good(v, a, G) ==
  /\ a = [ok |-> a.ok, claimed |-> a.claimed, paths |-> a.paths, files |-> a.files, stack |-> a.stack]
  /\ Visits(v, G) /\ Stacked(v, G, a.stack) /\ Closed(v, G, a.stack)
  /\ Claimed(v, G, a.claimed) /\ Pathed(v, G, a.paths) /\ Filed(v, G, a.files)

\* The walk starts with the root entered and nothing read.
LEMMA OpenedGood ==
  ASSUME NEW v, IsVolume(v), geometry_ok(v), NEW G, G = [d \in {Root(v)} |-> 0]
  PROVE  Good(v, Opened(v), G)
<1>1. PICK r : r = Root(v)
  OBVIOUS
<1>2. /\ DirIs(v, r) /\ r.path = << >> /\ r.cluster = 0 /\ r.parent = 0 /\ r.slots = payload(v, <<0>>)
      /\ r \in Dirs(v) /\ r = [path |-> r.path, cluster |-> r.cluster, parent |-> r.parent, slots |-> r.slots]
  BY <1>1, RootIs, DirsAre DEF DirIs
<1>3. DOMAIN G = {r} /\ G[r] = 0
  BY <1>1
<1>4. \A i \in InUse(v, r) : i \in Nat /\ ~(i <= 0)
  BY <1>2, NthIs
<1>5. NamesMet(v, r, 0) = {}
  BY <1>4 DEF NamesMet
<1>6. ReadTo(v, r, 0)
  <2>1. Len(r.slots) \in Nat
    BY <1>2, NthIs
  <2> QED
    BY <1>4, <2>1 DEF ReadTo
<1>7. \A i, c : IsChild(v, r, i, c) => ~(i <= 0)
  BY <1>2, <1>4, NthIs DEF IsChild
<1>8. Visits(v, G)
  BY <1>1, <1>2, <1>3, <1>6, <1>7 DEF Visits
<1>9. PICK f, s : f = Frame(<< >>, 0, 0, payload(v, <<0>>)) /\ s = <<f>>
  OBVIOUS
<1>10. /\ f.dir = << >> /\ f.cluster = 0 /\ f.parent = 0 /\ f.slots = r.slots /\ f.at = 1
       /\ f.names = {} /\ f.dots = {}
  BY <1>2, <1>9 DEF Frame
<1>11. f \in Frames
  <2>1. r.slots \in Seq(Nat \X Nat)
    BY <1>2 DEF DirIs, SlotsOf
  <2>2. << >> \in Seq(STRING) /\ 0 \in Nat /\ 1 \in Nat /\ {} \in SUBSET STRING
    OBVIOUS
  <2>3. f = [dir |-> << >>, cluster |-> 0, parent |-> 0, slots |-> r.slots, at |-> 1, names |-> {}, dots |-> {}]
    BY <1>2, <1>9 DEF Frame
  <2> QED
    BY <2>1, <2>2, <2>3 DEF Frames
<1>12. DirOf(f) = r
  BY <1>2, <1>10 DEF DirOf
<1>13. FrameIs(v, G, f)
  BY <1>3, <1>5, <1>10, <1>12 DEF FrameIs
<1>14. s \in Seq(Frames) /\ Len(s) = 1 /\ s[1] = f
  BY <1>9, <1>11
<1>15. Stacked(v, G, s)
  BY <1>13, <1>14 DEF Stacked
<1>16. Closed(v, G, s)
  BY <1>3, <1>12, <1>14 DEF Closed, OnStack
<1>17. \A d, i : ~Found(v, G, d, i)
  BY <1>3, <1>4 DEF Found, Met
<1>18. Claimed(v, G, {}) /\ Filed(v, G, NoFiles)
  BY <1>17 DEF Claimed, Filed, NoFiles
<1>19. Pathed(v, G, {})
  <2>1. IsFiniteSet({}) /\ Cardinality({}) = 0
    BY FS_EmptySet
  <2> QED
    BY <1>17, <2>1, Fat16Assumption DEF Pathed
<1>20. PICK a : a = Opened(v)
  OBVIOUS
<1>21. a = [ok |-> TRUE, claimed |-> {}, paths |-> {}, files |-> NoFiles, stack |-> s]
  BY <1>9, <1>20 DEF Opened
<1>22. /\ a.claimed = {} /\ a.paths = {} /\ a.files = NoFiles /\ a.stack = s
       /\ a = [ok |-> a.ok, claimed |-> a.claimed, paths |-> a.paths, files |-> a.files, stack |-> a.stack]
  BY <1>21
<1>23. Good(v, a, G)
  BY <1>8, <1>15, <1>16, <1>18, <1>19, <1>22 DEF Good
<1> QED
  BY <1>20, <1>23

\* f is the innermost directory's frame, d that directory, and k the place it is at.
Top(v, G, s, f, d, k) ==
  /\ s # << >> /\ f = Head(s) /\ f \in Frames /\ d = DirOf(f) /\ d \in DOMAIN G /\ OnStack(s, d)
  /\ k = G[d] + 1 /\ G[d] \in Nat /\ k \in Nat /\ f.at = k
  /\ d.path = f.dir /\ d.cluster = f.cluster /\ d.parent = f.parent /\ d.slots = f.slots
  /\ f.names = NamesMet(v, d, G[d]) /\ f.dots = f.names \cap {".", ".."}
  /\ entry(v, f.slots[f.at]) = Nth(v, d, k)

\* The top frame stands at the first slot of its directory that is not passed.
LEMMA TopIs ==
  ASSUME NEW v, IsVolume(v), geometry_ok(v), NEW G, Visits(v, G), NEW s, Stacked(v, G, s), s # << >>,
         NEW f, f = Head(s), NEW d, d = DirOf(f), NEW k, k = G[d] + 1
  PROVE  Top(v, G, s, f, d, k)
<1>1. f \in Frames /\ FrameIs(v, G, f) /\ OnStack(s, d)
  BY PopStack
<1>2. d \in DOMAIN G /\ f.at = k /\ f.names = NamesMet(v, d, G[d]) /\ f.dots = f.names \cap {".", ".."}
  BY <1>1 DEF FrameIs
<1>3. G[d] \in Nat
  BY <1>2, VisitIs
<1>4. d.path = f.dir /\ d.cluster = f.cluster /\ d.parent = f.parent /\ d.slots = f.slots
  BY DEF DirOf
<1>5. entry(v, f.slots[f.at]) = Nth(v, d, k)
  BY <1>2, <1>4 DEF Nth
<1>6. k \in Nat
  BY <1>3
<1> QED
  BY <1>1, <1>2, <1>3, <1>4, <1>5, <1>6 DEF Top

\* How a turn moves the walk: it leaves directory d, or passes one of its slots.
Leaves(G, s, d, H, t) ==
  /\ H = G /\ d \in DOMAIN G /\ OnStack(s, d)
  /\ \A x : OnStack(t, x) <=> x # d /\ OnStack(s, x)

Passes(v, G, s, d, H, t) ==
  \E New : /\ MayAdvance(v, G, d, New) /\ H = Advance(G, d, New) /\ OnStack(s, d)
           /\ \A x : OnStack(t, x) <=> x \in New \/ OnStack(s, x)

Moves(v, G, s, H, t) == \E d : Leaves(G, s, d, H, t) \/ Passes(v, G, s, d, H, t)

\* The innermost directory ends.
LEMMA TurnLeaves ==
  ASSUME NEW v, IsVolume(v), geometry_ok(v), NEW G, NEW a, Good(v, a, G), a.ok, a.stack # << >>,
         over(v, Head(a.stack)), NEW b, b = walkEntry(v, a)
  PROVE  /\ b.ok => Good(v, b, G) /\ Moves(v, G, a.stack, G, b.stack)
         /\ ~b.ok => ~Orderly(v)
<1>1. PICK s, f, d, k : s = a.stack /\ f = Head(s) /\ d = DirOf(f) /\ k = G[d] + 1
  OBVIOUS
<1>2. Visits(v, G) /\ Stacked(v, G, s) /\ Closed(v, G, s)
  BY <1>1 DEF Good
<1>3. Top(v, G, s, f, d, k)
  BY <1>1, <1>2, TopIs
<1>4. k > Len(d.slots) \/ Nth(v, d, k).kind = "end"
  BY <1>1, <1>3 DEF Top, over
<1>5. b = [a EXCEPT !.ok = dots_ok(f), !.stack = Tail(@)]
  BY <1>1 DEF walkEntry
<1>6. PICK w, claimed, paths, files, t :
        /\ w \in BOOLEAN /\ (w <=> dots_ok(f))
        /\ claimed = a.claimed /\ paths = a.paths /\ files = a.files /\ t = Tail(s)
  OBVIOUS
<1>7. b.ok <=> w
  BY <1>1, <1>5, <1>6 DEF Good
<1>8. /\ b.claimed = claimed /\ b.paths = paths /\ b.files = files /\ b.stack = t
      /\ b = [ok |-> b.ok, claimed |-> b.claimed, paths |-> b.paths, files |-> b.files, stack |-> b.stack]
  BY <1>1, <1>5, <1>6 DEF Good
<1>9. dots_ok(f) <=> (d.path # << >> => {".", ".."} \subseteq NamesMet(v, d, G[d]))
  BY <1>3 DEF Top, dots_ok
<1>10. ASSUME ~b.ok PROVE ~Orderly(v)
  <2>1. ~(d.path # << >> => {".", ".."} \subseteq NamesMet(v, d, G[d]))
    BY <1>6, <1>7, <1>9, <1>10
  <2>2. d \in DOMAIN G /\ (G[d] + 1 > Len(d.slots) \/ Nth(v, d, G[d] + 1).kind = "end")
    BY <1>1, <1>3, <1>4 DEF Top
  <2>3. SUFFICES ASSUME Orderly(v) PROVE FALSE
    OBVIOUS
  <2>4. EndsAt(v, d, G[d])
    BY <1>2, <2>2, <2>3, OrderlyEnd
  <2> QED
    BY <2>1, <2>4 DEF EndsAt
<1>11. ASSUME b.ok PROVE Good(v, b, G) /\ Moves(v, G, a.stack, G, b.stack)
  <2>1. d.path # << >> => {".", ".."} \subseteq NamesMet(v, d, G[d])
    BY <1>6, <1>7, <1>9, <1>11
  <2>2. d \in DOMAIN G /\ OnStack(s, d) /\ s # << >>
    BY <1>3 DEF Top
  <2>3. G[d] \in Nat /\ G[d] <= Len(d.slots) /\ Len(d.slots) \in Nat
    BY <1>2, <2>2, VisitIs
  <2>4. EndsAt(v, d, G[d])
    BY <1>1, <1>4, <2>1, <2>3 DEF EndsAt
  <2>5. Stacked(v, G, t) /\ \A x : OnStack(t, x) <=> x # d /\ OnStack(s, x)
    BY <1>1, <1>2, <1>6, <2>2, PopStack
  <2>6. Closed(v, G, t)
    BY <1>2, <2>4, <2>5 DEF Closed
  <2>7. Good(v, b, G)
    BY <1>2, <1>6, <1>8, <2>5, <2>6 DEF Good
  <2>8. Leaves(G, s, d, G, t)
    BY <2>2, <2>5 DEF Leaves
  <2> QED
    BY <1>1, <1>8, <2>7, <2>8 DEF Moves
<1> QED
  BY <1>10, <1>11

\* The frame of the innermost directory once it has passed its slot.
NextTop(v, G, d, k, f, h) ==
  /\ h \in Frames /\ DirOf(h) = d /\ h.at = k + 1
  /\ h.names = NamesMet(v, d, k) /\ h.dots = h.names \cap {".", ".."}

\* An advance in the top directory replaces the top frame and no other.
LEMMA TopAdvances ==
  ASSUME NEW v, IsVolume(v), geometry_ok(v), NEW G, NEW s, Stacked(v, G, s),
         NEW f, NEW d, NEW k, Top(v, G, s, f, d, k), NEW New, MayAdvance(v, G, d, New),
         NEW H, H = Advance(G, d, New), NEW h, NextTop(v, G, d, k, f, h)
  PROVE  /\ Stacked(v, H, <<h>> \o Tail(s)) /\ \A x \in New : ~OnStack(s, x)
         /\ \A x : OnStack(<<h>> \o Tail(s), x) <=> OnStack(s, x)
<1>1. s # << >> /\ f = Head(s) /\ d = DirOf(f) /\ d \in DOMAIN G /\ k = G[d] + 1 /\ OnStack(s, d)
  BY DEF Top
<1>2. PICK t : t = Tail(s)
  OBVIOUS
<1>3. Stacked(v, G, t) /\ \A x : OnStack(t, x) <=> x # d /\ OnStack(s, x)
  BY <1>1, <1>2, PopStack
<1>4. Stacked(v, H, t) /\ \A x \in New : ~OnStack(t, x)
  BY <1>3, StackAdvances
<1>5. Advanced(v, G, d, New, H)
  BY AdvanceIs
<1>6. d \in DOMAIN H /\ H[d] = k /\ \A x \in New : x # d
  BY <1>1, <1>5 DEF Advanced
<1>7. h \in Frames /\ DirOf(h) = d /\ FrameIs(v, H, h)
  BY <1>6 DEF NextTop, FrameIs
<1>8. ~OnStack(t, DirOf(h))
  BY <1>3, <1>7
<1>9. Stacked(v, H, <<h>> \o t) /\ \A x : OnStack(<<h>> \o t, x) <=> x = d \/ OnStack(t, x)
  BY <1>4, <1>7, <1>8, PushStack
<1>10. \A x : OnStack(<<h>> \o t, x) <=> OnStack(s, x)
  BY <1>1, <1>3, <1>9
<1>11. \A x \in New : ~OnStack(s, x)
  BY <1>3, <1>4, <1>6
<1> QED
  BY <1>2, <1>9, <1>10, <1>11

\* Nothing is left open that was closed.
LEMMA StaysClosed ==
  ASSUME NEW v, IsVolume(v), geometry_ok(v), NEW G, NEW d, NEW New, MayAdvance(v, G, d, New),
         NEW H, H = Advance(G, d, New), NEW s, OnStack(s, d), Closed(v, G, s),
         NEW t, \A x : OnStack(t, x) <=> x \in New \/ OnStack(s, x)
  PROVE  Closed(v, H, t)
<1>1. Advanced(v, G, d, New, H)
  BY AdvanceIs
<1>2. SUFFICES ASSUME NEW x \in DOMAIN H, ~OnStack(t, x) PROVE EndsAt(v, x, H[x])
  BY DEF Closed
<1>3. x \in DOMAIN G /\ x # d /\ ~OnStack(s, x)
  BY <1>1, <1>2 DEF Advanced
<1>4. H[x] = G[x] /\ EndsAt(v, x, G[x])
  BY <1>1, <1>3 DEF Advanced, Closed
<1> QED
  BY <1>4

\* A slot without a named entry is passed.
LEMMA StepsOn ==
  ASSUME NEW v, IsVolume(v), geometry_ok(v), NEW G, NEW a, Good(v, a, G), NEW s, s = a.stack,
         NEW f, NEW d, NEW k, Top(v, G, s, f, d, k), MayAdvance(v, G, d, {}), k \notin Named(v, d),
         NEW h, NextTop(v, G, d, k, f, h), NEW b,
         b = [ok |-> a.ok, claimed |-> a.claimed, paths |-> a.paths, files |-> a.files,
              stack |-> <<h>> \o Tail(s)]
  PROVE  \E H : Good(v, b, H) /\ Moves(v, G, s, H, b.stack)
<1>1. PICK H, t, New : H = Advance(G, d, New) /\ t = <<h>> \o Tail(s) /\ New = {}
  OBVIOUS
<1>2. Stacked(v, G, s) /\ Closed(v, G, s)
  BY DEF Good
<1>3. d \in DOMAIN G /\ k = G[d] + 1 /\ OnStack(s, d)
  BY DEF Top
<1>4. Stacked(v, H, t) /\ \A x : OnStack(t, x) <=> OnStack(s, x)
  BY <1>1, <1>2, TopAdvances
<1>5. \A x : OnStack(t, x) <=> x \in New \/ OnStack(s, x)
  BY <1>1, <1>4
<1>6. Visits(v, H)
  BY <1>1, AdvanceVisits
<1>7. Closed(v, H, t)
  BY <1>1, <1>2, <1>3, <1>5, StaysClosed
<1>8. Claimed(v, H, a.claimed) /\ Pathed(v, H, a.paths) /\ Filed(v, H, a.files)
  <2>1. G[d] + 1 \notin Named(v, d) /\ MayAdvance(v, G, d, New)
    BY <1>1, <1>3
  <2>2. Claimed(v, G, a.claimed) /\ Pathed(v, G, a.paths) /\ Filed(v, G, a.files)
    BY DEF Good
  <2> QED
    BY <1>1, <2>1, <2>2, PassesNothing
<1>9. /\ b.claimed = a.claimed /\ b.paths = a.paths /\ b.files = a.files /\ b.stack = t
      /\ b = [ok |-> b.ok, claimed |-> b.claimed, paths |-> b.paths, files |-> b.files, stack |-> b.stack]
  BY <1>1
<1>10. Good(v, b, H)
  BY <1>4, <1>6, <1>7, <1>8, <1>9 DEF Good
<1>11. Passes(v, G, s, d, H, t)
  BY <1>1, <1>3, <1>5 DEF Passes
<1> QED
  BY <1>9, <1>10, <1>11 DEF Moves

\* The frame with its place, and its names, moved on.
LEMMA MovedTop ==
  ASSUME NEW v, IsVolume(v), geometry_ok(v), NEW G, Visits(v, G), NEW s,
         NEW f, NEW d, NEW k, Top(v, G, s, f, d, k), NEW names, NEW dots, NEW h,
         names = NamesMet(v, d, k), dots = names \cap {".", ".."},
         h = [dir |-> f.dir, cluster |-> f.cluster, parent |-> f.parent, slots |-> f.slots,
              at |-> f.at + 1, names |-> names, dots |-> dots]
  PROVE  NextTop(v, G, d, k, f, h)
<1>1. /\ h.dir = f.dir /\ h.cluster = f.cluster /\ h.parent = f.parent /\ h.slots = f.slots
      /\ h.at = f.at + 1 /\ h.names = names /\ h.dots = dots
  OBVIOUS
<1>2. f \in Frames /\ d = DirOf(f) /\ d \in DOMAIN G /\ f.at = k /\ k \in Nat
  BY DEF Top
<1>3. names \in SUBSET STRING
  <2>1. \A i \in InUse(v, d) : UsedIs(Nth(v, d, i))
    BY <1>2, VisitIs, NthIs
  <2> QED
    BY <2>1 DEF NamesMet, UsedIs
<1>4. dots \in SUBSET STRING
  BY <1>3
<1>5. h \in Frames
  <2>1. f.dir \in Seq(STRING) /\ f.cluster \in Nat /\ f.parent \in Nat /\ f.slots \in Seq(Nat \X Nat)
        /\ f.at + 1 \in Nat
    BY <1>2 DEF Frames
  <2> QED
    BY <1>3, <1>4, <2>1 DEF Frames
<1>6. DirOf(h) = d
  BY <1>1, <1>2 DEF DirOf
<1> QED
  BY <1>1, <1>2, <1>5, <1>6 DEF NextTop

\* The slot a frame is at, if the directory goes on.
LEMMA PlaceIs ==
  ASSUME NEW v, IsVolume(v), geometry_ok(v), NEW G, Visits(v, G), NEW s,
         NEW f, NEW d, NEW k, Top(v, G, s, f, d, k), ~over(v, f)
  PROVE  /\ k <= Len(d.slots) /\ Nth(v, d, k).kind \in {"deleted", "used"}
         /\ k \in InUse(v, d) <=> Nth(v, d, k).kind = "used"
         /\ k \in InUse(v, d) => UsedIs(Nth(v, d, k))
<1>1. d \in DOMAIN G /\ k = G[d] + 1 /\ G[d] \in Nat /\ f.at = k /\ d.slots = f.slots
      /\ entry(v, f.slots[f.at]) = Nth(v, d, k)
  BY DEF Top
<1>2. DirIs(v, d) /\ Len(d.slots) \in Nat
  BY <1>1, VisitIs
<1>3. k <= Len(d.slots) /\ Nth(v, d, k).kind # "end"
  BY <1>1, <1>2 DEF over
<1>4. Nth(v, d, k) \in Entries
  <2>1. k \in 1..Len(d.slots) /\ SlotsOf(v, d.slots, Owned(v, d))
    BY <1>1, <1>2, <1>3 DEF DirIs
  <2> QED
    BY <2>1, EntryIs DEF Nth
<1>5. Nth(v, d, k).kind \in {"deleted", "used"}
  BY <1>3, <1>4 DEF Entries
<1>6. k \in InUse(v, d) <=> Nth(v, d, k).kind = "used"
  BY <1>1, <1>3, NextInUse
<1>7. k \in InUse(v, d) => UsedIs(Nth(v, d, k))
  BY <1>2, NthIs
<1> QED
  BY <1>3, <1>5, <1>6, <1>7

\* A turn's outcome.
TurnYields(v, G, a, b) ==
  /\ b.ok => \E H : Good(v, b, H) /\ Moves(v, G, a.stack, H, b.stack)
  /\ ~b.ok => ~Orderly(v)

\* The turn of walk at a deleted entry.
LEMMA TurnDeleted ==
  ASSUME NEW v, IsVolume(v), geometry_ok(v), NEW G, NEW a, Good(v, a, G), a.ok,
         NEW f, NEW d, NEW k, Top(v, G, a.stack, f, d, k), ~over(v, f), Nth(v, d, k).kind = "deleted",
         NEW b, b = walkEntry(v, a)
  PROVE  TurnYields(v, G, a, b)
<1>1. PICK s : s = a.stack
  OBVIOUS
<1>2. s # << >> /\ f = Head(s) /\ f \in Frames /\ entry(v, f.slots[f.at]) = Nth(v, d, k)
      /\ d \in DOMAIN G /\ k = G[d] + 1
  BY <1>1 DEF Top
<1>3. Visits(v, G)
  BY DEF Good
<1>4. k <= Len(d.slots) /\ k \notin InUse(v, d)
  BY <1>1, <1>3, PlaceIs
<1>5. PICK h : h = [f EXCEPT !.at = @ + 1]
  OBVIOUS
<1>6. b = [a EXCEPT !.stack = <<h>> \o Tail(@)]
  BY <1>1, <1>2, <1>5 DEF walkEntry
<1>7. b = [ok |-> a.ok, claimed |-> a.claimed, paths |-> a.paths, files |-> a.files,
           stack |-> <<h>> \o Tail(s)]
  BY <1>1, <1>6 DEF Good
<1>8. h = [dir |-> f.dir, cluster |-> f.cluster, parent |-> f.parent, slots |-> f.slots,
           at |-> f.at + 1, names |-> f.names, dots |-> f.dots]
  BY <1>2, <1>5 DEF Frames
<1>9. f.names = NamesMet(v, d, k) /\ f.dots = f.names \cap {".", ".."}
  <2>1. NamesMet(v, d, k) = NamesMet(v, d, G[d])
    <3>1. NamesMet(v, d, G[d] + 1) =
            NamesMet(v, d, G[d]) \cup IF G[d] + 1 \in InUse(v, d) THEN {Nth(v, d, G[d] + 1).name} ELSE {}
      BY <1>2, <1>3, NamesAdvance
    <3>2. G[d] + 1 \notin InUse(v, d)
      BY <1>2, <1>4
    <3>3. NamesMet(v, d, G[d] + 1) = NamesMet(v, d, G[d]) \cup {}
      BY <3>1, <3>2
    <3> QED
      BY <1>2, <3>3
  <2> QED
    BY <2>1 DEF Top
<1>10. NextTop(v, G, d, k, f, h)
  BY <1>1, <1>3, <1>8, <1>9, MovedTop
<1>11. k \notin Named(v, d)
  BY <1>4 DEF Named
<1>12. MayAdvance(v, G, d, {})
  BY <1>2, <1>3, <1>4, <1>11 DEF MayAdvance, IsChild
<1>13. \E H : Good(v, b, H) /\ Moves(v, G, s, H, b.stack)
  BY <1>1, <1>7, <1>10, <1>11, <1>12, StepsOn
<1>14. b.ok <=> a.ok
  BY <1>7
<1> QED
  BY <1>1, <1>13, <1>14 DEF TurnYields

\* An entry that is refused for itself.
LEMMA TurnRefuses ==
  ASSUME NEW v, IsVolume(v), geometry_ok(v), NEW G, NEW a, Good(v, a, G), a.ok,
         NEW f, NEW d, NEW k, Top(v, G, a.stack, f, d, k), ~over(v, f), k \in InUse(v, d),
         NEW e, e = Nth(v, d, k), NEW b, b = [a EXCEPT !.ok = FALSE],
         ~entry_ok(f, e) \/ (e.name \in {".", ".."} /\ ~dot_ok(f, e))
  PROVE  TurnYields(v, G, a, b)
<1>1. d \in DOMAIN G /\ k = G[d] + 1 /\ Visits(v, G)
  BY DEF Top, Good
<1>2. SUFFICES ASSUME Orderly(v) PROVE FALSE
  <2>1. ~b.ok
    BY DEF Good
  <2> QED
    BY <2>1 DEF TurnYields
<1>3. EntryFits(v, d, k) /\ e.name \notin NamesMet(v, d, G[d])
  BY <1>1, <1>2, OrderlyEntry
<1>4. d.path = f.dir /\ d.cluster = f.cluster /\ d.parent = f.parent /\ f.names = NamesMet(v, d, G[d])
  BY DEF Top
<1>5. entry_ok(f, e)
  BY <1>3, <1>4 DEF EntryFits, entry_ok
<1>6. e.name \in {".", ".."} => dot_ok(f, e)
  <2>1. e.name \in {".", ".."} => k \notin Named(v, d)
    BY DEF Named
  <2> QED
    BY <1>3, <1>4, <2>1 DEF EntryFits, dot_ok
<1> QED
  BY <1>5, <1>6

\* The turn of walk at a dot entry.
LEMMA TurnDot ==
  ASSUME NEW v, IsVolume(v), geometry_ok(v), NEW G, NEW a, Good(v, a, G), a.ok,
         NEW f, NEW d, NEW k, Top(v, G, a.stack, f, d, k), ~over(v, f), k \in InUse(v, d),
         NEW e, e = Nth(v, d, k), entry_ok(f, e), e.name \in {".", ".."}, dot_ok(f, e),
         NEW b, b = walkEntry(v, a)
  PROVE  TurnYields(v, G, a, b)
<1>1. PICK s : s = a.stack
  OBVIOUS
<1>2. s # << >> /\ f = Head(s) /\ f \in Frames /\ entry(v, f.slots[f.at]) = e
      /\ d \in DOMAIN G /\ k = G[d] + 1
  BY <1>1 DEF Top
<1>3. Visits(v, G)
  BY DEF Good
<1>4. k <= Len(d.slots) /\ e.kind = "used"
  BY <1>1, <1>3, PlaceIs
<1>5. PICK h : h = [[f EXCEPT !.at = @ + 1] EXCEPT !.names = @ \cup {e.name}, !.dots = @ \cup {e.name}]
  BY Zenon
<1>6. b = [a EXCEPT !.stack = <<h>> \o Tail(@)]
  BY <1>1, <1>2, <1>4, <1>5 DEF walkEntry
<1>7. b = [ok |-> a.ok, claimed |-> a.claimed, paths |-> a.paths, files |-> a.files,
           stack |-> <<h>> \o Tail(s)]
  BY <1>1, <1>6 DEF Good
<1>8. h = [dir |-> f.dir, cluster |-> f.cluster, parent |-> f.parent, slots |-> f.slots,
           at |-> f.at + 1, names |-> f.names \cup {e.name}, dots |-> f.dots \cup {e.name}]
  BY <1>2, <1>5 DEF Frames
<1>9. f.names \cup {e.name} = NamesMet(v, d, k)
      /\ f.dots \cup {e.name} = (f.names \cup {e.name}) \cap {".", ".."}
  <2>1. NamesMet(v, d, k) = NamesMet(v, d, G[d]) \cup {e.name}
    BY <1>2, <1>3, NamesAdvance
  <2> QED
    BY <2>1 DEF Top
<1>10. NextTop(v, G, d, k, f, h)
  BY <1>1, <1>3, <1>8, <1>9, MovedTop
<1>11. k \notin Named(v, d)
  BY DEF Named
<1>12. EntryFits(v, d, k) /\ e.name \notin NamesMet(v, d, G[d])
  BY <1>11 DEF Top, entry_ok, dot_ok, EntryFits
<1>13. MayAdvance(v, G, d, {})
  BY <1>2, <1>3, <1>4, <1>11, <1>12 DEF MayAdvance, IsChild
<1>14. \E H : Good(v, b, H) /\ Moves(v, G, s, H, b.stack)
  BY <1>1, <1>7, <1>10, <1>11, <1>13, StepsOn
<1>15. b.ok <=> a.ok
  BY <1>7
<1> QED
  BY <1>1, <1>14, <1>15 DEF TurnYields

\* What enter asks of an entry e in the directory of frame f.
Sized(v, e, clusters) ==
  IF e.attr = FILE THEN Len(clusters) = blocksFor(v, e.size) ELSE e.size = 0
MayEnter(v, a, f, e) ==
  /\ Append(f.dir, e.name) \notin a.paths /\ Cardinality(a.paths) < MAX_PATHS
  /\ GotOf(v, a.claimed, e).ok /\ Sized(v, e, GotOf(v, a.claimed, e).clusters)
  /\ e.attr = DIR => Len(Append(f.dir, e.name)) <= MAX_DEPTH

\* What it then makes of the walk.
FilesWith(v, a, e, path, clusters) ==
  IF e.attr = DIR THEN a.files
  ELSE [p \in DOMAIN a.files \cup {path} |->
          IF p = path THEN content(v, e.size, clusters) ELSE a.files[p]]
FramesOf(v, f, e, path, clusters) ==
  IF e.attr = DIR THEN <<Frame(path, e.first, f.cluster, payload(v, clusters))>> ELSE << >>
After(f, e) == [f EXCEPT !.names = @ \cup {e.name}, !.at = @ + 1]
Entered(v, a, f, e, w, b) ==
  LET clusters == GotOf(v, a.claimed, e).clusters  path == Append(f.dir, e.name) IN
  b = [ok |-> w, claimed |-> a.claimed \cup Range(clusters), paths |-> a.paths \cup {path},
       files |-> FilesWith(v, a, e, path, clusters),
       stack |-> FramesOf(v, f, e, path, clusters) \o <<After(f, e)>> \o Tail(a.stack)]

\* The effect of enter, by whether its checks pass.
LEMMA EnterIs ==
  ASSUME NEW v, NEW a, NEW f, NEW e, NEW b, b = enter(v, a, f, e)
  PROVE  \E w \in BOOLEAN : (w <=> MayEnter(v, a, f, e)) /\ Entered(v, a, f, e, w, b)
<1>1. Entered(v, a, f, e, MayEnter(v, a, f, e), b)
  BY DEF enter, GotOf, Entered, MayEnter, Sized, FilesWith, FramesOf, After
<1>2. PICK w \in BOOLEAN : w <=> MayEnter(v, a, f, e)
  OBVIOUS
<1>3. w = MayEnter(v, a, f, e)
  BY <1>2 DEF MayEnter
<1>4. Entered(v, a, f, e, w, b)
  <2>1. PICK claimed, paths, files, stack :
          b = [ok |-> MayEnter(v, a, f, e), claimed |-> claimed, paths |-> paths, files |-> files,
               stack |-> stack]
          /\ \A x : Entered(v, a, f, e, x, [ok |-> x, claimed |-> claimed, paths |-> paths,
                                            files |-> files, stack |-> stack])
    BY <1>1 DEF Entered
  <2>2. b = [ok |-> w, claimed |-> claimed, paths |-> paths, files |-> files, stack |-> stack]
    BY <1>2, <1>3, <2>1
  <2> QED
    BY <2>1, <2>2
<1> QED
  BY <1>2, <1>4

\* The walk is at an entry that has a name of its own.
AtEntry(v, G, a, f, d, k, e) ==
  /\ Good(v, a, G) /\ a.ok /\ Top(v, G, a.stack, f, d, k) /\ ~over(v, f)
  /\ k \in Named(v, d) /\ e = Nth(v, d, k) /\ entry_ok(f, e)

\* What is known when walk stands at a named entry.
LEMMA AtEntryIs ==
  ASSUME NEW v, IsVolume(v), geometry_ok(v), NEW G, NEW a, NEW f, NEW d, NEW k, NEW e,
         AtEntry(v, G, a, f, d, k, e)
  PROVE  /\ Visits(v, G) /\ d \in DOMAIN G /\ d \in Dirs(v) /\ DirIs(v, d) /\ k = G[d] + 1
         /\ G[d] + 1 <= Len(d.slots) /\ k \in InUse(v, d) /\ e.kind = "used" /\ UsedIs(e)
         /\ e = Nth(v, d, k) /\ Append(f.dir, e.name) = PathOf(v, d, k)
         /\ Pathed(v, G, a.paths) /\ Claimed(v, G, a.claimed) /\ Filed(v, G, a.files)
<1>1. Visits(v, G) /\ Pathed(v, G, a.paths) /\ Claimed(v, G, a.claimed) /\ Filed(v, G, a.files)
  BY DEF AtEntry, Good
<1>2. PICK s : s = a.stack /\ Top(v, G, s, f, d, k)
  BY DEF AtEntry
<1>3. d \in DOMAIN G /\ k = G[d] + 1 /\ d.path = f.dir
  BY <1>2 DEF Top
<1>4. d \in Dirs(v) /\ DirIs(v, d) /\ Named(v, d) \subseteq InUse(v, d)
  BY <1>1, <1>3, VisitIs
<1>5. k \in InUse(v, d) /\ e = Nth(v, d, k) /\ ~over(v, f)
  BY <1>4 DEF AtEntry
<1>6. k <= Len(d.slots) /\ Nth(v, d, k).kind = "used" /\ UsedIs(Nth(v, d, k))
  BY <1>1, <1>2, <1>5, PlaceIs
<1> QED
  BY <1>1, <1>3, <1>4, <1>5, <1>6 DEF PathOf

\* An entry that enter lets through is fit, and new in name, path and clusters.
LEMMA EnterFits ==
  ASSUME NEW v, IsVolume(v), geometry_ok(v), NEW G, NEW a, NEW f, NEW d, NEW k, NEW e,
         AtEntry(v, G, a, f, d, k, e), MayEnter(v, a, f, e)
  PROVE  /\ EntryFits(v, d, k) /\ e.name \notin NamesMet(v, d, G[d])
         /\ GotOf(v, a.claimed, e).clusters = Extent(v, e)
         /\ SpanOf(v, d, k) \cap a.claimed = {} /\ PathOf(v, d, k) \notin a.paths
         /\ e.attr = DIR => Len(PathOf(v, d, k)) <= MAX_DEPTH
<1>1. e = Nth(v, d, k) /\ UsedIs(e) /\ Append(f.dir, e.name) = PathOf(v, d, k) /\ k \in InUse(v, d)
  BY AtEntryIs
<1>2. GotOf(v, a.claimed, e).ok /\ Sized(v, e, GotOf(v, a.claimed, e).clusters)
      /\ PathOf(v, d, k) \notin a.paths /\ (e.attr = DIR => Len(PathOf(v, d, k)) <= MAX_DEPTH)
  BY <1>1 DEF MayEnter
<1>3. GotOf(v, a.claimed, e).clusters = Extent(v, e) /\ Range(Extent(v, e)) \cap a.claimed = {}
      /\ IF e.attr = FILE /\ e.size = 0 THEN e.first = 0 ELSE Extent(v, e) # << >>
  BY <1>1, <1>2, GotIs
<1>4. Sized(v, e, Extent(v, e))
  BY <1>2, <1>3
<1>5. e.attr \in {DIR, FILE} /\ ~e.extended /\ e.valid_name /\ e.name \notin f.names
  BY DEF AtEntry, entry_ok
<1>6. ExtentFits(v, e)
  BY <1>3, <1>4, <1>5 DEF ExtentFits, Sized, DIR, FILE
<1>7. f.names = NamesMet(v, d, G[d]) /\ k \in Named(v, d)
  BY DEF AtEntry, Top
<1> QED
  BY <1>1, <1>2, <1>3, <1>5, <1>6, <1>7 DEF EntryFits, SpanOf

\* The directory that an entry leads to has not been come to yet.
LEMMA EnterAdvances ==
  ASSUME NEW v, IsVolume(v), geometry_ok(v), NEW G, NEW a, NEW f, NEW d, NEW k, NEW e,
         AtEntry(v, G, a, f, d, k, e), MayEnter(v, a, f, e),
         NEW New, New = {x \in {Child(v, d, e)} : e.attr = DIR}
  PROVE  MayAdvance(v, G, d, New)
<1>1. Visits(v, G) /\ d \in DOMAIN G /\ d \in Dirs(v) /\ DirIs(v, d) /\ k = G[d] + 1
      /\ G[d] + 1 <= Len(d.slots) /\ e.kind = "used" /\ e = Nth(v, d, k) /\ Pathed(v, G, a.paths)
  BY AtEntryIs
<1>2. EntryFits(v, d, k) /\ e.name \notin NamesMet(v, d, G[d]) /\ PathOf(v, d, k) \notin a.paths
      /\ (e.attr = DIR => Len(PathOf(v, d, k)) <= MAX_DEPTH)
  BY EnterFits
<1>3. k \in Named(v, d)
  BY DEF AtEntry
<1>4. \A c : c \in New <=> IsChild(v, d, k, c)
  BY <1>1, <1>3 DEF IsChild
<1>5. ASSUME NEW c \in New PROVE c \in Dirs(v) /\ c \notin DOMAIN G
  <2>1. IsChild(v, d, k, c) /\ e.attr = DIR
    BY <1>4
  <2>2. c.path = PathOf(v, d, k) /\ c.path # << >> /\ Len(c.path) = Len(d.path) + 1
    BY <1>1, <2>1, ChildIs DEF PathOf
  <2>3. Len(d.path) \in Nat /\ MAX_DEPTH \in Nat
    BY <1>1, DirsAre, Fat16Assumption
  <2>4. Len(d.path) < MAX_DEPTH
    BY <1>2, <2>1, <2>2, <2>3
  <2>5. c \in Dirs(v)
    BY <1>1, <2>1, <2>4, ChildOfDir
  <2>6. ASSUME c \in DOMAIN G PROVE FALSE
    <3>1. c # Root(v)
      BY <2>2, RootIs
    <3>2. PICK x, i : x \in DOMAIN G /\ IsChild(v, x, i, c) /\ i <= G[x]
      BY <1>1, <2>6, <3>1 DEF Visits
    <3>3. DirIs(v, x) /\ Named(v, x) \subseteq InUse(v, x)
      BY <1>1, <3>2, VisitIs
    <3>4. c.path = PathOf(v, x, i)
      BY <3>2, <3>3, ChildIs DEF PathOf
    <3>5. Found(v, G, x, i)
      BY <3>2, <3>3 DEF Found, Met, IsChild
    <3>6. c.path \in a.paths
      BY <1>1, <3>4, <3>5 DEF Pathed
    <3> QED
      BY <1>2, <2>2, <3>6
  <2> QED
    BY <2>5, <2>6
<1> QED
  BY <1>1, <1>2, <1>4, <1>5 DEF MayAdvance

\* The frame of the directory at the entry, past that entry.
LEMMA AfterIs ==
  ASSUME NEW v, IsVolume(v), geometry_ok(v), NEW G, NEW a, NEW f, NEW d, NEW k, NEW e,
         AtEntry(v, G, a, f, d, k, e), NEW h, h = After(f, e)
  PROVE  NextTop(v, G, d, k, f, h)
<1>1. PICK s : s = a.stack /\ Top(v, G, s, f, d, k)
  BY DEF AtEntry
<1>2. f \in Frames /\ f.names = NamesMet(v, d, G[d]) /\ f.dots = f.names \cap {".", ".."}
  BY <1>1 DEF Top
<1>3. PICK names : names = f.names \cup {e.name}
  OBVIOUS
<1>4. h = [dir |-> f.dir, cluster |-> f.cluster, parent |-> f.parent, slots |-> f.slots,
           at |-> f.at + 1, names |-> names, dots |-> f.dots]
  BY <1>2, <1>3 DEF After, Frames
<1>5. Visits(v, G) /\ d \in DOMAIN G /\ k = G[d] + 1 /\ k \in InUse(v, d) /\ e = Nth(v, d, k)
  BY AtEntryIs
<1>6. names = NamesMet(v, d, k)
  <2>1. NamesMet(v, d, G[d] + 1) =
          NamesMet(v, d, G[d]) \cup IF G[d] + 1 \in InUse(v, d) THEN {Nth(v, d, G[d] + 1).name} ELSE {}
    BY <1>5, NamesAdvance
  <2>2. NamesMet(v, d, G[d] + 1) = NamesMet(v, d, G[d]) \cup {e.name}
    BY <1>5, <2>1
  <2> QED
    BY <1>2, <1>3, <1>5, <2>2
<1>7. e.name \notin {".", ".."}
  BY DEF AtEntry, Named
<1>8. f.dots = names \cap {".", ".."}
  BY <1>2, <1>3, <1>7
<1> QED
  BY <1>1, <1>4, <1>5, <1>6, <1>8, MovedTop

\* The frame of the directory that is entered.
LEMMA FrameOfChild ==
  ASSUME NEW v, IsVolume(v), geometry_ok(v), NEW G, NEW d, NEW k, NEW c, NEW H, H[c] = 0, c \in DOMAIN H,
         DirIs(v, d), IsChild(v, d, k, c), NEW e, e = Nth(v, d, k), NEW f, d = DirOf(f),
         NEW g, g = Frame(PathOf(v, d, k), e.first, f.cluster, payload(v, ChainFrom(v, e.first)))
  PROVE  g \in Frames /\ DirOf(g) = c /\ FrameIs(v, H, g)
<1>1. DirIs(v, c) /\ c.path = PathOf(v, d, k) /\ c.cluster = e.first /\ c.parent = d.cluster
      /\ c.slots = payload(v, ChainFrom(v, c.cluster))
  BY ChildIs DEF PathOf
<1>2. d.cluster = f.cluster
  BY DEF DirOf
<1>3. g = [dir |-> c.path, cluster |-> c.cluster, parent |-> c.parent, slots |-> c.slots, at |-> 1,
           names |-> {}, dots |-> {}]
  BY <1>1, <1>2 DEF Frame
<1>4. c = [path |-> c.path, cluster |-> c.cluster, parent |-> c.parent, slots |-> c.slots]
      /\ c.path \in Seq(STRING) /\ c.cluster \in Nat /\ c.parent \in Nat /\ c.slots \in Seq(Nat \X Nat)
  BY <1>1 DEF DirIs, SlotsOf
<1>5. g \in Frames
  BY <1>3, <1>4 DEF Frames
<1>6. DirOf(g) = c
  BY <1>3, <1>4 DEF DirOf
<1>7. NamesMet(v, c, 0) = {}
  <2>1. InUse(v, c) \subseteq 1..Len(c.slots) /\ Len(c.slots) \in Nat
    BY <1>1, NthIs
  <2>2. {j \in InUse(v, c) : j <= 0} = {}
    BY <2>1
  <2> QED
    BY <2>2 DEF NamesMet
<1>8. FrameIs(v, H, g)
  BY <1>3, <1>6, <1>7 DEF FrameIs
<1> QED
  BY <1>5, <1>6, <1>8

\* Two elements put before a sequence, one after the other.
LEMMA ConsTwice ==
  ASSUME NEW S, NEW x \in S, NEW y \in S, NEW s \in Seq(S)
  PROVE  <<x>> \o <<y>> \o s = <<x>> \o (<<y>> \o s)
<1>1. <<x>> \in Seq(S) /\ <<y>> \in Seq(S)
  OBVIOUS
<1> QED
  BY <1>1, ConcatAssociative

\* The stack t comes from s by entering the directories New, if there are any.
Grown(v, H, New, s, t) == Stacked(v, H, t) /\ \A x : OnStack(t, x) <=> x \in New \/ OnStack(s, x)
StackWith(v, f, d, k, e, s) ==
  FramesOf(v, f, e, PathOf(v, d, k), Extent(v, e)) \o <<After(f, e)>> \o Tail(s)
NewOf(v, d, e) == {x \in {Child(v, d, e)} : e.attr = DIR}

\* The stack once the entry is passed, and its directory entered.
LEMMA EnterStacks ==
  ASSUME NEW v, IsVolume(v), geometry_ok(v), NEW G, NEW a, NEW f, NEW d, NEW k, NEW e,
         AtEntry(v, G, a, f, d, k, e), MayEnter(v, a, f, e),
         NEW New, New = NewOf(v, d, e), NEW H, H = Advance(G, d, New),
         NEW s, s = a.stack, NEW t, t = StackWith(v, f, d, k, e, s)
  PROVE  Grown(v, H, New, s, t)
<1> USE DEF Grown, StackWith, NewOf
<1>1. PICK h, u : h = After(f, e) /\ u = <<h>> \o Tail(s)
  OBVIOUS
<1>2. MayAdvance(v, G, d, New)
  BY EnterAdvances
<1>3. NextTop(v, G, d, k, f, h)
  BY <1>1, AfterIs
<1>4. Stacked(v, G, s) /\ Top(v, G, s, f, d, k)
  BY DEF AtEntry, Good
<1>5. Stacked(v, H, u) /\ (\A x \in New : ~OnStack(s, x)) /\ \A x : OnStack(u, x) <=> OnStack(s, x)
  BY <1>1, <1>2, <1>3, <1>4, TopAdvances
<1>6. CASE e.attr # DIR
  <2>1. New = {}
    BY <1>6
  <2>2. t = << >> \o <<h>> \o Tail(s)
    BY <1>1, <1>6 DEF FramesOf
  <2>3. << >> \o <<h>> = <<h>>
    OBVIOUS
  <2>4. t = u
    BY <1>1, <2>2, <2>3
  <2> QED
    BY <1>5, <2>1, <2>4
<1>7. CASE e.attr = DIR
  <2>1. PICK c : c = Child(v, d, e) /\ New = {c}
    BY <1>7
  <2>2. PICK g : g = Frame(PathOf(v, d, k), e.first, f.cluster, payload(v, ChainFrom(v, e.first)))
    OBVIOUS
  <2>3. Extent(v, e) = ChainFrom(v, e.first)
    BY <1>7 DEF Extent, DIR, FILE
  <2>4. t = <<g>> \o <<h>> \o Tail(s)
    BY <1>1, <1>7, <2>2, <2>3 DEF FramesOf
  <2>5. DirIs(v, d) /\ e = Nth(v, d, k) /\ k \in Named(v, d)
    BY AtEntryIs DEF AtEntry
  <2>6. IsChild(v, d, k, c)
    BY <1>7, <2>1, <2>5 DEF IsChild
  <2>7. H[c] = 0 /\ c \in DOMAIN H
    <3>1. Advanced(v, G, d, New, H)
      BY <1>2, AdvanceIs
    <3> QED
      BY <2>1, <3>1 DEF Advanced
  <2>8. d = DirOf(f)
    BY <1>4 DEF Top
  <2>9. g \in Frames /\ DirOf(g) = c /\ FrameIs(v, H, g)
    BY <2>2, <2>5, <2>6, <2>7, <2>8, FrameOfChild
  <2>10. ~OnStack(u, c)
    BY <1>5, <2>1
  <2>11. Stacked(v, H, <<g>> \o u) /\ \A x : OnStack(<<g>> \o u, x) <=> x = c \/ OnStack(u, x)
    BY <1>5, <2>9, <2>10, PushStack
  <2>12. t = <<g>> \o u
    <3>1. Tail(s) \in Seq(Frames) /\ h \in Frames
      BY <1>3, <1>4, PopStack DEF Stacked, Top, NextTop
    <3>2. <<g>> \o <<h>> \o Tail(s) = <<g>> \o (<<h>> \o Tail(s))
      BY <2>9, <3>1, ConsTwice
    <3> QED
      BY <1>1, <2>4, <3>2
  <2> QED
    BY <1>5, <2>1, <2>11, <2>12
<1> QED
  BY <1>6, <1>7

\* An entry that may be entered is.
LEMMA EnterGood ==
  ASSUME NEW v, IsVolume(v), geometry_ok(v), NEW G, NEW a, NEW f, NEW d, NEW k, NEW e,
         AtEntry(v, G, a, f, d, k, e), MayEnter(v, a, f, e), NEW b, Entered(v, a, f, e, TRUE, b)
  PROVE  \E H : Good(v, b, H) /\ Moves(v, G, a.stack, H, b.stack)
<1>1. PICK New : New = NewOf(v, d, e)
  OBVIOUS
<1>2. PICK H : H = Advance(G, d, New)
  OBVIOUS
<1>3. PICK s : s = a.stack
  OBVIOUS
<1>4. PICK claimed, paths, files, t :
        /\ claimed = a.claimed \cup SpanOf(v, d, k)
        /\ paths = a.paths \cup {PathOf(v, d, k)}
        /\ files = FilesWith(v, a, e, PathOf(v, d, k), Extent(v, e))
        /\ t = StackWith(v, f, d, k, e, s)
  OBVIOUS
<1>5. d \in DOMAIN G /\ k = G[d] + 1 /\ e = Nth(v, d, k) /\ Append(f.dir, e.name) = PathOf(v, d, k)
      /\ Pathed(v, G, a.paths) /\ Claimed(v, G, a.claimed) /\ Filed(v, G, a.files)
  BY AtEntryIs
<1>6. k \in Named(v, d) /\ OnStack(s, d) /\ Closed(v, G, s)
  BY <1>3 DEF AtEntry, Top, Good
<1>7. EntryFits(v, d, k) /\ GotOf(v, a.claimed, e).clusters = Extent(v, e)
      /\ SpanOf(v, d, k) \cap a.claimed = {} /\ PathOf(v, d, k) \notin a.paths
  BY EnterFits
<1>8. Cardinality(a.paths) < MAX_PATHS
  BY DEF MayEnter
<1>9. b = [ok |-> TRUE, claimed |-> claimed, paths |-> paths, files |-> files, stack |-> t]
  <2>1. SpanOf(v, d, k) = Range(Extent(v, e))
    BY <1>5 DEF SpanOf
  <2> QED
    BY <1>3, <1>4, <1>5, <1>7, <2>1 DEF Entered, StackWith
<1>10. MayAdvance(v, G, d, New)
  BY <1>1, EnterAdvances DEF NewOf
<1>11. Grown(v, H, New, s, t)
  <2>1. t = StackWith(v, f, d, k, e, s)
    BY <1>4
  <2> QED
    BY <1>1, <1>2, <1>3, <2>1, EnterStacks
<1>12. Visits(v, H)
  BY <1>2, <1>10, AdvanceVisits
<1>13. Closed(v, H, t)
  BY <1>2, <1>6, <1>10, <1>11, StaysClosed DEF Grown
<1>14. Claimed(v, H, claimed)
  BY <1>2, <1>4, <1>5, <1>6, <1>7, <1>10, ClaimsMore
<1>15. Pathed(v, H, paths)
  BY <1>2, <1>4, <1>5, <1>6, <1>7, <1>8, <1>10, PathsMore
<1>16. Filed(v, H, files)
  <2>1. CASE e.attr = DIR
    <3>1. files = a.files
      BY <1>4, <2>1 DEF FilesWith
    <3>2. ~IsFile(v, d, G[d] + 1)
      BY <1>5, <2>1 DEF IsFile, DIR, FILE
    <3> QED
      BY <1>2, <1>5, <1>10, <3>1, <3>2, DirsFileNothing
  <2>2. CASE e.attr # DIR
    <3>1. IsFile(v, d, k)
      BY <1>5, <1>7, <2>2 DEF IsFile, EntryFits
    <3>2. content(v, e.size, Extent(v, e)) = FileAt(v, d, k)
      BY <1>5 DEF FileAt
    <3>3. files = [p \in DOMAIN a.files \cup {PathOf(v, d, k)} |->
                     IF p = PathOf(v, d, k) THEN FileAt(v, d, k) ELSE a.files[p]]
      BY <1>4, <2>2, <3>2 DEF FilesWith
    <3>4. PICK old, ps : old = a.files /\ ps = a.paths
      OBVIOUS
    <3>5. Pathed(v, G, ps) /\ Filed(v, G, old) /\ PathOf(v, d, k) \notin ps
      BY <1>5, <1>7, <3>4
    <3>6. files = [p \in DOMAIN old \cup {PathOf(v, d, k)} |->
                     IF p = PathOf(v, d, k) THEN FileAt(v, d, k) ELSE old[p]]
      BY <3>3, <3>4
    <3>7. k = G[d] + 1
      BY <1>5
    <3> QED
      BY <1>2, <1>6, <1>10, <3>1, <3>5, <3>6, <3>7, FilesMore
  <2> QED
    BY <2>1, <2>2
<1>17. Good(v, b, H)
  BY <1>9, <1>11, <1>12, <1>13, <1>14, <1>15, <1>16 DEF Good, Grown
<1>18. Passes(v, G, s, d, H, t)
  BY <1>2, <1>6, <1>10, <1>11 DEF Passes, Grown
<1>19. b.stack = t
  BY <1>9
<1> QED
  BY <1>3, <1>17, <1>18, <1>19 DEF Moves

\* In an orderly volume every entry may be entered.
LEMMA OrderlyEnters ==
  ASSUME NEW v, IsVolume(v), geometry_ok(v), NEW G, NEW a, NEW f, NEW d, NEW k, NEW e,
         AtEntry(v, G, a, f, d, k, e), Orderly(v)
  PROVE  MayEnter(v, a, f, e)
<1>1. Visits(v, G) /\ d \in DOMAIN G /\ d \in Dirs(v) /\ DirIs(v, d) /\ k = G[d] + 1 /\ k \in InUse(v, d)
      /\ UsedIs(e) /\ e = Nth(v, d, k) /\ Append(f.dir, e.name) = PathOf(v, d, k)
      /\ Pathed(v, G, a.paths) /\ Claimed(v, G, a.claimed)
  BY AtEntryIs
<1>2. k \in Named(v, d)
  BY DEF AtEntry
<1>3. PathOf(v, d, k) \notin a.paths /\ SpanOf(v, d, k) \cap a.claimed = {}
  BY <1>1, <1>2, OrderlyFree
<1>4. Cardinality(a.paths) < MAX_PATHS
  BY <1>1, <1>2, OrderlyRoom
<1>5. EntryFits(v, d, k)
  BY <1>1, OrderlyEntry
<1>6. ExtentFits(v, e) /\ e.attr \in {DIR, FILE}
  BY <1>1, <1>2, <1>5 DEF EntryFits
<1>7. GotOf(v, a.claimed, e).ok
  BY <1>1, <1>3, <1>6, GotAccepts DEF SpanOf
<1>8. GotOf(v, a.claimed, e).clusters = Extent(v, e)
  BY <1>1, <1>7, GotIs
<1>9. Sized(v, e, GotOf(v, a.claimed, e).clusters)
  BY <1>6, <1>8 DEF Sized, ExtentFits
<1>10. ASSUME e.attr = DIR PROVE Len(PathOf(v, d, k)) <= MAX_DEPTH
  <2>1. PICK c : c = Child(v, d, e)
    OBVIOUS
  <2>2. IsChild(v, d, k, c)
    BY <1>1, <1>2, <1>10, <2>1 DEF IsChild
  <2>3. Len(c.path) <= MAX_DEPTH /\ c.path = PathOf(v, d, k)
    BY <1>1, <2>2, OrderlyShallow, ChildIs DEF PathOf
  <2> QED
    BY <2>3
<1> QED
  BY <1>1, <1>3, <1>4, <1>7, <1>9, <1>10 DEF MayEnter

\* The turn of walk at a named entry.
LEMMA TurnEnters ==
  ASSUME NEW v, IsVolume(v), geometry_ok(v), NEW G, NEW a, NEW f, NEW d, NEW k, NEW e,
         AtEntry(v, G, a, f, d, k, e), NEW b, b = enter(v, a, f, e)
  PROVE  TurnYields(v, G, a, b)
<1>1. PICK w \in BOOLEAN : (w <=> MayEnter(v, a, f, e)) /\ Entered(v, a, f, e, w, b)
  BY EnterIs
<1>2. b.ok <=> w
  BY <1>1 DEF Entered
<1>3. CASE w
  <2>1. MayEnter(v, a, f, e) /\ w = TRUE
    BY <1>1, <1>3
  <2>2. Entered(v, a, f, e, TRUE, b)
    BY <1>1, <2>1
  <2> QED
    BY <1>2, <1>3, <2>1, <2>2, EnterGood DEF TurnYields
<1>4. CASE ~w
  <2>1. ~Orderly(v)
    BY <1>1, <1>4, OrderlyEnters
  <2> QED
    BY <1>2, <1>4, <2>1 DEF TurnYields
<1> QED
  BY <1>3, <1>4

\* Every turn is one of these.
LEMMA TurnOf ==
  ASSUME NEW v, IsVolume(v), geometry_ok(v), NEW G, NEW a, Good(v, a, G), a.ok, a.stack # << >>,
         NEW b, b = walkEntry(v, a)
  PROVE  TurnYields(v, G, a, b)
<1>1. PICK s, f, d : s = a.stack /\ f = Head(s) /\ d = DirOf(f)
  OBVIOUS
<1>2. PICK k : k = G[d] + 1
  OBVIOUS
<1>3. Visits(v, G) /\ Stacked(v, G, s)
  BY <1>1 DEF Good
<1>4. Top(v, G, s, f, d, k)
  BY <1>1, <1>2, <1>3, TopIs
<1>5. CASE over(v, f)
  <2>1. (b.ok => Good(v, b, G) /\ Moves(v, G, a.stack, G, b.stack)) /\ (~b.ok => ~Orderly(v))
    BY <1>1, <1>5, TurnLeaves
  <2> QED
    BY <2>1 DEF TurnYields
<1>6. CASE ~over(v, f)
  <2>1. PICK e : e = Nth(v, d, k) /\ e = entry(v, f.slots[f.at])
    BY <1>4 DEF Top
  <2>2. e.kind \in {"deleted", "used"} /\ (k \in InUse(v, d) <=> e.kind = "used")
    <3>1. Nth(v, d, k).kind \in {"deleted", "used"} /\ (k \in InUse(v, d) <=> Nth(v, d, k).kind = "used")
      BY <1>3, <1>4, <1>6, PlaceIs
    <3> QED
      BY <2>1, <3>1
  <2>3. CASE e.kind = "deleted"
    BY <1>1, <1>4, <1>6, <2>1, <2>3, TurnDeleted
  <2>4. CASE e.kind = "used"
    <3>1. k \in InUse(v, d)
      BY <2>2, <2>4
    <3>2. CASE ~entry_ok(f, e)
      <4>1. b = [a EXCEPT !.ok = FALSE]
        BY <1>1, <1>6, <2>1, <2>4, <3>2 DEF walkEntry
      <4> QED
        BY <1>1, <1>4, <1>6, <2>1, <3>1, <3>2, <4>1, TurnRefuses
    <3>3. CASE entry_ok(f, e) /\ e.name \notin {".", ".."}
      <4>1. b = enter(v, a, f, e)
        BY <1>1, <1>6, <2>1, <2>4, <3>3 DEF walkEntry
      <4>2. k \in Named(v, d)
        BY <2>1, <3>1, <3>3 DEF Named
      <4>3. AtEntry(v, G, a, f, d, k, e)
        BY <1>1, <1>4, <1>6, <2>1, <3>3, <4>2 DEF AtEntry
      <4> QED
        BY <4>1, <4>3, TurnEnters, ZenonT(40)
    <3>4. CASE entry_ok(f, e) /\ e.name \in {".", ".."}
      <4>1. CASE dot_ok(f, e)
        BY <1>1, <1>4, <1>6, <2>1, <3>1, <3>4, <4>1, TurnDot
      <4>2. CASE ~dot_ok(f, e)
        <5>1. b = [a EXCEPT !.ok = FALSE]
          BY <1>1, <1>6, <2>1, <2>4, <3>4, <4>2 DEF walkEntry
        <5> QED
          BY <1>1, <1>4, <1>6, <2>1, <3>1, <3>4, <4>2, <5>1, TurnRefuses
      <4> QED
        BY <4>1, <4>2
    <3> QED
      BY <3>2, <3>3, <3>4
  <2> QED
    BY <2>2, <2>3, <2>4
<1> QED
  BY <1>5, <1>6

-----------------------------------------------------------------------------
(* Why the walk ends: each turn spends a token of its own. *)
Token(d, j) == IF j = 0 THEN <<d.cluster, 0>> ELSE d.slots[j]

\* Where a directory's clusters come from.
OwnerIs(v, G, d, p, i) ==
  /\ Found(v, G, p, i) /\ IsChild(v, p, i, d) /\ Owned(v, d) = SpanOf(v, p, i)
  /\ Owned(v, d) \subseteq allocated(v) /\ d.cluster \in Owned(v, d)

\* Every visited directory but the root has an entry it was entered by.
LEMMA Owner ==
  ASSUME NEW v, IsVolume(v), geometry_ok(v), NEW G, Visits(v, G), NEW d \in DOMAIN G, d # Root(v)
  PROVE  \E p, i : OwnerIs(v, G, d, p, i)
<1>1. PICK p, i : p \in DOMAIN G /\ IsChild(v, p, i, d) /\ i <= G[p]
  BY DEF Visits
<1>2. DirIs(v, p) /\ Named(v, p) \subseteq InUse(v, p) /\ ReadTo(v, p, G[p])
  BY <1>1, VisitIs DEF Visits
<1>3. PICK e : e = Nth(v, p, i)
  OBVIOUS
<1>4. i \in Named(v, p) /\ i \in InUse(v, p) /\ e.attr = DIR
  BY <1>1, <1>2, <1>3 DEF IsChild
<1>5. Found(v, G, p, i)
  BY <1>1, <1>4 DEF Found, Met
<1>6. Owned(v, d) = Range(ChainFrom(v, e.first)) /\ d.cluster = e.first
  BY <1>1, <1>2, <1>3, ChildIs
<1>7. Extent(v, e) = ChainFrom(v, e.first)
  BY <1>4 DEF Extent, DIR, FILE
<1>8. ExtentFits(v, e)
  BY <1>1, <1>2, <1>3, <1>4 DEF ReadTo, EntryFits
<1>9. ChainFrom(v, e.first) # << >>
  BY <1>4, <1>7, <1>8 DEF ExtentFits, DIR, FILE
<1>10. Range(ChainFrom(v, e.first)) \subseteq allocated(v) /\ e.first \in Range(ChainFrom(v, e.first))
  BY <1>9, ChainSlots
<1>11. Owned(v, d) = SpanOf(v, p, i)
  BY <1>3, <1>6, <1>7 DEF SpanOf
<1> QED
  BY <1>1, <1>5, <1>6, <1>10, <1>11 DEF OwnerIs

\* The root owns cluster 0, which no chain can hold.
LEMMA ZeroIsFree ==
  ASSUME NEW v, IsVolume(v), geometry_ok(v)
  PROVE  0 \notin allocated(v) /\ Owned(v, Root(v)) = {0} /\ Root(v).cluster = 0
<1>1. 0 \notin allocated(v)
  BY GeometryIs DEF allocated
<1> QED
  BY <1>1, RootIs DEF Owned

\* No two directories share a cluster.
LEMMA OwnedApart ==
  ASSUME NEW v, IsVolume(v), geometry_ok(v), NEW G, Visits(v, G), NEW claimed, Claimed(v, G, claimed),
         NEW d \in DOMAIN G, NEW e \in DOMAIN G, NEW x, x \in Owned(v, d), x \in Owned(v, e)
  PROVE  d = e
<1>1. CASE d = Root(v) /\ e = Root(v)
  BY <1>1
<1>2. CASE d = Root(v) /\ e # Root(v)
  BY <1>2, ZeroIsFree, Owner DEF OwnerIs
<1>3. CASE d # Root(v) /\ e = Root(v)
  BY <1>3, ZeroIsFree, Owner DEF OwnerIs
<1>4. CASE d # Root(v) /\ e # Root(v)
  <2>1. PICK p, i : OwnerIs(v, G, d, p, i)
    BY <1>4, Owner
  <2>2. PICK q, j : OwnerIs(v, G, e, q, j)
    BY <1>4, Owner
  <2>3. p = q /\ i = j
    BY <2>1, <2>2 DEF OwnerIs, Claimed
  <2> QED
    BY <2>1, <2>2, <2>3 DEF OwnerIs, IsChild
<1> QED
  BY <1>1, <1>2, <1>3, <1>4

\* A visited directory owns the cluster it starts at.
LEMMA ClusterIsOwned ==
  ASSUME NEW v, IsVolume(v), geometry_ok(v), NEW G, Visits(v, G), NEW d \in DOMAIN G
  PROVE  d.cluster \in Owned(v, d) /\ Owned(v, d) \subseteq allocated(v) \cup {0}
<1>1. CASE d = Root(v)
  BY <1>1, ZeroIsFree
<1>2. CASE d # Root(v)
  BY <1>2, Owner DEF OwnerIs
<1> QED
  BY <1>1, <1>2

\* A token is a place of one of the directory's clusters.
LEMMA TokenIs ==
  ASSUME NEW v, IsVolume(v), geometry_ok(v), NEW G, Visits(v, G), NEW d \in DOMAIN G,
         NEW i \in 0..Len(d.slots), NEW t, t = Token(d, i)
  PROVE  /\ t = <<t[1], t[2]>> /\ t[1] \in Owned(v, d)
         /\ i = 0 => t[2] = 0
         /\ i # 0 => t = d.slots[i] /\ t[2] \in DOMAIN block(v, t[1]) /\ t[2] # 0 /\ i \in 1..Len(d.slots)
<1>1. SlotsOf(v, d.slots, Owned(v, d)) /\ Len(d.slots) \in Nat
  BY VisitIs DEF DirIs
<1>2. CASE i = 0
  BY <1>2, ClusterIsOwned DEF Token
<1>3. CASE i # 0
  <2>1. i \in 1..Len(d.slots) /\ t = d.slots[i]
    BY <1>1, <1>3 DEF Token
  <2>2. d.slots[i] \in Nat \X Nat /\ d.slots[i][1] \in Owned(v, d)
        /\ d.slots[i][2] \in DOMAIN block(v, d.slots[i][1])
    BY <1>1, <2>1 DEF SlotsOf
  <2>3. PICK c : c = t[1]
    OBVIOUS
  <2>4. block(v, c) \in Seq(Entries)
    BY BlockIs
  <2>5. t[2] \in DOMAIN block(v, c)
    BY <2>1, <2>2, <2>3
  <2>6. t[2] # 0
    BY <2>4, <2>5
  <2> QED
    BY <1>3, <2>1, <2>2, <2>6
<1> QED
  BY <1>2, <1>3

\* Every slot of every visited directory has a token of its own.
LEMMA TokensDiffer ==
  ASSUME NEW v, IsVolume(v), geometry_ok(v), NEW G, Visits(v, G), NEW claimed, Claimed(v, G, claimed),
         NEW d \in DOMAIN G, NEW e \in DOMAIN G, NEW i \in 0..Len(d.slots), NEW j \in 0..Len(e.slots),
         Token(d, i) = Token(e, j)
  PROVE  d = e /\ i = j
<1>1. PICK t : t = Token(d, i) /\ t = Token(e, j)
  OBVIOUS
<1>2. t[1] \in Owned(v, d) /\ (i = 0 => t[2] = 0)
      /\ (i # 0 => t = d.slots[i] /\ t[2] # 0 /\ i \in 1..Len(d.slots))
  BY <1>1, TokenIs
<1>3. t[1] \in Owned(v, e) /\ (j = 0 => t[2] = 0)
      /\ (j # 0 => t = e.slots[j] /\ t[2] # 0 /\ j \in 1..Len(e.slots))
  BY <1>1, TokenIs
<1>4. d = e
  BY <1>2, <1>3, OwnedApart
<1>5. SlotsOf(v, d.slots, Owned(v, d))
  BY VisitIs DEF DirIs
<1> QED
  BY <1>2, <1>3, <1>4, <1>5 DEF SlotsOf

\* The tokens of the slots passed are among the turns the walk may take.
LEMMA TokenIsTurn ==
  ASSUME NEW v, IsVolume(v), geometry_ok(v), NEW G, Visits(v, G), NEW d \in DOMAIN G, NEW i \in 0..G[d]
  PROVE  Token(d, i) \in Turns(v) /\ i \in 0..Len(d.slots)
<1>1. G[d] \in Nat /\ G[d] <= Len(d.slots) /\ Len(d.slots) \in Nat
  BY VisitIs
<1>2. i \in 0..Len(d.slots)
  BY <1>1
<1>3. PICK t, c, j : t = Token(d, i) /\ c = t[1] /\ j = t[2]
  OBVIOUS
<1>4. t = <<c, j>> /\ c \in Owned(v, d) /\ (i = 0 => j = 0)
      /\ (i # 0 => t = d.slots[i] /\ j \in DOMAIN block(v, c) /\ i \in 1..Len(d.slots))
  BY <1>2, <1>3, TokenIs
<1>5. c \in allocated(v) \cup {0}
  BY <1>4, ClusterIsOwned
<1>6. j \in {0} \cup {m \in DOMAIN block(v, c) : block(v, c)[m].kind # "end"}
  <2>1. CASE i = 0
    BY <1>4, <2>1
  <2>2. CASE i # 0
    <3>1. ReadTo(v, d, G[d]) /\ i \in 1..G[d]
      BY <1>1, <2>2 DEF Visits
    <3>2. Nth(v, d, i).kind # "end"
      BY <3>1 DEF ReadTo
    <3>3. d.slots[i][1] = c /\ d.slots[i][2] = j
      BY <1>3, <1>4, <2>2
    <3>4. Nth(v, d, i) = block(v, c)[j]
      BY <3>3 DEF Nth, entry
    <3> QED
      BY <1>4, <2>2, <3>2, <3>4
  <2> QED
    BY <2>1, <2>2
<1> QED
  BY <1>2, <1>3, <1>4, <1>5, <1>6 DEF Turns

\* The tokens of the slots passed, and of the directories left.
Spends(G, s, d, i) == d \in DOMAIN G /\ i \in 0..G[d] /\ (i = 0 => ~OnStack(s, d))
Spent(v, G, s) == {t \in Turns(v) : \E d, i : Spends(G, s, d, i) /\ t = Token(d, i)}

\* Spending i in d is new, and all that is new.
Spending(v, G, s, H, r, d, i) ==
  /\ Spends(H, r, d, i) /\ ~Spends(G, s, d, i) /\ d \in DOMAIN G /\ i \in 0..Len(d.slots)
  /\ \A x, j : Spends(H, r, x, j) <=> Spends(G, s, x, j) \/ (x = d /\ j = i)

\* A turn that moves passes one slot, or leaves one directory.
LEMMA MoveSpends ==
  ASSUME NEW v, IsVolume(v), geometry_ok(v), NEW G, Visits(v, G), NEW s, NEW H, NEW r, Moves(v, G, s, H, r)
  PROVE  \E d, i : Spending(v, G, s, H, r, d, i)
<1>1. PICK d : Leaves(G, s, d, H, r) \/ Passes(v, G, s, d, H, r)
  BY DEF Moves
<1>2. CASE Leaves(G, s, d, H, r)
  <2>1. d \in DOMAIN G /\ H = G /\ OnStack(s, d) /\ \A x : OnStack(r, x) <=> x # d /\ OnStack(s, x)
    BY <1>2 DEF Leaves
  <2>2. G[d] \in Nat /\ Len(d.slots) \in Nat
    BY <2>1, VisitIs
  <2>3. Spending(v, G, s, H, r, d, 0)
    BY <2>1, <2>2 DEF Spending, Spends
  <2> QED
    BY <2>3
<1>3. CASE Passes(v, G, s, d, H, r)
  <2>1. PICK New : /\ MayAdvance(v, G, d, New) /\ H = Advance(G, d, New) /\ OnStack(s, d)
                   /\ \A x : OnStack(r, x) <=> x \in New \/ OnStack(s, x)
    BY <1>3 DEF Passes
  <2>2. d \in DOMAIN G /\ G[d] + 1 <= Len(d.slots) /\ New \cap DOMAIN G = {}
    BY <2>1 DEF MayAdvance
  <2>3. Advanced(v, G, d, New, H)
    BY <2>1, AdvanceIs
  <2>4. G[d] \in Nat /\ Len(d.slots) \in Nat
    BY <2>2, VisitIs
  <2>5. PICK n : n = G[d] + 1 /\ n \in Nat /\ n # 0
    BY <2>4
  <2>6. DOMAIN H = DOMAIN G \cup New /\ H[d] = n /\ (\A x \in DOMAIN G : x # d => H[x] = G[x])
        /\ \A c \in New : H[c] = 0 /\ c # d /\ c \notin DOMAIN G
    BY <2>3, <2>5 DEF Advanced
  <2>7. Spends(H, r, d, n) /\ ~Spends(G, s, d, n) /\ n \in 0..Len(d.slots)
    BY <2>2, <2>4, <2>5, <2>6 DEF Spends
  <2>8. ASSUME NEW x, NEW j PROVE Spends(H, r, x, j) <=> Spends(G, s, x, j) \/ (x = d /\ j = n)
    <3>1. CASE x \in New
      BY <2>1, <2>6, <3>1 DEF Spends
    <3>2. CASE x \notin New /\ x # d
      BY <2>1, <2>6, <3>2 DEF Spends
    <3>3. CASE x = d
      <4>1. OnStack(r, d) /\ OnStack(s, d)
        BY <2>1
      <4>2. j \in 0..n <=> j \in 0..G[d] \/ j = n
        BY <2>4, <2>5
      <4> QED
        BY <2>2, <2>5, <2>6, <3>3, <4>1, <4>2 DEF Spends
    <3> QED
      BY <3>1, <3>2, <3>3
  <2>9. Spending(v, G, s, H, r, d, n)
    BY <2>2, <2>7, <2>8 DEF Spending
  <2> QED
    BY <2>9
<1> QED
  BY <1>1, <1>2, <1>3

\* A turn that moves spends one token more.
LEMMA SpentGrows ==
  ASSUME NEW v, IsVolume(v), geometry_ok(v), NEW G, NEW a, Good(v, a, G), NEW H, NEW b, Good(v, b, H),
         Moves(v, G, a.stack, H, b.stack)
  PROVE  \E t : t \notin Spent(v, G, a.stack) /\ Spent(v, H, b.stack) = Spent(v, G, a.stack) \cup {t}
<1>1. PICK s, r : s = a.stack /\ r = b.stack
  OBVIOUS
<1>2. Visits(v, G) /\ Visits(v, H) /\ Claimed(v, G, a.claimed)
  BY DEF Good
<1>3. PICK d, i : Spending(v, G, s, H, r, d, i)
  BY <1>1, <1>2, MoveSpends
<1>4. PICK t : t = Token(d, i)
  OBVIOUS
<1>5. d \in DOMAIN H /\ i \in 0..H[d] /\ d \in DOMAIN G /\ i \in 0..Len(d.slots)
  BY <1>3 DEF Spending, Spends
<1>6. t \in Turns(v)
  BY <1>2, <1>4, <1>5, TokenIsTurn
<1>7. ASSUME NEW x, NEW j, Spends(G, s, x, j) PROVE Token(x, j) # t
  <2>1. x \in DOMAIN G /\ j \in 0..G[x]
    BY <1>7 DEF Spends
  <2>2. j \in 0..Len(x.slots)
    BY <1>2, <2>1, TokenIsTurn
  <2>3. ~(x = d /\ j = i)
    BY <1>3, <1>7 DEF Spending
  <2> QED
    BY <1>2, <1>4, <1>5, <2>1, <2>2, <2>3, TokensDiffer
<1>8. t \notin Spent(v, G, s)
  BY <1>7 DEF Spent
<1>9. Spent(v, H, r) = Spent(v, G, s) \cup {t}
  BY <1>3, <1>4, <1>6 DEF Spent, Spending
<1> QED
  BY <1>1, <1>8, <1>9

\* At the start of the walk no token is spent.
LEMMA NothingSpent ==
  ASSUME NEW v, IsVolume(v), geometry_ok(v), NEW G, G = [d \in {Root(v)} |-> 0],
         Good(v, Opened(v), G)
  PROVE  Spent(v, G, Opened(v).stack) = {}
<1>1. PICK s : s = Opened(v).stack /\ s = <<Frame(<< >>, 0, 0, payload(v, <<0>>))>>
  BY DEF Opened
<1>2. OnStack(s, Root(v))
  <2>1. DirOf(s[1]) = Root(v) /\ Len(s) = 1
    BY <1>1 DEF DirOf, Frame, Root
  <2> QED
    BY <2>1 DEF OnStack
<1>3. \A d, i : ~Spends(G, s, d, i)
  BY <1>2 DEF Spends
<1> QED
  BY <1>1, <1>3 DEF Spent

\* While a directory is open, a token is left.
LEMMA TokenLeft ==
  ASSUME NEW v, IsVolume(v), geometry_ok(v), NEW G, NEW a, Good(v, a, G), a.stack # << >>
  PROVE  Spent(v, G, a.stack) # Turns(v)
<1>1. PICK s : s = a.stack
  OBVIOUS
<1>2. Visits(v, G) /\ Claimed(v, G, a.claimed) /\ Stacked(v, G, s) /\ s # << >>
  BY <1>1 DEF Good
<1>3. PICK d : d = DirOf(Head(s))
  OBVIOUS
<1>4. OnStack(s, d) /\ d \in DOMAIN G
  BY <1>2, <1>3, PopStack DEF FrameIs
<1>5. G[d] \in Nat /\ 0 \in 0..G[d]
  BY <1>2, <1>4, VisitIs
<1>6. PICK z : z = 0
  OBVIOUS
<1>7. Token(d, z) \in Turns(v) /\ z \in 0..Len(d.slots)
  BY <1>2, <1>4, <1>5, <1>6, TokenIsTurn
<1>8. ASSUME NEW x, NEW j, Spends(G, s, x, j) PROVE Token(x, j) # Token(d, z)
  <2>1. x \in DOMAIN G /\ j \in 0..G[x] /\ ~(x = d /\ j = z)
    BY <1>4, <1>6, <1>8 DEF Spends
  <2>2. j \in 0..Len(x.slots)
    BY <1>2, <2>1, TokenIsTurn
  <2> QED
    BY <1>2, <1>4, <1>7, <2>1, <2>2, TokensDiffer
<1>9. Token(d, z) \notin Spent(v, G, s)
  BY <1>8 DEF Spent
<1> QED
  BY <1>1, <1>7, <1>9

\* What n turns have led to.
Reached(v, n, a) ==
  /\ a.ok => \E G : Good(v, a, G) /\ (a.stack = << >> \/ Cardinality(Spent(v, G, a.stack)) = n)
  /\ ~a.ok => ~Orderly(v)

\* One turn of the walk, from what n turns have reached.
LEMMA TurnAfter ==
  ASSUME NEW v, IsVolume(v), geometry_ok(v), NEW n \in Nat, NEW a, Reached(v, n, a),
         NEW b, b = walkEntry(v, a)
  PROVE  Reached(v, n + 1, b)
<1>1. CASE ~a.ok
  <2>1. b = a
    BY <1>1 DEF walkEntry
  <2> QED
    BY <1>1, <2>1 DEF Reached
<1>2. CASE a.ok
  <2>1. PICK G : Good(v, a, G) /\ (a.stack = << >> \/ Cardinality(Spent(v, G, a.stack)) = n)
    BY <1>2 DEF Reached
  <2>2. CASE a.stack = << >>
    <3>1. b = a
      BY <2>2 DEF walkEntry
    <3> QED
      BY <1>2, <2>1, <2>2, <3>1 DEF Reached
  <2>3. CASE a.stack # << >>
    <3>1. TurnYields(v, G, a, b)
      BY <1>2, <2>1, <2>3, TurnOf
    <3>2. ASSUME b.ok PROVE \E H : Good(v, b, H) /\ Cardinality(Spent(v, H, b.stack)) = n + 1
      <4>1. PICK H : Good(v, b, H) /\ Moves(v, G, a.stack, H, b.stack)
        BY <3>1, <3>2 DEF TurnYields
      <4>2. PICK S, R, t : S = Spent(v, G, a.stack) /\ R = Spent(v, H, b.stack) /\ t \notin S /\ R = S \cup {t}
        BY <2>1, <4>1, SpentGrows
      <4>3. IsFiniteSet(S)
        <5>1. S \subseteq Turns(v)
          BY <4>2 DEF Spent
        <5> QED
          BY <5>1, TurnsAre, FS_Subset
      <4>4. Cardinality(R) = n + 1
        BY <2>1, <2>3, <4>2, <4>3, FS_AddElement
      <4> QED
        BY <4>1, <4>2, <4>4
    <3> QED
      BY <3>1, <3>2 DEF Reached, TurnYields
  <2> QED
    BY <2>2, <2>3
<1> QED
  BY <1>1, <1>2

\* The walk is over when its turns are.
LEMMA WalkIs ==
  ASSUME NEW v, IsVolume(v), geometry_ok(v), NEW w, w = walk(v)
  PROVE  /\ w.ok => w.stack = << >> /\ \E G : Good(v, w, G)
         /\ ~w.ok => ~Orderly(v)
<1>1. PICK N : N = Cardinality(Turns(v)) /\ N \in Nat
  BY TurnsAre
<1>2. PICK g : Walked(v, N, g) /\ w = g[N]
  BY <1>1, WalkTurns
<1>3. Reached(v, 0, g[0])
  <2>1. PICK G : G = [d \in {Root(v)} |-> 0]
    OBVIOUS
  <2>2. Good(v, Opened(v), G)
    BY <2>1, OpenedGood
  <2>3. Spent(v, G, Opened(v).stack) = {} /\ Cardinality({}) = 0
    BY <2>1, <2>2, NothingSpent, FS_EmptySet
  <2>4. g[0] = Opened(v) /\ Opened(v).ok
    BY <1>2 DEF Walked, Opened
  <2> QED
    BY <2>2, <2>3, <2>4 DEF Reached
<1>4. ASSUME NEW n \in 1..N, Reached(v, n - 1, g[n - 1]) PROVE Reached(v, n, g[n])
  <2>1. g[n] = walkEntry(v, g[n - 1])
    BY <1>2 DEF Walked
  <2>2. PICK m : m = n - 1 /\ m \in Nat /\ n = m + 1
    BY <1>1
  <2> QED
    BY <1>4, <2>1, <2>2, TurnAfter
<1> DEFINE S == {n \in 0..N : Reached(v, n, g[n])}
<1>5. 0 \in S
  BY <1>1, <1>3
<1>6. \A n \in 1..N : n - 1 \in S => n \in S
  BY <1>1, <1>4
<1>7. Reached(v, N, w)
  <2> HIDE DEF S
  <2>1. \A n \in 0..N : n \in S
    BY <1>1, <1>5, <1>6, UpTo
  <2>2. N \in S
    BY <1>1, <2>1
  <2> QED
    BY <1>2, <2>2 DEF S
<1>8. ASSUME w.ok PROVE w.stack = << >> /\ \E G : Good(v, w, G)
  <2>1. PICK G : Good(v, w, G) /\ (w.stack = << >> \/ Cardinality(Spent(v, G, w.stack)) = N)
    BY <1>7, <1>8 DEF Reached
  <2>2. SUFFICES ASSUME w.stack # << >> PROVE FALSE
    BY <2>1
  <2>3. PICK T : T = Spent(v, G, w.stack)
    OBVIOUS
  <2>4. T \subseteq Turns(v)
    BY <2>3 DEF Spent
  <2>5. T = Turns(v)
    <3>1. Cardinality(T) = Cardinality(Turns(v))
      BY <1>1, <2>1, <2>2, <2>3
    <3> QED
      BY <2>4, <3>1, TurnsAre, FS_Subset
  <2> QED
    BY <2>1, <2>2, <2>3, <2>5, TokenLeft
<1> QED
  BY <1>7, <1>8 DEF Reached

-----------------------------------------------------------------------------
(* Where the walk ends. *)
\* The walk of the whole tree: every directory is read to its end.
WholeTree(v, w, G) ==
  /\ Good(v, w, G) /\ DOMAIN G = Dirs(v) /\ DirsAt(v)[MAX_DEPTH + 1] = {}
  /\ \A d \in Dirs(v) : DirSound(v, d)
  /\ \A d, i : Found(v, G, d, i) <=> d \in Dirs(v) /\ i \in Named(v, d)

\* A walk that has ended without a fault has read the whole tree.
LEMMA WalkedWhole ==
  ASSUME NEW v, IsVolume(v), geometry_ok(v), NEW w, NEW G, Good(v, w, G), w.stack = << >>
  PROVE  WholeTree(v, w, G)
<1>1. Visits(v, G) /\ Closed(v, G, << >>)
  BY DEF Good
<1>2. ASSUME NEW d \in DOMAIN G PROVE d \in Dirs(v) /\ DirSound(v, d) /\ \A i \in InUse(v, d) : i <= G[d]
  <2>1. EndsAt(v, d, G[d])
    BY <1>1 DEF Closed, OnStack
  <2>2. DirIs(v, d) /\ d \in Dirs(v) /\ ReadTo(v, d, G[d])
    BY <1>1, VisitIs DEF Visits
  <2> QED
    BY <2>1, <2>2, EndedSound
<1>3. ASSUME NEW d \in DOMAIN G, NEW i, NEW c, IsChild(v, d, i, c) PROVE c \in DOMAIN G
  <2>1. i \in InUse(v, d)
    BY <1>1, <1>3, VisitIs DEF IsChild
  <2>2. i <= G[d]
    BY <1>2, <2>1
  <2> QED
    BY <1>1, <1>3, <2>2 DEF Visits
<1>4. PICK N : N = MAX_DEPTH /\ N \in Nat
  BY Fat16Assumption
<1> DEFINE S == {k \in 0..N : DirsAt(v)[k] \subseteq DOMAIN G}
<1>5. 0 \in S
  BY <1>1, <1>4, LevelsAre DEF Visits
<1>6. ASSUME NEW k \in 0..N, DirsAt(v)[k] \subseteq DOMAIN G PROVE DirsAt(v)[k + 1] \subseteq DOMAIN G
  BY <1>3, <1>4, <1>6, LevelIs
<1>7. \A k \in 1..N : k - 1 \in S => k \in S
  <2>1. SUFFICES ASSUME NEW k \in 1..N, k - 1 \in S PROVE k \in S
    OBVIOUS
  <2>2. PICK m : m = k - 1 /\ m \in 0..N /\ k = m + 1
    BY <1>4
  <2>3. DirsAt(v)[m] \subseteq DOMAIN G
    BY <2>1, <2>2
  <2> QED
    BY <1>6, <2>2, <2>3
<1>8. \A k \in 0..N : DirsAt(v)[k] \subseteq DOMAIN G
  <2> HIDE DEF S
  <2>1. \A k \in 0..N : k \in S
    BY <1>4, <1>5, <1>7, UpTo
  <2> QED
    BY <2>1 DEF S
<1>9. Dirs(v) \subseteq DOMAIN G
  BY <1>4, <1>8 DEF Dirs
<1>10. DirsAt(v)[MAX_DEPTH + 1] = {}
  <2>1. SUFFICES ASSUME NEW c \in DirsAt(v)[MAX_DEPTH + 1] PROVE FALSE
    OBVIOUS
  <2>2. N \in 0..N /\ DirsAt(v)[N + 1] \subseteq DOMAIN G
    BY <1>4, <1>6, <1>8
  <2>3. c \in Dirs(v)
    BY <1>2, <1>4, <2>1, <2>2
  <2>4. MAX_DEPTH + 1 \in 0..(MAX_DEPTH + 1)
    BY <1>4
  <2>5. Len(c.path) = MAX_DEPTH + 1 /\ Len(c.path) \in 0..MAX_DEPTH
    BY <2>1, <2>3, <2>4, DirsAre
  <2> QED
    BY <1>4, <2>5
<1>11. ASSUME NEW d, NEW i PROVE Found(v, G, d, i) <=> d \in Dirs(v) /\ i \in Named(v, d)
  <2>1. d \in DOMAIN G => Named(v, d) \subseteq InUse(v, d)
    BY <1>1, VisitIs
  <2> QED
    BY <1>2, <1>9, <2>1 DEF Found, Met
<1> QED
  BY <1>2, <1>9, <1>10, <1>11 DEF WholeTree

\* There are no more entries than paths.
LEMMA FewItems ==
  ASSUME NEW v, IsVolume(v), geometry_ok(v), NEW w, NEW G, WholeTree(v, w, G)
  PROVE  Cardinality(Items(v)) <= MAX_PATHS
<1>1. PICK paths : paths = w.paths /\ Pathed(v, G, paths)
  BY DEF WholeTree, Good
<1>2. \A d \in Dirs(v) : OneName(v, d)
  BY SoundFits DEF WholeTree
<1>3. \A c, d \in Dirs(v) : c.path = d.path => c = d
  BY <1>2, OneDir
<1>4. PICK f : f = [x \in Items(v) |-> Append(x[1], x[2].name)]
  OBVIOUS
<1>5. ASSUME NEW d, NEW i, NEW x, x = Item(v, d, i), x \in Items(v) PROVE f[x] = PathOf(v, d, i)
  <2>1. x[1] = d.path /\ x[2] = Nth(v, d, i)
    BY <1>5 DEF Item
  <2> QED
    BY <1>4, <1>5, <2>1 DEF PathOf
<1>6. ASSUME NEW x \in Items(v) PROVE f[x] \in paths
  <2>1. PICK d, i : d \in Dirs(v) /\ i \in Named(v, d) /\ x = Item(v, d, i)
    BY ItemsAre
  <2>2. Found(v, G, d, i)
    BY <2>1 DEF WholeTree
  <2> QED
    BY <1>1, <1>5, <2>1, <2>2 DEF Pathed
<1>7. ASSUME NEW x \in Items(v), NEW y \in Items(v), f[x] = f[y] PROVE x = y
  <2>1. PICK d, i : d \in Dirs(v) /\ i \in Named(v, d) /\ x = Item(v, d, i)
    BY ItemsAre
  <2>2. PICK e, j : e \in Dirs(v) /\ j \in Named(v, e) /\ y = Item(v, e, j)
    BY ItemsAre
  <2>3. PathOf(v, d, i) = PathOf(v, e, j)
    BY <1>5, <1>7, <2>1, <2>2
  <2>4. DirIs(v, d) /\ DirIs(v, e)
    BY <2>1, <2>2, DirsAre
  <2>5. i \in InUse(v, d) /\ j \in InUse(v, e)
    BY <2>1, <2>2, <2>4, NthIs
  <2>6. PICK p, q, m, n : p = d.path /\ q = e.path /\ m = Nth(v, d, i).name /\ n = Nth(v, e, j).name
    OBVIOUS
  <2>7. p \in Seq(STRING) /\ q \in Seq(STRING) /\ Append(p, m) = Append(q, n)
    BY <2>3, <2>4, <2>6 DEF DirIs, PathOf
  <2>8. p = q /\ m = n
    BY <2>7, AppendIs
  <2>9. d = e
    BY <1>3, <2>1, <2>2, <2>6, <2>8
  <2>10. i = j
    BY <1>2, <2>1, <2>2, <2>5, <2>6, <2>8, <2>9 DEF OneName
  <2> QED
    BY <2>1, <2>2, <2>9, <2>10
<1>8. f \in [Items(v) -> paths]
  BY <1>4, <1>6
<1>9. f \in Injection(Items(v), paths)
  BY <1>7, <1>8 DEF Injection, IsInjective
<1>10. IsFiniteSet(paths) /\ Cardinality(paths) <= MAX_PATHS
  BY <1>1 DEF Pathed
<1>11. Cardinality(Items(v)) <= Cardinality(paths)
  BY <1>9, <1>10, FS_Injection
<1> QED
  BY <1>10, <1>11, ItemsFinite, FS_CardinalityType, Fat16Assumption

\* An extent lies in the allocated clusters.
LEMMA ExtentAllocated ==
  ASSUME NEW v, IsVolume(v), geometry_ok(v), NEW e
  PROVE  Range(Extent(v, e)) \subseteq allocated(v)
<1>1. CASE e.attr = FILE /\ e.size = 0
  <2>1. Extent(v, e) = << >> /\ Range(<< >>) = {}
    BY <1>1 DEF Extent, Range
  <2> QED
    BY <2>1
<1>2. CASE ~(e.attr = FILE /\ e.size = 0)
  <2>1. Extent(v, e) = ChainFrom(v, e.first)
    BY <1>2 DEF Extent
  <2> QED
    BY <2>1, ChainSlots
<1> QED
  BY <1>1, <1>2

\* A volume that is read whole is orderly, and its items hold what the walk claimed.
LEMMA WholeIsOrderly ==
  ASSUME NEW v, IsVolume(v), geometry_ok(v), NEW w, NEW G, WholeTree(v, w, G)
  PROVE  /\ Orderly(v)
         /\ UNION {Range(Extent(v, x[2])) : x \in Items(v)} = w.claimed
         /\ w.claimed \subseteq allocated(v)
<1> DEFINE span(x) == Range(Extent(v, x[2]))
<1>1. ASSUME NEW d, NEW i, NEW x, x = Item(v, d, i) PROVE span(x) = SpanOf(v, d, i)
  <2>1. x[2] = Nth(v, d, i)
    BY <1>1 DEF Item
  <2> QED
    BY <2>1 DEF SpanOf
<1>2. PICK claimed : claimed = w.claimed /\ Claimed(v, G, claimed)
  BY DEF WholeTree, Good
<1>3. ASSUME NEW x \in Items(v), NEW y \in Items(v), x # y PROVE span(x) \cap span(y) = {}
  <2> HIDE DEF span
  <2>1. PICK d, i : d \in Dirs(v) /\ i \in Named(v, d) /\ x = Item(v, d, i)
    BY ItemsAre
  <2>2. PICK e, j : e \in Dirs(v) /\ j \in Named(v, e) /\ y = Item(v, e, j)
    BY ItemsAre
  <2>3. Found(v, G, d, i) /\ Found(v, G, e, j)
    BY <2>1, <2>2 DEF WholeTree
  <2>4. ~(d = e /\ i = j)
    BY <1>3, <2>1, <2>2
  <2>5. SpanOf(v, d, i) \cap SpanOf(v, e, j) = {}
    BY <1>2, <2>3, <2>4 DEF Claimed
  <2> QED
    BY <1>1, <2>1, <2>2, <2>5
<1>4. ASSUME NEW c PROVE c \in claimed <=> \E x \in Items(v) : c \in span(x)
  <2> HIDE DEF span
  <2>1. ASSUME c \in claimed PROVE \E x \in Items(v) : c \in span(x)
    <3>1. PICK d, i : Found(v, G, d, i) /\ c \in SpanOf(v, d, i)
      BY <1>2, <2>1 DEF Claimed
    <3>2. d \in Dirs(v) /\ i \in Named(v, d)
      BY <3>1 DEF WholeTree
    <3>3. PICK x : x = Item(v, d, i)
      OBVIOUS
    <3>4. x \in Items(v)
      BY <3>2, <3>3, ItemsAre
    <3> QED
      BY <1>1, <3>1, <3>3, <3>4
  <2>2. ASSUME NEW x \in Items(v), c \in span(x) PROVE c \in claimed
    <3>1. PICK d, i : d \in Dirs(v) /\ i \in Named(v, d) /\ x = Item(v, d, i)
      BY ItemsAre
    <3>2. Found(v, G, d, i)
      BY <3>1 DEF WholeTree
    <3>3. c \in SpanOf(v, d, i)
      BY <1>1, <2>2, <3>1
    <3> QED
      BY <1>2, <3>2, <3>3 DEF Claimed
  <2> QED
    BY <2>1, <2>2
<1>5. UNION {span(x) : x \in Items(v)} = claimed
  <2> HIDE DEF span
  <2> QED
    BY <1>4
<1>6. claimed \subseteq allocated(v)
  BY <1>4, ExtentAllocated
<1>7. Cardinality(Items(v)) <= MAX_PATHS
  BY FewItems
<1> QED
  BY <1>2, <1>3, <1>5, <1>6, <1>7 DEF Orderly, WholeTree

\* A path is its front and its last part.
LEMMA FrontLast ==
  ASSUME NEW S, NEW p \in Seq(S), p # << >>
  PROVE  Front(p) \in Seq(S) /\ Len(p) = Len(Front(p)) + 1 /\ Append(Front(p), Last(p)) = p
<1>1. PICK n : n = Len(p) - 1 /\ n \in Nat /\ Len(p) = n + 1
  OBVIOUS
<1>2. Front(p) \in Seq(S) /\ Len(Front(p)) = n /\ \A i \in 1..n : Front(p)[i] = p[i]
  BY <1>1 DEF Front
<1>3. Last(p) = p[n + 1] /\ Last(p) \in S
  BY <1>1 DEF Last
<1>4. PICK q, x : q = Front(p) /\ x = Last(p)
  OBVIOUS
<1>5. Append(q, x) \in Seq(S) /\ Len(Append(q, x)) = n + 1
      /\ \A i \in 1..(n + 1) : Append(q, x)[i] = IF i = n + 1 THEN x ELSE q[i]
  <2>1. q \in Seq(S) /\ Len(q) = n /\ x \in S /\ n \in Nat
    BY <1>1, <1>2, <1>3, <1>4
  <2>2. Append(q, x) \in Seq(S) /\ Len(Append(q, x)) = Len(q) + 1
        /\ (\A i \in 1..Len(q) : Append(q, x)[i] = q[i]) /\ Append(q, x)[Len(q) + 1] = x
    BY <2>1, AppendProperties
  <2>3. \A i \in 1..(n + 1) : i = n + 1 \/ (i # n + 1 /\ i \in 1..n)
    BY <2>1
  <2> QED
    BY <2>1, <2>2, <2>3
<1>6. \A i \in 1..(n + 1) : Append(q, x)[i] = p[i]
  <2>1. ASSUME NEW i \in 1..(n + 1) PROVE Append(q, x)[i] = p[i]
    <3>1. CASE i = n + 1
      BY <1>3, <1>4, <1>5, <3>1
    <3>2. CASE i # n + 1
      BY <1>1, <1>2, <1>4, <1>5, <3>2
    <3> QED
      BY <3>1, <3>2
  <2> QED
    BY <2>1
<1>7. Append(q, x) = p
  <2>1. PICK r : r = Append(q, x)
    OBVIOUS
  <2>2. r \in Seq(S) /\ Len(r) = Len(p) /\ \A i \in 1..Len(r) : r[i] = p[i]
    BY <1>1, <1>5, <1>6, <2>1
  <2>3. r = p
    BY <2>2, SeqEqual
  <2> QED
    BY <2>1, <2>3
<1> QED
  BY <1>1, <1>2, <1>4, <1>7

\* The front and the last part of an appended path.
LEMMA AppendLast ==
  ASSUME NEW S, NEW q \in Seq(S), NEW x \in S, NEW p, p = Append(q, x)
  PROVE  p \in Seq(S) /\ p # << >> /\ Len(p) = Len(q) + 1 /\ Front(p) = q /\ Last(p) = x
<1>1. p \in Seq(S) /\ Len(p) = Len(q) + 1 /\ p # << >> /\ Len(q) \in Nat
  OBVIOUS
<1>2. Front(p) \in Seq(S) /\ Append(Front(p), Last(p)) = p
  BY <1>1, FrontLast
<1>3. PICK r, y : r = Front(p) /\ y = Last(p)
  OBVIOUS
<1>4. r \in Seq(S) /\ Append(r, y) = Append(q, x)
  BY <1>2, <1>3
<1>5. r = q /\ y = x
  BY <1>4, AppendIs
<1> QED
  BY <1>1, <1>3, <1>5

\* A file is where the tree has it.
LEMMA WholeFiles ==
  ASSUME NEW v, IsVolume(v), geometry_ok(v), NEW w, NEW G, WholeTree(v, w, G),
         NEW S, NEW path \in Seq(S), NEW wanted
  PROVE  HasFile(v, path, wanted) <=> path \in DOMAIN w.files /\ w.files[path] = wanted
<1>1. PICK files : files = w.files /\ Filed(v, G, files)
  BY DEF WholeTree, Good
<1>2. ASSUME NEW d, NEW i, d \in Dirs(v), i \in Named(v, d)
      PROVE  DirIs(v, d) /\ UsedIs(Nth(v, d, i)) /\ Found(v, G, d, i) /\ Len(d.path) \in 0..MAX_DEPTH
             /\ d \in DirsAt(v)[Len(d.path)]
  <2>1. DirIs(v, d) /\ Len(d.path) \in 0..MAX_DEPTH /\ d \in DirsAt(v)[Len(d.path)]
    BY <1>2, DirsAre
  <2>2. UsedIs(Nth(v, d, i))
    BY <1>2, <2>1, NthIs
  <2> QED
    BY <1>2, <2>1, <2>2 DEF WholeTree
<1>3. ASSUME HasFile(v, path, wanted) PROVE path \in DOMAIN files /\ files[path] = wanted
  <2>1. path # << >> /\ Len(path) <= MAX_DEPTH + 1
    BY <1>3 DEF HasFile
  <2>2. PICK d, i : /\ d \in DirsAt(v)[Len(path) - 1] /\ d.path = Front(path) /\ i \in Named(v, d)
                    /\ Nth(v, d, i).name = Last(path) /\ Nth(v, d, i).attr = FILE
                    /\ content(v, Nth(v, d, i).size, Extent(v, Nth(v, d, i))) = wanted
    BY <1>3 DEF HasFile
  <2>3. Append(Front(path), Last(path)) = path
    BY <2>1, FrontLast
  <2>4. Len(path) - 1 \in 0..MAX_DEPTH
    BY <2>1, Fat16Assumption
  <2>5. d \in Dirs(v)
    BY <2>2, <2>4 DEF Dirs
  <2>6. path = PathOf(v, d, i) /\ IsFile(v, d, i) /\ FileAt(v, d, i) = wanted
    BY <2>2, <2>3 DEF PathOf, IsFile, FileAt
  <2>7. Found(v, G, d, i)
    BY <1>2, <2>2, <2>5
  <2> QED
    BY <1>1, <2>6, <2>7 DEF Filed
<1>4. ASSUME path \in DOMAIN files, files[path] = wanted PROVE HasFile(v, path, wanted)
  <2>1. PICK d, i : Found(v, G, d, i) /\ IsFile(v, d, i) /\ path = PathOf(v, d, i)
    BY <1>1, <1>4 DEF Filed
  <2>2. FileAt(v, d, i) = wanted
    BY <1>1, <1>4, <2>1 DEF Filed
  <2>3. d \in Dirs(v) /\ i \in Named(v, d)
    BY <2>1 DEF WholeTree
  <2>4. DirIs(v, d) /\ UsedIs(Nth(v, d, i)) /\ Len(d.path) \in 0..MAX_DEPTH /\ d \in DirsAt(v)[Len(d.path)]
    BY <1>2, <2>3
  <2>5. PICK q, x : q = d.path /\ x = Nth(v, d, i).name
    OBVIOUS
  <2>6. q \in Seq(STRING) /\ x \in STRING /\ path = Append(q, x)
    BY <2>1, <2>4, <2>5 DEF DirIs, UsedIs, PathOf
  <2>7. path # << >> /\ Len(path) = Len(q) + 1 /\ Front(path) = q /\ Last(path) = x
    BY <2>6, AppendLast
  <2>8. Len(path) - 1 = Len(d.path) /\ Len(path) <= MAX_DEPTH + 1
    BY <2>4, <2>5, <2>6, <2>7, Fat16Assumption
  <2>9. d \in DirsAt(v)[Len(path) - 1]
    BY <2>4, <2>8
  <2> QED
    BY <2>1, <2>2, <2>3, <2>5, <2>7, <2>8, <2>9 DEF HasFile, IsFile, FileAt
<1> QED
  BY <1>1, <1>3, <1>4

\* A volume is sound when it is orderly and its items hold every allocated cluster.
LEMMA SoundIs ==
  ASSUME NEW v
  PROVE  Sound(v) <=> Orderly(v) /\ UNION {Range(Extent(v, x[2])) : x \in Items(v)} = allocated(v)
BY DEF Sound, Orderly

\* The verifier accepts exactly the sound volumes, and finds exactly their files.
THEOREM VolumeIs ==
  ASSUME NEW v, IsVolume(v), NEW vol, vol = volume(v)
  PROVE  /\ vol.ok <=> geometry_ok(v) /\ Sound(v)
         /\ vol.ok => \A S : \A path \in Seq(S) : \A wanted :
              HasFile(v, path, wanted) <=> path \in DOMAIN vol.files /\ vol.files[path] = wanted
<1>1. CASE ~geometry_ok(v)
  BY <1>1 DEF volume
<1>2. CASE geometry_ok(v)
  <2>1. PICK w : w = walk(v)
    OBVIOUS
  <2>2. PICK o \in BOOLEAN : o <=> w.ok /\ allocated(v) \subseteq w.claimed
    OBVIOUS
  <2>3. vol = [ok |-> o, files |-> w.files]
    BY <1>2, <2>1, <2>2 DEF volume
  <2>4. vol.ok <=> w.ok /\ allocated(v) \subseteq w.claimed
    BY <2>2, <2>3
  <2>5. CASE ~w.ok
    BY <1>2, <2>1, <2>4, <2>5, WalkIs, SoundIs
  <2>6. CASE w.ok
    <3>1. PICK G : Good(v, w, G) /\ w.stack = << >>
      BY <1>2, <2>1, <2>6, WalkIs
    <3>2. WholeTree(v, w, G)
      BY <1>2, <3>1, WalkedWhole
    <3>3. /\ Orderly(v)
          /\ UNION {Range(Extent(v, x[2])) : x \in Items(v)} = w.claimed
          /\ w.claimed \subseteq allocated(v)
      BY <1>2, <3>2, WholeIsOrderly
    <3>4. vol.ok <=> Sound(v)
      BY <2>4, <2>6, <3>3, SoundIs
    <3>5. \A S : \A path \in Seq(S) : \A wanted :
            HasFile(v, path, wanted) <=> path \in DOMAIN w.files /\ w.files[path] = wanted
      BY <1>2, <3>2, WholeFiles
    <3>6. vol.files = w.files
      BY <2>3
    <3> QED
      BY <1>2, <3>4, <3>5, <3>6
  <2> QED
    BY <2>5, <2>6
<1> QED
  BY <1>1, <1>2
=============================================================================
