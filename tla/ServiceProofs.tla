--------------------------- MODULE ServiceProofs ---------------------------
(***************************************************************************)
(* Proofs about the API service, for any number of slots, executions,      *)
(* events and files, any limits and any width of the counters.             *)
(***************************************************************************)
EXTENDS Service, FiniteSetTheorems, NaturalsInduction, WellFoundedInduction,
        SequenceTheorems, TLAPS

-----------------------------------------------------------------------------
(* Sums.  SumFunction removes the elements of the domain in an order that
   CHOOSE fixes; counting the units shows that the order does not matter. *)

\* A set of naturals that is not empty has a least element.
LEMMA LeastNat ==
  ASSUME NEW S, S \subseteq Nat, S # {}
  PROVE  \E n \in S : \A m \in S : n <= m
<1>1. PICK n \in S : \A m \in S : ~(<<m, n>> \in OpToRel(<, Nat))
  BY NatLessThanWellFounded, WFMin
<1>2. \A m \in S : ~(m < n)
  BY <1>1 DEF OpToRel
<1>3. QED
  BY <1>2

\* The units of the entries of F at the indices T.
Units(F, T) == {u \in T \X Nat : 1 <= u[2] /\ u[2] <= F[u[1]]}

Counts(F, T) == \A i \in T : F[i] \in Nat

\* Taking one index away takes its units away.
LEMMA UnitsStep ==
  ASSUME NEW F, NEW T, Counts(F, T), NEW x \in T,
         IsFiniteSet(Units(F, T \ {x}))
  PROVE  /\ IsFiniteSet(Units(F, T))
         /\ Cardinality(Units(F, T)) = F[x] + Cardinality(Units(F, T \ {x}))
<1> DEFINE A == Units(F, T \ {x})
           B == {x} \X (1..F[x])
<1>1. F[x] \in Nat
  BY DEF Counts
<1>2. IsFiniteSet(1..F[x]) /\ Cardinality(1..F[x]) = F[x]
  BY <1>1, FS_Interval
<1>3. IsFiniteSet(B) /\ Cardinality(B) = F[x]
  <2>1. IsFiniteSet({x}) /\ Cardinality({x}) = 1
    BY FS_Singleton
  <2>2. IsFiniteSet(B) /\ Cardinality(B) = 1 * F[x]
    BY <1>2, <2>1, FS_Product
  <2>3. QED
    BY <1>1, <2>2
<1>4. Units(F, T) = A \cup B
  <2>1. ASSUME NEW u \in Units(F, T) PROVE u \in A \cup B
    BY <1>1 DEF Units
  <2>2. ASSUME NEW u \in A \cup B PROVE u \in Units(F, T)
    BY <1>1 DEF Units
  <2>3. QED
    BY <2>1, <2>2
<1>5. A \cap B = {}
  BY DEF Units
<1>6. /\ IsFiniteSet(A \cup B)
      /\ Cardinality(A \cup B) = Cardinality(A) + Cardinality(B) - Cardinality(A \cap B)
  BY <1>3, FS_Union
<1>7. Cardinality(A \cap B) = 0
  BY <1>5, FS_EmptySet
<1>8. Cardinality(A) \in Nat
  BY FS_CardinalityType
<1>9. QED
  BY <1>1, <1>3, <1>4, <1>6, <1>7, <1>8

\* Finitely many indices have finitely many units.
LEMMA UnitsFinite ==
  ASSUME NEW F, NEW S, IsFiniteSet(S), Counts(F, S)
  PROVE  \A T \in SUBSET S : IsFiniteSet(Units(F, T))
<1> SUFFICES ASSUME NEW T0 \in SUBSET S, ~IsFiniteSet(Units(F, T0)) PROVE FALSE
  OBVIOUS
<1> DEFINE Bad == {T \in SUBSET S : ~IsFiniteSet(Units(F, T))}
           Sizes0 == {Cardinality(T) : T \in Bad}
<1>1. \A T \in SUBSET S : IsFiniteSet(T) /\ Cardinality(T) \in Nat
  BY FS_Subset, FS_CardinalityType
<1>2. Sizes0 \subseteq Nat /\ Sizes0 # {}
  BY <1>1
<1>3. PICK n \in Sizes0 : \A m \in Sizes0 : n <= m
  BY <1>2, LeastNat
<1>4. PICK T \in Bad : n = Cardinality(T)
  BY <1>3
<1>5. T # {}
  <2>1. Units(F, {}) = {}
    BY DEF Units
  <2>2. QED
    BY <1>4, <2>1, FS_EmptySet
<1>6. PICK x \in T : TRUE
  BY <1>5
<1>7. Cardinality(T \ {x}) = Cardinality(T) - 1 /\ T \ {x} \in SUBSET S
  BY <1>1, <1>4, <1>6, FS_RemoveElement
<1>8. T \ {x} \notin Bad
  <2>1. SUFFICES ASSUME T \ {x} \in Bad PROVE FALSE
    OBVIOUS
  <2>2. n <= Cardinality(T) - 1 /\ Cardinality(T) \in Nat
    BY <1>1, <1>3, <1>4, <1>7, <2>1
  <2>3. QED
    BY <1>4, <2>2
<1>9. Counts(F, T)
  BY <1>4 DEF Counts
<1>10. IsFiniteSet(Units(F, T))
  BY <1>6, <1>7, <1>8, <1>9, UnitsStep
<1>11. QED
  BY <1>4, <1>10

\* SumFunction counts units.
LEMMA SumIsUnits ==
  ASSUME NEW F, IsFiniteSet(DOMAIN F), Counts(F, DOMAIN F)
  PROVE  SumFunction(F) = Cardinality(Units(F, DOMAIN F))
<1> DEFINE S == DOMAIN F
           pick(T) == CHOOSE x \in T : TRUE
           g == [T \in SUBSET S |-> Cardinality(Units(F, T))]
           Sums(h) == h = [T \in SUBSET S |->
                             IF T = {} THEN 0 ELSE F[pick(T)] + h[T \ {pick(T)}]]
<1>1. \A T \in SUBSET S : T # {} => pick(T) \in T
  OBVIOUS
<1>2. \A T \in SUBSET S : IsFiniteSet(T) /\ Cardinality(T) \in Nat
  BY FS_Subset, FS_CardinalityType
<1>3. \A T \in SUBSET S : IsFiniteSet(Units(F, T))
  BY UnitsFinite
<1>4. Cardinality(Units(F, {})) = 0
  <2>1. Units(F, {}) = {}
    BY DEF Units
  <2>2. QED
    BY <2>1, FS_EmptySet
<1>5. ASSUME NEW T \in SUBSET S, T # {}
      PROVE  g[T] = F[pick(T)] + g[T \ {pick(T)}]
  <2>1. pick(T) \in T /\ T \ {pick(T)} \in SUBSET S
    BY <1>1, <1>5
  <2>2. Counts(F, T)
    BY DEF Counts
  <2> HIDE DEF pick
  <2>3. QED
    BY <1>3, <2>1, <2>2, UnitsStep
<1>6. Sums(g)
  BY <1>4, <1>5
<1>7. ASSUME NEW h, Sums(h) PROVE h = g
  <2>1. h = [T \in SUBSET S |-> h[T]]
    BY <1>7
  <2>2. SUFFICES ASSUME NEW T0 \in SUBSET S, h[T0] # g[T0] PROVE FALSE
    BY <2>1
  <2> DEFINE Bad == {T \in SUBSET S : h[T] # g[T]}
             Sizes0 == {Cardinality(T) : T \in Bad}
  <2>3. Sizes0 \subseteq Nat /\ Sizes0 # {}
    BY <1>2, <2>2
  <2>4. PICK n \in Sizes0 : \A m \in Sizes0 : n <= m
    BY <2>3, LeastNat
  <2>5. PICK T \in Bad : n = Cardinality(T)
    BY <2>4
  <2>6. T # {}
    BY <1>4, <1>7, <2>5
  <2>7. pick(T) \in T
    BY <1>1, <2>5, <2>6
  <2>8. Cardinality(T \ {pick(T)}) = Cardinality(T) - 1 /\ T \ {pick(T)} \in SUBSET S
    BY <1>2, <2>5, <2>7, FS_RemoveElement
  <2>9. T \ {pick(T)} \notin Bad
    <3>1. SUFFICES ASSUME T \ {pick(T)} \in Bad PROVE FALSE
      OBVIOUS
    <3>2. n <= Cardinality(T) - 1 /\ Cardinality(T) \in Nat
      BY <1>2, <2>4, <2>5, <2>8, <3>1
    <3>3. QED
      BY <2>5, <3>2
  <2>10. h[T \ {pick(T)}] = g[T \ {pick(T)}]
    BY <2>8, <2>9
  <2>11. h[T] = F[pick(T)] + h[T \ {pick(T)}]
    BY <1>7, <2>5, <2>6
  <2>12. QED
    BY <1>5, <2>5, <2>6, <2>10, <2>11
<1>8. SumFunction(F) = (CHOOSE h : Sums(h))[S]
  BY DEF SumFunction, SumFunctionOnSet, FoldFunctionOnSet, MapThenFoldSet
<1>9. (CHOOSE h : Sums(h)) = g
  BY <1>6, <1>7
<1>10. QED
  BY <1>8, <1>9

\* The sum of an empty function is zero.
LEMMA SumEmpty ==
  ASSUME NEW F, DOMAIN F = {}
  PROVE  SumFunction(F) = 0
<1>1. Units(F, {}) = {}
  BY DEF Units
<1>2. QED
  BY <1>1, SumIsUnits, FS_EmptySet DEF Counts

\* Taking an index out of a function takes its entry out of the sum.
LEMMA SumRemove ==
  ASSUME NEW F, NEW G, NEW x \in DOMAIN F, IsFiniteSet(DOMAIN F), Counts(F, DOMAIN F),
         DOMAIN G = DOMAIN F \ {x}, \A i \in DOMAIN G : G[i] = F[i]
  PROVE  /\ SumFunction(F) = F[x] + SumFunction(G)
         /\ SumFunction(F) \in Nat /\ SumFunction(G) \in Nat /\ F[x] \in Nat
<1>1. IsFiniteSet(DOMAIN G)
  BY FS_RemoveElement
<1>2. Counts(G, DOMAIN G)
  BY DEF Counts
<1>3. Units(G, DOMAIN G) = Units(F, DOMAIN F \ {x})
  BY DEF Units
<1>4. IsFiniteSet(Units(G, DOMAIN G)) /\ IsFiniteSet(Units(F, DOMAIN F))
  BY <1>1, <1>2, UnitsFinite
<1>5. Cardinality(Units(F, DOMAIN F)) = F[x] + Cardinality(Units(F, DOMAIN F \ {x}))
  BY <1>3, <1>4, UnitsStep
<1>6. QED
  BY <1>1, <1>2, <1>3, <1>4, <1>5, SumIsUnits, FS_CardinalityType DEF Counts

\* Writing one entry replaces what it added to the sum.
LEMMA SumWrite ==
  ASSUME NEW F, NEW G, NEW x, IsFiniteSet(DOMAIN F), Counts(F, DOMAIN F),
         DOMAIN G = DOMAIN F \cup {x}, G[x] \in Nat,
         \A i \in DOMAIN F : i # x => G[i] = F[i]
  PROVE  /\ SumFunction(G) + (IF x \in DOMAIN F THEN F[x] ELSE 0) = SumFunction(F) + G[x]
         /\ SumFunction(F) \in Nat /\ SumFunction(G) \in Nat
         /\ IsFiniteSet(DOMAIN G) /\ Counts(G, DOMAIN G)
<1> DEFINE H == [i \in DOMAIN F \ {x} |-> F[i]]
<1>1. IsFiniteSet(DOMAIN G) /\ Counts(G, DOMAIN G)
  BY FS_AddElement DEF Counts
<1>2. DOMAIN H = DOMAIN G \ {x} /\ \A i \in DOMAIN H : H[i] = G[i] /\ H[i] = F[i]
  OBVIOUS
<1>3. SumFunction(G) = G[x] + SumFunction(H) /\ SumFunction(G) \in Nat /\ SumFunction(H) \in Nat
  BY <1>1, <1>2, SumRemove
<1>4. CASE x \in DOMAIN F
  <2>1. SumFunction(F) = F[x] + SumFunction(H) /\ SumFunction(F) \in Nat /\ F[x] \in Nat
    <3>1. DOMAIN H = DOMAIN F \ {x}
      OBVIOUS
    <3>2. QED
      BY <1>2, <1>4, <3>1, SumRemove
  <2> HIDE DEF H
  <2>2. QED
    BY <1>1, <1>3, <1>4, <2>1
<1>5. CASE x \notin DOMAIN F
  <2>1. DOMAIN H = DOMAIN F
    BY <1>5
  <2>2. Units(H, DOMAIN H) = Units(F, DOMAIN F)
    BY <1>2, <2>1 DEF Units
  <2>3. SumFunction(H) = SumFunction(F)
    BY <1>2, <2>1, <2>2, SumIsUnits DEF Counts
  <2> HIDE DEF H
  <2>4. QED
    BY <1>1, <1>3, <1>5, <2>3
<1>6. QED
  BY <1>4, <1>5

-----------------------------------------------------------------------------
(* What a slot in use holds. *)

Exec == [id : Nat \ {0}, generation : Nat, state : {"running", "cancelling", "done"},
         term : {"none", "exited", "output_limit", "cancelled", "timeout"},
         cancel_requested : BOOLEAN]

EventTypes == {"lifecycle", "exit"}

Event == [seq : Nat, generation : Nat, exec : Nat, ty : EventTypes]

Files == UNION {[D -> Sizes] : D \in SUBSET Paths}

Admitted == {l \in Limits : validate(l)}

Slot == [used : {TRUE}, owner : Owners \cup {CutName}, id : Nat, generation : Nat,
         state : {"creating", "ready", "busy"}, limits : Admitted, deadline : Nat,
         cap_bytes : Nat, used_bytes : 0..U64MAX, files : Files,
         events : [0..(MAX_EVENTS - 1) -> Event],
         event_start : 0..(MAX_EVENTS - 1), event_count : 0..MAX_EVENTS,
         next_seq : Nat \ {0}, execs : Seq(Exec), next_exec_id : Nat \ {0}]

\* The event at place k of the ring, counted from its oldest one.
At(s, k) == s.events[(s.event_start + k - 1) % MAX_EVENTS]

\* An index that passes the end of the ring starts again from zero.
LEMMA Wrap ==
  ASSUME NEW M \in Nat \ {0}, NEW x \in Nat, x < 2 * M
  PROVE  x % M = IF x < M THEN x ELSE x - M
<1>1. x = M * (x \div M) + (x % M) /\ x \div M \in Nat /\ x % M \in 0..(M - 1)
  OBVIOUS
<1> DEFINE q == x \div M
           r == x % M
<1>2. q \in Nat /\ r \in 0..(M - 1) /\ x = M * q + r
  BY <1>1
<1> HIDE DEF q, r
<1>3. CASE q = 0
  BY <1>2, <1>3 DEF r
<1>4. CASE q = 1
  BY <1>2, <1>4 DEF r
<1>5. CASE q >= 2
  <2>1. PICK d \in Nat : q = 2 + d
    BY <1>2, <1>5
  <2>2. M * q = 2 * M + M * d /\ M * d \in Nat
    BY <2>1
  <2>3. QED
    BY <1>2, <2>2
<1>6. QED
  BY <1>2, <1>3, <1>4, <1>5

\* Where the places of a ring that starts at a are: the next one to write, all of
\* them, and all of them after the start has moved on by one.
LEMMA Places ==
  ASSUME NEW M \in Nat \ {0}, NEW a \in 0..(M - 1)
  PROVE  /\ \A k \in 1..M : /\ (a + k - 1) % M = IF a + k - 1 < M THEN a + k - 1
                                                  ELSE a + k - 1 - M
                           /\ (a + k - 1) % M \in 0..(M - 1)
         /\ \A c \in 0..(M - 1) : (a + c) % M = (a + (c + 1) - 1) % M
         /\ (a + 1) % M = IF a + 1 < M THEN a + 1 ELSE 0
         /\ (((a + 1) % M) + M - 1) % M = a
         /\ \A k \in 1..(M - 1) : (((a + 1) % M) + k - 1) % M = (a + (k + 1) - 1) % M
<1>1. \A x \in Nat : x < 2 * M => x % M = IF x < M THEN x ELSE x - M
  BY Wrap
<1>2. ASSUME NEW k \in 1..M
      PROVE  /\ (a + k - 1) % M = IF a + k - 1 < M THEN a + k - 1 ELSE a + k - 1 - M
             /\ (a + k - 1) % M \in 0..(M - 1)
  <2>1. PICK x \in Nat : x = a + k - 1 /\ x < 2 * M
    OBVIOUS
  <2>2. x % M = IF x < M THEN x ELSE x - M
    BY <1>1, <2>1
  <2>3. QED
    BY <2>1, <2>2
<1>3. \A c \in 0..(M - 1) : a + c = a + (c + 1) - 1
  OBVIOUS
<1>4. (a + 1) % M = IF a + 1 < M THEN a + 1 ELSE 0
  <2>1. PICK x \in Nat : x = a + 1
    OBVIOUS
  <2>2. x < 2 * M /\ x <= M
    BY <2>1
  <2>3. QED
    BY <1>1, <2>1, <2>2
<1>5. PICK b \in 0..(M - 1) : b = (a + 1) % M /\ b = IF a + 1 < M THEN a + 1 ELSE 0
  BY <1>4
<1>6. (b + M - 1) % M = a
  <2>1. PICK x \in Nat : x = b + M - 1 /\ x < 2 * M
    OBVIOUS
  <2>2. x % M = IF x < M THEN x ELSE x - M
    BY <1>1, <2>1
  <2>3. x % M = a
    BY <1>5, <2>1, <2>2
  <2>4. QED
    BY <2>1, <2>3
<1>7. ASSUME NEW k \in 1..(M - 1) PROVE (b + k - 1) % M = (a + (k + 1) - 1) % M
  <2>1. PICK x \in Nat, y \in Nat : x = b + k - 1 /\ y = a + (k + 1) - 1
    OBVIOUS
  <2>2. x < 2 * M /\ y < 2 * M
    BY <2>1
  <2>3. x % M = (IF x < M THEN x ELSE x - M) /\ y % M = (IF y < M THEN y ELSE y - M)
    BY <1>1, <2>2
  <2>4. x % M = y % M
    BY <1>5, <2>1, <2>2, <2>3
  <2>5. QED
    BY <2>1, <2>4
<1>8. QED
  BY <1>2, <1>3, <1>4, <1>5, <1>6, <1>7

\* t's ring is s's with one more event, the oldest dropped when it was full.
Pushed(s, t, exec, ty) ==
  LET full == s.event_count = MAX_EVENTS
      n == IF full THEN MAX_EVENTS ELSE s.event_count + 1 IN
  /\ t.next_seq = s.next_seq + 1
  /\ t.event_count = n
  /\ At(t, n).seq = s.next_seq /\ At(t, n).exec = exec /\ At(t, n).ty = ty
  /\ \A k \in 1..(n - 1) : At(t, k) = At(s, IF full THEN k + 1 ELSE k)

SameRing(s, t) ==
  /\ t.events = s.events /\ t.event_start = s.event_start
  /\ t.event_count = s.event_count /\ t.next_seq = s.next_seq

SameExec(s, t) ==
  /\ t.execs = s.execs /\ t.state = s.state /\ t.deadline = s.deadline
  /\ t.generation = s.generation /\ t.next_exec_id = s.next_exec_id

SameQuota(s, t) ==
  t.files = s.files /\ t.used_bytes = s.used_bytes /\ t.cap_bytes = s.cap_bytes

SameLimits(s, t) == t.limits = s.limits

\* pushEvent adds one event and touches nothing else.
LEMMA PushAdds ==
  ASSUME NEW s \in Slot, NEW exec \in Nat, NEW ty \in EventTypes
  PROVE  LET t == pushEvent(s, exec, ty) IN
         /\ t \in Slot /\ Pushed(s, t, exec, ty)
         /\ SameExec(s, t) /\ SameQuota(s, t) /\ SameLimits(s, t)
<1> DEFINE M == MAX_EVENTS
           ev == [seq |-> s.next_seq, generation |-> s.generation, exec |-> exec, ty |-> ty]
           t == pushEvent(s, exec, ty)
           E == s.events
           a == s.event_start
           c == s.event_count
<1>1. /\ M \in Nat \ {0} /\ ev \in Event /\ E \in [0..(M - 1) -> Event]
      /\ a \in 0..(M - 1) /\ c \in 0..M /\ s.next_seq \in Nat \ {0}
  BY ServiceAssumption DEF Slot, Event
<1>2. ev.seq = s.next_seq /\ ev.exec = exec /\ ev.ty = ty
  OBVIOUS
<1> HIDE DEF ev
<1>3. /\ \A k \in 1..M : /\ (a + k - 1) % M = IF a + k - 1 < M THEN a + k - 1
                                            ELSE a + k - 1 - M
                        /\ (a + k - 1) % M \in 0..(M - 1)
      /\ \A n \in 0..(M - 1) : (a + n) % M = (a + (n + 1) - 1) % M
      /\ (a + 1) % M = IF a + 1 < M THEN a + 1 ELSE 0
      /\ (((a + 1) % M) + M - 1) % M = a
      /\ \A k \in 1..(M - 1) : (((a + 1) % M) + k - 1) % M = (a + (k + 1) - 1) % M
  BY <1>1, Places
<1> HIDE DEF M, E, a, c
<1>4. CASE c < M
  <2> DEFINE w == (a + c) % M
             r == [[s EXCEPT !.next_seq = @ + 1] EXCEPT !.events[w] = ev, !.event_count = @ + 1]
  <2>1. t = r
    BY <1>4 DEF pushEvent, ev, M, a, c
  <2>2. /\ w = (a + (c + 1) - 1) % M /\ w \in 0..(M - 1)
        /\ w = IF a + c < M THEN a + c ELSE a + c - M
    <3>1. c + 1 \in 1..M /\ c \in 0..(M - 1)
      BY <1>1, <1>4
    <3>2. PICK n \in 1..M : n = c + 1 /\ a + n - 1 = a + c
      BY <1>1, <3>1
    <3>3. QED
      BY <1>3, <3>1, <3>2
  <2> HIDE DEF w
  <2>3. /\ r \in Slot /\ SameExec(s, r) /\ SameQuota(s, r) /\ SameLimits(s, r)
        /\ r.next_seq = s.next_seq + 1 /\ r.event_count = c + 1
        /\ r.event_start = a /\ r.events = [E EXCEPT ![w] = ev]
    <3>1. r = [s EXCEPT !.next_seq = @ + 1, !.events = [E EXCEPT ![w] = ev],
                        !.event_count = @ + 1]
      BY <1>1, <2>2 DEF Slot, M, E
    <3>2. [E EXCEPT ![w] = ev] \in [0..(M - 1) -> Event] /\ c + 1 \in 0..M
          /\ s.next_seq + 1 \in Nat \ {0}
      BY <1>1, <1>4, <2>2
    <3> HIDE DEF r
    <3>3. r \in Slot
      BY <3>1, <3>2 DEF Slot, M, c
    <3>4. QED
      BY <3>1, <3>3 DEF Slot, SameExec, SameQuota, SameLimits, a, c
  <2> HIDE DEF r
  <2>4. At(r, c + 1) = ev
    BY <1>1, <2>2, <2>3 DEF At, M
  <2>5. ASSUME NEW k \in 1..c PROVE At(r, k) = At(s, k)
    <3>1. k \in 1..M
      BY <1>1
    <3>2. PICK z \in 0..(M - 1) : /\ z = (a + k - 1) % M
                                  /\ z = IF a + k - 1 < M THEN a + k - 1 ELSE a + k - 1 - M
      BY <1>3, <3>1
    <3>3. z # w
      BY <1>1, <1>4, <2>2, <3>2
    <3>4. At(r, k) = [E EXCEPT ![w] = ev][z] /\ At(s, k) = E[z]
      BY <2>3, <3>2 DEF At, M, E, a
    <3>5. QED
      BY <1>1, <3>2, <3>3, <3>4
  <2>6. Pushed(s, r, exec, ty)
    BY <1>1, <1>2, <1>4, <2>3, <2>4, <2>5 DEF Pushed, M, c
  <2>7. QED
    BY <2>1, <2>3, <2>6
<1>5. CASE c = M
  <2> DEFINE b == (a + 1) % M
             r == [[s EXCEPT !.next_seq = @ + 1] EXCEPT !.events[a] = ev, !.event_start = b]
  <2>1. t = r
    BY <1>1, <1>5 DEF pushEvent, ev, Slot, M, a, c
  <2>2. b \in 0..(M - 1)
    BY <1>1, <1>3
  <2> HIDE DEF b
  <2>3. /\ r \in Slot /\ SameExec(s, r) /\ SameQuota(s, r) /\ SameLimits(s, r)
        /\ r.next_seq = s.next_seq + 1 /\ r.event_count = c
        /\ r.event_start = b /\ r.events = [E EXCEPT ![a] = ev]
    <3>1. r = [s EXCEPT !.next_seq = @ + 1, !.events = [E EXCEPT ![a] = ev],
                        !.event_start = b]
      BY <1>1, <2>2 DEF Slot, M, E, a
    <3>2. [E EXCEPT ![a] = ev] \in [0..(M - 1) -> Event] /\ s.next_seq + 1 \in Nat \ {0}
      BY <1>1
    <3> HIDE DEF r
    <3>3. r \in Slot
      BY <2>2, <3>1, <3>2 DEF Slot, M
    <3>4. QED
      BY <3>1, <3>3 DEF Slot, SameExec, SameQuota, SameLimits, c
  <2> HIDE DEF r
  <2>4. At(r, M) = ev
    <3>1. (b + M - 1) % M = a
      BY <1>3 DEF b
    <3>2. At(r, M) = r.events[(b + M - 1) % M]
      BY <2>3 DEF At, M
    <3>3. At(r, M) = [E EXCEPT ![a] = ev][a]
      BY <2>3, <3>1, <3>2
    <3>4. QED
      BY <1>1, <3>3
  <2>5. ASSUME NEW k \in 1..(M - 1) PROVE At(r, k) = At(s, k + 1)
    <3>1. (b + k - 1) % M = (a + (k + 1) - 1) % M
      BY <1>3 DEF b
    <3>2. k + 1 \in 1..M /\ a + (k + 1) - 1 = a + k
      BY <1>1
    <3>3. PICK z \in 0..(M - 1) : /\ z = (a + (k + 1) - 1) % M
                                  /\ z = IF a + k < M THEN a + k ELSE a + k - M
      BY <1>3, <3>2
    <3>4. z # a
      BY <1>1, <3>3
    <3>5. At(r, k) = [E EXCEPT ![a] = ev][z] /\ At(s, k + 1) = E[z]
      BY <2>3, <3>1, <3>3 DEF At, M, E, a
    <3>6. QED
      BY <1>1, <3>3, <3>4, <3>5
  <2>6. Pushed(s, r, exec, ty)
    BY <1>1, <1>2, <1>5, <2>3, <2>4, <2>5 DEF Pushed, M, c
  <2>7. QED
    BY <2>1, <2>3, <2>6
<1>6. QED
  BY <1>1, <1>4, <1>5

-----------------------------------------------------------------------------
(* The invariant of a slot in use, in four parts. *)

Done(s, k) == s.execs[k].state = "done"

Open(s) == {k \in 1..Len(s.execs) : ~Done(s, k)}

\* Busy, with a deadline, exactly while one execution is open.
ExecInv(s) ==
  /\ s.deadline # 0 <=> s.state = "busy"
  /\ s.state = "busy" <=> Open(s) # {}
  /\ \A j, k \in Open(s) : j = k
  /\ \A k \in Open(s) : s.execs[k].generation = s.generation

QuotaInv(s) ==
  /\ IsFiniteSet(DOMAIN s.files)
  /\ s.used_bytes = SumFunction(s.files)
  /\ s.used_bytes <= s.cap_bytes

\* The ring holds the last event_count numbers, in order.
RingInv(s) ==
  /\ s.event_count < s.next_seq
  /\ \A k \in 1..s.event_count : At(s, k).seq = s.next_seq - s.event_count + k - 1

IsExit(s, n, id) == At(s, n).ty = "exit" /\ At(s, n).exec = id

\* Executions have numbers of their own, below the next one; the ring's events
\* are about such numbers, and its exits about finished executions, one each,
\* for all of them while nothing was dropped.
ExitInv(s) ==
  /\ \A k \in 1..Len(s.execs) : s.execs[k].id < s.next_exec_id
  /\ \A j, k \in 1..Len(s.execs) : s.execs[j].id = s.execs[k].id => j = k
  /\ \A n \in 1..s.event_count : At(s, n).exec < s.next_exec_id
  /\ \A m, n \in 1..s.event_count :
       IsExit(s, m, At(s, n).exec) /\ IsExit(s, n, At(s, n).exec) => m = n
  /\ \A n \in 1..s.event_count, k \in 1..Len(s.execs) :
       IsExit(s, n, s.execs[k].id) => Done(s, k)
  /\ \A k \in 1..Len(s.execs) : Done(s, k) /\ s.event_count < MAX_EVENTS =>
       \E n \in 1..s.event_count : IsExit(s, n, s.execs[k].id)

SlotInv(s) ==
  /\ s \in Slot
  /\ ExecInv(s)
  /\ QuotaInv(s)
  /\ RingInv(s)
  /\ ExitInv(s)

-----------------------------------------------------------------------------
(* What keeps each part. *)

\* One more event keeps the numbers of the ring contiguous.
LEMMA PushKeepsRing ==
  ASSUME NEW s \in Slot, NEW t, NEW x, NEW ty, RingInv(s), Pushed(s, t, x, ty)
  PROVE  RingInv(t)
<1>1. /\ MAX_EVENTS \in Nat \ {0} /\ s.event_count \in 0..MAX_EVENTS
      /\ s.next_seq \in Nat \ {0} /\ s.event_count < s.next_seq
  BY ServiceAssumption DEF Slot, RingInv
<1> DEFINE full == s.event_count = MAX_EVENTS
           n == IF full THEN MAX_EVENTS ELSE s.event_count + 1
<1>2. t.next_seq = s.next_seq + 1 /\ t.event_count = n /\ At(t, n).seq = s.next_seq
  BY DEF Pushed
<1>3. ASSUME NEW k \in 1..(n - 1)
      PROVE  At(t, k).seq = t.next_seq - t.event_count + k - 1
  <2> DEFINE j == IF full THEN k + 1 ELSE k
  <2>1. j \in 1..s.event_count /\ At(t, k) = At(s, j)
    BY <1>1 DEF Pushed
  <2>2. At(s, j).seq = s.next_seq - s.event_count + j - 1
    BY <2>1 DEF RingInv
  <2>3. QED
    BY <1>1, <1>2, <2>1, <2>2
<1>4. \A k \in 1..n : k = n \/ k \in 1..(n - 1)
  BY <1>1
<1>5. n < s.next_seq + 1 /\ n \in Nat \ {0}
  BY <1>1
<1>6. At(t, n).seq = t.next_seq - t.event_count + n - 1
  BY <1>1, <1>2, <1>5
<1> HIDE DEF n
<1>7. QED
  BY <1>2, <1>3, <1>4, <1>5, <1>6 DEF RingInv

LEMMA SameKeepsRing ==
  ASSUME NEW s, NEW t, RingInv(s), SameRing(s, t)
  PROVE  RingInv(t)
BY DEF RingInv, SameRing, At

\* t has s's executions, finished or not alike.
ExecsKept(s, t) ==
  /\ Len(t.execs) = Len(s.execs) /\ t.next_exec_id = s.next_exec_id
  /\ \A k \in 1..Len(s.execs) : /\ t.execs[k].id = s.execs[k].id
                                /\ Done(t, k) <=> Done(s, k)

LEMMA SameKeepsExit ==
  ASSUME NEW s, NEW t, ExitInv(s), SameRing(s, t), ExecsKept(s, t)
  PROVE  ExitInv(t)
BY DEF ExitInv, SameRing, ExecsKept, At, IsExit

\* The places of a ring after a push: the new event, and the old ones.
LEMMA PushPlaces ==
  ASSUME NEW s \in Slot, NEW t, NEW x, NEW ty, Pushed(s, t, x, ty)
  PROVE  \E d \in {0, 1} :
           /\ t.event_count \in 1..MAX_EVENTS
           /\ t.event_count < MAX_EVENTS => d = 0
           /\ t.event_count - 1 + d = s.event_count
           /\ At(t, t.event_count).exec = x /\ At(t, t.event_count).ty = ty
           /\ \A k \in 1..(t.event_count - 1) : k + d \in 1..s.event_count /\ At(t, k) = At(s, k + d)
           /\ \A k \in 1..t.event_count : k = t.event_count \/ k \in 1..(t.event_count - 1)
<1>1. MAX_EVENTS \in Nat \ {0} /\ s.event_count \in 0..MAX_EVENTS
  BY ServiceAssumption DEF Slot
<1>2. CASE s.event_count = MAX_EVENTS
  <2>1. t.event_count = MAX_EVENTS
    BY <1>2 DEF Pushed
  <2>2. \A k \in 1..(MAX_EVENTS - 1) : k + 1 \in 1..MAX_EVENTS
    BY <1>1
  <2>3. QED
    BY <1>1, <1>2, <2>1, <2>2 DEF Pushed
<1>3. CASE s.event_count # MAX_EVENTS
  <2>1. t.event_count = s.event_count + 1 /\ s.event_count + 1 \in 1..MAX_EVENTS
    BY <1>1, <1>3 DEF Pushed
  <2>2. /\ At(t, t.event_count).exec = x /\ At(t, t.event_count).ty = ty
        /\ \A k \in 1..(t.event_count - 1) : At(t, k) = At(s, k)
    BY <1>3, <2>1 DEF Pushed
  <2>3. \A k \in 1..(t.event_count - 1) : k + 0 = k /\ k \in 1..s.event_count
    BY <1>1, <2>1
  <2>4. t.event_count - 1 + 0 = s.event_count
    BY <1>1, <2>1
  <2>5. QED
    BY <1>1, <2>1, <2>2, <2>3, <2>4
<1>4. QED
  BY <1>2, <1>3

\* A lifecycle event is about no exit.
LEMMA LifecycleKeepsExit ==
  ASSUME NEW s \in Slot, NEW t, NEW x \in Nat, ExitInv(s),
         Pushed(s, t, x, "lifecycle"), ExecsKept(s, t), x < s.next_exec_id
  PROVE  ExitInv(t)
<1>1. PICK d \in {0, 1} :
           /\ t.event_count \in 1..MAX_EVENTS
           /\ t.event_count < MAX_EVENTS => d = 0
           /\ t.event_count - 1 + d = s.event_count
           /\ At(t, t.event_count).exec = x /\ At(t, t.event_count).ty = "lifecycle"
           /\ \A k \in 1..(t.event_count - 1) : k + d \in 1..s.event_count /\ At(t, k) = At(s, k + d)
           /\ \A k \in 1..t.event_count : k = t.event_count \/ k \in 1..(t.event_count - 1)
  BY PushPlaces
<1> DEFINE n == t.event_count
<1>2. n \in 1..MAX_EVENTS /\ MAX_EVENTS \in Nat /\ s.event_count \in Nat
  BY <1>1, ServiceAssumption DEF Slot
<1>3. \A k \in 1..n : At(t, k).ty = "exit" => k \in 1..(n - 1)
  BY <1>1
<1>4. \A k \in 1..Len(t.execs) : t.execs[k].id < t.next_exec_id
  BY DEF ExitInv, ExecsKept
<1>5. \A j, k \in 1..Len(t.execs) : t.execs[j].id = t.execs[k].id => j = k
  BY DEF ExitInv, ExecsKept
<1>6. \A k \in 1..n : At(t, k).exec < t.next_exec_id
  BY <1>1 DEF ExitInv, ExecsKept
<1>7. ASSUME NEW j \in 1..n, NEW k \in 1..n,
             IsExit(t, j, At(t, k).exec), IsExit(t, k, At(t, k).exec)
      PROVE  j = k
  <2>1. j \in 1..(n - 1) /\ k \in 1..(n - 1)
    BY <1>3, <1>7 DEF IsExit
  <2>2. j + d = k + d
    BY <1>1, <1>7, <2>1 DEF ExitInv, IsExit
  <2>3. QED
    BY <2>1, <2>2
<1>8. \A k \in 1..n, e \in 1..Len(t.execs) : IsExit(t, k, t.execs[e].id) => Done(t, e)
  BY <1>1, <1>3 DEF ExitInv, ExecsKept, IsExit
<1>9. ASSUME NEW e \in 1..Len(t.execs), Done(t, e), n < MAX_EVENTS
      PROVE  \E k \in 1..n : IsExit(t, k, t.execs[e].id)
  <2>1. d = 0 /\ s.event_count = n - 1 /\ s.event_count < MAX_EVENTS
    BY <1>1, <1>2, <1>9
  <2>2. e \in 1..Len(s.execs) /\ Done(s, e) /\ t.execs[e].id = s.execs[e].id
    BY <1>9 DEF ExecsKept
  <2>3. PICK k \in 1..s.event_count : IsExit(s, k, s.execs[e].id)
    BY <2>1, <2>2 DEF ExitInv
  <2>4. k \in 1..(n - 1) /\ k \in 1..n /\ k + d = k
    BY <1>2, <2>1
  <2>5. At(t, k) = At(s, k)
    BY <1>1, <2>4
  <2>6. QED
    BY <2>2, <2>3, <2>4, <2>5 DEF IsExit
<1>10. QED
  BY <1>4, <1>5, <1>6, <1>7, <1>8, <1>9 DEF ExitInv

\* t has one more execution than s, numbered x and not finished.
ExecAdded(s, t, x) ==
  /\ Len(t.execs) = Len(s.execs) + 1 /\ t.next_exec_id = s.next_exec_id + 1
  /\ x = s.next_exec_id /\ t.execs[Len(s.execs) + 1].id = x
  /\ ~Done(t, Len(s.execs) + 1)
  /\ \A k \in 1..Len(s.execs) : t.execs[k] = s.execs[k]

\* A new execution has a number no event of the ring is about.
LEMMA StartKeepsExit ==
  ASSUME NEW s \in Slot, NEW t, NEW x, ExitInv(s), SameRing(s, t), ExecAdded(s, t, x)
  PROVE  ExitInv(t)
<1> DEFINE m == Len(s.execs)
           c == s.event_count
<1>1. /\ m \in Nat /\ Len(t.execs) = m + 1 /\ s.next_exec_id \in Nat
      /\ \A k \in 1..(m + 1) : k = m + 1 \/ k \in 1..m
      /\ \A k \in 1..m : s.execs[k].id \in Nat
  <2>1. s.execs \in Seq(Exec) /\ s.next_exec_id \in Nat
    BY DEF Slot
  <2>2. m \in Nat /\ \A k \in 1..m : s.execs[k] \in Exec
    BY <2>1
  <2>3. \A k \in 1..m : s.execs[k].id \in Nat
    BY <2>2 DEF Exec
  <2> HIDE DEF m
  <2>4. \A k \in 1..(m + 1) : k = m + 1 \/ k \in 1..m
    BY <2>2
  <2>5. QED
    BY <2>1, <2>2, <2>3, <2>4 DEF ExecAdded, m
<1>2. \A k \in 1..m : /\ t.execs[k].id = s.execs[k].id
                      /\ Done(t, k) <=> Done(s, k)
                      /\ s.execs[k].id < s.next_exec_id
  BY DEF ExecAdded, Done, ExitInv
<1>3. t.execs[m + 1].id = s.next_exec_id /\ ~Done(t, m + 1) /\ t.next_exec_id = s.next_exec_id + 1
  BY DEF ExecAdded
<1>4. t.event_count = c /\ \A n : At(t, n) = At(s, n)
  BY DEF SameRing, At
<1>5. \A n \in 1..c : At(s, n).exec < s.next_exec_id
  BY DEF ExitInv
<1>6. \A j, k \in 1..m : s.execs[j].id = s.execs[k].id => j = k
  BY DEF ExitInv
<1>7. \A n \in 1..c, k \in 1..m : IsExit(s, n, s.execs[k].id) => Done(s, k)
  BY DEF ExitInv
<1>8. \A k \in 1..m : Done(s, k) /\ c < MAX_EVENTS => \E n \in 1..c : IsExit(s, n, s.execs[k].id)
  BY DEF ExitInv
<1>9. \A j, n \in 1..c : IsExit(s, j, At(s, n).exec) /\ IsExit(s, n, At(s, n).exec) => j = n
  BY DEF ExitInv
<1>10. \A n \in 1..c : At(s, n).exec \in Nat
  <2>1. SUFFICES ASSUME NEW n \in 1..c PROVE At(s, n).exec \in Nat
    OBVIOUS
  <2>2. MAX_EVENTS \in Nat \ {0}
    BY ServiceAssumption
  <2>3. s.event_start \in 0..(MAX_EVENTS - 1) /\ c \in 0..MAX_EVENTS
    BY DEF Slot
  <2>4. n \in 1..MAX_EVENTS
    BY <2>2, <2>3
  <2>5. (s.event_start + n - 1) % MAX_EVENTS \in 0..(MAX_EVENTS - 1)
    BY <2>2, <2>3, <2>4, Places
  <2>6. At(s, n) \in Event
    BY <2>5 DEF Slot, At
  <2>7. QED
    BY <2>6 DEF Event
<1> HIDE DEF m, c
<1>11. \A k \in 1..(m + 1) : t.execs[k].id < t.next_exec_id
  <2>1. t.execs[m + 1].id < t.next_exec_id
    BY <1>1, <1>3
  <2>2. ASSUME NEW k \in 1..m PROVE t.execs[k].id < t.next_exec_id
    <3>1. PICK w \in Int, y \in Int : w = s.execs[k].id /\ y = s.next_exec_id /\ w < y
      BY <1>1, <1>2
    <3>2. t.execs[k].id = w /\ t.next_exec_id = y + 1
      BY <1>2, <1>3, <3>1
    <3>3. QED
      BY <3>1, <3>2
  <2>3. QED
    BY <1>1, <2>1, <2>2
<1>12. \A j, k \in 1..(m + 1) : t.execs[j].id = t.execs[k].id => j = k
  <2>1. \A k \in 1..m : t.execs[k].id # t.execs[m + 1].id
    <3>1. SUFFICES ASSUME NEW k \in 1..m PROVE t.execs[k].id # t.execs[m + 1].id
      OBVIOUS
    <3>2. PICK x0 \in Int, y \in Int : x0 = s.execs[k].id /\ y = s.next_exec_id /\ x0 < y
      BY <1>1, <1>2
    <3>3. t.execs[k].id = x0 /\ t.execs[m + 1].id = y
      BY <1>2, <1>3, <3>2
    <3>4. QED
      BY <3>2, <3>3
  <2>2. \A j, k \in 1..m : t.execs[j].id = t.execs[k].id => j = k
    BY <1>2, <1>6
  <2>3. QED
    BY <1>1, <2>1, <2>2
<1>13. \A n \in 1..c : At(t, n).exec < t.next_exec_id
  BY <1>1, <1>3, <1>4, <1>5, <1>10
<1>14. \A j, n \in 1..c : IsExit(t, j, At(t, n).exec) /\ IsExit(t, n, At(t, n).exec) => j = n
  BY <1>4, <1>9 DEF IsExit
<1>15. ASSUME NEW n \in 1..c, NEW k \in 1..(m + 1), IsExit(t, n, t.execs[k].id)
       PROVE  Done(t, k)
  <2>1. k # m + 1
    BY <1>1, <1>3, <1>4, <1>5, <1>10, <1>15 DEF IsExit
  <2>2. k \in 1..m
    BY <1>1, <2>1
  <2>3. QED
    BY <1>2, <1>4, <1>7, <1>15, <2>2 DEF IsExit
<1>16. ASSUME NEW k \in 1..(m + 1), Done(t, k), c < MAX_EVENTS
       PROVE  \E n \in 1..c : IsExit(t, n, t.execs[k].id)
  <2>1. k \in 1..m
    BY <1>1, <1>3, <1>16
  <2>2. QED
    BY <1>2, <1>4, <1>8, <1>16, <2>1 DEF IsExit
<1>17. QED
  BY <1>1, <1>4, <1>11, <1>12, <1>13, <1>14, <1>15, <1>16 DEF ExitInv

\* t is s with its execution e finished and nothing else of its executions changed.
ExecEnded(s, t, e) ==
  /\ Len(t.execs) = Len(s.execs) /\ t.next_exec_id = s.next_exec_id
  /\ t.generation = s.generation
  /\ Done(t, e)
  /\ \A k \in 1..Len(s.execs) : /\ t.execs[k].id = s.execs[k].id
                                /\ t.execs[k].generation = s.execs[k].generation
                                /\ k # e => (Done(t, k) <=> Done(s, k))

\* An execution that was open has no exit in the ring yet.
LEMMA EndKeepsExit ==
  ASSUME NEW s \in Slot, NEW t, NEW e \in Open(s), NEW x, x = s.execs[e].id, ExitInv(s),
         Pushed(s, t, x, "exit"), ExecEnded(s, t, e)
  PROVE  ExitInv(t)
<1>1. PICK d \in {0, 1} :
           /\ t.event_count \in 1..MAX_EVENTS
           /\ t.event_count < MAX_EVENTS => d = 0
           /\ t.event_count - 1 + d = s.event_count
           /\ At(t, t.event_count).exec = x /\ At(t, t.event_count).ty = "exit"
           /\ \A k \in 1..(t.event_count - 1) : k + d \in 1..s.event_count /\ At(t, k) = At(s, k + d)
           /\ \A k \in 1..t.event_count : k = t.event_count \/ k \in 1..(t.event_count - 1)
  BY PushPlaces
<1> DEFINE n == t.event_count
<1>2. n \in 1..MAX_EVENTS /\ MAX_EVENTS \in Nat /\ s.event_count \in Nat
  BY <1>1, ServiceAssumption DEF Slot
<1>3. e \in 1..Len(s.execs) /\ ~Done(s, e)
  BY DEF Open
<1>4. \A k \in 1..(n - 1) : ~IsExit(t, k, x)
  BY <1>1, <1>3 DEF ExitInv, IsExit
<1>5. \A k \in 1..Len(t.execs) : t.execs[k].id < t.next_exec_id
  BY DEF ExitInv, ExecEnded
<1>6. \A j, k \in 1..Len(t.execs) : t.execs[j].id = t.execs[k].id => j = k
  BY DEF ExitInv, ExecEnded
<1>7. \A k \in 1..n : At(t, k).exec < t.next_exec_id
  BY <1>1, <1>3 DEF ExitInv, ExecEnded
<1>8. ASSUME NEW j \in 1..n, NEW k \in 1..n,
             IsExit(t, j, At(t, k).exec), IsExit(t, k, At(t, k).exec)
      PROVE  j = k
  <2>1. CASE j = n
    BY <1>1, <1>4, <1>8, <2>1 DEF IsExit
  <2>2. CASE k = n
    BY <1>1, <1>4, <1>8, <2>2 DEF IsExit
  <2>3. CASE j # n /\ k # n
    <3>1. j \in 1..(n - 1) /\ k \in 1..(n - 1)
      BY <1>1, <2>3
    <3>2. j + d = k + d
      BY <1>1, <1>8, <3>1 DEF ExitInv, IsExit
    <3>3. QED
      BY <3>1, <3>2
  <2>4. QED
    BY <2>1, <2>2, <2>3
<1>9. ASSUME NEW k \in 1..n, NEW f \in 1..Len(t.execs), IsExit(t, k, t.execs[f].id)
      PROVE  Done(t, f)
  <2>1. CASE f = e
    BY <2>1 DEF ExecEnded
  <2>2. CASE f # e
    <3>1. f \in 1..Len(s.execs) /\ t.execs[f].id = s.execs[f].id /\ s.execs[f].id # x
      BY <1>3, <2>2 DEF ExecEnded, ExitInv
    <3>2. k \in 1..(n - 1)
      BY <1>1, <1>9, <3>1 DEF IsExit
    <3>3. IsExit(s, k + d, s.execs[f].id) /\ k + d \in 1..s.event_count
      BY <1>1, <1>9, <3>1, <3>2 DEF IsExit
    <3>4. QED
      BY <2>2, <3>1, <3>3 DEF ExitInv, ExecEnded
  <2>3. QED
    BY <2>1, <2>2
<1>10. ASSUME NEW f \in 1..Len(t.execs), Done(t, f), n < MAX_EVENTS
       PROVE  \E k \in 1..n : IsExit(t, k, t.execs[f].id)
  <2>1. f \in 1..Len(s.execs) /\ t.execs[f].id = s.execs[f].id
    BY DEF ExecEnded
  <2>2. CASE f = e
    <3>1. IsExit(t, n, t.execs[f].id)
      BY <1>1, <2>1, <2>2 DEF IsExit
    <3>2. n \in 1..n
      BY <1>2
    <3>3. QED
      BY <3>1, <3>2
  <2>3. CASE f # e
    <3>1. d = 0 /\ s.event_count = n - 1 /\ s.event_count < MAX_EVENTS /\ Done(s, f)
      BY <1>1, <1>2, <1>10, <2>1, <2>3 DEF ExecEnded
    <3>2. PICK k \in 1..s.event_count : IsExit(s, k, s.execs[f].id)
      BY <2>1, <3>1 DEF ExitInv
    <3>3. k \in 1..(n - 1) /\ k \in 1..n /\ k + d = k
      BY <1>2, <3>1
    <3>4. At(t, k) = At(s, k)
      BY <1>1, <3>3
    <3>5. QED
      BY <2>1, <3>2, <3>3, <3>4 DEF IsExit
  <2>4. QED
    BY <2>2, <2>3
<1>11. QED
  BY <1>5, <1>6, <1>7, <1>8, <1>9, <1>10 DEF ExitInv

\* The session becomes ready when its one open execution ends.
LEMMA EndKeepsExec ==
  ASSUME NEW s, NEW t, NEW e \in Open(s), ExecInv(s), ExecEnded(s, t, e),
         t.state = "ready", t.deadline = 0
  PROVE  ExecInv(t)
<1>1. Open(t) = {}
  <2>1. SUFFICES ASSUME NEW k \in Open(t) PROVE FALSE
    OBVIOUS
  <2>2. k \in 1..Len(s.execs) /\ ~Done(t, k) /\ k # e
    BY DEF Open, ExecEnded
  <2>3. k \in Open(s)
    BY <2>2 DEF Open, ExecEnded
  <2>4. QED
    BY <2>2, <2>3 DEF ExecInv
<1>2. QED
  BY <1>1 DEF ExecInv

-----------------------------------------------------------------------------
(* The two loops, as what they compute. *)

\* tick's loop over the executions of a slot is the one function that satisfies
\* its step equation.
LEMMA TickLoop ==
  ASSUME NEW s, NEW n \in Nat, n = Len(s.execs), NEW g,
         g = [k \in 0..n |-> IF k = 0 THEN s ELSE tickExec(g[k - 1], k)]
  PROVE  tickSlot(s) = g[n]
<1> DEFINE Step(h) == h = [k \in 0..n |-> IF k = 0 THEN s ELSE tickExec(h[k - 1], k)]
<1>1. ASSUME NEW h, Step(h) PROVE h = g
  <2>1. h = [k \in 0..n |-> h[k]] /\ g = [k \in 0..n |-> g[k]]
    BY <1>1
  <2>2. SUFFICES ASSUME NEW k0 \in 0..n, h[k0] # g[k0] PROVE FALSE
    BY <2>1
  <2> DEFINE Bad == {k \in 0..n : h[k] # g[k]}
  <2>3. PICK k \in Bad : \A j \in Bad : k <= j
    <3>1. Bad \subseteq Nat /\ Bad # {}
      BY <2>2
    <3>2. QED
      BY <3>1, LeastNat
  <2>4. k # 0
    BY <1>1, <2>3
  <2>5. k - 1 \in 0..n /\ k - 1 \notin Bad /\ k \in 0..n
    <3>1. k \in 0..n /\ k - 1 \in 0..n /\ ~(k <= k - 1)
      BY <2>3, <2>4
    <3>2. QED
      BY <2>3, <3>1
  <2>6. h[k] = tickExec(h[k - 1], k) /\ g[k] = tickExec(g[k - 1], k)
    BY <1>1, <2>4, <2>5
  <2>7. QED
    BY <2>3, <2>5, <2>6
<1>2. tickSlot(s) = (CHOOSE h : Step(h))[n]
  BY DEF tickSlot
<1>3. (CHOOSE h : Step(h)) = g
  BY <1>1
<1>4. QED
  BY <1>2, <1>3

\* What tick does to an execution that is to end.
Ends(s, k) ==
  [pushEvent(s, s.execs[k].id, "exit") EXCEPT
     !.execs[k].state = "done",
     !.execs[k].term = IF s.execs[k].cancel_requested THEN "cancelled" ELSE "timeout",
     !.state = "ready", !.deadline = 0]

\* Ending one execution leaves the records of the others as they were.
LEMMA EndsFields ==
  ASSUME NEW s \in Slot, NEW e \in 1..Len(s.execs)
  PROVE  LET t == Ends(s, e) IN
         /\ t \in Slot /\ Pushed(s, t, s.execs[e].id, "exit") /\ ExecEnded(s, t, e)
         /\ t.state = "ready" /\ t.deadline = 0
         /\ SameQuota(s, t) /\ SameLimits(s, t)
         /\ \A k \in 1..Len(s.execs) : k # e => t.execs[k] = s.execs[k]
<1> DEFINE p == pushEvent(s, s.execs[e].id, "exit")
           tm == IF s.execs[e].cancel_requested THEN "cancelled" ELSE "timeout"
           x == [[s.execs EXCEPT ![e].state = "done"] EXCEPT ![e].term = tm]
           t == Ends(s, e)
<1>1. s.execs \in Seq(Exec) /\ s.execs[e] \in Exec /\ s.execs[e].id \in Nat
  <2>1. s.execs \in Seq(Exec)
    BY DEF Slot
  <2>2. s.execs[e] \in Exec
    BY <2>1
  <2>3. QED
    BY <2>1, <2>2 DEF Exec
<1>2. /\ p \in Slot /\ Pushed(s, p, s.execs[e].id, "exit")
      /\ SameExec(s, p) /\ SameQuota(s, p) /\ SameLimits(s, p)
  BY <1>1, PushAdds DEF EventTypes
<1> HIDE DEF p
<1>3. t = [p EXCEPT !.execs = x, !.state = "ready", !.deadline = 0]
  <2>1. p.execs = s.execs
    BY <1>2 DEF SameExec
  <2>2. t = [[[[p EXCEPT !.execs[e].state = "done"] EXCEPT !.execs[e].term = tm]
              EXCEPT !.state = "ready"] EXCEPT !.deadline = 0]
    BY DEF Ends, p
  <2>3. [p EXCEPT !.execs[e].state = "done"]
          = [p EXCEPT !.execs = [s.execs EXCEPT ![e].state = "done"]]
    BY <2>1
  <2> DEFINE q == [p EXCEPT !.execs = [s.execs EXCEPT ![e].state = "done"]]
  <2>4. q.execs = [s.execs EXCEPT ![e].state = "done"]
    BY <1>2 DEF Slot
  <2>5. [q EXCEPT !.execs[e].term = tm] = [q EXCEPT !.execs = x]
    <3> HIDE DEF q
    <3>1. QED
      BY <2>4
  <2>6. [q EXCEPT !.execs = x] = [p EXCEPT !.execs = x]
    <3>1. PICK w : w = [s.execs EXCEPT ![e].state = "done"]
      OBVIOUS
    <3> HIDE DEF x
    <3>2. [[p EXCEPT !.execs = w] EXCEPT !.execs = x] = [p EXCEPT !.execs = x]
      BY <1>2 DEF Slot
    <3>3. QED
      BY <3>1, <3>2
  <2>7. t = [[[p EXCEPT !.execs = x] EXCEPT !.state = "ready"] EXCEPT !.deadline = 0]
    BY <2>2, <2>3, <2>5, <2>6
  <2> HIDE DEF x, t
  <2>8. QED
    BY <1>2, <2>7 DEF Slot
<1>4. /\ x \in Seq(Exec) /\ Len(x) = Len(s.execs)
      /\ \A k \in 1..Len(s.execs) : k # e => x[k] = s.execs[k]
      /\ x[e].state = "done" /\ x[e].id = s.execs[e].id
      /\ x[e].generation = s.execs[e].generation
  <2> DEFINE y == [s.execs[e] EXCEPT !.state = "done", !.term = tm]
  <2>1. y \in Exec /\ y.state = "done" /\ y.id = s.execs[e].id
        /\ y.generation = s.execs[e].generation
    BY <1>1 DEF Exec
  <2>2. x = [s.execs EXCEPT ![e] = y]
    BY <1>1 DEF Exec
  <2> HIDE DEF x, y
  <2>3. QED
    BY <1>1, <2>1, <2>2
<1> HIDE DEF x, t
<1>5. /\ t \in Slot /\ SameRing(p, t) /\ SameQuota(p, t) /\ SameLimits(p, t)
      /\ t.execs = x /\ t.state = "ready" /\ t.deadline = 0
      /\ t.generation = p.generation /\ t.next_exec_id = p.next_exec_id
  BY <1>2, <1>3, <1>4 DEF Slot, SameRing, SameQuota, SameLimits
<1>6. Pushed(s, t, s.execs[e].id, "exit")
  BY <1>2, <1>5 DEF Pushed, SameRing, At
<1>7. ExecEnded(s, t, e)
  BY <1>2, <1>4, <1>5 DEF ExecEnded, Done, SameExec
<1>8. QED
  BY <1>2, <1>4, <1>5, <1>6, <1>7 DEF SameQuota, SameLimits, t

\* A tick of a slot ends its open execution or does nothing: once that has
\* ended, the session is ready and no later record is open.
LEMMA TickEndsOne ==
  ASSUME NEW s \in Slot, ExecInv(s)
  PROVE  tickSlot(s) = s \/ \E e \in Open(s) : tickSlot(s) = Ends(s, e)
<1> DEFINE n == Len(s.execs)
<1>1. n \in Nat /\ n = Len(s.execs)
  BY DEF Slot
<1>2. ASSUME NEW r, NEW k, r.execs[k].state = "done" PROVE tickExec(r, k) = r
  BY <1>2 DEF tickExec
<1>3. CASE Open(s) = {}
  <2> DEFINE g == [k \in 0..n |-> s]
  <2>1. \A k \in 1..n : tickExec(s, k) = s
    BY <1>2, <1>3 DEF Open, Done
  <2>2. g = [k \in 0..n |-> IF k = 0 THEN s ELSE tickExec(g[k - 1], k)]
    <3>1. ASSUME NEW k \in 0..n PROVE g[k] = IF k = 0 THEN s ELSE tickExec(g[k - 1], k)
      <4>1. k = 0 \/ (k \in 1..n /\ k - 1 \in 0..n)
        BY <1>1
      <4> HIDE DEF n
      <4>2. QED
        BY <2>1, <4>1
    <3>2. QED
      BY <3>1
  <2>3. tickSlot(s) = g[n]
    <3> HIDE DEF g
    <3>1. QED
      BY <1>1, <2>2, TickLoop
  <2>4. QED
    BY <1>1, <2>3
<1>4. CASE Open(s) # {}
  <2>1. PICK e \in Open(s) : TRUE
    BY <1>4
  <2>2. e \in 1..n /\ \A k \in 1..n : k # e => s.execs[k].state = "done"
    BY <2>1 DEF Open, Done, ExecInv
  <2> DEFINE T == tickExec(s, e)
             g == [k \in 0..n |-> IF k < e THEN s ELSE T]
  <2>3. T = s \/ T = Ends(s, e)
    BY DEF tickExec, Ends
  <2>4. \A k \in 1..n : k # e => T.execs[k].state = "done"
    BY <2>2, <2>3, EndsFields
  <2> HIDE DEF T
  <2>5. g = [k \in 0..n |-> IF k = 0 THEN s ELSE tickExec(g[k - 1], k)]
    <3>1. ASSUME NEW k \in 0..n PROVE g[k] = IF k = 0 THEN s ELSE tickExec(g[k - 1], k)
      <4>1. k = 0 \/ (k \in 1..n /\ k - 1 \in 0..n)
        BY <1>1
      <4>2. CASE k = 0
        BY <1>1, <2>2, <4>2
      <4>3. CASE k # 0 /\ k < e
        BY <1>1, <1>2, <2>2, <4>1, <4>3
      <4>4. CASE k = e
        BY <1>1, <2>2, <4>1, <4>4 DEF T
      <4>5. CASE k > e
        BY <1>1, <1>2, <2>2, <2>4, <4>1, <4>5
      <4>6. QED
        BY <1>1, <2>2, <4>2, <4>3, <4>4, <4>5
    <3>2. QED
      BY <3>1
  <2>6. tickSlot(s) = g[n]
    <3> HIDE DEF g
    <3>1. QED
      BY <1>1, <2>5, TickLoop
  <2>7. tickSlot(s) = T
    BY <1>1, <2>2, <2>6
  <2>8. QED
    BY <2>1, <2>3, <2>7
<1>5. QED
  BY <1>3, <1>4

\* g[n] is what events has copied after n events of the ring.
Copies(s, after, room, g) ==
  /\ g = [n \in 0..s.event_count |-> g[n]]
  /\ g[0] = << >>
  /\ \A n \in 1..s.event_count :
       g[n] = IF Len(g[n - 1]) < room /\ ring(s)[n].seq > after
              THEN Append(g[n - 1], ring(s)[n]) ELSE g[n - 1]

\* events' loop over the ring computes the one function that does so.
LEMMA EventsLoop ==
  ASSUME NEW s, NEW after, NEW room, s.event_count \in Nat, NEW g, Copies(s, after, room, g)
  PROVE  events(s, after, room) = g[s.event_count]
<1> DEFINE c == s.event_count
<1>0. /\ g = [n \in 0..c |-> g[n]] /\ g[0] = << >>
      /\ \A n \in 1..c : g[n] = IF Len(g[n - 1]) < room /\ ring(s)[n].seq > after
                                THEN Append(g[n - 1], ring(s)[n]) ELSE g[n - 1]
  BY DEF Copies
<1> DEFINE Step(h) ==
             h = [n \in 0..c |-> IF n = 0 THEN << >>
                                 ELSE IF Len(h[n - 1]) < room /\ ring(s)[n].seq > after
                                      THEN Append(h[n - 1], ring(s)[n]) ELSE h[n - 1]]
<1>1. ASSUME NEW h, Step(h) PROVE h = g
  <2>1. h = [k \in 0..c |-> h[k]] /\ g = [k \in 0..c |-> g[k]]
    BY <1>0, <1>1
  <2>2. SUFFICES ASSUME NEW k0 \in 0..c, h[k0] # g[k0] PROVE FALSE
    BY <2>1
  <2> DEFINE Bad == {k \in 0..c : h[k] # g[k]}
  <2>3. PICK k \in Bad : \A j \in Bad : k <= j
    <3>1. Bad \subseteq Nat /\ Bad # {}
      BY <2>2
    <3>2. QED
      BY <3>1, LeastNat
  <2>4. k # 0
    BY <1>0, <1>1, <2>3
  <2>5. k - 1 \in 0..c /\ k - 1 \notin Bad /\ k \in 0..c
    <3>1. k \in 0..c /\ k - 1 \in 0..c /\ ~(k <= k - 1)
      BY <2>3, <2>4
    <3>2. QED
      BY <2>3, <3>1
  <2>6. h[k] = IF Len(h[k - 1]) < room /\ ring(s)[k].seq > after
               THEN Append(h[k - 1], ring(s)[k]) ELSE h[k - 1]
    BY <1>1, <2>4, <2>5
  <2>7. g[k] = IF Len(g[k - 1]) < room /\ ring(s)[k].seq > after
               THEN Append(g[k - 1], ring(s)[k]) ELSE g[k - 1]
    <3>1. k \in 1..c
      BY <2>4, <2>5
    <3>2. QED
      BY <1>0, <3>1
  <2>8. h[k - 1] = g[k - 1] /\ h[k] # g[k]
    BY <2>3, <2>5
  <2>9. QED
    BY <2>6, <2>7, <2>8
<1>2. Step(g)
  <2>1. \A n \in 0..c : n = 0 \/ n \in 1..c
    OBVIOUS
  <2>2. QED
    BY <1>0, <2>1
<1>3. events(s, after, room) = (CHOOSE h : Step(h))[c]
  BY DEF events
<1>4. (CHOOSE h : Step(h)) = g
  BY <1>1, <1>2
<1>5. QED
  BY <1>3, <1>4

\* The larger and the smaller of two numbers.
LEMMA MaxMin ==
  ASSUME NEW a \in Int, NEW b \in Int
  PROVE  /\ Max({a, b}) = IF a >= b THEN a ELSE b
         /\ Min({a, b}) = IF a <= b THEN a ELSE b
BY DEF Max, Min

\* What events returns: the ring without its first d events, cut to the room,
\* where d is the number of those the cursor has passed.
LEMMA EventsPage ==
  ASSUME NEW s \in Slot, RingInv(s), NEW after \in Nat, NEW room \in Nat \ {0}, NEW d \in Nat,
         d = (IF after + 1 >= s.next_seq - s.event_count
              THEN after + 1 - (s.next_seq - s.event_count) ELSE 0)
  PROVE  LET rest == IF d < s.event_count THEN s.event_count - d ELSE 0
             size == IF rest < room THEN rest ELSE room IN
         events(s, after, room) = [i \in 1..size |-> At(s, d + i)]
<1> DEFINE c == s.event_count
           N == s.next_seq
           L(n) == LET rest == IF d < n THEN n - d ELSE 0 IN IF rest < room THEN rest ELSE room
           g == [n \in 0..c |-> [i \in 1..L(n) |-> At(s, d + i)]]
<1>1. c \in Nat /\ N \in Nat /\ c < N
  BY ServiceAssumption DEF Slot, RingInv
<1>2. \A n \in 1..c : ring(s)[n] = At(s, n) /\ At(s, n).seq = N - c + n - 1
  BY DEF ring, At, RingInv
<1>3. d = (IF after + 1 >= N - c THEN after + 1 - (N - c) ELSE 0)
  OBVIOUS
<1> HIDE DEF c, N
<1>4. \A n \in 1..c : ring(s)[n].seq > after <=> d < n
  BY <1>1, <1>2, <1>3
<1>5. \A n \in 0..c : L(n) \in Nat
  BY <1>1
<1>6. \A n \in 0..c : g[n] \in Seq({At(s, k) : k \in Nat}) /\ Len(g[n]) = L(n)
  <2>1. SUFFICES ASSUME NEW n \in 0..c
                 PROVE  g[n] \in Seq({At(s, k) : k \in Nat}) /\ Len(g[n]) = L(n)
    OBVIOUS
  <2>2. PICK m \in Nat : m = L(n)
    BY <1>5
  <2>3. g[n] = [i \in 1..m |-> At(s, d + i)]
    BY <2>2
  <2>4. [i \in 1..m |-> At(s, d + i)] \in [1..m -> {At(s, k) : k \in Nat}]
    BY SMT
  <2> HIDE DEF g, L
  <2>5. QED
    BY <2>2, <2>3, <2>4
<1>7. ASSUME NEW n \in 1..c
      PROVE  g[n] = IF Len(g[n - 1]) < room /\ ring(s)[n].seq > after
                    THEN Append(g[n - 1], ring(s)[n]) ELSE g[n - 1]
  <2>1. n - 1 \in 0..c /\ n \in 0..c
    BY <1>1
  <2>2. PICK m \in Nat, p \in Nat : m = L(n - 1) /\ p = L(n)
    BY <1>5, <2>1
  <2>3. g[n - 1] = [i \in 1..m |-> At(s, d + i)] /\ g[n] = [i \in 1..p |-> At(s, d + i)]
    BY <2>1, <2>2
  <2>4. Len(g[n - 1]) = m /\ g[n - 1] \in Seq({At(s, k) : k \in Nat})
    BY <1>6, <2>1, <2>2
  <2>5. CASE m < room /\ d < n
    <3>1. m = n - 1 - d /\ p = m + 1 /\ d + p = n
      BY <1>1, <2>2, <2>5
    <3>2. ring(s)[n] = At(s, d + p)
      BY <1>2, <3>1
    <3> HIDE DEF g, L
    <3>3. Append(g[n - 1], ring(s)[n]) = [i \in 1..p |-> At(s, d + i)]
      <4> DEFINE q == g[n - 1]
                 v == ring(s)[n]
      <4>1. Append(q, v) = [i \in 1..(Len(q) + 1) |-> IF i = Len(q) + 1 THEN v ELSE q[i]]
        BY <2>4
      <4>2. Append(q, v) = [i \in 1..p |-> IF i = p THEN v ELSE q[i]]
        BY <2>4, <3>1, <4>1
      <4>3. ASSUME NEW i \in 1..p, i # p PROVE q[i] = At(s, d + i)
        <5>1. i \in 1..m
          BY <3>1, <4>3
        <5>2. QED
          BY <2>3, <5>1
      <4>4. QED
        BY <3>2, <4>2, <4>3
    <3>4. QED
      BY <1>4, <2>3, <2>4, <2>5, <3>3
  <2>6. CASE ~(m < room /\ d < n)
    <3>1. p = m
      BY <1>1, <2>2, <2>6
    <3> HIDE DEF g, L
    <3>2. QED
      BY <1>4, <2>3, <2>4, <2>6, <3>1
  <2>7. QED
    BY <2>5, <2>6
<1>8. g[0] = << >> /\ 0 \in 0..c
  <2>1. L(0) = 0 /\ 0 \in 0..c
    BY <1>1
  <2>2. g[0] \in Seq({At(s, k) : k \in Nat}) /\ Len(g[0]) = 0
    BY <1>6, <2>1
  <2> HIDE DEF g, L
  <2>3. QED
    BY <2>1, <2>2
<1>9. g = [n \in 0..c |-> g[n]]
  OBVIOUS
<1>10. c = s.event_count
  BY DEF c
<1>11. events(s, after, room) = g[c]
  <2> HIDE DEF g
  <2>1. Copies(s, after, room, g)
    BY <1>7, <1>8, <1>9, <1>10 DEF Copies
  <2>2. QED
    BY <1>1, <1>10, <2>1, EventsLoop
<1>12. g[c] = [i \in 1..L(c) |-> At(s, d + i)]
  BY <1>1
<1>13. QED
  BY <1>10, <1>11, <1>12

\* A page read with a cursor holds the oldest unseen events without a gap.
LEMMA PageIsNext ==
  ASSUME NEW s \in Slot, RingInv(s), NEW after \in 0..s.next_seq, NEW room \in 1..MAX_EVENTS
  PROVE  LET first == Max({after + 1, s.next_seq - s.event_count})
             page == events(s, after, room) IN
         /\ Len(page) = Min({room, Max({s.next_seq - first, 0})})
         /\ \A k \in 1..Len(page) : page[k].seq = first + k - 1
<1> DEFINE c == s.event_count
           N == s.next_seq
           first == Max({after + 1, N - c})
           page == events(s, after, room)
<1>1. c \in Nat /\ N \in Nat /\ c < N /\ after \in Nat /\ room \in Nat \ {0}
  BY ServiceAssumption DEF Slot, RingInv
<1>2. first = IF after + 1 >= N - c THEN after + 1 ELSE N - c
  BY <1>1, MaxMin
<1>3. PICK d \in Nat : d = IF after + 1 >= N - c THEN after + 1 - (N - c) ELSE 0
  BY <1>1
<1>4. first = N - c + d /\ first \in Int
  BY <1>1, <1>2, <1>3
<1>5. PICK rest \in Nat : rest = IF d < c THEN c - d ELSE 0
  BY <1>1
<1>6. PICK size \in Nat : size = IF rest < room THEN rest ELSE room
  BY <1>1
<1>7. page = [i \in 1..size |-> At(s, d + i)]
  <2>1. LET rst == IF d < s.event_count THEN s.event_count - d ELSE 0
            siz == IF rst < room THEN rst ELSE room IN
        events(s, after, room) = [i \in 1..siz |-> At(s, d + i)]
    BY <1>1, <1>3, EventsPage
  <2>2. QED
    BY <1>5, <1>6, <2>1
<1>8. Max({N - first, 0}) = rest
  <2> HIDE DEF first, N, c
  <2>1. PICK f \in Int : f = N - first
    BY <1>1, <1>4
  <2>2. Max({f, 0}) = IF f >= 0 THEN f ELSE 0
    BY MaxMin
  <2>3. QED
    BY <1>1, <1>4, <1>5, <2>1, <2>2
<1>9. Min({room, rest}) = size
  BY <1>1, <1>6, MaxMin
<1>10. Len(page) = size
  <2>1. page \in [1..size -> {At(s, d + i) : i \in 1..size}]
    BY <1>7
  <2> HIDE DEF page
  <2>2. QED
    BY <1>7, <2>1
<1>11. ASSUME NEW k \in 1..size PROVE page[k].seq = first + k - 1
  <2>1. d + k \in 1..c
    BY <1>1, <1>5, <1>6
  <2>2. At(s, d + k).seq = N - c + (d + k) - 1
    BY <2>1 DEF RingInv
  <2>3. page[k] = At(s, d + k)
    BY <1>7
  <2> HIDE DEF first, page, N, c
  <2>4. QED
    BY <1>1, <1>4, <2>2, <2>3
<1>12. QED
  BY <1>8, <1>9, <1>10, <1>11

-----------------------------------------------------------------------------
(* Every call keeps the invariant of the slot it writes, and its limits. *)

Kept(s, t) == SlotInv(t) /\ SameLimits(s, t)

LEMMA KeptTwice ==
  ASSUME NEW s, NEW r, NEW t, Kept(s, r), Kept(r, t)
  PROVE  Kept(s, t)
BY DEF Kept, SameLimits

\* A lifecycle event about no execution, or about one that exists.
LEMMA LifecycleKeeps ==
  ASSUME NEW s, SlotInv(s), NEW x \in Nat, x < s.next_exec_id
  PROVE  Kept(s, pushEvent(s, x, "lifecycle"))
<1> DEFINE t == pushEvent(s, x, "lifecycle")
<1>1. s \in Slot /\ ExecInv(s) /\ QuotaInv(s) /\ RingInv(s) /\ ExitInv(s)
  BY DEF SlotInv
<1>2. /\ t \in Slot /\ Pushed(s, t, x, "lifecycle")
      /\ SameExec(s, t) /\ SameQuota(s, t) /\ SameLimits(s, t)
  BY <1>1, PushAdds DEF EventTypes
<1> HIDE DEF t
<1>3. RingInv(t)
  BY <1>1, <1>2, PushKeepsRing
<1>4. ExecsKept(s, t)
  BY <1>2 DEF SameExec, ExecsKept, Done
<1>5. ExitInv(t)
  BY <1>1, <1>2, <1>4, LifecycleKeepsExit
<1>6. ExecInv(t)
  BY <1>1, <1>2 DEF ExecInv, SameExec, Open, Done
<1>7. QuotaInv(t)
  BY <1>1, <1>2 DEF QuotaInv, SameQuota
<1>8. QED
  BY <1>2, <1>3, <1>5, <1>6, <1>7 DEF Kept, SlotInv, t

\* guestReady: the session starts without an execution.
LEMMA ReadyKeeps ==
  ASSUME NEW s, SlotInv(s), s.state # "busy", s.state # "ready"
  PROVE  Kept(s, pushEvent([s EXCEPT !.state = "ready"], 0, "lifecycle"))
<1> DEFINE r == [s EXCEPT !.state = "ready"]
<1>1. s \in Slot /\ ExecInv(s) /\ QuotaInv(s) /\ RingInv(s) /\ ExitInv(s)
  BY DEF SlotInv
<1>2. /\ r \in Slot /\ SameRing(s, r) /\ SameQuota(s, r) /\ SameLimits(s, r)
      /\ r.execs = s.execs /\ r.next_exec_id = s.next_exec_id /\ r.state = "ready"
      /\ r.deadline = s.deadline /\ r.generation = s.generation
      /\ r.next_exec_id \in Nat \ {0}
  BY <1>1 DEF Slot, SameRing, SameQuota, SameLimits
<1> HIDE DEF r
<1>3. RingInv(r) /\ QuotaInv(r)
  BY <1>1, <1>2, SameKeepsRing DEF QuotaInv, SameQuota
<1>4. ExecInv(r)
  BY <1>1, <1>2 DEF ExecInv, Open, Done
<1>5. ExitInv(r)
  BY <1>1, <1>2, SameKeepsExit DEF ExecsKept, Done
<1>6. Kept(s, r)
  BY <1>2, <1>3, <1>4, <1>5 DEF Kept, SlotInv
<1>7. Kept(r, pushEvent(r, 0, "lifecycle"))
  BY <1>2, <1>6, LifecycleKeeps DEF Kept
<1>8. QED
  BY <1>6, <1>7, KeptTwice DEF r

\* startExec: the new execution is the only open one, of the session's
\* generation; without a free record the session is ready again.
LEMMA StartKeeps ==
  ASSUME NEW s, SlotInv(s), s.state = "ready", now \in 0..U64MAX
  PROVE  Kept(s, started(s))
<1> DEFINE dl == saturatingAdd(now, s.limits.execution_timeout_ms)
           b == [s EXCEPT !.state = "busy", !.deadline = dl]
           e == [id |-> s.next_exec_id, generation |-> s.generation, state |-> "running",
                 term |-> "none", cancel_requested |-> FALSE]
           r == [b EXCEPT !.execs = Append(@, e), !.next_exec_id = @ + 1]
<1>1. s \in Slot /\ ExecInv(s) /\ QuotaInv(s) /\ RingInv(s) /\ ExitInv(s)
  BY DEF SlotInv
<1>2. dl \in Nat \ {0}
  <2>1. s.limits \in Admitted
    BY <1>1 DEF Slot
  <2>2. s.limits.execution_timeout_ms \in Nat /\ FLOORS.execution_timeout_ms <= s.limits.execution_timeout_ms
    BY <2>1, ServiceAssumption DEF Admitted, validate
  <2>3. PICK ms \in Nat : ms = s.limits.execution_timeout_ms /\ ms > 0
    BY <2>2, ServiceAssumption
  <2>4. U64MAX \in Nat \ {0}
    BY ServiceAssumption
  <2>5. QED
    BY <2>3, <2>4 DEF saturatingAdd
<1> HIDE DEF dl
<1>3. s.deadline = 0 /\ Open(s) = {}
  BY <1>1 DEF ExecInv
<1>4. CASE Len(s.execs) < MAX_EXECS
  <2>1. started(s) = pushEvent(r, e.id, "lifecycle")
    BY <1>4 DEF started, dl
  <2>2. e \in Exec /\ e.id = s.next_exec_id /\ e.state = "running" /\ e.generation = s.generation
    BY <1>1 DEF Slot, Exec
  <2> HIDE DEF e
  <2>3. /\ r \in Slot /\ SameRing(s, r) /\ SameQuota(s, r) /\ SameLimits(s, r)
        /\ r.execs = Append(s.execs, e) /\ r.next_exec_id = s.next_exec_id + 1
        /\ r.state = "busy" /\ r.deadline = dl /\ r.generation = s.generation
    <3>1. Append(s.execs, e) \in Seq(Exec) /\ s.next_exec_id + 1 \in Nat \ {0}
      BY <1>1, <2>2 DEF Slot
    <3>2. r = [s EXCEPT !.state = "busy", !.deadline = dl, !.execs = Append(s.execs, e),
                        !.next_exec_id = s.next_exec_id + 1]
      BY <1>1 DEF Slot
    <3> HIDE DEF r
    <3>3. r \in Slot
      BY <1>1, <1>2, <3>1, <3>2 DEF Slot
    <3>4. QED
      BY <1>1, <3>2, <3>3 DEF Slot, SameRing, SameQuota, SameLimits
  <2> HIDE DEF r
  <2> DEFINE m == Len(s.execs)
  <2>4. s.execs \in Seq(Exec) /\ m \in Nat
    BY <1>1 DEF Slot
  <2>5. /\ Len(r.execs) = m + 1 /\ r.execs[m + 1] = e
        /\ \A k \in 1..m : r.execs[k] = s.execs[k]
    BY <2>2, <2>3, <2>4
  <2>6. ExecAdded(s, r, e.id)
    BY <2>2, <2>3, <2>5 DEF ExecAdded, Done
  <2>7. Open(r) = {m + 1}
    <3>1. \A k \in 1..(m + 1) : k = m + 1 \/ k \in 1..m
      BY <2>4
    <3>2. m + 1 \in Open(r)
      BY <2>2, <2>4, <2>5 DEF Open, Done
    <3>3. \A k \in 1..m : Done(s, k)
      BY <1>3 DEF Open
    <3>4. ASSUME NEW k \in Open(r) PROVE k = m + 1
      <4>1. k \in 1..(m + 1) /\ r.execs[k].state # "done"
        BY <2>5 DEF Open, Done
      <4>2. QED
        BY <2>5, <3>1, <3>3, <4>1 DEF Done
    <3>5. QED
      BY <3>2, <3>4
  <2>8. ExecInv(r)
    BY <1>2, <2>2, <2>3, <2>5, <2>7 DEF ExecInv
  <2>9. ExitInv(r)
    BY <1>1, <2>3, <2>6, StartKeepsExit
  <2>10. RingInv(r) /\ QuotaInv(r)
    BY <1>1, <2>3, SameKeepsRing DEF QuotaInv, SameQuota
  <2>11. Kept(s, r)
    BY <2>3, <2>8, <2>9, <2>10 DEF Kept, SlotInv
  <2>12. e.id \in Nat /\ e.id < r.next_exec_id
    <3>1. PICK x \in Nat : x = s.next_exec_id
      BY <1>1 DEF Slot
    <3>2. QED
      BY <2>2, <2>3, <3>1
  <2>13. QED
    BY <2>1, <2>11, <2>12, LifecycleKeeps, KeptTwice DEF Kept
<1>5. CASE ~(Len(s.execs) < MAX_EXECS)
  <2>1. started(s) = [b EXCEPT !.state = "ready", !.deadline = 0]
    BY <1>5 DEF started, dl
  <2>2. [b EXCEPT !.state = "ready", !.deadline = 0] = s
    BY <1>1, <1>3 DEF Slot
  <2>3. QED
    BY <2>1, <2>2 DEF Kept, SameLimits
<1>6. QED
  BY <1>4, <1>5

\* cancelExec marks an open execution; it stays open.
LEMMA CancelKeeps ==
  ASSUME NEW s, SlotInv(s), NEW e \in Open(s)
  PROVE  Kept(s, [s EXCEPT !.execs[e].cancel_requested = TRUE,
                           !.execs[e].state = IF @ = "running" THEN "cancelling" ELSE @])
<1> DEFINE y == [s.execs[e] EXCEPT !.cancel_requested = TRUE,
                                   !.state = IF @ = "running" THEN "cancelling" ELSE @]
           x == [s.execs EXCEPT ![e] = y]
           t == [s EXCEPT !.execs[e].cancel_requested = TRUE,
                          !.execs[e].state = IF @ = "running" THEN "cancelling" ELSE @]
<1>1. s \in Slot /\ ExecInv(s) /\ QuotaInv(s) /\ RingInv(s) /\ ExitInv(s)
  BY DEF SlotInv
<1>2. s.execs \in Seq(Exec) /\ e \in 1..Len(s.execs) /\ s.execs[e].state # "done"
  BY <1>1 DEF Slot, Open, Done
<1>3. s.execs[e] \in Exec
  BY <1>2
<1>4. y \in Exec /\ y.state # "done" /\ y.id = s.execs[e].id
      /\ y.generation = s.execs[e].generation
  BY <1>2, <1>3 DEF Exec
<1>5. t = [s EXCEPT !.execs = x]
  <2> DEFINE q == [s EXCEPT !.execs = [s.execs EXCEPT ![e].cancel_requested = TRUE]]
  <2>1. t = [q EXCEPT !.execs[e].state = IF @ = "running" THEN "cancelling" ELSE @]
    OBVIOUS
  <2>2. q.execs = [s.execs EXCEPT ![e].cancel_requested = TRUE]
    BY <1>1 DEF Slot
  <2>3. x = [[s.execs EXCEPT ![e].cancel_requested = TRUE] EXCEPT
               ![e].state = IF @ = "running" THEN "cancelling" ELSE @]
    BY <1>2, <1>3 DEF Exec
  <2>4. t = [q EXCEPT !.execs = x]
    <3> HIDE DEF q, t, x
    <3>1. QED
      BY <2>1, <2>2, <2>3
  <2>5. [q EXCEPT !.execs = x] = [s EXCEPT !.execs = x]
    <3> HIDE DEF x
    <3>1. QED
      BY <1>1 DEF Slot
  <2>6. QED
    BY <2>4, <2>5
<1> HIDE DEF y, t
<1>6. /\ x \in Seq(Exec) /\ Len(x) = Len(s.execs) /\ x[e] = y
      /\ \A k \in 1..Len(s.execs) : k # e => x[k] = s.execs[k]
  BY <1>2, <1>4
<1> HIDE DEF x
<1>7. /\ t \in Slot /\ SameRing(s, t) /\ SameQuota(s, t) /\ SameLimits(s, t)
      /\ t.execs = x /\ t.next_exec_id = s.next_exec_id /\ t.state = s.state
      /\ t.deadline = s.deadline /\ t.generation = s.generation
  BY <1>1, <1>5, <1>6 DEF Slot, SameRing, SameQuota, SameLimits
<1>8. \A k \in 1..Len(s.execs) : /\ x[k].id = s.execs[k].id
                                 /\ x[k].generation = s.execs[k].generation
                                 /\ x[k].state = "done" <=> s.execs[k].state = "done"
  BY <1>2, <1>4, <1>6
<1>9. ExecsKept(s, t)
  BY <1>6, <1>7, <1>8 DEF ExecsKept, Done
<1>10. Open(t) = Open(s)
  BY <1>6, <1>7, <1>8 DEF Open, Done
<1>11. \A k \in Open(t) : t.execs[k].generation = s.execs[k].generation
  BY <1>6, <1>7, <1>8 DEF Open
<1>12. ExecInv(t)
  BY <1>1, <1>7, <1>10, <1>11 DEF ExecInv
<1>13. RingInv(t) /\ QuotaInv(t) /\ ExitInv(t)
  BY <1>1, <1>7, <1>9, SameKeepsRing, SameKeepsExit DEF QuotaInv, SameQuota
<1>14. QED
  BY <1>7, <1>12, <1>13 DEF Kept, SlotInv, t

\* A slot whose one open execution has just ended, its exit the last event.
LEMMA EndKeeps ==
  ASSUME NEW s, SlotInv(s), NEW t \in Slot, NEW e \in Open(s),
         Pushed(s, t, s.execs[e].id, "exit"), ExecEnded(s, t, e),
         t.state = "ready", t.deadline = 0, SameQuota(s, t), SameLimits(s, t)
  PROVE  Kept(s, t)
<1>1. s \in Slot /\ ExecInv(s) /\ QuotaInv(s) /\ RingInv(s) /\ ExitInv(s)
  BY DEF SlotInv
<1>2. RingInv(t)
  BY <1>1, PushKeepsRing
<1>3. ExitInv(t)
  BY <1>1, EndKeepsExit
<1>4. ExecInv(t)
  BY <1>1, EndKeepsExec
<1>5. QuotaInv(t)
  BY <1>1 DEF QuotaInv, SameQuota
<1>6. QED
  BY <1>2, <1>3, <1>4, <1>5 DEF Kept, SlotInv

\* tick: a cancel or the deadline ends the open execution.
LEMMA TickKeeps ==
  ASSUME NEW s, SlotInv(s)
  PROVE  Kept(s, tickSlot(s))
<1>1. s \in Slot /\ ExecInv(s)
  BY DEF SlotInv
<1>2. CASE tickSlot(s) = s
  BY <1>2 DEF Kept, SameLimits
<1>3. CASE \E e \in Open(s) : tickSlot(s) = Ends(s, e)
  <2>1. PICK e \in Open(s) : tickSlot(s) = Ends(s, e)
    BY <1>3
  <2>2. e \in 1..Len(s.execs)
    BY DEF Open
  <2>3. /\ Ends(s, e) \in Slot /\ Pushed(s, Ends(s, e), s.execs[e].id, "exit")
        /\ ExecEnded(s, Ends(s, e), e)
        /\ Ends(s, e).state = "ready" /\ Ends(s, e).deadline = 0
        /\ SameQuota(s, Ends(s, e)) /\ SameLimits(s, Ends(s, e))
    BY <1>1, <2>2, EndsFields
  <2>4. QED
    BY <2>1, <2>3, EndKeeps
<1>4. QED
  BY <1>1, <1>2, <1>3, TickEndsOne

\* finishExec: the guest's answer ends the open execution; the session was busy.
LEMMA FinishKeeps ==
  ASSUME NEW s, SlotInv(s), NEW e \in Open(s), NEW term \in {"exited", "output_limit"}
  PROVE  LET r == [s EXCEPT !.execs[e].state = "done", !.execs[e].term = term] IN
         Kept(s, IF r.state # "busy" THEN r
                 ELSE pushEvent([r EXCEPT !.state = "ready", !.deadline = 0],
                                r.execs[e].id, "exit"))
<1> DEFINE r == [s EXCEPT !.execs[e].state = "done", !.execs[e].term = term]
           y == [s.execs[e] EXCEPT !.state = "done", !.term = term]
           x == [s.execs EXCEPT ![e] = y]
           u == [r EXCEPT !.state = "ready", !.deadline = 0]
<1>1. s \in Slot /\ ExecInv(s)
  BY DEF SlotInv
<1>2. s.execs \in Seq(Exec) /\ e \in 1..Len(s.execs) /\ s.state = "busy"
  BY <1>1 DEF Slot, Open, ExecInv
<1>3. s.execs[e] \in Exec /\ s.execs[e].id \in Nat
  <2>1. s.execs[e] \in Exec
    BY <1>2
  <2>2. QED
    BY <2>1 DEF Exec
<1>4. y \in Exec /\ y.state = "done" /\ y.id = s.execs[e].id
      /\ y.generation = s.execs[e].generation
  BY <1>3 DEF Exec
<1>5. r = [s EXCEPT !.execs = x]
  <2> DEFINE q == [s EXCEPT !.execs = [s.execs EXCEPT ![e].state = "done"]]
  <2>1. r = [q EXCEPT !.execs[e].term = term]
    OBVIOUS
  <2>2. q.execs = [s.execs EXCEPT ![e].state = "done"]
    BY <1>1 DEF Slot
  <2>3. x = [[s.execs EXCEPT ![e].state = "done"] EXCEPT ![e].term = term]
    BY <1>2, <1>3 DEF Exec
  <2>4. r = [q EXCEPT !.execs = x]
    <3> HIDE DEF q, r, x
    <3>1. QED
      BY <2>1, <2>2, <2>3
  <2>5. [q EXCEPT !.execs = x] = [s EXCEPT !.execs = x]
    <3> HIDE DEF x
    <3>1. QED
      BY <1>1 DEF Slot
  <2>6. QED
    BY <2>4, <2>5
<1> HIDE DEF y, r
<1>6. /\ x \in Seq(Exec) /\ Len(x) = Len(s.execs) /\ x[e] = y
      /\ \A k \in 1..Len(s.execs) : k # e => x[k] = s.execs[k]
  BY <1>2, <1>4
<1> HIDE DEF x
<1>7. r.state = "busy" /\ r.execs[e].id = s.execs[e].id
  BY <1>1, <1>2, <1>4, <1>5, <1>6 DEF Slot
<1>8. /\ u \in Slot /\ SameRing(s, u) /\ SameQuota(s, u) /\ SameLimits(s, u)
      /\ u.execs = x /\ u.next_exec_id = s.next_exec_id /\ u.state = "ready"
      /\ u.deadline = 0 /\ u.generation = s.generation
  <2>1. u = [s EXCEPT !.execs = x, !.state = "ready", !.deadline = 0]
    BY <1>1, <1>5 DEF Slot
  <2> HIDE DEF u
  <2>2. u \in Slot
    BY <1>1, <1>6, <2>1 DEF Slot
  <2>3. QED
    BY <1>1, <2>1, <2>2 DEF Slot, SameRing, SameQuota, SameLimits
<1> HIDE DEF u
<1> DEFINE t == pushEvent(u, s.execs[e].id, "exit")
<1>9. /\ t \in Slot /\ Pushed(u, t, s.execs[e].id, "exit")
      /\ SameExec(u, t) /\ SameQuota(u, t) /\ SameLimits(u, t)
  BY <1>3, <1>8, PushAdds DEF EventTypes
<1> HIDE DEF t
<1>10. Pushed(s, t, s.execs[e].id, "exit")
  BY <1>8, <1>9 DEF Pushed, SameRing, At
<1>11. ExecEnded(s, t, e)
  BY <1>2, <1>4, <1>6, <1>8, <1>9 DEF ExecEnded, SameExec, Done
<1>12. t.state = "ready" /\ t.deadline = 0 /\ SameQuota(s, t) /\ SameLimits(s, t)
  BY <1>8, <1>9 DEF SameExec, SameQuota, SameLimits
<1>13. Kept(s, t)
  BY <1>9, <1>10, <1>11, <1>12, EndKeeps
<1>14. QED
  BY <1>7, <1>13 DEF t, u, r

\* A sum that did not wrap is the sum.
LEMMA Charged ==
  ASSUME NEW a \in 0..U64MAX, NEW n \in 0..U64MAX
  PROVE  LET c == (a + n) % (U64MAX + 1) IN
         /\ c \in 0..U64MAX
         /\ c >= a => c = a + n
         /\ a + n <= U64MAX => c = a + n
<1>1. PICK M \in Nat \ {0} : M = U64MAX + 1 /\ U64MAX = M - 1
  BY ServiceAssumption
<1>2. PICK x \in Nat : x = a + n /\ x < 2 * M
  BY <1>1
<1>3. x % M = IF x < M THEN x ELSE x - M
  BY <1>1, <1>2, Wrap
<1>4. QED
  BY <1>1, <1>2, <1>3

LEMMA KeptSame ==
  ASSUME NEW s, SlotInv(s)
  PROVE  Kept(s, s)
BY DEF Kept, SameLimits

\* Files and the bytes used change together.
LEMMA FilesKeep ==
  ASSUME NEW s, SlotInv(s), NEW f \in Files, IsFiniteSet(DOMAIN f), NEW u \in 0..U64MAX,
         u = SumFunction(f), u <= s.cap_bytes
  PROVE  Kept(s, [s EXCEPT !.used_bytes = u, !.files = f])
<1> DEFINE t == [s EXCEPT !.used_bytes = u, !.files = f]
<1>1. s \in Slot /\ ExecInv(s) /\ QuotaInv(s) /\ RingInv(s) /\ ExitInv(s)
  BY DEF SlotInv
<1>2. /\ t \in Slot /\ SameRing(s, t) /\ SameExec(s, t) /\ SameLimits(s, t)
      /\ t.files = f /\ t.used_bytes = u /\ t.cap_bytes = s.cap_bytes
  BY <1>1 DEF Slot, SameRing, SameExec, SameLimits
<1> HIDE DEF t
<1>3. RingInv(t) /\ QuotaInv(t)
  BY <1>1, <1>2, SameKeepsRing DEF QuotaInv
<1>4. ExecInv(t)
  BY <1>1, <1>2 DEF ExecInv, SameExec, Open, Done
<1>5. ExitInv(t)
  BY <1>1, <1>2, SameKeepsExit DEF ExecsKept, SameExec, Done
<1>6. QED
  BY <1>2, <1>3, <1>4, <1>5 DEF Kept, SlotInv, t

\* What a PUT does to the workspace when there is room.
LEMMA WrittenKeeps ==
  ASSUME NEW s, SlotInv(s), NEW path \in Paths, NEW size \in Sizes, NEW u \in 0..U64MAX,
         u + (IF path \in DOMAIN s.files THEN s.files[path] ELSE 0) = s.used_bytes + size,
         u <= s.cap_bytes
  PROVE  Kept(s, Lifecycle(WithFile([s EXCEPT !.used_bytes = u], path, size)))
<1> DEFINE F == s.files
           G == [p \in DOMAIN F \cup {path} |-> IF p = path THEN size ELSE F[p]]
           r == [s EXCEPT !.used_bytes = u]
           t == [s EXCEPT !.used_bytes = u, !.files = G]
<1>1. s \in Slot /\ QuotaInv(s)
  BY DEF SlotInv
<1>2. F \in Files /\ size \in Nat /\ Sizes \subseteq Nat
  BY <1>1, ServiceAssumption DEF Slot
<1>3. PICK D \in SUBSET Paths : F \in [D -> Sizes]
  BY <1>2 DEF Files
<1>4. IsFiniteSet(DOMAIN F) /\ Counts(F, DOMAIN F)
  BY <1>1, <1>2, <1>3 DEF QuotaInv, Counts
<1>5. /\ DOMAIN G = DOMAIN F \cup {path} /\ G[path] = size
      /\ \A i \in DOMAIN F : i # path => G[i] = F[i]
  OBVIOUS
<1>6. G \in Files
  <2>1. G \in [D \cup {path} -> Sizes] /\ D \cup {path} \in SUBSET Paths
    BY <1>3
  <2>2. QED
    BY <2>1 DEF Files
<1> HIDE DEF G
<1>7. /\ SumFunction(G) + (IF path \in DOMAIN F THEN F[path] ELSE 0) = SumFunction(F) + size
      /\ SumFunction(F) \in Nat /\ SumFunction(G) \in Nat /\ IsFiniteSet(DOMAIN G)
  BY <1>2, <1>4, <1>5, SumWrite
<1>8. u = SumFunction(G)
  <2>1. PICK o \in Nat : o = IF path \in DOMAIN F THEN F[path] ELSE 0
    BY <1>2, <1>3
  <2>2. PICK g \in Nat, f \in Nat : g = SumFunction(G) /\ f = SumFunction(F)
    BY <1>7
  <2>3. s.used_bytes = f
    BY <1>1, <2>2 DEF QuotaInv
  <2>4. u + o = f + size /\ g + o = f + size
    BY <1>7, <2>1, <2>2, <2>3
  <2>5. u \in Nat
    BY ServiceAssumption
  <2>6. QED
    BY <1>2, <2>1, <2>2, <2>4, <2>5
<1>9. Kept(s, t)
  BY <1>6, <1>7, <1>8, FilesKeep
<1>10. WithFile(r, path, size) = t
  <2>1. r.files = F /\ r = [s EXCEPT !.used_bytes = u]
    BY <1>1 DEF Slot
  <2>2. WithFile(r, path, size) = [r EXCEPT !.files = G]
    BY <2>1 DEF WithFile, G
  <2>3. QED
    BY <1>1, <2>2 DEF Slot
<1> HIDE DEF t
<1>11. t.next_exec_id \in Nat \ {0}
  BY <1>9 DEF Kept, SlotInv, Slot
<1>12. Kept(t, Lifecycle(t))
  BY <1>9, <1>11, LifecycleKeeps DEF Kept, Lifecycle
<1>13. QED
  BY <1>9, <1>10, <1>12, KeptTwice

\* putFile, on a path in use or a new one: a refused put leaves the slot as it was.
LEMMA PutKeeps ==
  ASSUME NEW s, SlotInv(s), NEW path \in Paths, NEW size \in Sizes
  PROVE  Kept(s, IF path \in DOMAIN s.files THEN overwritten(s, path, size)
                                             ELSE added(s, path, size))
<1>1. s \in Slot /\ QuotaInv(s)
  BY DEF SlotInv
<1>2. /\ s.files \in Files /\ size \in 0..U64MAX /\ Sizes \subseteq 0..U64MAX
      /\ U64MAX \in Nat /\ s.used_bytes \in 0..U64MAX /\ s.cap_bytes \in Nat
      /\ s.used_bytes <= s.cap_bytes /\ s = [s EXCEPT !.used_bytes = s.used_bytes]
  BY <1>1, ServiceAssumption DEF Slot, QuotaInv
<1>3. \A u, v : [[s EXCEPT !.used_bytes = u] EXCEPT !.used_bytes = v] = [s EXCEPT !.used_bytes = v]
  BY <1>1 DEF Slot
<1>4. \A u : /\ [s EXCEPT !.used_bytes = u].used_bytes = u
             /\ [s EXCEPT !.used_bytes = u].cap_bytes = s.cap_bytes
             /\ [s EXCEPT !.used_bytes = u].files = s.files
  BY <1>1 DEF Slot
<1>5. CASE path \in DOMAIN s.files
  <2> DEFINE old == s.files[path]
             rest == s.used_bytes - old
             r == discharge(s, old)
             c == (rest + size) % (U64MAX + 1)
  <2>1. PICK D \in SUBSET Paths : s.files \in [D -> Sizes]
    BY <1>2 DEF Files
  <2>2. Counts(s.files, DOMAIN s.files) /\ IsFiniteSet(DOMAIN s.files) /\ old \in 0..U64MAX
    BY <1>1, <1>2, <1>5, <2>1 DEF QuotaInv, Counts
  <2>3. old <= s.used_bytes
    <3> DEFINE G == [i \in DOMAIN s.files \ {path} |-> s.files[i]]
    <3>1. DOMAIN G = DOMAIN s.files \ {path} /\ \A i \in DOMAIN G : G[i] = s.files[i]
      OBVIOUS
    <3> HIDE DEF G
    <3>2. SumFunction(s.files) = s.files[path] + SumFunction(G) /\ SumFunction(G) \in Nat
      BY <1>5, <2>2, <3>1, SumRemove
    <3>3. s.used_bytes = SumFunction(s.files)
      BY <1>1 DEF QuotaInv
    <3>4. QED
      BY <2>2, <3>2, <3>3
  <2> HIDE DEF old
  <2>4. rest \in 0..U64MAX /\ rest + old = s.used_bytes
    BY <1>2, <2>2, <2>3
  <2>5. r = [s EXCEPT !.used_bytes = rest]
    BY <1>2, <2>2, <2>3 DEF discharge
  <2> HIDE DEF rest, r
  <2>6. r.used_bytes = rest /\ r.cap_bytes = s.cap_bytes
    BY <1>4, <2>5
  <2>7. /\ charged(r, size) = c /\ c \in 0..U64MAX /\ (c >= rest => c = rest + size)
    BY <1>2, <2>4, <2>6, Charged DEF charged
  <2>8. overwritten(s, path, size) =
          IF fits(r, size) THEN Lifecycle(WithFile(charge(r, size), path, size))
                           ELSE charge(r, old)
    BY DEF overwritten, r, old
  <2> HIDE DEF c
  <2>9. CASE fits(r, size)
    <3>1. c = rest + size /\ c <= s.cap_bytes
      BY <2>6, <2>7, <2>9 DEF fits
    <3>2. charge(r, size) = [s EXCEPT !.used_bytes = c]
      BY <1>3, <2>5, <2>7, <2>9 DEF charge
    <3>3. c + old = s.used_bytes + size
      BY <1>2, <2>2, <2>4, <3>1
    <3>4. Kept(s, Lifecycle(WithFile([s EXCEPT !.used_bytes = c], path, size)))
      BY <1>5, <2>7, <3>1, <3>3, WrittenKeeps DEF old
    <3>5. QED
      BY <1>5, <2>8, <2>9, <3>2, <3>4
  <2>10. CASE ~fits(r, size)
    <3>1. charged(r, old) = s.used_bytes
      BY <1>2, <2>2, <2>4, <2>6, Charged DEF charged
    <3>2. fits(r, old)
      BY <1>2, <2>2, <2>4, <2>6, <3>1 DEF fits
    <3>3. charge(r, old) = s
      BY <1>2, <1>3, <2>5, <3>1, <3>2 DEF charge
    <3>4. QED
      BY <1>5, <2>8, <2>10, <3>3, KeptSame
  <2>11. QED
    BY <2>9, <2>10
<1>6. CASE path \notin DOMAIN s.files
  <2> DEFINE c == (s.used_bytes + size) % (U64MAX + 1)
  <2>1. charged(s, size) = c /\ c \in 0..U64MAX /\ (c >= s.used_bytes => c = s.used_bytes + size)
    BY <1>2, Charged DEF charged
  <2> HIDE DEF c
  <2>2. CASE ~fits(s, size)
    BY <1>6, <2>2, KeptSame DEF added
  <2>3. CASE fits(s, size)
    <3>1. c = s.used_bytes + size /\ c <= s.cap_bytes
      BY <2>1, <2>3 DEF fits
    <3>2. charge(s, size) = [s EXCEPT !.used_bytes = c]
      BY <2>1, <2>3 DEF charge
    <3>3. CASE Cardinality(DOMAIN s.files) < MAX_FILES /\ path \notin LongPaths
      <4>1. added(s, path, size) = Lifecycle(WithFile([s EXCEPT !.used_bytes = c], path, size))
        BY <2>3, <3>2, <3>3 DEF added
      <4>2. c + 0 = s.used_bytes + size
        BY <2>1, <3>1
      <4>3. Kept(s, Lifecycle(WithFile([s EXCEPT !.used_bytes = c], path, size)))
        BY <1>6, <2>1, <3>1, <4>2, WrittenKeeps
      <4>4. QED
        BY <1>6, <4>1, <4>3
    <3>4. CASE ~(Cardinality(DOMAIN s.files) < MAX_FILES /\ path \notin LongPaths)
      <4>1. added(s, path, size) = discharge([s EXCEPT !.used_bytes = c], size)
        BY <2>3, <3>2, <3>4 DEF added
      <4>2. (IF size > c THEN 0 ELSE c - size) = s.used_bytes
        BY <1>2, <3>1
      <4>3. discharge([s EXCEPT !.used_bytes = c], size) = [s EXCEPT !.used_bytes = s.used_bytes]
        BY <1>3, <1>4, <4>2 DEF discharge
      <4>4. QED
        BY <1>2, <1>6, <4>1, <4>3, KeptSame
    <3>5. QED
      BY <3>3, <3>4
  <2>4. QED
    BY <2>2, <2>3
<1>7. QED
  BY <1>5, <1>6

\* The empty workspace.
LEMMA NoFiles == << >> \in Files /\ DOMAIN << >> = {} /\ SumFunction(<< >>) = 0
                 /\ IsFiniteSet(DOMAIN << >>)
<1>1. DOMAIN << >> = {}
  OBVIOUS
<1>2. << >> \in [{} -> Sizes]
  OBVIOUS
<1>3. QED
  BY <1>1, <1>2, SumEmpty, FS_EmptySet DEF Files

\* reset: nothing of the old generation is left but its numbers.
LEMMA ResetKeeps ==
  ASSUME NEW s, SlotInv(s)
  PROVE  Kept(s, Lifecycle(wiped(s)))
<1> DEFINE t == wiped(s)
<1>1. s \in Slot /\ RingInv(s)
  BY DEF SlotInv
<1>2. << >> \in Seq(Exec) /\ Len(<< >>) = 0
  OBVIOUS
<1>3. MAX_EVENTS \in Nat \ {0} /\ U64MAX \in Nat
  BY ServiceAssumption
<1>4. /\ t \in Slot /\ SameLimits(s, t)
      /\ t.execs = << >> /\ t.event_count = 0 /\ t.files = << >> /\ t.used_bytes = 0
      /\ t.state = "ready" /\ t.deadline = 0
  <2>1. s.generation + 1 \in Nat
    BY <1>1 DEF Slot
  <2>2. 0 \in 0..(MAX_EVENTS - 1) /\ 0 \in 0..MAX_EVENTS /\ 0 \in 0..U64MAX
    BY <1>3
  <2>3. t = [s EXCEPT !.execs = << >>, !.files = << >>, !.used_bytes = 0,
                      !.event_start = 0, !.event_count = 0,
                      !.generation = s.generation + 1, !.deadline = 0, !.state = "ready"]
    BY DEF wiped
  <2> HIDE DEF t
  <2>4. t \in Slot
    BY <1>1, <1>2, <2>1, <2>2, <2>3, NoFiles DEF Slot
  <2>5. QED
    BY <1>1, <2>3, <2>4 DEF Slot, SameLimits
<1> HIDE DEF t
<1>5. /\ t.next_seq \in Nat \ {0} /\ t.cap_bytes \in Nat /\ t.next_exec_id \in Nat \ {0}
  BY <1>4 DEF Slot
<1>6. 1..Len(t.execs) = {} /\ 1..t.event_count = {}
  BY <1>2, <1>4
<1>7. RingInv(t) /\ ExitInv(t)
  BY <1>4, <1>5, <1>6 DEF RingInv, ExitInv
<1>8. ExecInv(t)
  BY <1>4, <1>6 DEF ExecInv, Open
<1>9. QuotaInv(t)
  BY <1>4, <1>5, NoFiles DEF QuotaInv
<1>10. Kept(s, t)
  BY <1>4, <1>7, <1>8, <1>9 DEF Kept, SlotInv
<1>11. Kept(t, Lifecycle(t))
  BY <1>5, <1>10, LifecycleKeeps DEF Kept, Lifecycle
<1>12. QED
  BY <1>10, <1>11, KeptTwice DEF t

\* create: a new session.
LEMMA NewKeeps ==
  ASSUME NEW owner \in Owners, NEW l \in Limits, validate(l), next_id \in Nat
  PROVE  SlotInv(NewSlot(owner, l)) /\ NewSlot(owner, l).limits = l
<1> DEFINE t == NewSlot(owner, l)
<1>1. << >> \in Seq(Exec) /\ Len(<< >>) = 0
  OBVIOUS
<1>2. MAX_EVENTS \in Nat \ {0} /\ U64MAX \in Nat /\ MIB \in Nat /\ l.workspace_mib \in Nat
  BY ServiceAssumption
<1>3. l.workspace_mib * MIB \in Nat
  BY <1>2
<1>4. [k \in 0..(MAX_EVENTS - 1) |-> NoEvent] \in [0..(MAX_EVENTS - 1) -> Event]
  BY DEF NoEvent, Event, EventTypes
<1>5. 0 \in 0..(MAX_EVENTS - 1) /\ 0 \in 0..MAX_EVENTS /\ 0 \in 0..U64MAX
  BY <1>2
<1>6. l \in Admitted
  BY DEF Admitted
<1>7. /\ t \in Slot /\ t.limits = l
      /\ t.execs = << >> /\ t.event_count = 0 /\ t.files = << >> /\ t.used_bytes = 0
      /\ t.state = "creating" /\ t.deadline = 0
  BY <1>1, <1>3, <1>4, <1>5, <1>6, NoFiles DEF NewSlot, Slot
<1> HIDE DEF t
<1>8. /\ t.next_seq \in Nat \ {0} /\ t.cap_bytes \in Nat /\ t.next_exec_id \in Nat \ {0}
  BY <1>7 DEF Slot
<1>9. 1..Len(t.execs) = {} /\ 1..t.event_count = {}
  BY <1>1, <1>7
<1>10. RingInv(t) /\ ExitInv(t)
  BY <1>7, <1>8, <1>9 DEF RingInv, ExitInv
<1>11. ExecInv(t)
  BY <1>7, <1>9 DEF ExecInv, Open
<1>12. QuotaInv(t)
  BY <1>7, <1>8, NoFiles DEF QuotaInv
<1>13. QED
  BY <1>7, <1>10, <1>11, <1>12 DEF SlotInv, t

-----------------------------------------------------------------------------
(* The service: its slots, and the budget its sessions were admitted to. *)

UsedIn(sl) == {i \in 1..MAX_SESSIONS : sl[i].used}

Memory(sl) == [i \in UsedIn(sl) |-> sl[i].limits.memory_mib]

SlotsInv(sl) ==
  /\ sl = [i \in 1..MAX_SESSIONS |-> sl[i]]
  /\ \A i \in 1..MAX_SESSIONS : sl[i] = Free \/ SlotInv(sl[i])

BudgetInv(a, sl) ==
  /\ a \in [active : Nat, mem : Nat]
  /\ a.active = Cardinality(UsedIn(sl))
  /\ a.mem = SumFunction(Memory(sl))
  /\ a.mem <= mem_budget_mib

\* What every state of the service satisfies.
ServiceInv ==
  /\ now \in 0..U64MAX /\ next_id \in Nat
  /\ SlotsInv(slots)
  /\ BudgetInv(adm, slots)

\* The slots in use are finitely many, hold sessions, and their memory can be summed.
LEMMA UsedSlots ==
  ASSUME NEW sl, SlotsInv(sl)
  PROVE  /\ IsFiniteSet(UsedIn(sl)) /\ Cardinality(UsedIn(sl)) \in Nat
         /\ \A i \in 1..MAX_SESSIONS : i \in UsedIn(sl) <=> SlotInv(sl[i])
         /\ \A i \in 1..MAX_SESSIONS : i \notin UsedIn(sl) <=> sl[i] = Free
         /\ DOMAIN Memory(sl) = UsedIn(sl) /\ Counts(Memory(sl), UsedIn(sl))
<1>1. MAX_SESSIONS \in Nat
  BY ServiceAssumption
<1>2. IsFiniteSet(1..MAX_SESSIONS)
  BY <1>1, FS_Interval
<1>3. IsFiniteSet(UsedIn(sl)) /\ Cardinality(UsedIn(sl)) \in Nat
  BY <1>2, FS_Subset, FS_CardinalityType DEF UsedIn
<1>4. Free.used = FALSE /\ \A s : SlotInv(s) => s.used = TRUE
  BY DEF Free, SlotInv, Slot
<1>5. \A i \in 1..MAX_SESSIONS : /\ i \in UsedIn(sl) <=> SlotInv(sl[i])
                                 /\ i \notin UsedIn(sl) <=> sl[i] = Free
  BY <1>4 DEF SlotsInv, UsedIn
<1>6. ASSUME NEW i \in UsedIn(sl) PROVE Memory(sl)[i] \in Nat
  <2>1. i \in 1..MAX_SESSIONS
    BY DEF UsedIn
  <2>2. sl[i].limits \in Limits
    BY <1>5, <2>1 DEF SlotInv, Slot, Admitted
  <2>3. QED
    BY <2>2, ServiceAssumption DEF Memory
<1>7. QED
  BY <1>3, <1>5, <1>6 DEF Memory, Counts

\* Calls that keep each session and its limits keep the budget.
LEMMA SlotsKept ==
  ASSUME NEW a, NEW sl, NEW sm, SlotsInv(sl), BudgetInv(a, sl),
         sm = [i \in 1..MAX_SESSIONS |-> sm[i]],
         \A i \in UsedIn(sl) : Kept(sl[i], sm[i]),
         \A i \in (1..MAX_SESSIONS) \ UsedIn(sl) : sm[i] = sl[i]
  PROVE  SlotsInv(sm) /\ BudgetInv(a, sm)
<1>1. SlotsInv(sm)
  BY UsedSlots DEF SlotsInv, Kept
<1>2. UsedIn(sm) = UsedIn(sl)
  <2>1. \A i \in 1..MAX_SESSIONS : i \in UsedIn(sm) <=> i \in UsedIn(sl)
    BY <1>1, UsedSlots DEF Kept
  <2>2. QED
    BY <2>1 DEF UsedIn
<1>3. Memory(sm) = Memory(sl)
  BY <1>2 DEF Memory, Kept, SameLimits
<1>4. QED
  BY <1>1, <1>2, <1>3 DEF BudgetInv

LEMMA SlotKept ==
  ASSUME NEW a, NEW sl, NEW i, NEW s, SlotsInv(sl), BudgetInv(a, sl), i \in UsedIn(sl),
         Kept(sl[i], s)
  PROVE  SlotsInv([sl EXCEPT ![i] = s]) /\ BudgetInv(a, [sl EXCEPT ![i] = s])
<1> DEFINE sm == [sl EXCEPT ![i] = s]
<1>1. i \in 1..MAX_SESSIONS /\ UsedIn(sl) \subseteq 1..MAX_SESSIONS
  BY DEF UsedIn
<1>2. DOMAIN sl = 1..MAX_SESSIONS
  BY DEF SlotsInv
<1>3. sm = [j \in 1..MAX_SESSIONS |-> sm[j]] /\ sm[i] = s
      /\ \A j \in 1..MAX_SESSIONS : j # i => sm[j] = sl[j]
  BY <1>1, <1>2
<1> HIDE DEF sm
<1>4. \A j \in UsedIn(sl) : Kept(sl[j], sm[j])
  <2>1. SUFFICES ASSUME NEW j \in UsedIn(sl), j # i PROVE Kept(sl[j], sm[j])
    BY <1>3
  <2>2. SlotInv(sl[j])
    BY <1>1, UsedSlots
  <2>3. QED
    BY <1>1, <1>3, <2>1, <2>2, KeptSame
<1>5. SlotsInv(sm) /\ BudgetInv(a, sm)
  BY <1>3, <1>4, SlotsKept
<1>6. QED
  BY <1>5 DEF sm

\* create charges the new session's memory.
LEMMA SlotAdded ==
  ASSUME NEW a, NEW sl, NEW s, SlotsInv(sl), BudgetInv(a, sl), SlotInv(s),
         NEW i \in (1..MAX_SESSIONS) \ UsedIn(sl), admits(a, s.limits)
  PROVE  SlotsInv([sl EXCEPT ![i] = s]) /\ BudgetInv(admit(a, s.limits), [sl EXCEPT ![i] = s])
<1> DEFINE sm == [sl EXCEPT ![i] = s]
<1>1. DOMAIN sl = 1..MAX_SESSIONS
  BY DEF SlotsInv
<1>2. sm = [j \in 1..MAX_SESSIONS |-> sm[j]] /\ sm[i] = s
      /\ \A j \in 1..MAX_SESSIONS : j # i => sm[j] = sl[j]
  BY <1>1
<1> HIDE DEF sm
<1>3. SlotsInv(sm)
  BY <1>2 DEF SlotsInv
<1>4. UsedIn(sm) = UsedIn(sl) \cup {i}
  <2>1. \A j \in 1..MAX_SESSIONS : j \in UsedIn(sm) <=> j \in UsedIn(sl) \cup {i}
    BY <1>2, <1>3, UsedSlots
  <2>2. QED
    BY <2>1 DEF UsedIn
<1> DEFINE F == Memory(sl)
           G == Memory(sm)
<1>5. /\ DOMAIN F = UsedIn(sl) /\ DOMAIN G = DOMAIN F \cup {i} /\ i \notin DOMAIN F
      /\ IsFiniteSet(DOMAIN F) /\ Counts(F, DOMAIN F) /\ Counts(G, DOMAIN G)
  BY <1>3, <1>4, UsedSlots
<1>6. G[i] = s.limits.memory_mib /\ G[i] \in Nat /\ \A j \in DOMAIN F : j # i => G[j] = F[j]
  <2>1. G[i] = s.limits.memory_mib
    BY <1>2, <1>4 DEF Memory
  <2>2. \A j \in DOMAIN F : j # i => G[j] = F[j]
    BY <1>2, <1>4, <1>5 DEF Memory, UsedIn
  <2>3. QED
    BY <1>5, <2>1, <2>2 DEF Counts
<1> HIDE DEF F, G
<1>7. SumFunction(G) + 0 = SumFunction(F) + G[i] /\ SumFunction(G) \in Nat
  <2>1. /\ IsFiniteSet(DOMAIN F) /\ Counts(F, DOMAIN F)
        /\ DOMAIN G = DOMAIN F \cup {i} /\ i \notin DOMAIN F
    BY <1>5
  <2>2. PICK x : x = i
    OBVIOUS
  <2>3. /\ DOMAIN G = DOMAIN F \cup {x} /\ x \notin DOMAIN F /\ G[x] \in Nat
        /\ \A j \in DOMAIN F : j # x => G[j] = F[j]
    BY <1>6, <2>1, <2>2
  <2>4. /\ SumFunction(G) + (IF x \in DOMAIN F THEN F[x] ELSE 0) = SumFunction(F) + G[x]
        /\ SumFunction(G) \in Nat
    BY <2>1, <2>3, SumWrite
  <2>5. QED
    BY <2>2, <2>3, <2>4
<1>8. Cardinality(UsedIn(sm)) = Cardinality(UsedIn(sl)) + 1
  BY <1>4, <1>5, FS_AddElement
<1>9. BudgetInv(admit(a, s.limits), sm)
  <2>1. PICK m \in Nat, n \in Nat : m = a.mem /\ n = a.active
    BY DEF BudgetInv
  <2>2. PICK w \in Nat : w = s.limits.memory_mib
    BY <1>6
  <2>3. m + w <= mem_budget_mib
    BY <2>1, <2>2 DEF admits
  <2>4. SumFunction(G) = m + w
    BY <1>6, <1>7, <2>1, <2>2 DEF BudgetInv, F
  <2>5. admit(a, s.limits) = [active |-> n + 1, mem |-> m + w]
    BY <2>1, <2>2 DEF admit
  <2>6. Cardinality(UsedIn(sm)) = n + 1
    BY <1>8, <2>1 DEF BudgetInv
  <2>7. QED
    BY <2>3, <2>4, <2>5, <2>6 DEF BudgetInv, G
<1>10. QED
  BY <1>3, <1>9 DEF sm

\* destroy gives the session's memory back: the budget holds at least that much.
LEMMA SlotFreed ==
  ASSUME NEW a, NEW sl, SlotsInv(sl), BudgetInv(a, sl), NEW i \in UsedIn(sl)
  PROVE  SlotsInv([sl EXCEPT ![i] = Free])
         /\ BudgetInv(release(a, sl[i].limits), [sl EXCEPT ![i] = Free])
<1> DEFINE sm == [sl EXCEPT ![i] = Free]
<1>1. DOMAIN sl = 1..MAX_SESSIONS /\ i \in 1..MAX_SESSIONS
  BY DEF SlotsInv, UsedIn
<1>2. sm = [j \in 1..MAX_SESSIONS |-> sm[j]] /\ sm[i] = Free
      /\ \A j \in 1..MAX_SESSIONS : j # i => sm[j] = sl[j]
  BY <1>1
<1> HIDE DEF sm
<1>3. SlotsInv(sm)
  BY <1>2 DEF SlotsInv
<1>4. UsedIn(sm) = UsedIn(sl) \ {i}
  <2>1. \A j \in 1..MAX_SESSIONS : j \in UsedIn(sm) <=> j \in UsedIn(sl) \ {i}
    BY <1>1, <1>2, <1>3, UsedSlots
  <2>2. QED
    BY <2>1 DEF UsedIn
<1> DEFINE F == Memory(sl)
           G == Memory(sm)
<1>5. /\ DOMAIN F = UsedIn(sl) /\ DOMAIN G = DOMAIN F \ {i} /\ i \in DOMAIN F
      /\ IsFiniteSet(DOMAIN F) /\ Counts(F, DOMAIN F)
  BY <1>3, <1>4, UsedSlots
<1>6. F[i] = sl[i].limits.memory_mib /\ \A j \in DOMAIN G : G[j] = F[j]
  BY <1>2, <1>4, <1>5 DEF Memory, UsedIn
<1> HIDE DEF F, G
<1>7. /\ SumFunction(F) = F[i] + SumFunction(G)
      /\ SumFunction(F) \in Nat /\ SumFunction(G) \in Nat /\ F[i] \in Nat
  BY <1>5, <1>6, SumRemove
<1>8. Cardinality(UsedIn(sm)) = Cardinality(UsedIn(sl)) - 1 /\ Cardinality(UsedIn(sm)) \in Nat
  <2>1. IsFiniteSet(UsedIn(sl)) /\ i \in UsedIn(sl)
    BY <1>5
  <2>2. QED
    BY <1>3, <1>4, <2>1, FS_RemoveElement, UsedSlots
<1>9. BudgetInv(release(a, sl[i].limits), sm)
  <2>1. PICK m \in Nat, n \in Nat : m = a.mem /\ n = a.active
    BY DEF BudgetInv
  <2>2. PICK w \in Nat, g \in Nat : w = sl[i].limits.memory_mib /\ g = SumFunction(G) /\ m = w + g
    BY <1>6, <1>7, <2>1 DEF BudgetInv, F
  <2>3. PICK c \in Nat : c = Cardinality(UsedIn(sm)) /\ n = c + 1
    BY <1>8, <2>1, UsedSlots DEF BudgetInv
  <2>4. (IF n > 0 THEN n - 1 ELSE 0) = c /\ (IF m > w THEN m - w ELSE 0) = g
    BY <2>2, <2>3
  <2>5. release(a, sl[i].limits) = [active |-> c, mem |-> g]
    BY <2>1, <2>2, <2>4 DEF release
  <2>6. m <= mem_budget_mib /\ mem_budget_mib \in Nat
    BY <2>1, ServiceAssumption DEF BudgetInv
  <2>7. g <= mem_budget_mib
    BY <2>2, <2>6
  <2>8. QED
    BY <2>2, <2>3, <2>5, <2>7 DEF BudgetInv, G
<1>10. QED
  BY <1>3, <1>9 DEF sm

-----------------------------------------------------------------------------
(* The steps of the service. *)

LEMMA InitKeeps ==
  ASSUME Init
  PROVE  ServiceInv
<1>1. \A i \in 1..MAX_SESSIONS : slots[i] = Free
  BY DEF Init
<1>2. slots = [i \in 1..MAX_SESSIONS |-> slots[i]]
  BY DEF Init
<1>3. SlotsInv(slots)
  BY <1>1, <1>2 DEF SlotsInv
<1>4. UsedIn(slots) = {}
  BY <1>1 DEF UsedIn, Free
<1>5. DOMAIN Memory(slots) = {}
  BY <1>4 DEF Memory
<1>6. adm = [active |-> 0, mem |-> 0] /\ mem_budget_mib \in Nat /\ U64MAX \in Nat
  BY ServiceAssumption DEF Init
<1>7. BudgetInv(adm, slots)
  BY <1>4, <1>5, <1>6, SumEmpty, FS_EmptySet DEF BudgetInv
<1>8. QED
  BY <1>3, <1>6, <1>7 DEF ServiceInv, Init

\* create finds a slot whenever admission has room.
LEMMA CreateKeeps ==
  ASSUME ServiceInv, NEW owner \in Owners, NEW l \in Limits, create(owner, l)
  PROVE  ServiceInv'
<1> DEFINE free == (1..MAX_SESSIONS) \ Used
<1>1. /\ SlotsInv(slots) /\ BudgetInv(adm, slots) /\ now \in 0..U64MAX /\ next_id \in Nat
      /\ Used = UsedIn(slots)
  BY DEF ServiceInv, Used, UsedIn
<1>2. validate(l) /\ admits(adm, l) /\ now' = now
  BY DEF create
<1>3. free # {}
  <2>1. SUFFICES ASSUME free = {} PROVE FALSE
    OBVIOUS
  <2>2. UsedIn(slots) = 1..MAX_SESSIONS
    BY <1>1, <2>1 DEF UsedIn
  <2>3. MAX_SESSIONS \in Nat /\ max_sessions \in Nat /\ max_sessions <= MAX_SESSIONS
    BY ServiceAssumption
  <2>4. Cardinality(1..MAX_SESSIONS) = MAX_SESSIONS
    BY <2>3, FS_Interval
  <2>5. adm.active = MAX_SESSIONS
    BY <1>1, <2>2, <2>4 DEF BudgetInv
  <2>6. adm.active < max_sessions
    BY <1>2 DEF admits
  <2>7. QED
    BY <2>3, <2>5, <2>6
<1>4. /\ adm' = admit(adm, l) /\ next_id' = next_id + 1
      /\ slots' = [slots EXCEPT ![Min(free)] = NewSlot(owner, l)]
  BY <1>3 DEF create
<1>5. Min(free) \in free
  <2>1. free \subseteq Nat
    BY ServiceAssumption
  <2>2. \E n \in free : \A m \in free : n <= m
    BY <1>3, <2>1, LeastNat
  <2> HIDE DEF free
  <2>3. QED
    BY <2>2 DEF Min
<1>6. SlotInv(NewSlot(owner, l)) /\ NewSlot(owner, l).limits = l
  BY <1>1, <1>2, NewKeeps
<1> HIDE DEF free
<1>7. SlotsInv(slots') /\ BudgetInv(adm', slots')
  <2>1. Min(free) \in (1..MAX_SESSIONS) \ UsedIn(slots)
    BY <1>1, <1>5 DEF free
  <2>2. QED
    BY <1>1, <1>2, <1>4, <1>6, <2>1, SlotAdded
<1>8. QED
  BY <1>1, <1>2, <1>4, <1>7 DEF ServiceInv

\* A call on one session.
LEMMA BecomesKeeps ==
  ASSUME ServiceInv, NEW i \in Used, NEW s, Becomes(i, s), Kept(slots[i], s)
  PROVE  ServiceInv'
<1>1. /\ SlotsInv(slots) /\ BudgetInv(adm, slots) /\ now \in 0..U64MAX /\ next_id \in Nat
      /\ i \in UsedIn(slots)
  BY DEF ServiceInv, Used, UsedIn
<1>2. slots' = [slots EXCEPT ![i] = s] /\ adm' = adm /\ now' = now /\ next_id' = next_id
  BY DEF Becomes
<1>3. SlotsInv(slots') /\ BudgetInv(adm', slots')
  BY <1>1, <1>2, SlotKept
<1>4. QED
  BY <1>1, <1>2, <1>3 DEF ServiceInv

LEMMA TicksKeep ==
  ASSUME ServiceInv, tick
  PROVE  ServiceInv'
<1>1. /\ SlotsInv(slots) /\ BudgetInv(adm, slots) /\ now \in 0..U64MAX /\ next_id \in Nat
  BY DEF ServiceInv
<1>2. /\ slots' = [i \in 1..MAX_SESSIONS |-> IF slots[i].used THEN tickSlot(slots[i]) ELSE slots[i]]
      /\ adm' = adm /\ now' = now /\ next_id' = next_id
  BY DEF tick
<1>3. slots' = [i \in 1..MAX_SESSIONS |-> slots'[i]]
  BY <1>2
<1>4. ASSUME NEW i \in UsedIn(slots) PROVE Kept(slots[i], slots'[i])
  <2>1. i \in 1..MAX_SESSIONS /\ slots'[i] = tickSlot(slots[i])
    BY <1>2 DEF UsedIn
  <2>2. SlotInv(slots[i])
    BY <1>1, <2>1, UsedSlots
  <2>3. QED
    BY <2>1, <2>2, TickKeeps
<1>5. ASSUME NEW i \in (1..MAX_SESSIONS) \ UsedIn(slots) PROVE slots'[i] = slots[i]
  BY <1>2 DEF UsedIn
<1>6. SlotsInv(slots') /\ BudgetInv(adm', slots')
  <2>1. PICK sm : sm = slots'
    OBVIOUS
  <2>2. SlotsInv(sm) /\ BudgetInv(adm, sm)
    BY <1>1, <1>3, <1>4, <1>5, <2>1, SlotsKept
  <2>3. QED
    BY <1>2, <2>1, <2>2
<1>7. QED
  BY <1>1, <1>2, <1>6 DEF ServiceInv

\* Every step keeps the invariant.
LEMMA NextKeeps ==
  ASSUME ServiceInv, Next
  PROVE  ServiceInv'
<1>1. /\ SlotsInv(slots) /\ BudgetInv(adm, slots) /\ now \in 0..U64MAX /\ next_id \in Nat
      /\ Used = UsedIn(slots)
  BY DEF ServiceInv, Used, UsedIn
<1>2. \A i \in Used : i \in 1..MAX_SESSIONS /\ SlotInv(slots[i])
  BY <1>1, UsedSlots DEF UsedIn
<1>3. ASSUME NEW owner \in Owners, NEW l \in Limits, create(owner, l) PROVE ServiceInv'
  BY <1>3, CreateKeeps
<1>4. ASSUME NEW i \in Used, guestReady(i) PROVE ServiceInv'
  <2>1. /\ slots[i].state # "busy" /\ slots[i].state # "ready"
        /\ Becomes(i, pushEvent([slots[i] EXCEPT !.state = "ready"], 0, "lifecycle"))
    BY <1>4 DEF guestReady
  <2>2. QED
    BY <1>2, <2>1, ReadyKeeps, BecomesKeeps
<1>5. ASSUME NEW i \in Used, startExec(i) PROVE ServiceInv'
  <2>1. slots[i].state = "ready" /\ Becomes(i, started(slots[i]))
    BY <1>5 DEF startExec
  <2>2. QED
    BY <1>1, <1>2, <2>1, StartKeeps, BecomesKeeps
<1>6. ASSUME NEW i \in Used, reset(i) PROVE ServiceInv'
  <2>1. Becomes(i, Lifecycle(wiped(slots[i])))
    BY <1>6 DEF reset
  <2>2. QED
    BY <1>2, <2>1, ResetKeeps, BecomesKeeps
<1>7. ASSUME NEW i \in Used, destroy(i) PROVE ServiceInv'
  <2>1. /\ adm' = release(adm, slots[i].limits) /\ slots' = [slots EXCEPT ![i] = Free]
        /\ now' = now /\ next_id' = next_id
    BY <1>7 DEF destroy
  <2>2. SlotsInv(slots') /\ BudgetInv(adm', slots')
    BY <1>1, <2>1, SlotFreed
  <2>3. QED
    BY <1>1, <2>1, <2>2 DEF ServiceInv
<1>8. ASSUME NEW i \in Used, NEW k \in 1..Len(slots[i].execs), cancelExec(i, k)
      PROVE  ServiceInv'
  <2>1. /\ k \in Open(slots[i])
        /\ Becomes(i, [slots[i] EXCEPT !.execs[k].cancel_requested = TRUE,
                          !.execs[k].state = IF @ = "running" THEN "cancelling" ELSE @])
    BY <1>8 DEF cancelExec, Open, Done
  <2>2. QED
    BY <1>2, <2>1, CancelKeeps, BecomesKeeps
<1>9. ASSUME NEW i \in Used, NEW k \in 1..Len(slots[i].execs), finishExec(i, k)
      PROVE  ServiceInv'
  <2> DEFINE r(term) == [slots[i] EXCEPT !.execs[k].state = "done", !.execs[k].term = term]
             t(term) == IF r(term).state # "busy" THEN r(term)
                        ELSE pushEvent([r(term) EXCEPT !.state = "ready", !.deadline = 0],
                                       r(term).execs[k].id, "exit")
  <2>1. PICK term \in {"exited", "output_limit"} : Becomes(i, t(term))
    BY <1>9 DEF finishExec
  <2>2. k \in Open(slots[i])
    BY <1>9 DEF finishExec, Open, Done
  <2>3. Kept(slots[i], t(term))
    BY <1>2, <2>2, FinishKeeps
  <2>4. QED
    BY <2>1, <2>3, BecomesKeeps
<1>10. ASSUME NEW i \in Used, NEW path \in Paths, NEW size \in Sizes, putFile(i, path, size)
       PROVE  ServiceInv'
  <2> DEFINE t == IF path \in DOMAIN slots[i].files THEN overwritten(slots[i], path, size)
                                                     ELSE added(slots[i], path, size)
  <2>1. Becomes(i, t)
    BY <1>10 DEF putFile
  <2>2. Kept(slots[i], t)
    BY <1>2, PutKeeps
  <2>3. QED
    BY <2>1, <2>2, BecomesKeeps
<1>11. CASE tick
  BY <1>11, TicksKeep
<1>12. CASE Advance
  <2>1. /\ now' \in 0..U64MAX /\ adm' = adm /\ slots' = slots /\ next_id' = next_id
    BY <1>1, <1>12, ServiceAssumption DEF Advance
  <2>2. QED
    BY <1>1, <2>1 DEF ServiceInv
<1>13. QED
  BY <1>3, <1>4, <1>5, <1>6, <1>7, <1>8, <1>9, <1>10, <1>11, <1>12 DEF Next

\* The invariant holds in every state of the service.
THEOREM ServiceInvariant == Spec => []ServiceInv
<1>1. Init => ServiceInv
  BY InitKeeps
<1>2. ServiceInv /\ [Next]_vars => ServiceInv'
  <2>1. SUFFICES ASSUME ServiceInv, [Next]_vars PROVE ServiceInv'
    OBVIOUS
  <2>2. CASE UNCHANGED vars
    BY <2>1, <2>2 DEF vars, ServiceInv
  <2>3. QED
    BY <2>1, <2>2, NextKeeps
<1>3. QED
  BY <1>1, <1>2, PTL DEF Spec

\* Admission counts exactly the sessions that exist and their memory, within the
\* budget, however creates and destroys are mixed with everything else.
THEOREM AdmissionIsExact == Spec => []AdmissionExact
<1>1. ServiceInv => AdmissionExact
  BY DEF ServiceInv, BudgetInv, AdmissionExact, Used, UsedIn, Memory
<1>2. QED
  BY <1>1, ServiceInvariant, PTL

\* used_bytes is the total of a workspace's files and within its cap.
THEOREM QuotaIsExact == Spec => []QuotaExact
<1>1. ServiceInv => QuotaExact
  <2>1. SUFFICES ASSUME ServiceInv, NEW i \in Used
                 PROVE  /\ slots[i].used_bytes = SumFunction(slots[i].files)
                        /\ slots[i].used_bytes <= slots[i].cap_bytes
    BY DEF QuotaExact
  <2>2. SlotInv(slots[i])
    BY <2>1, UsedSlots DEF ServiceInv, Used, UsedIn
  <2>3. QED
    BY <2>2 DEF SlotInv, QuotaInv
<1>2. QED
  BY <1>1, ServiceInvariant, PTL

\* A session is busy exactly while one execution of its generation is open.
THEOREM OneExecutionOpen == Spec => []OneExec
<1>1. ServiceInv => OneExec
  <2>1. SUFFICES ASSUME ServiceInv, NEW i \in Used
                 PROVE  LET s == slots[i] IN
                        /\ Cardinality(Open(s)) = IF s.state = "busy" THEN 1 ELSE 0
                        /\ s.deadline # 0 <=> s.state = "busy"
                        /\ \A k \in Open(s) : s.execs[k].generation = s.generation
    BY DEF OneExec, Open, Done
  <2>2. SlotInv(slots[i])
    BY <2>1, UsedSlots DEF ServiceInv, Used, UsedIn
  <2> DEFINE s == slots[i]
  <2>3. ExecInv(s)
    BY <2>2 DEF SlotInv
  <2> HIDE DEF s
  <2>4. Cardinality(Open(s)) = IF s.state = "busy" THEN 1 ELSE 0
    <3>1. CASE Open(s) = {}
      BY <2>3, <3>1, FS_EmptySet DEF ExecInv
    <3>2. CASE Open(s) # {}
      <4>1. PICK k \in Open(s) : TRUE
        BY <3>2
      <4>2. Open(s) = {k}
        BY <2>3, <4>1 DEF ExecInv
      <4>3. Cardinality(Open(s)) = 1
        BY <4>2, FS_Singleton
      <4>4. QED
        BY <2>3, <3>2, <4>3 DEF ExecInv
    <3>3. QED
      BY <3>1, <3>2
  <2>5. QED
    BY <2>3, <2>4 DEF ExecInv, s
<1>2. QED
  BY <1>1, ServiceInvariant, PTL

\* A reader with a cursor gets the oldest events it has not seen, without a gap.
THEOREM CursorReadsAll == Spec => []CursorReads
<1>1. ServiceInv => CursorReads
  <2>1. SUFFICES ASSUME ServiceInv, NEW i \in Used,
                        NEW after \in 0..slots[i].next_seq, NEW room \in 1..MAX_EVENTS
                 PROVE  LET s == slots[i]
                            first == Max({after + 1, s.next_seq - s.event_count})
                            page == events(s, after, room) IN
                        /\ Len(page) = Min({room, Max({s.next_seq - first, 0})})
                        /\ \A k \in 1..Len(page) : page[k].seq = first + k - 1
    BY DEF CursorReads
  <2>2. SlotInv(slots[i])
    BY <2>1, UsedSlots DEF ServiceInv, Used, UsedIn
  <2>3. slots[i] \in Slot /\ RingInv(slots[i])
    BY <2>2 DEF SlotInv
  <2>4. QED
    BY <2>3, PageIsNext
<1>2. QED
  BY <1>1, ServiceInvariant, PTL

\* An execution ends once, and its exit is in the log until the ring drops events.
THEOREM ExecutionsEndOnce == Spec => []ExitOnce
<1>1. ServiceInv => ExitOnce
  <2>1. SUFFICES ASSUME ServiceInv, NEW i \in Used, NEW k \in 1..Len(slots[i].execs)
                 PROVE  LET s == slots[i]
                            exits == {n \in 1..s.event_count :
                                        ring(s)[n].ty = "exit" /\ ring(s)[n].exec = s.execs[k].id} IN
                        /\ Cardinality(exits) <= 1
                        /\ exits # {} => s.execs[k].state = "done"
                        /\ s.execs[k].state = "done" /\ s.event_count < MAX_EVENTS => exits # {}
    BY DEF ExitOnce
  <2>2. SlotInv(slots[i])
    BY <2>1, UsedSlots DEF ServiceInv, Used, UsedIn
  <2> DEFINE s == slots[i]
             exits == {n \in 1..s.event_count :
                         ring(s)[n].ty = "exit" /\ ring(s)[n].exec = s.execs[k].id}
             ends == {n \in 1..s.event_count : IsExit(s, n, s.execs[k].id)}
  <2>3. exits = ends
    BY DEF ring, IsExit, At
  <2>4. ExitInv(s)
    BY <2>2 DEF SlotInv
  <2> HIDE DEF exits, s
  <2>5. ends # {} => Done(s, k)
    BY <2>4 DEF ExitInv, s
  <2>6. Done(s, k) /\ s.event_count < MAX_EVENTS => ends # {}
    BY <2>4 DEF ExitInv, s
  <2>7. \A m, n \in ends : m = n
    BY <2>4 DEF ExitInv, IsExit
  <2> HIDE DEF ends
  <2>8. Cardinality(ends) <= 1
    <3>1. CASE ends = {}
      BY <3>1, FS_EmptySet
    <3>2. CASE ends # {}
      <4>1. PICK n \in ends : TRUE
        BY <3>2
      <4>2. ends = {n}
        BY <2>7, <4>1
      <4>3. Cardinality(ends) = 1
        BY <4>2, FS_Singleton
      <4>4. QED
        BY <4>3
    <3>3. QED
      BY <3>1, <3>2
  <2>9. QED
    BY <2>3, <2>5, <2>6, <2>8 DEF Done, exits, s
<1>2. QED
  BY <1>1, ServiceInvariant, PTL
=============================================================================
