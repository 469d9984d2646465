------------------------------- MODULE MemMap -------------------------------
(***************************************************************************)
(* memmap.normalize (src/native/memmap.zig): firmware descriptors become   *)
(* the ranges of a BootInfo, each owned span carved out of the descriptor  *)
(* it sits in.                                                             *)
(***************************************************************************)
EXTENDS BootInfo, FiniteSetsExt, SequencesExt

CONSTANT MAX_PIECES   \* fragments of one descriptor

ASSUME MemMapAssumption == MAX_PIECES \in Nat \ {0}

\* A descriptor is [start, pages, kind], a span [base, size, kind].
descRefused(d) ==
  d.pages # 0 /\ (d.start % PAGE # 0 \/ d.start + d.pages * PAGE >= ADDR_LIMIT)

spanRefused(o) ==
  o.size # 0 /\ (o.base % PAGE # 0 \/ o.size % PAGE # 0 \/ o.base + o.size >= ADDR_LIMIT)

Piece(lo, hi, kind) == [base |-> lo, size |-> hi - lo, kind |-> kind]

\* One piece split by one span: what lies before it, the overlap, what lies after.
carve(p, o) ==
  LET p_end == p.base + p.size
      o_end == o.base + o.size
      lo == Max({o.base, p.base})
      hi == Min({o_end, p_end}) IN
  IF o.size = 0 \/ o_end <= p.base \/ o.base >= p_end THEN <<p>>
  ELSE (IF o.base > p.base THEN <<Piece(p.base, o.base, p.kind)>> ELSE << >>)
         \o <<Piece(lo, hi, o.kind)>>
         \o (IF o_end < p_end THEN <<Piece(o_end, p_end, p.kind)>> ELSE << >>)

\* Op(v), with v evaluated once.
With(v, Op(_)) == CHOOSE r \in {Op(x) : x \in {v}} : TRUE

\* Every piece split by one span.
split(ps, o) ==
  With(ps, LAMBDA all : FlattenSeq([i \in 1..Len(all) |-> carve(all[i], o)]))

\* The pieces of a descriptor, split by each owned span in turn.
pieces(d, owned) ==
  LET after[k \in 0..Len(owned)] ==
        IF k = 0 THEN <<Piece(d.start, d.start + d.pages * PAGE, d.kind)>>
        ELSE split(after[k - 1], owned[k])
  IN after[Len(owned)]

emit(p) == [phys_start |-> p.base, page_count |-> p.size \div PAGE, kind |-> p.kind]

\* An empty descriptor is skipped, and the spans are looked at only for another.
refused(descs, owned) ==
  \E j \in 1..Len(descs) : descs[j].pages # 0 /\
    (descRefused(descs[j]) \/ \E k \in 1..Len(owned) : spanRefused(owned[k]))

carved(descs, owned) ==
  [j \in 1..Len(descs) |-> IF descs[j].pages = 0 THEN << >> ELSE pieces(descs[j], owned)]

\* A span never merges pieces, so they are most numerous at the end.
normalize(descs, owned, capacity) ==
  With(carved(descs, owned), LAMBDA c : With(FlattenSeq(c), LAMBDA cut :
    IF \/ refused(descs, owned) \/ Len(cut) > capacity
       \/ \E j \in 1..Len(c) : Len(c[j]) > MAX_PIECES
    THEN [ok |-> FALSE, ranges |-> << >>]
    ELSE [ok |-> TRUE, ranges |-> [i \in 1..Len(cut) |-> emit(cut[i])]]))
=============================================================================
