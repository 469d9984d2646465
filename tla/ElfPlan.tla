------------------------------ MODULE ElfPlan ------------------------------
(***************************************************************************)
(* An image and what the planner made of it, and what user_vm relies on    *)
(* when it maps and fills the pages of such a plan.                        *)
(***************************************************************************)
EXTENDS UserElf

CONSTANT PTES   \* entries of a page table

VARIABLES image, planned

\* 8192 pages of 512 entries a table, and 17 tables, in the program: one more than
\* they fill, because the image may begin anywhere in its first.
ASSUME PlanAssumption ==
  /\ {PTES, MAX_IMAGE_PTS} \subseteq Nat \ {0}
  /\ MAX_IMAGE_PAGES <= (MAX_IMAGE_PTS - 1) * PTES + 1

None == [ok |-> FALSE, entry |-> -1, segments |-> << >>]

ElfInit == image \in Images /\ planned = None

Plan == planned = None /\ planned' = plan(image) /\ UNCHANGED image

elfVars == <<image, planned>>

ElfSpec == ElfInit /\ [][Plan]_elfVars

Segs == 1..Len(planned.segments)

\* user_vm's budget of page tables covers every plan: the span check of
\* rejectImageBudget bounds the tables the pages fall into, wherever the image
\* sits relative to a 2 MiB boundary.
PlanFitsTables ==
  planned.ok => Cardinality({va \div (PAGE * PTES) :
                           va \in UNION {pagesOf(planned.segments[k]) : k \in Segs}})
              <= MAX_IMAGE_PTS

\* Every byte of every mapped page is the file's byte for that address, or zero
\* outside the file part, and the copy never reads past the file (copyFileBytes
\* at segment starts and ends that are not page aligned).
PagesHoldFile ==
  \A k \in Segs : LET seg == planned.segments[k] IN
    \A va \in pagesOf(seg) :
      /\ ~copyFailed(image, seg, va)
      /\ \A b \in 0..(PAGE - 1) :
           LET a == va + b IN
           copyFileBytes(seg, va)[b] =
             IF a \in seg.vaddr..(seg.vaddr + seg.filesz - 1)
             THEN seg.file_off + (a - seg.vaddr) ELSE Zero
=============================================================================
