------------------------------ MODULE MCUserVm ------------------------------
(***************************************************************************)
(* Four-entry tables and two-byte pages: the user window is sixteen pages, *)
(* the image half of it eight, the stack two pages under the top with the  *)
(* guard below them.  Images: one with the full span, two segments in two  *)
(* page tables and bss behind the file part, a single page, a rejected one. *)
(***************************************************************************)
EXTENDS UserVm

H(flags, offset, vaddr, filesz, memsz) ==
  [type |-> "LOAD", flags |-> flags, offset |-> offset, vaddr |-> vaddr,
   filesz |-> filesz, memsz |-> memsz, align |-> 1]

Img(entry, phdrs) == [header |-> TRUE, len |-> 6, entry |-> entry, phdrs |-> phdrs]

MCImages ==
  {Img(39, <<H({"R", "X"}, 0, 39, 1, 1), H({"R", "W"}, 2, 40, 1, 3)>>),
   Img(42, <<H({"R", "X"}, 0, 42, 1, 2)>>),
   Img(36, <<H({"R", "W"}, 0, 36, 2, 2)>>)}

\* The native journal, and one too short for the larger image.
MCCaps == {7, MAX_OWNED_FRAMES}

MCTemplates ==
  {[root_phys |-> 2, present |-> TRUE, user |-> FALSE, huge |-> FALSE, addr |-> 4],
   [root_phys |-> 2, present |-> TRUE, user |-> FALSE, huge |-> FALSE, addr |-> 2]}

\* The lowest free frame, and the answers takeFrame must not keep: zero, an
\* unaligned address, one past the top, a reserved one and a frame already out.
MCOffers(out) ==
  LET free == {f \in Frames : f > 4} \ out IN
  {0, 4, 7, PHYS_TOP} \cup (IF free = {} THEN {} ELSE {Min(free)})
    \cup (IF out \ {0} = {} THEN {} ELSE {Max(out)})
=============================================================================
