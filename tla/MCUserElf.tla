----------------------------- MODULE MCUserElf -----------------------------
(***************************************************************************)
(* The planner and the page copy over every image of a bounded family: a   *)
(* free first header, a second one from a short list, so that segments     *)
(* share pages, share page tables, straddle one, or lie too far apart.     *)
(***************************************************************************)
EXTENDS ElfPlan

H(type, flags, offset, vaddr, filesz, memsz, align) ==
  [type |-> type, flags |-> flags, offset |-> offset, vaddr |-> vaddr,
   filesz |-> filesz, memsz |-> memsz, align |-> align]

First ==
  [type : {"LOAD"}, flags : {{"R", "X"}, {"R", "W", "X"}, {"X"}}, offset : {0, 1, 3},
   vaddr : {7, 8, 9, 15, 23, 31}, filesz : {0, 1, 4}, memsz : {0, 1, 2, 4, 7}, align : {1, 2, 3}]

Second ==
  {H("LOAD", {"R", "W"}, 1, v, f, 3, 1) : v \in {8, 10, 13, 16, 24, 25, 29}, f \in {0, 2}}
    \cup {H("GNU_STACK", {"R", "W"}, 0, 0, 0, 0, 0), H("GNU_STACK", {"X"}, 0, 0, 0, 0, 0),
          H("NOTE", {}, 5, 0, 3, 0, 0), H("INTERP", {}, 0, 0, 0, 0, 0)}

MCImages ==
  {[header |-> TRUE, len |-> 6, entry |-> f.vaddr + e, phdrs |-> <<f, s>>] :
     f \in First, s \in Second, e \in {0, 3}}
  \cup {[header |-> h, len |-> 6, entry |-> 9, phdrs |-> ps] : h \in BOOLEAN,
          ps \in {<< >>, <<H("LOAD", {"R", "X"}, 0, 8, 4, 4, 1)>>}}
=============================================================================
