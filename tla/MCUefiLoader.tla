---------------------------- MODULE MCUefiLoader ----------------------------
(***************************************************************************)
(* A machine of eight two-byte pages: the kernel at page 1, three objects  *)
(* and the map buffer among the others, and pages between and above them   *)
(* that the firmware keeps retyping.                                       *)
(***************************************************************************)
EXTENDS UefiLoader

MCPlacements == {<<2, 3, 4>>, <<5, 2, 3>>}

\* All memory free but for the first page.
MCStart == {[p \in 0..(Pages - 1) |-> IF p = 0 THEN "acpi_nvs" ELSE "conventional"]}
=============================================================================
