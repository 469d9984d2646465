------------------------------- MODULE MCVfs -------------------------------
(***************************************************************************)
(* A workspace, files in it and below them, and, while the path above one  *)
(* is missing, beside it; tables and child lists small enough to fill.     *)
(***************************************************************************)
EXTENDS Vfs

MCJailPath == <<"w">>
MCNewDirs == {<<"w">>, <<"w", "f">>}
MCPaths == {<<"w">>, <<"w", "f">>, <<"w", "f", "f">>}
=============================================================================
