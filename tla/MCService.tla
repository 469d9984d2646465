----------------------------- MODULE MCService -----------------------------
(***************************************************************************)
(* Two slots, executions and files, a ring of three events, and a clock    *)
(* that reaches the end of its range within a deadline of any start.       *)
(***************************************************************************)
EXTENDS Service

Lim(mem, ws, ms) == [memory_mib |-> mem, workspace_mib |-> ws, execution_timeout_ms |-> ms]

MCFloors == Lim(1, 1, 2)
MCCeilings == Lim(2, 1, 3)

\* A small and a large request, one below a floor and one above a ceiling.
MCLimits == {Lim(1, 1, 2), Lim(2, 1, 2), Lim(1, 1, 1), Lim(2, 2, 2)}
=============================================================================
