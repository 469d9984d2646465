---------------------------- MODULE Transcript -----------------------------
(***************************************************************************)
(* The bootstrap transcript check of scripts/qualify-native/transcript.py. *)
(*                                                                         *)
(* A serial log is a sequence of lines; a line is a record whose field k   *)
(* says which of the scripts' patterns it matches:                         *)
(*   marker    one of MARKERS (m), bare or with text after it (more)       *)
(*   failure   ZKL: fail, ZKN: PANIC, ZKN: FAULT, ZKN: bootinfo-invalid    *)
(*   exit      starts with "ZKN: exit"; code 0 is any other text           *)
(*   noise     anything no pattern matches                                 *)
(* and the ZKN: vm- lines of TranscriptVm, which are noise here.  An error *)
(* message is its kind; how often it is appended is not told apart.        *)
(***************************************************************************)
EXTENDS Integers, Sequences, FiniteSets

MARKERS ==
  <<"start", "kernel-loaded", "initramfs-loaded", "map-frozen", "ebs-ok", "entry",
    "bootinfo-ok", "serial-ok", "gdt-ok", "idt-ok", "paging-ok", "pmm-ok", "trap-ud2-ok",
    "trap-pf-unmapped-ok", "trap-pf-ro-write-ok", "trap-pf-nx-exec-ok", "timer-ok", "done">>

\* The names of the fields that are FALSE: the errors a list of checks appends.
Broken(checks) == {e \in DOMAIN checks : ~checks[e]}

\* The line numbers in I are taken in the order of the log: n is the rank-th of
\* them, nth is the i-th, and Selected are their lines.
rank(I, n) == Cardinality({m \in I : m <= n})
nth(I, i) == CHOOSE n \in I : rank(I, n) = i
Selected(s, I) == [i \in 1..Cardinality(I) |-> s[nth(I, i)]]

Marker(m) == [k |-> "marker", m |-> m, more |-> FALSE]
Exit(code) == [k |-> "exit", code |-> code]
Failure == [k |-> "failure"]
Noise == [k |-> "noise"]

\* The position of a line's marker in a list of markers, 0 when it is none of them.
indexIn(markers, line) ==
  IF \E i \in DOMAIN markers : line.k = "marker" /\ markers[i] = line.m
  THEN CHOOSE i \in DOMAIN markers : markers[i] = line.m ELSE 0

\* Mutant: every marker comes once.
retry_map_never(cursor, index) == FALSE

\* ExitBootServices can require another frozen map: the marker may come again
\* while it is the last one seen.
retry_map(cursor, index) == MARKERS[index] = "map-frozen" /\ cursor = index

\* One turn of the loop of parse_serial; cursor counts the stages seen in order.
scanLine(acc, line) ==
  LET index == indexIn(MARKERS, line)
      exits == acc.exits + (IF line.k = "exit" THEN 1 ELSE 0)
  IN [cursor |-> IF index = acc.cursor + 1 THEN index ELSE acc.cursor,
      exits  |-> exits,
      seen   |-> acc.seen \cup (IF index = 0 THEN {} ELSE {MARKERS[index]}),
      errors |-> acc.errors \cup
        Broken([failure          |-> line.k # "failure",
                exit_malformed   |-> line.k = "exit" => line.code = 10,
                exit_early       |-> line.k = "exit" => acc.cursor = Len(MARKERS),
                stage_order      |-> \/ index = 0 \/ index = acc.cursor + 1
                                     \/ retry_map(acc.cursor, index),
                stage_after_exit |-> index # 0 => exits = 0])]

\* op(acc), with acc evaluated once: a chain of these is linear for TLC.
Once(op(_), acc) == CHOOSE r \in {op(a) : a \in {acc}} : TRUE

parse_serial(serial) ==
  LET scan[n \in 0..Len(serial)] ==
        IF n = 0 THEN [cursor |-> 0, exits |-> 0, seen |-> {}, errors |-> {}]
                 ELSE Once(LAMBDA acc : scanLine(acc, serial[n]), scan[n - 1])
      end == scan[Len(serial)]
  IN [kernel_entry_observed |-> "entry" \in end.seen,
      transcript_errors |->
        end.errors \cup Broken([stages_missing |-> end.cursor = Len(MARKERS),
                                exit_count     |-> end.exits = 1])]
=============================================================================
