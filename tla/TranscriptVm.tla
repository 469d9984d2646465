--------------------------- MODULE TranscriptVm ----------------------------
(***************************************************************************)
(* The native-vm-probe-v1 transcript check of                              *)
(* scripts/qualify-native/transcript_vm.py, with the script's own          *)
(* constants.  The lines it adds to those of Transcript:                   *)
(*   start     mode             complete                                   *)
(*   fixture   cycle len sha    vmfail   cycle stage reason                *)
(*   cycle     cycle stage fields        vmbad  any other ZKN: vm- line    *)
(* The fields of a cycle line are a record whose shape says which of the   *)
(* field patterns they match; a register is a number, and so are a frame   *)
(* and a page table entry.                                                 *)
(***************************************************************************)
EXTENDS Transcript, SequencesExt

MODES == {"positive", "skip-switch", "writable-ro"}
CYCLE_STAGES ==
  <<"control", "template", "construct", "walk", "switch", "content", "fault-ro", "fault-nx",
    "fault-guard", "fault-top", "restore", "absent", "destroy">>
N6_MARKERS == SubSeq(MARKERS, 1, 16)

FIXTURE_LEN == 5120
FIXTURE_SHA256 == <<"b9b1", "f2bb">>
PHYS_TOP == 268435456
PAGE == 4096
KERNEL_LO == 2097152
KERNEL_HI == 4194304
FAULTS == <<"fault-ro", "fault-nx", "fault-guard", "fault-top", "absent">>
FAULT_CR2 == <<1075847552, 1075855408, 2147405824, 2147475456, 1075835136>>
PFEC == <<3, 17, 0, 0, 0>>
PTE_P == 1
PTE_U == 4
PTE_PS == 128
CR0_WP == 65536
CR4_UNSUPPORTED == {4096, 131072, 1048576, 2097152}   \* LA57, PCIDE, SMEP, SMAP
EFER_NXE == 2048
RFLAGS_IF == 512

\* The field pattern each stage is matched against.
SHAPE == [s \in Range(CYCLE_STAGES) |->
            IF s \in Range(FAULTS) THEN "fault"
            ELSE IF s \in {"switch", "restore"} THEN "pair" ELSE s]

Bit(v, b) == (v \div b) % 2 = 1
Addr(v) == v - (v % PAGE)
WithoutAD(v) == v - ((v \div 32) % 4) * 32
frame_ok(v) == v # 0 /\ v % PAGE = 0 /\ v < PHYS_TOP

\* The lines a log may hold, and the fields of a cycle line: one of the patterns, or bad.
PmmStats == [total : Nat, free : Nat, used : Nat, unmanaged : Nat, excluded : Nat]
Fields ==
  [shape : {"control"}, cr3 : Nat, rflags : Nat, cr0 : Nat, cr4 : Nat, efer : Nat, pmm : PmmStats]
    \cup [shape : {"template"}, root : Nat, pdpt0 : Nat]
    \cup [shape : {"construct"}, owned : Nat, image : Nat, stack : Nat, tables : Nat, root : Nat]
    \cup [shape : {"walk"}, image_pts : Nat, stack_pts : Nat, rx : Nat, rx1 : Nat, ro : Nat, rw : Nat]
    \cup [shape : {"pair"}, expected : Nat, observed : Nat]
    \cup [shape : {"fault"}, pfec : Nat, cr2 : Nat, rip : Nat, gen : Nat]
    \cup [shape : {"destroy"}, pmm : PmmStats] \cup [shape : {"content", "bad"}]
Line ==
  [k : {"marker"}, m : Range(MARKERS), more : BOOLEAN] \cup [k : {"exit"}, code : Nat]
    \cup [k : {"failure", "noise", "complete", "vmbad"}] \cup [k : {"start"}, mode : MODES]
    \cup [k : {"fixture"}, cycle : {1, 2}, len : Nat, sha : STRING]
    \cup [k : {"cycle"}, cycle : {1, 2}, stage : STRING, fields : Fields]
    \cup [k : {"vmfail"}, cycle : {1, 2}, stage : STRING, reason : STRING]

-----------------------------------------------------------------------------
(* What the loop of parse_vm_serial collects, by position in the log. *)

At(s, k) == {n \in DOMAIN s : s[n].k = k}
MarkerAt(s, m) == {n \in At(s, "marker") : s[n].m = m}
n6_at(s) == MarkerAt(s, "trap-pf-nx-exec-ok")
timer_at(s) == MarkerAt(s, "timer-ok")
done_at(s) == {n \in MarkerAt(s, "done") : ~s[n].more}
vm_line_numbers(s) ==
  {n \in DOMAIN s : s[n].k \in {"start", "fixture", "cycle", "complete", "vmfail", "vmbad"}}
Fixtures(s) == Selected(s, At(s, "fixture"))
StagesAt(s, c) == {n \in At(s, "cycle") : s[n].cycle = c}
StageNames(s, c) == LET st == Selected(s, StagesAt(s, c)) IN [i \in DOMAIN st |-> st[i].stage]
fixture_or_stage(l) == IF l.k = "fixture" THEN <<"fixture", l.cycle>>
                                          ELSE <<"stage", l.cycle, l.stage>>

-----------------------------------------------------------------------------
(* _check_cycle_semantics *)

\* by_cycle: the fields of a stage, of its last line when it came twice.
by_cycle(s, c) ==
  [st \in {s[n].stage : n \in StagesAt(s, c)} |->
     s[Max({n \in StagesAt(s, c) : s[n].stage = st})].fields]

has(fields, st) == st \in DOMAIN fields /\ fields[st].shape = SHAPE[st]

\* The five stages a full cycle cannot do without, and the fields that must
\* parse when they are there.
check_fields(fields, full) ==
  Broken([required |-> \A st \in {"control", "construct", "walk", "switch", "template"} :
                         st \in DOMAIN fields \/ full => has(fields, st),
          shape    |-> \A st \in DOMAIN fields \cap DOMAIN SHAPE : has(fields, st)])

check_control(fields, first) ==
  LET ctl == fields["control"] IN
  Broken([irq_masked  |-> ~Bit(ctl.rflags, RFLAGS_IF),
          wp_nxe      |-> Bit(ctl.cr0, CR0_WP) /\ Bit(ctl.efer, EFER_NXE),
          cr4         |-> \A b \in CR4_UNSUPPORTED : ~Bit(ctl.cr4, b),
          accounting  |-> ctl.pmm.total = ctl.pmm.free + ctl.pmm.used,
          root_frame  |-> frame_ok(Addr(ctl.cr3)),
          template    |-> has(fields, "template") => fields["template"].root = Addr(ctl.cr3),
          run_stats   |-> has(first, "control") => ctl.pmm = first["control"].pmm,
          run_cr3     |-> has(first, "control") => ctl.cr3 = first["control"].cr3,
          restored    |-> has(fields, "restore") =>
                            /\ fields["restore"].expected = fields["restore"].observed
                            /\ fields["restore"].expected = ctl.cr3,
          destroyed   |-> has(fields, "destroy") =>
                            /\ fields["destroy"].pmm = ctl.pmm
                            /\ has(first, "control") =>
                                 fields["destroy"].pmm = first["control"].pmm])

check_borrowed_pdpt(entry, fields) ==
  Broken([present    |-> Bit(entry, PTE_P),
          supervisor |-> ~Bit(entry, PTE_U),
          not_huge   |-> ~Bit(entry, PTE_PS),
          pdpt_frame |-> frame_ok(Addr(entry)),
          pdpt_alias |-> frame_ok(Addr(entry)) /\ has(fields, "control") =>
                           Addr(entry) # Addr(fields["control"].cr3)])

check_template(fields, first) ==
  LET tpl == fields["template"] IN
  check_borrowed_pdpt(tpl.pdpt0, fields) \cup
  Broken([run_root |-> has(first, "template") => tpl.root = first["template"].root,
          run_pdpt |-> has(first, "template") =>
                         WithoutAD(tpl.pdpt0) = WithoutAD(first["template"].pdpt0)])

check_construct(fields, full) ==
  LET con == fields["construct"] IN
  Broken([budgets      |-> con.owned = 26 /\ con.image = 4 /\ con.stack = 16 /\ con.tables = 6,
          owned        |-> con.owned = con.image + con.stack + con.tables,
          private_root |-> frame_ok(con.root),
          not_original |-> has(fields, "control") => con.root # Addr(fields["control"].cr3),
          switch_root  |-> has(fields, "switch") => fields["switch"].expected = con.root,
          switched     |-> has(fields, "switch") /\ full =>
                             fields["switch"].expected = fields["switch"].observed])

check_walk(fields) ==
  LET w      == fields["walk"]
      leaves == {w.rx, w.rx1, w.ro, w.rw}
  IN Broken([tables      |-> w.image_pts = 2 /\ w.stack_pts = 1,
             distinct    |-> Cardinality(leaves) = 4,
             leaf_frames |-> \A leaf \in leaves : frame_ok(leaf),
             leaf_alias  |-> has(fields, "construct") => fields["construct"].root \notin leaves])

check_fault(i, f) ==
  Broken([pfec |-> f.pfec = PFEC[i],
          cr2  |-> f.cr2 = FAULT_CR2[i],
          gen  |-> f.gen # 0,
          rip  |-> IF FAULTS[i] = "fault-nx" THEN f.rip = FAULT_CR2[i]
                                             ELSE KERNEL_LO <= f.rip /\ f.rip < KERNEL_HI])

parsed_faults(fields) == {i \in DOMAIN FAULTS : has(fields, FAULTS[i])}
generations(fields) ==
  LET fs == parsed_faults(fields) IN
  [i \in 1..Cardinality(fs) |-> fields[FAULTS[nth(fs, i)]].gen]
increasing(g) == \A i \in 1..(Len(g) - 1) : g[i] < g[i + 1]

\* One turn of the loop over cycles; first is cycle 1's fields in cycle 2.
check_cycle(s, c, first, full) ==
  LET fields == by_cycle(s, c) IN
  IF full /\ StageNames(s, c) # CYCLE_STAGES THEN {"incomplete"}
  ELSE UNION {check_fields(fields, full),
              IF has(fields, "control") THEN check_control(fields, first) ELSE {},
              IF has(fields, "template") THEN check_template(fields, first) ELSE {},
              IF has(fields, "construct") THEN check_construct(fields, full) ELSE {},
              IF has(fields, "walk") THEN check_walk(fields) ELSE {},
              UNION {check_fault(i, fields[FAULTS[i]]) : i \in parsed_faults(fields)}}

NoFields == [st \in {} |-> ""]

\* A positive run's cycle that is incomplete is skipped: it is no baseline and
\* its generations do not count.
compared(s, c, full) ==
  IF full /\ StageNames(s, c) # CYCLE_STAGES THEN NoFields ELSE by_cycle(s, c)

check_cycle_semantics(s, full) ==
  LET fx     == Fixtures(s)
      first  == compared(s, 1, full)
      second == IF full THEN compared(s, 2, full) ELSE NoFields
  IN Broken([duplicated  |-> \A c \in {1, 2} : IsInjective(StageNames(s, c)),
             fixtures    |-> IF full THEN [i \in DOMAIN fx |-> fx[i].cycle] = <<1, 2>>
                                     ELSE fx # << >> => fx[1].cycle = 1,
             fixture_len |-> \A i \in DOMAIN fx : fx[i].len = FIXTURE_LEN,
             fixture_sha |-> \A i \in DOMAIN fx : fx[i].sha = FIXTURE_SHA256[fx[i].cycle],
             increasing  |-> increasing(generations(first) \o generations(second))])
     \cup check_cycle(s, 1, NoFields, full)
     \cup (IF full THEN check_cycle(s, 2, first, full) ELSE {})

-----------------------------------------------------------------------------
(* The order of the lines. *)

Want(c, stages) == <<<<"fixture", c>>>> \o [i \in DOMAIN stages |-> <<"stage", c, stages[i]>>]

reject_vm_after_terminal(s) ==
  LET ends == At(s, "complete") \cup At(s, "exit") IN
  Broken([vm_after_end |-> ends # {} => \A n \in vm_line_numbers(s) : n <= Min(ends)])

check_positive_order(s) ==
  LET ends == <<n6_at(s), At(s, "start"), At(s, "complete"), timer_at(s), done_at(s),
                At(s, "exit")>>
      got  == Selected(s, At(s, "fixture") \cup At(s, "cycle"))
  IN IF {} \in Range(ends) THEN {"order_missing"}
     ELSE LET start == Min(ends[2])  complete == Min(ends[3]) IN
          Broken([start_after_n6  |-> Max(ends[1]) < start,
                  complete_after  |-> start < complete,
                  before_timer    |-> complete < Min(ends[4]),
                  done_after      |-> Min(ends[4]) < Min(ends[5]),
                  exit_after      |-> Min(ends[5]) < Min(ends[6]),
                  window          |-> \A n \in At(s, "fixture") \cup At(s, "cycle") :
                                        start < n /\ n < complete,
                  order           |-> [i \in DOMAIN got |-> fixture_or_stage(got[i])] =
                                        Want(1, CYCLE_STAGES) \o Want(2, CYCLE_STAGES)])

\* One turn of the loop of _check_n6_prefix; cursor as in scanLine.
n6Line(acc, line) ==
  LET index == indexIn(N6_MARKERS, line) IN
  IF index = acc.cursor + 1 THEN [acc EXCEPT !.cursor = index]
  ELSE [acc EXCEPT !.errors =
          @ \cup Broken([n6_order |-> index = 0 \/ retry_map(acc.cursor, index)])]

\* The bootstrap markers up to the last trap, in order, before vm-start.
check_n6_prefix(s) ==
  LET start == Min(At(s, "start"))
      scan[n \in 0..(start - 1)] ==
        IF n = 0 THEN [cursor |-> 0, errors |-> {}]
                 ELSE Once(LAMBDA acc : n6Line(acc, s[n]), scan[n - 1])
  IN IF At(s, "start") = {} THEN {}
     ELSE scan[start - 1].errors
            \cup Broken([n6_missing |-> scan[start - 1].cursor = Len(N6_MARKERS)])

\* The stages a negative artifact reaches before it names its failure.
required_stages(mode) == SubSeq(CYCLE_STAGES, 1, IF mode = "skip-switch" THEN 5 ELSE 6)
expected_stage(mode) == IF mode = "skip-switch" THEN "switch" ELSE "fault-ro"
expected_reason(mode) == IF mode = "skip-switch" THEN "cr3-readback" ELSE "expected-pf"

first_of(s, stage) == LET at == {n \in StagesAt(s, 1) : s[n].stage = stage}
                      IN IF at = {} THEN [shape |-> "missing"] ELSE s[Min(at)].fields

\* The private root was never loaded: CR3 still reads the original root.
check_skip_switch_observed(s) ==
  LET sw == first_of(s, "switch")  ctl == first_of(s, "control") IN
  IF sw.shape # "pair" THEN {"switch_missing"}
  ELSE IF ~frame_ok(sw.observed) \/ ctl.shape # "control" THEN {"not_original"}
  ELSE Broken([readback     |-> sw.expected # sw.observed,
               not_original |-> sw.observed = Addr(ctl.cr3)])

check_writable_ro_observed(s) ==
  LET sw == first_of(s, "switch") IN
  Broken([readback |-> sw.shape = "pair" /\ sw.expected = sw.observed])

event(l) ==
  CASE l.k \in {"fixture", "cycle"} -> fixture_or_stage(l)
    [] l.k = "vmfail" -> <<"fail", l.cycle>>
    [] OTHER -> <<l.k>>

\* Only the first vm-fail and the first exit are events.
check_negative_sequence(s, mode) ==
  LET fails  == At(s, "vmfail")
      exits  == At(s, "exit")
      firsts == (IF fails = {} THEN {} ELSE {Min(fails)})
                  \cup (IF exits = {} THEN {} ELSE {Min(exits)})
      events == {Min(At(s, "start"))} \cup At(s, "fixture") \cup At(s, "cycle") \cup firsts
      got    == Selected(s, events)
      fx     == Fixtures(s)
  IN IF At(s, "start") = {} THEN {}
     ELSE Broken([cycle_two  |-> \A n \in At(s, "fixture") \cup At(s, "cycle") : s[n].cycle = 1,
                  fixture    |-> [i \in DOMAIN fx |-> fx[i].cycle] = <<1>>,
                  stages     |-> StageNames(s, 1) = required_stages(mode),
                  order      |-> [i \in DOMAIN got |-> event(got[i])] =
                                   <<<<"start">>>> \o Want(1, required_stages(mode))
                                     \o (IF fails = {} THEN << >> ELSE <<<<"fail", 1>>>>)
                                     \o (IF exits = {} THEN << >> ELSE <<<<"exit">>>>),
                  after_fail |-> fails # {} => \A n \in vm_line_numbers(s) : n <= Min(fails),
                  after_exit |-> exits # {} => \A n \in vm_line_numbers(s) : n <= Min(exits)])
          \cup (IF mode = "skip-switch" THEN check_skip_switch_observed(s)
                                        ELSE check_writable_ro_observed(s))

-----------------------------------------------------------------------------
(* parse_vm_serial *)

one_exit(s, code) == Cardinality(At(s, "exit")) = 1 /\ \A n \in At(s, "exit") : s[n].code = code

line_errors(s, mode) ==
  Broken([failure   |-> At(s, "failure") = {},
          stage     |-> \A n \in At(s, "cycle") : s[n].stage \in Range(CYCLE_STAGES),
          malformed |-> At(s, "vmbad") = {},
          one_start |-> Cardinality(At(s, "start")) = 1,
          mode      |-> Cardinality(At(s, "start")) = 1 =>
                          \A n \in At(s, "start") : s[n].mode = mode])

positive_errors(s) ==
  UNION {parse_serial(s).transcript_errors,
         Broken([no_fail      |-> At(s, "vmfail") = {},
                 one_complete |-> Cardinality(At(s, "complete")) = 1,
                 exit_ok      |-> one_exit(s, 10)]),
         reject_vm_after_terminal(s), check_positive_order(s), check_cycle_semantics(s, TRUE)}

negative_errors(s, mode) ==
  LET fails == At(s, "vmfail")
      fail  == s[Min(fails)]
  IN UNION {Broken([base_failed |-> parse_serial(s).transcript_errors # {},
                    no_complete |-> At(s, "complete") = {},
                    no_done     |-> done_at(s) = {},
                    no_timer    |-> timer_at(s) = {},
                    no_success  |-> \A n \in At(s, "exit") : s[n].code # 10,
                    one_fail    |-> Cardinality(fails) = 1,
                    fail_cycle  |-> Cardinality(fails) = 1 => fail.cycle = 1,
                    exit_vm     |-> one_exit(s, 17),
                    fail_stage  |-> fails # {} => fail.stage = expected_stage(mode),
                    fail_reason |-> fails # {} => fail.reason = expected_reason(mode)]),
            check_n6_prefix(s), check_negative_sequence(s, mode),
            check_cycle_semantics(s, FALSE)}

parse_vm_serial(s, mode) ==
  LET errors == line_errors(s, mode) \cup
                  (IF mode = "positive" THEN positive_errors(s) ELSE negative_errors(s, mode))
      fails  == At(s, "vmfail")
  IN [vm_complete |-> Cardinality(At(s, "complete")) = 1 /\ errors = {} /\ mode = "positive",
      vm_fail     |-> IF fails = {} THEN [stage |-> "none", reason |-> "none"]
                      ELSE [stage |-> s[Min(fails)].stage, reason |-> s[Min(fails)].reason],
      transcript_errors |-> errors]
=============================================================================
