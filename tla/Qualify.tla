------------------------------ MODULE Qualify ------------------------------
(***************************************************************************)
(* The two qualifiers, scripts/qualify-native/qualify.py (mode "base") and *)
(* qualify_vm.py (the other modes), around run_boot of Probe: the checks   *)
(* before the launch, the exceptions that leave run_boot, the VM           *)
(* transcript, the verdict, the evidence file and the exit status.         *)
(*                                                                         *)
(* Fat16 gives the verdict on the boot volume.                             *)
(***************************************************************************)
EXTENDS Probe

CONSTANTS Loader, Kernel, Initramfs   \* the bytes of the artifacts

VARIABLES
  exit,       \* the script's exit status, None while it runs
  evidence    \* evidence.json has been written

vars == <<probeVars, exit, evidence>>

Vm == args.mode # "base"
Negative == args.mode \in {"skip-switch", "writable-ro"}

Report0 ==
  [errors |-> {}, status |-> "fail", launched |-> FALSE, owned |-> FALSE,
   attach_attempted |-> FALSE, attach_timed_out |-> FALSE, start_rc |-> None,
   exit_code |-> None, cleanup |-> "none", esp_unchanged |-> "unset", binding |-> "unset",
   image |-> "unset", firmware |-> "unset", kernel_entry_observed |-> FALSE,
   vm_qualified |-> FALSE, expected_negative_observed |-> FALSE]

Init ==
  /\ args \in Boots /\ guest = [printed |-> 0, fw |-> "none", status |-> None]
  /\ pc = "start" /\ raised = "no" /\ report = Report0
  /\ ctr = "none" /\ cid = "none" /\ esp = "same" /\ removed = {} /\ calm = TRUE
  /\ exit = None /\ evidence = FALSE

outside == <<args, ctr, cid, guest, esp, removed>>

-----------------------------------------------------------------------------
(* Before the launch. *)

\* require_d_output: without a place for evidence there is no run at all.
RequireOutput ==
  /\ pc = "start"
  /\ \/ pc' = "config" /\ UNCHANGED <<report, exit, calm>>
     \/ /\ MayFail
        /\ report' = [report EXCEPT !.status = "unavailable", !.errors = {"output"}]
        /\ pc' = "ended" /\ exit' = 2 /\ calm' = FALSE
  /\ UNCHANGED <<outside, raised, evidence>>

\* A step that is passed, or raises one of a set of exceptions.
Check(step, next, exceptions) ==
  /\ pc = step
  /\ \/ pc' = next /\ UNCHANGED <<raised, calm>>
     \/ MayFail /\ raised' \in exceptions /\ pc' = "outcome" /\ calm' = FALSE
  /\ UNCHANGED <<outside, report, exit, evidence>>

Config == Check("config", "snapshot", {"Failed", "Unavailable"})
SnapshotInputs == Check("snapshot", "imginfo", {"Unavailable", "Exception"})
RunImginfo == Check("imginfo", "bind", {"Failed", "Unavailable", "Exception"})

bindNext(status) == IF status = "pass" THEN "image" ELSE "outcome"

\* What the volume must hold: the snapshots of the three artifacts.
expected_files ==
  <<[path |-> LOADER_PATH, wanted |-> Loader], [path |-> KERNEL_PATH, wanted |-> Kernel],
    [path |-> args.path, wanted |-> Initramfs]>>

\* A bad initramfs path is an exception before there is a binding; verify turns
\* whatever it meets, an unreadable input too, into its status.
BindEsp ==
  /\ pc = "bind"
  /\ \/ \E status \in {verify(args.esp, expected_files), "fail"} :
          /\ canonical_ok(args.path)
          /\ calm' = (calm /\ status = verify(args.esp, expected_files))
          /\ calm' \/ MayFail
          /\ report' = [report EXCEPT !.binding = status]
          /\ pc' = bindNext(status)
          /\ raised' = IF pc' = "outcome" THEN "Failed" ELSE raised
     \/ /\ ~canonical_ok(args.path) \/ MayFail
        /\ calm' = (calm /\ ~canonical_ok(args.path))
        /\ raised' = "Exception" /\ pc' = "outcome" /\ UNCHANGED report
  /\ UNCHANGED <<outside, exit, evidence>>

Launch == RunBoot /\ UNCHANGED <<exit, evidence>>

-----------------------------------------------------------------------------
(* After it. *)

\* The except clauses of qualify and qualify_vm.
Outcome ==
  /\ pc = "outcome"
  /\ report' = [report EXCEPT
                  !.errors = @ \cup (IF raised = "no" THEN {} ELSE {"raised"}),
                  !.status = IF raised = "Unavailable" THEN "unavailable" ELSE @]
  /\ pc' = IF Vm THEN "vm" ELSE "verdict"
  /\ UNCHANGED <<outside, raised, calm, exit, evidence>>

\* Mutant: any error of the bootstrap parser is expected of a negative artifact.
allowed_negative_error_all ==
  {"status33", "failure", "exit_malformed", "exit_early", "stage_order", "stage_after_exit",
   "stages_missing", "exit_count"}

allowed_negative_error == {"status33", "exit_malformed", "exit_early", "stages_missing"}

expected_negative_transport_ok(r) ==
  /\ r.launched /\ r.attach_attempted /\ ~r.attach_timed_out
  /\ r.exit_code = 47 /\ r.start_rc = 47
  /\ r.owned /\ r.cleanup = "ok"
  /\ r.esp_unchanged = "yes" /\ r.binding = "pass"
  /\ r.image = "pinned" /\ r.firmware = "pinned"
  /\ r.errors \subseteq allowed_negative_error

\* The substrings that must not be anywhere in a negative log.
printed(kind) == At(Serial, kind) # {}

apply_vm_transcript ==
  LET parsed   == parse_vm_serial(Serial, args.mode)
      withVm   == addErrors(parsed.transcript_errors)
      expected == /\ parsed.vm_fail.stage = expected_stage(args.mode)
                  /\ parsed.vm_fail.reason = expected_reason(args.mode)
                  /\ ~parsed.vm_complete /\ parsed.transcript_errors = {}
                  /\ \E n \in At(Serial, "exit") : Serial[n].code = 17
                  /\ ~printed("complete") /\ MarkerAt(Serial, "done") = {}
                  /\ expected_negative_transport_ok(withVm)
      judged   == IF Negative /\ ~expected
                  THEN [withVm EXCEPT !.errors = @ \cup {"negative_not_observed"}] ELSE withVm
  IN [judged EXCEPT !.expected_negative_observed = Negative /\ expected,
                    !.vm_qualified = /\ args.mode = "positive" /\ parsed.vm_complete
                                     /\ parsed.transcript_errors = {} /\ judged.errors = {}]

ApplyVm ==
  /\ pc = "vm"
  /\ IF report.attach_attempted \/ guest.printed > 0
     THEN \/ report' = apply_vm_transcript /\ UNCHANGED calm
          \/ MayFail /\ report' = addErrors({"vm_transcript"}) /\ calm' = FALSE
     ELSE /\ report' = IF args.mode = "positive" /\ report.launched
                       THEN addErrors({"vm_serial_missing"}) ELSE report
          /\ UNCHANGED calm
  /\ pc' = "verdict"
  /\ UNCHANGED <<outside, raised, exit, evidence>>

finalStatus(r) ==
  CASE r.status = "unavailable" -> "unavailable"
    [] r.status # "unavailable" /\ Negative -> "fail"
    [] r.status # "unavailable" /\ ~Negative ->
         IF r.errors = {} /\ (Vm => r.vm_qualified) THEN "pass" ELSE "fail"

\* The verdict; vm_qualified does not survive a verdict other than pass, except
\* beside unavailable, where it was never set.
Verdict ==
  LET status == finalStatus(report) IN
  /\ pc = "verdict"
  /\ report' = [report EXCEPT
                  !.status = status,
                  !.vm_qualified = @ /\ (status # "fail")]
  /\ pc' = "evidence"
  /\ UNCHANGED <<outside, raised, calm, exit, evidence>>

exitCode(status) == CASE status = "pass" -> 0 [] status = "unavailable" -> 2 [] status = "fail" -> 1

\* write_evidence, then the summary and the exit status; if the file cannot be
\* written the exception ends the script.
WriteEvidence ==
  /\ pc = "evidence"
  /\ \/ evidence' = TRUE /\ exit' = exitCode(report.status) /\ UNCHANGED calm
     \/ MayFail /\ exit' = 1 /\ calm' = FALSE /\ UNCHANGED evidence
  /\ pc' = "ended"
  /\ UNCHANGED <<outside, raised, report>>

ScriptStep == \/ RequireOutput \/ Config \/ SnapshotInputs \/ RunImginfo \/ BindEsp \/ Launch
              \/ Outcome \/ ApplyVm \/ Verdict \/ WriteEvidence

Ended == pc \in {"ended", "aborted"}

\* The process is gone; anything else that stops is a deadlock.
Gone == Ended /\ UNCHANGED vars

Next == ScriptStep \/ (Outside /\ UNCHANGED <<exit, evidence>>) \/ Gone

Spec == Init /\ [][Next]_vars

-----------------------------------------------------------------------------
(* What a true log is, stated on the log as a whole: drop the noise and the *)
(* repeated maps, and it is line for line what the artifact of that mode    *)
(* prints, with register values that a machine doing it could show.         *)

\* The lines that count for a qualifier, the repeats of a frozen map left out.
Essence(s, mode) ==
  LET counts   == {n \in DOMAIN s : IF mode = "base" THEN s[n].k \in {"marker", "failure", "exit"}
                                                     ELSE s[n].k # "noise"}
      frozen   == {n \in counts : indexIn(MARKERS, s[n]) = 4}
      again(n) == \E m \in frozen : m < n /\ \A x \in counts : x <= m \/ n <= x
  IN Selected(s, counts \ {n \in frozen : again(n)})

Skeleton(l) ==
  CASE l.k = "marker" -> <<l.m>>
    [] l.k = "fixture" -> <<"fixture", l.cycle, l.len, l.sha>>
    [] l.k = "cycle" -> <<"stage", l.cycle, l.stage>>
    [] l.k = "start" -> <<"start", l.mode>>
    [] l.k = "exit" -> <<"exit", l.code>>
    [] l.k = "vmfail" -> <<"fail", l.cycle, l.stage, l.reason>>
    [] OTHER -> <<"other", l.k>>

Markers(a, b) == [i \in 1..(b - a + 1) |-> <<MARKERS[a + i - 1]>>]
CycleLog(c, n) == <<<<"fixture", c, FIXTURE_LEN, FIXTURE_SHA256[c]>>>>
                    \o [i \in 1..n |-> <<"stage", c, CYCLE_STAGES[i]>>]

TrueLog(mode) ==
  CASE mode = "base" -> Markers(1, 18) \o <<<<"exit", 10>>>>
    [] mode = "positive" ->
         Markers(1, 16) \o <<<<"start", mode>>>> \o CycleLog(1, 13) \o CycleLog(2, 13)
           \o <<<<"other", "complete">>>> \o Markers(17, 18) \o <<<<"exit", 10>>>>
    [] mode = "skip-switch" ->
         Markers(1, 16) \o <<<<"start", mode>>>> \o CycleLog(1, 5)
           \o <<<<"fail", 1, "switch", "cr3-readback">>, <<"exit", 17>>>>
    [] mode = "writable-ro" ->
         Markers(1, 16) \o <<<<"start", mode>>>> \o CycleLog(1, 6)
           \o <<<<"fail", 1, "fault-ro", "expected-pf">>, <<"exit", 17>>>>

\* The machine the probe runs on: interrupts off, WP and NXE on, four-level
\* paging without the features it does not support.
Profile(ctl) ==
  /\ ~Bit(ctl.rflags, RFLAGS_IF) /\ Bit(ctl.cr0, CR0_WP) /\ Bit(ctl.efer, EFER_NXE)
  /\ \A b \in CR4_UNSUPPORTED : ~Bit(ctl.cr4, b)

\* What one cycle's registers say: a private root and four leaves of their own,
\* the kernel's first table borrowed, the address space really switched (or
\* really not), faults of the right kind, taken one after the other, and CR3,
\* tables and page allocator as they were when the run began (fields o).
TrueCycle(f, o, mode) ==
  LET ctl  == f["control"]  con == f["construct"]  w == f["walk"]  pdpt == f["template"].pdpt0
      kernel == Addr(o["control"].cr3)
      frames == <<con.root, w.rx, w.rx1, w.ro, w.rw>>
      shown  == {i \in DOMAIN FAULTS : FAULTS[i] \in DOMAIN f}
      fault(i) == f[FAULTS[i]]
  IN /\ \A st \in DOMAIN f : f[st].shape = SHAPE[st]
     /\ Profile(ctl) /\ ctl.pmm = o["control"].pmm /\ ctl.cr3 = o["control"].cr3
     /\ ctl.pmm.free + ctl.pmm.used = ctl.pmm.total
     /\ frame_ok(kernel) /\ f["template"].root = kernel
     /\ frame_ok(Addr(pdpt)) /\ Addr(pdpt) # kernel /\ Bit(pdpt, PTE_P)
     /\ ~Bit(pdpt, PTE_U) /\ ~Bit(pdpt, PTE_PS)
     /\ WithoutAD(pdpt) = WithoutAD(o["template"].pdpt0)
     /\ IsInjective(frames) /\ kernel # con.root /\ \A x \in Range(frames) : frame_ok(x)
     /\ <<con.owned, con.image, con.stack, con.tables>> = <<26, 4, 16, 6>>
     /\ <<w.image_pts, w.stack_pts>> = <<2, 1>>
     /\ f["switch"] = [shape |-> "pair", expected |-> con.root,
                       observed |-> IF mode = "skip-switch" THEN kernel ELSE con.root]
     /\ "restore" \in DOMAIN f => {f["restore"].expected, f["restore"].observed} = {ctl.cr3}
     /\ "destroy" \in DOMAIN f => f["destroy"].pmm = o["control"].pmm
     /\ \A i \in shown : /\ fault(i).pfec = PFEC[i] /\ fault(i).cr2 = FAULT_CR2[i] /\ fault(i).gen > 0
                          /\ fault(i).rip \in IF i = 2 THEN {FAULT_CR2[2]} ELSE KERNEL_LO..(KERNEL_HI - 1)
     /\ \A i, j \in shown : i < j => fault(i).gen < fault(j).gen

TrueRegisters(s, mode) ==
  LET one == by_cycle(s, 1)  two == by_cycle(s, 2) IN
  /\ TrueCycle(one, one, mode)
  /\ mode = "positive" => /\ TrueCycle(two, one, mode)
                          /\ one["absent"].gen < two["fault-ro"].gen

Genuine(s, mode) ==
  LET e == Essence(s, mode) IN
  /\ [i \in DOMAIN e |-> Skeleton(e[i])] = TrueLog(mode)
  /\ mode = "positive" => ~e[Len(e) - 1].more
  /\ mode # "base" => TrueRegisters(s, mode)

-----------------------------------------------------------------------------
(* Properties *)

\* A zero exit status of either qualifier means what it is read as: the bound
\* volume booted in a container of the image asked for with the pinned firmware,
\* QEMU ended with the success status, the log as it stands is a true log of a
\* whole run, and the container is gone and the volume was not changed.
PassIsEarned ==
  exit = 0 =>
    /\ evidence /\ ~Negative /\ (Vm => report.vm_qualified)
    /\ report.binding = "pass" /\ report.image = args.image
    /\ guest.fw = "pinned" /\ guest.status = 33 /\ guest.printed = Len(args.script)
    /\ Genuine(Serial, args.mode)
    /\ ctr = "gone" /\ esp \in {"same", "gone"}

\* The volume as a whole: a layout in which every cluster and its FAT entry exist,
\* a directory tree that owns every allocated cluster once, and the three files
\* with exactly the bytes of the artifacts.
Bindable ==
  LET file(i) == canonical_path(expected_files[i].path) IN
  /\ geometry_ok(args.esp) /\ LayoutSafe(args.esp) /\ Sound(args.esp)
  /\ \A i \in DOMAIN expected_files : /\ HasFile(args.esp, file(i), expected_files[i].wanted)
                                       /\ \A j \in DOMAIN expected_files \ {i} : file(i) # file(j)

\* The walk of FAT16 and verify accepts exactly the bindable volumes: nothing is
\* launched from one with a shared, lost or looping cluster chain, a wrong dot
\* entry or other bytes, and no sound volume is turned away.
BindingExact ==
  /\ pc = "image" /\ calm => Bindable
  /\ pc = "outcome" /\ calm /\ report.binding = "fail" => ~Bindable

\* expected_negative_observed is set only for a whole, undisturbed run of the
\* artifact that must fail, which failed in the expected way and in no other;
\* such a run never exits with success.
NegativeIsReal ==
  report.expected_negative_observed =>
    /\ Negative /\ exit \in {None, 1}
    /\ args.image = "pinned" /\ guest.fw = "pinned" /\ guest.status = 47
    /\ Genuine(Serial, args.mode)
    /\ ctr = "gone" /\ esp = "same"

\* The script removes its own container and no other, and if it leaves one
\* behind, or one may still be created for it, its report says so and the run
\* does not pass: whatever call failed, timed out or was interrupted.
NoContainerForgotten ==
  /\ removed \subseteq {"own"}
  /\ Ended /\ ctr \notin {"none", "gone"} =>
       /\ report.errors \cap {"ownership_unresolved", "removal", "cleanup"} # {}
       /\ exit # 0

\* Nothing true is turned away: when no fault occurred, the volume is bindable, the
\* log is a true log of the mode and the guest's status is the one it printed, the qualifier passes
\* (or, for a negative artifact, records the expected failure).
TrueRunAccepted ==
  (/\ Ended /\ calm /\ args.image = "pinned" /\ canonical_ok(args.path)
   /\ Genuine(args.script, args.mode) /\ Bindable) =>
    IF Negative THEN report.expected_negative_observed /\ exit = 1 ELSE exit = 0
=============================================================================
