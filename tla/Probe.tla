------------------------------- MODULE Probe -------------------------------
(***************************************************************************)
(* run_boot of scripts/qualify-native/probe.py: one guest boot inside one  *)
(* Docker container that the script creates, attaches to, and must remove. *)
(*                                                                         *)
(* The script is sequential (pc); beside it the Docker daemon and the      *)
(* guest move on their own: a create request whose client was killed may   *)
(* still be carried out, and a running guest goes on printing.  Every      *)
(* docker call may answer, refuse, or end in an exception (a timeout, no   *)
(* client, unreadable JSON).  What a call did to the container and what    *)
(* the client heard of it are chosen apart.                                *)
(***************************************************************************)
EXTENDS TranscriptVm, Fat16

CONSTANT
  Boots   \* the runs explored: which qualifier and artifact (mode), the image id
          \* asked for, the boot volume (esp) and the path of the initramfs, what
          \* the guest prints in full (script), and whether faults of the host
          \* and the daemon are explored with it (faults)

Modes == {"base"} \cup MODES

ASSUME ProbeAssumption ==
  \A b \in Boots : /\ b.mode \in Modes /\ b.image \in {"pinned", "other"}
                   /\ b.faults \in BOOLEAN /\ b.script \in Seq(Line)
                   /\ IsVolume(b.esp) /\ IsPath(b.path)

VARIABLES
  args,      \* the run: one of Boots
  pc,        \* the script's next step
  raised,    \* the exception that leaves run_boot when its finally clause ends
  report,    \* what the script has recorded
  ctr,       \* the container of this run, as the daemon has it
  cid,       \* "own" once the script knows the container's id
  guest,     \* the guest: lines printed, firmware found, exit status
  esp,       \* the boot volume after the run: same, changed, gone
  removed,   \* history: the containers the script has asked Docker to remove
  calm       \* history: nothing outside the script has failed so far

probeVars == <<args, pc, raised, report, ctr, cid, guest, esp, removed, calm>>

Steps == {"image", "create", "attach", "firmware", "inspect", "recover", "remove", "serial",
          "rehash"}

None == -1

MayFail == args.faults

\* The serial log: what the guest has printed up to now.
Serial == SubSeq(args.script, 1, guest.printed)
Cuts(s) == {0, Len(s) \div 2, Len(s)}   \* where a guest may be stopped

\* isa-debug-exit: QEMU ends with 2 * code + 1; a guest that never exits is
\* killed by the timeout of guest_command.  (Codes are printed in hexadecimal.)
exitStatus(s) ==
  LET exits == At(s, "exit") IN
  IF exits = {} THEN 124
  ELSE CASE s[Min(exits)].code = 10 -> 33 [] s[Min(exits)].code = 17 -> 47 [] OTHER -> 1

addErrors(E) == [report EXCEPT !.errors = @ \cup E]

\* Where the finally clause starts, with the script's knowledge of the container.
finallyStep(known) == IF known = "own" THEN "remove" ELSE "recover"

\* resolve_pinned_image: any failure to find exactly that image is Unavailable.
ResolveImage ==
  /\ pc = "image"
  /\ \/ /\ report' = [report EXCEPT !.image = args.image]
        /\ pc' = "create"
        /\ UNCHANGED <<raised, calm>>
     \/ /\ MayFail
        /\ report' = addErrors({"unavailable"})
        /\ raised' = "Unavailable"
        /\ pc' = "serial"
        /\ calm' = FALSE
  /\ UNCHANGED <<args, ctr, cid, guest, esp, removed>>

\* docker create.  The id file is read whatever the client's fate, and counts
\* only when it holds a whole id.
Create ==
  /\ pc = "create"
  /\ \E made \in {"none", "pending", "created"}, file \in {"absent", "partial", "id"},
        heard \in {"ok", "refused", "exception", "interrupt"} :
       /\ file = "id" => made = "created"
       /\ heard = "ok" => made = "created"
       /\ made = "pending" => heard \in {"exception", "interrupt"}
       /\ (heard = "ok" /\ file = "id") \/ MayFail
       /\ ctr' = made
       /\ cid' = IF file = "id" THEN "own" ELSE "none"
       /\ calm' = (calm /\ heard = "ok" /\ file = "id")
       /\ IF heard = "ok" /\ file = "id"
          THEN /\ report' = [report EXCEPT !.owned = TRUE, !.launched = TRUE]
               /\ pc' = "attach"
               /\ UNCHANGED raised
          ELSE /\ report' = addErrors(CASE heard \in {"ok", "refused"} -> {"failed"}
                                        [] heard = "exception" -> {"exception"}
                                        [] heard = "interrupt" -> {})
               /\ raised' = CASE heard \in {"ok", "refused"} -> "Failed"
                              [] heard = "exception" -> raised
                              [] heard = "interrupt" -> "Interrupt"
               /\ pc' = finallyStep(cid')
  /\ UNCHANGED <<args, guest, esp, removed>>

\* What docker start leaves behind: firmware missing or its hashes not written,
\* a guest that ended, or one that guest_command's timeout ended.
Ran ==
  {[fw |-> "missing", printed |-> 0, status |-> 2], [fw |-> "none", printed |-> 0, status |-> 1]}
    \cup {[fw |-> fw, printed |-> n, status |-> 124] :
            fw \in {"pinned", "wrong"}, n \in Cuts(args.script)}
    \cup {[fw |-> fw, printed |-> Len(args.script), status |-> exitStatus(args.script)] :
            fw \in {"pinned", "wrong"}}

Undisturbed ==
  [fw |-> "pinned", printed |-> Len(args.script), status |-> exitStatus(args.script)]

\* docker start -a: it returns the container's status, or a status of its own
\* (125) without having run it; or it ends in an exception with the container in any state.
Attach ==
  /\ pc = "attach"
  /\ \/ \E ran \in Ran :
          /\ ran = Undisturbed \/ MayFail
          /\ guest' = [guest EXCEPT !.fw = ran.fw, !.printed = ran.printed, !.status = ran.status]
          /\ ctr' = "exited"
          /\ report' = [report EXCEPT !.attach_attempted = TRUE, !.start_rc = ran.status]
          /\ pc' = "firmware"
          /\ calm' = (calm /\ ran = Undisturbed)
          /\ UNCHANGED raised
     \/ /\ MayFail
        /\ report' = [report EXCEPT !.attach_attempted = TRUE, !.start_rc = 125]
        /\ pc' = "firmware"
        /\ calm' = FALSE
        /\ UNCHANGED <<guest, ctr, raised>>
     \/ \E now \in {"created", "running", "exited"}, n \in Cuts(args.script),
           how \in {"timeout", "exception", "interrupt"} :
          /\ MayFail
          /\ now = "created" => n = 0
          /\ ctr' = now
          /\ guest' = [guest EXCEPT !.printed = n, !.fw = IF n = 0 THEN "none" ELSE "pinned",
                                    !.status = IF now = "exited" THEN 124 ELSE None]
          /\ report' = [report EXCEPT !.attach_attempted = TRUE,
                                      !.attach_timed_out = (how = "timeout"),
                                      !.errors = @ \cup (IF how = "interrupt" THEN {}
                                                         ELSE {"exception"})]
          /\ raised' = IF how = "interrupt" THEN "Interrupt" ELSE raised
          /\ pc' = finallyStep(cid)
          /\ calm' = FALSE
  /\ UNCHANGED <<args, cid, esp, removed>>

\* The firmware evidence the guest's shell left in the output directory.
Firmware ==
  /\ pc = "firmware"
  /\ IF guest.fw = "missing"
     THEN /\ report' = addErrors({"unavailable"})
          /\ raised' = "Unavailable"
          /\ pc' = finallyStep(cid)
     ELSE /\ report' = IF guest.fw = "none" THEN addErrors({"firmware_missing"})
                       ELSE [report EXCEPT !.firmware = guest.fw,
                                           !.errors = @ \cup (IF guest.fw = "wrong"
                                                              THEN {"firmware_hash"} ELSE {})]
          /\ pc' = "inspect"
          /\ UNCHANGED raised
  /\ UNCHANGED <<args, ctr, cid, guest, esp, removed, calm>>

\* Mutant: the two statuses are held against each other, not against 33.
statusErrors_agree(code, rc) == IF code # rc THEN {"status33"} ELSE {}

statusErrors(code, rc) == IF code # 33 \/ rc # 33 THEN {"status33"} ELSE {}

\* docker inspect of the completed container.  A container that never ran
\* reports status 0.
Inspect ==
  LET code == IF guest.status = None THEN 0 ELSE guest.status IN
  /\ pc = "inspect"
  /\ \/ /\ report' = [report EXCEPT !.exit_code = code,
                                    !.errors = @ \cup statusErrors(code, report.start_rc)]
        /\ UNCHANGED <<raised, calm>>
     \/ \E how \in {"refused", "exception", "interrupt"} :
          /\ MayFail
          /\ report' = addErrors(CASE how = "refused" -> {"failed"}
                                   [] how = "exception" -> {"exception"}
                                   [] how = "interrupt" -> {})
          /\ raised' = CASE how = "refused" -> "Failed"
                         [] how = "exception" -> raised
                         [] how = "interrupt" -> "Interrupt"
          /\ calm' = FALSE
  /\ pc' = finallyStep(cid)
  /\ UNCHANGED <<args, ctr, cid, guest, esp, removed>>

-----------------------------------------------------------------------------
(* The finally clause. *)

\* Mutant: the name is proof enough.
owns_name(item) == item.id /\ item.name

owns(item) == item.id /\ item.name /\ item.label /\ item.image

\* recover_creation: what docker inspect finds under the container's name.
\* Nobody else can carry this run's label.
Recover ==
  /\ pc = "recover"
  /\ \E answer \in {"nothing", "own", "foreign"} :
       /\ answer = "own" => ctr \in {"created", "running", "exited"}
       /\ \E item \in [id : BOOLEAN, name : BOOLEAN, label : BOOLEAN, image : BOOLEAN] :
            /\ answer = "own" => item = [id |-> TRUE, name |-> TRUE, label |-> TRUE, image |-> TRUE]
            /\ answer = "foreign" => ~item.label
            /\ cid' = IF answer # "nothing" /\ owns(item) THEN answer ELSE "none"
  /\ report' = IF cid' = "none" THEN addErrors({"ownership_unresolved"})
                                ELSE [report EXCEPT !.owned = TRUE]
  /\ pc' = IF cid' = "none" THEN "serial" ELSE "remove"
  /\ UNCHANGED <<args, raised, ctr, guest, esp, removed, calm>>

removalErrors(heard) ==
  CASE heard = "ok" -> {} [] heard = "refused" -> {"removal"} [] heard = "exception" -> {"cleanup"}

\* docker rm -f of the one id the script holds.
RemoveContainer ==
  /\ pc = "remove"
  /\ \E heard \in {"ok", "refused", "exception"}, left \in BOOLEAN :
       /\ heard = "ok" => ~left
       /\ heard = "refused" => left
       /\ heard # "ok" => MayFail
       /\ ctr' = IF left \/ cid # "own" THEN ctr ELSE "gone"
       /\ report' = [report EXCEPT !.cleanup = IF heard = "exception" THEN @ ELSE heard,
                                   !.errors = @ \cup removalErrors(heard)]
       /\ calm' = (calm /\ heard = "ok")
  /\ removed' = removed \cup {cid}
  /\ pc' = "serial"
  /\ UNCHANGED <<args, raised, cid, guest, esp>>

\* collect_serial, after the removal; reading the log may fail.
CollectSerial ==
  /\ pc = "serial"
  /\ IF report.attach_attempted \/ guest.printed > 0
     THEN \/ LET parsed == parse_serial(Serial) IN
             /\ report' = [report EXCEPT
                             !.kernel_entry_observed = parsed.kernel_entry_observed,
                             !.errors = @ \cup parsed.transcript_errors]
             /\ UNCHANGED calm
          \/ /\ MayFail
             /\ report' = addErrors({"serial_evidence"})
             /\ calm' = FALSE
     ELSE UNCHANGED <<report, calm>>
  /\ pc' = "rehash"
  /\ UNCHANGED <<args, raised, ctr, cid, guest, esp, removed>>

\* The boot volume is hashed again if it is still there; an unreadable one is
\* an error too.
Rehash ==
  /\ pc = "rehash"
  /\ \E now \in {"same", "changed", "gone", "unreadable"} :
       /\ now # "same" => MayFail
       /\ esp' = now
       /\ report' = [report EXCEPT
                       !.esp_unchanged = CASE now = "same" -> "yes" [] now = "changed" -> "no"
                                           [] OTHER -> @,
                       !.errors = @ \cup (IF now \in {"changed", "unreadable"}
                                          THEN {"esp"} ELSE {})]
       /\ calm' = (calm /\ now = "same")
  /\ pc' = IF raised = "Interrupt" THEN "aborted" ELSE "outcome"
  /\ UNCHANGED <<args, raised, ctr, cid, guest, removed>>

RunBoot == \/ ResolveImage \/ Create \/ Attach \/ Firmware \/ Inspect
           \/ Recover \/ RemoveContainer \/ CollectSerial \/ Rehash

-----------------------------------------------------------------------------
(* The daemon and the guest. *)

\* A create request outlives the client that sent it.
LateCreate ==
  /\ ctr = "pending"
  /\ ctr' = "created"
  /\ UNCHANGED <<args, pc, raised, report, cid, guest, esp, removed, calm>>

GuestPrints ==
  /\ ctr = "running" /\ guest.printed < Len(args.script)
  /\ \E n \in Cuts(args.script) : n > guest.printed /\ guest' = [guest EXCEPT !.printed = n]
  /\ UNCHANGED <<args, pc, raised, report, ctr, cid, esp, removed, calm>>

GuestStops ==
  /\ ctr = "running"
  /\ ctr' = "exited"
  /\ guest' = [guest EXCEPT !.status = IF guest.printed = Len(args.script)
                                       THEN exitStatus(args.script) ELSE 124]
  /\ UNCHANGED <<args, pc, raised, report, cid, esp, removed, calm>>

Outside == LateCreate \/ GuestPrints \/ GuestStops
=============================================================================
