---------------------------- MODULE QualifyProofs ----------------------------
(***************************************************************************)
(* Proofs about the two qualifiers, for every set of boots, volumes and    *)
(* logs.  Four parts:                                                      *)
(*   - a qualifier never forgets its container, whatever the parsers       *)
(*     answer (QualifyIInv, ContainerAccounted);                           *)
(*   - a log in which the parsers of transcript.py and transcript_vm.py    *)
(*     find nothing is a true log of its mode (BootstrapGenuine,           *)
(*     PositiveGenuine, NegativeGenuine);                                  *)
(*   - the report says what is so (Honest), from which a zero exit status  *)
(*     is earned and an expected failure is real (PassEarned,              *)
(*     NegativeReal);                                                      *)
(*   - the bind step is exact (BindingIsExact), since the walk of fat16.py *)
(*     is (Fat16Proofs).                                                   *)
(***************************************************************************)
EXTENDS Qualify, Fat16Proofs, FiniteSetTheorems, NaturalsInduction, WellFoundedInduction,
        SequenceTheorems, FunctionTheorems, TLAPS


-----------------------------------------------------------------------------
(* The inductive invariant. *)

\* Where run_boot has not asked for a container yet.
Early == {"start", "config", "snapshot", "imginfo", "bind", "image", "create"}

\* Where the finally clause has dealt with the container.
Late == {"serial", "rehash", "outcome", "vm", "verdict", "evidence", "ended", "aborted"}

Leaks == {"ownership_unresolved", "removal", "cleanup"}
AtLarge == ctr \notin {"none", "gone"}

\* The container id the script holds is its own, and it holds one when it asks
\* for a removal.
HoldsOwn ==
  /\ removed \subseteq {"own"} /\ cid \in {"none", "own"}
  /\ pc = "remove" => cid = "own"

\* A container at large is accounted for by the step the script is at, or by an error.
Accounted ==
  /\ pc \in Early => ctr = "none"
  /\ pc \in Late /\ AtLarge => report.errors \cap Leaks # {}

\* Success is announced only of a report without errors.
Announced ==
  /\ pc = "evidence" => /\ report.status \in {"pass", "fail", "unavailable"}
                        /\ report.status = "pass" => report.errors = {}
  /\ exit = 0 => report.errors = {}
  /\ pc # "ended" => exit = None

\* The steps of the script, and the fields of its report.
Shape ==
  /\ pc \in Early \cup {"attach", "firmware", "inspect", "recover", "remove"} \cup Late
  /\ report = [f \in DOMAIN Report0 |-> report[f]]

QualifyIInv == Shape /\ HoldsOwn /\ Accounted /\ Announced

-----------------------------------------------------------------------------

\* The report starts with its errors and its status.
LEMMA ReportFields == {"errors", "status"} \subseteq DOMAIN Report0
BY DEF Report0

\* The initial state satisfies the invariant.
LEMMA InitHolds == Init => QualifyIInv
BY DEF Init, QualifyIInv, Shape, HoldsOwn, Accounted, Announced, Early, Late, AtLarge, Leaks,
       Report0, None

\* A step after which the report has the same fields and no fewer errors, and the
\* container is not at large unless it was: the shape in which most steps keep
\* what is accounted for.
Keeps ==
  /\ report' = [f \in DOMAIN Report0 |-> report'[f]]
  /\ report.errors \subseteq report'.errors
  /\ UNCHANGED <<ctr, cid, removed>>

\* addErrors keeps the fields of the report and adds to its errors.
LEMMA AddErrors ==
  ASSUME Shape, NEW E
  PROVE  /\ addErrors(E) = [f \in DOMAIN Report0 |-> addErrors(E)[f]]
         /\ addErrors(E).errors = report.errors \cup E
         /\ addErrors(E).status = report.status
BY ReportFields DEF addErrors, Shape

-----------------------------------------------------------------------------
(* Before the launch: there is no container. *)

\* The check of the output directory keeps the invariant.
LEMMA RequireOutputKeeps == QualifyIInv /\ RequireOutput => QualifyIInv'
<1> SUFFICES ASSUME QualifyIInv, RequireOutput PROVE QualifyIInv'
  OBVIOUS
<1>1. Shape'
  BY ReportFields DEF QualifyIInv, Shape, RequireOutput, Early, Late
<1>2. HoldsOwn'
  BY DEF QualifyIInv, HoldsOwn, RequireOutput, outside
<1>3. Accounted'
  BY DEF QualifyIInv, Accounted, RequireOutput, outside, Early, Late, AtLarge
<1>4. Announced'
  BY DEF QualifyIInv, Announced, RequireOutput, None
<1>5. QED
  BY <1>1, <1>2, <1>3, <1>4 DEF QualifyIInv

\* Every step that can raise before the launch.
LEMMA CheckKeeps ==
  ASSUME QualifyIInv, NEW step \in Early, NEW next \in Early, NEW E, Check(step, next, E)
  PROVE  QualifyIInv'
<1>1. pc' \in Early \cup {"outcome"} /\ pc \in Early
  BY DEF Check
<1>2. Shape'
  BY <1>1 DEF QualifyIInv, Shape, Check, Late
<1>3. HoldsOwn'
  BY <1>1 DEF QualifyIInv, HoldsOwn, Check, outside, Early
<1>4. Accounted'
  BY <1>1 DEF QualifyIInv, Accounted, Check, outside, Early, Late, AtLarge
<1>5. Announced'
  BY <1>1 DEF QualifyIInv, Announced, Check, Early
<1>6. QED
  BY <1>2, <1>3, <1>4, <1>5 DEF QualifyIInv

\* The bind step keeps it.
LEMMA BindEspKeeps == QualifyIInv /\ BindEsp => QualifyIInv'
<1> SUFFICES ASSUME QualifyIInv, BindEsp PROVE QualifyIInv'
  OBVIOUS
<1>1. /\ pc = "bind" /\ pc' \in {"image", "outcome"}
      /\ report' = [f \in DOMAIN Report0 |-> report'[f]]
      /\ UNCHANGED <<ctr, cid, removed, exit>>
  BY DEF BindEsp, bindNext, QualifyIInv, Shape, outside
<1>2. Shape'
  BY <1>1 DEF Shape, Early, Late
<1>3. HoldsOwn' /\ Accounted' /\ Announced'
  BY <1>1 DEF QualifyIInv, HoldsOwn, Accounted, Announced, Early, Late, AtLarge, None
<1>4. QED
  BY <1>2, <1>3 DEF QualifyIInv

-----------------------------------------------------------------------------
(* run_boot. *)

\* The lookup of the image keeps it.
LEMMA ResolveImageKeeps == QualifyIInv /\ ResolveImage /\ UNCHANGED exit => QualifyIInv'
<1> SUFFICES ASSUME QualifyIInv, ResolveImage, UNCHANGED exit PROVE QualifyIInv'
  OBVIOUS
<1>1. pc = "image" /\ pc' \in {"create", "serial"} /\ UNCHANGED <<ctr, cid, removed>>
  BY DEF ResolveImage
<1>2. report' = [f \in DOMAIN Report0 |-> report'[f]]
  BY AddErrors DEF ResolveImage, QualifyIInv, Shape
<1>3. Shape'
  BY <1>1, <1>2 DEF Shape, Early, Late
<1>4. HoldsOwn' /\ Accounted' /\ Announced'
  BY <1>1 DEF QualifyIInv, HoldsOwn, Accounted, Announced, Early, Late, AtLarge, None
<1>5. QED
  BY <1>3, <1>4 DEF QualifyIInv

\* The creation of the container keeps it, also when Docker answers late.
LEMMA CreateKeeps == QualifyIInv /\ Create /\ UNCHANGED exit => QualifyIInv'
<1> SUFFICES ASSUME QualifyIInv, Create, UNCHANGED exit PROVE QualifyIInv'
  OBVIOUS
<1>1. /\ pc = "create" /\ UNCHANGED removed /\ cid' \in {"none", "own"}
      /\ pc' \in {"attach", "recover", "remove"}
      /\ pc' = "remove" => cid' = "own"
  BY DEF Create, finallyStep
<1>2. report' = [f \in DOMAIN Report0 |-> report'[f]]
  <2>1. PICK E : \/ report' = addErrors(E)
                 \/ report' = [report EXCEPT !.owned = TRUE, !.launched = TRUE]
    BY DEF Create
  <2>2. QED
    BY <2>1, AddErrors DEF QualifyIInv, Shape
<1>3. Shape'
  BY <1>1, <1>2 DEF Shape, Early, Late
<1>4. HoldsOwn' /\ Accounted' /\ Announced'
  BY <1>1 DEF QualifyIInv, HoldsOwn, Accounted, Announced, Early, Late, None
<1>5. QED
  BY <1>3, <1>4 DEF QualifyIInv

\* The steps between the creation and the finally clause leave the id alone and
\* go on to the next of them or to the finally clause.
LEMMA AttachedKeeps ==
  ASSUME QualifyIInv, Attach \/ Firmware \/ Inspect, UNCHANGED exit
  PROVE  QualifyIInv'
<1>1. /\ pc \in {"attach", "firmware", "inspect"} /\ UNCHANGED <<cid, removed>>
      /\ pc' \in {"firmware", "inspect", "recover", "remove"}
      /\ pc' = "remove" => cid' = "own"
  BY DEF Attach, Firmware, Inspect, finallyStep
<1>2. report' = [f \in DOMAIN Report0 |-> report'[f]]
  <2>1. CASE Attach
    BY <2>1 DEF Attach, QualifyIInv, Shape
  <2>2. CASE Firmware
    <3>1. PICK E, w : \/ report' = addErrors(E)
                      \/ report' = [report EXCEPT !.firmware = w, !.errors = @ \cup E]
      BY <2>2 DEF Firmware
    <3>2. QED
      BY <3>1, AddErrors DEF QualifyIInv, Shape
  <2>3. CASE Inspect
    <3>1. PICK E, c : \/ report' = addErrors(E)
                      \/ report' = [report EXCEPT !.exit_code = c, !.errors = @ \cup E]
      BY <2>3 DEF Inspect
    <3>2. QED
      BY <3>1, AddErrors DEF QualifyIInv, Shape
  <2>4. QED
    BY <2>1, <2>2, <2>3
<1>3. Shape'
  BY <1>1, <1>2 DEF Shape, Early, Late
<1>4. HoldsOwn' /\ Accounted' /\ Announced'
  BY <1>1 DEF QualifyIInv, HoldsOwn, Accounted, Announced, Early, Late, None
<1>5. QED
  BY <1>3, <1>4 DEF QualifyIInv

\* What is found under the name is taken for its own only when it is: a foreign
\* container does not carry the label.  Otherwise the report says so.
LEMMA RecoverKeeps == QualifyIInv /\ Recover /\ UNCHANGED exit => QualifyIInv'
<1> SUFFICES ASSUME QualifyIInv, Recover, UNCHANGED exit PROVE QualifyIInv'
  OBVIOUS
<1>1. cid' \in {"none", "own"}
  BY DEF Recover, owns
<1>2. /\ pc = "recover" /\ UNCHANGED <<ctr, removed>>
      /\ pc' = IF cid' = "none" THEN "serial" ELSE "remove"
      /\ report' = IF cid' = "none" THEN addErrors({"ownership_unresolved"})
                                    ELSE [report EXCEPT !.owned = TRUE]
  BY DEF Recover
<1>3. /\ report' = [f \in DOMAIN Report0 |-> report'[f]]
      /\ cid' = "none" => "ownership_unresolved" \in report'.errors
  BY <1>2, AddErrors DEF QualifyIInv, Shape
<1>4. Shape'
  BY <1>2, <1>3 DEF Shape, Early, Late
<1>5. HoldsOwn'
  BY <1>1, <1>2 DEF QualifyIInv, HoldsOwn
<1>6. Accounted'
  BY <1>1, <1>2, <1>3 DEF Accounted, Early, Late, Leaks
<1>7. Announced'
  BY <1>2 DEF QualifyIInv, Announced, None
<1>8. QED
  BY <1>4, <1>5, <1>6, <1>7 DEF QualifyIInv

\* docker rm of the script's own container: it is gone, or the report says that it
\* may not be.
LEMMA RemoveKeeps == QualifyIInv /\ RemoveContainer /\ UNCHANGED exit => QualifyIInv'
<1> SUFFICES ASSUME QualifyIInv, RemoveContainer, UNCHANGED exit PROVE QualifyIInv'
  OBVIOUS
<1>1. /\ pc = "remove" /\ pc' = "serial" /\ cid = "own" /\ UNCHANGED cid
      /\ removed' = removed \cup {cid}
  BY DEF RemoveContainer, QualifyIInv, HoldsOwn
<1>2. PICK heard \in {"ok", "refused", "exception"}, left \in BOOLEAN :
        /\ heard = "ok" => ~left
        /\ ctr' = IF left \/ cid # "own" THEN ctr ELSE "gone"
        /\ report' = [report EXCEPT !.cleanup = IF heard = "exception" THEN @ ELSE heard,
                                    !.errors = @ \cup removalErrors(heard)]
  BY DEF RemoveContainer
<1>3. report' = [f \in DOMAIN Report0 |-> report'[f]]
  BY <1>2 DEF QualifyIInv, Shape
<1>4. report'.errors = report.errors \cup removalErrors(heard)
  BY <1>2, ReportFields DEF QualifyIInv, Shape
<1>5. ctr' = "gone" \/ removalErrors(heard) \cap Leaks # {}
  BY <1>1, <1>2 DEF removalErrors, Leaks
<1>6. Shape'
  BY <1>1, <1>3 DEF Shape, Early, Late
<1>7. HoldsOwn'
  BY <1>1 DEF QualifyIInv, HoldsOwn
<1>8. Accounted'
  BY <1>1, <1>4, <1>5 DEF Accounted, Early, Late, AtLarge
<1>9. Announced'
  BY <1>1 DEF QualifyIInv, Announced, None
<1>10. QED
  BY <1>6, <1>7, <1>8, <1>9 DEF QualifyIInv

\* Once the finally clause has dealt with the container, a step of the script that
\* keeps it and the errors keeps the account.
LEMMA LateKeeps ==
  ASSUME QualifyIInv, Keeps, pc \in Late, pc' \in Late \ {"evidence", "ended"},
         pc # "ended", UNCHANGED exit
  PROVE  QualifyIInv'
<1>1. Shape'
  BY DEF Shape, Keeps
<1>2. HoldsOwn'
  BY DEF QualifyIInv, HoldsOwn, Keeps, Late
<1>3. Accounted'
  BY DEF QualifyIInv, Accounted, Keeps, AtLarge, Early, Late, Leaks
<1>4. Announced'
  BY DEF QualifyIInv, Announced, None
<1>5. QED
  BY <1>1, <1>2, <1>3, <1>4 DEF QualifyIInv

\* The collection of the serial file keeps it.
LEMMA CollectSerialKeeps == QualifyIInv /\ CollectSerial /\ UNCHANGED exit => QualifyIInv'
<1> SUFFICES ASSUME QualifyIInv, CollectSerial, UNCHANGED exit PROVE QualifyIInv'
  OBVIOUS
<1>1. pc = "serial" /\ pc' = "rehash" /\ UNCHANGED <<ctr, cid, removed>>
  BY DEF CollectSerial
<1>2. PICK b, E : \/ report' = [report EXCEPT !.kernel_entry_observed = b, !.errors = @ \cup E]
                  \/ report' = addErrors(E)
                  \/ report' = report
  BY DEF CollectSerial
<1>3. Keeps
  BY <1>1, <1>2, AddErrors, ReportFields DEF Keeps, QualifyIInv, Shape
<1>4. QED
  BY <1>1, <1>3, LateKeeps DEF Late

\* The second hash of the inputs keeps it.
LEMMA RehashKeeps == QualifyIInv /\ Rehash /\ UNCHANGED exit => QualifyIInv'
<1> SUFFICES ASSUME QualifyIInv, Rehash, UNCHANGED exit PROVE QualifyIInv'
  OBVIOUS
<1>1. pc = "rehash" /\ pc' \in {"aborted", "outcome"} /\ UNCHANGED <<ctr, cid, removed>>
  BY DEF Rehash
<1>2. PICK u, E : report' = [report EXCEPT !.esp_unchanged = u, !.errors = @ \cup E]
  BY DEF Rehash
<1>3. Keeps
  BY <1>1, <1>2, ReportFields DEF Keeps, QualifyIInv, Shape
<1>4. QED
  BY <1>1, <1>3, LateKeeps DEF Late

-----------------------------------------------------------------------------
(* After it: errors only grow, and success needs none. *)

\* The reading of the outcome keeps it.
LEMMA OutcomeKeeps == QualifyIInv /\ Outcome => QualifyIInv'
<1> SUFFICES ASSUME QualifyIInv, Outcome PROVE QualifyIInv'
  OBVIOUS
<1>1. pc = "outcome" /\ pc' \in {"vm", "verdict"} /\ UNCHANGED <<ctr, cid, removed, exit>>
  BY DEF Outcome, outside
<1>2. Keeps
  BY <1>1, ReportFields DEF Keeps, QualifyIInv, Shape, Outcome
<1>3. QED
  BY <1>1, <1>2, LateKeeps DEF Late

\* Whatever parse_vm_serial finds, apply_vm_transcript only adds errors.
LEMMA ApplyGrows ==
  ASSUME Shape
  PROVE  /\ apply_vm_transcript = [f \in DOMAIN Report0 |-> apply_vm_transcript[f]]
         /\ report.errors \subseteq apply_vm_transcript.errors
<1>1. PICK E, b, q, r :
        /\ r = addErrors(E) \/ r = [addErrors(E) EXCEPT !.errors = @ \cup {"negative_not_observed"}]
        /\ apply_vm_transcript = [r EXCEPT !.expected_negative_observed = b, !.vm_qualified = q]
  BY DEF apply_vm_transcript
<1>2. /\ r = [f \in DOMAIN Report0 |-> r[f]]
      /\ report.errors \subseteq r.errors
  BY <1>1, AddErrors, ReportFields
<1>3. QED
  BY <1>1, <1>2, ReportFields

\* The check of the transcript keeps it.
LEMMA ApplyVmKeeps == QualifyIInv /\ ApplyVm => QualifyIInv'
<1> SUFFICES ASSUME QualifyIInv, ApplyVm PROVE QualifyIInv'
  OBVIOUS
<1>1. pc = "vm" /\ pc' = "verdict" /\ UNCHANGED <<ctr, cid, removed, exit>>
  BY DEF ApplyVm, outside
<1>2. PICK E : report' = apply_vm_transcript \/ report' = addErrors(E) \/ report' = report
  BY DEF ApplyVm
<1>3. Keeps
  BY <1>1, <1>2, AddErrors, ApplyGrows DEF Keeps, QualifyIInv, Shape
<1>4. QED
  BY <1>1, <1>3, LateKeeps DEF Late

\* The verdict keeps it.
LEMMA VerdictKeeps == QualifyIInv /\ Verdict => QualifyIInv'
<1> SUFFICES ASSUME QualifyIInv, Verdict PROVE QualifyIInv'
  OBVIOUS
<1>1. pc = "verdict" /\ pc' = "evidence" /\ UNCHANGED <<ctr, cid, removed, exit>>
  BY DEF Verdict, outside
<1>2. PICK q : report' = [report EXCEPT !.status = finalStatus(report), !.vm_qualified = q]
  BY DEF Verdict
<1>3. /\ report' = [f \in DOMAIN Report0 |-> report'[f]]
      /\ report'.errors = report.errors /\ report'.status = finalStatus(report)
  BY <1>2, ReportFields DEF QualifyIInv, Shape
<1>4. /\ finalStatus(report) \in {"pass", "fail", "unavailable"}
      /\ finalStatus(report) = "pass" => report.errors = {}
  BY DEF finalStatus
<1>5. Shape' /\ HoldsOwn'
  BY <1>1, <1>3 DEF QualifyIInv, Shape, HoldsOwn, Late
<1>6. Accounted'
  BY <1>1, <1>3 DEF QualifyIInv, Accounted, AtLarge, Early, Late
<1>7. Announced'
  BY <1>1, <1>3, <1>4 DEF QualifyIInv, Announced, None
<1>8. QED
  BY <1>5, <1>6, <1>7 DEF QualifyIInv

\* The writing of the evidence keeps it.
LEMMA WriteEvidenceKeeps == QualifyIInv /\ WriteEvidence => QualifyIInv'
<1> SUFFICES ASSUME QualifyIInv, WriteEvidence PROVE QualifyIInv'
  OBVIOUS
<1>1. pc = "evidence" /\ pc' = "ended" /\ UNCHANGED <<ctr, cid, removed, report>>
  BY DEF WriteEvidence, outside
<1>2. exit' = 0 => report.status = "pass"
  BY DEF WriteEvidence, exitCode, QualifyIInv, Announced
<1>3. Shape' /\ HoldsOwn' /\ Accounted'
  BY <1>1 DEF QualifyIInv, Shape, HoldsOwn, Accounted, AtLarge, Early, Late
<1>4. Announced'
  BY <1>1, <1>2 DEF QualifyIInv, Announced
<1>5. QED
  BY <1>3, <1>4 DEF QualifyIInv

-----------------------------------------------------------------------------
(* The daemon and the guest. *)

\* They put at large no container that was not so before.
LEMMA OutsideKeeps == QualifyIInv /\ Outside /\ UNCHANGED exit => QualifyIInv'
<1> SUFFICES ASSUME QualifyIInv, Outside, UNCHANGED exit PROVE QualifyIInv'
  OBVIOUS
<1>1. AtLarge /\ UNCHANGED <<pc, report, cid, removed>>
  BY DEF Outside, LateCreate, GuestPrints, GuestStops, AtLarge
<1>2. Shape' /\ HoldsOwn' /\ Announced'
  BY <1>1 DEF QualifyIInv, Shape, HoldsOwn, Announced
<1>3. Accounted'
  BY <1>1 DEF QualifyIInv, Accounted, AtLarge
<1>4. QED
  BY <1>2, <1>3 DEF QualifyIInv

-----------------------------------------------------------------------------

\* Every step keeps the invariant.
LEMMA NextKeeps == QualifyIInv /\ [Next]_vars => QualifyIInv'
<1> SUFFICES ASSUME QualifyIInv, [Next]_vars PROVE QualifyIInv'
  OBVIOUS
<1>1. CASE RequireOutput
  BY <1>1, RequireOutputKeeps
<1>2. CASE Config \/ SnapshotInputs \/ RunImginfo
  BY <1>2, CheckKeeps DEF Config, SnapshotInputs, RunImginfo, Early
<1>3. CASE BindEsp
  BY <1>3, BindEspKeeps
<1>4. CASE Launch
  BY <1>4, ResolveImageKeeps, CreateKeeps, AttachedKeeps, RecoverKeeps, RemoveKeeps,
     CollectSerialKeeps, RehashKeeps DEF Launch, RunBoot
<1>5. CASE Outcome \/ ApplyVm \/ Verdict \/ WriteEvidence
  BY <1>5, OutcomeKeeps, ApplyVmKeeps, VerdictKeeps, WriteEvidenceKeeps
<1>6. CASE Outside /\ UNCHANGED <<exit, evidence>>
  BY <1>6, OutsideKeeps
<1>7. CASE UNCHANGED vars
  BY <1>7 DEF vars, probeVars, QualifyIInv, Shape, HoldsOwn, Accounted, Announced, AtLarge
<1>8. QED
  BY <1>1, <1>2, <1>3, <1>4, <1>5, <1>6, <1>7 DEF Next, ScriptStep, Gone

\* The invariant of every run of either qualifier (qualify.py, qualify_vm.py).
THEOREM QualifyInvariant == Spec => []QualifyIInv
BY InitHolds, NextKeeps, PTL DEF Spec

\* run_boot's finally clause (probe.py) and the verdict after it: in every run the
\* only container removed is the script's own, and one that is left behind, or may
\* still be created, is named by an error and the run does not pass.
THEOREM ContainerAccounted == Spec => []NoContainerForgotten
<1>1. QualifyIInv => NoContainerForgotten
  BY DEF QualifyIInv, HoldsOwn, Accounted, Announced, NoContainerForgotten, AtLarge, Leaks, Late,
         Ended
<1>2. QED
  BY <1>1, QualifyInvariant, PTL

-----------------------------------------------------------------------------
(* Sets of line numbers, listed in order. *)

-----------------------------------------------------------------------------
(* Line numbers in order. *)

\* The k numbers p grow.
Increasing(p, k) == \A i, j \in 1..k : i < j => p[i] < p[j]

\* p lists the numbers in I in their order.
Enumerates(p, k, I) ==
  /\ p \in [1..k -> Nat] /\ Increasing(p, k) /\ I = {p[i] : i \in 1..k}

\* A set listed in order has as many members as the list, each listed once.
LEMMA OrderSize ==
  ASSUME NEW I, NEW k \in Nat, NEW p, Enumerates(p, k, I)
  PROVE  /\ IsFiniteSet(I) /\ Cardinality(I) = k
         /\ \A i, j \in 1..k : p[i] = p[j] => i = j
<1>0. p \in [1..k -> Nat] /\ Increasing(p, k) /\ I = {p[i] : i \in 1..k}
  BY DEF Enumerates
<1>1. \A i, j \in 1..k : p[i] = p[j] => i = j
  <2>1. SUFFICES ASSUME NEW i \in 1..k, NEW j \in 1..k, p[i] = p[j], i < j PROVE FALSE
    OBVIOUS
  <2> QED
    BY <1>0, <2>1 DEF Increasing
<1>2. ExistsBijection(1..k, I)
  <2>1. p \in [1..k -> I] /\ \A y \in I : \E i \in 1..k : p[i] = y
    BY <1>0
  <2>2. p \in Bijection(1..k, I)
    BY <1>1, <2>1, Fun_IsBij
  <2> QED
    BY <2>2 DEF ExistsBijection
<1>3. IsFiniteSet(1..k) /\ Cardinality(1..k) = k
  <2>1. 1 \in Int /\ k \in Int /\ (1 > k => k = 0)
    OBVIOUS
  <2> QED
    BY <2>1, FS_Interval
<1>4. IsFiniteSet(I) /\ Cardinality(I) = k
  <2> QED
    BY <1>2, <1>3, FS_Bijection
<1> QED
  BY <1>1, <1>4

\* The place of a line in an enumeration is its rank, so Selected reads the lines
\* of an enumerated set one by one.
LEMMA PlaceIsRank ==
  ASSUME NEW I, NEW k \in Nat, NEW p, Enumerates(p, k, I)
  PROVE  /\ IsFiniteSet(I) /\ Cardinality(I) = k
         /\ \A i \in 1..k : rank(I, p[i]) = i /\ nth(I, i) = p[i]
<1>1. p \in [1..k -> Nat] /\ Increasing(p, k) /\ I = {p[i] : i \in 1..k}
  BY DEF Enumerates
<1>2. IsFiniteSet(I) /\ Cardinality(I) = k
  BY OrderSize
<1>3. ASSUME NEW i \in 1..k PROVE rank(I, p[i]) = i
  <2>1. PICK q : q = [j \in 1..i |-> p[j]]
    OBVIOUS
  <2>2. q \in [1..i -> Nat] /\ Increasing(q, i) /\ i \in Nat
    BY <1>1, <2>1 DEF Increasing
  <2>3. {m \in I : m <= p[i]} = {q[j] : j \in 1..i}
    <3>1. ASSUME NEW m \in I, m <= p[i] PROVE m \in {q[j] : j \in 1..i}
      <4>1. PICK j \in 1..k : m = p[j]
        BY <1>1
      <4>2. ~(i < j)
        <5>1. i < j => p[i] < p[j]
          BY <1>1 DEF Increasing
        <5>2. p[i] \in Nat /\ p[j] \in Nat
          BY <1>1
        <5> QED
          BY <5>1, <5>2, <3>1, <4>1
      <4>3. j \in 1..i
        BY <4>2
      <4> QED
        BY <4>1, <4>3, <2>1
    <3>2. ASSUME NEW j \in 1..i PROVE q[j] \in I /\ q[j] <= p[i]
      <4>1. j \in 1..k /\ q[j] = p[j] /\ (j < i \/ j = i)
        BY <2>1
      <4>2. p[j] \in Nat /\ p[i] \in Nat
        BY <1>1, <4>1
      <4>3. j < i => p[j] < p[i]
        BY <1>1, <4>1 DEF Increasing
      <4>4. p[j] <= p[i]
        BY <4>1, <4>2, <4>3
      <4> QED
        BY <1>1, <4>1, <4>4
    <3> QED
      BY <3>1, <3>2
  <2>4. Cardinality({q[j] : j \in 1..i}) = i
    <3>1. Enumerates(q, i, {q[j] : j \in 1..i})
      BY <2>2 DEF Enumerates
    <3> QED
      BY <2>2, <3>1, OrderSize
  <2> QED
    BY <2>3, <2>4 DEF rank
<1>4. ASSUME NEW i \in 1..k PROVE nth(I, i) = p[i]
  <2>1. p[i] \in I
    BY <1>1
  <2>2. rank(I, p[i]) = i
    BY <1>3
  <2>3. \A n \in I : rank(I, n) = i => n = p[i]
    <3>1. SUFFICES ASSUME NEW j \in 1..k, rank(I, p[j]) = i PROVE p[j] = p[i]
      BY <1>1
    <3>2. rank(I, p[j]) = j
      BY <1>3
    <3> QED
      BY <3>1, <3>2
  <2> QED
    BY <2>1, <2>2, <2>3 DEF nth
<1> QED
  BY <1>2, <1>3, <1>4

\* The lines selected from a log are the lines of the set in the order of the log.
LEMMA SelectedIs ==
  ASSUME NEW s, NEW I, NEW k \in Nat, NEW p, Enumerates(p, k, I)
  PROVE  Selected(s, I) = [i \in 1..k |-> s[p[i]]]
<1>1. Cardinality(I) = k /\ \A i \in 1..k : nth(I, i) = p[i]
  BY PlaceIsRank
<1> QED
  BY <1>1 DEF Selected

\* Every set of line numbers is enumerated by nth.
LEMMA NthEnumerates ==
  ASSUME NEW N \in Nat, NEW I, I \subseteq 1..N
  PROVE  /\ IsFiniteSet(I) /\ Cardinality(I) \in Nat
         /\ Enumerates([i \in 1..Cardinality(I) |-> nth(I, i)], Cardinality(I), I)
<1>0. \A x \in I : x \in Nat
  OBVIOUS
<1>1. IsFiniteSet(I) /\ Cardinality(I) \in Nat
  <2>1. I \in SUBSET Nat /\ \A n \in I : n <= N
    OBVIOUS
  <2> QED
    BY <2>1, FS_BoundedSetOfNaturals, FS_CardinalityType
<1>2. PICK k : k = Cardinality(I)
  OBVIOUS
<1>3. \A n \in I : IsFiniteSet({m \in I : m <= n}) /\ rank(I, n) \in 1..k
  <2> SUFFICES ASSUME NEW n \in I PROVE IsFiniteSet({m \in I : m <= n}) /\ rank(I, n) \in 1..k
    OBVIOUS
  <2> DEFINE J == {m \in I : m <= n}
  <2>1. J \in SUBSET I /\ n \in J
    OBVIOUS
  <2> HIDE DEF J
  <2>2. IsFiniteSet(J) /\ Cardinality(J) <= k
    BY <1>1, <1>2, <2>1, FS_Subset
  <2>3. Cardinality(J) \in Nat /\ Cardinality(J) # 0
    BY <2>1, <2>2, FS_CardinalityType, FS_EmptySet
  <2> QED
    BY <1>1, <1>2, <2>2, <2>3 DEF rank, J
<1>4. \A m, n \in I : m < n => rank(I, m) < rank(I, n)
  <2> SUFFICES ASSUME NEW m \in I, NEW n \in I, m < n PROVE rank(I, m) < rank(I, n)
    OBVIOUS
  <2> DEFINE J == {x \in I : x <= m}
             K == {x \in I : x <= n}
  <2>1. J \in SUBSET K /\ n \in K /\ n \notin J
    <3>1. \A x \in I : x \in Nat
      OBVIOUS
    <3>2. \A x \in J : x \in K
      BY <3>1
    <3>3. n \in K /\ n \notin J
      BY <3>1
    <3> QED
      BY <3>2, <3>3
  <2>2. IsFiniteSet(J) /\ IsFiniteSet(K)
    BY <1>3
  <2> HIDE DEF J, K
  <2>3. Cardinality(J) <= Cardinality(K) /\ Cardinality(J) # Cardinality(K)
    BY <2>1, <2>2, FS_Subset
  <2>4. Cardinality(J) \in Nat /\ Cardinality(K) \in Nat
    BY <2>2, FS_CardinalityType
  <2> QED
    BY <2>3, <2>4 DEF rank, J, K
<1>5. \A m, n \in I : rank(I, m) = rank(I, n) => m = n
  <2>0. \A x \in I : x \in Nat
    OBVIOUS
  <2> SUFFICES ASSUME NEW m \in I, NEW n \in I, rank(I, m) = rank(I, n), m < n PROVE FALSE
    BY <2>0
  <2>1. rank(I, m) < rank(I, n)
    BY <1>4
  <2>2. rank(I, m) \in 1..k /\ k \in Nat
    BY <1>1, <1>2, <1>3
  <2>3. rank(I, m) \in Nat
    BY <2>2
  <2> QED
    BY <2>1, <2>3
<1>6. \A i \in 1..k : \E n \in I : rank(I, n) = i
  <2> DEFINE f == [n \in I |-> rank(I, n)]
  <2>1. f \in [I -> 1..k] /\ \A m, n \in I : f[m] = f[n] => m = n
    BY <1>3, <1>5
  <2>2. IsFiniteSet(1..k) /\ Cardinality(1..k) = k
    <3>1. 1 \in Int /\ k \in Int /\ (1 > k => k = 0)
      BY <1>1, <1>2
    <3> QED
      BY <3>1, FS_Interval
  <2> HIDE DEF f
  <2>3. f \in Injection(I, 1..k)
    BY <2>1, Fun_IsInj
  <2>4. f \in Surjection(I, 1..k)
    BY <2>3, <2>2, <1>1, <1>2, FS_Injection
  <2>5. \A i \in 1..k : \E n \in I : f[n] = i
    BY <2>4 DEF Surjection
  <2> QED
    BY <2>5 DEF f
<1>7. \A i \in 1..k : nth(I, i) \in I /\ rank(I, nth(I, i)) = i
  BY <1>6 DEF nth
<1>8. PICK p : p = [i \in 1..k |-> nth(I, i)]
  OBVIOUS
<1>9. p \in [1..k -> Nat]
  <2>1. \A i \in 1..k : nth(I, i) \in Nat
    BY <1>0, <1>7
  <2> QED
    BY <2>1, <1>8
<1>10. Increasing(p, k)
  <2> SUFFICES ASSUME NEW i \in 1..k, NEW j \in 1..k, i < j PROVE p[i] < p[j]
    BY DEF Increasing
  <2>1. p[i] \in I /\ p[j] \in I /\ rank(I, p[i]) = i /\ rank(I, p[j]) = j
    BY <1>7, <1>8
  <2>2. ~(p[j] <= p[i])
    <3>1. p[j] < p[i] => j < i
      BY <2>1, <1>4
    <3>2. p[j] # p[i]
      BY <2>1
    <3>3. p[i] \in Nat /\ p[j] \in Nat
      BY <2>1, <1>0
    <3> QED
      BY <3>1, <3>2, <3>3
  <2>3. p[i] \in Nat /\ p[j] \in Nat
    BY <2>1, <1>0
  <2> QED
    BY <2>2, <2>3
<1>11. I = {p[i] : i \in 1..k}
  <2>1. \A n \in I : rank(I, n) \in 1..k /\ nth(I, rank(I, n)) = n
    <3> SUFFICES ASSUME NEW n \in I PROVE rank(I, n) \in 1..k /\ nth(I, rank(I, n)) = n
      OBVIOUS
    <3>1. rank(I, n) \in 1..k
      BY <1>3
    <3>2. nth(I, rank(I, n)) \in I /\ rank(I, nth(I, rank(I, n))) = rank(I, n)
      BY <1>7, <3>1
    <3> QED
      BY <3>1, <3>2, <1>5
  <2>2. \A n \in I : \E i \in 1..k : n = p[i]
    BY <2>1, <1>8
  <2> QED
    BY <2>2, <1>7, <1>8
<1> QED
  BY <1>1, <1>2, <1>8, <1>9, <1>10, <1>11 DEF Enumerates

-----------------------------------------------------------------------------
(* Lists, and what some lines of a log spell. *)

-----------------------------------------------------------------------------
(* Sequences, as functions on an interval. *)

\* A list of m entries is a sequence of length m.
LEMMA SeqLen ==
  ASSUME NEW t, NEW m \in Nat, t = [i \in 1..m |-> t[i]]
  PROVE  /\ t \in Seq({t[i] : i \in 1..m}) /\ Len(t) = m /\ DOMAIN t = 1..m
<1> DEFINE S == {t[i] : i \in 1..m}
<1>1. t \in [1..m -> S]
  OBVIOUS
<1> HIDE DEF S
<1>2. t \in Seq(S)
  BY <1>1, SeqDef
<1>3. Len(t) \in Nat /\ DOMAIN t = 1..Len(t)
  BY <1>2, LenProperties
<1>4. DOMAIN t = 1..m
  BY <1>1
<1>5. Len(t) = m
  BY <1>3, <1>4
<1> QED
  BY <1>2, <1>4, <1>5 DEF S

\* What the concatenation of two lists is, entry by entry.
LEMMA ConcatIs ==
  ASSUME NEW t, NEW m \in Nat, t = [i \in 1..m |-> t[i]],
         NEW u, NEW n \in Nat, u = [i \in 1..n |-> u[i]]
  PROVE  t \o u = [i \in 1..(m + n) |-> IF i <= m THEN t[i] ELSE u[i - m]]
<1> DEFINE S == {t[i] : i \in 1..m}
           T == {u[i] : i \in 1..n}
<1>1. t \in Seq(S) /\ u \in Seq(T) /\ Len(t) = m /\ Len(u) = n
  BY SeqLen
<1>2. PICK U : U = S \cup T
  OBVIOUS
<1> HIDE DEF S, T
<1>3. t \in Seq(U) /\ u \in Seq(U)
  <2>1. S \subseteq U /\ T \subseteq U
    BY <1>2
  <2> QED
    BY <1>1, <2>1, SeqMonotonic
<1>4. PICK w : w = t \o u
  OBVIOUS
<1>5. /\ w \in Seq(U) /\ Len(w) = m + n
      /\ \A i \in 1..(m + n) : w[i] = IF i <= m THEN t[i] ELSE u[i - m]
  BY <1>1, <1>3, <1>4, ConcatProperties
<1>6. w \in [1..(m + n) -> U]
  BY <1>5, LenProperties
<1>7. w = [i \in 1..(m + n) |-> w[i]]
  BY <1>6
<1> QED
  BY <1>4, <1>5, <1>7

\* A list of m entries.
IsList(t, m) == m \in Nat /\ t = [i \in 1..m |-> t[i]]

\* w is t followed by u.
Joins(w, t, m, u, n) ==
  /\ m \in Nat /\ n \in Nat /\ IsList(w, m + n) /\ Len(w) = m + n
  /\ \A i \in 1..m : w[i] = t[i]
  /\ \A i \in 1..n : w[i + m] = u[i]

\* A concatenation has the entries of the first list, then those of the second.
LEMMA ConcatAt ==
  ASSUME NEW t, NEW m, IsList(t, m), NEW u, NEW n, IsList(u, n)
  PROVE  Joins(t \o u, t, m, u, n)
<1>0. m \in Nat /\ t = [i \in 1..m |-> t[i]] /\ n \in Nat /\ u = [i \in 1..n |-> u[i]]
  BY DEF IsList
<1>1. PICK w : w = t \o u
  OBVIOUS
<1>2. w = [i \in 1..(m + n) |-> IF i <= m THEN t[i] ELSE u[i - m]]
  BY <1>0, <1>1, ConcatIs
<1>3. w = [i \in 1..(m + n) |-> w[i]] /\ m + n \in Nat
  BY <1>0, <1>2
<1>4. \A i \in 1..m : w[i] = t[i]
  BY <1>0, <1>2
<1>5. \A i \in 1..n : w[i + m] = u[i]
  <2> SUFFICES ASSUME NEW i \in 1..n PROVE w[i + m] = u[i]
    OBVIOUS
  <2>1. i + m \in 1..(m + n) /\ ~(i + m <= m) /\ (i + m) - m = i
    BY <1>0
  <2> QED
    BY <1>2, <2>1
<1>6. Len(w) = m + n
  BY <1>3, SeqLen
<1> QED
  BY <1>0, <1>1, <1>3, <1>4, <1>5, <1>6 DEF IsList, Joins

\* A sequence that comes one line at a time is increasing.
LEMMA StepsIncrease ==
  ASSUME NEW k \in Nat, NEW p \in [1..k -> Nat], \A i \in 1..(k - 1) : p[i] < p[i + 1]
  PROVE  Increasing(p, k)
<1> SUFFICES ASSUME NEW a \in 1..k PROVE \A j \in 1..k : a < j => p[a] < p[j]
  BY DEF Increasing
<1> DEFINE S == {d \in 0..(k - a) : d = 0 \/ p[a] < p[a + d]}
<1>1. 0 \in S /\ k - a \in Nat
  OBVIOUS
<1>2. ASSUME NEW d \in 1..(k - a), d - 1 \in S PROVE d \in S
  <2>1. a + (d - 1) \in 1..(k - 1) /\ (a + (d - 1)) + 1 = a + d /\ a + d \in 1..k
    OBVIOUS
  <2>2. p[a + (d - 1)] < p[a + d]
    BY <2>1
  <2>3. p[a] \in Nat /\ p[a + (d - 1)] \in Nat /\ p[a + d] \in Nat
    BY <2>1
  <2>4. d - 1 = 0 \/ p[a] < p[a + (d - 1)]
    BY <1>2
  <2>5. p[a] <= p[a + (d - 1)]
    <3>1. CASE d - 1 = 0
      <4>1. a + (d - 1) = a
        BY <3>1
      <4> QED
        BY <4>1, <2>3
    <3> QED
      BY <2>4, <3>1, <2>3
  <2>6. p[a] < p[a + d]
    BY <2>2, <2>3, <2>5
  <2> QED
    BY <2>6
<1>3. \A d \in 0..(k - a) : d \in S
  <2> HIDE DEF S
  <2> QED
    BY <1>1, <1>2, UpTo
<1>4. ASSUME NEW j \in 1..k, a < j PROVE p[a] < p[j]
  <2>1. j - a \in 0..(k - a) /\ j - a # 0 /\ a + (j - a) = j
    BY <1>4
  <2> QED
    BY <2>1, <1>3
<1> QED
  BY <1>4

-----------------------------------------------------------------------------
(* What the lines of a log spell. *)

\* The lines of s with the numbers in I, in the order of the log, have the n
\* skeletons t.
Spells(s, I, n, t) ==
  /\ n \in Nat /\ t = [i \in 1..n |-> t[i]]
  /\ \E p : Enumerates(p, n, I) /\ \A i \in 1..n : Skeleton(s[p[i]]) = t[i]

\* One line spells its own skeleton.
LEMMA SpellsOne ==
  ASSUME NEW s, NEW e \in Nat
  PROVE  Spells(s, {e}, 1, <<Skeleton(s[e])>>)
<1>1. PICK p : p = [i \in 1..1 |-> e]
  OBVIOUS
<1>2. Enumerates(p, 1, {e})
  BY <1>1 DEF Enumerates, Increasing
<1>3. PICK a : a = Skeleton(s[e])
  OBVIOUS
<1>4. <<a>> = [i \in 1..1 |-> <<a>>[i]] /\ \A i \in 1..1 : Skeleton(s[p[i]]) = <<a>>[i]
  BY <1>1, <1>3
<1> QED
  BY <1>2, <1>3, <1>4 DEF Spells

\* What comes later is spelt later.
LEMMA SpellsJoin ==
  ASSUME NEW s, NEW I, NEW m, NEW t, Spells(s, I, m, t),
         NEW J, NEW n, NEW u, Spells(s, J, n, u), \A a \in I, b \in J : a < b
  PROVE  Spells(s, I \cup J, m + n, t \o u)
<1>1. PICK p : Enumerates(p, m, I) /\ \A i \in 1..m : Skeleton(s[p[i]]) = t[i]
  BY DEF Spells
<1>2. PICK q : Enumerates(q, n, J) /\ \A i \in 1..n : Skeleton(s[q[i]]) = u[i]
  BY DEF Spells
<1>3. m \in Nat /\ n \in Nat /\ t = [i \in 1..m |-> t[i]] /\ u = [i \in 1..n |-> u[i]]
  BY DEF Spells
<1>4. p \in [1..m -> Nat] /\ q \in [1..n -> Nat] /\ Increasing(p, m) /\ Increasing(q, n)
  BY <1>1, <1>2 DEF Enumerates
<1>5. I = {p[i] : i \in 1..m} /\ J = {q[i] : i \in 1..n}
  BY <1>1, <1>2 DEF Enumerates
<1>6. PICK w : w = t \o u
  OBVIOUS
<1>7. w = [i \in 1..(m + n) |-> IF i <= m THEN t[i] ELSE u[i - m]]
  BY <1>3, <1>6, ConcatIs
<1>8. PICK r : r = [i \in 1..(m + n) |-> IF i <= m THEN p[i] ELSE q[i - m]]
  OBVIOUS
<1>9. \A i \in 1..(m + n) : (i <= m => i \in 1..m /\ r[i] = p[i])
                          /\ (~(i <= m) => i - m \in 1..n /\ r[i] = q[i - m])
  BY <1>3, <1>8
<1>10. r \in [1..(m + n) -> Nat]
  <2>1. \A i \in 1..(m + n) : r[i] \in Nat
    BY <1>4, <1>9
  <2> QED
    BY <1>8, <2>1
<1>11. Increasing(r, m + n)
  <2> SUFFICES ASSUME NEW i \in 1..(m + n), NEW j \in 1..(m + n), i < j PROVE r[i] < r[j]
    BY DEF Increasing
  <2>1. CASE j <= m
    <3>1. i \in 1..m /\ j \in 1..m /\ r[i] = p[i] /\ r[j] = p[j]
      BY <1>3, <1>9, <2>1
    <3> QED
      BY <3>1, <1>4 DEF Increasing
  <2>2. CASE i <= m /\ ~(j <= m)
    <3>1. i \in 1..m /\ r[i] = p[i] /\ j - m \in 1..n /\ r[j] = q[j - m]
      BY <1>9, <2>2
    <3>2. p[i] \in I /\ q[j - m] \in J
      BY <1>5, <3>1
    <3> QED
      BY <3>1, <3>2
  <2>3. CASE ~(i <= m)
    <3>1. ~(j <= m)
      BY <1>3, <2>3
    <3>2. i - m \in 1..n /\ r[i] = q[i - m] /\ j - m \in 1..n /\ r[j] = q[j - m] /\ i - m < j - m
      BY <1>3, <1>9, <2>3, <3>1
    <3> QED
      BY <3>2, <1>4 DEF Increasing
  <2> QED
    BY <2>1, <2>2, <2>3
<1>12. I \cup J = {r[i] : i \in 1..(m + n)}
  <2>1. ASSUME NEW i \in 1..m PROVE p[i] \in {r[k] : k \in 1..(m + n)}
    <3>1. i \in 1..(m + n) /\ i <= m
      BY <1>3
    <3> QED
      BY <3>1, <1>9
  <2>2. ASSUME NEW i \in 1..n PROVE q[i] \in {r[k] : k \in 1..(m + n)}
    <3>1. i + m \in 1..(m + n) /\ ~(i + m <= m) /\ (i + m) - m = i
      BY <1>3
    <3>2. r[i + m] = q[i]
      BY <3>1, <1>9
    <3> QED
      BY <3>1, <3>2
  <2>3. \A i \in 1..(m + n) : r[i] \in I \cup J
    BY <1>5, <1>9
  <2> QED
    BY <1>5, <2>1, <2>2, <2>3
<1>13. \A i \in 1..(m + n) : Skeleton(s[r[i]]) = w[i]
  <2> SUFFICES ASSUME NEW i \in 1..(m + n) PROVE Skeleton(s[r[i]]) = w[i]
    OBVIOUS
  <2>1. w[i] = IF i <= m THEN t[i] ELSE u[i - m]
    BY <1>7
  <2> QED
    BY <2>1, <1>1, <1>2, <1>9
<1>14. w = [i \in 1..(m + n) |-> w[i]]
  BY <1>7
<1>15. Enumerates(r, m + n, I \cup J) /\ m + n \in Nat
  BY <1>3, <1>10, <1>11, <1>12 DEF Enumerates
<1> QED
  BY <1>6, <1>13, <1>14, <1>15 DEF Spells

\* A log line for line, without the register values.
Skeletons(e) == [i \in DOMAIN e |-> Skeleton(e[i])]

\* Selected reads what is spelt.
LEMMA SpellsSelected ==
  ASSUME NEW s, NEW I, NEW n, NEW t, Spells(s, I, n, t)
  PROVE  /\ Selected(s, I) = [i \in 1..n |-> Selected(s, I)[i]]
         /\ Skeletons(Selected(s, I)) = t
         /\ \E p : Enumerates(p, n, I) /\ \A i \in 1..n : Selected(s, I)[i] = s[p[i]]
<1>1. PICK p : Enumerates(p, n, I) /\ \A i \in 1..n : Skeleton(s[p[i]]) = t[i]
  BY DEF Spells
<1>2. n \in Nat /\ t = [i \in 1..n |-> t[i]]
  BY DEF Spells
<1>3. PICK e : e = Selected(s, I)
  OBVIOUS
<1>4. e = [i \in 1..n |-> s[p[i]]]
  BY <1>1, <1>2, <1>3, SelectedIs
<1>5. DOMAIN e = 1..n /\ \A i \in 1..n : e[i] = s[p[i]]
  BY <1>4
<1>6. Skeletons(e) = [i \in 1..n |-> t[i]]
  BY <1>1, <1>5 DEF Skeletons
<1>7. e = [i \in 1..n |-> e[i]]
  BY <1>4
<1> QED
  BY <1>1, <1>2, <1>3, <1>5, <1>6, <1>7

-----------------------------------------------------------------------------
(* The stages of the bootstrap, and the scan of parse_serial over them. *)

-----------------------------------------------------------------------------
(* The markers. *)

\* MARKERS of transcript.py: eighteen different stages, with the ones the parsers name.
LEMMA MarkersAre ==
  /\ DOMAIN MARKERS = 1..18 /\ Len(MARKERS) = 18
  /\ \A i, j \in 1..18 : MARKERS[i] = MARKERS[j] => i = j
  /\ MARKERS[4] = "map-frozen" /\ MARKERS[16] = "trap-pf-nx-exec-ok"
  /\ MARKERS[17] = "timer-ok" /\ MARKERS[18] = "done"
<1>1. \A i, j \in 1..18 : MARKERS[i] = MARKERS[j] => i = j
  BY DEF MARKERS
<1> QED
  BY <1>1 DEF MARKERS

\* A line is the marker at its index, and none of them when that is 0.
LEMMA IndexIs ==
  ASSUME NEW l
  PROVE  /\ indexIn(MARKERS, l) \in 0..18
         /\ \A i \in 1..18 : indexIn(MARKERS, l) = i <=> l.k = "marker" /\ l.m = MARKERS[i]
<1>1. DOMAIN MARKERS = 1..18 /\ \A i, j \in 1..18 : MARKERS[i] = MARKERS[j] => i = j
  BY MarkersAre
<1>2. CASE \E i \in 1..18 : l.k = "marker" /\ MARKERS[i] = l.m
  <2>1. PICK i \in 1..18 : l.k = "marker" /\ MARKERS[i] = l.m
    BY <1>2
  <2>2. indexIn(MARKERS, l) = CHOOSE j \in 1..18 : MARKERS[j] = l.m
    BY <1>1, <1>2 DEF indexIn
  <2>3. indexIn(MARKERS, l) = i
    BY <1>1, <2>1, <2>2
  <2> QED
    BY <1>1, <2>1, <2>3
<1>3. CASE ~ \E i \in 1..18 : l.k = "marker" /\ MARKERS[i] = l.m
  <2>1. indexIn(MARKERS, l) = 0
    BY <1>1, <1>3 DEF indexIn
  <2> QED
    BY <1>3, <2>1
<1> QED
  BY <1>2, <1>3

\* The list the vm scan follows is the first 16 of them.
LEMMA N6IndexIs ==
  ASSUME NEW l
  PROVE  /\ Len(N6_MARKERS) = 16 /\ indexIn(N6_MARKERS, l) \in 0..16
         /\ indexIn(N6_MARKERS, l) # 0 => indexIn(MARKERS, l) = indexIn(N6_MARKERS, l)
<1>1. DOMAIN MARKERS = 1..18 /\ \A i, j \in 1..18 : MARKERS[i] = MARKERS[j] => i = j
  BY MarkersAre
<1>2. N6_MARKERS = [i \in 1..16 |-> MARKERS[i]]
  BY DEF N6_MARKERS, MARKERS
<1>3. DOMAIN N6_MARKERS = 1..16 /\ Len(N6_MARKERS) = 16 /\ \A i \in 1..16 : N6_MARKERS[i] = MARKERS[i]
  BY <1>2, SeqLen
<1>4. CASE \E i \in 1..16 : l.k = "marker" /\ MARKERS[i] = l.m
  <2>1. PICK i \in 1..16 : l.k = "marker" /\ MARKERS[i] = l.m
    BY <1>4
  <2>2. indexIn(N6_MARKERS, l) = CHOOSE j \in 1..16 : N6_MARKERS[j] = l.m
    BY <1>3, <2>1 DEF indexIn
  <2>3. indexIn(N6_MARKERS, l) = i
    BY <1>1, <1>3, <2>1, <2>2
  <2>4. indexIn(MARKERS, l) = i
    BY <2>1, IndexIs
  <2> QED
    BY <1>3, <2>3, <2>4
<1>5. CASE ~ \E i \in 1..16 : l.k = "marker" /\ MARKERS[i] = l.m
  <2>1. indexIn(N6_MARKERS, l) = 0
    BY <1>3, <1>5 DEF indexIn
  <2> QED
    BY <1>3, <2>1
<1> QED
  BY <1>4, <1>5

-----------------------------------------------------------------------------
(* parse_serial *)

\* Where the scan of parse_serial starts.
Scan0 == [cursor |-> 0, exits |-> 0, seen |-> {}, errors |-> {}]

\* The turns of the loop of parse_serial over the log s.
Scanned(s, N, g) ==
  /\ g[0] = Scan0
  /\ \A n \in 1..N : g[n] = scanLine(g[n - 1], s[n])

\* parse_serial goes through the lines one by one.
LEMMA ParseScans ==
  ASSUME NEW s, Len(s) \in Nat
  PROVE  \E g : /\ Scanned(s, Len(s), g)
                /\ parse_serial(s).transcript_errors =
                     g[Len(s)].errors \cup Broken([stages_missing |-> g[Len(s)].cursor = Len(MARKERS),
                                                   exit_count     |-> g[Len(s)].exits = 1])
<1>1. PICK N : N = Len(s) /\ N \in Nat
  OBVIOUS
<1> DEFINE Turn(a, l) == CHOOSE r \in {scanLine(b, l) : b \in {a}} : TRUE
           Lists(h, m) ==
             /\ h = [k \in 0..m |-> h[k]] /\ h[0] = Scan0
             /\ \A k \in 1..m : h[k] = Turn(h[k - 1], s[k])
           Step(h) == h = [k \in 0..N |-> IF k = 0 THEN Scan0 ELSE Turn(h[k - 1], s[k])]
           Have == {m \in 0..N : \E h : Lists(h, m)}
<1>2. \A a, l : Turn(a, l) = scanLine(a, l)
  OBVIOUS
<1> HIDE DEF Turn
<1>3. 0 \in Have
  <2>1. PICK h : h = [k \in 0..0 |-> Scan0]
    OBVIOUS
  <2>2. Lists(h, 0)
    BY <2>1
  <2> HIDE DEF Lists
  <2> QED
    BY <1>1, <2>2
<1>4. ASSUME NEW m \in 1..N, m - 1 \in Have PROVE m \in Have
  <2>1. m - 1 \in 0..N /\ m \in 0..N /\ m \in Nat
    BY <1>1
  <2>2. PICK g : Lists(g, m - 1)
    BY <1>4
  <2>3. PICK h : h = [k \in 0..m |-> IF k = m THEN Turn(g[m - 1], s[m]) ELSE g[k]]
    OBVIOUS
  <2>4. h = [k \in 0..m |-> h[k]]
    BY <2>3
  <2>5. h[0] = Scan0
    BY <2>1, <2>2, <2>3
  <2>6. ASSUME NEW k \in 1..m PROVE h[k] = Turn(h[k - 1], s[k])
    <3>1. k \in 0..m /\ k - 1 \in 0..m /\ k - 1 # m
      BY <2>1
    <3>2. h[k - 1] = g[k - 1]
      BY <2>3, <3>1
    <3>3. CASE k = m
      BY <2>3, <3>1, <3>2, <3>3
    <3>4. CASE k # m
      <4>1. k \in 1..(m - 1)
        BY <3>4, <2>1
      <4>2. g[k] = Turn(g[k - 1], s[k]) /\ h[k] = g[k]
        BY <2>2, <2>3, <3>1, <3>4, <4>1
      <4> QED
        BY <3>2, <4>2
    <3> QED
      BY <3>3, <3>4
  <2>7. Lists(h, m)
    BY <2>4, <2>5, <2>6
  <2> HIDE DEF Lists
  <2> QED
    BY <2>1, <2>7
<1>5. N \in Have
  <2> HIDE DEF Have
  <2>1. \A k \in 0..N : k \in Have
    BY <1>1, <1>3, <1>4, UpTo
  <2> QED
    BY <1>1, <2>1
<1>6. PICK g : Lists(g, N)
  BY <1>5
<1>7. Step(g)
  <2>1. \A k \in 0..N : k = 0 \/ k \in 1..N
    BY <1>1
  <2> QED
    BY <1>6, <2>1
<1>8. PICK f : f = CHOOSE h : Step(h)
  OBVIOUS
<1>9. Step(f)
  BY <1>7, <1>8
<1>10. parse_serial(s).transcript_errors =
         f[N].errors \cup Broken([stages_missing |-> f[N].cursor = Len(MARKERS),
                                  exit_count     |-> f[N].exits = 1])
  BY <1>1, <1>8 DEF parse_serial, Turn, Once, Scan0
<1>11. f[0] = Scan0 /\ \A k \in 1..N : f[k] = Turn(f[k - 1], s[k])
  BY <1>1, <1>9
<1>12. Scanned(s, N, f)
  BY <1>2, <1>11 DEF Scanned
<1> QED
  BY <1>1, <1>10, <1>12

idx(s, n) == indexIn(MARKERS, s[n])

\* How many stages have been seen in order, and how many exits, after each line.
Counted(s, N, c, x) ==
  /\ c \in [0..N -> Nat] /\ x \in [0..N -> Nat] /\ c[0] = 0 /\ x[0] = 0
  /\ \A n \in 1..N : /\ c[n] = IF idx(s, n) = c[n - 1] + 1 THEN idx(s, n) ELSE c[n - 1]
                     /\ x[n] = x[n - 1] + (IF s[n].k = "exit" THEN 1 ELSE 0)

\* What each error of parse_serial denies.
Means(s, N, c, x, E) ==
  /\ "failure" \in E \/ \A n \in 1..N : s[n].k # "failure"
  /\ "exit_malformed" \in E \/ \A n \in 1..N : s[n].k = "exit" => s[n].code = 10
  /\ "exit_early" \in E \/ \A n \in 1..N : s[n].k = "exit" => c[n - 1] = 18
  /\ "stage_order" \in E \/ \A n \in 1..N : \/ idx(s, n) \in {0, c[n - 1] + 1}
                                            \/ idx(s, n) = 4 /\ c[n - 1] = 4
  /\ "stage_after_exit" \in E \/ \A n \in 1..N : idx(s, n) # 0 => x[n] = 0
  /\ "stages_missing" \in E \/ c[N] = 18
  /\ "exit_count" \in E \/ x[N] = 1

\* One turn of the loop of parse_serial (transcript.py): what it advances and what each error
\* means when it is not raised.
LEMMA TurnIs ==
  ASSUME NEW a, NEW l
  PROVE  LET i == indexIn(MARKERS, l)
             b == scanLine(a, l)
             e == a.exits + (IF l.k = "exit" THEN 1 ELSE 0) IN
         /\ b.cursor = (IF i = a.cursor + 1 THEN i ELSE a.cursor) /\ b.exits = e
         /\ a.errors \subseteq b.errors
         /\ "failure" \in b.errors \/ l.k # "failure"
         /\ "exit_malformed" \in b.errors \/ (l.k = "exit" => l.code = 10)
         /\ "exit_early" \in b.errors \/ (l.k = "exit" => a.cursor = 18)
         /\ "stage_order" \in b.errors \/ i = 0 \/ i = a.cursor + 1 \/ (i = 4 /\ a.cursor = 4)
         /\ "stage_after_exit" \in b.errors \/ (i # 0 => e = 0)
<1>1. PICK i : i = indexIn(MARKERS, l)
  OBVIOUS
<1>2. PICK e : e = a.exits + (IF l.k = "exit" THEN 1 ELSE 0)
  OBVIOUS
<1>3. PICK r : r = [failure          |-> l.k # "failure",
                    exit_malformed   |-> l.k = "exit" => l.code = 10,
                    exit_early       |-> l.k = "exit" => a.cursor = Len(MARKERS),
                    stage_order      |-> i = 0 \/ i = a.cursor + 1 \/ retry_map(a.cursor, i),
                    stage_after_exit |-> i # 0 => e = 0]
  OBVIOUS
<1>4. scanLine(a, l) = [cursor |-> IF i = a.cursor + 1 THEN i ELSE a.cursor, exits |-> e,
                        seen |-> a.seen \cup (IF i = 0 THEN {} ELSE {MARKERS[i]}),
                        errors |-> a.errors \cup Broken(r)]
  BY <1>1, <1>2, <1>3 DEF scanLine
<1>5. /\ "failure" \in Broken(r) \/ l.k # "failure"
      /\ "exit_malformed" \in Broken(r) \/ (l.k = "exit" => l.code = 10)
      /\ "exit_early" \in Broken(r) \/ (l.k = "exit" => a.cursor = Len(MARKERS))
      /\ "stage_order" \in Broken(r) \/ i = 0 \/ i = a.cursor + 1 \/ retry_map(a.cursor, i)
      /\ "stage_after_exit" \in Broken(r) \/ (i # 0 => e = 0)
  BY <1>3 DEF Broken
<1>6. i # 0 /\ retry_map(a.cursor, i) => i = 4 /\ a.cursor = 4
  <2>1. i \in 0..18 /\ 4 \in 1..18
    BY <1>1, IndexIs
  <2>2. i # 0 /\ MARKERS[i] = MARKERS[4] => i = 4
    BY <2>1, MarkersAre
  <2> QED
    BY <2>2, MarkersAre DEF retry_map
<1>7. Len(MARKERS) = 18
  BY MarkersAre
<1> QED
  BY <1>1, <1>2, <1>4, <1>5, <1>6, <1>7

\* The errors of parse_serial (transcript.py) account for every line of the log.
LEMMA ParseMeans ==
  ASSUME NEW s, Len(s) \in Nat
  PROVE  \E c, x : Counted(s, Len(s), c, x) /\ Means(s, Len(s), c, x, parse_serial(s).transcript_errors)
<1>1. PICK N : N = Len(s) /\ N \in Nat
  OBVIOUS
<1>2. PICK E : E = parse_serial(s).transcript_errors
  OBVIOUS
<1>3. PICK g : /\ Scanned(s, N, g)
               /\ E = g[N].errors \cup Broken([stages_missing |-> g[N].cursor = Len(MARKERS),
                                               exit_count     |-> g[N].exits = 1])
  BY <1>1, <1>2, ParseScans
<1>4. g[0] = Scan0 /\ \A n \in 1..N : g[n] = scanLine(g[n - 1], s[n])
  BY <1>3 DEF Scanned
<1>5. PICK c, x : c = [n \in 0..N |-> g[n].cursor] /\ x = [n \in 0..N |-> g[n].exits]
  OBVIOUS
<1>6. c[0] = 0 /\ x[0] = 0
  BY <1>1, <1>4, <1>5 DEF Scan0
<1>7. ASSUME NEW n \in 1..N
      PROVE  /\ c[n] = IF idx(s, n) = c[n - 1] + 1 THEN idx(s, n) ELSE c[n - 1]
             /\ x[n] = x[n - 1] + (IF s[n].k = "exit" THEN 1 ELSE 0)
             /\ g[n - 1].errors \subseteq g[n].errors
             /\ "failure" \in g[n].errors \/ s[n].k # "failure"
             /\ "exit_malformed" \in g[n].errors \/ (s[n].k = "exit" => s[n].code = 10)
             /\ "exit_early" \in g[n].errors \/ (s[n].k = "exit" => c[n - 1] = 18)
             /\ "stage_order" \in g[n].errors \/ idx(s, n) \in {0, c[n - 1] + 1}
                                              \/ (idx(s, n) = 4 /\ c[n - 1] = 4)
             /\ "stage_after_exit" \in g[n].errors \/ (idx(s, n) # 0 => x[n] = 0)
  <2>1. n \in 0..N /\ n - 1 \in 0..N
    BY <1>1
  <2>2. g[n] = scanLine(g[n - 1], s[n])
    BY <1>4
  <2>3. c[n] = g[n].cursor /\ c[n - 1] = g[n - 1].cursor /\ x[n] = g[n].exits /\ x[n - 1] = g[n - 1].exits
    BY <1>5, <2>1
  <2>4. PICK a, b, l : a = g[n - 1] /\ b = g[n] /\ l = s[n]
    OBVIOUS
  <2> QED
    BY <2>2, <2>3, <2>4, TurnIs DEF idx
<1>8. \A n \in 0..N : c[n] \in Nat /\ x[n] \in Nat
  <2> DEFINE S == {n \in 0..N : c[n] \in Nat /\ x[n] \in Nat}
  <2>1. 0 \in S
    BY <1>1, <1>6
  <2>2. ASSUME NEW n \in 1..N, n - 1 \in S PROVE n \in S
    <3>1. idx(s, n) \in 0..18 /\ c[n - 1] \in Nat /\ x[n - 1] \in Nat /\ n \in 0..N
      BY <2>2, <1>1, IndexIs DEF idx
    <3>2. c[n] \in Nat
      BY <1>7, <3>1
    <3>3. x[n] \in Nat
      BY <1>7, <3>1
    <3> QED
      BY <3>1, <3>2, <3>3
  <2> HIDE DEF S
  <2>3. \A n \in 0..N : n \in S
    BY <1>1, <2>1, <2>2, UpTo
  <2> QED
    BY <2>3 DEF S
<1>9. Counted(s, N, c, x)
  BY <1>5, <1>6, <1>7, <1>8 DEF Counted
<1>10. \A n \in 0..N : g[n].errors \subseteq E
  <2> DEFINE S == {d \in 0..N : g[N - d].errors \subseteq E}
  <2>1. 0 \in S
    BY <1>1, <1>3
  <2>2. ASSUME NEW d \in 1..N, d - 1 \in S PROVE d \in S
    <3>1. N - (d - 1) \in 1..N /\ (N - (d - 1)) - 1 = N - d /\ d \in 0..N
      BY <1>1
    <3>2. g[N - d].errors \subseteq g[N - (d - 1)].errors
      BY <3>1, <1>7
    <3> QED
      BY <2>2, <3>1, <3>2
  <2> HIDE DEF S
  <2>3. \A d \in 0..N : d \in S
    BY <1>1, <2>1, <2>2, UpTo
  <2>4. \A n \in 0..N : N - n \in 0..N /\ N - (N - n) = n
    BY <1>1
  <2> QED
    BY <2>3, <2>4 DEF S
<1>11. ("stages_missing" \in E \/ c[N] = 18) /\ ("exit_count" \in E \/ x[N] = 1)
  <2>1. g[N].cursor = c[N] /\ g[N].exits = x[N] /\ Len(MARKERS) = 18
    BY <1>1, <1>5, MarkersAre
  <2> QED
    BY <1>3, <2>1 DEF Broken
<1>12. \A n \in 1..N : g[n].errors \subseteq E
  BY <1>10
<1>13. Means(s, N, c, x, E)
  BY <1>7, <1>11, <1>12 DEF Means
<1> QED
  BY <1>1, <1>2, <1>9, <1>13

-----------------------------------------------------------------------------
(* The cursor of parse_serial follows the stages. *)

\* The cursor and the count of exits of parse_serial never fall.
LEMMA CountsGrow ==
  ASSUME NEW s, NEW N \in Nat, NEW c, NEW x, Counted(s, N, c, x)
  PROVE  \A m, n \in 0..N : m <= n => c[m] <= c[n] /\ x[m] <= x[n]
<1>1. ASSUME NEW m \in 0..N PROVE \A n \in 0..N : m <= n => c[m] <= c[n] /\ x[m] <= x[n]
  <2> DEFINE S == {n \in 0..N : m <= n => c[m] <= c[n] /\ x[m] <= x[n]}
  <2>0. \A n \in 0..N : c[n] \in Nat /\ x[n] \in Nat
    BY DEF Counted
  <2>1. 0 \in S
    BY <2>0
  <2>2. ASSUME NEW n \in 1..N, n - 1 \in S PROVE n \in S
    <3>1. n \in 0..N /\ n - 1 \in 0..N
      OBVIOUS
    <3>2. c[n - 1] <= c[n] /\ x[n - 1] <= x[n]
      <4>1. /\ c[n] = IF idx(s, n) = c[n - 1] + 1 THEN idx(s, n) ELSE c[n - 1]
            /\ x[n] = x[n - 1] + (IF s[n].k = "exit" THEN 1 ELSE 0)
        BY DEF Counted
      <4>2. c[n - 1] \in Nat /\ x[n - 1] \in Nat
        BY <2>0, <3>1
      <4> QED
        BY <4>1, <4>2
    <3>3. c[n] \in Nat /\ x[n] \in Nat /\ c[n - 1] \in Nat /\ x[n - 1] \in Nat /\ c[m] \in Nat /\ x[m] \in Nat
      BY <2>0, <3>1
    <3>4. m <= n => m <= n - 1 \/ m = n
      BY <3>1
    <3> QED
      BY <2>2, <3>1, <3>2, <3>3, <3>4
  <2> HIDE DEF S
  <2>3. \A n \in 0..N : n \in S
    BY <2>1, <2>2, UpTo
  <2> QED
    BY <2>3 DEF S
<1> QED
  BY <1>1

\* The stages seen in order are the lines f, and any other marker is a repeat of
\* the frozen map, after the first one and before the next stage.
Staged(s, N, K, f) ==
  /\ K \in 0..18 /\ f \in [1..K -> Nat] /\ Increasing(f, K)
  /\ \A i \in 1..K : f[i] \in 1..N /\ idx(s, f[i]) = i
  /\ \A n \in 1..N : idx(s, n) # 0 =>
       \/ \E i \in 1..K : n = f[i]
       \/ idx(s, n) = 4 /\ K >= 4 /\ f[4] < n /\ (K >= 5 => n < f[5])

\* When no stage is out of order, the stages seen are the first ones of MARKERS, in order.
LEMMA StagesInOrder ==
  ASSUME NEW s, NEW N \in Nat, NEW c, NEW x, Counted(s, N, c, x),
         \A n \in 1..N : idx(s, n) \in {0, c[n - 1] + 1} \/ (idx(s, n) = 4 /\ c[n - 1] = 4)
  PROVE  \E f : Staged(s, N, c[N], f)
<1>1. \A m, n \in 0..N : m <= n => c[m] <= c[n]
  BY CountsGrow
<1>2. /\ c[0] = 0 /\ \A n \in 0..N : c[n] \in Nat
      /\ \A n \in 1..N : c[n] = IF idx(s, n) = c[n - 1] + 1 THEN idx(s, n) ELSE c[n - 1]
  BY DEF Counted
<1>3. \A n \in 1..N : n - 1 \in 0..N /\ n \in 0..N
  OBVIOUS
<1>4. PICK K : K = c[N] /\ K \in Nat
  BY <1>2
<1> DEFINE First(i, n) == n \in 1..N /\ c[n] >= i /\ \A m \in 1..N : c[m] >= i => n <= m
<1>5. \A i \in 1..K : \E n : First(i, n)
  <2> SUFFICES ASSUME NEW i \in 1..K PROVE \E n : First(i, n)
    OBVIOUS
  <2>1. PICK T : T = {n \in 1..N : c[n] >= i}
    OBVIOUS
  <2>2. T \subseteq Nat /\ N \in T
    <3>1. N # 0
      BY <1>2, <1>4
    <3> QED
      BY <1>4, <2>1, <3>1
  <2>3. PICK n \in T : \A m \in T : n <= m
    BY <2>2, LeastNat
  <2>4. First(i, n)
    BY <2>1, <2>3
  <2> QED
    BY <2>4
<1>6. PICK f : f = [i \in 1..K |-> CHOOSE n : First(i, n)]
  OBVIOUS
<1>7. \A i \in 1..K : First(i, f[i])
  BY <1>5, <1>6
<1>8. ASSUME NEW i \in 1..K
      PROVE  f[i] \in 1..N /\ c[f[i]] = i /\ c[f[i] - 1] = i - 1 /\ idx(s, f[i]) = i
  <2>1. PICK n : n = f[i]
    OBVIOUS
  <2>2. n \in 1..N /\ c[n] >= i /\ \A m \in 1..N : c[m] >= i => n <= m
    BY <1>7, <2>1
  <2>3. ~(c[n - 1] >= i)
    <3>1. CASE n = 1
      BY <1>2, <3>1
    <3>2. CASE n # 1
      <4>1. n - 1 \in 1..N /\ ~(n <= n - 1)
        BY <2>2, <3>2
      <4> QED
        BY <2>2, <4>1
    <3> QED
      BY <3>1, <3>2
  <2>4. c[n] \in Nat /\ c[n - 1] \in Nat /\ c[n] = IF idx(s, n) = c[n - 1] + 1 THEN idx(s, n) ELSE c[n - 1]
    BY <1>2, <1>3, <2>2
  <2> QED
    BY <2>1, <2>2, <2>3, <2>4
<1>9. f \in [1..K -> Nat]
  <2>1. \A i \in 1..K : f[i] \in Nat
    BY <1>8
  <2> QED
    BY <1>6, <2>1
<1>10. Increasing(f, K)
  <2> SUFFICES ASSUME NEW i \in 1..K, NEW j \in 1..K, i < j PROVE f[i] < f[j]
    BY DEF Increasing
  <2>1. c[f[j]] = j /\ c[f[i]] = i /\ f[j] \in 1..N /\ f[i] \in 1..N
    BY <1>8
  <2>2. f[j] <= f[i] => j <= i
    BY <1>1, <1>3, <2>1
  <2> QED
    BY <2>1, <2>2
<1>11. ASSUME NEW n \in 1..N, idx(s, n) # 0
       PROVE \/ \E i \in 1..K : n = f[i]
             \/ idx(s, n) = 4 /\ K >= 4 /\ f[4] < n /\ (K >= 5 => n < f[5])
  <2>1. c[n] \in Nat /\ c[n - 1] \in Nat /\ c[n] = IF idx(s, n) = c[n - 1] + 1 THEN idx(s, n) ELSE c[n - 1]
    BY <1>2, <1>3
  <2>2. c[n] <= K /\ c[n - 1] <= K
    <3>1. n <= N /\ n - 1 <= N /\ N \in 0..N
      OBVIOUS
    <3> QED
      BY <1>1, <1>3, <1>4, <3>1
  <2>3. CASE idx(s, n) = c[n - 1] + 1
    <3>1. PICK i : i = c[n]
      OBVIOUS
    <3>2. i \in 1..K /\ c[n - 1] = i - 1
      BY <1>4, <2>1, <2>2, <2>3, <3>1
    <3>3. f[i] <= n /\ f[i] \in 1..N /\ c[f[i]] = i
      BY <1>7, <1>8, <2>1, <3>1, <3>2
    <3>4. ~(f[i] <= n - 1)
      <4>1. f[i] <= n - 1 => c[f[i]] <= c[n - 1]
        BY <1>1, <1>3, <3>3
      <4> QED
        BY <4>1, <3>2, <3>3
    <3>5. n = f[i]
      BY <3>3, <3>4
    <3> QED
      BY <3>2, <3>5
  <2>4. CASE idx(s, n) # c[n - 1] + 1
    <3>1. idx(s, n) = 4 /\ c[n - 1] = 4 /\ c[n] = 4
      BY <1>11, <2>1, <2>4
    <3>2. K >= 4 /\ 4 \in 1..K
      BY <1>4, <2>2, <3>1
    <3>3. f[4] <= n - 1
      <4>1. n - 1 \in 1..N
        <5>1. n # 1
          BY <1>2, <3>1
        <5> QED
          BY <5>1
      <4>2. c[n - 1] >= 4
        BY <3>1
      <4> QED
        BY <1>7, <3>2, <4>1, <4>2
    <3>4. K >= 5 => n < f[5]
      <4> SUFFICES ASSUME K >= 5 PROVE n < f[5]
        OBVIOUS
      <4>1. 5 \in 1..K
        BY <1>4
      <4>2. f[5] \in 1..N /\ c[f[5]] = 5
        BY <1>8, <4>1
      <4>3. f[5] <= n => c[f[5]] <= c[n]
        BY <1>1, <1>3, <4>2
      <4> QED
        BY <3>1, <4>2, <4>3
    <3>5. f[4] < n
      <4>1. f[4] \in 1..N
        BY <1>8, <3>2
      <4> QED
        BY <3>3, <4>1
    <3> QED
      BY <3>1, <3>2, <3>4, <3>5
  <2> QED
    BY <2>3, <2>4
<1>12. K <= 18
  <2> SUFFICES ASSUME K # 0 PROVE K <= 18
    BY <1>4
  <2>1. K \in 1..K
    BY <1>4
  <2>2. idx(s, f[K]) = K /\ idx(s, f[K]) \in 0..18
    BY <1>8, <2>1, IndexIs DEF idx
  <2> QED
    BY <2>2
<1>13. K \in 0..18
  BY <1>4, <1>12
<1>14. Staged(s, N, K, f)
  BY <1>8, <1>9, <1>10, <1>11, <1>13 DEF Staged
<1> QED
  BY <1>4, <1>14

-----------------------------------------------------------------------------
(* Repeated maps, and what is left without them. *)

\* A set of line numbers that is not empty has a last one.
LEMMA LastOf ==
  ASSUME NEW N \in Nat, NEW S, S \subseteq 1..N, S # {}
  PROVE  \E n \in S : \A m \in S : m <= n
<1>1. PICK T : T = {d \in 0..N : N - d \in S}
  OBVIOUS
<1>2. T \subseteq Nat
  BY <1>1
<1>3. T # {}
  <2>1. PICK n \in S : TRUE
    OBVIOUS
  <2>2. N - n \in 0..N /\ N - (N - n) = n
    OBVIOUS
  <2> QED
    BY <1>1, <2>1, <2>2
<1>4. PICK d \in T : \A e \in T : d <= e
  BY <1>2, <1>3, LeastNat
<1>5. \A m \in S : m <= N - d
  <2> SUFFICES ASSUME NEW m \in S PROVE m <= N - d
    OBVIOUS
  <2>1. N - m \in 0..N /\ N - (N - m) = m
    OBVIOUS
  <2>2. N - m \in T
    BY <1>1, <2>1
  <2>3. d <= N - m /\ d \in Nat
    BY <1>2, <1>4, <2>2
  <2> QED
    BY <2>3
<1> QED
  BY <1>1, <1>4, <1>5

\* The frozen maps among the lines C, and those that follow another.
Frozen(s, C) == {n \in C : idx(s, n) = 4}
\* The repeats of a frozen map: those right after another one among the lines that count.
Repeats(s, C) ==
  {n \in Frozen(s, C) : \E m \in Frozen(s, C) : m < n /\ \A x \in C : x <= m \/ n <= x}

\* The stages f and the lines of C that are no markers.
Kept(s, C, K, f) == {f[i] : i \in 1..K} \cup {n \in C : idx(s, n) = 0}

\* All markers count, and nothing but markers before the fifth stage.
Bootstraps(s, N, C, f) ==
  /\ C \subseteq 1..N /\ \A n \in 1..N : idx(s, n) # 0 => n \in C
  /\ \A n \in C : n < f[5] => idx(s, n) # 0

\* What Essence keeps of the lines C.
LEMMA KeptLines ==
  ASSUME NEW s, NEW N \in Nat, NEW K, NEW f, Staged(s, N, K, f), K >= 5, NEW C, Bootstraps(s, N, C, f)
  PROVE  C \ Repeats(s, C) = Kept(s, C, K, f)
<1>17. /\ C \subseteq 1..N /\ \A n \in 1..N : idx(s, n) # 0 => n \in C
       /\ \A n \in C : n < f[5] => idx(s, n) # 0
  BY DEF Bootstraps
<1> DEFINE F == Frozen(s, C)
<1>16. F = {n \in C : idx(s, n) = 4}
  BY DEF Frozen
<1> HIDE DEF F
<1>0. \A n \in C : n \in 1..N
  BY <1>17
<1>1. /\ K \in 5..18 /\ f \in [1..K -> Nat] /\ Increasing(f, K)
      /\ \A i \in 1..K : f[i] \in 1..N /\ idx(s, f[i]) = i
  BY DEF Staged
<1>2. \A n \in 1..N : idx(s, n) # 0 =>
        (\E i \in 1..K : n = f[i]) \/ (idx(s, n) = 4 /\ f[4] < n /\ n < f[5])
  BY DEF Staged
<1>3. 4 \in 1..K /\ 5 \in 1..K
  BY <1>1
<1>4. \A i \in 1..K : f[i] \in C
  <2>1. \A i \in 1..K : i # 0
    OBVIOUS
  <2> QED
    BY <1>1, <1>17, <2>1
<1>5. PICK A : A = {n \in F : \E m \in F : m < n /\ \A x \in C : x <= m \/ n <= x}
  OBVIOUS
<1>6. \A n \in F : n = f[4] \/ (f[4] < n /\ n < f[5])
  <2> SUFFICES ASSUME NEW n \in F, ~(f[4] < n /\ n < f[5]) PROVE n = f[4]
    OBVIOUS
  <2>1. n \in 1..N /\ idx(s, n) = 4
    BY <1>0, <1>16
  <2>2. PICK i \in 1..K : n = f[i]
    BY <1>2, <2>1
  <2>3. i = 4
    BY <1>1, <2>1, <2>2
  <2> QED
    BY <2>2, <2>3
<1>7. f[4] \in F /\ f[4] < f[5] /\ f[4] \in Nat /\ f[5] \in Nat
  <2>1. f[4] < f[5]
    BY <1>1, <1>3 DEF Increasing
  <2>2. f[4] \in C /\ idx(s, f[4]) = 4
    BY <1>1, <1>3, <1>4
  <2> QED
    BY <1>1, <1>3, <1>16, <2>1, <2>2
<1>8. ASSUME NEW n \in F, n # f[4] PROVE n \in A
  <2>1. f[4] < n /\ n < f[5] /\ n \in C /\ n \in 1..N
    BY <1>0, <1>6, <1>8, <1>16
  <2>2. PICK B : B = {m \in F : m < n}
    OBVIOUS
  <2>3. B \subseteq 1..N /\ f[4] \in B
    BY <1>0, <1>7, <1>16, <2>1, <2>2
  <2>4. PICK m \in B : \A y \in B : y <= m
    BY <2>3, LastOf
  <2>5. m \in F /\ m < n /\ m \in 1..N
    BY <1>0, <1>16, <2>2, <2>4
  <2>6. ASSUME NEW x \in C, ~(x <= m), ~(n <= x) PROVE FALSE
    <3>1. x \in 1..N
      BY <1>0
    <3>2. x < f[5] /\ f[4] < x
      <4>1. f[4] <= m
        BY <2>3, <2>4
      <4> QED
        BY <4>1, <3>1, <2>1, <2>5, <2>6, <1>7
    <3>3. idx(s, x) # 0
      BY <1>17, <3>2
    <3>4. idx(s, x) = 4
      <4> SUFFICES ASSUME NEW i \in 1..K, x = f[i] PROVE FALSE
        BY <1>2, <3>1, <3>3
      <4>1. i < 4 => f[i] < f[4]
        BY <1>1, <1>3 DEF Increasing
      <4>2. 5 < i => f[5] < f[i]
        BY <1>1, <1>3 DEF Increasing
      <4>3. i < 4 \/ i = 4 \/ i = 5 \/ 5 < i
        OBVIOUS
      <4>4. f[i] \in Nat
        BY <1>1
      <4> QED
        BY <4>1, <4>2, <4>3, <4>4, <3>2, <1>7
    <3>5. x \in B /\ m \in 1..N
      BY <1>16, <2>2, <2>5, <2>6, <3>1, <3>4, <2>1
    <3>6. x <= m
      BY <2>4, <3>5
    <3> QED
      BY <2>6, <3>6
  <2>7. \A x \in C : x <= m \/ n <= x
    BY <2>6
  <2> QED
    BY <1>5, <2>5, <2>7
<1>9. f[4] \notin A
  <2> SUFFICES ASSUME NEW m \in F, m < f[4] PROVE FALSE
    BY <1>5
  <2>1. m \in Nat
    BY <1>0, <1>16
  <2> QED
    BY <1>6, <1>7, <2>1
<1>10. ASSUME NEW n \in C \ A PROVE n \in {f[i] : i \in 1..K} \cup {m \in C : idx(s, m) = 0}
  <2>1. SUFFICES ASSUME idx(s, n) # 0 PROVE \E i \in 1..K : n = f[i]
    OBVIOUS
  <2>2. n \in F => n = f[4]
    BY <1>8
  <2>3. n \in 1..N /\ (idx(s, n) = 4 => n \in F)
    BY <1>0, <1>16
  <2> QED
    BY <1>2, <1>3, <2>1, <2>2, <2>3
<1>11. ASSUME NEW i \in 1..K PROVE f[i] \in C \ A
  <2>1. f[i] \in F => i = 4
    BY <1>1, <1>16
  <2>2. A \subseteq F
    BY <1>5
  <2> QED
    BY <1>4, <1>9, <2>1, <2>2
<1>12. ASSUME NEW n \in C, idx(s, n) = 0 PROVE n \in C \ A
  BY <1>5, <1>12, <1>16
<1>13. A = Repeats(s, C)
  BY <1>5 DEF Repeats, F
<1>14. C \ A = {f[i] : i \in 1..K} \cup {n \in C : idx(s, n) = 0}
  BY <1>10, <1>11, <1>12
<1> QED
  BY <1>13, <1>14 DEF Kept

\* The kinds of line a log is made of.
Kinds == {"marker", "exit", "failure", "noise", "complete", "vmbad", "start", "fixture", "cycle", "vmfail"}

\* The lines a guest can print.
LEMMA LineIs ==
  ASSUME NEW l \in Line
  PROVE  /\ l.k \in Kinds
         /\ l.k = "marker" => l.m \in Range(MARKERS) /\ l.more \in BOOLEAN
         /\ l.k = "cycle" => l.fields \in Fields /\ l.cycle \in {1, 2}
         /\ l.k = "fixture" => l.cycle \in {1, 2}
         /\ l.k = "marker" <=> indexIn(MARKERS, l) # 0
<1>1. /\ l.k \in Kinds
      /\ l.k = "marker" => l.m \in Range(MARKERS) /\ l.more \in BOOLEAN
      /\ l.k = "cycle" => l.fields \in Fields /\ l.cycle \in {1, 2}
      /\ l.k = "fixture" => l.cycle \in {1, 2}
  <2>1. CASE l \in [k : {"marker"}, m : Range(MARKERS), more : BOOLEAN]
    BY <2>1 DEF Kinds
  <2>2. CASE l \in [k : {"exit"}, code : Nat]
    BY <2>2 DEF Kinds
  <2>3. CASE l \in [k : {"failure", "noise", "complete", "vmbad"}]
    BY <2>3 DEF Kinds
  <2>4. CASE l \in [k : {"start"}, mode : MODES]
    BY <2>4 DEF Kinds
  <2>5. CASE l \in [k : {"fixture"}, cycle : {1, 2}, len : Nat, sha : STRING]
    BY <2>5 DEF Kinds
  <2>6. CASE l \in [k : {"cycle"}, cycle : {1, 2}, stage : STRING, fields : Fields]
    BY <2>6 DEF Kinds
  <2>7. CASE l \in [k : {"vmfail"}, cycle : {1, 2}, stage : STRING, reason : STRING]
    BY <2>7 DEF Kinds
  <2> QED
    BY <2>1, <2>2, <2>3, <2>4, <2>5, <2>6, <2>7 DEF Line
<1>2. l.k = "marker" <=> indexIn(MARKERS, l) # 0
  <2>1. l.k = "marker" => \E i \in 1..18 : l.m = MARKERS[i]
    BY <1>1, MarkersAre DEF Range
  <2>2. indexIn(MARKERS, l) \in 0..18 /\ \A i \in 1..18 : i # 0
    BY IndexIs
  <2>3. \A i \in 1..18 : indexIn(MARKERS, l) = i <=> l.k = "marker" /\ l.m = MARKERS[i]
    BY IndexIs
  <2>4. ASSUME indexIn(MARKERS, l) # 0 PROVE l.k = "marker"
    <3>1. indexIn(MARKERS, l) \in 1..18
      BY <2>2, <2>4
    <3> QED
      BY <2>3, <3>1
  <2>5. ASSUME l.k = "marker" PROVE indexIn(MARKERS, l) # 0
    <3>1. PICK i \in 1..18 : l.m = MARKERS[i]
      BY <2>1, <2>5
    <3>2. indexIn(MARKERS, l) = i
      BY <2>3, <2>5, <3>1
    <3> QED
      BY <3>1, <3>2
  <2> QED
    BY <2>4, <2>5
<1> QED
  BY <1>1, <1>2

\* A log is its lines, by number.
LEMMA LogIs ==
  ASSUME NEW s \in Seq(Line)
  PROVE  /\ Len(s) \in Nat /\ DOMAIN s = 1..Len(s) /\ \A n \in 1..Len(s) : s[n] \in Line
         /\ \A k : At(s, k) = {n \in 1..Len(s) : s[n].k = k}
<1> HIDE DEF Line
<1>1. Len(s) \in Nat /\ DOMAIN s = 1..Len(s) /\ \A n \in 1..Len(s) : s[n] \in Line
  BY LenProperties, ElementOfSeq
<1>2. \A k : At(s, k) = {n \in 1..Len(s) : s[n].k = k}
  BY <1>1 DEF At
<1> QED
  BY <1>1, <1>2

\* The stages a to b spell their names.
LEMMA SpellsStages ==
  ASSUME NEW s, NEW N, NEW K, NEW f, Staged(s, N, K, f), NEW a \in 1..K, NEW b \in a..K
  PROVE  Spells(s, {f[i] : i \in a..b}, b - a + 1, Markers(a, b))
<1>1. /\ K \in 0..18 /\ f \in [1..K -> Nat] /\ Increasing(f, K)
      /\ \A i \in 1..K : f[i] \in 1..N /\ idx(s, f[i]) = i
  BY DEF Staged
<1>2. PICK n : n = b - a + 1 /\ n \in Nat
  BY <1>1
<1>3. PICK p : p = [i \in 1..n |-> f[a + i - 1]]
  OBVIOUS
<1>4. \A i \in 1..n : a + i - 1 \in 1..K
  BY <1>1, <1>2
<1>5. p \in [1..n -> Nat]
  <2>1. \A i \in 1..n : p[i] \in Nat
    BY <1>1, <1>3, <1>4
  <2> QED
    BY <1>3, <2>1
<1>6. Increasing(p, n)
  <2> SUFFICES ASSUME NEW i \in 1..n, NEW j \in 1..n, i < j PROVE p[i] < p[j]
    BY DEF Increasing
  <2>1. a + i - 1 < a + j - 1 /\ a + i - 1 \in 1..K /\ a + j - 1 \in 1..K
    BY <1>2, <1>4
  <2> QED
    BY <1>1, <1>3, <2>1 DEF Increasing
<1>7. {f[i] : i \in a..b} = {p[i] : i \in 1..n}
  <2>1. ASSUME NEW i \in a..b PROVE f[i] \in {p[k] : k \in 1..n}
    <3>1. i - a + 1 \in 1..n /\ a + (i - a + 1) - 1 = i
      BY <1>1, <1>2
    <3> QED
      BY <1>3, <3>1
  <2>2. ASSUME NEW i \in 1..n PROVE p[i] \in {f[k] : k \in a..b}
    <3>1. a + i - 1 \in a..b
      BY <1>1, <1>2
    <3> QED
      BY <1>3, <3>1
  <2> QED
    BY <2>1, <2>2
<1>8. Enumerates(p, n, {f[i] : i \in a..b})
  BY <1>5, <1>6, <1>7 DEF Enumerates
<1>9. PICK t : t = Markers(a, b)
  OBVIOUS
<1>10. t = [i \in 1..n |-> t[i]] /\ \A i \in 1..n : t[i] = <<MARKERS[a + i - 1]>>
  BY <1>2, <1>9 DEF Markers
<1>11. \A i \in 1..n : Skeleton(s[p[i]]) = t[i]
  <2> SUFFICES ASSUME NEW i \in 1..n PROVE Skeleton(s[p[i]]) = t[i]
    OBVIOUS
  <2>1. PICK j \in 1..K : j = a + i - 1 /\ p[i] = f[j]
    BY <1>3, <1>4
  <2>2. j \in 1..18 /\ idx(s, f[j]) = j
    BY <1>1, <2>1
  <2>3. s[p[i]].k = "marker" /\ s[p[i]].m = MARKERS[j]
    BY <2>1, <2>2, IndexIs DEF idx
  <2>4. Skeleton(s[p[i]]) = <<MARKERS[j]>>
    BY <2>3 DEF Skeleton
  <2> QED
    BY <1>10, <2>1, <2>4
<1> QED
  BY <1>2, <1>8, <1>9, <1>10, <1>11 DEF Spells

\* The lines that count for the qualifier of a mode.
Counts(s, mode) ==
  {n \in DOMAIN s : IF mode = "base" THEN s[n].k \in {"marker", "failure", "exit"} ELSE s[n].k # "noise"}

\* Essence is the stages in order and the lines that are no markers, one by one.
LEMMA EssenceIs ==
  ASSUME NEW s, NEW N \in Nat, DOMAIN s = 1..N, NEW mode, NEW K, NEW f, Staged(s, N, K, f), K >= 5,
         Bootstraps(s, N, Counts(s, mode), f),
         NEW n, NEW t,
         Spells(s, Kept(s, Counts(s, mode), K, f), n, t)
  PROVE  LET e == Essence(s, mode) IN
         /\ Skeletons(e) = t /\ DOMAIN e = 1..n /\ Len(e) = n
         /\ \E p : /\ Enumerates(p, n, Kept(s, Counts(s, mode), K, f))
                   /\ \A i \in 1..n : e[i] = s[p[i]]
<1>1. PICK C : C = Counts(s, mode)
  OBVIOUS
<1>3. C \subseteq 1..N
  BY <1>1 DEF Counts
<1>4. PICK I : I = Kept(s, C, K, f)
  OBVIOUS
<1>5. C \ Repeats(s, C) = I
  BY <1>1, <1>4, KeptLines
<1>6. Essence(s, mode) = Selected(s, I)
  BY <1>1, <1>5 DEF Essence, Counts, Repeats, Frozen, idx
<1>7. PICK e : e = Essence(s, mode)
  OBVIOUS
<1>8. Spells(s, I, n, t) /\ n \in Nat
  BY <1>1, <1>4 DEF Spells
<1>9. /\ e = [i \in 1..n |-> e[i]] /\ Skeletons(e) = t
      /\ \E p : Enumerates(p, n, I) /\ \A i \in 1..n : e[i] = s[p[i]]
  BY <1>6, <1>7, <1>8, SpellsSelected
<1>10. DOMAIN e = 1..n /\ Len(e) = n
  BY <1>8, <1>9, SeqLen
<1> QED
  BY <1>1, <1>4, <1>7, <1>9, <1>10

-----------------------------------------------------------------------------
(* parse_serial accepts only a true bootstrap log. *)

\* One exit counted is one exit line, and no marker follows it.
LEMMA OneExit ==
  ASSUME NEW s, NEW N \in Nat, NEW c, NEW x, Counted(s, N, c, x), x[N] = 1,
         \A n \in 1..N : idx(s, n) # 0 => x[n] = 0
  PROVE  \E e \in 1..N : /\ \A n \in 1..N : s[n].k = "exit" <=> n = e
                         /\ \A n \in 1..N : idx(s, n) # 0 => n < e
<1>1. \A m, n \in 0..N : m <= n => x[m] <= x[n]
  BY CountsGrow
<1>2. /\ x[0] = 0 /\ \A n \in 0..N : x[n] \in Nat
      /\ \A n \in 1..N : x[n] = x[n - 1] + (IF s[n].k = "exit" THEN 1 ELSE 0)
  BY DEF Counted
<1>3. \A n \in 1..N : n - 1 \in 0..N /\ n \in 0..N
  OBVIOUS
<1>4. \E e \in 1..N : s[e].k = "exit"
  <2> SUFFICES ASSUME \A n \in 1..N : s[n].k # "exit" PROVE FALSE
    OBVIOUS
  <2> DEFINE S == {n \in 0..N : x[n] = 0}
  <2>1. 0 \in S
    BY <1>2
  <2>2. ASSUME NEW n \in 1..N, n - 1 \in S PROVE n \in S
    BY <1>2, <1>3, <2>2
  <2> HIDE DEF S
  <2>3. \A n \in 0..N : n \in S
    BY <2>1, <2>2, UpTo
  <2>4. x[N] = 0
    BY <2>3 DEF S
  <2> QED
    BY <2>4
<1>5. PICK e \in 1..N : s[e].k = "exit"
  BY <1>4
<1>6. \A a, b \in 1..N : s[a].k = "exit" /\ s[b].k = "exit" => ~(a < b)
  <2> SUFFICES ASSUME NEW a \in 1..N, NEW b \in 1..N, s[a].k = "exit", s[b].k = "exit", a < b PROVE FALSE
    OBVIOUS
  <2>1. x[a] = x[a - 1] + 1 /\ x[b] = x[b - 1] + 1
    BY <1>2
  <2>2. x[a] <= x[b - 1] /\ x[b] <= x[N]
    BY <1>1, <1>3
  <2>3. x[a - 1] \in Nat /\ x[a] \in Nat /\ x[b - 1] \in Nat /\ x[b] \in Nat
    BY <1>2, <1>3
  <2> QED
    BY <2>1, <2>2, <2>3
<1>7. \A n \in 1..N : s[n].k = "exit" <=> n = e
  <2> SUFFICES ASSUME NEW n \in 1..N, s[n].k = "exit" PROVE n = e
    BY <1>5
  <2>1. ~(n < e) /\ ~(e < n)
    BY <1>5, <1>6
  <2> QED
    BY <2>1
<1>8. ASSUME NEW n \in 1..N, idx(s, n) # 0 PROVE n < e
  <2>1. x[n] = 0
    BY <1>8
  <2>2. x[e] = x[e - 1] + 1 /\ x[e - 1] \in Nat
    BY <1>2, <1>3, <1>5
  <2>3. e <= n => x[e] <= x[n]
    BY <1>1, <1>3
  <2> QED
    BY <2>1, <2>2, <2>3
<1> QED
  BY <1>7, <1>8

\* A log without errors is the bootstrap's own.
THEOREM BootstrapGenuine ==
  ASSUME NEW s \in Seq(Line), parse_serial(s).transcript_errors = {}
  PROVE  Genuine(s, "base")
<1>1. PICK N : N = Len(s) /\ N \in Nat
  BY LogIs
<1>2. DOMAIN s = 1..N /\ \A n \in 1..N : s[n] \in Line
  BY <1>1, LogIs
<1>3. PICK c, x : Counted(s, N, c, x) /\ Means(s, N, c, x, {})
  BY <1>1, ParseMeans
<1>4. /\ \A n \in 1..N : s[n].k # "failure"
      /\ \A n \in 1..N : s[n].k = "exit" => s[n].code = 10
      /\ \A n \in 1..N : idx(s, n) \in {0, c[n - 1] + 1} \/ (idx(s, n) = 4 /\ c[n - 1] = 4)
      /\ \A n \in 1..N : idx(s, n) # 0 => x[n] = 0
      /\ c[N] = 18 /\ x[N] = 1
  BY <1>3 DEF Means
<1>5. PICK f : Staged(s, N, 18, f)
  BY <1>1, <1>3, <1>4, StagesInOrder
<1>6. PICK e \in 1..N : /\ \A n \in 1..N : s[n].k = "exit" <=> n = e
                        /\ \A n \in 1..N : idx(s, n) # 0 => n < e
  BY <1>1, <1>3, <1>4, OneExit
<1>7. PICK C : C = Counts(s, "base")
  OBVIOUS
<1>8. \A n \in 1..N : n \in C <=> idx(s, n) # 0 \/ n = e
  <2> SUFFICES ASSUME NEW n \in 1..N PROVE n \in C <=> idx(s, n) # 0 \/ n = e
    OBVIOUS
  <2>1. s[n].k = "marker" <=> idx(s, n) # 0
    BY <1>2, LineIs DEF idx
  <2>2. n \in C <=> s[n].k \in {"marker", "failure", "exit"}
    BY <1>2, <1>7 DEF Counts
  <2> QED
    BY <1>4, <1>6, <2>1, <2>2
<1>9. C \subseteq 1..N
  BY <1>2, <1>7 DEF Counts
<1>10. \A i \in 1..18 : f[i] \in 1..N /\ idx(s, f[i]) # 0
  <2>1. \A i \in 1..18 : f[i] \in 1..N /\ idx(s, f[i]) = i
    BY <1>5 DEF Staged
  <2>2. \A i \in 1..18 : i # 0
    OBVIOUS
  <2> QED
    BY <2>1, <2>2
<1>11. idx(s, e) = 0
  <2>1. s[e].k = "marker" <=> idx(s, e) # 0
    BY <1>2, LineIs DEF idx
  <2> QED
    BY <1>6, <2>1
<1>12. Bootstraps(s, N, C, f)
  <2>1. f[5] < e
    <3>1. 5 \in 1..18
      OBVIOUS
    <3> QED
      BY <1>6, <1>10, <3>1
  <2>2. f[5] \in 1..N
    BY <1>10
  <2> QED
    BY <1>8, <1>9, <2>1, <2>2 DEF Bootstraps
<1>13. Kept(s, C, 18, f) = {f[i] : i \in 1..18} \cup {e}
  <2>1. {n \in C : idx(s, n) = 0} = {e}
    BY <1>8, <1>9, <1>11
  <2> QED
    BY <2>1 DEF Kept
<1>14. Spells(s, {f[i] : i \in 1..18}, 18, Markers(1, 18))
  <2>1. PICK K : K = 18
    OBVIOUS
  <2>2. 1 \in 1..K /\ K \in 1..K /\ K - 1 + 1 = K
    BY <2>1
  <2>3. Staged(s, N, K, f)
    BY <1>5, <2>1
  <2>4. Spells(s, {f[i] : i \in 1..K}, K - 1 + 1, Markers(1, K))
    BY <2>2, <2>3, SpellsStages
  <2> QED
    BY <2>1, <2>2, <2>4
<1>15. Spells(s, {e}, 1, <<<<"exit", 10>>>>)
  <2>1. Skeleton(s[e]) = <<"exit", 10>>
    BY <1>4, <1>6 DEF Skeleton
  <2> QED
    BY <1>1, <2>1, SpellsOne
<1>16. Spells(s, Kept(s, C, 18, f), 19, Markers(1, 18) \o <<<<"exit", 10>>>>)
  <2>1. \A a \in {f[i] : i \in 1..18}, b \in {e} : a < b
    BY <1>6, <1>10
  <2>2. PICK I, t, u : I = {f[i] : i \in 1..18} /\ t = Markers(1, 18) /\ u = <<<<"exit", 10>>>>
    OBVIOUS
  <2>3. Spells(s, I \cup {e}, 18 + 1, t \o u)
    BY <1>14, <1>15, <2>1, <2>2, SpellsJoin
  <2> QED
    <3>1. 18 + 1 = 19
      OBVIOUS
    <3> QED
      BY <1>13, <2>2, <2>3, <3>1
<1>17. PICK t, es : t = Markers(1, 18) \o <<<<"exit", 10>>>> /\ es = Essence(s, "base")
  OBVIOUS
<1>18. Skeletons(es) = t
  <2>1. PICK K, n, mode : K = 18 /\ n = 19 /\ mode = "base"
    OBVIOUS
  <2>2. Spells(s, Kept(s, Counts(s, mode), K, f), n, t) /\ K >= 5
    BY <1>7, <1>16, <1>17, <2>1
  <2>3. Staged(s, N, K, f) /\ Bootstraps(s, N, Counts(s, mode), f) /\ DOMAIN s = 1..N /\ N \in Nat
    BY <1>1, <1>2, <1>5, <1>7, <1>12, <2>1
  <2>4. Skeletons(Essence(s, mode)) = t
    BY <2>2, <2>3, EssenceIs
  <2> QED
    BY <1>17, <2>1, <2>4
<1> QED
  BY <1>17, <1>18 DEF Skeletons, Genuine, TrueLog

-----------------------------------------------------------------------------
(* The registers of a cycle (transcript_vm.py), check by check. *)

-----------------------------------------------------------------------------
(* Registers. *)

\* The fields of a stage that the fault and pair checks read are numbers.
LEMMA FieldsIs ==
  ASSUME NEW f \in Fields
  PROVE  /\ f.shape = "pair" => f \in [shape : {"pair"}, expected : Nat, observed : Nat]
         /\ f.shape = "fault" => f.gen \in Nat /\ f.rip \in Nat
<1>1. CASE f \in [shape : {"pair"}, expected : Nat, observed : Nat]
  BY <1>1
<1>2. CASE f \in [shape : {"fault"}, pfec : Nat, cr2 : Nat, rip : Nat, gen : Nat]
  BY <1>2
<1>3. CASE f \in [shape : {"control"}, cr3 : Nat, rflags : Nat, cr0 : Nat, cr4 : Nat, efer : Nat, pmm : PmmStats]
  BY <1>3
<1>4. CASE f \in [shape : {"template"}, root : Nat, pdpt0 : Nat]
  BY <1>4
<1>5. CASE f \in [shape : {"construct"}, owned : Nat, image : Nat, stack : Nat, tables : Nat, root : Nat]
  BY <1>5
<1>6. CASE f \in [shape : {"walk"}, image_pts : Nat, stack_pts : Nat, rx : Nat, rx1 : Nat, ro : Nat, rw : Nat]
  BY <1>6
<1>7. CASE f \in [shape : {"destroy"}, pmm : PmmStats] \cup [shape : {"content", "bad"}]
  BY <1>7
<1> QED
  BY <1>1, <1>2, <1>3, <1>4, <1>5, <1>6, <1>7 DEF Fields

\* The fields of the stages of a cycle.
IsCycle(f) ==
  /\ DOMAIN f \subseteq Range(CYCLE_STAGES)
  /\ {"control", "template", "construct", "walk", "switch"} \subseteq DOMAIN f
  /\ \A st \in DOMAIN f : f[st] \in Fields

\* No check of check_cycle finds anything.
Clean(f, first, full) ==
  /\ check_fields(f, full) = {}
  /\ has(f, "control") => check_control(f, first) = {}
  /\ has(f, "template") => check_template(f, first) = {}
  /\ has(f, "construct") => check_construct(f, full) = {}
  /\ has(f, "walk") => check_walk(f) = {}
  /\ \A i \in parsed_faults(f) : check_fault(i, f[FAULTS[i]]) = {}

\* SHAPE and FAULTS of transcript_vm.py: the thirteen stages of a cycle and what each prints.
LEMMA ShapesAre ==
  /\ DOMAIN SHAPE = Range(CYCLE_STAGES)
  /\ SHAPE["control"] = "control" /\ SHAPE["template"] = "template"
  /\ SHAPE["construct"] = "construct" /\ SHAPE["walk"] = "walk" /\ SHAPE["switch"] = "pair"
  /\ SHAPE["restore"] = "pair" /\ SHAPE["destroy"] = "destroy"
  /\ \A i \in 1..5 : SHAPE[FAULTS[i]] = "fault"
  /\ Range(CYCLE_STAGES) =
       {"control", "template", "construct", "walk", "switch", "content", "fault-ro", "fault-nx",
        "fault-guard", "fault-top", "restore", "absent", "destroy"}
  /\ Range(FAULTS) = {"fault-ro", "fault-nx", "fault-guard", "fault-top", "absent"}
<1>1. Range(CYCLE_STAGES) =
       {"control", "template", "construct", "walk", "switch", "content", "fault-ro", "fault-nx",
        "fault-guard", "fault-top", "restore", "absent", "destroy"}
  <2>1. DOMAIN CYCLE_STAGES = 1..13
    BY DEF CYCLE_STAGES
  <2>2. \A i \in 1..13 : i \in {1, 2, 3, 4, 5, 6, 7, 8, 9, 10, 11, 12, 13}
    OBVIOUS
  <2> QED
    BY <2>1, <2>2 DEF Range, CYCLE_STAGES
<1>2. Range(FAULTS) = {"fault-ro", "fault-nx", "fault-guard", "fault-top", "absent"} /\ DOMAIN FAULTS = 1..5
  <2>1. DOMAIN FAULTS = 1..5
    BY DEF FAULTS
  <2>2. \A i \in 1..5 : i \in {1, 2, 3, 4, 5}
    OBVIOUS
  <2> QED
    BY <2>1, <2>2 DEF Range, FAULTS
<1>3. PICK R, F : R = Range(CYCLE_STAGES) /\ F = Range(FAULTS)
  OBVIOUS
<1>4. SHAPE = [s \in R |-> IF s \in F THEN "fault" ELSE IF s \in {"switch", "restore"} THEN "pair" ELSE s]
  BY <1>3 DEF SHAPE
<1>5. \A i \in 1..5 : FAULTS[i] \in F
  BY <1>2, <1>3 DEF Range
<1> QED
  BY <1>1, <1>2, <1>3, <1>4, <1>5

\* What a stage's fields must be when the check finds nothing.
LEMMA CleanShapes ==
  ASSUME NEW f, IsCycle(f), NEW first, NEW full, Clean(f, first, full)
  PROVE  /\ \A st \in DOMAIN f : has(f, st) /\ f[st].shape = SHAPE[st]
         /\ has(f, "control") /\ has(f, "template") /\ has(f, "construct") /\ has(f, "walk")
         /\ has(f, "switch")
<1>1. \A st \in DOMAIN f \cap DOMAIN SHAPE : has(f, st)
  <2>1. PICK r : r = [required |-> \A st \in {"control", "construct", "walk", "switch", "template"} :
                                     st \in DOMAIN f \/ full => has(f, st),
                      shape    |-> \A st \in DOMAIN f \cap DOMAIN SHAPE : has(f, st)]
    OBVIOUS
  <2>2. Broken(r) = {}
    BY <2>1 DEF Clean, check_fields
  <2>3. r.shape
    BY <2>1, <2>2 DEF Broken
  <2> QED
    BY <2>1, <2>3
<1>2. DOMAIN f \subseteq DOMAIN SHAPE
  BY ShapesAre DEF IsCycle
<1> QED
  BY <1>1, <1>2 DEF has, IsCycle

\* The machine and what it was when the run began.
LEMMA ControlTrue ==
  ASSUME NEW f, NEW first, NEW o, check_control(f, first) = {}, o = f \/ (has(first, "control") /\ o = first)
  PROVE  LET ctl == f["control"] IN
         /\ Profile(ctl) /\ ctl.pmm.total = ctl.pmm.free + ctl.pmm.used
         /\ ctl.pmm = o["control"].pmm /\ ctl.cr3 = o["control"].cr3
         /\ frame_ok(Addr(o["control"].cr3))
         /\ has(f, "template") => f["template"].root = Addr(ctl.cr3)
         /\ has(f, "restore") => f["restore"].expected = ctl.cr3 /\ f["restore"].observed = ctl.cr3
         /\ has(f, "destroy") => f["destroy"].pmm = o["control"].pmm
<1>1. PICK ctl : ctl = f["control"]
  OBVIOUS
<1>2. PICK r : r =
        [irq_masked  |-> ~Bit(ctl.rflags, RFLAGS_IF),
         wp_nxe      |-> Bit(ctl.cr0, CR0_WP) /\ Bit(ctl.efer, EFER_NXE),
         cr4         |-> \A b \in CR4_UNSUPPORTED : ~Bit(ctl.cr4, b),
         accounting  |-> ctl.pmm.total = ctl.pmm.free + ctl.pmm.used,
         root_frame  |-> frame_ok(Addr(ctl.cr3)),
         template    |-> has(f, "template") => f["template"].root = Addr(ctl.cr3),
         run_stats   |-> has(first, "control") => ctl.pmm = first["control"].pmm,
         run_cr3     |-> has(first, "control") => ctl.cr3 = first["control"].cr3,
         restored    |-> has(f, "restore") =>
                           /\ f["restore"].expected = f["restore"].observed
                           /\ f["restore"].expected = ctl.cr3,
         destroyed   |-> has(f, "destroy") =>
                           /\ f["destroy"].pmm = ctl.pmm
                           /\ has(first, "control") =>
                                f["destroy"].pmm = first["control"].pmm]
  BY ZenonT(60)
<1>3. Broken(r) = {}
  BY <1>1, <1>2 DEF check_control
<1>4. \A e \in {"irq_masked", "wp_nxe", "cr4", "accounting", "root_frame", "template", "run_stats", "run_cr3",
                "restored", "destroyed"} : r[e]
  BY <1>2, <1>3 DEF Broken
<1>5. /\ r.irq_masked /\ r.wp_nxe /\ r.cr4 /\ r.accounting /\ r.root_frame /\ r.template /\ r.run_stats
      /\ r.run_cr3 /\ r.restored /\ r.destroyed
  BY <1>4
<1>6. /\ ~Bit(ctl.rflags, RFLAGS_IF) /\ Bit(ctl.cr0, CR0_WP) /\ Bit(ctl.efer, EFER_NXE)
      /\ \A b \in CR4_UNSUPPORTED : ~Bit(ctl.cr4, b)
      /\ ctl.pmm.total = ctl.pmm.free + ctl.pmm.used
      /\ frame_ok(Addr(ctl.cr3))
      /\ has(f, "template") => f["template"].root = Addr(ctl.cr3)
  BY <1>2, <1>5
<1>7. /\ has(first, "control") => ctl.pmm = first["control"].pmm
      /\ has(first, "control") => ctl.cr3 = first["control"].cr3
      /\ has(f, "restore") => f["restore"].expected = f["restore"].observed /\ f["restore"].expected = ctl.cr3
      /\ has(f, "destroy") => f["destroy"].pmm = ctl.pmm
  BY <1>2, <1>5
<1> QED
  BY <1>1, <1>6, <1>7 DEF Profile

\* When _check_template (transcript_vm.py) finds nothing, the first table is present, borrowed from
\* the kernel, supervisor-only, and that of the first cycle but for the accessed and dirty bits.
LEMMA TemplateTrue ==
  ASSUME NEW f, NEW first, NEW o, check_template(f, first) = {}, has(f, "control"),
         o = f \/ (has(first, "template") /\ o = first)
  PROVE  LET pdpt == f["template"].pdpt0 IN
         /\ frame_ok(Addr(pdpt)) /\ Addr(pdpt) # Addr(f["control"].cr3) /\ Bit(pdpt, PTE_P)
         /\ ~Bit(pdpt, PTE_U) /\ ~Bit(pdpt, PTE_PS)
         /\ WithoutAD(pdpt) = WithoutAD(o["template"].pdpt0)
<1>1. PICK pdpt : pdpt = f["template"].pdpt0
  OBVIOUS
<1>2. check_borrowed_pdpt(pdpt, f) = {}
  BY <1>1 DEF check_template
<1>3. /\ frame_ok(Addr(pdpt)) /\ Bit(pdpt, PTE_P) /\ ~Bit(pdpt, PTE_U) /\ ~Bit(pdpt, PTE_PS)
      /\ frame_ok(Addr(pdpt)) /\ has(f, "control") => Addr(pdpt) # Addr(f["control"].cr3)
  <2>1. PICK r : r =
          [present    |-> Bit(pdpt, PTE_P),
           supervisor |-> ~Bit(pdpt, PTE_U),
           not_huge   |-> ~Bit(pdpt, PTE_PS),
           pdpt_frame |-> frame_ok(Addr(pdpt)),
           pdpt_alias |-> frame_ok(Addr(pdpt)) /\ has(f, "control") =>
                            Addr(pdpt) # Addr(f["control"].cr3)]
    OBVIOUS
  <2>2. Broken(r) = {}
    BY <1>2, <2>1 DEF check_borrowed_pdpt
  <2>3. r.present /\ r.supervisor /\ r.not_huge /\ r.pdpt_frame /\ r.pdpt_alias
    BY <2>1, <2>2 DEF Broken
  <2> QED
    BY <2>1, <2>3
<1>4. has(first, "template") => WithoutAD(pdpt) = WithoutAD(first["template"].pdpt0)
  <2>1. PICK r : r =
          [run_root |-> has(first, "template") => f["template"].root = first["template"].root,
           run_pdpt |-> has(first, "template") => WithoutAD(pdpt) = WithoutAD(first["template"].pdpt0)]
    OBVIOUS
  <2>2. Broken(r) = {}
    BY <1>1, <2>1 DEF check_template
  <2>3. r.run_pdpt
    BY <2>1, <2>2 DEF Broken
  <2> QED
    BY <2>1, <2>3
<1> QED
  BY <1>1, <1>3, <1>4

\* Four names of four things.
LEMMA FourApart ==
  ASSUME NEW a, NEW b, NEW c, NEW d, Cardinality({a, b, c, d}) = 4
  PROVE  a # b /\ a # c /\ a # d /\ b # c /\ b # d /\ c # d
<1>1. \A x, y, z : Cardinality({x, y, z}) <= 3 /\ Cardinality({x, y, z}) \in Nat
  <2> SUFFICES ASSUME NEW x, NEW y, NEW z PROVE Cardinality({x, y, z}) <= 3 /\ Cardinality({x, y, z}) \in Nat
    OBVIOUS
  <2>1. IsFiniteSet({}) /\ Cardinality({}) = 0
    BY FS_EmptySet
  <2>2. PICK A : A = {} \cup {x}
    OBVIOUS
  <2>3. IsFiniteSet(A) /\ Cardinality(A) \in {0, 1}
    BY <2>1, <2>2, FS_AddElement
  <2>4. PICK B : B = A \cup {y}
    OBVIOUS
  <2>5. IsFiniteSet(B) /\ Cardinality(B) \in {0, 1, 2}
    BY <2>3, <2>4, FS_AddElement
  <2>6. PICK C : C = B \cup {z}
    OBVIOUS
  <2>7. Cardinality(C) \in {0, 1, 2, 3}
    BY <2>5, <2>6, FS_AddElement
  <2>8. C = {x, y, z}
    BY <2>2, <2>4, <2>6
  <2> QED
    BY <2>7, <2>8
<1>2. a = b => {a, b, c, d} = {b, c, d}
  OBVIOUS
<1>3. a = c => {a, b, c, d} = {b, c, d}
  OBVIOUS
<1>4. a = d => {a, b, c, d} = {b, c, d}
  OBVIOUS
<1>5. b = c => {a, b, c, d} = {a, c, d}
  OBVIOUS
<1>6. b = d => {a, b, c, d} = {a, c, d}
  OBVIOUS
<1>7. c = d => {a, b, c, d} = {a, b, d}
  OBVIOUS
<1>8. \A x, y, z : Cardinality({x, y, z}) # 4
  BY <1>1
<1> QED
  BY  <1>2, <1>3, <1>4, <1>5, <1>6, <1>7, <1>8

\* When _check_construct (transcript_vm.py) finds nothing, the address space owns exactly its 26
\* frames under a private root, and the switch went to that root.
LEMMA ConstructTrue ==
  ASSUME NEW f, NEW full \in BOOLEAN, check_construct(f, full) = {}, has(f, "control"), has(f, "switch")
  PROVE  LET con == f["construct"] IN
         /\ con.owned = 26 /\ con.image = 4 /\ con.stack = 16 /\ con.tables = 6
         /\ frame_ok(con.root) /\ con.root # Addr(f["control"].cr3)
         /\ f["switch"].expected = con.root
         /\ full => f["switch"].observed = con.root
<1>1. PICK con : con = f["construct"]
  OBVIOUS
<1>2. PICK r : r =
        [budgets      |-> con.owned = 26 /\ con.image = 4 /\ con.stack = 16 /\ con.tables = 6,
         owned        |-> con.owned = con.image + con.stack + con.tables,
         private_root |-> frame_ok(con.root),
         not_original |-> has(f, "control") => con.root # Addr(f["control"].cr3),
         switch_root  |-> has(f, "switch") => f["switch"].expected = con.root,
         switched     |-> has(f, "switch") /\ full => f["switch"].expected = f["switch"].observed]
  OBVIOUS
<1>3. Broken(r) = {}
  BY <1>1, <1>2 DEF check_construct
<1>4. r.budgets /\ r.private_root /\ r.not_original /\ r.switch_root /\ r.switched
  BY <1>2, <1>3 DEF Broken
<1> QED
  BY <1>1, <1>2, <1>4

\* When _check_walk (transcript_vm.py) finds nothing, the root and the four leaves are five
\* different page frames.
LEMMA WalkTrue ==
  ASSUME NEW f, check_walk(f) = {}, has(f, "construct"), frame_ok(f["construct"].root)
  PROVE  LET w      == f["walk"]
             frames == <<f["construct"].root, w.rx, w.rx1, w.ro, w.rw>> IN
         /\ w.image_pts = 2 /\ w.stack_pts = 1
         /\ IsInjective(frames) /\ \A x \in Range(frames) : frame_ok(x)
<1>1. PICK w : w = f["walk"]
  OBVIOUS
<1>2. PICK leaves : leaves = {w.rx, w.rx1, w.ro, w.rw}
  OBVIOUS
<1>3. PICK r : r =
        [tables      |-> w.image_pts = 2 /\ w.stack_pts = 1,
         distinct    |-> Cardinality(leaves) = 4,
         leaf_frames |-> \A leaf \in leaves : frame_ok(leaf),
         leaf_alias  |-> has(f, "construct") => f["construct"].root \notin leaves]
  OBVIOUS
<1>4. Broken(r) = {}
  BY <1>1, <1>2, <1>3 DEF check_walk
<1>5. r.tables /\ r.distinct /\ r.leaf_frames /\ r.leaf_alias
  BY <1>3, <1>4 DEF Broken
<1>6. PICK a, b, c, d, root : a = w.rx /\ b = w.rx1 /\ c = w.ro /\ d = w.rw /\ root = f["construct"].root
  OBVIOUS
<1>7. a # b /\ a # c /\ a # d /\ b # c /\ b # d /\ c # d
  <2>1. Cardinality({a, b, c, d}) = 4
    BY <1>2, <1>3, <1>5, <1>6
  <2> QED
    BY <2>1, FourApart
<1>8. root # a /\ root # b /\ root # c /\ root # d
  BY <1>2, <1>3, <1>5, <1>6
<1>9. frame_ok(a) /\ frame_ok(b) /\ frame_ok(c) /\ frame_ok(d) /\ frame_ok(root)
  BY <1>2, <1>3, <1>5, <1>6
<1>10. PICK fr : fr = <<root, a, b, c, d>>
  OBVIOUS
<1>11. DOMAIN fr = 1..5 /\ fr[1] = root /\ fr[2] = a /\ fr[3] = b /\ fr[4] = c /\ fr[5] = d
  BY <1>10
<1>12. \A i \in 1..5 : i \in {1, 2, 3, 4, 5}
  OBVIOUS
<1>13. IsInjective(fr)
  <2> SUFFICES ASSUME NEW i \in 1..5, NEW j \in 1..5, fr[i] = fr[j] PROVE i = j
    BY <1>11 DEF IsInjective
  <2>1. i \in {1, 2, 3, 4, 5} /\ j \in {1, 2, 3, 4, 5}
    BY <1>12
  <2> QED
    BY <2>1, <1>7, <1>8, <1>11
<1>14. \A x \in Range(fr) : frame_ok(x)
  BY <1>9, <1>11, <1>12 DEF Range
<1> QED
  BY <1>1, <1>3, <1>5, <1>6, <1>10, <1>13, <1>14

\* When _check_fault (transcript_vm.py) finds nothing, the fault is of its kind, at its address,
\* and was taken from where it had to be.
LEMMA FaultTrue ==
  ASSUME NEW i \in 1..5, NEW f \in Fields, f.shape = "fault", check_fault(i, f) = {}
  PROVE  /\ f.pfec = PFEC[i] /\ f.cr2 = FAULT_CR2[i] /\ f.gen > 0
         /\ f.rip \in IF i = 2 THEN {FAULT_CR2[2]} ELSE KERNEL_LO..(KERNEL_HI - 1)
<1>1. f.gen \in Nat /\ f.rip \in Nat
  BY FieldsIs
<1>2. PICK r : r =
        [pfec |-> f.pfec = PFEC[i],
         cr2  |-> f.cr2 = FAULT_CR2[i],
         gen  |-> f.gen # 0,
         rip  |-> IF FAULTS[i] = "fault-nx" THEN f.rip = FAULT_CR2[i]
                                             ELSE KERNEL_LO <= f.rip /\ f.rip < KERNEL_HI]
  OBVIOUS
<1>3. Broken(r) = {}
  BY <1>2 DEF check_fault
<1>4. r.pfec /\ r.cr2 /\ r.gen /\ r.rip
  BY <1>2, <1>3 DEF Broken
<1>5. FAULTS[i] = "fault-nx" <=> i = 2
  <2>1. i \in {1, 2, 3, 4, 5}
    OBVIOUS
  <2> QED
    BY <2>1 DEF FAULTS
<1>6. f.rip \in IF i = 2 THEN {FAULT_CR2[2]} ELSE KERNEL_LO..(KERNEL_HI - 1)
  <2>1. CASE i = 2
    BY <1>2, <1>4, <1>5, <2>1
  <2>2. CASE i # 2
    <3>1. KERNEL_LO <= f.rip /\ f.rip < KERNEL_HI
      BY <1>2, <1>4, <1>5, <2>2
    <3>2. f.rip \in KERNEL_LO..(KERNEL_HI - 1)
      <4>1. KERNEL_LO \in Int /\ KERNEL_HI \in Int
        BY SMT DEF KERNEL_LO, KERNEL_HI
      <4> QED
        BY <1>1, <3>1, <4>1
    <3> QED
      BY <2>2, <3>2
  <2> QED
    BY <2>1, <2>2
<1>7. f.pfec = PFEC[i] /\ f.cr2 = FAULT_CR2[i] /\ f.gen # 0
  BY <1>2, <1>4
<1>8. f.gen > 0
  BY <1>1, <1>7
<1> QED
  BY <1>6, <1>7, <1>8

-----------------------------------------------------------------------------

\* The faults a cycle shows, one after the other.
Later(f) ==
  \A i, j \in {k \in DOMAIN FAULTS : FAULTS[k] \in DOMAIN f} :
    i < j => f[FAULTS[i]].gen < f[FAULTS[j]].gen

\* A cycle that is clean is a true one.
LEMMA CycleTrue ==
  ASSUME NEW f, IsCycle(f), NEW first, NEW full \in BOOLEAN, Clean(f, first, full),
         NEW o, o = f \/ (has(first, "control") /\ has(first, "template") /\ o = first),
         NEW mode,
         f["switch"].observed = (IF mode = "skip-switch" THEN Addr(f["control"].cr3)
                                                         ELSE f["construct"].root),
         Later(f)
  PROVE  TrueCycle(f, o, mode)
<1>1. /\ \A st \in DOMAIN f : has(f, st) /\ f[st].shape = SHAPE[st]
      /\ has(f, "control") /\ has(f, "template") /\ has(f, "construct") /\ has(f, "walk")
      /\ has(f, "switch")
  BY CleanShapes
<1>2. /\ check_control(f, first) = {} /\ check_template(f, first) = {}
      /\ check_construct(f, full) = {} /\ check_walk(f) = {}
  BY <1>1 DEF Clean
<1>3. PICK ctl, con, w, pdpt : ctl = f["control"] /\ con = f["construct"] /\ w = f["walk"]
                               /\ pdpt = f["template"].pdpt0
  OBVIOUS
<1>4. PICK kernel : kernel = Addr(o["control"].cr3)
  OBVIOUS
<1>5. /\ Profile(ctl) /\ ctl.pmm.free + ctl.pmm.used = ctl.pmm.total
      /\ ctl.pmm = o["control"].pmm /\ ctl.cr3 = o["control"].cr3 /\ frame_ok(kernel)
      /\ f["template"].root = Addr(ctl.cr3)
      /\ has(f, "restore") => f["restore"].expected = ctl.cr3 /\ f["restore"].observed = ctl.cr3
      /\ has(f, "destroy") => f["destroy"].pmm = o["control"].pmm
  <2>1. o = f \/ (has(first, "control") /\ o = first)
    OBVIOUS
  <2>2. /\ Profile(ctl) /\ ctl.pmm.total = ctl.pmm.free + ctl.pmm.used
        /\ ctl.pmm = o["control"].pmm /\ ctl.cr3 = o["control"].cr3 /\ frame_ok(kernel)
        /\ has(f, "template") => f["template"].root = Addr(ctl.cr3)
        /\ has(f, "restore") => f["restore"].expected = ctl.cr3 /\ f["restore"].observed = ctl.cr3
        /\ has(f, "destroy") => f["destroy"].pmm = o["control"].pmm
    BY <1>2, <1>3, <1>4, <2>1, ControlTrue
  <2> QED
    BY <1>1, <2>2
<1>6. kernel = Addr(ctl.cr3)
  BY <1>4, <1>5
<1>7. /\ frame_ok(Addr(pdpt)) /\ Addr(pdpt) # kernel /\ Bit(pdpt, PTE_P)
      /\ ~Bit(pdpt, PTE_U) /\ ~Bit(pdpt, PTE_PS)
      /\ WithoutAD(pdpt) = WithoutAD(o["template"].pdpt0)
  BY <1>1, <1>2, <1>3, <1>6, TemplateTrue
<1>8. /\ con.owned = 26 /\ con.image = 4 /\ con.stack = 16 /\ con.tables = 6
      /\ frame_ok(con.root) /\ kernel # con.root /\ f["switch"].expected = con.root
  BY <1>1, <1>2, <1>3, <1>6, ConstructTrue
<1>9. PICK frames : frames = <<con.root, w.rx, w.rx1, w.ro, w.rw>>
  OBVIOUS
<1>10. /\ w.image_pts = 2 /\ w.stack_pts = 1
       /\ IsInjective(frames) /\ \A x \in Range(frames) : frame_ok(x)
  BY <1>1, <1>2, <1>3, <1>8, <1>9, WalkTrue
<1>11. f["switch"] = [shape |-> "pair", expected |-> con.root,
                      observed |-> IF mode = "skip-switch" THEN kernel ELSE con.root]
  <2>1. f["switch"].shape = "pair" /\ f["switch"] \in Fields
    BY <1>1, ShapesAre DEF IsCycle
  <2>2. f["switch"] \in [shape : {"pair"}, expected : Nat, observed : Nat]
    BY <2>1, FieldsIs
  <2>3. f["switch"].observed = IF mode = "skip-switch" THEN kernel ELSE con.root
    BY <1>3, <1>6
  <2> QED
    BY <1>8, <2>1, <2>2, <2>3
<1>12. "restore" \in DOMAIN f => {f["restore"].expected, f["restore"].observed} = {ctl.cr3}
  BY <1>1, <1>5
<1>13. "destroy" \in DOMAIN f => f["destroy"].pmm = o["control"].pmm
  BY <1>1, <1>5
<1>14. DOMAIN FAULTS = 1..5
  BY DEF FAULTS
<1>15. ASSUME NEW i \in 1..5, FAULTS[i] \in DOMAIN f
       PROVE  LET g == f[FAULTS[i]] IN
              /\ g.pfec = PFEC[i] /\ g.cr2 = FAULT_CR2[i] /\ g.gen > 0
              /\ g.rip \in IF i = 2 THEN {FAULT_CR2[2]} ELSE KERNEL_LO..(KERNEL_HI - 1)
  <2>1. PICK g : g = f[FAULTS[i]]
    OBVIOUS
  <2>2. g \in Fields /\ g.shape = "fault" /\ i \in parsed_faults(f)
    BY <1>1, <1>14, <1>15, <2>1, ShapesAre DEF IsCycle, parsed_faults
  <2>3. check_fault(i, g) = {}
    BY <2>1, <2>2 DEF Clean
  <2> QED
    BY <2>1, <2>2, <2>3, FaultTrue
<1>16. f["template"].root = kernel
  BY <1>5, <1>6
<1>17. <<con.owned, con.image, con.stack, con.tables>> = <<26, 4, 16, 6>> /\ <<w.image_pts, w.stack_pts>> = <<2, 1>>
  BY <1>8, <1>10
<1>18. \A i \in {k \in DOMAIN FAULTS : FAULTS[k] \in DOMAIN f} :
         /\ f[FAULTS[i]].pfec = PFEC[i] /\ f[FAULTS[i]].cr2 = FAULT_CR2[i] /\ f[FAULTS[i]].gen > 0
         /\ f[FAULTS[i]].rip \in IF i = 2 THEN {FAULT_CR2[2]} ELSE KERNEL_LO..(KERNEL_HI - 1)
  BY <1>14, <1>15
<1>19. \A i, j \in {k \in DOMAIN FAULTS : FAULTS[k] \in DOMAIN f} :
         i < j => f[FAULTS[i]].gen < f[FAULTS[j]].gen
  BY DEF Later
<1> HIDE DEF Later
<1> QED
  BY <1>1, <1>3, <1>4, <1>5, <1>7, <1>8, <1>9, <1>10, <1>11, <1>12, <1>13, <1>16, <1>17, <1>18, <1>19
     DEF TrueCycle

-----------------------------------------------------------------------------
(* The lines of a cycle. *)

\* The last of a set of lines.
LEMMA MaxIs ==
  ASSUME NEW N \in Nat, NEW S, S \subseteq 1..N, S # {}
  PROVE  Max(S) \in S /\ \A y \in S : y <= Max(S)
<1>0. \A y \in S : y \in Nat
  OBVIOUS
<1>1. PICK n \in S : \A m \in S : m <= n
  BY LastOf
<1>2. \A y \in S : n >= y
  BY <1>0, <1>1
<1>3. Max(S) \in S /\ \A y \in S : Max(S) >= y
  BY <1>2 DEF Max
<1> QED
  BY <1>0, <1>3

\* The first of a set of lines.
LEMMA MinIs ==
  ASSUME NEW S, S \subseteq Nat, S # {}
  PROVE  Min(S) \in S /\ \A y \in S : Min(S) <= y
<1>1. PICK n \in S : \A m \in S : n <= m
  BY LeastNat
<1>2. Min(S) \in S /\ \A y \in S : Min(S) <= y
  BY <1>1 DEF Min
<1> QED
  BY <1>2

\* The only line of a set is its first and its last.
LEMMA MinMaxOne ==
  ASSUME NEW a \in Nat
  PROVE  Min({a}) = a /\ Max({a}) = a
BY DEF Min, Max

\* Selected goes through the lines of a set.
LEMMA SelectedAll ==
  ASSUME NEW s, NEW N \in Nat, NEW I, I \subseteq 1..N, NEW k, k = Cardinality(I)
  PROVE  /\ k \in Nat /\ Selected(s, I) = [i \in 1..k |-> s[nth(I, i)]]
         /\ DOMAIN Selected(s, I) = 1..k
         /\ \A i \in 1..k : nth(I, i) \in I /\ Selected(s, I)[i] = s[nth(I, i)]
         /\ \A m \in I : \E i \in 1..k : nth(I, i) = m
         /\ \A i, j \in 1..k : i < j => nth(I, i) < nth(I, j)
<1>1. PICK p : p = [i \in 1..k |-> nth(I, i)]
  OBVIOUS
<1>2. k \in Nat /\ Enumerates(p, k, I)
  BY <1>1, NthEnumerates
<1>3. I = {p[i] : i \in 1..k} /\ \A i, j \in 1..k : i < j => p[i] < p[j]
  BY <1>2 DEF Enumerates, Increasing
<1>4. \A m \in I : \E i \in 1..k : nth(I, i) = m
  BY <1>1, <1>3
<1>5. \A i \in 1..k : nth(I, i) \in I
  BY <1>1, <1>3
<1>6. Selected(s, I) = [i \in 1..k |-> s[nth(I, i)]]
  BY DEF Selected
<1> QED
  BY <1>1, <1>2, <1>3, <1>4, <1>5, <1>6

\* What is spelt, line by line.
LEMMA SpellsIf ==
  ASSUME NEW s, NEW N \in Nat, NEW I, I \subseteq 1..N, NEW n \in Nat, NEW t, t = [i \in 1..n |-> t[i]],
         Cardinality(I) = n, \A i \in 1..n : Skeleton(Selected(s, I)[i]) = t[i]
  PROVE  Spells(s, I, n, t)
<1>1. PICK p : p = [i \in 1..n |-> nth(I, i)]
  OBVIOUS
<1>2. Enumerates(p, n, I)
  BY <1>1, NthEnumerates
<1>3. \A i \in 1..n : Selected(s, I)[i] = s[nth(I, i)]
  BY SelectedAll
<1>4. \A i \in 1..n : Skeleton(s[p[i]]) = t[i]
  BY <1>1, <1>3
<1> QED
  BY <1>2, <1>4 DEF Spells

-----------------------------------------------------------------------------
(* The fields of a cycle. *)

\* The stage lines of a cycle are cycle lines of that cycle.
LEMMA StagesAtIs ==
  ASSUME NEW s \in Seq(Line), NEW c
  PROVE  /\ StagesAt(s, c) \subseteq 1..Len(s)
         /\ \A n \in StagesAt(s, c) : s[n].k = "cycle" /\ s[n].cycle = c /\ s[n].fields \in Fields
<1>1. At(s, "cycle") = {n \in 1..Len(s) : s[n].k = "cycle"}
  BY LogIs
<1>2. \A n \in 1..Len(s) : s[n] \in Line
  BY LogIs
<1>3. \A n \in 1..Len(s) : s[n].k = "cycle" => s[n].fields \in Fields
  BY <1>2, LineIs
<1> QED
  BY <1>1, <1>3 DEF StagesAt

\* The stage names of a cycle, in the order of the log.
LEMMA NamesAre ==
  ASSUME NEW s \in Seq(Line), NEW c, NEW I, I = StagesAt(s, c), NEW k, k = Cardinality(I)
  PROVE  /\ k \in Nat /\ StageNames(s, c) = [i \in 1..k |-> s[nth(I, i)].stage]
         /\ DOMAIN StageNames(s, c) = 1..k
         /\ {s[n].stage : n \in I} = Range(StageNames(s, c))
<1>1. PICK N : N = Len(s) /\ N \in Nat /\ I \subseteq 1..N
  BY StagesAtIs, LogIs
<1>2. PICK st : st = Selected(s, I)
  OBVIOUS
<1>3. /\ k \in Nat /\ DOMAIN st = 1..k
      /\ \A i \in 1..k : nth(I, i) \in I /\ st[i] = s[nth(I, i)]
      /\ \A m \in I : \E i \in 1..k : nth(I, i) = m
  BY <1>1, <1>2, SelectedAll
<1>4. PICK t : t = StageNames(s, c)
  OBVIOUS
<1>5. t = [i \in DOMAIN st |-> st[i].stage]
  BY <1>2, <1>4 DEF StageNames
<1>6. t = [i \in 1..k |-> s[nth(I, i)].stage]
  BY <1>3, <1>5
<1>7. {s[n].stage : n \in I} = Range(t)
  BY <1>3, <1>6 DEF Range
<1> QED
  BY <1>3, <1>4, <1>6, <1>7

\* by_cycle (transcript_vm.py): the fields of each stage of a cycle, those of its own line when no
\* stage is repeated.
LEMMA ByCycleIs ==
  ASSUME NEW s \in Seq(Line), NEW c
  PROVE  LET f == by_cycle(s, c) IN
         /\ DOMAIN f = Range(StageNames(s, c))
         /\ \A st \in DOMAIN f : f[st] \in Fields
         /\ IsInjective(StageNames(s, c)) =>
              \A n \in StagesAt(s, c) : f[s[n].stage] = s[n].fields
<1>1. PICK I, N : I = StagesAt(s, c) /\ N = Len(s) /\ N \in Nat /\ I \subseteq 1..N
  BY StagesAtIs, LogIs
<1>2. PICK f : f = by_cycle(s, c)
  OBVIOUS
<1>3. PICK k : k = Cardinality(I)
  OBVIOUS
<1>4. /\ k \in Nat /\ StageNames(s, c) = [i \in 1..k |-> s[nth(I, i)].stage]
      /\ DOMAIN StageNames(s, c) = 1..k
      /\ {s[n].stage : n \in I} = Range(StageNames(s, c))
  BY <1>1, <1>3, NamesAre
<1>5. PICK D : D = {s[n].stage : n \in I}
  OBVIOUS
<1>6. f = [st \in D |-> s[Max({n \in I : s[n].stage = st})].fields]
  BY <1>1, <1>2, <1>5 DEF by_cycle
<1>7. ASSUME NEW st \in D
      PROVE  Max({n \in I : s[n].stage = st}) \in {n \in I : s[n].stage = st}
  <2>1. PICK S : S = {n \in I : s[n].stage = st}
    OBVIOUS
  <2>2. S \subseteq 1..N /\ S # {}
    BY <1>1, <1>5, <1>7, <2>1
  <2>3. Max(S) \in S
    BY <1>1, <2>2, MaxIs
  <2> QED
    BY <2>1, <2>3
<1>8. \A n \in I : s[n].fields \in Fields
  BY <1>1, StagesAtIs
<1>9. \A st \in D : f[st] \in Fields
  BY <1>6, <1>7, <1>8
<1>10. ASSUME IsInjective(StageNames(s, c)), NEW n \in I PROVE f[s[n].stage] = s[n].fields
  <2>1. PICK st : st = s[n].stage
    OBVIOUS
  <2>2. PICK m : m = Max({l \in I : s[l].stage = st})
    OBVIOUS
  <2>3. m \in I /\ s[m].stage = st /\ st \in D
    BY <1>5, <1>7, <2>1, <2>2
  <2>4. m = n
    <3>1. \A a \in I : \E i \in 1..k : nth(I, i) = a
      BY <1>1, <1>3, SelectedAll
    <3>2. PICK i \in 1..k, j \in 1..k : nth(I, i) = m /\ nth(I, j) = n
      BY <2>3, <3>1
    <3>3. StageNames(s, c)[i] = st /\ StageNames(s, c)[j] = st
      BY <1>4, <2>1, <2>3, <3>2
    <3>4. i = j
      BY <1>4, <1>10, <3>2, <3>3 DEF IsInjective
    <3> QED
      BY <3>2, <3>4
  <2> QED
    BY <1>6, <2>1, <2>2, <2>3, <2>4
<1> QED
  BY <1>1, <1>2, <1>4, <1>5, <1>6, <1>9, <1>10

-----------------------------------------------------------------------------
(* The registers of a whole log. *)

\* When _check_cycle (transcript_vm.py) finds nothing, the stages are those of a cycle and every
\* check on their fields finds nothing.
LEMMA CheckCycleClean ==
  ASSUME NEW s, NEW c, NEW first, NEW full \in BOOLEAN, check_cycle(s, c, first, full) = {}
  PROVE  (full => StageNames(s, c) = CYCLE_STAGES) /\ Clean(by_cycle(s, c), first, full)
<1>1. PICK f : f = by_cycle(s, c)
  OBVIOUS
<1>2. ~(full /\ StageNames(s, c) # CYCLE_STAGES)
  BY DEF check_cycle
<1>3. UNION {check_fields(f, full),
             IF has(f, "control") THEN check_control(f, first) ELSE {},
             IF has(f, "template") THEN check_template(f, first) ELSE {},
             IF has(f, "construct") THEN check_construct(f, full) ELSE {},
             IF has(f, "walk") THEN check_walk(f) ELSE {},
             UNION {check_fault(i, f[FAULTS[i]]) : i \in parsed_faults(f)}} = {}
  BY <1>1, <1>2 DEF check_cycle
<1>4. \A X : (\A x \in X : x \subseteq {}) \/ UNION X # {}
  OBVIOUS
<1>5. \A x \in {check_fields(f, full),
             IF has(f, "control") THEN check_control(f, first) ELSE {},
             IF has(f, "template") THEN check_template(f, first) ELSE {},
             IF has(f, "construct") THEN check_construct(f, full) ELSE {},
             IF has(f, "walk") THEN check_walk(f) ELSE {},
             UNION {check_fault(i, f[FAULTS[i]]) : i \in parsed_faults(f)}} : x = {}
  BY <1>3, <1>4
<1>6. /\ check_fields(f, full) = {}
      /\ has(f, "control") => check_control(f, first) = {}
      /\ has(f, "template") => check_template(f, first) = {}
      /\ has(f, "construct") => check_construct(f, full) = {}
      /\ has(f, "walk") => check_walk(f) = {}
      /\ UNION {check_fault(i, f[FAULTS[i]]) : i \in parsed_faults(f)} = {}
  BY <1>5
<1>7. \A i \in parsed_faults(f) : check_fault(i, f[FAULTS[i]]) = {}
  BY <1>6
<1> QED
  BY <1>1, <1>2, <1>6, <1>7 DEF Clean

\* What check_cycle_semantics holds against a log.
LEMMA SemanticsClean ==
  ASSUME NEW s, NEW full \in BOOLEAN, check_cycle_semantics(s, full) = {},
         NEW first, first = compared(s, 1, full),
         NEW second, second = IF full THEN compared(s, 2, full) ELSE NoFields
  PROVE  /\ \A c \in {1, 2} : IsInjective(StageNames(s, c))
         /\ full => [i \in DOMAIN Fixtures(s) |-> Fixtures(s)[i].cycle] = <<1, 2>>
         /\ \A i \in DOMAIN Fixtures(s) : /\ Fixtures(s)[i].len = FIXTURE_LEN
                                          /\ Fixtures(s)[i].sha = FIXTURE_SHA256[Fixtures(s)[i].cycle]
         /\ increasing(generations(first) \o generations(second))
         /\ Clean(by_cycle(s, 1), NoFields, full)
         /\ full => /\ StageNames(s, 1) = CYCLE_STAGES /\ StageNames(s, 2) = CYCLE_STAGES
                    /\ Clean(by_cycle(s, 2), by_cycle(s, 1), TRUE)
                    /\ first = by_cycle(s, 1) /\ second = by_cycle(s, 2)
<1>1. PICK fx : fx = Fixtures(s)
  OBVIOUS
<1>2. PICK r : r =
        [duplicated  |-> \A c \in {1, 2} : IsInjective(StageNames(s, c)),
         fixtures    |-> IF full THEN [i \in DOMAIN fx |-> fx[i].cycle] = <<1, 2>>
                                 ELSE fx # << >> => fx[1].cycle = 1,
         fixture_len |-> \A i \in DOMAIN fx : fx[i].len = FIXTURE_LEN,
         fixture_sha |-> \A i \in DOMAIN fx : fx[i].sha = FIXTURE_SHA256[fx[i].cycle],
         increasing  |-> increasing(generations(first) \o generations(second))]
  OBVIOUS
<1>3. check_cycle_semantics(s, full) =
        Broken(r) \cup check_cycle(s, 1, NoFields, full)
                  \cup (IF full THEN check_cycle(s, 2, first, full) ELSE {})
  BY <1>1, <1>2 DEF check_cycle_semantics
<1>4. /\ Broken(r) = {} /\ check_cycle(s, 1, NoFields, full) = {}
      /\ full => check_cycle(s, 2, first, full) = {}
  BY <1>3
<1>5. r.duplicated /\ r.fixtures /\ r.fixture_len /\ r.fixture_sha /\ r.increasing
  BY <1>2, <1>4 DEF Broken
<1>6. (full => StageNames(s, 1) = CYCLE_STAGES) /\ Clean(by_cycle(s, 1), NoFields, full)
  BY <1>4, CheckCycleClean
<1>7. full => StageNames(s, 2) = CYCLE_STAGES /\ Clean(by_cycle(s, 2), first, full)
  BY <1>4, CheckCycleClean
<1>8. full => first = by_cycle(s, 1) /\ second = by_cycle(s, 2)
  BY <1>6, <1>7 DEF compared
<1>9. full => full = TRUE
  OBVIOUS
<1>10. \A c \in {1, 2} : IsInjective(StageNames(s, c))
  BY <1>2, <1>5
<1>11. full => [i \in DOMAIN fx |-> fx[i].cycle] = <<1, 2>>
  BY <1>2, <1>5
<1>12. \A i \in DOMAIN fx : fx[i].len = FIXTURE_LEN /\ fx[i].sha = FIXTURE_SHA256[fx[i].cycle]
  BY <1>2, <1>5
<1>13. increasing(generations(first) \o generations(second))
  BY <1>2, <1>5
<1>14. full => Clean(by_cycle(s, 2), by_cycle(s, 1), TRUE)
  BY <1>7, <1>8, <1>9
<1> QED
  BY <1>1, <1>6, <1>7, <1>8, <1>10, <1>11, <1>12, <1>13, <1>14

\* The generations of a cycle that shows every fault.
LEMMA AllFaults ==
  ASSUME NEW f, \A i \in 1..5 : has(f, FAULTS[i])
  PROVE  generations(f) = [i \in 1..5 |-> f[FAULTS[i]].gen]
<1>1. parsed_faults(f) = 1..5
  <2>1. DOMAIN FAULTS = 1..5
    BY DEF FAULTS
  <2> QED
    BY <2>1 DEF parsed_faults
<1>2. PICK p : p = [i \in 1..5 |-> i]
  OBVIOUS
<1>3. Enumerates(p, 5, 1..5)
  <2>1. p \in [1..5 -> Nat] /\ 1..5 = {p[i] : i \in 1..5}
    BY <1>2
  <2>2. Increasing(p, 5)
    BY <1>2 DEF Increasing
  <2> QED
    BY <2>1, <2>2 DEF Enumerates
<1>4. PICK I, k : I = 1..5 /\ k = 5
  OBVIOUS
<1>5. Enumerates(p, k, I) /\ k \in Nat
  BY <1>3, <1>4
<1>6. Cardinality(I) = k /\ \A i \in 1..k : nth(I, i) = p[i]
  BY <1>5, PlaceIsRank
<1>7. parsed_faults(f) = I
  BY <1>1, <1>4
<1>8. generations(f) = [i \in 1..Cardinality(I) |-> f[FAULTS[nth(I, i)]].gen]
  BY <1>7 DEF generations
<1>9. \A i \in 1..5 : nth(I, i) = i
  BY <1>2, <1>4, <1>6
<1> QED
  BY <1>4, <1>6, <1>8, <1>9

\* When the generations of two cycles grow as one list, each list grows and the second starts
\* after the end of the first.
LEMMA TwoIncrease ==
  ASSUME NEW m \in Nat \ {0}, NEW a \in [1..m -> Nat], NEW b \in [1..m -> Nat], increasing(a \o b)
  PROVE  Increasing(a, m) /\ Increasing(b, m) /\ a[m] < b[1]
<1>0. PICK w : w = a \o b
  OBVIOUS
<1>1. PICK n : n = m + m /\ n \in Nat
  OBVIOUS
<1>2. IsList(a, m) /\ IsList(b, m)
  BY DEF IsList
<1>3. (\A i \in 1..m : w[i] = a[i]) /\ (\A i \in 1..m : w[i + m] = b[i]) /\ Len(w) = n
  <2>1. Joins(w, a, m, b, m)
    BY <1>0, <1>2, ConcatAt
  <2> QED
    BY <1>1, <2>1 DEF Joins
<1>5. \A i \in 1..(n - 1) : w[i] < w[i + 1]
  BY <1>0, <1>3 DEF increasing
<1>6. \A i \in 1..(m - 1) : a[i] < a[i + 1]
  <2> SUFFICES ASSUME NEW i \in 1..(m - 1) PROVE a[i] < a[i + 1]
    OBVIOUS
  <2>1. i \in 1..(n - 1) /\ i \in 1..m /\ i + 1 \in 1..m
    BY <1>1
  <2> QED
    BY <1>3, <1>5, <2>1
<1>7. \A i \in 1..(m - 1) : b[i] < b[i + 1]
  <2> SUFFICES ASSUME NEW i \in 1..(m - 1) PROVE b[i] < b[i + 1]
    OBVIOUS
  <2>1. i + m \in 1..(n - 1) /\ (i + m) + 1 = (i + 1) + m /\ i \in 1..m /\ i + 1 \in 1..m
    BY <1>1
  <2>2. w[i + m] < w[(i + 1) + m]
    BY <1>5, <2>1
  <2> QED
    BY <1>3, <2>1, <2>2
<1>8. a[m] < b[1]
  <2>1. m \in 1..(n - 1) /\ m \in 1..m /\ 1 \in 1..m /\ m + 1 = 1 + m
    BY <1>1
  <2>2. w[m] < w[1 + m]
    BY <1>5, <2>1
  <2> QED
    BY <1>3, <2>1, <2>2
<1> QED
  BY <1>6, <1>7, <1>8, StepsIncrease

\* One fault after the other, over both cycles.
LEMMA FaultsIncrease ==
  ASSUME NEW f, NEW g, \A i \in 1..5 : has(f, FAULTS[i]) /\ has(g, FAULTS[i]),
         \A i \in 1..5 : f[FAULTS[i]].gen \in Nat /\ g[FAULTS[i]].gen \in Nat,
         increasing(generations(f) \o generations(g))
  PROVE  Later(f) /\ Later(g) /\ f["absent"].gen < g["fault-ro"].gen
<1>1. PICK a, b : a = generations(f) /\ b = generations(g)
  OBVIOUS
<1>2. a = [i \in 1..5 |-> f[FAULTS[i]].gen] /\ b = [i \in 1..5 |-> g[FAULTS[i]].gen]
  BY <1>1, AllFaults
<1>3. a \in [1..5 -> Nat] /\ b \in [1..5 -> Nat] /\ 5 \in Nat \ {0}
  BY <1>2
<1>4. Increasing(a, 5) /\ Increasing(b, 5) /\ a[5] < b[1]
  BY <1>1, <1>3, TwoIncrease
<1>5. DOMAIN FAULTS = 1..5 /\ FAULTS[5] = "absent" /\ FAULTS[1] = "fault-ro"
  BY DEF FAULTS
<1>6. Later(f) /\ Later(g)
  BY <1>2, <1>4, <1>5 DEF Later, Increasing
<1>7. f["absent"].gen < g["fault-ro"].gen
  BY <1>2, <1>4, <1>5
<1> QED
  BY <1>6, <1>7

\* The registers of a log that passes the checks of a positive run.
LEMMA PositiveRegisters ==
  ASSUME NEW s \in Seq(Line), check_cycle_semantics(s, TRUE) = {}
  PROVE  TrueRegisters(s, "positive")
<1>1. PICK f, g : f = by_cycle(s, 1) /\ g = by_cycle(s, 2)
  OBVIOUS
<1>2. PICK first, second : first = compared(s, 1, TRUE) /\ second = IF TRUE THEN compared(s, 2, TRUE) ELSE NoFields
  OBVIOUS
<1>3. /\ increasing(generations(f) \o generations(g))
      /\ Clean(f, NoFields, TRUE) /\ Clean(g, f, TRUE)
      /\ StageNames(s, 1) = CYCLE_STAGES /\ StageNames(s, 2) = CYCLE_STAGES
  <2>1. TRUE \in BOOLEAN
    OBVIOUS
  <2>2. /\ increasing(generations(first) \o generations(second)) /\ first = f /\ second = g
        /\ Clean(f, NoFields, TRUE) /\ Clean(g, f, TRUE)
        /\ StageNames(s, 1) = CYCLE_STAGES /\ StageNames(s, 2) = CYCLE_STAGES
    BY <1>1, <1>2, <2>1, SemanticsClean
  <2> QED
    BY <2>2
<1>4. /\ DOMAIN f = Range(CYCLE_STAGES) /\ \A st \in DOMAIN f : f[st] \in Fields
      /\ DOMAIN g = Range(CYCLE_STAGES) /\ \A st \in DOMAIN g : g[st] \in Fields
  BY <1>1, <1>3, ByCycleIs
<1>5. IsCycle(f) /\ IsCycle(g)
  BY <1>4, ShapesAre DEF IsCycle
<1>6. /\ \A st \in DOMAIN f : has(f, st) /\ f[st].shape = SHAPE[st]
      /\ has(f, "control") /\ has(f, "template") /\ has(f, "construct") /\ has(f, "walk")
      /\ has(f, "switch")
  BY <1>3, <1>5, CleanShapes
<1>7. /\ \A st \in DOMAIN g : has(g, st) /\ g[st].shape = SHAPE[st]
      /\ has(g, "control") /\ has(g, "template") /\ has(g, "construct") /\ has(g, "walk")
      /\ has(g, "switch")
  BY <1>3, <1>5, CleanShapes
<1>8. ASSUME NEW i \in 1..5
      PROVE  /\ has(f, FAULTS[i]) /\ has(g, FAULTS[i])
             /\ f[FAULTS[i]].gen \in Nat /\ g[FAULTS[i]].gen \in Nat
  <2>1. FAULTS[i] \in Range(CYCLE_STAGES) /\ SHAPE[FAULTS[i]] = "fault"
    <3>1. DOMAIN FAULTS = 1..5
      BY DEF FAULTS
    <3>2. FAULTS[i] \in Range(FAULTS)
      BY <3>1 DEF Range
    <3> QED
      BY <3>2, ShapesAre
  <2>2. f[FAULTS[i]] \in Fields /\ f[FAULTS[i]].shape = "fault" /\ g[FAULTS[i]] \in Fields /\ g[FAULTS[i]].shape = "fault"
    BY <1>4, <1>6, <1>7, <2>1
  <2> QED
    BY <1>4, <1>6, <1>7, <2>1, <2>2, FieldsIs
<1>9. Later(f) /\ Later(g) /\ f["absent"].gen < g["fault-ro"].gen
  BY <1>3, <1>8, FaultsIncrease
<1>10. f["switch"].observed = f["construct"].root /\ g["switch"].observed = g["construct"].root
  <2>1. check_construct(f, TRUE) = {} /\ check_construct(g, TRUE) = {} /\ TRUE \in BOOLEAN
    BY <1>3, <1>6, <1>7 DEF Clean
  <2> QED
    BY <1>6, <1>7, <2>1, ConstructTrue
<1>11. PICK full, mode : full = TRUE /\ full \in BOOLEAN /\ mode = "positive"
  OBVIOUS
<1>12. TrueCycle(f, f, mode)
  <2>1. f["switch"].observed = (IF mode = "skip-switch" THEN Addr(f["control"].cr3) ELSE f["construct"].root)
    BY <1>10, <1>11
  <2>2. Clean(f, NoFields, full)
    BY <1>3, <1>11
  <2> QED
    BY <1>5, <1>9, <1>11, <2>1, <2>2, CycleTrue
<1>13. TrueCycle(g, f, mode)
  <2>1. g["switch"].observed = (IF mode = "skip-switch" THEN Addr(g["control"].cr3) ELSE g["construct"].root)
    BY <1>10, <1>11
  <2>2. Clean(g, f, full) /\ has(f, "control") /\ has(f, "template")
    BY <1>3, <1>6, <1>11
  <2> QED
    BY <1>5, <1>9, <1>11, <2>1, <2>2, CycleTrue
<1> QED
  BY <1>1, <1>9, <1>11, <1>12, <1>13 DEF TrueRegisters

\* The stages a negative artifact reaches before it fails: five or six.
LEMMA RequiredAre ==
  ASSUME NEW mode \in {"skip-switch", "writable-ro"}, NEW n, n = (IF mode = "skip-switch" THEN 5 ELSE 6)
  PROVE  /\ required_stages(mode) = [i \in 1..n |-> CYCLE_STAGES[i]]
         /\ Range(required_stages(mode)) =
              {"control", "template", "construct", "walk", "switch"}
                \cup (IF mode = "skip-switch" THEN {} ELSE {"content"})
<1>1. CASE mode = "skip-switch"
  <2>1. PICK t : t = required_stages(mode)
    OBVIOUS
  <2>2. t = [i \in 1..5 |-> CYCLE_STAGES[i]]
    BY <1>1, <2>1 DEF required_stages, CYCLE_STAGES
  <2>3. \A i \in 1..5 : i \in {1, 2, 3, 4, 5}
    OBVIOUS
  <2>4. Range(t) = {"control", "template", "construct", "walk", "switch"}
    <3>1. DOMAIN t = 1..5
      BY <2>2
    <3>2. t[1] = "control" /\ t[2] = "template" /\ t[3] = "construct" /\ t[4] = "walk" /\ t[5] = "switch"
      BY <2>2 DEF CYCLE_STAGES
    <3> QED
      BY <2>3, <3>1, <3>2 DEF Range
  <2> QED
    BY <1>1, <2>1, <2>2, <2>4
<1>2. CASE mode = "writable-ro"
  <2>1. PICK t : t = required_stages(mode)
    OBVIOUS
  <2>2. t = [i \in 1..6 |-> CYCLE_STAGES[i]]
    BY <1>2, <2>1 DEF required_stages, CYCLE_STAGES
  <2>3. \A i \in 1..6 : i \in {1, 2, 3, 4, 5, 6}
    OBVIOUS
  <2>4. Range(t) = {"control", "template", "construct", "walk", "switch", "content"}
    <3>1. DOMAIN t = 1..6
      BY <2>2
    <3>2. t[1] = "control" /\ t[2] = "template" /\ t[3] = "construct" /\ t[4] = "walk" /\ t[5] = "switch" /\ t[6] = "content"
      BY <2>2 DEF CYCLE_STAGES
    <3> QED
      BY <2>3, <3>1, <3>2 DEF Range
  <2> QED
    BY <1>2, <2>1, <2>2, <2>4
<1> QED
  BY <1>1, <1>2

\* The first line of a stage is the only one.
LEMMA FirstOfIs ==
  ASSUME NEW s \in Seq(Line), IsInjective(StageNames(s, 1)), NEW st \in DOMAIN by_cycle(s, 1)
  PROVE  first_of(s, st) = by_cycle(s, 1)[st]
<1>1. PICK A : A = {n \in StagesAt(s, 1) : s[n].stage = st}
  OBVIOUS
<1>2. A \subseteq Nat /\ A # {}
  <2>1. StagesAt(s, 1) \subseteq 1..Len(s) /\ Len(s) \in Nat
    BY StagesAtIs, LogIs
  <2>2. st \in {s[n].stage : n \in StagesAt(s, 1)}
    BY ByCycleIs, NamesAre
  <2> QED
    BY <1>1, <2>1, <2>2
<1>3. Min(A) \in A
  BY <1>2, MinIs
<1>4. first_of(s, st) = s[Min(A)].fields
  BY <1>1, <1>2 DEF first_of
<1>5. Min(A) \in StagesAt(s, 1) /\ s[Min(A)].stage = st
  BY <1>1, <1>3
<1>6. by_cycle(s, 1)[s[Min(A)].stage] = s[Min(A)].fields
  BY <1>5, ByCycleIs
<1> QED
  BY <1>4, <1>5, <1>6

\* The registers of a log that passes the checks of a negative run.
LEMMA NegativeRegisters ==
  ASSUME NEW s \in Seq(Line), NEW mode \in {"skip-switch", "writable-ro"},
         check_cycle_semantics(s, FALSE) = {}, StageNames(s, 1) = required_stages(mode),
         mode = "skip-switch" => check_skip_switch_observed(s) = {},
         mode # "skip-switch" => check_writable_ro_observed(s) = {}
  PROVE  TrueRegisters(s, mode)
<1>1. PICK f, full : f = by_cycle(s, 1) /\ full = FALSE /\ full \in BOOLEAN
  OBVIOUS
<1>2. PICK first, second : first = compared(s, 1, full) /\ second = IF full THEN compared(s, 2, full) ELSE NoFields
  OBVIOUS
<1>3. Clean(f, NoFields, full) /\ \A c \in {1, 2} : IsInjective(StageNames(s, c))
  <2>1. check_cycle_semantics(s, full) = {}
    BY <1>1
  <2> QED
    BY <1>1, <1>2, <2>1, SemanticsClean
<1>4. IsInjective(StageNames(s, 1))
  BY <1>3
<1>5. DOMAIN f = Range(required_stages(mode)) /\ \A st \in DOMAIN f : f[st] \in Fields
  BY <1>1, ByCycleIs
<1>6. DOMAIN f = {"control", "template", "construct", "walk", "switch"}
                   \cup (IF mode = "skip-switch" THEN {} ELSE {"content"})
  BY <1>5, RequiredAre
<1>7. IsCycle(f)
  BY <1>5, <1>6, ShapesAre DEF IsCycle
<1>8. /\ has(f, "control") /\ has(f, "construct") /\ has(f, "switch")
      /\ f["control"].shape = "control" /\ f["switch"].shape = "pair"
  BY <1>3, <1>7, CleanShapes, ShapesAre DEF has
<1>9. check_construct(f, full) = {}
  BY <1>3, <1>8 DEF Clean
<1>10. f["switch"].expected = f["construct"].root
  BY <1>1, <1>8, <1>9, ConstructTrue
<1>11. first_of(s, "switch") = f["switch"] /\ first_of(s, "control") = f["control"]
  <2>1. "switch" \in DOMAIN f /\ "control" \in DOMAIN f
    BY <1>6
  <2> QED
    BY <1>1, <1>4, <2>1, FirstOfIs
<1>12. f["switch"].observed = (IF mode = "skip-switch" THEN Addr(f["control"].cr3) ELSE f["construct"].root)
  <2>1. CASE mode = "skip-switch"
    <3>1. PICK sw, ctl : sw = f["switch"] /\ ctl = f["control"]
      OBVIOUS
    <3>2. PICK r : r = [readback     |-> sw.expected # sw.observed,
                        not_original |-> sw.observed = Addr(ctl.cr3)]
      OBVIOUS
    <3>3. sw.shape = "pair" /\ ctl.shape = "control" /\ sw = first_of(s, "switch") /\ ctl = first_of(s, "control")
      BY <1>8, <1>11, <3>1
    <3>4. frame_ok(sw.observed)
      BY <2>1, <3>3 DEF check_skip_switch_observed
    <3>5. check_skip_switch_observed(s) = Broken(r)
      BY <3>2, <3>3, <3>4 DEF check_skip_switch_observed
    <3>6. r.not_original
      BY <2>1, <3>2, <3>5 DEF Broken
    <3> QED
      BY <2>1, <3>1, <3>2, <3>6
  <2>2. CASE mode # "skip-switch"
    <3>1. PICK sw : sw = f["switch"]
      OBVIOUS
    <3>2. PICK r : r = [readback |-> sw.shape = "pair" /\ sw.expected = sw.observed]
      OBVIOUS
    <3>3. Broken(r) = {}
      BY <1>11, <2>2, <3>1, <3>2 DEF check_writable_ro_observed
    <3>4. r.readback
      BY <3>2, <3>3 DEF Broken
    <3> QED
      BY <1>10, <2>2, <3>1, <3>2, <3>4
  <2> QED
    BY <2>1, <2>2
<1>13. Later(f)
  <2>1. \A k \in DOMAIN FAULTS : FAULTS[k] \in {"fault-ro", "fault-nx", "fault-guard", "fault-top", "absent"}
    BY ShapesAre DEF Range
  <2>2. \A k \in DOMAIN FAULTS : FAULTS[k] \notin DOMAIN f
    BY <1>6, <2>1
  <2> QED
    BY <2>2 DEF Later
<1>14. TrueCycle(f, f, mode)
  BY <1>1, <1>3, <1>7, <1>12, <1>13, CycleTrue
<1> QED
  BY <1>1, <1>14 DEF TrueRegisters

-----------------------------------------------------------------------------
(* The events of a log and what they stand for. *)

\* Pieces put together in either grouping.
Associates(a, b, c) == (a \o b) \o c = a \o (b \o c)

\* Pieces of a log are put together in any grouping.
LEMMA ConcatAssoc ==
  ASSUME NEW a, NEW l, IsList(a, l), NEW b, NEW m, IsList(b, m), NEW c, NEW n, IsList(c, n)
  PROVE  Associates(a, b, c)
<1>0. l \in Nat /\ m \in Nat /\ n \in Nat
  BY DEF IsList
<1>1. PICK ab, bc, x, y : ab = a \o b /\ bc = b \o c /\ x = ab \o c /\ y = a \o bc
  OBVIOUS
<1>2. Joins(ab, a, l, b, m) /\ Joins(bc, b, m, c, n)
  BY <1>1, ConcatAt
<1>3. IsList(ab, l + m) /\ IsList(bc, m + n)
  BY <1>2 DEF Joins
<1>4. Joins(x, ab, l + m, c, n) /\ Joins(y, a, l, bc, m + n)
  BY <1>1, <1>3, ConcatAt
<1>5. x = [i \in 1..(l + m + n) |-> x[i]] /\ y = [i \in 1..(l + m + n) |-> y[i]]
  <2>1. (l + m) + n = l + m + n /\ l + (m + n) = l + m + n
    BY <1>0
  <2> QED
    BY <1>4, <2>1 DEF Joins, IsList
<1>6. ASSUME NEW i \in 1..(l + m + n) PROVE x[i] = y[i]
  <2>1. CASE i <= l
    <3>1. i \in 1..l /\ i \in 1..(l + m)
      BY <1>0, <2>1
    <3> QED
      BY <1>2, <1>4, <3>1 DEF Joins
  <2>2. CASE ~(i <= l) /\ i <= l + m
    <3>1. PICK j : j = i - l /\ j \in 1..m /\ i = j + l /\ j \in 1..(m + n) /\ i \in 1..(l + m)
      BY <1>0, <2>2
    <3>2. y[j + l] = bc[j] /\ bc[j] = b[j]
      BY <1>2, <1>4, <3>1 DEF Joins
    <3>3. x[i] = ab[i] /\ ab[j + l] = b[j]
      BY <1>2, <1>4, <3>1 DEF Joins
    <3> QED
      BY <3>1, <3>2, <3>3
  <2>3. CASE ~(i <= l + m)
    <3>1. PICK j : j = i - (l + m) /\ j \in 1..n /\ i = j + (l + m) /\ j + m \in 1..(m + n) /\ i = (j + m) + l
      BY <1>0, <2>3
    <3>2. y[(j + m) + l] = bc[j + m] /\ bc[j + m] = c[j]
      BY <1>2, <1>4, <3>1 DEF Joins
    <3>3. x[j + (l + m)] = c[j]
      BY <1>4, <3>1 DEF Joins
    <3> QED
      BY <3>1, <3>2, <3>3
  <2> QED
    BY <2>1, <2>2, <2>3
<1>7. x = y
  BY <1>5, <1>6
<1> QED
  BY <1>1, <1>7 DEF Associates

\* A line that is the event w[i] has the skeleton t[i].
Renders(s, I, w, t, n) ==
  /\ IsList(w, n) /\ IsList(t, n)
  /\ \A i \in 1..n, m \in I : event(s[m]) = w[i] => Skeleton(s[m]) = t[i]

\* What renders two pieces renders the whole.
LEMMA RendersJoin ==
  ASSUME NEW s, NEW I, NEW w, NEW t, NEW n, Renders(s, I, w, t, n),
         NEW v, NEW u, NEW k, Renders(s, I, v, u, k)
  PROVE  Renders(s, I, w \o v, t \o u, n + k)
<1>0. n \in Nat /\ k \in Nat /\ IsList(w, n) /\ IsList(t, n) /\ IsList(v, k) /\ IsList(u, k)
  BY DEF Renders, IsList
<1>1. PICK x, y : x = w \o v /\ y = t \o u
  OBVIOUS
<1>2. Joins(x, w, n, v, k) /\ Joins(y, t, n, u, k)
  BY <1>0, <1>1, ConcatAt
<1>3. ASSUME NEW i \in 1..(n + k), NEW m \in I, event(s[m]) = x[i] PROVE Skeleton(s[m]) = y[i]
  <2>1. CASE i <= n
    <3>1. i \in 1..n
      BY <1>0, <2>1
    <3>2. x[i] = w[i] /\ y[i] = t[i]
      BY <1>2, <3>1 DEF Joins
    <3> QED
      BY <1>3, <3>1, <3>2 DEF Renders
  <2>2. CASE ~(i <= n)
    <3>1. PICK j : j = i - n /\ j \in 1..k /\ i = j + n
      BY <1>0, <2>2
    <3>2. x[j + n] = v[j] /\ y[j + n] = u[j]
      BY <1>2, <3>1 DEF Joins
    <3> QED
      BY <1>3, <3>1, <3>2 DEF Renders
  <2> QED
    BY <2>1, <2>2
<1> QED
  BY <1>1, <1>2, <1>3 DEF Renders, Joins

\* Selected holds lines of the set, each at the place of its number.
LEMMA SelectedFrom ==
  ASSUME NEW s, NEW N \in Nat, NEW I, I \subseteq 1..N
  PROVE  /\ Cardinality(I) \in Nat /\ Selected(s, I) = [i \in 1..Cardinality(I) |-> s[nth(I, i)]]
         /\ \A i \in 1..Cardinality(I) : nth(I, i) \in I
         /\ \A m \in I : \E i \in 1..Cardinality(I) : nth(I, i) = m
         /\ \A i, j \in 1..Cardinality(I) : i < j => nth(I, i) < nth(I, j)
         /\ \A i \in DOMAIN Selected(s, I) : \E m \in I : Selected(s, I)[i] = s[m]
<1>1. PICK k, e : k = Cardinality(I) /\ e = Selected(s, I)
  OBVIOUS
<1>2. /\ k \in Nat /\ \A i \in 1..k : nth(I, i) \in I
      /\ \A m \in I : \E i \in 1..k : nth(I, i) = m
      /\ \A i, j \in 1..k : i < j => nth(I, i) < nth(I, j)
  <2>1. PICK p : p = [i \in 1..k |-> nth(I, i)]
    OBVIOUS
  <2>2. k \in Nat /\ Enumerates(p, k, I)
    BY <1>1, <2>1, NthEnumerates
  <2>3. I = {p[i] : i \in 1..k} /\ \A i, j \in 1..k : i < j => p[i] < p[j]
    BY <2>2 DEF Enumerates, Increasing
  <2> QED
    BY <2>1, <2>2, <2>3
<1>3. e = [i \in 1..k |-> s[nth(I, i)]]
  BY <1>1 DEF Selected
<1>4. \A i \in DOMAIN e : \E m \in I : e[i] = s[m]
  BY <1>2, <1>3
<1> QED
  BY <1>1, <1>2, <1>3, <1>4

\* Every line of the set is selected.
LEMMA SelectedReaches ==
  ASSUME NEW N \in Nat, NEW I, I \subseteq 1..N, NEW m \in I
  PROVE  \E i \in 1..Cardinality(I) : nth(I, i) = m
BY SelectedFrom

\* What all lines of a set are, the selected ones are.
LEMMA SelectedKinds ==
  ASSUME NEW s, NEW N \in Nat, NEW I, I \subseteq 1..N, NEW K, \A m \in I : s[m].k \in K
  PROVE  \A i \in DOMAIN Selected(s, I) : Selected(s, I)[i].k \in K
<1>1. \A i \in DOMAIN Selected(s, I) : \E m \in I : Selected(s, I)[i] = s[m]
  BY SelectedFrom
<1> QED
  BY <1>1

\* Events(s, I) are the events of the lines I in the order of the log.
Events(s, I) == [i \in DOMAIN Selected(s, I) |-> event(Selected(s, I)[i])]

\* A log whose events are w spells the skeletons that w stands for.
LEMMA RendersSpells ==
  ASSUME NEW s, NEW N \in Nat, NEW I, I \subseteq 1..N, NEW w, NEW t, NEW n, Renders(s, I, w, t, n),
         Events(s, I) = w
  PROVE  Spells(s, I, n, t)
<1>1. n \in Nat /\ w = [i \in 1..n |-> w[i]] /\ t = [i \in 1..n |-> t[i]]
  BY DEF Renders, IsList
<1>2. PICK k, e : k = Cardinality(I) /\ e = Selected(s, I)
  OBVIOUS
<1>3. /\ k \in Nat /\ DOMAIN e = 1..k
      /\ \A i \in 1..k : nth(I, i) \in I /\ e[i] = s[nth(I, i)]
  <2>1. /\ k \in Nat /\ DOMAIN Selected(s, I) = 1..k
        /\ \A i \in 1..k : nth(I, i) \in I /\ Selected(s, I)[i] = s[nth(I, i)]
    <3>1. k = Cardinality(I) /\ I \subseteq 1..N /\ N \in Nat
      BY <1>2
    <3>2. k \in Nat /\ DOMAIN Selected(s, I) = 1..k
      BY <3>1, SelectedAll
    <3>3. Selected(s, I) = [i \in 1..k |-> s[nth(I, i)]]
      BY <3>1 DEF Selected
    <3>4. \A i \in 1..k : nth(I, i) \in I
      BY <3>1, SelectedAll
    <3> QED
      BY <3>2, <3>3, <3>4
  <2> QED
    BY <1>2, <2>1
<1>4. w = [i \in 1..k |-> event(e[i])]
  BY <1>2, <1>3 DEF Events
<1>5. k = n
  <2>1. DOMAIN w = 1..n /\ DOMAIN w = 1..k
    BY <1>1, <1>4
  <2> QED
    BY <1>1, <1>3, <2>1
<1>6. ASSUME NEW i \in 1..n PROVE Skeleton(e[i]) = t[i]
  <2>1. PICK m : m = nth(I, i) /\ m \in I /\ e[i] = s[m]
    BY <1>3, <1>5
  <2>2. w[i] = event(e[i])
    BY <1>4, <1>5
  <2>3. event(s[m]) = w[i]
    BY <2>1, <2>2
  <2>4. Skeleton(s[m]) = t[i]
    BY <2>1, <2>3 DEF Renders
  <2> QED
    BY <2>1, <2>4
<1> QED
  BY <1>1, <1>2, <1>5, <1>6, SpellsIf

\* What the event of a line says of the line (_check_positive_order, _check_negative_sequence).
LEMMA EventIs ==
  ASSUME NEW l, l.k \in {"fixture", "cycle", "vmfail", "start", "exit"}
  PROVE  /\ \A c : event(l) = <<"fixture", c>> => l.k = "fixture" /\ l.cycle = c
         /\ \A c, st : event(l) = <<"stage", c, st>> => l.k = "cycle" /\ l.cycle = c /\ l.stage = st
         /\ \A c : event(l) = <<"fail", c>> => l.k = "vmfail" /\ l.cycle = c
         /\ event(l) = <<"start">> => l.k = "start"
         /\ event(l) = <<"exit">> => l.k = "exit"
<1>1. CASE l.k = "fixture"
  BY <1>1 DEF event, fixture_or_stage
<1>2. CASE l.k = "cycle"
  BY <1>2 DEF event, fixture_or_stage
<1>3. CASE l.k = "vmfail"
  BY <1>3 DEF event, fixture_or_stage
<1>4. CASE l.k = "start"
  BY <1>4 DEF event, fixture_or_stage
<1>5. CASE l.k = "exit"
  BY <1>5 DEF event, fixture_or_stage
<1> QED
  BY <1>1, <1>2, <1>3, <1>4, <1>5

\* The lines I are of kinds that are events, and their fixtures are the probe's image.
Imaged(s, I) ==
  /\ \A m \in I : s[m].k \in {"fixture", "cycle", "vmfail", "start", "exit"}
  /\ \A m \in I : s[m].k = "fixture" => /\ s[m].len = FIXTURE_LEN
                                        /\ s[m].sha = FIXTURE_SHA256[s[m].cycle]

\* The events and the skeletons of one cycle: the fixture, then the stages.
LEMMA CycleLogIs ==
  ASSUME NEW c \in {1, 2}, NEW n \in Nat, NEW stages, IsList(stages, n)
  PROVE  /\ IsList(Want(c, stages), n + 1) /\ IsList(CycleLog(c, n), n + 1)
         /\ Want(c, stages)[1] = <<"fixture", c>>
         /\ CycleLog(c, n)[1] = <<"fixture", c, FIXTURE_LEN, FIXTURE_SHA256[c]>>
         /\ \A i \in 1..n : /\ Want(c, stages)[i + 1] = <<"stage", c, stages[i]>>
                            /\ CycleLog(c, n)[i + 1] = <<"stage", c, CYCLE_STAGES[i]>>
<1>1. PICK a, b, x, y : /\ x = <<"fixture", c>> /\ y = <<"fixture", c, FIXTURE_LEN, FIXTURE_SHA256[c]>>
                        /\ a = [i \in 1..n |-> <<"stage", c, stages[i]>>]
                        /\ b = [i \in 1..n |-> <<"stage", c, CYCLE_STAGES[i]>>]
  OBVIOUS
<1>2. IsList(a, n) /\ IsList(b, n)
  BY <1>1 DEF IsList
<1>3. IsList(<<x>>, 1) /\ IsList(<<y>>, 1) /\ <<x>>[1] = x /\ <<y>>[1] = y
  BY DEF IsList
<1>4. DOMAIN stages = 1..n
  BY DEF IsList
<1>5. PICK v, u : v = Want(c, stages) /\ u = CycleLog(c, n)
  OBVIOUS
<1>6. v = <<x>> \o a /\ u = <<y>> \o b
  BY <1>1, <1>4, <1>5 DEF Want, CycleLog
<1>7. PICK x1, y1 : x1 = <<x>> /\ y1 = <<y>>
  OBVIOUS
<1>8. Joins(v, x1, 1, a, n) /\ Joins(u, y1, 1, b, n)
  BY <1>2, <1>3, <1>6, <1>7, ConcatAt
<1>9. 1 \in 1..1 /\ 1 + n = n + 1
  OBVIOUS
<1>10. IsList(v, n + 1) /\ IsList(u, n + 1) /\ v[1] = x /\ u[1] = y
  BY <1>3, <1>7, <1>8, <1>9 DEF Joins
<1>11. \A i \in 1..n : v[i + 1] = a[i] /\ u[i + 1] = b[i]
  BY <1>8 DEF Joins
<1> QED
  BY <1>1, <1>5, <1>10, <1>11

\* The events of a cycle stand for the skeletons of that cycle.
LEMMA RendersCycle ==
  ASSUME NEW s, NEW I, Imaged(s, I), NEW c \in {1, 2}, NEW n \in Nat, NEW stages, IsList(stages, n),
         \A i \in 1..n : stages[i] = CYCLE_STAGES[i]
  PROVE  Renders(s, I, Want(c, stages), CycleLog(c, n), n + 1)
<1>1. PICK v, u : v = Want(c, stages) /\ u = CycleLog(c, n)
  OBVIOUS
<1>2. /\ IsList(v, n + 1) /\ IsList(u, n + 1) /\ v[1] = <<"fixture", c>>
      /\ u[1] = <<"fixture", c, FIXTURE_LEN, FIXTURE_SHA256[c]>>
      /\ \A i \in 1..n : /\ v[i + 1] = <<"stage", c, stages[i]>>
                         /\ u[i + 1] = <<"stage", c, CYCLE_STAGES[i]>>
  <2>1. /\ IsList(Want(c, stages), n + 1) /\ IsList(CycleLog(c, n), n + 1)
        /\ Want(c, stages)[1] = <<"fixture", c>>
        /\ CycleLog(c, n)[1] = <<"fixture", c, FIXTURE_LEN, FIXTURE_SHA256[c]>>
        /\ \A i \in 1..n : /\ Want(c, stages)[i + 1] = <<"stage", c, stages[i]>>
                           /\ CycleLog(c, n)[i + 1] = <<"stage", c, CYCLE_STAGES[i]>>
    BY CycleLogIs
  <2> QED
    BY <1>1, <2>1
<1>3. ASSUME NEW i \in 1..(n + 1), NEW m \in I, event(s[m]) = v[i] PROVE Skeleton(s[m]) = u[i]
  <2>0. s[m].k \in {"fixture", "cycle", "vmfail", "start", "exit"}
    BY DEF Imaged
  <2>1. CASE i = 1
    <3>0. event(s[m]) = <<"fixture", c>>
      BY <1>2, <1>3, <2>1
    <3>1. s[m].k = "fixture" /\ s[m].cycle = c
      BY <2>0, <3>0, EventIs
    <3>2. s[m].len = FIXTURE_LEN /\ s[m].sha = FIXTURE_SHA256[c]
      BY <3>1 DEF Imaged
    <3>3. Skeleton(s[m]) = <<"fixture", c, FIXTURE_LEN, FIXTURE_SHA256[c]>>
      BY <3>1, <3>2 DEF Skeleton
    <3> QED
      BY <1>2, <2>1, <3>3
  <2>2. CASE i # 1
    <3>1. PICK j : j = i - 1 /\ j \in 1..n /\ i = j + 1
      BY <2>2
    <3>2. event(s[m]) = <<"stage", c, stages[j]>> /\ u[i] = <<"stage", c, stages[j]>>
      BY <1>2, <1>3, <3>1
    <3>3. s[m].k = "cycle" /\ s[m].cycle = c /\ s[m].stage = stages[j]
      BY <2>0, <3>2, EventIs
    <3> QED
      BY <3>2, <3>3 DEF Skeleton
  <2> QED
    BY <2>1, <2>2
<1> QED
  BY <1>1, <1>2, <1>3 DEF Renders

\* One event by itself.
LEMMA RendersOne ==
  ASSUME NEW s, NEW I, NEW v, NEW u, \A m \in I : event(s[m]) = v => Skeleton(s[m]) = u
  PROVE  Renders(s, I, <<v>>, <<u>>, 1)
<1>1. IsList(<<v>>, 1) /\ IsList(<<u>>, 1) /\ \A i \in 1..1 : <<v>>[i] = v /\ <<u>>[i] = u
  BY DEF IsList
<1> QED
  BY <1>1 DEF Renders

\* The fixtures of a log whose fixtures check out.
LEMMA FixturesImaged ==
  ASSUME NEW s \in Seq(Line),
         \A i \in DOMAIN Fixtures(s) : /\ Fixtures(s)[i].len = FIXTURE_LEN
                                       /\ Fixtures(s)[i].sha = FIXTURE_SHA256[Fixtures(s)[i].cycle]
  PROVE  \A m \in At(s, "fixture") : s[m].len = FIXTURE_LEN /\ s[m].sha = FIXTURE_SHA256[s[m].cycle]
<1>1. PICK I, N, k : I = At(s, "fixture") /\ N = Len(s) /\ k = Cardinality(I)
  OBVIOUS
<1>2. N \in Nat /\ I \subseteq 1..N
  BY <1>1, LogIs
<1>3. /\ DOMAIN Selected(s, I) = 1..k
      /\ \A i \in 1..k : nth(I, i) \in I /\ Selected(s, I)[i] = s[nth(I, i)]
      /\ \A m \in I : \E i \in 1..k : nth(I, i) = m
  BY <1>1, <1>2, SelectedAll
<1>4. PICK fx : fx = Fixtures(s)
  OBVIOUS
<1>5. fx = Selected(s, I)
  BY <1>1, <1>4 DEF Fixtures
<1>6. ASSUME NEW m \in I PROVE s[m].len = FIXTURE_LEN /\ s[m].sha = FIXTURE_SHA256[s[m].cycle]
  <2>1. PICK i \in 1..k : nth(I, i) = m
    BY <1>3
  <2>2. i \in DOMAIN fx /\ fx[i] = s[m]
    BY <1>3, <1>5, <2>1
  <2> QED
    BY <1>4, <2>2
<1> QED
  BY <1>1, <1>6

\* One exit line of the code given, and what a set of one element is.
LEMMA OneOf ==
  ASSUME NEW S, Cardinality(S) = 1, NEW N \in Nat, S \subseteq 1..N
  PROVE  \E a \in S : S = {a}
<1>1. IsFiniteSet(S)
  BY NthEnumerates
<1>2. S # {}
  BY FS_EmptySet
<1>3. PICK a \in S : TRUE
  BY <1>2
<1>4. Cardinality(S \ {a}) = 0
  BY <1>1, <1>3, FS_RemoveElement
<1>5. S \ {a} = {}
  BY <1>1, <1>4, FS_RemoveElement, FS_EmptySet
<1> QED
  BY <1>3, <1>5

-----------------------------------------------------------------------------
(* A positive log: its lines and their order. *)

\* When parse_vm_serial (transcript_vm.py) finds no fault in the lines, there is no failure, no
\* malformed line, and one start line, of the mode.
LEMMA LinesClean ==
  ASSUME NEW s, NEW mode, line_errors(s, mode) = {}
  PROVE  /\ At(s, "failure") = {} /\ At(s, "vmbad") = {}
         /\ Cardinality(At(s, "start")) = 1 /\ \A n \in At(s, "start") : s[n].mode = mode
<1>1. PICK r : r =
        [failure   |-> At(s, "failure") = {},
         stage     |-> \A n \in At(s, "cycle") : s[n].stage \in Range(CYCLE_STAGES),
         malformed |-> At(s, "vmbad") = {},
         one_start |-> Cardinality(At(s, "start")) = 1,
         mode      |-> Cardinality(At(s, "start")) = 1 => \A n \in At(s, "start") : s[n].mode = mode]
  OBVIOUS
<1>2. Broken(r) = {}
  BY <1>1 DEF line_errors
<1>3. r.failure /\ r.malformed /\ r.one_start /\ r.mode
  BY <1>1, <1>2 DEF Broken
<1> QED
  BY <1>1, <1>3

\* When parse_vm_serial finds no fault in a positive log, neither parse_serial nor any check does.
LEMMA PositiveClean ==
  ASSUME NEW s, positive_errors(s) = {}
  PROVE  /\ parse_serial(s).transcript_errors = {}
         /\ At(s, "vmfail") = {} /\ Cardinality(At(s, "complete")) = 1
         /\ check_positive_order(s) = {} /\ check_cycle_semantics(s, TRUE) = {}
<1>1. PICK r : r = [no_fail      |-> At(s, "vmfail") = {},
                    one_complete |-> Cardinality(At(s, "complete")) = 1,
                    exit_ok      |-> one_exit(s, 10)]
  OBVIOUS
<1>2. UNION {parse_serial(s).transcript_errors, Broken(r), reject_vm_after_terminal(s),
             check_positive_order(s), check_cycle_semantics(s, TRUE)} = {}
  BY <1>1 DEF positive_errors
<1>3. \A X : (\A x \in X : x \subseteq {}) \/ UNION X # {}
  OBVIOUS
<1>4. \A x \in {parse_serial(s).transcript_errors, Broken(r), reject_vm_after_terminal(s),
                check_positive_order(s), check_cycle_semantics(s, TRUE)} : x = {}
  BY <1>2, <1>3
<1>5. /\ parse_serial(s).transcript_errors = {} /\ Broken(r) = {}
      /\ check_positive_order(s) = {} /\ check_cycle_semantics(s, TRUE) = {}
  BY <1>4
<1>6. r.no_fail /\ r.one_complete
  BY <1>1, <1>5 DEF Broken
<1> QED
  BY <1>1, <1>5, <1>6

\* The two cycles of a positive log, and the order of its lines.
Cycles(s) == At(s, "fixture") \cup At(s, "cycle")
\* The fixtures and stages of some lines, in order.
Orders(e) == [i \in DOMAIN e |-> fixture_or_stage(e[i])]

\* When _check_positive_order (transcript_vm.py) finds nothing, the two cycles stand between the
\* start and the completion, those after N6 and before the timer, in the order of two full cycles.
LEMMA OrderClean ==
  ASSUME NEW s, check_positive_order(s) = {}
  PROVE  /\ At(s, "start") # {} /\ At(s, "complete") # {} /\ done_at(s) # {}
         /\ n6_at(s) # {} /\ timer_at(s) # {}
         /\ Max(n6_at(s)) < Min(At(s, "start")) /\ Min(At(s, "complete")) < Min(timer_at(s))
         /\ \A n \in Cycles(s) : Min(At(s, "start")) < n /\ n < Min(At(s, "complete"))
         /\ Min(At(s, "start")) < Min(At(s, "complete"))
         /\ Orders(Selected(s, Cycles(s))) = Want(1, CYCLE_STAGES) \o Want(2, CYCLE_STAGES)
<1>1. PICK e1, e2, e3, e4, e5, e6, F :
        /\ e1 = n6_at(s) /\ e2 = At(s, "start") /\ e3 = At(s, "complete") /\ e4 = timer_at(s)
        /\ e5 = done_at(s) /\ e6 = At(s, "exit") /\ F = At(s, "fixture") \cup At(s, "cycle")
  OBVIOUS
<1>2. PICK ends, got : ends = <<e1, e2, e3, e4, e5, e6>> /\ got = Selected(s, F)
  OBVIOUS
<1>3. /\ ends[1] = e1 /\ ends[2] = e2 /\ ends[3] = e3 /\ ends[4] = e4 /\ ends[5] = e5 /\ ends[6] = e6
      /\ DOMAIN ends = 1..6
  BY <1>2
<1>4. PICK r : r =
        [start_after_n6  |-> Max(ends[1]) < Min(ends[2]),
         complete_after  |-> Min(ends[2]) < Min(ends[3]),
         before_timer    |-> Min(ends[3]) < Min(ends[4]),
         done_after      |-> Min(ends[4]) < Min(ends[5]),
         exit_after      |-> Min(ends[5]) < Min(ends[6]),
         window          |-> \A n \in F : Min(ends[2]) < n /\ n < Min(ends[3]),
         order           |-> [i \in DOMAIN got |-> fixture_or_stage(got[i])] =
                               Want(1, CYCLE_STAGES) \o Want(2, CYCLE_STAGES)]
  OBVIOUS
<1>5. check_positive_order(s) = IF {} \in Range(ends) THEN {"order_missing"} ELSE Broken(r)
  BY <1>1, <1>2, <1>4 DEF check_positive_order
<1>6. {} \notin Range(ends) /\ Broken(r) = {}
  BY <1>5
<1>7. e1 # {} /\ e2 # {} /\ e3 # {} /\ e4 # {} /\ e5 # {}
  <2>1. \A i \in {1, 2, 3, 4, 5} : ends[i] \in Range(ends)
    BY <1>3 DEF Range
  <2> QED
    BY <1>3, <1>6, <2>1
<1>8. r.start_after_n6 /\ r.complete_after /\ r.before_timer /\ r.window /\ r.order
  BY <1>4, <1>6 DEF Broken
<1>9. /\ Max(e1) < Min(e2) /\ Min(e2) < Min(e3) /\ Min(e3) < Min(e4)
      /\ \A n \in F : Min(e2) < n /\ n < Min(e3)
  BY <1>3, <1>4, <1>8
<1>10. [i \in DOMAIN got |-> fixture_or_stage(got[i])] = Want(1, CYCLE_STAGES) \o Want(2, CYCLE_STAGES)
  BY <1>4, <1>8
<1> QED
  <2>1. F = Cycles(s)
    BY <1>1 DEF Cycles
  <2>2. Orders(got) = Want(1, CYCLE_STAGES) \o Want(2, CYCLE_STAGES)
    BY <1>10 DEF Orders
  <2> QED
    BY <1>1, <1>2, <1>7, <1>9, <2>1, <2>2

\* The markers seen in order are the only lines of their kind, the map apart.
LEMMA MarkerAtIs ==
  ASSUME NEW s \in Seq(Line), NEW N, N = Len(s), NEW K, NEW f, Staged(s, N, K, f),
         NEW i \in 1..18, i # 4
  PROVE  MarkerAt(s, MARKERS[i]) = IF i <= K THEN {f[i]} ELSE {}
<1>1. MarkerAt(s, MARKERS[i]) = {n \in 1..N : idx(s, n) = i}
  <2>1. At(s, "marker") = {n \in 1..N : s[n].k = "marker"}
    BY LogIs
  <2>2. \A n \in 1..N : idx(s, n) = i <=> s[n].k = "marker" /\ s[n].m = MARKERS[i]
    BY IndexIs DEF idx
  <2> QED
    BY <2>1, <2>2 DEF MarkerAt
<1>2. /\ K \in 0..18 /\ \A j \in 1..K : f[j] \in 1..N /\ idx(s, f[j]) = j
      /\ \A n \in 1..N : idx(s, n) # 0 => (\E j \in 1..K : n = f[j]) \/ idx(s, n) = 4
  BY DEF Staged
<1>3. ASSUME NEW n \in 1..N, idx(s, n) = i PROVE i <= K /\ n = f[i]
  <2>1. idx(s, n) # 0
    BY <1>3
  <2>2. PICK j \in 1..K : n = f[j]
    BY <1>2, <1>3, <2>1
  <2>3. j = i
    BY <1>2, <1>3, <2>2
  <2> QED
    BY <1>2, <2>2, <2>3
<1>4. i <= K => f[i] \in 1..N /\ idx(s, f[i]) = i
  BY <1>2
<1> QED
  BY <1>1, <1>3, <1>4

\* What a log without bootstrap errors holds of the bootstrap.
LEMMA CleanBootstrap ==
  ASSUME NEW s \in Seq(Line), parse_serial(s).transcript_errors = {}, NEW N, N = Len(s)
  PROVE  \E f, e : /\ Staged(s, N, 18, f) /\ e \in 1..N /\ s[e].code = 10
                   /\ \A n \in 1..N : s[n].k = "exit" <=> n = e
                   /\ \A n \in 1..N : idx(s, n) # 0 => n < e
<1>1. N \in Nat
  BY LogIs
<1>3. PICK c, x : Counted(s, N, c, x) /\ Means(s, N, c, x, {})
  BY <1>1, ParseMeans
<1>4. /\ \A n \in 1..N : s[n].k = "exit" => s[n].code = 10
      /\ \A n \in 1..N : idx(s, n) \in {0, c[n - 1] + 1} \/ (idx(s, n) = 4 /\ c[n - 1] = 4)
      /\ \A n \in 1..N : idx(s, n) # 0 => x[n] = 0
      /\ c[N] = 18 /\ x[N] = 1
  BY <1>3 DEF Means
<1>5. PICK f : Staged(s, N, 18, f)
  BY <1>1, <1>3, <1>4, StagesInOrder
<1>6. PICK e \in 1..N : /\ \A n \in 1..N : s[n].k = "exit" <=> n = e
                        /\ \A n \in 1..N : idx(s, n) # 0 => n < e
  BY <1>1, <1>3, <1>4, OneExit
<1> QED
  BY <1>4, <1>5, <1>6

\* The cycle lines of a clean positive log spell two full cycles.
LEMMA SpellsCycles ==
  ASSUME NEW s \in Seq(Line), check_positive_order(s) = {}, check_cycle_semantics(s, TRUE) = {}
  PROVE  Spells(s, Cycles(s), 28, CycleLog(1, 13) \o CycleLog(2, 13))
<1>1. PICK N, I : N = Len(s) /\ I = Cycles(s)
  OBVIOUS
<1>2. N \in Nat /\ I \subseteq 1..N /\ \A n \in I : s[n].k \in {"fixture", "cycle"}
  BY <1>1, LogIs DEF Cycles
<1>3. PICK full : full = TRUE /\ full \in BOOLEAN
  OBVIOUS
<1>4. PICK first, second : first = compared(s, 1, full) /\ second = IF full THEN compared(s, 2, full) ELSE NoFields
  OBVIOUS
<1>5. \A i \in DOMAIN Fixtures(s) : /\ Fixtures(s)[i].len = FIXTURE_LEN
                                    /\ Fixtures(s)[i].sha = FIXTURE_SHA256[Fixtures(s)[i].cycle]
  <2>1. check_cycle_semantics(s, full) = {}
    BY <1>3
  <2> QED
    BY <1>3, <1>4, <2>1, SemanticsClean
<1>6. Imaged(s, I)
  <2>1. \A m \in At(s, "fixture") : s[m].len = FIXTURE_LEN /\ s[m].sha = FIXTURE_SHA256[s[m].cycle]
    BY <1>5, FixturesImaged
  <2>2. \A m \in I : s[m].k = "fixture" => m \in At(s, "fixture")
    BY <1>2, LogIs, <1>1
  <2> QED
    BY <1>2, <2>1, <2>2 DEF Imaged
<1>7. PICK n : n = 13
  OBVIOUS
<1>8. IsList(CYCLE_STAGES, n)
  BY <1>7 DEF IsList, CYCLE_STAGES
<1>9. PICK w1, w2, t1, t2 : /\ w1 = Want(1, CYCLE_STAGES) /\ w2 = Want(2, CYCLE_STAGES)
                            /\ t1 = CycleLog(1, n) /\ t2 = CycleLog(2, n)
  OBVIOUS
<1>10. Renders(s, I, w1, t1, n + 1) /\ Renders(s, I, w2, t2, n + 1)
  <2>1. n \in Nat
    BY <1>7
  <2> QED
    BY <1>6, <1>8, <1>9, <2>1, RendersCycle
<1>11. Renders(s, I, w1 \o w2, t1 \o t2, (n + 1) + (n + 1))
  BY <1>10, RendersJoin
<1>12. Events(s, I) = w1 \o w2
  <2>1. PICK e, w : e = Selected(s, I) /\ w = w1 \o w2
    OBVIOUS
  <2>2. [i \in DOMAIN e |-> fixture_or_stage(e[i])] = w
    BY <1>1, <1>9, <2>1, OrderClean DEF Orders
  <2>3. \A i \in DOMAIN e : e[i].k \in {"fixture", "cycle"}
    <3>1. N \in Nat /\ I \subseteq 1..N /\ \A m \in I : s[m].k \in {"fixture", "cycle"}
      BY <1>2
    <3>2. PICK K : K = {"fixture", "cycle"}
      OBVIOUS
    <3>3. \A m \in I : s[m].k \in K
      BY <3>1, <3>2
    <3>4. \A i \in DOMAIN Selected(s, I) : Selected(s, I)[i].k \in K
      BY <3>1, <3>3, SelectedKinds
    <3> QED
      BY <2>1, <3>2, <3>4
  <2>4. \A i \in DOMAIN e : event(e[i]) = fixture_or_stage(e[i])
    BY <2>3 DEF event
  <2>5. Events(s, I) = [i \in DOMAIN e |-> event(e[i])]
    BY <2>1 DEF Events
  <2> QED
    BY <2>1, <2>2, <2>4, <2>5
<1>13. Spells(s, I, (n + 1) + (n + 1), t1 \o t2)
  BY <1>2, <1>11, <1>12, RendersSpells
<1>14. (n + 1) + (n + 1) = 28
  BY <1>7
<1> QED
  BY <1>1, <1>7, <1>9, <1>13, <1>14

\* What no other line of the log can be.
LEMMA CountsAre ==
  ASSUME NEW s \in Seq(Line), NEW N, N = Len(s), NEW mode \in MODES,
         At(s, "failure") = {}, At(s, "vmbad") = {}
  PROVE  /\ Counts(s, mode) \subseteq 1..N
         /\ \A n \in 1..N : n \in Counts(s, mode) <=>
              idx(s, n) # 0 \/ s[n].k \in {"exit", "complete", "start", "fixture", "cycle", "vmfail"}
         /\ \A n \in 1..N : s[n].k \in {"exit", "complete", "start", "fixture", "cycle", "vmfail"} =>
              idx(s, n) = 0
<1>1. mode # "base"
  BY DEF MODES
<1>2. DOMAIN s = 1..N
  BY LogIs
<1>3. PICK C : C = Counts(s, mode)
  OBVIOUS
<1>4. C = {n \in 1..N : s[n].k # "noise"}
  BY <1>1, <1>2, <1>3 DEF Counts
<1>5. ASSUME NEW n \in 1..N
      PROVE  /\ s[n].k \in Kinds /\ s[n].k # "failure" /\ s[n].k # "vmbad"
             /\ s[n].k = "marker" <=> idx(s, n) # 0
  <2>1. s[n] \in Line
    BY LogIs
  <2>2. s[n].k # "failure" /\ s[n].k # "vmbad"
    BY LogIs
  <2> QED
    BY <2>1, <2>2, LineIs DEF idx
<1> QED
  BY <1>3, <1>4, <1>5 DEF Kinds

\* The order of the lines of a positive log: each kind that must be there once, and where.
Placed(s, N, f, st, cm, e) ==
  /\ st \in 1..N /\ At(s, "start") = {st} /\ s[st].mode = "positive"
  /\ cm \in 1..N /\ At(s, "complete") = {cm}
  /\ e \in 1..N /\ s[e].code = 10 /\ \A n \in 1..N : s[n].k = "exit" <=> n = e
  /\ \A n \in 1..N : idx(s, n) # 0 => n < e
  /\ f[16] < st /\ st < cm /\ cm < f[17] /\ ~s[f[18]].more
  /\ \A n \in Cycles(s) : st < n /\ n < cm

\* Where the lines of a clean positive log are: all eighteen stages, the one start, completion and
\* exit, in their order.
LEMMA PositivePlaced ==
  ASSUME NEW s \in Seq(Line), line_errors(s, "positive") = {}, positive_errors(s) = {},
         NEW N, N = Len(s)
  PROVE  \E f, st, cm, e : Staged(s, N, 18, f) /\ Placed(s, N, f, st, cm, e)
<1>1. N \in Nat
  BY LogIs
<1>2. PICK f, e : /\ Staged(s, N, 18, f) /\ e \in 1..N /\ s[e].code = 10
                  /\ \A n \in 1..N : s[n].k = "exit" <=> n = e
                  /\ \A n \in 1..N : idx(s, n) # 0 => n < e
  BY PositiveClean, CleanBootstrap
<1>3. \A k : At(s, k) \subseteq 1..N
  BY LogIs
<1>4. PICK st \in 1..N : At(s, "start") = {st}
  BY <1>1, <1>3, LinesClean, OneOf
<1>5. PICK cm \in 1..N : At(s, "complete") = {cm}
  BY <1>1, <1>3, PositiveClean, OneOf
<1>6. s[st].mode = "positive"
  BY <1>4, LinesClean
<1>7. \A i \in 1..18 : f[i] \in 1..N
  BY <1>2 DEF Staged
<1>8. n6_at(s) = {f[16]} /\ timer_at(s) = {f[17]} /\ MarkerAt(s, "done") = {f[18]}
  <2>1. PICK K : K = 18
    OBVIOUS
  <2>2. \A i \in {16, 17, 18} : i \in 1..18 /\ i # 4 /\ i <= K
    BY <2>1
  <2>3. Staged(s, N, K, f)
    BY <1>2, <2>1
  <2>4. ASSUME NEW i \in {16, 17, 18}
        PROVE  MarkerAt(s, MARKERS[i]) = {f[i]}
    <3>1. i \in 1..18 /\ i # 4 /\ i <= K
      BY <2>2
    <3>2. MarkerAt(s, MARKERS[i]) = IF i <= K THEN {f[i]} ELSE {}
      BY <1>1, <2>3, <3>1, MarkerAtIs
    <3> QED
      BY <3>1, <3>2
  <2> QED
    BY <2>4, MarkersAre DEF n6_at, timer_at
<1>9. check_positive_order(s) = {}
  BY PositiveClean
<1>10. ~s[f[18]].more
  <2>1. done_at(s) # {}
    BY <1>9, OrderClean
  <2>2. done_at(s) = {n \in {f[18]} : ~s[n].more}
    BY <1>8 DEF done_at
  <2> QED
    BY <2>1, <2>2
<1>11. /\ Max({f[16]}) < Min({st}) /\ Min({cm}) < Min({f[17]}) /\ Min({st}) < Min({cm})
       /\ \A n \in Cycles(s) : Min({st}) < n /\ n < Min({cm})
  BY <1>4, <1>5, <1>8, <1>9, OrderClean
<1>12. f[16] < st /\ st < cm /\ cm < f[17] /\ \A n \in Cycles(s) : st < n /\ n < cm
  <2>1. \A a \in 1..N : Min({a}) = a /\ Max({a}) = a
    BY <1>1, MinMaxOne
  <2>2. f[16] \in 1..N /\ f[17] \in 1..N
    BY <1>7
  <2> QED
    BY <1>11, <2>1, <2>2
<1> QED
  BY <1>2, <1>4, <1>5, <1>6, <1>10, <1>12 DEF Placed

\* The lines that count in a positive log.
LEMMA PositiveKept ==
  ASSUME NEW s \in Seq(Line), line_errors(s, "positive") = {}, positive_errors(s) = {},
         NEW N, N = Len(s), NEW f, Staged(s, N, 18, f),
         NEW st, NEW cm, NEW e, Placed(s, N, f, st, cm, e), NEW C, C = Counts(s, "positive")
  PROVE  /\ Bootstraps(s, N, C, f)
         /\ Kept(s, C, 18, f) =
              {f[i] : i \in 1..16} \cup {st} \cup Cycles(s) \cup {cm} \cup {f[i] : i \in 17..18} \cup {e}
<1>1. /\ \A i \in 1..18 : f[i] \in 1..N
      /\ Increasing(f, 18) /\ N \in Nat
  BY LogIs DEF Staged
<1>2. At(s, "failure") = {} /\ At(s, "vmbad") = {} /\ At(s, "vmfail") = {}
  BY LinesClean, PositiveClean
<1>3. PICK mode : mode = "positive" /\ mode \in MODES
  BY DEF MODES
<1>4. /\ C \subseteq 1..N
      /\ \A n \in 1..N : n \in C <=>
           idx(s, n) # 0 \/ s[n].k \in {"exit", "complete", "start", "fixture", "cycle", "vmfail"}
      /\ \A n \in 1..N : s[n].k \in {"exit", "complete", "start", "fixture", "cycle", "vmfail"} =>
           idx(s, n) = 0
  BY <1>2, <1>3, CountsAre
<1>5. ASSUME NEW n \in 1..N
      PROVE  /\ s[n].k = "exit" <=> n = e
             /\ s[n].k = "start" <=> n = st
             /\ s[n].k = "complete" <=> n = cm
             /\ s[n].k # "vmfail"
             /\ s[n].k \in {"fixture", "cycle"} <=> n \in Cycles(s)
  <2>1. \A k : s[n].k = k <=> n \in At(s, k)
    BY LogIs
  <2> QED
    BY <1>2, <2>1 DEF Placed, Cycles
<1>6. Cycles(s) \subseteq 1..N
  BY LogIs DEF Cycles
<1>7. PICK R : R = {st} \cup Cycles(s) \cup {cm} \cup {e}
  OBVIOUS
<1>8. R \subseteq 1..N
  BY <1>6, <1>7 DEF Placed
<1>9. \A n \in 1..N : n \in C <=> idx(s, n) # 0 \/ n \in R
  BY <1>4, <1>5, <1>7
<1>10. \A n \in R : idx(s, n) = 0
  BY <1>4, <1>5, <1>7, <1>8
<1>11. \A n \in R : f[5] < n
  <2>1. f[5] < f[16] /\ f[5] \in 1..N /\ f[16] \in 1..N
    BY <1>1 DEF Increasing
  <2>2. f[16] < st /\ st < cm /\ \A n \in Cycles(s) : st < n
    BY DEF Placed
  <2>3. f[5] < e
    <3>1. 5 \in 1..18 /\ 5 # 0
      OBVIOUS
    <3>2. idx(s, f[5]) # 0
      BY <3>1 DEF Staged
    <3> QED
      BY <2>1, <3>2 DEF Placed
  <2>4. f[5] \in Nat /\ f[16] \in Nat /\ st \in Nat /\ cm \in Nat
    <3>1. st \in 1..N /\ cm \in 1..N
      BY DEF Placed
    <3>2. \A n \in 1..N : n \in Nat
      BY <1>1
    <3> QED
      BY <2>1, <3>1, <3>2
  <2>5. f[5] < st /\ f[5] < cm
    BY <2>1, <2>2, <2>4
  <2>6. ASSUME NEW n \in Cycles(s) PROVE f[5] < n
    <3>1. n \in Nat /\ st < n
      BY <1>6, <2>2
    <3> QED
      BY <2>4, <2>5, <3>1
  <2> QED
    BY <1>7, <2>3, <2>5, <2>6
<1>12. Bootstraps(s, N, C, f)
  <2>1. \A n \in 1..N : idx(s, n) # 0 => n \in C
    BY <1>9
  <2>2. ASSUME NEW n \in C, n < f[5] PROVE idx(s, n) # 0
    <3>1. n \in Nat /\ f[5] \in Nat
      <4>1. 5 \in 1..18
        OBVIOUS
      <4> QED
        BY <1>1, <1>4, <2>2, <4>1
    <3>2. n \notin R
      BY <1>11, <2>2, <3>1
    <3> QED
      BY <1>4, <1>9, <3>2
  <2> QED
    BY <1>4, <2>1, <2>2 DEF Bootstraps
<1>13. {n \in C : idx(s, n) = 0} = R
  BY <1>4, <1>8, <1>9, <1>10
<1>14. {f[i] : i \in 1..18} = {f[i] : i \in 1..16} \cup {f[i] : i \in 17..18}
  <2>1. \A i : i \in 1..18 <=> i \in 1..16 \/ i \in 17..18
    OBVIOUS
  <2> QED
    BY <2>1
<1>15. Kept(s, C, 18, f) = {f[i] : i \in 1..18} \cup R
  BY <1>13 DEF Kept
<1> QED
  BY <1>7, <1>12, <1>14, <1>15

-----------------------------------------------------------------------------
(* parse_vm_serial accepts only a true positive log. *)

\* What is spelled is a list.
LEMMA SpellsList ==
  ASSUME NEW s, NEW I, NEW n, NEW t, Spells(s, I, n, t)
  PROVE  IsList(t, n)
BY DEF Spells, IsList

\* The lines of the stages a to b.
Span(f, a, b) == {f[i] : i \in a..b}

\* The lines of some stages in a row spell those stages.
LEMMA SpellsSpan ==
  ASSUME NEW s, NEW N, NEW K, NEW f, Staged(s, N, K, f), NEW a \in 1..K, NEW b \in a..K
  PROVE  Spells(s, Span(f, a, b), b - a + 1, Markers(a, b))
BY SpellsStages DEF Span

\* es are the n lines D of s in the order of the log.
Takes(es, s, n, D) == \E p : Enumerates(p, n, D) /\ \A i \in 1..n : es[i] = s[p[i]]

\* When the lines kept spell t, the essence of the log is t, taken from those lines in order.
LEMMA EssenceTakes ==
  ASSUME NEW s, NEW N \in Nat, DOMAIN s = 1..N, NEW mode, NEW K, NEW f, Staged(s, N, K, f), K >= 5,
         Bootstraps(s, N, Counts(s, mode), f),
         NEW n, NEW t,
         Spells(s, Kept(s, Counts(s, mode), K, f), n, t)
  PROVE  /\ Skeletons(Essence(s, mode)) = t
         /\ DOMAIN Essence(s, mode) = 1..n /\ Len(Essence(s, mode)) = n
         /\ Takes(Essence(s, mode), s, n, Kept(s, Counts(s, mode), K, f))
BY EssenceIs DEF Takes

\* A log without errors of a positive run is a true log: line for line what the
\* artifact prints, with registers a machine doing it could show.
THEOREM PositiveGenuine ==
  ASSUME NEW s \in Seq(Line), parse_vm_serial(s, "positive").transcript_errors = {}
  PROVE  Genuine(s, "positive")
<1>1. PICK mode, N : mode = "positive" /\ N = Len(s)
  OBVIOUS
<1>2. line_errors(s, "positive") = {} /\ positive_errors(s) = {}
  <2>1. parse_vm_serial(s, mode).transcript_errors = line_errors(s, mode) \cup positive_errors(s)
    BY <1>1 DEF parse_vm_serial
  <2> QED
    BY <1>1, <2>1
<1>3. N \in Nat /\ DOMAIN s = 1..N
  BY <1>1, LogIs
<1>4. PICK f, st, cm, e : Staged(s, N, 18, f) /\ Placed(s, N, f, st, cm, e)
  BY <1>1, <1>2, PositivePlaced
<1>5. PICK C, F : C = Counts(s, "positive") /\ F = Cycles(s)
  OBVIOUS
<1>6. PICK A, B : A = {f[i] : i \in 1..16} /\ B = {f[i] : i \in 17..18}
  OBVIOUS
<1>7. Bootstraps(s, N, C, f) /\ Kept(s, C, 18, f) = A \cup {st} \cup F \cup {cm} \cup B \cup {e}
  <2>1. N = Len(s) /\ C = Counts(s, "positive")
    BY <1>1, <1>5
  <2>2. /\ Bootstraps(s, N, C, f)
        /\ Kept(s, C, 18, f) =
             {f[i] : i \in 1..16} \cup {st} \cup Cycles(s) \cup {cm} \cup {f[i] : i \in 17..18} \cup {e}
    BY <1>2, <1>4, <2>1, PositiveKept, SMTT(30)
  <2> QED
    BY <1>5, <1>6, <2>2
<1>8. PICK m, k, t1, t2 : /\ m = Markers(1, 16) /\ k = Markers(17, 18)
                          /\ t1 = CycleLog(1, 13) /\ t2 = CycleLog(2, 13)
  OBVIOUS
<1>9. PICK a, b, x : a = <<<<"start", mode>>>> /\ b = <<<<"other", "complete">>>> /\ x = <<<<"exit", 10>>>>
  OBVIOUS
<1>10. Spells(s, A, 16, m) /\ Spells(s, B, 2, k)
  <2>1. PICK K : K = 18
    OBVIOUS
  <2>2. /\ 1 \in 1..K /\ 16 \in 1..K /\ 17 \in 1..K /\ 18 \in 1..K /\ 16 \in 1..K /\ 18 \in 17..K
        /\ 16 - 1 + 1 = 16 /\ 18 - 17 + 1 = 2
    BY <2>1
  <2>3. Staged(s, N, K, f)
    BY <1>4, <2>1
  <2>4. Spells(s, A, 16 - 1 + 1, m)
    <3>1. Spells(s, {f[i] : i \in 1..16}, 16 - 1 + 1, Markers(1, 16))
      <4>1. PICK a1, b1 : a1 = 1 /\ b1 = 16
        OBVIOUS
      <4>2. a1 \in 1..K /\ b1 \in a1..K
        BY <2>1, <4>1
      <4>3. Spells(s, {f[i] : i \in a1..b1}, b1 - a1 + 1, Markers(a1, b1))
        BY <2>3, <4>2, SpellsStages
      <4> QED
        BY <4>1, <4>3
    <3> QED
      BY <1>6, <1>8, <3>1
  <2>5. Spells(s, B, 18 - 17 + 1, k)
    <3>1. PICK lo, hi : lo = 17 /\ hi = 18
      OBVIOUS
    <3>2. lo \in 1..K /\ hi \in lo..K /\ B = Span(f, lo, hi) /\ k = Markers(lo, hi)
      BY <1>6, <1>8, <2>2, <3>1 DEF Span
    <3>3. Spells(s, B, hi - lo + 1, k)
      BY <2>3, <3>2, SpellsSpan
    <3> QED
      BY <3>1, <3>3
  <2> QED
    BY <2>2, <2>4, <2>5
<1>11. Spells(s, {st}, 1, a) /\ Spells(s, {cm}, 1, b) /\ Spells(s, {e}, 1, x)
  <2>1. st \in 1..N /\ cm \in 1..N /\ e \in 1..N
    BY <1>4 DEF Placed
  <2>2. s[st].k = "start" /\ s[st].mode = mode
    <3>1. st \in At(s, "start") /\ s[st].mode = "positive"
      BY <1>4 DEF Placed
    <3> QED
      BY <1>1, <3>1 DEF At
  <2>3. s[cm].k = "complete"
    <3>1. cm \in At(s, "complete")
      BY <1>4 DEF Placed
    <3> QED
      BY <3>1 DEF At
  <2>4. s[e].k = "exit" /\ s[e].code = 10
    BY <1>4, <2>1 DEF Placed
  <2>5. /\ Skeleton(s[st]) = <<"start", mode>> /\ Skeleton(s[cm]) = <<"other", "complete">>
        /\ Skeleton(s[e]) = <<"exit", 10>>
    BY <2>2, <2>3, <2>4 DEF Skeleton
  <2>6. st \in Nat /\ cm \in Nat /\ e \in Nat
    BY <1>3, <2>1
  <2> QED
    BY <1>9, <2>5, <2>6, SpellsOne
<1>12. Spells(s, F, 28, t1 \o t2)
  BY <1>2, <1>5, <1>8, PositiveClean, SpellsCycles
<1>13. /\ \A n \in A : n \in Nat /\ n <= f[16]
       /\ \A n \in B : n \in Nat /\ f[17] <= n /\ n < e
       /\ f[16] \in Nat /\ f[17] \in Nat
  <2>1. /\ \A i \in 1..18 : f[i] \in Nat /\ f[i] < e
        /\ \A i, j \in 1..18 : i <= j => f[i] <= f[j]
    <3>1. \A i \in 1..18 : f[i] \in 1..N /\ i # 0
      <4>1. \A i \in 1..18 : f[i] \in 1..N
        BY <1>4 DEF Staged
      <4>2. \A i \in 1..18 : i # 0
        OBVIOUS
      <4> QED
        BY <4>1, <4>2
    <3>2. \A i \in 1..18 : idx(s, f[i]) = i
      BY <1>4 DEF Staged
    <3>3. \A n \in 1..N : idx(s, n) # 0 => n < e
      BY <1>4 DEF Placed
    <3>4. \A i \in 1..18 : f[i] < e
      BY <3>1, <3>2, <3>3
    <3>5. \A i, j \in 1..18 : i < j => f[i] < f[j]
      BY <1>4 DEF Staged, Increasing
    <3>6. \A i, j \in 1..18 : i <= j => i < j \/ i = j
      OBVIOUS
    <3>7. \A i \in 1..18 : f[i] \in Nat
      <4>1. \A n \in 1..N : n \in Nat
        BY <1>3
      <4> QED
        BY <3>1, <4>1
    <3>8. ASSUME NEW i \in 1..18, NEW j \in 1..18, i <= j PROVE f[i] <= f[j]
      <4>1. i < j => f[i] < f[j]
        BY <3>5
      <4>2. i < j \/ i = j
        BY <3>6, <3>8
      <4>3. f[i] \in Nat /\ f[j] \in Nat
        BY <3>7
      <4>4. i = j => f[i] = f[j]
        OBVIOUS
      <4>5. PICK y, z : y = f[i] /\ z = f[j]
        OBVIOUS
      <4>6. y \in Nat /\ z \in Nat /\ (y < z \/ y = z)
        BY <4>1, <4>2, <4>3, <4>4, <4>5
      <4>7. y <= z
        BY <4>6
      <4> QED
        BY <4>5, <4>7
    <3> QED
      BY <3>4, <3>7, <3>8
  <2>2. \A i \in 1..16 : i \in 1..18 /\ i <= 16
    OBVIOUS
  <2>3. \A i \in 17..18 : i \in 1..18 /\ 17 <= i
    OBVIOUS
  <2>4. 16 \in 1..18 /\ 17 \in 1..18
    OBVIOUS
  <2> QED
    BY <1>6, <2>1, <2>2, <2>3, <2>4
<1>14. /\ f[16] < st /\ st < cm /\ cm < f[17] /\ st \in Nat /\ cm \in Nat /\ e \in Nat
       /\ \A n \in F : n \in Nat /\ st < n /\ n < cm
  <2>1. F \subseteq 1..N
    BY <1>1, <1>5, LogIs DEF Cycles
  <2>2. st \in 1..N /\ cm \in 1..N /\ e \in 1..N
    BY <1>4 DEF Placed
  <2> QED
    BY <1>3, <1>4, <1>5, <2>1, <2>2 DEF Placed
<1>15. PICK w : w = (((((m \o a) \o (t1 \o t2)) \o b) \o k) \o x)
  OBVIOUS
<1>16. Spells(s, A \cup {st} \cup F \cup {cm} \cup B \cup {e}, 49, w)
  <2>1. PICK u1, u2, u3, u4, v :
          u1 = m \o a /\ v = t1 \o t2 /\ u2 = u1 \o v /\ u3 = u2 \o b /\ u4 = u3 \o k /\ w = u4 \o x
    BY <1>15
  <2>2. PICK A1, A2, A3, A4 :
          A1 = A \cup {st} /\ A2 = A1 \cup F /\ A3 = A2 \cup {cm} /\ A4 = A3 \cup B
    OBVIOUS
  <2>3. \A n \in A1 : n \in Nat /\ n <= st
    BY <1>13, <1>14, <2>2
  <2>4. \A n \in A2 : n \in Nat /\ n < cm
    BY <1>14, <2>2, <2>3
  <2>5. \A n \in A3 : n \in Nat /\ n <= cm
    BY <1>14, <2>2, <2>4
  <2>6. \A n \in A4 : n \in Nat /\ n < e
    <3>1. f[17] < e
      <4>1. 17 \in 17..18
        OBVIOUS
      <4> QED
        BY <1>6, <1>13, <4>1
    <3> QED
      BY <1>13, <1>14, <2>2, <2>5, <3>1
  <2>7. Spells(s, A1, 17, u1)
    <3>1. \A p \in A, q \in {st} : p < q
      BY <1>13, <1>14
    <3>2. Spells(s, A1, 16 + 1, u1)
      BY <1>10, <1>11, <2>1, <2>2, <3>1, SpellsJoin
    <3> QED
      BY <3>2
  <2>8. Spells(s, A2, 45, u2)
    <3>1. \A p \in A1, q \in F : p < q
      BY <1>14, <2>3
    <3>2. Spells(s, A2, 17 + 28, u2)
      BY <1>12, <2>1, <2>2, <2>7, <3>1, SpellsJoin
    <3> QED
      BY <3>2
  <2>9. Spells(s, A3, 46, u3)
    <3>1. \A p \in A2, q \in {cm} : p < q
      BY <2>4
    <3>2. Spells(s, A3, 45 + 1, u3)
      BY <1>11, <2>1, <2>2, <2>8, <3>1, SpellsJoin
    <3> QED
      BY <3>2
  <2>10. Spells(s, A4, 48, u4)
    <3>1. \A p \in A3, q \in B : p < q
      BY <1>13, <1>14, <2>5
    <3>2. Spells(s, A4, 46 + 2, u4)
      BY <1>10, <2>1, <2>2, <2>9, <3>1, SpellsJoin
    <3> QED
      BY <3>2
  <2>11. Spells(s, A4 \cup {e}, 49, w)
    <3>1. \A p \in A4, q \in {e} : p < q
      BY <2>6
    <3>2. Spells(s, A4 \cup {e}, 48 + 1, w)
      BY <1>11, <2>1, <2>10, <3>1, SpellsJoin
    <3> QED
      BY <3>2
  <2> QED
    BY <2>2, <2>11
<1>17. PICK es : es = Essence(s, "positive")
  OBVIOUS
<1>18. /\ Skeletons(es) = w /\ DOMAIN es = 1..49 /\ Len(es) = 49
       /\ Takes(es, s, 49, Kept(s, C, 18, f))
  <2>1. PICK K, n : K = 18 /\ n = 49 /\ K >= 5
    OBVIOUS
  <2>3. /\ Spells(s, Kept(s, Counts(s, mode), K, f), n, w)
        /\ Staged(s, N, K, f) /\ Bootstraps(s, N, Counts(s, mode), f)
    BY <1>1, <1>4, <1>5, <1>7, <1>16, <2>1
  <2>4. /\ Skeletons(Essence(s, mode)) = w
        /\ DOMAIN Essence(s, mode) = 1..n /\ Len(Essence(s, mode)) = n
        /\ Takes(Essence(s, mode), s, n, Kept(s, Counts(s, mode), K, f))
    <3>1. DOMAIN s = 1..N /\ N \in Nat
      BY <1>3
    <3>2. K >= 5
      BY <2>1
    <3>3. Skeletons(Essence(s, mode)) = w
      BY <2>3, <3>1, <3>2, EssenceTakes
    <3>4. DOMAIN Essence(s, mode) = 1..n
      BY <2>3, <3>1, <3>2, EssenceTakes
    <3>5. Len(Essence(s, mode)) = n
      BY <2>3, <3>1, <3>2, EssenceTakes
    <3>6. Takes(Essence(s, mode), s, n, Kept(s, Counts(s, mode), K, f))
      BY <2>3, <3>1, <3>2, EssenceTakes
    <3> QED
      BY <3>3, <3>4, <3>5, <3>6
  <2> QED
    BY <1>1, <1>5, <1>17, <2>1, <2>4
<1>19. IsList(m, 16) /\ IsList(a, 1) /\ IsList(k, 2) /\ IsList(x, 1) /\ IsList(b, 1)
  BY <1>10, <1>11, SpellsList
<1>20. IsList(t1, 14) /\ IsList(t2, 14)
  <2>1. PICK n, c1, c2 : n = 13 /\ n \in Nat /\ c1 = 1 /\ c2 = 2 /\ c1 \in {1, 2} /\ c2 \in {1, 2}
    OBVIOUS
  <2>2. IsList(CYCLE_STAGES, n)
    BY <2>1 DEF IsList, CYCLE_STAGES
  <2>3. IsList(CycleLog(c1, n), n + 1) /\ IsList(CycleLog(c2, n), n + 1)
    BY <2>1, <2>2, CycleLogIs
  <2> QED
    BY <1>8, <2>1, <2>3
<1>21. w = TrueLog(mode)
  <2>1. PICK u : u = m \o a
    OBVIOUS
  <2>2. IsList(u, 17)
    <3>1. Joins(u, m, 16, a, 1)
      BY <1>19, <2>1, ConcatAt
    <3> QED
      BY <3>1 DEF Joins
  <2>3. (u \o t1) \o t2 = u \o (t1 \o t2)
    <3>1. Associates(u, t1, t2)
      BY <1>20, <2>2, ConcatAssoc
    <3> QED
      BY <3>1 DEF Associates
  <2>4. TrueLog(mode) = ((((m \o a) \o t1) \o t2 \o b) \o k) \o x
    BY <1>1, <1>8, <1>9 DEF TrueLog
  <2> QED
    BY <1>15, <2>1, <2>3, <2>4
<1>22. ~es[48].more
  <2>1. PICK p : Enumerates(p, 49, Kept(s, C, 18, f)) /\ \A i \in 1..49 : es[i] = s[p[i]]
    BY <1>18 DEF Takes
  <2>2. w[48] = <<"done">>
    <3>1. PICK u, v : v = ((m \o a) \o (t1 \o t2)) \o b /\ u = v \o k
      OBVIOUS
    <3>2. IsList(v, 46)
      <4>1. PICK v1, v2, v3 : v1 = m \o a /\ v2 = t1 \o t2 /\ v3 = v1 \o v2
        OBVIOUS
      <4>2. Joins(v1, m, 16, a, 1) /\ Joins(v2, t1, 14, t2, 14)
        BY <1>19, <1>20, <4>1, ConcatAt
      <4>3. IsList(v1, 17) /\ IsList(v2, 28)
        BY <4>2 DEF Joins
      <4>4. Joins(v3, v1, 17, v2, 28)
        BY <4>1, <4>3, ConcatAt
      <4>5. IsList(v3, 45)
        BY <4>4 DEF Joins
      <4>6. Joins(v, v3, 45, b, 1)
        BY <1>19, <3>1, <4>1, <4>5, ConcatAt
      <4> QED
        BY <4>6 DEF Joins
    <3>3. Joins(u, v, 46, k, 2)
      BY <1>19, <3>1, <3>2, ConcatAt
    <3>4. IsList(u, 48)
      BY <3>3 DEF Joins
    <3>5. Joins(w, u, 48, x, 1)
      BY <1>15, <1>19, <3>1, <3>4, ConcatAt
    <3>6. w[48] = u[48] /\ u[2 + 46] = k[2]
      <4>1. 48 \in 1..48 /\ 2 \in 1..2
        OBVIOUS
      <4> QED
        BY <3>3, <3>5, <4>1 DEF Joins
    <3>7. k[2] = <<MARKERS[18]>>
      BY <1>8 DEF Markers
    <3> QED
      BY <3>6, <3>7, MarkersAre
  <2>3. PICK n, l : n = p[48] /\ l = es[48]
    OBVIOUS
  <2>4. 48 \in 1..49
    OBVIOUS
  <2>5. n \in Kept(s, C, 18, f) /\ l = s[n]
    BY <2>1, <2>3, <2>4 DEF Enumerates
  <2>6. n \in 1..N
    <3>1. C \subseteq 1..N
      BY <1>7 DEF Bootstraps
    <3>2. \A i \in 1..18 : f[i] \in 1..N
      BY <1>4 DEF Staged
    <3> QED
      BY <2>5, <3>1, <3>2 DEF Kept
  <2>7. Skeleton(l) = <<"done">>
    <3>1. Skeletons(es)[48] = Skeleton(es[48])
      BY <1>18, <2>4 DEF Skeletons
    <3> QED
      BY <1>18, <2>2, <2>3, <3>1
  <2>8. l.k = "marker" /\ l.m = "done"
    <3>1. l.k \in Kinds
      BY <1>1, <2>5, <2>6, LogIs, LineIs
    <3> QED
      BY <2>7, <3>1 DEF Skeleton, Kinds
  <2>9. idx(s, n) = 18
    <3>1. 18 \in 1..18
      OBVIOUS
    <3> QED
      BY <2>5, <2>8, <3>1, IndexIs, MarkersAre DEF idx
  <2>10. n = f[18]
    <3>1. \A j \in 1..18 : idx(s, f[j]) = j
      BY <1>4 DEF Staged
    <3>2. PICK j \in 1..18 : n = f[j]
      <4>1. idx(s, n) # 0 /\ ~(idx(s, n) = 4)
        BY <2>9
      <4> QED
        BY <1>4, <2>6, <4>1 DEF Staged
    <3>3. j = 18
      BY <2>9, <3>1, <3>2
    <3> QED
      BY <3>2, <3>3
  <2> QED
    BY <1>4, <2>3, <2>5, <2>10 DEF Placed
<1>23. TrueRegisters(s, "positive")
  BY <1>2, PositiveClean, PositiveRegisters
<1>24. [i \in DOMAIN es |-> Skeleton(es[i])] = TrueLog("positive")
  BY <1>1, <1>18, <1>21 DEF Skeletons
<1>25. ~es[Len(es) - 1].more
  <2>1. Len(es) - 1 = 48
    BY <1>18
  <2> QED
    BY <1>22, <2>1
<1> QED
  BY <1>17, <1>23, <1>24, <1>25 DEF Genuine

-----------------------------------------------------------------------------
(* A negative log: its lines and their order. *)

\* What it means that parse_vm_serial finds nothing in a negative log, check by check.
LEMMA NegativeClean ==
  ASSUME NEW s, NEW mode, negative_errors(s, mode) = {}
  PROVE  /\ At(s, "complete") = {} /\ timer_at(s) = {}
         /\ Cardinality(At(s, "vmfail")) = 1 /\ one_exit(s, 17)
         /\ s[Min(At(s, "vmfail"))].cycle = 1
         /\ At(s, "vmfail") # {} => /\ s[Min(At(s, "vmfail"))].stage = expected_stage(mode)
                                    /\ s[Min(At(s, "vmfail"))].reason = expected_reason(mode)
         /\ check_n6_prefix(s) = {} /\ check_negative_sequence(s, mode) = {}
         /\ check_cycle_semantics(s, FALSE) = {}
<1>1. PICK r : r =
        [base_failed |-> parse_serial(s).transcript_errors # {},
         no_complete |-> At(s, "complete") = {},
         no_done     |-> done_at(s) = {},
         no_timer    |-> timer_at(s) = {},
         no_success  |-> \A n \in At(s, "exit") : s[n].code # 10,
         one_fail    |-> Cardinality(At(s, "vmfail")) = 1,
         fail_cycle  |-> Cardinality(At(s, "vmfail")) = 1 => s[Min(At(s, "vmfail"))].cycle = 1,
         exit_vm     |-> one_exit(s, 17),
         fail_stage  |-> At(s, "vmfail") # {} => s[Min(At(s, "vmfail"))].stage = expected_stage(mode),
         fail_reason |-> At(s, "vmfail") # {} => s[Min(At(s, "vmfail"))].reason = expected_reason(mode)]
  BY ZenonT(60)
<1>2. PICK x, y, z : /\ x = check_n6_prefix(s) /\ y = check_negative_sequence(s, mode)
                     /\ z = check_cycle_semantics(s, FALSE)
  OBVIOUS
<1>3. negative_errors(s, mode) = UNION {Broken(r), x, y, z}
  BY <1>1, <1>2 DEF negative_errors
<1>4. \A X : (\A u \in X : u \subseteq {}) \/ UNION X # {}
  OBVIOUS
<1>5. \A u \in {Broken(r), x, y, z} : u = {}
  BY <1>3, <1>4
<1>6. Broken(r) = {} /\ x = {} /\ y = {} /\ z = {}
  BY <1>5
<1>7. /\ r.no_complete /\ r.no_timer /\ r.one_fail /\ r.fail_cycle /\ r.exit_vm
      /\ r.fail_stage /\ r.fail_reason
  BY <1>1, <1>6 DEF Broken
<1>8. /\ At(s, "complete") = {} /\ timer_at(s) = {}
      /\ Cardinality(At(s, "vmfail")) = 1 /\ one_exit(s, 17)
      /\ s[Min(At(s, "vmfail"))].cycle = 1
      /\ At(s, "vmfail") # {} => /\ s[Min(At(s, "vmfail"))].stage = expected_stage(mode)
                                 /\ s[Min(At(s, "vmfail"))].reason = expected_reason(mode)
  BY <1>1, <1>7
<1> QED
  BY <1>2, <1>6, <1>8

\* The lines of a negative run: start, the fixture and the stages, the failure, the exit.
NegativeWant(mode) ==
  ((<<<<"start">>>> \o Want(1, required_stages(mode))) \o <<<<"fail", 1>>>>) \o <<<<"exit">>>>

\* When _check_negative_sequence (transcript_vm.py) finds nothing, the run reached exactly the
\* stages required, and its events are those of the artifact.
LEMMA SequenceClean ==
  ASSUME NEW s, NEW mode, check_negative_sequence(s, mode) = {},
         NEW st \in Nat, At(s, "start") = {st}, NEW fl \in Nat, At(s, "vmfail") = {fl},
         NEW e \in Nat, At(s, "exit") = {e}, NEW I, I = {st, fl, e} \cup Cycles(s)
  PROVE  /\ StageNames(s, 1) = required_stages(mode)
         /\ Events(s, I) = NegativeWant(mode)
         /\ mode = "skip-switch" => check_skip_switch_observed(s) = {}
         /\ mode # "skip-switch" => check_writable_ro_observed(s) = {}
<1>1. PICK fails, exits, starts, fx :
        /\ fails = At(s, "vmfail") /\ exits = At(s, "exit") /\ starts = At(s, "start")
        /\ fx = Fixtures(s)
  OBVIOUS
<1>2. PICK firsts : firsts = (IF fails = {} THEN {} ELSE {Min(fails)})
                               \cup (IF exits = {} THEN {} ELSE {Min(exits)})
  OBVIOUS
<1>3. PICK events : events = {Min(starts)} \cup At(s, "fixture") \cup At(s, "cycle") \cup firsts
  OBVIOUS
<1>4. PICK got : got = Selected(s, events)
  OBVIOUS
<1>5. PICK r : r =
        [cycle_two  |-> \A n \in At(s, "fixture") \cup At(s, "cycle") : s[n].cycle = 1,
         fixture    |-> [i \in DOMAIN fx |-> fx[i].cycle] = <<1>>,
         stages     |-> StageNames(s, 1) = required_stages(mode),
         order      |-> [i \in DOMAIN got |-> event(got[i])] =
                          <<<<"start">>>> \o Want(1, required_stages(mode))
                            \o (IF fails = {} THEN << >> ELSE <<<<"fail", 1>>>>)
                            \o (IF exits = {} THEN << >> ELSE <<<<"exit">>>>),
         after_fail |-> fails # {} => \A n \in vm_line_numbers(s) : n <= Min(fails),
         after_exit |-> exits # {} => \A n \in vm_line_numbers(s) : n <= Min(exits)]
  OBVIOUS
<1>6. check_negative_sequence(s, mode) =
        IF starts = {} THEN {}
        ELSE Broken(r) \cup (IF mode = "skip-switch" THEN check_skip_switch_observed(s)
                                                     ELSE check_writable_ro_observed(s))
  BY <1>1, <1>2, <1>3, <1>4, <1>5 DEF check_negative_sequence
<1>7. starts # {} /\ fails # {} /\ exits # {}
  BY <1>1
<1>8. /\ Broken(r) = {}
      /\ mode = "skip-switch" => check_skip_switch_observed(s) = {}
      /\ mode # "skip-switch" => check_writable_ro_observed(s) = {}
  BY <1>6, <1>7
<1>9. r.stages /\ r.order
  BY <1>5, <1>8 DEF Broken
<1>10. [i \in DOMAIN got |-> event(got[i])] =
         ((<<<<"start">>>> \o Want(1, required_stages(mode))) \o <<<<"fail", 1>>>>) \o <<<<"exit">>>>
  BY <1>5, <1>7, <1>9
<1>11. events = I
  <2>1. Min(starts) = st /\ Min(fails) = fl /\ Min(exits) = e
    BY <1>1, MinMaxOne
  <2> QED
    BY <1>2, <1>3, <1>7, <2>1 DEF Cycles
<1>12. Events(s, events) = NegativeWant(mode)
  BY <1>4, <1>10 DEF Events, NegativeWant
<1> QED
  BY <1>5, <1>8, <1>9, <1>11, <1>12

\* A cursor that has come to the last trap has read its line.
LEMMA N6Prefix ==
  ASSUME NEW s, NEW st \in Nat, At(s, "start") = {st}, st > 0, check_n6_prefix(s) = {}
  PROVE  \E n \in 1..(st - 1) : indexIn(N6_MARKERS, s[n]) = 16
<1>0. Min(At(s, "start")) = st
  BY MinMaxOne
<1>1. PICK N : N = Min(At(s, "start")) - 1 /\ N = st - 1 /\ N \in Nat
  BY <1>0
<1> DEFINE Zero == [cursor |-> 0, errors |-> {}]
           Turn(a, l) == CHOOSE r \in {n6Line(b, l) : b \in {a}} : TRUE
           Lists(h, m) ==
             /\ h = [k \in 0..m |-> h[k]] /\ h[0] = Zero
             /\ \A k \in 1..m : h[k] = Turn(h[k - 1], s[k])
           Step(h) == h = [k \in 0..N |-> IF k = 0 THEN Zero ELSE Turn(h[k - 1], s[k])]
           Have == {m \in 0..N : \E h : Lists(h, m)}
<1>2. \A a, l : Turn(a, l) = n6Line(a, l)
  OBVIOUS
<1> HIDE DEF Turn, Zero
<1>3. 0 \in Have
  <2>1. PICK h : h = [k \in 0..0 |-> Zero]
    OBVIOUS
  <2>2. Lists(h, 0)
    BY <2>1
  <2> HIDE DEF Lists
  <2> QED
    BY <1>1, <2>2
<1>4. ASSUME NEW m \in 1..N, m - 1 \in Have PROVE m \in Have
  <2>1. m - 1 \in 0..N /\ m \in 0..N /\ m \in Nat
    BY <1>1
  <2>2. PICK g : Lists(g, m - 1)
    BY <1>4
  <2>3. PICK h : h = [k \in 0..m |-> IF k = m THEN Turn(g[m - 1], s[m]) ELSE g[k]]
    OBVIOUS
  <2>4. h = [k \in 0..m |-> h[k]]
    BY <2>3
  <2>5. h[0] = Zero
    BY <2>1, <2>2, <2>3
  <2>6. ASSUME NEW k \in 1..m PROVE h[k] = Turn(h[k - 1], s[k])
    <3>1. k \in 0..m /\ k - 1 \in 0..m /\ k - 1 # m
      BY <2>1
    <3>2. h[k - 1] = g[k - 1]
      BY <2>3, <3>1
    <3>3. CASE k = m
      BY <2>3, <3>1, <3>2, <3>3
    <3>4. CASE k # m
      <4>1. k \in 1..(m - 1)
        BY <3>4, <2>1
      <4>2. g[k] = Turn(g[k - 1], s[k]) /\ h[k] = g[k]
        BY <2>2, <2>3, <3>1, <3>4, <4>1
      <4> QED
        BY <3>2, <4>2
    <3> QED
      BY <3>3, <3>4
  <2>7. Lists(h, m)
    BY <2>4, <2>5, <2>6
  <2> HIDE DEF Lists
  <2> QED
    BY <2>1, <2>7
<1>5. N \in Have
  <2> HIDE DEF Have
  <2>1. \A k \in 0..N : k \in Have
    BY <1>1, <1>3, <1>4, UpTo
  <2> QED
    BY <1>1, <2>1
<1>6. PICK g : Lists(g, N)
  BY <1>5
<1>7. Step(g)
  <2>1. \A k \in 0..N : k = 0 \/ k \in 1..N
    BY <1>1
  <2> QED
    BY <1>6, <2>1
<1>8. PICK f : f = CHOOSE h : h = [k \in 0..(Min(At(s, "start")) - 1) |->
                                     IF k = 0 THEN Zero ELSE Turn(h[k - 1], s[k])]
  OBVIOUS
<1>9. Step(f)
  BY <1>1, <1>7, <1>8
<1>10. f[N].cursor = 16
  <2>1. PICK M : M = Min(At(s, "start")) - 1
    OBVIOUS
  <2>2. At(s, "start") # {}
    OBVIOUS
  <2>3. check_n6_prefix(s) = f[M].errors \cup Broken([n6_missing |-> f[M].cursor = Len(N6_MARKERS)])
    BY <1>8, <2>1, <2>2 DEF check_n6_prefix, Turn, Zero, Once
  <2>4. PICK r : r = [n6_missing |-> f[M].cursor = Len(N6_MARKERS)]
    OBVIOUS
  <2>5. Broken(r) = {}
    BY <2>3, <2>4
  <2>6. r.n6_missing
    BY <2>4, <2>5 DEF Broken
  <2> QED
    BY <1>1, <2>1, <2>4, <2>6, N6IndexIs
<1>11. f[0] = Zero /\ \A k \in 1..N : f[k] = Turn(f[k - 1], s[k])
  BY <1>1, <1>9
<1> DEFINE Read == {k \in 0..N : f[k].cursor = 0 \/ \E n \in 1..k : indexIn(N6_MARKERS, s[n]) = f[k].cursor}
<1>12. 0 \in Read
  BY <1>1, <1>11 DEF Zero
<1>13. ASSUME NEW k \in 1..N, k - 1 \in Read PROVE k \in Read
  <2>1. PICK a, i : a = f[k - 1] /\ i = indexIn(N6_MARKERS, s[k])
    OBVIOUS
  <2>2. f[k] = n6Line(a, s[k])
    BY <1>2, <1>11, <2>1
  <2>3. f[k].cursor = i \/ f[k].cursor = a.cursor
    <3>1. f[k] = [a EXCEPT !.cursor = i] => f[k].cursor = i \/ f[k].cursor = a.cursor
      OBVIOUS
    <3>2. \A E : f[k] = [a EXCEPT !.errors = E] => f[k].cursor = a.cursor
      OBVIOUS
    <3> QED
      BY <2>1, <2>2, <3>1, <3>2 DEF n6Line
  <2> QED
    BY <1>13, <2>1, <2>3
<1> HIDE DEF Read
<1>14. N \in Read
  <2>1. \A k \in 0..N : k \in Read
    BY <1>1, <1>12, <1>13, UpTo
  <2> QED
    BY <1>1, <2>1
<1> QED
  BY <1>1, <1>10, <1>14 DEF Read

\* What a negative artifact prints after its markers.
NegativeLog(mode, n) ==
  ((<<<<"start", mode>>>> \o CycleLog(1, n))
     \o <<<<"fail", 1, expected_stage(mode), expected_reason(mode)>>>>) \o <<<<"exit", 17>>>>

\* Where the lines of a negative log are.
Fell(s, N, mode, f, st, fl, e) ==
  /\ st \in 1..N /\ At(s, "start") = {st} /\ s[st].mode = mode
  /\ fl \in 1..N /\ At(s, "vmfail") = {fl} /\ s[fl].cycle = 1
  /\ s[fl].stage = expected_stage(mode) /\ s[fl].reason = expected_reason(mode)
  /\ e \in 1..N /\ At(s, "exit") = {e} /\ s[e].code = 17
  /\ f[16] < st

\* Where the lines of a clean negative log are: the stages up to the last trap, the one start,
\* failure and exit, in their order.
LEMMA NegativeFell ==
  ASSUME NEW s \in Seq(Line), NEW mode \in {"skip-switch", "writable-ro"},
         line_errors(s, mode) = {}, negative_errors(s, mode) = {},
         parse_serial(s).transcript_errors \cap {"stage_order"} = {},
         NEW N, N = Len(s)
  PROVE  \E f, st, fl, e : Staged(s, N, 16, f) /\ Fell(s, N, mode, f, st, fl, e)
<1>1. N \in Nat /\ \A k : At(s, k) \subseteq 1..N
  BY LogIs
<1>2. PICK st \in 1..N : At(s, "start") = {st}
  BY <1>1, LinesClean, OneOf
<1>3. s[st].mode = mode
  BY <1>2, LinesClean
<1>4. PICK fl \in 1..N : At(s, "vmfail") = {fl}
  BY <1>1, NegativeClean, OneOf
<1>5. s[fl].cycle = 1 /\ s[fl].stage = expected_stage(mode) /\ s[fl].reason = expected_reason(mode)
  <2>1. Min({fl}) = fl
    BY <1>1, MinMaxOne
  <2>2. Min(At(s, "vmfail")) = fl /\ At(s, "vmfail") # {}
    BY <1>4, <2>1
  <2>3. s[Min(At(s, "vmfail"))].cycle = 1
    BY NegativeClean
  <2>4. /\ s[Min(At(s, "vmfail"))].stage = expected_stage(mode)
        /\ s[Min(At(s, "vmfail"))].reason = expected_reason(mode)
    BY <2>2, NegativeClean
  <2> QED
    BY <2>2, <2>3, <2>4
<1>6. one_exit(s, 17)
  BY NegativeClean
<1>7. PICK e \in 1..N : At(s, "exit") = {e}
  BY <1>1, <1>6, OneOf DEF one_exit
<1>8. s[e].code = 17
  BY <1>6, <1>7 DEF one_exit
<1>9. PICK c, x : Counted(s, N, c, x) /\ Means(s, N, c, x, parse_serial(s).transcript_errors)
  BY <1>1, ParseMeans
<1>10. \A n \in 1..N : idx(s, n) \in {0, c[n - 1] + 1} \/ (idx(s, n) = 4 /\ c[n - 1] = 4)
  <2>1. "stage_order" \notin parse_serial(s).transcript_errors
    OBVIOUS
  <2> QED
    BY <1>9, <2>1 DEF Means
<1>11. PICK K, f : K = c[N] /\ Staged(s, N, K, f)
  BY <1>1, <1>9, <1>10, StagesInOrder
<1>12. /\ K \in 0..18 /\ \A j \in 1..K : f[j] \in 1..N /\ idx(s, f[j]) = j
       /\ \A n \in 1..N : idx(s, n) # 0 => (\E j \in 1..K : n = f[j]) \/ idx(s, n) = 4
  BY <1>11 DEF Staged
<1>13. ~(17 <= K)
  <2>1. timer_at(s) = {}
    BY NegativeClean
  <2>2. MarkerAt(s, MARKERS[17]) = {}
    BY <2>1, MarkersAre DEF timer_at
  <2>3. 17 \in 1..18 /\ 17 # 4
    OBVIOUS
  <2>4. MarkerAt(s, MARKERS[17]) = IF 17 <= K THEN {f[17]} ELSE {}
    BY <1>11, <2>3, MarkerAtIs
  <2> QED
    BY <2>2, <2>4
<1>14. check_n6_prefix(s) = {}
  BY NegativeClean
<1>15. PICK n \in 1..(st - 1) : indexIn(N6_MARKERS, s[n]) = 16
  <2>1. st \in Nat /\ st > 0
    BY <1>1
  <2> QED
    BY <1>2, <1>14, <2>1, N6Prefix
<1>16. idx(s, n) = 16 /\ n \in 1..N /\ n < st
  <2>1. indexIn(MARKERS, s[n]) = 16
    <3>1. 16 # 0
      OBVIOUS
    <3> QED
      BY <1>15, <3>1, N6IndexIs
  <2> QED
    BY <1>1, <2>1 DEF idx
<1>17. 16 <= K /\ n = f[16]
  <2>1. idx(s, n) # 0 /\ ~(idx(s, n) = 4)
    BY <1>16
  <2>2. PICK j \in 1..K : n = f[j]
    BY <1>12, <1>16, <2>1
  <2>3. j = 16
    BY <1>12, <1>16, <2>2
  <2> QED
    BY <1>12, <2>2, <2>3
<1>18. K = 16
  BY <1>12, <1>13, <1>17
<1>19. Staged(s, N, 16, f) /\ f[16] < st
  BY <1>11, <1>16, <1>17, <1>18
<1>20. Fell(s, N, mode, f, st, fl, e)
  BY <1>2, <1>3, <1>4, <1>5, <1>7, <1>8, <1>19 DEF Fell
<1> QED
  BY <1>19, <1>20

\* The stages a negative artifact reaches are the first ones of a cycle.
LEMMA NegativeLists ==
  ASSUME NEW mode \in {"skip-switch", "writable-ro"}, NEW n, n = (IF mode = "skip-switch" THEN 5 ELSE 6)
  PROVE  /\ n \in Nat /\ IsList(required_stages(mode), n)
         /\ \A i \in 1..n : required_stages(mode)[i] = CYCLE_STAGES[i]
<1>1. n \in Nat
  OBVIOUS
<1>2. required_stages(mode) = [i \in 1..n |-> CYCLE_STAGES[i]]
  BY RequiredAre
<1> QED
  BY <1>1, <1>2 DEF IsList

\* The lines I spell t and begin at st.
Tells(s, I, N, st, n, t) == Spells(s, I, n, t) /\ I \subseteq 1..N /\ \A m \in I : st <= m

\* The lines after the last trap are the artifact's own.
LEMMA SpellsNegative ==
  ASSUME NEW s \in Seq(Line), NEW mode \in {"skip-switch", "writable-ro"},
         check_cycle_semantics(s, FALSE) = {}, check_negative_sequence(s, mode) = {},
         NEW N, N = Len(s), NEW f, NEW st, NEW fl, NEW e, Fell(s, N, mode, f, st, fl, e),
         NEW n, n = (IF mode = "skip-switch" THEN 5 ELSE 6), NEW I, I = {st, fl, e} \cup Cycles(s)
  PROVE  Tells(s, I, N, st, n + 4, NegativeLog(mode, n))
<1>1. /\ st \in 1..N /\ fl \in 1..N /\ e \in 1..N /\ N \in Nat
      /\ At(s, "start") = {st} /\ At(s, "vmfail") = {fl} /\ At(s, "exit") = {e}
      /\ s[st].mode = mode /\ s[fl].cycle = 1
      /\ s[fl].stage = expected_stage(mode) /\ s[fl].reason = expected_reason(mode)
      /\ s[e].code = 17
  BY LogIs DEF Fell
<1>2. I \subseteq 1..N
  BY <1>1, LogIs DEF Cycles
<1>3. \A m \in I : /\ s[m].k \in {"fixture", "cycle", "vmfail", "start", "exit"}
                   /\ s[m].k = "start" => m = st
                   /\ s[m].k = "vmfail" => m = fl
                   /\ s[m].k = "exit" => m = e
                   /\ s[m].k = "fixture" => m \in At(s, "fixture")
  <2>1. \A k : At(s, k) = {m \in 1..N : s[m].k = k}
    BY LogIs
  <2>2. s[st].k = "start" /\ s[fl].k = "vmfail" /\ s[e].k = "exit"
    <3>1. st \in At(s, "start") /\ fl \in At(s, "vmfail") /\ e \in At(s, "exit")
      BY <1>1
    <3> QED
      BY <3>1 DEF At
  <2>3. \A m \in Cycles(s) : s[m].k \in {"fixture", "cycle"}
    BY <2>1 DEF Cycles
  <2>4. \A m \in I : s[m].k \in {"fixture", "cycle", "vmfail", "start", "exit"}
    BY <2>2, <2>3
  <2>5. \A m \in I : \A k : s[m].k = k => m \in At(s, k)
    BY <1>2, <2>1
  <2> QED
    BY <1>1, <2>4, <2>5
<1>4. PICK full : full = FALSE /\ full \in BOOLEAN
  OBVIOUS
<1>5. PICK first, second : first = compared(s, 1, full) /\ second = IF full THEN compared(s, 2, full) ELSE NoFields
  OBVIOUS
<1>6. \A i \in DOMAIN Fixtures(s) : /\ Fixtures(s)[i].len = FIXTURE_LEN
                                    /\ Fixtures(s)[i].sha = FIXTURE_SHA256[Fixtures(s)[i].cycle]
  <2>1. check_cycle_semantics(s, full) = {}
    BY <1>4
  <2> QED
    BY <1>4, <1>5, <2>1, SemanticsClean
<1>7. Imaged(s, I)
  <2>1. \A m \in At(s, "fixture") : s[m].len = FIXTURE_LEN /\ s[m].sha = FIXTURE_SHA256[s[m].cycle]
    BY <1>6, FixturesImaged
  <2> QED
    BY <1>3, <2>1 DEF Imaged
<1>8. PICK v, u : v = Want(1, required_stages(mode)) /\ u = CycleLog(1, n)
  OBVIOUS
<1>9. n \in Nat /\ Renders(s, I, v, u, n + 1)
  <2>1. PICK t : t = required_stages(mode)
    OBVIOUS
  <2>2. n \in Nat /\ IsList(t, n) /\ \A i \in 1..n : t[i] = CYCLE_STAGES[i]
    BY <2>1, NegativeLists
  <2>3. 1 \in {1, 2}
    OBVIOUS
  <2>4. Renders(s, I, Want(1, t), CycleLog(1, n), n + 1)
    BY <1>7, <2>2, <2>3, RendersCycle
  <2> QED
    BY <1>8, <2>1, <2>2, <2>4
<1>10. PICK a, b, c, d, g, h :
         /\ a = <<"start">> /\ b = <<"start", mode>>
         /\ c = <<"fail", 1>> /\ d = <<"fail", 1, expected_stage(mode), expected_reason(mode)>>
         /\ g = <<"exit">> /\ h = <<"exit", 17>>
  OBVIOUS
<1>11. ASSUME NEW m \in I
       PROVE  /\ event(s[m]) = a => Skeleton(s[m]) = b
              /\ event(s[m]) = c => Skeleton(s[m]) = d
              /\ event(s[m]) = g => Skeleton(s[m]) = h
  <2>1. s[m].k \in {"fixture", "cycle", "vmfail", "start", "exit"}
    BY <1>3
  <2>2. ASSUME event(s[m]) = a PROVE Skeleton(s[m]) = b
    <3>1. s[m].k = "start"
      BY <1>10, <2>1, <2>2, EventIs
    <3> QED
      BY <1>1, <1>3, <1>10, <3>1 DEF Skeleton
  <2>3. ASSUME event(s[m]) = c PROVE Skeleton(s[m]) = d
    <3>1. s[m].k = "vmfail"
      BY <1>10, <2>1, <2>3, EventIs
    <3> QED
      BY <1>1, <1>3, <1>10, <3>1 DEF Skeleton
  <2>4. ASSUME event(s[m]) = g PROVE Skeleton(s[m]) = h
    <3>1. s[m].k = "exit"
      BY <1>10, <2>1, <2>4, EventIs
    <3> QED
      BY <1>1, <1>3, <1>10, <3>1 DEF Skeleton
  <2> QED
    BY <2>2, <2>3, <2>4
<1>12. Renders(s, I, <<a>>, <<b>>, 1) /\ Renders(s, I, <<c>>, <<d>>, 1) /\ Renders(s, I, <<g>>, <<h>>, 1)
  BY <1>11, RendersOne
<1>13. PICK a1, b1, c1, d1, g1, h1 : /\ a1 = <<a>> /\ b1 = <<b>> /\ c1 = <<c>> /\ d1 = <<d>>
                                     /\ g1 = <<g>> /\ h1 = <<h>>
  OBVIOUS
<1>14. PICK w, t : w = ((a1 \o v) \o c1) \o g1 /\ t = ((b1 \o u) \o d1) \o h1
  OBVIOUS
<1>15. Renders(s, I, w, t, n + 4)
  <2>1. Renders(s, I, a1 \o v, b1 \o u, 1 + (n + 1))
    BY <1>9, <1>12, <1>13, RendersJoin
  <2>2. Renders(s, I, (a1 \o v) \o c1, (b1 \o u) \o d1, (1 + (n + 1)) + 1)
    BY <1>12, <1>13, <2>1, RendersJoin
  <2>3. Renders(s, I, w, t, ((1 + (n + 1)) + 1) + 1)
    BY <1>12, <1>13, <1>14, <2>2, RendersJoin
  <2>4. ((1 + (n + 1)) + 1) + 1 = n + 4
    BY <1>9
  <2> QED
    BY <2>3, <2>4
<1>16. w = NegativeWant(mode) /\ t = NegativeLog(mode, n)
  BY <1>8, <1>10, <1>13, <1>14 DEF NegativeWant, NegativeLog
<1>17. Events(s, I) = w
  <2>1. st \in Nat /\ fl \in Nat /\ e \in Nat
    BY <1>1
  <2>2. Events(s, I) = NegativeWant(mode)
    <3>1. At(s, "start") = {st} /\ At(s, "vmfail") = {fl} /\ At(s, "exit") = {e}
      BY <1>1
    <3> QED
      BY <2>1, <3>1, SequenceClean
  <2> QED
    BY <1>16, <2>2
<1>18. Spells(s, I, n + 4, t)
  BY <1>1, <1>2, <1>15, <1>17, RendersSpells
<1>19. ASSUME NEW m \in I PROVE st <= m
  <2>1. w[1] = a
    <3>1. IsList(a1, 1) /\ IsList(v, n + 1) /\ IsList(c1, 1) /\ IsList(g1, 1) /\ a1[1] = a
      BY <1>9, <1>12, <1>13 DEF Renders
    <3>2. PICK w1, w2 : w1 = a1 \o v /\ w2 = w1 \o c1
      OBVIOUS
    <3>3. Joins(w1, a1, 1, v, n + 1)
      BY <3>1, <3>2, ConcatAt
    <3>4. IsList(w1, 1 + (n + 1))
      BY <3>3 DEF Joins
    <3>5. Joins(w2, w1, 1 + (n + 1), c1, 1)
      BY <3>1, <3>2, <3>4, ConcatAt
    <3>6. IsList(w2, (1 + (n + 1)) + 1)
      BY <3>5 DEF Joins
    <3>7. Joins(w, w2, (1 + (n + 1)) + 1, g1, 1)
      BY <1>14, <3>1, <3>2, <3>6, ConcatAt
    <3>8. 1 \in 1..1 /\ 1 \in 1..(1 + (n + 1)) /\ 1 \in 1..((1 + (n + 1)) + 1)
      BY <1>9
    <3> QED
      BY <3>1, <3>3, <3>5, <3>7, <3>8 DEF Joins
  <2>2. PICK k, es : k = Cardinality(I) /\ es = Selected(s, I)
    OBVIOUS
  <2>3. /\ k \in Nat /\ es = [i \in 1..k |-> s[nth(I, i)]]
        /\ \A i \in 1..k : nth(I, i) \in I
        /\ \E i \in 1..k : nth(I, i) = m
        /\ \A i, j \in 1..k : i < j => nth(I, i) < nth(I, j)
    <3>1. N \in Nat /\ I \subseteq 1..N
      BY <1>1, <1>2
    <3>2. k \in Nat /\ \A i \in 1..k : nth(I, i) \in I
      BY <2>2, <3>1, SelectedFrom
    <3>3. \E i \in 1..k : nth(I, i) = m
      <4>1. \E i \in 1..Cardinality(I) : nth(I, i) = m
        BY <3>1, SelectedReaches
      <4> QED
        BY <2>2, <4>1
    <3>4. \A i, j \in 1..k : i < j => nth(I, i) < nth(I, j)
      BY <2>2, <3>1, SelectedFrom
    <3>5. es = [i \in 1..k |-> s[nth(I, i)]]
      BY <2>2 DEF Selected
    <3> QED
      BY <3>2, <3>3, <3>4, <3>5
  <2>4. PICK i \in 1..k : nth(I, i) = m
    BY <2>3
  <2>5. 1 \in 1..k /\ 1 <= i
    BY <2>3
  <2>6. event(es[1]) = w[1]
    <3>1. 1 \in DOMAIN es
      BY <2>3, <2>5
    <3> QED
      BY <1>17, <2>2, <3>1 DEF Events
  <2>7. nth(I, 1) \in I /\ es[1] = s[nth(I, 1)]
    BY <2>3, <2>5
  <2>8. s[nth(I, 1)].k = "start"
    <3>1. s[nth(I, 1)].k \in {"fixture", "cycle", "vmfail", "start", "exit"}
      BY <1>3, <2>7
    <3>2. event(s[nth(I, 1)]) = <<"start">>
      BY <1>10, <2>1, <2>6, <2>7
    <3> QED
      BY <3>1, <3>2, EventIs
  <2>9. nth(I, 1) = st
    BY <1>3, <2>7, <2>8
  <2>10. nth(I, 1) < nth(I, i) \/ 1 = i
    <3>1. \A j, l \in 1..k : j < l => nth(I, j) < nth(I, l)
      BY <2>3
    <3>2. 1 < i \/ 1 = i
      BY <2>5
    <3> QED
      BY <2>5, <3>1, <3>2
  <2>11. st \in Nat /\ m \in Nat
    BY <1>1, <1>2
  <2> QED
    BY <2>4, <2>9, <2>10, <2>11
<1> QED
  BY <1>2, <1>16, <1>18, <1>19 DEF Tells

-----------------------------------------------------------------------------
(* parse_vm_serial accepts only a true negative log. *)

\* The lines that count in a negative log: sixteen markers in order, and I.
KeepsMarkers(s, N, C, f, I) == Bootstraps(s, N, C, f) /\ Kept(s, C, 16, f) = Span(f, 1, 16) \cup I

\* The lines kept of a clean negative log are the sixteen stages and the events of the run.
LEMMA NegativeKept ==
  ASSUME NEW s \in Seq(Line), NEW mode \in {"skip-switch", "writable-ro"},
         At(s, "failure") = {}, At(s, "vmbad") = {}, At(s, "complete") = {},
         NEW N, N = Len(s), NEW f, Staged(s, N, 16, f),
         NEW st, NEW fl, NEW e, Fell(s, N, mode, f, st, fl, e),
         NEW I, I = {st, fl, e} \cup Cycles(s), I \subseteq 1..N, \A m \in I : st <= m,
         NEW C, C = Counts(s, mode)
  PROVE  KeepsMarkers(s, N, C, f, I)
<1>1. /\ \A i \in 1..16 : f[i] \in 1..N
      /\ Increasing(f, 16) /\ N \in Nat
  BY LogIs DEF Staged
<1>2. mode \in MODES
  BY DEF MODES
<1>3. /\ C \subseteq 1..N
      /\ \A n \in 1..N : n \in C <=>
           idx(s, n) # 0 \/ s[n].k \in {"exit", "complete", "start", "fixture", "cycle", "vmfail"}
      /\ \A n \in 1..N : s[n].k \in {"exit", "complete", "start", "fixture", "cycle", "vmfail"} =>
           idx(s, n) = 0
  BY <1>2, CountsAre
<1>4. \A n \in 1..N : n \in I <=> s[n].k \in {"exit", "complete", "start", "fixture", "cycle", "vmfail"}
  <2> SUFFICES ASSUME NEW n \in 1..N
      PROVE  n \in I <=> s[n].k \in {"exit", "complete", "start", "fixture", "cycle", "vmfail"}
    OBVIOUS
  <2>1. \A k : s[n].k = k <=> n \in At(s, k)
    BY LogIs
  <2>2. At(s, "start") = {st} /\ At(s, "vmfail") = {fl} /\ At(s, "exit") = {e}
    BY DEF Fell
  <2>3. n \in Cycles(s) <=> n \in At(s, "fixture") \/ n \in At(s, "cycle")
    BY DEF Cycles
  <2> QED
    BY <2>1, <2>2, <2>3
<1>5. \A n \in 1..N : n \in C <=> idx(s, n) # 0 \/ n \in I
  BY <1>3, <1>4
<1>6. \A n \in I : idx(s, n) = 0
  BY <1>3, <1>4
<1>7. f[5] < st /\ f[5] \in Nat /\ st \in Nat
  <2>1. f[5] < f[16] /\ f[5] \in 1..N /\ f[16] \in 1..N
    BY <1>1 DEF Increasing
  <2>2. st \in 1..N /\ f[16] < st
    BY DEF Fell
  <2>3. \A n \in 1..N : n \in Nat
    BY <1>1
  <2>4. f[5] \in Nat /\ f[16] \in Nat /\ st \in Nat
    BY <2>1, <2>2, <2>3
  <2> QED
    BY <2>1, <2>2, <2>4
<1>8. Bootstraps(s, N, C, f)
  <2>1. \A n \in 1..N : idx(s, n) # 0 => n \in C
    BY <1>5
  <2>2. ASSUME NEW n \in C, n < f[5] PROVE idx(s, n) # 0
    <3>1. n \in Nat /\ n \in 1..N
      BY <1>1, <1>3
    <3>2. n \notin I
      BY <1>7, <2>2, <3>1
    <3> QED
      BY <1>5, <3>1, <3>2
  <2> QED
    BY <1>3, <2>1, <2>2 DEF Bootstraps
<1>9. {n \in C : idx(s, n) = 0} = I
  BY <1>3, <1>5, <1>6
<1> QED
  BY <1>8, <1>9 DEF Kept, Span, KeepsMarkers

\* The log of a negative artifact in which neither parser finds an unexpected line is its true log.
THEOREM NegativeGenuine ==
  ASSUME NEW s \in Seq(Line), NEW mode \in {"skip-switch", "writable-ro"},
         parse_vm_serial(s, mode).transcript_errors = {},
         parse_serial(s).transcript_errors \cap {"stage_order"} = {}
  PROVE  Genuine(s, mode)
<1>1. PICK N, n : N = Len(s) /\ n = (IF mode = "skip-switch" THEN 5 ELSE 6)
  OBVIOUS
<1>2. line_errors(s, mode) = {} /\ negative_errors(s, mode) = {}
  <2>1. parse_vm_serial(s, mode).transcript_errors = line_errors(s, mode) \cup negative_errors(s, mode)
    BY DEF parse_vm_serial
  <2> QED
    BY <2>1
<1>3. N \in Nat /\ DOMAIN s = 1..N
  BY <1>1, LogIs
<1>4. /\ At(s, "failure") = {} /\ At(s, "vmbad") = {} /\ At(s, "complete") = {}
      /\ check_negative_sequence(s, mode) = {} /\ check_cycle_semantics(s, FALSE) = {}
  BY <1>2, LinesClean, NegativeClean
<1>5. PICK f, st, fl, e : Staged(s, N, 16, f) /\ Fell(s, N, mode, f, st, fl, e)
  BY <1>1, <1>2, NegativeFell
<1>6. PICK I, C : I = {st, fl, e} \cup Cycles(s) /\ C = Counts(s, mode)
  OBVIOUS
<1>7. Spells(s, I, n + 4, NegativeLog(mode, n)) /\ I \subseteq 1..N /\ \A m \in I : st <= m
  <2>1. /\ check_negative_sequence(s, mode) = {} /\ check_cycle_semantics(s, FALSE) = {}
        /\ N = Len(s) /\ Fell(s, N, mode, f, st, fl, e) /\ n = (IF mode = "skip-switch" THEN 5 ELSE 6)
        /\ I = {st, fl, e} \cup Cycles(s)
    BY <1>1, <1>4, <1>5, <1>6
  <2>2. Tells(s, I, N, st, n + 4, NegativeLog(mode, n))
    BY <2>1, SpellsNegative
  <2> QED
    BY <2>2 DEF Tells
<1>8. Bootstraps(s, N, C, f) /\ Kept(s, C, 16, f) = Span(f, 1, 16) \cup I
  <2>1. /\ At(s, "failure") = {} /\ At(s, "vmbad") = {} /\ At(s, "complete") = {}
        /\ N = Len(s) /\ Staged(s, N, 16, f) /\ Fell(s, N, mode, f, st, fl, e)
        /\ I = {st, fl, e} \cup Cycles(s) /\ C = Counts(s, mode)
    BY <1>1, <1>4, <1>5, <1>6
  <2>2. I \subseteq 1..N /\ \A m \in I : st <= m
    BY <1>7
  <2>3. KeepsMarkers(s, N, C, f, I)
    BY <2>1, <2>2, NegativeKept
  <2> QED
    BY <2>3 DEF KeepsMarkers
<1>9. PICK A, m, w : A = Span(f, 1, 16) /\ m = Markers(1, 16) /\ w = m \o NegativeLog(mode, n)
  OBVIOUS
<1>10. Spells(s, A, 16, m)
  <2>1. PICK K, lo : K = 16 /\ lo = 1
    OBVIOUS
  <2>2. lo \in 1..K /\ K \in lo..K /\ K - lo + 1 = 16 /\ Staged(s, N, K, f)
    BY <1>5, <2>1
  <2>3. Spells(s, Span(f, lo, K), K - lo + 1, Markers(lo, K))
    BY <2>2, SpellsSpan
  <2> QED
    BY <1>9, <2>1, <2>2, <2>3
<1>11. Spells(s, A \cup I, 16 + (n + 4), w)
  <2>1. \A a \in A, b \in I : a < b
    <3>0. \A k \in 1..N : k \in Nat
      BY <1>3
    <3>1. f[16] < st /\ st \in 1..N
      BY <1>5 DEF Fell
    <3>2. \A i \in 1..16 : f[i] \in 1..N
      BY <1>5 DEF Staged
    <3>3. \A i, j \in 1..16 : i < j => f[i] < f[j]
      BY <1>5 DEF Staged, Increasing
    <3>4. ASSUME NEW i \in 1..16 PROVE f[i] < st
      <4>1. i < 16 \/ i = 16
        OBVIOUS
      <4>2. 16 \in 1..16
        OBVIOUS
      <4>3. f[i] < f[16] \/ f[i] = f[16]
        BY <3>3, <4>1, <4>2
      <4>4. PICK x, y : x = f[i] /\ y = f[16]
        OBVIOUS
      <4>5. x \in Nat /\ y \in Nat /\ st \in Nat
        BY <3>0, <3>1, <3>2, <4>2, <4>4
      <4>6. x < y \/ x = y
        BY <4>3, <4>4
      <4>7. y < st
        BY <3>1, <4>4
      <4> QED
        BY <4>4, <4>5, <4>6, <4>7
    <3>5. \A b \in I : b \in Nat /\ st <= b
      BY <1>3, <1>7
    <3>6. \A i \in 1..16 : f[i] \in Nat
      BY <3>0, <3>2
    <3>7. ASSUME NEW i \in 1..16, NEW b \in I PROVE f[i] < b
      <4>1. PICK x : x = f[i]
        OBVIOUS
      <4>2. x \in Nat /\ st \in Nat /\ b \in Nat /\ st <= b /\ x < st
        BY <3>0, <3>1, <3>4, <3>5, <3>6, <4>1
      <4>3. x < b
        BY <4>2
      <4> QED
        BY <4>1, <4>3
    <3> QED
      BY <1>9, <3>7 DEF Span
  <2>2. PICK t : t = NegativeLog(mode, n)
    OBVIOUS
  <2> QED
    BY <1>7, <1>9, <1>10, <2>1, <2>2, SpellsJoin
<1>12. Skeletons(Essence(s, mode)) = w
  <2>1. PICK K, k : K = 16 /\ k = 16 + (n + 4)
    OBVIOUS
  <2>2. K >= 5
    BY <2>1
  <2>3. /\ Spells(s, Kept(s, Counts(s, mode), K, f), k, w)
        /\ Staged(s, N, K, f) /\ Bootstraps(s, N, Counts(s, mode), f)
    BY <1>5, <1>6, <1>8, <1>9, <1>11, <2>1
  <2> QED
    BY <1>3, <2>2, <2>3, EssenceTakes
<1>13. PICK a, u, d, h : /\ a = <<<<"start", mode>>>> /\ u = CycleLog(1, n)
                         /\ d = <<<<"fail", 1, expected_stage(mode), expected_reason(mode)>>>>
                         /\ h = <<<<"exit", 17>>>>
  OBVIOUS
<1>14. IsList(a, 1) /\ IsList(d, 1) /\ IsList(h, 1) /\ IsList(m, 16)
  <2>1. IsList(m, 16)
    BY <1>10, SpellsList
  <2>2. \A x : IsList(<<x>>, 1)
    BY DEF IsList
  <2> QED
    BY <1>13, <2>1, <2>2
<1>15. n \in Nat /\ IsList(u, n + 1)
  <2>1. PICK c, t : c = 1 /\ c \in {1, 2} /\ t = required_stages(mode)
    OBVIOUS
  <2>2. n \in Nat /\ IsList(t, n)
    BY <1>1, <2>1, NegativeLists
  <2>3. IsList(CycleLog(c, n), n + 1)
    BY <2>1, <2>2, CycleLogIs
  <2> QED
    BY <1>13, <2>1, <2>2, <2>3
<1>16. w = TrueLog(mode)
  <2>1. PICK v, x, y : v = a \o u /\ x = d \o h /\ y = m \o a
    OBVIOUS
  <2>2. Joins(v, a, 1, u, n + 1) /\ Joins(x, d, 1, h, 1) /\ Joins(y, m, 16, a, 1)
    BY <1>14, <1>15, <2>1, ConcatAt
  <2>3. IsList(v, 1 + (n + 1)) /\ IsList(x, 1 + 1) /\ IsList(y, 16 + 1)
    BY <2>2 DEF Joins
  <2>c. PICK lv, lu : lv = 1 + (n + 1) /\ lu = n + 1
    OBVIOUS
  <2>d. IsList(v, lv) /\ IsList(x, 2) /\ IsList(u, lu)
    BY <1>15, <2>3, <2>c
  <2>4. w = m \o ((v \o d) \o h)
    BY <1>9, <1>13, <2>1 DEF NegativeLog
  <2>5. (v \o d) \o h = v \o x
    <3>0. PICK l1 : IsList(v, lv) /\ IsList(d, l1) /\ IsList(h, l1)
      BY <1>14, <2>d
    <3>1. Associates(v, d, h)
      BY <3>0, ConcatAssoc
    <3> QED
      BY <2>1, <3>1 DEF Associates
  <2>6. (m \o v) \o x = m \o (v \o x)
    <3>0. PICK l1, l2 : IsList(m, l1) /\ IsList(v, lv) /\ IsList(x, l2)
      BY <1>14, <2>d
    <3>1. Associates(m, v, x)
      BY <3>0, ConcatAssoc
    <3> QED
      BY <3>1 DEF Associates
  <2>7. y \o u = m \o v
    <3>0. IsList(m, 16) /\ IsList(a, 1) /\ IsList(u, lu)
      BY <1>14, <2>d
    <3>1. Associates(m, a, u)
      BY <3>0, ConcatAssoc
    <3> QED
      BY <2>1, <3>1 DEF Associates
  <2>8. w = (y \o u) \o x
    BY <2>4, <2>5, <2>6, <2>7
  <2>9. PICK p, q : p = <<"fail", 1, expected_stage(mode), expected_reason(mode)>> /\ q = <<"exit", 17>>
    OBVIOUS
  <2>10. x = <<p, q>>
    <3>1. d = <<p>> /\ h = <<q>>
      BY <1>13, <2>9
    <3>2. x[1] = p /\ x[2] = q
      <4>1. 1 \in 1..1 /\ 1 + 1 = 2
        OBVIOUS
      <4>2. x[1] = d[1] /\ x[1 + 1] = h[1]
        BY <2>2, <4>1 DEF Joins
      <4> QED
        BY <3>1, <4>1, <4>2
    <3>3. x = [i \in 1..2 |-> x[i]]
      BY <2>3 DEF IsList
    <3> QED
      BY <3>2, <3>3
  <2>11. TrueLog(mode) = (y \o u) \o <<p, q>>
    <3>1. CASE mode = "skip-switch"
      <4>1. n = 5 /\ p = <<"fail", 1, "switch", "cr3-readback">>
        BY <1>1, <2>9, <3>1 DEF expected_stage, expected_reason
      <4> QED
        BY <1>9, <1>13, <2>1, <2>9, <3>1, <4>1 DEF TrueLog
    <3>2. CASE mode = "writable-ro"
      <4>1. n = 6 /\ p = <<"fail", 1, "fault-ro", "expected-pf">>
        BY <1>1, <2>9, <3>2 DEF expected_stage, expected_reason
      <4> QED
        BY <1>9, <1>13, <2>1, <2>9, <3>2, <4>1 DEF TrueLog
    <3> QED
      BY <3>1, <3>2
  <2> QED
    BY <2>8, <2>10, <2>11
<1>17. TrueRegisters(s, mode)
  <2>1. PICK es : es \in Nat
    OBVIOUS
  <2>2. /\ st \in Nat /\ At(s, "start") = {st} /\ fl \in Nat /\ At(s, "vmfail") = {fl}
        /\ e \in Nat /\ At(s, "exit") = {e}
    BY <1>3, <1>5 DEF Fell
  <2>3. /\ StageNames(s, 1) = required_stages(mode)
        /\ mode = "skip-switch" => check_skip_switch_observed(s) = {}
        /\ mode # "skip-switch" => check_writable_ro_observed(s) = {}
    BY <1>4, <1>6, <2>2, SequenceClean
  <2> QED
    BY <1>4, <2>3, NegativeRegisters
<1>18. PICK es : es = Essence(s, mode)
  OBVIOUS
<1>19. [i \in DOMAIN es |-> Skeleton(es[i])] = TrueLog(mode)
  BY <1>12, <1>16, <1>18 DEF Skeletons
<1> QED
  BY <1>17, <1>18, <1>19 DEF Genuine

-----------------------------------------------------------------------------
(* The second inductive invariant: the report says what is so. *)

\* The steps before the exit status of the container is known.
Unread == Early \cup {"attach", "firmware", "inspect"}
\* The steps before the container is removed.
Unremoved == Unread \cup {"recover", "remove"}

\* The run, and what its guest has printed and how it ended.
Running ==
  /\ args \in Boots
  /\ guest = [f \in {"printed", "fw", "status"} |-> guest[f]]
  /\ guest.fw \in {"none", "missing", "pinned", "wrong"} /\ guest.printed \in 0..Len(args.script)
  /\ guest.status \in {33, 47} => guest.printed = Len(args.script)

\* Nothing is recorded before the step that finds it out.
Unrecorded ==
  /\ pc \in Early \cup {"attach"} =>
       /\ guest = [printed |-> 0, fw |-> "none", status |-> None]
       /\ report.firmware = "unset" /\ ~report.attach_attempted
  /\ pc \in Unread => report.exit_code = None
  /\ pc \in Unremoved => report.cleanup = "none"
  /\ pc \in Unremoved \cup {"serial", "rehash"} => report.esp_unchanged = "unset"
  /\ pc \notin {"verdict", "evidence", "ended"} =>
       ~report.vm_qualified /\ ~report.expected_negative_observed

\* What is recorded is so: of the image, the firmware, the exit status, the container and the volume.
Recorded ==
  /\ report.image \in {"unset", args.image}
  /\ report.firmware \in {"unset", guest.fw}
  /\ pc \in {"attach", "firmware", "inspect"} => ctr \in {"created", "exited"}
  /\ report.exit_code # None =>
       /\ ctr \in {"created", "exited", "gone"}
       /\ report.exit_code = IF guest.status = None THEN 0 ELSE guest.status
  /\ report.cleanup = "ok" => ctr = "gone"
  /\ report.esp_unchanged = "yes" => esp = "same"

\* The log that was read is the log as it stands, and its errors are in the report.
Parsed ==
  /\ pc \in Late \ {"serial"} /\ report.attach_attempted /\ ~AtLarge
  /\ "serial_evidence" \notin report.errors
  => parse_serial(Serial).transcript_errors \subseteq report.errors

\* Something went wrong: an exception is on its way or an error is recorded.
Blamed == raised # "no" \/ report.errors # {}

\* As long as nothing went wrong, every step behind left what a success needs.
OnTrack ==
  ~Blamed =>
    /\ pc \in {"start", "config", "snapshot", "imginfo", "bind"} \/ report.binding = "pass"
    /\ pc \in Early \ {"create"} \/ report.image = args.image
    /\ pc \in Early \cup {"attach"} \/ report.attach_attempted
    /\ pc \in {"attach", "firmware", "inspect"} => cid = "own"
    /\ pc \notin {"recover", "aborted"}
    /\ pc \in {"inspect", "remove"} \cup Late => guest.fw = "pinned"
    /\ pc \in {"remove"} \cup Late => guest.status = 33
    /\ pc = "remove" => ctr \in {"created", "exited"}
    /\ pc \in Late => ctr = "gone"
    /\ pc \in Late \ {"serial", "rehash"} => esp \in {"same", "gone"}

\* What the transcript of a VM artifact was taken for is what its parser found, of the log as it stands.
Judged ==
  /\ report.vm_qualified =>
       /\ args.mode = "positive" /\ report.errors = {}
       /\ parse_vm_serial(Serial, "positive").transcript_errors = {}
  /\ report.expected_negative_observed =>
       /\ Negative /\ expected_negative_transport_ok(report)
       /\ parse_vm_serial(Serial, args.mode).transcript_errors = {}

\* The status and the exit status follow from the report.
Settled ==
  /\ pc \in {"vm", "verdict", "evidence", "ended"} /\ raised # "no" => report.errors # {}
  /\ report.status \in {"pass", "fail", "unavailable"}
  /\ report.status = "unavailable" => report.errors \cap {"raised", "output"} # {}
  /\ report.status = "pass" =>
       /\ pc \in {"evidence", "ended"} /\ report.errors = {}
       /\ ~Negative /\ (Vm => report.vm_qualified)
  /\ exit \in {None, 0, 1, 2}
  /\ exit = 0 => evidence /\ report.status = "pass"
  /\ exit = 2 => report.status = "unavailable"

\* The report says what is so.
Honest == Running /\ Unrecorded /\ Recorded /\ Parsed /\ OnTrack /\ Judged /\ Settled

\* The fields of the report.
LEMMA ReportDomain ==
  DOMAIN Report0 = {"errors", "status", "launched", "owned", "attach_attempted", "attach_timed_out",
    "start_rc", "exit_code", "cleanup", "esp_unchanged", "binding", "image", "firmware",
    "kernel_entry_observed", "vm_qualified", "expected_negative_observed"}
BY DEF Report0

\* The initial state is honest.
LEMMA InitHonest == Init => Honest
<1> SUFFICES ASSUME Init PROVE Honest
  OBVIOUS
<1>1. /\ report = Report0 /\ pc = "start" /\ raised = "no" /\ exit = None
      /\ args \in Boots /\ guest = [printed |-> 0, fw |-> "none", status |-> None]
  BY DEF Init
<1>2. Running
  <2>1. Len(args.script) \in Nat
    BY <1>1, ProbeAssumption
  <2>2. QED
    BY <1>1, <2>1 DEF Running, None
<1>3. Unrecorded
  BY <1>1 DEF Unrecorded, Report0, None
<1>4. Recorded /\ Parsed
  BY <1>1 DEF Recorded, Parsed, Report0, Late, None
<1>5. OnTrack /\ Judged
  BY <1>1 DEF OnTrack, Judged, Report0, Late, Early
<1>6. Settled
  BY <1>1 DEF Settled, Report0, None
<1>7. QED
  BY <1>2, <1>3, <1>4, <1>5, <1>6 DEF Honest

\* Until the exceptions of run_boot are handled nothing is judged and nothing is settled.
Unjudged ==
  /\ pc \notin {"vm", "verdict", "evidence", "ended"}
  /\ pc' \notin {"vm", "verdict", "evidence", "ended"}
  /\ report.errors \subseteq report'.errors
  /\ report'.status = report.status
  /\ report'.vm_qualified = report.vm_qualified
  /\ report'.expected_negative_observed = report.expected_negative_observed
  /\ UNCHANGED <<args, exit>>

\* Before it is judged, a step that does not judge settles nothing.
LEMMA UnjudgedStays ==
  ASSUME QualifyIInv, Honest, Unjudged
  PROVE  /\ ~report'.vm_qualified /\ ~report'.expected_negative_observed
         /\ Judged' /\ Settled'
<1>1. ~report'.vm_qualified /\ ~report'.expected_negative_observed
  BY DEF Unjudged, Honest, Unrecorded
<1>2. Judged'
  BY <1>1 DEF Judged
<1>3. exit = None
  BY DEF Unjudged, QualifyIInv, Announced
<1>4. Settled'
  BY <1>3 DEF Unjudged, Honest, Settled, None
<1>5. QED
  BY <1>1, <1>2, <1>4

\* Before the launch: only the binding is recorded, and whoever leaves early says so.
LEMMA RequireOutputHonest == QualifyIInv /\ Honest /\ RequireOutput => Honest'
<1> SUFFICES ASSUME QualifyIInv, Honest, RequireOutput PROVE Honest'
  OBVIOUS
<1>1. /\ pc = "start" /\ pc' \in {"config", "ended"}
      /\ UNCHANGED <<args, ctr, cid, guest, esp, raised>>
  BY DEF RequireOutput, outside
<1>2. CASE pc' = "config"
  <2>1. UNCHANGED <<report, exit>>
    BY <1>2 DEF RequireOutput
  <2>2. Unjudged
    BY <1>1, <1>2, <2>1 DEF Unjudged
  <2>3. Judged' /\ Settled'
    BY <2>2, UnjudgedStays
  <2>4. Running' /\ Unrecorded' /\ Recorded' /\ Parsed'
    BY <1>1, <1>2, <2>1 DEF Honest, Running, Unrecorded, Recorded, Parsed, Early, Late, Unread, Unremoved
  <2>5. OnTrack'
    BY <1>1, <1>2, <2>1 DEF Honest, OnTrack, Blamed, Early, Late
  <2>6. QED
    BY <2>3, <2>4, <2>5 DEF Honest
<1>3. CASE pc' = "ended"
  <2>1. report' = [report EXCEPT !.status = "unavailable", !.errors = {"output"}] /\ exit' = 2
    BY <1>3 DEF RequireOutput
  <2>2. /\ report'.status = "unavailable" /\ report'.errors = {"output"}
        /\ report'.image = report.image /\ report'.firmware = report.firmware
        /\ report'.exit_code = report.exit_code /\ report'.cleanup = report.cleanup
        /\ report'.esp_unchanged = report.esp_unchanged
        /\ report'.vm_qualified = report.vm_qualified
        /\ report'.expected_negative_observed = report.expected_negative_observed
        /\ report'.attach_attempted = report.attach_attempted
    BY <2>1, ReportDomain DEF QualifyIInv, Shape
  <2>3. Running' 
    BY <1>1 DEF Honest, Running
  <2>4. Unrecorded' /\ Recorded'
    BY <1>1, <1>3, <2>2 DEF Honest, Unrecorded, Recorded, Early, Unread, Unremoved
  <2>5. Parsed' /\ OnTrack'
    BY <1>1, <1>3, <2>2 DEF Honest, Unrecorded, Parsed, OnTrack, Blamed, Early
  <2>6. Judged'
    BY <1>1, <1>3, <2>2 DEF Honest, Unrecorded, Judged
  <2>7. Settled'
    BY <2>1, <2>2 DEF Settled, None
  <2>8. QED
    BY <2>3, <2>4, <2>5, <2>6, <2>7 DEF Honest
<1>4. QED
  BY <1>1, <1>2, <1>3

\* The steps that can raise before the launch (check_config, snapshot_inputs, run_imginfo).
LEMMA CheckHonest ==
  ASSUME QualifyIInv, Honest,
         NEW step \in {"config", "snapshot", "imginfo"}, NEW next \in {"snapshot", "imginfo", "bind"},
         NEW E, "no" \notin E, Check(step, next, E)
  PROVE  Honest'
<1>1. /\ pc \in {"config", "snapshot", "imginfo"} /\ pc' \in {"snapshot", "imginfo", "bind", "outcome"}
      /\ pc' = "outcome" => raised' # "no"
      /\ pc' # "outcome" => raised' = raised
      /\ UNCHANGED <<args, ctr, cid, guest, esp, report, exit>>
  BY DEF Check, outside
<1>2. Judged' /\ Settled'
  <2>1. Unjudged
    BY <1>1 DEF Unjudged
  <2>2. QED
    BY <2>1, UnjudgedStays
<1>3. Running'
  BY <1>1 DEF Honest, Running
<1>4. Unrecorded' /\ Recorded'
  BY <1>1 DEF Honest, Unrecorded, Recorded, Early, Unread, Unremoved
<1>5. Parsed'
  BY <1>1 DEF Honest, Unrecorded, Parsed, Early
<1>6. OnTrack'
  BY <1>1 DEF Honest, OnTrack, Blamed, Early, Late
<1>7. QED
  BY <1>2, <1>3, <1>4, <1>5, <1>6 DEF Honest

\* The binding of the boot volume: the launch follows only a binding that passed.
LEMMA BindEspHonest == QualifyIInv /\ Honest /\ BindEsp => Honest'
<1> SUFFICES ASSUME QualifyIInv, Honest, BindEsp PROVE Honest'
  OBVIOUS
<1>1. /\ pc = "bind" /\ pc' \in {"image", "outcome"}
      /\ UNCHANGED <<args, ctr, cid, guest, esp, exit>>
  BY DEF BindEsp, bindNext, outside
<1>2. /\ pc' = "outcome" => raised' # "no"
      /\ pc' = "image" => raised' = raised
  BY DEF BindEsp
<1>3. \/ report' = report /\ pc' = "outcome"
      \/ \E status : report' = [report EXCEPT !.binding = status] /\ pc' = bindNext(status)
  BY DEF BindEsp
<1>4. /\ pc' = "image" => report'.binding = "pass"
      /\ report'.status = report.status /\ report'.errors = report.errors
      /\ report'.image = report.image /\ report'.firmware = report.firmware
      /\ report'.exit_code = report.exit_code /\ report'.cleanup = report.cleanup
      /\ report'.esp_unchanged = report.esp_unchanged
      /\ report'.vm_qualified = report.vm_qualified
      /\ report'.expected_negative_observed = report.expected_negative_observed
      /\ report'.attach_attempted = report.attach_attempted
  BY <1>3, ReportDomain DEF QualifyIInv, Shape, bindNext
<1>5. Judged' /\ Settled'
  <2>1. Unjudged
    BY <1>1, <1>4 DEF Unjudged
  <2>2. QED
    BY <2>1, UnjudgedStays
<1>6. Running'
  BY <1>1 DEF Honest, Running
<1>7. Unrecorded' /\ Recorded'
  BY <1>1, <1>4 DEF Honest, Unrecorded, Recorded, Early, Unread, Unremoved
<1>8. Parsed'
  BY <1>1, <1>4 DEF Honest, Unrecorded, Parsed, Early
<1>9. OnTrack'
  BY <1>1, <1>2, <1>4 DEF Honest, OnTrack, Blamed, Early, Late
<1>10. QED
  BY <1>5, <1>6, <1>7, <1>8, <1>9 DEF Honest

-----------------------------------------------------------------------------
(* run_boot: each step records what it finds, and loses no failure. *)

\* The fields of the report that a step of run_boot other than the one that
\* finds them out leaves alone.
Same(F) == \A f \in F : report'[f] = report[f]

\* What run_boot never touches.
Apart == {"status", "vm_qualified", "expected_negative_observed", "binding"}

\* addErrors leaves every other field alone.
LEMMA Enlarges ==
  ASSUME QualifyIInv, NEW E, report' = addErrors(E)
  PROVE  /\ report'.errors = report.errors \cup E
         /\ Same(DOMAIN Report0 \ {"errors"})
BY ReportDomain DEF QualifyIInv, Shape, addErrors, Same

\* resolve_pinned_image of probe.py: the image recorded is the one asked for.
LEMMA ResolveImageHonest ==
  QualifyIInv /\ Honest /\ ResolveImage /\ UNCHANGED exit => Honest'
<1> SUFFICES ASSUME QualifyIInv, Honest, ResolveImage, UNCHANGED exit PROVE Honest'
  OBVIOUS
<1>1. /\ pc = "image" /\ pc' \in {"create", "serial"}
      /\ UNCHANGED <<args, ctr, cid, guest, esp>>
  BY DEF ResolveImage
<1>2. /\ Same(DOMAIN Report0 \ {"errors", "image"})
      /\ report.errors \subseteq report'.errors
      /\ pc' = "serial" => Same({"image"}) /\ raised' # "no"
      /\ pc' = "create" => report'.image = args.image /\ raised' = raised /\ Same({"errors"})
  <2>1. CASE pc' = "create"
    <3>1. report' = [report EXCEPT !.image = args.image] /\ raised' = raised
      BY <2>1 DEF ResolveImage
    <3>2. QED
      BY <2>1, <3>1, ReportDomain DEF QualifyIInv, Shape, Same
  <2>2. CASE pc' = "serial"
    <3>1. report' = addErrors({"unavailable"}) /\ raised' = "Unavailable"
      BY <2>2 DEF ResolveImage
    <3>2. report'.errors = report.errors \cup {"unavailable"} /\ Same(DOMAIN Report0 \ {"errors"})
      BY <3>1, Enlarges
    <3>3. QED
      BY <2>2, <3>1, <3>2, ReportDomain DEF Same
  <2>3. QED
    BY <1>1, <2>1, <2>2
<1>3. /\ report'.binding = report.binding
      /\ report'.status = report.status /\ report'.firmware = report.firmware
      /\ report'.exit_code = report.exit_code /\ report'.cleanup = report.cleanup
      /\ report'.esp_unchanged = report.esp_unchanged
      /\ report'.vm_qualified = report.vm_qualified
      /\ report'.expected_negative_observed = report.expected_negative_observed
      /\ report'.attach_attempted = report.attach_attempted
      /\ report'.image \in {report.image, args.image}
      /\ pc' = "create" => report'.errors = report.errors
  BY <1>1, <1>2, ReportDomain DEF Same
<1>4. Judged' /\ Settled'
  <2>1. Unjudged
    BY <1>1, <1>2, <1>3 DEF Unjudged
  <2>2. QED
    BY <2>1, UnjudgedStays
<1>5. Running'
  BY <1>1 DEF Honest, Running
<1>6. Unrecorded' /\ Recorded'
  BY <1>1, <1>3 DEF Honest, Unrecorded, Recorded, Early, Unread, Unremoved
<1>7. Parsed'
  BY <1>1, <1>3 DEF Honest, Unrecorded, Parsed, Early
<1>8. OnTrack'
  BY <1>1, <1>2, <1>3 DEF Honest, OnTrack, Blamed, Early, Late
<1>9. QED
  BY <1>4, <1>5, <1>6, <1>7, <1>8 DEF Honest

\* docker create: the run goes on only with the id of a container that was created.
LEMMA CreateHonest ==
  QualifyIInv /\ Honest /\ Create /\ UNCHANGED exit => Honest'
<1> SUFFICES ASSUME QualifyIInv, Honest, Create, UNCHANGED exit PROVE Honest'
  OBVIOUS
<1>1. /\ pc = "create" /\ pc' \in {"attach", "recover", "remove"}
      /\ UNCHANGED <<args, guest, esp>>
      /\ pc' = "attach" => ctr' = "created"
  BY DEF Create, finallyStep
<1>2. \/ /\ report' = [report EXCEPT !.owned = TRUE, !.launched = TRUE]
         /\ pc' = "attach" /\ raised' = raised /\ cid' = "own"
      \/ \E E : /\ report' = addErrors(E)
                /\ E # {} \/ raised' # "no"
                /\ pc' # "attach"
  <2>1. PICK made \in {"none", "pending", "created"}, file \in {"absent", "partial", "id"},
             heard \in {"ok", "refused", "exception", "interrupt"} :
       /\ cid' = IF file = "id" THEN "own" ELSE "none"
       /\ IF heard = "ok" /\ file = "id"
          THEN /\ report' = [report EXCEPT !.owned = TRUE, !.launched = TRUE]
               /\ pc' = "attach"
               /\ UNCHANGED raised
          ELSE /\ report' = addErrors(CASE heard \in {"ok", "refused"} -> {"failed"}
                                        [] heard = "exception" -> {"exception"}
                                        [] heard = "interrupt" -> {})
               /\ raised' = CASE heard \in {"ok", "refused"} -> "Failed"
                              [] heard = "exception" -> raised
                              [] heard = "interrupt" -> "Interrupt"
               /\ pc' = finallyStep(cid')
    BY DEF Create
  <2>2. CASE heard = "ok" /\ file = "id"
    BY <2>1, <2>2
  <2>3. CASE ~(heard = "ok" /\ file = "id")
    <3>1. pc' # "attach"
      BY <2>1, <2>3 DEF finallyStep
    <3>2. CASE heard \in {"ok", "refused"}
      BY <2>1, <2>3, <3>1, <3>2
    <3>3. CASE heard = "exception"
      BY <2>1, <2>3, <3>1, <3>3
    <3>4. CASE heard = "interrupt"
      BY <2>1, <2>3, <3>1, <3>4
    <3>5. QED
      BY <2>1, <3>2, <3>3, <3>4
  <2>4. QED
    BY <2>2, <2>3
<1>3. /\ Same(DOMAIN Report0 \ {"errors", "owned", "launched"})
      /\ report.errors \subseteq report'.errors
      /\ report'.errors # {} \/ raised' # "no" \/
           (pc' = "attach" /\ raised' = raised /\ cid' = "own" /\ report'.errors = report.errors)
  <2>1. CASE report' = [report EXCEPT !.owned = TRUE, !.launched = TRUE]
             /\ pc' = "attach" /\ raised' = raised /\ cid' = "own"
    BY <2>1, ReportDomain DEF QualifyIInv, Shape, Same
  <2>2. ASSUME NEW E, report' = addErrors(E), E # {} \/ raised' # "no"
        PROVE  /\ Same(DOMAIN Report0 \ {"errors", "owned", "launched"})
               /\ report.errors \subseteq report'.errors
               /\ report'.errors # {} \/ raised' # "no"
    BY <2>2, Enlarges, ReportDomain DEF Same
  <2>3. QED
    BY <1>2, <2>1, <2>2
<1>4. /\ report'.binding = report.binding /\ report'.image = report.image
      /\ report'.status = report.status /\ report'.firmware = report.firmware
      /\ report'.exit_code = report.exit_code /\ report'.cleanup = report.cleanup
      /\ report'.esp_unchanged = report.esp_unchanged
      /\ report'.vm_qualified = report.vm_qualified
      /\ report'.expected_negative_observed = report.expected_negative_observed
      /\ report'.attach_attempted = report.attach_attempted
  BY <1>1, <1>3, ReportDomain DEF Same
<1>5. Judged' /\ Settled'
  <2>1. Unjudged
    BY <1>1, <1>3, <1>4 DEF Unjudged
  <2>2. QED
    BY <2>1, UnjudgedStays
<1>6. Running'
  BY <1>1 DEF Honest, Running
<1>7. Unrecorded' /\ Recorded'
  BY <1>1, <1>4 DEF Honest, Unrecorded, Recorded, Early, Unread, Unremoved
<1>8. Parsed'
  BY <1>1, <1>4 DEF Honest, Unrecorded, Parsed, Early, Late
<1>9. OnTrack'
  BY <1>1, <1>3, <1>4 DEF Honest, OnTrack, Blamed, Early, Late
<1>10. QED
  BY <1>5, <1>6, <1>7, <1>8, <1>9 DEF Honest

\* What a guest's status says of what it printed.
LEMMA Statuses ==
  ASSUME NEW s
  PROVE  exitStatus(s) \in {124, 33, 47, 1}
BY DEF exitStatus

\* A guest is stopped within its log.
LEMMA CutsWithin ==
  ASSUME NEW s \in Seq(Line), NEW n \in Cuts(s)
  PROVE  n \in 0..Len(s)
BY DEF Cuts

\* A run is one of the runs the constants describe.
LEMMA ScriptIs ==
  ASSUME Running
  PROVE  args.script \in Seq(Line) /\ args.mode \in Modes /\ args.image \in {"pinned", "other"}
BY ProbeAssumption DEF Running

\* docker start: whatever it does to the guest, the report says that it was attempted, and an
\* exception is not lost.
LEMMA AttachHonest ==
  QualifyIInv /\ Honest /\ Attach /\ UNCHANGED exit => Honest'
<1> SUFFICES ASSUME QualifyIInv, Honest, Attach, UNCHANGED exit PROVE Honest'
  OBVIOUS
<1>1. /\ pc = "attach" /\ pc' \in {"firmware", "recover", "remove"}
      /\ UNCHANGED <<args, cid, esp>>
  BY DEF Attach, finallyStep
<1>2. /\ args.script \in Seq(Line)
      /\ guest = [printed |-> 0, fw |-> "none", status |-> None]
  BY <1>1, ScriptIs DEF Honest, Unrecorded
<1> DEFINE Whole == /\ guest' = [f \in {"printed", "fw", "status"} |-> guest'[f]]
                    /\ guest'.fw \in {"none", "missing", "pinned", "wrong"}
                    /\ guest'.printed \in 0..Len(args.script)
                    /\ guest'.status \in {33, 47} => guest'.printed = Len(args.script)
           Went(F) == /\ Same(DOMAIN Report0 \ F)
                      /\ report.errors \subseteq report'.errors
                      /\ report'.attach_attempted
           F3 == {"errors", "attach_attempted", "start_rc", "attach_timed_out"}
<1>3. /\ Whole /\ Went(F3)
      /\ pc' = "firmware" => raised' = raised /\ report'.errors = report.errors
                             /\ ctr' \in {ctr, "exited"} 
      /\ pc' # "firmware" => raised' # "no" \/ report'.errors # {}
  <2>1. CASE \E ran \in Ran :
               /\ guest' = [guest EXCEPT !.fw = ran.fw, !.printed = ran.printed, !.status = ran.status]
               /\ report' = [report EXCEPT !.attach_attempted = TRUE, !.start_rc = ran.status]
               /\ ctr' = "exited" /\ pc' = "firmware" /\ UNCHANGED raised
    <3>1. PICK ran \in Ran :
               /\ guest' = [guest EXCEPT !.fw = ran.fw, !.printed = ran.printed, !.status = ran.status]
               /\ report' = [report EXCEPT !.attach_attempted = TRUE, !.start_rc = ran.status]
               /\ ctr' = "exited" /\ pc' = "firmware" /\ UNCHANGED raised
      BY <2>1
    <3>2. ran.printed \in 0..Len(args.script) /\ (ran.status \in {33, 47} => ran.printed = Len(args.script))
      <4>1. CASE ran.status \in {2, 1, 124} /\ ran.printed \in Cuts(args.script) \cup {0}
        BY <1>2, <4>1, CutsWithin
      <4>2. CASE ran.printed = Len(args.script)
        BY <1>2, <4>2
      <4>3. QED
        BY <4>1, <4>2 DEF Ran
    <3>3. ran.fw \in {"none", "missing", "pinned", "wrong"}
      BY DEF Ran
    <3>6. Whole
      BY <1>2, <3>1, <3>2, <3>3
    <3>4. Went(F3) /\ report'.errors = report.errors
      BY <3>1, ReportDomain DEF QualifyIInv, Shape, Same
    <3>5. QED
      BY <3>1, <3>6, <3>4
  <2>2. CASE /\ report' = [report EXCEPT !.attach_attempted = TRUE, !.start_rc = 125]
             /\ pc' = "firmware" /\ UNCHANGED <<guest, ctr, raised>>
    <3>1. Whole
      BY <1>2, <2>2 DEF None
    <3>2. Went(F3) /\ report'.errors = report.errors
      BY <2>2, ReportDomain DEF QualifyIInv, Shape, Same
    <3>3. QED
      BY <2>2, <3>1, <3>2
  <2>3. CASE \E now \in {"created", "running", "exited"}, n \in Cuts(args.script),
                how \in {"timeout", "exception", "interrupt"} :
               /\ guest' = [guest EXCEPT !.printed = n, !.fw = IF n = 0 THEN "none" ELSE "pinned",
                                         !.status = IF now = "exited" THEN 124 ELSE None]
               /\ report' = [report EXCEPT !.attach_attempted = TRUE,
                                           !.attach_timed_out = (how = "timeout"),
                                           !.errors = @ \cup (IF how = "interrupt" THEN {}
                                                              ELSE {"exception"})]
               /\ raised' = IF how = "interrupt" THEN "Interrupt" ELSE raised
               /\ pc' = finallyStep(cid)
    <3>1. PICK now \in {"created", "running", "exited"}, n \in Cuts(args.script),
                how \in {"timeout", "exception", "interrupt"} :
               /\ guest' = [guest EXCEPT !.printed = n, !.fw = IF n = 0 THEN "none" ELSE "pinned",
                                         !.status = IF now = "exited" THEN 124 ELSE None]
               /\ report' = [report EXCEPT !.attach_attempted = TRUE,
                                           !.attach_timed_out = (how = "timeout"),
                                           !.errors = @ \cup (IF how = "interrupt" THEN {}
                                                              ELSE {"exception"})]
               /\ raised' = IF how = "interrupt" THEN "Interrupt" ELSE raised
               /\ pc' = finallyStep(cid)
      BY <2>3
    <3>2. n \in 0..Len(args.script)
      BY <1>2, CutsWithin
    <3>3. Whole
      <4>1. /\ guest' = [f \in {"printed", "fw", "status"} |-> guest'[f]]
            /\ guest'.printed = n /\ guest'.fw \in {"none", "pinned"}
            /\ guest'.status = IF now = "exited" THEN 124 ELSE None
        BY <1>2, <3>1
      <4>2. guest'.status \notin {33, 47}
        BY <4>1 DEF None
      <4>3. QED
        BY <3>2, <4>1, <4>2
    <3>4. Went(F3) /\ (report'.errors # {} \/ raised' # "no")
      BY <3>1, ReportDomain DEF QualifyIInv, Shape, Same
    <3>5. pc' # "firmware"
      BY <3>1 DEF finallyStep
    <3>6. QED
      BY <3>3, <3>4, <3>5
  <2>4. QED
    BY <2>1, <2>2, <2>3, ZenonT(60) DEF Attach
<1>4. /\ report'.binding = report.binding /\ report'.image = report.image
      /\ report'.status = report.status /\ report'.firmware = report.firmware
      /\ report'.exit_code = report.exit_code /\ report'.cleanup = report.cleanup
      /\ report'.esp_unchanged = report.esp_unchanged
      /\ report'.vm_qualified = report.vm_qualified
      /\ report'.expected_negative_observed = report.expected_negative_observed
      /\ report'.attach_attempted
  BY <1>3, ReportDomain DEF Same
<1>5. pc' = "firmware" => ctr' \in {"created", "exited"}
  BY <1>1, <1>3 DEF Honest, Recorded
<1>6. Judged' /\ Settled'
  <2>1. Unjudged
    BY <1>1, <1>3, <1>4 DEF Unjudged
  <2>2. QED
    BY <2>1, UnjudgedStays
<1>7. Running'
  BY <1>1, <1>3 DEF Honest, Running
<1>8. Unrecorded' /\ Recorded'
  BY <1>1, <1>4, <1>5 DEF Honest, Unrecorded, Recorded, Early, Unread, Unremoved
<1>9. Parsed'
  BY <1>1 DEF Parsed, Late
<1>10. OnTrack'
  BY <1>1, <1>3, <1>4 DEF Honest, OnTrack, Blamed, Early, Late
<1>11. QED
  BY <1>6, <1>7, <1>8, <1>9, <1>10 DEF Honest

\* The firmware recorded is the one the guest found; any other than the pinned one is an error.
LEMMA FirmwareHonest ==
  QualifyIInv /\ Honest /\ Firmware /\ UNCHANGED exit => Honest'
<1> SUFFICES ASSUME QualifyIInv, Honest, Firmware, UNCHANGED exit PROVE Honest'
  OBVIOUS
<1>1. /\ pc = "firmware" /\ pc' \in {"inspect", "recover", "remove"}
      /\ UNCHANGED <<args, ctr, cid, guest, esp>>
  BY DEF Firmware, finallyStep
<1>2. /\ Same(DOMAIN Report0 \ {"errors", "firmware"})
      /\ report.errors \subseteq report'.errors
      /\ report'.firmware \in {report.firmware, guest.fw}
      /\ \/ report'.errors # {} \/ raised' # "no"
         \/ /\ pc' = "inspect" /\ raised' = raised
            /\ guest.fw = "pinned"
  <2>1. CASE guest.fw = "missing"
    <3>1. report' = addErrors({"unavailable"})
      BY <2>1 DEF Firmware
    <3>2. report'.errors = report.errors \cup {"unavailable"} /\ Same(DOMAIN Report0 \ {"errors"})
      BY <3>1, Enlarges
    <3>3. QED
      BY <3>2, ReportDomain DEF Same
  <2>2. CASE guest.fw = "none"
    <3>1. report' = addErrors({"firmware_missing"})
      BY <2>2 DEF Firmware
    <3>2. report'.errors = report.errors \cup {"firmware_missing"} /\ Same(DOMAIN Report0 \ {"errors"})
      BY <3>1, Enlarges
    <3>3. QED
      BY <3>2, ReportDomain DEF Same
  <2>3. CASE guest.fw \notin {"missing", "none"}
    <3>1. /\ report' = [report EXCEPT !.firmware = guest.fw,
                                      !.errors = @ \cup (IF guest.fw = "wrong"
                                                         THEN {"firmware_hash"} ELSE {})]
          /\ pc' = "inspect" /\ raised' = raised
      BY <2>3 DEF Firmware
    <3>2. /\ Same(DOMAIN Report0 \ {"errors", "firmware"})
          /\ report'.firmware = guest.fw
          /\ report'.errors = report.errors \cup (IF guest.fw = "wrong" THEN {"firmware_hash"} ELSE {})
      BY <3>1, ReportDomain DEF QualifyIInv, Shape, Same
    <3>3. guest.fw \in {"pinned", "wrong"}
      BY <1>1, <2>3 DEF Honest, Running
    <3>4. QED
      BY <3>1, <3>2, <3>3
  <2>4. QED
    BY <2>1, <2>2, <2>3
<1>3. /\ report'.binding = report.binding /\ report'.image = report.image
      /\ report'.status = report.status
      /\ report'.exit_code = report.exit_code /\ report'.cleanup = report.cleanup
      /\ report'.esp_unchanged = report.esp_unchanged
      /\ report'.vm_qualified = report.vm_qualified
      /\ report'.expected_negative_observed = report.expected_negative_observed
      /\ report'.attach_attempted = report.attach_attempted
  BY <1>2, ReportDomain DEF Same
<1>4. Judged' /\ Settled'
  <2>1. Unjudged
    BY <1>1, <1>2, <1>3 DEF Unjudged
  <2>2. QED
    BY <2>1, UnjudgedStays
<1>5. Running'
  BY <1>1 DEF Honest, Running
<1>6. Unrecorded' /\ Recorded'
  BY <1>1, <1>2, <1>3 DEF Honest, Unrecorded, Recorded, Early, Unread, Unremoved
<1>7. Parsed'
  BY <1>1 DEF Parsed, Late
<1>8. OnTrack'
  BY <1>1, <1>2, <1>3 DEF Honest, OnTrack, Blamed, Early, Late
<1>9. QED
  BY <1>4, <1>5, <1>6, <1>7, <1>8 DEF Honest

\* The exit status recorded is that of the container, and any other than 33 is an error.
LEMMA InspectHonest ==
  QualifyIInv /\ Honest /\ Inspect /\ UNCHANGED exit => Honest'
<1> SUFFICES ASSUME QualifyIInv, Honest, Inspect, UNCHANGED exit PROVE Honest'
  OBVIOUS
<1> DEFINE code == IF guest.status = None THEN 0 ELSE guest.status
<1>1. /\ pc = "inspect" /\ pc' \in {"recover", "remove"}
      /\ pc' = finallyStep(cid)
      /\ UNCHANGED <<args, ctr, cid, guest, esp>>
  BY DEF Inspect, finallyStep
<1>2. /\ Same(DOMAIN Report0 \ {"errors", "exit_code"})
      /\ report.errors \subseteq report'.errors
      /\ report'.exit_code \in {report.exit_code, code}
      /\ \/ report'.errors # {} \/ raised' # "no"
         \/ /\ raised' = raised
            /\ code = 33
  <2>1. CASE /\ report' = [report EXCEPT !.exit_code = code,
                                    !.errors = @ \cup statusErrors(code, report.start_rc)]
             /\ raised' = raised
    <3>1. /\ Same(DOMAIN Report0 \ {"errors", "exit_code"})
          /\ report'.exit_code = code
          /\ report'.errors = report.errors \cup statusErrors(code, report.start_rc)
      BY <2>1, ReportDomain DEF QualifyIInv, Shape, Same
    <3>2. code = 33 \/ statusErrors(code, report.start_rc) # {}
      BY DEF statusErrors
    <3>3. QED
      BY <2>1, <3>1, <3>2
  <2>2. ASSUME NEW how \in {"refused", "exception", "interrupt"},
               report' = addErrors(CASE how = "refused" -> {"failed"}
                                     [] how = "exception" -> {"exception"}
                                     [] how = "interrupt" -> {}),
               raised' = CASE how = "refused" -> "Failed"
                           [] how = "exception" -> raised
                           [] how = "interrupt" -> "Interrupt"
        PROVE  /\ Same(DOMAIN Report0 \ {"errors", "exit_code"})
               /\ report.errors \subseteq report'.errors
               /\ report'.exit_code = report.exit_code
               /\ report'.errors # {} \/ raised' # "no"
    <3>1. PICK E : report' = addErrors(E) /\ (E # {} \/ raised' # "no")
      BY <2>2
    <3>2. report'.errors = report.errors \cup E /\ Same(DOMAIN Report0 \ {"errors"})
      BY <3>1, Enlarges
    <3>3. QED
      BY <3>1, <3>2, ReportDomain DEF Same
  <2>3. QED
    BY <2>1, <2>2 DEF Inspect
<1>3. /\ report'.binding = report.binding /\ report'.image = report.image
      /\ report'.status = report.status /\ report'.firmware = report.firmware
      /\ report'.cleanup = report.cleanup
      /\ report'.esp_unchanged = report.esp_unchanged
      /\ report'.vm_qualified = report.vm_qualified
      /\ report'.expected_negative_observed = report.expected_negative_observed
      /\ report'.attach_attempted = report.attach_attempted
  BY <1>2, ReportDomain DEF Same
<1>4. Judged' /\ Settled'
  <2>1. Unjudged
    BY <1>1, <1>2, <1>3 DEF Unjudged
  <2>2. QED
    BY <2>1, UnjudgedStays
<1>5. Running'
  BY <1>1 DEF Honest, Running
<1>6. Unrecorded' 
  BY <1>1, <1>3 DEF Honest, Unrecorded, Early, Unread, Unremoved
<1>7. Recorded'
  BY <1>1, <1>2, <1>3 DEF Honest, Recorded
<1>8. Parsed'
  BY <1>1 DEF Parsed, Late
<1>9. OnTrack'
  BY <1>1, <1>2, <1>3 DEF Honest, OnTrack, Recorded, Blamed, Early, Late, finallyStep
<1>10. QED
  BY <1>4, <1>5, <1>6, <1>7, <1>8, <1>9 DEF Honest

\* recover_creation of probe.py runs only when something went wrong.
LEMMA RecoverHonest ==
  QualifyIInv /\ Honest /\ Recover /\ UNCHANGED exit => Honest'
<1> SUFFICES ASSUME QualifyIInv, Honest, Recover, UNCHANGED exit PROVE Honest'
  OBVIOUS
<1>1. /\ pc = "recover" /\ pc' \in {"serial", "remove"}
      /\ UNCHANGED <<args, ctr, raised, guest, esp>>
  BY DEF Recover
<1>2. /\ Same(DOMAIN Report0 \ {"errors", "owned"})
      /\ report.errors \subseteq report'.errors
  <2>1. CASE report' = addErrors({"ownership_unresolved"})
    <3>1. report'.errors = report.errors \cup {"ownership_unresolved"} /\ Same(DOMAIN Report0 \ {"errors"})
      BY <2>1, Enlarges
    <3>2. QED
      BY <3>1, ReportDomain DEF Same
  <2>2. CASE report' = [report EXCEPT !.owned = TRUE]
    BY <2>2, ReportDomain DEF QualifyIInv, Shape, Same
  <2>3. QED
    BY <2>1, <2>2 DEF Recover
<1>3. /\ report'.binding = report.binding /\ report'.image = report.image
      /\ report'.status = report.status /\ report'.firmware = report.firmware
      /\ report'.cleanup = report.cleanup /\ report'.exit_code = report.exit_code
      /\ report'.esp_unchanged = report.esp_unchanged
      /\ report'.vm_qualified = report.vm_qualified
      /\ report'.expected_negative_observed = report.expected_negative_observed
      /\ report'.attach_attempted = report.attach_attempted
  BY <1>2, ReportDomain DEF Same
<1>4. Judged' /\ Settled'
  <2>1. Unjudged
    BY <1>1, <1>2, <1>3 DEF Unjudged
  <2>2. QED
    BY <2>1, UnjudgedStays
<1>5. Running'
  BY <1>1 DEF Honest, Running
<1>6. Unrecorded' 
  BY <1>1, <1>3 DEF Honest, Unrecorded, Early, Unread, Unremoved
<1>7. Recorded'
  BY <1>1, <1>3 DEF Honest, Recorded
<1>8. Parsed'
  BY <1>1 DEF Parsed, Late
<1>9. OnTrack'
  BY <1>1, <1>2 DEF Honest, OnTrack, Blamed
<1>10. QED
  BY <1>4, <1>5, <1>6, <1>7, <1>8, <1>9 DEF Honest

\* docker rm: the cleanup is recorded as ok only of a container that is gone.
LEMMA RemoveHonest ==
  QualifyIInv /\ Honest /\ RemoveContainer /\ UNCHANGED exit => Honest'
<1> SUFFICES ASSUME QualifyIInv, Honest, RemoveContainer, UNCHANGED exit PROVE Honest'
  OBVIOUS
<1>1. /\ pc = "remove" /\ pc' = "serial" /\ cid = "own"
      /\ UNCHANGED <<args, raised, guest, esp>>
  BY DEF RemoveContainer, QualifyIInv, HoldsOwn
<1>2. PICK heard \in {"ok", "refused", "exception"}, left \in BOOLEAN :
        /\ heard = "ok" => ~left
        /\ ctr' = IF left \/ cid # "own" THEN ctr ELSE "gone"
        /\ report' = [report EXCEPT !.cleanup = IF heard = "exception" THEN @ ELSE heard,
                                    !.errors = @ \cup removalErrors(heard)]
  BY DEF RemoveContainer
<1>3. /\ Same(DOMAIN Report0 \ {"errors", "cleanup"})
      /\ report'.errors = report.errors \cup removalErrors(heard)
      /\ report'.cleanup = IF heard = "exception" THEN report.cleanup ELSE heard
  BY <1>2, ReportDomain DEF QualifyIInv, Shape, Same
<1>4. heard # "ok" => report'.errors # {}
  BY <1>3 DEF removalErrors
<1>5. ctr' \in {ctr, "gone"} /\ (heard = "ok" => ctr' = "gone")
  BY <1>1, <1>2
<1>6. report.cleanup = "none"
  BY <1>1 DEF Honest, Unrecorded, Unremoved
<1>7. /\ report'.binding = report.binding /\ report'.image = report.image
      /\ report'.status = report.status /\ report'.firmware = report.firmware
      /\ report'.exit_code = report.exit_code
      /\ report'.esp_unchanged = report.esp_unchanged
      /\ report'.vm_qualified = report.vm_qualified
      /\ report'.expected_negative_observed = report.expected_negative_observed
      /\ report'.attach_attempted = report.attach_attempted
  BY <1>3, ReportDomain DEF Same
<1>8. Judged' /\ Settled'
  <2>1. Unjudged
    BY <1>1, <1>3, <1>7 DEF Unjudged
  <2>2. QED
    BY <2>1, UnjudgedStays
<1>9. Running'
  BY <1>1 DEF Honest, Running
<1>10. Unrecorded' 
  BY <1>1, <1>7 DEF Honest, Unrecorded, Early, Unread, Unremoved
<1>11. Recorded'
  BY <1>1, <1>3, <1>5, <1>6, <1>7 DEF Honest, Recorded
<1>12. Parsed'
  BY <1>1 DEF Parsed, Late
<1>13. OnTrack'
  BY <1>1, <1>3, <1>4, <1>5, <1>7 DEF Honest, OnTrack, Blamed, Early, Late
<1>14. QED
  BY <1>8, <1>9, <1>10, <1>11, <1>12, <1>13 DEF Honest

-----------------------------------------------------------------------------
(* The end of run_boot, and what becomes of its exceptions. *)

\* While the guest is left alone, the log that is read is the log that was read.
LEMMA SerialStays ==
  ASSUME UNCHANGED <<args, guest>>
  PROVE  Serial' = Serial
BY DEF Serial

\* collect_serial of probe.py: what parse_serial finds in the log is in the report, unless the log
\* could not be read, which is an error too.
LEMMA CollectSerialHonest ==
  QualifyIInv /\ Honest /\ CollectSerial /\ UNCHANGED exit => Honest'
<1> SUFFICES ASSUME QualifyIInv, Honest, CollectSerial, UNCHANGED exit PROVE Honest'
  OBVIOUS
<1>1. /\ pc = "serial" /\ pc' = "rehash"
      /\ UNCHANGED <<args, ctr, cid, raised, guest, esp>>
  BY DEF CollectSerial
<1>2. PICK E :
        /\ Same(DOMAIN Report0 \ {"errors", "kernel_entry_observed"})
        /\ report'.errors = report.errors \cup E
        /\ \/ parse_serial(Serial).transcript_errors \subseteq E
           \/ "serial_evidence" \in E
           \/ ~report.attach_attempted
  <2>1. CASE report' = [report EXCEPT
                          !.kernel_entry_observed = parse_serial(Serial).kernel_entry_observed,
                          !.errors = @ \cup parse_serial(Serial).transcript_errors]
    <3>1. /\ Same(DOMAIN Report0 \ {"errors", "kernel_entry_observed"})
          /\ report'.errors = report.errors \cup parse_serial(Serial).transcript_errors
      BY <2>1, ReportDomain DEF QualifyIInv, Shape, Same
    <3>2. QED
      BY <3>1
  <2>2. CASE report' = addErrors({"serial_evidence"})
    <3>1. /\ report'.errors = report.errors \cup {"serial_evidence"}
          /\ Same(DOMAIN Report0 \ {"errors"})
      BY <2>2, Enlarges
    <3>2. QED
      BY <3>1, ReportDomain DEF Same
  <2>3. CASE report' = report /\ ~report.attach_attempted
    <3>1. report'.errors = report.errors \cup {}
      BY <2>3
    <3>2. QED
      BY <2>3, <3>1, ReportDomain DEF Same
  <2>4. QED
    BY <2>1, <2>2, <2>3 DEF CollectSerial
<1>3. /\ report'.binding = report.binding /\ report'.image = report.image
      /\ report'.status = report.status /\ report'.firmware = report.firmware
      /\ report'.cleanup = report.cleanup /\ report'.exit_code = report.exit_code
      /\ report'.esp_unchanged = report.esp_unchanged
      /\ report'.vm_qualified = report.vm_qualified
      /\ report'.expected_negative_observed = report.expected_negative_observed
      /\ report'.attach_attempted = report.attach_attempted
  BY <1>2, ReportDomain DEF Same
<1>4. Judged' /\ Settled'
  <2>1. Unjudged
    BY <1>1, <1>2, <1>3 DEF Unjudged
  <2>2. QED
    BY <2>1, UnjudgedStays
<1>5. Running'
  BY <1>1 DEF Honest, Running
<1>6. Unrecorded' 
  BY <1>1, <1>3 DEF Honest, Unrecorded, Early, Unread, Unremoved
<1>7. Recorded'
  BY <1>1, <1>3 DEF Honest, Recorded
<1>8. Parsed'
  <2>1. Serial' = Serial
    BY <1>1, SerialStays
  <2>2. QED
    BY <1>2, <1>3, <2>1 DEF Parsed
<1>9. OnTrack'
  BY <1>1, <1>2, <1>3 DEF Honest, OnTrack, Blamed, Early, Late
<1>10. QED
  BY <1>4, <1>5, <1>6, <1>7, <1>8, <1>9 DEF Honest

\* After the log is read the guest is left alone and errors only grow.
LEMMA ParsedStays ==
  ASSUME Parsed, pc \in Late \ {"serial"}, UNCHANGED <<args, guest, ctr>>,
         report'.attach_attempted = report.attach_attempted, report.errors \subseteq report'.errors
  PROVE  Parsed'
<1>1. Serial' = Serial
  BY SerialStays
<1>2. QED
  BY <1>1 DEF Parsed, AtLarge

\* The boot volume is recorded as unchanged only when it is.
LEMMA RehashHonest ==
  QualifyIInv /\ Honest /\ Rehash /\ UNCHANGED exit => Honest'
<1> SUFFICES ASSUME QualifyIInv, Honest, Rehash, UNCHANGED exit PROVE Honest'
  OBVIOUS
<1>1. /\ pc = "rehash" /\ pc' = IF raised = "Interrupt" THEN "aborted" ELSE "outcome"
      /\ UNCHANGED <<args, ctr, cid, raised, guest>>
  BY DEF Rehash
<1>2. PICK now \in {"same", "changed", "gone", "unreadable"} :
        /\ esp' = now
        /\ report' = [report EXCEPT
                       !.esp_unchanged = CASE now = "same" -> "yes" [] now = "changed" -> "no"
                                           [] OTHER -> @,
                       !.errors = @ \cup (IF now \in {"changed", "unreadable"}
                                          THEN {"esp"} ELSE {})]
  BY DEF Rehash
<1>3. /\ Same(DOMAIN Report0 \ {"errors", "esp_unchanged"})
      /\ report'.errors = report.errors \cup (IF now \in {"changed", "unreadable"} THEN {"esp"} ELSE {})
      /\ report'.esp_unchanged = CASE now = "same" -> "yes" [] now = "changed" -> "no"
                                           [] OTHER -> report.esp_unchanged
  BY <1>2, ReportDomain DEF QualifyIInv, Shape, Same
<1>4. report'.esp_unchanged = "yes" => esp' = "same"
  <2>1. report.esp_unchanged = "unset"
    BY <1>1 DEF Honest, Unrecorded
  <2>2. QED
    BY <1>2, <1>3, <2>1
<1>5. report'.errors = {} => esp' \in {"same", "gone"}
  BY <1>2, <1>3
<1>6. /\ report'.binding = report.binding /\ report'.image = report.image
      /\ report'.status = report.status /\ report'.firmware = report.firmware
      /\ report'.cleanup = report.cleanup /\ report'.exit_code = report.exit_code
      /\ report'.vm_qualified = report.vm_qualified
      /\ report'.expected_negative_observed = report.expected_negative_observed
      /\ report'.attach_attempted = report.attach_attempted
  BY <1>3, ReportDomain DEF Same
<1>7. report.errors \subseteq report'.errors
  BY <1>3
<1>8. Judged' /\ Settled'
  <2>1. Unjudged
    BY <1>1, <1>6, <1>7 DEF Unjudged
  <2>2. QED
    BY <2>1, UnjudgedStays
<1>9. Running'
  BY <1>1 DEF Honest, Running
<1>10. Unrecorded' 
  BY <1>1, <1>6 DEF Honest, Unrecorded, Early, Unread, Unremoved
<1>11. Recorded'
  BY <1>1, <1>4, <1>6 DEF Honest, Recorded
<1>12. Parsed'
  BY <1>1, <1>6, <1>7, ParsedStays DEF Honest, Late
<1>13. OnTrack'
  BY <1>1, <1>5, <1>6, <1>7 DEF Honest, OnTrack, Blamed, Early, Late
<1>14. QED
  BY <1>8, <1>9, <1>10, <1>11, <1>12, <1>13 DEF Honest

\* The except clauses: an exception of run_boot is an error of the report.
LEMMA OutcomeHonest == QualifyIInv /\ Honest /\ Outcome => Honest'
<1> SUFFICES ASSUME QualifyIInv, Honest, Outcome PROVE Honest'
  OBVIOUS
<1>1. /\ pc = "outcome" /\ pc' \in {"vm", "verdict"}
      /\ UNCHANGED <<args, ctr, cid, raised, guest, esp, exit>>
  BY DEF Outcome, outside
<1>2. /\ Same(DOMAIN Report0 \ {"errors", "status"})
      /\ report'.errors = report.errors \cup (IF raised = "no" THEN {} ELSE {"raised"})
      /\ report'.status = IF raised = "Unavailable" THEN "unavailable" ELSE report.status
  BY ReportDomain DEF Outcome, QualifyIInv, Shape, Same
<1>3. /\ report'.binding = report.binding /\ report'.image = report.image
      /\ report'.firmware = report.firmware /\ report'.esp_unchanged = report.esp_unchanged
      /\ report'.cleanup = report.cleanup /\ report'.exit_code = report.exit_code
      /\ report'.vm_qualified = report.vm_qualified
      /\ report'.expected_negative_observed = report.expected_negative_observed
      /\ report'.attach_attempted = report.attach_attempted
  BY <1>2, ReportDomain DEF Same
<1>4. report.errors \subseteq report'.errors
  BY <1>2
<1>5. ~report'.vm_qualified /\ ~report'.expected_negative_observed
  BY <1>1, <1>3 DEF Honest, Unrecorded
<1>6. Judged'
  BY <1>5 DEF Judged
<1>7. Settled'
  <2>1. exit = None
    BY <1>1 DEF QualifyIInv, Announced
  <2>2. raised # "no" => "raised" \in report'.errors
    BY <1>2
  <2>3. report'.status # "pass"
    BY <1>1, <1>2 DEF Honest, Settled
  <2>4. report'.status \in {"pass", "fail", "unavailable"}
    BY <1>2 DEF Honest, Settled
  <2>5. report'.status = "unavailable" => report'.errors \cap {"raised", "output"} # {}
    BY <1>2, <2>2 DEF Honest, Settled
  <2>6. QED
    BY <1>1, <2>1, <2>2, <2>3, <2>4, <2>5 DEF Settled, None
<1>8. Running'
  BY <1>1 DEF Honest, Running
<1>9. Unrecorded' 
  BY <1>1, <1>3, <1>5 DEF Unrecorded, Early, Unread, Unremoved
<1>10. Recorded'
  BY <1>1, <1>3 DEF Honest, Recorded
<1>11. Parsed'
  BY <1>1, <1>3, <1>4, ParsedStays DEF Honest, Late
<1>12. OnTrack'
  BY <1>1, <1>2, <1>3 DEF Honest, OnTrack, Blamed, Early, Late
<1>13. QED
  BY <1>6, <1>7, <1>8, <1>9, <1>10, <1>11, <1>12 DEF Honest

-----------------------------------------------------------------------------
(* The judgement, the verdict and the exit status. *)

\* What apply_vm_transcript concludes, and from what.
LEMMA Applied ==
  ASSUME QualifyIInv, report' = apply_vm_transcript
  PROVE  /\ Same(DOMAIN Report0 \ {"errors", "expected_negative_observed", "vm_qualified"})
         /\ report.errors \subseteq report'.errors
         /\ report'.vm_qualified =>
              /\ args.mode = "positive" /\ report'.errors = {}
              /\ parse_vm_serial(Serial, args.mode).transcript_errors = {}
         /\ report'.expected_negative_observed =>
              /\ Negative /\ expected_negative_transport_ok(report')
              /\ parse_vm_serial(Serial, args.mode).transcript_errors = {}
<1> DEFINE parsed   == parse_vm_serial(Serial, args.mode)
           withVm   == addErrors(parsed.transcript_errors)
           expected == /\ parsed.vm_fail.stage = expected_stage(args.mode)
                       /\ parsed.vm_fail.reason = expected_reason(args.mode)
                       /\ ~parsed.vm_complete /\ parsed.transcript_errors = {}
                       /\ \E n \in At(Serial, "exit") : Serial[n].code = 17
                       /\ ~printed("complete") /\ MarkerAt(Serial, "done") = {}
                       /\ expected_negative_transport_ok(withVm)
           judged   == IF Negative /\ ~expected
                       THEN [withVm EXCEPT !.errors = @ \cup {"negative_not_observed"}] ELSE withVm
           qualified == /\ args.mode = "positive" /\ parsed.vm_complete
                        /\ parsed.transcript_errors = {} /\ judged.errors = {}
<1>1. report' = [judged EXCEPT !.expected_negative_observed = Negative /\ expected,
                               !.vm_qualified = qualified]
  BY DEF apply_vm_transcript
<1>2. expected => parsed.transcript_errors = {} /\ expected_negative_transport_ok(withVm)
  OBVIOUS
<1>3. PICK E : E = parsed.transcript_errors /\ withVm = addErrors(E)
  OBVIOUS
<1>4. PICK W : W = withVm
  OBVIOUS
<1>5. PICK J : J = judged
  OBVIOUS
<1>6. J = IF Negative /\ ~expected THEN [W EXCEPT !.errors = @ \cup {"negative_not_observed"}] ELSE W
  BY <1>4, <1>5
<1>7. report' = [J EXCEPT !.expected_negative_observed = Negative /\ expected, !.vm_qualified = qualified]
  BY <1>1, <1>5
<1>8. qualified => args.mode = "positive" /\ parsed.transcript_errors = {} /\ J.errors = {}
  BY <1>5
<1>9. expected => E = {} /\ expected_negative_transport_ok(W)
  BY <1>2, <1>3, <1>4
<1>10. W = [f \in DOMAIN Report0 |-> W[f]] /\ W.errors = report.errors \cup E
  BY <1>3, <1>4, AddErrors DEF QualifyIInv
<1>11. \A f \in DOMAIN Report0 \ {"errors"} : W[f] = report[f]
  BY <1>3, <1>4, ReportDomain DEF addErrors, QualifyIInv, Shape
<1> HIDE DEF parsed, withVm, expected, judged, qualified
<1>12. /\ J = [f \in DOMAIN Report0 |-> J[f]] /\ W.errors \subseteq J.errors
       /\ \A f \in DOMAIN Report0 \ {"errors"} : J[f] = report[f]
       /\ Negative /\ expected => J = W
  BY <1>6, <1>10, <1>11, ReportDomain
<1>13. /\ report'.errors = J.errors
       /\ \A f \in DOMAIN Report0 \ {"expected_negative_observed", "vm_qualified"} : report'[f] = J[f]
       /\ report'.vm_qualified <=> qualified
       /\ report'.expected_negative_observed <=> Negative /\ expected
  <2>1. report'.errors = J.errors
    BY <1>7, <1>12, ReportDomain
  <2>2. \A f \in DOMAIN Report0 \ {"expected_negative_observed", "vm_qualified"} : report'[f] = J[f]
    BY <1>7, <1>12, ReportDomain
  <2>3. report'.vm_qualified <=> qualified
    BY <1>7, <1>12, ReportDomain
  <2>4. report'.expected_negative_observed <=> Negative /\ expected
    BY <1>7, <1>12, ReportDomain
  <2>5. QED
    BY <2>1, <2>2, <2>3, <2>4
<1>14. Same(DOMAIN Report0 \ {"errors", "expected_negative_observed", "vm_qualified"})
  BY <1>12, <1>13 DEF Same
<1>15. report.errors \subseteq report'.errors
  BY <1>10, <1>12, <1>13
<1>16. report'.expected_negative_observed => expected_negative_transport_ok(report')
  <2>1. SUFFICES ASSUME report'.expected_negative_observed PROVE expected_negative_transport_ok(report')
    OBVIOUS
  <2>2. J = W /\ expected_negative_transport_ok(J)
    BY <1>9, <1>12, <1>13, <2>1
  <2>3. /\ report'.launched = J.launched /\ report'.attach_attempted = J.attach_attempted
        /\ report'.attach_timed_out = J.attach_timed_out /\ report'.exit_code = J.exit_code
        /\ report'.start_rc = J.start_rc /\ report'.owned = J.owned /\ report'.cleanup = J.cleanup
        /\ report'.esp_unchanged = J.esp_unchanged /\ report'.binding = J.binding
        /\ report'.image = J.image /\ report'.firmware = J.firmware /\ report'.errors = J.errors
    BY <1>13, ReportDomain
  <2>4. QED
    BY <2>2, <2>3 DEF expected_negative_transport_ok
<1>17. report'.vm_qualified => /\ args.mode = "positive" /\ report'.errors = {}
                               /\ parsed.transcript_errors = {}
  BY <1>8, <1>13
<1>18. report'.expected_negative_observed => Negative /\ parsed.transcript_errors = {}
  BY <1>3, <1>9, <1>13
<1>19. QED
  BY <1>14, <1>15, <1>16, <1>17, <1>18 DEF parsed

\* The transcript of a VM artifact is judged once the guest is gone.
LEMMA ApplyVmHonest == QualifyIInv /\ Honest /\ ApplyVm => Honest'
<1> SUFFICES ASSUME QualifyIInv, Honest, ApplyVm PROVE Honest'
  OBVIOUS
<1>1. /\ pc = "vm" /\ pc' = "verdict"
      /\ UNCHANGED <<args, ctr, cid, raised, guest, esp, exit>>
  BY DEF ApplyVm, outside
<1>2. /\ Same(DOMAIN Report0 \ {"errors", "expected_negative_observed", "vm_qualified"})
      /\ report.errors \subseteq report'.errors
      /\ report'.vm_qualified =>
           /\ args.mode = "positive" /\ report'.errors = {}
           /\ parse_vm_serial(Serial, args.mode).transcript_errors = {}
      /\ report'.expected_negative_observed =>
           /\ Negative /\ expected_negative_transport_ok(report')
           /\ parse_vm_serial(Serial, args.mode).transcript_errors = {}
  <2>1. CASE report' = apply_vm_transcript
    BY <2>1, Applied
  <2>2. ASSUME NEW E, report' = addErrors(E)
        PROVE  /\ Same(DOMAIN Report0 \ {"errors", "expected_negative_observed", "vm_qualified"})
               /\ report.errors \subseteq report'.errors
               /\ ~report'.vm_qualified /\ ~report'.expected_negative_observed
    <3>1. report'.errors = report.errors \cup E /\ Same(DOMAIN Report0 \ {"errors"})
      BY <2>2, Enlarges
    <3>2. /\ report'.vm_qualified = report.vm_qualified
          /\ report'.expected_negative_observed = report.expected_negative_observed
      BY <3>1, ReportDomain DEF Same
    <3>3. QED
      BY <1>1, <3>1, <3>2, ReportDomain DEF Same, Honest, Unrecorded
  <2>3. CASE report' = report
    BY <1>1, <2>3, ReportDomain DEF Same, Honest, Unrecorded
  <2>4. QED
    BY <2>1, <2>2, <2>3 DEF ApplyVm
<1>3. /\ report'.binding = report.binding /\ report'.image = report.image
      /\ report'.firmware = report.firmware /\ report'.esp_unchanged = report.esp_unchanged
      /\ report'.cleanup = report.cleanup /\ report'.exit_code = report.exit_code
      /\ report'.status = report.status
      /\ report'.attach_attempted = report.attach_attempted
  BY <1>2, ReportDomain DEF Same
<1>4. Judged'
  <2>1. Serial' = Serial
    BY <1>1, SerialStays
  <2>2. Negative' = Negative
    BY <1>1 DEF Negative
  <2>3. expected_negative_transport_ok(report)' = expected_negative_transport_ok(report')
    BY DEF expected_negative_transport_ok
  <2>4. QED
    BY <1>1, <1>2, <2>1, <2>2, <2>3 DEF Judged
<1>5. Settled'
  <2>1. exit = None
    BY <1>1 DEF QualifyIInv, Announced
  <2>2. report.status # "pass"
    BY <1>1 DEF Honest, Settled
  <2>3. QED
    BY <1>1, <1>2, <1>3, <2>1, <2>2 DEF Honest, Settled, None
<1>6. Running'
  BY <1>1 DEF Honest, Running
<1>7. Unrecorded' 
  BY <1>1, <1>3 DEF Unrecorded, Early, Unread, Unremoved
<1>8. Recorded'
  BY <1>1, <1>3 DEF Honest, Recorded
<1>9. Parsed'
  BY <1>1, <1>2, <1>3, ParsedStays DEF Honest, Late
<1>10. OnTrack'
  BY <1>1, <1>2, <1>3 DEF Honest, OnTrack, Blamed, Early, Late
<1>11. QED
  BY <1>4, <1>5, <1>6, <1>7, <1>8, <1>9, <1>10 DEF Honest

\* The verdict: a pass needs a report without errors, and a qualified transcript of a VM artifact.
LEMMA VerdictHonest == QualifyIInv /\ Honest /\ Verdict => Honest'
<1> SUFFICES ASSUME QualifyIInv, Honest, Verdict PROVE Honest'
  OBVIOUS
<1>1. /\ pc = "verdict" /\ pc' = "evidence"
      /\ UNCHANGED <<args, ctr, cid, raised, guest, esp, exit>>
  BY DEF Verdict, outside
<1>2. PICK status : status = finalStatus(report)
  OBVIOUS
<1>3. report' = [report EXCEPT !.status = status, !.vm_qualified = @ /\ (status # "fail")]
  BY <1>2 DEF Verdict
<1>4. /\ Same(DOMAIN Report0 \ {"status", "vm_qualified"})
      /\ report'.status = status
      /\ report'.vm_qualified <=> report.vm_qualified /\ status # "fail"
  <2>1. Same(DOMAIN Report0 \ {"status", "vm_qualified"})
    BY <1>3, ReportDomain DEF QualifyIInv, Shape, Same
  <2>2. report'.status = status
    BY <1>3, ReportDomain DEF QualifyIInv, Shape
  <2>3. report'.vm_qualified <=> report.vm_qualified /\ status # "fail"
    BY <1>3, ReportDomain DEF QualifyIInv, Shape
  <2>4. QED
    BY <2>1, <2>2, <2>3
<1>5. /\ report'.binding = report.binding /\ report'.image = report.image
      /\ report'.firmware = report.firmware /\ report'.esp_unchanged = report.esp_unchanged
      /\ report'.cleanup = report.cleanup /\ report'.exit_code = report.exit_code
      /\ report'.errors = report.errors
      /\ report'.attach_attempted = report.attach_attempted
      /\ report'.launched = report.launched /\ report'.attach_timed_out = report.attach_timed_out
      /\ report'.start_rc = report.start_rc /\ report'.owned = report.owned
      /\ report'.expected_negative_observed = report.expected_negative_observed
  BY <1>4, ReportDomain DEF Same
<1>6. /\ status \in {"pass", "fail", "unavailable"}
      /\ status = "unavailable" => report.status = "unavailable"
      /\ status = "pass" => report.errors = {} /\ ~Negative /\ (Vm => report.vm_qualified)
  BY <1>2 DEF finalStatus, Honest, Settled
<1>7. /\ Negative' = Negative /\ Vm' = Vm /\ Serial' = Serial
  BY <1>1, SerialStays DEF Negative, Vm
<1>8. Judged'
  <2>1. report'.expected_negative_observed => expected_negative_transport_ok(report')
    BY <1>5 DEF expected_negative_transport_ok, Honest, Judged
  <2>2. expected_negative_transport_ok(report)' = expected_negative_transport_ok(report')
    BY DEF expected_negative_transport_ok
  <2>3. QED
    BY <1>1, <1>4, <1>5, <1>7, <2>1, <2>2 DEF Judged, Honest
<1>9. Settled'
  <2>1. exit = None
    BY <1>1 DEF QualifyIInv, Announced
  <2>2. QED
    BY <1>1, <1>4, <1>5, <1>6, <1>7, <2>1 DEF Honest, Settled, None
<1>10. Running'
  BY <1>1 DEF Honest, Running
<1>11. Unrecorded' 
  BY <1>1, <1>5 DEF Unrecorded, Early, Unread, Unremoved
<1>12. Recorded'
  BY <1>1, <1>5 DEF Honest, Recorded
<1>13. Parsed'
  BY <1>1, <1>5, ParsedStays DEF Honest, Late
<1>14. OnTrack'
  BY <1>1, <1>5 DEF Honest, OnTrack, Blamed, Early, Late
<1>15. QED
  BY <1>8, <1>9, <1>10, <1>11, <1>12, <1>13, <1>14 DEF Honest

\* The exit status is zero only for a pass, with the evidence written.
LEMMA WriteEvidenceHonest == QualifyIInv /\ Honest /\ WriteEvidence => Honest'
<1> SUFFICES ASSUME QualifyIInv, Honest, WriteEvidence PROVE Honest'
  OBVIOUS
<1>1. /\ pc = "evidence" /\ pc' = "ended"
      /\ UNCHANGED <<args, ctr, cid, raised, guest, esp, report>>
  BY DEF WriteEvidence, outside
<1>2. /\ Negative' = Negative /\ Vm' = Vm /\ Serial' = Serial
      /\ expected_negative_transport_ok(report)' = expected_negative_transport_ok(report)
  BY <1>1, SerialStays DEF Negative, Vm, expected_negative_transport_ok
<1>3. Settled'
  <2>1. \/ evidence' = TRUE /\ exit' = exitCode(report.status)
        \/ exit' = 1
    BY DEF WriteEvidence
  <2>2. /\ exit' \in {0, 1, 2}
        /\ exit' = 0 => evidence' /\ report.status = "pass"
        /\ exit' = 2 => report.status = "unavailable"
    BY <2>1 DEF exitCode, Honest, Settled
  <2>3. QED
    BY <1>1, <1>2, <2>2 DEF Honest, Settled, None
<1>4. Running' /\ Unrecorded' /\ Recorded'
  BY <1>1 DEF Honest, Running, Unrecorded, Recorded, Early, Unread, Unremoved
<1>5. Parsed'
  BY <1>1, ParsedStays DEF Honest, Late
<1>6. OnTrack'
  BY <1>1 DEF Honest, OnTrack, Blamed, Early, Late
<1>7. Judged'
  BY <1>1, <1>2 DEF Honest, Judged
<1>8. QED
  BY <1>3, <1>4, <1>5, <1>6, <1>7 DEF Honest

-----------------------------------------------------------------------------
(* The daemon and the guest, and every step. *)

\* The daemon and the guest: they move only a container that is still to come or
\* that runs, and neither is left once the report relies on what it says.
LEMMA OutsideHonest ==
  QualifyIInv /\ Honest /\ Outside /\ UNCHANGED <<exit, evidence>> => Honest'
<1> SUFFICES ASSUME QualifyIInv, Honest, Outside, UNCHANGED <<exit, evidence>> PROVE Honest'
  OBVIOUS
<1>1. /\ ctr \in {"pending", "running"} /\ ctr' \in {"created", "running", "exited"}
      /\ UNCHANGED <<args, pc, raised, report, cid, esp, removed>>
  BY DEF Outside, LateCreate, GuestPrints, GuestStops
<1>2. args.script \in Seq(Line)
  BY ScriptIs DEF Honest
<1>3. Running' /\ guest'.fw = guest.fw
  <2>1. CASE LateCreate
    BY <2>1 DEF LateCreate, Honest, Running
  <2>2. CASE GuestPrints
    <3>1. PICK n \in Cuts(args.script) : guest' = [guest EXCEPT !.printed = n]
      BY <2>2 DEF GuestPrints
    <3>2. n \in 0..Len(args.script)
      BY <1>2, CutsWithin
    <3>3. guest.status \notin {33, 47}
      BY <2>2 DEF GuestPrints, Honest, Running
    <3>4. QED
      BY <1>1, <3>1, <3>2, <3>3 DEF Honest, Running
  <2>3. CASE GuestStops
    <3>1. PICK st : /\ guest' = [guest EXCEPT !.status = st]
                    /\ st = 124 \/ guest.printed = Len(args.script)
      BY <2>3 DEF GuestStops
    <3>2. QED
      BY <1>1, <3>1 DEF Honest, Running
  <2>4. QED
    BY <2>1, <2>2, <2>3 DEF Outside
<1>4. pc \notin Early \cup {"attach", "firmware", "inspect"}
  BY <1>1 DEF QualifyIInv, Accounted, AtLarge, Honest, Recorded
<1>5. report.exit_code = None /\ report.cleanup # "ok"
  BY <1>1 DEF Honest, Recorded
<1>6. pc \in Late => report.errors # {}
  BY <1>1 DEF QualifyIInv, Accounted, AtLarge
<1>7. ~report.vm_qualified /\ ~report.expected_negative_observed
  <2>1. ~report.expected_negative_observed
    BY <1>5 DEF Honest, Judged, expected_negative_transport_ok
  <2>2. ~report.vm_qualified
    <3>1. CASE pc \in Late
      BY <1>6, <3>1 DEF Honest, Judged
    <3>2. CASE pc \notin Late
      BY <3>2 DEF Honest, Unrecorded, Late
    <3>3. QED
      BY <3>1, <3>2
  <2>3. QED
    BY <2>1, <2>2
<1>8. Unrecorded'
  BY <1>1, <1>4 DEF Honest, Unrecorded
<1>9. Recorded'
  BY <1>1, <1>3, <1>4, <1>5 DEF Honest, Recorded
<1>10. Parsed'
  BY <1>1 DEF Parsed, AtLarge
<1>11. OnTrack'
  BY <1>1, <1>3, <1>4, <1>6 DEF Honest, OnTrack, Blamed
<1>12. Judged'
  BY <1>1, <1>7 DEF Judged
<1>13. Settled'
  <2>1. Negative' = Negative /\ Vm' = Vm
    BY <1>1 DEF Negative, Vm
  <2>2. QED
    BY <1>1, <2>1 DEF Honest, Settled
<1>14. QED
  BY <1>3, <1>8, <1>9, <1>10, <1>11, <1>12, <1>13 DEF Honest

\* A step that changes nothing.
LEMMA StutterHonest == Honest /\ UNCHANGED vars => Honest'
<1> SUFFICES ASSUME Honest, UNCHANGED vars PROVE Honest'
  OBVIOUS
<1>1. UNCHANGED <<args, pc, raised, report, ctr, cid, guest, esp, exit, evidence>>
  BY DEF vars, probeVars
<1>2. Running' /\ Unrecorded' /\ Recorded' /\ OnTrack'
  BY <1>1 DEF Honest, Running, Unrecorded, Recorded, OnTrack, Blamed
<1>3. /\ Negative' = Negative /\ Vm' = Vm /\ Serial' = Serial
      /\ expected_negative_transport_ok(report)' = expected_negative_transport_ok(report)
      /\ AtLarge' = AtLarge
  BY <1>1, SerialStays DEF Negative, Vm, expected_negative_transport_ok, AtLarge
<1>4. Parsed' /\ Judged' /\ Settled'
  BY <1>1, <1>3 DEF Honest, Parsed, Judged, Settled
<1>5. QED
  BY <1>2, <1>4 DEF Honest

\* Every step keeps the report honest.
LEMMA NextHonest == QualifyIInv /\ Honest /\ [Next]_vars => Honest'
<1> SUFFICES ASSUME QualifyIInv, Honest, [Next]_vars PROVE Honest'
  OBVIOUS
<1>1. CASE RequireOutput
  BY <1>1, RequireOutputHonest
<1>2. CASE Config
  BY <1>2, CheckHonest DEF Config
<1>3. CASE SnapshotInputs
  BY <1>3, CheckHonest DEF SnapshotInputs
<1>4. CASE RunImginfo
  BY <1>4, CheckHonest DEF RunImginfo
<1>5. CASE BindEsp
  BY <1>5, BindEspHonest
<1>6. CASE Launch
  BY <1>6, ResolveImageHonest, CreateHonest, AttachHonest, FirmwareHonest, InspectHonest,
     RecoverHonest, RemoveHonest, CollectSerialHonest, RehashHonest DEF Launch, RunBoot
<1>7. CASE Outcome \/ ApplyVm \/ Verdict \/ WriteEvidence
  BY <1>7, OutcomeHonest, ApplyVmHonest, VerdictHonest, WriteEvidenceHonest
<1>8. CASE Outside /\ UNCHANGED <<exit, evidence>>
  BY <1>8, OutsideHonest
<1>9. CASE UNCHANGED vars
  BY <1>9, StutterHonest
<1>10. QED
  BY <1>1, <1>2, <1>3, <1>4, <1>5, <1>6, <1>7, <1>8, <1>9 DEF Next, ScriptStep, Gone

\* The report of every run of either qualifier says what is so.
THEOREM ReportHonest == Spec => []Honest
<1>1. Init => Honest
  BY InitHonest
<1>2. QED
  BY <1>1, NextHonest, QualifyInvariant, PTL DEF Spec

-----------------------------------------------------------------------------
(* What the two qualifiers announce. *)

\* The serial log is a sequence of lines.
LEMMA SerialIs ==
  ASSUME Running
  PROVE  Serial \in Seq(Line)
<1>1. args.script \in Seq(Line) /\ guest.printed \in 0..Len(args.script)
  BY ScriptIs DEF Running
<1>2. QED
  BY <1>1 DEF Serial

\* In an honest state a zero exit status is earned.
LEMMA EarnedOf == QualifyIInv /\ Honest => PassIsEarned
<1> SUFFICES ASSUME QualifyIInv, Honest, exit = 0
             PROVE  /\ evidence /\ ~Negative /\ (Vm => report.vm_qualified)
                    /\ report.binding = "pass" /\ report.image = args.image
                    /\ guest.fw = "pinned" /\ guest.status = 33 /\ guest.printed = Len(args.script)
                    /\ Genuine(Serial, args.mode)
                    /\ ctr = "gone" /\ esp \in {"same", "gone"}
  BY DEF PassIsEarned
<1>1. /\ evidence /\ report.status = "pass" /\ pc = "ended" /\ report.errors = {}
      /\ ~Negative /\ (Vm => report.vm_qualified)
  BY DEF QualifyIInv, Announced, Honest, Settled, None
<1>2. raised = "no"
  BY <1>1 DEF Honest, Settled
<1>3. /\ report.binding = "pass" /\ report.image = args.image /\ report.attach_attempted
      /\ guest.fw = "pinned" /\ guest.status = 33
      /\ ctr = "gone" /\ esp \in {"same", "gone"}
  BY <1>1, <1>2 DEF Honest, OnTrack, Blamed, Early, Late
<1>4. guest.printed = Len(args.script)
  BY <1>3 DEF Honest, Running
<1>5. Serial \in Seq(Line) /\ args.mode \in Modes
  BY SerialIs, ScriptIs DEF Honest
<1>6. Genuine(Serial, args.mode)
  <2>1. CASE args.mode = "base"
    <3>1. parse_serial(Serial).transcript_errors = {}
      BY <1>1, <1>3 DEF Honest, Parsed, AtLarge, Late
    <3>2. QED
      BY <1>5, <2>1, <3>1, BootstrapGenuine
  <2>2. CASE args.mode = "positive"
    <3>1. parse_vm_serial(Serial, "positive").transcript_errors = {}
      BY <1>1, <2>2 DEF Vm, Honest, Judged
    <3>2. QED
      BY <1>5, <2>2, <3>1, PositiveGenuine
  <2>3. QED
    BY <1>1, <1>5, <2>1, <2>2 DEF Negative, Modes, MODES
<1>7. QED
  BY <1>1, <1>3, <1>4, <1>6

\* In an honest state an expected failure is a real one.
LEMMA RealOf == QualifyIInv /\ Honest => NegativeIsReal
<1> SUFFICES ASSUME QualifyIInv, Honest, report.expected_negative_observed
             PROVE  /\ Negative /\ exit \in {None, 1}
                    /\ args.image = "pinned" /\ guest.fw = "pinned" /\ guest.status = 47
                    /\ Genuine(Serial, args.mode)
                    /\ ctr = "gone" /\ esp = "same"
  BY DEF NegativeIsReal
<1>1. /\ Negative /\ expected_negative_transport_ok(report)
      /\ parse_vm_serial(Serial, args.mode).transcript_errors = {}
      /\ pc \in {"verdict", "evidence", "ended"}
  BY DEF Honest, Judged, Unrecorded
<1>2. /\ report.attach_attempted /\ report.exit_code = 47 /\ report.cleanup = "ok"
      /\ report.esp_unchanged = "yes" /\ report.image = "pinned" /\ report.firmware = "pinned"
      /\ report.errors \subseteq allowed_negative_error
  BY <1>1 DEF expected_negative_transport_ok
<1>3. ctr = "gone" /\ esp = "same" /\ args.image = "pinned" /\ guest.fw = "pinned"
  BY <1>2 DEF Honest, Recorded
<1>4. guest.status = 47
  BY <1>2 DEF Honest, Recorded, None
<1>5. exit \in {None, 1}
  <2>1. report.errors \cap {"raised", "output"} = {}
    BY <1>2 DEF allowed_negative_error
  <2>2. QED
    BY <1>1, <2>1 DEF Honest, Settled
<1>6. Serial \in Seq(Line)
  BY SerialIs DEF Honest
<1>7. parse_serial(Serial).transcript_errors \subseteq report.errors
  <2>1. "serial_evidence" \notin report.errors
    BY <1>2 DEF allowed_negative_error
  <2>2. QED
    BY <1>1, <1>2, <1>3, <2>1 DEF Honest, Parsed, AtLarge, Late
<1>8. parse_serial(Serial).transcript_errors \cap {"stage_order"} = {}
  BY <1>2, <1>7 DEF allowed_negative_error
<1>9. Genuine(Serial, args.mode)
  BY <1>1, <1>6, <1>8, NegativeGenuine DEF Negative
<1>10. QED
  BY <1>1, <1>3, <1>4, <1>5, <1>9

\* qualify.py and qualify_vm.py: in every run, whatever the volume, the log and the faults of the
\* host, a zero exit status means that the bound volume booted in a container of the image asked
\* for, that the log is a true log of a whole run of the mode, and that nothing was left behind.
THEOREM PassEarned == Spec => []PassIsEarned
BY EarnedOf, QualifyInvariant, ReportHonest, PTL

\* qualify_vm.py: in every run the expected failure of a negative artifact is recorded only when the
\* artifact failed in the expected way and in no other, and the run never exits with success.
THEOREM NegativeReal == Spec => []NegativeIsReal
BY RealOf, QualifyInvariant, ReportHonest, PTL


-----------------------------------------------------------------------------
(* The binding. *)

\* The canonical form of a path is a path of names.
LEMMA CanonicalIs ==
  ASSUME NEW p, IsPath(p)
  PROVE  canonical_path(p) \in Seq(STRING)
<1>1. p.parts \in Seq([upper : STRING, ascii : BOOLEAN])
  BY DEF IsPath
<1>2. PICK q, n : q = p.parts /\ n = Len(q) /\ n \in Nat
  BY <1>1
<1>3. DOMAIN q = 1..n /\ \A i \in 1..n : q[i].upper \in STRING
  <2>1. DOMAIN q = 1..n /\ \A i \in 1..n : q[i] \in [upper : STRING, ascii : BOOLEAN]
    <3>1. PICK R : R = [upper : STRING, ascii : BOOLEAN]
      OBVIOUS
    <3>2. q \in Seq(R)
      BY <1>1, <1>2, <3>1
    <3>3. DOMAIN q = 1..n /\ \A i \in 1..n : q[i] \in R
      BY <1>2, <3>2
    <3> QED
      BY <3>1, <3>3
  <2>2. ASSUME NEW r \in [upper : STRING, ascii : BOOLEAN] PROVE r.upper \in STRING
    OBVIOUS
  <2> QED
    BY <2>1, <2>2
<1>4. canonical_path(p) = [i \in 1..n |-> q[i].upper]
  BY <1>2, <1>3 DEF canonical_path
<1> QED
  BY <1>2, <1>3, <1>4

\* The path made of given names is canonical, and canonical_path gives the names back.
LEMMA PlainIs ==
  ASSUME NEW S, NEW names \in Seq(S), names # << >>, NEW Bad, S \cap Bad = {},
         NEW p, p = plain(names)
  PROVE  /\ p.absolute /\ p.parts # << >>
         /\ \A i \in DOMAIN p.parts : p.parts[i].upper \notin Bad /\ p.parts[i].ascii
         /\ canonical_path(p) \in Seq(S)
<1>1. PICK n : n = Len(names) /\ n \in Nat /\ n # 0 /\ DOMAIN names = 1..n
  OBVIOUS
<1>2. PICK q : q = [i \in 1..n |-> [upper |-> names[i], ascii |-> TRUE]]
  OBVIOUS
<1>3. p.absolute /\ p.parts = q
  BY <1>1, <1>2 DEF plain
<1>4. \A i \in 1..n : q[i].upper = names[i] /\ q[i].ascii /\ names[i] \in S
  BY <1>1, <1>2
<1>5. DOMAIN q = 1..n /\ q # << >>
  BY <1>1, <1>2
<1>6. canonical_path(p) = [i \in 1..n |-> q[i].upper]
  BY <1>3, <1>5 DEF canonical_path
<1>7. canonical_path(p) \in Seq(S)
  BY <1>1, <1>4, <1>6
<1> QED
  BY <1>3, <1>4, <1>5, <1>7

\* The paths that are looked up.
LEMMA ExpectedIs ==
  ASSUME IsPath(args.path), canonical_ok(args.path)
  PROVE  /\ DOMAIN expected_files = 1..3
         /\ \A i \in 1..3 : /\ canonical_ok(expected_files[i].path)
                            /\ \E S : canonical_path(expected_files[i].path) \in Seq(S)
<1>1. canonical_ok(LOADER_PATH) /\ \E S : canonical_path(LOADER_PATH) \in Seq(S)
  <2>1. PICK S, names : S = {"EFI", "BOOT", "BOOTX64.EFI"} /\ names = <<"EFI", "BOOT", "BOOTX64.EFI">>
    OBVIOUS
  <2>2. names \in Seq(S) /\ names # << >>
    BY <2>1
  <2>3. PICK Bad : Bad = {"", ".", ".."}
    BY Zenon
  <2>4. S \cap Bad = {}
    BY <2>1, <2>3, Zenon
  <2>5. PICK p : p = plain(names) /\ p = LOADER_PATH
    BY <2>1 DEF LOADER_PATH
  <2>6. /\ p.absolute /\ p.parts # << >>
        /\ \A i \in DOMAIN p.parts : p.parts[i].upper \notin Bad /\ p.parts[i].ascii
        /\ canonical_path(p) \in Seq(S)
    BY <2>2, <2>4, <2>5, PlainIs
  <2>7. canonical_ok(p)
    BY <2>3, <2>6, Zenon DEF canonical_ok
  <2> QED
    BY <2>5, <2>6, <2>7
<1>2. canonical_ok(KERNEL_PATH) /\ \E S : canonical_path(KERNEL_PATH) \in Seq(S)
  <2>1. PICK S, names : S = {"ZK", "KERNEL.ELF"} /\ names = <<"ZK", "KERNEL.ELF">>
    OBVIOUS
  <2>2. names \in Seq(S) /\ names # << >>
    BY <2>1
  <2>3. PICK Bad : Bad = {"", ".", ".."}
    BY Zenon
  <2>4. S \cap Bad = {}
    BY <2>1, <2>3, Zenon
  <2>5. PICK p : p = plain(names) /\ p = KERNEL_PATH
    BY <2>1 DEF KERNEL_PATH
  <2>6. /\ p.absolute /\ p.parts # << >>
        /\ \A i \in DOMAIN p.parts : p.parts[i].upper \notin Bad /\ p.parts[i].ascii
        /\ canonical_path(p) \in Seq(S)
    BY <2>2, <2>4, <2>5, PlainIs
  <2>7. canonical_ok(p)
    BY <2>3, <2>6, Zenon DEF canonical_ok
  <2> QED
    BY <2>5, <2>6, <2>7
<1>3. \E S : canonical_path(args.path) \in Seq(S)
  BY CanonicalIs
<1>4. DOMAIN expected_files = 1..3 /\ expected_files[1].path = LOADER_PATH
      /\ expected_files[2].path = KERNEL_PATH /\ expected_files[3].path = args.path
  BY DEF expected_files
<1>5. ASSUME NEW i \in 1..3
      PROVE  i = 1 \/ i = 2 \/ i = 3
  OBVIOUS
<1> QED
  BY <1>1, <1>2, <1>3, <1>4, <1>5

\* verify of fat16.py passes exactly when the volume is whole and holds what is wanted.
LEMMA VerifyIs ==
  ASSUME IsVolume(args.esp), IsPath(args.path), canonical_ok(args.path)
  PROVE  verify(args.esp, expected_files) = "pass" <=> Bindable
<1>1. PICK v, E, vol : v = args.esp /\ E = expected_files /\ vol = volume(v)
  OBVIOUS
<1>2. PICK P : P = [i \in 1..3 |-> canonical_path(E[i].path)]
  OBVIOUS
<1>3. DOMAIN E = 1..3 /\ \A i \in 1..3 : canonical_ok(E[i].path)
      /\ P[i] = canonical_path(E[i].path) /\ \E S : P[i] \in Seq(S)
  BY <1>1, <1>2, ExpectedIs
<1>4. verify(v, E) = "pass" <=>
        /\ vol.ok
        /\ \A i \in 1..3 : /\ \A j \in 1..(i - 1) : P[j] # P[i]
                           /\ P[i] \in DOMAIN vol.files /\ vol.files[P[i]] = E[i].wanted
  <2>1. \A i \in 1..3 : \A j \in 1..(i - 1) : j \in 1..3
    OBVIOUS
  <2> QED
    BY <1>1, <1>3, <2>1 DEF verify
<1>5. Bindable <=>
        /\ geometry_ok(v) /\ LayoutSafe(v) /\ Sound(v)
        /\ \A i \in 1..3 : HasFile(v, P[i], E[i].wanted) /\ \A j \in 1..3 \ {i} : P[i] # P[j]
  BY <1>1, <1>3 DEF Bindable
<1>6. geometry_ok(v) => LayoutSafe(v)
  BY <1>1, LayoutIsSafe
<1>7. vol.ok <=> geometry_ok(v) /\ Sound(v)
  BY <1>1, VolumeIs
<1>8. ASSUME vol.ok, NEW i \in 1..3
      PROVE  HasFile(v, P[i], E[i].wanted) <=> P[i] \in DOMAIN vol.files /\ vol.files[P[i]] = E[i].wanted
  BY <1>1, <1>3, <1>8, VolumeIs
<1>9. (\A i \in 1..3 : \A j \in 1..(i - 1) : P[j] # P[i])
        <=> \A i \in 1..3 : \A j \in 1..3 \ {i} : P[i] # P[j]
  <2>1. ASSUME \A i \in 1..3 : \A j \in 1..(i - 1) : P[j] # P[i], NEW i \in 1..3, NEW j \in 1..3, i # j
        PROVE  P[i] # P[j]
    <3>1. j \in 1..(i - 1) \/ i \in 1..(j - 1)
      BY <2>1
    <3> QED
      BY <2>1, <3>1
  <2>2. \A i \in 1..3 : \A j \in 1..(i - 1) : j \in 1..3 \ {i}
    OBVIOUS
  <2> QED
    BY <2>1, <2>2
<1>10. ASSUME verify(v, E) = "pass" PROVE Bindable
  BY <1>4, <1>5, <1>6, <1>7, <1>8, <1>9, <1>10
<1>11. ASSUME Bindable PROVE verify(v, E) = "pass"
  BY <1>4, <1>5, <1>6, <1>7, <1>8, <1>9, <1>11
<1> QED
  BY <1>1, <1>10, <1>11

\* What the script has recorded of the binding is verify's verdict.
Bound ==
  /\ args \in Boots
  /\ pc = "image" /\ calm => canonical_ok(args.path) /\ verify(args.esp, expected_files) = "pass"
  /\ calm /\ report.binding = "fail" =>
       canonical_ok(args.path) /\ verify(args.esp, expected_files) # "pass"

\* The invariant gives the property of the bind step.
LEMMA BoundMeans == Bound => BindingExact
<1> SUFFICES ASSUME Bound PROVE BindingExact
  OBVIOUS
<1>1. IsVolume(args.esp) /\ IsPath(args.path)
  BY ProbeAssumption DEF Bound
<1>2. canonical_ok(args.path) => (verify(args.esp, expected_files) = "pass" <=> Bindable)
  BY <1>1, VerifyIs
<1> QED
  BY <1>2 DEF Bound, BindingExact

\* A step that neither comes to the launch nor touches the binding.
Aside ==
  /\ args' = args /\ (calm' => calm) /\ report'.binding = report.binding
  /\ pc' = "image" => pc = "image"

\* A step that leaves the binding alone keeps the invariant.
LEMMA AsideKeeps == Bound /\ Aside => Bound'
<1> SUFFICES ASSUME Bound, Aside PROVE Bound'
  OBVIOUS
<1>1. args' = args /\ expected_files' = expected_files
  BY DEF Aside, expected_files
<1> QED
  BY <1>1 DEF Bound, Aside

\* The bind step records what verify answers.
LEMMA BindEspBound == QualifyIInv /\ Bound /\ BindEsp => Bound'
<1> SUFFICES ASSUME QualifyIInv, Bound, BindEsp PROVE Bound'
  OBVIOUS
<1>1. pc = "bind" /\ args' = args /\ expected_files' = expected_files
  BY DEF BindEsp, outside, expected_files
<1>2. PICK verdict : verdict = verify(args.esp, expected_files)
  OBVIOUS
<1>3. \/ /\ canonical_ok(args.path) /\ \E status : /\ calm' = (calm /\ status = verdict)
                                                   /\ report' = [report EXCEPT !.binding = status]
                                                   /\ pc' = bindNext(status)
      \/ report' = report /\ pc' = "outcome" /\ calm' = (calm /\ ~canonical_ok(args.path))
  BY <1>2 DEF BindEsp
<1>4. CASE report' = report /\ pc' = "outcome" /\ calm' = (calm /\ ~canonical_ok(args.path))
  BY <1>1, <1>4 DEF Bound
<1>5. ASSUME canonical_ok(args.path), NEW status, calm' = (calm /\ status = verdict),
             report' = [report EXCEPT !.binding = status], pc' = bindNext(status)
      PROVE  Bound'
  <2>1. report'.binding = status
    BY <1>5, ReportDomain DEF QualifyIInv, Shape
  <2>2. calm' => status = verdict
    BY <1>5
  <2>3. pc' = "image" => status = "pass"
    BY <1>5 DEF bindNext
  <2> QED
    BY <1>1, <1>2, <1>5, <2>1, <2>2, <2>3 DEF Bound
<1> QED
  BY <1>3, <1>4, <1>5

\* Every other step is aside.
LEMMA ScriptAside ==
  ASSUME QualifyIInv,
         \/ RequireOutput \/ Config \/ SnapshotInputs \/ RunImginfo
         \/ Outcome \/ ApplyVm \/ Verdict \/ WriteEvidence
  PROVE  Aside
<1>1. CASE RequireOutput
  <2>1. args' = args /\ pc' # "image" /\ (calm' => calm)
        /\ (report' = report \/ report' = [report EXCEPT !.status = "unavailable", !.errors = {"output"}])
    BY <1>1 DEF RequireOutput, outside
  <2>2. report'.binding = report.binding
    BY <2>1, ReportDomain DEF QualifyIInv, Shape
  <2> QED
    BY <2>1, <2>2 DEF Aside
<1>2. CASE Config
  BY <1>2 DEF Config, Check, outside, Aside
<1>3. CASE SnapshotInputs
  BY <1>3 DEF SnapshotInputs, Check, outside, Aside
<1>4. CASE RunImginfo
  BY <1>4 DEF RunImginfo, Check, outside, Aside
<1>5. CASE Outcome
  BY <1>5, ReportDomain DEF Outcome, outside, Aside, QualifyIInv, Shape
<1>6. CASE ApplyVm
  <2>1. args' = args /\ (calm' => calm) /\ pc' = "verdict"
        /\ report' \in {report, apply_vm_transcript, addErrors({"vm_transcript"}),
                        addErrors({"vm_serial_missing"})}
    BY <1>6 DEF ApplyVm, outside
  <2>2. \A E : addErrors(E).binding = report.binding
               /\ addErrors(E) = [f \in DOMAIN Report0 |-> addErrors(E)[f]]
    BY ReportDomain DEF addErrors, QualifyIInv, Shape
  <2>3. apply_vm_transcript.binding = report.binding
    BY <2>2, ReportDomain DEF apply_vm_transcript
  <2> QED
    BY <2>1, <2>2, <2>3 DEF Aside
<1>7. CASE Verdict
  BY <1>7, ReportDomain DEF Verdict, outside, Aside, QualifyIInv, Shape
<1>8. CASE WriteEvidence
  BY <1>8 DEF WriteEvidence, outside, Aside
<1> QED
  BY <1>1, <1>2, <1>3, <1>4, <1>5, <1>6, <1>7, <1>8

\* The launch of the container leaves the binding alone.
LEMMA LaunchAside ==
  ASSUME QualifyIInv, RunBoot
  PROVE  Aside
<1> USE ReportDomain DEF QualifyIInv, Shape, Aside, addErrors
<1>1. CASE ResolveImage
  BY <1>1 DEF ResolveImage
<1>2. CASE Create
  BY <1>2 DEF Create, finallyStep
<1>3. CASE Attach
  BY <1>3 DEF Attach, finallyStep
<1>4. CASE Firmware
  BY <1>4 DEF Firmware, finallyStep
<1>5. CASE Inspect
  <2> DEFINE code == IF guest.status = None THEN 0 ELSE guest.status
  <2>1. pc' = finallyStep(cid) /\ args' = args
    BY <1>5 DEF Inspect
  <2>2. CASE /\ report' = [report EXCEPT !.exit_code = code,
                                         !.errors = @ \cup statusErrors(code, report.start_rc)]
             /\ calm' = calm
    BY <2>1, <2>2 DEF finallyStep
  <2>3. ASSUME NEW E, report' = addErrors(E), calm' = FALSE PROVE Aside
    BY <2>1, <2>3 DEF finallyStep
  <2> QED
    BY <1>5, <2>2, <2>3, Zenon DEF Inspect
<1>6. CASE Recover
  BY <1>6 DEF Recover
<1>7. CASE RemoveContainer
  BY <1>7 DEF RemoveContainer
<1>8. CASE CollectSerial
  BY <1>8 DEF CollectSerial
<1>9. CASE Rehash
  BY <1>9 DEF Rehash
<1> QED
  BY <1>1, <1>2, <1>3, <1>4, <1>5, <1>6, <1>7, <1>8, <1>9 DEF RunBoot

\* Every step keeps the invariant of the binding.
LEMMA NextBound == QualifyIInv /\ Bound /\ [Next]_vars => Bound'
<1> SUFFICES ASSUME QualifyIInv, Bound, [Next]_vars PROVE Bound'
  OBVIOUS
<1>1. CASE BindEsp
  BY <1>1, BindEspBound
<1>2. CASE RequireOutput \/ Config \/ SnapshotInputs \/ RunImginfo
           \/ Outcome \/ ApplyVm \/ Verdict \/ WriteEvidence
  BY <1>2, ScriptAside, AsideKeeps
<1>3. CASE RunBoot
  BY <1>3, LaunchAside, AsideKeeps
<1>4. CASE Outside
  <2>1. Aside
    BY <1>4 DEF Outside, LateCreate, GuestPrints, GuestStops, Aside
  <2> QED
    BY <2>1, AsideKeeps
<1>5. CASE UNCHANGED vars
  <2>1. Aside
    BY <1>5 DEF vars, probeVars, Aside
  <2> QED
    BY <2>1, AsideKeeps
<1> QED
  BY <1>1, <1>2, <1>3, <1>4, <1>5 DEF Next, ScriptStep, Gone, Launch

\* fat16.py's FAT16 and verify, with the qualifiers around them: for every volume, whatever its
\* size, its tables and its tree, the script goes on to the launch only from a bindable one, and no
\* bindable volume is turned away.
THEOREM BindingIsExact == Spec => []BindingExact
<1>1. Init => Bound
  BY DEF Init, Bound, Report0
<1> QED
  BY <1>1, QualifyInvariant, NextBound, BoundMeans, PTL DEF Spec
=============================================================================
