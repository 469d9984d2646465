--------------------------- MODULE BoundaryProofs ---------------------------
(***************************************************************************)
(* Proofs about the two guards between a client and a sandbox.             *)
(*                                                                         *)
(* The helper transport (HelperTransport), for any number of callers,      *)
(* calls and helper processes: it never forgets a process that runs, a     *)
(* close that succeeds leaves none behind, and a reply completes only a    *)
(* request whose caller waits.  The properties are not inductive alone.    *)
(* HelperInv adds why they hold: the only process that may be alive is the *)
(* owned one, an owned process is alive until its exit is confirmed, and   *)
(* at most one cleanup, the one cleanupTask names, may still discharge it. *)
(*                                                                         *)
(* The contract gate (SchemaLane), for every corpus, document and limit,   *)
(* whatever the schema library answers: LaneInv, and the semantics of the  *)
(* validators (SemanticsAreExact).                                         *)
(***************************************************************************)
EXTENDS HelperTransport, SchemaLane, SequenceTheorems, FiniteSetTheorems, NaturalsInduction,
        WellFoundedInduction, TLAPS

Entry == [proc : Nat, pc : {"readers", "exit", "done", "failed"}]

\* The transport object.
Transport ==
  [state : {"closed", "open", "starting", "failed", "closing"}, pid : Nat, owned : Nat,
   exitConfirmed : BOOLEAN, failError : BOOLEAN,
   pending : Callers \cup {None}, inflight : Callers \cup {None},
   requestCancel : Callers \cup {None}, closePromise : Callers \cup {None},
   cleanupTask : Nat, cl : Seq(Entry), killed : SUBSET Nat, reading : BOOLEAN,
   abortCleanup : BOOLEAN, req : [Callers -> {"none", "waiting", "replied", "ok", "err"}]]

Places == {"idle", "await", "call", "ok", "err", "reap", "join", "follow", "end"}

Task ==
  [op : {"none", "open", "request", "close"}, pc : Places,
   at : Callers \cup Nat, wasFailed : BOOLEAN, since : Nat]

\* A cleanup that may still discharge its process.
Unfinished(e) == e.pc \in {"readers", "exit"}

\* The transport x holds the one process that may be alive, which has been told
\* to stop once cleanup has started.
HoldsProcess(x, al, sp) ==
  /\ x.owned <= sp /\ al \subseteq {x.owned} \ {0}
  /\ al # {} => x.pid = x.owned
  /\ x.owned # 0 /\ x.exitConfirmed = FALSE => x.owned \in al
  /\ x.exitConfirmed = TRUE => al = {}
  /\ x.cleanupTask # 0 => al \subseteq x.killed

\* The only unfinished cleanup that has a process has the owned one.
HoldsCleanup(x) ==
  /\ x.cleanupTask <= Len(x.cl)
  /\ \A k \in 1..Len(x.cl) :
       /\ x.cl[k].pc = "exit" => x.cl[k].proc # 0
       /\ Unfinished(x.cl[k]) /\ x.cl[k].proc # 0 =>
            x.cl[k].proc = x.owned /\ k = x.cleanupTask

Holds(x, al, sp) == HoldsProcess(x, al, sp) /\ HoldsCleanup(x)

\* The request that a reply would complete is one whose caller waits for it.
Waits(x, tk) ==
  x.pending # None => /\ tk[x.pending].pc = "call"
                      /\ x.req[x.pending] \in {"waiting", "err"}

HelperInv ==
  /\ t \in Transport /\ task \in [Callers -> Task] /\ spawned \in Nat
  /\ Holds(t, alive, spawned)
  /\ Waits(t, task)

-----------------------------------------------------------------------------
(* What the methods without an await do to the process and the cleanups. *)

\* The two have the same process, the same cleanups and have sent the same signals.
Same(x, y) ==
  /\ y.pid = x.pid /\ y.owned = x.owned /\ y.exitConfirmed = x.exitConfirmed
  /\ y.cleanupTask = x.cleanupTask /\ y.cl = x.cl /\ y.killed = x.killed

\* y has the process of x and its cleanups, or one more if none was under way.
Kept(x, y) ==
  /\ y.pid = x.pid /\ y.owned = x.owned /\ y.exitConfirmed = x.exitConfirmed
  /\ Len(x.cl) <= Len(y.cl) /\ \A k \in 1..Len(x.cl) : y.cl[k] = x.cl[k]
  /\ x.cleanupTask # 0 => y.cl = x.cl /\ y.cleanupTask = x.cleanupTask

LEMMA SameHolds ==
  ASSUME NEW x, NEW y, NEW al, NEW sp, Same(x, y), Holds(x, al, sp)
  PROVE  Holds(y, al, sp)
  BY DEF Same, Holds, HoldsProcess, HoldsCleanup

LEMMA RejectedDoes ==
  ASSUME NEW x \in Transport, NEW c \in Callers
  PROVE  /\ Rejected(x, c) \in Transport /\ Same(x, Rejected(x, c))
         /\ Rejected(x, c).pending = x.pending /\ Rejected(x, c).state = x.state
         /\ \A d \in Callers : Rejected(x, c).req[d] =
              IF d = c /\ x.req[c] \in {"waiting", "replied"} THEN "err" ELSE x.req[d]
  BY DEF Rejected, Transport, Same

LEMMA RejectPendingDoes ==
  ASSUME NEW x \in Transport
  PROVE  /\ rejectPending(x) \in Transport /\ Same(x, rejectPending(x))
         /\ rejectPending(x).pending = None /\ rejectPending(x).state = x.state
<1>1. CASE x.pending = None
  BY <1>1 DEF rejectPending, Same
<1>2. CASE x.pending # None
  <2>1. x.pending \in Callers
    BY <1>2 DEF Transport
  <2>2. PICK y : y = Rejected(x, x.pending)
    OBVIOUS
  <2>3. y \in Transport /\ Same(x, y) /\ y.state = x.state
    BY <2>1, <2>2, RejectedDoes
  <2>4. rejectPending(x) = [y EXCEPT !.pending = None]
    BY <1>2, <2>2 DEF rejectPending
  <2> QED
    BY <2>3, <2>4 DEF Transport, Same
<1> QED
  BY <1>1, <1>2

\* Starting a cleanup: its entry takes the owned process, and that is told to
\* stop unless none is alive.
LEMMA RunCleanupDoes ==
  ASSUME NEW x \in Transport, NEW kill \in BOOLEAN, NEW al, NEW sp,
         Holds(x, al, sp), x.cleanupTask = 0, al = {} \/ (kill = TRUE /\ al = alive)
  PROVE  /\ runCleanup(x, kill) \in Transport /\ Kept(x, runCleanup(x, kill))
         /\ Holds(runCleanup(x, kill), al, sp)
         /\ runCleanup(x, kill).pending = None
<1>1. PICK a : a = [x EXCEPT !.abortCleanup = FALSE]
  OBVIOUS
<1>2. a \in Transport /\ Same(x, a)
  BY <1>1 DEF Transport, Same
<1>3. PICK b : b = rejectPending(a)
  OBVIOUS
<1>4. b \in Transport /\ Same(x, b) /\ b.pending = None
  BY <1>2, <1>3, RejectPendingDoes DEF Same
<1>5. PICK e : e = [proc |-> x.owned, pc |-> "readers"]
  OBVIOUS
<1>6. e \in Entry /\ e.proc = x.owned /\ e.pc = "readers"
  BY <1>5 DEF Entry, Transport
<1>7. PICK s : s = Append(x.cl, e)
  OBVIOUS
<1>8. /\ x.cl \in Seq(Entry) /\ Len(x.cl) \in Nat
      /\ s \in Seq(Entry) /\ Len(s) = Len(x.cl) + 1
      /\ \A k \in 1..Len(x.cl) : s[k] = x.cl[k]
      /\ s[Len(x.cl) + 1] = e
  BY <1>6, <1>7 DEF Transport
<1>9. PICK z : z = IF kill /\ x.owned \in alive /\ ~x.exitConfirmed
                     THEN x.killed \cup {x.owned} ELSE x.killed
  OBVIOUS
<1>10. z \in SUBSET Nat
  BY <1>9 DEF Transport
<1>11. al \subseteq z
  <2>1. al \subseteq {x.owned} /\ (x.exitConfirmed = TRUE => al = {})
    BY DEF Holds, HoldsProcess
  <2>2. x.exitConfirmed \in BOOLEAN
    BY DEF Transport
  <2> QED
    BY <2>1, <2>2, <1>9
<1>12. PICK n : n = Len(x.cl) + 1
  OBVIOUS
<1>13. n \in Nat \ {0} /\ Len(s) = n
  BY <1>8, <1>12
<1>14. runCleanup(x, kill) = [b EXCEPT !.reading = FALSE, !.cl = s, !.cleanupTask = n, !.killed = z]
  BY <1>1, <1>3, <1>4, <1>5, <1>7, <1>9, <1>12 DEF runCleanup, Same
<1>15. PICK y : y = runCleanup(x, kill)
  OBVIOUS
<1>16. y = [b EXCEPT !.reading = FALSE, !.cl = s, !.cleanupTask = n, !.killed = z]
  BY <1>14, <1>15
<1>17. y \in Transport
  <2>1. n \in Nat /\ s \in Seq(Entry) /\ z \in SUBSET Nat /\ b \in Transport
    BY <1>4, <1>8, <1>10, <1>13
  <2> QED
    BY <2>1, <1>16 DEF Transport
<1>18. /\ y.pid = x.pid /\ y.owned = x.owned /\ y.exitConfirmed = x.exitConfirmed
       /\ y.cl = s /\ y.cleanupTask = n /\ y.killed = z /\ y.pending = None
  BY <1>4, <1>16 DEF Transport, Same
<1>19. Kept(x, y)
  BY <1>8, <1>18 DEF Kept
<1>20. HoldsProcess(y, al, sp)
  BY <1>11, <1>18 DEF Holds, HoldsProcess
<1>21. HoldsCleanup(y)
  <2>1. y.cleanupTask <= Len(y.cl)
    BY <1>13, <1>18
  <2>2. ASSUME NEW k \in 1..Len(y.cl)
        PROVE  /\ y.cl[k].pc = "exit" => y.cl[k].proc # 0
               /\ Unfinished(y.cl[k]) /\ y.cl[k].proc # 0 =>
                    y.cl[k].proc = y.owned /\ k = y.cleanupTask
    <3>1. CASE k = n
      BY <3>1, <1>6, <1>8, <1>12, <1>18
    <3>2. CASE k # n
      <4>1. k \in 1..Len(x.cl) /\ y.cl[k] = x.cl[k]
        BY <3>2, <1>8, <1>12, <1>13, <1>18
      <4>2. k # x.cleanupTask
        BY <4>1
      <4> QED
        BY <4>1, <4>2 DEF Holds, HoldsCleanup
    <3> QED
      BY <3>1, <3>2
  <2> QED
    BY <2>1, <2>2 DEF HoldsCleanup
<1> QED
  BY <1>15, <1>17, <1>18, <1>19, <1>20, <1>21 DEF Holds

LEMMA StartCleanupDoes ==
  ASSUME NEW x \in Transport, NEW kill \in BOOLEAN, NEW al, NEW sp,
         Holds(x, al, sp), al = {} \/ (kill = TRUE /\ al = alive)
  PROVE  /\ startCleanup(x, kill) \in Transport /\ Kept(x, startCleanup(x, kill))
         /\ Holds(startCleanup(x, kill), al, sp)
         /\ startCleanup(x, kill) = x \/ startCleanup(x, kill).pending = None
<1>1. CASE x.cleanupTask = 0
  BY <1>1, RunCleanupDoes DEF startCleanup
<1>2. CASE x.cleanupTask # 0
  <2>1. startCleanup(x, kill) = x
    BY <1>2 DEF startCleanup
  <2>2. Len(x.cl) \in Nat
    BY DEF Transport
  <2> QED
    BY <2>1, <2>2 DEF Kept
<1> QED
  BY <1>1, <1>2

\* A failure leaves no request pending, and starts cleanup if there is something
\* to clean up.
LEMMA SignalFailureDoes ==
  ASSUME NEW x \in Transport, NEW kill \in BOOLEAN, NEW al, NEW sp,
         Holds(x, al, sp), al = {} \/ (kill = TRUE /\ al = alive)
  PROVE  /\ signalFailure(x, kill) \in Transport /\ Kept(x, signalFailure(x, kill))
         /\ Holds(signalFailure(x, kill), al, sp)
         /\ signalFailure(x, kill).pending = None
<1>1. PICK y : y = IF x.requestCancel = None THEN x ELSE Rejected(x, x.requestCancel)
  OBVIOUS
<1>2. y \in Transport /\ Same(x, y)
  <2>1. CASE x.requestCancel = None
    BY <2>1, <1>1 DEF Same
  <2>2. CASE x.requestCancel # None
    <3>1. x.requestCancel \in Callers
      BY <2>2 DEF Transport
    <3> QED
      BY <2>2, <3>1, <1>1, RejectedDoes
  <2> QED
    BY <2>1, <2>2
<1>3. Len(x.cl) \in Nat
  BY DEF Transport
<1>4. CASE y.state = "closed" /\ y.owned = 0
  <2>1. signalFailure(x, kill) = rejectPending(y)
    BY <1>1, <1>4 DEF signalFailure
  <2>2. PICK z : z = rejectPending(y)
    OBVIOUS
  <2>3. z \in Transport /\ Same(x, z) /\ z.pending = None
    BY <1>2, <2>2, RejectPendingDoes DEF Same
  <2>4. Holds(z, al, sp)
    BY <2>3, SameHolds
  <2>5. Kept(x, z)
    BY <2>3, <1>3 DEF Kept, Same
  <2> QED
    BY <2>1, <2>2, <2>3, <2>4, <2>5
<1>5. CASE ~(y.state = "closed" /\ y.owned = 0)
  <2>1. PICK a : a = [y EXCEPT !.state = IF y.state \in {"failed", "closing"} THEN y.state ELSE "failed",
                              !.failError = TRUE]
    OBVIOUS
  <2>2. a \in Transport /\ Same(x, a)
    BY <1>2, <2>1 DEF Transport, Same
  <2>3. PICK b : b = rejectPending(a)
    OBVIOUS
  <2>4. b \in Transport /\ Same(x, b) /\ b.pending = None
    BY <2>2, <2>3, RejectPendingDoes DEF Same
  <2>5. signalFailure(x, kill) = startCleanup(b, kill)
    BY <1>1, <1>5, <2>1, <2>3 DEF signalFailure
  <2>6. Holds(b, al, sp)
    BY <2>4, SameHolds
  <2>7. PICK z : z = startCleanup(b, kill)
    OBVIOUS
  <2>8. z \in Transport /\ Kept(b, z) /\ Holds(z, al, sp) /\ z.pending = None
    BY <2>4, <2>6, <2>7, StartCleanupDoes
  <2>9. Kept(x, z)
    BY <2>4, <2>8 DEF Kept, Same
  <2> QED
    BY <2>5, <2>7, <2>8, <2>9
<1> QED
  BY <1>4, <1>5

-----------------------------------------------------------------------------
(* What a step of a caller does to the tasks. *)

Moved(tk, c, pc, at) == [tk EXCEPT ![c].pc = pc, ![c].at = at]

LEMMA MovedDoes ==
  ASSUME NEW tk \in [Callers -> Task], NEW c \in Callers, NEW pc \in Places, NEW at \in Nat
  PROVE  /\ Moved(tk, c, pc, at) \in [Callers -> Task]
         /\ \A d \in Callers \ {c} : Moved(tk, c, pc, at)[d] = tk[d]
<1>1. PICK r : r = [tk[c] EXCEPT !.pc = pc, !.at = at]
  OBVIOUS
<1>2. Moved(tk, c, pc, at) = [tk EXCEPT ![c] = r]
  BY <1>1 DEF Moved
<1>3. r \in Task
  BY <1>1 DEF Task
<1> QED
  BY <1>2, <1>3

LEMMA SetDoes ==
  ASSUME NEW tk \in [Callers -> Task], NEW c \in Callers, NEW r \in Task,
         NEW u, u = [tk EXCEPT ![c] = r]
  PROVE  /\ u \in [Callers -> Task] /\ u[c] = r
         /\ \A d \in Callers \ {c} : u[d] = tk[d]
  OBVIOUS

LEMMA IdleType == Idle \in Task /\ Idle.pc = "idle"
  BY DEF Idle, Task, Places

\* Only a task that does not wait for a reply is left.
LEMMA WaitsMoves ==
  ASSUME NEW x \in Transport, NEW y, NEW tk, NEW u, NEW c \in Callers,
         Waits(x, tk), y.pending = x.pending, x.pending # c,
         \A d \in Callers \ {c} : y.req[d] = x.req[d],
         \A d \in Callers \ {c} : u[d] = tk[d]
  PROVE  Waits(y, u)
<1>1. CASE x.pending = None
  BY <1>1 DEF Waits
<1>2. CASE x.pending # None
  <2>1. x.pending \in Callers \ {c}
    BY <1>2 DEF Transport
  <2> QED
    BY <1>2, <2>1 DEF Waits
<1> QED
  BY <1>1, <1>2

LEMMA FinishedDoes ==
  ASSUME NEW x \in Transport, NEW c \in Callers
  PROVE  /\ finished(x, c) \in Transport /\ Same(x, finished(x, c))
         /\ finished(x, c).pending = x.pending
         /\ \A d \in Callers \ {c} : finished(x, c).req[d] = x.req[d]
<1>1. PICK y : y = finished(x, c)
  OBVIOUS
<1>2. PICK r : r = IF x.requestCancel = c THEN None ELSE x.requestCancel
  OBVIOUS
<1>3. PICK q : q = [x.req EXCEPT ![c] = "none"]
  OBVIOUS
<1>4. y = [x EXCEPT !.req = q, !.requestCancel = r]
  BY <1>1, <1>2, <1>3 DEF finished
<1>5. q \in [Callers -> {"none", "waiting", "replied", "ok", "err"}] /\ r \in Callers \cup {None}
  BY <1>2, <1>3 DEF Transport
<1>6. \A d \in Callers \ {c} : q[d] = x.req[d]
  BY <1>3 DEF Transport
<1>7. y \in Transport
  BY <1>4, <1>5 DEF Transport
<1>8. y.req = q /\ y.pending = x.pending /\ Same(x, y)
  BY <1>4 DEF Transport, Same
<1> QED
  BY <1>1, <1>6, <1>7, <1>8

LEMMA IssueDoes ==
  ASSUME NEW x \in Transport, NEW c \in Callers
  PROVE  /\ issue(x, c) \in Transport /\ Same(x, issue(x, c))
         /\ issue(x, c).pending = c /\ issue(x, c).req[c] = "waiting"
<1>1. PICK y : y = issue(x, c)
  OBVIOUS
<1>2. PICK q : q = [x.req EXCEPT ![c] = "waiting"]
  OBVIOUS
<1>3. y = [x EXCEPT !.pending = c, !.requestCancel = c, !.req = q]
  BY <1>1, <1>2 DEF issue
<1>4. q \in [Callers -> {"none", "waiting", "replied", "ok", "err"}] /\ q[c] = "waiting"
  BY <1>2 DEF Transport
<1>5. y \in Transport
  BY <1>3, <1>4 DEF Transport
<1>6. y.req = q /\ y.pending = c /\ Same(x, y)
  BY <1>3 DEF Transport, Same
<1> QED
  BY <1>1, <1>4, <1>5, <1>6

\* open may start a process only when none is owned, hence none alive.
LEMMA BeginKeeps ==
  ASSUME HelperInv, NEW c \in Callers, t.owned = 0, Begin(c)
  PROVE  HelperInv'
<1> USE HelperAssumption
<1>1. t \in Transport /\ task \in [Callers -> Task] /\ spawned \in Nat /\ Holds(t, alive, spawned)
  BY DEF HelperInv
<1>2. PICK x : x = resetSession(t)
  OBVIOUS
<1>3. /\ x \in Transport /\ x.owned = 0 /\ x.exitConfirmed = FALSE /\ x.pending = None
      /\ x.cleanupTask = 0 /\ x.cl = t.cl /\ x.killed = t.killed /\ x.pid = t.pid
  BY <1>1, <1>2 DEF resetSession, Transport
<1>4. alive = {}
  BY <1>1 DEF Holds, HoldsProcess
<1>5. /\ t.cl \in Seq(Entry) /\ Len(t.cl) \in Nat
      /\ \A k \in 1..Len(t.cl) : /\ t.cl[k].pc = "exit" => t.cl[k].proc # 0
                                 /\ ~(Unfinished(t.cl[k]) /\ t.cl[k].proc # 0)
  BY <1>1 DEF Holds, HoldsCleanup, Transport
<1>6. ASSUME NEW y \in Transport, y.cleanupTask = 0, y.cl = t.cl
      PROVE  HoldsCleanup(y)
  BY <1>5, <1>6 DEF HoldsCleanup
<1>7. CASE /\ \E state \in {"starting", "failed"} : t' = [x EXCEPT !.state = state]
           /\ Leave(c)
           /\ UNCHANGED <<alive, spawned>>
  <2>1. PICK y : y = t'
    OBVIOUS
  <2>2. PICK state \in {"starting", "failed"} : y = [x EXCEPT !.state = state]
    BY <1>7, <2>1
  <2>3. /\ y \in Transport /\ y.owned = 0 /\ y.exitConfirmed = FALSE /\ y.pending = None
        /\ y.cleanupTask = 0 /\ y.cl = t.cl
    BY <1>3, <2>2 DEF Transport
  <2>4. Holds(y, {}, spawned)
    BY <1>1, <1>6, <2>3 DEF Holds, HoldsProcess
  <2>5. task' \in [Callers -> Task]
    BY <1>1, <1>7, IdleType, SetDoes DEF Leave
  <2>6. Waits(y, task')
    BY <2>3 DEF Waits
  <2> QED
    BY <1>1, <1>4, <1>7, <2>1, <2>3, <2>4, <2>5, <2>6 DEF HelperInv, Holds, HoldsProcess, HoldsCleanup, Waits
<1>8. CASE /\ spawned' = spawned + 1 /\ alive' = alive \cup {spawned + 1}
           /\ t' = issue([x EXCEPT !.state = "starting", !.owned = spawned + 1, !.pid = spawned + 1,
                                   !.reading = TRUE, !.abortCleanup = TRUE], c)
           /\ task' = [task EXCEPT ![c] = [Idle EXCEPT !.op = "open", !.pc = "call"]]
  <2>1. PICK n : n = spawned + 1
    OBVIOUS
  <2>2. n \in Nat /\ n # 0 /\ n <= n
    BY <1>1, <2>1
  <2>3. PICK a : a = [x EXCEPT !.state = "starting", !.owned = n, !.pid = n,
                              !.reading = TRUE, !.abortCleanup = TRUE]
    OBVIOUS
  <2>4. /\ a \in Transport /\ a.owned = n /\ a.pid = n /\ a.exitConfirmed = FALSE
        /\ a.cleanupTask = 0 /\ a.cl = t.cl
    BY <1>3, <2>2, <2>3 DEF Transport
  <2>5. PICK y : y = t'
    OBVIOUS
  <2>6. y = issue(a, c)
    BY <1>8, <2>1, <2>3, <2>5
  <2>7. y \in Transport /\ Same(a, y) /\ y.pending = c /\ y.req[c] = "waiting"
    BY <2>4, <2>6, IssueDoes
  <2>8. Holds(a, {n}, n)
    BY <1>6, <2>2, <2>4 DEF Holds, HoldsProcess
  <2>9. Holds(y, {n}, n)
    BY <2>7, <2>8, SameHolds
  <2>10. PICK r : r = [Idle EXCEPT !.op = "open", !.pc = "call"]
    OBVIOUS
  <2>11. r \in Task /\ r.pc = "call"
    BY <2>10, IdleType DEF Task, Places
  <2>12. task' \in [Callers -> Task] /\ task'[c] = r
    BY <1>1, <1>8, <2>10, <2>11, SetDoes
  <2>13. Waits(y, task')
    BY <2>7, <2>11, <2>12 DEF Waits
  <2>14. alive' = {n} /\ spawned' = n
    BY <1>4, <1>8, <2>1
  <2> QED
    BY <2>2, <2>5, <2>7, <2>9, <2>12, <2>13, <2>14 DEF HelperInv, Holds, HoldsProcess, HoldsCleanup, Waits
<1> QED
  BY <1>2, <1>7, <1>8 DEF Begin

-----------------------------------------------------------------------------
(* Every step keeps the invariant. *)

LEMMA InvNext ==
  ASSUME NEW y \in Transport, NEW u \in [Callers -> Task], NEW al, NEW sp \in Nat,
         y = t', u = task', al = alive', sp = spawned',
         Holds(y, al, sp), Waits(y, u)
  PROVE  HelperInv'
  BY DEF HelperInv, Holds, HoldsProcess, HoldsCleanup, Waits

\* A step that leaves the processes alone and moves one caller that waits for no reply.
LEMMA CallerMoves ==
  ASSUME HelperInv, NEW c \in Callers, NEW y \in Transport, NEW u \in [Callers -> Task],
         y = t', u = task', UNCHANGED <<alive, spawned>>,
         Holds(y, alive, spawned),
         \A d \in Callers \ {c} : u[d] = task[d],
         \/ y.pending = None
         \/ /\ y.pending = t.pending /\ t.pending # c
            /\ \A d \in Callers \ {c} : y.req[d] = t.req[d]
  PROVE  HelperInv'
<1>1. t \in Transport /\ spawned \in Nat /\ Waits(t, task)
  BY DEF HelperInv
<1>2. Waits(y, u)
  <2>1. CASE y.pending = None
    BY <2>1 DEF Waits
  <2>2. CASE /\ y.pending = t.pending /\ t.pending # c
             /\ \A d \in Callers \ {c} : y.req[d] = t.req[d]
    BY <2>2, <1>1, WaitsMoves
  <2> QED
    BY <2>1, <2>2
<1> QED
  BY <1>1, <1>2, InvNext

\* The caller of a continuation, and one that calls, is not the one whose reply is
\* awaited, unless it is at its race.
LEMMA NotPending ==
  ASSUME HelperInv, NEW c \in Callers, task[c].pc # "call" \/ t.req[c] \in {"ok", "replied", "none"}
  PROVE  t.pending # c
  BY HelperAssumption DEF HelperInv, Waits

LEMMA OpenKeeps ==
  ASSUME HelperInv, NEW c \in Callers, open(c) \/ OpenResumes(c)
  PROVE  HelperInv'
<1>1. t \in Transport /\ task \in [Callers -> Task] /\ Holds(t, alive, spawned)
  BY DEF HelperInv
<1>2. CASE t.owned = 0 /\ Begin(c)
  BY <1>2, BeginKeeps
<1>3. CASE /\ task[c].pc # "call" /\ UNCHANGED <<t, alive, spawned>>
           /\ \E r \in Task : task' = [task EXCEPT ![c] = r]
  <2>1. PICK r \in Task : task' = [task EXCEPT ![c] = r]
    BY <1>3
  <2>2. PICK u : u = task'
    OBVIOUS
  <2>3. u \in [Callers -> Task] /\ \A d \in Callers \ {c} : u[d] = task[d]
    BY <1>1, <2>1, <2>2, SetDoes
  <2>4. t.pending # c
    BY <1>3, NotPending
  <2> QED
    BY <1>1, <1>3, <2>2, <2>3, <2>4, CallerMoves
<1>4. CASE open(c)
  <2>1. task[c].pc # "call" /\ t.owned = 0
    BY <1>4, IdleType DEF open, Called
  <2>2. CASE t.cleanupTask # 0
    <3>1. PICK r : r = [Idle EXCEPT !.op = "open", !.pc = "await", !.at = t.cleanupTask]
      OBVIOUS
    <3>2. t.cleanupTask \in Nat
      BY <1>1 DEF Transport
    <3>3. r \in Task
      BY <3>1, <3>2, IdleType DEF Task, Places
    <3>4. task' = [task EXCEPT ![c] = r] /\ UNCHANGED <<t, alive, spawned>>
      BY <1>4, <2>2, <3>1 DEF open
    <3> QED
      BY <1>3, <2>1, <3>3, <3>4
  <2>3. CASE t.cleanupTask = 0
    BY <1>2, <1>4, <2>1, <2>3 DEF open
  <2> QED
    BY <2>2, <2>3
<1>5. CASE OpenResumes(c)
  <2>1. task[c].pc # "call"
    BY <1>5 DEF OpenResumes
  <2>2. CASE t.owned # 0
    BY <1>3, <1>5, <2>1, <2>2, IdleType DEF OpenResumes, Leave
  <2>3. CASE t.owned = 0
    BY <1>2, <1>5, <2>3 DEF OpenResumes
  <2> QED
    BY <2>2, <2>3
<1> QED
  BY <1>4, <1>5

\* The end of open.
LEMMA OpenEndKeeps ==
  ASSUME HelperInv, NEW c \in Callers,
         OpenSucceeds(c) \/ HelloRefused(c) \/ OpenFails(c) \/ OpenThrows(c)
  PROVE  HelperInv'
<1>1. t \in Transport /\ task \in [Callers -> Task] /\ Holds(t, alive, spawned)
  BY DEF HelperInv
<1>2. t.pending # c
  BY NotPending DEF OpenSucceeds, HelloRefused, OpenFails, OpenThrows
<1>3. PICK y, u : y = t' /\ u = task'
  OBVIOUS
<1>4. UNCHANGED <<alive, spawned>>
  BY DEF OpenSucceeds, HelloRefused, OpenFails, OpenThrows, Continues
<1>5. CASE OpenSucceeds(c)
  <2>1. y = [t EXCEPT !.state = "open"]
    BY <1>3, <1>5 DEF OpenSucceeds
  <2>2. y \in Transport /\ Same(t, y) /\ y.pending = t.pending /\ y.req = t.req
    BY <1>1, <2>1 DEF Transport, Same
  <2>3. Holds(y, alive, spawned)
    BY <1>1, <2>2, SameHolds
  <2>4. u \in [Callers -> Task] /\ \A d \in Callers \ {c} : u[d] = task[d]
    BY <1>1, <1>3, <1>5, IdleType, SetDoes DEF OpenSucceeds, Leave
  <2> QED
    BY <1>2, <1>3, <1>4, <2>2, <2>3, <2>4, CallerMoves
<1>6. CASE HelloRefused(c)
  <2>1. u \in [Callers -> Task] /\ \A d \in Callers \ {c} : u[d] = task[d]
    <3>1. u = Moved(task, c, "err", 0)
      BY <1>3, <1>6 DEF HelloRefused, Goto, Moved
    <3> QED
      BY <1>1, <3>1, MovedDoes DEF Places
  <2>2. y = t
    BY <1>3, <1>6 DEF HelloRefused
  <2> QED
    BY <1>1, <1>2, <1>3, <1>4, <2>1, <2>2, CallerMoves
<1>7. CASE OpenFails(c)
  <2>1. PICK a : a = signalFailure(t, TRUE)
    OBVIOUS
  <2>2. a \in Transport /\ Holds(a, alive, spawned) /\ a.pending = None
    BY <1>1, <2>1, SignalFailureDoes
  <2>3. y = startCleanup(a, TRUE)
    BY <1>3, <1>7, <2>1 DEF OpenFails
  <2>4. y \in Transport /\ Holds(y, alive, spawned) /\ y.pending = None
    BY <2>2, <2>3, StartCleanupDoes
  <2>5. y.cleanupTask \in Nat
    BY <2>4 DEF Transport
  <2>6. u = Moved(task, c, "reap", y.cleanupTask)
    BY <1>3, <1>7 DEF OpenFails, Goto, Moved
  <2>7. u \in [Callers -> Task] /\ \A d \in Callers \ {c} : u[d] = task[d]
    BY <1>1, <2>5, <2>6, MovedDoes DEF Places
  <2> QED
    BY <1>3, <1>4, <2>4, <2>7, CallerMoves
<1>8. CASE OpenThrows(c)
  <2>1. u \in [Callers -> Task] /\ \A d \in Callers \ {c} : u[d] = task[d]
    BY <1>1, <1>3, <1>8, IdleType, SetDoes DEF OpenThrows, Leave
  <2>2. y = t
    BY <1>3, <1>8 DEF OpenThrows
  <2> QED
    BY <1>1, <1>2, <1>3, <1>4, <2>1, <2>2, CallerMoves
<1> QED
  BY <1>5, <1>6, <1>7, <1>8

\* request, and requestWithTimeout after its race.
LEMMA CallKeeps ==
  ASSUME HelperInv, NEW c \in Callers,
         CallSucceeds(c) \/ CallFails(c) \/ CallJoined(c) \/ request(c) \/ RequestReturns(c)
  PROVE  HelperInv'
<1> USE HelperAssumption
<1>1. t \in Transport /\ task \in [Callers -> Task] /\ Holds(t, alive, spawned) /\ spawned \in Nat
  BY DEF HelperInv
<1>2. PICK y, u : y = t' /\ u = task'
  OBVIOUS
<1>3. UNCHANGED <<alive, spawned>>
  BY DEF CallSucceeds, CallFails, CallJoined, request, RequestReturns, Continues
<1>4. CASE CallSucceeds(c) \/ CallJoined(c)
  <2>1. t.pending # c
    BY <1>4, NotPending DEF CallSucceeds, CallJoined
  <2>2. y = finished(t, c)
    BY <1>2, <1>4 DEF CallSucceeds, CallJoined
  <2>3. /\ y \in Transport /\ Same(t, y) /\ y.pending = t.pending
        /\ \A d \in Callers \ {c} : y.req[d] = t.req[d]
    BY <1>1, <2>2, FinishedDoes
  <2>4. Holds(y, alive, spawned)
    BY <1>1, <2>3, SameHolds
  <2>5. PICK pc \in {"ok", "err"} : u = Moved(task, c, pc, 0)
    BY <1>2, <1>4 DEF CallSucceeds, CallJoined, Goto, Moved
  <2>6. u \in [Callers -> Task] /\ \A d \in Callers \ {c} : u[d] = task[d]
    BY <1>1, <2>5, MovedDoes DEF Places
  <2> QED
    BY <1>2, <1>3, <2>1, <2>3, <2>4, <2>6, CallerMoves
<1>5. CASE CallFails(c)
  <2>1. PICK x : x = [t EXCEPT !.pending = IF t.pending = c THEN None ELSE t.pending]
    OBVIOUS
  <2>2. /\ x \in Transport /\ Same(t, x) /\ x.req = t.req /\ x.pending # c
        /\ x.pending = None \/ x.pending = t.pending
    BY <1>1, <2>1 DEF Transport, Same
  <2>3. Holds(x, alive, spawned)
    BY <1>1, <2>2, SameHolds
  <2>4. PICK z : z = IF Up(x) THEN signalFailure(x, TRUE) ELSE x
    OBVIOUS
  <2>5. /\ z \in Transport /\ Holds(z, alive, spawned)
        /\ z.pending = None \/ (z.pending = t.pending /\ t.pending # c /\ z.req = t.req)
    <3>1. CASE Up(x)
      BY <3>1, <2>2, <2>3, <2>4, SignalFailureDoes
    <3>2. CASE ~Up(x)
      BY <3>2, <2>2, <2>3, <2>4
    <3> QED
      BY <3>1, <3>2
  <2>6. IF z.cleanupTask # 0 THEN t' = z /\ Goto(c, "join", z.cleanupTask)
                             ELSE t' = finished(z, c) /\ Goto(c, "err", 0)
    BY <1>5, <2>1, <2>4 DEF CallFails
  <2>7. CASE z.cleanupTask # 0
    <3>1. z.cleanupTask \in Nat /\ y = z
      BY <1>2, <2>5, <2>6, <2>7 DEF Transport
    <3>2. u = Moved(task, c, "join", z.cleanupTask)
      BY <1>2, <2>6, <2>7 DEF Goto, Moved
    <3>3. u \in [Callers -> Task] /\ \A d \in Callers \ {c} : u[d] = task[d]
      BY <1>1, <3>1, <3>2, MovedDoes DEF Places
    <3> QED
      BY <1>2, <1>3, <2>5, <3>1, <3>3, CallerMoves
  <2>8. CASE z.cleanupTask = 0
    <3>1. y = finished(z, c)
      BY <1>2, <2>6, <2>8
    <3>2. /\ y \in Transport /\ Same(z, y) /\ y.pending = z.pending
          /\ \A d \in Callers \ {c} : y.req[d] = z.req[d]
      BY <2>5, <3>1, FinishedDoes
    <3>3. Holds(y, alive, spawned)
      BY <2>5, <3>2, SameHolds
    <3>4. u = Moved(task, c, "err", 0)
      BY <1>2, <2>6, <2>8 DEF Goto, Moved
    <3>5. u \in [Callers -> Task] /\ \A d \in Callers \ {c} : u[d] = task[d]
      BY <1>1, <3>4, MovedDoes DEF Places
    <3> QED
      BY <1>2, <1>3, <2>5, <3>2, <3>3, <3>5, CallerMoves
  <2> QED
    BY <2>7, <2>8
<1>6. CASE request(c)
  <2>1. PICK x : x = [t EXCEPT !.inflight = c]
    OBVIOUS
  <2>2. x \in Transport /\ Same(t, x)
    BY <1>1, <2>1 DEF Transport, Same
  <2>3. y = issue(x, c)
    BY <1>2, <1>6, <2>1 DEF request
  <2>4. y \in Transport /\ Same(x, y) /\ y.pending = c /\ y.req[c] = "waiting"
    BY <2>2, <2>3, IssueDoes
  <2>5. Holds(y, alive, spawned)
    BY <1>1, <2>2, <2>4, SameHolds
  <2>6. PICK r : r = [Idle EXCEPT !.op = "request", !.pc = "call"]
    OBVIOUS
  <2>7. r \in Task /\ r.pc = "call"
    BY <2>6, IdleType DEF Task, Places
  <2>8. u = [task EXCEPT ![c] = r]
    BY <1>2, <1>6, <2>6 DEF request
  <2>9. u \in [Callers -> Task] /\ u[c] = r
    BY <1>1, <2>7, <2>8, SetDoes
  <2>10. Waits(y, u)
    BY <2>4, <2>7, <2>9 DEF Waits
  <2> QED
    BY <1>1, <1>2, <1>3, <2>4, <2>5, <2>9, <2>10, InvNext
<1>7. CASE RequestReturns(c)
  <2>1. t.pending # c
    BY <1>7, NotPending DEF RequestReturns
  <2>2. y = [t EXCEPT !.inflight = IF t.inflight = c THEN None ELSE t.inflight]
    BY <1>2, <1>7 DEF RequestReturns
  <2>3. y \in Transport /\ Same(t, y) /\ y.pending = t.pending /\ y.req = t.req
    BY <1>1, <2>2 DEF Transport, Same
  <2>4. Holds(y, alive, spawned)
    BY <1>1, <2>3, SameHolds
  <2>5. u \in [Callers -> Task] /\ \A d \in Callers \ {c} : u[d] = task[d]
    BY <1>1, <1>2, <1>7, IdleType, SetDoes DEF RequestReturns, Leave
  <2> QED
    BY <1>2, <1>3, <2>1, <2>3, <2>4, <2>5, CallerMoves
<1> QED
  BY <1>4, <1>5, <1>6, <1>7

\* close, up to its shutdown request or its wait for the cleanup.
LEMMA CloseKeeps ==
  ASSUME HelperInv, NEW c \in Callers, close(c)
  PROVE  HelperInv'
<1> USE HelperAssumption
<1>1. t \in Transport /\ task \in [Callers -> Task] /\ Holds(t, alive, spawned) /\ spawned \in Nat
  BY DEF HelperInv
<1>2. PICK y, u : y = t' /\ u = task'
  OBVIOUS
<1>3. UNCHANGED <<alive, spawned>> /\ t.pending # c
  BY NotPending, IdleType DEF close, Called
<1>4. CASE t.closePromise # None
  <2>1. PICK r : r = [Idle EXCEPT !.op = "close", !.pc = "follow", !.at = t.closePromise]
    OBVIOUS
  <2>2. t.closePromise \in Callers
    BY <1>1, <1>4 DEF Transport
  <2>3. r \in Task
    BY <2>1, <2>2, IdleType DEF Task, Places
  <2>4. y = t /\ u \in {task, [task EXCEPT ![c] = r]}
    BY <1>2, <1>4, <2>1 DEF close
  <2>5. u \in [Callers -> Task] /\ \A d \in Callers \ {c} : u[d] = task[d]
    BY <1>1, <2>3, <2>4, SetDoes
  <2> QED
    BY <1>1, <1>2, <1>3, <2>4, <2>5, CallerMoves
<1>5. CASE t.closePromise = None
  <2>1. PICK w : w = (t.state = "failed" \/ t.failError)
    OBVIOUS
  <2>2. w \in BOOLEAN
    BY <1>1, <2>1 DEF Transport
  <2>3. PICK a : a = [t EXCEPT !.state = IF t.state = "failed" THEN t.state ELSE "closing",
                              !.abortCleanup = FALSE, !.closePromise = c]
    OBVIOUS
  <2>4. a \in Transport /\ Same(t, a)
    BY <1>1, <2>3 DEF Transport, Same
  <2>5. PICK x : x = rejectPending(a)
    OBVIOUS
  <2>6. x \in Transport /\ Same(t, x) /\ x.pending = None
    BY <2>4, <2>5, RejectPendingDoes DEF Same
  <2>7. Holds(x, alive, spawned)
    BY <1>1, <2>6, SameHolds
  <2>8. \/ /\ y = issue(x, c)
           /\ u = [task EXCEPT ![c] = [op |-> "close", pc |-> "call", at |-> 0,
                                      wasFailed |-> w, since |-> spawned]]
        \/ /\ y = startCleanup(x, TRUE)
           /\ u = [task EXCEPT ![c] = [op |-> "close", pc |-> "reap", at |-> y.cleanupTask,
                                      wasFailed |-> w, since |-> spawned]]
    BY <1>2, <1>5, <2>1, <2>3, <2>5 DEF close
  <2>9. CASE /\ y = issue(x, c)
             /\ u = [task EXCEPT ![c] = [op |-> "close", pc |-> "call", at |-> 0,
                                        wasFailed |-> w, since |-> spawned]]
    <3>1. y \in Transport /\ Same(x, y) /\ y.pending = c /\ y.req[c] = "waiting"
      BY <2>6, <2>9, IssueDoes
    <3>2. Holds(y, alive, spawned)
      BY <2>7, <3>1, SameHolds
    <3>3. PICK r : r = [op |-> "close", pc |-> "call", at |-> 0, wasFailed |-> w, since |-> spawned]
      OBVIOUS
    <3>4. r \in Task /\ r.pc = "call"
      BY <1>1, <2>2, <3>3 DEF Task, Places
    <3>5. u \in [Callers -> Task] /\ u[c] = r
      BY <1>1, <2>9, <3>3, <3>4, SetDoes
    <3>6. Waits(y, u)
      BY <3>1, <3>4, <3>5 DEF Waits
    <3> QED
      BY <1>1, <1>2, <1>3, <3>1, <3>2, <3>5, <3>6, InvNext
  <2>10. CASE /\ y = startCleanup(x, TRUE)
              /\ u = [task EXCEPT ![c] = [op |-> "close", pc |-> "reap", at |-> y.cleanupTask,
                                         wasFailed |-> w, since |-> spawned]]
    <3>1. y \in Transport /\ Holds(y, alive, spawned) /\ y.pending = None
      BY <2>6, <2>7, <2>10, StartCleanupDoes
    <3>2. y.cleanupTask \in Nat
      BY <3>1 DEF Transport
    <3>3. PICK r : r = [op |-> "close", pc |-> "reap", at |-> y.cleanupTask,
                        wasFailed |-> w, since |-> spawned]
      OBVIOUS
    <3>4. r \in Task
      BY <1>1, <2>2, <3>2, <3>3 DEF Task, Places
    <3>5. u \in [Callers -> Task] /\ \A d \in Callers \ {c} : u[d] = task[d]
      BY <1>1, <2>10, <3>3, <3>4, SetDoes
    <3> QED
      BY <1>2, <1>3, <3>1, <3>5, CallerMoves
  <2> QED
    BY <2>8, <2>9, <2>10
<1> QED
  BY <1>4, <1>5

\* The rest of close.  The pid is forgotten only when no process is alive.
LEMMA CloseEndKeeps ==
  ASSUME HelperInv, NEW c \in Callers, CloseJoins(c) \/ CloseReturns(c) \/ CloseEnds(c)
  PROVE  HelperInv'
<1> USE HelperAssumption
<1>1. /\ t \in Transport /\ task \in [Callers -> Task] /\ Holds(t, alive, spawned)
      /\ spawned \in Nat /\ Waits(t, task)
  BY DEF HelperInv
<1>2. PICK y, u : y = t' /\ u = task'
  OBVIOUS
<1>3. UNCHANGED <<alive, spawned>> /\ t.pending # c
  BY NotPending DEF CloseJoins, CloseReturns, CloseEnds, Continues
<1>4. CASE CloseJoins(c)
  <2>1. PICK x : x = rejectPending(t)
    OBVIOUS
  <2>2. x \in Transport /\ Same(t, x) /\ x.pending = None
    BY <1>1, <2>1, RejectPendingDoes
  <2>3. Holds(x, alive, spawned)
    BY <1>1, <2>2, SameHolds
  <2>4. y = startCleanup(x, TRUE)
    BY <1>2, <1>4, <2>1 DEF CloseJoins
  <2>5. y \in Transport /\ Holds(y, alive, spawned) /\ y.pending = None
    BY <2>2, <2>3, <2>4, StartCleanupDoes
  <2>6. y.cleanupTask \in Nat
    BY <2>5 DEF Transport
  <2>7. u = Moved(task, c, "reap", y.cleanupTask)
    BY <1>2, <1>4 DEF CloseJoins, Goto, Moved
  <2>8. u \in [Callers -> Task] /\ \A d \in Callers \ {c} : u[d] = task[d]
    BY <1>1, <2>6, <2>7, MovedDoes DEF Places
  <2> QED
    BY <1>2, <1>3, <2>5, <2>8, CallerMoves
<1>5. CASE CloseReturns(c)
  <2>1. y \in Transport /\ Holds(y, alive, spawned) /\ y.pending = t.pending /\ y.req = t.req
    <3>1. CASE Unconfirmed(t)
      <4>1. y = [t EXCEPT !.state = "failed"]
        BY <1>2, <1>5, <3>1 DEF CloseReturns
      <4>2. y \in Transport /\ Same(t, y) /\ y.pending = t.pending /\ y.req = t.req
        BY <1>1, <4>1 DEF Transport, Same
      <4> QED
        BY <1>1, <4>2, SameHolds
    <3>2. CASE ~Unconfirmed(t)
      <4>1. PICK st \in {"failed", "closed"} : y = [t EXCEPT !.pid = 0, !.state = st]
        BY <1>2, <1>5, <3>2 DEF CloseReturns
      <4>2. /\ y \in Transport /\ y.pending = t.pending /\ y.req = t.req
            /\ y.owned = t.owned /\ y.exitConfirmed = t.exitConfirmed
            /\ y.cleanupTask = t.cleanupTask /\ y.cl = t.cl /\ y.killed = t.killed
        BY <1>1, <4>1 DEF Transport
      <4>3. t.exitConfirmed \in BOOLEAN
        BY <1>1 DEF Transport
      <4>4. alive = {}
        BY <1>1, <3>2, <4>3 DEF Unconfirmed, Holds, HoldsProcess
      <4>5. HoldsProcess(y, alive, spawned)
        BY <1>1, <4>2, <4>4 DEF Holds, HoldsProcess
      <4>6. HoldsCleanup(y)
        BY <1>1, <4>2 DEF Holds, HoldsCleanup
      <4> QED
        BY <4>2, <4>5, <4>6 DEF Holds
    <3> QED
      BY <3>1, <3>2
  <2>2. PICK r : r = [task[c] EXCEPT !.pc = "end"]
    OBVIOUS
  <2>3. r \in Task
    BY <1>1, <2>2 DEF Task, Places
  <2>4. u = [d \in Callers |-> IF d = c THEN r
              ELSE IF task[d].pc = "follow" /\ task[d].at = c THEN Idle ELSE task[d]]
    BY <1>2, <1>5, <2>2 DEF CloseReturns
  <2>5. u \in [Callers -> Task]
    BY <1>1, <2>3, <2>4, IdleType
  <2>6. Waits(y, u)
    <3>1. CASE t.pending = None
      BY <3>1, <2>1 DEF Waits
    <3>2. CASE t.pending # None
      <4>1. t.pending \in Callers /\ t.pending # c /\ task[t.pending].pc = "call"
        BY <1>1, <1>3, <3>2 DEF Transport, Waits
      <4>2. u[t.pending] = task[t.pending]
        BY <2>4, <4>1
      <4> QED
        BY <1>1, <2>1, <4>1, <4>2 DEF Waits
    <3> QED
      BY <3>1, <3>2
  <2> QED
    BY <1>1, <1>2, <1>3, <2>1, <2>5, <2>6, InvNext
<1>6. CASE CloseEnds(c)
  <2>1. y = [t EXCEPT !.closePromise = None]
    BY <1>2, <1>6 DEF CloseEnds
  <2>2. y \in Transport /\ Same(t, y) /\ y.pending = t.pending /\ y.req = t.req
    BY <1>1, <2>1 DEF Transport, Same
  <2>3. Holds(y, alive, spawned)
    BY <1>1, <2>2, SameHolds
  <2>4. u \in [Callers -> Task] /\ \A d \in Callers \ {c} : u[d] = task[d]
    BY <1>1, <1>2, <1>6, IdleType, SetDoes DEF CloseEnds, Leave
  <2> QED
    BY <1>2, <1>3, <2>2, <2>3, <2>4, CallerMoves
<1> QED
  BY <1>4, <1>5, <1>6

\* The cleanup k of s moves to pc.
Advanced(s, k, pc) == [s EXCEPT ![k].pc = pc]

LEMMA AdvancedDoes ==
  ASSUME NEW s \in Seq(Entry), NEW k \in 1..Len(s), NEW pc \in {"readers", "exit", "done", "failed"}
  PROVE  /\ Advanced(s, k, pc) \in Seq(Entry) /\ Len(Advanced(s, k, pc)) = Len(s)
         /\ Advanced(s, k, pc)[k].pc = pc /\ Advanced(s, k, pc)[k].proc = s[k].proc
         /\ \A j \in 1..Len(s) : j # k => Advanced(s, k, pc)[j] = s[j]
<1>1. s[k] \in Entry
  OBVIOUS
<1>2. PICK e : e = [s[k] EXCEPT !.pc = pc]
  OBVIOUS
<1>3. e \in Entry /\ e.pc = pc /\ e.proc = s[k].proc
  BY <1>1, <1>2 DEF Entry
<1>4. Advanced(s, k, pc) = [s EXCEPT ![k] = e]
  BY <1>2 DEF Advanced
<1> QED
  BY <1>3, <1>4

\* A cleanup that ends without a process, or moves on with it.
LEMMA AdvanceKeeps ==
  ASSUME NEW x \in Transport, NEW k \in 1..Len(x.cl), NEW al, NEW sp,
         NEW pc \in {"exit", "done", "failed"},
         Holds(x, al, sp), Unfinished(x.cl[k]), pc = "exit" => x.cl[k].proc # 0
  PROVE  /\ [x EXCEPT !.cl[k].pc = pc] \in Transport
         /\ [x EXCEPT !.cl[k].pc = pc].pending = x.pending
         /\ [x EXCEPT !.cl[k].pc = pc].req = x.req
         /\ Holds([x EXCEPT !.cl[k].pc = pc], al, sp)
<1>1. PICK s : s = Advanced(x.cl, k, pc)
  OBVIOUS
<1>2. x.cl \in Seq(Entry)
  BY DEF Transport
<1>3. /\ s \in Seq(Entry) /\ Len(s) = Len(x.cl)
      /\ s[k].pc = pc /\ s[k].proc = x.cl[k].proc
      /\ \A j \in 1..Len(x.cl) : j # k => s[j] = x.cl[j]
  <2>1. PICK r : r = x.cl
    OBVIOUS
  <2>2. r \in Seq(Entry) /\ k \in 1..Len(r)
    BY <1>2, <2>1
  <2>3. pc \in {"readers", "exit", "done", "failed"}
    OBVIOUS
  <2>4. /\ Advanced(r, k, pc) \in Seq(Entry) /\ Len(Advanced(r, k, pc)) = Len(r)
        /\ Advanced(r, k, pc)[k].pc = pc /\ Advanced(r, k, pc)[k].proc = r[k].proc
        /\ \A j \in 1..Len(r) : j # k => Advanced(r, k, pc)[j] = r[j]
    BY <2>2, <2>3, AdvancedDoes
  <2> QED
    BY <1>1, <2>1, <2>4
<1>4. PICK y : y = [x EXCEPT !.cl[k].pc = pc]
  OBVIOUS
<1>5. y = [x EXCEPT !.cl = s]
  BY <1>1, <1>4 DEF Advanced
<1>6. y \in Transport
  BY <1>3, <1>5 DEF Transport
<1>7. /\ y.pid = x.pid /\ y.owned = x.owned /\ y.exitConfirmed = x.exitConfirmed
      /\ y.cleanupTask = x.cleanupTask /\ y.killed = x.killed /\ y.cl = s
      /\ y.pending = x.pending /\ y.req = x.req
  BY <1>5 DEF Transport
<1>8. HoldsProcess(y, al, sp)
  BY <1>7 DEF Holds, HoldsProcess
<1>9. HoldsCleanup(y)
  <2>1. ASSUME NEW j \in 1..Len(x.cl)
        PROVE  /\ s[j].pc = "exit" => s[j].proc # 0
               /\ Unfinished(s[j]) /\ s[j].proc # 0 => s[j].proc = x.owned /\ j = x.cleanupTask
    <3>1. CASE j = k
      BY <3>1, <1>3 DEF Holds, HoldsCleanup
    <3>2. CASE j # k
      BY <3>2, <1>3 DEF Holds, HoldsCleanup
    <3> QED
      BY <3>1, <3>2
  <2> QED
    BY <2>1, <1>3, <1>7 DEF Holds, HoldsCleanup
<1> QED
  BY <1>4, <1>6, <1>7, <1>8, <1>9 DEF Holds

\* A cleanup that has its process discharges it only when that has exited.
LEMMA DischargedKeeps ==
  ASSUME NEW x \in Transport, NEW k \in 1..Len(x.cl), NEW sp \in Nat,
         Holds(x, {}, sp), Unfinished(x.cl[k]), x.cl[k].proc # 0
  PROVE  /\ Discharged(x, k) \in Transport /\ Holds(Discharged(x, k), {}, sp)
         /\ Discharged(x, k).pending = x.pending /\ Discharged(x, k).req = x.req
<1>1. PICK s : s = Advanced(x.cl, k, "done")
  OBVIOUS
<1>2. x.cl \in Seq(Entry)
  BY DEF Transport
<1>3. /\ s \in Seq(Entry) /\ Len(s) = Len(x.cl) /\ s[k].pc = "done"
      /\ \A j \in 1..Len(x.cl) : j # k => s[j] = x.cl[j]
  <2>1. PICK r : r = x.cl
    OBVIOUS
  <2>2. r \in Seq(Entry) /\ k \in 1..Len(r)
    BY <1>2, <2>1
  <2>3. "done" \in {"readers", "exit", "done", "failed"}
    OBVIOUS
  <2>4. /\ Advanced(r, k, "done") \in Seq(Entry) /\ Len(Advanced(r, k, "done")) = Len(r)
        /\ Advanced(r, k, "done")[k].pc = "done" /\ Advanced(r, k, "done")[k].proc = r[k].proc
        /\ \A j \in 1..Len(r) : j # k => Advanced(r, k, "done")[j] = r[j]
    BY <2>2, <2>3, AdvancedDoes
  <2> QED
    BY <1>1, <2>1, <2>4
<1>4. PICK y : y = Discharged(x, k)
  OBVIOUS
<1>5. y = [x EXCEPT !.exitConfirmed = TRUE, !.owned = 0, !.pid = 0, !.cl = s]
  BY <1>1, <1>4 DEF Discharged, Advanced
<1>6. y \in Transport
  BY <1>3, <1>5 DEF Transport
<1>7. /\ y.owned = 0 /\ y.exitConfirmed = TRUE
      /\ y.cleanupTask = x.cleanupTask /\ y.cl = s
      /\ y.pending = x.pending /\ y.req = x.req
  BY <1>5 DEF Transport
<1>8. HoldsProcess(y, {}, sp)
  BY <1>7 DEF HoldsProcess
<1>9. k = x.cleanupTask
  BY DEF Holds, HoldsCleanup
<1>10. HoldsCleanup(y)
  <2>1. ASSUME NEW j \in 1..Len(x.cl)
        PROVE  /\ s[j].pc = "exit" => s[j].proc # 0
               /\ ~(Unfinished(s[j]) /\ s[j].proc # 0)
    <3>1. CASE j = k
      BY <3>1, <1>3 DEF Unfinished
    <3>2. CASE j # k
      BY <3>2, <1>3, <1>9 DEF Holds, HoldsCleanup
    <3> QED
      BY <3>1, <3>2
  <2> QED
    BY <2>1, <1>3, <1>7 DEF Holds, HoldsCleanup
<1> QED
  BY <1>4, <1>6, <1>7, <1>8, <1>10 DEF Holds

\* A step that leaves the callers and the processes alone.
LEMMA TransportMoves ==
  ASSUME HelperInv, NEW y \in Transport, NEW al,
         y = t', al = alive', UNCHANGED <<task, spawned>>,
         Holds(y, al, spawned),
         \/ y.pending = None
         \/ /\ y.pending = t.pending
            /\ \A d \in Callers : t.req[d] \in {"waiting", "err"} => y.req[d] \in {"waiting", "err"}
  PROVE  HelperInv'
<1>1. t \in Transport /\ task \in [Callers -> Task] /\ spawned \in Nat /\ Waits(t, task)
  BY DEF HelperInv
<1>2. Waits(y, task)
  BY <1>1 DEF Waits, Transport
<1>3. PICK u : u = task
  OBVIOUS
<1> QED
  BY <1>1, <1>2, <1>3, InvNext

\* runCleanup after its awaits.
LEMMA CleanupKeeps ==
  ASSUME HelperInv, NEW k \in 1..Len(t.cl), ReadersJoined(k) \/ ExitJoined(k) \/ ExitDeadline(k)
  PROVE  HelperInv'
<1> USE HelperAssumption
<1>1. t \in Transport /\ Holds(t, alive, spawned) /\ spawned \in Nat
  BY DEF HelperInv
<1>2. PICK y : y = t'
  OBVIOUS
<1>3. UNCHANGED <<task, spawned>> /\ alive' = alive
  BY DEF ReadersJoined, ExitJoined, ExitDeadline
<1>4. Unfinished(t.cl[k])
  BY DEF Unfinished, ReadersJoined, ExitJoined, Reaped, ExitDeadline
<1>5. t.cl[k].proc # 0 => t.cl[k].proc = t.owned /\ k = t.cleanupTask
  BY <1>1, <1>4 DEF Holds, HoldsCleanup
<1>6. ASSUME t.cl[k].proc # 0, t.cl[k].proc \notin alive
      PROVE  alive = {}
  BY <1>1, <1>5, <1>6 DEF Holds, HoldsProcess
<1>7. CASE ReadersJoined(k)
  <2>1. PICK x \in {t} \cup {signalFailure(t, TRUE) : z \in {w \in {t} : w.pending # None \/ Up(w)}} :
          y = IF t.cl[k].proc = 0 THEN [x EXCEPT !.cl[k].pc = "done"]
              ELSE IF x.exitConfirmed \/ t.cl[k].proc \notin alive THEN Discharged(x, k)
              ELSE [x EXCEPT !.cl[k].pc = "exit"]
    BY <1>2, <1>7 DEF ReadersJoined
  <2>2. x = t \/ x = signalFailure(t, TRUE)
    OBVIOUS
  <2>3. /\ x \in Transport /\ Kept(t, x) /\ Holds(x, alive, spawned)
        /\ x.pending = None \/ x = t
    <3>1. CASE x = t
      <4>1. Len(t.cl) \in Nat
        BY <1>1 DEF Transport
      <4> QED
        BY <1>1, <3>1, <4>1 DEF Kept
    <3>2. CASE x = signalFailure(t, TRUE)
      BY <1>1, <3>2, SignalFailureDoes
    <3> QED
      BY <2>2, <3>1, <3>2
  <2>4. k \in 1..Len(x.cl) /\ x.cl[k] = t.cl[k]
    <3>1. Len(t.cl) \in Nat /\ Len(x.cl) \in Nat
      BY <1>1, <2>3 DEF Transport
    <3> QED
      BY <3>1, <2>3 DEF Kept
  <2>5. CASE t.cl[k].proc = 0
    <3>1. y = [x EXCEPT !.cl[k].pc = "done"]
      BY <2>1, <2>5
    <3>2. y \in Transport /\ Holds(y, alive, spawned) /\ y.pending = x.pending /\ y.req = x.req
      BY <1>4, <2>3, <2>4, <3>1, AdvanceKeeps
    <3> QED
      BY <1>2, <1>3, <2>3, <3>2, TransportMoves
  <2>6. CASE t.cl[k].proc # 0 /\ (x.exitConfirmed \/ t.cl[k].proc \notin alive)
    <3>1. y = Discharged(x, k)
      BY <2>1, <2>6
    <3>2. alive = {}
      <4>1. x.exitConfirmed \in BOOLEAN
        BY <2>3 DEF Transport
      <4> QED
        BY <1>6, <2>3, <2>6, <4>1 DEF Holds, HoldsProcess
    <3>3. y \in Transport /\ Holds(y, alive, spawned) /\ y.pending = x.pending /\ y.req = x.req
      BY <1>1, <1>4, <2>3, <2>4, <2>6, <3>1, <3>2, DischargedKeeps
    <3> QED
      BY <1>2, <1>3, <2>3, <3>3, TransportMoves
  <2>7. CASE t.cl[k].proc # 0 /\ ~(x.exitConfirmed \/ t.cl[k].proc \notin alive)
    <3>1. y = [x EXCEPT !.cl[k].pc = "exit"]
      BY <2>1, <2>7
    <3>2. y \in Transport /\ Holds(y, alive, spawned) /\ y.pending = x.pending /\ y.req = x.req
      BY <1>4, <2>3, <2>4, <2>7, <3>1, AdvanceKeeps
    <3> QED
      BY <1>2, <1>3, <2>3, <3>2, TransportMoves
  <2> QED
    BY <2>5, <2>6, <2>7
<1>8. t.cl[k].pc = "exit" => t.cl[k].proc # 0
  BY <1>1 DEF Holds, HoldsCleanup
<1>9. CASE ExitJoined(k)
  <2>1. y = Discharged(t, k) /\ t.cl[k].proc # 0 /\ alive = {}
    BY <1>2, <1>6, <1>8, <1>9 DEF ExitJoined, Reaped
  <2>2. y \in Transport /\ Holds(y, alive, spawned) /\ y.pending = t.pending /\ y.req = t.req
    BY <1>1, <1>4, <2>1, DischargedKeeps
  <2> QED
    BY <1>2, <1>3, <2>2, TransportMoves
<1>10. CASE ExitDeadline(k)
  <2>1. PICK x : x = [t EXCEPT !.cl[k].pc = "failed"]
    OBVIOUS
  <2>2. x \in Transport /\ Holds(x, alive, spawned) /\ x.pending = t.pending /\ x.req = t.req
    BY <1>1, <1>4, <2>1, AdvanceKeeps
  <2>3. PICK p : p = t.cl[k].proc
    OBVIOUS
  <2>4. p \in Nat
    <3>1. t.cl \in Seq(Entry)
      BY <1>1 DEF Transport
    <3>2. t.cl[k] \in Entry
      BY <3>1
    <3> QED
      BY <2>3, <3>2 DEF Entry
  <2>5. y = [x EXCEPT !.pid = p, !.killed = x.killed \cup {p}]
    BY <1>1, <1>2, <1>10, <2>1, <2>3 DEF ExitDeadline, Transport
  <2>6. /\ y \in Transport /\ y.owned = x.owned /\ y.exitConfirmed = x.exitConfirmed
        /\ y.pid = p /\ y.killed = x.killed \cup {p} /\ y.cl = x.cl
        /\ y.cleanupTask = x.cleanupTask /\ y.pending = x.pending /\ y.req = x.req
    BY <2>2, <2>4, <2>5 DEF Transport
  <2>7. p = x.owned
    BY <1>1, <1>5, <1>8, <1>10, <2>1, <2>3 DEF ExitDeadline, Transport
  <2>8. Holds(y, alive, spawned)
    BY <2>2, <2>6, <2>7 DEF Holds, HoldsProcess, HoldsCleanup
  <2> QED
    BY <1>2, <1>3, <2>2, <2>6, <2>8, TransportMoves
<1> QED
  BY <1>7, <1>9, <1>10

\* The exit of the only process that was alive.
LEMMA ExitKeeps ==
  ASSUME HelperInv, NEW p \in alive, Exit(p)
  PROVE  HelperInv'
<1>1. t \in Transport /\ Holds(t, alive, spawned) /\ spawned \in Nat
  BY DEF HelperInv
<1>2. PICK y, al : y = t' /\ al = alive'
  OBVIOUS
<1>3. al = {}
  BY <1>1, <1>2 DEF Exit, Holds, HoldsProcess
<1>4. PICK x : x = [t EXCEPT !.exitConfirmed = TRUE]
  OBVIOUS
<1>5. /\ x \in Transport /\ x.exitConfirmed = TRUE /\ x.owned = t.owned /\ x.cl = t.cl
      /\ x.cleanupTask = t.cleanupTask /\ x.pending = t.pending /\ x.req = t.req
  BY <1>1, <1>4 DEF Transport
<1>6. Holds(x, al, spawned)
  BY <1>1, <1>3, <1>5 DEF Holds, HoldsProcess, HoldsCleanup
<1>7. y = IF Up(x) THEN signalFailure(x, FALSE) ELSE x
  BY <1>2, <1>4 DEF Exit, Outside
<1>8. UNCHANGED <<task, spawned>>
  BY DEF Exit, Outside
<1>9. CASE Up(x)
  <2>1. y \in Transport /\ Holds(y, al, spawned) /\ y.pending = None
    BY <1>3, <1>5, <1>6, <1>7, <1>9, SignalFailureDoes
  <2> QED
    BY <1>2, <1>8, <2>1, TransportMoves
<1>10. CASE ~Up(x)
  <2>1. y = x
    BY <1>7, <1>10
  <2> QED
    BY <1>2, <1>5, <1>6, <1>8, <2>1, TransportMoves
<1> QED
  BY <1>9, <1>10

\* Replies, deadlines and the progress of a write.
LEMMA ReplyKeeps ==
  ASSUME HelperInv, Reply \/ \E c \in Callers : Flushed(c) \/ Expire(c)
  PROVE  HelperInv'
<1> USE HelperAssumption
<1>1. t \in Transport /\ Holds(t, alive, spawned)
  BY DEF HelperInv
<1>2. PICK y : y = t'
  OBVIOUS
<1>3. UNCHANGED <<task, spawned>> /\ alive' = alive
  BY DEF Reply, Flushed, Expire, Outside
<1>4. CASE Reply
  <2>1. t.pending \in Callers
    BY <1>1, <1>4 DEF Reply, Transport
  <2>2. PICK outcome \in {"replied", "err"} :
          y = [t EXCEPT !.req[t.pending] = IF @ = "waiting" THEN outcome ELSE @, !.pending = None]
    BY <1>2, <1>4 DEF Reply, Outside
  <2>3. PICK q : q = [t.req EXCEPT ![t.pending] =
                        IF t.req[t.pending] = "waiting" THEN outcome ELSE t.req[t.pending]]
    OBVIOUS
  <2>4. q \in [Callers -> {"none", "waiting", "replied", "ok", "err"}]
    BY <1>1, <2>1, <2>3 DEF Transport
  <2>5. y = [t EXCEPT !.req = q, !.pending = None]
    BY <1>1, <2>1, <2>2, <2>3 DEF Transport
  <2>6. y \in Transport
    BY <1>1, <2>4, <2>5 DEF Transport
  <2>7. Same(t, y) /\ y.pending = None
    BY <1>1, <2>5 DEF Transport, Same
  <2>8. Holds(y, alive, spawned)
    BY <1>1, <2>7, SameHolds
  <2> QED
    BY <1>2, <1>3, <2>6, <2>7, <2>8, TransportMoves
<1>5. ASSUME NEW c \in Callers, Flushed(c)
      PROVE  HelperInv'
  <2>1. PICK q : q = [t.req EXCEPT ![c] = "ok"]
    OBVIOUS
  <2>2. q \in [Callers -> {"none", "waiting", "replied", "ok", "err"}]
    BY <1>1, <2>1 DEF Transport
  <2>3. y = [t EXCEPT !.req = q]
    BY <1>2, <1>5, <2>1 DEF Flushed, Outside
  <2>4. y \in Transport
    BY <1>1, <2>2, <2>3 DEF Transport
  <2>5. Same(t, y) /\ y.pending = t.pending /\ y.req = q
    BY <1>1, <2>3 DEF Transport, Same
  <2>6. \A d \in Callers : t.req[d] \in {"waiting", "err"} => y.req[d] \in {"waiting", "err"}
    <3>1. t.req[c] = "replied"
      BY <1>5 DEF Flushed
    <3> QED
      BY <1>1, <2>1, <2>5, <3>1 DEF Transport
  <2>7. Holds(y, alive, spawned)
    BY <1>1, <2>5, SameHolds
  <2> QED
    BY <1>2, <1>3, <2>4, <2>5, <2>6, <2>7, TransportMoves
<1>6. ASSUME NEW c \in Callers, Expire(c)
      PROVE  HelperInv'
  <2>1. y = Rejected(t, c)
    BY <1>2, <1>6 DEF Expire, Outside
  <2>2. /\ y \in Transport /\ Same(t, y) /\ y.pending = t.pending
        /\ \A d \in Callers : t.req[d] \in {"waiting", "err"} => y.req[d] \in {"waiting", "err"}
    BY <1>1, <2>1, RejectedDoes
  <2>3. Holds(y, alive, spawned)
    BY <1>1, <2>2, SameHolds
  <2> QED
    BY <1>2, <1>3, <2>2, <2>3, TransportMoves
<1> QED
  BY <1>4, <1>5, <1>6

\* The other events fail the transport, or end its reading.
LEMMA FailureKeeps ==
  ASSUME HelperInv, BadFrame \/ StdoutEnds \/ Abort
  PROVE  HelperInv'
<1>1. t \in Transport /\ Holds(t, alive, spawned)
  BY DEF HelperInv
<1>2. PICK y : y = t'
  OBVIOUS
<1>3. UNCHANGED <<task, spawned>> /\ alive' = alive
  BY DEF BadFrame, StdoutEnds, Abort, Outside
<1>4. PICK x : x = [t EXCEPT !.reading = FALSE]
  OBVIOUS
<1>5. x \in Transport /\ Same(t, x) /\ x.pending = t.pending /\ x.req = t.req
  BY <1>1, <1>4 DEF Transport, Same
<1>6. Holds(x, alive, spawned)
  BY <1>1, <1>5, SameHolds
<1>7. y \in {x, signalFailure(t, TRUE), signalFailure(x, TRUE)}
  BY <1>2, <1>4 DEF BadFrame, StdoutEnds, Abort, Outside
<1>8. CASE y = x
  BY <1>2, <1>3, <1>5, <1>6, <1>8, TransportMoves
<1>9. CASE y # x
  <2>1. y \in Transport /\ Holds(y, alive, spawned) /\ y.pending = None
    BY <1>1, <1>5, <1>6, <1>7, <1>9, SignalFailureDoes
  <2> QED
    BY <1>2, <1>3, <2>1, TransportMoves
<1> QED
  BY <1>8, <1>9

-----------------------------------------------------------------------------
(* The theorems. *)

LEMMA HelperInit == Init => HelperInv
<1> SUFFICES ASSUME Init PROVE HelperInv
  OBVIOUS
<1> USE HelperAssumption
<1>1. PICK x : x = t
  OBVIOUS
<1>2. x = NewTransport
  BY <1>1 DEF Init
<1>3. << >> \in Seq(Entry) /\ Len(<< >>) = 0
  OBVIOUS
<1>4. x \in Transport
  BY <1>2, <1>3 DEF NewTransport, Transport
<1>5. /\ x.owned = 0 /\ x.exitConfirmed = FALSE /\ x.pending = None
      /\ x.cleanupTask = 0 /\ x.cl = << >>
  BY <1>2 DEF NewTransport
<1>6. Holds(x, {}, 0)
  BY <1>3, <1>5 DEF Holds, HoldsProcess, HoldsCleanup
<1>7. task \in [Callers -> Task]
  BY IdleType DEF Init
<1>8. Waits(x, task)
  BY <1>5 DEF Waits
<1> QED
  BY <1>1, <1>4, <1>6, <1>7, <1>8 DEF Init, HelperInv

LEMMA HelperStep == HelperInv /\ [Next]_vars => HelperInv'
<1> SUFFICES ASSUME HelperInv, [Next]_vars PROVE HelperInv'
  OBVIOUS
<1>1. ASSUME NEW c \in Callers,
             open(c) \/ request(c) \/ close(c) \/ Step(c) \/ Expire(c) \/ Flushed(c)
      PROVE  HelperInv'
  BY <1>1, OpenKeeps, OpenEndKeeps, CallKeeps, CloseKeeps, CloseEndKeeps, ReplyKeeps DEF Step
<1>2. ASSUME NEW k \in 1..Len(t.cl), ReadersJoined(k) \/ ExitJoined(k) \/ ExitDeadline(k)
      PROVE  HelperInv'
  BY <1>2, CleanupKeeps
<1>3. ASSUME NEW p \in alive, Exit(p)
      PROVE  HelperInv'
  BY <1>3, ExitKeeps
<1>4. CASE Reply \/ BadFrame \/ StdoutEnds \/ Abort
  BY <1>4, ReplyKeeps, FailureKeeps
<1>5. CASE UNCHANGED vars
  BY <1>5 DEF vars, HelperInv, Holds, HoldsProcess, HoldsCleanup, Waits
<1> QED
  BY <1>1, <1>2, <1>3, <1>4, <1>5 DEF Next

\* The inductive invariant: the owned process is the only one that may be alive
\* and is alive until its exit is confirmed, one cleanup at most may discharge
\* it, and a pending request is one whose caller is at its race.
THEOREM HelperInvariant == Spec => []HelperInv
  BY HelperInit, HelperStep, PTL DEF Spec

\* However open, request, close, aborts, deadlines, replies and exits interleave,
\* the transport keeps the handle and the pid of every helper that runs, and one
\* whose cleanup has started has been told to stop.
THEOREM HelpersAreKept == Spec => []NoForgottenHelper
<1>1. HelperInv => NoForgottenHelper
  BY DEF HelperInv, Holds, HoldsProcess, NoForgottenHelper
<1> QED
  BY <1>1, HelperInvariant, PTL

\* dispatchFrame completes only a request whose caller is still at its race: no
\* late frame and no later session's reply finds a request that was given up.
THEOREM RepliesAreAwaited == Spec => []RepliesReachWaiters
<1>1. HelperInv => RepliesReachWaiters
  BY HelperAssumption DEF HelperInv, Waits, RepliesReachWaiters
<1> QED
  BY <1>1, HelperInvariant, PTL

\* closeInner returns without an error only when no helper started before the
\* call runs, and throws only while it still holds one that does.
THEOREM ClosesAreHonest == Spec => CloseIsHonest
<1> DEFINE Honest(c) ==
      task[c].pc = "reap" /\ task'[c].pc = "end" =>
        IF Unconfirmed(t) THEN t.owned \in alive ELSE \A p \in alive : p > task[c].since
<1>1. HelperInv => \A c \in Callers : Honest(c)
  <2> SUFFICES ASSUME HelperInv, NEW c \in Callers PROVE Honest(c)
    OBVIOUS
  <2>1. t.exitConfirmed \in BOOLEAN /\ HoldsProcess(t, alive, spawned)
    BY DEF HelperInv, Holds, Transport
  <2>2. CASE Unconfirmed(t)
    BY <2>1, <2>2 DEF Unconfirmed, HoldsProcess
  <2>3. CASE ~Unconfirmed(t)
    BY <2>1, <2>3 DEF Unconfirmed, HoldsProcess
  <2> QED
    BY <2>2, <2>3
<1>2. HelperInv => [\A c \in Callers : Honest(c)]_vars
  BY <1>1
<1> QED
  BY <1>2, HelperInvariant, PTL DEF CloseIsHonest

-----------------------------------------------------------------------------
(* Numbers, loops and sums. *)

\* A set of naturals that is not empty has a least element.
LEMMA LeastNat ==
  ASSUME NEW S, S \subseteq Nat, S # {}
  PROVE  \E n \in S : \A m \in S : n <= m
<1>1. PICK n \in S : \A m \in S : ~(<<m, n>> \in OpToRel(<, Nat))
  BY NatLessThanWellFounded, WFMin
<1>2. \A m \in S : ~(m < n)
  BY <1>1 DEF OpToRel
<1> QED
  BY <1>2

\* What a property of numbers needs to hold up to n: the least number at which it
\* fails does not exist.
LEMMA UpTo ==
  ASSUME NEW n \in Nat, NEW S, 0 \in S, \A k \in 1..n : k - 1 \in S => k \in S
  PROVE  \A k \in 0..n : k \in S
<1>1. SUFFICES ASSUME NEW m \in 0..n, m \notin S PROVE FALSE
  OBVIOUS
<1> DEFINE Bad == {k \in 0..n : k \notin S}
<1>2. Bad \subseteq Nat /\ Bad # {}
  BY <1>1
<1>3. PICK k \in Bad : \A j \in Bad : k <= j
  BY <1>2, LeastNat
<1>4. k \in 1..n /\ k - 1 \in 0..n /\ ~(k <= k - 1)
  BY <1>3
<1>5. k - 1 \notin Bad
  BY <1>3, <1>4
<1>6. k - 1 \in S
  BY <1>4, <1>5
<1> QED
  BY <1>3, <1>4, <1>6

\* The first of a set of naturals, as EachOf and the validators choose it.
LEMMA FirstOf ==
  ASSUME NEW S, S \subseteq Nat, S # {}
  PROVE  LET m == CHOOSE i \in S : \A j \in S : i <= j IN m \in S /\ \A j \in S : m <= j
<1>1. \E i \in S : \A j \in S : i <= j
  BY LeastNat
<1> QED
  BY <1>1

\* A loop over 1..n that starts with a, and whose round k turns y into round[k][y],
\* has values: what the recursive functions of the model stand for.
HasLoop(n, S, a, round) ==
  \E h \in [0..n -> S] : h[0] = a /\ \A k \in 1..n : h[k] = round[k][h[k - 1]]

LEMMA LoopExists ==
  ASSUME NEW n \in Nat, NEW S, NEW a \in S, NEW round \in [1..n -> [S -> S]]
  PROVE  HasLoop(n, S, a, round)
<1> DEFINE Lists(h, m) == h \in [0..m -> S] /\ h[0] = a /\ \A k \in 1..m : h[k] = round[k][h[k - 1]]
           Have == {m \in 0..n : \E h : Lists(h, m)}
<1>1. 0 \in Have
  <2>1. PICK h : h = [k \in 0..0 |-> a]
    OBVIOUS
  <2>2. Lists(h, 0)
    BY <2>1
  <2> HIDE DEF Lists
  <2> QED
    BY <2>2
<1>2. ASSUME NEW m \in 1..n, m - 1 \in Have PROVE m \in Have
  <2>1. m - 1 \in 0..n /\ m \in 0..n /\ m \in Nat
    OBVIOUS
  <2>2. PICK g : Lists(g, m - 1)
    BY <1>2
  <2>3. PICK e : e = round[m][g[m - 1]]
    OBVIOUS
  <2>4. e \in S
    <3>1. g[m - 1] \in S
      BY <2>1, <2>2
    <3> QED
      BY <2>3, <3>1
  <2>5. PICK h : h = [k \in 0..m |-> IF k = m THEN e ELSE g[k]]
    OBVIOUS
  <2>6. h \in [0..m -> S]
    <3>1. \A k \in 0..m : k = m \/ k \in 0..(m - 1)
      BY <2>1
    <3> QED
      BY <2>2, <2>4, <2>5, <3>1
  <2>7. h[0] = a
    BY <2>1, <2>2, <2>5
  <2>8. ASSUME NEW k \in 1..m PROVE h[k] = round[k][h[k - 1]]
    <3>1. k \in 0..m /\ k - 1 \in 0..m /\ k - 1 # m
      BY <2>1
    <3>2. h[k - 1] = g[k - 1]
      BY <2>5, <3>1
    <3>3. CASE k = m
      BY <2>3, <2>5, <3>1, <3>2, <3>3
    <3>4. CASE k # m
      <4>1. k \in 1..(m - 1)
        BY <3>4, <2>1
      <4> QED
        BY <2>2, <2>5, <3>1, <3>2, <3>4, <4>1
    <3> QED
      BY <3>3, <3>4
  <2>9. Lists(h, m)
    BY <2>6, <2>7, <2>8
  <2> HIDE DEF Lists
  <2> QED
    BY <2>1, <2>9
<1>3. n \in Have
  <2> HIDE DEF Have
  <2>1. \A k \in 0..n : k \in Have
    BY <1>1, <1>2, UpTo
  <2> QED
    BY <2>1
<1> QED
  BY <1>3 DEF HasLoop

\* Dividing by ten and then by p is dividing by ten times p.
LEMMA DivTen ==
  ASSUME NEW n \in Nat, NEW p \in Nat \ {0}
  PROVE  n \div (10 * p) = (n \div p) \div 10
<1>1. PICK q \in Nat, r \in 0..(p - 1) : n = q * p + r /\ q = n \div p
  <2>1. n \div p \in Nat /\ n % p \in 0..(p - 1) /\ n = (n \div p) * p + (n % p)
    BY SMT
  <2> QED
    BY <2>1
<1>2. PICK e \in Nat, m \in 0..9 : q = 10 * e + m /\ e = q \div 10
  OBVIOUS
<1>4. PICK u \in Nat : u = m * p + r
  OBVIOUS
<1>5. n = e * (10 * p) + u
  <2>1. q * p = (10 * e) * p + m * p
    BY <1>2
  <2>2. (10 * e) * p = e * (10 * p)
    OBVIOUS
  <2> QED
    BY <1>1, <1>4, <2>1, <2>2
<1>6. u < 10 * p
  <2>1. m * p <= 9 * p
    BY <1>2
  <2> QED
    BY <1>1, <1>4, <2>1
<1>7. PICK w \in Nat \ {0} : w = 10 * p
  OBVIOUS
<1>8. n \div w = e
  <2>1. n = e * w + u /\ u \in 0..(w - 1)
    BY <1>4, <1>5, <1>6, <1>7
  <2> QED
    BY <2>1, <1>2, <1>7
<1> QED
  BY <1>1, <1>2, <1>7, <1>8

-----------------------------------------------------------------------------
(* Decimal numerals. *)

\* The powers of ten up to MAX_DIGITS.
LEMMA PowersOfTen ==
  /\ pow10[0] = 1
  /\ \A k \in 0..MAX_DIGITS : pow10[k] \in Nat \ {0}
  /\ \A k \in 1..MAX_DIGITS : pow10[k] = 10 * pow10[k - 1]
<1>1. PICK n : n = MAX_DIGITS
  OBVIOUS
<1>2. n \in Nat
  BY <1>1, LaneAssumption
<1> DEFINE Def(h) == h = [k \in 0..n |-> IF k = 0 THEN 1 ELSE 10 * h[k - 1]]
<1>3. PICK round : round = [k \in 1..n |-> [y \in Nat \ {0} |-> 10 * y]]
  OBVIOUS
<1>4. round \in [1..n -> [Nat \ {0} -> Nat \ {0}]]
  <2>1. \A y \in Nat \ {0} : 10 * y \in Nat \ {0}
    OBVIOUS
  <2>2. PICK f : f = [y \in Nat \ {0} |-> 10 * y]
    OBVIOUS
  <2>3. f \in [Nat \ {0} -> Nat \ {0}]
    BY <2>1, <2>2
  <2>4. round = [k \in 1..n |-> f]
    BY <1>3, <2>2
  <2> QED
    BY <2>3, <2>4
<1>5. PICK h \in [0..n -> Nat \ {0}] : h[0] = 1 /\ \A k \in 1..n : h[k] = round[k][h[k - 1]]
  <2> HIDE DEF Def
  <2>1. PICK S, a : S = Nat \ {0} /\ a = 1
    OBVIOUS
  <2>2. a \in S /\ round \in [1..n -> [S -> S]]
    BY <1>4, <2>1
  <2>3. n \in Nat
    BY <1>2
  <2>4. HasLoop(n, S, a, round)
    BY <2>2, <2>3, LoopExists
  <2> QED
    BY <2>1, <2>4 DEF HasLoop
<1>6. \A k \in 1..n : h[k] = 10 * h[k - 1]
  <2>1. \A k \in 1..n : k - 1 \in 0..n
    BY <1>2
  <2> QED
    BY <1>3, <1>5, <2>1
<1>7. Def(h)
  <2>1. \A k \in 0..n : k = 0 \/ k \in 1..n
    BY <1>2
  <2> QED
    BY <1>5, <1>6, <2>1
<1>8. PICK f : f = CHOOSE g : Def(g)
  OBVIOUS
<1>9. Def(f)
  BY <1>7, <1>8
<1>10. pow10 = f
  BY <1>1, <1>8 DEF pow10
<1>11. f[0] = 1 /\ \A k \in 1..n : f[k] = 10 * f[k - 1]
  <2>1. 0 \in 0..n /\ \A k \in 1..n : k \in 0..n /\ k # 0
    BY <1>2
  <2> QED
    BY <1>9, <2>1
<1>12. \A k \in 0..n : f[k] \in Nat \ {0}
  <2> DEFINE Good == {k \in 0..n : f[k] \in Nat \ {0}}
  <2>1. 0 \in Good
    BY <1>2, <1>11
  <2>2. ASSUME NEW k \in 1..n, k - 1 \in Good PROVE k \in Good
    <3>1. f[k - 1] \in Nat \ {0} /\ f[k] = 10 * f[k - 1] /\ k \in 0..n
      BY <1>2, <1>11, <2>2
    <3> QED
      BY <3>1
  <2> HIDE DEF Good
  <2>3. \A k \in 0..n : k \in Good
    BY <1>2, <2>1, <2>2, UpTo
  <2> QED
    BY <2>3 DEF Good
<1> QED
  BY <1>1, <1>10, <1>11, <1>12

\* value, as parse_decimal_u64 computes it.
LEMMA ValuesDo ==
  ASSUME NEW s \in Seq(Nat)
  PROVE  /\ values(s)[0] = 0
         /\ \A k \in 0..Len(s) : values(s)[k] \in Int
         /\ \A k \in 1..Len(s) : values(s)[k] = values(s)[k - 1] * 10 + (s[k] - 48)
<1>1. PICK n : n = Len(s)
  OBVIOUS
<1>2. n \in Nat /\ \A k \in 1..n : s[k] \in Nat
  BY <1>1
<1> DEFINE Def(h) == h = [k \in 0..n |-> IF k = 0 THEN 0 ELSE h[k - 1] * 10 + (s[k] - 48)]
<1>3. PICK round : round = [k \in 1..n |-> [y \in Int |-> y * 10 + (s[k] - 48)]]
  OBVIOUS
<1>4. round \in [1..n -> [Int -> Int]]
  <2>1. ASSUME NEW k \in 1..n PROVE [y \in Int |-> y * 10 + (s[k] - 48)] \in [Int -> Int]
    <3>1. PICK c \in Nat : c = s[k]
      BY <1>2
    <3>2. \A y \in Int : y * 10 + (c - 48) \in Int
      OBVIOUS
    <3> QED
      BY <3>1, <3>2
  <2> QED
    BY <1>3, <2>1
<1>5. PICK h \in [0..n -> Int] : h[0] = 0 /\ \A k \in 1..n : h[k] = round[k][h[k - 1]]
  <2> HIDE DEF Def
  <2>1. PICK S, a : S = Int /\ a = 0
    OBVIOUS
  <2>2. a \in S /\ round \in [1..n -> [S -> S]]
    BY <1>4, <2>1
  <2>3. n \in Nat
    BY <1>2
  <2>4. HasLoop(n, S, a, round)
    BY <2>2, <2>3, LoopExists
  <2> QED
    BY <2>1, <2>4 DEF HasLoop
<1>6. \A k \in 1..n : h[k] = h[k - 1] * 10 + (s[k] - 48)
  <2>1. \A k \in 1..n : k - 1 \in 0..n
    BY <1>2
  <2> QED
    BY <1>3, <1>5, <2>1
<1>7. Def(h)
  <2>1. \A k \in 0..n : k = 0 \/ k \in 1..n
    BY <1>2
  <2> QED
    BY <1>5, <1>6, <2>1
<1>8. PICK f : f = CHOOSE g : Def(g)
  OBVIOUS
<1>9. Def(f)
  BY <1>7, <1>8
<1>10. values(s) = f
  BY <1>1, <1>8 DEF values
<1>11. f[0] = 0 /\ \A k \in 1..n : f[k] = f[k - 1] * 10 + (s[k] - 48)
  <2>1. 0 \in 0..n /\ \A k \in 1..n : k \in 0..n /\ k # 0
    BY <1>2
  <2> QED
    BY <1>9, <2>1
<1>12. \A k \in 0..n : f[k] \in Int
  <2> DEFINE Good == {k \in 0..n : f[k] \in Int}
  <2>1. 0 \in Good
    BY <1>2, <1>11
  <2>2. ASSUME NEW k \in 1..n, k - 1 \in Good PROVE k \in Good
    <3>1. f[k - 1] \in Int /\ f[k] = f[k - 1] * 10 + (s[k] - 48) /\ k \in 0..n /\ s[k] \in Nat
      BY <1>2, <1>11, <2>2
    <3> QED
      BY <3>1
  <2> HIDE DEF Good
  <2>3. \A k \in 0..n : k \in Good
    BY <1>2, <2>1, <2>2, UpTo
  <2> QED
    BY <2>3 DEF Good
<1> QED
  BY <1>1, <1>10, <1>11, <1>12

\* n has d digits.
HasDigits(n, d) == d \in 1..MAX_DIGITS /\ n < pow10[d] /\ (d = 1 \/ pow10[d - 1] <= n)

\* The digits of n, when it has d.
DigitsOf(n, d) == [i \in 1..d |-> 48 + ((n \div pow10[d - i]) % 10)]

LEMMA PowersGrow ==
  ASSUME NEW i \in 0..MAX_DIGITS, NEW j \in 0..MAX_DIGITS, i <= j
  PROVE  pow10[i] <= pow10[j]
<1>1. MAX_DIGITS \in Nat
  BY LaneAssumption
<1> DEFINE Good == {k \in 0..j : k < i \/ pow10[i] <= pow10[k]}
<1>2. 0 \in Good
  BY <1>1, PowersOfTen
<1>3. ASSUME NEW k \in 1..j, k - 1 \in Good PROVE k \in Good
  <2>1. k \in 1..MAX_DIGITS /\ k \in 0..j /\ k - 1 \in 0..MAX_DIGITS
    BY <1>1
  <2>2. pow10[k] = 10 * pow10[k - 1] /\ pow10[k - 1] \in Nat /\ pow10[i] \in Nat
    BY <2>1, PowersOfTen
  <2>3. CASE k < i
    BY <2>1, <2>3
  <2>4. CASE k = i
    BY <2>1, <2>2, <2>4
  <2>5. CASE k > i
    <3>1. pow10[i] <= pow10[k - 1]
      BY <1>3, <2>1, <2>5
    <3> QED
      BY <2>1, <2>2, <3>1
  <2> QED
    BY <1>1, <2>1, <2>3, <2>4, <2>5
<1> HIDE DEF Good
<1>4. j \in Nat
  BY <1>1
<1>5. \A k \in 0..j : k \in Good
  BY <1>2, <1>3, <1>4, UpTo
<1> QED
  BY <1>1, <1>5 DEF Good

\* Each number up to U64_MAX has digits, and they are its numeral.
LEMMA NumeralIs ==
  ASSUME NEW n \in 0..U64_MAX
  PROVE  /\ \E d \in 1..MAX_DIGITS : HasDigits(n, d)
         /\ \A d : HasDigits(n, d) => Numeral(n) = DigitsOf(n, d)
<1>1. MAX_DIGITS \in Nat \ {0} /\ U64_MAX \in Nat /\ n \in Nat /\ U64_MAX < pow10[MAX_DIGITS]
  BY LaneAssumption
<1> DEFINE long == {k \in 1..MAX_DIGITS : n < pow10[k]}
<1>2. long \subseteq Nat /\ long # {}
  <2>1. MAX_DIGITS \in long
    BY <1>1, PowersOfTen
  <2> QED
    BY <1>1, <2>1
<1>3. PICK m : m = CHOOSE k \in long : \A j \in long : k <= j
  OBVIOUS
<1>4. m \in long /\ \A j \in long : m <= j
  BY <1>2, <1>3, FirstOf
<1>5. Numeral(n) = DigitsOf(n, m)
  BY <1>3 DEF Numeral, DigitsOf
<1>6. HasDigits(n, m)
  <2>1. m \in 1..MAX_DIGITS /\ n < pow10[m]
    BY <1>4
  <2>2. CASE m # 1
    <3>1. m - 1 \in 1..MAX_DIGITS /\ ~(m <= m - 1) /\ m - 1 \in 0..MAX_DIGITS
      BY <1>1, <2>1, <2>2
    <3>2. ~(n < pow10[m - 1])
      BY <1>4, <3>1
    <3> QED
      BY <1>1, <2>1, <3>1, <3>2, PowersOfTen DEF HasDigits
  <2> QED
    BY <2>1, <2>2 DEF HasDigits
<1>7. ASSUME NEW d, HasDigits(n, d) PROVE d = m
  <2>1. d \in 1..MAX_DIGITS /\ m \in 1..MAX_DIGITS /\ d \in long /\ m <= d
    BY <1>4, <1>7 DEF HasDigits
  <2>2. CASE m < d
    <3>1. m \in 0..MAX_DIGITS /\ d - 1 \in 0..MAX_DIGITS /\ m <= d - 1 /\ d # 1
      BY <1>1, <2>1, <2>2
    <3>2. pow10[m] <= pow10[d - 1] /\ pow10[d - 1] <= n /\ n < pow10[m]
      BY <1>4, <1>7, <3>1, PowersGrow DEF HasDigits
    <3>3. pow10[m] \in Nat /\ pow10[d - 1] \in Nat
      BY <3>1, PowersOfTen
    <3> QED
      BY <1>1, <3>2, <3>3
  <2> QED
    BY <1>1, <2>1, <2>2
<1> QED
  BY <1>4, <1>5, <1>6, <1>7

\* A number and one more digit.
LEMMA TenTimes ==
  ASSUME NEW a \in Nat, NEW c \in 0..9
  PROVE  /\ a * 10 + c \in Nat /\ (a * 10 + c) \div 10 = a /\ (a * 10 + c) % 10 = c
         /\ \A p \in Nat : /\ a < p => a * 10 + c < 10 * p
                         /\ p <= a => 10 * p <= a * 10 + c
<1>1. PICK n \in Nat : n = a * 10 + c
  OBVIOUS
<1>2. n \div 10 = a /\ n % 10 = c
  BY <1>1
<1>3. ASSUME NEW p \in Nat, a < p PROVE a * 10 + c < 10 * p
  BY <1>3
<1>4. ASSUME NEW p \in Nat, p <= a PROVE 10 * p <= a * 10 + c
  BY <1>4
<1> QED
  BY <1>1, <1>2, <1>3, <1>4

\* The prefix of n of length k, when n has d digits.
Prefix(n, d, k) == n \div pow10[d - k]

\* The prefixes of n go from 0 to n, each one digit longer than the one before.
LEMMA PrefixesDo ==
  ASSUME NEW n \in Nat, NEW d \in 1..MAX_DIGITS, n < pow10[d]
  PROVE  /\ Prefix(n, d, 0) = 0 /\ Prefix(n, d, d) = n
         /\ \A k \in 0..d : Prefix(n, d, k) \in 0..n
         /\ \A k \in 1..d : Prefix(n, d, k - 1) = Prefix(n, d, k) \div 10
<1>1. MAX_DIGITS \in Nat
  BY LaneAssumption
<1>2. \A k \in 0..d : d - k \in 0..MAX_DIGITS /\ pow10[d - k] \in Nat \ {0}
  <2>1. \A k \in 0..d : d - k \in 0..MAX_DIGITS
    BY <1>1
  <2> QED
    BY <2>1, PowersOfTen
<1>3. \A p \in Nat \ {0} : n \div p \in 0..n
  <2>1. ASSUME NEW p \in Nat \ {0} PROVE n \div p \in 0..n
    <3>1. PICK q \in Nat, r \in Nat : q = n \div p /\ n = q * p + r
      <4>1. n \div p \in Nat /\ n % p \in 0..(p - 1) /\ n = (n \div p) * p + (n % p)
        BY SMT
      <4> QED
        BY <4>1
    <3>2. q <= q * p
      BY <3>1
    <3> QED
      BY <3>1, <3>2
  <2> QED
    BY <2>1
<1>4. Prefix(n, d, 0) = 0
  <2>1. PICK p \in Nat \ {0} : p = pow10[d - 0] /\ n < p
    <3>1. d - 0 = d /\ d \in 0..MAX_DIGITS
      BY <1>1
    <3> QED
      BY <3>1, PowersOfTen
  <2>2. n \div p = 0
    BY <2>1
  <2> QED
    BY <2>1, <2>2 DEF Prefix
<1>5. Prefix(n, d, d) = n
  <2>1. d - d = 0
    BY <1>1
  <2>2. n \div 1 = n
    OBVIOUS
  <2> QED
    BY <2>1, <2>2, PowersOfTen DEF Prefix
<1>6. ASSUME NEW k \in 1..d PROVE Prefix(n, d, k - 1) = Prefix(n, d, k) \div 10
  <2>1. d - (k - 1) \in 1..MAX_DIGITS /\ (d - (k - 1)) - 1 = d - k /\ k \in 0..d
    BY <1>1
  <2>2. PICK p \in Nat \ {0} : p = pow10[d - k]
    BY <1>2, <2>1
  <2>3. pow10[d - (k - 1)] = 10 * p
    BY <2>1, <2>2, PowersOfTen
  <2>4. n \div (10 * p) = (n \div p) \div 10
    BY DivTen
  <2> QED
    BY <2>2, <2>3, <2>4 DEF Prefix
<1> QED
  BY <1>2, <1>3, <1>4, <1>5, <1>6 DEF Prefix

\* A string of digits that does not begin with 0, unless it is 0: its value has as
\* many digits, and they are the string.
LEMMA ReadsBack ==
  ASSUME NEW s \in Seq(Nat), Len(s) \in 1..MAX_DIGITS, \A k \in 1..Len(s) : s[k] \in Digit,
         Len(s) = 1 \/ s[1] # 48
  PROVE  LET n == values(s)[Len(s)]
         IN n \in Nat /\ HasDigits(n, Len(s)) /\ s = DigitsOf(n, Len(s))
<1>1. MAX_DIGITS \in Nat
  BY LaneAssumption
<1>2. PICK d \in 1..MAX_DIGITS : d = Len(s)
  OBVIOUS
<1>3. PICK v : v = values(s)
  OBVIOUS
<1>4. /\ v[0] = 0 /\ \A k \in 0..d : v[k] \in Int
      /\ \A k \in 1..d : v[k] = v[k - 1] * 10 + (s[k] - 48)
  BY <1>2, <1>3, ValuesDo
<1>5. \A k \in 1..d : s[k] - 48 \in 0..9
  BY <1>2 DEF Digit
<1>6. \A k \in 0..d : v[k] \in Nat /\ v[k] < pow10[k]
  <2> DEFINE Good == {k \in 0..d : v[k] \in Nat /\ v[k] < pow10[k]}
  <2>1. 0 \in Good
    BY <1>1, <1>4, PowersOfTen
  <2>2. ASSUME NEW k \in 1..d, k - 1 \in Good PROVE k \in Good
    <3>1. k \in 0..d /\ k \in 1..MAX_DIGITS /\ k - 1 \in 0..MAX_DIGITS
      BY <1>1
    <3>2. PICK a \in Nat, c \in 0..9, p \in Nat : a = v[k - 1] /\ c = s[k] - 48 /\ p = pow10[k - 1] /\ a < p
      BY <1>5, <2>2, <3>1, PowersOfTen
    <3>3. v[k] = a * 10 + c /\ pow10[k] = 10 * p
      BY <1>4, <3>1, <3>2, PowersOfTen
    <3>4. a * 10 + c \in Nat /\ a * 10 + c < 10 * p
      <4>1. a < p
        BY <3>2
      <4> QED
        BY <4>1, TenTimes
    <3>5. v[k] \in Nat /\ v[k] < pow10[k]
      BY <3>3, <3>4
    <3> QED
      BY <3>1, <3>5
  <2> HIDE DEF Good
  <2>3. d \in Nat
    BY <1>1
  <2>4. \A k \in 0..d : k \in Good
    BY <2>1, <2>2, <2>3, UpTo
  <2> QED
    BY <2>4 DEF Good
<1>7. d = 1 \/ pow10[d - 1] <= v[d]
  <2> DEFINE Good == {k \in 0..d : k = 0 \/ pow10[k - 1] <= v[k]}
  <2>1. SUFFICES ASSUME d # 1 PROVE pow10[d - 1] <= v[d]
    OBVIOUS
  <2>2. 0 \in Good
    BY <1>1
  <2>3. ASSUME NEW k \in 1..d, k - 1 \in Good PROVE k \in Good
    <3>1. /\ k \in 0..d /\ k \in 1..MAX_DIGITS /\ k - 1 \in 0..MAX_DIGITS
          /\ k # 1 => k - 1 \in 1..MAX_DIGITS /\ k - 2 \in 0..MAX_DIGITS /\ (k - 1) - 1 = k - 2
      BY <1>1
    <3>2. PICK c \in 0..9 : c = s[k] - 48 /\ v[k] = v[k - 1] * 10 + c
      BY <1>4, <1>5, <3>1
    <3>3. CASE k = 1
      <4>1. s[1] - 48 # 0
        BY <1>2, <1>5, <2>1, <3>1, <3>3
      <4>2. v[1] = c /\ c # 0 /\ k - 1 = 0
        BY <1>4, <3>2, <3>3, <4>1
      <4> QED
        BY <3>1, <3>3, <4>2, PowersOfTen
    <3>4. CASE k # 1
      <4>1. pow10[k - 2] <= v[k - 1] /\ pow10[k - 2] \in Nat /\ v[k - 1] \in Nat
        BY <1>6, <2>3, <3>1, <3>4, PowersOfTen
      <4>2. pow10[k - 1] = 10 * pow10[k - 2]
        BY <3>1, <3>4, PowersOfTen
      <4>3. PICK a \in Nat, q \in Nat : a = v[k - 1] /\ q = pow10[k - 2] /\ q <= a
        BY <4>1
      <4>4. 10 * q <= a * 10 + c
        <5>1. q <= a
          BY <4>3
        <5> QED
          BY <5>1, TenTimes
      <4>5. pow10[k - 1] <= v[k]
        BY <3>2, <4>2, <4>3, <4>4
      <4> QED
        BY <3>1, <4>5
    <3> QED
      BY <3>3, <3>4
  <2> HIDE DEF Good
  <2>4. d \in Nat
    BY <1>1
  <2>5. \A k \in 0..d : k \in Good
    BY <2>2, <2>3, <2>4, UpTo
  <2> QED
    BY <1>1, <2>5 DEF Good
<1>8. PICK n \in Nat : n = v[d] /\ n < pow10[d]
  BY <1>1, <1>6
<1>9. \A k \in 0..d : Prefix(n, d, k) = v[k]
  <2> DEFINE Good == {j \in 0..d : Prefix(n, d, d - j) = v[d - j]}
  <2>1. 0 \in Good
    <3>1. d - 0 = d
      BY <1>1
    <3> QED
      BY <1>1, <1>8, <3>1, PrefixesDo
  <2>2. ASSUME NEW j \in 1..d, j - 1 \in Good PROVE j \in Good
    <3>1. PICK k \in 1..d : k = d - (j - 1) /\ k - 1 = d - j /\ j \in 0..d
      BY <1>1
    <3>2. Prefix(n, d, k) = v[k] /\ Prefix(n, d, k - 1) = Prefix(n, d, k) \div 10
      BY <1>8, <2>2, <3>1, PrefixesDo
    <3>3. PICK a \in Nat, c \in 0..9 : a = v[k - 1] /\ c = s[k] - 48 /\ v[k] = a * 10 + c
      <4>1. k - 1 \in 0..d
        BY <1>1
      <4> QED
        BY <1>4, <1>5, <1>6, <4>1
    <3>4. (a * 10 + c) \div 10 = a
      BY <3>3, TenTimes
    <3> QED
      BY <3>1, <3>2, <3>3, <3>4
  <2> HIDE DEF Good
  <2>3. d \in Nat
    BY <1>1
  <2>4. \A j \in 0..d : j \in Good
    BY <2>1, <2>2, <2>3, UpTo
  <2>5. ASSUME NEW k \in 0..d PROVE Prefix(n, d, k) = v[k]
    <3>1. d - k \in 0..d /\ d - (d - k) = k
      BY <1>1
    <3>2. d - k \in Good
      BY <2>4, <3>1
    <3> QED
      BY <3>1, <3>2 DEF Good
  <2> QED
    BY <2>5
<1>10. \A k \in 1..d : s[k] = 48 + (Prefix(n, d, k) % 10)
  <2>1. ASSUME NEW k \in 1..d PROVE s[k] = 48 + (Prefix(n, d, k) % 10)
    <3>1. k \in 0..d /\ k - 1 \in 0..d
      BY <1>1
    <3>2. PICK a \in Nat, c \in 0..9 : a = v[k - 1] /\ c = s[k] - 48 /\ v[k] = a * 10 + c
      BY <1>4, <1>5, <1>6, <3>1
    <3>3. (a * 10 + c) % 10 = c
      BY <3>2, TenTimes
    <3>4. s[k] \in Nat
      BY <1>2
    <3>5. s[k] = 48 + c
      BY <3>2, <3>4
    <3>6. Prefix(n, d, k) = a * 10 + c
      BY <1>9, <3>1, <3>2
    <3> QED
      BY <3>3, <3>5, <3>6
  <2> QED
    BY <2>1
<1>11. s = DigitsOf(n, d)
  <2>1. s = [i \in 1..d |-> s[i]]
    BY <1>2
  <2>2. DigitsOf(n, d) = [i \in 1..d |-> 48 + (Prefix(n, d, i) % 10)]
    BY DEF DigitsOf, Prefix
  <2> QED
    BY <1>10, <2>1, <2>2
<1>12. HasDigits(n, d)
  BY <1>7, <1>8 DEF HasDigits
<1> QED
  BY <1>2, <1>3, <1>8, <1>11, <1>12

\* The digits of a number are read as that number, and no prefix of them is greater.
LEMMA WritesAndReads ==
  ASSUME NEW n \in Nat, NEW d, HasDigits(n, d), NEW s, s = DigitsOf(n, d)
  PROVE  /\ s \in Seq(Nat) /\ Len(s) = d /\ \A k \in 1..d : s[k] \in Digit
         /\ d = 1 \/ s[1] # 48
         /\ values(s)[d] = n /\ \A k \in 1..d : values(s)[k] <= n
<1>1. MAX_DIGITS \in Nat /\ d \in 1..MAX_DIGITS /\ n < pow10[d] /\ d \in Nat
  BY LaneAssumption DEF HasDigits
<1>2. PICK p : p = [k \in 0..d |-> Prefix(n, d, k)]
  OBVIOUS
<1>3. /\ p[0] = 0 /\ p[d] = n /\ \A k \in 0..d : p[k] \in Nat /\ p[k] <= n
      /\ \A k \in 1..d : p[k - 1] = p[k] \div 10
  <2>1. 0 \in 0..d /\ d \in 0..d /\ \A k \in 1..d : k \in 0..d /\ k - 1 \in 0..d
    BY <1>1
  <2>2. /\ Prefix(n, d, 0) = 0 /\ Prefix(n, d, d) = n
        /\ \A k \in 0..d : Prefix(n, d, k) \in 0..n
        /\ \A k \in 1..d : Prefix(n, d, k - 1) = Prefix(n, d, k) \div 10
    BY <1>1, PrefixesDo
  <2>3. \A k \in 0..d : p[k] = Prefix(n, d, k)
    BY <1>2
  <2>4. \A k \in 0..d : p[k] \in Nat /\ p[k] <= n
    BY <2>2, <2>3
  <2>5. \A k \in 1..d : p[k - 1] = p[k] \div 10
    BY <2>1, <2>2, <2>3
  <2> QED
    BY <2>1, <2>2, <2>3, <2>4, <2>5
<1>4. s = [i \in 1..d |-> 48 + (p[i] % 10)]
  <2>1. s = [i \in 1..d |-> 48 + (Prefix(n, d, i) % 10)]
    BY DEF DigitsOf, Prefix
  <2>2. \A i \in 1..d : p[i] = Prefix(n, d, i)
    BY <1>1, <1>2
  <2> QED
    BY <2>1, <2>2
<1>5. \A k \in 1..d : s[k] \in Digit /\ s[k] \in Nat /\ p[k] = p[k - 1] * 10 + (s[k] - 48)
  <2>1. ASSUME NEW k \in 1..d
        PROVE  s[k] \in Digit /\ s[k] \in Nat /\ p[k] = p[k - 1] * 10 + (s[k] - 48)
    <3>1. PICK a \in Nat : a = p[k] /\ p[k - 1] = a \div 10
      BY <1>1, <1>3
    <3>2. PICK c \in 0..9 : c = a % 10 /\ a = (a \div 10) * 10 + c
      OBVIOUS
    <3>3. s[k] = 48 + c
      BY <1>4, <3>1, <3>2
    <3> QED
      BY <3>1, <3>2, <3>3 DEF Digit
  <2> QED
    BY <2>1
<1>6. s \in Seq(Nat) /\ Len(s) = d
  <2>1. s \in [1..d -> Nat]
    BY <1>4, <1>5
  <2> QED
    BY <1>1, <2>1
<1>7. \A k \in 0..d : values(s)[k] = p[k]
  <2> DEFINE Good == {k \in 0..d : values(s)[k] = p[k]}
  <2>1. 0 \in Good
    BY <1>1, <1>3, <1>6, ValuesDo
  <2>2. ASSUME NEW k \in 1..d, k - 1 \in Good PROVE k \in Good
    <3>1. k \in 0..d
      BY <1>1
    <3>2. values(s)[k] = values(s)[k - 1] * 10 + (s[k] - 48)
      BY <1>6, ValuesDo
    <3> QED
      BY <1>5, <2>2, <3>1, <3>2
  <2> HIDE DEF Good
  <2>3. \A k \in 0..d : k \in Good
    BY <1>1, <2>1, <2>2, UpTo
  <2> QED
    BY <2>3 DEF Good
<1>8. d = 1 \/ s[1] # 48
  <2>1. SUFFICES ASSUME d # 1, s[1] = 48 PROVE FALSE
    OBVIOUS
  <2>2. 1 \in 1..d /\ 1 \in 0..d /\ 1 - 1 = 0
    BY <1>1
  <2>3. p[1] = 0
    BY <1>3, <1>5, <2>1, <2>2
  <2>4. Prefix(n, d, 1) = 0
    BY <1>2, <2>2, <2>3
  <2>5. PICK q \in Nat \ {0} : q = pow10[d - 1] /\ q <= n
    <3>1. d - 1 \in 0..MAX_DIGITS
      BY <1>1
    <3> QED
      BY <2>1, <3>1, PowersOfTen DEF HasDigits
  <2>6. n \div q # 0
    BY <2>5
  <2> QED
    BY <2>4, <2>5, <2>6 DEF Prefix
<1>9. values(s)[d] = n /\ \A k \in 1..d : values(s)[k] <= n
  <2>1. d \in 0..d /\ \A k \in 1..d : k \in 0..d
    BY <1>1
  <2> QED
    BY <1>3, <1>7, <2>1
<1> QED
  BY <1>5, <1>6, <1>8, <1>9

\* What a JSON string is accepted as by parse_decimal_u64, and what it accepts.
LEMMA DecimalDoes ==
  ASSUME NEW x, Scalar(x)
  PROVE  /\ parse_decimal_u64(x) # -1 <=> IsNumeral(x, 0)
         /\ parse_decimal_u64(x) >= 1 <=> IsNumeral(x, 1)
<1>1. MAX_DIGITS \in Nat \ {0} /\ U64_MAX \in Nat
  BY LaneAssumption
<1>2. CASE x.type # "str"
  BY <1>2 DEF parse_decimal_u64, IsNumeral
<1>3. ASSUME x.type = "str", NEW n \in 0..U64_MAX, x.s = Numeral(n) PROVE parse_decimal_u64(x) = n
  <2>1. PICK d : HasDigits(n, d) /\ x.s = DigitsOf(n, d)
    BY <1>3, NumeralIs
  <2>2. n \in Nat
    BY <1>1
  <2>3. PICK s : s = x.s
    OBVIOUS
  <2>4. /\ s \in Seq(Nat) /\ Len(s) = d /\ \A k \in 1..d : s[k] \in Digit
        /\ d = 1 \/ s[1] # 48
        /\ values(s)[d] = n /\ \A k \in 1..d : values(s)[k] <= n
    BY <2>1, <2>2, <2>3, WritesAndReads
  <2>5. d \in 1..MAX_DIGITS /\ DOMAIN s = 1..d /\ s # << >>
    BY <2>1, <2>4 DEF HasDigits
  <2>6. CASE s[1] = 48
    <3>1. d = 1 /\ 1 \in 1..Len(s) /\ 1 - 1 = 0
      BY <2>4, <2>6
    <3>2. values(s)[1] = 0
      <4>1. values(s)[1] = values(s)[0] * 10 + (s[1] - 48) /\ values(s)[0] = 0
        BY <2>4, <3>1, ValuesDo
      <4> QED
        BY <2>6, <4>1
    <3> QED
      BY <1>1, <1>3, <2>3, <2>4, <2>5, <2>6, <3>1, <3>2 DEF parse_decimal_u64
  <2>7. CASE s[1] # 48
    <3>1. ~ \E k \in DOMAIN s : s[k] \notin Digit \/ overflows(values(s)[k])
      <4>1. \A k \in 1..d : values(s)[k] \in Int
        BY <2>4, <2>5, ValuesDo
      <4>2. \A k \in 1..d : ~(values(s)[k] > U64_MAX)
        BY <1>1, <2>4, <4>1
      <4> QED
        BY <2>4, <2>5, <4>2 DEF overflows
    <3>2. ~(Len(s) > MAX_DIGITS)
      BY <1>1, <2>4, <2>5
    <3> QED
      BY <1>3, <2>3, <2>4, <2>5, <2>7, <3>1, <3>2 DEF parse_decimal_u64
  <2> QED
    BY <2>6, <2>7
<1>4. ASSUME x.type = "str", parse_decimal_u64(x) # -1
      PROVE  \E n \in 0..U64_MAX : n = parse_decimal_u64(x) /\ x.s = Numeral(n)
  <2>1. PICK s \in Seq(Nat) : s = x.s
    BY <1>4 DEF Scalar
  <2>2. PICK d \in Nat : d = Len(s) /\ DOMAIN s = 1..d
    OBVIOUS
  <2>3. s # << >> /\ ~(d > MAX_DIGITS) /\ (s[1] = 48 => d = 1)
    BY <1>4, <2>1, <2>2 DEF parse_decimal_u64
  <2>4. d \in 1..MAX_DIGITS
    BY <1>1, <2>2, <2>3
  <2>5. PICK n : n = values(s)[d]
    OBVIOUS
  <2>6. /\ \A k \in 1..d : s[k] \in Digit
        /\ n <= U64_MAX /\ n = parse_decimal_u64(x)
    <3>1. CASE s[1] = 48
      <4>1. d = 1 /\ 1 - 1 = 0 /\ 1 \in 1..d
        BY <2>3, <3>1
      <4>2. n = 0
        BY <2>2, <2>5, <3>1, <4>1, ValuesDo
      <4>3. parse_decimal_u64(x) = 0
        BY <1>4, <2>1, <2>2, <2>3, <3>1, <4>1 DEF parse_decimal_u64
      <4> QED
        BY <1>1, <3>1, <4>1, <4>2, <4>3 DEF Digit
    <3>2. CASE s[1] # 48
      <4>1. ~ \E k \in DOMAIN s : s[k] \notin Digit \/ overflows(values(s)[k])
        BY <1>4, <2>1, <2>2, <2>3, <3>2 DEF parse_decimal_u64
      <4>2. parse_decimal_u64(x) = n
        BY <1>4, <2>1, <2>2, <2>3, <2>5, <3>2, <4>1 DEF parse_decimal_u64
      <4>3. d \in 1..d /\ n \in Int
        BY <2>2, <2>4, <2>5, ValuesDo
      <4>4. ~(n > U64_MAX)
        BY <2>2, <2>5, <4>1, <4>3 DEF overflows
      <4> QED
        BY <1>1, <2>2, <4>1, <4>2, <4>3, <4>4
    <3> QED
      BY <3>1, <3>2
  <2>7. n \in Nat /\ HasDigits(n, d) /\ s = DigitsOf(n, d)
    BY <2>2, <2>3, <2>4, <2>5, <2>6, ReadsBack
  <2>8. n \in 0..U64_MAX
    BY <1>1, <2>6, <2>7
  <2>9. s = Numeral(n)
    BY <2>7, <2>8, NumeralIs
  <2> QED
    BY <2>1, <2>6, <2>8, <2>9
<1>5. CASE x.type = "str"
  <2>1. IsNumeral(x, 0) <=> \E n \in 0..U64_MAX : x.s = Numeral(n)
    BY <1>5 DEF IsNumeral
  <2>2. IsNumeral(x, 1) <=> \E n \in 1..U64_MAX : x.s = Numeral(n)
    BY <1>5 DEF IsNumeral
  <2>3. \A n : n \in 1..U64_MAX <=> n \in 0..U64_MAX /\ n >= 1
    BY <1>1
  <2>4. \A n \in 0..U64_MAX : n # -1
    BY <1>1
  <2>5. parse_decimal_u64(x) = -1 => ~(parse_decimal_u64(x) >= 1)
    OBVIOUS
  <2>6. IsNumeral(x, 0) => parse_decimal_u64(x) # -1
    BY <1>3, <1>5, <2>1, <2>4
  <2>7. IsNumeral(x, 1) => parse_decimal_u64(x) >= 1
    BY <1>3, <1>5, <2>2, <2>3
  <2>8. parse_decimal_u64(x) # -1 => IsNumeral(x, 0)
    BY <1>4, <1>5, <2>1
  <2>9. parse_decimal_u64(x) >= 1 => IsNumeral(x, 1)
    BY <1>4, <1>5, <2>2, <2>3, <2>5
  <2> QED
    BY <2>6, <2>7, <2>8, <2>9
<1> QED
  BY <1>2, <1>5

-----------------------------------------------------------------------------
(* Strings. *)

\* The bytes of a string are at least its characters.
LEMMA BytesDo ==
  ASSUME NEW s \in Seq(Nat)
  PROVE  utf8_bytes(s) \in Nat /\ Len(s) <= utf8_bytes(s) /\ (utf8_bytes(s) >= 1 <=> s # << >>)
<1>1. PICK n \in Nat : n = Len(s) /\ DOMAIN s = 1..n
  OBVIOUS
<1>2. \A T : T \subseteq DOMAIN s => IsFiniteSet(T) /\ Cardinality(T) \in Nat
  <2>1. IsFiniteSet(1..n)
    BY FS_Interval
  <2> QED
    BY <1>1, <2>1, FS_Subset, FS_CardinalityType
<1> DEFINE A == {i \in DOMAIN s : s[i] >= 128}
           B == {i \in DOMAIN s : s[i] >= 2048}
           C == {i \in DOMAIN s : s[i] >= 65536}
<1>4. PICK a \in Nat, b \in Nat, c \in Nat :
        a = Cardinality(A) /\ b = Cardinality(B) /\ c = Cardinality(C)
  <2>1. A \subseteq DOMAIN s /\ B \subseteq DOMAIN s /\ C \subseteq DOMAIN s
    OBVIOUS
  <2> HIDE DEF A, B, C
  <2>2. Cardinality(A) \in Nat /\ Cardinality(B) \in Nat /\ Cardinality(C) \in Nat
    BY <1>2, <2>1
  <2> QED
    BY <2>2
<1>5. utf8_bytes(s) = n + a + b + c
  BY <1>1, <1>4 DEF utf8_bytes
<1>7. n = 0 => a = 0 /\ b = 0 /\ c = 0
  <2>1. SUFFICES ASSUME n = 0 PROVE a = 0 /\ b = 0 /\ c = 0
    OBVIOUS
  <2>2. DOMAIN s = {}
    BY <1>1, <2>1
  <2>3. A = {} /\ B = {} /\ C = {}
    BY <2>2
  <2> HIDE DEF A, B, C
  <2> QED
    BY <1>4, <2>3, FS_EmptySet
<1>6. s # << >> <=> n # 0
  BY <1>1
<1> QED
  BY <1>1, <1>5, <1>6, <1>7

LEMMA CharsAre ==
  ASSUME NEW s, NEW T
  PROVE  /\ Chars(s) \subseteq T <=> \A i \in DOMAIN s : s[i] \in T
         /\ Chars(s) \cap T = {} <=> \A i \in DOMAIN s : s[i] \notin T
         /\ \A c : c \in Chars(s) <=> \E i \in DOMAIN s : s[i] = c
  BY DEF Chars

\* A string of ASCII characters encodes.
LEMMA AsciiEncodes ==
  ASSUME NEW s \in Seq(Nat), \A i \in DOMAIN s : s[i] < 128
  PROVE  encodes(s)
<1>1. ASSUME NEW c \in Chars(s) PROVE c \notin SURROGATE
  <2>1. PICK i \in DOMAIN s : c = s[i]
    BY <1>1 DEF Chars
  <2>2. c \in Nat /\ c < 128
    BY <2>1
  <2>3. ASSUME c \in SURROGATE PROVE FALSE
    <3>1. PICK low \in Nat, high \in Nat : low = 55296 /\ high = 57343
      OBVIOUS
    <3>2. c >= low /\ low >= 128
      BY <2>2, <2>3, <3>1 DEF SURROGATE
    <3> QED
      BY <2>2, <3>1, <3>2
  <2> QED
    BY <2>3
<1> QED
  BY <1>1 DEF encodes

LEMMA NeedIs == ASSUME NEW b PROVE Need(b) = "ok" <=> b
  BY DEF Need

LEMMA NeedUtf8Is ==
  ASSUME NEW x, NEW b
  PROVE  NeedUtf8(x, b) = "ok" <=> (x.type = "str" => encodes(x.s)) /\ b
  BY NeedIs DEF NeedUtf8

LEMMA ThenIs ==
  ASSUME NEW first, NEW rest
  PROVE  Then(first, rest) = "ok" <=> first = "ok" /\ rest = "ok"
  BY DEF Then

\* is_opaque_id, which looks at bytes and keeps a flag for digits.
LEMMA IdDoes ==
  ASSUME NEW x, Scalar(x)
  PROVE  semantic_opaque(x) = "ok" <=> IsId(x)
<1>1. CASE x.type # "str"
  BY <1>1, NeedUtf8Is DEF semantic_opaque, is_opaque_id, IsId, Text
<1>2. CASE x.type = "str"
  <2>1. PICK s \in Seq(Nat) : s = x.s
    BY <1>2 DEF Scalar
  <2>2. utf8_bytes(s) \in Nat /\ (utf8_bytes(s) >= 1 <=> s # << >>)
    BY BytesDo
  <2> DEFINE all == Upper \cup Lower \cup Digit \cup {46, 95, 45, 58}
  <2>3. Chars(s) \subseteq all <=> \A i \in DOMAIN s : s[i] \in all
    BY DEF Chars
  <2>4. Chars(s) \subseteq Digit <=> \A i \in DOMAIN s : s[i] \in Digit
    BY DEF Chars
  <2>5. all = Digit \cup Upper \cup Lower \cup {45, 46, 58, 95}
    OBVIOUS
  <2>6. semantic_opaque(x) = "ok" <=> encodes(s) /\ is_opaque_id(x)
    BY <1>2, <2>1, NeedUtf8Is DEF semantic_opaque
  <2>7. is_opaque_id(x) <=> /\ s # << >> /\ utf8_bytes(s) <= MAX_ID_BYTES
                            /\ Chars(s) \subseteq all /\ ~(Chars(s) \subseteq Digit)
    BY <1>2, <2>1 DEF is_opaque_id
  <2>8. IsId(x) <=> /\ encodes(s) /\ 1 <= utf8_bytes(s) /\ utf8_bytes(s) <= MAX_ID_BYTES
                    /\ \E i \in DOMAIN s : s[i] \notin Digit
                    /\ \A i \in DOMAIN s : s[i] \in Digit \cup Upper \cup Lower \cup {45, 46, 58, 95}
    BY <1>2, <2>1 DEF IsId, Text
  <2> HIDE DEF all
  <2> QED
    BY <2>2, <2>3, <2>4, <2>5, <2>6, <2>7, <2>8
<1> QED
  BY <1>1, <1>2

-----------------------------------------------------------------------------
(* Paths. *)

\* The end of the segment after position i: the next slash, or one past the end.
SegmentEnd(s, i) ==
  LET later == {j \in {k \in DOMAIN s : s[k] = SLASH} : j > i}
  IN IF later = {} THEN Len(s) + 1 ELSE CHOOSE j \in later : \A k \in later : j <= k

LEMMA SegmentEndIs ==
  ASSUME NEW s \in Seq(Nat), NEW i \in 1..Len(s)
  PROVE  /\ SegmentEnd(s, i) \in (i + 1)..(Len(s) + 1)
         /\ SegmentEnd(s, i) <= Len(s) => s[SegmentEnd(s, i)] = SLASH
         /\ \A j \in (i + 1)..Len(s) : s[j] = SLASH => SegmentEnd(s, i) <= j
<1>1. PICK n \in Nat : n = Len(s) /\ DOMAIN s = 1..n
  OBVIOUS
<1>2. PICK later : later = {j \in {k \in DOMAIN s : s[k] = SLASH} : j > i}
  OBVIOUS
<1>3. \A j : j \in later <=> j \in (i + 1)..n /\ s[j] = SLASH
  BY <1>1, <1>2
<1>4. CASE later = {}
  <2>1. SegmentEnd(s, i) = n + 1
    BY <1>1, <1>2, <1>4 DEF SegmentEnd
  <2> QED
    BY <1>1, <1>3, <1>4, <2>1
<1>5. CASE later # {}
  <2>1. later \subseteq Nat
    BY <1>1, <1>3
  <2>2. PICK e : e = CHOOSE j \in later : \A k \in later : j <= k
    OBVIOUS
  <2>3. e \in later /\ \A k \in later : e <= k
    BY <1>5, <2>1, <2>2, FirstOf
  <2>4. SegmentEnd(s, i) = e
    BY <1>2, <1>5, <2>2 DEF SegmentEnd
  <2> QED
    BY <1>1, <1>3, <2>3, <2>4
<1> QED
  BY <1>4, <1>5

ByPlace(w, a, b) ==
  /\ w = << >> <=> Len(w) = 0
  /\ w = <<a>> <=> Len(w) = 1 /\ w[1] = a
  /\ w = <<a, b>> <=> Len(w) = 2 /\ w[1] = a /\ w[2] = b

LEMMA ShortSequences ==
  ASSUME NEW w \in Seq(Nat), NEW a \in Nat, NEW b \in Nat
  PROVE  ByPlace(w, a, b)
<1>1. w = << >> <=> Len(w) = 0
  OBVIOUS
<1>2. w = <<a>> <=> Len(w) = 1 /\ w[1] = a
  <2>1. <<a>> \in Seq(Nat) /\ Len(<<a>>) = 1 /\ <<a>>[1] = a
    OBVIOUS
  <2> QED
    BY <2>1, SeqEqual
<1>3. w = <<a, b>> <=> Len(w) = 2 /\ w[1] = a /\ w[2] = b
  <2>1. <<a, b>> \in Seq(Nat) /\ Len(<<a, b>>) = 2 /\ <<a, b>>[1] = a /\ <<a, b>>[2] = b
    OBVIOUS
  <2> QED
    BY <2>1, SeqEqual
<1> QED
  BY <1>1, <1>2, <1>3 DEF ByPlace

\* What a segment is empty, . or .. by.
SegmentShape(s, i, e, w) ==
  /\ w = << >> <=> e = i + 1
  /\ w = <<46>> <=> e = i + 2 /\ s[i + 1] = 46
  /\ w = <<46, 46>> <=> e = i + 3 /\ s[i + 1] = 46 /\ s[i + 2] = 46

LEMMA SegmentIs ==
  ASSUME NEW s \in Seq(Nat), NEW i \in 1..Len(s), NEW e \in (i + 1)..(Len(s) + 1), NEW w,
         w = SubSeq(s, i + 1, e - 1)
  PROVE  SegmentShape(s, i, e, w)
<1>1. PICK n \in Nat : n = Len(s)
  OBVIOUS
<1>2. i \in Nat /\ e \in Nat /\ e - 1 \in i..n
  BY <1>1
<1>3. PICK m \in Nat : m = e - (i + 1)
  BY <1>2
<1>4. w \in Seq(Nat) /\ Len(w) = m /\ \A j \in 1..m : w[j] = s[i + j]
  <2>1. PICK a \in Int, b \in Int : a = i + 1 /\ b = e - 1
    BY <1>1, <1>2
  <2>2. w \in Seq(Nat) /\ Len(w) = (IF a <= b THEN b - a + 1 ELSE 0)
        /\ \A j \in 1..(b - a + 1) : w[j] = s[a + j - 1]
    <3>1. \A j \in a..b : s[j] \in Nat
      BY <1>1, <1>2, <2>1
    <3>2. PICK u : u = SubSeq(s, a, b)
      OBVIOUS
    <3>3. u \in Seq(Nat)
      BY <3>1, <3>2, SubSeqProperties
    <3>4. Len(u) = (IF a <= b THEN b - a + 1 ELSE 0)
      BY <3>1, <3>2, SubSeqProperties
    <3>5. \A j \in 1..(b - a + 1) : u[j] = s[a + j - 1]
      BY <3>1, <3>2, SubSeqProperties
    <3>6. w = u
      BY <2>1, <3>2
    <3> QED
      BY <3>3, <3>4, <3>5, <3>6
  <2>3. b - a + 1 = m /\ (a <= b <=> m # 0)
    BY <1>2, <1>3, <2>1
  <2>4. \A j \in 1..m : a + j - 1 = i + j
    BY <1>2, <2>1
  <2>5. Len(w) = m
    BY <2>2, <2>3
  <2>6. \A j \in 1..m : w[j] = s[i + j]
    BY <2>2, <2>3, <2>4
  <2> QED
    BY <2>2, <2>5, <2>6
<1>5. /\ w = << >> <=> Len(w) = 0
      /\ w = <<46>> <=> Len(w) = 1 /\ w[1] = 46
      /\ w = <<46, 46>> <=> Len(w) = 2 /\ w[1] = 46 /\ w[2] = 46
  <2>1. PICK dot \in Nat : dot = 46
    OBVIOUS
  <2>2. w \in Seq(Nat)
    BY <1>4
  <2>3. ByPlace(w, dot, dot)
    BY <2>2, ShortSequences
  <2> QED
    BY <2>1, <2>3 DEF ByPlace
<1>6. /\ m = 0 <=> e = i + 1
      /\ m = 1 <=> e = i + 2
      /\ m = 2 <=> e = i + 3
  BY <1>2, <1>3
<1>7. m = 1 => w[1] = s[i + 1]
  <2>1. m = 1 => 1 \in 1..m
    OBVIOUS
  <2> QED
    BY <1>4, <2>1
<1>8. m = 2 => w[1] = s[i + 1] /\ w[2] = s[i + 2]
  <2>1. m = 2 => 1 \in 1..m /\ 2 \in 1..m
    OBVIOUS
  <2> QED
    BY <1>4, <2>1
<1> QED
  BY <1>4, <1>5, <1>6, <1>7, <1>8 DEF SegmentShape

\* The character at j, a slash being at the end.
PathAt(s, j) == IF j \in DOMAIN s THEN s[j] ELSE SLASH

\* Where a segment ends, by the characters around its slash.
LEMMA SegmentEndsAt ==
  ASSUME NEW s \in Seq(Nat), NEW i \in 1..Len(s), NEW e, e = SegmentEnd(s, i)
  PROVE  /\ e = i + 1 <=> PathAt(s, i + 1) = SLASH
         /\ e = i + 2 /\ s[i + 1] = 46 <=> PathAt(s, i + 1) = 46 /\ PathAt(s, i + 2) = SLASH
         /\ e = i + 3 /\ s[i + 1] = 46 /\ s[i + 2] = 46 <=>
              PathAt(s, i + 1) = 46 /\ PathAt(s, i + 2) = 46 /\ PathAt(s, i + 3) = SLASH
<1>1. PICK n \in Nat : n = Len(s) /\ DOMAIN s = 1..n
  OBVIOUS
<1>2. /\ e \in (i + 1)..(n + 1) /\ (e <= n => s[e] = SLASH)
      /\ \A j \in (i + 1)..n : s[j] = SLASH => e <= j
  BY <1>1, SegmentEndIs
<1>3. i \in 1..n /\ i \in Nat /\ e \in Nat
  BY <1>1, <1>2
<1>4. SLASH # 46
  BY DEF SLASH
<1>5. PathAt(s, e) = SLASH
  <2>1. e \in 1..n <=> e <= n
    BY <1>2, <1>3
  <2> QED
    BY <1>1, <1>2, <2>1 DEF PathAt
<1>6. ASSUME NEW j \in (i + 1)..(n + 1), PathAt(s, j) = SLASH PROVE e <= j
  <2>1. CASE j = n + 1
    BY <1>2, <1>3, <2>1
  <2>2. CASE j # n + 1
    <3>1. j \in 1..n /\ j \in (i + 1)..n
      BY <1>3, <2>2
    <3> QED
      BY <1>1, <1>2, <1>6, <3>1 DEF PathAt
  <2> QED
    BY <2>1, <2>2
<1>7. ASSUME NEW j \in Nat, PathAt(s, j) = 46 PROVE j \in 1..n /\ s[j] = 46 /\ e # j
  <2>1. j \in 1..n /\ s[j] = 46
    BY <1>1, <1>4, <1>7 DEF PathAt
  <2>2. e # j
    BY <1>4, <1>5, <1>7
  <2> QED
    BY <2>1, <2>2
<1>8. \A j \in 1..n : PathAt(s, j) = s[j]
  BY <1>1 DEF PathAt
<1>9. e = i + 1 <=> PathAt(s, i + 1) = SLASH
  <2>1. i + 1 \in (i + 1)..(n + 1)
    BY <1>3
  <2> QED
    BY <1>2, <1>3, <1>5, <1>6, <2>1
<1>10. e = i + 2 /\ s[i + 1] = 46 <=> PathAt(s, i + 1) = 46 /\ PathAt(s, i + 2) = SLASH
  <2>1. ASSUME e = i + 2, s[i + 1] = 46 PROVE PathAt(s, i + 1) = 46 /\ PathAt(s, i + 2) = SLASH
    <3>1. i + 1 \in 1..n
      BY <1>2, <1>3, <2>1
    <3> QED
      BY <1>5, <1>8, <2>1, <3>1
  <2>2. ASSUME PathAt(s, i + 1) = 46, PathAt(s, i + 2) = SLASH PROVE e = i + 2 /\ s[i + 1] = 46
    <3>1. i + 1 \in Nat
      BY <1>3
    <3>2. i + 1 \in 1..n /\ s[i + 1] = 46 /\ e # i + 1
      BY <1>7, <2>2, <3>1
    <3>3. i + 2 \in (i + 1)..(n + 1)
      BY <1>3, <3>2
    <3>4. e <= i + 2
      BY <1>6, <2>2, <3>3
    <3> QED
      BY <1>2, <1>3, <3>2, <3>4
  <2> QED
    BY <2>1, <2>2
<1>11. e = i + 3 /\ s[i + 1] = 46 /\ s[i + 2] = 46 <=>
         PathAt(s, i + 1) = 46 /\ PathAt(s, i + 2) = 46 /\ PathAt(s, i + 3) = SLASH
  <2>1. ASSUME e = i + 3, s[i + 1] = 46, s[i + 2] = 46
        PROVE  PathAt(s, i + 1) = 46 /\ PathAt(s, i + 2) = 46 /\ PathAt(s, i + 3) = SLASH
    <3>1. i + 1 \in 1..n /\ i + 2 \in 1..n
      BY <1>2, <1>3, <2>1
    <3> QED
      BY <1>5, <1>8, <2>1, <3>1
  <2>2. ASSUME PathAt(s, i + 1) = 46, PathAt(s, i + 2) = 46, PathAt(s, i + 3) = SLASH
        PROVE  e = i + 3 /\ s[i + 1] = 46 /\ s[i + 2] = 46
    <3>1. i + 1 \in Nat /\ i + 2 \in Nat
      BY <1>3
    <3>2. s[i + 1] = 46 /\ e # i + 1 /\ i + 2 \in 1..n /\ s[i + 2] = 46 /\ e # i + 2
      BY <1>7, <2>2, <3>1
    <3>3. i + 3 \in (i + 1)..(n + 1)
      BY <1>3, <3>2
    <3>4. e <= i + 3
      BY <1>6, <2>2, <3>3
    <3> QED
      BY <1>2, <1>3, <3>2, <3>4
  <2> QED
    BY <2>1, <2>2
<1> QED
  BY <1>9, <1>10, <1>11

\* What the loop of is_guest_path tests at a slash, and what IsPath says of it.
SegmentGood(s, i) ==
  LET e   == SegmentEnd(s, i)
      seg == SubSeq(s, i + 1, e - 1)
  IN (seg = << >> => e = Len(s) + 1) /\ seg \notin {<<46>>, <<46, 46>>}
AroundGood(s, i) ==
  /\ i < Len(s) => s[i + 1] # SLASH
  /\ ~(PathAt(s, i + 1) = 46 /\ PathAt(s, i + 2) = SLASH)
  /\ ~(PathAt(s, i + 1) = 46 /\ PathAt(s, i + 2) = 46 /\ PathAt(s, i + 3) = SLASH)

LEMMA SegmentDoes ==
  ASSUME NEW s \in Seq(Nat), NEW i \in 1..Len(s)
  PROVE  SegmentGood(s, i) <=> AroundGood(s, i)
<1>1. PICK n \in Nat : n = Len(s) /\ DOMAIN s = 1..n
  OBVIOUS
<1>2. PICK e : e = SegmentEnd(s, i)
  OBVIOUS
<1>3. e \in (i + 1)..(n + 1)
  BY <1>1, <1>2, SegmentEndIs
<1>4. PICK w : w = SubSeq(s, i + 1, e - 1)
  OBVIOUS
<1>5. SegmentShape(s, i, e, w)
  <2>1. e \in (i + 1)..(Len(s) + 1)
    BY <1>1, <1>3
  <2> QED
    BY <1>4, <2>1, SegmentIs
<1>6. /\ e = i + 1 <=> PathAt(s, i + 1) = SLASH
      /\ e = i + 2 /\ s[i + 1] = 46 <=> PathAt(s, i + 1) = 46 /\ PathAt(s, i + 2) = SLASH
      /\ e = i + 3 /\ s[i + 1] = 46 /\ s[i + 2] = 46 <=>
           PathAt(s, i + 1) = 46 /\ PathAt(s, i + 2) = 46 /\ PathAt(s, i + 3) = SLASH
  BY <1>2, SegmentEndsAt
<1>7. (e = i + 1 => e = n + 1) <=> (i < n => s[i + 1] # SLASH)
  <2>1. i \in Nat /\ i <= n
    BY <1>1
  <2>2. CASE i = n
    BY <1>3, <2>1, <2>2
  <2>3. CASE i < n
    <3>1. i + 1 \in 1..n /\ i + 1 # n + 1
      BY <2>1, <2>3
    <3>2. PathAt(s, i + 1) = s[i + 1]
      BY <1>1, <3>1 DEF PathAt
    <3> QED
      BY <1>6, <2>3, <3>1, <3>2
  <2> QED
    BY <2>1, <2>2, <2>3
<1>8. SegmentGood(s, i) <=> (w = << >> => e = n + 1) /\ w # <<46>> /\ w # <<46, 46>>
  BY <1>1, <1>2, <1>4 DEF SegmentGood
<1> QED
  BY <1>1, <1>5, <1>6, <1>7, <1>8 DEF AroundGood, SegmentShape

\* is_guest_path.
LEMMA PathDoes ==
  ASSUME NEW x, Scalar(x)
  PROVE  cwdPath(x) = "ok" <=> IsPath(x)
<1>1. CASE x.type # "str"
  BY <1>1, NeedUtf8Is DEF cwdPath, is_guest_path, IsPath, Text
<1>2. CASE x.type = "str"
  <2>1. PICK s \in Seq(Nat) : s = x.s
    BY <1>2 DEF Scalar
  <2>2. utf8_bytes(s) \in Nat /\ (utf8_bytes(s) >= 1 <=> s # << >>)
    BY BytesDo
  <2>3. PICK n \in Nat : n = Len(s) /\ DOMAIN s = 1..n
    OBVIOUS
  <2>4. cwdPath(x) = "ok" <=> encodes(s) /\ is_guest_path(x)
    BY <1>2, <2>1, NeedUtf8Is DEF cwdPath
  <2>5. is_guest_path(x) <=>
          /\ s # << >> /\ utf8_bytes(s) <= MAX_PATH_BYTES
          /\ s[1] = SLASH /\ Chars(s) \cap {0, 92} = {} /\ ~(n >= 2 /\ s[2] = SLASH)
          /\ \A i \in {k \in DOMAIN s : s[k] = SLASH} : SegmentGood(s, i)
    BY <1>2, <2>1, <2>3 DEF is_guest_path, SegmentGood, SegmentEnd
  <2>6. IsPath(x) <=>
          /\ encodes(s) /\ 1 <= utf8_bytes(s) /\ utf8_bytes(s) <= MAX_PATH_BYTES
          /\ s[1] = SLASH
          /\ \A i \in DOMAIN s : s[i] \notin {0, 92} /\ (s[i] = SLASH => AroundGood(s, i))
    BY <1>2, <2>1 DEF IsPath, Text, AroundGood, PathAt
  <2>7. Chars(s) \cap {0, 92} = {} <=> \A i \in DOMAIN s : s[i] \notin {0, 92}
    <3>1. PICK T : T = {0, 92}
      OBVIOUS
    <3>2. Chars(s) \cap T = {} <=> \A i \in DOMAIN s : s[i] \notin T
      BY CharsAre
    <3> QED
      BY <3>1, <3>2
  <2>8. \A i \in DOMAIN s : SegmentGood(s, i) <=> AroundGood(s, i)
    BY <2>3, SegmentDoes
  <2>9. s # << >> /\ s[1] = SLASH /\ AroundGood(s, 1) => ~(n >= 2 /\ s[2] = SLASH)
    BY <2>3 DEF AroundGood
  <2>10. s # << >> => 1 \in DOMAIN s
    BY <2>3
  <2> QED
    BY <2>2, <2>4, <2>5, <2>6, <2>7, <2>8, <2>9, <2>10
<1> QED
  BY <1>1, <1>2

-----------------------------------------------------------------------------
(* base64. *)

\* At most two positions, all after the others, are the last ones.
LEMMA LastOnes ==
  ASSUME NEW n \in Nat, NEW S, S \subseteq 1..n, NEW c \in 0..2, c = Cardinality(S),
         \A i \in (1..n) \ S : \A j \in S : i < j
  PROVE  c <= n /\ S = (n - c + 1)..n
<1>1. IsFiniteSet(1..n) /\ IsFiniteSet(S)
  <2>1. IsFiniteSet(1..n)
    BY FS_Interval
  <2> QED
    BY <2>1, FS_Subset
<1>2. CASE c = 0
  <2>1. S = {}
    BY <1>1, <1>2, FS_EmptySet
  <2> QED
    BY <1>2, <2>1
<1>3. CASE c = 1
  <2>1. PICK a : S = {a}
    BY <1>1, <1>3, FS_Singleton
  <2>2. a \in 1..n /\ n \in 1..n
    BY <2>1
  <2>3. a = n
    BY <2>1, <2>2
  <2>4. S = {n} /\ (n - 1 + 1)..n = {n}
    BY <2>1, <2>3
  <2> QED
    BY <1>3, <2>2, <2>4
<1>4. CASE c = 2
  <2>1. PICK a : a \in S
    <3>1. Cardinality(S) = 2
      BY <1>4
    <3>2. S # {}
      BY <3>1, FS_EmptySet
    <3> QED
      BY <3>2
  <2>2. IsFiniteSet(S \ {a}) /\ Cardinality(S \ {a}) = 1
    <3>1. Cardinality(S \ {a}) = (IF a \in S THEN Cardinality(S) - 1 ELSE Cardinality(S))
      BY <1>1, FS_RemoveElement
    <3>2. IsFiniteSet(S \ {a})
      BY <1>1, FS_RemoveElement
    <3> QED
      BY <1>4, <2>1, <3>1, <3>2
  <2>3. PICK b : S \ {a} = {b}
    BY <2>2, FS_Singleton
  <2>4. S = {a, b} /\ a # b /\ a \in 1..n /\ b \in 1..n
    BY <2>1, <2>3
  <2>5. n \in 1..n /\ n - 1 \in 1..n
    BY <2>4
  <2>6. n \in S
    BY <2>4, <2>5
  <2>7. n - 1 \in S
    <3>1. SUFFICES ASSUME n - 1 \notin S PROVE FALSE
      OBVIOUS
    <3>2. n - 1 < a /\ n - 1 < b
      BY <2>4, <2>5, <3>1
    <3>3. a = n /\ b = n
      BY <2>4, <3>2
    <3> QED
      BY <2>4, <3>3
  <2>8. S = {n - 1, n}
    BY <2>4, <2>6, <2>7
  <2>9. (n - 2 + 1)..n = {n - 1, n}
    BY <2>5
  <2> QED
    BY <1>4, <2>5, <2>8, <2>9
<1> QED
  BY <1>2, <1>3, <1>4

\* The pads of a string are counted and must come last; IsStdin says how many end it.
LEMMA StdinDoes ==
  ASSUME NEW x, Scalar(x)
  PROVE  decoded_stdin_len(x, "real") = "ok" <=> IsStdin(x)
<1>1. CASE x.type # "str"
  BY <1>1 DEF decoded_stdin_len, is_standard_base64, IsStdin
<1>2. CASE x.type = "str"
  <2>1. PICK s \in Seq(Nat) : s = x.s
    BY <1>2 DEF Scalar
  <2>2. PICK n \in Nat : n = Len(s) /\ DOMAIN s = 1..n
    OBVIOUS
  <2>3. PICK pads : pads = {i \in DOMAIN s : s[i] = 61}
    OBVIOUS
  <2>4. PICK alpha : alpha = Upper \cup Lower \cup Digit \cup {43, 47}
    OBVIOUS
  <2>5. 61 \notin alpha
    BY <2>4 DEF Upper, Lower, Digit
  <2>6. pads \subseteq 1..n /\ \A i \in 1..n : i \in pads <=> s[i] = 61
    BY <2>2, <2>3
  <2>7. PICK c \in Nat : c = Cardinality(pads)
    <3>1. IsFiniteSet(1..n)
      BY FS_Interval
    <3>2. IsFiniteSet(pads)
      BY <2>6, <3>1, FS_Subset
    <3> QED
      BY <3>2, FS_CardinalityType
  <2>8. PICK len \in Nat : len = 3 * (n \div 4)
    OBVIOUS
  <2>9. MAX_STRING_BYTES \in Nat
    BY LaneAssumption
  <2>10. is_standard_base64(x) <=>
           /\ n % 4 = 0 /\ c <= 2
           /\ \A i \in (1..n) \ pads : s[i] \in alpha /\ \A j \in pads : i < j
    BY <1>2, <2>1, <2>2, <2>3, <2>4, <2>7 DEF is_standard_base64
  <2>11. decoded_stdin_len(x, "real") = "ok" <=> is_standard_base64(x) /\ len - c <= MAX_STRING_BYTES
    <3>1. b64decode(s) = len - c
      BY <2>2, <2>3, <2>7, <2>8 DEF b64decode
    <3>2. s = << >> => len - c <= MAX_STRING_BYTES
      <4>1. s = << >> => n = 0
        BY <2>2
      <4>2. n = 0 => len = 0
        BY <2>8
      <4> QED
        BY <2>7, <2>8, <2>9, <4>1, <4>2
    <3>3. CASE ~is_standard_base64(x)
      BY <3>3 DEF decoded_stdin_len
    <3>4. CASE is_standard_base64(x) /\ s = << >>
      BY <2>1, <3>2, <3>4 DEF decoded_stdin_len
    <3>5. CASE is_standard_base64(x) /\ s # << >>
      <4>1. decoded_stdin_len(x, "real") = Need(b64decode(s) <= MAX_STRING_BYTES)
        BY <2>1, <3>5 DEF decoded_stdin_len
      <4>2. Need(len - c <= MAX_STRING_BYTES) = "ok" <=> len - c <= MAX_STRING_BYTES
        BY DEF Need
      <4> QED
        BY <3>1, <3>5, <4>1, <4>2
    <3> QED
      BY <3>3, <3>4, <3>5
  <2>12. IsStdin(x) <=>
           /\ n % 4 = 0
           /\ \E pad \in 0..2 : /\ pad <= n /\ len - pad <= MAX_STRING_BYTES
                                /\ \A i \in 1..n : IF i > n - pad THEN s[i] = 61 ELSE s[i] \in alpha
    BY <1>2, <2>1, <2>2, <2>4, <2>8 DEF IsStdin
  <2>13. ASSUME decoded_stdin_len(x, "real") = "ok" PROVE IsStdin(x)
    <3>1. c \in 0..2 /\ \A i \in (1..n) \ pads : \A j \in pads : i < j
      BY <2>7, <2>10, <2>11, <2>13
    <3>2. c <= n /\ pads = (n - c + 1)..n
      BY <2>6, <2>7, <3>1, LastOnes
    <3>3. ASSUME NEW i \in 1..n PROVE IF i > n - c THEN s[i] = 61 ELSE s[i] \in alpha
      <4>1. i \in pads <=> i > n - c
        BY <3>2
      <4> QED
        BY <2>6, <2>10, <2>11, <2>13, <4>1
    <3> QED
      BY <2>10, <2>11, <2>12, <2>13, <3>1, <3>2, <3>3
  <2>14. ASSUME IsStdin(x) PROVE decoded_stdin_len(x, "real") = "ok"
    <3>1. PICK pad \in 0..2 : /\ pad <= n /\ len - pad <= MAX_STRING_BYTES
                              /\ \A i \in 1..n : IF i > n - pad THEN s[i] = 61 ELSE s[i] \in alpha
      BY <2>12, <2>14
    <3>2. \A i \in 1..n : i \in pads <=> i > n - pad
      BY <2>5, <2>6, <3>1
    <3>3. pads = (n - pad + 1)..n
      <4>1. \A i : i \in (n - pad + 1)..n <=> i \in 1..n /\ i > n - pad
        BY <3>1
      <4> QED
        BY <2>6, <3>2, <4>1
    <3>4. c = pad
      <4>1. PICK a \in Int : a = n - pad + 1
        BY <3>1
      <4>2. Cardinality(a..n) = IF a > n THEN 0 ELSE n - a + 1
        BY FS_Interval
      <4> QED
        BY <2>7, <3>1, <3>3, <4>1, <4>2
    <3>5. ASSUME NEW i \in (1..n) \ pads PROVE s[i] \in alpha /\ \A j \in pads : i < j
      <4>1. ~(i > n - pad) /\ \A j \in pads : j > n - pad /\ j \in 1..n
        BY <2>6, <3>2, <3>5
      <4> QED
        BY <3>1, <4>1
    <3> QED
      BY <2>10, <2>11, <2>12, <2>14, <3>1, <3>4, <3>5
  <2> QED
    BY <2>13, <2>14
<1> QED
  BY <1>1, <1>2

-----------------------------------------------------------------------------
(* Requests. *)

\* An argument.
LEMMA ArgumentDoes ==
  ASSUME NEW x, Scalar(x)
  PROVE  argvItem(x) = "ok" <=> Text(x, 1, MAX_STRING_BYTES) /\ 0 \notin Chars(x.s)
<1>1. argvItem(x) = "ok" <=> /\ x.type = "str" /\ x.s # << >> /\ 0 \notin Chars(x.s)
                             /\ x.type = "str" => encodes(x.s)
                             /\ utf8_bytes(x.s) <= MAX_STRING_BYTES
  <2>1. PICK a, b : /\ a = Need(x.type = "str" /\ x.s # << >> /\ 0 \notin Chars(x.s))
                    /\ b = NeedUtf8(x, utf8_bytes(x.s) <= MAX_STRING_BYTES)
    OBVIOUS
  <2>2. argvItem(x) = "ok" <=> a = "ok" /\ b = "ok"
    BY <2>1, ThenIs DEF argvItem
  <2>3. a = "ok" <=> x.type = "str" /\ x.s # << >> /\ 0 \notin Chars(x.s)
    BY <2>1 DEF Need
  <2>4. b = "ok" <=> (x.type = "str" => encodes(x.s)) /\ utf8_bytes(x.s) <= MAX_STRING_BYTES
    BY <2>1 DEF NeedUtf8, Need
  <2> QED
    BY <2>2, <2>3, <2>4
<1>2. x.type = "str" => (utf8_bytes(x.s) >= 1 <=> x.s # << >>) /\ utf8_bytes(x.s) \in Nat
  BY BytesDo DEF Scalar
<1> QED
  BY <1>1, <1>2 DEF Text

\* An entry of env: what is said of its name and its value, in whatever order.
EntryGood(e) ==
  /\ Text(Str(e.name), 1, MAX_STRING_BYTES) /\ e.name[1] \notin Digit
  /\ \A j \in DOMAIN e.name : e.name[j] \in Upper \cup Lower \cup Digit \cup {95}
  /\ Text(e.value, 0, MAX_STRING_BYTES) /\ 0 \notin Chars(e.value.s)

LEMMA NameDoes ==
  ASSUME NEW s \in Seq(Nat)
  PROVE  is_env_name(s) <=> /\ s # << >> /\ s[1] \notin Digit
                            /\ \A j \in DOMAIN s : s[j] \in Upper \cup Lower \cup Digit \cup {95}
<1>1. PICK all, first : /\ all = Upper \cup Lower \cup Digit \cup {95}
                        /\ first = Upper \cup Lower \cup {95}
  OBVIOUS
<1>2. \A c : c \in first <=> c \in all /\ c \notin Digit
  <2>1. \A c \in Upper : c \notin Digit
    BY DEF Upper, Digit
  <2>2. \A c \in Lower : c \notin Digit
    BY DEF Lower, Digit
  <2>3. 95 \notin Digit
    BY DEF Digit
  <2> QED
    BY <1>1, <2>1, <2>2, <2>3
<1>3. Chars(s) \subseteq all <=> \A j \in DOMAIN s : s[j] \in all
  BY CharsAre
<1>4. s # << >> => 1 \in DOMAIN s
  OBVIOUS
<1>5. is_env_name(s) <=> s # << >> /\ s[1] \in first /\ Chars(s) \subseteq all
  BY <1>1 DEF is_env_name
<1> QED
  BY <1>1, <1>2, <1>3, <1>4, <1>5

LEMMA EntryDoes ==
  ASSUME NEW e, e.name \in Seq(Nat), Scalar(e.value)
  PROVE  envEntry(e) = "ok" <=> EntryGood(e)
<1>1. PICK s \in Seq(Nat) : s = e.name
  OBVIOUS
<1>2. PICK v : v = e.value
  OBVIOUS
<1>3. Str(s).type = "str" /\ Str(s).s = s
  BY DEF Str
<1>4. PICK a, b, c, d : /\ a = NeedUtf8(Str(s), is_env_name(s))
                        /\ b = Need(v.type = "str" /\ 0 \notin Chars(v.s))
                        /\ c = Need(utf8_bytes(s) <= MAX_STRING_BYTES)
                        /\ d = NeedUtf8(v, utf8_bytes(v.s) <= MAX_STRING_BYTES)
  OBVIOUS
<1>5. envEntry(e) = "ok" <=> a = "ok" /\ b = "ok" /\ c = "ok" /\ d = "ok"
  BY <1>1, <1>2, <1>4 DEF envEntry, Then
<1>6. a = "ok" <=> encodes(s) /\ is_env_name(s)
  BY <1>3, <1>4 DEF NeedUtf8, Need
<1>7. b = "ok" <=> v.type = "str" /\ 0 \notin Chars(v.s)
  BY <1>4 DEF Need
<1>8. c = "ok" <=> utf8_bytes(s) <= MAX_STRING_BYTES
  BY <1>4 DEF Need
<1>9. d = "ok" <=> (v.type = "str" => encodes(v.s)) /\ utf8_bytes(v.s) <= MAX_STRING_BYTES
  BY <1>4 DEF NeedUtf8, Need
<1>10. utf8_bytes(s) \in Nat /\ (utf8_bytes(s) >= 1 <=> s # << >>)
  BY BytesDo
<1>11. v.type = "str" => utf8_bytes(v.s) \in Nat
  BY <1>2, BytesDo DEF Scalar
<1>12. v.type = "str" => 0 <= utf8_bytes(v.s)
  BY <1>11
<1>13. EntryGood(e) <=>
         /\ encodes(s) /\ 1 <= utf8_bytes(s) /\ utf8_bytes(s) <= MAX_STRING_BYTES /\ s[1] \notin Digit
         /\ \A j \in DOMAIN s : s[j] \in Upper \cup Lower \cup Digit \cup {95}
         /\ v.type = "str" /\ encodes(v.s) /\ 0 <= utf8_bytes(v.s)
         /\ utf8_bytes(v.s) <= MAX_STRING_BYTES /\ 0 \notin Chars(v.s)
  BY <1>1, <1>2, <1>3 DEF EntryGood, Text
<1>14. is_env_name(s) <=> /\ s # << >> /\ s[1] \notin Digit
                          /\ \A j \in DOMAIN s : s[j] \in Upper \cup Lower \cup Digit \cup {95}
  BY NameDoes
<1>15. 1 <= utf8_bytes(s) <=> s # << >>
  BY <1>10
<1> QED
  BY <1>5, <1>6, <1>7, <1>8, <1>9, <1>12, <1>13, <1>14, <1>15

\* A loop over a collection raises nothing exactly when no member does.
LEMMA NoneBad ==
  ASSUME NEW seq, List(seq)
  PROVE  \A S : S \subseteq DOMAIN seq /\ S # {} =>
            (CHOOSE i \in S : \A j \in S : i <= j) \in S
<1>1. DOMAIN seq \subseteq Nat
  BY DEF List
<1> QED
  BY <1>1, FirstOf

LEMMA ArgvDoes ==
  ASSUME NEW x, Flat(x)
  PROVE  argvList(x) = "ok" <=> IsArgv(x)
<1>1. argvList(x) = "ok" <=> /\ x.type = "list" /\ x.items # << >> /\ Len(x.items) <= MAX_ARGV
                             /\ EachOf(x.items, argvItem) = "ok"
  <2>1. PICK a, b : /\ a = Need(x.type = "list" /\ x.items # << >> /\ Len(x.items) <= MAX_ARGV)
                    /\ b = EachOf(x.items, argvItem)
    OBVIOUS
  <2>2. argvList(x) = "ok" <=> a = "ok" /\ b = "ok"
    BY <2>1, ThenIs DEF argvList
  <2> QED
    BY <2>1, <2>2 DEF Need
<1>2. CASE x.type # "list"
  BY <1>1, <1>2 DEF IsArgv
<1>3. CASE x.type = "list"
  <2>1. PICK w : w = x.items
    OBVIOUS
  <2>2. List(w) /\ \A i \in DOMAIN w : Scalar(w[i])
    BY <1>3, <2>1 DEF Flat
  <2>3. PICK n \in Nat : n = Len(w) /\ DOMAIN w = 1..n /\ (w # << >> <=> n # 0)
    BY <2>2 DEF List
  <2>4. EachOf(w, argvItem) = "ok" <=> \A i \in DOMAIN w : argvItem(w[i]) = "ok"
    BY <2>2, NoneBad DEF EachOf
  <2>5. \A i \in DOMAIN w : argvItem(w[i]) = "ok" <=> Text(w[i], 1, MAX_STRING_BYTES) /\ 0 \notin Chars(w[i].s)
    BY <2>2, ArgumentDoes
  <2>6. IsArgv(x) <=> /\ n \in 1..MAX_ARGV
                      /\ \A i \in DOMAIN w : Text(w[i], 1, MAX_STRING_BYTES) /\ 0 \notin Chars(w[i].s)
    BY <1>3, <2>1, <2>3 DEF IsArgv
  <2>7. n \in 1..MAX_ARGV <=> w # << >> /\ n <= MAX_ARGV
    BY <2>3, LaneAssumption
  <2> QED
    BY <1>1, <1>3, <2>1, <2>3, <2>4, <2>5, <2>6, <2>7
<1> QED
  BY <1>2, <1>3

LEMMA EnvDoes ==
  ASSUME NEW x, Flat(x)
  PROVE  envObject(x) = "ok" <=> IsEnv(x)
<1>1. envObject(x) = "ok" <=> /\ x.type = "env" /\ Len(x.entries) <= MAX_ENV
                              /\ EachOf(x.entries, envEntry) = "ok"
  <2>1. PICK a, b : /\ a = Need(x.type = "env" /\ Len(x.entries) <= MAX_ENV)
                    /\ b = EachOf(x.entries, envEntry)
    OBVIOUS
  <2>2. envObject(x) = "ok" <=> a = "ok" /\ b = "ok"
    BY <2>1, ThenIs DEF envObject
  <2> QED
    BY <2>1, <2>2 DEF Need
<1>2. CASE x.type # "env"
  BY <1>1, <1>2 DEF IsEnv
<1>3. CASE x.type = "env"
  <2>1. PICK w : w = x.entries
    OBVIOUS
  <2>2. List(w) /\ \A i \in DOMAIN w : w[i].name \in Seq(Nat) /\ Scalar(w[i].value)
    BY <1>3, <2>1 DEF Flat
  <2>3. EachOf(w, envEntry) = "ok" <=> \A i \in DOMAIN w : envEntry(w[i]) = "ok"
    BY <2>2, NoneBad DEF EachOf
  <2>4. \A i \in DOMAIN w : envEntry(w[i]) = "ok" <=> EntryGood(w[i])
    BY <2>2, EntryDoes
  <2>5. IsEnv(x) <=> Len(w) <= MAX_ENV /\ \A i \in DOMAIN w : EntryGood(w[i])
    BY <1>3, <2>1 DEF IsEnv, EntryGood
  <2> QED
    BY <1>1, <1>3, <2>1, <2>3, <2>4, <2>5
<1> QED
  BY <1>2, <1>3

LEMMA NumbersDo ==
  ASSUME NEW x, Scalar(x)
  PROVE  /\ semantic_decimal(x) = "ok" <=> IsNumeral(x, 0)
         /\ semantic_generation(x) = "ok" <=> IsNumeral(x, 1)
<1>1. semantic_decimal(x) = "ok" <=> parse_decimal_u64(x) # -1
  BY DEF semantic_decimal, Need
<1>2. semantic_generation(x) = "ok" <=> parse_decimal_u64(x) >= 1
  BY DEF semantic_generation, Need
<1> QED
  BY <1>1, <1>2, DecimalDoes

\* A field that is not there is null, and null is no string, list or object.
LEMMA GetDoes ==
  ASSUME NEW x, x.type = "obj", NEW k
  PROVE  /\ k \in DOMAIN x.f => get(x, k) = x.f[k]
         /\ k \notin DOMAIN x.f => get(x, k).type = "null"
         /\ (\A j \in DOMAIN x.f : Scalar(x.f[j])) => Scalar(get(x, k))
         /\ Json(x) => Flat(get(x, k))
<1>1. k \in DOMAIN x.f => get(x, k) = x.f[k]
  BY DEF get
<1>2. k \notin DOMAIN x.f => get(x, k).type = "null"
  BY DEF get, Null
<1>3. \A y : y.type = "null" => Scalar(y) /\ Flat(y)
  BY DEF Scalar, Flat
<1> QED
  BY <1>1, <1>2, <1>3 DEF Json

\* The fields of an execution request, one by one.
ExecutionField(k, y) ==
  CASE k = "generation" -> IsNumeral(y, 1) [] k = "argv" -> IsArgv(y) [] k = "cwd" -> IsPath(y)
    [] k = "timeout_ms" -> IsNumeral(y, 0) [] k = "env" -> IsEnv(y) [] k = "stdin_base64" -> IsStdin(y)
    [] OTHER -> TRUE

LEMMA ExecutionDoes ==
  ASSUME NEW x, Json(x)
  PROVE  semantic_execution_create(x, "real") = "ok" <=> IsExecution(x)
<1> DEFINE stdin(y) == decoded_stdin_len(y, "real")
<1>1. semantic_execution_create(x, "real") = "ok" <=>
        /\ x.type = "obj"
        /\ semantic_generation(get(x, "generation")) = "ok"
        /\ argvList(get(x, "argv")) = "ok"
        /\ "cwd" \in DOMAIN x.f => cwdPath(x.f["cwd"]) = "ok"
        /\ "timeout_ms" \in DOMAIN x.f => semantic_decimal(x.f["timeout_ms"]) = "ok"
        /\ "env" \in DOMAIN x.f => envObject(x.f["env"]) = "ok"
        /\ "stdin_base64" \in DOMAIN x.f => stdin(x.f["stdin_base64"]) = "ok"
  <2>1. PICK a, b, c, d, e, f, g :
          /\ a = Need(x.type = "obj") /\ b = semantic_generation(get(x, "generation"))
          /\ c = argvList(get(x, "argv")) /\ d = Optional(x, "cwd", cwdPath)
          /\ e = Optional(x, "timeout_ms", semantic_decimal) /\ f = Optional(x, "env", envObject)
          /\ g = Optional(x, "stdin_base64", LAMBDA y : decoded_stdin_len(y, "real"))
    OBVIOUS
  <2>2. semantic_execution_create(x, "real") = "ok" <=>
          a = "ok" /\ b = "ok" /\ c = "ok" /\ d = "ok" /\ e = "ok" /\ f = "ok" /\ g = "ok"
    BY <2>1, ThenIs DEF semantic_execution_create
  <2>3. a = "ok" <=> x.type = "obj"
    BY <2>1 DEF Need
  <2>4. d = "ok" <=> ("cwd" \in DOMAIN x.f => cwdPath(x.f["cwd"]) = "ok")
    BY <2>1 DEF Optional
  <2>5. e = "ok" <=> ("timeout_ms" \in DOMAIN x.f => semantic_decimal(x.f["timeout_ms"]) = "ok")
    BY <2>1 DEF Optional
  <2>6. f = "ok" <=> ("env" \in DOMAIN x.f => envObject(x.f["env"]) = "ok")
    BY <2>1 DEF Optional
  <2>7. g = "ok" <=> ("stdin_base64" \in DOMAIN x.f => stdin(x.f["stdin_base64"]) = "ok")
    BY <2>1 DEF Optional
  <2> HIDE DEF stdin
  <2> QED
    BY <2>1, <2>2, <2>3, <2>4, <2>5, <2>6, <2>7
<1>2. IsExecution(x) <=> /\ x.type = "obj" /\ {"generation", "argv"} \subseteq DOMAIN x.f
                         /\ \A k \in DOMAIN x.f : ExecutionField(k, x.f[k])
  BY DEF IsExecution, ExecutionField
<1>3. CASE x.type # "obj"
  BY <1>1, <1>2, <1>3
<1>4. CASE x.type = "obj"
  <2>1. \A k \in DOMAIN x.f : Flat(x.f[k]) /\ Scalar(x.f[k])
    BY <1>4 DEF Json, Flat
  <2>2. /\ \A y : ExecutionField("generation", y) <=> IsNumeral(y, 1)
        /\ \A y : ExecutionField("argv", y) <=> IsArgv(y)
        /\ \A y : ExecutionField("cwd", y) <=> IsPath(y)
        /\ \A y : ExecutionField("timeout_ms", y) <=> IsNumeral(y, 0)
        /\ \A y : ExecutionField("env", y) <=> IsEnv(y)
        /\ \A y : ExecutionField("stdin_base64", y) <=> IsStdin(y)
        /\ \A k, y : k \notin {"generation", "argv", "cwd", "timeout_ms", "env", "stdin_base64"}
                       => ExecutionField(k, y)
    BY DEF ExecutionField
  <2>3. semantic_generation(get(x, "generation")) = "ok" <=>
          "generation" \in DOMAIN x.f /\ IsNumeral(x.f["generation"], 1)
    <3>1. CASE "generation" \in DOMAIN x.f
      BY <1>4, <2>1, <3>1, GetDoes, NumbersDo
    <3>2. CASE "generation" \notin DOMAIN x.f
      <4>1. get(x, "generation").type = "null"
        BY <1>4, <3>2, GetDoes
      <4>2. Scalar(get(x, "generation")) /\ ~IsNumeral(get(x, "generation"), 1)
        BY <4>1 DEF Scalar, IsNumeral
      <4> QED
        BY <3>2, <4>2, NumbersDo
    <3> QED
      BY <3>1, <3>2
  <2>4. argvList(get(x, "argv")) = "ok" <=> "argv" \in DOMAIN x.f /\ IsArgv(x.f["argv"])
    <3>1. CASE "argv" \in DOMAIN x.f
      BY <1>4, <2>1, <3>1, GetDoes, ArgvDoes
    <3>2. CASE "argv" \notin DOMAIN x.f
      <4>1. get(x, "argv").type = "null"
        BY <1>4, <3>2, GetDoes
      <4>2. Flat(get(x, "argv")) /\ ~IsArgv(get(x, "argv"))
        BY <4>1 DEF Flat, Scalar, IsArgv
      <4> QED
        BY <3>2, <4>2, ArgvDoes
    <3> QED
      BY <3>1, <3>2
  <2>5. \A k \in DOMAIN x.f : /\ cwdPath(x.f[k]) = "ok" <=> IsPath(x.f[k])
                              /\ semantic_decimal(x.f[k]) = "ok" <=> IsNumeral(x.f[k], 0)
                              /\ envObject(x.f[k]) = "ok" <=> IsEnv(x.f[k])
                              /\ stdin(x.f[k]) = "ok" <=> IsStdin(x.f[k])
    BY <2>1, PathDoes, NumbersDo, EnvDoes, StdinDoes
  <2> HIDE DEF stdin
  <2>6. (\A k \in DOMAIN x.f : ExecutionField(k, x.f[k])) <=>
          /\ "generation" \in DOMAIN x.f => IsNumeral(x.f["generation"], 1)
          /\ "argv" \in DOMAIN x.f => IsArgv(x.f["argv"])
          /\ "cwd" \in DOMAIN x.f => IsPath(x.f["cwd"])
          /\ "timeout_ms" \in DOMAIN x.f => IsNumeral(x.f["timeout_ms"], 0)
          /\ "env" \in DOMAIN x.f => IsEnv(x.f["env"])
          /\ "stdin_base64" \in DOMAIN x.f => IsStdin(x.f["stdin_base64"])
    BY <2>2
  <2> QED
    BY <1>1, <1>2, <1>4, <2>3, <2>4, <2>5, <2>6
<1> QED
  BY <1>3, <1>4

\* The parts of a sandbox request.
LimitsGood(y) ==
  y.type # "null" =>
    /\ y.type = "values"
    /\ \A i \in DOMAIN y.items : y.items[i].type = "null" \/ IsNumeral(y.items[i], 0)

LEMMA LimitsDo ==
  ASSUME NEW y, Flat(y)
  PROVE  limitsObject(y) = "ok" <=> LimitsGood(y)
<1>1. CASE y.type = "null"
  BY <1>1 DEF limitsObject, LimitsGood
<1>2. CASE y.type # "null"
  <2>1. limitsObject(y) = "ok" <=> y.type = "values" /\ EachOf(y.items, limitValue) = "ok"
    <3>1. PICK a, b : a = Need(y.type = "values") /\ b = EachOf(y.items, limitValue)
      OBVIOUS
    <3>2. limitsObject(y) = "ok" <=> a = "ok" /\ b = "ok"
      BY <1>2, <3>1, ThenIs DEF limitsObject
    <3> QED
      BY <3>1, <3>2 DEF Need
  <2>2. CASE y.type # "values"
    BY <1>2, <2>1, <2>2 DEF LimitsGood
  <2>3. CASE y.type = "values"
    <3>1. PICK w : w = y.items
      OBVIOUS
    <3>2. List(w) /\ \A i \in DOMAIN w : Scalar(w[i])
      BY <2>3, <3>1 DEF Flat
    <3>3. \A i \in DOMAIN w : limitValue(w[i]) = "ok" <=> w[i].type = "null" \/ IsNumeral(w[i], 0)
      BY <3>2, NumbersDo DEF limitValue
    <3>4. EachOf(w, limitValue) = "ok" <=> \A i \in DOMAIN w : limitValue(w[i]) = "ok"
      BY <3>2, NoneBad DEF EachOf
    <3> QED
      BY <1>2, <2>1, <2>3, <3>1, <3>3, <3>4 DEF LimitsGood
  <2> QED
    BY <2>2, <2>3
<1> QED
  BY <1>1, <1>2

RootfsGood(y) ==
  y.type = "obj" => LET volume == get(y, "volume") IN volume.type = "null" \/ IsId(volume)

LEMMA RootfsDoes ==
  ASSUME NEW y, Flat(y)
  PROVE  rootfsObject(y) = "ok" <=> RootfsGood(y)
<1>1. CASE y.type # "obj"
  BY <1>1 DEF rootfsObject, RootfsGood
<1>2. CASE y.type = "obj"
  <2>1. PICK v : v = get(y, "volume")
    OBVIOUS
  <2>2. Scalar(v)
    BY <1>2, <2>1, GetDoes DEF Flat
  <2>3. semantic_opaque(v) = "ok" <=> IsId(v)
    BY <2>2, IdDoes
  <2>4. RootfsGood(y) <=> v.type = "null" \/ IsId(v)
    BY <1>2, <2>1 DEF RootfsGood
  <2>5. rootfsObject(y) = IF v.type = "null" THEN "ok" ELSE semantic_opaque(v)
    BY <1>2, <2>1 DEF rootfsObject
  <2> QED
    BY <2>3, <2>4, <2>5
<1> QED
  BY <1>1, <1>2

LEMMA SandboxDoes ==
  ASSUME NEW x, Json(x)
  PROVE  semantic_sandbox_create(x) = "ok" <=> IsSandbox(x)
<1>1. PICK im, id, dg, li : /\ im = get(x, "image") /\ id = get(im, "id") /\ dg = get(im, "digest")
                            /\ li = get(x, "limits")
  OBVIOUS
<1>2. semantic_sandbox_create(x) = "ok" <=>
        /\ x.type = "obj" /\ im.type = "obj" /\ semantic_opaque(id) = "ok" /\ is_image_digest(dg)
        /\ limitsObject(li) = "ok"
        /\ "rootfs" \in DOMAIN x.f => rootfsObject(x.f["rootfs"]) = "ok"
  <2>1. PICK a, b, c, d, e, f :
          /\ a = Need(x.type = "obj") /\ b = Need(im.type = "obj") /\ c = semantic_opaque(id)
          /\ d = Need(is_image_digest(dg)) /\ e = limitsObject(li)
          /\ f = Optional(x, "rootfs", rootfsObject)
    OBVIOUS
  <2>2. semantic_sandbox_create(x) = "ok" <=>
          a = "ok" /\ b = "ok" /\ c = "ok" /\ d = "ok" /\ e = "ok" /\ f = "ok"
    BY <1>1, <2>1, ThenIs DEF semantic_sandbox_create
  <2>3. (a = "ok" <=> x.type = "obj") /\ (b = "ok" <=> im.type = "obj")
    BY <2>1 DEF Need
  <2>4. d = "ok" <=> is_image_digest(dg)
    BY <2>1 DEF Need
  <2>5. f = "ok" <=> ("rootfs" \in DOMAIN x.f => rootfsObject(x.f["rootfs"]) = "ok")
    BY <2>1 DEF Optional
  <2> QED
    BY <2>1, <2>2, <2>3, <2>4, <2>5
<1> DEFINE ImageGood == /\ "image" \in DOMAIN x.f /\ x.f["image"].type = "obj"
                        /\ "id" \in DOMAIN x.f["image"].f /\ "digest" \in DOMAIN x.f["image"].f
                        /\ IsId(x.f["image"].f["id"]) /\ is_image_digest(x.f["image"].f["digest"])
<1>3. IsSandbox(x) <=>
        /\ x.type = "obj" /\ ImageGood
        /\ "limits" \in DOMAIN x.f => LimitsGood(x.f["limits"])
        /\ "rootfs" \in DOMAIN x.f => RootfsGood(x.f["rootfs"])
  BY DEF IsSandbox, LimitsGood, RootfsGood
<1>4. CASE x.type # "obj"
  BY <1>2, <1>3, <1>4
<1>5. CASE x.type = "obj"
  <2>1. ("limits" \in DOMAIN x.f => LimitsGood(x.f["limits"])) <=> limitsObject(li) = "ok"
    <3>1. Flat(li)
      BY <1>1, <1>5, GetDoes
    <3>2. limitsObject(li) = "ok" <=> LimitsGood(li)
      BY <3>1, LimitsDo
    <3>3. "limits" \in DOMAIN x.f => li = x.f["limits"]
      BY <1>1, <1>5, GetDoes
    <3>4. "limits" \notin DOMAIN x.f => li.type = "null"
      BY <1>1, <1>5, GetDoes
    <3>5. li.type = "null" => LimitsGood(li)
      BY DEF LimitsGood
    <3> QED
      BY <3>2, <3>3, <3>4, <3>5
  <2>2. "rootfs" \in DOMAIN x.f => (rootfsObject(x.f["rootfs"]) = "ok" <=> RootfsGood(x.f["rootfs"]))
    BY <1>5, RootfsDoes DEF Json
  <2>3. ImageGood <=> im.type = "obj" /\ semantic_opaque(id) = "ok" /\ is_image_digest(dg)
    <3>1. CASE "image" \notin DOMAIN x.f
      <4>1. im.type = "null"
        BY <1>1, <1>5, <3>1, GetDoes
      <4> QED
        BY <3>1, <4>1
    <3>2. CASE "image" \in DOMAIN x.f
      <4>1. im = x.f["image"] /\ Flat(im)
        BY <1>1, <1>5, <3>2, GetDoes
      <4>2. CASE im.type # "obj"
        BY <4>1, <4>2
      <4>3. CASE im.type = "obj"
        <5>1. /\ "id" \in DOMAIN im.f => id = im.f["id"]
              /\ "id" \notin DOMAIN im.f => id.type = "null"
              /\ "digest" \in DOMAIN im.f => dg = im.f["digest"]
              /\ "digest" \notin DOMAIN im.f => dg.type = "null"
          BY <1>1, <4>3, GetDoes
        <5>2. Scalar(id)
          BY <1>1, <4>1, <4>3, GetDoes DEF Flat
        <5>3. semantic_opaque(id) = "ok" <=> IsId(id)
          BY <5>2, IdDoes
        <5>4. id.type = "null" => ~IsId(id)
          BY DEF IsId, Text
        <5>5. dg.type = "null" => ~is_image_digest(dg)
          BY DEF is_image_digest
        <5>6. ImageGood <=> /\ "id" \in DOMAIN im.f /\ "digest" \in DOMAIN im.f
                            /\ IsId(im.f["id"]) /\ is_image_digest(im.f["digest"])
          BY <3>2, <4>1, <4>3
        <5> HIDE DEF ImageGood
        <5> QED
          BY <4>3, <5>1, <5>3, <5>4, <5>5, <5>6
      <4> QED
        BY <4>2, <4>3
    <3> QED
      BY <3>1, <3>2
  <2> HIDE DEF ImageGood
  <2> QED
    BY <1>2, <1>3, <1>5, <2>1, <2>2, <2>3
<1> QED
  BY <1>4, <1>5

LEMMA ErrorDoes ==
  ASSUME NEW x, Json(x)
  PROVE  semantic_error_canonical(x) = "ok" <=>
           /\ x.type = "obj" /\ {"request_id", "message"} \subseteq DOMAIN x.f
           /\ IsId(x.f["request_id"]) /\ Text(x.f["message"], 1, MAX_STRING_BYTES)
<1>1. PICK id, m : id = get(x, "request_id") /\ m = get(x, "message")
  OBVIOUS
<1>2. semantic_error_canonical(x) = "ok" <=>
        /\ x.type = "obj" /\ semantic_opaque(id) = "ok" /\ m.type = "str" /\ m.s # << >>
        /\ m.type = "str" => encodes(m.s)
        /\ utf8_bytes(m.s) <= MAX_STRING_BYTES
  <2>1. PICK a, b, c, d :
          /\ a = Need(x.type = "obj") /\ b = semantic_opaque(id)
          /\ c = Need(m.type = "str" /\ m.s # << >>)
          /\ d = NeedUtf8(m, utf8_bytes(m.s) <= MAX_STRING_BYTES)
    OBVIOUS
  <2>2. semantic_error_canonical(x) = "ok" <=> a = "ok" /\ b = "ok" /\ c = "ok" /\ d = "ok"
    BY <1>1, <2>1, ThenIs DEF semantic_error_canonical
  <2>3. (a = "ok" <=> x.type = "obj") /\ (c = "ok" <=> m.type = "str" /\ m.s # << >>)
    BY <2>1 DEF Need
  <2>4. d = "ok" <=> (m.type = "str" => encodes(m.s)) /\ utf8_bytes(m.s) <= MAX_STRING_BYTES
    BY <2>1 DEF NeedUtf8, Need
  <2> QED
    BY <2>1, <2>2, <2>3, <2>4
<1>3. CASE x.type # "obj"
  BY <1>2, <1>3
<1>4. CASE x.type = "obj"
  <2>1. /\ "request_id" \in DOMAIN x.f => id = x.f["request_id"]
        /\ "request_id" \notin DOMAIN x.f => id.type = "null"
        /\ "message" \in DOMAIN x.f => m = x.f["message"]
        /\ "message" \notin DOMAIN x.f => m.type = "null"
    BY <1>1, <1>4, GetDoes
  <2>2. Scalar(id) /\ Scalar(m)
    <3>1. Flat(id) /\ Flat(m)
      BY <1>1, <1>4, GetDoes
    <3> QED
      BY <3>1 DEF Flat
  <2>3. semantic_opaque(id) = "ok" <=> IsId(id)
    BY <2>2, IdDoes
  <2>4. id.type = "null" => ~IsId(id)
    BY DEF IsId, Text
  <2>5. m.type = "str" => utf8_bytes(m.s) \in Nat /\ (utf8_bytes(m.s) >= 1 <=> m.s # << >>)
    BY <2>2, BytesDo DEF Scalar
  <2>6. Text(m, 1, MAX_STRING_BYTES) <=> /\ m.type = "str" /\ encodes(m.s) /\ m.s # << >>
                                         /\ utf8_bytes(m.s) <= MAX_STRING_BYTES
    BY <2>5 DEF Text
  <2> QED
    BY <1>2, <1>4, <2>1, <2>3, <2>4, <2>6
<1> QED
  BY <1>3, <1>4

\* The semantic stage, with the real decoder, on a JSON value.
LEMMA SemanticsDo ==
  ASSUME NEW key \in SCHEMA_IDS, NEW x, Json(x)
  PROVE  semantic_is_valid(key, x, "real") = "ok" <=> WellFormed(key, x)
<1>1. Scalar(x)
  BY DEF Json
<1>2. key \in {"decimal-u64", "generation", "opaque-id", "error-canonical", "error-diagnostic",
               "sandbox-create", "execution-create", "capabilities-diagnostic"}
  BY DEF SCHEMA_IDS, OPENAPI_SCHEMA_NAMES
<1>3. CASE key = "decimal-u64"
  BY <1>1, <1>3, NumbersDo DEF semantic_is_valid, WellFormed
<1>4. CASE key = "generation"
  BY <1>1, <1>4, NumbersDo DEF semantic_is_valid, WellFormed
<1>5. CASE key = "opaque-id"
  BY <1>1, <1>5, IdDoes DEF semantic_is_valid, WellFormed
<1>6. CASE key = "error-canonical"
  BY <1>6, ErrorDoes DEF semantic_is_valid, WellFormed
<1>7. CASE key = "sandbox-create"
  BY <1>7, SandboxDoes DEF semantic_is_valid, WellFormed
<1>8. CASE key = "execution-create"
  BY <1>8, ExecutionDoes DEF semantic_is_valid, WellFormed
<1>9. CASE key \in {"error-diagnostic", "capabilities-diagnostic"}
  BY <1>9 DEF semantic_is_valid, WellFormed
<1> QED
  BY <1>2, <1>3, <1>4, <1>5, <1>6, <1>7, <1>8, <1>9

\* A repeated string is a string.
LEMMA RepeatedIs ==
  ASSUME NEW unit \in Seq(Nat), NEW n \in Nat, NEW suffix \in Seq(Nat)
  PROVE  Repeated(unit, n, suffix) \in Seq(Nat)
<1> DEFINE Def(h) == h = [k \in 0..n |-> IF k = 0 THEN << >> ELSE h[k - 1] \o unit]
<1>1. PICK S, a : S = Seq(Nat) /\ a = << >>
  OBVIOUS
<1>2. a \in S /\ \A y \in S : y \o unit \in S
  BY <1>1
<1>3. PICK round : round = [k \in 1..n |-> [y \in S |-> y \o unit]]
  OBVIOUS
<1>4. round \in [1..n -> [S -> S]]
  <2>1. PICK f : f = [y \in S |-> y \o unit]
    OBVIOUS
  <2>2. f \in [S -> S] /\ round = [k \in 1..n |-> f]
    BY <1>2, <1>3, <2>1
  <2> QED
    BY <2>2
<1>5. PICK h \in [0..n -> S] : h[0] = a /\ \A k \in 1..n : h[k] = round[k][h[k - 1]]
  <2> HIDE DEF Def
  <2>1. a \in S
    BY <1>2
  <2>2. HasLoop(n, S, a, round)
    BY <1>4, <2>1, LoopExists
  <2> QED
    BY <2>2 DEF HasLoop
<1>6. \A k \in 1..n : h[k] = h[k - 1] \o unit
  <2>1. \A k \in 1..n : k - 1 \in 0..n
    OBVIOUS
  <2> QED
    BY <1>3, <1>5, <2>1
<1>7. Def(h)
  <2>1. \A k \in 0..n : k = 0 \/ k \in 1..n
    OBVIOUS
  <2> QED
    BY <1>1, <1>5, <1>6, <2>1
<1>8. PICK f : f = CHOOSE g : Def(g)
  OBVIOUS
<1>9. Def(f)
  BY <1>7, <1>8
<1>10. f[0] = a /\ \A k \in 1..n : f[k] = f[k - 1] \o unit
  <2>1. 0 \in 0..n /\ \A k \in 1..n : k \in 0..n /\ k # 0
    OBVIOUS
  <2> QED
    BY <1>1, <1>9, <2>1
<1>11. f[n] \in S
  <2> DEFINE Good == {k \in 0..n : f[k] \in S}
  <2>1. 0 \in Good
    BY <1>2, <1>10
  <2>2. ASSUME NEW k \in 1..n, k - 1 \in Good PROVE k \in Good
    <3>1. f[k - 1] \in S /\ f[k] = f[k - 1] \o unit /\ k \in 0..n
      BY <1>10, <2>2
    <3> QED
      BY <1>2, <3>1
  <2> HIDE DEF Good
  <2>3. \A k \in 0..n : k \in Good
    BY <2>1, <2>2, UpTo
  <2> QED
    BY <2>3 DEF Good
<1>12. Repeated(unit, n, suffix) = f[n] \o suffix
  BY <1>8 DEF Repeated
<1> QED
  BY <1>1, <1>11, <1>12

\* What the stages are given is a JSON value.
LEMMA CaseIsJson ==
  ASSUME NEW v, CaseValue(v), value_ok(v)
  PROVE  Json(expand_repeats(v))
<1>1. CASE v.kind = "repeat"
  <2>1. v.unit \in Seq(Nat) /\ v.suffix \in Seq(Nat) /\ v.count \in Nat
    BY <1>1 DEF CaseValue, value_ok
  <2>2. PICK s \in Seq(Nat) : s = Repeated(v.unit, v.count, v.suffix)
    BY <2>1, RepeatedIs
  <2>3. expand_repeats(v) = Str(s)
    BY <1>1, <2>2 DEF expand_repeats
  <2>4. Str(s).type = "str" /\ Str(s).s = s
    BY DEF Str
  <2> QED
    BY <2>3, <2>4 DEF Json, Scalar
<1>2. CASE v.kind # "repeat"
  BY <1>2 DEF CaseValue, expand_repeats
<1> QED
  BY <1>1, <1>2

\* The answers of the semantic stage that are right, by lane and case.
Exact ==
  {p \in Lanes \X Nat \X {"ok", "bad"} :
     LET c == p[1].corpus[p[2]] IN (p[3] = "ok") <=> WellFormed(c.schema, expand_repeats(c.value))}

LEMMA AnswerIsExact ==
  ASSUME NEW run \in Lanes, NEW i \in 1..Len(run.corpus), NEW c, c = run.corpus[i],
         c.schema \in SCHEMA_IDS, value_ok(c.value), NEW answer \in {"ok", "bad"},
         answer = semantic_is_valid(c.schema, expand_repeats(c.value), "real")
  PROVE  <<run, i, answer>> \in Exact
<1>1. PICK n \in Nat : n = Len(run.corpus)
  BY LaneAssumption
<1>2. i \in Nat
  BY <1>1
<1>3. CaseValue(c.value)
  BY LaneAssumption
<1>4. PICK x : x = expand_repeats(c.value)
  OBVIOUS
<1>5. Json(x)
  BY <1>3, <1>4, CaseIsJson
<1>6. answer = "ok" <=> WellFormed(c.schema, x)
  BY <1>4, <1>5, SemanticsDo
<1>7. PICK p : p = <<run, i, answer>>
  OBVIOUS
<1>8. p \in Lanes \X Nat \X {"ok", "bad"} /\ p[1] = run /\ p[2] = i /\ p[3] = answer
  BY <1>2, <1>7
<1>9. p \in Exact
  BY <1>4, <1>6, <1>8 DEF Exact
<1> QED
  BY <1>7, <1>9

-----------------------------------------------------------------------------
(* The contract gate. *)

\* What is kept of a case that was judged: no stage failed, and the decoder was real.
Judgement == [standalone : {"ok", "bad"}, openapi : {"ok", "bad", "none"},
              semantic : {"ok", "bad"}, decoder : {"real"}]

\* Where the script is: its checks passed before the corpus, the harness has put the
\* decoder back, and an exit status ends it.
LanePhase ==
  /\ lane \in Lanes
  /\ step \in {"preflight", "infra", "inject", "decoder", "cases", "ended"}
  /\ step = "cases" => decoder = "real"
  /\ step \in {"infra", "inject", "decoder", "cases"} => preflight(lane.doc)
  /\ step # "ended" => code = -1

\* The cases judged so far are the first ones of the corpus, and failed is zero
\* exactly when each of them met its expectation.
LaneCount ==
  /\ seen \in Seq(Judgement) /\ next = Len(seen) + 1 /\ Len(seen) <= Len(lane.corpus)
  /\ seen # << >> => step \in {"cases", "ended"}
  /\ failed \in Nat
  /\ failed = 0 <=> \A i \in 1..Len(seen) : Meets(lane.corpus[i], seen[i])

\* What an exit status says.
LaneStatus ==
  /\ code \in {-1, 0, 1}
  /\ code = 0 => preflight(lane.doc) /\ Len(seen) = Len(lane.corpus) /\ failed = 0
  /\ code = 1 => seen = << >> \/ Len(seen) # Len(lane.corpus) \/ failed # 0

\* The semantic stage has answered each case judged as the case deserves.
LaneExact == \A i \in 1..Len(seen) : <<lane, i, seen[i].semantic>> \in Exact

LaneInv == LanePhase /\ LaneCount /\ LaneStatus /\ LaneExact

-----------------------------------------------------------------------------
(* The stages. *)

Outcome == {"ok", "bad", "infra"}

LEMMA ScalarOutcomes ==
  ASSUME NEW x, NEW dec
  PROVE  /\ semantic_decimal(x) \in Outcome /\ semantic_generation(x) \in Outcome
         /\ semantic_opaque(x) \in Outcome /\ cwdPath(x) \in Outcome
         /\ argvItem(x) \in Outcome /\ envEntry(x) \in Outcome
         /\ decoded_stdin_len(x, dec) \in Outcome
<1>1. \A b : Need(b) \in Outcome
  BY DEF Need, Outcome
<1>2. \A y, b : NeedUtf8(y, b) \in Outcome
  BY <1>1 DEF NeedUtf8, Outcome
<1>3. \A first, rest \in Outcome : Then(first, rest) \in Outcome
  BY DEF Then
<1>4. semantic_decimal(x) \in Outcome /\ semantic_generation(x) \in Outcome
  BY <1>1 DEF semantic_decimal, semantic_generation
<1>5. semantic_opaque(x) \in Outcome /\ cwdPath(x) \in Outcome
  BY <1>2 DEF semantic_opaque, cwdPath
<1>6. argvItem(x) \in Outcome
  BY <1>1, <1>2, <1>3 DEF argvItem
<1>7. envEntry(x) \in Outcome
  BY <1>1, <1>2, <1>3 DEF envEntry
<1>8. decoded_stdin_len(x, dec) \in Outcome
  <2>1. CASE ~is_standard_base64(x)
    BY <2>1 DEF decoded_stdin_len, Outcome
  <2>2. CASE is_standard_base64(x) /\ x.s = << >>
    BY <2>2 DEF decoded_stdin_len, Outcome
  <2>3. CASE is_standard_base64(x) /\ x.s # << >>
    BY <1>1, <2>3 DEF decoded_stdin_len, Outcome
  <2> QED
    BY <2>1, <2>2, <2>3
<1> QED
  BY <1>4, <1>5, <1>6, <1>7, <1>8

\* A case that is judged had an answer, or an error, from every stage.
LEMMA SemanticOutcome ==
  ASSUME NEW key \in SCHEMA_IDS, NEW x, NEW dec
  PROVE  semantic_is_valid(key, x, dec) \in Outcome
<1>1. \A b : Need(b) \in Outcome
  BY DEF Need, Outcome
<1>2. \A first, rest \in Outcome : Then(first, rest) \in Outcome
  BY DEF Then
<1>3. \A y, b : NeedUtf8(y, b) \in Outcome
  BY <1>1 DEF NeedUtf8, Outcome
<1>4. \A y : /\ semantic_decimal(y) \in Outcome /\ semantic_generation(y) \in Outcome
             /\ semantic_opaque(y) \in Outcome /\ cwdPath(y) \in Outcome
             /\ argvItem(y) \in Outcome /\ envEntry(y) \in Outcome
             /\ decoded_stdin_len(y, dec) \in Outcome
  BY ScalarOutcomes
<1>5. "ok" \in Outcome
  BY DEF Outcome
<1>6. \A y : argvList(y) \in Outcome
  BY <1>1, <1>2, <1>4, <1>5 DEF argvList, EachOf
<1>7. \A y : envObject(y) \in Outcome
  BY <1>1, <1>2, <1>4, <1>5 DEF envObject, EachOf
<1>8. semantic_execution_create(x, dec) \in Outcome
  <2>1. /\ Optional(x, "cwd", cwdPath) \in Outcome
        /\ Optional(x, "timeout_ms", semantic_decimal) \in Outcome
        /\ Optional(x, "env", envObject) \in Outcome
        /\ Optional(x, "stdin_base64", LAMBDA y : decoded_stdin_len(y, dec)) \in Outcome
    BY <1>4, <1>5, <1>7 DEF Optional
  <2> QED
    BY <1>1, <1>2, <1>4, <1>6, <2>1 DEF semantic_execution_create
<1>9. semantic_sandbox_create(x) \in Outcome
  <2>1. \A y : limitsObject(y) \in Outcome
    BY <1>1, <1>2, <1>4, <1>5 DEF limitsObject, limitValue, EachOf
  <2>2. Optional(x, "rootfs", rootfsObject) \in Outcome
    BY <1>4, <1>5 DEF Optional, rootfsObject
  <2> QED
    BY <1>1, <1>2, <1>4, <2>1, <2>2 DEF semantic_sandbox_create
<1>10. semantic_error_canonical(x) \in Outcome
  BY <1>1, <1>2, <1>3, <1>4 DEF semantic_error_canonical
<1> QED
  BY <1>4, <1>5, <1>8, <1>9, <1>10 DEF semantic_is_valid, SCHEMA_IDS, OPENAPI_SCHEMA_NAMES

\* main's ok is what the case asks for: its several tests leave no gap and no overlap.
LEMMA JudgeMeets ==
  ASSUME NEW c, stages_ok(c), NEW o \in Judgement
  PROVE  judge(c, o.standalone, o.openapi, o.semantic) <=> Meets(c, o)
<1>1. PICK st \in {"ok", "bad"}, op \in {"ok", "bad", "none"}, se \in {"ok", "bad"} :
        st = o.standalone /\ op = o.openapi /\ se = o.semantic
  BY DEF Judgement
<1>2. openapi_agrees(op, st) <=> op = "none" \/ op = st
  BY DEF openapi_agrees
<1>3. CASE combined(c)
  <2>1. c.expect \in {"accept", "reject"}
    BY <1>3 DEF stages_ok, combined
  <2> QED
    BY <1>1, <1>2, <1>3, <2>1 DEF judge, Meets
<1>4. CASE ~combined(c)
  <2>1. /\ c.expect_schema \in {"accept", "reject"}
        /\ c.expect_semantic \in {"accept", "reject", "not_applicable"}
    BY <1>4 DEF stages_ok, combined
  <2> QED
    BY <1>1, <1>2, <1>4, <2>1 DEF judge, Meets, as
<1> QED
  BY <1>3, <1>4

-----------------------------------------------------------------------------
(* The steps. *)

LEMMA LaneStart == LaneInit => LaneInv
<1> SUFFICES ASSUME LaneInit PROVE LaneInv
  OBVIOUS
<1>1. Len(lane.corpus) \in Nat
  BY LaneAssumption DEF LaneInit
<1> QED
  BY <1>1 DEF LaneInit, LaneInv, LanePhase, LaneCount, LaneStatus, LaneExact

\* The steps that judge no case.
LEMMA OtherKeeps ==
  ASSUME LaneInv, Preflight \/ InfrastructureFailures \/ InjectDecoder \/ DecoderFault \/ Summary
  PROVE  LaneInv'
<1>1. UNCHANGED <<lane, next, failed, seen>>
  BY DEF Preflight, InfrastructureFailures, InjectDecoder, DecoderFault, Summary
<1>2. preflight(lane.doc)' = preflight(lane.doc)
  BY <1>1 DEF preflight, assert_openapi_security
<1>9. LaneExact'
  BY <1>1 DEF LaneInv, LaneExact
<1>3. step # "ended" /\ code = -1
  BY DEF LaneInv, LanePhase, Preflight, InfrastructureFailures, InjectDecoder, DecoderFault, Summary
<1>4. CASE Preflight \/ InfrastructureFailures \/ InjectDecoder \/ DecoderFault
  <2>1. seen = << >>
    BY <1>4 DEF LaneInv, LaneCount, Preflight, InfrastructureFailures, InjectDecoder, DecoderFault
  <2>2. /\ step' = "ended" /\ code' = 1
        \/ /\ step' \in {"infra", "inject", "decoder", "cases"} /\ code' = -1
           /\ preflight(lane.doc)
           /\ step' = "cases" => decoder' = "real"
    BY <1>3, <1>4 DEF LaneInv, LanePhase, Preflight, InfrastructureFailures, InjectDecoder,
                      DecoderFault, stop, goto
  <2>3. LanePhase'
    BY <1>1, <1>2, <2>2 DEF LaneInv, LanePhase
  <2>4. LaneCount'
    BY <1>1, <2>1, <2>2 DEF LaneInv, LaneCount
  <2>5. LaneStatus'
    BY <1>1, <2>1, <2>2 DEF LaneInv, LaneStatus
  <2> QED
    BY <1>9, <2>3, <2>4, <2>5 DEF LaneInv
<1>5. CASE Summary
  <2>1. /\ step = "cases" /\ next > Len(lane.corpus) /\ step' = "ended"
        /\ code' = IF failed # 0 THEN 1 ELSE 0
    BY <1>5 DEF Summary, stop
  <2>2. preflight(lane.doc)
    BY <2>1 DEF LaneInv, LanePhase
  <2>3. Len(seen) = Len(lane.corpus)
    <3>1. Len(seen) \in Nat /\ next = Len(seen) + 1 /\ Len(seen) <= Len(lane.corpus)
      BY DEF LaneInv, LaneCount
    <3>2. Len(lane.corpus) \in Nat
      BY LaneAssumption DEF LaneInv, LanePhase
    <3> QED
      BY <2>1, <3>1, <3>2
  <2>4. LanePhase'
    BY <1>1, <2>1 DEF LaneInv, LanePhase
  <2>5. LaneCount'
    BY <1>1, <2>1 DEF LaneInv, LaneCount
  <2>6. LaneStatus'
    BY <1>1, <1>2, <2>1, <2>2, <2>3 DEF LaneStatus
  <2> QED
    BY <1>9, <2>4, <2>5, <2>6 DEF LaneInv
<1> QED
  BY <1>4, <1>5

\* One case.
LEMMA JudgeKeeps ==
  ASSUME LaneInv, JudgeCase
  PROVE  LaneInv'
<1>1. /\ step = "cases" /\ next <= Len(lane.corpus) /\ code = -1 /\ decoder = "real"
      /\ preflight(lane.doc) /\ UNCHANGED <<lane, decoder>>
  BY DEF LaneInv, LanePhase, JudgeCase
<1>2. PICK n, l : n = Len(seen) /\ l = Len(lane.corpus)
  OBVIOUS
<1>3. n \in Nat /\ l \in Nat /\ next = n + 1 /\ n < l
  <2>1. n \in Nat /\ next = n + 1
    BY <1>2 DEF LaneInv, LaneCount
  <2>2. l \in Nat
    BY <1>2, LaneAssumption DEF LaneInv, LanePhase
  <2> QED
    BY <1>1, <1>2, <2>1, <2>2
<1>4. PICK c : c = lane.corpus[next]
  OBVIOUS
<1>5. PICK standalone, verdict, openapi, semantic :
        /\ standalone \in Outcome /\ verdict \in Outcome
        /\ openapi = CASE c.schema \notin OPENAPI_SCHEMA_NAMES -> "none"
                       [] c.schema \in OPENAPI_SCHEMA_NAMES ->
                            Then(resolve_openapi(lane.doc, c.schema), verdict)
        /\ semantic = semantic_is_valid(c.schema, expand_repeats(c.value), decoder)
        /\ IF \/ c.schema \notin SCHEMA_IDS \/ ~value_ok(c.value)
              \/ "infra" \in {standalone, openapi, semantic} \/ ~stages_ok(c)
           THEN stop(1) /\ UNCHANGED <<next, failed, seen>>
           ELSE /\ next' = next + 1
                /\ failed' = failed + (IF judge(c, standalone, openapi, semantic) THEN 0 ELSE 1)
                /\ seen' = Append(seen, [standalone |-> standalone, openapi |-> openapi,
                                         semantic |-> semantic, decoder |-> decoder])
                /\ UNCHANGED <<step, code>>
  <2> DEFINE op(v) == CASE c.schema \notin OPENAPI_SCHEMA_NAMES -> "none"
                        [] c.schema \in OPENAPI_SCHEMA_NAMES ->
                             Then(resolve_openapi(lane.doc, c.schema), v)
             se == semantic_is_valid(c.schema, expand_repeats(c.value), decoder)
  <2>1. \E standalone, verdict \in Outcome :
          IF \/ c.schema \notin SCHEMA_IDS \/ ~value_ok(c.value)
             \/ "infra" \in {standalone, op(verdict), se} \/ ~stages_ok(c)
          THEN stop(1) /\ UNCHANGED <<next, failed, seen>>
          ELSE /\ next' = next + 1
               /\ failed' = failed + (IF judge(c, standalone, op(verdict), se) THEN 0 ELSE 1)
               /\ seen' = Append(seen, [standalone |-> standalone, openapi |-> op(verdict),
                                        semantic |-> se, decoder |-> decoder])
               /\ UNCHANGED <<step, code>>
    BY <1>4 DEF JudgeCase, Outcome
  <2> QED
    BY <2>1, Zenon
<1>6. preflight(lane.doc)'
  BY <1>1 DEF preflight, assert_openapi_security
<1>7. CASE stop(1) /\ UNCHANGED <<next, failed, seen>>
  <2>1. LanePhase'
    BY <1>1, <1>7 DEF LaneInv, LanePhase, stop
  <2>2. LaneCount'
    BY <1>1, <1>7 DEF LaneInv, LaneCount, stop
  <2>3. LaneStatus'
    BY <1>1, <1>2, <1>3, <1>7 DEF LaneStatus, stop
  <2>4. LaneExact'
    BY <1>1, <1>7 DEF LaneInv, LaneExact
  <2> QED
    BY <2>1, <2>2, <2>3, <2>4 DEF LaneInv
<1>8. ASSUME c.schema \in SCHEMA_IDS, value_ok(c.value), "infra" \notin {standalone, openapi, semantic},
             stages_ok(c), next' = next + 1, UNCHANGED <<step, code>>,
             failed' = failed + (IF judge(c, standalone, openapi, semantic) THEN 0 ELSE 1),
             seen' = Append(seen, [standalone |-> standalone, openapi |-> openapi,
                                   semantic |-> semantic, decoder |-> decoder])
      PROVE  LaneInv'
  <2>1. semantic \in Outcome
    BY <1>5, <1>8, SemanticOutcome
  <2>2. openapi \in {"ok", "bad", "none"}
    <3>1. resolve_openapi(lane.doc, c.schema) \in {"ok", "infra"}
      BY DEF resolve_openapi
    <3>2. openapi = "none" \/ openapi = Then(resolve_openapi(lane.doc, c.schema), verdict)
      BY <1>5
    <3> QED
      BY <1>5, <1>8, <3>1, <3>2 DEF Then, Outcome
  <2>3. PICK o : o = [standalone |-> standalone, openapi |-> openapi,
                      semantic |-> semantic, decoder |-> decoder]
    OBVIOUS
  <2>4. o \in Judgement
    BY <1>1, <1>5, <1>8, <2>1, <2>2, <2>3 DEF Judgement, Outcome
  <2>5. judge(c, standalone, openapi, semantic) <=> Meets(c, o)
    <3>1. o.standalone = standalone /\ o.openapi = openapi /\ o.semantic = semantic
      BY <2>3
    <3>2. judge(c, o.standalone, o.openapi, o.semantic) <=> Meets(c, o)
      BY <1>8, <2>4, JudgeMeets
    <3> QED
      BY <3>1, <3>2
  <2>6. /\ seen \in Seq(Judgement) /\ seen' = Append(seen, o) /\ seen' \in Seq(Judgement)
        /\ Len(seen') = n + 1 /\ seen'[n + 1] = o
        /\ \A i \in 1..n : seen'[i] = seen[i]
    <3>1. seen \in Seq(Judgement) /\ seen' = Append(seen, o)
      BY <1>8, <2>3 DEF LaneInv, LaneCount
    <3> QED
      BY <1>2, <1>3, <2>4, <3>1
  <2>7. (\A i \in 1..Len(seen') : Meets(lane.corpus[i], seen'[i]))
          <=> (\A i \in 1..n : Meets(lane.corpus[i], seen[i])) /\ Meets(c, o)
    <3>1. c = lane.corpus[n + 1]
      BY <1>3, <1>4
    <3>2. \A i \in 1..(n + 1) : i \in 1..n \/ i = n + 1
      BY <1>3
    <3>3. 1..n \subseteq 1..(n + 1) /\ n + 1 \in 1..(n + 1)
      BY <1>3
    <3>4. PICK s : s = seen'
      OBVIOUS
    <3> QED
      BY <2>6, <3>1, <3>2, <3>3, <3>4
  <2>8. failed \in Nat /\ (failed = 0 <=> \A i \in 1..n : Meets(lane.corpus[i], seen[i]))
    BY <1>2 DEF LaneInv, LaneCount
  <2>9. failed' \in Nat /\ (failed' = 0 <=> failed = 0 /\ Meets(c, o))
    BY <1>8, <2>5, <2>8
  <2>10. (failed = 0 <=> \A i \in 1..Len(seen) : Meets(lane.corpus[i], seen[i]))'
    <3>1. lane' = lane
      BY <1>1
    <3>2. (\A i \in 1..Len(seen) : Meets(lane.corpus[i], seen[i]))'
            <=> \A i \in 1..Len(seen') : Meets(lane.corpus[i], seen'[i])
      BY <3>1 DEF Meets, combined
    <3> QED
      BY <2>7, <2>8, <2>9, <3>2
  <2>11. LanePhase'
    BY <1>1, <1>6, <1>8 DEF LaneInv, LanePhase
  <2>12. Len(seen') <= Len(lane'.corpus) /\ next' = Len(seen') + 1
    BY <1>1, <1>2, <1>3, <1>8, <2>6
  <2>13. LaneCount'
    BY <1>1, <1>8, <2>6, <2>9, <2>10, <2>12 DEF LaneCount
  <2>14. LaneStatus'
    BY <1>1, <1>8 DEF LaneStatus
  <2>15. LaneExact'
    <3>1. lane \in Lanes /\ LaneExact
      BY DEF LaneInv, LanePhase
    <3>2. n + 1 \in 1..Len(lane.corpus) /\ c = lane.corpus[n + 1]
      BY <1>2, <1>3, <1>4
    <3>3. o.semantic = semantic /\ semantic \in {"ok", "bad"}
      BY <2>3, <2>4 DEF Judgement
    <3>4. <<lane, n + 1, semantic>> \in Exact
      <4>1. semantic = semantic_is_valid(c.schema, expand_repeats(c.value), "real")
        BY <1>1, <1>5
      <4> QED
        BY <1>8, <3>1, <3>2, <3>3, <4>1, AnswerIsExact
    <3>5. ASSUME NEW i \in 1..(n + 1) PROVE <<lane, i, seen'[i].semantic>> \in Exact
      <4>1. CASE i = n + 1
        BY <2>6, <3>3, <3>4, <4>1
      <4>2. CASE i \in 1..n
        BY <1>2, <2>6, <3>1, <4>2 DEF LaneExact
      <4> QED
        BY <1>3, <4>1, <4>2
    <3> QED
      BY <1>1, <2>6, <3>5 DEF LaneExact
  <2> QED
    BY <2>11, <2>13, <2>14, <2>15 DEF LaneInv
<1> QED
  BY <1>5, <1>7, <1>8

LEMMA LaneStep == LaneInv /\ [LaneNext]_laneVars => LaneInv'
<1> SUFFICES ASSUME LaneInv, [LaneNext]_laneVars PROVE LaneInv'
  OBVIOUS
<1>1. CASE LaneNext
  BY <1>1, OtherKeeps, JudgeKeeps DEF LaneNext
<1>2. CASE UNCHANGED laneVars
  BY <1>2 DEF laneVars, LaneInv, LanePhase, LaneCount, LaneStatus, LaneExact, preflight,
              assert_openapi_security, Meets, combined
<1> QED
  BY <1>1, <1>2

\* The inductive invariant: the cases judged are a prefix of the corpus, each with
\* outcomes of its own, the real decoder and the answer of the semantic stage that
\* its value deserves, failed is zero exactly when each of them met its expectation,
\* and the status is taken from that.
THEOREM LaneInvariant == LaneSpec => []LaneInv
  BY LaneStart, LaneStep, PTL DEF LaneSpec

\* The gate is green only when every case was judged by stages that worked and came
\* out as it says, and red only when one did not or none was judged.
THEOREM GateIsHonest == LaneSpec => []LaneHonest
<1>1. LaneInv => LaneHonest
  <2> SUFFICES ASSUME LaneInv PROVE LaneHonest
    OBVIOUS
  <2>1. seen \in Seq(Judgement) /\ DOMAIN seen = 1..Len(seen)
    BY DEF LaneInv, LaneCount
  <2>2. ASSUME NEW i \in DOMAIN seen
        PROVE  /\ seen[i].decoder = "real"
               /\ "infra" \notin {seen[i].standalone, seen[i].openapi, seen[i].semantic}
    <3>1. seen[i] \in Judgement
      BY <2>1, <2>2
    <3> QED
      BY <3>1 DEF Judgement
  <2>3. failed = 0 <=> \A i \in DOMAIN seen : Meets(lane.corpus[i], seen[i])
    BY <2>1 DEF LaneInv, LaneCount
  <2>4. code = 0 => preflight(lane.doc) /\ Len(seen) = Len(lane.corpus) /\ failed = 0
    BY DEF LaneInv, LaneStatus
  <2>5. code = 1 => seen = << >> \/ Len(seen) # Len(lane.corpus) \/ failed # 0
    BY DEF LaneInv, LaneStatus
  <2> QED
    BY <2>2, <2>3, <2>4, <2>5 DEF LaneHonest
<1> QED
  BY <1>1, LaneInvariant, PTL

\* The semantic stage accepts exactly the well-formed requests: every validator of
\* SEMANTIC_VALIDATORS, on every JSON value, agrees with the reference definition.
THEOREM SemanticsAreExact == LaneSpec => []SemanticsExact
<1>1. LaneInv => SemanticsExact
  <2> SUFFICES ASSUME LaneInv, seen # << >>
               PROVE  LET c == lane.corpus[Len(seen)] IN
                      (seen[Len(seen)].semantic = "ok") <=> WellFormed(c.schema, expand_repeats(c.value))
    BY DEF SemanticsExact
  <2>1. PICK n : n = Len(seen)
    OBVIOUS
  <2>2. n \in 1..Len(seen)
    <3>1. seen \in Seq(Judgement)
      BY DEF LaneInv, LaneCount
    <3> QED
      BY <2>1, <3>1
  <2>3. PICK p : p = <<lane, n, seen[n].semantic>>
    OBVIOUS
  <2>4. p \in Exact /\ p[1] = lane /\ p[2] = n /\ p[3] = seen[n].semantic
    BY <2>2, <2>3 DEF LaneInv, LaneExact
  <2>5. (p[3] = "ok") <=> WellFormed(p[1].corpus[p[2]].schema, expand_repeats(p[1].corpus[p[2]].value))
    BY <2>4 DEF Exact
  <2> QED
    BY <2>1, <2>4, <2>5
<1> QED
  BY <1>1, LaneInvariant, PTL
=============================================================================
