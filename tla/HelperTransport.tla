-------------------------- MODULE HelperTransport --------------------------
(***************************************************************************)
(* The SDK's helper transport                                              *)
(* (packages/zig-sandbox-client/src/transports/helper.ts): one child       *)
(* process at a time, reached over its pipes, with open, request and close *)
(* called by several parts of an application at once.                      *)
(*                                                                         *)
(* JavaScript runs one piece of code at a time: a call up to its first     *)
(* await, or a continuation.  Each such piece is one step.  t is the       *)
(* transport object, a record changed by operators named after its         *)
(* methods; task is where each caller's current call is.  Continuations    *)
(* are microtasks: they run before any event from outside (a timer, bytes  *)
(* from a pipe, an exit), which waits until none is ready (Quiet), while   *)
(* the application may make a call, or abort, between any two of them.     *)
(* Ready continuations run in any order, a superset of the queue's order.  *)
(***************************************************************************)
EXTENDS Naturals, Sequences, FiniteSets

CONSTANTS
  Callers,   \* parts of the application that call the transport
  None,
  MaxCalls,  \* bound on calls of open, request and close
  MaxAborts  \* bound on aborts

ASSUME HelperAssumption == None \notin Callers /\ MaxCalls \in Nat /\ MaxAborts \in Nat

VARIABLES
  t,        \* the OwnedHelperTransport
  task,     \* caller -> its call
  alive,    \* helper processes that have not exited
  spawned,  \* helper processes so far, numbered from 1
  calls, aborts

vars == <<t, task, alive, spawned, calls, aborts>>

\* A process is a number, 0 for null; a cleanup is an index of t.cl, 0 for null;
\* a request is named by its caller, who has at most one.  A task's at is the
\* cleanup or the caller it waits for, since the helpers started before it.
NewTransport ==
  [state |-> "closed", pid |-> 0, owned |-> 0, exitConfirmed |-> FALSE, failError |-> FALSE,
   pending |-> None, inflight |-> None, requestCancel |-> None, closePromise |-> None,
   cleanupTask |-> 0, cl |-> << >>, killed |-> {}, reading |-> FALSE, abortCleanup |-> FALSE,
   req |-> [c \in Callers |-> "none"]]

Idle == [op |-> "none", pc |-> "idle", at |-> 0, wasFailed |-> FALSE, since |-> 0]

Up(x) == x.state \in {"open", "starting"}

-----------------------------------------------------------------------------
(* Methods without an await. *)

\* The race of a request: rejecting it counts until the race is won.
Rejected(x, c) ==
  [x EXCEPT !.req[c] = IF @ \in {"waiting", "replied"} THEN "err" ELSE @]

rejectPending(x) ==
  IF x.pending = None THEN x ELSE [Rejected(x, x.pending) EXCEPT !.pending = None]

\* runCleanup up to its first await.  Cancelling the readers ends stdout.
runCleanup(x, kill) ==
  LET y == rejectPending([x EXCEPT !.abortCleanup = FALSE]) IN
  [y EXCEPT !.reading = FALSE,
            !.cl = Append(@, [proc |-> x.owned, pc |-> "readers"]),
            !.cleanupTask = Len(x.cl) + 1,
            !.killed = IF kill /\ x.owned \in alive /\ ~x.exitConfirmed
                         THEN @ \cup {x.owned} ELSE @]

\* Mutant: the kill flag is dropped.
startCleanup_noKill(x, kill) == IF x.cleanupTask # 0 THEN x ELSE runCleanup(x, FALSE)

startCleanup(x, kill) == IF x.cleanupTask # 0 THEN x ELSE runCleanup(x, kill)

signalFailure(x, kill) ==
  LET y == IF x.requestCancel = None THEN x ELSE Rejected(x, x.requestCancel) IN
  IF y.state = "closed" /\ y.owned = 0 THEN rejectPending(y)
  ELSE startCleanup(
         rejectPending([y EXCEPT !.state = IF @ \in {"failed", "closing"} THEN @ ELSE "failed",
                                 !.failError = TRUE]), kill)

resetSession(x) ==
  [x EXCEPT !.failError = FALSE, !.pending = None, !.inflight = None, !.closePromise = None,
            !.cleanupTask = 0, !.exitConfirmed = FALSE, !.requestCancel = None]

\* requestWithTimeout up to its race, and its finally block.
issue(x, c) == [x EXCEPT !.pending = c, !.requestCancel = c, !.req[c] = "waiting"]

finished(x, c) ==
  [x EXCEPT !.req[c] = "none",
            !.requestCancel = IF @ = c THEN None ELSE @]

-----------------------------------------------------------------------------
(* What can run. *)

CleanupOver(k) == t.cl[k].pc \in {"done", "failed"}

Ready(c) ==
  \/ task[c].pc \in {"ok", "err", "end"}
  \/ task[c].pc = "call" /\ t.req[c] \in {"ok", "err"}
  \/ task[c].pc \in {"await", "join", "reap"} /\ CleanupOver(task[c].at)

Reaped(k) == t.cl[k].pc = "exit" /\ t.cl[k].proc \notin alive

Quiet ==
  /\ \A c \in Callers : ~Ready(c)
  /\ \A k \in 1..Len(t.cl) : ~Reaped(k)

Goto(c, pc, at) == task' = [task EXCEPT ![c].pc = pc, ![c].at = at]
Leave(c) == task' = [task EXCEPT ![c] = Idle]

-----------------------------------------------------------------------------
(* open. *)

\* open from resetSession to the wait for hello: a path that is not trusted, a
\* bad cwd, an aborted signal or a failed spawn ends it, the first in "starting".
Begin(c) ==
  LET x == resetSession(t) IN
  \/ /\ \E state \in {"starting", "failed"} : t' = [x EXCEPT !.state = state]
     /\ Leave(c)
     /\ UNCHANGED <<alive, spawned>>
  \/ /\ spawned' = spawned + 1 /\ alive' = alive \cup {spawned + 1}
     /\ t' = issue([x EXCEPT !.state = "starting", !.owned = spawned + 1, !.pid = spawned + 1,
                             !.reading = TRUE, !.abortCleanup = TRUE], c)
     /\ task' = [task EXCEPT ![c] = [Idle EXCEPT !.op = "open", !.pc = "call"]]

Called(c) == task[c] = Idle /\ calls < MaxCalls /\ calls' = calls + 1 /\ UNCHANGED aborts

Continues(c) == UNCHANGED <<alive, spawned, calls, aborts>>

\* A refused open changes nothing.
open(c) ==
  /\ Called(c)
  /\ t.owned = 0 /\ t.state = "closed"
  /\ IF t.cleanupTask # 0
       THEN /\ task' = [task EXCEPT ![c] = [Idle EXCEPT !.op = "open", !.pc = "await",
                                                        !.at = t.cleanupTask]]
            /\ UNCHANGED <<t, alive, spawned>>
       ELSE Begin(c)

OpenResumes(c) ==
  /\ task[c].op = "open" /\ task[c].pc = "await" /\ Ready(c)
  /\ IF t.owned # 0 THEN Leave(c) /\ UNCHANGED <<t, alive, spawned>> ELSE Begin(c)
  /\ UNCHANGED <<calls, aborts>>

\* The state is set whatever it has become since the reply arrived.
OpenSucceeds(c) ==
  /\ task[c].op = "open" /\ task[c].pc = "ok"
  /\ t' = [t EXCEPT !.state = "open"]
  /\ Leave(c) /\ Continues(c)

HelloRefused(c) ==
  /\ task[c].op = "open" /\ task[c].pc = "ok"
  /\ Goto(c, "err", 0) /\ UNCHANGED t /\ Continues(c)

OpenFails(c) ==
  /\ task[c].op = "open" /\ task[c].pc = "err"
  /\ t' = startCleanup(signalFailure(t, TRUE), TRUE)
  /\ Goto(c, "reap", t'.cleanupTask) /\ Continues(c)

OpenThrows(c) ==
  /\ task[c].op = "open" /\ task[c].pc = "reap" /\ Ready(c)
  /\ Leave(c) /\ UNCHANGED t /\ Continues(c)

-----------------------------------------------------------------------------
(* requestWithTimeout after its race, for hello, shutdown and requests alike. *)

CallSucceeds(c) ==
  /\ task[c].pc = "call" /\ t.req[c] = "ok"
  /\ t' = finished(t, c)
  /\ Goto(c, "ok", 0) /\ Continues(c)

\* Mutant: the slot is left to signalFailure, which a closing transport skips.
CallFails_kept(c) ==
  /\ task[c].pc = "call" /\ t.req[c] = "err"
  /\ LET y == IF Up(t) THEN signalFailure(t, TRUE) ELSE t IN
     IF y.cleanupTask # 0 THEN t' = y /\ Goto(c, "join", y.cleanupTask)
                          ELSE t' = finished(y, c) /\ Goto(c, "err", 0)
  /\ Continues(c)

CallFails(c) ==
  /\ task[c].pc = "call" /\ t.req[c] = "err"
  /\ LET x == [t EXCEPT !.pending = IF @ = c THEN None ELSE @]
         y == IF Up(x) THEN signalFailure(x, TRUE) ELSE x IN
     IF y.cleanupTask # 0 THEN t' = y /\ Goto(c, "join", y.cleanupTask)
                          ELSE t' = finished(y, c) /\ Goto(c, "err", 0)
  /\ Continues(c)

CallJoined(c) ==
  /\ task[c].pc = "join" /\ Ready(c)
  /\ t' = finished(t, c)
  /\ Goto(c, "err", 0) /\ Continues(c)

\* A request outside "open", or while another is in flight, changes nothing.
request(c) ==
  /\ Called(c)
  /\ t.state = "open" /\ t.inflight = None /\ t.pending = None /\ t.owned # 0
  /\ t' = issue([t EXCEPT !.inflight = c], c)
  /\ task' = [task EXCEPT ![c] = [Idle EXCEPT !.op = "request", !.pc = "call"]]
  /\ UNCHANGED <<alive, spawned>>

RequestReturns(c) ==
  /\ task[c].op = "request" /\ task[c].pc \in {"ok", "err"}
  /\ t' = [t EXCEPT !.inflight = IF @ = c THEN None ELSE @]
  /\ Leave(c) /\ Continues(c)

-----------------------------------------------------------------------------
(* close: a second caller waits for the first one's closeInner. *)

close(c) ==
  /\ Called(c)
  /\ ~(t.state = "closed" /\ t.owned = 0)
  /\ LET wasFailed == t.state = "failed" \/ t.failError
         x == rejectPending(
                [t EXCEPT !.state = IF @ = "failed" THEN @ ELSE "closing",
                          !.abortCleanup = FALSE, !.closePromise = c])
         y == startCleanup(x, TRUE)
         at(pc, k) == task' = [task EXCEPT ![c] =
                        [op |-> "close", pc |-> pc, at |-> k, wasFailed |-> wasFailed, since |-> spawned]]
     IN IF t.closePromise # None
          THEN /\ UNCHANGED t
               /\ task' = IF task[t.closePromise].pc = "end" THEN task
                          ELSE [task EXCEPT ![c] = [Idle EXCEPT !.op = "close", !.pc = "follow",
                                                                !.at = t.closePromise]]
        ELSE IF ~wasFailed /\ t.owned \in alive
          THEN t' = issue(x, c) /\ at("call", 0)
          ELSE t' = y /\ at("reap", y.cleanupTask)
  /\ UNCHANGED <<alive, spawned>>

\* After the shutdown request, whatever came of it.
CloseJoins(c) ==
  /\ task[c].op = "close" /\ task[c].pc \in {"ok", "err"}
  /\ t' = startCleanup(rejectPending(t), TRUE)
  /\ Goto(c, "reap", t'.cleanupTask) /\ Continues(c)

\* Mutant: the test inverted.
Unconfirmed_inverted(x) == x.owned # 0 /\ x.exitConfirmed

Unconfirmed(x) == x.owned # 0 /\ ~x.exitConfirmed

\* closeInner returns or throws; the callers that wait for it do so with it.
CloseReturns(c) ==
  /\ task[c].op = "close" /\ task[c].pc = "reap" /\ Ready(c)
  /\ t' = IF Unconfirmed(t) THEN [t EXCEPT !.state = "failed"]
          ELSE [t EXCEPT !.pid = 0,
                         !.state = IF t.owned # 0 /\ (task[c].wasFailed \/ t.failError)
                                     THEN "failed" ELSE "closed"]
  /\ task' = [d \in Callers |->
                IF d = c THEN [task[c] EXCEPT !.pc = "end"]
                ELSE IF task[d].pc = "follow" /\ task[d].at = c THEN Idle ELSE task[d]]
  /\ Continues(c)

CloseEnds(c) ==
  /\ task[c].op = "close" /\ task[c].pc = "end"
  /\ t' = [t EXCEPT !.closePromise = None]
  /\ Leave(c) /\ Continues(c)

-----------------------------------------------------------------------------
(* runCleanup after its awaits. *)

Discharged(x, k) ==
  [x EXCEPT !.exitConfirmed = TRUE, !.owned = 0, !.pid = 0, !.cl[k].pc = "done"]

\* The cancelled readers have ended, or the reader deadline has passed.  The end
\* of stdout counts as a failure if readStdout sees the transport up.
ReadersJoined(k) ==
  /\ t.cl[k].pc = "readers"
  /\ LET p == t.cl[k].proc IN
     \E x \in {t} \cup {signalFailure(t, TRUE) : y \in {z \in {t} : z.pending # None \/ Up(z)}} :
     t' = IF p = 0 THEN [x EXCEPT !.cl[k].pc = "done"]
          ELSE IF x.exitConfirmed \/ p \notin alive THEN Discharged(x, k)
          ELSE [x EXCEPT !.cl[k].pc = "exit"]
  /\ UNCHANGED <<task, alive, spawned, calls, aborts>>

ExitJoined(k) ==
  /\ Reaped(k)
  /\ t' = Discharged(t, k)
  /\ UNCHANGED <<task, alive, spawned, calls, aborts>>

\* Mutant: no reap deadline.
ExitDeadline_never(k) == FALSE

\* The reap deadline: kill again, keep the handle and the pid.
ExitDeadline(k) ==
  /\ Quiet /\ t.cl[k].pc = "exit"
  /\ t' = [t EXCEPT !.cl[k].pc = "failed", !.pid = t.cl[k].proc, !.killed = @ \cup {t.cl[k].proc}]
  /\ UNCHANGED <<task, alive, spawned, calls, aborts>>

-----------------------------------------------------------------------------
(* Events from outside. *)

Outside(x) == t' = x /\ UNCHANGED <<task, spawned, calls, aborts>>

\* The helper exits, told to or not; watchExit is the first to hear of it.
Exit(p) ==
  /\ Quiet /\ p \in alive
  /\ alive' = alive \ {p}
  /\ LET x == [t EXCEPT !.exitConfirmed = TRUE] IN
     Outside(IF Up(x) THEN signalFailure(x, FALSE) ELSE x)

\* dispatchFrame: the reply that was waited for, a result or an error.  The
\* request's race is won when its write has been flushed too (Flushed), which
\* no longer happens once cleanup has ended stdin.
Reply ==
  /\ Quiet /\ t.reading /\ t.pending # None
  /\ \E outcome \in {"replied", "err"} :
       Outside([t EXCEPT !.req[t.pending] = IF @ = "waiting" THEN outcome ELSE @, !.pending = None])
  /\ UNCHANGED alive

Flushed(c) ==
  /\ t.req[c] = "replied" /\ t.cleanupTask = 0
  /\ Outside([t EXCEPT !.req[c] = "ok"])
  /\ UNCHANGED alive

\* dispatchFrame on any other frame (malformed, unasked for, another or a used
\* id: the reply to a request that has timed out is one), and a stderr flood.
BadFrame ==
  /\ Quiet /\ t.reading
  /\ Outside(signalFailure(t, TRUE))
  /\ UNCHANGED alive

\* readStdout ends: end of file, or an error of the stream or the decoder.
StdoutEnds ==
  /\ Quiet /\ t.reading
  /\ LET x == [t EXCEPT !.reading = FALSE] IN
     \/ Outside(IF x.pending # None \/ Up(x) THEN signalFailure(x, TRUE) ELSE x)
     \/ Outside(IF Up(x) THEN signalFailure(x, TRUE) ELSE x)
  /\ UNCHANGED alive

\* The deadline of a request passes, or its write fails.
Expire(c) ==
  /\ Quiet /\ t.req[c] \in {"waiting", "replied"}
  /\ Outside(Rejected(t, c))
  /\ UNCHANGED alive

\* The application aborts the signal of open or of a request.
Abort ==
  /\ aborts < MaxAborts /\ aborts' = aborts + 1
  /\ \/ t.abortCleanup
     \/ \E c \in Callers : task[c].op # "close" /\ task[c].pc \in {"call", "join"}
  /\ t' = signalFailure(t, TRUE)
  /\ UNCHANGED <<task, alive, spawned, calls>>

-----------------------------------------------------------------------------
Init ==
  /\ t = NewTransport /\ task = [c \in Callers |-> Idle]
  /\ alive = {} /\ spawned = 0 /\ calls = 0 /\ aborts = 0

Step(c) ==
  \/ OpenResumes(c) \/ OpenSucceeds(c) \/ HelloRefused(c) \/ OpenFails(c) \/ OpenThrows(c)
  \/ CallSucceeds(c) \/ CallFails(c) \/ CallJoined(c)
  \/ RequestReturns(c)
  \/ CloseJoins(c) \/ CloseReturns(c) \/ CloseEnds(c)

Cleanup(k) == k \in 1..Len(t.cl) /\ (ReadersJoined(k) \/ ExitJoined(k) \/ ExitDeadline(k))

Next ==
  \/ \E c \in Callers : open(c) \/ request(c) \/ close(c) \/ Step(c) \/ Expire(c) \/ Flushed(c)
  \/ \E k \in 1..Len(t.cl) : ReadersJoined(k) \/ ExitJoined(k) \/ ExitDeadline(k)
  \/ \E p \in alive : Exit(p)
  \/ Reply \/ BadFrame \/ StdoutEnds \/ Abort

\* Continuations run and timers fire.  Nothing is assumed of the helper (it may
\* ignore every signal and never answer) or of the application.
Fairness ==
  /\ \A c \in Callers : WF_vars(Step(c)) /\ WF_vars(Expire(c))
  /\ \A k \in 1..MaxCalls : WF_vars(Cleanup(k))

Spec == Init /\ [][Next]_vars /\ Fairness

-----------------------------------------------------------------------------
(* What the transport promises. *)

\* A live helper is never forgotten: whatever open, close, abort and failure do
\* to each other, the transport keeps the handle and the pid of every process
\* that runs (so there is at most one), and once cleanup has started it has been
\* told to stop.
NoForgottenHelper ==
  \A p \in alive : /\ t.owned = p /\ t.pid = p
                   /\ t.cleanupTask # 0 => p \in t.killed

\* close() succeeds only when every helper started before it was called has
\* exited, and fails only while the transport still holds one that runs.
CloseIsHonest ==
  [][\A c \in Callers :
       task[c].pc = "reap" /\ task'[c].pc = "end" =>
         IF Unconfirmed(t) THEN t.owned \in alive
         ELSE \A p \in alive : p > task[c].since]_vars

\* A reply reaches only a request whose caller still waits for it: one that has
\* timed out, been cancelled or been rejected is never left pending, for a late
\* frame or a later session's reply to complete.
RepliesReachWaiters ==
  \A c \in Callers : t.pending = c =>
    task[c].pc = "call" /\ t.req[c] \in {"waiting", "err"}

\* Every call returns, even if the helper never answers and never exits.
CallsReturn == \A c \in Callers : task[c] # Idle ~> task[c] = Idle
=============================================================================
