----------------------------- MODULE ProcTable -----------------------------
(***************************************************************************)
(* The hosted kernel's process table (src/proc/proc.zig) and the spinlock  *)
(* around it (src/lib/klock.zig).                                          *)
(*                                                                         *)
(* A syscall is a context's run of steps: it waits for pid_lock, does its  *)
(* work, and where the code calls a helper that takes pid_lock again it    *)
(* waits a second time ("again").  current_pid never changes, so every     *)
(* context acts for process 1.  File descriptors, credentials and names,   *)
(* copied by fork and read by nothing here, are left out.                  *)
(***************************************************************************)
EXTENDS Naturals, FiniteSets, FiniteSetsExt

CONSTANTS
  Contexts,                      \* what can be inside a syscall at once
  MAX_PROCESSES, MAX_THREADS, MAX_PID, MAX_CHILDREN

VARIABLES
  locked,          \* pid_lock
  holders,         \* history: contexts between an acquire and their release
  ctx,             \* context -> its syscall
  processes,       \* pid -> process slot, 0 for null
  threads_by_tid,  \* tid -> thread slot, 0 for null
  process_used, thread_used,   \* slots in use
  proc             \* process slot -> its Process

vars == <<locked, holders, ctx, processes, threads_by_tid, process_used, thread_used, proc>>
tables == <<processes, threads_by_tid, process_used, thread_used, proc>>

Pids  == 1..(MAX_PID - 1)
Slots == 1..MAX_PROCESSES
Fresh == [pid |-> 0, ppid |-> 0, status |-> 0, exiting |-> FALSE, children |-> {}]
Idle  == [op |-> "none", pc |-> "idle", slot |-> 0, id |-> 0]

\* current_pid is 1, and process 1 is never freed.
current == processes[1]

\* The first free index; 0 when there is none.
First(free) == IF free = {} THEN 0 ELSE Min(free)

freePids == {k \in Pids : processes[k] = 0 /\ threads_by_tid[k] = 0}
freeTids == {k \in Pids : threads_by_tid[k] = 0}

init ==
  /\ locked = FALSE /\ holders = {} /\ ctx = [c \in Contexts |-> Idle]
  /\ processes = [k \in Pids |-> IF k = 1 THEN 1 ELSE 0]
  /\ threads_by_tid = [k \in Pids |-> 0]
  /\ process_used = {1} /\ thread_used = {}
  /\ proc = [s \in Slots |-> IF s = 1 THEN [Fresh EXCEPT !.pid = 1] ELSE Fresh]

-----------------------------------------------------------------------------
(* The lock. *)

Goto(c, pc) == ctx' = [ctx EXCEPT ![c].pc = pc]

\* A spinning acquire succeeds when the word is clear; release clears it,
\* whoever holds the lock.
acquire(c) ==
  /\ ctx[c].pc \in {"want", "rewant", "again"} /\ ~locked
  /\ locked' = TRUE /\ holders' = holders \cup {c}
  /\ Goto(c, CASE ctx[c].pc = "want" -> "in" [] ctx[c].pc = "rewant" -> "back"
               [] OTHER -> "inner")
  /\ UNCHANGED tables

release(c) == locked' = FALSE /\ holders' = holders \ {c}

\* exit does not return: it spins.
Returns(c) ==
  /\ release(c)
  /\ ctx' = [ctx EXCEPT ![c] = IF @.op = "exit" THEN [@ EXCEPT !.pc = "spin"] ELSE Idle]

\* Calling a helper that acquires pid_lock itself, with the lock held.
CallsHelper(c) == Goto(c, "again") /\ UNCHANGED <<locked, holders>>

Enter(c, op) ==
  /\ ctx[c].pc = "idle"
  /\ ctx' = [ctx EXCEPT ![c] = [Idle EXCEPT !.op = op, !.pc = "want"]]
  /\ UNCHANGED <<locked, holders, tables>>

-----------------------------------------------------------------------------
(* fork never leaves the lock; what it took before a failure stays taken. *)

fork(c) ==
  /\ ctx[c].op = "fork" /\ ctx[c].pc = "in"
  /\ LET slot   == First(Slots \ process_used)
         pid    == First(freePids)
         thread == First((1..MAX_THREADS) \ thread_used)
         child  == [Fresh EXCEPT !.pid = pid, !.ppid = proc[current].pid]
     IN /\ process_used' = process_used \cup ({slot} \ {0})
        /\ processes' = IF slot = 0 \/ pid = 0 THEN processes ELSE [processes EXCEPT ![pid] = slot]
        /\ IF slot = 0 \/ pid = 0 \/ thread = 0
             THEN /\ UNCHANGED <<threads_by_tid, thread_used>>
                  /\ proc' = IF slot = 0 THEN proc ELSE [proc EXCEPT ![slot] = child]
             ELSE /\ thread_used' = thread_used \cup {thread}
                  /\ threads_by_tid' = [threads_by_tid EXCEPT ![pid] = thread]
                  /\ proc' = [proc EXCEPT ![slot] = child,
                                ![current].children =
                                  IF Cardinality(@) < MAX_CHILDREN THEN @ \cup {slot} ELSE @]
  /\ Returns(c)

-----------------------------------------------------------------------------
(* exit, kill and new_thread call processAt or bindTid while they hold it. *)

exit(c) ==
  /\ ctx[c].op = "exit" /\ ctx[c].pc = "in"
  /\ \E code \in {0, 1} : proc' = [proc EXCEPT ![current].status = code, ![current].exiting = TRUE]
  /\ CallsHelper(c)
  /\ UNCHANGED <<processes, threads_by_tid, process_used, thread_used>>

kill(c) ==
  /\ ctx[c].op = "kill" /\ ctx[c].pc = "in"
  /\ CallsHelper(c) /\ UNCHANGED tables

newThread(c) ==
  /\ ctx[c].op = "newThread" /\ ctx[c].pc = "in"
  /\ LET thread == First((1..MAX_THREADS) \ thread_used)
         tid    == First(freeTids)
     IN /\ thread_used' = thread_used \cup ({thread} \ {0})
        /\ IF thread = 0 \/ tid = 0 THEN Returns(c)
           ELSE /\ ctx' = [ctx EXCEPT ![c].pc = "again", ![c].slot = thread, ![c].id = tid]
                /\ UNCHANGED <<locked, holders>>
  /\ UNCHANGED <<processes, threads_by_tid, process_used, proc>>

-----------------------------------------------------------------------------
(* waitpid: reaping frees the pid through freePid, with the lock held. *)

Reap(c, child) ==
  /\ proc' = [proc EXCEPT ![current].children = @ \ {child}]
  /\ ctx' = [ctx EXCEPT ![c].pc = "again", ![c].id = proc[child].pid]
  /\ UNCHANGED <<locked, holders, processes, threads_by_tid, process_used, thread_used>>

\* No child matches the pid asked for: the lock is released by hand and again
\* on the way out.
WaitNoChild(c) ==
  /\ ctx[c].op = "waitpid" /\ ctx[c].pc = "in"
  /\ locked' = FALSE /\ holders' = holders \ {c}
  /\ Goto(c, "leave") /\ UNCHANGED tables

waitpid(c, child) ==
  /\ ctx[c].op = "waitpid" /\ ctx[c].pc = "in" /\ child \in proc[current].children
  /\ \/ proc[child].exiting /\ Reap(c, child)
     \/ ~proc[child].exiting /\ Returns(c) /\ UNCHANGED tables   \* WNOHANG
     \/ /\ ~proc[child].exiting /\ release(c)
        /\ ctx' = [ctx EXCEPT ![c].pc = "rewant", ![c].slot = child, ![c].id = proc[child].status]
        /\ UNCHANGED tables

WaitAgain(c) ==
  /\ ctx[c].pc = "back"
  /\ LET child == ctx[c].slot IN
     IF proc[child].status # ctx[c].id /\ proc[child].exiting THEN Reap(c, child)
     ELSE Returns(c) /\ UNCHANGED tables

Leave(c) == ctx[c].pc = "leave" /\ Returns(c) /\ UNCHANGED tables

-----------------------------------------------------------------------------
(* The helper runs and releases the lock; then the syscall ends, with its    *)
(* own release.                                                              *)

Helper(c) ==
  /\ ctx[c].pc = "inner"
  /\ locked' = FALSE /\ holders' = holders \ {c} /\ Goto(c, "leave")
  /\ processes' = IF ctx[c].op = "waitpid" THEN [processes EXCEPT ![ctx[c].id] = 0] ELSE processes
  /\ threads_by_tid' = IF ctx[c].op = "newThread" THEN [threads_by_tid EXCEPT ![ctx[c].id] = ctx[c].slot]
                       ELSE threads_by_tid
  /\ proc' = IF ctx[c].op = "exit" THEN [proc EXCEPT ![current].status = 127] ELSE proc
  /\ UNCHANGED <<process_used, thread_used>>

Next == \E c \in Contexts :
  \/ \E op \in {"fork", "exit", "kill", "newThread", "waitpid"} : Enter(c, op)
  \/ acquire(c) \/ Helper(c) \/ Leave(c)
  \/ fork(c) \/ exit(c) \/ kill(c) \/ newThread(c)
  \/ WaitNoChild(c) \/ WaitAgain(c) \/ \E child \in Slots : waitpid(c, child)

Spec == init /\ [][Next]_vars

-----------------------------------------------------------------------------
\* fork's comment says why it avoids processAt, allocatePid and bindTid: a caller
\* that holds pid_lock and takes it again would wait for itself.  No syscall
\* does.
NoSelfWait == \A c \in Contexts : ctx[c].pc = "again" => c \notin holders
=============================================================================
