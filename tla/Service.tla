------------------------------ MODULE Service ------------------------------
(***************************************************************************)
(* The supervisor's API service (supervisor/api.zig) over its session,     *)
(* admission and workspace-quota parts (session.zig, policy.zig,           *)
(* workspace.zig): sessions created and destroyed by their owners,         *)
(* executions with a deadline and a cancel flag that a host tick enforces, *)
(* files charged to a quota, and a ring of events read with a cursor.      *)
(*                                                                         *)
(* The service runs one call at a time; the calls, the clock and the host  *)
(* tick come in any order.  A call that is refused before it changes       *)
(* anything (another owner, an unknown id or execution, a stale            *)
(* generation) is a stutter and has no action.  The session's own fields   *)
(* are fields of its slot.                                                 *)
(***************************************************************************)
EXTENDS Integers, Sequences, FiniteSets, FiniteSetsExt, Functions

CONSTANTS
  Owners,         \* callers' names
  LongOwners,     \* those of more than 64 bytes, stored cut
  CutName,        \* what is stored for them
  Limits,         \* limits a create may ask for
  FLOORS, CEILINGS,
  MIB,            \* bytes in a MiB
  U64MAX,
  MAX_SESSIONS,   \* slots, and tombstones
  max_sessions,   \* sessions that admission allows
  mem_budget_mib,
  MAX_EXECS, MAX_EVENTS, MAX_FILES,
  Paths,          \* canonical workspace paths
  LongPaths,      \* those of more than 256 bytes
  Sizes,          \* sizes of files put
  MaxId,          \* bound on sessions ever created
  MaxSeq          \* bound on the events of the live sessions together (a tick may pass it)

ASSUME ServiceAssumption ==
  /\ LongOwners \subseteq Owners /\ CutName \notin Owners
  /\ {MAX_SESSIONS, MAX_EVENTS} \subseteq Nat \ {0}
  /\ {U64MAX, MIB, MAX_EXECS, MAX_FILES, max_sessions, mem_budget_mib} \subseteq Nat
  /\ max_sessions <= MAX_SESSIONS   \* both are 8; a larger budget meets create's double release
  /\ U64MAX > 0
  /\ FLOORS.execution_timeout_ms \in Nat \ {0}   \* 1000
  /\ Sizes \subseteq 0..U64MAX
  /\ \A l \in Limits : {l.memory_mib, l.workspace_mib, l.execution_timeout_ms} \subseteq Nat

VARIABLES
  adm,        \* policy.Admission
  slots,      \* the session slots
  next_id,    \* next_session_id
  destroyed,  \* tombstones, in the order they were filled
  now         \* the clock whose value the calls are given

vars == <<adm, slots, next_id, destroyed, now>>

\* A slot not in use is overwritten before it is read again.
Free == [used |-> FALSE]

NoEvent == [seq |-> 0, generation |-> 0, exec |-> 0, ty |-> "lifecycle"]

Used == {i \in 1..MAX_SESSIONS : slots[i].used}

-----------------------------------------------------------------------------
(* policy.zig *)

validate(l) ==
  \A f \in {"memory_mib", "workspace_mib", "execution_timeout_ms"} :
    FLOORS[f] <= l[f] /\ l[f] <= CEILINGS[f]

admits(a, l) ==
  a.active < max_sessions /\ a.mem + l.memory_mib <= mem_budget_mib

admit(a, l) == [active |-> a.active + 1, mem |-> a.mem + l.memory_mib]

\* Mutant: the memory goes back only when some is left over.
release_lastKept(a, l) ==
  [active |-> IF a.active > 0 THEN a.active - 1 ELSE 0,
   mem    |-> IF a.mem > l.memory_mib THEN a.mem - l.memory_mib ELSE a.mem]

release(a, l) ==
  [active |-> IF a.active > 0 THEN a.active - 1 ELSE 0,
   mem    |-> IF a.mem > l.memory_mib THEN a.mem - l.memory_mib ELSE 0]

-----------------------------------------------------------------------------
(* workspace.zig: the quota. *)

charged(s, n) == (s.used_bytes + n) % (U64MAX + 1)

fits(s, n) == charged(s, n) >= s.used_bytes /\ charged(s, n) <= s.cap_bytes

charge(s, n) == IF fits(s, n) THEN [s EXCEPT !.used_bytes = charged(s, n)] ELSE s

discharge(s, n) == [s EXCEPT !.used_bytes = IF n > @ THEN 0 ELSE @ - n]

-----------------------------------------------------------------------------
(* Events: a ring that drops its oldest entry. *)

\* Mutant: the oldest entry is overwritten and stays the oldest.
pushEvent_start(s, exec, ty) ==
  LET ev == [seq |-> s.next_seq, generation |-> s.generation, exec |-> exec, ty |-> ty]
      full == s.event_count = MAX_EVENTS IN
  [s EXCEPT !.next_seq = @ + 1,
            !.events[(s.event_start + s.event_count) % MAX_EVENTS] = ev,
            !.event_count = IF full THEN @ ELSE @ + 1]

pushEvent(s, exec, ty) ==
  LET ev == [seq |-> s.next_seq, generation |-> s.generation, exec |-> exec, ty |-> ty]
      t  == [s EXCEPT !.next_seq = @ + 1] IN
  IF s.event_count < MAX_EVENTS
  THEN [t EXCEPT !.events[(s.event_start + s.event_count) % MAX_EVENTS] = ev,
                 !.event_count = @ + 1]
  ELSE [t EXCEPT !.events[s.event_start] = ev,
                 !.event_start = (@ + 1) % MAX_EVENTS]

ring(s) == [k \in 1..s.event_count |-> s.events[(s.event_start + k - 1) % MAX_EVENTS]]

\* events: the first of the ring after a cursor, as many as the caller has room
\* for.  out[n] is what the caller's buffer holds after the ring's first n events.
events(s, after, room) ==
  LET out[n \in 0..s.event_count] ==
        IF n = 0 THEN << >>
        ELSE IF Len(out[n - 1]) < room /\ ring(s)[n].seq > after
             THEN Append(out[n - 1], ring(s)[n]) ELSE out[n - 1]
  IN out[s.event_count]

-----------------------------------------------------------------------------
(* session.zig: the deadline, and api.zig: one execution of a tick. *)

saturatingAdd(a, b) == IF a + b > U64MAX THEN U64MAX ELSE a + b

\* Mutant: only after the deadline, which the last tick of the clock never is.
execTimedOut_after(s) == s.state = "busy" /\ s.deadline # 0 /\ now > s.deadline

execTimedOut(s) == s.state = "busy" /\ s.deadline # 0 /\ now >= s.deadline

\* Mutant: a finished execution is not skipped.
tickExec_again(s, k) ==
  LET e == s.execs[k] IN
  IF e.generation = s.generation /\ (e.cancel_requested \/ execTimedOut(s))
  THEN [pushEvent(s, e.id, "exit") EXCEPT
          !.execs[k].state = "done",
          !.execs[k].term = IF e.cancel_requested THEN "cancelled" ELSE "timeout",
          !.state = "ready", !.deadline = 0]
  ELSE s

tickExec(s, k) ==
  LET e == s.execs[k] IN
  IF /\ e.state # "done" /\ e.generation = s.generation
     /\ e.cancel_requested \/ execTimedOut(s)
  THEN [pushEvent(s, e.id, "exit") EXCEPT
          !.execs[k].state = "done",
          !.execs[k].term = IF e.cancel_requested THEN "cancelled" ELSE "timeout",
          !.state = "ready", !.deadline = 0]
  ELSE s

\* The executions of a slot in order: an earlier one may end the busy state.
tickSlot(s) ==
  LET upto[k \in 0..Len(s.execs)] == IF k = 0 THEN s ELSE tickExec(upto[k - 1], k)
  IN upto[Len(s.execs)]

-----------------------------------------------------------------------------
(* Calls.  Each is made by the owner of the slot's session. *)

\* The slot of a session that its owner can name: a name stored cut matches nobody.
Reachable(i) == slots[i].used /\ slots[i].owner \in Owners

Room == MapThenSumSet(LAMBDA i : slots[i].next_seq - 1, Used) < MaxSeq

Becomes(i, s) ==
  /\ s.next_seq > slots[i].next_seq => Room
  /\ slots' = [slots EXCEPT ![i] = s]
  /\ UNCHANGED <<adm, next_id, destroyed, now>>

NewSlot(owner, l) ==
  [used |-> TRUE, owner |-> IF owner \in LongOwners THEN CutName ELSE owner,
   id |-> next_id, generation |-> 1, state |-> "creating", limits |-> l, deadline |-> 0,
   cap_bytes |-> l.workspace_mib * MIB, used_bytes |-> 0, files |-> << >>,
   events |-> [k \in 0..(MAX_EVENTS - 1) |-> NoEvent], event_start |-> 0, event_count |-> 0,
   next_seq |-> 1, execs |-> << >>, next_exec_id |-> 1]

\* Without a free slot the errdefer and the explicit call both release.
create(owner, l) ==
  /\ next_id <= MaxId
  /\ validate(l) /\ admits(adm, l)
  /\ LET a == admit(adm, l)
         free == (1..MAX_SESSIONS) \ Used IN
     IF free = {} THEN adm' = release(release(a, l), l) /\ UNCHANGED <<slots, next_id>>
     ELSE /\ adm' = a
          /\ slots' = [slots EXCEPT ![Min(free)] = NewSlot(owner, l)]
          /\ next_id' = next_id + 1
  /\ UNCHANGED <<destroyed, now>>

guestReady(i) ==
  /\ Reachable(i)
  /\ slots[i].state \in {"creating", "resetting"}
  /\ Becomes(i, pushEvent([slots[i] EXCEPT !.state = "ready"], 0, "lifecycle"))

\* Mutant: no rollback when every execution slot is taken.
started_noRollback(s) ==
  LET b == [s EXCEPT !.state = "busy",
                     !.deadline = saturatingAdd(now, s.limits.execution_timeout_ms)]
      e == [id |-> s.next_exec_id, generation |-> s.generation, state |-> "running",
            term |-> "none", cancel_requested |-> FALSE] IN
  IF Len(s.execs) < MAX_EXECS
  THEN pushEvent([b EXCEPT !.execs = Append(@, e), !.next_exec_id = @ + 1], e.id, "lifecycle")
  ELSE b

\* Records of finished executions keep their slots until a reset, so the taken
\* ones are a prefix of the array.
started(s) ==
  LET b == [s EXCEPT !.state = "busy",
                     !.deadline = saturatingAdd(now, s.limits.execution_timeout_ms)]
      e == [id |-> s.next_exec_id, generation |-> s.generation, state |-> "running",
            term |-> "none", cancel_requested |-> FALSE] IN
  IF Len(s.execs) < MAX_EXECS
  THEN pushEvent([b EXCEPT !.execs = Append(@, e), !.next_exec_id = @ + 1], e.id, "lifecycle")
  ELSE [b EXCEPT !.state = "ready", !.deadline = 0]

startExec(i) ==
  /\ Reachable(i)
  /\ slots[i].state = "ready"
  /\ Becomes(i, started(slots[i]))

\* The record of the generation's execution that a call names.
Current(i, k) == Reachable(i) /\ slots[i].execs[k].generation = slots[i].generation

cancelExec(i, k) ==
  /\ Current(i, k)
  /\ slots[i].execs[k].state # "done"
  /\ Becomes(i, [slots[i] EXCEPT !.execs[k].cancel_requested = TRUE,
                                 !.execs[k].state = IF @ = "running" THEN "cancelling" ELSE @])

\* The record is written before the session can refuse.
finishExec(i, k) ==
  /\ Current(i, k)
  /\ slots[i].execs[k].state # "done"
  /\ \E term \in {"exited", "output_limit"} :
       LET s == [slots[i] EXCEPT !.execs[k].state = "done", !.execs[k].term = term] IN
       Becomes(i, IF s.state # "busy" THEN s
                  ELSE pushEvent([s EXCEPT !.state = "ready", !.deadline = 0],
                                 s.execs[k].id, "exit"))

tick ==
  /\ slots' = [i \in 1..MAX_SESSIONS |-> IF slots[i].used THEN tickSlot(slots[i]) ELSE slots[i]]
  /\ UNCHANGED <<adm, next_id, destroyed, now>>

-----------------------------------------------------------------------------
(* Files: a function from the paths in use to their sizes. *)

Lifecycle(s) == pushEvent(s, 0, "lifecycle")

WithFile(s, path, size) ==
  [s EXCEPT !.files = [p \in DOMAIN @ \cup {path} |-> IF p = path THEN size ELSE @[p]]]

\* Mutant: a refused overwrite does not charge the old size again.
overwritten_lost(s, path, size) ==
  LET r == discharge(s, s.files[path]) IN
  IF fits(r, size) THEN Lifecycle(WithFile(charge(r, size), path, size)) ELSE r

\* A PUT of a path in use: the old size is released first.
overwritten(s, path, size) ==
  LET r == discharge(s, s.files[path]) IN
  IF fits(r, size) THEN Lifecycle(WithFile(charge(r, size), path, size))
                   ELSE charge(r, s.files[path])

\* A PUT of a new path, which may find no free entry or be too long for one.
added(s, path, size) ==
  LET c == charge(s, size) IN
  IF ~fits(s, size) THEN s
  ELSE IF Cardinality(DOMAIN s.files) < MAX_FILES /\ path \notin LongPaths
       THEN Lifecycle(WithFile(c, path, size))
       ELSE discharge(c, size)

putFile(i, path, size) ==
  /\ Reachable(i)
  /\ slots[i].state \notin {"destroyed", "destroying"}
  /\ Becomes(i, IF path \in DOMAIN slots[i].files THEN overwritten(slots[i], path, size)
                                                  ELSE added(slots[i], path, size))

-----------------------------------------------------------------------------
(* reset and destroy: each passes through its transient states in one call. *)

\* beginReset, the wipe, finishReset.  The sequence numbers go on.
wiped(s) ==
  [s EXCEPT !.execs = << >>, !.files = << >>, !.used_bytes = 0,
            !.event_start = 0, !.event_count = 0,
            !.generation = @ + 1, !.deadline = 0, !.state = "ready"]

reset(i) ==
  /\ Reachable(i)
  /\ slots[i].state \in {"ready", "busy", "expired"}
  /\ Becomes(i, Lifecycle(wiped(slots[i])))

Buried(s) ==
  IF Len(destroyed) < MAX_SESSIONS
  THEN Append(destroyed, [id |-> s.id, owner |-> s.owner]) ELSE destroyed

destroy(i) ==
  /\ Reachable(i)
  /\ adm' = release(adm, slots[i].limits)
  /\ destroyed' = Buried(slots[i])
  /\ slots' = [slots EXCEPT ![i] = Free]
  /\ UNCHANGED <<next_id, now>>

\* The host's clock.
Advance == now < U64MAX /\ now' = now + 1 /\ UNCHANGED <<adm, slots, next_id, destroyed>>

-----------------------------------------------------------------------------
Init ==
  /\ adm = [active |-> 0, mem |-> 0]
  /\ slots = [i \in 1..MAX_SESSIONS |-> Free]
  /\ next_id = 1 /\ destroyed = << >> /\ now = 0

Next ==
  \/ \E owner \in Owners, l \in Limits : create(owner, l)
  \/ \E i \in Used : \/ guestReady(i) \/ startExec(i) \/ reset(i) \/ destroy(i)
                     \/ \E k \in 1..Len(slots[i].execs) : cancelExec(i, k) \/ finishExec(i, k)
                     \/ \E path \in Paths, size \in Sizes : putFile(i, path, size)
  \/ tick
  \/ Advance

\* Time passes and the host ticks.  Nothing is assumed of guests and clients.
Fairness == WF_vars(Advance) /\ WF_vars(tick)

Spec == Init /\ [][Next]_vars /\ Fairness

-----------------------------------------------------------------------------
(* What the service promises. *)

\* Admission counts exactly the sessions that exist and the memory they were
\* promised, within the budget, through any sequence of creates and destroys;
\* its saturating release never hides a mismatch.
AdmissionExact ==
  /\ adm.active = Cardinality(Used)
  /\ adm.mem = SumFunction([i \in Used |-> slots[i].limits.memory_mib])
  /\ adm.mem <= mem_budget_mib

\* A workspace's used_bytes is the total of its files and within its cap,
\* after overwrites, refused puts, resets and sums that wrap.
QuotaExact ==
  \A i \in Used : LET s == slots[i] IN
    /\ s.used_bytes = SumFunction(s.files)
    /\ s.used_bytes <= s.cap_bytes

\* A session is busy, with a deadline, exactly while one of its executions is
\* unfinished, and that one is of the session's generation: whoever ends it
\* (the guest, the deadline, a cancel, a reset), the session neither stays busy
\* nor becomes ready early.
OneExec ==
  \A i \in Used : LET s == slots[i]
                      open == {k \in 1..Len(s.execs) : s.execs[k].state # "done"} IN
    /\ Cardinality(open) = IF s.state = "busy" THEN 1 ELSE 0
    /\ s.deadline # 0 <=> s.state = "busy"
    /\ \A k \in open : s.execs[k].generation = s.generation

\* A client that reads with a cursor gets the oldest events it has not seen, in
\* order and without a gap, from wherever the ring has wrapped to; sequence
\* numbers go on across resets.
CursorReads ==
  \A i \in Used : LET s == slots[i] IN
    \A after \in 0..s.next_seq, room \in 1..MAX_EVENTS :
      LET first == Max({after + 1, s.next_seq - s.event_count})
          page == events(s, after, room) IN
      /\ Len(page) = Min({room, Max({s.next_seq - first, 0})})
      /\ \A k \in 1..Len(page) : page[k].seq = first + k - 1

\* An execution ends once: an exit event is in the log at most once for each,
\* only for one that is done, and for every one that is done unless the ring has
\* dropped events.
ExitOnce ==
  \A i \in Used : LET s == slots[i] IN
    \A k \in 1..Len(s.execs) :
      LET exits == {n \in 1..s.event_count :
                      ring(s)[n].ty = "exit" /\ ring(s)[n].exec = s.execs[k].id} IN
      /\ Cardinality(exits) <= 1
      /\ exits # {} => s.execs[k].state = "done"
      /\ s.execs[k].state = "done" /\ s.event_count < MAX_EVENTS => exits # {}

\* A busy session becomes free of its execution even if the guest never answers
\* and nobody cancels, up to the end of the clock.
ExecsEnd ==
  \A id \in 1..MaxId :
    LET busy == \E i \in Used : slots[i].id = id /\ slots[i].state = "busy" IN
    busy ~> ~busy

\* DELETE can be replayed: every session that was destroyed has its tombstone.
DeleteReplays ==
  \A id \in 1..(next_id - 1) :
    \/ \E i \in Used : slots[i].id = id
    \/ \E k \in 1..Len(destroyed) : destroyed[k].id = id
=============================================================================
