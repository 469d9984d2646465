# Verification of zig-kernel

TLA+ models of the parts of zig-kernel that keep state and are hard to test, the
TLC runs that check them on small instances, and TLAPS proofs for every value of
the parameters.  Paths are relative to the repository's root, which is the
directory `src/` here (so the kernel's own sources are under `src/src/`).

`PROJECT.json` is the index: which definition models which lines (`map`), the
runs, a mutant of the code for every checked property, the hazards each property
is aimed at, the findings and the theorems.

## 1. The system

zig-kernel is three programs and an SDK around one idea, a small kernel that runs
untrusted work under a supervisor.

| Part | State it keeps | Operations | Talks to |
|---|---|---|---|
| UEFI loader (`boot/uefi/main.zig`, `ebs_retry.zig`) | map buffer, attempt, boundary, BootInfo record | load files, place objects, read map, publish, ExitBootServices, retry | firmware; hands a BootInfo to the kernel |
| Memory-map normalisation (`src/native/memmap.zig`) | none (pure) | `normalize` | loader |
| BootInfo (`src/native/boot_info.zig`) | none (pure) | `validate`, overlap and coverage tests | loader writes, kernel reads |
| Page allocator (`src/arch/x86_64/native/pmm.zig`) | free stack, cached map, four counters | `init`, `allocPage`, `freePage` | BootInfo; adapters; `main.zig` |
| Frame adapters (`user_vm_pmm.zig`) | bounded list of owned frames each | `allocPage`, `freePage` | allocator below, address spaces above |
| User ELF planner (`user_elf.zig`) | none (pure) | `plan` | address space |
| User address space (`user_vm.zig`) | state, frame journal, page tables | `construct`, `constructClaimedPlan`, `destroy`, `retryRelease`, `reset` | adapter, planner, CR3 |
| Process table (`src/proc/proc.zig`, `lib/klock.zig`) | pid and tid maps, pools, children, `pid_lock` | `fork`, `exit`, `waitpid`, `kill`, `new_thread` | syscalls, signals, scheduler |
| Scheduler, signals (`src/sched`, `src/signal`) | run queues, pending sets, handlers | enqueue, pick, tick, deliver | process table |
| VFS (`src/vfs/vfs.zig`) | dentry, inode and open-file tables, byte quota, jail | create, open, read, write, link, unlink, jail, reset | syscalls, ELF loading |
| Page cache, pipes, futexes, events, time | page pool, rings, waiters | read, write, wait, wake | syscalls |
| Network (`src/net`, `src/drivers/net`) | buffer pool, sockets, connections, rings | receive, send, state machine | drivers |
| Supervisor service (`supervisor/api.zig`, `session.zig`, `policy.zig`, `workspace.zig`) | session slots, executions, files, event rings, admission, tombstones | ten API calls and a host tick | clients, guests |
| Supervisor runtime (`supervisor/runtime.zig`, `jail.zig`, `qemu.zig`) | child handle, phase, uid pool | spawn, kill, reap | host processes |
| Store (`engine/contracts.zig`) | run and lease records in SQLite | contract transitions | supervisor |
| Client SDK (`packages/zig-sandbox-client`) | transport state, pending request, cleanup task | `open`, `request`, `close` | helper process, remote API |
| Serial transcript verifiers (`scripts/qualify-native/transcript.py`, `transcript_vm.py`) | none (pure) | `parse_serial`, `parse_vm_serial` | read the kernel's serial log |
| Boot volume verifier (`fat16.py`) | none (pure) | geometry, chains, tree walk, `verify` | reads the boot image |
| Container probe (`probe.py`) | container id, report, exception on its way | `run_boot`: create, attach, inspect, recover, remove, collect, rehash | Docker, QEMU, both verifiers |
| Qualifiers (`qualify.py`, `qualify_vm.py`) | report, verdict, exit status | checks, binding, boot, transcript, verdict, evidence | the probe |
| Schema contract gate (`scripts/sandbox-schema-validate.py`) | the process's base64 decoder, case results | preflight, harness, semantic validators, corpus | schemas, OpenAPI document, JSON Schema library |

What is hard in each, and what makes it correct:

- **Loader.**  The firmware may change the memory map between any two calls, and
  after the first failed ExitBootServices almost every firmware call is illegal.
  Correct: the kernel is entered only with a true map; only legal calls; it ends.
- **Allocator and adapters.**  A long sequence of legal calls, among them frees of
  foreign or repeated addresses and re-initialisation.  Correct: each
  conventional page below the ceiling is free or owned by exactly one owner.
- **Address space.**  Any of some twenty calls of the provider may fail, and so may
  the release of what was taken; cleanup can be retried.  Correct: no frame lost or
  freed twice, and a ready space maps the plan and nothing else.
- **Helper transport.**  Concurrent calls around `await`s, timers, a child that
  exits, falls silent or ignores a kill.  Correct: no running child is forgotten,
  replies reach only those who wait, every call returns.
- **Service.**  Guest, client, deadline and reset race to end an execution;
  ledgers are kept by pairs of charge and release that several error paths cross.
- **Process table.**  A non-reentrant spinlock and helpers that take it.
- **VFS.**  The tree is kept twice (parent links and bounded child lists), freed
  slots stay reachable, and several error paths stop half-way.  Correct: the quota
  is the memory held, the jail confines, a reset wipes the jail and only the jail.

- **Transcript verifiers.**  Some fifty lines in one order, with fields that must agree
  across lines and cycles; a boot may legally repeat one of them.  Correct: the logs
  accepted are exactly those of a machine that did what the artifact does.
- **Boot volume verifier.**  A volume's tables can share, lose or loop clusters.
  Correct: a volume is bound exactly when it is a tree that holds the artifacts.
- **Probe and qualifiers.**  A Docker client that is killed, refused or interrupted
  says nothing of what the daemon does; a guest may go on printing.  Correct: a pass is
  earned, an expected failure is the expected one, and no container is forgotten.
- **Schema gate.**  An error of the infrastructure looks like a rejection, and the
  document drifts from the schemas.  Correct: green exactly when every case came out as
  it says, in both schema forms and with the real decoder.

`hazards` in `PROJECT.json` gives 40 of these at their lines, each with the properties
aimed at it.

## 2. Modules

```
UefiLoader ── EXTENDS ─▶ MemMap ─▶ BootInfo ◀─ Pmm ◀─ UserVmPmm ──refines──▶ FrameOwnership
UserVm ── EXTENDS ─▶ UserElf       HelperTransport    Service    ProcTable    Vfs

Qualify ─▶ Probe ─▶ TranscriptVm ─▶ Transcript
             └────▶ Fat16 ───────────▲
MCValidators ─▶ MCUserElf ─▶ ElfPlan ─▶ UserElf
        └─────▶ SchemaLane

Proofs:  UefiLoaderProofs ─▶ UefiLoader     UserVmPmmProofs ─▶ UserVmPmm (and Pmm)
         UserVmProofs ─▶ UserVm, ElfPlan    BoundaryProofs ─▶ HelperTransport, SchemaLane
         ServiceProofs ─▶ Service           VfsProofs ─▶ Vfs
         QualifyProofs ─▶ Qualify, Fat16Proofs ─▶ Fat16
```

Composition: `UefiLoader` produces a BootInfo through `MemMap` and accepts it with
the `BootInfo!validate` that `Pmm!InitBegin` also uses.  `UserVmPmm` composes the
allocator with any number of adapters and a direct client.  `UserVm` composes the
planner with the constructor.  `UserVm` sees its frame provider as an external
that may misbehave; `UserVmPmm` shows (`DefencesNeverFire`) that the repository's
provider never gives the answers for which `UserVm` would lose a frame.  `Qualify`
composes both qualifiers with the probe, which calls both verifiers.  `MCValidators`
puts two independent parts side by side in one run: the ELF planner and the schema gate,
each of which examines one outside input.

**BootInfo** – `validate`, `rangesOverlap`, `covered`.  Magic, version, sizes and
checksum are one Boolean, `header`.  Address sums that would wrap are refused, as
in the code.

**Pmm** – `init` is one step per range and per page, its locals being the record
`loop`; `allocPage` and `freePage` are one step.  `held`, a history variable, is the
set of pages out with callers.  Calls that fail without a change are stutters.

**UserVmPmm / FrameOwnership** – the adapters' storage is a sequence, `swapRemove`
the code's removal.  Every return of `Adapter.allocPage` has an action, the
defensive ones included.  `FrameOwnership` is the abstract promise: a frame is
taken only from the pool and returned only by the owner that took it.

**UserElf** – `plan` over program headers, and the page copy of `user_vm.zig` that
consumes its segments; a byte of a file is its offset, so that "the right byte
arrives" can be stated.  The choice among error codes is not modelled.  `segments` goes
through the headers as a recursive function, so that it can be proved about; `ElfPlan` is
the machine of one image and what the planner made of it.

**UserVm** – one step per frame taken, table access and iteration of the release
loops, because each can fail.  `mem` holds the tables as words, so the hardware
walk (`Leaf`) can be compared with the plan.  `Activate` and `Restore` change CR3.

**HelperTransport** – one step per run-to-completion piece of JavaScript.
Continuations run before outside events (`Quiet`).  The helper process, its pipes
and the clock are external.  A frame is the reply it carries.

**ProcTable** – each syscall waits for `pid_lock`, works, and waits again where the
code calls a helper that takes the lock.

**Service** – one action per API call plus the host tick and the clock.  A call
refused before it changes anything is a stutter.  The 64-bit sum of the quota wraps
at `U64MAX`; the deadline saturates.  Owner names and paths longer than their
fields are model inputs (`LongOwners`, `LongPaths`).  `guestReady` is the guest's
message.

**Vfs** – the three tables with their freed slots, which keep their contents because
the code can still reach them; a path is its components, a file's content its length.
`held` (bytes taken from the page allocator) and `bends` are history variables.  A
call *bends* the tree when it unlinks, links, fails after it has put a dentry on its
parent's list, or finds that list full: from then on lists and parents disagree.
`CalmTree`, `JailConfines` and `ResetWipes` are about trees not bent yet,
`FsBytesExact` about all.  A walk along a cycle, which a bent tree can have, never
returns and takes no step.  `Init` is `init` once it has the root; the seed files it
then creates are calls like any other.

**MemMap** – `normalize`: descriptors carved by owned spans (`carve` takes one span from
one piece, `split` all spans from it, `pieces` does so for the map), merged, with
capacity, alignment and overflow failures.

**UefiLoader** – one step per firmware call.  `types` is the firmware's view of each
page and `Change` may alter it at any time; `stale` stands for the map key.

**Transcript / TranscriptVm** – a log is a sequence of lines, a line the record its
regular expression yields; the checks, their order and the constants of the scripts are
kept, an error message is its kind.  `compared` is the baseline of the second cycle.

**Fat16** – a volume is its boot sector, two tables, a root directory and what each
cluster holds, as entries and as a token for its bytes.  Entries lie in slots, a cluster and a
place in it, and a directory without an end mark ends with its last cluster.  The walk of the
class `FAT16`, recursive in Python, goes slot by slot with a stack of open directories, for at
most as many turns as there are slots and directories (`Turns`).
`Sound`, `LayoutSafe` and `HasFile` define a good volume without walking it; `BindingExact`
compares the two.  The script refuses a chain through the clusters from 65520 on, which the
largest volume it admits may have, as bad or reserved numbers; the definition follows it
(`Usable`).

**Probe** – `run_boot`, a step per Docker call.  What a call did to the container and
what its client heard are chosen apart; a create whose client was killed may be carried
out later (`LateCreate`) and a guest goes on printing (`GuestPrints`).  Docker, QEMU and
the guest are external.  `calm` is a history variable: nothing outside has failed yet.

**Qualify** – both scripts: `args.mode` is `base` for `qualify.py` and the artifact for
`qualify_vm.py`.  `Genuine` says what a true log is on the log as a whole (its essence is
line for line what the artifact prints, with possible registers), without the parsers'
cursors; `PassIsEarned` and `TrueRunAccepted` compare the parsers with it both ways.

**SchemaLane** – the gate step by step.  Strings are sequences of code points, values
are records, and a stage ends `ok`, `bad` or `infra`.  `WellFormed` is the reference for
the semantic validators, `Meets` for the judgement of a case.

## 3. Runs

| Run | Checks | Bounds, and why they are enough |
|---|---|---|
| `boot` | `HandoffIsCurrent`, `OnlyLegalCalls`, `BootEnds` | 8 pages, two placements of the objects, 3 attempts, one growth, tables of 7: maps fragment far enough for every table to overflow, and objects touch, split and end a run |
| `pmm` | `PmmTypeOK`, `NoAlias`, `OwnedNeverHandedOut`, `NothingLost`, `Accounting`, `NeverTooManyPages` | pages of 2 bytes, ceiling of 4 pages, maps with reserved, misaligned, clipped, overlapping and empty ranges, two inits; the proofs remove the bounds |
| `adapters` | `ExclusiveOwners`, `DefencesNeverFire`, `RefinesOwnership` | two adapters of two entries and a direct client over four pages: storage fills, the pool empties |
| `validators` | `PlanFitsTables`, `PagesHoldFile`, `SemanticsExact`, `LaneHonest` | images: two headers over small values of each field, tables of 4 entries, so that segments meet in a page, straddle tables, have bss tails and gaps.  Lanes: corpora of at most two cases, every string over the few code points the rules tell apart up to past each limit (limits of 2 to 5 instead of 64 to 4096, a largest number of 255), every expectation a case can state, each thing a document can have wrong, and faults of the library |
| `qualify` | `PassIsEarned`, `BindingExact`, `NegativeIsReal`, `NoContainerForgotten`, `TrueRunAccepted` | the true log of every mode, and every log one deviation away (cut, a line dropped, repeated, exchanged, added, or with other fields); some 3,000 volumes: any two table entries relinked, an entry edited beside one, each boot-sector field off, sizes at both limits; every Docker fault with the true logs, for both kinds of image.  Limits 10 and 300 clusters, depth 2, 8 paths |
| `user_vm` | `Conserved`, `ReadyMapsPlan`, `FailureNamed`, `ActiveRootKept`, `CallsReturn` | one provider fault and two troubles in all: a failed construction whose unwinding is refused, then a retry that is refused or not; two journal lengths |
| `helper` | `NoForgottenHelper`, `RepliesReachWaiters`, `CloseIsHonest`, `CallsReturn` | three callers, four calls, one abort: a request in flight with two concurrent closes, and a reopen |
| `service` | `AdmissionExact`, `QuotaExact`, `OneExec`, `CursorReads`, `ExitOnce`, `ExecsEnd` | two slots, two execution records, a ring of 3, clock and 64-bit maximum of 3, five events: every table fills, the ring wraps, sums wrap, a deadline saturates |
| `vfs` | `FsBytesExact`, `CalmTree`, `JailConfines`, `ResetWipes` | five dentries, four inodes, one open file, lists of two, a quota of two bytes, one call that bends the tree: every table, list and the quota fill, trees are three deep, slots are reused, a freed dentry is linked and created anew |
| `proc_lock` | `NoSelfWait` (violated) | one context suffices |
| `service_delete` | `DeleteReplays` (violated) | one slot and two sessions |
| `vfs_reset` | `ResetEmptiesJail` (violated) | lists of one entry, two files in the jail |

Deadlock is checked in `user_vm`, `adapters` and `qualify`, where a script that has ended
steps in place (`Gone`) and any other stop is an error.  The others stop when a bound on
calls, sessions or events is used up, when the boot has ended, when the file
system's tables are full of what nothing removes, or, for `validators`, when the input
has been examined.

A check of the parsers concerns one line or relates two, and a single deviation makes
it fail; logs with two deviations that could hide each other are not explored.  Faults
are not combined with deviating logs: the two meet only in the set of errors, which
only grows (this is part of the proof below).

Every property of a passing run has a mutant: an operator beside the original, with
the comment `Mutant:`, that changes it as a plausible slip would.  With it in place
TLC finds the property violated under the same configuration.

### Fairness

- `UefiLoader`: weak fairness of the loader's own steps; it is the only thread and
  every firmware call returns.  None for the firmware: `BootEnds` holds although it
  may change the map for ever.
- `UserVm`: weak fairness of a running call, which nothing pre-empts.  None for new
  calls.
- `HelperTransport`: weak fairness of continuations and of timers, which the
  JavaScript runtime guarantees.  None for the helper (it may never answer and
  ignore every signal) nor for the application.
- `Qualify` and `SchemaLane` state no liveness: a sequential script in which every
  outside call has a timeout.  That it cannot stop half-way is deadlock freedom.
- `Service`: weak fairness of the clock and of the host tick.  None for guests or
  clients: `ExecsEnd` is about a guest that never answers.

### Findings

- `proc_lock`: `exit`, `kill`, `new_thread` and a reaping `waitpid` take `pid_lock`
  again through a helper while they hold it.  The comment in `fork` says that this
  would self-deadlock; `fork` was changed, the other four were not.
- `service_delete`: tombstones are filled once and never recycled, so DELETE is
  replayable only for the first eight sessions of the service's life, while comments
  and a test call it idempotent.

- `vfs_reset`: a file that does not fit its directory's child list (32 entries) is
  found by name but not by the reset, which "destroys all children under jail".

## 4. Proofs

Each theorem holds for every value of the constants that meets the assumptions below.
The pattern is the same throughout: an inductive invariant `IInv`, a lemma per action,
and the property from `IInv`.  Lemmas about the operators of a component come first in its module, those
about its actions after them.

| Module | Theorem | States |
|---|---|---|
| `UserVmPmmProofs` | `PmmInvariant`, `PmmTypes` | the inductive invariant of the allocator, and `PmmTypeOK` |
| | `PageNeverAliased`, `NoPageLost` | `NoAlias`, `NothingLost` |
| | `CountersAgree`, `BackingSuffices` | `Accounting`, `NeverTooManyPages` |
| | `ReservedNeverHandedOut` | `OwnedNeverHandedOut` |
| | `FailsClosed` | `FailClosed`: a failed init publishes nothing |
| | `AdapterInvariant`, `FramesHaveOneOwner` | the adapters' invariant, and `ExclusiveOwners` |
| | `AdapterDefencesIdle` | `DefencesNeverFire` |
| | `AdaptersImplementOwnership` | `RefinesOwnership`: allocator and adapters implement `FrameOwnership` |
| `UefiLoaderProofs` | `LoaderInvariant`, `FirmwareCallsAreLegal` | the loader's invariant, and `OnlyLegalCalls` |
| | `HandoffTellsTheTruth` | `HandoffIsCurrent` |
| `UserVmProofs` | `VmInvariant`, `FramesConserved` | the invariant of construction and teardown, and `Conserved` |
| | `FailuresNamed`, `ActiveRootIsKept` | `FailureNamed`, `ActiveRootKept` |
| | `TablesInvariant`, `ReadySpaceMapsPlan` | the invariant of the table levels, and `ReadyMapsPlan` |
| | `PlansFitTables`, `CopiesAreExact` | of the planner: `PlanFitsTables`, `PagesHoldFile` |
| `BoundaryProofs` | `HelperInvariant`, `HelpersAreKept` | the transport's invariant, and `NoForgottenHelper` |
| | `RepliesAreAwaited`, `ClosesAreHonest` | `RepliesReachWaiters`, `CloseIsHonest` |
| `ServiceProofs` | `ServiceInvariant`, `AdmissionIsExact`, `QuotaIsExact` | the service's invariant, `AdmissionExact`, `QuotaExact` |
| | `OneExecutionOpen`, `CursorReadsAll`, `ExecutionsEndOnce` | `OneExec`, `CursorReads`, `ExitOnce` |
| `VfsProofs` | `FsInvariant`, `FsQuotaIsExact` | the tables' invariant, and `FsBytesExact` |
| | `CalmInvariant`, `CalmTreeHolds` | the tree's invariant, and `CalmTree` |
| | `JailConfinesPaths`, `ResetWipesJail` | `JailConfines`, `ResetWipes` |
| `BoundaryProofs` | `LaneInvariant`, `GateIsHonest` | the gate's invariant, and `LaneHonest` |
| | `SemanticsAreExact` | `SemanticsExact` |
| `QualifyProofs` | `QualifyInvariant`, `ContainerAccounted` | the script's invariant, and `NoContainerForgotten` |
| | `BootstrapGenuine`, `PositiveGenuine`, `NegativeGenuine` | a log of any length in which the parsers find nothing is `Genuine` for its mode |
| | `ReportHonest` | the second invariant of the script, `Honest` |
| | `PassEarned`, `NegativeReal` | `PassIsEarned`, `NegativeIsReal` |
| | `BindingIsExact` | `BindingExact` |
| `Fat16Proofs` | `VolumeIs` | the walk accepts exactly the sound volumes, and finds exactly their files |

### Assumptions

Each is named, stands in the module that declares the constants, and is evaluated by
TLC in the runs.

- `BootInfo`, `Pmm`, `UserVmPmm`: the page size is positive, the ceiling a whole number
  of pages below the address limit, boot maps have the type `BootInfo` declares, and the
  direct client is not an adapter.
- `MemMap`, `UefiLoader`: limits are naturals, those on attempts, headroom and pieces
  positive; the machine ends below the address limit; and the initramfs, the stack and the BootInfo
  lie on three pages, each the result of an `AllocatePages`.  That none of them is the
  kernel's is a guard of `Load`, since the firmware gives only free pages.
- `UserElf`, `ElfPlan`: the window for images is page-aligned and below the address
  limit; `MAX_IMAGE_PAGES <= (MAX_IMAGE_PTS - 1) * PTES + 1`, in the code 8192 <=
  16 * 512 + 1: one table more than the pages fill, for an image that begins inside one.
- `UserVm`: there is a second frame, and the kernel's root is a frame; the provider may
  offer anything.  The windows of the image and of the stack lie in the second GiB (`PAGE * N *
  N` to twice that; in the code 0x40000000 to 0x80000000), which is what lets `construct`
  build one directory, and the stack begins on a page.
- `HelperTransport`: `None` is not a caller.
- `Service`: `max_sessions <= MAX_SESSIONS` (both are 8; with a larger policy `create`
  would be admitted, find no slot and release twice), the floor of the execution timeout
  is positive (1000 ms), sizes of requests are 64-bit.
- `Vfs`: each table has a slot, and the jail's path and those of new directories are
  among the paths, which are sequences of names and not empty.
- `SchemaLane`: `MAX_DIGITS` is the number of digits of `U64_MAX` (20 of 2^64 - 1), and
  the corpora hold JSON values: strings are sequences of code points, lists and objects are
  what they should be as deep as the validators look.
- `Probe`: a boot's mode, image and fault flag are among those known, and its log is a
  sequence of lines, each of a kind the parsers' patterns name, with fields of that kind's shape.
  Its boot volume is any image file (`IsVolume`: every number in the boot sector and the
  tables, any entries in any cluster) and the path of its kernel any path (`IsPath`).
- `Fat16`: the limits are naturals, and those on the number of clusters (4085 and 65525 in the
  code) positive, in order and at most 65525.

### The arguments

**Allocator.**  None of the properties is inductive alone.  `NoAlias` needs that `init`
pushes no page twice, which needs that the map it walks has no overlap *and* that the
ranges before the current one are aligned; `Accounting` needs both.  `PmmIInv` adds

- `LoopInv`: while `init` runs, `backing` has no duplicate and holds exactly the pages of
  the ranges before `loop.i` and the first `loop.page` pages of it, as many as the
  counters say, and the ranges before are aligned and disjoint;
- `PublishedInv`: what is published is a map without overlap and with aligned usable
  ranges, or nothing at all.

The arithmetic is in lemmas of its own (multiples of a page, clipping at the ceiling), as
are the walk (`NextPageIsNew`, `WalkedIsAllocatable`) and the stack (`PushStack`,
`PopStack`).  `BackingSuffices` rests on `PagesFit`: a duplicate-free sequence of aligned
addresses below the ceiling has at most `MANAGED_TOP \div PAGE` entries.

**Adapters.**  `AdapterIInv` is `PmmIInv` with the journals' types, `ExclusiveOwners` and
`DefencesNeverFire`.  A frame that the allocator pops is free, so by `NoAlias` it is in no
journal; what an adapter frees is in its journal, so the allocator accepts it.  The
refinement goes action by action: an allocation is `Take`, a free `GiveBack`, and everything
else, the moves of `swapRemove` included, leaves every page's owner alone.

**Loader.**  `LoaderInv` says where the loader can be once it has called
`ExitBootServices` (`Boundary`), that retries and growths stay within limits, that a
snapshot not `stale` is the firmware's map (`Snapshot`), and that the record was built
from the snapshot in the buffer (`Built`).  So at the jump the record is
`publishBootInfo(FirmwareMap)`.  That such a record tells the truth is about data:
`CarveDoes`, `SplitDoes`, `PiecesDo` and `NormalizeDoes` carry a point of memory from its
descriptor to a range of the same kind, or of the kind of the span that owns it;
`FirmwareMapDoes` gives each page a descriptor, and `LoadSpans` at most one span; the
overlap test of `validate` makes the range unique.

**Address space.**  `VmInv` has a part for each phase of a call.  While a space is built
the journal and `owns_zero` list exactly what is out (`Plain`); during the release loop
those past `i` are marked or named by the first failure (`Releasing`); during compaction
the entries still to be read and those written back are what is out (`Compacting`); at
rest the state says whether anything is (`Resting`).  `RootInv` ties CR3 to the state.

`ReadyMapsPlan` says what a ready space looks like to the hardware; nothing in it speaks of a
space under construction, so `TablesInv` says of every phase what the memory holds.  Until
the directory is linked, `Rooted`: which of the three upper tables exist, each still
zero or with the words written so far.  From then on `Tree`:

- `Heads`: root and second level hold the two links and the borrowed kernel entry only;
- `Directory`, `Leaves`: the directory links tables and these link frames, every one held
  by the space and in exactly one role at one place, or a write to one page would
  change another or a table;
- `Content`: the slots filled are those of the pages before the cursor, each with the
  rights and bytes of its segment or the stack's;
- `Counted`: there are as many filled slots as image and stack pages were counted, and
  `Sums`: with the tables these are all the frames held.

`InHand` adds the table or page taken and not linked yet: it is in no role, its content
is what it will be linked with.  That a frame just taken is in no role comes from
`VmInv`: the journal has no duplicate, and a frame it lists already is refused.  A slot
that is filled ends the construction (`CheckSlot`), so no page is mapped over another;
that a directory and a table index tell pages of the window apart is `WindowDoes`.

**Helper transport.**  `HoldsProcess`: the process alive is the one owned, and once a
cleanup has started it has been signalled.  `HoldsCleanup`: of the cleanups begun, only
the current one may still discharge it.  `Waits`: the pending request's caller is at its
`await`.  Together they carry every interleaving of a close, a failure and a reopen.

**Service.**  Per slot: the ring holds the last events without a gap, an execution has
at most one exit event and none while it runs, only the running execution is open, and the
charge is the sum of the files.  Across slots `BudgetInv`: the admission's two numbers are
the count and the sum of the sessions in use (`SumWrite`, `SumRemove`).

**File system.**  `FsBytesExact` alone is not inductive: a reset releases what inodes
still name, and `fsRelease` stops at zero, so a release of more than is charged would go
unnoticed.  `QuotaInv` adds that the arrays inodes name are among the bytes charged.  (They
need not be equal: an unlinked file's bytes stay charged for good.)  `CalmInv` says of a
calm tree that parents are live, lists hold the live children once, each live dentry has
an inode of its own, the jail is live, and that there is a *rank*, a number per dentry
greater than its parent's.  The rank rules out cycles and changes with every `create`; from it `WalkUpEnds`
shows that the walk up ends within `MAX_DENTRIES` steps, and `GoneIs` that a reset's
recursion, whatever its order, frees exactly what is live below the jail.

**Planner and gate.**  `SegmentsDo` relates the segments accepted to the headers they came
from; from the span check of `plan`, `TablesOf` bounds the tables.  `LaneInv`: the
cases judged are the first ones of the corpus, none by a stage that failed, all with the
real decoder, and `failed` is zero exactly when each met its expectation.

`SemanticsExact` compares loops over strings of any length with definitions that have no
loop.  What it needs of the invariant is `LaneExact`, that each verdict so far is the
reference's; what makes a verdict right is in lemmas about one validator each.  A decimal: the
values the loop passes through are the prefixes of the number written (`DivTen` takes one
digit off, `ReadsBack` and `WritesAndReads` go there and back), and a string with a digit
too many or too large overflows at some round.  A guest path: its segments end where
`SegmentEnd` says, so a segment that is empty, `.` or `..` is met by the loop exactly when one
exists.  Standard base64: padding is a suffix (`LastOnes`) of a length the group of four
allows.  Lists and objects go through `EachOf`, which is `ok` exactly when every element is.

**Qualifiers.**  `NoContainerForgotten` speaks of the ended script; `QualifyIInv` says at
every step where a container at large is accounted for:

- `Accounted`: before `docker create` there is none; once the finally clause has dealt
  with it, one at large has left an error in the report;
- `HoldsOwn`: the id the script holds is its own, and it holds one when it removes.
  This rests on the label test of `owns`;
- `Announced`: an exit status of success only with a report without errors.

From then on errors only grow, whatever the parsers return (`ApplyGrows`): forgetting a
container does not depend on what the guest printed.

What a pass and an expected failure mean does.  `Honest` is the invariant that carries it:

- `Running`, `Unrecorded`, `Recorded`: the report says of image, firmware, exit status,
  container and volume what is so, and nothing before the step that finds it out;
- `Parsed`: the log that was read is the log as it stands, for the container is gone, and
  all its errors are in the report;
- `OnTrack`: as long as nothing has gone wrong, every step behind left what a success needs;
- `Judged`, `Settled`: the verdict on a VM artifact, the status and the exit status follow
  from the report.

That a report without errors has a true log behind it is about the parsers.  For any sequence
of lines, a scan without errors is read backwards: the cursor counts the stages, so each
marker stands where the one before it has been passed (`Staged`), and the lines that
count are, in order, those of the artifact (`Bootstraps`, `Spells`), which makes the essence of
the log `TrueLog`.  The register checks, field by field, give `TrueCycle` for each cycle, and
the baseline of the second cycle `TrueRegisters`.  A negative log is judged by both
parsers: the VM parser leaves open where a marker stands, and the bootstrap's `stage_order`,
which is not among the errors allowed, closes it.

**Boot volume.**  `BindingIsExact` rests on `VerifyIs`: the script's `verify` answers pass
exactly for a `Bindable` volume, for every image and every path, and that on `VolumeIs` of
`Fat16Proofs`.  From below:

- *Chains.*  `FAT16.chain` accepts exactly the chain that the tables spell from a cluster, when
  none of it is claimed (`ChainAccepts`); such a chain never returns to a cluster, so the list
  of `cluster_count` places in `ChainFrom` is long enough.
- *Directories.*  `DirsAt` is taken level by level; every directory is known by its path once
  names are unique (`OneDir`), and below the depth limit there are finitely many.
- *The walk.*  `Good` says of the state of the walk, with `G` the number of slots passed in
  each directory come to: the stack holds those directories that are not read to their end,
  each at its next slot and with the names met so far; what is claimed, the paths and the
  files are those of the named entries passed; what is passed has no fault, and shares no
  cluster.  One lemma for each kind of slot (`TurnLeaves`, `TurnDeleted`, `TurnDot`,
  `TurnEnters`) shows that a turn keeps `Good`, and that a turn that refuses does so on a
  volume that is not `Orderly`.
- *The end.*  Every turn spends a token, the slot it passes or the directory it leaves; no two
  are the same as directories share no cluster, and all are among `Turns` (`SpentGrows`).  So
  after `Turns` the stack is empty, every directory was read whole (`WholeTree`), and the walk's
  claims are the clusters of the tree.

`Bound` then says at each step of the script that `report.binding` is what `verify` answers.

Where a definition goes by recursion (`lookupPath`, `segments`, `split`, sums) the proofs
reason about one value at a time: the function is unfolded by its defining equation, and a
statement about all steps is a set of step numbers that has no least missing element
(`LeastNat`, `UpTo`), which needs no induction schema.

### Only model-checked

- Liveness and fairness (`BootEnds`, `CallsReturn` twice, `ExecsEnd`), which the prover
  does not reach.
- `TrueRunAccepted`: that no true log is turned away.  The converse, that a log that is
  accepted is true, is proved; this direction has a witness to follow through every check
  of the parsers and has not been attempted.
- The three violated properties.

## 5. Not modelled

- Data without control: serial and log text, error wording, JSON, struct layout,
  checksums, ELF constants, register-level descriptor tables.
- In `ProcTable`: credentials, descriptors, sessions.  In `Service`: the idempotency
  table (which has no caller but its test) and the resolution of paths.  In `Vfs`: the
  mount table, which no lookup reads, device and pipe files, modes and stat.
- In `Transcript`: a marker's text is set off by a space; a tab, which the guest never
  prints, is not modelled.  In `TranscriptVm`: address and entry bits above bit 27 (physical
  memory ends there).
  In `Probe`: an interrupt while the image is resolved or inside the finally clause.  In
  `SchemaLane`: the JSON Schema and YAML libraries, `$repeat` below the top of a case.
  `run-tests.py` only starts unittest.
- ext4, the block queue and the i386 code: parsers and port I/O.  SQLite: vendored.
- The parts with status `not_modelled` in `PROJECT.json` whose note says planned.

Behaviour of the scripts that the properties allow, for a reader who expects otherwise:

- a pass accepts whatever image id was passed with `--qemu-image-id`; only the expected
  failure requires the pinned one;
- a boot volume that has vanished after the run does not prevent a pass, a changed or an
  unreadable one does;
- an interrupted run writes no evidence, although its finally clause runs;
- an empty corpus is green; a case with `expect_schema: accept` and a semantic stage
  declared not applicable leaves that stage unread;
- of the OpenAPI operations, only `POST /v1/sandboxes` is examined for an anonymous
  override.

## 6. Plan

Done: loader, normalisation, BootInfo, allocator, adapters with their refinement,
planner, address space, helper transport, process-table lock, service, file system, all
the Python tooling (transcripts, volume, probe, qualifiers, schema gate); proofs for every
one of them but the process table, whose run shows a violation.

Next, most important behaviour first; components share a run where their states are
independent and small.

1. **Hosted kernel.**  `Sched` (run queues, pick, tick), `Signal` (pending, mask,
   delivery, the handler that changes underway) composed with `ProcTable` on a
   repaired lock discipline, for: no runnable thread lost, no signal lost or
   delivered to a reused pid, exits reaped once.  Known places to aim at: `waitpid`
   without a matching child releases `pid_lock` and its deferred release clears it again
   (`proc.zig:470`), the seventeenth child is not recorded (`proc.zig:365`), and a
   handler's mask is merged with KILL and STOP in it (`signal.zig:223`).
2. **Supervisor runtime.**  Spawn, kill and reap by pidfd with exits at any point,
   and the uid pool of the jail; the phase `reaped` against its comment.
3. **Service, completed.**  Idempotency keys and path resolution with link targets,
   and an abstract session that `Service` refines.
4. **Kernel ELF planner** (`boot/uefi/elf64.zig`), against `UserElf`'s reference
   definitions, and the initramfs parsers.
5. **Waiting and wake-ups**: pipes, futexes, events, timers; **page cache** and the
   kernel heap; **network**: buffer pool, receive queue, the TCP state machine.
6. **Store contracts** (leases and fencing), and the remote client's retries.
7. **Proofs**: that no true log is turned away; the abstract
   session of item 3.
