----------------------------- MODULE UefiLoader -----------------------------
(***************************************************************************)
(* The UEFI loader from its allocations to the jump into the kernel        *)
(* (boot/uefi/main.zig, with the decisions of ebs_retry.zig): it takes     *)
(* the firmware's memory map, publishes a BootInfo built from it, and      *)
(* calls ExitBootServices, which refuses a map that has changed since.     *)
(*                                                                         *)
(* The firmware is external: types is the type of every page of the        *)
(* machine, which it may change at any time until it has exited, and stale *)
(* says whether it has since the loader last read the map (in the program, *)
(* whether the map key still matches).  Each firmware call is one step of  *)
(* the loader, so that the map can change between any two.  A map lists    *)
(* maximal runs of pages of one type.                                      *)
(***************************************************************************)
EXTENDS MemMap

CONSTANTS
  Pages,               \* the machine's memory has pages 0..Pages-1
  MAP_TOP,             \* the loader's objects end below this address
  KERNEL_BASE,
  KernelPages,         \* pages of the kernel image
  initrd_len,          \* bytes of the initramfs file
  Placements,          \* pages the firmware may give for initramfs, stack and BootInfo
  StartTypes,          \* maps the firmware may start with
  Churn,               \* types that pages the loader does not hold move between
  EBS_RETRIES, MAP_GROWTHS, MAP_HEADROOM_DESCS, MAX_FIRMWARE_DESCS,
  MAX_RANGES, RangeStorage   \* ranges validate allows, and the pages have room for

ASSUME LoaderAssumption ==
  /\ {Pages, EBS_RETRIES, MAP_HEADROOM_DESCS} \subseteq Nat \ {0}
  /\ {MAP_GROWTHS, MAX_FIRMWARE_DESCS, MAX_RANGES, RangeStorage} \subseteq Nat
  /\ Pages * PAGE < ADDR_LIMIT /\ MAP_TOP <= Pages * PAGE
  /\ {KERNEL_BASE, KernelPages, initrd_len} \subseteq Nat
  /\ \A place \in Placements :
       /\ {place[1], place[2], place[3]} \subseteq 0..(Pages - 1)
       /\ place[1] # place[2] /\ place[1] # place[3] /\ place[2] # place[3]

VARIABLES
  types,    \* firmware: page -> memory type
  stale,    \* firmware: the loader's map key is out of date
  tried,    \* firmware: ExitBootServices has been called
  call,     \* the firmware call of the last step, "none" if it made none
  pc,
  count,    \* mm_info.len: descriptors when the loader asked
  extra, growth,
  room,     \* descriptors that fit in the map buffer
  map,      \* the snapshot in it
  attempt, boundary,
  owned,    \* the handoff spans: kernel, initramfs, stack, BootInfo
  info      \* the published BootInfo

fwVars == <<types, stale, tried>>
vars == <<fwVars, call, pc, count, extra, growth, room, map, attempt, boundary, owned, info>>

-----------------------------------------------------------------------------
(* The map. *)

mapKind(t) ==
  CASE t \in {"conventional", "boot_services_code", "boot_services_data"} -> "conventional"
    [] t \in {"loader_code", "loader_data"}  -> "loader"
    [] t = "acpi_reclaim"                    -> "acpi_reclaim"
    [] t = "acpi_nvs"                        -> "nvs"
    [] t \in {"mmio", "mmio_port", "pal_code"} -> "mmio"
    [] OTHER                                 -> "reserved"

\* The firmware's descriptors: one for each maximal run, in address order.
Starts == {p \in 0..(Pages - 1) : p = 0 \/ types[p] # types[p - 1]}

FirmwareMap ==
  With(Starts, LAMBDA starts :
    [j \in 1..Cardinality(starts) |->
       LET p == CHOOSE q \in starts : Cardinality({r \in starts : r <= q}) = j
       IN [start |-> p * PAGE, type |-> types[p],
           pages |-> Min({q \in starts : q > p} \cup {Pages}) - p]])

\* readFinalMap: too many descriptors, or one that wraps, are refused.
mapRefused(m) ==
  \/ Len(m) > MAX_FIRMWARE_DESCS
  \/ \E j \in 1..Len(m) : m[j].start + m[j].pages * PAGE >= ADDR_LIMIT

readFinalMap(m) ==
  [j \in 1..Len(m) |-> [start |-> m[j].start, pages |-> m[j].pages, kind |-> mapKind(m[j].type)]]

\* publishBootInfo.  Its header is right by construction but for the range count.
publishBootInfo(m) ==
  With(normalize(readFinalMap(m), owned, RangeStorage), LAMBDA n :
    LET region(o) == [base |-> o.base, size |-> o.size] IN
    With([header |-> Len(n.ranges) <= MAX_RANGES, ranges |-> n.ranges,
          entry |-> KERNEL_BASE, kernel |-> region(owned[1]),
          initramfs |-> [base |-> owned[2].base, size |-> initrd_len],
          stack |-> region(owned[3]), self |-> region(owned[4])], LAMBDA rec :
      [ok |-> ~mapRefused(m) /\ n.ok /\ n.ranges # << >> /\ validate(rec), info |-> rec]))

-----------------------------------------------------------------------------
(* ebs_retry.zig: what to do about a refusal. *)

onGetMemoryMapError(bound, err, can_grow) ==
  IF bound = "post_ebs" THEN "fail_halt"
  ELSE IF err = "BufferTooSmall" /\ can_grow THEN "grow" ELSE "fail_return"

onExitBootServicesError(err, retries_left) ==
  IF err = "InvalidParameter" /\ retries_left THEN "retry_retained" ELSE "fail_halt"

-----------------------------------------------------------------------------
(* The firmware, by itself and as a callee. *)

Ended == {"handoff", "halted", "returned"}

\* The firmware may retype any page the loader's allocations do not hold, as long
\* as the loader looks.
Change ==
  /\ pc \notin Ended
  /\ \E p \in 0..(Pages - 1), t \in Churn :
       types[p] \in Churn /\ types[p] # t /\ types' = [types EXCEPT ![p] = t]
  /\ stale' = TRUE
  /\ call' = "none"
  /\ UNCHANGED <<tried, pc, count, extra, growth, room, map, attempt, boundary, owned, info>>

\* A pool allocation takes a page or fits in one the firmware has; a free may
\* give one back.  Either moves the map key.
PoolTypes(from, to) ==
  {types} \cup {[types EXCEPT ![p] = to] :
                  p \in {q \in 0..(Pages - 1) : types[q] = from /\ \A k \in 1..Len(owned) :
                           owned[k].base # q * PAGE}}

Calls(name) == call' = name /\ UNCHANGED tried
NoChange == UNCHANGED <<types, stale>>

-----------------------------------------------------------------------------
(* main *)

\* fatal and haltFatal.
Stop(where) ==
  /\ pc' = where /\ call' = IF where = "returned" THEN "return_to_firmware" ELSE "halt"
  /\ UNCHANGED <<fwVars, count, extra, growth, room, map, attempt, boundary, owned, info>>

\* Everything up to the map: both files are read and checked, and the four
\* objects placed, the kernel at its base and the others anywhere below MAP_TOP.
Load ==
  /\ pc = "load"
  /\ \E place \in Placements :
       LET i == place[1]
           s == place[2]
           b == place[3]
           k == KERNEL_BASE \div PAGE
           kernel == k..(k + KernelPages - 1)
           span(p, n, kind) == [base |-> p * PAGE, size |-> n * PAGE, kind |-> kind] IN
       /\ \A p \in {i, s, b} : (p + 1) * PAGE <= MAP_TOP
       /\ {i, s, b} \cap kernel = {}
       /\ \A p \in kernel \cup {i, s, b} : types[p] = "conventional"
       /\ types' = [p \in 0..(Pages - 1) |->
                      IF p \in kernel THEN "loader_code"
                      ELSE IF p \in {i, s, b} THEN "loader_data" ELSE types[p]]
       /\ owned' = <<span(k, KernelPages, "kernel"), span(i, 1, "initramfs"),
                     span(s, 1, "kernel_stack"), span(b, 1, "boot_info")>>
  /\ stale' = TRUE /\ pc' = "info"
  /\ Calls("allocate_pages")
  /\ UNCHANGED <<count, extra, growth, room, map, attempt, boundary, info>>

\* A file, a protocol or an allocation is missing.
LoadFails == pc \in {"load", "info", "alloc"} /\ Stop("returned")

MapInfo ==
  /\ pc = "info"
  /\ count' = Cardinality(Starts) /\ pc' = "alloc"
  /\ Calls("get_memory_map_info") /\ NoChange
  /\ UNCHANGED <<extra, growth, room, map, attempt, boundary, owned, info>>

AllocMap ==
  /\ pc = "alloc"
  /\ types' \in PoolTypes("conventional", "loader_data") /\ stale' = TRUE
  /\ room' = count + extra /\ pc' = "get"
  /\ Calls("allocate_pool")
  /\ UNCHANGED <<count, extra, growth, map, attempt, boundary, owned, info>>

Fits == Cardinality(Starts) <= room

\* What GetMemoryMap may say: too small exactly when it is, or any other error.
MapErrors == IF Fits THEN {"other"} ELSE {"BufferTooSmall", "other"}

GetMap(where) ==
  /\ pc = where /\ Fits
  /\ map' = FirmwareMap /\ stale' = FALSE /\ pc' = "publish"
  /\ Calls("get_memory_map")
  /\ UNCHANGED <<types, count, extra, growth, room, attempt, boundary, owned, info>>

\* A refusal before the boundary: the buffer is freed, then grown or given up.
FreeMap ==
  /\ pc = "get"
  /\ types' \in PoolTypes("loader_data", "conventional") /\ stale' = TRUE
  /\ \E err \in MapErrors :
       pc' = onGetMemoryMapError("pre_ebs", err, growth < MAP_GROWTHS)
  /\ Calls("free_pool")
  /\ UNCHANGED <<count, extra, growth, room, map, attempt, boundary, owned, info>>

Grow ==
  /\ pc = "grow"
  /\ growth' = growth + 1 /\ extra' = extra * 2 /\ pc' = "alloc"
  /\ Calls("none") /\ NoChange
  /\ UNCHANGED <<count, room, map, attempt, boundary, owned, info>>

GiveUp == pc = "fail_return" /\ Stop("returned")

\* What a built record, or the failure to build one, leads to.
\* Mutant: a retry trusts the record of the first attempt.
Published_once(rec) ==
  /\ info' = (IF attempt = 0 THEN rec ELSE info) /\ pc' = "ebs"
  /\ Calls("none") /\ NoChange
  /\ UNCHANGED <<count, extra, growth, room, map, attempt, boundary, owned>>

Published(rec) ==
  /\ info' = rec /\ pc' = "ebs"
  /\ Calls("none") /\ NoChange
  /\ UNCHANGED <<count, extra, growth, room, map, attempt, boundary, owned>>

\* Mutant: always back to the firmware.
Unpublished_returns == Stop("returned")

Unpublished == Stop(IF boundary = "post_ebs" THEN "halted" ELSE "returned")

Publish ==
  /\ pc = "publish"
  /\ \E built \in {publishBootInfo(map)} :
       IF built.ok THEN Published(built.info) ELSE Unpublished

\* ExitBootServices succeeds: the loader jumps into the kernel.
Exit ==
  /\ pc = "ebs" /\ ~stale
  /\ pc' = "handoff" /\ call' = "exit_boot_services" /\ tried' = TRUE
  /\ NoChange
  /\ UNCHANGED <<count, extra, growth, room, map, attempt, boundary, owned, info>>

\* Mutant: the attempts are not counted.
Refused_uncounted ==
  /\ pc = "ebs"
  /\ \E err \in IF stale THEN {"InvalidParameter", "other"} ELSE {"other"} :
       pc' = onExitBootServicesError(err, attempt + 1 < EBS_RETRIES)
  /\ boundary' = "post_ebs"
  /\ call' = "exit_boot_services" /\ tried' = TRUE
  /\ NoChange
  /\ UNCHANGED <<count, extra, growth, room, map, attempt, owned, info>>

Refused ==
  /\ pc = "ebs"
  /\ \E err \in IF stale THEN {"InvalidParameter", "other"} ELSE {"other"} :
       LET next == onExitBootServicesError(err, attempt + 1 < EBS_RETRIES) IN
       pc' = next /\ attempt' = IF next = "retry_retained" THEN attempt + 1 ELSE attempt
  /\ boundary' = "post_ebs"
  /\ call' = "exit_boot_services" /\ tried' = TRUE
  /\ NoChange
  /\ UNCHANGED <<count, extra, growth, room, map, owned, info>>

\* A refusal of the retained buffer: every answer of onGetMemoryMapError halts.
RegetFails == pc = "retry_retained" /\ Stop("halted")

Halt == pc = "fail_halt" /\ Stop("halted")

-----------------------------------------------------------------------------
Init ==
  /\ types \in StartTypes
  /\ stale = TRUE /\ tried = FALSE /\ call = "none" /\ pc = "load"
  /\ count = 0 /\ extra = MAP_HEADROOM_DESCS /\ growth = 0 /\ room = 0 /\ map = << >>
  /\ attempt = 0 /\ boundary = "pre_ebs" /\ owned = << >> /\ info = << >>

Step ==
  \/ Load \/ LoadFails \/ MapInfo \/ AllocMap
  \/ GetMap("get") \/ FreeMap \/ Grow \/ GiveUp
  \/ Publish
  \/ Exit \/ Refused \/ GetMap("retry_retained") \/ RegetFails \/ Halt

Next == Step \/ Change

\* The loader runs.  The firmware may change the map as often as it likes.
Spec == Init /\ [][Next]_vars /\ WF_vars(Step)

-----------------------------------------------------------------------------
(* What the kernel relies on. *)

\* The kernel is given the truth: at the jump every page of the machine is in
\* exactly one range of the BootInfo, of the kind of the owned span it belongs
\* to, or else of what the firmware says it is at that moment, however often the
\* map changed while the loader was reading it.
HandoffIsCurrent ==
  pc = "handoff" =>
    \A p \in 0..(Pages - 1) :
      LET a == p * PAGE
          at == {j \in 1..Len(info.ranges) :
                   info.ranges[j].phys_start <= a /\ a < endAddr(info.ranges[j])}
          mine == {k \in 1..Len(owned) : owned[k].base <= a /\ a < owned[k].base + owned[k].size}
      IN \E j \in at :
           /\ at = {j}
           /\ info.ranges[j].kind = IF mine # {} THEN owned[Min(mine)].kind ELSE mapKind(types[p])

\* Once ExitBootServices has been tried, the loader makes no firmware call but
\* GetMemoryMap and ExitBootServices, and never returns: every error halts.
OnlyLegalCalls ==
  [][tried => call' \in {"none", "get_memory_map", "exit_boot_services", "halt"}]_vars

\* Booting ends, in the kernel, at a halt or back in the firmware, even if the
\* map changes before every attempt.
BootEnds == <>(pc \in Ended)
=============================================================================
