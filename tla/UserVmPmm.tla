----------------------------- MODULE UserVmPmm -----------------------------
(***************************************************************************)
(* The per-address-space adapters of the page allocator                    *)
(* (src/arch/x86_64/native/user_vm_pmm.zig) and a client that uses the     *)
(* allocator directly (the page main.zig allocates at boot), sharing one   *)
(* PMM.  Each adapter records the frames it obtained in bounded,           *)
(* caller-owned storage; boot eligibility is never taken for ownership.    *)
(***************************************************************************)
EXTENDS Pmm

CONSTANTS
  Adapters,   \* the adapters in use
  OwnedLen,   \* capacity of an adapter's storage
  Direct,     \* the client without an adapter
  Nobody

ASSUME AdaptersAssumption ==
  /\ OwnedLen \in Nat
  /\ Direct \notin Adapters
  /\ Nobody \notin Adapters \cup {Direct}

VARIABLES
  owned,    \* adapter -> its live frames, in storage order
  direct,   \* frames the direct client holds
  last      \* outcome of the last call of an adapter, and its adapter

vars == <<pmmVars, owned, direct, last>>

owns(a, p) == OnStack(owned[a], p)

indexOf(a, p) == CHOOSE k \in 1..Len(owned[a]) : owned[a][k] = p

\* Mutant: the last entry is dropped instead of moved.
swapRemove_noMove(s, k) == SubSeq(s, 1, Len(s) - 1)

\* Removal by moving the last entry into the hole.
swapRemove(s, k) ==
  SubSeq([s EXCEPT ![k] = s[Len(s)]], 1, Len(s) - 1)

\* Mutant: the entry is written and the count left alone.
Record1_overwrite(a, p) ==
  owned' = [owned EXCEPT ![a] = IF @ = << >> THEN <<p>> ELSE [@ EXCEPT ![Len(@)] = p]]

Record1(a, p) == owned' = [owned EXCEPT ![a] = Append(@, p)]

\* Mutant: page zero taken for null.
takesBack_notZero(p) == p # 0

\* pmm.freePage(p) called with p just popped, so p is no longer on the stack.
takesBack(p) == isAllocatable(p) /\ ~OnStack(SubSeq(free_stack, 1, Len(free_stack) - 1), p)

-----------------------------------------------------------------------------
(* Adapter.allocPage, one action per return. *)

AllocOutOfMemory(a) ==
  /\ pc = "idle"
  /\ Len(owned[a]) >= OwnedLen \/ ~canAlloc
  /\ last' = <<a, "OutOfMemory">>
  /\ UNCHANGED <<pmmVars, owned, direct>>

\* Frame zero goes straight back; if the PMM refused it, it would be kept and
\* returned so that the caller still tracks it.
AllocZero(a) ==
  /\ pc = "idle" /\ canAlloc /\ Len(owned[a]) < OwnedLen /\ Top = 0
  /\ IF takesBack(0)
       THEN last' = <<a, "PhysicalZero">> /\ UNCHANGED <<pmmVars, owned>>
       ELSE allocPage /\ Record1(a, 0) /\ last' = <<a, "zero">>
  /\ UNCHANGED direct

\* A popped frame that fails a check is freed before the error is returned; the
\* result of that free is ignored.
AllocFrame(a) ==
  /\ pc = "idle" /\ canAlloc /\ Len(owned[a]) < OwnedLen /\ Top # 0
  /\ IF ~isAllocatable(Top)
       THEN /\ IF takesBack(Top) THEN UNCHANGED pmmVars ELSE allocPage
            /\ last' = <<a, "ReservedFrame">> /\ UNCHANGED owned
       ELSE /\ allocPage
            /\ IF owns(a, Top)
                 THEN last' = <<a, "DuplicateFrame">> /\ UNCHANGED owned
                 ELSE Record1(a, Top) /\ last' = <<a, "frame">>
  /\ UNCHANGED direct

-----------------------------------------------------------------------------
(* Adapter.freePage: only an owned frame, and only if the PMM takes it. *)

FreeFrame(a, p) ==
  /\ owns(a, p)
  /\ freePage(p)
  /\ owned' = [owned EXCEPT ![a] = swapRemove(@, indexOf(a, p))]
  /\ last' = <<a, "freed">>
  /\ UNCHANGED direct

FreeRefused(a, p) ==
  /\ pc = "idle"
  /\ ~owns(a, p) \/ ~freeAccepts(p)
  /\ last' = <<a, "refused">>
  /\ UNCHANGED <<pmmVars, owned, direct>>

-----------------------------------------------------------------------------
(* The client that calls the PMM itself; it frees only what it holds. *)

DirectAlloc ==
  /\ allocPage
  /\ direct' = direct \cup {Top}
  /\ UNCHANGED <<owned, last>>

DirectFree(p) ==
  /\ p \in direct
  /\ freePage(p)
  /\ direct' = direct \ {p}
  /\ UNCHANGED <<owned, last>>

\* The kernel initialises the PMM before any client exists (main.zig).
Boot ==
  /\ direct = {} /\ \A a \in Adapters : owned[a] = << >>
  /\ InitNext
  /\ UNCHANGED <<owned, direct, last>>

AdapterInit ==
  /\ PmmInit
  /\ owned = [a \in Adapters |-> << >>]
  /\ direct = {}
  /\ last = << >>

AdapterNext ==
  \/ Boot
  \/ DirectAlloc
  \/ \E p \in direct : DirectFree(p)
  \/ \E a \in Adapters :
       \/ AllocOutOfMemory(a)
       \/ AllocZero(a)
       \/ AllocFrame(a)
       \/ \E p \in 0..MANAGED_TOP : FreeFrame(a, p) \/ FreeRefused(a, p)

AdapterSpec == AdapterInit /\ [][AdapterNext]_vars

-----------------------------------------------------------------------------
(* What the adapters promise. *)

\* A frame has one owner: adapters and the direct client share no frame, no
\* adapter lists one twice, and together they account for every page the PMM
\* has out (a swap-remove slip, a frame recorded and freed, or a duplicate
\* hand-out would break it).
ExclusiveOwners ==
  /\ \A a \in Adapters : \A j, k \in 1..Len(owned[a]) :
       owned[a][j] = owned[a][k] => j = k
  /\ \A a, b \in Adapters : a # b => Pages(owned[a]) \cap Pages(owned[b]) = {}
  /\ \A a \in Adapters : Pages(owned[a]) \cap direct = {}
  /\ held = direct \cup UNION {Pages(owned[a]) : a \in Adapters}

\* With this PMM the adapter's defences never fire: frame zero (the compaction
\* mark of the address-space journal) is never kept, and no popped frame turns
\* out reserved or already owned, which would drop it.
DefencesNeverFire ==
  /\ \A a \in Adapters : ~owns(a, 0)
  /\ last # << >> => last[2] \notin {"zero", "ReservedFrame", "DuplicateFrame"}

OwnerOf(p) ==
  IF p \in direct THEN Direct
  ELSE IF \E a \in Adapters : owns(a, p) THEN CHOOSE a \in Adapters : owns(a, p)
  ELSE Nobody

Ownership == INSTANCE FrameOwnership WITH
  Frames <- 0..MANAGED_TOP, Owners <- Adapters \cup {Direct},
  owner <- [p \in 0..MANAGED_TOP |-> OwnerOf(p)]

\* Every step of the allocator and its adapters is a step of the ownership
\* discipline: a frame never passes from one owner to another without being
\* free in between, and nobody gives back another's frame.
RefinesOwnership == Ownership!Spec
=============================================================================
