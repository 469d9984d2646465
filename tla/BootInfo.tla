------------------------------ MODULE BootInfo ------------------------------
(***************************************************************************)
(* The EFI -> native handoff record (src/native/boot_info.zig): a header,  *)
(* four owned regions and the normalised array of physical ranges.         *)
(*                                                                         *)
(* Addresses are naturals below ADDR_LIMIT (2^64 in the program) and a     *)
(* page is PAGE bytes (4096), so that misaligned addresses exist in small  *)
(* instances.  The header's magic, version, sizes and checksum are one     *)
(* Boolean: nothing downstream tells them apart.                           *)
(***************************************************************************)
EXTENDS Naturals, Sequences

CONSTANTS
  PAGE,         \* bytes in a page
  MANAGED_TOP,  \* physical ceiling of the identity-mapped, managed domain
  ADDR_LIMIT,   \* 2^64: one more than the largest address
  BootInfos     \* the handoff records the loader may pass

Kinds == {"conventional", "reserved", "kernel", "initramfs", "kernel_stack",
          "boot_info", "loader", "acpi_reclaim", "nvs", "mmio"}

PhysRange == [phys_start : Nat, page_count : Nat, kind : Kinds]
Region    == [base : Nat, size : Nat]
Record    == [header : BOOLEAN, ranges : Seq(PhysRange), entry : Nat, kernel : Region,
           initramfs : Region, stack : Region, self : Region]

ASSUME PageAssumption == PAGE \in Nat \ {0}

ASSUME TopAssumption ==
  /\ MANAGED_TOP \in Nat
  /\ MANAGED_TOP % PAGE = 0

(***************************************************************************)
(* memmap.normalize checks every descriptor's end against the address      *)
(* width before the loader records it, so endAddr never wraps.             *)
(***************************************************************************)
ASSUME BootInfosAssumption ==
  /\ ADDR_LIMIT \in Nat
  /\ MANAGED_TOP < ADDR_LIMIT
  /\ BootInfos \subseteq Record
  /\ \A info \in BootInfos : \A i \in 1..Len(info.ranges) :
       info.ranges[i].phys_start + info.ranges[i].page_count * PAGE < ADDR_LIMIT

endAddr(r) == r.phys_start + r.page_count * PAGE

\* Mutant: the pairwise test is forgotten.
rangesOverlap_zeroOnly(rs) == \E i \in 1..Len(rs) : rs[i].page_count = 0

\* A zero-length range is malformed; two ranges may touch but not overlap.
rangesOverlap(rs) ==
  \/ \E i \in 1..Len(rs) : rs[i].page_count = 0
  \/ \E i, j \in 1..Len(rs) :
       /\ i < j
       /\ rs[i].phys_start < endAddr(rs[j])
       /\ rs[j].phys_start < endAddr(rs[i])

\* The ranges of one kind cover the region without a gap: the cursor loop
\* advances from base to the end exactly when every address is in some range.
covered(info, region, kind) ==
  /\ region.size # 0
  /\ region.base + region.size < ADDR_LIMIT
  /\ \A a \in region.base .. (region.base + region.size - 1) :
       \E i \in 1..Len(info.ranges) :
         /\ info.ranges[i].kind = kind
         /\ info.ranges[i].phys_start <= a
         /\ a < endAddr(info.ranges[i])

validate(info) ==
  /\ info.header
  /\ info.kernel.base <= info.entry
  /\ info.entry < info.kernel.base + info.kernel.size
  /\ info.stack.size # 0
  /\ info.stack.size % PAGE = 0
  /\ info.kernel.base % PAGE = 0
  /\ info.initramfs.base % PAGE = 0
  /\ covered(info, info.kernel, "kernel")
  /\ info.initramfs.size # 0 => covered(info, info.initramfs, "initramfs")
  /\ covered(info, info.stack, "kernel_stack")
  /\ covered(info, info.self, "boot_info")
  /\ ~rangesOverlap(info.ranges)
=============================================================================
