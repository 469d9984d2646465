---------------------------- MODULE MCUserVmPmm ----------------------------
(***************************************************************************)
(* Two adapters with room for two frames each and one direct client, over  *)
(* four managed pages; page zero is conventional in two of the three maps. *)
(***************************************************************************)
EXTENDS UserVmPmm

R(start, pages, kind) == [phys_start |-> start, page_count |-> pages, kind |-> kind]

Info(rs, b) ==
  [header |-> TRUE, ranges |-> rs, entry |-> b,
   kernel |-> [base |-> b, size |-> 2], initramfs |-> [base |-> 0, size |-> 0],
   stack |-> [base |-> b + 2, size |-> 2], self |-> [base |-> b + 4, size |-> 2]]

Owned(b) == <<R(b, 1, "kernel"), R(b + 2, 1, "kernel_stack"), R(b + 4, 1, "boot_info")>>

MCBootInfos ==
  {Info(<<R(0, 4, "conventional")>> \o Owned(10), 10),
   Info(<<R(2, 2, "conventional")>> \o Owned(10) \o <<R(0, 1, "conventional")>>, 10),
   Info(<<R(0, 1, "reserved"), R(2, 3, "conventional")>> \o Owned(10), 10)}
=============================================================================
