------------------------------- MODULE MCPmm -------------------------------
(***************************************************************************)
(* A 4-page managed domain of 2-byte pages under maps with up to two       *)
(* chosen ranges around the mandatory kernel, stack and boot-info ones.    *)
(***************************************************************************)
EXTENDS Pmm

R(start, pages, kind) == [phys_start |-> start, page_count |-> pages, kind |-> kind]

\* Kernel, stack and boot info: below the ceiling for one layout, above it
\* for the other.
Owned(b) == <<R(b, 1, "kernel"), R(b + 2, 1, "kernel_stack"), R(b + 4, 1, "boot_info")>>

Info(rs, b) ==
  [header |-> TRUE, ranges |-> rs, entry |-> b,
   kernel |-> [base |-> b, size |-> 2], initramfs |-> [base |-> 0, size |-> 0],
   stack |-> [base |-> b + 2, size |-> 2], self |-> [base |-> b + 4, size |-> 2]]

Chosen == {R(s, n, k) : s \in {0, 1, 2, 6, 8}, n \in {0, 1, 2, 5},
                        k \in {"conventional", "reserved"}}

\* Two chosen ranges: one leading, one either leading or trailing.
MCBootInfos ==
  {Info(<<a>> \o Owned(10), 10) : a \in Chosen}
    \cup {Info(<<a>> \o Owned(20) \o <<b>>, 20) :
            a \in {R(0, 1, "conventional"), R(0, 2, "reserved"), R(4, 2, "conventional")},
            b \in {c \in Chosen : c.phys_start \in {2, 6, 8}}}
    \cup {Info(Owned(2) \o <<R(0, 1, "conventional"), R(8, 3, "conventional")>>, 2)}
=============================================================================
