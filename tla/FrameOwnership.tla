--------------------------- MODULE FrameOwnership ---------------------------
(***************************************************************************)
(* The promise of the native frame path, without its data structures: a    *)
(* physical frame has at most one owner, is taken only from the free pool  *)
(* and is given back only by the owner that took it.                       *)
(***************************************************************************)
CONSTANTS Frames, Owners,
  Nobody   \* not an owner

VARIABLE owner   \* frame -> the owner, or Nobody while it is in the pool

Init == owner = [f \in Frames |-> Nobody]

Take(o, f) ==
  /\ owner[f] = Nobody
  /\ owner' = [owner EXCEPT ![f] = o]

GiveBack(o, f) ==
  /\ owner[f] = o
  /\ owner' = [owner EXCEPT ![f] = Nobody]

Next == \E o \in Owners, f \in Frames : Take(o, f) \/ GiveBack(o, f)

Spec == Init /\ [][Next]_owner
=============================================================================
