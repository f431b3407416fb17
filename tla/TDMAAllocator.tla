---------------------------- MODULE TDMAAllocator ----------------------------
(***************************************************************************)
(* What the TDMA slot allocator promises (spec 4.6 and 8): a set of slices *)
(* of one transmission cycle, each [b, e, pod], with the sentinel [0,100)  *)
(* always held.                                                            *)
(*                                                                         *)
(*   Reserve(p)  adds slices owned by p, each inside the cycle and at     *)
(*               least Guard away from every other slice held;             *)
(*   Release(p)  removes slices owned by p and no other.                   *)
(*                                                                         *)
(* No operation moves, resizes or re-owns a slice that is held ("no       *)
(* renumbering of other slices' positions").  How many slices a reserve   *)
(* adds and which gap it picks are left open, as is whether a release     *)
(* removes every slice of the pod.                                        *)
(***************************************************************************)
EXTENDS Naturals

CONSTANTS Pods, NoPod, CYCLE, Guard

VARIABLE held   \* the slices the allocator holds

Sentinel == [b |-> 0, e |-> 100, pod |-> NoPod]

(* x and y are at least Guard apart.                                        *)
Apart(x, y) == x.e + Guard <= y.b \/ y.e + Guard <= x.b

Init == held = {Sentinel}

Reserve(p) ==
  /\ held \subseteq held'
  /\ \A x \in held' \ held :
        /\ x.pod = p
        /\ 0 <= x.b /\ x.b < x.e /\ x.e <= CYCLE
        /\ \A y \in held' \ {x} : Apart(x, y)

Release(p) ==
  /\ held' \subseteq held
  /\ \A x \in held \ held' : x.pod = p

Next == \E p \in Pods : Reserve(p) \/ Release(p)

Spec == Init /\ [][Next]_held
=============================================================================
