-------------------------------- MODULE TDMA --------------------------------
(***************************************************************************)
(* The TDMA scheduler plugin (plugins/tdmascheduling/TDMA.go) together with *)
(* the part of the Kubernetes scheduling lifecycle that drives it, and the *)
(* view the scarmiglione master (src/scarmiglione/routers.go) is given of  *)
(* the cycle.                                                              *)
(*                                                                         *)
(* pl.slices is one sequence of slices [b, e, pod] sorted by begin, whose  *)
(* first element is the sentinel [0,100) of New.  The plugin holds no lock: *)
(* PreFilter and Reserve run in the single scheduling cycle, Unreserve in  *)
(* the scheduling cycle or in a binding goroutine, and podDelete in the    *)
(* informer goroutine.  Each handler is one step; the HTTP calls of        *)
(* reserveSlot and unreserveSlot can fail (request lost, or delivered and  *)
(* the answer lost), at most MaxFaults times in a behaviour.               *)
(*                                                                         *)
(* scarmiglione answers "OK" to every well-formed request and keeps no     *)
(* state (its tdmaconfig calls are comments).  master is the set of slices *)
(* it has been told to hold: TDMAsched adds the slice of the request body, *)
(* TDMAremove removes it.                                                  *)
(***************************************************************************)
EXTENDS Integers, Sequences, SequencesExt

CONSTANTS
  Pods,       \* pod names
  NoPod,      \* PodName of the sentinel slice ("")
  Req,        \* Req[p]: r.Length of p's TDMA annotation, or NoTDMA / BadSpec
  NoTDMA,     \* p has no "Network" label, or a network other than TDMA
  BadSpec,    \* p has Network=TDMA and a missing or malformed annotation
  CYCLE,      \* pl.majorcycle
  MaxFaults   \* bound on failed HTTP calls to the master in a behaviour

ASSUME /\ NoPod \notin Pods
       /\ \A p \in Pods : Req[p] \in (Nat \ {0}) \cup {NoTDMA, BadSpec}
       /\ CYCLE \in Nat /\ MaxFaults \in Nat

VARIABLES
  slices,    \* pl.slices
  master,    \* the slices scarmiglione has been told to hold
  phase,     \* phase[p]: where pod p is in the scheduling lifecycle
  deleted,   \* deleted[p]: pod p has been deleted
  watching,  \* deleteWatcher's informer has started
  faults     \* HTTP calls to the master that have failed

vars == <<slices, master, phase, deleted, watching, faults>>

(* The literals of PreFilter and Reserve: a slice is placed Offset after  *)
(* the end of its predecessor and needs a gap of Length + GuardBand.      *)
Offset == 10
GuardBand == 20
Sentinel == [b |-> 0, e |-> 100, pod |-> NoPod]

Phases == {"pending", "unschedulable", "filtered", "rejected",
           "reserved", "unreserve", "bound"}

(* The outcome of one HTTP call: answered "OK", request lost, or request   *)
(* delivered and the answer lost.  A handler meets at most one failure,   *)
(* at its at-th call.                                                     *)
NoFault == [at |-> 0, kind |-> "ok"]
Faults(n) == {NoFault} \cup
             IF faults < MaxFaults
             THEN [at : 1..n, kind : {"lost", "noreply"}] ELSE {}
Delivered(f, n) == f.at # n \/ f.kind = "noreply"
Failed(f, n) == f.at = n

(* Mutants of the tests below: the guard band dropped.                    *)
FitsGapNoGuard(s, j, len) == s[j+1].b - s[j].e > len
FitsTailNoGuard(s, len) == Last(s).e < CYCLE - len

(* The tests of PreFilter and Reserve on the pair (j, j+1) and the tail.  *)
FitsGap(s, j, len) == s[j+1].b - s[j].e > len + GuardBand
FitsTail(s, len) == Last(s).e < CYCLE - len - GuardBand
(* Mutant: the new slice recorded under its predecessor's PodName.       *)
NewSliceOwnedByPredecessor(after, len, p) ==
  [b |-> after.e + Offset, e |-> after.e + Offset + len, pod |-> after.pod]
NewSlice(after, len, p) ==
  [b |-> after.e + Offset, e |-> after.e + Offset + len, pod |-> p]
ByBegin(s) == SortSeq(s, LAMBDA x, y : x.b < y.b)

(***************************************************************************)
(* The loop of Reserve over the pairs (j, j+1), j < Len(s): every fitting  *)
(* gap (there is no break) gets a new slice, reserved at the master and    *)
(* then inserted and sorted; the loop bound is re-read after each insert.  *)
(* A failed reserveSlot returns at once, keeping the slices already added. *)
(* st = [s, j, n (calls made), sent (delivered to the master), err, done]. *)
(***************************************************************************)
RECURSIVE ReserveLoop(_, _, _, _)
ReserveLoop(st, len, p, f) ==
  IF st.j > Len(st.s) - 1 THEN st
  ELSE IF ~FitsGap(st.s, st.j, len)
  THEN ReserveLoop([st EXCEPT !.j = @ + 1], len, p, f)
  ELSE LET snew == NewSlice(st.s[st.j], len, p)
           n == st.n + 1
           sent == IF Delivered(f, n) THEN st.sent \cup {snew} ELSE st.sent
       IN  IF Failed(f, n)
           THEN [st EXCEPT !.n = n, !.sent = sent, !.err = TRUE]
           ELSE ReserveLoop([st EXCEPT !.s = ByBegin(Append(@, snew)),
                                       !.j = @ + 1, !.n = n, !.sent = sent,
                                       !.done = TRUE], len, p, f)

(* "if !scheduled": the tail slice after the last one, appended unsorted. *)
ReserveTail(st, len, p, f) ==
  IF st.err \/ st.done \/ ~FitsTail(st.s, len) THEN st
  ELSE LET snew == NewSlice(Last(st.s), len, p)
           n == st.n + 1
           sent == IF Delivered(f, n) THEN st.sent \cup {snew} ELSE st.sent
       IN  IF Failed(f, n)
           THEN [st EXCEPT !.n = n, !.sent = sent, !.err = TRUE]
           ELSE [st EXCEPT !.s = Append(@, snew), !.n = n, !.sent = sent,
                           !.done = TRUE]

ReserveRun(s, len, p, f) ==
  ReserveTail(ReserveLoop([s |-> s, j |-> 1, n |-> 0, sent |-> {},
                           err |-> FALSE, done |-> FALSE], len, p, f),
              len, p, f)

(***************************************************************************)
(* The loop of Unreserve: "for i := 0; i < len(pl.slices)-1; i++", so the *)
(* last slice is never looked at.  A slice of p is removed, then the slice *)
(* that moved into its index is sent to TDMAremove, and i still advances.  *)
(* A failed unreserveSlot returns.                                         *)
(* st = [s, j, n, removed (delivered to the master), err].                 *)
(***************************************************************************)
RECURSIVE UnreserveLoop(_, _, _)
UnreserveLoop(st, p, f) ==
  IF st.j > Len(st.s) - 1 THEN st
  ELSE IF st.s[st.j].pod # p
  THEN UnreserveLoop([st EXCEPT !.j = @ + 1], p, f)
  ELSE LET s2 == RemoveAt(st.s, st.j)
           n == st.n + 1
           removed == IF Delivered(f, n) THEN st.removed \cup {s2[st.j]}
                      ELSE st.removed
       IN  IF Failed(f, n)
           THEN [st EXCEPT !.s = s2, !.n = n, !.removed = removed,
                           !.err = TRUE]
           ELSE UnreserveLoop([st EXCEPT !.s = s2, !.j = @ + 1, !.n = n,
                                         !.removed = removed], p, f)

(***************************************************************************)
(* The loop of podDelete: over every index, a slice of p is sent to        *)
(* TDMAremove (the error is ignored) and then removed; i still advances,   *)
(* so the slice that moved into the index is skipped.                     *)
(***************************************************************************)
RECURSIVE DeleteLoop(_, _, _)
DeleteLoop(st, p, f) ==
  IF st.j > Len(st.s) THEN st
  ELSE IF st.s[st.j].pod # p
  THEN DeleteLoop([st EXCEPT !.j = @ + 1], p, f)
  ELSE LET n == st.n + 1
           removed == IF Delivered(f, n) THEN st.removed \cup {st.s[st.j]}
                      ELSE st.removed
       IN  DeleteLoop([st EXCEPT !.s = RemoveAt(@, st.j), !.j = @ + 1,
                                 !.n = n, !.removed = removed], p, f)

(* New: the sentinel only.                                                 *)
Init ==
  /\ slices = <<Sentinel>>
  /\ master = {}
  /\ phase = [p \in Pods |-> "pending"]
  /\ deleted = [p \in Pods |-> FALSE]
  /\ watching = FALSE
  /\ faults = 0

(* One pod at a time is in the scheduling cycle (PreFilter .. Reserve,    *)
(* and the Unreserve after a failed Reserve).                             *)
CycleBusy == \E q \in Pods : phase[q] \in {"filtered", "rejected"}

(* 1 when the chosen failure happened among the n calls made, else 0.    *)
(* The master's handlers (scarmiglione): TDMAsched and TDMAremove answer  *)
(* OK to every request they parse; the slot configuration they are to    *)
(* perform is the set of slices the master has been told to hold.         *)
TDMAsched(m, sent) == m \cup sent
TDMAremove(m, removed) == m \ removed

Occurred(f, n) == IF f.at \in 1..n THEN 1 ELSE 0

(* Mutant of PreFilterFits: non-strict comparisons.                       *)
PreFilterFitsAtEdge(s, len) ==
  \/ \E j \in 1..Len(s) - 1 : s[j+1].b - s[j].e >= len + GuardBand
  \/ Last(s).e <= CYCLE - len - GuardBand

(* PreFilter's test: a fitting gap between two slices, or room at the end. *)
PreFilterFits(s, len) ==
  \/ \E j \in 1..Len(s) - 1 : FitsGap(s, j, len)
  \/ FitsTail(s, len)

(* PreFilter's verdict: nil for a pod without TDMA requirements, an error *)
(* for a TDMA pod without a usable annotation, else the first-fit test.   *)
Admits(p, s) ==
  \/ Req[p] = NoTDMA
  \/ Req[p] # BadSpec /\ PreFilterFits(s, Req[p])

(* PreFilter(p): the scheduling cycle of p starts; a rejected pod waits   *)
(* in the unschedulable queue.                                            *)
PreFilter(p) ==
  /\ phase[p] = "pending" /\ ~deleted[p] /\ ~CycleBusy
  /\ phase' = [phase EXCEPT ![p] = IF Admits(p, slices) THEN "filtered"
                                    ELSE "unschedulable"]
  /\ UNCHANGED <<slices, master, deleted, watching, faults>>

(* Reserve(p): the loop, the tail, and the status that decides whether  *)
(* the framework goes on to binding or calls Unreserve.                   *)
Reserve(p) ==
  /\ phase[p] = "filtered"
  /\ IF Req[p] = NoTDMA
     THEN /\ phase' = [phase EXCEPT ![p] = "reserved"]
          /\ UNCHANGED <<slices, master, faults>>
     ELSE \E f \in Faults(Len(slices)) :
            LET r == ReserveRun(slices, Req[p], p, f)
            IN  /\ slices' = r.s
                /\ master' = TDMAsched(master, r.sent)
                /\ phase' = [phase EXCEPT ![p] = IF r.done /\ ~r.err
                                                 THEN "reserved"
                                                 ELSE "rejected"]
                /\ faults' = faults + Occurred(f, r.n)
  /\ UNCHANGED <<deleted, watching>>

(* The binding cycle of p (Permit, PreBind, Bind) succeeds; a deleted pod *)
(* no longer exists and cannot be bound.                                   *)
Bind(p) ==
  /\ phase[p] = "reserved" /\ ~deleted[p]
  /\ phase' = [phase EXCEPT ![p] = "bound"]
  /\ UNCHANGED <<slices, master, deleted, watching, faults>>

(* The binding cycle of p fails (e.g. rtschedulability's PreBind): the   *)
(* framework calls Unreserve.                                              *)
BindFails(p) ==
  /\ phase[p] = "reserved"
  /\ phase' = [phase EXCEPT ![p] = "unreserve"]
  /\ UNCHANGED <<slices, master, deleted, watching, faults>>

(* Unreserve(p), after which the pod is queued again.                     *)
Unreserve(p) ==
  /\ phase[p] \in {"rejected", "unreserve"}
  /\ phase' = [phase EXCEPT ![p] = "pending"]
  /\ IF Req[p] = NoTDMA
     THEN UNCHANGED <<slices, master, faults>>
     ELSE \E f \in Faults(Len(slices)) :
            LET r == UnreserveLoop([s |-> slices, j |-> 1, n |-> 0,
                                    removed |-> {}, err |-> FALSE], p, f)
            IN  /\ slices' = r.s
                /\ master' = TDMAremove(master, r.removed)
                /\ faults' = faults + Occurred(f, r.n)
  /\ UNCHANGED <<deleted, watching>>

(* Pod deletion as the scheduler's own informer sees it: the pod is gone *)
(* and a Pod/Delete event moves the unschedulable pods back to the active *)
(* queue (EventsToRegister).                                              *)
Gone(p) ==
  /\ deleted' = [deleted EXCEPT ![p] = TRUE]
  /\ phase' = [q \in Pods |-> IF phase[q] = "unschedulable" THEN "pending"
                              ELSE phase[q]]

(* deleteWatcher, started by New, sleeps 6 s, then starts its informer.   *)
DeleteWatcherStart ==
  /\ ~watching /\ watching' = TRUE
  /\ UNCHANGED <<slices, master, phase, deleted, faults>>

(* A pod deleted before deleteWatcher's informer has started: its initial *)
(* list no longer holds the pod, so podDelete never runs for it.          *)
DeletedUnwatched(p) ==
  /\ ~watching /\ ~deleted[p]
  /\ Gone(p)
  /\ UNCHANGED <<slices, master, watching, faults>>

(* podDelete(p), the delete callback of deleteWatcher's informer.        *)
podDelete(p) ==
  /\ watching /\ ~deleted[p]
  /\ Gone(p)
  /\ UNCHANGED watching
  /\ IF Req[p] = NoTDMA
     THEN UNCHANGED <<slices, master, faults>>
     ELSE \E f \in Faults(Len(slices)) :
            LET r == DeleteLoop([s |-> slices, j |-> 1, n |-> 0,
                                 removed |-> {}], p, f)
            IN  /\ slices' = r.s
                /\ master' = TDMAremove(master, r.removed)
                /\ faults' = faults + Occurred(f, r.n)

Next ==
  \E p \in Pods :
    \/ PreFilter(p) \/ Reserve(p) \/ Bind(p) \/ BindFails(p)
    \/ Unreserve(p) \/ podDelete(p) \/ DeletedUnwatched(p)
  \/ DeleteWatcherStart

Spec == Init /\ [][Next]_vars

-----------------------------------------------------------------------------
SliceRec == [b : 0..CYCLE, e : 0..CYCLE, pod : Pods \cup {NoPod}]
HeldBy(p, s) == {j \in DOMAIN s : s[j].pod = p}

(* Type invariant.                                                          *)
TypeOK ==
  /\ slices \in Seq(SliceRec) /\ Len(slices) >= 1
  /\ master \subseteq SliceRec
  /\ phase \in [Pods -> Phases]
  /\ deleted \in [Pods -> BOOLEAN]
  /\ watching \in BOOLEAN
  /\ faults \in 0..MaxFaults

(* The first-fit placement of Reserve keeps pl.slices sorted by begin,     *)
(* pairwise apart by at least the Offset of 10, and inside the cycle,      *)
(* whatever order Reserve, Unreserve and podDelete run in.                 *)
SlicesSeparated ==
  /\ \A j \in 1..Len(slices) - 1 : slices[j].e + Offset <= slices[j+1].b
  /\ Last(slices).e <= CYCLE

(* A pod PreFilter admitted is reserved by Reserve unless a call to the   *)
(* master fails: the Unreserve and podDelete calls that can run between   *)
(* the two (binding goroutines, informer) only widen the gaps.            *)
PreFilterAgreesWithReserve ==
  [][\A p \in Pods : Reserve(p) /\ faults' = faults
                       => phase'[p] = "reserved"]_vars

(***************************************************************************)
(* Refinement: the plugin's pl.slices implements TDMAAllocator under the  *)
(* mapping of the list to the set of its slices, the guard being the      *)
(* Offset at which Reserve places a slice.  Every Reserve, also one that  *)
(* fails half-way, adds only slices of its pod, apart from all others,    *)
(* and every Unreserve and podDelete removes only slices of its pod,     *)
(* whatever the order of the scheduling cycle, the binding goroutines and *)
(* the informer.                                                          *)
(***************************************************************************)
Allocator == INSTANCE TDMAAllocator WITH held <- Range(slices), Guard <- Offset

AllocatorRefined == Allocator!Spec

(* Spec 4.6: release(podName) removes the slice(s) owned by the pod.      *)
DeleteReleases ==
  [][\A p \in Pods : podDelete(p) => HeldBy(p, slices') = {}]_vars

(* The slices the master has been told to hold never overlap: the network *)
(* is never asked to give two transmitters the same time.                *)
MasterSlicesDisjoint ==
  \A x, y \in master : x # y => x.e <= y.b \/ y.e <= x.b
=============================================================================
