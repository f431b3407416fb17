------------------------------ MODULE Scheduler ------------------------------
(***************************************************************************)
(* The rtschedulability scheduler plugin                                   *)
(* (plugins/rtschedulability/rtschedulability.go) composed with one        *)
(* rubicante daemon per node.                                              *)
(*                                                                         *)
(* The scheduling cycle of a pod (PreFilter, Filter on every node, Score,  *)
(* NormalizeScore and the choice of a best node) is one step: Filter's    *)
(* dry runs are served by the daemons under their own lock and leave the  *)
(* daemons as schedTest leaves them.  The binding cycle (PreBind's podBind *)
(* and Bind) runs asynchronously, so the next pod's scheduling cycle may   *)
(* come before it.  The informer of every daemon watches every pod of the *)
(* cluster, so a deletion runs deletePod on every node.                   *)
(*                                                                         *)
(* The daemon is Rubicante: its operators are used through R(n), an      *)
(* instance on node n's containers.  A podBind request or its answer can  *)
(* be lost, at most MaxLost times.                                         *)
(***************************************************************************)
EXTENDS Integers, Sequences, SequencesExt, FiniteSets

CONSTANTS
  Nodes,      \* node names
  None,       \* no node
  Pods, PodTasks, NCPUs, SERVERPERIOD, THRESHOLDSCHED,
  NoWcet,     \* pairs <<p, n>>: p's request has no WCET for node n
  MaxLost,    \* bound on lost podBind requests and answers
  MaxTombstones, \* bound on deletions a daemon's informer receives as tombstones
  Assurance,  \* Assurance[n]: node n's "assurance" annotation
  Mode,       \* NodeAssuranceScorer's mode
  IntWidth    \* the width of Go's int64 in NodeAssuranceScorer

(* The NodeAssuranceScorer plugin of the same profile.                   *)
AS == INSTANCE NodeAssuranceScorer

ASSUME /\ None \notin Nodes
       /\ \A p \in Pods : PodTasks[p] # <<>>
       /\ NoWcet \subseteq Pods \X Nodes
       /\ MaxLost \in Nat /\ MaxTombstones \in Nat
       /\ Mode \in AS!Modes

VARIABLES
  ctr,      \* ctr[n]: state.containers of the daemon on node n
  alive,    \* alive[n]: the daemon on node n runs
  status,   \* pl.status: the Status vector of each node's last feasible answer
  phase,    \* phase[p]: pending, unschedulable, binding or bound
  target,   \* target[p]: the node chosen for p
  deleted,  \* deleted[p]: p was deleted
  lost,     \* podBind requests or answers lost so far
  tombs     \* deletions delivered to a daemon as tombstones so far

vars == <<ctr, alive, status, phase, target, deleted, lost, tombs>>

(* The daemon of node n, for its pure operators (schedTest, deletePod).   *)
R(n) == INSTANCE Rubicante
          WITH containers <- ctr[n], changed <- FALSE,
               diskContainers <- <<>>, diskTasks <- <<>>, up <- alive[n],
               wedged <- FALSE, SCHEDULABLE <- TRUE, deletedPods <- {},
               restarts <- 0, MaxRestarts <- 0, build <- "csv",
               dbContainers <- <<>>, dbTasks <- <<>>, Builds <- {"csv"},
               MaxDbTasks <- 0, OpenFaults <- FALSE, MaxRebinds <- 0, rebinds <- 0

Cores == 0 .. NCPUs - 1
NodeNames(n) == {ctr[n][i].name : i \in DOMAIN ctr[n]}

(* framework.MinNodeScore and framework.MaxNodeScore.                     *)
MinNodeScore == 0
MaxNodeScore == 100

(* computeScore: 100 minus the least used core of the Status vector; an   *)
(* absent vector (nil) scores 0.                                          *)
MinUsed(st) == Min({100} \cup Range(st))
ComputeScore(st) == 100 - MinUsed(st)

NormalizeScoreInverted(F, sc) ==
  LET highest == Max({sc[n] : n \in F})
      lowest == Min({sc[n] : n \in F})
      oldRange == highest - lowest
  IN  [n \in F |-> IF oldRange = 0 THEN MinNodeScore
                   ELSE ((highest - sc[n]) * (MaxNodeScore - MinNodeScore))
                          \div oldRange + MinNodeScore]

(* NormalizeScore over the feasible nodes F with raw scores sc.           *)
NormalizeScore(F, sc) ==
  LET highest == Max({sc[n] : n \in F})
      lowest == Min({sc[n] : n \in F})
      oldRange == highest - lowest
  IN  [n \in F |-> IF oldRange = 0 THEN MinNodeScore
                   ELSE ((sc[n] - lowest) * (MaxNodeScore - MinNodeScore))
                          \div oldRange + MinNodeScore]

(* The normalized scores of the two score plugins of the profile (the    *)
(* sched.go scenario annotates its nodes for NodeAssuranceScorer and its *)
(* pods for rtschedulability and TDMAscheduling), both of weight 1.      *)
RtsScores(F, st) == NormalizeScore(F, [n \in F |-> ComputeScore(st[n])])
AssuranceScores(F) ==
  AS!NormalizeScore(F, [n \in F |-> AS!Score(Assurance[n], Mode)])

(* The framework fails the scheduling cycle when a plugin's normalized    *)
(* score is outside [MinNodeScore, MaxNodeScore]; the pod is retried.     *)
ScoresValid(F, st) ==
  \A n \in F : /\ RtsScores(F, st)[n] \in MinNodeScore .. MaxNodeScore
              /\ AssuranceScores(F)[n] \in MinNodeScore .. MaxNodeScore

(* The framework binds to a node of highest total score, ties broken at  *)
(* random.                                                                *)
BestNodes(F, st) ==
  LET total == [n \in F |-> RtsScores(F, st)[n] + AssuranceScores(F)[n]]
  IN  {n \in F : \A m \in F : total[n] >= total[m]}

NoStatus == [k \in {} |-> 0]

Init ==
  /\ ctr = [n \in Nodes |-> <<>>]
  /\ alive = [n \in Nodes |-> TRUE]
  /\ status = [n \in Nodes |-> NoStatus]
  /\ phase = [p \in Pods |-> "pending"]
  /\ target = [p \in Pods |-> None]
  /\ deleted = [p \in Pods |-> FALSE]
  /\ lost = 0
  /\ tombs = 0

(***************************************************************************)
(* Schedule(p): PreFilter, then Filter on every node: the dry run         *)
(* /shedulabilityTest, whose Status is stored in pl.status when the node  *)
(* answers schedulable; a dead daemon is a failed HTTP call.  Then Score  *)
(* and NormalizeScore over the feasible nodes; with none, p waits as      *)
(* unschedulable; with invalid normalized scores the cycle fails and p   *)
(* stays in the queue.                                                    *)
(***************************************************************************)
(* FatSchedReqtoSchedReq returns nil (no request is sent) when a task    *)
(* has no WCET for the node.                                              *)
HasWcet(p, n) == <<p, n>> \notin NoWcet

(* The nodes whose dry run is sent and answered.                          *)
Asked(p) == {n \in Nodes : alive[n] /\ HasWcet(p, n)}

(* A pod in the active queue, and a pod in its binding cycle.             *)
Waiting(p) == phase[p] = "pending" /\ ~deleted[p]
Binding(p) == phase[p] = "binding"

(* Filter's UnschedulableAndUnresolvable answer on every node: the pod is  *)
(* parked until a cluster event moves it back.                            *)
FilterRejects(p) == phase' = [phase EXCEPT ![p] = "unschedulable"]

(* The nodes whose dry run answers Schedulable.                           *)
Feasible(p) == {n \in Asked(p) : R(n)!SchedTest(p, FALSE).ok}

Schedule(p) ==
  /\ Waiting(p)
  /\ LET r == [n \in Nodes |-> R(n)!SchedTest(p, FALSE)]
         F == Feasible(p)
         st == [n \in Nodes |-> IF n \in F THEN r[n].status ELSE status[n]]
     IN  /\ ctr' = [n \in Nodes |-> IF n \in Asked(p) THEN r[n].st ELSE ctr[n]]
         /\ status' = st
         /\ IF F = {}
            THEN /\ FilterRejects(p)
                 /\ UNCHANGED target
            ELSE IF ~ScoresValid(F, st)
            THEN UNCHANGED <<phase, target>>
            ELSE \E n \in BestNodes(F, st) :
                   /\ phase' = [phase EXCEPT ![p] = "binding"]
                   /\ target' = [target EXCEPT ![p] = n]
  /\ UNCHANGED <<alive, deleted, lost, tombs>>

(***************************************************************************)
(* PreBind(p): podBind to the chosen node.  The request may be lost (the  *)
(* daemon never sees it) or its answer may be lost after the daemon       *)
(* committed (a client timeout); either is a PreBind error.  A daemon     *)
(* that is down refuses the connection.  The daemon's handler runs        *)
(* schedTest persistently, without looking for the pod's name.  On an     *)
(* error or a negative answer the binding cycle fails and the pod goes    *)
(* back to the scheduling queue; on success Bind binds it, which fails    *)
(* for a pod deleted meanwhile (PreBind does not look).                   *)
(***************************************************************************)
(* client.Do has no timeout or retry: a message may be lost, here at most *)
(* MaxLost times.                                                         *)
CanLose == lost < MaxLost

BoundIgnoringAnswer(p, ok) ==
  phase' = [phase EXCEPT ![p] = IF ~deleted[p] THEN "bound" ELSE "pending"]
Bound(p, ok) ==
  /\ phase' = [phase EXCEPT ![p] = IF ok /\ ~deleted[p] THEN "bound"
                                   ELSE "pending"]

PreBind(p) ==
  /\ Binding(p)
  /\ LET n == target[p]
         r == R(n)!SchedTest(p, TRUE)
     IN  \/ /\ ~alive[n]
            /\ Bound(p, FALSE)
            /\ UNCHANGED <<ctr, lost>>
         \/ /\ alive[n] /\ CanLose
            /\ Bound(p, FALSE)
            /\ lost' = lost + 1
            /\ \/ UNCHANGED ctr
               \/ ctr' = [ctr EXCEPT ![n] = r.st]
         \/ /\ alive[n]
            /\ ctr' = [ctr EXCEPT ![n] = r.st]
            /\ Bound(p, r.ok)
            /\ UNCHANGED lost
  /\ UNCHANGED <<alive, status, target, deleted, tombs>>

(***************************************************************************)
(* PodDelete(p): the pod is removed from the cluster.  Every daemon's     *)
(* informer runs deletePod and updateSchedulability; a deletePod that     *)
(* panics kills that daemon.  The scheduler moves the unschedulable pods  *)
(* back to the active queue (EventsToRegister: Pod Delete).               *)
(***************************************************************************)
(* EventsToRegister (Pod Delete): the deletion of p moves every other     *)
(* unschedulable pod back to the active queue.                            *)
Requeue(p) == [q \in Pods |-> IF phase[q] = "unschedulable" /\ q # p
                              THEN "pending" ELSE phase[q]]

(* The daemons of M missed the Delete event (a dropped watch) and get the  *)
(* pod back on the relist as a DeletedFinalStateUnknown tombstone: the    *)
(* unchecked type assertion of podDelete to a v1.Pod panics before        *)
(* deletePod runs.                                                        *)
Tombstoned(M) ==
  /\ M \subseteq {n \in Nodes : alive[n]}
  /\ tombs' = tombs + Cardinality(M) /\ tombs' <= MaxTombstones

PodDelete(p) ==
  /\ ~deleted[p]
  /\ deleted' = [deleted EXCEPT ![p] = TRUE]
  /\ \E M \in SUBSET Nodes :
       LET r == [n \in Nodes |-> R(n)!DeleteLoop(p)]
           dies(n) == n \in M \/ r[n].panic
       IN  /\ Tombstoned(M)
           /\ ctr' = [n \in Nodes |-> IF alive[n] /\ ~dies(n) THEN r[n].st
                                        ELSE ctr[n]]
           /\ alive' = [n \in Nodes |-> alive[n] /\ ~dies(n)]
  /\ phase' = Requeue(p)
  /\ UNCHANGED <<status, target, lost>>

Next == \E p \in Pods : Schedule(p) \/ PreBind(p) \/ PodDelete(p)

(* No fairness: PreBind's client.Do has no timeout, so a binding cycle    *)
(* may hang for ever, and a dead daemon never comes back.                 *)
Spec == Init /\ [][Next]_vars

-----------------------------------------------------------------------------
Phases == {"pending", "unschedulable", "binding", "bound"}

TypeOK ==
  /\ alive \in [Nodes -> BOOLEAN]
  /\ phase \in [Pods -> Phases]
  /\ target \in [Pods -> Nodes \cup {None}]
  /\ deleted \in [Pods -> BOOLEAN]
  /\ lost \in 0 .. MaxLost /\ tombs \in 0 .. MaxTombstones
  /\ \A n \in Nodes : /\ NodeNames(n) \subseteq Pods
                      /\ DOMAIN status[n] \subseteq Cores

(***************************************************************************)
(* A pod the scheduler reports bound is held by the daemon of the node it *)
(* was bound to: PreBind accepts only a podBind answer that committed,    *)
(* and no later dry run, retry or deletion of another pod on any node    *)
(* removes it.                                                            *)
(***************************************************************************)
BoundPodHeld ==
  \A p \in Pods : phase[p] = "bound" /\ ~deleted[p] => p \in NodeNames(target[p])

(* The raw NodeAssuranceScorer preference of node n.                     *)
Preference(n) == AS!Score(Assurance[n], Mode)

(***************************************************************************)
(* The two score plugins together never send a pod to a dominated node:  *)
(* no feasible node has a less used core (rtschedulability's Status) and *)
(* an assurance the mode prefers at least as much.  Both NormalizeScores, *)
(* with their integer division and int64 arithmetic, must keep the order *)
(* of the raw scores, and Score must read the Status of this cycle.       *)
(***************************************************************************)
BestNodeNotDominated ==
  [][\A p \in Pods :
       Schedule(p) /\ phase'[p] = "binding" =>
         ~\E m \in Feasible(p) :
            /\ MinUsed(status'[m]) < MinUsed(status'[target'[p]])
            /\ Preference(m) >= Preference(target'[p])]_vars

(***************************************************************************)
(* Spec 4.2 and 8 ("delete inverse of bind"): once a pod is deleted and  *)
(* its binding cycle has ended, no running daemon holds bandwidth for it. *)
(***************************************************************************)
DeletedPodReleased ==
  \A p \in Pods, n \in Nodes :
     deleted[p] /\ phase[p] # "binding" /\ alive[n] => p \notin NodeNames(n)
=============================================================================
