---------------------------- MODULE MCRubicante ----------------------------
(***************************************************************************)
(* Model of one rubicante node with two cores and five pods.  The task    *)
(* sets are chosen so that, within five requests, a co-resident container *)
(* must be re-searched after a higher-priority admission, a re-search can *)
(* fail, and a second core is used.  Pod e sends an empty task list.     *)
(***************************************************************************)
EXTENDS Rubicante

T(period, wcet, prio) == [Period |-> period, Wcet |-> wcet, Prio |-> prio]

MCPodTasks ==
  [p \in {"n0", "n1", "n2", "n3", "n4", "e"} |->
     CASE p = "n0" -> << T(2500, 100, 3) >>
       [] p = "n1" -> << T(20000, 1600, 3) >>
       [] p = "n2" -> << T(40000, 400, 3) >>
       [] p = "n3" -> << T(2500, 50, 2) >>
       [] p = "n4" -> << T(1250, 50, 3), T(10000, 200, 3) >>
       [] p = "e"  -> << >>]

(* Four pods of profile A and one of profile B: enough for the re-search  *)
(* of lower-priority containers to push a core past the threshold.        *)
MCThresholdTasks ==
  [p \in {"a1", "a2", "a3", "a4", "b"} |->
     IF p = "b" THEN << T(5000, 800, 1) >> ELSE << T(2500, 400, 1) >>]
=============================================================================
