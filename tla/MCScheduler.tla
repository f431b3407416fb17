---------------------------- MODULE MCScheduler ----------------------------
(***************************************************************************)
(* Two single-core nodes and three pods of 40% bandwidth each: both nodes *)
(* fit two pods, so the third pod's node choice depends on the scores,   *)
(* and a lost podBind answer followed by a retry can fill a node.  Pod c *)
(* has no WCET for node m2.  The assurance annotations of m1 and m2     *)
(* differ, so the NodeAssuranceScorer weighs in on every choice.         *)
(***************************************************************************)
EXTENDS Scheduler

T(period, wcet, prio) == [Period |-> period, Wcet |-> wcet, Prio |-> prio]

MCPodTasks ==
  [p \in {"a", "b", "c"} |->
     CASE p = "a" -> << T(2500, 1000, 1) >>
       [] p = "b" -> << T(2500, 1000, 2) >>
       [] p = "c" -> << T(5000, 2000, 1) >>]

MCNoWcet == {<<"c", "m2">>}

(* An "assurance" annotation with text that is (numeric) or is not an      *)
(* integer.                                                               *)
Ann(numeric, value) == [present |-> TRUE, numeric |-> numeric, value |-> value]

(* The value sched.go's scenario leaves on its schedulable node (17 * 8), *)
(* and an annotation that is not a number.                                *)
MCAssurance == [n \in {"m1", "m2"} |-> IF n = "m1" THEN Ann(TRUE, 136)
                                                    ELSE Ann(FALSE, 0)]

(* An assurance so large that (score - lowest) * 100 exceeds the int range *)
(* of width IntWidth (MaxInt64 / 100 at width 64).                        *)
MCHugeAssurance == [n \in {"m1", "m2"} |-> IF n = "m1" THEN Ann(TRUE, 400)
                                                        ELSE Ann(FALSE, 0)]
=============================================================================
