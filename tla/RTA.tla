-------------------------------- MODULE RTA --------------------------------
(***************************************************************************)
(* The schedulability analysis of the rubicante node daemon               *)
(* (src/rubicante/nodeImplementation.go): the hierarchical sporadic-server *)
(* response-time test of Task.checkSchedulability and                     *)
(* Container.checkSchedulability, and the binary search of                *)
(* Container.binSearch that finds the least bandwidth a container needs.  *)
(* All operators are pure; the daemon's state machine is in Rubicante.   *)
(*                                                                         *)
(* A task is a record [Period, Wcet, Prio]; a container is a record       *)
(* [name, tasks, band, prio, core].  The server period of every container *)
(* is the constant SERVERPERIOD (Container.period is always set to it).   *)
(***************************************************************************)
EXTENDS Integers, Sequences, Functions

CONSTANTS
  SERVERPERIOD,   \* replenishment period of every sporadic server (2500)
  THRESHOLDSCHED  \* bandwidth (%) below which a container is admitted (80)

ASSUME SERVERPERIOD \in Nat \ {0} /\ THRESHOLDSCHED \in 1..100

(* int(math.Ceil(float64(a)/float64(b))) for b > 0.                       *)
CeilDiv(a, b) == -((-a) \div b)

(* Sum of e(x) over a finite set of indices.                               *)
SumOf(S, e(_)) == SumFunctionOnSet([x \in S |-> e(x)], S)

(* Server capacity c.band * pser / 100 (Go integer division, band >= 0).   *)
Capacity(band) == (band * SERVERPERIOD) \div 100

(* Interference of the co-resident servers with priority above prioser:  *)
(* each consumes its whole capacity once (the deferrable-server term of   *)
(* the Go code is commented out).                                         *)
Interference(cs, prioser) ==
  SumOf({j \in DOMAIN cs : cs[j].prio > prioser}, LAMBDA j : Capacity(cs[j].band))

(* One step of the response-time recurrence of task t from wold.           *)
Step(t, tasks, interference, cser, wold) ==
  LET higher == {i \in DOMAIN tasks : tasks[i].Prio > t.Prio}
      loadHigher == SumOf(higher, LAMBDA i :
                      CeilDiv(wold + (tasks[i].Period - tasks[i].Wcet),
                              tasks[i].Period) * tasks[i].Wcet)
      load == t.Wcet + loadHigher
      gaps == (CeilDiv(load, cser) - 1) * (SERVERPERIOD - cser)
  IN  load + gaps + interference

(* The loop "for wnew != wold" of Task.checkSchedulability: it fails as   *)
(* soon as a value exceeds the bound ptask - (pser - cser).               *)
RECURSIVE Iterate(_, _, _, _, _, _)
Iterate(t, tasks, interference, cser, wold, wnew) ==
  IF wnew = wold THEN TRUE
  ELSE LET w == Step(t, tasks, interference, cser, wnew)
       IN  /\ w <= t.Period - (SERVERPERIOD - cser)
           /\ Iterate(t, tasks, interference, cser, wnew, w)

(***************************************************************************)
(* Task.checkSchedulability: the response time of task t of a container  *)
(* with server capacity cser and priority prioser, among the co-resident  *)
(* containers cs, starting from w0.  With cser <= 0 the Go code divides   *)
(* by zero in floating point; the model treats it as not schedulable     *)
(* (see README).                                                          *)
(***************************************************************************)
TaskSchedulable(t, tasks, cs, cser, prioser) ==
  /\ cser > 0
  /\ Iterate(t, tasks, Interference(cs, prioser), cser, 0,
             t.Wcet + (CeilDiv(t.Wcet, cser) - 1) * (SERVERPERIOD - cser))

(* Container.checkSchedulability: container c, at bandwidth band, meets    *)
(* every task deadline; priority -1 is never schedulable.                 *)
ContainerSchedulable(c, band, cs) ==
  /\ c.prio # -1
  /\ \A i \in DOMAIN c.tasks :
        TaskSchedulable(c.tasks[i], c.tasks, cs, Capacity(band), c.prio)

(* The outcome of binSearch for the final band.                          *)
BandResult(c, cs, band) ==
  [band |-> band,
   ok   |-> ContainerSchedulable(c, band, cs) /\ band < THRESHOLDSCHED]

(* The search loop of binSearch: "for minb < maxb-1", keeping maxb       *)
(* schedulable and minb not.                                              *)
RECURSIVE Search(_, _, _, _)
Search(c, cs, minb, maxb) ==
  IF minb < maxb - 1
  THEN LET medb == (minb + maxb) \div 2
       IN  IF ContainerSchedulable(c, medb, cs)
           THEN Search(c, cs, minb, medb) ELSE Search(c, cs, medb, maxb)
  ELSE maxb

(* Mutant: binSearch without the unit of overhead compensation.           *)
BinSearchNoOverhead(c, cs) ==
  LET allotted == SumOf({j \in DOMAIN cs : cs[j].prio > c.prio},
                        LAMBDA j : cs[j].band)
  IN  BandResult(c, cs, Search(c, cs, 0, 99 - allotted))

(***************************************************************************)
(* Container.binSearch: binary search on [0, 99 - allotted] where          *)
(* allotted is the bandwidth of the strictly higher-priority containers   *)
(* of cs, then one unit of overhead compensation.  The result is the band *)
(* left in c.band (it is written on both outcomes) and whether c is       *)
(* schedulable with it below THRESHOLDSCHED.                              *)
(***************************************************************************)
BinSearch(c, cs) ==
  LET allotted == SumOf({j \in DOMAIN cs : cs[j].prio > c.prio},
                        LAMBDA j : cs[j].band)
  IN  BandResult(c, cs, Search(c, cs, 0, 99 - allotted) + 1)

=============================================================================
