------------------------------ MODULE NodeObject ------------------------------
(***************************************************************************)
(* The Node object of one machine in the API server, and the two daemons  *)
(* of that machine that write it:                                          *)
(*                                                                         *)
(*   malacoda   (malacoda/main.go) fetches its Node once at start, then    *)
(*              every period draws a new gamma; when it differs from the   *)
(*              "ASSURANCE" annotation of its copy it writes the assurance *)
(*              and the "Criticality" label into the copy and Updates it.  *)
(*   rubicante  (rubicante/routers.go) fetches its NODE once in            *)
(*              configClient; after every pod deletion updateSchedulability*)
(*              flips SCHEDULABLE and spec.unschedulable in NODE and       *)
(*              Updates it.                                                *)
(*   others     the kubelet's status updates and any other client: each   *)
(*              write bumps the object's resourceVersion.                 *)
(*                                                                         *)
(* Update is optimistic: the API server accepts it only when the copy's    *)
(* resourceVersion is the current one, and bumps the version.  Neither     *)
(* daemon keeps the object Update returns, so its copy keeps the version   *)
(* of its Get.  Rubicante's new schedulability is abstracted to a Boolean  *)
(* (whether some core is below THRESHOLDSCHED); Rubicante.tla computes it. *)
(***************************************************************************)
EXTENDS Integers

CONSTANTS
  Gammas,       \* values r1.Intn(10) may draw (a subset of 0..9)
  MaxWrites,    \* bound on the writes of other clients
  MaxRestarts   \* bound on rubicante restarts

ASSUME Gammas \subseteq 0 .. 9 /\ MaxWrites \in Nat /\ MaxRestarts \in Nat

NoAnn == -1          \* the Node has no ASSURANCE annotation
NoLabel == "none"    \* the Node has no Criticality label

Levels == {"NO", "LOW", "HI"}

NodeRec == [rv : Nat, ann : Gammas \cup {NoAnn},
            label : Levels \cup {NoLabel}, unsched : BOOLEAN]

VARIABLES
  server,       \* the Node as stored in the API server
  mcopy,        \* malacoda's node, from its one Get
  malacoda,     \* "off" before start, "up", "dead" after a panic
  rcopy,        \* rubicante's NODE, from configClient's Get
  SCHEDULABLE,  \* rubicante's belief about spec.unschedulable
  rubicante,    \* "off" before start, "up", "down" after a crash
  writes, restarts

vars == <<server, mcopy, malacoda, rcopy, SCHEDULABLE, rubicante,
          writes, restarts>>

TypeOK ==
  /\ server \in NodeRec /\ mcopy \in NodeRec /\ rcopy \in NodeRec
  /\ malacoda \in {"off", "up", "dead"} /\ rubicante \in {"off", "up", "down"}
  /\ SCHEDULABLE \in BOOLEAN
  /\ writes \in 0 .. MaxWrites /\ restarts \in 0 .. MaxRestarts

(* A Node as an administrator may have left it: no daemon has run yet.    *)
Init ==
  /\ server \in [rv : {0}, ann : Gammas \cup {NoAnn},
                 label : Levels \cup {NoLabel}, unsched : {FALSE}]
  /\ mcopy = server /\ rcopy = server
  /\ malacoda = "off" /\ rubicante = "off"
  /\ SCHEDULABLE = TRUE
  /\ writes = 0 /\ restarts = 0

(* strconv.Atoi of the annotation: "" (absent) is an error, read as 0.    *)
Atoi(a) == IF a = NoAnn THEN 0 ELSE a

(* The criticality level of an assurance.                                  *)
Level(assurance) ==
  IF assurance < 3 THEN "NO" ELSE IF assurance < 7 THEN "LOW" ELSE "HI"

(* nodes.Update(copy): accepted only at the current resourceVersion.       *)
Accepted(copy) == copy.rv = server.rv

Stored(copy) == [copy EXCEPT !.rv = server.rv + 1]

(* start: nodes.Get of the daemon's own Node, before the loop.            *)
MalacodaStart ==
  /\ malacoda = "off"
  /\ malacoda' = "up" /\ mcopy' = server
  /\ UNCHANGED <<server, rcopy, SCHEDULABLE, rubicante, writes, restarts>>

(* One pass of the for loop with gamma_new = g.  When g differs, the      *)
(* annotation and the label are written into the copy (the label in each *)
(* of its branches ends equal to the level) and the copy is Updated.  On *)
(* a conflict, fmt.Print(err.Error()) dereferences err, which is nil      *)
(* since the Get succeeded, and the daemon panics.                         *)
MalacodaLoop(g) ==
  /\ malacoda = "up"
  /\ IF Atoi(mcopy.ann) = g
       THEN UNCHANGED <<server, mcopy, malacoda>>
       ELSE LET new == [mcopy EXCEPT !.ann = g, !.label = Level(g)]
            IN  /\ mcopy' = new
                /\ IF Accepted(new)
                     THEN server' = Stored(new) /\ UNCHANGED malacoda
                     ELSE malacoda' = "dead" /\ UNCHANGED server
  /\ UNCHANGED <<rcopy, SCHEDULABLE, rubicante, writes, restarts>>

(* configClient, run by start: SCHEDULABLE = true and the Get of NODE.    *)
ConfigClient ==
  /\ rubicante = "down" => restarts < MaxRestarts
  /\ rubicante \in {"off", "down"}
  /\ rubicante' = "up" /\ rcopy' = server /\ SCHEDULABLE' = TRUE
  /\ restarts' = IF rubicante = "down" THEN restarts + 1 ELSE restarts
  /\ UNCHANGED <<server, mcopy, malacoda, writes>>

(* updateSchedulability after a deletion, schedulable being whether some *)
(* core is below THRESHOLDSCHED.  A failed Update is printed and ignored; *)
(* SCHEDULABLE has already been flipped.                                   *)
UpdateSchedulability(schedulable) ==
  /\ rubicante = "up"
  /\ IF schedulable # SCHEDULABLE
       THEN LET new == [rcopy EXCEPT !.unsched = ~schedulable]
            IN  /\ rcopy' = new /\ SCHEDULABLE' = schedulable
                /\ IF Accepted(new) THEN server' = Stored(new)
                                    ELSE UNCHANGED server
       ELSE UNCHANGED <<server, rcopy, SCHEDULABLE>>
  /\ UNCHANGED <<mcopy, malacoda, rubicante, writes, restarts>>

(* The rubicante process dies (the delete panic of Rubicante.tla).        *)
RubicanteCrash ==
  /\ rubicante = "up" /\ restarts < MaxRestarts
  /\ rubicante' = "down"
  /\ UNCHANGED <<server, mcopy, malacoda, rcopy, SCHEDULABLE, writes, restarts>>

(* Another client writes the Node (the kubelet's status, a label).        *)
OtherWrite ==
  /\ writes < MaxWrites
  /\ server' = [server EXCEPT !.rv = @ + 1] /\ writes' = writes + 1
  /\ UNCHANGED <<mcopy, malacoda, rcopy, SCHEDULABLE, rubicante, restarts>>

Next ==
  \/ MalacodaStart
  \/ \E g \in Gammas : MalacodaLoop(g)
  \/ ConfigClient
  \/ \E s \in BOOLEAN : UpdateSchedulability(s)
  \/ RubicanteCrash
  \/ OtherWrite

Spec == Init /\ [][Next]_vars

(* The Node in the API server says what the daemons last decided:        *)
(* spec.unschedulable is the negation of a running rubicante's            *)
(* SCHEDULABLE, and once malacoda has started (also after it died) the   *)
(* ASSURANCE annotation and Criticality label are those it last wrote    *)
(* into its copy ("Set the node Unschedulable if all the core have passed *)
(* the threshold", routers.go; "updating values", malacoda/main.go).      *)
NodeMirrorsDaemons ==
  /\ rubicante = "up" => server.unsched = ~SCHEDULABLE
  /\ malacoda # "off" => /\ server.ann = mcopy.ann
                         /\ server.label = mcopy.label
=============================================================================
