------------------------------- MODULE MCTDMA -------------------------------
(* Model values for TDMA: two TDMA pods with lengths 50 and 35, a pod     *)
(* without network requirements and a TDMA pod without a usable           *)
(* annotation.  Slices of 50 and 35 end at 100 + 60a + 45b, so gaps and    *)
(* tails fall strictly inside the guard band as well as on its edges.    *)
EXTENDS TDMA

MCReq == [p \in Pods |-> CASE p = "p1" -> 50
                           [] p = "p2" -> 35
                           [] p = "p3" -> NoTDMA
                           [] p = "p4" -> BadSpec]
=============================================================================
