---------------------------- MODULE MCPartitions ----------------------------
(***************************************************************************)
(* Partitions for TLC: the first sector carries the signature, as that of  *)
(* a partitioned disk does, and taken as an EBR it has a link.             *)
(***************************************************************************)
EXTENDS Partitions

MCInit == Init /\ disk[0] = [signed |-> TRUE, next |-> 1]

MCFairSpec == MCInit /\ [][Next]_vars /\ WF_vars(Next)
=============================================================================
