----------------------------- MODULE MCPortScan -----------------------------
(* PortScan with symmetric hosts and ports, for TLC's runs.                 *)
EXTENDS PortScan, TLC

Interchangeable == Permutations(Hosts) \cup Permutations(Ports)
=============================================================================
