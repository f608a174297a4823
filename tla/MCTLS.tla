-------------------------------- MODULE MCTLS --------------------------------
(* TLSCertificates for TLC: the workers are interchangeable. *)
EXTENDS TLSCertificates, TLC

Workers == Permutations(Worker)
=============================================================================
