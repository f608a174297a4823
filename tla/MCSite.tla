-------------------------------- MODULE MCSite --------------------------------
(* SitePublishing for TLC: workers, artifacts and certificates are interchangeable. *)
EXTENDS SitePublishing, TLC

Symmetry == Permutations(Worker) \cup Permutations(Artifact) \cup Permutations(Cert)
=============================================================================
