------------------------------- MODULE MCRelease -------------------------------
(* PreviewRelease for TLC: workers, artifact versions and certificates are interchangeable. *)
EXTENDS PreviewRelease, TLC

Interchangeable == Permutations(Worker) \cup Permutations(Artifact) \cup Permutations(Cert)
=============================================================================
