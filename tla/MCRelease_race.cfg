SPECIFICATION ReleaseSpec
CONSTANTS
    Artifact = {a1}
    Cert = {c1, c2}
    Worker = {w1, w2}
    Offered = {"rollout", "deploy"}
    Erring = {"commit", "workflow"}
    MaxCommits = 3
    MaxFaults = 0
    Ingested = {TRUE, FALSE}
    HistoriesFull = TRUE
    None = None
SYMMETRY Interchangeable
INVARIANTS
    ReleaseTypeOK
    ReadyIsComplete
    VerificationHasRollout
