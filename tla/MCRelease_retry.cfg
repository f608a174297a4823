SPECIFICATION RetrySpec
CONSTANTS
    Artifact = {a1}
    Cert = {c1}
    Worker = {w1}
    Offered = {"rollout", "verify"}
    Erring = {"branch", "commit", "workflow", "dispatch"}
    MaxCommits = 4
    MaxFaults = 1
    Ingested = {TRUE}
    HistoriesFull = FALSE
    None = None
PROPERTIES
    ReleaseCompletes
