SPECIFICATION RetrySpec
CONSTANTS
    Artifact = {a1}
    Cert = {c1}
    Worker = {w1}
    Offered = {"publish", "rollout"}
    Erring = {"workflow", "commit"}
    MaxCommits = 3
    MaxFaults = 0
    Ingested = {TRUE}
    HistoriesFull = FALSE
    None = None
PROPERTIES
    GithubGateOpens
