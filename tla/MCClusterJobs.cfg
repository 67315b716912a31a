\* Two jobs of one repository and one outage.
SPECIFICATION Spec
CONSTANTS
    Node = {n1, n2}
    Job = {j1, j2}
    Repo <- OneRepo
    Stable = {n1}
    MaxOutages = 1
    None = None
INVARIANT PendingIsClaimable
PROPERTIES OutcomeFromLatestClaim LiveNodeKeepsItsJobs
