\* One job through two outages.
SPECIFICATION FairSpec
CONSTANTS
    Node = {n1, n2}
    Job = {j1}
    Repo <- OneRepo
    Stable = {n1}
    MaxOutages = 2
    None = None
PROPERTY JobsEnd
