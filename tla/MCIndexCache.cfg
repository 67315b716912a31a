\* Two threads, one clone re-indexed once, one snapshot swapped out.
SPECIFICATION FairSpec
CONSTANTS
    None = None
    Thread = {t1, t2}
    Clone = {clone1}
    Snapshot = {snapshot1}
    MaxVersion = 2
    Size <- MCSize
    Cap <- MCCap
INVARIANTS OneLoader WaitsForLoader ServesCurrent SurvivorsWereInFlight
PROPERTIES CapKept RetiredLeaves
