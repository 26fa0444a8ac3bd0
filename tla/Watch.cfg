SPECIFICATION FairSpec
CONSTANTS
    Run = {"r1", "r2"}
    v510 = v510
    v1000 = v1000
    Tag = {v510, v1000}
    Prefixed = {v510, v1000}
    SortsAfter = {v510}
    PerPage = 1
INVARIANTS
    ChangeSeenIsReported
    NoPileUp
PROPERTIES
    ChangeLeadsToIssue
