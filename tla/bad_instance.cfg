SPECIFICATION FairSpec
CONSTANTS
    good = good
    bad = bad
    Apps = {good, bad}
    BadApps = {bad}
    web = web
    Names = {web}
    NumFiles = 2
    Values = {1, 2}
    None = None
    FullEvery = 2
    MaxChanges = 2
    MaxFaults = 1
INVARIANTS
    BadInstanceContained
