SPECIFICATION FairSpec
CONSTANTS
    Ttl = 1
    MaxRuns = 1
    MaxTroubles = 2
INVARIANTS ReadyMeansExclusive NoLeaseLeft
PROPERTIES Converges
