CONSTANTS
    CPUs = {c1, c2}
    Counts <- MCCounts
    Settings = {flip, zero}
    Cap = 4
SPECIFICATION FairSpec
INVARIANT TypeOK
INVARIANT NeverFewerThanAsked
INVARIANT ExactWhenSerial
INVARIANT FaultsHaveTheirSettings
PROPERTY CampaignsEnd
CHECK_DEADLOCK TRUE
