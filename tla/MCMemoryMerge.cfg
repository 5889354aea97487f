SPECIFICATION FairSpec
CONSTANTS
    r1 = r1
    Runs = {r1}
    Main = Main
    MaxEpisodes = 5
    MaxRecent = 2
    MaxFaults = 2
INVARIANTS
    TypeOK
    MarkerCertifies
    RecordNamesMergedEpisode
    RecentUntilObserved
PROPERTIES
    MergedRunIsFinal
    RecoveryCompletes
CHECK_DEADLOCK FALSE
