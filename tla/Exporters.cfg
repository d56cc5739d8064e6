CONSTANTS
    Contents <- ThreeContents
    Scrapers = {s1, s2}
    MaxSnapshots = 3
SPECIFICATION FairSpec
INVARIANTS
    ReadersAgree
    DropsAreLoggedOnce
    ExportIsCurrent
PROPERTIES
    EverySeriesIsPushed
