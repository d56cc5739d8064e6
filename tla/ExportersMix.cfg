CONSTANTS
    Contents <- ThreeContents
    Scrapers = {s1, s2}
    MaxSnapshots = 3
SPECIFICATION Spec
INVARIANT ExportIsOneSnapshot
