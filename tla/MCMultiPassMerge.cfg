CONSTANTS
    MaxSources = 4
    MaxOpenArgs = {1, 3}
    Contents <- MCContents
SPECIFICATION Spec
INVARIANT TypeOK
INVARIANT OutputIsRefMerge
INVARIANT RoundsWithinLog
