CONSTANTS
    MaxSources = 3
    MaxOpenArgs = {1}
    Contents <- MCContents
SPECIFICATION Spec
INVARIANT NoTmpLeftBehind
