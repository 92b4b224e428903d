CONSTANTS
    MaxSources = 4
    MaxOpenArgs = {0, 1, 2, 3}
    Contents <- MCOneLine
SPECIFICATION Spec
VIEW RoundFreeView
PROPERTY Terminates
