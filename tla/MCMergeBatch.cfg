CONSTANTS
    N = 3
    Inputs <- MCInputs
SPECIFICATION Spec
INVARIANT TypeOK
INVARIANT MergedIsRefMerge
PROPERTY ImplementsStableMerge
