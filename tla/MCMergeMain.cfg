CONSTANTS
    None = None
    OrderEntries <- MCOrderEntries
    TickEntries <- MCTickEntries
    OnlyChannels = {None, 1}
    Accepted = {"a", "b", "c"}
    Limits = {None, 1}
    OutArgs <- MCOutArgs
    WorkDirArgs <- MCWorkDirArgs
    MaxOpenArg = 2
    Prior <- MCPrior
SPECIFICATION Spec
INVARIANT TypeOK
INVARIANT EndToEndMatchesReference
INVARIANT TempRemovedWhenRequested
