CONSTANTS
    None = None
    Malformed = Malformed
    OrderDirs <- MCOrderDirs
    TickDirs <- MCTickDirs
    OutArgs <- MCOutArgs
    Limits = {None, 1}
    IgnoreErrorsArgs = {FALSE}
    Prior <- MCPrior
SPECIFICATION Spec
INVARIANT TypeOK
INVARIANT OutputsHoldTheirChannelRows
