CONSTANTS
    None = None
    Malformed = Malformed
    OrderDirs <- MCInvalidDirs
    TickDirs <- MCInvalidDirs
    OutArgs <- MCOutArgs
    Limits = {None}
    IgnoreErrorsArgs = {FALSE, TRUE}
    Prior <- MCNoPrior
SPECIFICATION Spec
INVARIANT SucceedsOnlyOnValidInput
