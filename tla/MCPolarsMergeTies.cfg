CONSTANTS
    None = None
    Malformed = Malformed
    OrderDirs <- MCTieDirs
    TickDirs <- MCTieDirs
    OutArgs <- MCOutArgs
    Limits = {None}
    IgnoreErrorsArgs = {FALSE}
    Prior <- MCNoPrior
SPECIFICATION Spec
INVARIANT OutputIsStableMerge
