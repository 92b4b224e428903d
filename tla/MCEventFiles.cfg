CONSTANTS
    None = None
    Kind = "order"
    Entries <- MCEntries
    OnlyChannels = {None, 1}
    Accepted = {"a", "b"}
    Limits = {None, 1}
SPECIFICATION Spec
INVARIANT TypeOK
INVARIANT ListedFilesValid
INVARIANT DoneOnlyIfValid
INVARIANT NoLossNoDup
