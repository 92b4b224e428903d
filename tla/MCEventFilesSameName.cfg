CONSTANTS
    None = None
    Kind = "order"
    Entries <- MCEntriesSameName
    OnlyChannels = {None}
    Accepted = {"a"}
    Limits = {None}
SPECIFICATION Spec
INVARIANT NoLossNoDup
