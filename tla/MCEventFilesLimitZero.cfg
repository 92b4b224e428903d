CONSTANTS
    None = None
    Kind = "order"
    Entries <- MCEntries
    OnlyChannels = {None}
    Accepted = {"a", "b", "c"}
    Limits = {0}
SPECIFICATION Spec
INVARIANT LimitRespected
