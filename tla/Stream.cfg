\* Up to three frames, of all kinds, on a connection that may break.
SPECIFICATION Spec
CONSTANTS
    odd = odd
    MaxText = 2
    Delim = Delim
    End = End
    None = None
    Sealing = {"sealer"}
    Unloadable = {odd}
    Numbers = {"1", "7"}
    Objects <- MCObjects
    Alone <- MCAlone
    Kept <- MCKept
    MaxSends <- MCMaxSends
    MaxLost = 1
INVARIANTS
    TypeOK
    PiecesDoNotMatter
    Recovers
PROPERTY ChannelSpec
CHECK_DEADLOCK FALSE
