\* Two writes of two to four units; every write may be over.
SPECIFICATION Spec
CONSTANTS
    MaxTransfers = 2
    Lengths <- MCLengths
    BlockSize = 2
    PeerBlockSizes <- MCPeerBlockSizes
    MaxCopies <- MCMaxCopies
INVARIANTS OneBlockAtATime Intact WriteOutcome
CHECK_DEADLOCK FALSE
