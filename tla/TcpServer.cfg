SPECIFICATION Spec
CONSTANTS
    p1 = p1
    p2 = p2
    NoPeer = NoPeer
    Peers <- TwoPeers
    MaxClients = 2
    PollLimit <- MCLimit
    MaxSaid <- MCSaid
    MaxStarts = 2
INVARIANTS TypeOK ClientsArePolled ReadNeverBlocks
PROPERTIES SaidIsShown AnswersWritten
CHECK_DEADLOCK FALSE
