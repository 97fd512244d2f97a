SPECIFICATION FairSpec
CONSTANTS
    Worker = {w1}
    Client = {}
    Main = Main
    Acceptor = Acceptor
    Nobody = Nobody
    NoClient = NoClient
    Unix = TRUE
    Backlog = 2
    MaxStarts = 1
PROPERTIES
    StopCompletes
CHECK_DEADLOCK FALSE
