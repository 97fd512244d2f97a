SPECIFICATION FairSpec
CONSTANTS
    Worker = {w1}
    Client = {c1, c2}
    Main = Main
    Acceptor = Acceptor
    Nobody = Nobody
    NoClient = NoClient
    Unix = TRUE
    Backlog = 2
    MaxStarts = 2
PROPERTIES
    ServedWhileRunning
    StopReturnsOnceJoined
    StopHangsOnlyOn
CHECK_DEADLOCK FALSE
