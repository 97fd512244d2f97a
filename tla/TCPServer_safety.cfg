SPECIFICATION Spec
CONSTANTS
    Worker = {w1, w2}
    Client = {c1, c2}
    Main = Main
    Acceptor = Acceptor
    Nobody = Nobody
    NoClient = NoClient
    Unix = TRUE
    Backlog = 2
    MaxStarts = 2
SYMMETRY Symmetry
INVARIANTS
    GilDiscipline
    OneHolder
    NoLostRequest
    CloseAfterReply
    QuietWhenStopped
PROPERTIES
    ImplementsService
CHECK_DEADLOCK FALSE
