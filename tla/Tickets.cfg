SPECIFICATION MCSpec
CONSTANTS
    Worker = {w1, w2}
    Rotator = {r1, r2}
    Ticket = {t1, t2}
    NoTicket = NoTicket
    NoAnswer = NoAnswer
    MaxKeys = 5
    Window = 3
    MaxLag = 1
    ClockSkew = 1
    MaxTime = 7
    GuardedRotator = {r1}
    GuardedKeys = 3
    GuardedTime = 1
SYMMETRY Symmetry
INVARIANTS
    RecentUsesAreRemembered
    SlotsMatchEpochs
    GuardedTicketsWereSealed
    GuardedTicketsWereLive
PROPERTIES
    ImplementsSingleUse
    ImplementsTicketEpochs
