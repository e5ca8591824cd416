SPECIFICATION MCSpec
CONSTANTS
    Provider = {p1}
    Default = Default
    Name = {n1}
    BadName = BadName
    Option = {alpn}
    MaxTicketers = 3
    Instance = {c1, c2}
    Ticket = {t1}
    Interval = 3
    MaxDelay = 1
    MaxFailures = 1
    MaxAge = 12
    RotatorInterval = {0, 1, 2, 3, 4, 6, 8}
    PerSecond = 2
    LifetimeCap = 6
    RotatorDelay = 1
    RotatorFailures = 1
    RotatorAge = 27
    Caller = {h1, h2}
    Keepalive = Keepalive
    MaxClones = 2
    MaxStreams = 2
    MaxCancels = 2
INVARIANTS
    ClientsAreAuthenticated
    ClonesBuildTheSame
    FixedTicketersAreGuarded
    SoleTaskKeepsTickets
    KeysAreRetired
    TicketsOpenForTheirLifetime
    PingsFailOnlyWhenClosed
PROPERTIES
    OrphanedTasksExit
    PingsReturn
    TasksEnd
