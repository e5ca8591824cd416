SPECIFICATION RotationSpec
CONSTANTS
    Instance = {c1, c2}
    Ticket = {t1}
    Interval = 3
    MaxDelay = 0
    MaxFailures = 0
    MaxAge = 7
INVARIANT
    InFlightTicketsSurvive
