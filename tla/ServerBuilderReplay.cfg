SPECIFICATION Spec
CONSTANTS
    Provider = {p1}
    Default = Default
    Name = {n1}
    BadName = BadName
    Option = {alpn}
    MaxTicketers = 3
INVARIANT
    ReplayProtectionIsInstalled
CHECK_DEADLOCK FALSE
