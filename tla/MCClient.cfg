CONSTANTS
    None = None
    Tags = {t1, t2}
    Sessions = {s1, s2}
    Thinned = {s1}
    Windows = {w1, w2}
    MaxChoices = 3
    MaxFaults = 2
    MaxBoots = 1
    MaxFlight = 2
SPECIFICATION Spec
CHECK_DEADLOCK FALSE
INVARIANTS
    HolesHidden
    DetailOfWindow
PROPERTIES
    HolesHeal
    ShowsSelected
