SPECIFICATION FairSpec
CONSTANTS
    Tasks = {t1, t2}
    Pages = {p1, p2}
    Covers = {{p1}, {p1, p2}}
    MaxWrites = 2
    MaxCycles = 1
    Scenarios <- Orders
INVARIANTS
    BlocksSound ClaimsSound
PROPERTY Answered
CHECK_DEADLOCK FALSE
