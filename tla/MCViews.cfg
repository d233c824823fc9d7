SPECIFICATION MCSpec
CONSTANTS
    Ids = {i1, i2}
    Objects = {o1, o2, o3}
    ExtAddrs = {e1, e2, e3}
    InvalidExtAddr = e0
    Rloc16s = {r1, r2}
    InvalidRloc16 = r0
    Nil = nil
    UniqueExtAddrs = TRUE
INVARIANTS
    ShortFinds
    ResultsOnce
    StatsExact
    EnergyExact
    ViewsFollow
    ReplayFaithful
CHECK_DEADLOCK FALSE
