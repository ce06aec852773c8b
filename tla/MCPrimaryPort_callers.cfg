CONSTANTS
    None = None
    Users = {u1, u2}
    Types = {t1, t2}
    MaxMessages = 1
    MaxOutages = 1
    MaxConnects = 2
    MaxThrows = 0
    MaxCalls = 2
    ReusePackages = FALSE
    HeadsMaySplit = TRUE
    BodiesMayBeLate = TRUE
SYMMETRY Symmetry
SPECIFICATION Spec
INVARIANTS
    RegistryInStep
PROPERTY
    RefusedForAReason
