CONSTANTS
    Sources = {a, b, v}
    Vault = {v}
    FirstSources = {a, b}
    Cmds = {c1, c2, c3}
    MaxStarts = 2
    None = none
SPECIFICATION Spec
SYMMETRY CommandSymmetry
INVARIANT TypeOK
INVARIANT OnlyRemoveCuts
INVARIANT StartVerifiesWindow
CHECK_DEADLOCK FALSE
