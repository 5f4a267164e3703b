CONSTANTS
    Sources = {a, v}
    Vault = {v}
    FirstSources = {a, v}
    Cmds = {c1, c2, c3}
    MaxStarts = 2
    None = none
SPECIFICATION Spec
SYMMETRY CommandSymmetry
PROPERTY RotatedVerifies
CHECK_DEADLOCK FALSE
