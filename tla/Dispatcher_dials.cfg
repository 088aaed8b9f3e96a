SPECIFICATION Spec
CONSTANTS
    Remotes = {n1, n2}
    Root = root
    Dials = {q1, q2}
    MaxFlaps = 1
    Nil = Nil
SYMMETRY Symmetry
INVARIANTS TriesAll ChoosesLeast StrayIsAbandoned RootCounts
CHECK_DEADLOCK FALSE
