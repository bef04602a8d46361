CONSTANTS
    Operators = {o1, o2}
    Labels = {a, b}
    NoLabel = NoLabel
    Fps = {f, g}
    NotCanonical = bad
    MaxRuns = 3
    MaxKills = 1
SYMMETRY Symmetric
SPECIFICATION Spec
INVARIANTS TypeOK LabelsUnique PublishedCA
PROPERTY ImplementsRegistry
CHECK_DEADLOCK FALSE
