SPECIFICATION Spec
CONSTANTS
    Files = {1, 2}
    Bad = {3}
    Clashes = {{2, 4}}
    Gone = Gone
    None = None
    MaxVersion = 4
    MaxStarts = 2
INVARIANTS
    TypeOK
    QuietIsFresh
    AlwaysServes
PROPERTIES
    ComesToRest
CHECK_DEADLOCK FALSE
