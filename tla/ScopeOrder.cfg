SPECIFICATION Spec
CONSTANTS
    StackOrder <- MCStackOrder
    PSKs <- MCPSKs
    PortLimit = 40
    APIPort = 40
    Starts <- MCStarts
    Contents <- MCContents
    Occupied <- MCOccupied
    MaxEdits = 1
INVARIANT
    ScopeOrdered
CHECK_DEADLOCK FALSE
