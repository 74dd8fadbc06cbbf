SPECIFICATION Spec
CONSTANTS
    StackOrder <- MCStackOrder
    PSKs <- MCPSKs
    PortLimit = 40
    APIPort = 40
    Starts <- MCStarts
    Contents <- MCContents
    Occupied <- MCOccupied
    MaxEdits = 1
INVARIANTS
    TypeOK
    CycleFoundIffCyclic
    PlanIsClosedAndOrdered
    ScopeOfAllOrdered
    RenderedLinksConnect
    RenderedPortsFree
    RenderedUnlessKnown
    ExportedNodesAccepted
    AcceptedIsExportable
    InputsStayMergeable
    SurgeGroupsDefined
CHECK_DEADLOCK FALSE
