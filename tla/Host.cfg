SPECIFICATION Spec
CONSTANTS
    StackNames <- MCStackNames
    Shapes <- MCShapes
    Starts <- MCStarts
    Requests <- MCRequests
    Releases <- MCReleases
    Latest <- MCLatest
    Configured <- MCConfigured
    MaxCommands = 3
    MaxFaults = 1
INVARIANTS
    TypeOK
    BinariesOwned
    JobsAddressable
    UninstalledIsStopped
    OrphansWereRemoved
PROPERTIES
    ReplacedTogether
    InstallCompletes
    StartedRuns
    SharedTemplateKept
CHECK_DEADLOCK FALSE
