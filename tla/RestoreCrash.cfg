SPECIFICATION Spec
CONSTANTS
    StackOrder <- MCStackOrder
    PSKs <- MCPSKs
    PortLimit = 40
    APIPort = 40
    Templates <- MCTemplates
    LocalName <- MCLocalName
    Starts <- MCStarts
    Writes <- MCWrites
    ConfigWrites <- MCConfigWrites
    DefaultConfig <- MCDefaultConfig
    MemberLists <- MCMemberLists
    MaxSteps = 3
    MaxFaults = 0
    MaxCrashes = 1
PROPERTY RestoreAllOrNothing
CHECK_DEADLOCK FALSE
