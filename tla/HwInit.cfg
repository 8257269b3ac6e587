CONSTANTS
    Environments <- MCEnvironments
    MaxDevices = 3
    MaxQueues = 3
SPECIFICATION Spec
INVARIANTS ReadyTable PortalOwnership CleanExit FaultsOnlyOutsideLimits
PROPERTY InitEnds
CHECK_DEADLOCK FALSE
