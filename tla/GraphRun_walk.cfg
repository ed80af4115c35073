SPECIFICATION Spec
CONSTANTS
    Catalog <- MCCatalog
    Worlds <- MCWorlds
    Names <- MCNames
    Data <- MCData
INVARIANTS
    AdmittedRunsAreWalkable
    InputsComeFromProducers
    ReplayKeepsTheWorld
CHECK_DEADLOCK FALSE
