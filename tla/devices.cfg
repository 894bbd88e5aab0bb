SPECIFICATION Spec
CONSTANTS
    Models <- MCModels
    Systems <- MCSystems
CHECK_DEADLOCK FALSE
INVARIANTS
    MapperCoversModel
    RefusalIsJustified
PROPERTIES
    MappingEnds
