SPECIFICATION FairSpec
CONSTANTS
    Services = {"api", "api-next", "worker", "pytest"}
    MaxCrashes = 3
    MaxUps = 3
INVARIANTS
    SchemaOfRevision
    ServesItsSchema
    TablesFound
    OnlyKilledStop
PROPERTY EveryApiServes
CHECK_DEADLOCK FALSE
