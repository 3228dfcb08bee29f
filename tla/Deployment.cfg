SPECIFICATION FairSpec
CONSTANTS
    Migrations = 4
    RunMigrations = TRUE
    MaxFaults = 4
INVARIANTS
    TypeOK
    SchemaBeforeService
PROPERTIES
    ComesUp
    FailuresEnd
