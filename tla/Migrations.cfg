SPECIFICATION MigrationsSpec
CONSTANTS
    Runners = {r1, r2}
    LastFile = 3
    Rerunnable <- MCRerunnable
    MaxCrashes = 2
INVARIANTS
    SchemaIsAPrefixOfTheFiles
PROPERTIES
    EveryFileIsApplied
