\* Two processes over one file, two migrations, a property with two resources; a manager
\* pair, a client and a hold beside them.
CONSTANTS
    p1 = p1  p2 = p2  m1 = m1  m2 = m2  h1 = h1
    LastResource = 2
    ToStatus = {"closed", "open"}
    Manager = {m1, m2}
    MaxVersion = 3
    Process = {p1, p2}
    LastMigration = 2
    Hold = {h1}
    MaxFaults = 1
SPECIFICATION FairSpec
INVARIANTS TypeOK ServingIsReady MigrationsOnceInOrder OneUpdatePerVersion
PROPERTIES SeedKeepsChanges GuaranteeSurvivesSweep RefusedSweepsCatchUp StartCompletes
