SPECIFICATION FairSpec
CONSTANTS
    c1 = c1
    c2 = c2
    Instances = {c1, c2}
    Retention = 1
    OrphanGrace = 2
    Timely = TRUE
    MaxBackups = 2
    MaxFailures = 1
INVARIANTS
    TypeOK
    AlwaysRecoverable
PROPERTIES
    OrphansOnly
    BadStaysBad
    DamageFound
