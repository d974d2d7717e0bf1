SPECIFICATION Spec
CONSTANTS
    m1 = m1
    m2 = m2
    r1 = r1
    r2 = r2
    t1 = t1
    t2 = t2
    Migrations <- MCMigrations
    Rests <- MCRests
    Documents <- MCDocuments
    Stamps <- MCStamps
    Faults = {"read", "op", "crash"}
PROPERTY LateEditIsRefused
