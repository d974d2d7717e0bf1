SPECIFICATION Spec
CONSTANTS
    r1 = r1
    r2 = r2
    Refs <- MCRefs
    Calls <- MCCalls
INVARIANT CardTellsTheCredential
PROPERTY BusyEnds
