SPECIFICATION HostSpec
CONSTANTS
    r1 = r1
    r2 = r2
    bad = bad
    none = none
    Refs <- MCRefs
    Entry = r1
    Unserviceable = bad
    NoFacts = none
INVARIANTS
    TopologyFollowsSource
PROPERTY SuppliesSource
