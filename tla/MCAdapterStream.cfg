SPECIFICATION Spec
CONSTANTS
    r1 = r1
    r2 = r2
    Requests <- MCRequests
    MaxCatalog = 3
    Listing <- MCListing
    MaxDeltas = 1
INVARIANTS
    RequestKeepsItsCatalog
    UpstreamIsStopped
    TimeoutIsTold
    DoneMeansFinished
PROPERTY NextSettles
