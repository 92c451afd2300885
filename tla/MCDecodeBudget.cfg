\* Three readers, one of them a client session that may be cancelled.
SPECIFICATION FairSpec
CONSTANTS
    s1 = s1
    s2 = s2
    s3 = s3
    Streams <- MCStreams
    Cancellable = {s1}
    Lens <- MCLens
    MaxFrame = 3
    Unit = 4
    Budget = 2
    MaxWaiters = 1
    MaxInvalid = 2
    MaxLeaks = 1
INVARIANTS TypeOK PermitsConserved MemoryBounded WaitersAccounted
PROPERTIES ReservationsEnd
