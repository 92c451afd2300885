\* The waiters counter after a client session was dropped while it waited.
SPECIFICATION Spec
CONSTANTS
    s1 = s1
    s2 = s2
    s3 = s3
    Streams <- MCStreams
    Cancellable = {s1}
    Lens <- MCLens
    MaxFrame = 3
    Unit = 4
    Budget = 2
    MaxWaiters = 1
    MaxInvalid = 2
    MaxLeaks = 1
PROPERTIES RefusedOnlyWhenFull
