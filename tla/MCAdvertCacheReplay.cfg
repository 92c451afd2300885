\* A provider that falls silent: an older advert is accepted again.
\* After the last instant nothing is left to do.
SPECIFICATION Spec
CONSTANTS
    Nothing = Nothing
    Ttls = {4}
    TtlGrace = 2
    MaxSkew = 8
    MaxTtl = 8
    Interval = 2
    Offsets <- MCOffsets
    MaxLost = 10
    MaxVersion = 0
    MaxTime = 10
PROPERTIES AcceptsOnlyNewer
CHECK_DEADLOCK FALSE
