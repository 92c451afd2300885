\* Two and a half minutes of a provider that changes its beacon or restarts.
\* After the last instant nothing is left to do.
SPECIFICATION Spec
CONSTANTS
    Nothing = Nothing
    Ttls = {4}
    TtlGrace = 2
    MaxSkew = 8
    MaxTtl = 8
    Interval = 2
    Offsets <- MCOffsets
    MaxLost = 1
    MaxVersion = 1
    MaxTime = 10
INVARIANTS TypeOK ShowsNewest KeepsUp
CHECK_DEADLOCK FALSE
