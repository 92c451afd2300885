\* Two Navigators, two missions, two streams, a book of one entry.
SPECIFICATION Spec
CONSTANTS
    n1 = n1
    n2 = n2
    m1 = m1
    m2 = m2
    s1 = s1
    s2 = s2
    NoNavigator = NoNavigator
    NoMission = NoMission
    Missions <- MCMissions
    Navigators <- MCNavigators
    Gossip <- MCGossip
    Signed <- MCSigned
    Streams <- MCStreams
    Grace = 0
    Remembered = 1
    MaxActive = 1
    MaxVerifying = 2
    MaxTime = 1
SYMMETRY MCSymmetry
INVARIANTS TypeOK BookIsSigned NoLostWakeup ActiveCounted BidsOnce
PROPERTIES KeepsDispatchRule
