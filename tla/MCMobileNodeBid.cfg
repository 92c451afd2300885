\* A mission that runs, against the rule of offer, bid and assignment.
SPECIFICATION Spec
CONSTANTS
    n1 = n1
    n2 = n2
    m1 = m1
    m2 = m2
    s1 = s1
    s2 = s2
    NoNavigator = NoNavigator
    NoMission = NoMission
    Missions <- MCMissions
    Navigators <- MCNavigators
    Gossip <- MCGossip
    Signed <- MCSigned
    Streams <- MCStreams
    Grace = 0
    Remembered = 1
    MaxActive = 1
    MaxVerifying = 1
    MaxTime = 1
INVARIANTS RunsOnlyAfterBid
