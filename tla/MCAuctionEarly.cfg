\* The early closing of a window, against what its comment says.
SPECIFICATION Spec
CONSTANTS
    c1 = c1
    c2 = c2
    m1 = m1
    p1 = p1
    p2 = p2
    p3 = p3
    NoProvider = NoProvider
    Anyone = Anyone
    NoWindow = NoWindow
    Cycles <- MCCycles
    Missions <- MCMissions
    MissionOf <- MCMissionOf
    Providers <- MCProviders
    BidsOn <- MCBidsOn
    Terms <- MCTerms
    Required <- MCRequired
    Preferred <- MCPreferred
    Allowed <- MCAllowed
INVARIANTS EarlyCloseHasWinner
