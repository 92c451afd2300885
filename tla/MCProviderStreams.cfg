\* Three streams for two places: each limit is reached before the other.
SPECIFICATION FairSpec
CONSTANTS
    a = a
    b = b
    c = c
    p = p
    q = q
    r = r
    Streams <- MCStreams
    Peers <- MCPeers
    PeerMaps <- MCPeerMaps
    Foreign <- MCForeign
    MaxStreams = 2
    MaxPerPeer = 1
    MaxDeltas <- MCMaxDeltas
INVARIANTS TypeOK PermitsCounted LimitsHold NoTruncatedAnswer
PROPERTIES PermitsReturn
