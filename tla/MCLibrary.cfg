\* Two nodes with six beacons whose adverts live one unit and one of grace,
\* two keys, two clients that call the daemon at the same time, three calls to
\* the worker, whose time-out is two units, and every case of Draw.  A case
\* that was drawn and a call after the last end the behaviour.
SPECIFICATION MCSpec
CONSTANTS
    Keys = {k1, k2}
    OtherKeys = {rsa}
    Bad = bad
    None = none
    Contents <- MCContents
    Limits = {0, 2}
    Clients = {t1, t2}
    Calls = {c1, c2, c3}
    Durations = {0, 3}
    Timeout = 2
    Horizon = 5
    Printable <- MCPrintable
    Registry <- MCRegistry
    EncodedLen <- MCEncodedLen
    MaxInteger = 127
    MaxDepth = 2
    Width = 3
    Drawn <- MCDrawn
    PayloadTags <- MCPayloadTags
    KnownTags <- MCKnownTags
    Signers = {"A", "B"}
    Dids = {1, 2}
    Beacons <- MCBeacons
    Policies <- MCPolicies
    Ttl = 1
    Grace = 1
    MaxTime = 2
    NoAdvert = NoAdvert
    Catalogue <- MCCatalogue
    Inconvenient <- MCInconvenient
    Parsed <- MCParsed
    Apply <- MCApply
    Negate <- MCNegate
    IsZero <- MCIsZero
    IsFinite <- MCIsFinite
INVARIANTS TypeOK AnswersAreTrue StrangersDoNotMatter ActiveServes IdentityKept CallsAndResultsSettle DigestsTellApart SignaturesSurvive CurpRoundTrips ExpressionMeans AloneIsAnswered
PROPERTIES NoSilentSwap
CHECK_DEADLOCK FALSE
