\* One bootstrap, two restarts, one change of the beacon.
SPECIFICATION FairSpec
CONSTANTS
    MinBackoff = 2
    MaxBackoff = 30
    MaxLinks = 2
    MaxRestarts = 2
    MaxVersion = 1
    NoRecord = NoRecord
INVARIANTS TypeOK ConnectedExact
PROPERTIES LinkRecovers BeaconReaches
