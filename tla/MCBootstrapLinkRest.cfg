\* The beacon at the bootstrap when both loops are at rest.
SPECIFICATION Spec
CONSTANTS
    MinBackoff = 2
    MaxBackoff = 30
    MaxLinks = 2
    MaxRestarts = 2
    MaxVersion = 1
    NoRecord = NoRecord
INVARIANTS RestsPublished
