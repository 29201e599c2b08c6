\* Each flag absent, a valid integer or unparsable; other groups counting too.
CONSTANTS
    nil = nil
    Values <- MCValues
    Spelling <- MCSpelling
    Bad = "seven"
    NoValue = nil
    MaxChanges = 2
SPECIFICATION PolicySpec
INVARIANT PolicyTypeOK
PROPERTY UploadFlagsApplied FirstErrorStops SecondErrorKeepsFirst
\* The command returns after applying its flags.
CHECK_DEADLOCK FALSE
