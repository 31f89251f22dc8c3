SPECIFICATION FairSpec
CONSTANTS
    Scripts <- MCScripts
    MaxOther = 1
INVARIANT NothingMissed
INVARIANT Verdict
PROPERTY RoundsEnd
