SPECIFICATION FairSpec
CONSTANTS
    Schedulers = {s1, s2}
    Editors = {e1}
    Kinds = {"once", "every"}
    Interval = 1
    Never = never
    MaxTime = 2
    MaxChanges = 1
    MaxCrashes = 1
INVARIANTS OnceEach
PROPERTIES OneShotFires
CHECK_DEADLOCK FALSE
