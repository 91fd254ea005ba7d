SPECIFICATION Spec
CONSTANTS
    Schedulers = {s1}
    Editors = {}
    Kinds = {"once"}
    Interval = 1
    Never = never
    MaxTime = 2
    MaxChanges = 1
    MaxCrashes = 0
PROPERTIES PauseSticks
CHECK_DEADLOCK FALSE
