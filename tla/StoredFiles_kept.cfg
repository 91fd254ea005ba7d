SPECIFICATION StoredSpec
CONSTANTS
    Batches = {b1}
    Sweepers = {s1, s2}
    Cap = 2
    MaxFaults = 2
    NoBatch = NoBatch
    Removers = {d1, d2}
    Maker = maker
    MaxFailures = 2
    MaxDeaths = 1
    Creators = {c1, c2}
    Viewers = {v1}
    Deleters = {k1}
    Nobody = Nobody
    MaxBytes = 4
    MaxArtifacts = 2
    MaxFailed = 2
INVARIANTS SweepsKeepOff ImagesAgree
PROPERTIES EverythingSwept DeletesExactly ChildGoes
CHECK_DEADLOCK FALSE
