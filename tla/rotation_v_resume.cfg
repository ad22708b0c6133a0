SPECIFICATION RotationSpec
CONSTANTS
    KeyFiles = {f1, f2}
    MaxGeneration = 3
    MaxSets = 2
    MaxDeaths = 1
INVARIANT
    CrashResumes
