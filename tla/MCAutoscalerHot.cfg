SPECIFICATION Spec
CONSTANTS
    Workloads = {w1, w2}
    MaxReplicas = 3
    MaxManual = 4
    InitReplicas = 2
    LogCap = 1
    MaxPosts = 1
    MaxToggles = 1
PROPERTIES
    HotNeverScalesDown
