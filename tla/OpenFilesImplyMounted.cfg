CONSTANTS
    Segs <- MCSegs
    MaxDepth = 2
    InitDirs <- MCInitDirs
    InitFiles <- MCInitFiles
    Labels = {L1, L2}
    RoMounts = {TRUE, FALSE}
    AllocFails = TRUE
    MaxRefs = 3

SPECIFICATION Spec

INVARIANT
    OpenFilesImplyMounted
