CONSTANTS
    NameSizes = {4, 8}
    LabelSizes = {0, 6}
    Dir <- MCDir
    Lens = {0, 4, 40, 84, 100}
    Views = {v1}
    InfoFails = TRUE

SPECIFICATION Spec

INVARIANT
    ReadDirReportsSize
