CONSTANTS
    NameSizes = {4}
    LabelSizes = {6}
    Dir <- MCDir
    Lens = {4, 100}
    Views = {v1, v2}
    InfoFails = TRUE

SPECIFICATION Spec

INVARIANT
    ListedShown

PROPERTY
    ListingSpec

CONSTRAINT
    ListedBound
