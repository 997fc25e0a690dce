CONSTANTS
    p1 = p1
    p2 = p2
    none = none
    None = none
    Procs <- MCProcs
    Names <- MCNames
    Fold <- MCFold
    Contents <- MCContents
    BookOf <- MCBookOf
    DeviceCopy <- MCDeviceCopy
    NameOf <- MCNameOf
    Corrected <- MCCorrected
    Later <- MCLater
    FirstFiles <- MCFirstFiles
    MaxJobs = 2
    MaxOwner = 0
SYMMETRY Symmetry
CHECK_DEADLOCK FALSE
SPECIFICATION Spec
PROPERTIES NeverLastCopy
