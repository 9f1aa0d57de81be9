CONSTANTS
    Kinds <- MCKinds
    Names = {x, y}
    Vals <- MCVals
    Cond <- CondNilFails
    Absent = Absent
    Nil = Nil
    Err = Err
SPECIFICATION Spec
INVARIANT StoreTracksSource
