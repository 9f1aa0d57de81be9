CONSTANTS
    Kinds <- MCKinds
    Names = {x, y}
    Vals <- MCVals
    Cond <- CondLeq
    Absent = Absent
    Nil = Nil
    Err = Err
SPECIFICATION Spec
INVARIANTS TypeOK ViewMatchesJoin StoreTracksSource
PROPERTIES JoinDeltasFit
