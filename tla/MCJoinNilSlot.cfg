CONSTANTS
    Kinds <- MCKinds
    Names = {x, y}
    Vals <- MCVals
    Cond <- CondNilPasses
    Absent = Absent
    Nil = Nil
    Err = Err
SPECIFICATION Spec
INVARIANT ViewMatchesJoin
