CONSTANTS
    Kinds <- MCKinds
    Names = {x, y}
    Vals <- MCVals
    Cond <- CondValFails
    Absent = Absent
    Nil = Nil
    Err = Err
SPECIFICATION Spec
PROPERTY StoreUnchangedOnError
