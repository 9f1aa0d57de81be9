CONSTANTS
    Kinds = {K}
    SrcNames <- MCSrcNames
    Names <- MCNames
    Vals <- MCVals
    TargetView = TargetView
    NoName = NoName
    Absent = Absent
    Err = Err
    Drop = Drop
    Stages <- StagesMissing
SPECIFICATION Spec
PROPERTY StoreUnchangedOnError
