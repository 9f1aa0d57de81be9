CONSTANTS
    Kinds = {K}
    SrcNames <- MCSrcNames
    Names <- MCNames
    Vals <- MCVals
    TargetView = TargetView
    NoName = NoName
    Absent = Absent
    Err = Err
    Drop = Drop
    Stages <- StagesNameOnly
SPECIFICATION Spec
PROPERTY UpdatesChangeTarget
