CONSTANTS
    ViewGroup = "view"
    Groups <- MCGroups
    Served = {"apps"}
    Kinds <- MCKinds
    ListKind = "view"
    Names = {x}
    Vals = {1, 2}
    PatchTypes <- MCPatchTypes
    Absent = Absent
SPECIFICATION Spec
PROPERTY DeleteAllOfClears
