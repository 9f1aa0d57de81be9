CONSTANTS
    Groups <- MCGroups
    Versions <- MCVersions
    KindNames <- MCKinds
    ViewGroup = view
    ViewVersion = v1alpha1
    NoKind = NoKind
    NoValue = NoValue
    NoMatch = NoMatch
    Err = Err
SPECIFICATION Spec
INVARIANTS TypeOK GetGVKMatchesSpec
