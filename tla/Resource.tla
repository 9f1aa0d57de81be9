------------------------------- MODULE Resource -------------------------------
(***************************************************************************)
(* Resolution of a resource description {apiGroup?, version?, kind} to a   *)
(* group/version/kind (pkg/reconciler/resource.go: GetGVK and              *)
(* getGVKByGroupKind).  The REST mapper, which answers for the API server  *)
(* what it serves, changes as CRDs are installed, upgraded and removed;    *)
(* the resolution is redone on every call against its current answer.     *)
(***************************************************************************)
CONSTANTS
    Groups,       \* API groups of native resources ("" is the core group)
    Versions,     \* their versions
    KindNames,    \* kinds
    ViewGroup,    \* the view API group
    ViewVersion,  \* the one version of the view group
    NoKind,       \* an empty Kind
    NoValue,      \* an absent (nil) group or version in a description
    NoMatch,      \* the mapper serves no version of a group/kind
    Err           \* a resolution error

ASSUME ResourceAssumption ==
    /\ ViewGroup \notin Groups /\ ViewVersion \notin Versions
    /\ NoValue \notin Groups \cup Versions \cup {ViewGroup}
    /\ NoMatch \notin Versions \cup {ViewVersion}
    /\ NoKind \notin KindNames

VARIABLES
    mapper,       \* [Groups \X KindNames -> Versions \cup {NoMatch}]: preferred version
    res           \* the resource description being resolved

vars == <<mapper, res>>

ResourceDesc == [kind : KindNames \cup {NoKind}, group : Groups \cup {ViewGroup, NoValue},
                 version : Versions \cup {ViewVersion, NoValue}]
GVK == [group : Groups \cup {ViewGroup}, version : Versions \cup {ViewVersion}, kind : KindNames]
MapperState == [Groups \X KindNames -> Versions \cup {NoMatch}]

-----------------------------------------------------------------------------

\* Mutant: the mapper's error is not checked.
GetGVKByGroupKindNoErr(m, g, k) ==
    IF g = ViewGroup THEN [group |-> ViewGroup, version |-> ViewVersion, kind |-> k]
    ELSE [group |-> g, version |-> m[<<g, k>>], kind |-> k]

\* getGVKByGroupKind: a view gets the view group's version; anything else
\* is looked up in the REST mapper and is an error when nothing matches.
GetGVKByGroupKind(m, g, k) ==
    IF g = ViewGroup THEN [group |-> ViewGroup, version |-> ViewVersion, kind |-> k]
    ELSE IF m[<<g, k>>] = NoMatch THEN Err
    ELSE [group |-> g, version |-> m[<<g, k>>], kind |-> k]

\* Mutant: a view keeps the version its description gives.
GetGVKViewVersion(m, r) ==
    IF r.kind = NoKind THEN Err
    ELSE IF r.group \in {NoValue, ViewGroup}
         THEN IF r.version = NoValue THEN GetGVKByGroupKind(m, ViewGroup, r.kind)
              ELSE [group |-> ViewGroup, version |-> r.version, kind |-> r.kind]
    ELSE IF r.version = NoValue THEN GetGVKByGroupKind(m, r.group, r.kind)
    ELSE [group |-> r.group, version |-> r.version, kind |-> r.kind]

\* GetGVK: an empty Kind is an error; no group or the view group is a view
\* (version enforced); a native resource with a version is taken as given;
\* without a version it goes to the mapper.
GetGVK(m, r) ==
    IF r.kind = NoKind THEN Err
    ELSE IF r.group \in {NoValue, ViewGroup} THEN GetGVKByGroupKind(m, ViewGroup, r.kind)
    ELSE IF r.version = NoValue THEN GetGVKByGroupKind(m, r.group, r.kind)
    ELSE [group |-> r.group, version |-> r.version, kind |-> r.kind]

-----------------------------------------------------------------------------

Init == mapper \in MapperState /\ res \in ResourceDesc

\* A CRD is installed, upgraded to another preferred version, or removed.
MapperChange(g, k, v) ==
    /\ mapper[<<g, k>>] # v
    /\ mapper' = [mapper EXCEPT ![<<g, k>>] = v]
    /\ UNCHANGED res

\* The controller resolves another description (a source or the target).
Describe(r) == res' = r /\ UNCHANGED mapper

Next ==
    \/ \E g \in Groups, k \in KindNames, v \in Versions \cup {NoMatch} : MapperChange(g, k, v)
    \/ \E r \in ResourceDesc : Describe(r)

Spec == Init /\ [][Next]_vars

-----------------------------------------------------------------------------

TypeOK == mapper \in MapperState /\ res \in ResourceDesc /\ GetGVK(mapper, res) \in GVK \cup {Err}

\* The resolution the configuration format (spec 6, 3) describes, as the set
\* of acceptable answers: no kind, nothing; a view (apiGroup omitted or the
\* view group), the view group at its one version whatever version is
\* written; a native resource, its group and kind at the written version,
\* or at a version the API server serves when none is written.
Acceptable(m, r) ==
    {x \in GVK : /\ r.kind # NoKind /\ x.kind = r.kind
                 /\ IF r.group \in {NoValue, ViewGroup}
                    THEN x.group = ViewGroup /\ x.version = ViewVersion
                    ELSE /\ x.group = r.group
                         /\ IF r.version # NoValue THEN x.version = r.version
                            ELSE x.version = m[<<r.group, r.kind>>]}

\* GetGVK answers exactly as the format describes: an error when no answer
\* is acceptable, and an acceptable answer otherwise, whatever the API
\* server serves at the time of the call.
GetGVKMatchesSpec ==
    IF Acceptable(mapper, res) = {} THEN GetGVK(mapper, res) = Err
    ELSE GetGVK(mapper, res) \in Acceptable(mapper, res)

=============================================================================
