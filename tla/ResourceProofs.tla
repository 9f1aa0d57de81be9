--------------------------- MODULE ResourceProofs ---------------------------
(* Proofs about GetGVK (pkg/reconciler/resource.go) for every set of       *)
(* groups, versions and kinds and every answer of the REST mapper.         *)
EXTENDS Resource, TLAPS

\* The state is always a mapper answer and a description.
StateOK == mapper \in MapperState /\ res \in ResourceDesc

\* GetGVK, for any mapper answer and any description, returns an error
\* exactly when the configuration format admits no GVK, and an admitted
\* GVK otherwise: the view version is enforced, a written native version is
\* kept, and an omitted one is the mapper's.
LEMMA GetGVKCorrect ==
    ASSUME NEW m \in MapperState, NEW r \in ResourceDesc
    PROVE  /\ Acceptable(m, r) = {} => GetGVK(m, r) = Err
           /\ Acceptable(m, r) # {} => GetGVK(m, r) \in Acceptable(m, r)
<1> USE ResourceAssumption
<1>1. CASE r.kind = NoKind
  <2>1. Acceptable(m, r) = {}
    BY <1>1 DEF Acceptable
  <2>2. GetGVK(m, r) = Err
    BY <1>1 DEF GetGVK
  <2>. QED BY <2>1, <2>2
<1>2. CASE r.kind # NoKind /\ r.group \in {NoValue, ViewGroup}
  <2>. DEFINE x == [group |-> ViewGroup, version |-> ViewVersion, kind |-> r.kind]
  <2>1. GetGVK(m, r) = x
    BY <1>2 DEF GetGVK, GetGVKByGroupKind
  <2>2. x \in Acceptable(m, r)
    BY <1>2 DEF Acceptable, GVK, ResourceDesc
  <2>. QED BY <2>1, <2>2
<1>3. CASE r.kind # NoKind /\ r.group \notin {NoValue, ViewGroup} /\ r.version = NoValue
  <2>1. r.group \in Groups /\ r.kind \in KindNames
    BY <1>3 DEF ResourceDesc
  <2>2. m[<<r.group, r.kind>>] \in Versions \cup {NoMatch}
    BY <2>1 DEF MapperState
  <2>3. CASE m[<<r.group, r.kind>>] = NoMatch
    <3>1. Acceptable(m, r) = {}
      BY <1>3, <2>3 DEF Acceptable, GVK
    <3>2. GetGVK(m, r) = Err
      BY <1>3, <2>1, <2>3 DEF GetGVK, GetGVKByGroupKind
    <3>. QED BY <3>1, <3>2
  <2>4. CASE m[<<r.group, r.kind>>] \in Versions
    <3>. DEFINE x == [group |-> r.group, version |-> m[<<r.group, r.kind>>], kind |-> r.kind]
    <3>1. GetGVK(m, r) = x
      BY <1>3, <2>1, <2>4 DEF GetGVK, GetGVKByGroupKind
    <3>2. x \in Acceptable(m, r)
      BY <1>3, <2>1, <2>4 DEF Acceptable, GVK
    <3>. QED BY <3>1, <3>2
  <2>. QED BY <2>2, <2>3, <2>4
<1>4. CASE r.kind # NoKind /\ r.group \notin {NoValue, ViewGroup} /\ r.version # NoValue
  <2>. DEFINE x == [group |-> r.group, version |-> r.version, kind |-> r.kind]
  <2>1. GetGVK(m, r) = x
    BY <1>4 DEF GetGVK
  <2>2. x \in Acceptable(m, r)
    BY <1>4 DEF Acceptable, GVK, ResourceDesc
  <2>. QED BY <2>1, <2>2
<1>. QED BY <1>1, <1>2, <1>3, <1>4

\* The state stays a mapper answer and a description: a CRD change writes
\* one entry of the mapper, a new description is one of ResourceDesc.
LEMMA StateInvariant == Spec => []StateOK
<1>1. Init => StateOK
  BY DEF Init, StateOK
<1>2. StateOK /\ [Next]_vars => StateOK'
  BY DEF StateOK, Next, MapperChange, Describe, vars, MapperState
<1>. QED BY <1>1, <1>2, PTL DEF Spec

\* Whatever the API server serves and however it changes, every resolution
\* that GetGVK makes of a source or target description is the one the
\* configuration format admits.
THEOREM ResolutionCorrect == Spec => []GetGVKMatchesSpec
<1>1. StateOK => GetGVKMatchesSpec
  BY GetGVKCorrect DEF StateOK, GetGVKMatchesSpec
<1>. QED BY <1>1, StateInvariant, PTL

\* GetGVK always returns a full group/version/kind or an error, never a
\* GVK with an empty kind, an absent group or an absent version.
THEOREM ResourceTypeCorrect == Spec => []TypeOK
<1>1. StateOK => TypeOK
  <2> SUFFICES ASSUME StateOK PROVE GetGVK(mapper, res) \in GVK \cup {Err}
    BY DEF StateOK, TypeOK
  <2>1. Acceptable(mapper, res) \subseteq GVK
    BY DEF Acceptable
  <2>. QED BY <2>1, GetGVKCorrect DEF StateOK
<1>. QED BY <1>1, StateInvariant, PTL
=============================================================================
