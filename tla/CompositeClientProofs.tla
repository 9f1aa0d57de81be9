------------------------ MODULE CompositeClientProofs ------------------------
(* Proofs about the composite client (CompositeClient) for every set of    *)
(* groups, served groups, kinds, names, contents and patch types.          *)
EXTENDS CompositeClient, TLAPS

USE ClientAssumption


\* The shape of every step: a call that reports an error leaves both stores
\* as they were.
LEMMA NextFailedNoEffect ==
    [Next]_vars => (~last'.ok => viewCache' = viewCache /\ apiServer' = apiServer)
<1> SUFFICES ASSUME [Next]_vars, ~last'.ok PROVE viewCache' = viewCache /\ apiServer' = apiServer
  OBVIOUS
<1>1. CASE UNCHANGED vars
  BY <1>1 DEF vars
<1>2. CASE Next
  <2> PICK o \in Obj : \/ Create(o) \/ Update(o) \/ Delete(o) \/ DeleteAllOf(o)
                       \/ \E pt \in PatchTypes : Patch(o, pt)
                       \/ ExternalViewWrite(o)
    BY <1>2 DEF Next
  \* a write of the view cache always returns nil
  <2>1. ASSUME NEW op, NEW k, NEW v, ViewPut(op, k, o, v) PROVE FALSE
    BY <2>1 DEF ViewPut, Return
  <2>2. ASSUME NEW op, NEW ok, NEW v, ApiWrite(op, o, ok, v)
        PROVE  viewCache' = viewCache /\ apiServer' = apiServer
    BY <2>2 DEF ApiWrite, Return
  <2>3. ASSUME ApiDeleteAllOf(o) PROVE viewCache' = viewCache /\ apiServer' = apiServer
    BY <2>3 DEF ApiDeleteAllOf, Return
  <2>4. CASE Create(o) \/ Update(o) \/ Delete(o)
    BY <2>1, <2>2, <2>4 DEF Create, Update, Delete, ApiCreate, ApiUpdate, ApiDelete
  <2>5. CASE \E pt \in PatchTypes : Patch(o, pt)
    BY <2>1, <2>2, <2>5 DEF Patch, ApiPatch, Return
  <2>6. CASE DeleteAllOf(o)
    BY <2>1, <2>3, <2>6 DEF DeleteAllOf
  <2>7. CASE ExternalViewWrite(o)
    BY <2>1, <2>7 DEF ExternalViewWrite
  <2>8. QED
    BY <2>4, <2>5, <2>6, <2>7
<1>3. QED
  BY <1>1, <1>2

\* A client call that returns an error has changed neither the view cache
\* nor the API server, whatever the routing, so a caller may retry it.
THEOREM FailedCallsHaveNoEffect == Spec => FailedCallNoEffect
BY NextFailedNoEffect, PTL DEF Spec, FailedCallNoEffect
=============================================================================
