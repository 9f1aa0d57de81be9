-------------------------- MODULE JoinEngineProofs --------------------------
(* Proofs about the join half of the delta engine (JoinEngine), for every  *)
(* set of kinds, names and values and every join condition.                *)
EXTENDS JoinEngine, TLAPS

StoreT == [Key -> Vals \cup {Absent}]

\* The join never fails: on no store contents, set of existing stores and
\* incoming object does evalJoin return an error (at least two base views,
\* and a condition that is TRUE or FALSE on every combination it meets).
NoJoinError ==
    \A st \in StoreT, cr \in SUBSET Kinds, o \in Obj : EvalJoin(st, cr, o) # Err

LEMMA ObjectKeyInKey ==
    ASSUME NEW o \in Obj PROVE ObjectKey(o) \in Key
BY DEF ObjectKey, Obj, Key

LEMMA StoredObjInObj ==
    ASSUME NEW k \in Key, NEW v \in Vals PROVE StoredObj(k, v) \in Obj
BY DEF StoredObj, Obj, Key

\* evaluateJoin, case Added, with a join that does not fail: it succeeds
\* and stores the incoming object.
LEMMA JoinAddedStore ==
    ASSUME NoJoinError, NEW st \in StoreT, NEW cr \in SUBSET Kinds, NEW o \in Obj
    PROVE  /\ JoinAdded(st, cr, o).err = FALSE
           /\ JoinAdded(st, cr, o).st = [st EXCEPT ![ObjectKey(o)] = o.val]
<1>1. EvalJoin(st, cr, o) # Err
  BY DEF NoJoinError
<1>2. QED
  BY <1>1 DEF JoinAdded

\* evaluateJoin, case Deleted, with a join that does not fail: it succeeds
\* and the key is absent afterwards, for an unknown or a stale object too.
LEMMA JoinDeletedStore ==
    ASSUME NoJoinError, NEW st \in StoreT, NEW cr \in SUBSET Kinds, NEW o \in Obj
    PROVE  /\ JoinDeleted(st, cr, o).err = FALSE
           /\ JoinDeleted(st, cr, o).st = [st EXCEPT ![ObjectKey(o)] = Absent]
<1> DEFINE k == ObjectKey(o)
<1>1. k \in Key
  BY ObjectKeyInKey
<1>2. CASE st[k] = Absent
  <2>1. st = [st EXCEPT ![k] = Absent]
    BY <1>1, <1>2 DEF StoreT
  <2>2. QED
    BY <1>2, <2>1 DEF JoinDeleted, Skip
<1>3. CASE st[k] # Absent
  <2>1. StoredObj(k, st[k]) \in Obj
    BY <1>1, <1>3, StoredObjInObj DEF StoreT
  <2>2. EvalJoin(st, cr, StoredObj(k, st[k])) # Err
    BY <2>1 DEF NoJoinError
  <2>3. QED
    BY <1>3, <2>2 DEF JoinDeleted
<1>4. QED
  BY <1>2, <1>3

\* evaluateJoin, case Updated/Replaced, with a join that does not fail: the
\* nested Deleted and the nested Added both succeed, and the store holds the
\* new content.
LEMMA JoinUpdatedStore ==
    ASSUME NoJoinError, NEW st \in StoreT, NEW cr \in SUBSET Kinds, NEW o \in Obj
    PROVE  /\ JoinUpdated(st, cr, o).err = FALSE
           /\ JoinUpdated(st, cr, o).st = [st EXCEPT ![ObjectKey(o)] = o.val]
<1> DEFINE k == ObjectKey(o)
           del == JoinDeleted(st, cr, o)
           add == JoinAdded(del.st, cr, o)
<1>1. k \in Key
  BY ObjectKeyInKey
<1>2. del.err = FALSE /\ del.st = [st EXCEPT ![k] = Absent]
  BY JoinDeletedStore
<1>3. del.st \in StoreT
  BY <1>1, <1>2 DEF StoreT
<1>4. add.err = FALSE /\ add.st = [del.st EXCEPT ![k] = o.val]
  BY <1>3, JoinAddedStore
<1>5. [[st EXCEPT ![k] = Absent] EXCEPT ![k] = o.val] = [st EXCEPT ![k] = o.val]
  BY <1>1 DEF StoreT
<1>6. QED
  BY <1>2, <1>4, <1>5 DEF JoinUpdated

\* The inductive invariant: the source is a collection, the store is it,
\* and the stores created are of the engine's kinds.
SInv == src \in StoreT /\ store = src /\ created \subseteq Kinds

LEMMA InitSInv == Init => SInv
BY DEF Init, SInv, StoreT

\* An event that is not a duplicate and is classified as an add or an
\* update stores the new content.
LEMMA UpsertStores ==
    ASSUME NoJoinError, NEW st \in StoreT, NEW cr \in SUBSET Kinds,
           NEW t \in DeltaType, NEW o \in Obj,
           st[ObjectKey(o)] # o.val,
           HandleUpsert(st, t, o) \in {"Added", "Updated", "Replaced"}
    PROVE  EvaluateJoin(st, cr, t, o).st = [st EXCEPT ![ObjectKey(o)] = o.val]
<1>1. IsValidEvent(st, t, o)
  BY DEF IsValidEvent
<1>2. CASE HandleUpsert(st, t, o) = "Added"
  BY <1>1, <1>2, JoinAddedStore DEF EvaluateJoin
<1>3. CASE HandleUpsert(st, t, o) # "Added"
  <2>1. HandleUpsert(st, t, o) # "Deleted"
    OBVIOUS
  <2>2. QED
    BY <1>1, <1>3, <2>1, JoinUpdatedStore DEF EvaluateJoin
<1>4. QED
  BY <1>2, <1>3

\* Every event the source produces takes the base store to the new source.
LEMMA NextSInv == NoJoinError => (SInv /\ [Next]_vars => SInv')
<1> SUFFICES ASSUME NoJoinError, SInv, [Next]_vars PROVE SInv'
  OBVIOUS
<1>1. store \in StoreT /\ created \subseteq Kinds
  BY DEF SInv
<1>2. CASE Next
  <2> PICK o \in Obj : \/ \E t \in DeltaType : Create(t, o) \/ Modify(t, o) \/ Resync(t, o)
                       \/ Remove(o)
    BY <1>2 DEF Next
  <2> DEFINE k == ObjectKey(o)
             cr == created \cup {o.kind}
  <2>0. o.val \in Vals /\ k \in Key /\ cr \in SUBSET Kinds
    BY <1>1, ObjectKeyInKey DEF Obj
  <2>1. ASSUME NEW t \in DeltaType, Create(t, o) PROVE SInv'
    <3>1. store[k] = Absent /\ store[k] # o.val
      BY <2>0, <2>1, ConstAssumption DEF Create, SInv
    <3>2. HandleUpsert(store, t, o) \in {"Added", "Updated", "Replaced"}
      BY <2>1, <3>1 DEF Create, HandleUpsert
    <3>3. store' = EvaluateJoin(store, cr, t, o).st
      BY <2>1 DEF Create, Process
    <3>4. EvaluateJoin(store, cr, t, o).st = [store EXCEPT ![k] = o.val]
      BY <1>1, <2>0, <3>1, <3>2, UpsertStores
    <3>5. src' = [store EXCEPT ![k] = o.val]
      BY <2>1 DEF Create, SInv
    <3>6. store' = src'
      BY <3>3, <3>4, <3>5
    <3>7. QED
      BY <2>0, <2>1, <3>6 DEF Create, Process, SInv, StoreT
  <2>2. ASSUME NEW t \in DeltaType, Modify(t, o) PROVE SInv'
    <3>1. store[k] # Absent /\ store[k] # o.val
      BY <2>2 DEF Modify, SInv
    <3>2. HandleUpsert(store, t, o) \in {"Added", "Updated", "Replaced"}
      BY <2>2, <3>1 DEF Modify, HandleUpsert
    <3>3. store' = EvaluateJoin(store, cr, t, o).st
      BY <2>2 DEF Modify, Process
    <3>4. EvaluateJoin(store, cr, t, o).st = [store EXCEPT ![k] = o.val]
      BY <1>1, <2>0, <3>1, <3>2, UpsertStores
    <3>5. src' = [store EXCEPT ![k] = o.val]
      BY <2>2 DEF Modify, SInv
    <3>6. store' = src'
      BY <3>3, <3>4, <3>5
    <3>7. QED
      BY <2>0, <2>2, <3>6 DEF Modify, Process, SInv, StoreT
  <2>3. ASSUME NEW t \in DeltaType, Resync(t, o) PROVE SInv'
    <3>1. ~ IsValidEvent(store, t, o)
      BY <2>3 DEF Resync, SInv, IsValidEvent
    <3>2. QED
      BY <2>0, <2>3, <3>1 DEF Resync, Process, EvaluateJoin, Skip, SInv
  <2>4. ASSUME Remove(o) PROVE SInv'
    <3>1. IsValidEvent(store, "Deleted", o) /\ HandleUpsert(store, "Deleted", o) = "Deleted"
      BY DEF IsValidEvent, HandleUpsert
    <3>2. EvaluateJoin(store, cr, "Deleted", o) = JoinDeleted(store, cr, o)
      BY <3>1 DEF EvaluateJoin
    <3>3. JoinDeleted(store, cr, o).st = [store EXCEPT ![k] = Absent]
      BY <1>1, <2>0, JoinDeletedStore
    <3>4. store' = src'
      BY <2>4, <3>2, <3>3 DEF Remove, Process, SInv
    <3>5. QED
      BY <2>0, <2>4, <3>4 DEF Remove, Process, SInv, StoreT
  <2>5. QED
    BY <2>1, <2>2, <2>3, <2>4
<1>3. CASE UNCHANGED vars
  BY <1>3 DEF vars, SInv
<1>4. QED
  BY <1>2, <1>3

\* The duplicate filter, the upsert classification and the nested Deleted
\* and Added of an update never lose an upstream change: with a join that
\* never fails, the base stores equal the source collection in every
\* reachable state, stale deletes and resyncs included.
THEOREM JoinStoreFollowsSource == NoJoinError => (Spec => []StoreTracksSource)
<1> SUFFICES ASSUME NoJoinError PROVE Spec => []StoreTracksSource
  OBVIOUS
<1>1. Init => SInv
  BY InitSInv
<1>2. SInv /\ [Next]_vars => SInv'
  BY NextSInv
<1>3. SInv => StoreTracksSource
  BY DEF SInv, StoreTracksSource
<1>4. QED
  BY <1>1, <1>2, <1>3, PTL DEF Spec
-----------------------------------------------------------------------------
(* Type correctness: every handler of evaluateJoin returns a store, a     *)
(* flag and deltas of join outputs, and the Updater keeps the target a    *)
(* map from output names to output objects.                                *)

\* What a handler of evaluateJoin returns.
ResultT == [err : BOOLEAN, st : StoreT, out : Out]

LEMMA NoOutType == NoOut \in Out
BY DEF NoOut, Out

\* The name of a combination's output is a set of keys.
LEMMA JoinObjectType ==
    ASSUME NEW c \in Combo PROVE JoinObject(c) \in JoinObj
<1>1. \A k \in {j \in Kinds : c[j] # Nil} : <<k, c[k].name>> \in Key
  BY DEF Combo, Obj, Key
<1>2. IDs(c) \in JoinName
  BY <1>1 DEF IDs, JoinName
<1>3. QED
  BY <1>2 DEF JoinObject, JoinObj

\* evalJoin returns an error or a set of output objects.
LEMMA EvalJoinType ==
    ASSUME NEW st, NEW cr, NEW o, EvalJoin(st, cr, o) # Err
    PROVE  EvalJoin(st, cr, o) \subseteq JoinObj
<1>1. Product(st, cr, o) \subseteq Combo
  BY DEF Product
<1>2. \A c \in {c \in Product(st, cr, o) : Cond[c] = TRUE} : JoinObject(c) \in JoinObj
  BY <1>1, JoinObjectType
<1>3. QED
  BY <1>2 DEF EvalJoin

LEMMA DeltasType ==
    ASSUME NEW t \in DeltaType, NEW os \in SUBSET JoinObj
    PROVE  Deltas(t, os) \subseteq DeltaRec
BY DEF Deltas, DeltaRec

LEMMA FailSkipType ==
    ASSUME NEW st \in StoreT PROVE Fail(st) \in ResultT /\ Skip(st) \in ResultT
BY NoOutType DEF Fail, Skip, ResultT

\* case Added returns the store with the object added and Added deltas.
LEMMA JoinAddedType ==
    ASSUME NEW st \in StoreT, NEW cr, NEW o \in Obj
    PROVE  JoinAdded(st, cr, o) \in ResultT
<1> DEFINE os == EvalJoin(st, cr, o)
<1>1. CASE os = Err
  BY <1>1, FailSkipType DEF JoinAdded
<1>2. CASE os # Err
  <2>1. Deltas("Added", os) \subseteq DeltaRec
    BY <1>2, EvalJoinType, DeltasType DEF DeltaType
  <2>2. [NoOut EXCEPT !.adds = Deltas("Added", os)] \in Out
    BY <2>1 DEF NoOut, Out
  <2>3. [st EXCEPT ![ObjectKey(o)] = o.val] \in StoreT
    BY ObjectKeyInKey DEF StoreT, Obj
  <2>4. QED
    BY <1>2, <2>2, <2>3 DEF JoinAdded, ResultT
<1>3. QED
  BY <1>1, <1>2

\* case Deleted returns the store with the key removed and Deleted deltas.
LEMMA JoinDeletedType ==
    ASSUME NEW st \in StoreT, NEW cr, NEW o \in Obj
    PROVE  JoinDeleted(st, cr, o) \in ResultT
<1> DEFINE k == ObjectKey(o)
           os == EvalJoin(st, cr, StoredObj(k, st[k]))
<1>1. CASE st[k] = Absent
  BY <1>1, FailSkipType DEF JoinDeleted
<1>2. CASE st[k] # Absent /\ os = Err
  BY <1>2, FailSkipType DEF JoinDeleted
<1>3. CASE st[k] # Absent /\ os # Err
  <2>1. Deltas("Deleted", os) \subseteq DeltaRec
    BY <1>3, EvalJoinType, DeltasType DEF DeltaType
  <2>2. [NoOut EXCEPT !.dels = Deltas("Deleted", os)] \in Out
    BY <2>1 DEF NoOut, Out
  <2>3. [st EXCEPT ![k] = Absent] \in StoreT
    BY ObjectKeyInKey DEF StoreT
  <2>4. QED
    BY <1>3, <2>2, <2>3 DEF JoinDeleted, ResultT
<1>4. QED
  BY <1>1, <1>2, <1>3

\* diffDeltas keeps deltas of output objects.
LEMMA DiffDeltasType ==
    ASSUME NEW dels \in SUBSET DeltaRec, NEW adds \in SUBSET DeltaRec
    PROVE  DiffDeltas(dels, adds) \in Out
<1>1. \A S \in SUBSET DeltaRec : {d.object : d \in S} \in SUBSET JoinObj
  BY DEF DeltaRec
<1>2. \A t \in DeltaType, S \in SUBSET DeltaRec :
        Deltas(t, {d.object : d \in S}) \subseteq DeltaRec
  BY <1>1, DeltasType
<1>3. QED
  BY <1>2 DEF DiffDeltas, Out, DeltaType

\* case Updated/Replaced returns a handler result too.
LEMMA JoinUpdatedType ==
    ASSUME NEW st \in StoreT, NEW cr, NEW o \in Obj
    PROVE  JoinUpdated(st, cr, o) \in ResultT
<1> DEFINE del == JoinDeleted(st, cr, o)
           add == JoinAdded(del.st, cr, o)
<1>1. del \in ResultT
  BY JoinDeletedType
<1>2. add \in ResultT
  BY <1>1, JoinAddedType DEF ResultT
<1>3. DiffDeltas(del.out.dels, add.out.adds) \in Out
  BY <1>1, <1>2, DiffDeltasType DEF ResultT, Out
<1>4. QED
  BY <1>1, <1>2, <1>3 DEF JoinUpdated, ResultT

LEMMA EvaluateJoinType ==
    ASSUME NEW st \in StoreT, NEW cr, NEW t, NEW o \in Obj
    PROVE  EvaluateJoin(st, cr, t, o) \in ResultT
BY FailSkipType, JoinAddedType, JoinDeletedType, JoinUpdatedType DEF EvaluateJoin

ViewT == [JoinName -> JoinObj \cup {Absent}]

\* The Updater writes an output object or removes one.
LEMMA ApplySetType ==
    ASSUME NEW v \in ViewT, NEW ds \in SUBSET DeltaRec
    PROVE  ApplySet(v, ds) \in ViewT
<1>1. \A d \in ds : Effect(d) \in JoinObj \cup {Absent}
  BY DEF Effect, DeltaRec
<1>2. \A n \in JoinName : (\E d \in ds : d.object.name = n) =>
        Effect(CHOOSE d \in ds : d.object.name = n) \in JoinObj \cup {Absent}
  BY <1>1
<1>3. QED
  BY <1>2 DEF ApplySet, ViewT

LEMMA ApplyOutType ==
    ASSUME NEW v \in ViewT, NEW o \in Out
    PROVE  ApplyOut(v, o) \in ViewT
BY ApplySetType DEF ApplyOut, Out

\* One event, whatever the handler returns, keeps the engine's state typed.
LEMMA ProcessType ==
    ASSUME TypeOK, NEW t, NEW o \in Obj, Process(t, o)
    PROVE  /\ created' \subseteq Kinds /\ store' \in StoreT /\ view' \in ViewT
           /\ out' \in Out /\ failed' \in BOOLEAN
<1> DEFINE cr == created \cup {o.kind}
           r == EvaluateJoin(store, cr, t, o)
<1>1. r \in ResultT
  BY EvaluateJoinType DEF TypeOK, StoreT
<1>2. view' = IF r.err THEN view ELSE ApplyOut(view, r.out)
  BY DEF Process
<1>3. view' \in ViewT
  BY <1>1, <1>2, ApplyOutType DEF TypeOK, ViewT, ResultT
<1>4. QED
  BY <1>1, <1>3 DEF Process, ResultT, Obj, TypeOK

LEMMA NextTypeOK == TypeOK /\ [Next]_vars => TypeOK'
<1> SUFFICES ASSUME TypeOK, [Next]_vars PROVE TypeOK'
  OBVIOUS
<1>1. CASE Next
  <2> PICK o \in Obj : \/ \E t \in DeltaType : Create(t, o) \/ Modify(t, o) \/ Resync(t, o)
                       \/ Remove(o)
    BY <1>1 DEF Next
  <2>1. \A v \in Vals \cup {Absent} : [src EXCEPT ![ObjectKey(o)] = v] \in StoreT
    BY ObjectKeyInKey DEF TypeOK, StoreT
  <2>2. o.val \in Vals
    BY DEF Obj
  <2>3. QED
    BY <2>1, <2>2, ProcessType DEF Create, Modify, Resync, Remove, TypeOK, StoreT, ViewT
<1>2. CASE UNCHANGED vars
  BY <1>2 DEF vars, TypeOK
<1>3. QED
  BY <1>1, <1>2

\* Whatever the join condition answers, errors included, the base stores
\* hold contents, the target maps output names to output objects, and each
\* event's deltas carry output objects named by their slots: evalJoin,
\* diffDeltas and the Updater never build anything else.
THEOREM JoinTypeCorrect == Spec => []TypeOK
<1>1. Init => TypeOK
  BY NoOutType DEF Init, TypeOK
<1>2. QED
  BY <1>1, NextTypeOK, PTL DEF Spec
=============================================================================
