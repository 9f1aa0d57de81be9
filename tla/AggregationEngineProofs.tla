---------------------- MODULE AggregationEngineProofs ----------------------
(***************************************************************************)
(* Proofs about the aggregation delta engine, for every value of the       *)
(* constants.                                                              *)
(***************************************************************************)
EXTENDS AggregationEngine, SequenceTheorems, TLAPS

StoreT == [Key -> Vals \cup {Absent}]
ViewT == [Names -> ViewDoc \cup {Absent}]

\* What every handler of the engine returns: an error flag, a store, and at
\* most two deltas (one from the delete half, one from the add half).
ResultOK(r) ==
    /\ r.err \in BOOLEAN
    /\ r.st \in StoreT
    /\ r.ds \in Seq(DeltaRec)
    /\ Len(r.ds) <= 2

\* The inductive invariant: the type invariant and the bound on the deltas
\* of one event.
IInv == TypeOK /\ Len(out) <= 2

-----------------------------------------------------------------------------

\* The aggregation of one object is an object of the target view, a drop
\* or an error.
LEMMA EvalAggregationType ==
    ASSUME NEW o
    PROVE  EvalAggregation(o) \in ViewDoc \cup {Drop, Err}
BY DEF EvalAggregation, Normalize, ViewDoc, Doc

LEMMA ObjectKeyType ==
    ASSUME NEW o \in Obj
    PROVE  ObjectKey(o) \in Key
BY DEF ObjectKey, Obj, Key

LEMMA AggAddedType ==
    ASSUME NEW st \in StoreT, NEW o \in Obj
    PROVE  /\ ResultOK(AggAdded(st, o))
           /\ Len(AggAdded(st, o).ds) <= 1
<1> DEFINE r == EvalAggregation(o)
<1>1. r \in ViewDoc \cup {Drop, Err}
  BY EvalAggregationType
<1>2. [st EXCEPT ![ObjectKey(o)] = o.val] \in StoreT
  BY ObjectKeyType DEF Obj, StoreT
<1>3. CASE r = Err
  BY <1>3 DEF AggAdded, ResultOK
<1>4. CASE r # Err /\ r = Drop
  BY <1>2, <1>4 DEF AggAdded, ResultOK
<1>5. CASE r \notin {Drop, Err}
  <2>1. Delta("Added", r) \in DeltaRec
    BY <1>1, <1>5 DEF Delta, DeltaRec, DeltaType
  <2>2. QED
    BY <1>2, <1>5, <2>1 DEF AggAdded, ResultOK
<1>6. QED
  BY <1>3, <1>4, <1>5

LEMMA AggDeletedType ==
    ASSUME NEW st \in StoreT, NEW o \in Obj
    PROVE  /\ ResultOK(AggDeleted(st, o))
           /\ Len(AggDeleted(st, o).ds) <= 1
<1> DEFINE k == ObjectKey(o)
           r == EvalAggregation(StoredObj(k, st[k]))
<1>1. k \in Key
  BY ObjectKeyType
<1>2. r \in ViewDoc \cup {Drop, Err}
  BY EvalAggregationType
<1>3. [st EXCEPT ![k] = Absent] \in StoreT
  BY <1>1 DEF StoreT
<1>4. CASE st[k] = Absent
  BY <1>4 DEF AggDeleted, ResultOK
<1>5. CASE st[k] # Absent /\ r = Err
  BY <1>5 DEF AggDeleted, ResultOK
<1>6. CASE st[k] # Absent /\ r # Err /\ r = Drop
  BY <1>3, <1>6 DEF AggDeleted, ResultOK
<1>7. CASE st[k] # Absent /\ r \notin {Drop, Err}
  <2>1. Delta("Deleted", r) \in DeltaRec
    BY <1>2, <1>7 DEF Delta, DeltaRec, DeltaType
  <2>2. QED
    BY <1>3, <1>7, <2>1 DEF AggDeleted, ResultOK
<1>8. QED
  BY <1>4, <1>5, <1>6, <1>7

LEMMA ConsolidateType ==
    ASSUME NEW dd \in Seq(DeltaRec), NEW ad \in Seq(DeltaRec),
           Len(dd) <= 1, Len(ad) <= 1
    PROVE  /\ Consolidate(dd, ad) \in Seq(DeltaRec)
           /\ Len(Consolidate(dd, ad)) <= 2
<1>1. CASE dd = <<>>
  BY <1>1 DEF Consolidate
<1>2. CASE dd # <<>> /\ ad = <<>>
  BY <1>2 DEF Consolidate
<1>3. CASE dd # <<>> /\ ad # <<>>
  <2>1. Len(dd) = 1 /\ Len(ad) = 1
    BY <1>3
  <2>2. dd[1] \in DeltaRec /\ ad[1] \in DeltaRec
    BY <2>1
  <2>3. Delta("Updated", ad[1].object) \in DeltaRec
    BY <2>2 DEF DeltaRec, Delta, DeltaType
  <2>4. <<dd[1], ad[1]>> \in Seq(DeltaRec) /\ <<Delta("Updated", ad[1].object)>> \in Seq(DeltaRec)
    BY <2>2, <2>3
  <2>5. QED
    BY <1>3, <2>4 DEF Consolidate
<1>4. QED
  BY <1>1, <1>2, <1>3

LEMMA AggUpdatedType ==
    ASSUME NEW st \in StoreT, NEW o \in Obj
    PROVE  ResultOK(AggUpdated(st, o))
<1> DEFINE del == AggDeleted(st, o)
           add == AggAdded(del.st, o)
<1>1. ResultOK(del) /\ Len(del.ds) <= 1
  BY AggDeletedType
<1>2. ResultOK(add) /\ Len(add.ds) <= 1
  BY <1>1, AggAddedType DEF ResultOK
<1>3. Consolidate(del.ds, add.ds) \in Seq(DeltaRec)
      /\ Len(Consolidate(del.ds, add.ds)) <= 2
  BY <1>1, <1>2, ConsolidateType DEF ResultOK
<1>4. QED
  BY <1>1, <1>2, <1>3 DEF AggUpdated, ResultOK

LEMMA EvaluateAggregationType ==
    ASSUME NEW st \in StoreT, NEW t \in DeltaType, NEW o \in Obj
    PROVE  ResultOK(EvaluateAggregation(st, t, o))
<1>1. ResultOK([err |-> FALSE, st |-> st, ds |-> <<>>])
  BY DEF ResultOK
<1>2. ResultOK(AggAdded(st, o)) /\ ResultOK(AggDeleted(st, o)) /\ ResultOK(AggUpdated(st, o))
  BY AggAddedType, AggDeletedType, AggUpdatedType
<1>3. QED
  BY <1>1, <1>2 DEF EvaluateAggregation

\* Applying at most two well-typed deltas to a well-typed view gives a
\* well-typed view.
LEMMA ApplyDeltasType ==
    ASSUME NEW v \in ViewT, NEW ds \in Seq(DeltaRec), Len(ds) <= 2
    PROVE  ApplyDeltas(v, ds) \in ViewT
<1> SUFFICES ASSUME NEW n \in Names,
                    \E i \in 1..Len(ds) : ds[i].object.name = n
             PROVE  LET i == CHOOSE i \in 1..Len(ds) :
                                 /\ ds[i].object.name = n
                                 /\ \A j \in (i + 1)..Len(ds) : ds[j].object.name # n
                    IN  Effect(ds[i]) \in ViewDoc \cup {Absent}
  BY DEF ApplyDeltas, ViewT
<1>1. \E i \in 1..Len(ds) : /\ ds[i].object.name = n
                            /\ \A j \in (i + 1)..Len(ds) : ds[j].object.name # n
  BY Len(ds) \in Nat
<1>2. ASSUME NEW i \in 1..Len(ds) PROVE Effect(ds[i]) \in ViewDoc \cup {Absent}
  <2>1. ds[i] \in DeltaRec
    OBVIOUS
  <2>2. ds[i].object \in ViewDoc
    BY <2>1 DEF DeltaRec
  <2>3. QED
    BY <2>2 DEF Effect
<1>3. QED
  BY <1>1, <1>2

-----------------------------------------------------------------------------

LEMMA InitIInv == Init => IInv
<1> SUFFICES ASSUME Init PROVE IInv
  OBVIOUS
<1>1. src \in [Key -> Vals \cup {Absent}] /\ store \in [Key -> Vals \cup {Absent}]
  BY DEF Init
<1>2. view \in [Names -> ViewDoc \cup {Absent}]
  BY DEF Init
<1>3. out \in Seq(DeltaRec) /\ Len(out) <= 2
  BY DEF Init
<1>4. failed \in BOOLEAN
  BY DEF Init
<1>5. QED
  BY <1>1, <1>2, <1>3, <1>4 DEF IInv, TypeOK

LEMMA NextIInv == IInv /\ [Next]_vars => IInv'
<1> SUFFICES ASSUME IInv, [Next]_vars PROVE IInv'
  OBVIOUS
<1>1. ASSUME NEW t \in DeltaType, NEW o \in Obj,
             store' = EvaluateAggregation(store, t, o).st,
             out' = EvaluateAggregation(store, t, o).ds,
             failed' = EvaluateAggregation(store, t, o).err,
             view' = IF EvaluateAggregation(store, t, o).err THEN view
                     ELSE ApplyDeltas(view, EvaluateAggregation(store, t, o).ds)
      PROVE  store' \in StoreT /\ out' \in Seq(DeltaRec) /\ Len(out') <= 2
             /\ failed' \in BOOLEAN /\ view' \in ViewT
  <2>1. ResultOK(EvaluateAggregation(store, t, o))
    BY EvaluateAggregationType DEF IInv, TypeOK, StoreT
  <2>2. ApplyDeltas(view, EvaluateAggregation(store, t, o).ds) \in ViewT
    BY <2>1, ApplyDeltasType DEF IInv, TypeOK, ViewT, ResultOK
  <2>3. QED
    BY <1>1, <2>1, <2>2 DEF ResultOK, IInv, TypeOK, ViewT
<1>2. ASSUME NEW o \in Obj, src' \in StoreT
      PROVE  src' \in [Key -> Vals \cup {Absent}]
  BY <1>2 DEF StoreT
<1>3. ASSUME NEW o \in Obj
      PROVE  [src EXCEPT ![ObjectKey(o)] = o.val] \in StoreT
             /\ [src EXCEPT ![ObjectKey(o)] = Absent] \in StoreT
  BY ObjectKeyType DEF IInv, TypeOK, StoreT, Obj
<1>4. CASE Next
  <2> PICK o \in Obj : \/ \E t \in DeltaType : Create(t, o) \/ Modify(t, o) \/ Resync(t, o)
                       \/ Remove(o)
    BY <1>4 DEF Next
  <2>1. ASSUME NEW t \in DeltaType, Create(t, o) PROVE IInv'
    BY <2>1, <1>1, <1>3 DEF Create, Process, IInv, TypeOK, StoreT, ViewT
  <2>2. ASSUME NEW t \in DeltaType, Modify(t, o) PROVE IInv'
    BY <2>2, <1>1, <1>3 DEF Modify, Process, IInv, TypeOK, StoreT, ViewT
  <2>3. ASSUME NEW t \in DeltaType, Resync(t, o) PROVE IInv'
    BY <2>3, <1>1 DEF Resync, Process, IInv, TypeOK, StoreT, ViewT
  <2>4. ASSUME Remove(o) PROVE IInv'
    <3>1. "Deleted" \in DeltaType
      BY DEF DeltaType
    <3>2. QED
      BY <2>4, <3>1, <1>1, <1>3 DEF Remove, Process, IInv, TypeOK, StoreT, ViewT
  <2>5. QED
    BY <2>1, <2>2, <2>3, <2>4
<1>5. CASE UNCHANGED vars
  BY <1>5 DEF vars, IInv, TypeOK
<1>6. QED
  BY <1>4, <1>5

\* The engine is well typed in every reachable state: the stores hold
\* contents of source objects, the emitted deltas carry objects of the
\* target view (Normalize stamps every result), and so does the view.
THEOREM TypeCorrect == Spec => []TypeOK
<1>1. Init => IInv
  BY InitIInv
<1>2. IInv /\ [Next]_vars => IInv'
  BY NextIInv
<1>3. IInv => TypeOK
  BY DEF IInv
<1>4. QED
  BY <1>1, <1>2, <1>3, PTL DEF Spec

-----------------------------------------------------------------------------
(* The base store follows the source.  It holds for every pipeline whose   *)
(* stages never fail on a source object; the run agg_missing shows that a  *)
(* failing stage breaks it.                                                *)

\* No stage of the pipeline fails on a source object.
NoStageError == \A o \in Obj : EvalAggregation(o) # Err

LEMMA StoredObjType ==
    ASSUME NEW k \in Key, NEW v \in Vals
    PROVE  StoredObj(k, v) \in Obj
BY DEF StoredObj, Key, Obj

\* evaluateAggregation, case Added, with a pipeline that does not fail:
\* it succeeds and stores the object.
LEMMA AggAddedStore ==
    ASSUME NoStageError, NEW st \in StoreT, NEW o \in Obj
    PROVE  /\ AggAdded(st, o).err = FALSE
           /\ AggAdded(st, o).st = [st EXCEPT ![ObjectKey(o)] = o.val]
<1>1. EvalAggregation(o) # Err
  BY DEF NoStageError
<1>2. QED
  BY <1>1 DEF AggAdded

\* evaluateAggregation, case Deleted, with a pipeline that does not fail:
\* it succeeds and the key is absent afterwards.
LEMMA AggDeletedStore ==
    ASSUME NoStageError, NEW st \in StoreT, NEW o \in Obj
    PROVE  /\ AggDeleted(st, o).err = FALSE
           /\ AggDeleted(st, o).st = [st EXCEPT ![ObjectKey(o)] = Absent]
<1> DEFINE k == ObjectKey(o)
<1>1. k \in Key
  BY ObjectKeyType
<1>2. CASE st[k] = Absent
  <2>1. st = [st EXCEPT ![k] = Absent]
    BY <1>1, <1>2 DEF StoreT
  <2>2. QED
    BY <1>2, <2>1 DEF AggDeleted
<1>3. CASE st[k] # Absent
  <2>1. StoredObj(k, st[k]) \in Obj
    BY <1>1, <1>3, StoredObjType DEF StoreT
  <2>2. EvalAggregation(StoredObj(k, st[k])) # Err
    BY <2>1 DEF NoStageError
  <2>3. QED
    BY <1>3, <2>2 DEF AggDeleted
<1>4. QED
  BY <1>2, <1>3

\* evaluateAggregation, case Updated/Replaced, with a pipeline that does
\* not fail: both halves succeed and the store holds the new content.
LEMMA AggUpdatedStore ==
    ASSUME NoStageError, NEW st \in StoreT, NEW o \in Obj
    PROVE  /\ AggUpdated(st, o).err = FALSE
           /\ AggUpdated(st, o).st = [st EXCEPT ![ObjectKey(o)] = o.val]
<1> DEFINE k == ObjectKey(o)
           del == AggDeleted(st, o)
           add == AggAdded(del.st, o)
<1>1. k \in Key
  BY ObjectKeyType
<1>2. del.err = FALSE /\ del.st = [st EXCEPT ![k] = Absent]
  BY AggDeletedStore
<1>3. del.st \in StoreT
  BY <1>1, <1>2 DEF StoreT
<1>4. add.err = FALSE /\ add.st = [del.st EXCEPT ![k] = o.val]
  BY <1>3, AggAddedStore
<1>5. [[st EXCEPT ![k] = Absent] EXCEPT ![k] = o.val] = [st EXCEPT ![k] = o.val]
  BY <1>1 DEF StoreT
<1>6. QED
  BY <1>2, <1>4, <1>5 DEF AggUpdated

\* The inductive invariant: the type invariant, the bound on the deltas,
\* and the store equal to the source.
SInv == IInv /\ store = src

LEMMA InitSInv == Init => SInv
BY InitIInv DEF Init, SInv


\* Every event the source produces takes the base store to the new source.
LEMMA NextSInv == NoStageError => (SInv /\ [Next]_vars => SInv')
<1> SUFFICES ASSUME NoStageError, SInv, [Next]_vars PROVE SInv'
  OBVIOUS
<1>1. IInv'
  BY NextIInv DEF SInv
<1>2. store \in StoreT
  BY DEF SInv, IInv, TypeOK, StoreT
<1>3. ASSUME NEW t \in DeltaType, NEW o \in Obj,
             store[ObjectKey(o)] # o.val,
             HandleUpsert(store, t, o) \in {"Added", "Updated", "Replaced"}
      PROVE  /\ EvaluateAggregation(store, t, o).err = FALSE
             /\ EvaluateAggregation(store, t, o).st = [store EXCEPT ![ObjectKey(o)] = o.val]
  <2>1. IsValidEvent(store, t, o)
    BY <1>3 DEF IsValidEvent
  <2>2. CASE HandleUpsert(store, t, o) = "Added"
    BY <1>2, <2>1, <2>2, AggAddedStore DEF EvaluateAggregation
  <2>3. CASE HandleUpsert(store, t, o) # "Added"
    <3>1. HandleUpsert(store, t, o) # "Deleted"
      BY <1>3
    <3>2. QED
      BY <1>2, <2>1, <2>3, <3>1, AggUpdatedStore DEF EvaluateAggregation
  <2>4. QED
    BY <2>2, <2>3
<1>4. CASE Next
  <2> PICK o \in Obj : \/ \E t \in DeltaType : Create(t, o) \/ Modify(t, o) \/ Resync(t, o)
                       \/ Remove(o)
    BY <1>4 DEF Next
  <2> DEFINE k == ObjectKey(o)
  <2>0. o.val \in Vals /\ k \in Key
    BY ObjectKeyType DEF Obj
  <2>1. ASSUME NEW t \in DeltaType, Create(t, o) PROVE store' = src'
    <3>1. store[k] = Absent /\ store[k] # o.val
      BY <2>0, <2>1, ConstAssumption DEF Create, SInv
    <3>2. HandleUpsert(store, t, o) \in {"Added", "Updated", "Replaced"}
      BY <2>1, <3>1 DEF Create, HandleUpsert
    <3>3. QED
      BY <2>1, <3>1, <3>2, <1>3 DEF Create, Process, SInv
  <2>2. ASSUME NEW t \in DeltaType, Modify(t, o) PROVE store' = src'
    <3>1. store[k] # Absent /\ store[k] # o.val
      BY <2>2 DEF Modify, SInv
    <3>2. HandleUpsert(store, t, o) \in {"Added", "Updated", "Replaced"}
      BY <2>2, <3>1 DEF Modify, HandleUpsert
    <3>3. QED
      BY <2>2, <3>1, <3>2, <1>3 DEF Modify, Process, SInv
  <2>3. ASSUME NEW t \in DeltaType, Resync(t, o) PROVE store' = src'
    <3>1. ~ IsValidEvent(store, t, o)
      BY <2>3 DEF Resync, SInv, IsValidEvent
    <3>2. QED
      BY <2>3, <3>1 DEF Resync, Process, EvaluateAggregation, SInv
  <2>4. ASSUME Remove(o) PROVE store' = src'
    <3>1. IsValidEvent(store, "Deleted", o) /\ HandleUpsert(store, "Deleted", o) = "Deleted"
      BY DEF IsValidEvent, HandleUpsert
    <3>2. EvaluateAggregation(store, "Deleted", o) = AggDeleted(store, o)
      BY <3>1 DEF EvaluateAggregation
    <3>3. AggDeleted(store, o).st = [store EXCEPT ![k] = Absent]
      BY <1>2, AggDeletedStore
    <3>4. QED
      BY <2>4, <3>2, <3>3 DEF Remove, Process, SInv
  <2>5. QED
    BY <1>1, <2>1, <2>2, <2>3, <2>4 DEF SInv
<1>5. CASE UNCHANGED vars
  BY <1>1, <1>5 DEF vars, SInv
<1>6. QED
  BY <1>4, <1>5

\* The duplicate filter and the upsert classification never lose an
\* upstream change: with a pipeline that does not fail, the engine's base
\* store equals the source collection in every reachable state.
THEOREM StoreFollowsSource == NoStageError => (Spec => []StoreTracksSource)
<1> SUFFICES ASSUME NoStageError PROVE Spec => []StoreTracksSource
  OBVIOUS
<1>1. Init => SInv
  BY InitSInv
<1>2. SInv /\ [Next]_vars => SInv'
  BY NextSInv
<1>3. SInv => StoreTracksSource
  BY DEF SInv, StoreTracksSource
<1>4. QED
  BY <1>1, <1>2, <1>3, PTL DEF Spec

-----------------------------------------------------------------------------
(* The target view follows the pipeline's result on the store.  It holds  *)
(* for every pipeline that never fails on a source object and gives the    *)
(* outputs of distinct source objects distinct names; the runs agg_missing *)
(* and agg_group show each condition broken.                               *)

\* The target writer applies no delta, one, or two in order: each name
\* ends with the effect of the last delta naming it.
LEMMA ApplyNone ==
    ASSUME NEW v \in ViewT PROVE ApplyDeltas(v, <<>>) = v
BY DEF ApplyDeltas, ViewT

LEMMA ApplyOne ==
    ASSUME NEW v \in ViewT, NEW d \in DeltaRec
    PROVE  ApplyDeltas(v, <<d>>) = [v EXCEPT ![d.object.name] = Effect(d)]
<1> DEFINE ds == <<d>>
           Last(n, i) == /\ ds[i].object.name = n
                         /\ \A j \in (i + 1)..Len(ds) : ds[j].object.name # n
           F(n) == IF \E i \in 1..Len(ds) : ds[i].object.name = n
                   THEN Effect(ds[CHOOSE i \in 1..Len(ds) : Last(n, i)])
                   ELSE v[n]
<1>1. d.object.name \in Names /\ DOMAIN v = Names /\ Len(ds) = 1
  BY DEF DeltaRec, ViewDoc, ViewT
<1>2. ApplyDeltas(v, ds) = [n \in Names |-> F(n)]
  BY <1>1 DEF ApplyDeltas
<1>3. ASSUME NEW n \in Names PROVE F(n) = [v EXCEPT ![d.object.name] = Effect(d)][n]
  <2>1. CASE n = d.object.name
    <3>1. \A i \in 1..1 : Last(n, i) <=> i = 1
      BY <2>1
    <3>2. (CHOOSE i \in 1..1 : Last(n, i)) = 1
      BY <3>1
    <3>3. QED
      BY <1>1, <2>1, <3>2
  <2>2. CASE n # d.object.name
    BY <1>1, <2>2
  <2>3. QED
    BY <2>1, <2>2
<1>4. QED
  BY <1>1, <1>2, <1>3 DEF ViewT

LEMMA ApplyTwo ==
    ASSUME NEW v \in ViewT, NEW d1 \in DeltaRec, NEW d2 \in DeltaRec
    PROVE  ApplyDeltas(v, <<d1, d2>>) =
             [[v EXCEPT ![d1.object.name] = Effect(d1)] EXCEPT ![d2.object.name] = Effect(d2)]
<1> DEFINE ds == <<d1, d2>>
           Last(n, i) == /\ ds[i].object.name = n
                         /\ \A j \in (i + 1)..Len(ds) : ds[j].object.name # n
           F(n) == IF \E i \in 1..Len(ds) : ds[i].object.name = n
                   THEN Effect(ds[CHOOSE i \in 1..Len(ds) : Last(n, i)])
                   ELSE v[n]
           R == [[v EXCEPT ![d1.object.name] = Effect(d1)] EXCEPT ![d2.object.name] = Effect(d2)]
<1>1. d1.object.name \in Names /\ d2.object.name \in Names /\ DOMAIN v = Names /\ Len(ds) = 2
  BY DEF DeltaRec, ViewDoc, ViewT
<1>2. ApplyDeltas(v, ds) = [n \in Names |-> F(n)]
  BY <1>1 DEF ApplyDeltas
<1>3. ASSUME NEW n \in Names PROVE F(n) = R[n]
  <2>1. CASE n = d2.object.name
    <3>1. \A i \in 1..2 : Last(n, i) <=> i = 2
      BY <1>1, <2>1
    <3>2. (CHOOSE i \in 1..2 : Last(n, i)) = 2
      BY <3>1
    <3>3. QED
      BY <1>1, <2>1, <3>2
  <2>2. CASE n = d1.object.name /\ n # d2.object.name
    <3>1. \A i \in 1..2 : Last(n, i) <=> i = 1
      BY <1>1, <2>2
    <3>2. (CHOOSE i \in 1..2 : Last(n, i)) = 1
      BY <3>1
    <3>3. QED
      BY <1>1, <2>2, <3>2
  <2>3. CASE n # d1.object.name /\ n # d2.object.name
    BY <1>1, <2>3
  <2>4. QED
    BY <2>1, <2>2, <2>3
<1>4. QED
  BY <1>1, <1>2, <1>3 DEF ViewT
\* The output of the stored object under a key, and the keys whose stored
\* object has an output (is neither absent nor dropped).
EA(st, k) == EvalAggregation(StoredObj(k, st[k]))
Live(st) == {k \in Key : st[k] # Absent /\ EA(st, k) \in ViewDoc}

\* The view holds exactly the outputs of the stored objects, each under
\* its own name.
VI(st, vw) ==
    /\ \A n \in Names : vw[n] # Absent =>
           \E k \in Live(st) : EA(st, k) = vw[n] /\ EA(st, k).name = n
    /\ \A k \in Live(st) : vw[EA(st, k).name] = EA(st, k)

\* The writes of one event for the key k: remove the output the old store
\* gave, then write the output the new store gives.
Clear(vw, st, k) == IF k \in Live(st) THEN [vw EXCEPT ![EA(st, k).name] = Absent] ELSE vw
Put(vw, st, k) == IF k \in Live(st) THEN [vw EXCEPT ![EA(st, k).name] = EA(st, k)] ELSE vw

\* Distinct source objects have outputs of distinct names (the pipeline
\* does not group).
DistinctOutputNames ==
    \A o1, o2 \in Obj :
        /\ ObjectKey(o1) # ObjectKey(o2)
        /\ EvalAggregation(o1) \in ViewDoc /\ EvalAggregation(o2) \in ViewDoc
        => EvalAggregation(o1).name # EvalAggregation(o2).name

LEMMA StoredObjKey ==
    ASSUME NEW k \in Key, NEW v PROVE ObjectKey(StoredObj(k, v)) = k
BY DEF ObjectKey, StoredObj, Key

LEMMA LiveNames ==
    ASSUME DistinctOutputNames, NEW st1 \in StoreT, NEW st2 \in StoreT,
           NEW j \in Live(st1), NEW k \in Live(st2), j # k
    PROVE  EA(st1, j).name # EA(st2, k).name
<1>1. StoredObj(j, st1[j]) \in Obj /\ StoredObj(k, st2[k]) \in Obj
  BY StoredObjType DEF Live, StoreT
<1>2. ObjectKey(StoredObj(j, st1[j])) # ObjectKey(StoredObj(k, st2[k]))
  BY StoredObjKey DEF Live
<1>3. QED
  BY <1>1, <1>2 DEF DistinctOutputNames, Live, EA

\* Replacing the stored object under one key, and writing the view as an
\* event does, keeps the view equal to the outputs of the store.
LEMMA ReplaceVI ==
    ASSUME DistinctOutputNames, NEW st \in StoreT, NEW vw \in ViewT, NEW k \in Key,
           NEW v \in Vals \cup {Absent}, VI(st, vw),
           NEW st2, st2 = [st EXCEPT ![k] = v],
           NEW vw2, vw2 = Put(Clear(vw, st, k), st2, k)
    PROVE  VI(st2, vw2)
<1> DEFINE vw1 == Clear(vw, st, k)
<1>1. st2 \in StoreT
  BY DEF StoreT
<1>2. \A j \in Key \ {k} : EA(st2, j) = EA(st, j) /\ (j \in Live(st2) <=> j \in Live(st))
  BY DEF EA, Live, StoreT
<1>3. \A j \in Live(st) \cup Live(st2) : EA(st, j) \in ViewDoc \/ EA(st2, j) \in ViewDoc
  BY DEF Live
<1>4. k \in Live(st) => EA(st, k).name \in Names
  BY DEF Live, ViewDoc
<1>5. k \in Live(st2) => EA(st2, k).name \in Names
  BY DEF Live, ViewDoc
\* the names of the other keys' outputs are untouched by the writes
<1>6. ASSUME NEW j \in Live(st), j # k
      PROVE  vw2[EA(st, j).name] = vw[EA(st, j).name]
  <2>1. EA(st, j).name \in Names
    BY DEF Live, ViewDoc
  <2>2. k \in Live(st) => EA(st, j).name # EA(st, k).name
    BY <1>6, LiveNames
  <2>3. k \in Live(st2) => EA(st, j).name # EA(st2, k).name
    BY <1>1, <1>6, LiveNames
  <2>4. vw1[EA(st, j).name] = vw[EA(st, j).name]
    BY <2>1, <2>2 DEF Clear, ViewT
  <2>5. QED
    BY <2>3, <2>4 DEF Put
<1>7. vw1 \in ViewT /\ vw2 \in ViewT
  <2>1. vw1 \in ViewT
    BY <1>4 DEF Clear, ViewT
  <2>2. k \in Live(st2) => EA(st2, k) \in ViewDoc
    BY DEF Live
  <2>3. QED
    BY <2>1, <2>2, <1>5 DEF Put, ViewT
<1>8. \A j \in Live(st2) : vw2[EA(st2, j).name] = EA(st2, j)
  <2> SUFFICES ASSUME NEW j \in Live(st2) PROVE vw2[EA(st2, j).name] = EA(st2, j)
    OBVIOUS
  <2>1. CASE j = k
    BY <1>5, <1>7, <2>1 DEF Put, ViewT
  <2>2. CASE j # k
    <3>1. j \in Live(st) /\ EA(st2, j) = EA(st, j)
      BY <1>2, <2>2 DEF Live
    <3>2. vw[EA(st, j).name] = EA(st, j)
      BY <3>1 DEF VI
    <3>3. QED
      BY <1>6, <2>2, <3>1, <3>2
  <2>3. QED
    BY <2>1, <2>2
<1>9. \A n \in Names : vw2[n] # Absent =>
          \E j \in Live(st2) : EA(st2, j) = vw2[n] /\ EA(st2, j).name = n
  <2> SUFFICES ASSUME NEW n \in Names, vw2[n] # Absent
               PROVE  \E j \in Live(st2) : EA(st2, j) = vw2[n] /\ EA(st2, j).name = n
    OBVIOUS
  <2>1. CASE k \in Live(st2) /\ n = EA(st2, k).name
    BY <1>5, <1>7, <2>1 DEF Put, ViewT
  <2>2. CASE ~ (k \in Live(st2) /\ n = EA(st2, k).name)
    <3>1. vw2[n] = vw1[n]
      BY <2>2 DEF Put
    <3>2. ~ (k \in Live(st) /\ n = EA(st, k).name) /\ vw1[n] = vw[n]
      BY <3>1 DEF Clear, ViewT
    <3>3. PICK j \in Live(st) : EA(st, j) = vw[n] /\ EA(st, j).name = n
      BY <3>1, <3>2 DEF VI
    <3>4. j # k
      BY <3>2, <3>3
    <3>5. j \in Live(st2) /\ EA(st2, j) = EA(st, j)
      BY <1>2, <3>4 DEF Live
    <3>6. QED
      BY <3>1, <3>2, <3>3, <3>5
  <2>3. QED
    BY <2>1, <2>2
<1>10. QED
  BY <1>8, <1>9 DEF VI
LEMMA StoredObjOfKey ==
    ASSUME NEW o \in Obj PROVE StoredObj(ObjectKey(o), o.val) = o
BY DEF StoredObj, ObjectKey, Obj

\* case Added, with a pipeline that does not fail: the Added delta of the
\* new object's output, when it has one.
LEMMA AddedChar ==
    ASSUME NoStageError, NEW st \in StoreT, NEW o \in Obj,
           NEW st2, st2 = [st EXCEPT ![ObjectKey(o)] = o.val]
    PROVE  AggAdded(st, o) =
             [err |-> FALSE, st |-> st2,
              ds  |-> IF ObjectKey(o) \in Live(st2)
                      THEN <<Delta("Added", EA(st2, ObjectKey(o)))>> ELSE <<>>]
<1> DEFINE kk == ObjectKey(o)
           rr == EvalAggregation(o)
<1>1. kk \in Key /\ o.val \in Vals
  BY ObjectKeyType DEF Obj
<1>2. EA(st2, kk) = rr
  BY <1>1, StoredObjOfKey DEF EA, StoreT
<1>3. rr \in ViewDoc \cup {Drop} /\ rr # Err
  BY EvalAggregationType DEF NoStageError
<1>4. kk \in Live(st2) <=> rr # Drop
  BY <1>1, <1>2, <1>3, ConstAssumption, SentinelAssumption DEF Live, StoreT
<1>5. QED
  BY <1>2, <1>3, <1>4 DEF AggAdded

\* case Deleted, with a pipeline that does not fail: the Deleted delta of
\* the stored object's output, when it has one.
LEMMA DeletedChar ==
    ASSUME NoStageError, NEW st \in StoreT, NEW o \in Obj
    PROVE  LET k == ObjectKey(o) IN
           AggDeleted(st, o) =
             [err |-> FALSE, st |-> [st EXCEPT ![k] = Absent],
              ds  |-> IF k \in Live(st) THEN <<Delta("Deleted", EA(st, k))>> ELSE <<>>]
<1> DEFINE kk == ObjectKey(o)
           rr == EA(st, kk)
<1>1. kk \in Key
  BY ObjectKeyType
<1>2. CASE st[kk] = Absent
  <2>1. st = [st EXCEPT ![kk] = Absent] /\ kk \notin Live(st)
    BY <1>1, <1>2 DEF StoreT, Live
  <2>2. QED
    BY <1>2, <2>1 DEF AggDeleted
<1>3. CASE st[kk] # Absent
  <2>1. StoredObj(kk, st[kk]) \in Obj
    BY <1>1, <1>3, StoredObjType DEF StoreT
  <2>2. rr \in ViewDoc \cup {Drop}
    BY <2>1, EvalAggregationType DEF NoStageError, EA
  <2>3. kk \in Live(st) <=> rr # Drop
    BY <1>1, <1>3, <2>2, SentinelAssumption DEF Live
  <2>4. EvalAggregation(StoredObj(kk, st[kk])) = rr
    BY DEF EA
  <2>5. AggDeleted(st, o) =
          [err |-> FALSE, st |-> [st EXCEPT ![kk] = Absent],
           ds  |-> IF rr = Drop THEN <<>> ELSE <<Delta("Deleted", rr)>>]
    BY <1>3, <2>2, <2>4, SentinelAssumption, ConstAssumption DEF AggDeleted
  <2>6. QED
    BY <2>3, <2>5
<1>4. QED
  BY <1>2, <1>3
LEMMA DeltaFacts ==
    ASSUME NEW e \in ViewDoc
    PROVE  /\ \A t \in DeltaType : Delta(t, e) \in DeltaRec
           /\ Effect(Delta("Added", e)) = e /\ Effect(Delta("Updated", e)) = e
           /\ Effect(Delta("Deleted", e)) = Absent
           /\ \A t \in DeltaType : Delta(t, e).object = e
BY DEF Delta, DeltaRec, Effect, DeltaType

\* case Added on a key the store does not hold writes the new output.
LEMMA AddedView ==
    ASSUME NoStageError, NEW st \in StoreT, NEW vw \in ViewT, NEW o \in Obj,
           st[ObjectKey(o)] = Absent
    PROVE  LET k == ObjectKey(o) IN
           ApplyDeltas(vw, AggAdded(st, o).ds) = Put(Clear(vw, st, k), AggAdded(st, o).st, k)
<1> DEFINE kk == ObjectKey(o)
           st2 == [st EXCEPT ![kk] = o.val]
<1>1. AggAdded(st, o) =
        [err |-> FALSE, st |-> st2,
         ds  |-> IF kk \in Live(st2) THEN <<Delta("Added", EA(st2, kk))>> ELSE <<>>]
  BY AddedChar
<1>2. Clear(vw, st, kk) = vw
  BY DEF Clear, Live
<1>3. CASE kk \in Live(st2)
  <2>1. EA(st2, kk) \in ViewDoc
    BY <1>3 DEF Live
  <2>2. ApplyDeltas(vw, <<Delta("Added", EA(st2, kk))>>) = [vw EXCEPT ![EA(st2, kk).name] = EA(st2, kk)]
    <3>1. Delta("Added", EA(st2, kk)) \in DeltaRec
      BY <2>1, DeltaFacts DEF DeltaType
    <3>2. QED
      <4>1. Delta("Added", EA(st2, kk)).object = EA(st2, kk)
        BY <2>1, DeltaFacts DEF DeltaType
      <4>2. Effect(Delta("Added", EA(st2, kk))) = EA(st2, kk)
        BY <2>1, DeltaFacts
      <4>3. QED
        BY <3>1, <4>1, <4>2, ApplyOne
  <2>3. QED
    BY <1>1, <1>2, <1>3, <2>2 DEF Put
<1>4. CASE kk \notin Live(st2)
  BY <1>1, <1>2, <1>4, ApplyNone DEF Put
<1>5. QED
  BY <1>3, <1>4

\* case Deleted removes the stored object's output.
LEMMA DeletedView ==
    ASSUME NoStageError, NEW st \in StoreT, NEW vw \in ViewT, NEW o \in Obj
    PROVE  LET k == ObjectKey(o) IN
           ApplyDeltas(vw, AggDeleted(st, o).ds) = Put(Clear(vw, st, k), AggDeleted(st, o).st, k)
<1> DEFINE kk == ObjectKey(o)
           st1 == [st EXCEPT ![kk] = Absent]
<1>1. AggDeleted(st, o) =
        [err |-> FALSE, st |-> st1,
         ds  |-> IF kk \in Live(st) THEN <<Delta("Deleted", EA(st, kk))>> ELSE <<>>]
  BY DeletedChar
<1>2. kk \notin Live(st1)
  BY ObjectKeyType DEF Live, StoreT
<1>3. CASE kk \in Live(st)
  <2>1. EA(st, kk) \in ViewDoc
    BY <1>3 DEF Live
  <2>2. ApplyDeltas(vw, <<Delta("Deleted", EA(st, kk))>>) = [vw EXCEPT ![EA(st, kk).name] = Absent]
    <3>1. Delta("Deleted", EA(st, kk)) \in DeltaRec
      BY <2>1, DeltaFacts DEF DeltaType
    <3>2. QED
      <4>1. Delta("Deleted", EA(st, kk)).object = EA(st, kk)
        BY <2>1, DeltaFacts DEF DeltaType
      <4>2. Effect(Delta("Deleted", EA(st, kk))) = Absent
        BY <2>1, DeltaFacts
      <4>3. QED
        BY <3>1, <4>1, <4>2, ApplyOne
  <2>3. QED
    BY <1>1, <1>2, <1>3, <2>2 DEF Put, Clear
<1>4. CASE kk \notin Live(st)
  BY <1>1, <1>2, <1>4, ApplyNone DEF Put, Clear
<1>5. QED
  BY <1>3, <1>4
\* case Updated/Replaced, with a pipeline that does not fail: the
\* consolidation of the delete half's and the add half's deltas.
LEMMA UpdatedChar ==
    ASSUME NoStageError, NEW st \in StoreT, NEW o \in Obj,
           NEW sNew, sNew = [st EXCEPT ![ObjectKey(o)] = o.val]
    PROVE  AggUpdated(st, o) =
             [err |-> FALSE, st |-> sNew,
              ds  |-> Consolidate(
                        IF ObjectKey(o) \in Live(st)
                        THEN <<Delta("Deleted", EA(st, ObjectKey(o)))>> ELSE <<>>,
                        IF ObjectKey(o) \in Live(sNew)
                        THEN <<Delta("Added", EA(sNew, ObjectKey(o)))>> ELSE <<>>)]
<1> DEFINE uk == ObjectKey(o)
           sDel == [st EXCEPT ![uk] = Absent]
           dDel == IF uk \in Live(st) THEN <<Delta("Deleted", EA(st, uk))>> ELSE <<>>
           dAdd == IF uk \in Live(sNew) THEN <<Delta("Added", EA(sNew, uk))>> ELSE <<>>
<1> HIDE DEF sDel
<1>1. uk \in Key /\ sDel \in StoreT /\ [sDel EXCEPT ![uk] = o.val] = sNew
  BY ObjectKeyType DEF StoreT, sDel
<1>2. AggDeleted(st, o) = [err |-> FALSE, st |-> sDel, ds |-> dDel]
  BY DeletedChar DEF sDel
<1>3. AggAdded(sDel, o) = [err |-> FALSE, st |-> sNew, ds |-> dAdd]
  BY <1>1, AddedChar
<1>4. AggDeleted(st, o).err = FALSE /\ AggAdded(AggDeleted(st, o).st, o).err = FALSE
  BY <1>2, <1>3
<1>5. AggUpdated(st, o) = [err |-> FALSE, st |-> AggAdded(AggDeleted(st, o).st, o).st,
                           ds |-> Consolidate(AggDeleted(st, o).ds,
                                              AggAdded(AggDeleted(st, o).st, o).ds)]
  BY <1>4 DEF AggUpdated
<1>6. AggDeleted(st, o).st = sDel /\ AggDeleted(st, o).ds = dDel
  BY <1>2
<1>7. AggAdded(sDel, o).st = sNew /\ AggAdded(sDel, o).ds = dAdd
  BY <1>3
<1>8. AggAdded(AggDeleted(st, o).st, o) = AggAdded(sDel, o)
  BY <1>6, Zenon
<1>9. QED
  BY <1>5, <1>6, <1>7, <1>8

LEMMA OneDelta ==
    ASSUME NEW vw \in ViewT, NEW t \in DeltaType, NEW e \in ViewDoc
    PROVE  ApplyDeltas(vw, <<Delta(t, e)>>) = [vw EXCEPT ![e.name] = Effect(Delta(t, e))]
<1>1. Delta(t, e) \in DeltaRec /\ Delta(t, e).object = e
  BY DeltaFacts
<1>2. QED
  BY <1>1, ApplyOne

LEMMA TwoDeltas ==
    ASSUME NEW vw \in ViewT, NEW t1 \in DeltaType, NEW e1 \in ViewDoc,
           NEW t2 \in DeltaType, NEW e2 \in ViewDoc
    PROVE  ApplyDeltas(vw, <<Delta(t1, e1), Delta(t2, e2)>>) =
             [[vw EXCEPT ![e1.name] = Effect(Delta(t1, e1))] EXCEPT ![e2.name] = Effect(Delta(t2, e2))]
<1>1. Delta(t1, e1) \in DeltaRec /\ Delta(t1, e1).object = e1
  BY DeltaFacts
<1>2. Delta(t2, e2) \in DeltaRec /\ Delta(t2, e2).object = e2
  BY DeltaFacts
<1>3. QED
  BY <1>1, <1>2, ApplyTwo

\* case Updated/Replaced: the consolidated deltas of the delete half and
\* the add half remove the old output and write the new one, whether the
\* halves are empty, name the same output (one Updated) or two outputs.
LEMMA UpdatedView ==
    ASSUME NoStageError, NEW st \in StoreT, NEW vw \in ViewT, NEW o \in Obj
    PROVE  LET k == ObjectKey(o) IN
           ApplyDeltas(vw, AggUpdated(st, o).ds) = Put(Clear(vw, st, k), AggUpdated(st, o).st, k)
<1> DEFINE uk == ObjectKey(o)
           sDel == [st EXCEPT ![uk] = Absent]
           sNew == [st EXCEPT ![uk] = o.val]
           eOld == EA(st, uk)
           eNew == EA(sNew, uk)
           dDel == IF uk \in Live(st) THEN <<Delta("Deleted", eOld)>> ELSE <<>>
           dAdd == IF uk \in Live(sNew) THEN <<Delta("Added", eNew)>> ELSE <<>>
<1> HIDE DEF sDel, sNew
<1>1. sNew = [st EXCEPT ![uk] = o.val]
  BY DEF sNew
<1>2. AggUpdated(st, o) = [err |-> FALSE, st |-> sNew, ds |-> Consolidate(dDel, dAdd)]
  BY <1>1, UpdatedChar
<1>3. (uk \in Live(st) => eOld \in ViewDoc) /\ (uk \in Live(sNew) => eNew \in ViewDoc)
  BY DEF Live
<1>4. "Deleted" \in DeltaType /\ "Added" \in DeltaType /\ "Updated" \in DeltaType
  BY DEF DeltaType
<1>5. ApplyDeltas(vw, Consolidate(dDel, dAdd)) = Put(Clear(vw, st, uk), sNew, uk)
  <2>1. CASE uk \notin Live(st) /\ uk \notin Live(sNew)
    BY <2>1, ApplyNone DEF Consolidate, Put, Clear
  <2>2. CASE uk \notin Live(st) /\ uk \in Live(sNew)
    <3>1. Consolidate(dDel, dAdd) = <<Delta("Added", eNew)>>
      BY <2>2 DEF Consolidate
    <3>2. eNew \in ViewDoc
      BY <1>3, <2>2
    <3>3. ApplyDeltas(vw, <<Delta("Added", eNew)>>) = [vw EXCEPT ![eNew.name] = Effect(Delta("Added", eNew))]
      BY <1>4, <3>2, OneDelta
    <3>4. Effect(Delta("Added", eNew)) = eNew
      BY <3>2, DeltaFacts
    <3>5. QED
      BY <2>2, <3>1, <3>3, <3>4 DEF Put, Clear
  <2>3. CASE uk \in Live(st) /\ uk \notin Live(sNew)
    <3>1. Consolidate(dDel, dAdd) = <<Delta("Deleted", eOld)>>
      BY <2>3 DEF Consolidate
    <3>2. eOld \in ViewDoc
      BY <1>3, <2>3
    <3>3. ApplyDeltas(vw, <<Delta("Deleted", eOld)>>) = [vw EXCEPT ![eOld.name] = Effect(Delta("Deleted", eOld))]
      BY <1>4, <3>2, OneDelta
    <3>4. Effect(Delta("Deleted", eOld)) = Absent
      BY <3>2, DeltaFacts
    <3>5. QED
      BY <2>3, <3>1, <3>3, <3>4 DEF Put, Clear
  <2>4. CASE uk \in Live(st) /\ uk \in Live(sNew) /\ eOld.name = eNew.name
    <3>0. eOld \in ViewDoc /\ eNew \in ViewDoc
      BY <1>3, <2>4
    <3>1. Delta("Deleted", eOld).object.name = eOld.name /\ Delta("Added", eNew).object = eNew
      BY <1>4, <3>0, DeltaFacts
    <3>2. Consolidate(dDel, dAdd) = <<Delta("Updated", eNew)>>
      BY <2>4, <3>1 DEF Consolidate
    <3>3. ApplyDeltas(vw, <<Delta("Updated", eNew)>>) = [vw EXCEPT ![eNew.name] = Effect(Delta("Updated", eNew))]
      BY <1>4, <3>0, OneDelta
    <3>4. Effect(Delta("Updated", eNew)) = eNew
      BY <3>0, DeltaFacts
    <3>5. QED
      BY <2>4, <3>2, <3>3, <3>4 DEF Put, Clear
  <2>5. CASE uk \in Live(st) /\ uk \in Live(sNew) /\ eOld.name # eNew.name
    <3>0. eOld \in ViewDoc /\ eNew \in ViewDoc
      BY <1>3, <2>5
    <3>1. Delta("Deleted", eOld).object.name = eOld.name /\ Delta("Added", eNew).object = eNew
      BY <1>4, <3>0, DeltaFacts
    <3>2. Consolidate(dDel, dAdd) = <<Delta("Deleted", eOld), Delta("Added", eNew)>>
      <4>1. dDel = <<Delta("Deleted", eOld)>> /\ dAdd = <<Delta("Added", eNew)>>
        BY <2>5
      <4>2. dDel # <<>> /\ dAdd # <<>> /\ dDel[1].object.name # dAdd[1].object.name
        BY <2>5, <3>1, <4>1
      <4>3. Consolidate(dDel, dAdd) = <<dDel[1], dAdd[1]>>
        BY <4>2 DEF Consolidate
      <4>4. QED
        BY <4>1, <4>3
    <3>3. ApplyDeltas(vw, <<Delta("Deleted", eOld), Delta("Added", eNew)>>)
            = [[vw EXCEPT ![eOld.name] = Effect(Delta("Deleted", eOld))]
                 EXCEPT ![eNew.name] = Effect(Delta("Added", eNew))]
      BY <1>4, <3>0, TwoDeltas
    <3>4. Effect(Delta("Deleted", eOld)) = Absent /\ Effect(Delta("Added", eNew)) = eNew
      BY <3>0, DeltaFacts
    <3>5. QED
      BY <2>5, <3>2, <3>3, <3>4 DEF Put, Clear
  <2>6. QED
    BY <2>1, <2>2, <2>3, <2>4, <2>5
<1>6. QED
  BY <1>2, <1>5
\* One event of evaluateAggregation, with a pipeline that neither fails nor
\* groups, keeps the view equal to the outputs of the store, provided an
\* event classified as an add finds its key absent (as the source ensures).
LEMMA EvalVI ==
    ASSUME NoStageError, DistinctOutputNames, NEW st \in StoreT, NEW vw \in ViewT,
           VI(st, vw), NEW t \in DeltaType, NEW o \in Obj,
           HandleUpsert(st, t, o) = "Added" => st[ObjectKey(o)] = Absent
    PROVE  /\ EvaluateAggregation(st, t, o).err = FALSE
           /\ VI(EvaluateAggregation(st, t, o).st,
                 ApplyDeltas(vw, EvaluateAggregation(st, t, o).ds))
<1> DEFINE kk == ObjectKey(o)
           t2 == HandleUpsert(st, t, o)
<1>0. kk \in Key /\ o.val \in Vals
  BY ObjectKeyType DEF Obj
<1>1. CASE ~ IsValidEvent(st, t, o)
  <2>1. EvaluateAggregation(st, t, o) = [err |-> FALSE, st |-> st, ds |-> <<>>]
    BY <1>1 DEF EvaluateAggregation
  <2>2. ApplyDeltas(vw, <<>>) = vw
    BY ApplyNone
  <2>3. QED
    BY <2>1, <2>2
<1>2. CASE IsValidEvent(st, t, o) /\ t2 = "Added"
  <2>1. EvaluateAggregation(st, t, o) = AggAdded(st, o)
    BY <1>2 DEF EvaluateAggregation
  <2>2. AggAdded(st, o).err = FALSE /\ AggAdded(st, o).st = [st EXCEPT ![kk] = o.val]
    BY AggAddedStore
  <2>3. ApplyDeltas(vw, AggAdded(st, o).ds) = Put(Clear(vw, st, kk), AggAdded(st, o).st, kk)
    BY <1>2, AddedView
  <2>4. VI(AggAdded(st, o).st, ApplyDeltas(vw, AggAdded(st, o).ds))
    BY <1>0, <2>2, <2>3, ReplaceVI
  <2>5. QED
    BY <2>1, <2>2, <2>4
<1>3. CASE IsValidEvent(st, t, o) /\ t2 = "Deleted"
  <2>1. EvaluateAggregation(st, t, o) = AggDeleted(st, o)
    BY <1>3 DEF EvaluateAggregation
  <2>2. AggDeleted(st, o).err = FALSE /\ AggDeleted(st, o).st = [st EXCEPT ![kk] = Absent]
    BY AggDeletedStore
  <2>3. ApplyDeltas(vw, AggDeleted(st, o).ds) = Put(Clear(vw, st, kk), AggDeleted(st, o).st, kk)
    BY DeletedView
  <2>4. VI(AggDeleted(st, o).st, ApplyDeltas(vw, AggDeleted(st, o).ds))
    BY <1>0, <2>2, <2>3, ReplaceVI
  <2>5. QED
    BY <2>1, <2>2, <2>4
<1>4. CASE IsValidEvent(st, t, o) /\ t2 \notin {"Added", "Deleted"}
  <2>1. EvaluateAggregation(st, t, o) = AggUpdated(st, o)
    BY <1>4 DEF EvaluateAggregation
  <2>2. AggUpdated(st, o).err = FALSE /\ AggUpdated(st, o).st = [st EXCEPT ![kk] = o.val]
    BY AggUpdatedStore
  <2>3. ApplyDeltas(vw, AggUpdated(st, o).ds) = Put(Clear(vw, st, kk), AggUpdated(st, o).st, kk)
    BY UpdatedView
  <2>4. VI(AggUpdated(st, o).st, ApplyDeltas(vw, AggUpdated(st, o).ds))
    BY <1>0, <2>2, <2>3, ReplaceVI
  <2>5. QED
    BY <2>1, <2>2, <2>4
<1>5. QED
  BY <1>1, <1>2, <1>3, <1>4
LEMMA ProcessVI ==
    ASSUME NoStageError, DistinctOutputNames, store \in StoreT, view \in ViewT,
           VI(store, view), NEW t \in DeltaType, NEW o \in Obj,
           t # "Added" \/ store[ObjectKey(o)] = Absent, Process(t, o)
    PROVE  VI(store', view')
<1> DEFINE r == EvaluateAggregation(store, t, o)
<1>1. HandleUpsert(store, t, o) = "Added" => store[ObjectKey(o)] = Absent
  BY DEF HandleUpsert
<1>2. r.err = FALSE /\ VI(r.st, ApplyDeltas(view, r.ds))
  BY <1>1, EvalVI
<1>3. store' = r.st /\ view' = ApplyDeltas(view, r.ds)
  BY <1>2 DEF Process
<1>4. QED
  BY <1>2, <1>3, Zenon

\* The view holds exactly the pipeline's result on the store.
LEMMA VIMatches ==
    ASSUME NEW st \in StoreT, NEW vw \in ViewT, VI(st, vw)
    PROVE  {vw[n] : n \in {m \in Names : vw[m] # Absent}} = Outputs(st)
<1>1. ASSUME NEW n \in Names, vw[n] # Absent PROVE vw[n] \in Outputs(st)
  <2>1. PICK k \in Live(st) : EA(st, k) = vw[n]
    BY <1>1 DEF VI
  <2>2. EA(st, k) \notin {Drop, Err}
    BY SentinelAssumption DEF Live
  <2>3. QED
    BY <2>1, <2>2 DEF Outputs, Live, EA
<1>2. ASSUME NEW x \in Outputs(st) PROVE \E n \in Names : vw[n] # Absent /\ vw[n] = x
  <2>1. PICK k \in {j \in Key : st[j] # Absent} : x = EA(st, k) /\ x \notin {Drop, Err}
    BY DEF Outputs, EA
  <2>2. StoredObj(k, st[k]) \in Obj
    BY StoredObjType DEF StoreT
  <2>3. x \in ViewDoc
    BY <2>1, EvalAggregationType DEF EA
  <2>4. k \in Live(st)
    BY <2>1, <2>3 DEF Live
  <2>5. vw[x.name] = x /\ x.name \in Names /\ x # Absent
    BY <2>1, <2>3, <2>4, SentinelAssumption DEF VI, ViewDoc
  <2>6. QED
    BY <2>5
<1>3. QED
  BY <1>1, <1>2

\* The inductive invariant: the store follows the source, and the view is
\* the pipeline's result on the store.
VInv == SInv /\ VI(store, view)

LEMMA InitVInv == Init => VInv
<1> SUFFICES ASSUME Init PROVE VInv
  OBVIOUS
<1>1. SInv
  BY InitSInv
<1>2. Live(store) = {}
  BY DEF Init, Live
<1>3. QED
  BY <1>1, <1>2 DEF VInv, VI, Init

LEMMA NextVInv ==
    NoStageError /\ DistinctOutputNames => (VInv /\ [Next]_vars => VInv')
<1> SUFFICES ASSUME NoStageError, DistinctOutputNames, VInv, [Next]_vars PROVE VInv'
  OBVIOUS
<1>0. store \in StoreT /\ view \in ViewT /\ VI(store, view) /\ store = src
  BY DEF VInv, SInv, IInv, TypeOK, StoreT, ViewT
<1>1. SInv'
  BY NextSInv DEF VInv
<1>2. CASE Next
  <2> PICK o \in Obj : \/ \E t \in DeltaType : Create(t, o) \/ Modify(t, o) \/ Resync(t, o)
                       \/ Remove(o)
    BY <1>2 DEF Next
  <2>1. ASSUME NEW t \in DeltaType, Create(t, o) PROVE VI(store', view')
    BY <1>0, <2>1, ProcessVI DEF Create
  <2>2. ASSUME NEW t \in DeltaType, Modify(t, o) PROVE VI(store', view')
    BY <1>0, <2>2, ProcessVI DEF Modify
  <2>3. ASSUME NEW t \in DeltaType, Resync(t, o) PROVE VI(store', view')
    BY <1>0, <2>3, ProcessVI DEF Resync
  <2>4. ASSUME Remove(o) PROVE VI(store', view')
    <3>1. "Deleted" \in DeltaType
      BY DEF DeltaType
    <3>2. QED
      BY <1>0, <2>4, <3>1, ProcessVI DEF Remove
  <2>5. QED
    BY <1>1, <2>1, <2>2, <2>3, <2>4 DEF VInv
<1>3. CASE UNCHANGED vars
  BY <1>0, <1>1, <1>3 DEF vars, VInv
<1>4. QED
  BY <1>2, <1>3

\* evaluateAggregation's incremental deltas are correct: for every pipeline
\* that never fails on a source object and gives distinct source objects
\* outputs of distinct names, the target view built from the emitted deltas
\* is in every reachable state exactly the aggregation of the objects the
\* engine has stored -- no stale output is left behind, none is missing,
\* across stale deletes, resyncs, renames and drops by @select.
THEOREM ViewFollowsStores ==
    NoStageError /\ DistinctOutputNames => (Spec => []ViewMatchesStores)
<1> SUFFICES ASSUME NoStageError, DistinctOutputNames PROVE Spec => []ViewMatchesStores
  OBVIOUS
<1>1. Init => VInv
  BY InitVInv
<1>2. VInv /\ [Next]_vars => VInv'
  BY NextVInv
<1>3. VInv => ViewMatchesStores
  BY VIMatches DEF VInv, SInv, IInv, TypeOK, StoreT, ViewT, ViewMatchesStores
<1>4. QED
  BY <1>1, <1>2, <1>3, PTL DEF Spec
-----------------------------------------------------------------------------
(* Every delta of an event fits the target it is written to.               *)

\* The deltas ds, written in order to vw, each fit the view they meet.
Fits(vw, ds) ==
    \A i \in 1..Len(ds) : DeltaFits(ApplyDeltas(vw, SubSeq(ds, 1, i - 1)), ds[i])

LEMMA FitsNone ==
    ASSUME NEW vw PROVE Fits(vw, <<>>)
BY DEF Fits

LEMMA FitsOne ==
    ASSUME NEW vw \in ViewT, NEW d, DeltaFits(vw, d) PROVE Fits(vw, <<d>>)
<1>1. SubSeq(<<d>>, 1, 0) = <<>>
  OBVIOUS
<1>2. ApplyDeltas(vw, SubSeq(<<d>>, 1, 0)) = vw
  BY <1>1, ApplyNone, Zenon
<1>3. QED
  BY <1>2 DEF Fits

LEMMA FitsTwo ==
    ASSUME NEW vw \in ViewT, NEW d1 \in DeltaRec, NEW d2 \in DeltaRec,
           DeltaFits(vw, d1), DeltaFits(ApplyDeltas(vw, <<d1>>), d2)
    PROVE  Fits(vw, <<d1, d2>>)
<1>1. SubSeq(<<d1, d2>>, 1, 0) = <<>> /\ SubSeq(<<d1, d2>>, 1, 1) = <<d1>>
  <2>1. SubSeq(<<d1, d2>>, 1, 0) = <<>>
    OBVIOUS
  <2>2. Len(SubSeq(<<d1, d2>>, 1, 1)) = 1 /\ SubSeq(<<d1, d2>>, 1, 1)[1] = d1
    OBVIOUS
  <2>3. DOMAIN SubSeq(<<d1, d2>>, 1, 1) = 1..1 /\ DOMAIN <<d1>> = 1..1 /\ <<d1>>[1] = d1
    BY <2>2
  <2>4. \A i \in 1..1 : SubSeq(<<d1, d2>>, 1, 1)[i] = <<d1>>[i]
    BY <2>2, <2>3
  <2>5. SubSeq(<<d1, d2>>, 1, 1) \in Seq(DeltaRec) /\ <<d1>> \in Seq(DeltaRec)
    BY SubSeqProperties
  <2>6. SubSeq(<<d1, d2>>, 1, 1) = <<d1>>
    BY <2>2, <2>4, <2>5, SeqEqual
  <2>7. QED
    BY <2>1, <2>6
<1>2. ApplyDeltas(vw, SubSeq(<<d1, d2>>, 1, 0)) = vw
  BY <1>1, ApplyNone, Zenon
<1>3. ApplyDeltas(vw, SubSeq(<<d1, d2>>, 1, 1)) = ApplyDeltas(vw, <<d1>>)
  BY <1>1, Zenon
<1>4. QED
  BY <1>2, <1>3 DEF Fits

\* The name of a new output is free in the view, unless the stored object
\* under the same key had an output of that name: no other source object
\* has an output of that name.
LEMMA FreeName ==
    ASSUME DistinctOutputNames, NEW st \in StoreT, NEW vw \in ViewT, VI(st, vw),
           NEW k \in Key, NEW st2 \in StoreT, \A j \in Key \ {k} : st2[j] = st[j],
           k \in Live(st2), k \in Live(st) => EA(st, k).name # EA(st2, k).name
    PROVE  vw[EA(st2, k).name] = Absent
<1> DEFINE n == EA(st2, k).name
<1>1. n \in Names
  BY DEF Live, ViewDoc
<1>2. SUFFICES ASSUME vw[n] # Absent PROVE FALSE
  OBVIOUS
<1>3. PICK j \in Live(st) : EA(st, j).name = n
  BY <1>1, <1>2 DEF VI
<1>4. j # k
  BY <1>3
<1>5. QED
  BY <1>3, <1>4, LiveNames

\* The output of a stored object is present in the view.
LEMMA PresentName ==
    ASSUME NEW st \in StoreT, NEW vw \in ViewT, VI(st, vw), NEW k \in Live(st)
    PROVE  vw[EA(st, k).name] = EA(st, k) /\ EA(st, k) # Absent
BY SentinelAssumption DEF VI, Live
\* What fitting means for one delta of an output.
LEMMA FitsDelta ==
    ASSUME NEW v, NEW e, NEW t
    PROVE  DeltaFits(v, Delta(t, e)) =
             IF t = "Added" THEN v[e.name] = Absent ELSE v[e.name] # Absent
BY DEF DeltaFits, Delta

\* One event of evaluateAggregation, with a pipeline that neither fails nor
\* groups, emits deltas that each fit the view they meet: an Added for a
\* name the view does not hold, an Updated or Deleted for one it holds,
\* the delete of a renamed output before the add of its new name.
LEMMA EvalFits ==
    ASSUME NoStageError, DistinctOutputNames, NEW st \in StoreT, NEW vw \in ViewT,
           VI(st, vw), NEW t \in DeltaType, NEW o \in Obj,
           HandleUpsert(st, t, o) = "Added" => st[ObjectKey(o)] = Absent
    PROVE  Fits(vw, EvaluateAggregation(st, t, o).ds)
<1> DEFINE kk == ObjectKey(o)
           t2 == HandleUpsert(st, t, o)
           sNew == [st EXCEPT ![kk] = o.val]
           sDel == [st EXCEPT ![kk] = Absent]
           eOld == EA(st, kk)
           eNew == EA(sNew, kk)
<1> HIDE DEF sNew, sDel
<1>0. kk \in Key /\ o.val \in Vals /\ sNew \in StoreT /\ sDel \in StoreT
      /\ \A j \in Key \ {kk} : sNew[j] = st[j]
  BY ObjectKeyType DEF Obj, StoreT, sNew, sDel
<1>1. (kk \in Live(st) => eOld \in ViewDoc) /\ (kk \in Live(sNew) => eNew \in ViewDoc)
  BY DEF Live
<1>2. CASE ~ IsValidEvent(st, t, o)
  <2>1. EvaluateAggregation(st, t, o).ds = <<>>
    BY <1>2 DEF EvaluateAggregation
  <2>2. QED
    BY <2>1, FitsNone
<1>3. CASE IsValidEvent(st, t, o) /\ t2 = "Added"
  <2>1. EvaluateAggregation(st, t, o) = AggAdded(st, o)
    BY <1>3 DEF EvaluateAggregation
  <2>2. AggAdded(st, o).ds = IF kk \in Live(sNew) THEN <<Delta("Added", eNew)>> ELSE <<>>
    BY AddedChar DEF sNew
  <2>3. kk \notin Live(st)
    BY <1>3 DEF Live
  <2>4. CASE kk \in Live(sNew)
    <3>1. vw[eNew.name] = Absent
      BY <1>0, <2>3, <2>4, FreeName
    <3>2. DeltaFits(vw, Delta("Added", eNew))
      BY <3>1, FitsDelta
    <3>3. QED
      BY <2>1, <2>2, <2>4, <3>2, FitsOne
  <2>5. QED
    BY <2>1, <2>2, <2>4, FitsNone
<1>4. CASE IsValidEvent(st, t, o) /\ t2 = "Deleted"
  <2>1. EvaluateAggregation(st, t, o) = AggDeleted(st, o)
    BY <1>4 DEF EvaluateAggregation
  <2>2. AggDeleted(st, o).ds = IF kk \in Live(st) THEN <<Delta("Deleted", eOld)>> ELSE <<>>
    BY DeletedChar
  <2>3. CASE kk \in Live(st)
    <3>1. vw[eOld.name] # Absent
      BY <2>3, PresentName
    <3>2. DeltaFits(vw, Delta("Deleted", eOld))
      BY <3>1, FitsDelta
    <3>3. QED
      BY <2>1, <2>2, <2>3, <3>2, FitsOne
  <2>4. QED
    BY <2>1, <2>2, <2>3, FitsNone
<1>5. CASE IsValidEvent(st, t, o) /\ t2 \notin {"Added", "Deleted"}
  <2> DEFINE dDel == IF kk \in Live(st) THEN <<Delta("Deleted", eOld)>> ELSE <<>>
             dAdd == IF kk \in Live(sNew) THEN <<Delta("Added", eNew)>> ELSE <<>>
  <2>1. EvaluateAggregation(st, t, o).ds = Consolidate(dDel, dAdd)
    <3>1. EvaluateAggregation(st, t, o) = AggUpdated(st, o)
      BY <1>5 DEF EvaluateAggregation
    <3>2. AggUpdated(st, o).ds = Consolidate(dDel, dAdd)
      BY UpdatedChar DEF sNew
    <3>3. QED
      BY <3>1, <3>2
  <2>2. CASE kk \notin Live(st) /\ kk \notin Live(sNew)
    BY <2>1, <2>2, FitsNone DEF Consolidate
  <2>3. CASE kk \notin Live(st) /\ kk \in Live(sNew)
    <3>1. Consolidate(dDel, dAdd) = <<Delta("Added", eNew)>>
      BY <2>3 DEF Consolidate
    <3>2. vw[eNew.name] = Absent
      BY <1>0, <2>3, FreeName
    <3>3. DeltaFits(vw, Delta("Added", eNew))
      BY <3>2, FitsDelta
    <3>4. Fits(vw, <<Delta("Added", eNew)>>)
      BY <3>3, FitsOne
    <3>5. QED
      BY <2>1, <3>1, <3>4
  <2>4. CASE kk \in Live(st) /\ kk \notin Live(sNew)
    <3>1. Consolidate(dDel, dAdd) = <<Delta("Deleted", eOld)>>
      BY <2>4 DEF Consolidate
    <3>2. vw[eOld.name] # Absent
      BY <2>4, PresentName
    <3>3. DeltaFits(vw, Delta("Deleted", eOld))
      BY <3>2, FitsDelta
    <3>4. Fits(vw, <<Delta("Deleted", eOld)>>)
      BY <3>3, FitsOne
    <3>5. QED
      BY <2>1, <3>1, <3>4
  <2>5. CASE kk \in Live(st) /\ kk \in Live(sNew) /\ eOld.name = eNew.name
    <3>1. Delta("Deleted", eOld).object.name = eOld.name /\ Delta("Added", eNew).object = eNew
      BY DEF Delta
    <3>2. Consolidate(dDel, dAdd) = <<Delta("Updated", eNew)>>
      BY <2>5, <3>1 DEF Consolidate
    <3>3. vw[eNew.name] # Absent
      BY <2>5, PresentName
    <3>4. DeltaFits(vw, Delta("Updated", eNew))
      BY <3>3, FitsDelta
    <3>5. Fits(vw, <<Delta("Updated", eNew)>>)
      BY <3>4, FitsOne
    <3>6. QED
      BY <2>1, <3>2, <3>5
  <2>6. CASE kk \in Live(st) /\ kk \in Live(sNew) /\ eOld.name # eNew.name
    <3>0. eOld \in ViewDoc /\ eNew \in ViewDoc
      BY <1>1, <2>6
    <3>1. Consolidate(dDel, dAdd) = <<Delta("Deleted", eOld), Delta("Added", eNew)>>
      <4>1. dDel = <<Delta("Deleted", eOld)>> /\ dAdd = <<Delta("Added", eNew)>>
        BY <2>6
      <4>2. dDel # <<>> /\ dAdd # <<>> /\ dDel[1].object.name # dAdd[1].object.name
        BY <2>6, <4>1 DEF Delta
      <4>3. Consolidate(dDel, dAdd) = <<dDel[1], dAdd[1]>>
        BY <4>2 DEF Consolidate
      <4>4. QED
        BY <4>1, <4>3
    <3>2. Delta("Deleted", eOld) \in DeltaRec /\ Delta("Added", eNew) \in DeltaRec
      BY <3>0, DeltaFacts DEF DeltaType
    <3>3. DeltaFits(vw, Delta("Deleted", eOld))
      <4>1. vw[eOld.name] # Absent
        BY <2>6, PresentName
      <4>2. QED
        BY <4>1, FitsDelta
    <3>4. ApplyDeltas(vw, <<Delta("Deleted", eOld)>>) = [vw EXCEPT ![eOld.name] = Absent]
      <5>1. "Deleted" \in DeltaType /\ Effect(Delta("Deleted", eOld)) = Absent
        BY <3>0, DeltaFacts DEF DeltaType
      <5>2. QED
        BY <3>0, <5>1, OneDelta
    <3>5. vw[eNew.name] = Absent
      BY <1>0, <2>6, FreeName
    <3>6. DeltaFits(ApplyDeltas(vw, <<Delta("Deleted", eOld)>>), Delta("Added", eNew))
      <4>1. [vw EXCEPT ![eOld.name] = Absent][eNew.name] = Absent
        BY <2>6, <3>0, <3>5 DEF ViewT, ViewDoc
      <4>2. QED
        BY <3>4, <4>1, FitsDelta
    <3>7. QED
      BY <2>1, <3>1, <3>2, <3>3, <3>6, FitsTwo
  <2>7. QED
    BY <2>2, <2>3, <2>4, <2>5, <2>6
<1>6. QED
  BY <1>2, <1>3, <1>4, <1>5
\* A step of the source writes deltas that fit the view it starts from.
LEMMA NextFits ==
    ASSUME NoStageError, DistinctOutputNames, VInv, Next
    PROVE  Fits(view, out')
<1>0. store \in StoreT /\ view \in ViewT /\ VI(store, view) /\ store = src
  BY DEF VInv, SInv, IInv, TypeOK, StoreT, ViewT
<1>1. ASSUME NEW t \in DeltaType, NEW o \in Obj, Process(t, o),
             t # "Added" \/ store[ObjectKey(o)] = Absent
      PROVE  Fits(view, out')
  <2>1. HandleUpsert(store, t, o) = "Added" => store[ObjectKey(o)] = Absent
    BY <1>1 DEF HandleUpsert
  <2>2. Fits(view, EvaluateAggregation(store, t, o).ds)
    BY <1>0, <2>1, EvalFits
  <2>3. out' = EvaluateAggregation(store, t, o).ds
    BY <1>1 DEF Process
  <2>4. QED
    BY <2>2, <2>3
<1>2. PICK o \in Obj : \/ \E t \in DeltaType : Create(t, o) \/ Modify(t, o) \/ Resync(t, o)
                      \/ Remove(o)
  BY DEF Next
<1>3. ASSUME NEW t \in DeltaType, Create(t, o) \/ Modify(t, o) \/ Resync(t, o)
      PROVE  Fits(view, out')
  BY <1>0, <1>1, <1>3 DEF Create, Modify, Resync
<1>4. ASSUME Remove(o) PROVE Fits(view, out')
  <2>1. "Deleted" \in DeltaType
    BY DEF DeltaType
  <2>2. QED
    BY <1>1, <1>4, <2>1 DEF Remove
<1>5. QED
  BY <1>2, <1>3, <1>4

\* evaluateAggregation classifies every delta right for the target it is
\* written to, in the order written: for every pipeline that never fails on
\* a source object and gives distinct source objects outputs of distinct
\* names, an Added never meets an output already in the view, and an
\* Updated or a Deleted never meets a missing one -- the delete half of a
\* renaming update included.
THEOREM DeltasFitView ==
    NoStageError /\ DistinctOutputNames => (Spec => DeltasMatchView)
<1> SUFFICES ASSUME NoStageError, DistinctOutputNames PROVE Spec => DeltasMatchView
  OBVIOUS
<1> DEFINE Fit == ~failed' =>
                   \A i \in 1..Len(out') :
                     DeltaFits(ApplyDeltas(view, SubSeq(out', 1, i - 1)), out'[i])
<1>1. Init => VInv
  BY InitVInv
<1>2. VInv /\ [Next]_vars => VInv'
  BY NextVInv
<1>3. VInv /\ [Next]_vars => [Fit]_vars
  <2>1. VInv /\ Next => Fit
    BY NextFits DEF Fits
  <2>2. QED
    BY <2>1
<1>4. QED
  BY <1>1, <1>2, <1>3, PTL DEF Spec, DeltasMatchView
=============================================================================
