------------------------- MODULE AggregationEngine -------------------------
(***************************************************************************)
(* The delta engine of one pipeline running an aggregation                 *)
(* (pkg/pipeline: defaultEngine.EvaluateAggregation and its helpers), fed  *)
(* by an upstream source and writing its output deltas to a target view    *)
(* (reconciler target.update).                                             *)
(*                                                                         *)
(* A document is abstracted to its identity and one opaque content value:  *)
(* [kind, name, val].  An aggregation stage is given by what it computes:  *)
(* a @select by its condition as a function of the document (a Boolean or *)
(* an evaluation error), a @project by its projector as a function of the  *)
(* document (a document or an evaluation error).  Namespaces are left out: *)
(* every object lives in one namespace, so ObjectKey is (kind, name).      *)
(***************************************************************************)
EXTENDS Naturals, Sequences, FiniteSets

CONSTANTS
    Kinds,        \* the GVKs of the source views (baseviews)
    SrcNames,     \* names the source objects may have
    Names,        \* every name a document may carry (SrcNames included)
    Vals,         \* the content of a document apart from its identity
    TargetView,   \* the kind stamped on every output object
    NoName,       \* a document without a (string, non-empty) metadata.name
    Stages,       \* the aggregation: a sequence of stage records
    Absent,       \* no object under a key
    Err,          \* an evaluation error
    Drop          \* a document dropped by a @select

ASSUME ConstAssumption ==
    /\ SrcNames \subseteq Names
    /\ NoName \notin Names
    /\ TargetView \notin Kinds
    /\ Absent \notin Vals
    /\ Err # Drop

VARIABLES
    src,      \* the upstream source collection: the objects as they really are
    store,    \* baseViewStore: the engine's copy of every source object
    view,     \* the target view, as written by the deltas the engine emits
    out,      \* the deltas emitted for the last event
    failed    \* whether the last event ended with an error

vars == <<src, store, view, out, failed>>

Key == Kinds \X SrcNames
Doc == [kind : Kinds \cup {TargetView}, name : Names \cup {NoName}, val : Vals]
Obj == [kind : Kinds, name : SrcNames, val : Vals]
ViewDoc == [kind : {TargetView}, name : Names, val : Vals]
DeltaType == {"Added", "Updated", "Replaced", "Upserted", "Deleted"}
DeltaRec == [type : DeltaType, object : ViewDoc]

\* The markers of no object, a dropped document and an error are not
\* objects of the target view.
ASSUME SentinelAssumption == {Absent, Drop, Err} \cap ViewDoc = {}

ObjectKey(o) == <<o.kind, o.name>>
StoredObj(k, v) == [kind |-> k[1], name |-> k[2], val |-> v]
Delta(t, o) == [type |-> t, object |-> o]

-----------------------------------------------------------------------------
(* Evaluating the aggregation on one object.                               *)

\* evalStage: @select keeps or drops the document, @project replaces it;
\* any other stage, or a stage without an argument, is an error.
EvalStage(s, x) ==
    IF x \in {Drop, Err} THEN x
    ELSE CASE s.op = "@select"  -> IF s.cond[x] = Err THEN Err
                                   ELSE IF s.cond[x] = TRUE THEN x ELSE Drop
           [] s.op = "@project" -> s.proj[x]
           [] OTHER             -> Err

\* evalAggregation: the stages left to right on the singleton input.
EvalStages(o) ==
    LET r[i \in 0..Len(Stages)] ==
            IF i = 0 THEN o ELSE EvalStage(Stages[i], r[i - 1])
    IN  r[Len(Stages)]

\* Mutant: Normalize keeps the projected kind instead of the target view's.
NormalizeKeepKind(x) ==
    IF x \in Doc /\ x.name \in Names
    THEN [kind |-> x.kind, name |-> x.name, val |-> x.val]
    ELSE Err

\* Normalize: the result must be an object with a name; it becomes an
\* object of the target view.
Normalize(x) ==
    IF x \in Doc /\ x.name \in Names
    THEN [kind |-> TargetView, name |-> x.name, val |-> x.val]
    ELSE Err

EvalAggregation(o) ==
    LET x == EvalStages(o) IN IF x \in {Drop, Err} THEN x ELSE Normalize(x)

-----------------------------------------------------------------------------
(* The engine.  Every handler maps the store to a result record            *)
(* [err, st, ds]: whether it failed, the store it leaves, its deltas.      *)

\* Mutant: the duplicate filter compares keys only, not contents.
IsValidEventKeyOnly(st, t, o) ==
    ~ (t \in {"Added", "Updated", "Upserted", "Replaced"} /\ st[ObjectKey(o)] # Absent)

\* IsValidEvent: an add/update of an object equal to the stored one is a
\* duplicate.
IsValidEvent(st, t, o) ==
    ~ (t \in {"Added", "Updated", "Upserted", "Replaced"} /\ st[ObjectKey(o)] = o.val)

\* Mutant: every upsert is taken for an add.
HandleUpsertAlwaysAdd(st, t, o) == IF t # "Upserted" THEN t ELSE "Added"

\* handleUpsertEvent: an upsert is an add when the key is not stored.
HandleUpsert(st, t, o) ==
    IF t # "Upserted" THEN t
    ELSE IF st[ObjectKey(o)] = Absent THEN "Added" ELSE "Updated"

\* evaluateAggregation, case Added: evaluate, then store.
AggAdded(st, o) ==
    LET r == EvalAggregation(o) IN
    IF r = Err THEN [err |-> TRUE, st |-> st, ds |-> <<>>]
    ELSE [err |-> FALSE,
          st  |-> [st EXCEPT ![ObjectKey(o)] = o.val],
          ds  |-> IF r = Drop THEN <<>> ELSE <<Delta("Added", r)>>]

\* Mutant: the delete evaluates the incoming object, not the stored copy.
AggDeletedIncoming(st, o) ==
    LET k == ObjectKey(o) IN
    IF st[k] = Absent THEN [err |-> FALSE, st |-> st, ds |-> <<>>]
    ELSE LET r == EvalAggregation(o) IN
         IF r = Err THEN [err |-> TRUE, st |-> st, ds |-> <<>>]
         ELSE [err |-> FALSE,
               st  |-> [st EXCEPT ![k] = Absent],
               ds  |-> IF r = Drop THEN <<>> ELSE <<Delta("Deleted", r)>>]

\* evaluateAggregation, case Deleted: evaluate the stored copy, then delete.
AggDeleted(st, o) ==
    LET k == ObjectKey(o) IN
    IF st[k] = Absent THEN [err |-> FALSE, st |-> st, ds |-> <<>>]
    ELSE LET r == EvalAggregation(StoredObj(k, st[k])) IN
         IF r = Err THEN [err |-> TRUE, st |-> st, ds |-> <<>>]
         ELSE [err |-> FALSE,
               st  |-> [st EXCEPT ![k] = Absent],
               ds  |-> IF r = Drop THEN <<>> ELSE <<Delta("Deleted", r)>>]

\* The consolidation of the delete half and the add half of an update:
\* nothing, or only the one half there is, or an Updated when both halves
\* name the same output, or both when the update renamed it.
Consolidate(dd, ad) ==
    IF dd = <<>> THEN ad
    ELSE IF ad = <<>> THEN dd
    ELSE IF dd[1].object.name = ad[1].object.name
         THEN <<Delta("Updated", ad[1].object)>>
         ELSE <<dd[1], ad[1]>>

\* evaluateAggregation, case Updated/Replaced: a Delete, then an Add, each
\* mutating the store as it goes.
AggUpdated(st, o) ==
    LET del == AggDeleted(st, o)
        add == AggAdded(del.st, o)
    IN  IF del.err THEN del
        ELSE IF add.err THEN add
        ELSE [err |-> FALSE, st |-> add.st, ds |-> Consolidate(del.ds, add.ds)]

\* EvaluateAggregation: the duplicate filter, the upsert classification and
\* the handler of the event type.
EvaluateAggregation(st, t, o) ==
    IF ~ IsValidEvent(st, t, o) THEN [err |-> FALSE, st |-> st, ds |-> <<>>]
    ELSE LET t2 == HandleUpsert(st, t, o) IN
         IF t2 = "Added" THEN AggAdded(st, o)
         ELSE IF t2 = "Deleted" THEN AggDeleted(st, o)
         ELSE AggUpdated(st, o)

-----------------------------------------------------------------------------
(* The target writer (Updater): an add or update creates or overwrites the *)
(* object, a delete removes it.  Applying the deltas in order leaves each  *)
(* name with the effect of the last delta naming it.                       *)

Effect(d) == IF d.type = "Deleted" THEN Absent ELSE d.object

ApplyDeltas(v, ds) ==
    [n \in DOMAIN v |->
        IF \E i \in 1..Len(ds) : ds[i].object.name = n
        THEN LET i == CHOOSE i \in 1..Len(ds) :
                          /\ ds[i].object.name = n
                          /\ \A j \in (i + 1)..Len(ds) : ds[j].object.name # n
             IN  Effect(ds[i])
        ELSE v[n]]

\* One event, processed to completion and its deltas written.
Process(t, o) ==
    LET r == EvaluateAggregation(store, t, o) IN
    /\ store' = r.st
    /\ out' = r.ds
    /\ failed' = r.err
    /\ view' = IF r.err THEN view ELSE ApplyDeltas(view, r.ds)

-----------------------------------------------------------------------------
(* The source: every change of an upstream object reaches the engine as    *)
(* one delta; a resync re-delivers an unchanged object.                    *)

Create(t, o) ==
    /\ t \in {"Added", "Upserted", "Replaced"}
    /\ src[ObjectKey(o)] = Absent
    /\ src' = [src EXCEPT ![ObjectKey(o)] = o.val]
    /\ Process(t, o)

Modify(t, o) ==
    /\ t \in {"Updated", "Replaced", "Upserted"}
    /\ src[ObjectKey(o)] \notin {Absent, o.val}
    /\ src' = [src EXCEPT ![ObjectKey(o)] = o.val]
    /\ Process(t, o)

\* The deleted object may carry a stale content (a final state unknown).
Remove(o) ==
    /\ src[ObjectKey(o)] # Absent
    /\ src' = [src EXCEPT ![ObjectKey(o)] = Absent]
    /\ Process("Deleted", o)

Resync(t, o) ==
    /\ t \in {"Updated", "Replaced", "Upserted"}
    /\ src[ObjectKey(o)] = o.val
    /\ UNCHANGED src
    /\ Process(t, o)

Init ==
    /\ src = [k \in Key |-> Absent]
    /\ store = [k \in Key |-> Absent]
    /\ view = [n \in Names |-> Absent]
    /\ out = <<>>
    /\ failed = FALSE

Next ==
    \E o \in Obj :
        \/ \E t \in DeltaType : Create(t, o) \/ Modify(t, o) \/ Resync(t, o)
        \/ Remove(o)

Spec == Init /\ [][Next]_vars

-----------------------------------------------------------------------------
(* Properties.                                                             *)

\* Every variable holds a value of its type; in particular every object the
\* writer puts into the target view is an object of the target view
\* (Normalize always produces views).
TypeOK ==
    /\ src \in [Key -> Vals \cup {Absent}]
    /\ store \in [Key -> Vals \cup {Absent}]
    /\ view \in [Names -> ViewDoc \cup {Absent}]
    /\ out \in Seq(DeltaRec)
    /\ failed \in BOOLEAN

\* The pipeline's current result on the stored objects.
Outputs(st) ==
    { EvalAggregation(StoredObj(k, st[k])) : k \in {k \in Key : st[k] # Absent} }
        \ {Drop, Err}

\* The target view, built only from the emitted deltas, is exactly the
\* aggregation applied to the objects the engine has stored: the delta
\* computation of evaluateAggregation (delete the stored copy's output, add
\* the new one, consolidate by name) never leaves a stale output nor loses
\* a live one.
ViewMatchesStores ==
    { view[n] : n \in {n \in Names : view[n] # Absent} } = Outputs(store)

\* The engine's store holds the last version of every upstream object and
\* nothing else: the duplicate filter (IsValidEvent) and the upsert
\* classification never drop a real change nor keep a deleted object.
StoreTracksSource == store = src

\* Every emitted delta is classified right for the target it is written
\* to, in the order written: an Added names an object the view does not
\* hold, an Updated or Deleted one it holds.
DeltaFits(v, d) ==
    IF d.type = "Added" THEN v[d.object.name] = Absent
    ELSE v[d.object.name] # Absent

DeltasMatchView ==
    [][ ~failed' =>
        \A i \in 1..Len(out') :
            DeltaFits(ApplyDeltas(view, SubSeq(out', 1, i - 1)), out'[i]) ]_vars

\* Spec 4.5: an event that fails leaves the view stores as they were at the
\* start of the event (evaluateAggregation, Updated/Replaced case).
StoreUnchangedOnError == [][ failed' => store' = store ]_vars

\* Spec 8: a source update that changes no projected field emits no delta;
\* every Updated that evaluateAggregation emits changes the target object.
UpdatesChangeTarget ==
    [][ \A i \in 1..Len(out') :
            out'[i].type = "Updated" => view[out'[i].object.name] # out'[i].object ]_vars

=============================================================================
