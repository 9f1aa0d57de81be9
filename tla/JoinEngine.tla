------------------------------ MODULE JoinEngine ------------------------------
(***************************************************************************)
(* The join half of the delta engine (defaultEngine.evaluateJoin in        *)
(* pkg/pipeline): one base store per source kind, the Cartesian product of *)
(* the stores filtered by the join condition, and the difference of the    *)
(* delete and add halves of an update.  Its output collection is written   *)
(* by the Updater target, as in AggregationEngine.                         *)
(*                                                                         *)
(* An object is [kind, name, val]; a combination fixes one slot per kind,  *)
(* an object of that kind or Nil.  The output object of a combination has  *)
(* the combination as content and, as its name, the set of (kind, name)    *)
(* pairs of its non-nil slots: the code's sorted "kind:ns:name" tokens     *)
(* joined by "--", which is injective because names hold no ':'.           *)
(***************************************************************************)
EXTENDS Naturals, FiniteSets

CONSTANTS
    Kinds,      \* the engine's baseviews
    Names,      \* object names within a kind
    Vals,       \* object contents other than kind and name
    Cond,       \* the join condition: [Combo -> BOOLEAN \cup {Err}]
    Absent,     \* no object stored under a key / in the target
    Nil,        \* the empty slot of a kind whose store does not exist
    Err         \* an evaluation error

ASSUME ConstAssumption ==
    /\ IsFiniteSet(Kinds) /\ Absent \notin Vals /\ Err \notin BOOLEAN

VARIABLES
    src,        \* the upstream collection (ghost)
    created,    \* the kinds whose base store exists (initViewStore)
    store,      \* the base stores: [Key -> Vals \cup {Absent}]
    view,       \* the target: output name -> output object or Absent
    out,        \* the deltas of the last event, in three ordered groups
    failed      \* whether the last event returned an error

vars == <<src, created, store, view, out, failed>>

Key == Kinds \X Names
Obj == [kind : Kinds, name : Names, val : Vals]
Combo == {c \in [Kinds -> Obj \cup {Nil}] : \A k \in Kinds : c[k] = Nil \/ c[k].kind = k}
JoinName == SUBSET Key
JoinObj == [name : JoinName, slots : Combo]
DeltaType == {"Added", "Updated", "Replaced", "Upserted", "Deleted"}
DeltaRec == [type : DeltaType, object : JoinObj]
\* The deltas of one event: deletes, then updates, then adds.
Out == [dels : SUBSET DeltaRec, upds : SUBSET DeltaRec, adds : SUBSET DeltaRec]
NoOut == [dels |-> {}, upds |-> {}, adds |-> {}]

\* The marker of no object in the target is not an output object.
ASSUME AbsentAssumption == Absent \notin JoinObj

ObjectKey(o) == <<o.kind, o.name>>
StoredObj(k, v) == [kind |-> k[1], name |-> k[2], val |-> v]
Deltas(t, os) == {[type |-> t, object |-> x] : x \in os}

-----------------------------------------------------------------------------
(* evalJoin and product.                                                   *)

\* Mutant: the id leaves out the kind of each slot.
IDsNameOnly(c) == {c[k].name : k \in {j \in Kinds : c[j] # Nil}}

\* The id of a combination: the (kind, name) of its non-nil slots.
IDs(c) == {<<k, c[k].name>> : k \in {j \in Kinds : c[j] # Nil}}

JoinObject(c) == [name |-> IDs(c), slots |-> c]

\* recurseProd: the object's own kind is fixed to the object; a kind whose
\* store was never created contributes a nil slot; any other kind ranges
\* over its stored objects (none at all when its store is empty).
Slots(st, cr, o, k) ==
    IF k = o.kind THEN {o}
    ELSE IF k \notin cr THEN {Nil}
    ELSE {StoredObj(<<k, n>>, st[<<k, n>>]) : n \in {m \in Names : st[<<k, m>>] # Absent}}

Product(st, cr, o) == {c \in Combo : \A k \in Kinds : c[k] \in Slots(st, cr, o, k)}

\* evalJoin: fewer than two views is an error; an error of the condition on
\* any combination aborts the whole evaluation; otherwise the output objects
\* of the combinations the condition accepts.
EvalJoin(st, cr, o) ==
    IF Cardinality(Kinds) < 2 THEN Err
    ELSE LET cs == Product(st, cr, o) IN
         IF \E c \in cs : Cond[c] = Err THEN Err
         ELSE {JoinObject(c) : c \in {c \in cs : Cond[c] = TRUE}}

-----------------------------------------------------------------------------
(* evaluateJoin.  Every handler returns [err, st, out].                    *)

Fail(st) == [err |-> TRUE, st |-> st, out |-> NoOut]
Skip(st) == [err |-> FALSE, st |-> st, out |-> NoOut]

\* Mutant: the duplicate filter compares keys only, not contents.
IsValidEventKeyOnly(st, t, o) ==
    ~ (t \in {"Added", "Updated", "Upserted", "Replaced"} /\ st[ObjectKey(o)] # Absent)

IsValidEvent(st, t, o) ==
    ~ (t \in {"Added", "Updated", "Upserted", "Replaced"} /\ st[ObjectKey(o)] = o.val)

HandleUpsert(st, t, o) ==
    IF t # "Upserted" THEN t
    ELSE IF st[ObjectKey(o)] = Absent THEN "Added" ELSE "Updated"

\* case Added: evaluate on the incoming object, then store it.
JoinAdded(st, cr, o) ==
    LET os == EvalJoin(st, cr, o) IN
    IF os = Err THEN Fail(st)
    ELSE [err |-> FALSE, st |-> [st EXCEPT ![ObjectKey(o)] = o.val],
          out |-> [NoOut EXCEPT !.adds = Deltas("Added", os)]]

\* Mutant: the delete evaluates the incoming object, not the stored copy.
JoinDeletedIncoming(st, cr, o) ==
    LET k == ObjectKey(o) IN
    IF st[k] = Absent THEN Skip(st)
    ELSE LET os == EvalJoin(st, cr, o) IN
         IF os = Err THEN Fail(st)
         ELSE [err |-> FALSE, st |-> [st EXCEPT ![k] = Absent],
               out |-> [NoOut EXCEPT !.dels = Deltas("Deleted", os)]]

\* case Deleted: ignore an unknown object; evaluate on the stored copy,
\* then delete it.
JoinDeleted(st, cr, o) ==
    LET k == ObjectKey(o) IN
    IF st[k] = Absent THEN Skip(st)
    ELSE LET os == EvalJoin(st, cr, StoredObj(k, st[k])) IN
         IF os = Err THEN Fail(st)
         ELSE [err |-> FALSE, st |-> [st EXCEPT ![k] = Absent],
               out |-> [NoOut EXCEPT !.dels = Deltas("Deleted", os)]]

\* Mutant: containsDelta compares the whole object, not its name.
ContainsDeltaContent(ds, d) == \E n \in ds : n.object = d.object

\* containsDelta: the GVK (the same for every join output) and the name.
ContainsDelta(ds, d) == \E n \in ds : n.object.name = d.object.name

\* diffDeltas: outputs only in the delete half are Deleted, outputs in both
\* are Updated, outputs only in the add half are Added.
DiffDeltas(dels, adds) ==
    [dels |-> Deltas("Deleted", {d.object : d \in {x \in dels : ~ ContainsDelta(adds, x)}}),
     upds |-> Deltas("Updated", {d.object : d \in {x \in adds : ContainsDelta(dels, x)}}),
     adds |-> Deltas("Added", {d.object : d \in {x \in adds : ~ ContainsDelta(dels, x)}})]

\* case Updated/Replaced: a nested Deleted event, then a nested Added event
\* on the store the first one left.  The nested Added passes the duplicate
\* filter because the key is absent from that store.
JoinUpdated(st, cr, o) ==
    LET del == JoinDeleted(st, cr, o)
        add == JoinAdded(del.st, cr, o)
    IN  IF del.err THEN del
        ELSE IF add.err THEN add
        ELSE [err |-> FALSE, st |-> add.st, out |-> DiffDeltas(del.out.dels, add.out.adds)]

EvaluateJoin(st, cr, t, o) ==
    IF ~ IsValidEvent(st, t, o) THEN Skip(st)
    ELSE LET t2 == HandleUpsert(st, t, o) IN
         IF t2 = "Added" THEN JoinAdded(st, cr, o)
         ELSE IF t2 = "Deleted" THEN JoinDeleted(st, cr, o)
         ELSE JoinUpdated(st, cr, o)

-----------------------------------------------------------------------------
(* The Updater target: each group of deltas in turn; within a group the    *)
(* names are distinct, so the order inside a group does not matter.        *)

Effect(d) == IF d.type = "Deleted" THEN Absent ELSE d.object

ApplySet(v, ds) ==
    [n \in DOMAIN v |-> IF \E d \in ds : d.object.name = n
                        THEN Effect(CHOOSE d \in ds : d.object.name = n)
                        ELSE v[n]]

ApplyOut(v, o) == ApplySet(ApplySet(ApplySet(v, o.dels), o.upds), o.adds)

\* One event: the store of its kind is created first (even for a duplicate
\* or a failing event), then the handler runs and its deltas are written.
Process(t, o) ==
    LET cr == created \cup {o.kind}
        r == EvaluateJoin(store, cr, t, o)
    IN  /\ created' = cr
        /\ store' = r.st
        /\ out' = r.out
        /\ failed' = r.err
        /\ view' = IF r.err THEN view ELSE ApplyOut(view, r.out)

-----------------------------------------------------------------------------
(* The source, as in AggregationEngine.                                    *)

Create(t, o) ==
    /\ t \in {"Added", "Upserted", "Replaced"}
    /\ src[ObjectKey(o)] = Absent
    /\ src' = [src EXCEPT ![ObjectKey(o)] = o.val]
    /\ Process(t, o)

Modify(t, o) ==
    /\ t \in {"Updated", "Replaced", "Upserted"}
    /\ src[ObjectKey(o)] \notin {Absent, o.val}
    /\ src' = [src EXCEPT ![ObjectKey(o)] = o.val]
    /\ Process(t, o)

\* The deleted object may carry a stale content.
Remove(o) ==
    /\ src[ObjectKey(o)] # Absent
    /\ src' = [src EXCEPT ![ObjectKey(o)] = Absent]
    /\ Process("Deleted", o)

Resync(t, o) ==
    /\ t \in {"Updated", "Replaced", "Upserted"}
    /\ src[ObjectKey(o)] = o.val
    /\ UNCHANGED src
    /\ Process(t, o)

Init ==
    /\ src = [k \in Key |-> Absent]
    /\ created = {}
    /\ store = [k \in Key |-> Absent]
    /\ view = [n \in JoinName |-> Absent]
    /\ out = NoOut
    /\ failed = FALSE

Next ==
    \E o \in Obj :
        \/ \E t \in DeltaType : Create(t, o) \/ Modify(t, o) \/ Resync(t, o)
        \/ Remove(o)

Spec == Init /\ [][Next]_vars

-----------------------------------------------------------------------------
(* Properties.                                                             *)

\* Type invariant: stores hold contents, the target holds join outputs, and
\* every emitted delta carries an output object named by its slots.
TypeOK ==
    /\ src \in [Key -> Vals \cup {Absent}]
    /\ created \subseteq Kinds
    /\ store \in [Key -> Vals \cup {Absent}]
    /\ view \in [JoinName -> JoinObj \cup {Absent}]
    /\ out \in Out
    /\ failed \in BOOLEAN

\* The join the spec (4.4) defines over the stores: one stored object per
\* kind, or nil where a kind has no entries, for every combination the
\* condition accepts.
RefSlots(st, k) ==
    LET s == {StoredObj(<<k, n>>, st[<<k, n>>]) : n \in {m \in Names : st[<<k, m>>] # Absent}}
    IN  IF s = {} THEN {Nil} ELSE s

JoinOf(st) ==
    {JoinObject(c) : c \in {c \in Combo : /\ \A k \in Kinds : c[k] \in RefSlots(st, k)
                                          /\ \E k \in Kinds : c[k] # Nil
                                          /\ Cond[c] = TRUE}}

\* After every event the engine processed, the target holds exactly the join
\* of the base stores: evaluateJoin's incremental deltas never leave a stale
\* combination behind nor miss a new one.
ViewMatchesJoin == {view[n] : n \in {m \in JoinName : view[m] # Absent}} = JoinOf(store)

\* The duplicate filter, the upsert classification and the nested events of
\* an update never lose an upstream change: the base store is the source.
StoreTracksSource == store = src

\* The deltas of one successful event name each output at most once, in
\* one group only (diffDeltas' deletes, updates and adds are disjoint), and
\* fit the target: deletes and updates of present outputs, adds of absent ones.
Present(v) == {n \in DOMAIN v : v[n] # Absent}
OutNames(ds) == {d.object.name : d \in ds}
JoinDeltasFit ==
    [][~ failed' =>
        /\ \A g \in {out'.dels, out'.upds, out'.adds} :
               \A d1, d2 \in g : d1.object.name = d2.object.name => d1 = d2
        /\ OutNames(out'.dels) \cap OutNames(out'.upds) = {}
        /\ OutNames(out'.dels) \cap OutNames(out'.adds) = {}
        /\ OutNames(out'.upds) \cap OutNames(out'.adds) = {}
        /\ OutNames(out'.dels \cup out'.upds) \subseteq Present(view)
        /\ OutNames(out'.adds) \cap Present(view) = {}]_vars

\* A failing event leaves the base stores as they were (spec 4.5); the
\* nested Deleted of an update has already removed the old object when the
\* nested Added fails.
StoreUnchangedOnError == [][failed' => store' = store]_vars

=============================================================================
