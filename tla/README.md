# TLA+ verification of the dcontroller pipeline engine

This directory holds TLA+ models of the dcontroller code under `src/`. It
also holds the TLC configurations that model-check the models and the TLAPS
proofs about them.

## The system

dcontroller runs declarative controllers. A controller watches one or more
*source views*, which are Kubernetes resources or in-memory views. It feeds
every change event (a `cache.Delta`: Added, Updated, Replaced, Upserted or
Deleted, together with an object) through a *pipeline*. It then writes the
resulting deltas to a *target*, which is a view or a native resource.

The parts, as they appear under `src/`:

| Part | Source | State | Operations |
|---|---|---|---|
| Delta engine, aggregation half | `pkg/pipeline/aggregation_test.go` 200–415, 696–707; `unnamed/part_003` | one base store per source kind (`baseViewStore`) | `IsValidEvent`, `EvaluateAggregation` (Added / Updated,Replaced / Deleted), `handleUpsertEvent`, `evalAggregation`, `evalStage` |
| Delta engine, join half | `aggregation_test.go` 470–738 | the same base stores | `evaluateJoin`, `evalJoin`, `product`/`recurseProd`, `diffDeltas` |
| Normalize | `unnamed/part_005`, `part_006` | none | stamps the target view's kind onto a result; a result without a name is an error |
| Target writer | `pkg/object/view_object_test.go` 440–678 | the target objects | `Write` → `update` (Updater) or `patch` (Patcher), `removeNested`, `mergeMetadata` |
| Composite client / cache | `view_object_test.go` 249–391, `unnamed/part_001` | view cache, API server | routes calls by API group |
| Resource | `pkg/reconciler/resource.go` | none; asks the API server's REST mapper | `GetGVK`, `getGVKByGroupKind`, `String` |
| Helpers | `unnamed/part_002`, error files | none | deep copy, merge, dump, error wrapping |

`unnamed/part_000` and `pkg/cache/store_test.go` hold only tests. The
expression evaluator and `cache.Store` are not in `src/`.

The parts interact as follows. An event reaches the engine. The engine
updates its base store for the event's kind. It runs the stages on the new
object and also on the old stored copy, and it returns the difference as
deltas. `Aggregation.Evaluate` returns nothing when the engine fails.
Otherwise the controller writes every delta to the target through
`target.Write`. Each pipeline processes its events one at a time.

## Modules

* **`AggregationEngine`** models the aggregation half of the engine,
  Normalize and the Updater target.
  * A document is a record `[kind, name, val]`. `val` stands for everything
    that is not the name or the kind.
  * A stage is `@select` with a condition or `@project` with a projection.
    Both are given as functions over documents that may yield `Err`, and
    `@project` may also change the name. This keeps all of `evalStage`'s
    control: a drop, an error and an unknown op.
  * State:
    * `store`: the base stores, a function from (kind, name) to content or
      `Absent`.
    * `view`: the target objects.
    * `out`: the deltas of the last event.
    * `failed`: whether the last event returned an error.
    * `src`: the upstream collection. It is a ghost variable used only to
      state properties.
  * Each upstream change (`Create`, `Modify`, `Remove`, and `Resync`, which
    redelivers an unchanged object) is one step. That step runs the whole of
    `EvaluateAggregation` on the event (`Process`) and then applies the
    deltas with the Updater's semantics (`ApplyDeltas`). The step is atomic
    because a pipeline handles one event at a time.
  * `Remove` may carry a stale copy of the object, as informer tombstones do.
  * Every handler is a pure operator that returns `[err, st, ds]`:
    * `AggAdded`, `AggDeleted` and `AggUpdated` are the three cases of
      `evaluateAggregation`.
    * `AggUpdated` runs the delete half and then the add half on the store
      that the delete half left. It then combines their deltas with
      `Consolidate`, which follows the `switch` at lines 327–346.
* **`JoinEngine`** models the join half of the engine and the Updater
  writing its output.
  * A source object is `[kind, name, val]` of one of the kinds `Kinds`. A
    combination is a function from each kind to a stored object or `Nil`
    (`Combo`). A join output is named by the set of `(kind, name)` pairs of
    its non-nil slots (`IDs`, the sorted id list of `evalJoin`) and carries
    the combination itself.
  * The join condition is a constant `Cond` from combinations to `TRUE`,
    `FALSE` or `Err`.
  * State: `src`, `store`, `view`, `out` and `failed` as in the aggregation
    model, plus `created`, the kinds whose base store exists (a kind gets one
    from `initViewStore` at its first event, even a duplicate or failing one).
  * `Slots`/`Product` follow `recurseProd`: the object's own kind is fixed
    to the object, a kind without a store gives a `Nil` slot, and an existing
    store gives each of its objects (possibly none).
  * `JoinAdded`, `JoinDeleted` and `JoinUpdated` are the three cases of
    `evaluateJoin`. An update is a nested Deleted (on the stored copy) then
    a nested Added on the store that the delete left. `DiffDeltas` groups
    the result as deletes, updates and adds, matching by name as
    `containsDelta` does, and `ApplyOut` writes the groups in that order.
* **`Resource`** models `GetGVK` and `getGVKByGroupKind`
  (`pkg/reconciler/resource.go`). The REST mapper is a variable, the
  preferred version of each group and kind or `NoMatch`, changed by
  `MapperChange` (a CRD installed, upgraded or removed). `Describe` picks
  the description being resolved: a kind or `NoKind`, a group, the view group
  or `NoValue`, a version, the view version or `NoValue`.
* **`CompositeClient`** models the composite client's writes and the
  composite cache's reads.
  * State: `viewCache` (every key), `apiServer` (the keys of served groups)
    and `last`, a ghost that records the last call and whether it returned
    nil.
  * `Create`, `Update`, `Delete`, `Patch` and `DeleteAllOf` follow the code,
    including the routing test `gvk.Group != view group` (`ToViewCache`),
    and DeleteAllOf's list of views of kind `"view"` with its return after
    the first delete. On the view-cache side `Patch` returns an error on
    every path: a strategic merge patch is rejected at line 336, and any
    other fails at line 346, where `json.Unmarshal` is given the map `p`
    rather than `&p`. Its read of the target (350) and its `Update` (359)
    are never reached, so the model's view-side `Patch` changes nothing and
    reports an error.
  * `CacheGet` is `CompositeCache.Get`. It routes with `== view group` and
    takes the default cache to be in sync with the API server.
  * The view cache and the API server are not in `src/`. They are modelled
    as keyed stores: the API server rejects an unserved group, a create of
    an existing object and a write of a missing one. `ExternalViewWrite`
    stands for any other holder of the view cache (`GetViewCache`) adding a
    view.
* **`MCAggregationEngine`** gives TLC the instances:
  * source names `a`, `b`;
  * values 1..4;
  * three pipelines: select+bucket (the passing run), a projection that
    fails on value 3, and a projection that keeps only the name. Every
    `@project` is one-to-one on the objects it keeps, as spec lines 191–193
    require of a projection.
* **`MCJoinEngine`** gives TLC two kinds `A`, `B`, names `x`, `y` (model
  values) and values 1, 2, and four join conditions (`CondLeq`,
  `CondNilPasses`, `CondNilFails`, `CondValFails`).
* **`MCResource`** gives groups `""` and `apps`, versions `v1`, `v2` and two
  kinds.
* **`MCCompositeClient`** gives the view group, a served group `apps`, an
  unserved group `crd`, kinds `view` and `Dep`, one name, two values and the
  three patch types.
* **`AggregationEngineProofs`**, **`JoinEngineProofs`** and
  **`ResourceProofs`** hold the TLAPS proofs.

## Runs

| Run | Config | Expect | Checks |
|---|---|---|---|
| `agg_pass` | `MCAggregationEngine.cfg` | pass | `TypeOK`, `ViewMatchesStores`, `StoreTracksSource`, `DeltasMatchView` |
| `agg_missing` | `MCAggregationMissing.cfg` | violation | `StoreUnchangedOnError` |
| `agg_nameonly` | `MCAggregationNameOnly.cfg` | violation | `UpdatesChangeTarget` |
| `join_pass` | `MCJoinEngine.cfg` | pass | `TypeOK`, `ViewMatchesJoin`, `StoreTracksSource`, `JoinDeltasFit` |
| `join_nilslot` | `MCJoinNilSlot.cfg` | violation | `ViewMatchesJoin` |
| `join_nilfails` | `MCJoinNilFails.cfg` | violation | `StoreTracksSource` |
| `join_partial` | `MCJoinPartial.cfg` | violation | `StoreUnchangedOnError` |
| `resource_pass` | `MCResource.cfg` | pass | `TypeOK`, `GetGVKMatchesSpec` |
| `client_pass` | `MCCompositeClient.cfg` | pass | `FailedCallNoEffect` |
| `client_routing` | `MCClientRouting.cfg` | violation | `ReadYourWrites` |
| `client_deleteallof` | `MCClientDeleteAllOf.cfg` | violation | `DeleteAllOfClears` |

What the properties say:

* `ViewMatchesStores`: the target holds exactly the pipeline applied to the
  objects in the base stores.
* `StoreTracksSource`: the duplicate filter never loses an upstream change,
  so the base store equals the upstream collection.
* `DeltasMatchView`: each emitted delta fits the target state it is applied
  to. An Added is for a name that is absent. Updated, Replaced and Deleted
  are for a name that is present.

* `ViewMatchesJoin`: the target holds exactly the join of the stored
  objects, where a kind with no stored object contributes a nil slot.
* `JoinDeltasFit`: within each group of an event's deltas the names are
  distinct, the groups do not share a name, deletes and updates are for
  present names and adds for absent ones.
* `GetGVKMatchesSpec`: `GetGVK` returns the GVK the configuration format
  admits (the view group at its one version for a view whatever version is
  written; a written native version as is; otherwise the mapper's), and an
  error exactly when there is none.
* `FailedCallNoEffect`: a client call that returns an error has changed
  neither store, so it can be retried.
* `ReadYourWrites`: after a write returns nil, a Get through the composite
  cache returns what was written (nothing, after a delete).
* `DeleteAllOfClears`: after DeleteAllOf returns nil, nothing of the
  requested group and kind is left to read.

The bounds are two source names and four values. With them, both objects can
be present at once. A bucket change renames an output, which exercises the
Deleted+Added branch of the consolidation. A same-bucket change exercises
the Updated branch. Value 4 is filtered by `@select`, which exercises the
drop paths. Every update happens from every such state, as does a stale
delete and a resync. More names add only symmetric copies of these cases.
The passing run reaches 175 distinct states and fires every action.

The join run has two kinds, which is the least the join accepts, two names
and two values: each kind can hold two objects, so a product has up to four
combinations, an update can both keep and drop combinations, and a kind can
be without a store, with an empty store, or with objects. It reaches 544
distinct states. The Resource run enumerates all 3888 pairs of a mapper
answer and a description. The client run has the view group, a served and
an unserved native group and the kind that DeleteAllOf lists, which every
routing branch and error path needs; it reaches 288,693 distinct states.

The violation runs show divergences between the code and the spec or
the code's own comments. They are recorded under `findings` in
`PROJECT.json`:

1. **Partial failure of an update** (`agg_missing`,
   `aggregation_test.go:321`). The delete half removes the old object
   from the base store. The add half then fails, and the error returns
   without undoing the delete. The store has lost the object, the
   target keeps its old output, and the two never converge.
2. **No-op update** (`agg_nameonly`, `:342`). An update that changes no
   projected field still emits an `Updated` delta. The spec (§8) says it yields no delta.
3. **Nil slot never retracted** (`join_nilslot`, `:669`). A kind without a
   store contributes a nil slot; an output made with it is not deleted when
   the kind's first object arrives.
4. **Condition error aborts the event** (`join_nilfails`, `:598`). The spec
   (§4.4) counts a condition error as no match. The code aborts the event
   before storing the object, so the store loses it.
5. **Partial failure of a join update** (`join_partial`, `:523`), as in 1.
6. **Inverted write routing** (`client_routing`, `view_object_test.go:279`).
   The client sends non-views to the view cache and views to the API
   server, against its comment at lines 273–275 and against the cache's
   read routing, so a Get right after a Create does not see the object.
7. **DeleteAllOf deletes one view** (`client_deleteallof`, `:378`). It lists
   views of kind `"view"` whatever kind it is called with, deletes the
   first and returns nil.

Every property of the passing run has a mutant that TLC kills:

| Mutant | Bug it stands for | Property that catches it |
|---|---|---|
| `NormalizeKeepKind` | forgets to set the kind | `TypeOK` |
| `IsValidEventKeyOnly` | filters any event whose key is known | `StoreTracksSource` |
| `HandleUpsertAlwaysAdd` | treats every upsert as an add | `DeltasMatchView` |
| `AggDeletedIncoming` | evaluates the incoming, possibly stale, object on delete | `ViewMatchesStores` |
| `IDsNameOnly` (JoinEngine) | names an output by object names without kinds | `TypeOK` |
| `IsValidEventKeyOnly` (JoinEngine) | filters any event whose key is known | `StoreTracksSource` |
| `JoinDeletedIncoming` | evaluates the incoming object on a join delete | `ViewMatchesJoin` |
| `ContainsDeltaContent` | matches deltas by content, not name, in `diffDeltas` | `JoinDeltasFit` |
| `GetGVKByGroupKindNoErr` | ignores the mapper's error | `TypeOK` (Resource) |
| `GetGVKViewVersion` | keeps a written version for a view | `GetGVKMatchesSpec` |
| `DeleteAllOfFallThrough` | deletes a view, then also calls the default client | `FailedCallNoEffect` |

No fairness is assumed and no liveness is checked. The engine and the
client have no internal scheduling: each reacts to an event or a call
within the step that delivers it, so there is nothing that must eventually
happen inside them.

## Proofs

Five modules hold the proofs: `AggregationEngineProofs`, `JoinEngineProofs`,
`JoinViewProofs`, `ResourceProofs` and `CompositeClientProofs`. `tlapm`
checks every step of each of them. Each safety theorem follows the same
pattern:

* `Init => Inv`;
* `Inv /\ [Next]_vars => Inv'`, with one step per action;
* `Inv => P`;
* the temporal conclusion `BY ..., PTL DEF Spec`.

An action property `[][A]_vars` is proved from `Inv /\ [Next]_vars =>
[A]_vars`.

### Aggregation engine (`AggregationEngineProofs`)

`TypeCorrect == Spec => []TypeOK` holds for every value of the constants
and every pipeline of stages. It assumes only `ConstAssumption`.

`TypeOK` is not inductive as it stands. `ApplyDeltas` picks the last delta
for a name with `CHOOSE`, and the proof that such an index exists needs a
bound on the number of deltas. The inductive invariant is therefore
`IInv == TypeOK /\ Len(out) <= 2`. The argument:

* Every handler returns a well-typed `[err, st, ds]` with at most one delta
  per half (`AggAddedType`, `AggDeletedType`).
* `Consolidate` yields at most two deltas (`ConsolidateType`).
* `ApplyDeltas` preserves the view's type (`ApplyDeltasType`).

`StoreFollowsSource == NoStageError => (Spec => []StoreTracksSource)`.

* `NoStageError` says that no stage fails on a source object.
* The run `agg_missing` shows that the hypothesis is needed.
* The inductive invariant is `SInv == IInv /\ store = src`.
* One lemma per handler gives its effect on the store (`AggAddedStore`,
  `AggDeletedStore`, `AggUpdatedStore`).
* `NextSInv` covers each kind of event:
  * a create or a modification is never filtered as a duplicate;
  * a resync is always filtered;
  * a delete always reaches `AggDeleted`.

`ViewFollowsStores == NoStageError /\ DistinctOutputNames => (Spec =>
[]ViewMatchesStores)`.

* `DistinctOutputNames` says that the outputs of two source objects with
  different keys have different names, so the pipeline does not group.
* The spec (lines 191–193) makes `@project` one-to-one, so this is the
  contract of a projection, not an extra restriction.
* The inductive invariant is `VInv == SInv /\ VI(store, view)`. `VI` says
  that the view holds exactly the outputs of the live stored objects, each
  under its own name. A key is live when its object is present and not
  dropped by `@select`.
* The argument is that an event changes one key `k`. Its deltas clear the
  name of `k`'s old output and write the name of its new one
  (`Clear`/`Put`). `LiveNames` and `FreeName` show that no other live
  key's output shares either name.

`DeltasFitView == NoStageError /\ DistinctOutputNames => (Spec =>
DeltasMatchView)` is an action property. It says that every delta of an
event, applied in order, is an `Added` for a name the view lacks, or an
`Updated`/`Deleted` for one it holds. It uses `VInv` again.

* `EvalFits` has one case per branch of `evaluateAggregation` and one per
  case of `Consolidate`.
* A renaming update yields two deltas. `FitsTwo` shows that the `Added`
  fits the view the `Deleted` leaves.

### Join engine (`JoinEngineProofs`, `JoinViewProofs`)

`JoinTypeCorrect == Spec => []TypeOK` holds for every join condition,
errors included.

`JoinStoreFollowsSource == NoJoinError => (Spec => []StoreTracksSource)`.

* `NoJoinError` says that `evalJoin` never fails: at least two kinds, and a
  condition that is never an error on the combinations it meets.
* `join_nilfails` shows that the hypothesis is needed.
* The inductive invariant is `SInv == src \in StoreT /\ store = src /\
  created \subseteq Kinds`.
* One lemma per case of `evaluateJoin` gives its effect on the store.

`JoinViewFollowsStores == NoJoinError /\ NilRejected => (Spec =>
[]ViewMatchesJoin)`.

* `NilRejected` says that the condition accepts no combination with a nil
  slot. `join_nilslot` shows the violation without it.
* The condition of `join_pass` satisfies both hypotheses. TLC evaluates
  them on `MCJoinEngine`'s constants.
* The inductive invariant is `JInv == SInv /\ TypeOK /\ CR(store, created)
  /\ JI(store, view)`.
  * `JI` says that the target holds exactly the outputs of the accepted
    combinations (`Acc`), each under its name `IDs(c)`.
  * `CR` says that every stored object's kind has a base store in
    `created`. It is needed because `evalJoin` enumerates only the created
    stores. Without `CR`, a stored object could be missing from the product
    and its outputs from `JI`.
* The argument:
  * An event changes the content under one key `kk`.
  * `EvalTouching` shows that `evalJoin` on the event's object yields the
    outputs of the accepted combinations that use `kk` (`Touching`).
  * `EvalShape` shows that every branch of `evaluateJoin` is either a skip
    or a change under `kk` with the deltas `ChangeOut`. These are the
    deletes of the old touching outputs and the adds of the new ones,
    consolidated by `diffDeltas` (`DiffChar`).
  * Combinations that do not use `kk` are unaffected (`KeepAcc`).
  * Names are injective on `Acc` (`IDsInjective`).
  * Together these give `ChangeJI`.

`JoinDeltasFitTarget == NoJoinError /\ NilRejected => (Spec =>
JoinDeltasFit)` is an action property. Within one event:

* no group names an output twice, and no two groups share a name;
* deletes and updates name outputs the target holds;
* adds name outputs it lacks.

`ChangeFits` proves it from `JI`: an old touching output is present, and a
new one whose name is not old is absent. The first conjunct of
`JoinDeltasFit` is stated per pair of deltas, which is what `diffDeltas`'
consolidation guarantees.

`AbsentAssumption` (`Absent \notin JoinObj`) and `SentinelAssumption` (the
sentinels are not view documents) make "present" mean "holds an output".

### Resources and the composite client

* `ResolutionCorrect == Spec => []GetGVKMatchesSpec` and
  `ResourceTypeCorrect == Spec => []TypeOK` hold from `ResourceAssumption`.
  The view group and version, `NoValue`, `NoMatch` and `NoKind` are
  distinct from the real ones. `GetGVKCorrect` has one case per branch of
  `GetGVK`. No strengthening is needed.
* `FailedCallsHaveNoEffect == Spec => FailedCallNoEffect` says that a call
  that returns an error has changed neither store.

### Only model-checked

* The properties of the violation runs (`UpdatesChangeTarget`,
  `StoreUnchangedOnError`, `ReadYourWrites`, `DeleteAllOfClears`, and
  `ViewMatchesJoin` or `StoreTracksSource` without their hypotheses). The
  code breaks them, so TLC's counterexample is the result.
* Anything that needs induction over the recursive stage list
  (`EvalStages`). The library's induction theorems take an operator
  parameter that the installed provers cannot instantiate.
* Liveness and `ENABLED` are outside TLAPS. No liveness property is
  stated.

## Not modelled, and the plan

Next, in order:

1. **Composition**: a join followed by an aggregation, with the abstract
   spec "target = pipeline(sources)" as a refinement for injective
   projections.
2. **`PatchTarget`**: the Patcher's strategic-merge patch and
   `removeNested` over small nested maps. `removeNested` leaves lists in
   place (a TODO at `view_object_test.go:645`).
3. **Target writer with the client**: `target.Write` resolving the GVK
   twice (lines 454 and 485) against a changing mapper, and writing through
   `CreateOrUpdate` and the composite client.
4. **`MergeAny`/`DeepCopyAny`**, as recursive operators checked against a
   reference definition on small documents.

The parts that stay out of scope:

* The expression evaluator, `cache.Store`, the view cache and the informer
  machinery are not in `src/`.
* `Resource.String`, the error constructors (`error.go`, `part_004`) and
  `Dump` only format data for messages and logs; the models keep whether an
  error happened (`Err`, `failed`, `last.ok`) and drop the text.
* The composite cache's informer routing (`GetInformer`, `IndexField`, ...)
  and `Start` register and start informers of caches that are not in `src/`.
