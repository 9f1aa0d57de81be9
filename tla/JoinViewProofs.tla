--------------------------- MODULE JoinViewProofs ---------------------------
(* Proof that the target of the join holds exactly the join of the base    *)
(* stores (ViewMatchesJoin), for every set of kinds, names and values and  *)
(* every join condition that never fails and accepts no nil slot.          *)
EXTENDS JoinEngineProofs

\* The join condition accepts no combination with a nil slot: every view of
\* the join takes part in every accepted output.
NilRejected == \A c \in Combo : Cond[c] = TRUE => \A k \in Kinds : c[k] # Nil

\* Every slot of combination c is the object the store holds under its key.
Stored(st, c) == \A k \in Kinds : c[k] # Nil /\ st[ObjectKey(c[k])] = c[k].val

\* The combinations of stored objects the condition accepts.
Acc(st) == {c \in Combo : Stored(st, c) /\ (\E k \in Kinds : c[k] # Nil) /\ Cond[c] = TRUE}

\* Combination c holds the object stored under key kk.
Uses(c, kk) == c[kk[1]].name = kk[2]

\* The accepted combinations that hold the object under key kk.
Touching(st, kk) == {c \in Acc(st) : Uses(c, kk)}

IdSet(cs) == {IDs(c) : c \in cs}

\* The target holds the output of every accepted combination, under its
\* name, and nothing else.
JI(st, vw) ==
    /\ \A n \in JoinName : vw[n] # Absent => \E c \in Acc(st) : vw[n] = JoinObject(c) /\ IDs(c) = n
    /\ \A c \in Acc(st) : vw[IDs(c)] = JoinObject(c)

\* Every stored object is of a kind whose base store exists.
CR(st, cr) == \A k \in Key : st[k] # Absent => k[1] \in cr

LEMMA AccCombo ==
    ASSUME NEW st, NEW c \in Acc(st)
    PROVE  /\ c \in Combo
           /\ \A k \in Kinds : c[k] \in Obj /\ c[k].kind = k /\ st[<<k, c[k].name>>] = c[k].val
<1>1. c \in Combo /\ Stored(st, c)
  BY DEF Acc
<1>2. \A k \in Kinds : c[k] \in Obj /\ c[k].kind = k
  BY <1>1 DEF Combo, Stored
<1>3. QED
  BY <1>1, <1>2 DEF Stored, ObjectKey

\* Two accepted combinations of the same store with the same name are the
\* same: the name fixes the key of every slot, the store its content.
LEMMA IDsInjective ==
    ASSUME NEW st, NEW c1 \in Acc(st), NEW c2 \in Acc(st), IDs(c1) = IDs(c2)
    PROVE  c1 = c2
<1>1. \A k \in Kinds : c1[k] \in Obj /\ c1[k].kind = k /\ st[<<k, c1[k].name>>] = c1[k].val
  BY AccCombo
<1>2. \A k \in Kinds : c2[k] \in Obj /\ c2[k].kind = k /\ st[<<k, c2[k].name>>] = c2[k].val
  BY AccCombo
<1>3. \A k \in Kinds : c1[k] # Nil /\ c2[k] # Nil
  BY DEF Acc, Stored
<1>4. ASSUME NEW k \in Kinds PROVE c1[k].name = c2[k].name
  <2>1. <<k, c1[k].name>> \in IDs(c2)
    BY <1>3 DEF IDs
  <2>2. QED
    BY <2>1 DEF IDs
<1>5. ASSUME NEW k \in Kinds PROVE c1[k] = c2[k]
  <2>1. c1[k] = [kind |-> c1[k].kind, name |-> c1[k].name, val |-> c1[k].val]
    BY <1>1 DEF Obj
  <2>2. c2[k] = [kind |-> c2[k].kind, name |-> c2[k].name, val |-> c2[k].val]
    BY <1>2 DEF Obj
  <2>3. c1[k].kind = c2[k].kind /\ c1[k].name = c2[k].name /\ c1[k].val = c2[k].val
    BY <1>1, <1>2, <1>4
  <2>4. QED
    BY <2>1, <2>2, <2>3
<1>6. c1 \in [Kinds -> Obj \cup {Nil}] /\ c2 \in [Kinds -> Obj \cup {Nil}]
  BY AccCombo DEF Combo
<1>7. QED
  BY <1>5, <1>6

\* An accepted combination holds the object under kk exactly when kk is in
\* its name.
LEMMA UsesIDs ==
    ASSUME NEW st, NEW c \in Acc(st), NEW kk \in Key
    PROVE  Uses(c, kk) <=> kk \in IDs(c)
<1>1. \A k \in Kinds : c[k] # Nil
  BY DEF Acc, Stored
<1>2. kk[1] \in Kinds
  BY DEF Key
<1>3. QED
  BY <1>1, <1>2 DEF Uses, IDs, Key

\* A combination that does not hold the object under kk is accepted before
\* a change of the content under kk exactly when it is accepted after it.
LEMMA KeepAcc ==
    ASSUME NEW st \in StoreT, NEW kk \in Key, NEW v, NEW c \in Combo,
           c[kk[1]] # Nil, ~ Uses(c, kk)
    PROVE  c \in Acc(st) <=> c \in Acc([st EXCEPT ![kk] = v])
<1>1. \A k \in Kinds : c[k] # Nil => ObjectKey(c[k]) \in Key /\ ObjectKey(c[k]) # kk
  BY DEF Combo, Obj, ObjectKey, Key, Uses
<1>2. \A k \in Kinds : c[k] # Nil => [st EXCEPT ![kk] = v][ObjectKey(c[k])] = st[ObjectKey(c[k])]
  BY <1>1 DEF StoreT
<1>3. QED
  BY <1>2 DEF Acc, Stored

\* No accepted combination holds the object under a key the store lacks.
LEMMA NoneTouching ==
    ASSUME NEW st \in StoreT, NEW kk \in Key, st[kk] = Absent
    PROVE  Touching(st, kk) = {}
<1> SUFFICES ASSUME NEW c \in Touching(st, kk) PROVE FALSE
  OBVIOUS
<1>1. c \in Acc(st) /\ Uses(c, kk)
  BY DEF Touching
<1>2. c[kk[1]] \in Obj /\ c[kk[1]].kind = kk[1] /\ st[<<kk[1], c[kk[1]].name>>] = c[kk[1]].val
  BY <1>1, AccCombo DEF Key
<1>3. <<kk[1], c[kk[1]].name>> = kk
  BY <1>1 DEF Uses, Key
<1>4. QED
  BY <1>2, <1>3, ConstAssumption DEF Obj
\* An object as the store holds it.
LEMMA ObjRecord ==
    ASSUME NEW x \in Obj PROVE x = StoredObj(<<x.kind, x.name>>, x.val)
BY DEF Obj, StoredObj

\* evalJoin on an object o, with a condition that never fails and rejects
\* nil slots, returns the outputs of the accepted combinations that hold o,
\* over the store with o in it.
LEMMA EvalTouching ==
    ASSUME NoJoinError, NilRejected, NEW st \in StoreT, NEW cr \in SUBSET Kinds,
           CR(st, cr), NEW o \in Obj, NEW st2, st2 = [st EXCEPT ![ObjectKey(o)] = o.val]
    PROVE  EvalJoin(st, cr, o) = {JoinObject(c) : c \in Touching(st2, ObjectKey(o))}
<1> DEFINE kk == ObjectKey(o)
<1>0. kk \in Key /\ kk = <<o.kind, o.name>> /\ o.kind \in Kinds /\ st2[kk] = o.val
  BY ObjectKeyInKey DEF ObjectKey, Obj, StoreT
<1>1. EvalJoin(st, cr, o) # Err
  BY DEF NoJoinError
<1>2. EvalJoin(st, cr, o) = {JoinObject(c) : c \in {c \in Product(st, cr, o) : Cond[c] = TRUE}}
  BY <1>1 DEF EvalJoin
<1>3. ASSUME NEW c \in Product(st, cr, o), Cond[c] = TRUE PROVE c \in Touching(st2, kk)
  <2>1. c \in Combo /\ \A k \in Kinds : c[k] \in Slots(st, cr, o, k)
    BY DEF Product
  <2>2. \A k \in Kinds : c[k] # Nil
    BY <1>3, <2>1 DEF NilRejected
  <2>3. c[o.kind] = o
    BY <1>0, <2>1 DEF Slots
  <2>4. ASSUME NEW k \in Kinds, k # o.kind PROVE st2[ObjectKey(c[k])] = c[k].val
    <3>1. k \in cr
      BY <2>1, <2>2, <2>4 DEF Slots
    <3>2. PICK n \in Names : st[<<k, n>>] # Absent /\ c[k] = StoredObj(<<k, n>>, st[<<k, n>>])
      BY <2>1, <2>4, <3>1 DEF Slots
    <3>3. ObjectKey(c[k]) = <<k, n>> /\ <<k, n>> \in Key /\ <<k, n>> # kk
      BY <1>0, <2>4, <3>2 DEF StoredObj, ObjectKey, Key
    <3>4. QED
      BY <3>2, <3>3 DEF StoreT, StoredObj
  <2>5. st2[ObjectKey(c[o.kind])] = c[o.kind].val
    BY <1>0, <2>3
  <2>6. Stored(st2, c)
    BY <2>2, <2>4, <2>5 DEF Stored
  <2>7. Uses(c, kk)
    BY <1>0, <2>3 DEF Uses
  <2>8. QED
    BY <1>0, <1>3, <2>1, <2>2, <2>6, <2>7 DEF Touching, Acc
<1>4. ASSUME NEW c \in Touching(st2, kk) PROVE c \in Product(st, cr, o) /\ Cond[c] = TRUE
  <2>1. c \in Acc(st2) /\ Uses(c, kk)
    BY DEF Touching
  <2>2. \A k \in Kinds : c[k] \in Obj /\ c[k].kind = k /\ st2[<<k, c[k].name>>] = c[k].val
    BY <2>1, AccCombo
  <2>3. c[o.kind] = o
    <3>1. c[o.kind] = StoredObj(<<o.kind, o.name>>, o.val)
      BY <1>0, <2>1, <2>2, ObjRecord DEF Uses
    <3>2. QED
      BY <3>1, ObjRecord
  <2>4. ASSUME NEW k \in Kinds, k # o.kind PROVE c[k] \in Slots(st, cr, o, k)
    <3> DEFINE n == c[k].name
    <3>1. <<k, n>> \in Key /\ <<k, n>> # kk
      BY <1>0, <2>2, <2>4 DEF Obj, Key
    <3>2. st[<<k, n>>] = c[k].val /\ c[k].val \in Vals
      BY <2>2, <3>1 DEF StoreT, Obj
    <3>3. st[<<k, n>>] # Absent
      BY <3>2, ConstAssumption
    <3>4. k \in cr
      BY <3>1, <3>3 DEF CR
    <3>5. c[k] = StoredObj(<<k, n>>, st[<<k, n>>])
      BY <2>2, <3>2, ObjRecord
    <3>6. n \in {m \in Names : st[<<k, m>>] # Absent}
      BY <2>2, <3>3 DEF Obj
    <3>7. c[k] \in {StoredObj(<<k, m>>, st[<<k, m>>]) : m \in {m2 \in Names : st[<<k, m2>>] # Absent}}
      BY <3>5, <3>6
    <3>8. QED
      BY <2>4, <3>4, <3>7 DEF Slots
  <2>5. \A k \in Kinds : c[k] \in Slots(st, cr, o, k)
    BY <2>3, <2>4 DEF Slots
  <2>6. QED
    BY <2>1, <2>5 DEF Product, Acc
<1>5. {c \in Product(st, cr, o) : Cond[c] = TRUE} = Touching(st2, kk)
  BY <1>3, <1>4
<1>6. QED
  BY <1>2, <1>5
\* The Updater writes, under a name some delta of a group names, the effect
\* of the delta, when all those deltas have the same effect.
LEMMA ApplySetHit ==
    ASSUME NEW v \in ViewT, NEW ds, NEW n \in JoinName, NEW e,
           \E d \in ds : d.object.name = n,
           \A d \in ds : d.object.name = n => Effect(d) = e
    PROVE  ApplySet(v, ds)[n] = e
BY DEF ApplySet, ViewT

\* ... and leaves a name no delta of the group names as it was.
LEMMA ApplySetMiss ==
    ASSUME NEW v \in ViewT, NEW ds, NEW n \in JoinName,
           ~ \E d \in ds : d.object.name = n
    PROVE  ApplySet(v, ds)[n] = v[n]
BY DEF ApplySet, ViewT

\* containsDelta on the deltas of a set of outputs: an output of that name.
LEMMA ContainsDeltas ==
    ASSUME NEW t, NEW S, NEW d
    PROVE  ContainsDelta(Deltas(t, S), d) <=> d.object.name \in {a.name : a \in S}
<1>1. ASSUME ContainsDelta(Deltas(t, S), d) PROVE d.object.name \in {a.name : a \in S}
  <2>1. PICK n \in Deltas(t, S) : n.object.name = d.object.name
    BY <1>1 DEF ContainsDelta
  <2>2. PICK x \in S : n = [type |-> t, object |-> x]
    BY DEF Deltas
  <2>3. QED
    BY <2>1, <2>2
<1>2. ASSUME NEW a \in S, a.name = d.object.name PROVE ContainsDelta(Deltas(t, S), d)
  <2>1. [type |-> t, object |-> a] \in Deltas(t, S)
    BY DEF Deltas
  <2>2. QED
    BY <1>2, <2>1 DEF ContainsDelta
<1>3. QED
  BY <1>1, <1>2

\* The deltas of a set of outputs: one delta of the type for each output.
LEMMA DeltasMembers ==
    ASSUME NEW t, NEW S
    PROVE  /\ \A x \in Deltas(t, S) : x.object \in S /\ x = [type |-> t, object |-> x.object]
           /\ \A y \in S : [type |-> t, object |-> y] \in Deltas(t, S)
BY DEF Deltas

\* The objects of the deltas of S selected by name are the outputs of S
\* selected by name, pointwise.
LEMMA DeltaObjectsIn ==
    ASSUME NEW t, NEW S, NEW N, NEW y
    PROVE  /\ (\E d \in Deltas(t, S) : d.object.name \in N /\ y = d.object) <=> (y \in S /\ y.name \in N)
           /\ (\E d \in Deltas(t, S) : d.object.name \notin N /\ y = d.object) <=> (y \in S /\ y.name \notin N)
<1>1. ASSUME y \in S PROVE [type |-> t, object |-> y] \in Deltas(t, S) /\ [type |-> t, object |-> y].object = y
  BY <1>1, DeltasMembers
<1>2. \A d \in Deltas(t, S) : d.object \in S
  BY DeltasMembers
<1>3. QED
  BY <1>1, <1>2

\* The deltas diffDeltas makes of the outputs D of the delete half and the
\* outputs A of the add half: the outputs of D no output of A renames are
\* deleted, the outputs of A named as one of D updated, the others added.
LEMMA DiffChar ==
    ASSUME NEW D, NEW A
    PROVE  DiffDeltas(Deltas("Deleted", D), Deltas("Added", A)) =
             [dels |-> Deltas("Deleted", {x \in D : x.name \notin {a.name : a \in A}}),
              upds |-> Deltas("Updated", {x \in A : x.name \in {d.name : d \in D}}),
              adds |-> Deltas("Added", {x \in A : x.name \notin {d.name : d \in D}})]
<1> DEFINE NA == {a.name : a \in A}
           ND == {d.name : d \in D}
<1> HIDE DEF NA, ND
<1>1. {x \in Deltas("Deleted", D) : ~ ContainsDelta(Deltas("Added", A), x)}
        = {x \in Deltas("Deleted", D) : x.object.name \notin NA}
  BY ContainsDeltas DEF NA, ND
<1>2. {x \in Deltas("Added", A) : ContainsDelta(Deltas("Deleted", D), x)}
        = {x \in Deltas("Added", A) : x.object.name \in ND}
  BY ContainsDeltas DEF NA, ND
<1>3. {x \in Deltas("Added", A) : ~ ContainsDelta(Deltas("Deleted", D), x)}
        = {x \in Deltas("Added", A) : x.object.name \notin ND}
  BY ContainsDeltas DEF NA, ND
<1>4. {d.object : d \in {x \in Deltas("Deleted", D) : ~ ContainsDelta(Deltas("Added", A), x)}}
        = {x \in D : x.name \notin NA}
  <2>1. {d.object : d \in {x \in Deltas("Deleted", D) : x.object.name \notin NA}} = {x \in D : x.name \notin NA}
    <3>1. \A y : (\E d \in Deltas("Deleted", D) : d.object.name \notin NA /\ y = d.object) <=> (y \in D /\ y.name \notin NA)
      BY DeltaObjectsIn
    <3>2. QED
      BY <3>1
  <2>2. QED
    BY <1>1, <2>1
<1>5. {d.object : d \in {x \in Deltas("Added", A) : ContainsDelta(Deltas("Deleted", D), x)}}
        = {x \in A : x.name \in ND}
  <2>1. {d.object : d \in {x \in Deltas("Added", A) : x.object.name \in ND}} = {x \in A : x.name \in ND}
    <3>1. \A y : (\E d \in Deltas("Added", A) : d.object.name \in ND /\ y = d.object) <=> (y \in A /\ y.name \in ND)
      BY DeltaObjectsIn
    <3>2. QED
      BY <3>1
  <2>2. QED
    BY <1>2, <2>1
<1>6. {d.object : d \in {x \in Deltas("Added", A) : ~ ContainsDelta(Deltas("Deleted", D), x)}}
        = {x \in A : x.name \notin ND}
  <2>1. {d.object : d \in {x \in Deltas("Added", A) : x.object.name \notin ND}} = {x \in A : x.name \notin ND}
    <3>1. \A y : (\E d \in Deltas("Added", A) : d.object.name \notin ND /\ y = d.object) <=> (y \in A /\ y.name \notin ND)
      BY DeltaObjectsIn
    <3>2. QED
      BY <3>1
  <2>2. QED
    BY <1>3, <2>1
<1>7. QED
  BY <1>4, <1>5, <1>6 DEF DiffDeltas, NA, ND

\* Writing the deltas of an update: every output of the add half is in the
\* target under its name; a name no such output has is removed when an
\* output of the delete half had it, and kept otherwise.
LEMMA DiffApply ==
    ASSUME NEW vw \in ViewT, NEW D \in SUBSET JoinObj, NEW A \in SUBSET JoinObj,
           \A a1, a2 \in A : a1.name = a2.name => a1 = a2,
           NEW vw2, vw2 = ApplyOut(vw, DiffDeltas(Deltas("Deleted", D), Deltas("Added", A)))
    PROVE  /\ vw2 \in ViewT
           /\ \A a \in A : vw2[a.name] = a
           /\ \A n \in JoinName : n \notin {a.name : a \in A} =>
                  vw2[n] = IF n \in {d.name : d \in D} THEN Absent ELSE vw[n]
<1> DEFINE NA == {a.name : a \in A}
           ND == {d.name : d \in D}
           dels == Deltas("Deleted", {x \in D : x.name \notin NA})
           upds == Deltas("Updated", {x \in A : x.name \in ND})
           adds == Deltas("Added", {x \in A : x.name \notin ND})
           v1 == ApplySet(vw, dels)
           v2 == ApplySet(v1, upds)
<1> HIDE DEF dels, upds, adds
<1>0. DiffDeltas(Deltas("Deleted", D), Deltas("Added", A)) = [dels |-> dels, upds |-> upds, adds |-> adds]
  BY DiffChar DEF dels, upds, adds
<1>1. vw2 = ApplySet(v2, adds)
  BY <1>0 DEF ApplyOut
<1>2. dels \subseteq DeltaRec /\ upds \subseteq DeltaRec /\ adds \subseteq DeltaRec
  BY DeltasType DEF DeltaType, dels, upds, adds
<1>3. v1 \in ViewT /\ v2 \in ViewT /\ vw2 \in ViewT
  BY <1>1, <1>2, ApplySetType
<1>4. ASSUME NEW a \in A PROVE vw2[a.name] = a
  <2>1. a.name \in JoinName
    BY DEF JoinObj
  <2>2. \A d \in upds \cup adds : d.object.name = a.name => Effect(d) = a
    BY DEF upds, adds, Deltas, Effect
  <2>3. CASE a.name \in ND
    <3>1. v2[a.name] = a
      <4>1. [type |-> "Updated", object |-> a] \in upds
        BY <2>3 DEF upds, Deltas
      <4>2. \E d \in upds : d.object.name = a.name
        BY <4>1
      <4>3. QED
        BY <1>3, <2>1, <2>2, <4>2, ApplySetHit
    <3>2. ~ \E d \in adds : d.object.name = a.name
      BY <2>3 DEF adds, Deltas
    <3>3. QED
      BY <1>1, <1>3, <2>1, <3>1, <3>2, ApplySetMiss
  <2>4. CASE a.name \notin ND
    <3>1. [type |-> "Added", object |-> a] \in adds
      BY <2>4 DEF adds, Deltas
    <3>2. \E d \in adds : d.object.name = a.name
      BY <3>1
    <3>3. QED
      BY <1>1, <1>3, <2>1, <2>2, <3>2, ApplySetHit
  <2>5. QED
    BY <2>3, <2>4
<1>5. ASSUME NEW n \in JoinName, n \notin NA
      PROVE  vw2[n] = IF n \in ND THEN Absent ELSE vw[n]
  <2>1. /\ ~ \E d \in upds : d.object.name = n
        /\ ~ \E d \in adds : d.object.name = n
    BY <1>5 DEF upds, adds, Deltas
  <2>2. vw2[n] = v1[n]
    BY <1>1, <1>3, <2>1, ApplySetMiss
  <2>3. CASE n \in ND
    <3>1. PICK x \in D : x.name = n
      BY <2>3
    <3>2. [type |-> "Deleted", object |-> x] \in dels
      BY <1>5, <3>1 DEF dels, Deltas
    <3>3. \E d \in dels : d.object.name = n
      BY <3>1, <3>2
    <3>4. \A d \in dels : d.object.name = n => Effect(d) = Absent
      BY DEF dels, Deltas, Effect
    <3>5. QED
      BY <2>2, <2>3, <3>3, <3>4, ApplySetHit
  <2>4. CASE n \notin ND
    <3>1. ~ \E d \in dels : d.object.name = n
      BY <2>4 DEF dels, Deltas
    <3>2. QED
      BY <2>2, <2>4, <3>1, ApplySetMiss
  <2>5. QED
    BY <2>3, <2>4
<1>6. QED
  BY <1>3, <1>4, <1>5

\* The outputs of a set of combinations.
JOs(cs) == {JoinObject(c) : c \in cs}

\* The deltas of a change of the content under kk from store st to st2: the
\* outputs that held the old content are deleted, those that hold the new
\* content added, with diffDeltas' consolidation of equal names.
ChangeOut(st, st2, kk) ==
    DiffDeltas(Deltas("Deleted", JOs(Touching(st, kk))), Deltas("Added", JOs(Touching(st2, kk))))

LEMMA JOsType ==
    ASSUME NEW st PROVE JOs(Acc(st)) \subseteq JoinObj /\ \A kk : JOs(Touching(st, kk)) \subseteq JoinObj
BY JoinObjectType DEF JOs, Acc, Touching

\* Writing the deltas of a change under one key keeps the target the join
\* of the store.
LEMMA ChangeJI ==
    ASSUME NEW st \in StoreT, NEW vw \in ViewT, JI(st, vw), NEW kk \in Key,
           NEW v \in Vals \cup {Absent}, NEW st2, st2 = [st EXCEPT ![kk] = v]
    PROVE  JI(st2, ApplyOut(vw, ChangeOut(st, st2, kk)))
<1> DEFINE D == JOs(Touching(st, kk))
           A == JOs(Touching(st2, kk))
           nvw == ApplyOut(vw, ChangeOut(st, st2, kk))
<1>1. D \subseteq JoinObj /\ A \subseteq JoinObj
  BY JOsType
<1>2. \A a1, a2 \in A : a1.name = a2.name => a1 = a2
  <2>1. SUFFICES ASSUME NEW a1 \in A, NEW a2 \in A, a1.name = a2.name PROVE a1 = a2
    OBVIOUS
  <2>2. PICK c1 \in Touching(st2, kk) : a1 = JoinObject(c1)
    BY DEF JOs
  <2>3. PICK c2 \in Touching(st2, kk) : a2 = JoinObject(c2)
    BY DEF JOs
  <2>4. IDs(c1) = IDs(c2) /\ c1 \in Acc(st2) /\ c2 \in Acc(st2)
    BY <2>1, <2>2, <2>3 DEF JoinObject, Touching
  <2>5. c1 = c2
    BY <2>4, IDsInjective
  <2>6. QED
    BY <2>2, <2>3, <2>5
<1>3. nvw = ApplyOut(vw, DiffDeltas(Deltas("Deleted", D), Deltas("Added", A)))
  BY DEF ChangeOut
<1> HIDE DEF D, A, nvw
<1>4. /\ nvw \in ViewT
      /\ \A a \in A : nvw[a.name] = a
      /\ \A n \in JoinName : n \notin {a.name : a \in A} =>
             nvw[n] = IF n \in {d.name : d \in D} THEN Absent ELSE vw[n]
  BY <1>1, <1>2, <1>3, DiffApply
<1>5. \A c \in Touching(st2, kk) : nvw[IDs(c)] = JoinObject(c)
  <2>1. SUFFICES ASSUME NEW c \in Touching(st2, kk) PROVE nvw[IDs(c)] = JoinObject(c)
    OBVIOUS
  <2>2. JoinObject(c) \in A /\ JoinObject(c).name = IDs(c)
    BY DEF JOs, JoinObject, A
  <2>3. QED
    BY <1>4, <2>2
<1>6. ASSUME NEW n \in JoinName, n \notin IdSet(Touching(st2, kk))
      PROVE  nvw[n] = IF n \in IdSet(Touching(st, kk)) THEN Absent ELSE vw[n]
  <2>1. n \notin {a.name : a \in A}
    <3>1. SUFFICES ASSUME NEW a \in A, a.name = n PROVE FALSE
      OBVIOUS
    <3>2. PICK c \in Touching(st2, kk) : a = JoinObject(c)
      BY DEF A, JOs
    <3>3. n = IDs(c)
      BY <3>1, <3>2 DEF JoinObject
    <3>4. QED
      BY <1>6, <3>3 DEF IdSet
  <2>2. ASSUME NEW d \in D, d.name = n PROVE n \in IdSet(Touching(st, kk))
    <3>1. PICK c \in Touching(st, kk) : d = JoinObject(c)
      BY DEF D, JOs
    <3>2. n = IDs(c)
      BY <2>2, <3>1 DEF JoinObject
    <3>3. QED
      BY <3>2 DEF IdSet
  <2>3. ASSUME n \in IdSet(Touching(st, kk)) PROVE \E d \in D : d.name = n
    <3>1. PICK c \in Touching(st, kk) : n = IDs(c)
      BY <2>3 DEF IdSet
    <3>2. JoinObject(c) \in D /\ JoinObject(c).name = n
      BY <3>1 DEF D, JOs, JoinObject
    <3>3. QED
      BY <3>2
  <2>4. n \in {d.name : d \in D} <=> n \in IdSet(Touching(st, kk))
    BY <2>2, <2>3
  <2>5. QED
    BY <1>4, <2>1, <2>4
<1>7. \A n \in JoinName : n \notin IdSet(Touching(st2, kk)) =>
          nvw[n] = IF n \in IdSet(Touching(st, kk)) THEN Absent ELSE vw[n]
  BY <1>6
<1>8. JI(st2, nvw)
  <2> USE <1>4, <1>5, <1>7
  <2>0. st2 \in StoreT /\ kk[1] \in Kinds
    BY DEF StoreT, Key
  <2>1. ASSUME NEW c \in Acc(st2) PROVE nvw[IDs(c)] = JoinObject(c)
    <3>1. CASE Uses(c, kk)
      BY <3>1 DEF Touching
    <3>2. CASE ~ Uses(c, kk)
      <4>1. c \in Combo /\ c[kk[1]] # Nil
        BY <2>0 DEF Acc, Stored
      <4>2. c \in Acc(st)
        BY <3>2, <4>1, KeepAcc
      <4>3. kk \notin IDs(c)
        BY <3>2, UsesIDs
      <4>4. \A c2 \in Touching(st2, kk) \cup Touching(st, kk) : kk \in IDs(c2)
        BY UsesIDs DEF Touching
      <4>5. IDs(c) \notin IdSet(Touching(st2, kk)) /\ IDs(c) \notin IdSet(Touching(st, kk))
        BY <4>3, <4>4 DEF IdSet
      <4>6. IDs(c) \in JoinName
        BY <4>1, JoinObjectType DEF JoinObject, JoinObj
      <4>7. QED
        BY <4>2, <4>5, <4>6 DEF JI
    <3>3. QED
      BY <3>1, <3>2
  <2>2. ASSUME NEW n \in JoinName, nvw[n] # Absent
        PROVE  \E c \in Acc(st2) : nvw[n] = JoinObject(c) /\ IDs(c) = n
    <3>1. CASE n \in IdSet(Touching(st2, kk))
      <4>1. PICK c \in Touching(st2, kk) : IDs(c) = n
        BY <3>1 DEF IdSet
      <4>2. QED
        BY <4>1 DEF Touching
    <3>2. CASE n \notin IdSet(Touching(st2, kk))
      <4>1. n \notin IdSet(Touching(st, kk)) /\ nvw[n] = vw[n]
        BY <2>2, <3>2
      <4>2. PICK c \in Acc(st) : vw[n] = JoinObject(c) /\ IDs(c) = n
        BY <2>2, <4>1 DEF JI
      <4>3. ~ Uses(c, kk)
        BY <4>1, <4>2 DEF IdSet, Touching
      <4>4. c \in Combo /\ c[kk[1]] # Nil
        BY <2>0 DEF Acc, Stored
      <4>5. c \in Acc(st2)
        BY <4>3, <4>4, KeepAcc
      <4>6. QED
        BY <4>1, <4>2, <4>5
    <3>3. QED
      BY <3>1, <3>2
  <2>3. QED
    BY <2>1, <2>2 DEF JI
<1>9. QED
  BY <1>8 DEF nvw

\* diffDeltas when one half is empty: the other half's deltas unchanged.
LEMMA DiffOneSided ==
    ASSUME NEW D, NEW A
    PROVE  /\ DiffDeltas(Deltas("Deleted", D), Deltas("Added", {})) =
                [dels |-> Deltas("Deleted", D), upds |-> {}, adds |-> {}]
           /\ DiffDeltas(Deltas("Deleted", {}), Deltas("Added", A)) =
                [dels |-> {}, upds |-> {}, adds |-> Deltas("Added", A)]
<1>1. DiffDeltas(Deltas("Deleted", D), Deltas("Added", {})) =
        [dels |-> Deltas("Deleted", {x \in D : x.name \notin {a.name : a \in {}}}),
         upds |-> Deltas("Updated", {x \in {} : x.name \in {d.name : d \in D}}),
         adds |-> Deltas("Added", {x \in {} : x.name \notin {d.name : d \in D}})]
  BY DiffChar
<1>2. DiffDeltas(Deltas("Deleted", {}), Deltas("Added", A)) =
        [dels |-> Deltas("Deleted", {x \in {} : x.name \notin {a.name : a \in A}}),
         upds |-> Deltas("Updated", {x \in A : x.name \in {d.name : d \in {}}}),
         adds |-> Deltas("Added", {x \in A : x.name \notin {d.name : d \in {}}})]
  BY DiffChar
<1>3. /\ {x \in D : x.name \notin {a.name : a \in {}}} = D
      /\ {x \in A : x.name \notin {d.name : d \in {}}} = A
      /\ {x \in A : x.name \in {d.name : d \in {}}} = {}
      /\ {x \in {} : x.name \in {d.name : d \in D}} = {}
      /\ {x \in {} : x.name \notin {d.name : d \in D}} = {}
      /\ {x \in {} : x.name \notin {a.name : a \in A}} = {}
  OBVIOUS
<1>4. \A t : Deltas(t, {}) = {}
  BY DEF Deltas
<1>5. QED
  BY <1>1, <1>2, <1>3, <1>4

\* evaluateJoin, case Added, on a key the store lacks: the change of the
\* content under the key, and its deltas.
LEMMA AddedOut ==
    ASSUME NoJoinError, NilRejected, NEW st \in StoreT, NEW cr \in SUBSET Kinds,
           CR(st, cr), NEW o \in Obj, st[ObjectKey(o)] = Absent,
           NEW st2, st2 = [st EXCEPT ![ObjectKey(o)] = o.val]
    PROVE  JoinAdded(st, cr, o) = [err |-> FALSE, st |-> st2, out |-> ChangeOut(st, st2, ObjectKey(o))]
<1> DEFINE kk == ObjectKey(o)
           A == JOs(Touching(st2, kk))
<1>1. EvalJoin(st, cr, o) = A
  BY EvalTouching DEF JOs
<1>2. A # Err
  BY <1>1 DEF NoJoinError
<1>3. JOs(Touching(st, kk)) = {}
  BY ObjectKeyInKey, NoneTouching DEF JOs
<1>4. ChangeOut(st, st2, kk) = [dels |-> {}, upds |-> {}, adds |-> Deltas("Added", A)]
  BY <1>3, DiffOneSided DEF ChangeOut
<1>5. QED
  BY <1>1, <1>2, <1>4 DEF JoinAdded, NoOut

\* evaluateJoin, case Deleted: the change of the content under the key to
\* none, and its deltas (none for an unknown object).
LEMMA DeletedOut ==
    ASSUME NoJoinError, NilRejected, NEW st \in StoreT, NEW cr \in SUBSET Kinds,
           CR(st, cr), NEW o \in Obj, NEW st2, st2 = [st EXCEPT ![ObjectKey(o)] = Absent]
    PROVE  JoinDeleted(st, cr, o) = [err |-> FALSE, st |-> st2, out |-> ChangeOut(st, st2, ObjectKey(o))]
<1> DEFINE kk == ObjectKey(o)
           D == JOs(Touching(st, kk))
<1>0. kk \in Key /\ st2 \in StoreT /\ st2[kk] = Absent
  BY ObjectKeyInKey DEF StoreT
<1>1. JOs(Touching(st2, kk)) = {}
  BY <1>0, NoneTouching DEF JOs
<1>2. ChangeOut(st, st2, kk) = [dels |-> Deltas("Deleted", D), upds |-> {}, adds |-> {}]
  BY <1>1, DiffOneSided DEF ChangeOut
<1>3. CASE st[kk] = Absent
  <2>1. st2 = st /\ D = {}
    BY <1>0, <1>3, NoneTouching DEF StoreT, JOs
  <2>2. Deltas("Deleted", {}) = {}
    BY DEF Deltas
  <2>3. QED
    BY <1>2, <1>3, <2>1, <2>2 DEF JoinDeleted, Skip, NoOut
<1>4. CASE st[kk] # Absent
  <2> DEFINE so == StoredObj(kk, st[kk])
  <2>1. so \in Obj /\ ObjectKey(so) = kk /\ so.val = st[kk]
    BY <1>0, <1>4, StoredObjInObj DEF StoreT, StoredObj, ObjectKey, Key
  <2>2. st = [st EXCEPT ![kk] = st[kk]]
    BY <1>0 DEF StoreT
  <2>3. EvalJoin(st, cr, so) = D
    BY <2>1, <2>2, EvalTouching DEF JOs
  <2>4. D # Err
    BY <2>1, <2>3 DEF NoJoinError
  <2>5. QED
    BY <1>2, <1>4, <2>3, <2>4 DEF JoinDeleted, NoOut
<1>5. QED
  BY <1>3, <1>4
\* evaluateJoin, case Updated/Replaced: the nested Deleted and Added make
\* one change of the content under the key, and diffDeltas' deltas are the
\* deltas of that change.
LEMMA UpdatedOut ==
    ASSUME NoJoinError, NilRejected, NEW st \in StoreT, NEW cr \in SUBSET Kinds,
           CR(st, cr), NEW o \in Obj, NEW st2, st2 = [st EXCEPT ![ObjectKey(o)] = o.val]
    PROVE  JoinUpdated(st, cr, o) = [err |-> FALSE, st |-> st2, out |-> ChangeOut(st, st2, ObjectKey(o))]
<1> DEFINE kk == ObjectKey(o)
           sD == [st EXCEPT ![kk] = Absent]
           del == JoinDeleted(st, cr, o)
<1> HIDE DEF sD, del
<1>0. /\ kk \in Key /\ sD \in StoreT /\ sD[kk] = Absent /\ CR(sD, cr)
      /\ [sD EXCEPT ![kk] = o.val] = st2
  BY ObjectKeyInKey DEF StoreT, sD, CR
<1>1. del = [err |-> FALSE, st |-> sD, out |-> ChangeOut(st, sD, kk)]
  BY DeletedOut DEF sD, del
<1>2. JoinAdded(sD, cr, o) = [err |-> FALSE, st |-> st2, out |-> ChangeOut(sD, st2, kk)]
  BY <1>0, AddedOut
<1>3. JOs(Touching(sD, kk)) = {}
  BY <1>0, NoneTouching DEF JOs
<1>4. ChangeOut(st, sD, kk).dels = Deltas("Deleted", JOs(Touching(st, kk)))
  BY <1>3, DiffOneSided DEF ChangeOut
<1>5. ChangeOut(sD, st2, kk).adds = Deltas("Added", JOs(Touching(st2, kk)))
  BY <1>3, DiffOneSided DEF ChangeOut
<1>6. del.st = sD
  BY <1>1
<1>7. JoinUpdated(st, cr, o) =
        [err |-> FALSE, st |-> JoinAdded(del.st, cr, o).st,
         out |-> DiffDeltas(del.out.dels, JoinAdded(del.st, cr, o).out.adds)]
  BY <1>1, <1>2, <1>6 DEF JoinUpdated, del
<1>8. del.out.dels = Deltas("Deleted", JOs(Touching(st, kk)))
  BY <1>1, <1>4
<1>9. JoinAdded(del.st, cr, o).out.adds = Deltas("Added", JOs(Touching(st2, kk)))
      /\ JoinAdded(del.st, cr, o).st = st2
  BY <1>2, <1>5, <1>6
<1>10. QED
  BY <1>7, <1>8, <1>9 DEF ChangeOut

LEMMA ApplyNoOut ==
    ASSUME NEW vw \in ViewT PROVE ApplyOut(vw, NoOut) = vw
BY DEF ApplyOut, ApplySet, NoOut, ViewT

\* A successful change under a key of the event's kind keeps the target the
\* join of the store, and every stored object of a created kind.
LEMMA ChangeResult ==
    ASSUME NEW st \in StoreT, NEW cr, CR(st, cr), NEW vw \in ViewT, JI(st, vw),
           NEW kk \in Key, kk[1] \in cr, NEW v \in Vals \cup {Absent},
           NEW st2, st2 = [st EXCEPT ![kk] = v],
           NEW r, r = [err |-> FALSE, st |-> st2, out |-> ChangeOut(st, st2, kk)]
    PROVE  r.err = FALSE /\ JI(r.st, ApplyOut(vw, r.out)) /\ CR(r.st, cr)
<1>1. JI(st2, ApplyOut(vw, ChangeOut(st, st2, kk)))
  BY ChangeJI
<1>2. CR(st2, cr)
  BY DEF CR, StoreT
<1>3. QED
  BY <1>1, <1>2

\* One event of evaluateJoin, with a condition that never fails and rejects
\* nil slots, either is skipped or makes one change of the content under
\* the event's key, with the deltas of that change, provided an event
\* classified as an add finds its key absent (as the source ensures).
LEMMA EvalShape ==
    ASSUME NoJoinError, NilRejected, NEW st \in StoreT, NEW cr \in SUBSET Kinds,
           CR(st, cr), NEW t \in DeltaType, NEW o \in Obj,
           HandleUpsert(st, t, o) = "Added" => st[ObjectKey(o)] = Absent
    PROVE  \/ EvaluateJoin(st, cr, t, o) = [err |-> FALSE, st |-> st, out |-> NoOut]
           \/ \E v \in Vals \cup {Absent} :
                EvaluateJoin(st, cr, t, o) =
                  [err |-> FALSE, st |-> [st EXCEPT ![ObjectKey(o)] = v],
                   out |-> ChangeOut(st, [st EXCEPT ![ObjectKey(o)] = v], ObjectKey(o))]
<1> DEFINE kk == ObjectKey(o)
           t2 == HandleUpsert(st, t, o)
<1>0. o.val \in Vals \cup {Absent} /\ Absent \in Vals \cup {Absent}
  BY DEF Obj
<1>1. CASE ~ IsValidEvent(st, t, o)
  BY <1>1 DEF EvaluateJoin, Skip
<1>2. CASE IsValidEvent(st, t, o) /\ t2 = "Added"
  <2>1. EvaluateJoin(st, cr, t, o) = JoinAdded(st, cr, o)
    BY <1>2 DEF EvaluateJoin
  <2>2. QED
    BY <1>0, <1>2, <2>1, AddedOut
<1>3. CASE IsValidEvent(st, t, o) /\ t2 = "Deleted"
  <2>1. EvaluateJoin(st, cr, t, o) = JoinDeleted(st, cr, o)
    BY <1>3 DEF EvaluateJoin
  <2>2. QED
    BY <1>0, <2>1, DeletedOut
<1>4. CASE IsValidEvent(st, t, o) /\ t2 \notin {"Added", "Deleted"}
  <2>1. EvaluateJoin(st, cr, t, o) = JoinUpdated(st, cr, o)
    BY <1>4 DEF EvaluateJoin
  <2>2. QED
    BY <1>0, <2>1, UpdatedOut
<1>5. QED
  BY <1>1, <1>2, <1>3, <1>4

\* ... and so keeps the target the join of the store.
LEMMA EvalJI ==
    ASSUME NoJoinError, NilRejected, NEW st \in StoreT, NEW cr \in SUBSET Kinds,
           CR(st, cr), NEW vw \in ViewT, JI(st, vw), NEW t \in DeltaType,
           NEW o \in Obj, o.kind \in cr,
           HandleUpsert(st, t, o) = "Added" => st[ObjectKey(o)] = Absent
    PROVE  /\ EvaluateJoin(st, cr, t, o).err = FALSE
           /\ JI(EvaluateJoin(st, cr, t, o).st, ApplyOut(vw, EvaluateJoin(st, cr, t, o).out))
           /\ CR(EvaluateJoin(st, cr, t, o).st, cr)
<1> DEFINE r == EvaluateJoin(st, cr, t, o)
           kk == ObjectKey(o)
<1>0. kk \in Key /\ kk[1] \in cr
  BY ObjectKeyInKey DEF ObjectKey, Obj
<1>1. CASE r = [err |-> FALSE, st |-> st, out |-> NoOut]
  BY <1>1, ApplyNoOut
<1>2. ASSUME NEW v \in Vals \cup {Absent},
             r = [err |-> FALSE, st |-> [st EXCEPT ![kk] = v],
                  out |-> ChangeOut(st, [st EXCEPT ![kk] = v], kk)]
      PROVE  r.err = FALSE /\ JI(r.st, ApplyOut(vw, r.out)) /\ CR(r.st, cr)
  BY <1>0, <1>2, ChangeResult
<1>3. QED
  BY <1>1, <1>2, EvalShape

\* One event processed to completion, under the same provisos.
LEMMA ProcessJI ==
    ASSUME NoJoinError, NilRejected, store \in StoreT, created \subseteq Kinds,
           CR(store, created), view \in ViewT, JI(store, view), NEW t \in DeltaType,
           NEW o \in Obj, t # "Added" \/ store[ObjectKey(o)] = Absent, Process(t, o)
    PROVE  JI(store', view') /\ CR(store', created')
<1> DEFINE cr == created \cup {o.kind}
           r == EvaluateJoin(store, cr, t, o)
<1>1. cr \in SUBSET Kinds /\ o.kind \in cr /\ CR(store, cr)
  BY DEF Obj, CR
<1>2. HandleUpsert(store, t, o) = "Added" => store[ObjectKey(o)] = Absent
  BY DEF HandleUpsert
<1>3. r.err = FALSE /\ JI(r.st, ApplyOut(view, r.out)) /\ CR(r.st, cr)
  BY <1>1, <1>2, EvalJI
<1>4. created' = cr /\ store' = r.st /\ view' = ApplyOut(view, r.out)
  BY <1>3 DEF Process
<1>5. QED
  BY <1>3, <1>4, Zenon

\* The inductive invariant: the store follows the source, the variables
\* have their types, every stored object's kind has a base store, and the
\* target is the join of the store.
JInv == SInv /\ TypeOK /\ CR(store, created) /\ JI(store, view)

LEMMA InitJInv == Init => JInv
<1> SUFFICES ASSUME Init PROVE JInv
  OBVIOUS
<1>1. SInv
  BY InitSInv
<1>2. TypeOK
  BY DEF Init, TypeOK, NoOut, Out
<1>3. Acc(store) = {}
  <2>1. SUFFICES ASSUME NEW c \in Acc(store) PROVE FALSE
    OBVIOUS
  <2>2. PICK k \in Kinds : c[k] # Nil
    BY DEF Acc
  <2>3. c[k] \in Obj /\ store[<<k, c[k].name>>] = c[k].val
    BY AccCombo
  <2>4. <<k, c[k].name>> \in Key /\ c[k].val \in Vals
    BY <2>3 DEF Key, Obj
  <2>5. QED
    BY <2>3, <2>4, ConstAssumption DEF Init
<1>4. QED
  BY <1>1, <1>2, <1>3 DEF JInv, CR, JI, Init

LEMMA NextJInv ==
    NoJoinError /\ NilRejected => (JInv /\ [Next]_vars => JInv')
<1> SUFFICES ASSUME NoJoinError, NilRejected, JInv, [Next]_vars PROVE JInv'
  OBVIOUS
<1>0. /\ store \in StoreT /\ created \subseteq Kinds /\ view \in ViewT
      /\ CR(store, created) /\ JI(store, view) /\ store = src
  BY DEF JInv, SInv, TypeOK, StoreT, ViewT
<1>1. SInv' /\ TypeOK'
  BY NextSInv, NextTypeOK DEF JInv
<1>2. CASE Next
  <2> PICK o \in Obj : \/ \E t \in DeltaType : Create(t, o) \/ Modify(t, o) \/ Resync(t, o)
                       \/ Remove(o)
    BY <1>2 DEF Next
  <2> DEFINE Goal == JI(store', view') /\ CR(store', created')
  <2>1. ASSUME NEW t \in DeltaType, Create(t, o) PROVE Goal
    BY <1>0, <2>1, ProcessJI DEF Create
  <2>2. ASSUME NEW t \in DeltaType, Modify(t, o) PROVE Goal
    BY <1>0, <2>2, ProcessJI DEF Modify
  <2>3. ASSUME NEW t \in DeltaType, Resync(t, o) PROVE Goal
    BY <1>0, <2>3, ProcessJI DEF Resync
  <2>4. ASSUME Remove(o) PROVE Goal
    <3>1. "Deleted" \in DeltaType
      BY DEF DeltaType
    <3>2. QED
      BY <1>0, <2>4, <3>1, ProcessJI DEF Remove
  <2>5. QED
    BY <1>1, <2>1, <2>2, <2>3, <2>4 DEF JInv
<1>3. CASE UNCHANGED vars
  BY <1>0, <1>1, <1>3 DEF vars, JInv
<1>4. QED
  BY <1>2, <1>3

\* With a condition that rejects nil slots, the join of the spec is the set
\* of the outputs of the accepted combinations of stored objects.
LEMMA JoinOfAcc ==
    ASSUME NilRejected, NEW st \in StoreT PROVE JoinOf(st) = JOs(Acc(st))
<1> DEFINE In(c) == /\ \A k \in Kinds : c[k] \in RefSlots(st, k)
                    /\ \E k \in Kinds : c[k] # Nil
                    /\ Cond[c] = TRUE
<1>1. ASSUME NEW c \in Combo, In(c) PROVE c \in Acc(st)
  <2>1. \A k \in Kinds : c[k] # Nil
    BY <1>1 DEF NilRejected
  <2>2. ASSUME NEW k \in Kinds PROVE st[ObjectKey(c[k])] = c[k].val
    <3>1. PICK n \in Names : st[<<k, n>>] # Absent /\ c[k] = StoredObj(<<k, n>>, st[<<k, n>>])
      BY <1>1, <2>1 DEF RefSlots
    <3>2. QED
      BY <3>1 DEF StoredObj, ObjectKey
  <2>3. QED
    BY <1>1, <2>1, <2>2 DEF Acc, Stored
<1>2. ASSUME NEW c \in Acc(st) PROVE c \in Combo /\ In(c)
  <2>1. \A k \in Kinds : c[k] \in Obj /\ c[k].kind = k /\ st[<<k, c[k].name>>] = c[k].val
    BY AccCombo
  <2>2. ASSUME NEW k \in Kinds PROVE c[k] \in RefSlots(st, k)
    <3> DEFINE n == c[k].name
    <3>1. n \in Names /\ c[k].val \in Vals /\ st[<<k, n>>] = c[k].val
      BY <2>1 DEF Obj
    <3>2. st[<<k, n>>] # Absent
      BY <3>1, ConstAssumption
    <3>3. c[k] = StoredObj(<<k, n>>, st[<<k, n>>])
      BY <2>1, <3>1, ObjRecord
    <3>4. QED
      BY <3>1, <3>2, <3>3 DEF RefSlots
  <2>3. QED
    BY <2>2, AccCombo DEF Acc
<1>3. {c \in Combo : In(c)} = Acc(st)
  BY <1>1, <1>2 DEF Acc
<1>4. QED
  BY <1>3 DEF JoinOf, JOs

\* The target holds exactly the outputs of the accepted combinations.
LEMMA JIMatches ==
    ASSUME NEW st, NEW vw \in ViewT, JI(st, vw)
    PROVE  {vw[n] : n \in {m \in JoinName : vw[m] # Absent}} = JOs(Acc(st))
<1>1. ASSUME NEW n \in JoinName, vw[n] # Absent PROVE vw[n] \in JOs(Acc(st))
  BY <1>1 DEF JI, JOs
<1>2. ASSUME NEW c \in Acc(st) PROVE \E n \in JoinName : vw[n] # Absent /\ vw[n] = JoinObject(c)
  <2>1. JoinObject(c) \in JoinObj /\ IDs(c) \in JoinName
    BY AccCombo, JoinObjectType DEF JoinObject, JoinObj
  <2>2. vw[IDs(c)] = JoinObject(c) /\ JoinObject(c) # Absent
    BY <2>1, AbsentAssumption DEF JI
  <2>3. QED
    BY <2>1, <2>2
<1>3. QED
  BY <1>1, <1>2 DEF JOs

\* evaluateJoin's incremental deltas are correct: for every join condition
\* that never fails and accepts no combination with a nil slot, the target
\* built from the emitted deltas is in every reachable state exactly the
\* join of the base stores -- across stale deletes, resyncs, updates that
\* keep, change or lose a match, and objects of a kind whose store is new.
THEOREM JoinViewFollowsStores ==
    NoJoinError /\ NilRejected => (Spec => []ViewMatchesJoin)
<1> SUFFICES ASSUME NoJoinError, NilRejected PROVE Spec => []ViewMatchesJoin
  OBVIOUS
<1>1. Init => JInv
  BY InitJInv
<1>2. JInv /\ [Next]_vars => JInv'
  BY NextJInv
<1>3. JInv => ViewMatchesJoin
  <2> SUFFICES ASSUME JInv PROVE ViewMatchesJoin
    OBVIOUS
  <2>1. store \in StoreT /\ view \in ViewT /\ JI(store, view)
    BY DEF JInv, SInv, TypeOK, StoreT, ViewT
  <2>2. QED
    BY <2>1, JIMatches, JoinOfAcc DEF ViewMatchesJoin
<1>4. QED
  BY <1>1, <1>2, <1>3, PTL DEF Spec
-----------------------------------------------------------------------------
(* Every delta group of an event fits the target it is written to.         *)

\* The deltas o, written to the target vw: JoinDeltasFit's condition.
OutFits(vw, o) ==
    /\ \A g \in {o.dels, o.upds, o.adds} :
           \A d1, d2 \in g : d1.object.name = d2.object.name => d1 = d2
    /\ OutNames(o.dels) \cap OutNames(o.upds) = {}
    /\ OutNames(o.dels) \cap OutNames(o.adds) = {}
    /\ OutNames(o.upds) \cap OutNames(o.adds) = {}
    /\ OutNames(o.dels \cup o.upds) \subseteq Present(vw)
    /\ OutNames(o.adds) \cap Present(vw) = {}

\* The deltas of a set of outputs with distinct names have distinct names.
LEMMA DeltasUnique ==
    ASSUME NEW t, NEW S, \A x, y \in S : x.name = y.name => x = y
    PROVE  /\ \A d1, d2 \in Deltas(t, S) : d1.object.name = d2.object.name => d1 = d2
           /\ OutNames(Deltas(t, S)) = {x.name : x \in S}
<1>1. ASSUME NEW d1 \in Deltas(t, S), NEW d2 \in Deltas(t, S), d1.object.name = d2.object.name
      PROVE  d1 = d2
  <2>1. PICK x1 \in S : d1 = [type |-> t, object |-> x1]
    BY DEF Deltas
  <2>2. PICK x2 \in S : d2 = [type |-> t, object |-> x2]
    BY DEF Deltas
  <2>3. x1 = x2
    BY <1>1, <2>1, <2>2
  <2>4. QED
    BY <2>1, <2>2, <2>3
<1>2. ASSUME NEW n PROVE n \in OutNames(Deltas(t, S)) <=> n \in {x.name : x \in S}
  <2>1. ASSUME n \in OutNames(Deltas(t, S)) PROVE n \in {x.name : x \in S}
    <3>1. PICK d \in Deltas(t, S) : d.object.name = n
      BY <2>1 DEF OutNames
    <3>2. PICK x \in S : d = [type |-> t, object |-> x]
      BY DEF Deltas
    <3>3. QED
      BY <3>1, <3>2
  <2>2. ASSUME NEW x \in S, x.name = n PROVE n \in OutNames(Deltas(t, S))
    <3>1. [type |-> t, object |-> x] \in Deltas(t, S)
      BY DEF Deltas
    <3>2. QED
      BY <2>2, <3>1 DEF OutNames
  <2>3. QED
    BY <2>1, <2>2
<1>3. QED
  BY <1>1, <1>2

\* The deltas of a change under one key fit the target that is the join of
\* the store before the change.
LEMMA ChangeFits ==
    ASSUME NEW st \in StoreT, NEW vw \in ViewT, JI(st, vw), NEW kk \in Key,
           NEW v, NEW st2 \in StoreT, st2 = [st EXCEPT ![kk] = v]
    PROVE  OutFits(vw, ChangeOut(st, st2, kk))
<1> DEFINE D == JOs(Touching(st, kk))
           A == JOs(Touching(st2, kk))
           ND == {d.name : d \in D}
           NA == {a.name : a \in A}
           Dl == {x \in D : x.name \notin NA}
           Up == {x \in A : x.name \in ND}
           Ad == {x \in A : x.name \notin ND}
<1> HIDE DEF D, A
<1>1. ChangeOut(st, st2, kk) =
        [dels |-> Deltas("Deleted", Dl), upds |-> Deltas("Updated", Up), adds |-> Deltas("Added", Ad)]
  BY DiffChar DEF ChangeOut, D, A
<1>2. \A x, y \in D : x.name = y.name => x = y
  BY IDsInjective DEF D, JOs, Touching, JoinObject
<1>3. \A x, y \in A : x.name = y.name => x = y
  <2>1. SUFFICES ASSUME NEW a1 \in A, NEW a2 \in A, a1.name = a2.name PROVE a1 = a2
    OBVIOUS
  <2>2. PICK c1 \in Touching(st2, kk) : a1 = JoinObject(c1)
    BY DEF A, JOs
  <2>3. PICK c2 \in Touching(st2, kk) : a2 = JoinObject(c2)
    BY DEF A, JOs
  <2>4. IDs(c1) = IDs(c2) /\ c1 \in Acc(st2) /\ c2 \in Acc(st2)
    BY <2>1, <2>2, <2>3 DEF JoinObject, Touching
  <2>5. QED
    BY <2>2, <2>3, <2>4, IDsInjective
<1>4. /\ \A d1, d2 \in Deltas("Deleted", Dl) : d1.object.name = d2.object.name => d1 = d2
      /\ OutNames(Deltas("Deleted", Dl)) = {x.name : x \in Dl}
  BY <1>2, DeltasUnique
<1>5. /\ \A d1, d2 \in Deltas("Updated", Up) : d1.object.name = d2.object.name => d1 = d2
      /\ OutNames(Deltas("Updated", Up)) = {x.name : x \in Up}
  BY <1>3, DeltasUnique
<1>6. /\ \A d1, d2 \in Deltas("Added", Ad) : d1.object.name = d2.object.name => d1 = d2
      /\ OutNames(Deltas("Added", Ad)) = {x.name : x \in Ad}
  BY <1>3, DeltasUnique
<1>7. OutNames(Deltas("Deleted", Dl) \cup Deltas("Updated", Up)) = {x.name : x \in Dl} \cup {x.name : x \in Up}
  BY <1>4, <1>5 DEF OutNames
<1>8. ND \subseteq Present(vw)
  <2> SUFFICES ASSUME NEW c \in Touching(st, kk) PROVE IDs(c) \in Present(vw)
    BY DEF D, JOs, JoinObject
  <2>1. JoinObject(c) \in JoinObj /\ IDs(c) \in JoinName
    BY AccCombo, JoinObjectType DEF Touching, JoinObject, JoinObj
  <2>2. vw[IDs(c)] = JoinObject(c)
    BY DEF JI, Touching
  <2>3. QED
    BY <2>1, <2>2, AbsentAssumption DEF Present, ViewT
<1>9. ASSUME NEW c \in Touching(st2, kk), IDs(c) \notin ND PROVE IDs(c) \notin Present(vw)
  <2> SUFFICES ASSUME vw[IDs(c)] # Absent PROVE FALSE
    BY DEF Present
  <2>1. IDs(c) \in JoinName
    BY AccCombo, JoinObjectType DEF Touching, JoinObject, JoinObj
  <2>2. PICK c2 \in Acc(st) : IDs(c2) = IDs(c)
    BY <2>1 DEF JI
  <2>3. kk \in IDs(c)
    BY UsesIDs DEF Touching
  <2>4. c2 \in Touching(st, kk)
    BY <2>2, <2>3, UsesIDs DEF Touching
  <2>5. JoinObject(c2) \in D /\ JoinObject(c2).name = IDs(c)
    BY <2>2, <2>4 DEF D, JOs, JoinObject
  <2>6. QED
    BY <1>9, <2>5 DEF ND
<1>10. {x.name : x \in Ad} \cap Present(vw) = {}
  <2>1. SUFFICES ASSUME NEW x \in Ad PROVE x.name \notin Present(vw)
    OBVIOUS
  <2>2. x \in A /\ x.name \notin ND
    BY DEF Ad
  <2>3. PICK c \in Touching(st2, kk) : x = JoinObject(c)
    BY <2>2 DEF A, JOs
  <2>4. x.name = IDs(c)
    BY <2>3 DEF JoinObject
  <2>5. QED
    BY <1>9, <2>2, <2>4
<1> DEFINE o == ChangeOut(st, st2, kk)
<1> HIDE DEF o, ND, NA, Dl, Up, Ad
<1>11. o.dels = Deltas("Deleted", Dl) /\ o.upds = Deltas("Updated", Up) /\ o.adds = Deltas("Added", Ad)
  BY <1>1 DEF o
<1>12. \A g \in {o.dels, o.upds, o.adds} : \A d1, d2 \in g : d1.object.name = d2.object.name => d1 = d2
  BY <1>4, <1>5, <1>6, <1>11
<1>13. /\ \A x \in Dl, y \in Up : x.name # y.name
       /\ \A x \in Dl, y \in Ad : x.name # y.name
       /\ \A x \in Up, y \in Ad : x.name # y.name
  BY DEF Dl, Up, Ad, NA, ND
<1>14. /\ OutNames(o.dels) \cap OutNames(o.upds) = {}
       /\ OutNames(o.dels) \cap OutNames(o.adds) = {}
       /\ OutNames(o.upds) \cap OutNames(o.adds) = {}
  BY <1>4, <1>5, <1>6, <1>11, <1>13
<1>15. OutNames(o.dels \cup o.upds) \subseteq Present(vw)
  <2>1. \A x \in Dl \cup Up : x.name \in ND
    BY DEF Dl, Up, ND
  <2>2. QED
    BY <1>7, <1>8, <1>11, <2>1
<1>16. OutNames(o.adds) \cap Present(vw) = {}
  BY <1>6, <1>10, <1>11
<1>17. QED
  BY <1>12, <1>14, <1>15, <1>16 DEF OutFits, o

\* A step of the source writes deltas that fit the target it starts from.
LEMMA NextOutFits ==
    ASSUME NoJoinError, NilRejected, JInv, Next
    PROVE  OutFits(view, out')
<1>0. /\ store \in StoreT /\ created \subseteq Kinds /\ view \in ViewT
      /\ CR(store, created) /\ JI(store, view) /\ store = src
  BY DEF JInv, SInv, TypeOK, StoreT, ViewT
<1>1. ASSUME NEW t \in DeltaType, NEW o \in Obj, Process(t, o),
             t # "Added" \/ store[ObjectKey(o)] = Absent
      PROVE  OutFits(view, out')
  <2> DEFINE cr == created \cup {o.kind}
             r == EvaluateJoin(store, cr, t, o)
             kk == ObjectKey(o)
  <2>1. cr \in SUBSET Kinds /\ CR(store, cr) /\ kk \in Key
    BY <1>0, ObjectKeyInKey DEF Obj, CR
  <2>2. HandleUpsert(store, t, o) = "Added" => store[kk] = Absent
    BY <1>1 DEF HandleUpsert
  <2>3. out' = r.out
    BY <1>1 DEF Process
  <2>4. CASE r = [err |-> FALSE, st |-> store, out |-> NoOut]
    <3>1. out' = NoOut
      BY <2>3, <2>4
    <3>2. OutFits(view, NoOut)
      BY DEF OutFits, NoOut, OutNames
    <3>3. QED
      BY <3>1, <3>2
  <2>5. ASSUME NEW v \in Vals \cup {Absent},
               r = [err |-> FALSE, st |-> [store EXCEPT ![kk] = v],
                    out |-> ChangeOut(store, [store EXCEPT ![kk] = v], kk)]
        PROVE  OutFits(view, out')
    <3>1. [store EXCEPT ![kk] = v] \in StoreT
      BY <1>0, <2>1 DEF StoreT
    <3>2. QED
      BY <1>0, <2>1, <2>3, <2>5, <3>1, ChangeFits
  <2> HIDE DEF cr, r
  <2>6. \/ r = [err |-> FALSE, st |-> store, out |-> NoOut]
        \/ \E v \in Vals \cup {Absent} :
              r = [err |-> FALSE, st |-> [store EXCEPT ![kk] = v],
                   out |-> ChangeOut(store, [store EXCEPT ![kk] = v], kk)]
    <3>1. \/ EvaluateJoin(store, cr, t, o) = [err |-> FALSE, st |-> store, out |-> NoOut]
          \/ \E v \in Vals \cup {Absent} :
                EvaluateJoin(store, cr, t, o) =
                  [err |-> FALSE, st |-> [store EXCEPT ![ObjectKey(o)] = v],
                   out |-> ChangeOut(store, [store EXCEPT ![ObjectKey(o)] = v], ObjectKey(o))]
      <4>1. /\ store \in StoreT /\ cr \in SUBSET Kinds /\ CR(store, cr)
            /\ HandleUpsert(store, t, o) = "Added" => store[ObjectKey(o)] = Absent
        BY <1>0, <2>1, <2>2
      <4>2. QED
        BY <4>1, EvalShape
    <3>2. QED
      BY <3>1 DEF r
  <2>7. QED
    BY <2>4, <2>5, <2>6
<1>2. PICK o \in Obj : \/ \E t \in DeltaType : Create(t, o) \/ Modify(t, o) \/ Resync(t, o)
                      \/ Remove(o)
  BY DEF Next
<1>3. ASSUME NEW t \in DeltaType, Create(t, o) \/ Modify(t, o) \/ Resync(t, o)
      PROVE  OutFits(view, out')
  BY <1>0, <1>1, <1>3 DEF Create, Modify, Resync
<1>4. ASSUME Remove(o) PROVE OutFits(view, out')
  <2>1. "Deleted" \in DeltaType
    BY DEF DeltaType
  <2>2. QED
    BY <1>1, <1>4, <2>1 DEF Remove
<1>5. QED
  BY <1>2, <1>3, <1>4

\* evaluateJoin's deltas are classified right for the target they are
\* written to: for every join condition that never fails and rejects nil
\* slots, the deletes, updates and adds of an event name each output at
\* most once and in one group only (diffDeltas matches the two halves by
\* name), every delete or update names an output the target holds, and
\* every add one it does not.
THEOREM JoinDeltasFitTarget ==
    NoJoinError /\ NilRejected => (Spec => JoinDeltasFit)
<1> SUFFICES ASSUME NoJoinError, NilRejected PROVE Spec => JoinDeltasFit
  OBVIOUS
<1>1. Init => JInv
  BY InitJInv
<1>2. JInv /\ [Next]_vars => JInv'
  BY NextJInv
<1>3. JInv /\ [Next]_vars => [~ failed' => OutFits(view, out')]_vars
  BY NextOutFits
<1>4. QED
  BY <1>1, <1>2, <1>3, PTL DEF Spec, JoinDeltasFit, OutFits
=============================================================================
