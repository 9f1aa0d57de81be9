--------------------------- MODULE CompositeClient ---------------------------
(***************************************************************************)
(* The composite client and cache: writes (view_object_test.go 277-382)    *)
(* are routed by API group either to the in-memory view cache or to the    *)
(* API server; reads go through the composite cache (unnamed/part_001      *)
(* 101-115), which routes them by API group too.  Each call is one step:   *)
(* the client has no state of its own and the stores are updated under    *)
(* their own locks.                                                         *)
(***************************************************************************)
EXTENDS FiniteSets

CONSTANTS
    ViewGroup,    \* the view API group
    Groups,       \* every API group an object may carry (ViewGroup among them)
    Served,       \* the groups the API server serves (CRD installed)
    Kinds,        \* kinds
    ListKind,     \* the kind DeleteAllOf lists views of ("view", line 372)
    Names,        \* object names
    Vals,         \* object contents
    PatchTypes,   \* patch types
    Absent        \* no object

ASSUME ClientAssumption ==
    /\ ViewGroup \in Groups /\ Served \subseteq Groups \ {ViewGroup}
    /\ ListKind \in Kinds
    /\ Absent \notin Vals /\ Names # {} /\ Vals # {}

VARIABLES
    viewCache,    \* the view cache: key -> content or Absent
    apiServer,    \* the API server: key of a served group -> content or Absent
    last          \* the last call and whether it returned nil (a ghost)

vars == <<viewCache, apiServer, last>>

Key == [group : Groups, kind : Kinds, name : Names]
ServedKey == {k \in Key : k.group \in Served}
Obj == [group : Groups, kind : Kinds, name : Names, val : Vals]
Ops == {"create", "update", "delete", "patch", "deleteallof", "external"}
NoCall == [op |-> "none", obj |-> CHOOSE o \in Obj : TRUE, ok |-> TRUE]

KeyOf(o) == [group |-> o.group, kind |-> o.kind, name |-> o.name]

\* The result of a call.
Return(op, o, ok) == last' = [op |-> op, obj |-> o, ok |-> ok]

-----------------------------------------------------------------------------
(* The composite cache: a view is read from the view cache, anything else *)
(* from the default cache, taken here to be in sync with the API server.  *)

CacheGet(vc, as, k) ==
    IF k.group = ViewGroup THEN vc[k]
    ELSE IF k.group \in Served THEN as[k] ELSE Absent

-----------------------------------------------------------------------------
(* The default client: the API server rejects a group it does not serve,  *)
(* a create of an existing object and a write of a missing one.           *)

ApiWrite(op, o, ok, v) ==
    /\ IF ok THEN apiServer' = [apiServer EXCEPT ![KeyOf(o)] = v] ELSE UNCHANGED apiServer
    /\ UNCHANGED viewCache
    /\ Return(op, o, ok)

ApiCreate(o) == ApiWrite("create", o, o.group \in Served /\ apiServer[KeyOf(o)] = Absent, o.val)
ApiUpdate(o) == ApiWrite("update", o, o.group \in Served /\ apiServer[KeyOf(o)] # Absent, o.val)
ApiDelete(o) == ApiWrite("delete", o, o.group \in Served /\ apiServer[KeyOf(o)] # Absent, Absent)
ApiPatch(o) == ApiWrite("patch", o, o.group \in Served /\ apiServer[KeyOf(o)] # Absent, o.val)

\* DeleteAllOf on the API server removes every object of the group and kind.
ApiDeleteAllOf(o) ==
    /\ IF o.group \in Served
       THEN apiServer' = [k \in ServedKey |->
                            IF k.group = o.group /\ k.kind = o.kind THEN Absent ELSE apiServer[k]]
       ELSE UNCHANGED apiServer
    /\ UNCHANGED viewCache
    /\ Return("deleteallof", o, o.group \in Served)

-----------------------------------------------------------------------------
(* The view cache: Add and Update store the object, Delete removes it.    *)

ViewPut(op, k, o, v) ==
    /\ viewCache' = [viewCache EXCEPT ![k] = v]
    /\ UNCHANGED apiServer
    /\ Return(op, o, TRUE)

-----------------------------------------------------------------------------
(* The composite client.                                                   *)

\* Which objects the client sends to the view cache (lines 279, 295, 311,
\* 327, 367).
ToViewCache(o) == o.group # ViewGroup

Create(o) ==
    IF ToViewCache(o) THEN ViewPut("create", KeyOf(o), o, o.val) ELSE ApiCreate(o)

Update(o) ==
    IF ToViewCache(o) THEN ViewPut("update", KeyOf(o), o, o.val) ELSE ApiUpdate(o)

Delete(o) ==
    IF ToViewCache(o) THEN ViewPut("delete", KeyOf(o), o, Absent) ELSE ApiDelete(o)

\* Patch on the view-cache side returns an error on every path: a strategic
\* merge patch is rejected (line 336), and any other fails at line 346,
\* where json.Unmarshal is given the map p rather than &p, so the read of
\* the target (350) and its Update (359) are never reached.
Patch(o, pt) ==
    IF ToViewCache(o)
    THEN UNCHANGED <<viewCache, apiServer>> /\ Return("patch", o, FALSE)
    ELSE ApiPatch(o)

\* The views DeleteAllOf lists: every view of kind "view", whatever the
\* kind of the object it was called with (line 372).
Listed == {k \in Key : k.group = ViewGroup /\ k.kind = ListKind /\ viewCache[k] # Absent}

\* Mutant: the loop deletes one listed view and falls through to the
\* default client.
DeleteAllOfFallThrough(o) ==
    IF ToViewCache(o) /\ Listed # {}
    THEN \E k \in Listed :
           /\ apiServer' = IF o.group \in Served
                           THEN [j \in ServedKey |-> IF j.group = o.group /\ j.kind = o.kind
                                                     THEN Absent ELSE apiServer[j]]
                           ELSE apiServer
           /\ viewCache' = [viewCache EXCEPT ![k] = Absent]
           /\ Return("deleteallof", o, o.group \in Served)
    ELSE ApiDeleteAllOf(o)

\* DeleteAllOf on the view-cache side returns after deleting the first
\* listed view (lines 377-379); with none listed it falls through to the
\* default client (line 381).  The list order is the cache's, any order.
DeleteAllOf(o) ==
    IF ToViewCache(o) /\ Listed # {}
    THEN \E k \in Listed : ViewPut("deleteallof", k, o, Absent)
    ELSE ApiDeleteAllOf(o)

\* Any holder of the view cache (GetViewCache, part_001 line 55) adds a
\* view to it directly.
ExternalViewWrite(o) ==
    /\ o.group = ViewGroup
    /\ ViewPut("external", KeyOf(o), o, o.val)

-----------------------------------------------------------------------------

Init ==
    /\ viewCache = [k \in Key |-> Absent]
    /\ apiServer \in [ServedKey -> Vals \cup {Absent}]
    /\ last = NoCall

Next ==
    \E o \in Obj :
        \/ Create(o) \/ Update(o) \/ Delete(o) \/ DeleteAllOf(o)
        \/ \E pt \in PatchTypes : Patch(o, pt)
        \/ ExternalViewWrite(o)

Spec == Init /\ [][Next]_vars

-----------------------------------------------------------------------------

TypeOK ==
    /\ viewCache \in [Key -> Vals \cup {Absent}]
    /\ apiServer \in [ServedKey -> Vals \cup {Absent}]
    /\ last \in [op : Ops \cup {"none"}, obj : Obj, ok : BOOLEAN]

\* A call of the client that returns an error has changed neither the view
\* cache nor the API server, so a caller can retry it (Patch fails before
\* any write, DeleteAllOf returns after one delete).
FailedCallNoEffect ==
    [][~last'.ok => viewCache' = viewCache /\ apiServer' = apiServer]_vars

\* Read your writes (the comment at lines 273-275: the cache is the reader,
\* views are written to the view cache): after a create, update or patch
\* that returns nil, a Get through the composite cache returns what was
\* written, and after a delete it finds nothing.
ReadYourWrites ==
    [][last'.ok /\ last'.op \in {"create", "update", "patch", "delete"} =>
         CacheGet(viewCache', apiServer', KeyOf(last'.obj))
           = IF last'.op = "delete" THEN Absent ELSE last'.obj.val]_vars

\* After DeleteAllOf returns nil, no object of the group and kind it was
\* called with is left for the composite cache to return.
DeleteAllOfClears ==
    [][last'.ok /\ last'.op = "deleteallof" =>
         \A n \in Names :
           CacheGet(viewCache', apiServer',
                    [group |-> last'.obj.group, kind |-> last'.obj.kind, name |-> n]) = Absent]_vars

=============================================================================
