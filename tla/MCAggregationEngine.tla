------------------------ MODULE MCAggregationEngine ------------------------
(***************************************************************************)
(* Instances of the aggregation engine for TLC: one source kind, two       *)
(* source objects, four contents.  The aggregations are those a user       *)
(* writes: a @select on a field, then a @project that derives the output   *)
(* name from a field.                                                      *)
(***************************************************************************)
EXTENDS AggregationEngine

MCSrcNames == {"a", "b"}
MCOutNames == {"a_lo", "a_hi", "b_lo", "b_hi"}
MCNames == MCSrcNames \cup MCOutNames
MCVals == {1, 2, 3, 4}

\* @select: keep the objects whose field is not 4.
SelectNot4 == [op |-> "@select", cond |-> [d \in Doc |-> d.val # 4]]

\* @project: the output name is the source name suffixed by a bucket of the
\* field (1, 2 -> lo; 3 -> hi); injective on the objects the select keeps.
Bucket(d) ==
    CASE d.name = "a" /\ d.val \in {1, 2} -> "a_lo"
      [] d.name = "a"                      -> "a_hi"
      [] d.name = "b" /\ d.val \in {1, 2} -> "b_lo"
      [] d.name = "b"                      -> "b_hi"
      [] OTHER                             -> NoName
ProjectBucket ==
    [op |-> "@project", proj |-> [d \in Doc |-> [d EXCEPT !.name = Bucket(d)]]]

\* @project of a field that only some objects have: content 3 misses it.
ProjectMissing ==
    [op |-> "@project",
     proj |-> [d \in Doc |-> IF d.val = 3 THEN Err ELSE [d EXCEPT !.name = Bucket(d)]]]

\* @project that keeps the name and drops the field.
ProjectNameOnly ==
    [op |-> "@project", proj |-> [d \in Doc |-> [d EXCEPT !.name = Bucket(d), !.val = 1]]]

StagesBucket == <<SelectNot4, ProjectBucket>>
StagesMissing == <<SelectNot4, ProjectMissing>>
StagesNameOnly == <<ProjectNameOnly>>
=============================================================================
