----------------------------- MODULE MCJoinEngine -----------------------------
(***************************************************************************)
(* Instances of JoinEngine for TLC: two kinds, two names (model values), two contents,    *)
(* and join conditions over the combinations.                              *)
(***************************************************************************)
EXTENDS JoinEngine

MCKinds == {"A", "B"}
MCVals == {1, 2}

Both(c) == c["A"] # Nil /\ c["B"] # Nil

\* Both slots present and A's content at most B's: a condition that rejects
\* every combination with a nil slot.
CondLeq == [c \in Combo |-> Both(c) /\ c["A"].val <= c["B"].val]

\* The same, but a combination with a nil slot passes the condition.
CondNilPasses == [c \in Combo |-> ~ Both(c) \/ c["A"].val <= c["B"].val]

\* The same, but the condition fails to evaluate on a nil slot (a
\* condition that does not tolerate nulls).
CondNilFails == [c \in Combo |-> IF Both(c) THEN c["A"].val <= c["B"].val ELSE Err]

\* Nil slots rejected, and the condition fails to evaluate when A's content
\* is 2.
CondValFails ==
    [c \in Combo |-> IF ~ Both(c) THEN FALSE
                     ELSE IF c["A"].val = 2 THEN Err
                     ELSE c["A"].val <= c["B"].val]
=============================================================================
