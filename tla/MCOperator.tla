----------------------------- MODULE MCOperator -----------------------------
(***************************************************************************)
(* One service, two templates that hash alike, and a tag of the user's.    *)
(***************************************************************************)
EXTENDS OperatorInvariant

CONSTANTS s1, t1, t2, n1, n2, tag

MCVersions == {n1, n2, tag}
MCServices == {s1}
MCServes == [v \in MCVersions |-> MCServices]
MCTemplates == {t1, t2}
MCUserTags == {tag}
\* With a tag of the user's one old version is kept, else none.
MCChoices == [template : MCTemplates, tag : {"auto"}, limit : {0}]
             \cup [template : MCTemplates, tag : MCUserTags, limit : {1}]

MCIncarnations == {0, 1}

\* t1 and t2 collide until the count is bumped.
MCHash == [n \in 0 .. 1 |-> [t \in MCTemplates |-> IF n = 0 THEN n1 ELSE n2]]
=============================================================================
