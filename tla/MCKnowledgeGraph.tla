-------------------------- MODULE MCKnowledgeGraph --------------------------
(* Instances of KnowledgeGraph.                                               *)
EXTENDS KnowledgeGraph, TLC

CONSTANTS d1, d2, n1, s1, s2, s3, e1, e2, e3

OwnId == s1 :> e1 @@ s2 :> e2 @@ s3 :> e3

(* the second name extends the first; the third, an ordinal, does not *)
Names == s1 :> <<"m">> @@ s2 :> <<"m", "t">> @@ s3 :> <<"m", "ii">>

OnePair == {<<s1, s2>>}
OneSplit == {<<s1, s3>>}
TwoTexts == {{s1, s2}, {s2, s3}}
ApartTexts == {{s1, s2}, {s3}}

Alike == Permutations(Docs)
=============================================================================
