--------------------------- MODULE MCFeatureLedger ---------------------------
(* Instances of FeatureLedger: the stages are the root, one LLM-backed stage *)
(* and the serialized graph stage that depends on it.                        *)
EXTENDS FeatureLedger, TLC

CONSTANTS d1, d2, w1, w2, t1, t2

ThreeStages == {"extract", "entities", "entity_graph"}
TwoStages   == {"extract", "entities"}

ThreeDeps == {<<"entities", "extract">>, <<"entity_graph", "entities">>}
TwoDeps   == {<<"entities", "extract">>}

Wide   == [f \in Features |-> 2]
Narrow == [f \in Features |-> 1]
(* a lane of one for the root, lanes of two for the others                   *)
RootNarrow == [f \in Features |-> IF f = Extract THEN 1 ELSE 2]

LlmGroup == [f \in Features |-> IF f = "entities" THEN "llm" ELSE None]
LlmOne   == [g \in Groups |-> 1]
LlmTwo   == [g \in Groups |-> 2]

OneOwner == [t \in Threads |-> w1]
TwoOwners == [t \in Threads |-> IF t = t1 THEN w1 ELSE w2]

OneRelease  == {1}
TwoReleases == {1, 2}
(* release 2 carries a newer "entities" processor                            *)
Versions == [n \in Releases |-> [f \in Features |-> IF f = "entities" THEN n ELSE 1]]

NoChain    == <<>>
GraphChain == <<"entities", "entity_graph">>

Nothing == {}

(* two stages that draw on the same budget                                   *)
LlmStages == {"extract", "entities", "ner"}
LlmPair   == {"entities", "ner"}
LlmInline == {"extract", "entities"}
LlmDeps   == {<<"entities", "extract">>, <<"ner", "extract">>}
LlmChain  == <<"entities", "ner">>
LlmPairGroup == [f \in Features |-> IF f = Extract THEN None ELSE "llm"]

(* documents and pool threads are alike                                     *)
Alike == Permutations(Docs) \cup Permutations(Threads)
=============================================================================
