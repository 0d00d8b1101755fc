------------------------ MODULE KnowledgeGraphProofs ------------------------
(* Theorems about KnowledgeGraph, for all values of its constants.            *)
EXTENDS KnowledgeGraph, FiniteSetTheorems, TLAPS

-----------------------------------------------------------------------------
(* The alias pass.                                                            *)

(* Names that extend each other: the longest is an extension of the shortest, *)
(* and it is not excluded by an ordinal unless the middle one was.            *)
LEMMA ExtendsTransitive ==
  ASSUME NEW r \in Surfaces, NEW s \in Surfaces, NEW t \in Surfaces,
         Extends(s, r), Extends(t, s)
  PROVE  Extends(t, r) /\ Len(Words[t]) > Len(Words[s])
<1> DEFINE R == Words[r]  S == Words[s]  T == Words[t]
<1>1. R \in Seq(Tokens) /\ S \in Seq(Tokens) /\ T \in Seq(Tokens)
  BY SurfacesAssumption
<1>2. /\ Len(S) > Len(R) /\ SubSeq(S, 1, Len(R)) = R /\ S[Len(R) + 1] \notin Ordinals
      /\ Len(T) > Len(S) /\ SubSeq(T, 1, Len(S)) = S
  BY DEF Extends
<1>3. \A i \in 1 .. Len(S) : S[i] = T[i]
  <2>1. \A i \in 1 .. Len(S) : SubSeq(T, 1, Len(S))[i] = T[i]
    BY <1>1, <1>2
  <2> QED  BY <2>1, <1>2
<1>4. SubSeq(T, 1, Len(R)) = SubSeq(S, 1, Len(R))
  <2> HIDE DEF R, S, T
  <2>1. \A i \in 1 .. Len(R) : i \in 1 .. Len(S) /\ S[i] = T[i]
    BY <1>1, <1>2, <1>3
  <2> QED  BY <2>1, <1>1, <1>2
<1>5. T[Len(R) + 1] = S[Len(R) + 1]
  BY <1>1, <1>2, <1>3
<1> QED  BY <1>1, <1>2, <1>4, <1>5 DEF Extends

(* The target of a fold is not folded itself by the same pass: chains of      *)
(* names collapse onto their end, so the folds of a pass may be applied in    *)
(* any order (compute_alias_folds, "multi-level chains collapse to the        *)
(* terminal").                                                                *)
THEOREM FoldTargetsStay ==
  ASSUME NEW nodes \in SUBSET Entities, \A e \in nodes : label[e] \in Surfaces,
         NEW f \in AliasFolds(nodes), NEW g \in AliasFolds(nodes)
  PROVE  g.node # f.target
<1> SUFFICES ASSUME g.node = f.target PROVE FALSE
  OBVIOUS
<1>1. /\ f.node \in nodes /\ f.target \in Supersets(nodes, f.node)
      /\ \A c \in Supersets(nodes, f.node) \ {f.target} :
           Len(Words[label[c]]) < Len(Words[label[f.target]])
      /\ g.target \in Supersets(nodes, f.target)
  BY DEF AliasFolds
<1>2. /\ f.target \in nodes /\ g.target \in nodes /\ g.target # f.target
      /\ Extends(label[f.target], label[f.node])
      /\ Extends(label[g.target], label[f.target])
  BY <1>1 DEF Supersets
<1>3. /\ Extends(label[g.target], label[f.node])
      /\ Len(Words[label[g.target]]) > Len(Words[label[f.target]])
  BY <1>1, <1>2, ExtendsTransitive
<1>4. g.target # f.node
  BY <1>2, <1>3, SurfacesAssumption DEF Extends
<1>5. g.target \in Supersets(nodes, f.node) \ {f.target}
  BY <1>2, <1>3, <1>4 DEF Supersets
<1>6. /\ Len(Words[label[g.target]]) \in Nat /\ Len(Words[label[f.target]]) \in Nat
      /\ Len(Words[label[g.target]]) < Len(Words[label[f.target]])
  BY <1>1, <1>2, <1>5, SurfacesAssumption
<1> QED  BY <1>3, <1>6
-----------------------------------------------------------------------------
(* Chains of canonical_id.                                                    *)

CanonType == canon \in [Entities -> Entities \cup {None}]
FlatInv == CanonType /\ CanonFlat

(* Deleting nodes sets the pointers at them to null and leaves the others.    *)
LEMMA DeleteKeepsFlat ==
  ASSUME FlatInv, NEW gone \in SUBSET Entities, DeleteNodes(gone)
  PROVE  FlatInv'
<1>1. canon' = [e \in Entities |-> IF e \in gone \/ canon[e] \in gone THEN None ELSE canon[e]]
  BY DEF DeleteNodes
<1> QED  BY <1>1, SurfacesAssumption DEF FlatInv, CanonType, CanonFlat

(* A merge points the alias, and all that pointed at it, at the root of the   *)
(* target; the root is canonical and is not the alias.                        *)
LEMMA MergeKeepsFlat ==
  ASSUME FlatInv, NEW c \in Entities, NEW a \in Entities, Mergeable(c, a), MergeEntities(c, a)
  PROVE  FlatInv'
<1>1. canon' = [e \in Entities |-> IF e = a \/ canon[e] = a THEN Root(c) ELSE canon[e]]
  BY DEF MergeEntities
<1>2. Root(c) \in Entities /\ canon[Root(c)] = None /\ Root(c) # a
  BY SurfacesAssumption DEF FlatInv, CanonType, CanonFlat, Root, Mergeable
<1>3. CanonType'
  BY <1>1, <1>2 DEF FlatInv, CanonType
<1>4. ASSUME NEW e \in Entities, canon'[e] # None
      PROVE  canon'[canon'[e]] = None
  <2>1. CASE canon'[e] = Root(c)
    BY <1>1, <1>2, <2>1, SurfacesAssumption
  <2>2. CASE canon'[e] # Root(c)
    <3>1. canon'[e] = canon[e] /\ canon[e] \in Entities /\ canon[e] # a
      BY <1>1, <1>4, <2>2 DEF FlatInv, CanonType
    <3>2. canon[canon[e]] = None
      BY <1>4, <3>1 DEF FlatInv, CanonFlat
    <3> QED  BY <1>1, <3>1, <3>2, SurfacesAssumption
  <2> QED  BY <2>1, <2>2
<1> QED  BY <1>3, <1>4 DEF FlatInv, CanonFlat

(* The fold pass deletes the nodes it folds; theirs are the only pointers it  *)
(* changes.                                                                   *)
LEMMA FoldKeepsFlat ==
  ASSUME FlatInv, ResolveAliases
  PROVE  FlatInv'
<1> DEFINE gone == {f.node : f \in fold}
<1>1. canon' = [e \in Entities |-> IF e \in gone \/ canon[e] \in gone THEN None ELSE canon[e]]
  BY DEF ResolveAliases
<1> HIDE DEF gone
<1> QED  BY <1>1, SurfacesAssumption DEF FlatInv, CanonType, CanonFlat

(* Every step keeps alias nodes one hop from their canonical node.            *)
LEMMA StepKeepsFlat ==
  ASSUME FlatInv, [Next]_vars
  PROVE  FlatInv'
<1>0. ASSUME UNCHANGED canon PROVE FlatInv'
  BY <1>0 DEF FlatInv, CanonType, CanonFlat
<1>1. CASE UNCHANGED vars
  BY <1>0, <1>1 DEF vars
<1>2. ASSUME NEW d \in Docs, GraphStage(d) PROVE FlatInv'
  <2>1. CASE ClaimGraph(d) \/ ReadMentions(d)
    BY <1>0, <2>1 DEF ClaimGraph, ReadMentions, tables
  <2>2. CASE UpsertEntities(d)  BY <1>0, <2>2 DEF UpsertEntities
  <2>3. CASE ReplaceMentions(d)  BY <1>0, <2>3 DEF ReplaceMentions
  <2>4. CASE ReplaceMentionsFails(d)  BY <1>0, <2>4 DEF ReplaceMentionsFails, tables
  <2>5. CASE PruneAfterGraph(d)
    BY <2>5, DeleteKeepsFlat DEF PruneAfterGraph, PruneOrphanEntities, Canonical, Nodes
  <2> QED  BY <1>2, <2>1, <2>2, <2>3, <2>4, <2>5 DEF GraphStage
<1>3. ASSUME NEW d \in Docs, RelationsStage(d) PROVE FlatInv'
  BY <1>0, <1>3 DEF RelationsStage, ExtractTriples, ResolveEndpoints, WriteEdges, tables
<1>4. ASSUME NEW d \in Docs, Purge(d) PROVE FlatInv'
  <2>1. CASE PurgeEdges(d)  BY <1>0, <2>1 DEF PurgeEdges
  <2>2. CASE PurgeNodes(d)
    BY <2>2, DeleteKeepsFlat DEF PurgeNodes, PruneOrphanEntities, Canonical, Nodes
  <2> QED  BY <1>4, <2>1, <2>2 DEF Purge
<1>5. CASE AliasPass
  BY <1>0, <1>5, FoldKeepsFlat DEF AliasPass, ComputeFolds, ResolveAliasesFails, tables
<1>6. CASE Users
  <2>1. ASSUME NEW c \in Entities, NEW a \in Entities, Merge(c, a) PROVE FlatInv'
    BY <2>1, MergeKeepsFlat DEF Merge
  <2>2. ASSUME NEW a \in Entities, Split(a) PROVE FlatInv'
    BY <2>2, SurfacesAssumption DEF Split, FlatInv, CanonType, CanonFlat
  <2>3. ASSUME NEW a, NEW b, NEW n, ConfirmFamily(a, b, n) PROVE FlatInv'
    BY <1>0, <2>3 DEF ConfirmFamily
  <2>4. ASSUME NEW e, NEW a, NEW b, UpsertParts(e, a, b) PROVE FlatInv'
    BY <1>0, <2>4 DEF UpsertParts
  <2>5. ASSUME NEW d \in Docs, Reprocess(d) \/ DeleteDocument(d) PROVE FlatInv'
    BY <1>0, <2>5 DEF Reprocess, DeleteDocument, tables
  <2> QED  BY <1>6, <2>1, <2>2, <2>3, <2>4, <2>5 DEF Users
<1>7. CASE Decomposition
  <2>1. CASE ListMentions  BY <1>0, <2>1 DEF ListMentions, tables
  <2>2. CASE FoldIntoPart
    <3>1. CASE decompose.a # decompose.node /\ Mergeable(decompose.a, decompose.node)
      BY <2>2, <3>1, MergeKeepsFlat DEF FoldIntoPart, Mergeable, Nodes
    <3>2. CASE ~(decompose.a # decompose.node /\ Mergeable(decompose.a, decompose.node))
      BY <1>0, <2>2, <3>2 DEF FoldIntoPart
    <3> QED  BY <3>1, <3>2
  <2>3. CASE LinkParts  BY <1>0, <2>3 DEF LinkParts
  <2> QED  BY <1>7, <2>1, <2>2, <2>3 DEF Decomposition
<1>8. CASE WorkerCrash \/ ApiCrash
  BY <1>0, <1>8 DEF WorkerCrash, ApiCrash, tables
<1>9. ASSUME NEW d \in Docs, EntitiesStage(d) PROVE FlatInv'
  BY <1>0, <1>9 DEF EntitiesStage, DeleteRows, AddRows
<1> QED  BY <1>1, <1>2, <1>3, <1>4, <1>5, <1>6, <1>7, <1>8, <1>9 DEF Next

(* However merges, splits, decompositions, folds and prunes are interleaved,  *)
(* following canonical_id ends after one hop (_canonical_root_row, get_entity *)
(* and the flattening in merge_entities).                                     *)
THEOREM ChainsFlat == Spec => []CanonFlat
<1>1. Init => FlatInv
  BY SurfacesAssumption DEF Init, FlatInv, CanonType, CanonFlat
<1>2. FlatInv /\ [Next]_vars => FlatInv'
  BY StepKeepsFlat
<1>3. FlatInv => CanonFlat
  BY DEF FlatInv
<1> QED  BY <1>1, <1>2, <1>3, PTL DEF Spec

-----------------------------------------------------------------------------
(* The tables and their foreign keys                                        *)

TablesOK ==
  /\ label \in [Entities -> Surfaces \cup {None}]
  /\ canon \in [Entities -> Nodes \cup {None}]
  /\ alias \in [Surfaces -> Nodes \cup {None}]
  /\ mention \in [Docs -> [Surfaces -> Nodes \cup {None}]]
  /\ DOMAIN edge \subseteq Nodes \X Nodes /\ edge \in [DOMAIN edge -> Nat]
  /\ prov \subseteq Evidence /\ \A p \in prov : p.edge \in DOMAIN edge
  /\ EvidenceCounted

LEMMA EvidenceFinite == IsFiniteSet(Evidence)
<1> DEFINE P == (Docs \cup {Manual}) \X ((Triples \cup Notes) \X Edges)
           f == [p \in P |-> [doc |-> p[1], note |-> p[2][1], edge |-> p[2][2]]]
<1>1. IsFiniteSet(Docs \cup {Manual}) /\ IsFiniteSet(Triples \cup Notes)
  BY DocsAssumption, FS_Union, FS_Singleton
<1>2. IsFiniteSet(Edges)
  BY DocsAssumption, FS_Product DEF Edges
<1>3. IsFiniteSet(P)
  BY <1>1, <1>2, FS_Product
<1>4. ASSUME NEW x \in Evidence PROVE \E p \in P : f[p] = x
  <2>1. <<x.doc, <<x.note, x.edge>>>> \in P
    BY DEF Evidence
  <2>2. f[<<x.doc, <<x.note, x.edge>>>>] = x
    BY <2>1 DEF Evidence
  <2> QED BY <2>1, <2>2
<1>5. f \in Surjection(P, Evidence)
  <2>1. f \in [P -> Evidence]
    BY DEF Evidence
  <2> QED BY <1>4, <2>1 DEF Surjection
<1> HIDE DEF P, f
<1> QED BY <1>3, <1>5, FS_Surjection

LEMMA CountType ==
  ASSUME NEW rows \in SUBSET Evidence, NEW e
  PROVE  /\ CountOf(rows, e) \in Nat
         /\ \A p \in rows : p.edge = e => CountOf(rows, e) > 0
<1>1. {p \in rows : p.edge = e} \in SUBSET Evidence
  OBVIOUS
<1>2. IsFiniteSet({p \in rows : p.edge = e})
  BY <1>1, EvidenceFinite, FS_Subset
<1>3. CountOf(rows, e) \in Nat
  BY <1>2, FS_CardinalityType DEF CountOf
<1>4. CountOf(rows, e) = 0 <=> {p \in rows : p.edge = e} = {}
  BY <1>2, FS_EmptySet DEF CountOf
<1> QED BY <1>3, <1>4

(* Rows of an edge that are the same count the same                          *)
LEMMA CountSame ==
  ASSUME NEW rows, NEW others, NEW e,
         \A p \in rows : p.edge = e => p \in others,
         \A p \in others : p.edge = e => p \in rows
  PROVE  CountOf(rows, e) = CountOf(others, e)
<1>1. {p \in rows : p.edge = e} = {p \in others : p.edge = e}
  OBVIOUS
<1> QED BY <1>1 DEF CountOf

LEMMA DeleteTables ==
  ASSUME TablesOK, NEW gone \in SUBSET Entities, DeleteNodes(gone) PROVE TablesOK'
<1> DEFINE kept == {e \in DOMAIN edge : e[1] \notin gone /\ e[2] \notin gone}
<1>1. /\ label' = [e \in Entities |-> IF e \in gone THEN None ELSE label[e]]
      /\ canon' = [e \in Entities |-> IF e \in gone \/ canon[e] \in gone THEN None ELSE canon[e]]
      /\ alias' = [s \in Surfaces |-> IF alias[s] \in gone THEN None ELSE alias[s]]
      /\ mention' = [d \in Docs |-> [s \in Surfaces |->
                       IF mention[d][s] \in gone THEN None ELSE mention[d][s]]]
      /\ edge' = [e \in kept |-> edge[e]]
      /\ prov' = {p \in prov : p.edge \in kept}
  BY DEF DeleteNodes
<1>2. Nodes' = Nodes \ gone
  BY <1>1 DEF Nodes
<1>3. /\ label' \in [Entities -> Surfaces \cup {None}]
      /\ canon' \in [Entities -> Nodes' \cup {None}]
      /\ alias' \in [Surfaces -> Nodes' \cup {None}]
  BY <1>1, <1>2 DEF TablesOK
<1>4. mention' \in [Docs -> [Surfaces -> Nodes' \cup {None}]]
  BY <1>1, <1>2 DEF TablesOK
<1>5. DOMAIN edge' = kept /\ kept \subseteq DOMAIN edge /\ edge' \in [kept -> Nat]
  BY <1>1 DEF TablesOK
<1>6. kept \subseteq Nodes' \X Nodes'
  BY <1>2 DEF TablesOK
<1>7. prov' \subseteq Evidence /\ \A p \in prov' : p.edge \in DOMAIN edge'
  BY <1>1, <1>5 DEF TablesOK
<1>8. ASSUME NEW e \in kept PROVE edge'[e] = CountOf(prov', e)
  <2>1. edge[e] = CountOf(prov, e)
    BY DEF TablesOK, EvidenceCounted
  <2>2. CountOf(prov', e) = CountOf(prov, e)
    BY <1>1, CountSame
  <2> QED BY <1>1, <2>1, <2>2
<1> HIDE DEF kept
<1> QED BY <1>3, <1>4, <1>5, <1>6, <1>7, <1>8 DEF TablesOK, EvidenceCounted

LEMMA ReplaceTables ==
  ASSUME TablesOK, NEW d, NEW found \in SUBSET Evidence, ReplaceEdges(d, found),
         UNCHANGED <<label, canon, alias, mention>>
  PROVE  TablesOK'
<1> DEFINE inserted == {p \in found : p.edge[1] \in Nodes /\ p.edge[2] \in Nodes}
           rows == {p \in prov : p.doc # d} \cup inserted
           touched == {p.edge : p \in {q \in prov : q.doc = d} \cup inserted}
           count == [e \in DOMAIN edge \cup touched |->
                       IF e \in touched THEN CountOf(rows, e) ELSE edge[e]]
           ends == {x \in DOMAIN count : count[x] > 0}
<1>1. prov' = rows /\ edge' = [e \in ends |-> count[e]]
  BY DEF ReplaceEdges
<1>2. Nodes' = Nodes
  BY DEF Nodes
<1>3. prov \in SUBSET Evidence /\ rows \in SUBSET Evidence
  BY DEF TablesOK
<1>4. touched \subseteq Nodes \X Nodes /\ DOMAIN edge \subseteq Nodes \X Nodes
  <2>1. ASSUME NEW p \in inserted PROVE p.edge \in Nodes \X Nodes
    BY DEF Evidence, Edges
  <2>2. ASSUME NEW p \in prov PROVE p.edge \in DOMAIN edge
    BY DEF TablesOK
  <2> QED BY <2>1, <2>2 DEF TablesOK
<1>5. ASSUME NEW e \in DOMAIN edge \cup touched PROVE count[e] = CountOf(rows, e)
  <2>1. CASE e \in touched
    BY <2>1
  <2>2. CASE e \notin touched
    <3>1. CountOf(rows, e) = CountOf(prov, e)
      BY <2>2, CountSame
    <3>2. edge[e] = CountOf(prov, e)
      BY <2>2 DEF TablesOK, EvidenceCounted
    <3> QED BY <2>2, <3>1, <3>2
  <2> QED BY <2>1, <2>2
<1>6. ASSUME NEW p \in rows PROVE p.edge \in ends
  <2>1. p.edge \in DOMAIN edge \cup touched
    BY DEF TablesOK
  <2>2. CountOf(rows, p.edge) > 0
    BY <1>3, CountType
  <2> QED BY <1>5, <2>1, <2>2
<1>7. ends \subseteq DOMAIN edge \cup touched
  OBVIOUS
<1>8. ASSUME NEW e \in ends PROVE count[e] = CountOf(rows, e) /\ count[e] \in Nat
  <2>1. count[e] = CountOf(rows, e)
    BY <1>5, <1>7
  <2> HIDE DEF count, rows
  <2> QED BY <1>3, <2>1, CountType
<1> HIDE DEF inserted, rows, touched, count, ends
<1>9. DOMAIN edge' = ends /\ edge' \in [ends -> Nat] /\ ends \subseteq Nodes' \X Nodes'
  BY <1>1, <1>2, <1>4, <1>7, <1>8
<1>10. EvidenceCounted'
  BY <1>1, <1>8, <1>9 DEF EvidenceCounted
<1>11. /\ label' \in [Entities -> Surfaces \cup {None}]
       /\ canon' \in [Entities -> Nodes' \cup {None}]
       /\ alias' \in [Surfaces -> Nodes' \cup {None}]
       /\ mention' \in [Docs -> [Surfaces -> Nodes' \cup {None}]]
  BY <1>2 DEF TablesOK
<1>12. prov' \subseteq Evidence /\ \A p \in prov' : p.edge \in DOMAIN edge'
  BY <1>1, <1>3, <1>6, <1>9
<1> QED BY <1>9, <1>10, <1>11, <1>12 DEF TablesOK

(* Nodes are renamed to nodes that stay                                      *)
LEMMA RepointTables ==
  ASSUME TablesOK, NEW new \in [Entities -> Entities],
         RepointEdges(new), RepointMentions(new),
         \A e \in Nodes : new[e] \in Nodes',
         label' \in [Entities -> Surfaces \cup {None}],
         canon' \in [Entities -> Nodes' \cup {None}],
         alias' \in [Surfaces -> Nodes' \cup {None}]
  PROVE  TablesOK'
<1> DEFINE moved(e) == <<new[e[1]], new[e[2]]>>
           rows == {[p EXCEPT !.edge = moved(p.edge)] : p \in prov}
           touched == {moved(e) : e \in {x \in DOMAIN edge : moved(x) # x}}
           still == {x \in DOMAIN edge : moved(x) = x}
           count == [e \in still \cup touched |->
                       IF e \in touched THEN CountOf(rows, e) ELSE edge[e]]
           ends == {x \in DOMAIN count : x \in touched => count[x] > 0}
<1>1. prov' = rows /\ edge' = [e \in ends |-> count[e]]
  BY DEF RepointEdges
<1>2. mention' \in [Docs -> [Surfaces -> Nodes' \cup {None}]]
  BY DEF RepointMentions, TablesOK
<1>3. \A e \in DOMAIN edge : moved(e) \in Nodes' \X Nodes' /\ moved(e) \in Edges
  BY DEF TablesOK, Edges, Nodes
<1>4. \A p \in prov : p \in Evidence /\ p.edge \in DOMAIN edge
  BY DEF TablesOK
<1>5. ASSUME NEW p \in prov
      PROVE  /\ [p EXCEPT !.edge = moved(p.edge)] \in Evidence
             /\ [p EXCEPT !.edge = moved(p.edge)].edge = moved(p.edge)
             /\ moved(p.edge) = p.edge => [p EXCEPT !.edge = moved(p.edge)] = p
  BY <1>3, <1>4 DEF Evidence
<1>6. rows \in SUBSET Evidence
  <2> SUFFICES ASSUME NEW p \in rows PROVE p \in Evidence
    OBVIOUS
  <2>1. PICK q \in prov : p = [q EXCEPT !.edge = moved(q.edge)]
    OBVIOUS
  <2> QED BY <1>5, <2>1
<1>7. ASSUME NEW e \in still \cup touched PROVE count[e] = CountOf(rows, e)
  <2>1. CASE e \in touched
    BY <2>1
  <2>2. CASE e \notin touched
    <3>1. ASSUME NEW p \in rows, p.edge = e PROVE p \in prov
      <4>1. PICK q \in prov : p = [q EXCEPT !.edge = moved(q.edge)]
        OBVIOUS
      <4>2. moved(q.edge) = e
        BY <1>5, <3>1, <4>1
      <4>3. moved(q.edge) = q.edge
        BY <1>4, <2>2, <4>2
      <4> QED BY <1>5, <4>1, <4>3
    <3>2. ASSUME NEW p \in prov, p.edge = e PROVE p \in rows
      <4>1. moved(p.edge) = p.edge
        BY <2>2, <3>2
      <4>2. p = [p EXCEPT !.edge = moved(p.edge)]
        BY <1>5, <4>1
      <4> QED BY <4>2
    <3>3. CountOf(rows, e) = CountOf(prov, e)
      <4> HIDE DEF rows
      <4> QED BY <3>1, <3>2, CountSame
    <3>4. edge[e] = CountOf(prov, e)
      BY <2>2 DEF TablesOK, EvidenceCounted
    <3> QED BY <2>2, <3>3, <3>4
  <2> QED BY <2>1, <2>2
<1>8. ASSUME NEW p \in rows PROVE p.edge \in ends
  <2>1. PICK q \in prov : p = [q EXCEPT !.edge = moved(q.edge)]
    OBVIOUS
  <2>2. p.edge = moved(q.edge) /\ q.edge \in DOMAIN edge
    BY <1>4, <1>5, <2>1
  <2>3. p.edge \in still \cup touched
    BY <2>2
  <2>4. CountOf(rows, p.edge) > 0
    BY <1>6, CountType
  <2> QED BY <1>7, <2>3, <2>4
<1>9. ends \subseteq still \cup touched /\ still \cup touched \subseteq Nodes' \X Nodes'
  <2>1. \A e \in still : e \in Nodes' \X Nodes'
    BY <1>3
  <2>2. touched \subseteq Nodes' \X Nodes'
    BY <1>3
  <2> QED BY <2>1, <2>2
<1>10. ASSUME NEW e \in ends PROVE count[e] = CountOf(rows, e) /\ count[e] \in Nat
  <2>1. count[e] = CountOf(rows, e)
    BY <1>7, <1>9
  <2> HIDE DEF count, rows
  <2> QED BY <1>6, <2>1, CountType
<1> HIDE DEF moved, rows, touched, still, count, ends
<1>11. DOMAIN edge' = ends /\ edge' \in [ends -> Nat] /\ ends \subseteq Nodes' \X Nodes'
  BY <1>1, <1>9, <1>10
<1>12. EvidenceCounted'
  BY <1>1, <1>10, <1>11 DEF EvidenceCounted
<1>13. prov' \subseteq Evidence /\ \A p \in prov' : p.edge \in DOMAIN edge'
  BY <1>1, <1>6, <1>8, <1>11
<1> QED BY <1>2, <1>11, <1>12, <1>13 DEF TablesOK

LEMMA AddTables ==
  ASSUME TablesOK, NEW a \in Entities \cup {None}, NEW b \in Entities \cup {None},
         NEW rows \in SUBSET Evidence, \A p \in rows : p.edge = <<a, b>>,
         AddEdge(<<a, b>>, rows), UNCHANGED <<label, canon, alias, mention>>
  PROVE  TablesOK'
<1> DEFINE ends == <<a, b>>
<1>1. Nodes' = Nodes
  BY DEF Nodes
<1>2. CASE {a, b} \subseteq Nodes
  <2>1. /\ prov' = prov \cup rows
        /\ edge' = [e \in DOMAIN edge \cup {ends} |->
                      IF e = ends THEN CountOf(prov \cup rows, e) ELSE edge[e]]
    BY <1>2 DEF AddEdge
  <2>2. prov' \in SUBSET Evidence /\ prov \in SUBSET Evidence
    BY <2>1 DEF TablesOK
  <2>3. ASSUME NEW e \in DOMAIN edge \cup {ends}
        PROVE  edge'[e] = CountOf(prov', e) /\ edge'[e] \in Nat
    <3>1. CASE e = ends
      BY <2>1, <2>2, <3>1, CountType
    <3>2. CASE e # ends
      <4>1. CountOf(prov', e) = CountOf(prov, e)
        BY <2>1, <3>2, CountSame
      <4> QED BY <2>1, <3>2, <4>1 DEF TablesOK, EvidenceCounted
    <3> QED BY <3>1, <3>2
  <2>4. DOMAIN edge' = DOMAIN edge \cup {ends}
    BY <2>1
  <2>5. DOMAIN edge' \subseteq Nodes' \X Nodes' /\ edge' \in [DOMAIN edge' -> Nat]
    <3>1. DOMAIN edge \subseteq Nodes \X Nodes /\ ends \in Nodes \X Nodes
      BY <1>2 DEF TablesOK
    <3>2. edge' = [e \in DOMAIN edge' |-> edge'[e]] /\ \A e \in DOMAIN edge' : edge'[e] \in Nat
      BY <2>1, <2>3, <2>4
    <3> QED BY <1>1, <2>4, <3>1, <3>2
  <2>6. EvidenceCounted'
    BY <2>3, <2>4 DEF EvidenceCounted
  <2>7. \A p \in prov' : p.edge \in DOMAIN edge'
    BY <2>1, <2>4 DEF TablesOK
  <2> QED BY <1>1, <2>2, <2>5, <2>6, <2>7 DEF TablesOK
<1>3. CASE ~({a, b} \subseteq Nodes)
  <2>1. UNCHANGED <<prov, edge>>
    BY <1>3 DEF AddEdge
  <2> QED BY <1>1, <2>1 DEF TablesOK, EvidenceCounted
<1> QED BY <1>2, <1>3

(* Nodes are added, and pointers at nodes change                             *)
LEMMA GrowTables ==
  ASSUME TablesOK, UNCHANGED <<edge, prov>>,
         label' \in [Entities -> Surfaces \cup {None}],
         \A e \in Entities : label[e] # None => label'[e] # None,
         canon' \in [Entities -> Nodes \cup {None}],
         alias' \in [Surfaces -> Nodes \cup {None}],
         mention' \in [Docs -> [Surfaces -> Nodes \cup {None}]]
  PROVE  TablesOK'
<1>1. Nodes \subseteq Nodes'
  BY DEF Nodes
<1>2. /\ canon' \in [Entities -> Nodes' \cup {None}]
      /\ alias' \in [Surfaces -> Nodes' \cup {None}]
  BY <1>1
<1>3. mention' \in [Docs -> [Surfaces -> Nodes' \cup {None}]]
  BY <1>1
<1>4. DOMAIN edge' \subseteq Nodes' \X Nodes'
  BY <1>1 DEF TablesOK
<1> QED BY <1>2, <1>3, <1>4 DEF TablesOK, EvidenceCounted

(* merge_entities renames the alias to the root of its target                *)
LEMMA MergeTables ==
  ASSUME TablesOK, CanonFlat, NEW c \in Entities, NEW a \in Entities, Mergeable(c, a),
         MergeEntities(c, a), UNCHANGED label
  PROVE  TablesOK'
<1>1. PICK root : root = Root(c)
  OBVIOUS
<1>2. PICK new : new = [e \in Entities |-> IF e = a THEN root ELSE e]
  OBVIOUS
<1>3. root \in Nodes /\ Nodes \subseteq Entities /\ Nodes' = Nodes
  BY <1>1 DEF Root, Mergeable, TablesOK, Nodes
<1>4. new \in [Entities -> Entities] /\ \A e \in Nodes : new[e] \in Nodes'
  BY <1>2, <1>3
<1>5. /\ alias' = [s \in Surfaces |-> IF s = label[a] \/ alias[s] = a THEN root ELSE alias[s]]
      /\ canon' = [e \in Entities |-> IF e = a \/ canon[e] = a THEN root ELSE canon[e]]
      /\ RepointMentions(new) /\ RepointEdges(new)
  BY <1>1, <1>2 DEF MergeEntities
<1>6. /\ canon' \in [Entities -> Nodes' \cup {None}]
      /\ alias' \in [Surfaces -> Nodes' \cup {None}]
      /\ label' \in [Entities -> Surfaces \cup {None}]
  BY <1>3, <1>5 DEF TablesOK
<1> QED BY <1>4, <1>5, <1>6, RepointTables

FoldsStay == \A f, g \in fold : g.node # f.target

(* What is not a table                                                      *)
RestOK ==
  /\ live \subseteq Docs
  /\ text \in [Docs -> SUBSET Surfaces]
  /\ ner \in [Docs -> {"pending", "cleared", "done"}]
  /\ graph \in [Docs -> [pc : {"pending", "claimed", "read", "upserted", "replaced", "done"},
                         names : SUBSET Surfaces,
                         aliases : [Surfaces -> Entities \cup {None}],
                         stale : BOOLEAN]]
  /\ relate \in [Docs -> [pc : {"pending", "extracted", "resolved", "done"},
                          triples : SUBSET Triples,
                          aliases : [Surfaces -> Entities \cup {None}]]]
  /\ fold \subseteq Fold
  /\ purge \in [Docs -> {"no", "deleted", "cleared", "over", "abandoned"}]
  /\ decompose \in [pc : {"no", "upserted", "listed", "merged"},
                   node : Entities \cup {None}, a : Entities \cup {None},
                   b : Entities \cup {None}, docs : SUBSET Docs]
  /\ used \in [requests : 0 .. MaxRequests, crashes : 0 .. MaxCrashes]
  /\ FoldsStay

(* The fold pass renames the nodes it deletes to targets that it keeps        *)
LEMMA FoldTables ==
  ASSUME TablesOK, RestOK, ResolveAliases PROVE TablesOK'
<1> DEFINE folded(e) == \E f \in fold : f.node = e
           target(e) == (CHOOSE f \in fold : f.node = e).target
           gone == {f.node : f \in fold}
<1>1. PICK new : new = [e \in Entities |-> IF folded(e) THEN target(e) ELSE e]
  OBVIOUS
<1>2. /\ label' = [e \in Entities |-> IF e \in gone THEN None ELSE label[e]]
      /\ canon' = [e \in Entities |-> IF e \in gone \/ canon[e] \in gone THEN None ELSE canon[e]]
      /\ alias' = [s \in Surfaces |->
                     IF \E f \in fold : f.surface = s THEN (CHOOSE f \in fold : f.surface = s).target
                     ELSE IF alias[s] = None THEN None ELSE new[alias[s]]]
      /\ RepointMentions(new) /\ RepointEdges(new)
      /\ \A f \in fold : f.target \in Nodes
  BY <1>1 DEF ResolveAliases
<1>3. Nodes' = Nodes \ gone /\ Nodes \subseteq Entities
  BY <1>2 DEF Nodes
<1>4. \A f \in fold : f.target \in Nodes' /\ f.node \in Entities
  BY <1>2, <1>3 DEF RestOK, FoldsStay, Fold
<1>5. ASSUME NEW e \in Entities
      PROVE  /\ e \in gone => new[e] \in Nodes'
             /\ e \notin gone => new[e] = e
  <2>1. CASE folded(e)
    <3>1. (CHOOSE f \in fold : f.node = e) \in fold
      BY <2>1
    <3> QED BY <1>1, <1>4, <2>1, <3>1
  <2>2. CASE ~folded(e)
    BY <1>1, <2>2
  <2> QED BY <2>1, <2>2
<1>6. new \in [Entities -> Entities] /\ \A e \in Nodes : new[e] \in Nodes'
  <2>1. \A e \in Entities : new[e] \in Entities
    BY <1>3, <1>5
  <2>2. new = [e \in Entities |-> new[e]]
    BY <1>1
  <2> HIDE DEF gone
  <2> QED BY <1>3, <1>5, <2>1, <2>2
<1>7. label' \in [Entities -> Surfaces \cup {None}] /\ canon' \in [Entities -> Nodes' \cup {None}]
  BY <1>2, <1>3 DEF TablesOK
<1>8. alias' \in [Surfaces -> Nodes' \cup {None}]
  <2> SUFFICES ASSUME NEW s \in Surfaces PROVE alias'[s] \in Nodes' \cup {None}
    BY <1>2
  <2>1. CASE \E f \in fold : f.surface = s
    <3>1. (CHOOSE f \in fold : f.surface = s) \in fold
      BY <2>1
    <3> QED BY <1>2, <1>4, <2>1, <3>1
  <2>2. CASE ~\E f \in fold : f.surface = s
    <3>1. alias[s] = None \/ alias[s] \in Nodes
      BY DEF TablesOK
    <3> QED BY <1>2, <1>6, <2>2, <3>1
  <2> QED BY <2>1, <2>2
<1> HIDE DEF gone, folded, target
<1> QED BY <1>2, <1>6, <1>7, <1>8, RepointTables

LEMMA NodesAreEntities ==
  ASSUME TablesOK
  PROVE  /\ Nodes \subseteq Entities /\ Canonical \subseteq Entities
         /\ \A e \in Nodes : label[e] \in Surfaces
         /\ canon \in [Entities -> Entities \cup {None}]
         /\ alias \in [Surfaces -> Entities \cup {None}]
<1>1. Nodes \subseteq Entities /\ Canonical \subseteq Entities
  BY DEF Nodes, Canonical
<1> QED BY <1>1 DEF TablesOK, Nodes

LEMMA ResolveType ==
  ASSUME NEW aliases \in [Surfaces -> Entities \cup {None}], NEW s \in Surfaces
  PROVE  Resolve(aliases, s) \in Entities
  BY SurfacesAssumption DEF Resolve

LEMMA GraphTables ==
  ASSUME TablesOK, RestOK, NEW d \in Docs,
         EntitiesStage(d) \/ GraphStage(d) \/ RelationsStage(d) \/ Purge(d)
  PROVE  TablesOK'
<1>1. CASE UNCHANGED tables
  BY <1>1 DEF tables, TablesOK, EvidenceCounted, Nodes, CountOf
<1>2. CASE UpsertEntities(d)
  <2>1. PICK own : own = {s \in graph[d].names : Resolve(graph[d].aliases, s) = Id[s]}
    OBVIOUS
  <2>2. own \subseteq Surfaces
    BY <2>1 DEF RestOK
  <2>3. PICK first \in [{Id[s] : s \in own} -> own] :
          label' = [e \in Entities |->
                      IF label[e] = None /\ e \in DOMAIN first THEN first[e] ELSE label[e]]
    BY <1>2, <2>1 DEF UpsertEntities
  <2>4. /\ label' \in [Entities -> Surfaces \cup {None}]
        /\ \A e \in Entities : label[e] # None => label'[e] # None
    BY <2>2, <2>3, SurfacesAssumption DEF TablesOK
  <2> QED BY <1>2, <2>4, GrowTables DEF UpsertEntities, TablesOK
<1>3. CASE ReplaceMentions(d)
  <2>1. \A s \in graph[d].names : Resolve(graph[d].aliases, s) \in Nodes
    BY <1>3 DEF ReplaceMentions, LinksHold
  <2>2. mention' \in [Docs -> [Surfaces -> Nodes \cup {None}]]
    BY <1>3, <2>1 DEF ReplaceMentions, TablesOK
  <2> QED BY <1>3, <2>2, GrowTables DEF ReplaceMentions, TablesOK
<1>4. CASE PruneAfterGraph(d) \/ PurgeNodes(d)
  BY <1>4, DeleteTables, NodesAreEntities DEF PruneAfterGraph, PurgeNodes, PruneOrphanEntities
<1>5. CASE WriteEdges(d)
  <2>1. /\ relate[d].aliases \in [Surfaces -> Entities \cup {None}]
        /\ relate[d].triples \subseteq Triples
    BY DEF RestOK
  <2>2. PICK found :
          found = {[doc |-> d, note |-> t,
                    edge |-> <<Resolve(relate[d].aliases, t[1]), Resolve(relate[d].aliases, t[2])>>] :
                   t \in relate[d].triples}
    OBVIOUS
  <2>3. ASSUME NEW p \in found PROVE p \in Evidence
    <3>1. PICK t \in Triples :
            p = [doc |-> d, note |-> t,
                 edge |-> <<Resolve(relate[d].aliases, t[1]), Resolve(relate[d].aliases, t[2])>>]
      BY <2>1, <2>2
    <3>2. t[1] \in Surfaces /\ t[2] \in Surfaces
      BY DocsAssumption
    <3> QED BY <2>1, <3>1, <3>2, ResolveType DEF Evidence, Edges
  <2>4. found \in SUBSET Evidence
    BY <2>3
  <2>5. ReplaceEdges(d, found) /\ UNCHANGED <<label, canon, alias, mention>>
    BY <1>5, <2>2 DEF WriteEdges
  <2> QED BY <2>4, <2>5, ReplaceTables
<1>6. CASE PurgeEdges(d)
  <2>1. {} \in SUBSET Evidence
    OBVIOUS
  <2> QED BY <1>6, <2>1, ReplaceTables DEF PurgeEdges
<1>7. CASE EntitiesStage(d)
  <2>1. mention' \in [Docs -> [Surfaces -> Nodes \cup {None}]]
    BY <1>7 DEF EntitiesStage, DeleteRows, AddRows, Unlinked, TablesOK
  <2>2. UNCHANGED <<label, canon, alias, edge, prov>>
    BY <1>7 DEF EntitiesStage, DeleteRows, AddRows
  <2> QED BY <2>1, <2>2, GrowTables DEF TablesOK
<1> QED BY <1>1, <1>2, <1>3, <1>4, <1>5, <1>6, <1>7
        DEF GraphStage, RelationsStage, Purge, ClaimGraph, ReadMentions, ReplaceMentionsFails, ExtractTriples,
            ResolveEndpoints

LEMMA UserTables ==
  ASSUME TablesOK, RestOK, CanonFlat, Users \/ Decomposition PROVE TablesOK'
<1>1. CASE UNCHANGED tables
  BY <1>1 DEF tables, TablesOK, EvidenceCounted, Nodes, CountOf
<1>2. ASSUME NEW c \in Entities, NEW a \in Entities, Merge(c, a) PROVE TablesOK'
  BY <1>2, MergeTables DEF Merge
<1>3. ASSUME NEW a \in Entities, Split(a) PROVE TablesOK'
  <2>1. /\ canon' \in [Entities -> Nodes \cup {None}] /\ alias' \in [Surfaces -> Nodes \cup {None}]
    BY <1>3 DEF Split, TablesOK
  <2> QED BY <1>3, <2>1, GrowTables DEF Split, TablesOK
<1>4. ASSUME NEW a \in Entities, NEW b \in Entities, NEW n \in Notes, ConfirmFamily(a, b, n)
      PROVE  TablesOK'
  <2>1. PICK x, y : x = Root(a) /\ y = Root(b)
    OBVIOUS
  <2>2. x \in Entities /\ y \in Entities
    BY <2>1, NodesAreEntities DEF Root
  <2>3. [doc |-> Manual, note |-> n, edge |-> <<x, y>>] \in Evidence
    BY <2>2 DEF Evidence, Edges
  <2>4. /\ AddEdge(<<x, y>>, {[doc |-> Manual, note |-> n, edge |-> <<x, y>>]})
        /\ UNCHANGED <<label, canon, alias, mention>>
    BY <1>4, <2>1 DEF ConfirmFamily
  <2> QED BY <2>2, <2>3, <2>4, AddTables
<1>5. ASSUME NEW e \in Entities, NEW p \in Parts, UpsertParts(e, p[1], p[2]) PROVE TablesOK'
  <2>1. p[1] \in Surfaces /\ p[2] \in Surfaces
    BY DocsAssumption
  <2>2. /\ label' \in [Entities -> Surfaces \cup {None}]
        /\ \A x \in Entities : label[x] # None => label'[x] # None
    BY <1>5, <2>1 DEF UpsertParts, TablesOK
  <2> QED BY <1>5, <2>2, GrowTables DEF UpsertParts, TablesOK
<1>6. ASSUME NEW d \in Docs, DeleteDocument(d) PROVE TablesOK'
  <2>1. mention' \in [Docs -> [Surfaces -> Nodes \cup {None}]]
    BY <1>6 DEF DeleteDocument, Unlinked, TablesOK
  <2> QED BY <1>6, <2>1, GrowTables DEF DeleteDocument, TablesOK
<1>7. CASE FoldIntoPart
  <2>1. CASE decompose.a # decompose.node /\ Mergeable(decompose.a, decompose.node)
    <3>1. decompose.a \in Entities /\ decompose.node \in Entities
      BY <2>1, NodesAreEntities DEF Mergeable
    <3> QED BY <1>7, <2>1, <3>1, MergeTables DEF FoldIntoPart
  <2>2. CASE ~(decompose.a # decompose.node /\ Mergeable(decompose.a, decompose.node))
    BY <1>1, <1>7, <2>2 DEF FoldIntoPart, tables, TablesOK, EvidenceCounted, Nodes, CountOf
  <2> QED BY <2>1, <2>2
<1>8. CASE LinkParts
  <2>1. PICK a, b, docs : a = decompose.a /\ b = decompose.b /\ docs = decompose.docs
    OBVIOUS
  <2>2. PICK n \in Notes : AddEdge(<<a, b>>, [doc : docs, note : {n}, edge : {<<a, b>>}])
    BY <1>8, <2>1 DEF LinkParts
  <2>3. a \in Entities \cup {None} /\ b \in Entities \cup {None} /\ docs \subseteq Docs
    BY <2>1 DEF RestOK
  <2>4. CASE {a, b} \subseteq Nodes
    <3>1. <<a, b>> \in Edges
      BY <2>4, NodesAreEntities DEF Edges
    <3>2. [doc : docs, note : {n}, edge : {<<a, b>>}] \in SUBSET Evidence
      BY <2>3, <3>1 DEF Evidence
    <3>3. \A p \in [doc : docs, note : {n}, edge : {<<a, b>>}] : p.edge = <<a, b>>
      OBVIOUS
    <3> QED BY <1>8, <2>2, <2>3, <3>2, <3>3, AddTables DEF LinkParts
  <2>5. CASE ~({a, b} \subseteq Nodes)
    BY <1>1, <1>8, <2>2, <2>5 DEF LinkParts, AddEdge, tables, TablesOK, EvidenceCounted, Nodes, CountOf
  <2> QED BY <2>4, <2>5
<1> QED BY <1>1, <1>2, <1>3, <1>4, <1>5, <1>6, <1>7, <1>8
        DEF Users, Decomposition, Reprocess, ListMentions

LEMMA TablesStep ==
  ASSUME TablesOK, RestOK, CanonFlat, [Next]_vars PROVE TablesOK'
<1>1. CASE UNCHANGED tables
  BY <1>1 DEF tables, TablesOK, EvidenceCounted, Nodes, CountOf
<1>2. CASE UNCHANGED vars
  BY <1>1, <1>2 DEF vars, tables
<1>3. CASE AliasPass
  BY <1>1, <1>3, FoldTables DEF AliasPass, ComputeFolds, ResolveAliasesFails
<1> QED BY <1>1, <1>2, <1>3, GraphTables, UserTables DEF Next, WorkerCrash, ApiCrash

GraphType ==
  [pc : {"pending", "claimed", "read", "upserted", "replaced", "done"}, names : SUBSET Surfaces,
   aliases : [Surfaces -> Entities \cup {None}], stale : BOOLEAN]

(* A stage that moves on, or that learns its rows are gone, keeps its shape   *)
LEMMA GraphFields ==
  ASSUME NEW P, NEW N, NEW A, NEW B, NEW b \in B, NEW x \in P,
         NEW g \in [pc : P, names : N, aliases : A, stale : B]
  PROVE  /\ [g EXCEPT !.stale = b] \in [pc : P, names : N, aliases : A, stale : B]
         /\ [g EXCEPT !.pc = x] \in [pc : P, names : N, aliases : A, stale : B]
  OBVIOUS

(* The stage of a document whose rows are replaced is marked, in its place    *)
LEMMA RowsGraph ==
  ASSUME graph \in [Docs -> GraphType], NEW d \in Docs, RowsReplaced(d)
  PROVE  /\ graph' \in [Docs -> GraphType]
         /\ \A x \in Docs : x # d => graph'[x] = graph[x]
         /\ graph'[d].pc = "pending" \/ graph'[d].stale
<1>1. PICK b \in BOOLEAN : b = (graph[d].pc # "pending")
  OBVIOUS
<1>2. graph' = [graph EXCEPT ![d] = [graph[d] EXCEPT !.stale = b]]
  BY <1>1 DEF RowsReplaced
<1>3. graph[d] \in GraphType /\ [graph[d] EXCEPT !.stale = b] \in GraphType
  BY GraphFields DEF GraphType
<1>4. /\ [graph[d] EXCEPT !.stale = b].pc = graph[d].pc
      /\ [graph[d] EXCEPT !.stale = b].stale = b
  BY <1>3 DEF GraphType
<1> QED BY <1>1, <1>2, <1>3, <1>4

LEMMA RestStep ==
  ASSUME TablesOK, RestOK, [Next]_vars PROVE RestOK'
<1>1. /\ Nodes \subseteq Entities /\ alias \in [Surfaces -> Entities \cup {None}]
      /\ \A e \in Nodes : label[e] \in Surfaces
      /\ NoAliases \in [Surfaces -> Entities \cup {None}]
  BY NodesAreEntities DEF NoAliases
<1>2. /\ GraphPending.pc = "pending" /\ GraphPending \in
           [pc : {"pending", "claimed", "read", "upserted", "replaced", "done"}, names : SUBSET Surfaces,
            aliases : [Surfaces -> Entities \cup {None}], stale : BOOLEAN]
      /\ RelatePending \in [pc : {"pending", "extracted", "resolved", "done"},
                            triples : SUBSET Triples, aliases : [Surfaces -> Entities \cup {None}]]
      /\ RelateDone \in [pc : {"pending", "extracted", "resolved", "done"},
                         triples : SUBSET Triples, aliases : [Surfaces -> Entities \cup {None}]]
      /\ Decompose("no", None, None, None, {}) \in
           [pc : {"no", "upserted", "listed", "merged"}, node : Entities \cup {None},
            a : Entities \cup {None}, b : Entities \cup {None}, docs : SUBSET Docs]
  BY <1>1 DEF GraphPending, Graph, RelatePending, RelateDone, Relate, Decompose
<1>14. \A d \in Docs, pc \in {"pending", "claimed", "read", "upserted", "replaced", "done"} :
         [graph[d] EXCEPT !.pc = pc] \in GraphType
  <2> SUFFICES ASSUME NEW d \in Docs,
                      NEW pc \in {"pending", "claimed", "read", "upserted", "replaced", "done"}
               PROVE  [graph[d] EXCEPT !.pc = pc] \in GraphType
    OBVIOUS
  <2>1. graph[d] \in GraphType /\ TRUE \in BOOLEAN
    BY DEF RestOK, GraphType
  <2> QED BY <2>1, GraphFields DEF GraphType
<1>3. ASSUME NEW d \in Docs, GraphStage(d) PROVE RestOK'
  <2>1. CASE ReadMentions(d)
    <3>1. text[d] \in SUBSET Surfaces
      BY DEF RestOK
    <3> QED BY <1>1, <2>1, <3>1 DEF ReadMentions, Graph, tables, RestOK, FoldsStay
  <2>2. CASE UpsertEntities(d)
    <3>1. graph' = [graph EXCEPT ![d] = [graph[d] EXCEPT !.pc = "upserted"]]
      BY <2>2 DEF UpsertEntities
    <3>2. graph \in [Docs -> GraphType]
      BY DEF RestOK, GraphType
    <3>3. graph' \in [Docs -> GraphType]
      BY <1>14, <3>1, <3>2
    <3> QED BY <2>2, <3>3 DEF UpsertEntities, RestOK, FoldsStay, GraphType
  <2>3. CASE ReplaceMentions(d)
    <3>1. graph' = [graph EXCEPT ![d] = [graph[d] EXCEPT !.pc = "replaced"]]
      BY <2>3 DEF ReplaceMentions
    <3>2. graph \in [Docs -> GraphType]
      BY DEF RestOK, GraphType
    <3>3. graph' \in [Docs -> GraphType]
      BY <1>14, <3>1, <3>2
    <3> QED BY <2>3, <3>3 DEF ReplaceMentions, RestOK, FoldsStay, GraphType
  <2>4. CASE ReplaceMentionsFails(d)
    BY <1>2, <2>4 DEF ReplaceMentionsFails, tables, RestOK, FoldsStay
  <2>5. CASE PruneAfterGraph(d)
    BY <1>1, <2>5 DEF PruneAfterGraph, Graph, RestOK, FoldsStay
  <2>6. CASE ClaimGraph(d)
    <3>1. graph' = [graph EXCEPT ![d] = [graph[d] EXCEPT !.pc = "claimed"]]
      BY <2>6 DEF ClaimGraph
    <3>2. graph \in [Docs -> GraphType]
      BY DEF RestOK, GraphType
    <3>3. graph' \in [Docs -> GraphType]
      BY <1>14, <3>1, <3>2
    <3> QED BY <2>6, <3>3 DEF ClaimGraph, tables, RestOK, FoldsStay, GraphType
  <2> QED BY <1>3, <2>1, <2>2, <2>3, <2>4, <2>5, <2>6 DEF GraphStage
<1>4. ASSUME NEW d \in Docs, RelationsStage(d) PROVE RestOK'
  <2>1. CASE ExtractTriples(d)
    BY <1>1, <2>1 DEF ExtractTriples, Relate, tables, RestOK, FoldsStay
  <2>2. CASE ResolveEndpoints(d)
    BY <1>1, <2>2 DEF ResolveEndpoints, Relate, tables, RestOK, FoldsStay
  <2>3. CASE WriteEdges(d)
    BY <1>2, <2>3 DEF WriteEdges, RestOK, FoldsStay
  <2> QED BY <1>4, <2>1, <2>2, <2>3 DEF RelationsStage
<1>5. ASSUME NEW d \in Docs, Purge(d) PROVE RestOK'
  BY <1>5 DEF Purge, PurgeEdges, PurgeNodes, RestOK, FoldsStay
<1>6. CASE AliasPass
  <2>1. CASE ComputeFolds
    <3>1. Canonical \in SUBSET Entities /\ \A e \in Canonical : label[e] \in Surfaces
      BY <1>1 DEF Canonical
    <3>2. AliasFolds(Canonical) \subseteq Fold
      BY <3>1 DEF AliasFolds, Fold
    <3>3. \A f, g \in AliasFolds(Canonical) : g.node # f.target
      BY <3>1, FoldTargetsStay
    <3> HIDE DEF AliasFolds
    <3> QED BY <2>1, <3>2, <3>3 DEF ComputeFolds, tables, RestOK, FoldsStay
  <2>2. CASE ResolveAliases \/ ResolveAliasesFails
    BY <2>2 DEF ResolveAliases, ResolveAliasesFails, tables, RestOK, FoldsStay
  <2> QED BY <1>6, <2>1, <2>2 DEF AliasPass
<1>7. Asked => used' \in [requests : 0 .. MaxRequests, crashes : 0 .. MaxCrashes]
  <2>1. used \in [requests : 0 .. MaxRequests, crashes : 0 .. MaxCrashes]
    BY DEF RestOK
  <2>2. used.requests < MaxRequests => used.requests + 1 \in 0 .. MaxRequests
    BY <2>1, BoundsAssumption
  <2> QED BY <2>1, <2>2 DEF Asked
<1>8. CASE Users
  <2>1. ASSUME NEW c \in Entities, NEW a \in Entities, Merge(c, a) PROVE RestOK'
    BY <1>7, <2>1 DEF Merge, RestOK, FoldsStay
  <2>2. ASSUME NEW a \in Entities, Split(a) PROVE RestOK'
    BY <1>7, <2>2 DEF Split, RestOK, FoldsStay
  <2>3. ASSUME NEW a, NEW b, NEW n, ConfirmFamily(a, b, n) PROVE RestOK'
    BY <1>7, <2>3 DEF ConfirmFamily, RestOK, FoldsStay
  <2>4. ASSUME NEW e \in Entities, NEW p \in Parts, UpsertParts(e, p[1], p[2]) PROVE RestOK'
    <3>1. Id[p[1]] \in Entities /\ Id[p[2]] \in Entities
      BY SurfacesAssumption, DocsAssumption
    <3>2. decompose' \in [pc : {"no", "upserted", "listed", "merged"},
                          node : Entities \cup {None}, a : Entities \cup {None},
                          b : Entities \cup {None}, docs : SUBSET Docs]
      BY <2>4, <3>1 DEF UpsertParts, Decompose
    <3> QED BY <1>7, <2>4, <3>2 DEF UpsertParts, RestOK, FoldsStay
  <2>5. ASSUME NEW d \in Docs, Reprocess(d) PROVE RestOK'
    <3>1. PICK stages : Reset(d, stages)
      BY <2>5 DEF Reprocess
    <3>2. /\ ner' = [ner EXCEPT ![d] = "pending"] \/ UNCHANGED ner
          /\ graph' = [graph EXCEPT ![d] = GraphPending] \/ UNCHANGED graph
          /\ relate' = [relate EXCEPT ![d] = RelatePending] \/ UNCHANGED relate
      BY <3>1 DEF Reset, RestOK
    <3>3. ner' \in [Docs -> {"pending", "cleared", "done"}]
      BY <3>2 DEF RestOK
    <3>4. graph' \in [Docs -> GraphType]
      <4>1. graph \in [Docs -> GraphType] /\ GraphPending \in GraphType
        BY <1>2 DEF RestOK, GraphType
      <4> QED BY <3>2, <4>1
    <3>5. relate' \in [Docs -> [pc : {"pending", "extracted", "resolved", "done"},
                                triples : SUBSET Triples,
                                aliases : [Surfaces -> Entities \cup {None}]]]
      BY <1>2, <3>2 DEF RestOK
    <3> QED BY <1>7, <2>5, <3>3, <3>4, <3>5 DEF Reprocess, tables, RestOK, FoldsStay, GraphType
  <2>6. ASSUME NEW d \in Docs, DeleteDocument(d) PROVE RestOK'
    <3>1. text' \in [Docs -> SUBSET Surfaces]
      BY <2>6 DEF DeleteDocument, RestOK
    <3>2. graph' \in [Docs -> GraphType]
      BY <2>6, RowsGraph DEF DeleteDocument, RestOK, GraphType
    <3> QED BY <1>7, <2>6, <3>1, <3>2 DEF DeleteDocument, RestOK, FoldsStay, GraphType
  <2> QED BY <1>8, <2>1, <2>2, <2>3, <2>4, <2>5, <2>6 DEF Users
<1>9. CASE Decomposition
  <2>1. CASE ListMentions
    BY <2>1 DEF ListMentions, tables, RestOK, FoldsStay
  <2>2. CASE FoldIntoPart
    BY <2>2 DEF FoldIntoPart, RestOK, FoldsStay
  <2>3. CASE LinkParts
    BY <1>2, <2>3 DEF LinkParts, RestOK, FoldsStay
  <2> QED BY <1>9, <2>1, <2>2, <2>3 DEF Decomposition
<1>10. Dies => used' \in [requests : 0 .. MaxRequests, crashes : 0 .. MaxCrashes]
  <2>1. used \in [requests : 0 .. MaxRequests, crashes : 0 .. MaxCrashes]
    BY DEF RestOK
  <2>2. used.crashes < MaxCrashes => used.crashes + 1 \in 0 .. MaxCrashes
    BY <2>1, BoundsAssumption
  <2> QED BY <2>1, <2>2 DEF Dies
<1>11. CASE WorkerCrash
  BY <1>2, <1>10, <1>11 DEF WorkerCrash, tables, RestOK, FoldsStay
<1>12. CASE ApiCrash
  BY <1>2, <1>10, <1>12 DEF ApiCrash, tables, RestOK, FoldsStay
<1>13. CASE UNCHANGED vars
  BY <1>13 DEF vars, RestOK, FoldsStay
<1>15. ASSUME NEW d \in Docs, EntitiesStage(d) PROVE RestOK'
  <2>1. graph' \in [Docs -> GraphType]
    BY <1>15, RowsGraph DEF EntitiesStage, DeleteRows, AddRows, RestOK, GraphType
  <2>2. text' \in [Docs -> SUBSET Surfaces]
    <3>1. \E names \in SUBSET Surfaces : text' = [text EXCEPT ![d] = names]
      BY <1>15, DocsAssumption DEF EntitiesStage, DeleteRows, AddRows
    <3> QED BY <3>1 DEF RestOK
  <2>4. ner' \in [Docs -> {"pending", "cleared", "done"}]
    <3>1. CASE DeleteRows(d)  BY <3>1 DEF DeleteRows, RestOK
    <3>2. CASE AddRows(d)  BY <3>2 DEF AddRows, RestOK
    <3> QED BY <1>15, <3>1, <3>2 DEF EntitiesStage
  <2>3. UNCHANGED <<live, relate, fold, purge, decompose, used>>
    BY <1>15 DEF EntitiesStage, DeleteRows, AddRows
  <2> QED BY <2>1, <2>2, <2>3, <2>4 DEF RestOK, FoldsStay, GraphType
<1> QED BY <1>3, <1>4, <1>5, <1>6, <1>8, <1>9, <1>11, <1>12, <1>13, <1>15 DEF Next

IInv == TablesOK /\ RestOK /\ FlatInv

LEMMA InitIInv == Init => IInv
<1> SUFFICES ASSUME Init PROVE IInv
  OBVIOUS
<1>1. TablesOK
  BY DEF Init, TablesOK, EvidenceCounted, NoAliases, Unlinked
<1>2. RestOK
  BY DocsAssumption, BoundsAssumption
     DEF Init, RestOK, FoldsStay, GraphPending, Graph, RelatePending, Relate, Decompose, NoAliases
<1>3. FlatInv
  BY SurfacesAssumption DEF Init, FlatInv, CanonType, CanonFlat
<1> QED BY <1>1, <1>2, <1>3 DEF IInv

LEMMA NextIInv == IInv /\ [Next]_vars => IInv'
  BY TablesStep, RestStep, StepKeepsFlat DEF IInv, FlatInv

(* No row refers to a node or an edge that is gone: aliases, canonical ids,   *)
(* mentions, edges and their evidence, through prunes, folds, merges, deletes *)
(* and crashes of both processes                                             *)
THEOREM TypesHold == Spec => []TypeOK
<1>1. IInv => TypeOK
  BY DEF IInv, TablesOK, RestOK, TypeOK
<1> QED BY <1>1, InitIInv, NextIInv, PTL DEF Spec

(* evidence_count of an edge is the number of its provenance rows: what is    *)
(* replaced, repointed, added or cascaded away is counted                    *)
(* (replace_edges_for_document, _repoint_edges, add_edges)                   *)
THEOREM EvidenceIsCounted == Spec => []EvidenceCounted
<1>1. IInv => EvidenceCounted
  BY DEF IInv, TablesOK
<1> QED BY <1>1, InitIInv, NextIInv, PTL DEF Spec
-----------------------------------------------------------------------------
(* Links of documents that are done.                                          *)

(* A run that still holds the rows of its document links all of them          *)
ResolvedInv ==
  \A d \in live : ~graph[d].stale =>
    /\ graph[d].pc \in {"read", "upserted", "replaced"} => graph[d].names = text[d]
    /\ graph[d].pc \in {"replaced", "done"} => \A s \in text[d] : mention[d][s] # None

MentionsStay == \A d \in Docs, s \in Surfaces : mention[d][s] # None => mention'[d][s] # None

(* A prune takes only nodes that no mention refers to                         *)
LEMMA PruneKeepsLinks ==
  ASSUME PruneOrphanEntities
  PROVE  MentionsStay
<1> DEFINE gone == {e \in Canonical : \A d \in Docs, s \in Surfaces : mention[d][s] # e}
<1>1. mention' = [d \in Docs |-> [s \in Surfaces |->
                    IF mention[d][s] \in gone THEN None ELSE mention[d][s]]]
  BY DEF PruneOrphanEntities, DeleteNodes
<1>2. \A d \in Docs, s \in Surfaces : mention[d][s] \notin gone
  OBVIOUS
<1> HIDE DEF gone
<1> QED BY <1>1, <1>2 DEF MentionsStay

(* A rename moves links, it drops none                                        *)
LEMMA RepointKeepsLinks ==
  ASSUME TablesOK, NEW new \in [Entities -> Entities], RepointMentions(new)
  PROVE  MentionsStay
<1> SUFFICES ASSUME NEW d \in Docs, NEW s \in Surfaces, mention[d][s] # None
             PROVE  mention'[d][s] # None
  BY DEF MentionsStay
<1>1. mention[d][s] \in Entities
  BY NodesAreEntities DEF TablesOK
<1>2. mention'[d][s] = new[mention[d][s]]
  BY DEF RepointMentions
<1> QED BY <1>1, <1>2, SurfacesAssumption

LEMMA MergeKeepsLinks ==
  ASSUME TablesOK, NEW c \in Entities, NEW a \in Entities, Mergeable(c, a), MergeEntities(c, a)
  PROVE  MentionsStay
<1>1. PICK new : new = [e \in Entities |-> IF e = a THEN Root(c) ELSE e]
  OBVIOUS
<1>2. Root(c) \in Entities
  BY NodesAreEntities DEF Root
<1>3. new \in [Entities -> Entities] /\ RepointMentions(new)
  BY <1>1, <1>2 DEF MergeEntities
<1> QED BY <1>3, RepointKeepsLinks

LEMMA FoldKeepsLinks ==
  ASSUME TablesOK, RestOK, ResolveAliases
  PROVE  MentionsStay
<1> DEFINE folded(e) == \E f \in fold : f.node = e
           target(e) == (CHOOSE f \in fold : f.node = e).target
<1>1. PICK new : new = [e \in Entities |-> IF folded(e) THEN target(e) ELSE e]
  OBVIOUS
<1>2. RepointMentions(new)
  BY <1>1 DEF ResolveAliases
<1>3. ASSUME NEW e \in Entities, folded(e) PROVE target(e) \in Entities
  <2>1. (CHOOSE f \in fold : f.node = e) \in fold
    BY <1>3
  <2> QED BY <2>1 DEF RestOK, Fold
<1> HIDE DEF folded, target
<1>4. new \in [Entities -> Entities]
  BY <1>1, <1>3
<1> QED BY <1>2, <1>4, RepointKeepsLinks

(* What the graph stage of d does to the documents                            *)
LEMMA StageResolves ==
  ASSUME TablesOK, RestOK, ResolvedInv, NEW d \in Docs, GraphStage(d)
  PROVE  ResolvedInv'
<1>0. /\ graph \in [Docs -> GraphType] /\ live \subseteq Docs /\ text \in [Docs -> SUBSET Surfaces]
      /\ mention \in [Docs -> [Surfaces -> Nodes \cup {None}]]
      /\ UNCHANGED <<live, text>> /\ \A x \in Docs : x # d => graph'[x] = graph[x]
  BY DEF RestOK, TablesOK, GraphType, tables, GraphStage, ClaimGraph, ReadMentions, UpsertEntities,
         ReplaceMentions, ReplaceMentionsFails, PruneAfterGraph
<1>1. ASSUME MentionsStay,
             d \in live /\ ~graph'[d].stale =>
               /\ graph'[d].pc \in {"read", "upserted", "replaced"} => graph'[d].names = text[d]
               /\ graph'[d].pc \in {"replaced", "done"} => \A s \in text[d] : mention[d][s] # None
      PROVE  ResolvedInv'
  BY <1>0, <1>1 DEF ResolvedInv, MentionsStay
<1>2. CASE ReadMentions(d)
  <2>1. graph'[d] = Graph("read", text[d], alias, FALSE) /\ UNCHANGED mention
    BY <1>0, <1>2 DEF ReadMentions, tables
  <2> QED BY <1>1, <2>1 DEF Graph, MentionsStay
<1>3. CASE UpsertEntities(d)
  <2>1. /\ graph'[d].pc = "upserted" /\ graph'[d].names = graph[d].names
        /\ graph'[d].stale = graph[d].stale /\ graph[d].pc = "read" /\ UNCHANGED mention
    BY <1>0, <1>3 DEF UpsertEntities, GraphType
  <2> QED BY <1>1, <2>1 DEF ResolvedInv, MentionsStay
<1>4. CASE ReplaceMentions(d)
  <2>1. /\ graph'[d].pc = "replaced" /\ graph'[d].names = graph[d].names
        /\ graph'[d].stale = graph[d].stale /\ graph[d].pc = "upserted"
        /\ \A x \in Docs : x # d => mention'[x] = mention[x]
        /\ \A s \in graph[d].names : Resolve(graph[d].aliases, s) \in Nodes
    BY <1>0, <1>4 DEF ReplaceMentions, LinksHold, GraphType
  <2>2. \A s \in graph[d].names : mention'[d][s] = Resolve(graph[d].aliases, s)
    BY <1>0, <1>4 DEF ReplaceMentions, GraphType
  <2>3. \A s \in graph[d].names : mention'[d][s] # None
    BY <2>1, <2>2, NodesAreEntities, SurfacesAssumption
  <2>4. d \in live /\ ~graph[d].stale => graph[d].names = text[d]
    BY <2>1 DEF ResolvedInv
  <2> QED BY <1>0, <2>1, <2>3, <2>4 DEF ResolvedInv
<1>5. CASE ReplaceMentionsFails(d)
  <2>1. graph'[d].pc = "pending" /\ UNCHANGED mention
    BY <1>0, <1>5 DEF ReplaceMentionsFails, GraphPending, Graph, tables
  <2> QED BY <1>1, <2>1 DEF MentionsStay
<1>6. CASE PruneAfterGraph(d)
  <2>1. graph'[d] = Graph("done", {}, NoAliases, graph[d].stale) /\ graph[d].pc = "replaced"
    BY <1>0, <1>6 DEF PruneAfterGraph
  <2>2. graph'[d].pc = "done" /\ graph'[d].stale = graph[d].stale
    BY <2>1 DEF Graph
  <2>3. MentionsStay
    BY <1>6, PruneKeepsLinks DEF PruneAfterGraph
  <2> QED BY <1>1, <2>1, <2>2, <2>3 DEF ResolvedInv
<1>7. CASE ClaimGraph(d)
  <2>1. graph'[d].pc = "claimed" /\ UNCHANGED mention
    BY <1>0, <1>7 DEF ClaimGraph, GraphType, tables
  <2> QED BY <1>1, <2>1 DEF MentionsStay
<1> QED BY <1>2, <1>3, <1>4, <1>5, <1>6, <1>7 DEF GraphStage

LEMMA StepResolves ==
  ASSUME TablesOK, RestOK, ResolvedInv, [Next]_vars
  PROVE  ResolvedInv'
<1>0. /\ graph \in [Docs -> GraphType] /\ live \subseteq Docs /\ text \in [Docs -> SUBSET Surfaces]
      /\ mention \in [Docs -> [Surfaces -> Nodes \cup {None}]]
  BY DEF RestOK, TablesOK, GraphType
<1>1. ASSUME MentionsStay, UNCHANGED <<live, text, graph>> PROVE ResolvedInv'
  BY <1>0, <1>1 DEF ResolvedInv, MentionsStay
<1>2. ASSUME UNCHANGED mention PROVE MentionsStay
  BY <1>2 DEF MentionsStay
<1>3. CASE UNCHANGED vars
  BY <1>1, <1>2, <1>3 DEF vars
<1>11. ASSUME NEW d \in Docs, live' \subseteq live, RowsReplaced(d),
              \A x \in Docs : x # d => text'[x] = text[x] /\ mention'[x] = mention[x]
       PROVE  ResolvedInv'
  <2>1. /\ \A x \in Docs : x # d => graph'[x] = graph[x]
        /\ graph'[d].pc = "pending" \/ graph'[d].stale
    BY <1>0, <1>11, RowsGraph
  <2> QED BY <1>0, <1>11, <2>1 DEF ResolvedInv
<1>12. ASSUME NEW d \in Docs, EntitiesStage(d) PROVE ResolvedInv'
  <2>1. /\ UNCHANGED live /\ RowsReplaced(d)
        /\ \A x \in Docs : x # d => text'[x] = text[x] /\ mention'[x] = mention[x]
    BY <1>0, <1>12 DEF EntitiesStage, DeleteRows, AddRows
  <2> QED BY <1>11, <2>1
<1>4. ASSUME NEW d \in Docs, RelationsStage(d) PROVE ResolvedInv'
  BY <1>1, <1>2, <1>4 DEF RelationsStage, ExtractTriples, ResolveEndpoints, WriteEdges, tables
<1>5. ASSUME NEW d \in Docs, Purge(d) PROVE ResolvedInv'
  BY <1>1, <1>2, <1>5, PruneKeepsLinks DEF Purge, PurgeEdges, PurgeNodes
<1>6. CASE AliasPass
  BY <1>1, <1>2, <1>6, FoldKeepsLinks DEF AliasPass, ComputeFolds, ResolveAliases, ResolveAliasesFails, tables
<1>7. CASE Decomposition
  <2>1. CASE FoldIntoPart
    <3>1. {decompose.a, decompose.node} \subseteq Entities \/ UNCHANGED mention
      BY <2>1, NodesAreEntities DEF FoldIntoPart, Mergeable
    <3> QED BY <1>1, <1>2, <2>1, <3>1, MergeKeepsLinks DEF FoldIntoPart
  <2>2. CASE ListMentions \/ LinkParts
    BY <1>1, <1>2, <2>2 DEF ListMentions, LinkParts, tables
  <2> QED BY <1>7, <2>1, <2>2 DEF Decomposition
<1>8. CASE Users
  <2>1. ASSUME NEW c \in Entities, NEW a \in Entities, Merge(c, a) PROVE ResolvedInv'
    BY <1>1, <2>1, MergeKeepsLinks DEF Merge
  <2>2. ASSUME NEW a \in Entities, Split(a) PROVE ResolvedInv'
    BY <1>1, <1>2, <2>2 DEF Split
  <2>3. ASSUME NEW a, NEW b, NEW n, ConfirmFamily(a, b, n) PROVE ResolvedInv'
    BY <1>1, <1>2, <2>3 DEF ConfirmFamily
  <2>4. ASSUME NEW e, NEW a, NEW b, UpsertParts(e, a, b) PROVE ResolvedInv'
    BY <1>1, <1>2, <2>4 DEF UpsertParts
  <2>5. ASSUME NEW d \in Docs, Reprocess(d) PROVE ResolvedInv'
    <3>1. /\ UNCHANGED <<live, text, mention>> /\ \A x \in Docs : x # d => graph'[x] = graph[x]
          /\ graph'[d] = graph[d] \/ graph'[d] = GraphPending
      BY <1>0, <2>5 DEF Reprocess, Reset, tables
    <3>2. GraphPending.pc = "pending"
      BY DEF GraphPending, Graph
    <3> QED BY <1>0, <3>1, <3>2 DEF ResolvedInv
  <2>6. ASSUME NEW d \in Docs, DeleteDocument(d) PROVE ResolvedInv'
    <3>1. /\ live' \subseteq live /\ RowsReplaced(d)
          /\ \A x \in Docs : x # d => text'[x] = text[x] /\ mention'[x] = mention[x]
      BY <1>0, <2>6 DEF DeleteDocument
    <3> QED BY <3>1, <1>11
  <2> QED BY <1>8, <2>1, <2>2, <2>3, <2>4, <2>5, <2>6 DEF Users
<1>9. CASE WorkerCrash
  <2>1. /\ UNCHANGED <<live, text, mention>>
        /\ \A x \in Docs : graph'[x] = graph[x] \/ graph'[x] = GraphPending
    BY <1>9 DEF WorkerCrash, tables
  <2>2. GraphPending.pc = "pending"
    BY DEF GraphPending, Graph
  <2> QED BY <1>0, <2>1, <2>2 DEF ResolvedInv
<1>10. CASE ApiCrash
  BY <1>1, <1>2, <1>10 DEF ApiCrash, tables
<1> QED BY <1>3, <1>4, <1>5, <1>6, <1>7, <1>8, <1>9, <1>10, <1>12, StageResolves DEF Next

(* A document whose graph stage is done has a link for each entity it has     *)
(* rows for, whatever prunes, folds, merges, runs of other documents and      *)
(* crashes fell into its run or after it (replace_mentions_for_document,      *)
(* prune_orphan_entities).  The document is excepted once its own entity rows *)
(* have been replaced since the run was claimed, as by a retry of ner alone,  *)
(* until the stage has run again.                                             *)
THEOREM DoneIsResolved == Spec => []DoneMeansResolved
<1>1. Init => ResolvedInv
  BY DEF Init, ResolvedInv, GraphPending, Graph
<1>2. IInv /\ ResolvedInv /\ [Next]_vars => ResolvedInv'
  BY StepResolves DEF IInv
<1>3. ResolvedInv => DoneMeansResolved
  BY DEF ResolvedInv, DoneMeansResolved
<1> QED BY <1>1, <1>2, <1>3, InitIInv, NextIInv, PTL DEF Spec
-----------------------------------------------------------------------------
(* What evidence may go.                                                      *)

(* p, if it is gone after the step, was given up: by the deletion of an       *)
(* endpoint, or by a rewrite or the purge of its document                     *)
Carried(p) == \E q \in prov' : q.doc = p.doc /\ q.note = p.note
GivenUp(p) ==
  \/ {p.edge[1], p.edge[2]} \cap Nodes # {p.edge[1], p.edge[2]} \cap Nodes'
  \/ p.doc \in Docs /\ (relate'[p.doc] # relate[p.doc] \/ purge'[p.doc] # purge[p.doc])
EvidenceStep == \A p \in prov : Carried(p) \/ GivenUp(p)

(* The cascade takes evidence of edges with a deleted endpoint, no other      *)
LEMMA DeleteEvidence ==
  ASSUME TablesOK, NEW gone \in SUBSET Entities, DeleteNodes(gone)
  PROVE  EvidenceStep
<1> DEFINE kept == {e \in DOMAIN edge : e[1] \notin gone /\ e[2] \notin gone}
<1>1. label' = [e \in Entities |-> IF e \in gone THEN None ELSE label[e]]
      /\ prov' = {p \in prov : p.edge \in kept}
  BY DEF DeleteNodes
<1>2. Nodes' = Nodes \ gone
  BY <1>1 DEF Nodes
<1>3. ASSUME NEW p \in prov, p \notin prov' PROVE GivenUp(p)
  <2>1. p.edge \in DOMAIN edge /\ p.edge[1] \in Nodes /\ p.edge[2] \in Nodes
    BY DEF TablesOK
  <2>2. p.edge[1] \in gone \/ p.edge[2] \in gone
    BY <1>1, <1>3, <2>1
  <2> QED BY <1>2, <2>1, <2>2 DEF GivenUp
<1> QED BY <1>3 DEF EvidenceStep, Carried

LEMMA PruneEvidence ==
  ASSUME TablesOK, PruneOrphanEntities
  PROVE  EvidenceStep
<1>1. PICK gone \in SUBSET Entities : DeleteNodes(gone)
  BY NodesAreEntities DEF PruneOrphanEntities
<1> QED BY <1>1, DeleteEvidence

(* A rewrite of d keeps the evidence of the other documents                   *)
LEMMA ReplaceEvidence ==
  ASSUME NEW d \in Docs, NEW found, ReplaceEdges(d, found),
         relate'[d] # relate[d] \/ purge'[d] # purge[d]
  PROVE  EvidenceStep
<1>1. \A p \in prov : p.doc # d => p \in prov'
  BY DEF ReplaceEdges
<1> QED BY <1>1 DEF EvidenceStep, Carried, GivenUp

(* Repointed evidence keeps its document and its text                         *)
LEMMA RepointEvidence ==
  ASSUME TablesOK, NEW new, RepointEdges(new)
  PROVE  EvidenceStep
<1> DEFINE moved(e) == <<new[e[1]], new[e[2]]>>
<1>1. prov' = {[p EXCEPT !.edge = moved(p.edge)] : p \in prov}
  BY DEF RepointEdges
<1> HIDE DEF moved
<1>2. ASSUME NEW p \in prov PROVE Carried(p)
  <2>1. PICK q \in prov' : q = [p EXCEPT !.edge = moved(p.edge)]
    BY <1>1
  <2>2. p \in Evidence
    BY DEF TablesOK
  <2>3. q.doc = p.doc /\ q.note = p.note
    BY <2>1, <2>2 DEF Evidence
  <2> QED BY <2>3 DEF Carried
<1> QED BY <1>2 DEF EvidenceStep

LEMMA AddEvidence ==
  ASSUME NEW ends, NEW rows, AddEdge(ends, rows)
  PROVE  EvidenceStep
<1>1. prov \subseteq prov'
  BY DEF AddEdge
<1> QED BY <1>1 DEF EvidenceStep, Carried

(* No step of any of the writers loses evidence that was not given up         *)
LEMMA StepEvidence ==
  ASSUME IInv, [Next]_vars
  PROVE  EvidenceStep
<1>0. TablesOK /\ RestOK
  BY DEF IInv
<1>1. ASSUME UNCHANGED prov PROVE EvidenceStep
  BY <1>1 DEF EvidenceStep, Carried
<1>2. CASE UNCHANGED vars
  BY <1>1, <1>2 DEF vars
<1>3. ASSUME NEW d \in Docs, GraphStage(d) PROVE EvidenceStep
  <2>1. CASE PruneAfterGraph(d)
    BY <1>0, <2>1, PruneEvidence DEF PruneAfterGraph
  <2> QED BY <1>1, <1>3, <2>1
        DEF GraphStage, ClaimGraph, ReadMentions, UpsertEntities, ReplaceMentions,
            ReplaceMentionsFails, tables
<1>4. ASSUME NEW d \in Docs, RelationsStage(d) PROVE EvidenceStep
  <2>1. CASE WriteEdges(d)
    <3>1. PICK found : ReplaceEdges(d, found)
      BY <2>1 DEF WriteEdges
    <3>2. relate[d].pc = "resolved" /\ relate' = [relate EXCEPT ![d] = RelateDone]
      BY <2>1 DEF WriteEdges
    <3>3. relate'[d] = RelateDone /\ RelateDone.pc = "done"
      BY <1>0, <3>2 DEF RestOK, RelateDone, Relate
    <3> QED BY <3>1, <3>2, <3>3, ReplaceEvidence
  <2> QED BY <1>1, <1>4, <2>1 DEF RelationsStage, ExtractTriples, ResolveEndpoints, tables
<1>5. ASSUME NEW d \in Docs, Purge(d) PROVE EvidenceStep
  <2>1. CASE PurgeEdges(d)
    <3>1. ReplaceEdges(d, {}) /\ purge[d] = "deleted" /\ purge'[d] = "cleared"
      BY <1>0, <2>1 DEF PurgeEdges, RestOK
    <3> QED BY <3>1, ReplaceEvidence
  <2>2. CASE PurgeNodes(d)
    BY <1>0, <2>2, PruneEvidence DEF PurgeNodes
  <2> QED BY <1>5, <2>1, <2>2 DEF Purge
<1>6. CASE AliasPass
  <2>1. CASE ResolveAliases
    <3>1. PICK new : RepointEdges(new)
      BY <2>1 DEF ResolveAliases
    <3> QED BY <1>0, <3>1, RepointEvidence
  <2> QED BY <1>1, <1>6, <2>1 DEF AliasPass, ComputeFolds, ResolveAliasesFails, tables
<1>7. ASSUME NEW c, NEW a, MergeEntities(c, a) PROVE EvidenceStep
  <2>1. PICK new : RepointEdges(new)
    BY <1>7 DEF MergeEntities
  <2> QED BY <1>0, <2>1, RepointEvidence
<1>8. CASE Users
  <2>1. ASSUME NEW c, NEW a, Merge(c, a) PROVE EvidenceStep
    BY <1>7, <2>1 DEF Merge
  <2>2. ASSUME NEW a, NEW b, NEW n, ConfirmFamily(a, b, n) PROVE EvidenceStep
    <3>1. PICK ends, rows : AddEdge(ends, rows)
      BY <2>2 DEF ConfirmFamily
    <3> QED BY <3>1, AddEvidence
  <2>3. ASSUME NEW a, Split(a) PROVE EvidenceStep
    BY <1>1, <2>3 DEF Split
  <2>4. ASSUME NEW e, NEW a, NEW b, UpsertParts(e, a, b) PROVE EvidenceStep
    BY <1>1, <2>4 DEF UpsertParts
  <2>5. ASSUME NEW d, Reprocess(d) \/ DeleteDocument(d) PROVE EvidenceStep
    BY <1>1, <2>5 DEF Reprocess, DeleteDocument, tables
  <2> QED BY <1>8, <2>1, <2>2, <2>3, <2>4, <2>5 DEF Users
<1>9. CASE Decomposition
  <2>1. CASE FoldIntoPart
    BY <1>1, <1>7, <2>1 DEF FoldIntoPart
  <2>2. CASE LinkParts
    <3>1. PICK ends, rows : AddEdge(ends, rows)
      BY <2>2 DEF LinkParts
    <3> QED BY <3>1, AddEvidence
  <2> QED BY <1>1, <1>9, <2>1, <2>2 DEF Decomposition, ListMentions, tables
<1>10. CASE WorkerCrash \/ ApiCrash
  BY <1>1, <1>10 DEF WorkerCrash, ApiCrash, tables
<1>11. ASSUME NEW d \in Docs, EntitiesStage(d) PROVE EvidenceStep
  BY <1>1, <1>11 DEF EntitiesStage, DeleteRows, AddRows
<1> QED BY <1>2, <1>3, <1>4, <1>5, <1>6, <1>8, <1>9, <1>10, <1>11 DEF Next

(* Evidence of a relation is lost only with an endpoint of its edge, or when  *)
(* the document it comes from is related anew or purged: merges, folds,       *)
(* decompositions and runs for other documents keep it (_repoint_edges,       *)
(* replace_edges_for_document, add_edges, and the cascade of kg_entities)     *)
THEOREM EvidenceStays == Spec => EvidenceKept
<1>1. IInv /\ [Next]_vars => EvidenceStep
  BY StepEvidence
<1>2. EvidenceStep =>
        \A p \in prov :
          \/ \E q \in prov' : q.doc = p.doc /\ q.note = p.note
          \/ {p.edge[1], p.edge[2]} \cap Nodes # {p.edge[1], p.edge[2]} \cap Nodes'
          \/ p.doc \in Docs /\ (relate'[p.doc] # relate[p.doc] \/ purge'[p.doc] # purge[p.doc])
  BY DEF EvidenceStep, Carried, GivenUp
<1> QED BY <1>1, <1>2, InitIInv, NextIInv, PTL DEF Spec, EvidenceKept
=============================================================================
