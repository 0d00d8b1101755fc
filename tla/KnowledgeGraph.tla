--------------------------- MODULE KnowledgeGraph ---------------------------
(* The entity graph of one tenant: canonical nodes, the mentions that link    *)
(* documents to them, the alias table, and relation edges with the evidence   *)
(* they rest on.  Three writers change it without knowing of each other: the  *)
(* entity_graph and relations stages of the workers, the alias-folding pass   *)
(* between two reconcile passes, and users who merge, split, relate and       *)
(* delete.  Every database transaction is one step; a processor that issues   *)
(* several, or reads before it writes, takes several steps.                   *)
EXTENDS Naturals, FiniteSets, Sequences

CONSTANTS
  Docs,         \* documents of the tenant
  Surfaces,     \* (type, normalized_value) pairs that occur in documents
  Entities,     \* node ids
  Id,           \* canonical_entity_id: the node id of a surface
  Tokens,       \* words of names
  Words,        \* alias_tokens: the token sequence of a surface
  Ordinals,     \* tokens for which is_ordinal_token holds
  Short,        \* surfaces below MIN_ALIAS_CHARS
  Triples,      \* (subject, object) pairs the relation extractor may find
  Parts,        \* pairs of surfaces a user may split a fused name into
  Texts,        \* what extraction may find in a document: sets of surfaces
  Notes,        \* pool of evidence that users' requests write (a bound)
  Manual,       \* _MANUAL_PROVENANCE_DOC
  None,         \* SQL NULL, or no row
  MaxRequests,  \* bound: what users ask for
  MaxCrashes    \* bound: worker or API processes that die

ASSUME SurfacesAssumption ==
  /\ Id \in [Surfaces -> Entities] /\ None \notin Surfaces \cup Entities
  /\ Words \in [Surfaces -> Seq(Tokens)]
ASSUME DocsAssumption ==
  /\ Manual \notin Docs
  /\ Triples \subseteq Surfaces \X Surfaces /\ Parts \subseteq Surfaces \X Surfaces
  /\ Texts \subseteq SUBSET Surfaces
  /\ IsFiniteSet(Docs) /\ IsFiniteSet(Entities) /\ IsFiniteSet(Triples) /\ IsFiniteSet(Notes)
ASSUME BoundsAssumption == MaxRequests \in Nat /\ MaxCrashes \in Nat

VARIABLES
  live,      \* rows of documents
  text,      \* document_entities: the surfaces of each document
  label,     \* kg_entities: normalized_value of each node, None without a row
  canon,     \* kg_entities.canonical_id
  alias,     \* kg_entity_aliases: surface |-> canonical_entity_id
  mention,   \* kg_entity_mentions: document, surface |-> canonical_entity_id
  edge,      \* kg_edges: the rows that exist |-> evidence_count
  prov,      \* kg_edge_provenance
  ner,       \* stages entities and ner of each document, which write its text
  graph,     \* entity_graph stage of each document
  relate,    \* relations stage of each document
  fold,      \* the alias pass: the folds it has computed and not yet applied
  purge,     \* position of delete_document for each document
  decompose, \* position of decompose_entity, one at a time
  used       \* requests and crashes so far

tables == <<live, text, label, canon, alias, mention, edge, prov>>
vars == <<live, text, label, canon, alias, mention, edge, prov,
          ner, graph, relate, fold, purge, decompose, used>>

NoAliases == [s \in Surfaces |-> None]
Unlinked == [s \in Surfaces |-> None]

(* The names and aliases a run has read.  stale: entity rows of the document  *)
(* were replaced since its last graph run was claimed.                        *)
Graph(pc, names, aliases, stale) ==
  [pc |-> pc, names |-> names, aliases |-> aliases, stale |-> stale]
Relate(pc, triples, aliases) == [pc |-> pc, triples |-> triples, aliases |-> aliases]
Decompose(pc, node, a, b, docs) ==
  [pc |-> pc, node |-> node, a |-> a, b |-> b, docs |-> docs]
GraphPending == Graph("pending", {}, NoAliases, FALSE)
RelatePending == Relate("pending", {}, NoAliases)
RelateDone == Relate("done", {}, NoAliases)

Edges == Entities \X Entities
Evidence == [doc : Docs \cup {Manual}, note : Triples \cup Notes, edge : Edges]
Fold == [node : Entities, surface : Surfaces, target : Entities]

Nodes == {e \in Entities : label[e] # None}
Canonical == {e \in Nodes : canon[e] = None}
GraphRuns == {d \in Docs : graph[d].pc \notin {"pending", "done"}}

Init ==
  /\ live = Docs
  /\ text \in [Docs -> Texts]
  /\ label = [e \in Entities |-> None]
  /\ canon = [e \in Entities |-> None]
  /\ alias = NoAliases
  /\ mention = [d \in Docs |-> Unlinked]
  /\ edge = [e \in {} |-> 0]
  /\ prov = {}
  /\ ner = [d \in Docs |-> "done"]
  /\ graph = [d \in Docs |-> GraphPending]
  /\ relate = [d \in Docs |-> RelatePending]
  /\ fold = {}
  /\ purge = [d \in Docs |-> "no"]
  /\ decompose = Decompose("no", None, None, None, {})
  /\ used = [requests |-> 0, crashes |-> 0]
-----------------------------------------------------------------------------
(* Pieces of transactions.                                                    *)

CountOf(rows, e) == Cardinality({p \in rows : p.edge = e})

(* The foreign keys: a deleted node takes its mentions, alias rows and edges  *)
(* with their evidence along; its own aliases become standalone nodes.        *)
DeleteNodes(gone) ==
  LET kept == {e \in DOMAIN edge : e[1] \notin gone /\ e[2] \notin gone} IN
  /\ label' = [e \in Entities |-> IF e \in gone THEN None ELSE label[e]]
  /\ canon' = [e \in Entities |-> IF e \in gone \/ canon[e] \in gone THEN None ELSE canon[e]]
  /\ alias' = [s \in Surfaces |-> IF alias[s] \in gone THEN None ELSE alias[s]]
  /\ mention' = [d \in Docs |-> [s \in Surfaces |->
                   IF mention[d][s] \in gone THEN None ELSE mention[d][s]]]
  /\ edge' = [e \in kept |-> edge[e]]
  /\ prov' = {p \in prov : p.edge \in kept}

(* prune_orphan_entities: tenant-wide, canonical nodes without a mention.     *)
PruneOrphanEntities ==
  DeleteNodes({e \in Canonical : \A d \in Docs, s \in Surfaces : mention[d][s] # e})

(* Mutant: only the edges written now are recounted.                          *)
ReplaceEdges_NewOnly(d, found) ==
  LET inserted == {p \in found : p.edge[1] \in Nodes /\ p.edge[2] \in Nodes}
      rows == {p \in prov : p.doc # d} \cup inserted
      touched == {p.edge : p \in inserted}
      count == [e \in DOMAIN edge \cup touched |->
                  IF e \in touched THEN CountOf(rows, e) ELSE edge[e]]
  IN  prov' = rows /\ edge' = [e \in {x \in DOMAIN count : count[x] > 0} |-> count[e]]

(* Mutant: edges are written without a look at their endpoints.               *)
ReplaceEdges_Unchecked(d, found) ==
  LET rows == {p \in prov : p.doc # d} \cup found
      ends == {e \in DOMAIN edge \cup {p.edge : p \in found} : CountOf(rows, e) > 0}
  IN  prov' = rows /\ edge' = [e \in ends |-> CountOf(rows, e)]

(* replace_edges_for_document: evidence of d is exchanged, the edges that     *)
(* gained or lost any are recounted, edges without evidence go.               *)
ReplaceEdges(d, found) ==
  LET inserted == {p \in found : p.edge[1] \in Nodes /\ p.edge[2] \in Nodes}
      rows == {p \in prov : p.doc # d} \cup inserted
      touched == {p.edge : p \in {q \in prov : q.doc = d} \cup inserted}
      count == [e \in DOMAIN edge \cup touched |->
                  IF e \in touched THEN CountOf(rows, e) ELSE edge[e]]
  IN  /\ prov' = rows
      /\ edge' = [e \in {x \in DOMAIN count : count[x] > 0} |-> count[e]]

(* Mutant: the folded node goes before its edges are repointed.               *)
RepointEdges_Cascaded(new) ==
  LET kept == {e \in DOMAIN edge : <<new[e[1]], new[e[2]]>> = e}
  IN  edge' = [e \in kept |-> edge[e]] /\ prov' = {p \in prov : p.edge \in kept}

(* _repoint_edges under a map of node ids: each edge that moves takes its     *)
(* evidence to the edge of its new ends, which is counted afresh.             *)
RepointEdges(new) ==
  LET moved(e) == <<new[e[1]], new[e[2]]>>
      rows == {[p EXCEPT !.edge = moved(p.edge)] : p \in prov}
      touched == {moved(e) : e \in {x \in DOMAIN edge : moved(x) # x}}
      count == [e \in {x \in DOMAIN edge : moved(x) = x} \cup touched |->
                  IF e \in touched THEN CountOf(rows, e) ELSE edge[e]]
  IN  /\ prov' = rows
      /\ edge' = [e \in {x \in DOMAIN count : x \in touched => count[x] > 0} |-> count[e]]

(* Mutant: the folded node goes before its mentions are repointed.            *)
RepointMentions_Cascaded(new) ==
  mention' = [d \in Docs |-> [s \in Surfaces |->
    IF mention[d][s] \in {e \in Entities : new[e] # e} THEN None ELSE mention[d][s]]]

RepointMentions(new) ==
  mention' = [d \in Docs |-> [s \in Surfaces |->
                IF mention[d][s] = None THEN None ELSE new[mention[d][s]]]]

Resolve(aliases, s) == IF aliases[s] = None THEN Id[s] ELSE aliases[s]

(* Mutant: the root of the target is not looked up.                           *)
Root_Self(e) == e

(* _canonical_root_row: merges never build chains, so one hop is all of it.   *)
Root(e) == IF canon[e] = None THEN e ELSE canon[e]
-----------------------------------------------------------------------------
(* EntitiesFeature.process and NerFeature.process                             *)

(* The rows of d are replaced.  A graph run that has read the old ones holds   *)
(* dead row ids; one that is done is not run again by it.                      *)
RowsReplaced(d) ==
  graph' = [graph EXCEPT ![d].stale = graph[d].pc # "pending"]

(* delete_for_document_types, which takes the mentions of the rows along, and *)
(* add_entities: two transactions                                             *)
DeleteRows(d) ==
  /\ d \in live /\ ner[d] = "pending"
  /\ text' = [text EXCEPT ![d] = {}]
  /\ mention' = [mention EXCEPT ![d] = Unlinked]
  /\ RowsReplaced(d)
  /\ ner' = [ner EXCEPT ![d] = "cleared"]
  /\ UNCHANGED <<live, label, canon, alias, edge, prov, relate, fold, purge, decompose, used>>

AddRows(d) ==
  /\ d \in live /\ ner[d] = "cleared"
  /\ \E names \in Texts : text' = [text EXCEPT ![d] = names]
  /\ RowsReplaced(d)
  /\ ner' = [ner EXCEPT ![d] = "done"]
  /\ UNCHANGED <<live, label, canon, alias, mention, edge, prov, relate, fold, purge, decompose, used>>
-----------------------------------------------------------------------------
(* EntityGraphFeature.process                                                 *)

(* claim_next: one graph run at a time, since its lane is 1                    *)
ClaimGraph(d) ==
  /\ d \in live /\ graph[d].pc = "pending" /\ ner[d] = "done" /\ GraphRuns = {}
  /\ graph' = [graph EXCEPT ![d].pc = "claimed"]
  /\ UNCHANGED <<tables, ner, relate, fold, purge, decompose, used>>

ReadMentions(d) ==
  /\ graph[d].pc = "claimed"
  /\ graph' = [graph EXCEPT ![d] = Graph("read", text[d], alias, FALSE)]
  /\ UNCHANGED <<tables, ner, relate, fold, purge, decompose, used>>

(* upsert_entities: a node for every surface that resolves to its own id; the *)
(* first surface seen names the node.                                         *)
UpsertEntities(d) ==
  LET own == {s \in graph[d].names : Resolve(graph[d].aliases, s) = Id[s]} IN
  /\ graph[d].pc = "read"
  /\ \E first \in [{Id[s] : s \in own} -> own] :
       /\ \A e \in DOMAIN first : Id[first[e]] = e
       /\ label' = [e \in Entities |->
                      IF label[e] = None /\ e \in DOMAIN first THEN first[e] ELSE label[e]]
  /\ graph' = [graph EXCEPT ![d].pc = "upserted"]
  /\ UNCHANGED <<live, text, canon, alias, mention, edge, prov, ner, relate, fold, purge, decompose, used>>

(* A mention needs its row in document_entities and its node.                 *)
LinksHold(d) ==
  \A s \in graph[d].names : ~graph[d].stale /\ Resolve(graph[d].aliases, s) \in Nodes

(* replace_mentions_for_document *)
ReplaceMentions(d) ==
  /\ graph[d].pc = "upserted" /\ LinksHold(d)
  /\ mention' = [mention EXCEPT ![d] =
       [s \in Surfaces |-> IF s \in graph[d].names THEN Resolve(graph[d].aliases, s) ELSE None]]
  /\ graph' = [graph EXCEPT ![d].pc = "replaced"]
  /\ UNCHANGED <<live, text, label, canon, alias, edge, prov, ner, relate, fold, purge, decompose, used>>

(* Mutant: the retry resumes with what the first attempt has read.            *)
ReplaceMentionsFails_Resumes(d) ==
  /\ graph[d].pc = "upserted" /\ ~LinksHold(d)
  /\ graph' = [graph EXCEPT ![d].pc = "read"]
  /\ UNCHANGED <<tables, ner, relate, fold, purge, decompose, used>>

(* A foreign key fails: the transaction is rolled back, the run is retried.   *)
ReplaceMentionsFails(d) ==
  /\ graph[d].pc = "upserted" /\ ~LinksHold(d)
  /\ graph' = [graph EXCEPT ![d] = GraphPending]
  /\ UNCHANGED <<tables, ner, relate, fold, purge, decompose, used>>

PruneAfterGraph(d) ==
  /\ graph[d].pc = "replaced"
  /\ PruneOrphanEntities
  /\ graph' = [graph EXCEPT ![d] = Graph("done", {}, NoAliases, @.stale)]
  /\ UNCHANGED <<live, text, ner, relate, fold, purge, decompose, used>>
-----------------------------------------------------------------------------
(* RelationExtractFeature.process                                             *)

(* The claim, the read of the entities, and whatever the extractor finds      *)
(* between two of them.                                                       *)
ExtractTriples(d) ==
  /\ d \in live /\ relate[d].pc = "pending" /\ ner[d] = "done" /\ graph[d].pc = "done"
  /\ \E found \in SUBSET {t \in Triples : t[1] \in text[d] /\ t[2] \in text[d]} :
       relate' = [relate EXCEPT ![d] = Relate("extracted", found, NoAliases)]
  /\ UNCHANGED <<tables, ner, graph, fold, purge, decompose, used>>

ResolveEndpoints(d) ==
  /\ relate[d].pc = "extracted"
  /\ relate' = [relate EXCEPT ![d] = Relate("resolved", @.triples, alias)]
  /\ UNCHANGED <<tables, ner, graph, fold, purge, decompose, used>>

WriteEdges(d) ==
  LET ends(t) == <<Resolve(relate[d].aliases, t[1]), Resolve(relate[d].aliases, t[2])>> IN
  /\ relate[d].pc = "resolved"
  /\ ReplaceEdges(d, {[doc |-> d, note |-> t, edge |-> ends(t)] : t \in relate[d].triples})
  /\ relate' = [relate EXCEPT ![d] = RelateDone]
  /\ UNCHANGED <<live, text, label, canon, alias, mention, ner, graph, fold, purge, decompose, used>>
-----------------------------------------------------------------------------
(* resolve_tenant_aliases                                                     *)

Extends(longer, shorter) ==
  /\ Len(Words[longer]) > Len(Words[shorter])
  /\ SubSeq(Words[longer], 1, Len(Words[shorter])) = Words[shorter]
  /\ Words[longer][Len(Words[shorter]) + 1] \notin Ordinals

(* compute_alias_folds: into the unique longest name that extends the node's. *)
Supersets(nodes, e) == {c \in nodes : c # e /\ Extends(label[c], label[e])}
AliasFolds(nodes) ==
  {f \in [node : nodes, surface : {label[e] : e \in nodes}, target : nodes] :
     /\ f.surface = label[f.node] /\ f.surface \notin Short
     /\ f.target \in Supersets(nodes, f.node)
     /\ \A c \in Supersets(nodes, f.node) \ {f.target} :
          Len(Words[label[c]]) < Len(Words[label[f.target]])}

ComputeFolds ==
  /\ fold = {} /\ AliasFolds(Canonical) # {}
  /\ fold' = AliasFolds(Canonical)
  /\ UNCHANGED <<tables, ner, graph, relate, purge, decompose, used>>

(* resolve_aliases: one transaction for all folds.  No target of a fold is    *)
(* folded itself by the same pass, so the folds may be applied together.      *)
ResolveAliases ==
  LET folded(e) == \E f \in fold : f.node = e
      target(e) == (CHOOSE f \in fold : f.node = e).target
      new == [e \in Entities |-> IF folded(e) THEN target(e) ELSE e]
      gone == {f.node : f \in fold}
  IN
  /\ fold # {} /\ fold' = {}
  /\ \A f \in fold : f.target \in Nodes
  /\ label' = [e \in Entities |-> IF e \in gone THEN None ELSE label[e]]
  /\ canon' = [e \in Entities |-> IF e \in gone \/ canon[e] \in gone THEN None ELSE canon[e]]
  /\ alias' = [s \in Surfaces |->
                 IF \E f \in fold : f.surface = s THEN (CHOOSE f \in fold : f.surface = s).target
                 ELSE IF alias[s] = None THEN None ELSE new[alias[s]]]
  /\ RepointMentions(new) /\ RepointEdges(new)
  /\ UNCHANGED <<live, text, ner, graph, relate, purge, decompose, used>>

(* The canonical node of a fold is gone: the alias row cannot reference it.   *)
ResolveAliasesFails ==
  /\ fold # {} /\ fold' = {}
  /\ \E f \in fold : f.target \notin Nodes
  /\ UNCHANGED <<tables, ner, graph, relate, purge, decompose, used>>
-----------------------------------------------------------------------------
(* Requests of users.                                                         *)

Asked == used.requests < MaxRequests /\ used' = [used EXCEPT !.requests = @ + 1]

(* merge_entities, in which the folded node is kept as an alias               *)
Mergeable(c, a) == {c, a} \subseteq Nodes /\ Root(c) # a
MergeEntities(c, a) ==
  LET root == Root(c)
      new == [e \in Entities |-> IF e = a THEN root ELSE e]
  IN
  /\ alias' = [s \in Surfaces |-> IF s = label[a] \/ alias[s] = a THEN root ELSE alias[s]]
  /\ canon' = [e \in Entities |-> IF e = a \/ canon[e] = a THEN root ELSE canon[e]]
  /\ RepointMentions(new) /\ RepointEdges(new)

Merge(c, a) ==
  /\ Asked
  /\ c # a /\ Mergeable(c, a)
  /\ MergeEntities(c, a)
  /\ UNCHANGED <<live, text, label, ner, graph, relate, fold, purge, decompose>>

(* split_entity: mentions and edges stay where they are until a reprocess.    *)
Split(a) ==
  /\ Asked
  /\ a \in Nodes /\ canon[a] # None
  /\ alias' = [alias EXCEPT ![label[a]] = None]
  /\ canon' = [canon EXCEPT ![a] = None]
  /\ UNCHANGED <<live, text, label, mention, edge, prov, ner, graph, relate, fold, purge, decompose>>

(* Mutant: evidence is added without a recount.                               *)
AddEdge_Uncounted(ends, rows) ==
  IF {ends[1], ends[2]} \subseteq Nodes
  THEN /\ prov' = prov \cup rows
       /\ edge' = [e \in DOMAIN edge \cup {ends} |-> IF e \in DOMAIN edge THEN edge[e] ELSE 0]
  ELSE UNCHANGED <<prov, edge>>

(* add_edges: rows for one edge, unless an endpoint has gone.                 *)
AddEdge(ends, rows) ==
  IF {ends[1], ends[2]} \subseteq Nodes
  THEN /\ prov' = prov \cup rows
       /\ edge' = [e \in DOMAIN edge \cup {ends} |->
                     IF e = ends THEN CountOf(prov \cup rows, e) ELSE edge[e]]
  ELSE UNCHANGED <<prov, edge>>

Unused(n) == \A p \in prov : p.note # n

(* confirm_family: an edge whose evidence is the user's word.                 *)
ConfirmFamily(a, b, n) ==
  LET ends == <<Root(a), Root(b)>> IN
  /\ Asked
  /\ {a, b} \subseteq Nodes /\ a # b /\ Unused(n)
  /\ AddEdge(ends, {[doc |-> Manual, note |-> n, edge |-> ends]})
  /\ UNCHANGED <<live, text, label, canon, alias, mention, ner, graph, relate, fold, purge, decompose>>

(* decompose_entity: node e becomes an alias of part a, which gets an edge to *)
(* part b; four transactions, none of which checks what became of the others. *)
UpsertParts(e, a, b) ==
  /\ Asked
  /\ decompose.pc = "no" /\ e \in Nodes /\ Id[a] # Id[b]
  /\ label' = [x \in Entities |-> IF label[x] # None THEN label[x] ELSE
                 IF x = Id[a] THEN a ELSE IF x = Id[b] THEN b ELSE None]
  /\ decompose' = Decompose("upserted", e, Id[a], Id[b], {})
  /\ UNCHANGED <<live, text, canon, alias, mention, edge, prov, ner, graph, relate, fold, purge>>

ListMentions ==
  /\ decompose.pc = "upserted"
  /\ decompose' = [decompose EXCEPT !.pc = "listed",
       !.docs = {d \in Docs : \E s \in Surfaces : mention[d][s] = decompose.node}]
  /\ UNCHANGED <<tables, ner, graph, relate, fold, purge, used>>

FoldIntoPart ==
  /\ decompose.pc = "listed"
  /\ IF decompose.a # decompose.node /\ Mergeable(decompose.a, decompose.node)
     THEN MergeEntities(decompose.a, decompose.node)
     ELSE UNCHANGED <<alias, canon, mention, edge, prov>>
  /\ decompose' = [decompose EXCEPT !.pc = "merged"]
  /\ UNCHANGED <<live, text, label, ner, graph, relate, fold, purge, used>>

LinkParts ==
  LET ends == <<decompose.a, decompose.b>> IN
  /\ decompose.pc = "merged"
  /\ \E n \in Notes : Unused(n) /\ AddEdge(ends, [doc : decompose.docs, note : {n}, edge : {ends}])
  /\ decompose' = Decompose("no", None, None, None, {})
  /\ UNCHANGED <<live, text, label, canon, alias, mention, ner, graph, relate, fold, purge, used>>

(* reset of a feature: a running stage is left alone, unlike one that is done *)
Reset(d, stages) ==
  /\ ner' = [ner EXCEPT ![d] = IF "ner" \in stages /\ @ = "done" THEN "pending" ELSE @]
  /\ graph' = [graph EXCEPT ![d] = IF "graph" \in stages /\ @.pc = "done" THEN GraphPending ELSE @]
  /\ relate' = [relate EXCEPT ![d] = IF "relate" \in stages /\ @.pc = "done" THEN RelatePending
                                    ELSE @]

(* The retry of one feature, or the reprocess of a group.  A group is reset    *)
(* feature by feature: with steps of a worker in between, that is the retries *)
(* one after the other.                                                       *)
Reprocess(d) ==
  /\ Asked /\ d \in live
  /\ \E stages \in {{"ner"}, {"graph"}, {"relate"}, {"graph", "relate"}, {"ner", "graph", "relate"}} :
       Reset(d, stages)
  /\ UNCHANGED <<tables, fold, purge, decompose>>

(* delete_document: the row with what cascades from it, then purge_document   *)
(* in two transactions.                                                       *)
DeleteDocument(d) ==
  /\ Asked /\ d \in live
  /\ live' = live \ {d}
  /\ text' = [text EXCEPT ![d] = {}]
  /\ mention' = [mention EXCEPT ![d] = Unlinked]
  /\ RowsReplaced(d)
  /\ purge' = [purge EXCEPT ![d] = "deleted"]
  /\ UNCHANGED <<label, canon, alias, edge, prov, ner, relate, fold, decompose>>

PurgeEdges(d) ==
  /\ purge[d] = "deleted"
  /\ ReplaceEdges(d, {})
  /\ purge' = [purge EXCEPT ![d] = "cleared"]
  /\ UNCHANGED <<live, text, label, canon, alias, mention, ner, graph, relate, fold, decompose, used>>

PurgeNodes(d) ==
  /\ purge[d] = "cleared"
  /\ PruneOrphanEntities
  /\ purge' = [purge EXCEPT ![d] = "over"]
  /\ UNCHANGED <<live, text, ner, graph, relate, fold, decompose, used>>
-----------------------------------------------------------------------------
Dies == used.crashes < MaxCrashes /\ used' = [used EXCEPT !.crashes = @ + 1]

(* A worker dies and, started again, re-queues what was running.              *)
WorkerCrash ==
  /\ Dies
  /\ ner' = [d \in Docs |-> IF ner[d] = "cleared" THEN "pending" ELSE ner[d]]
  /\ graph' = [d \in Docs |-> IF d \in GraphRuns THEN GraphPending ELSE graph[d]]
  /\ relate' = [d \in Docs |-> IF relate[d].pc = "done" THEN RelateDone ELSE RelatePending]
  /\ fold' = {}
  /\ UNCHANGED <<tables, purge, decompose>>

(* The API dies within deletions or a decomposition.  A retried DELETE finds  *)
(* no document and does nothing.                                              *)
ApiCrash ==
  /\ Dies
  /\ purge' = [d \in Docs |-> IF purge[d] \in {"deleted", "cleared"} THEN "abandoned" ELSE purge[d]]
  /\ decompose' = Decompose("no", None, None, None, {})
  /\ UNCHANGED <<tables, ner, graph, relate, fold>>
-----------------------------------------------------------------------------
EntitiesStage(d) == DeleteRows(d) \/ AddRows(d)

GraphStage(d) ==
  \/ ClaimGraph(d) \/ ReadMentions(d) \/ UpsertEntities(d) \/ ReplaceMentions(d)
  \/ ReplaceMentionsFails(d) \/ PruneAfterGraph(d)

RelationsStage(d) == ExtractTriples(d) \/ ResolveEndpoints(d) \/ WriteEdges(d)

AliasPass == ComputeFolds \/ ResolveAliases \/ ResolveAliasesFails

Users ==
  \/ \E c, a \in Entities : Merge(c, a)
  \/ \E a \in Entities : Split(a)
  \/ \E a, b \in Entities, n \in Notes : ConfirmFamily(a, b, n)
  \/ \E e \in Entities, p \in Parts : UpsertParts(e, p[1], p[2])
  \/ \E d \in Docs : Reprocess(d) \/ DeleteDocument(d)

Purge(d) == PurgeEdges(d) \/ PurgeNodes(d)

Decomposition == ListMentions \/ FoldIntoPart \/ LinkParts

Next ==
  \/ \E d \in Docs : EntitiesStage(d) \/ GraphStage(d) \/ RelationsStage(d) \/ Purge(d)
  \/ AliasPass
  \/ Users
  \/ Decomposition
  \/ WorkerCrash \/ ApiCrash

(* The reconciler gives every pending row its run, the pass between two       *)
(* reconciles comes again and again, a request that has begun goes on.        *)
Fairness ==
  /\ \A d \in Docs : /\ WF_vars(EntitiesStage(d)) /\ WF_vars(GraphStage(d))
                     /\ WF_vars(RelationsStage(d)) /\ WF_vars(Purge(d))
  /\ WF_vars(AliasPass) /\ WF_vars(Decomposition)

Spec == Init /\ [][Next]_vars
FairSpec == Spec /\ Fairness
-----------------------------------------------------------------------------
(* Types, with what the foreign keys guarantee.                               *)
TypeOK ==
  /\ live \subseteq Docs
  /\ text \in [Docs -> SUBSET Surfaces]
  /\ label \in [Entities -> Surfaces \cup {None}]
  /\ canon \in [Entities -> Nodes \cup {None}]
  /\ alias \in [Surfaces -> Nodes \cup {None}]
  /\ mention \in [Docs -> [Surfaces -> Nodes \cup {None}]]
  /\ DOMAIN edge \subseteq Nodes \X Nodes /\ edge \in [DOMAIN edge -> Nat]
  /\ prov \subseteq Evidence /\ \A p \in prov : p.edge \in DOMAIN edge
  /\ ner \in [Docs -> {"pending", "cleared", "done"}]
  /\ graph \in [Docs -> [pc : {"pending", "claimed", "read", "upserted", "replaced", "done"},
                         names : SUBSET Surfaces,
                         aliases : [Surfaces -> Entities \cup {None}],
                         stale : BOOLEAN]]
  /\ relate \in [Docs -> [pc : {"pending", "extracted", "resolved", "done"},
                          triples : SUBSET Triples,
                          aliases : [Surfaces -> Entities \cup {None}]]]
  /\ fold \subseteq Fold
  /\ purge \in [Docs -> {"no", "deleted", "cleared", "over", "abandoned"}]
  /\ decompose \in [pc : {"no", "upserted", "listed", "merged"},
                   node : Entities \cup {None}, a : Entities \cup {None},
                   b : Entities \cup {None}, docs : SUBSET Docs]
  /\ used \in [requests : 0 .. MaxRequests, crashes : 0 .. MaxCrashes]

(* Merges never build chains or cycles: an alias node points at a node that   *)
(* is canonical itself, whatever merges, splits, folds and prunes came        *)
(* before.  Reads that follow canonical_id end after one hop.                 *)
CanonFlat == \A e \in Entities : canon[e] # None => canon[canon[e]] = None

(* evidence_count is the number of provenance rows: what the recounts in      *)
(* replace, repoint and add are for, through every cascade of a deleted node. *)
EvidenceCounted == \A e \in DOMAIN edge : edge[e] = CountOf(prov, e)

(* A document whose entity_graph stage is done has a link for each entity it  *)
(* has rows for, however prunes, folds, merges, splits and runs of other      *)
(* documents fell into its run or after it.  Except when its own rows were    *)
(* replaced since that run was claimed: a retry of entities or ner alone      *)
(* takes the links along and leaves entity_graph done.                        *)
DoneMeansResolved ==
  \A d \in live : graph[d].pc = "done" /\ ~graph[d].stale => \A s \in text[d] : mention[d][s] # None

(* Evidence of a relation goes only when its own document is written anew or  *)
(* purged, or when an endpoint of its edge is deleted; repointing keeps it.   *)
EvidenceKept ==
  [][\A p \in prov :
       \/ \E q \in prov' : q.doc = p.doc /\ q.note = p.note
       \/ {p.edge[1], p.edge[2]} \cap Nodes # {p.edge[1], p.edge[2]} \cap Nodes'
       \/ p.doc \in Docs /\ (relate'[p.doc] # relate[p.doc] \/ purge'[p.doc] # purge[p.doc])]_vars

(* The graph settles once users stop: every document is resolved and related, *)
(* and the alias pass finds nothing left to fold.  Retries after a failed     *)
(* reference, prunes and folds do not feed each other for ever.               *)
Settles ==
  <>[](/\ \A d \in live : ner[d] = "done" /\ graph[d].pc = "done" /\ relate[d].pc = "done"
       /\ AliasFolds(Canonical) = {})

(* "Remove a deleted document's KG footprint": once a deletion is through, no *)
(* edge rests on evidence of the document.                                    *)
NoGhostEvidence == \A p \in prov : p.doc \in Docs => purge[p.doc] # "over"
=============================================================================
