---------------------------- MODULE Projections ----------------------------
(***************************************************************************)
(* The embedding map of a tenant (ADR-0016): the queue of recompute         *)
(* requests, the worker that claims one, reads the chunk embeddings, fits   *)
(* and stores a projection for two and for three dimensions, and the API    *)
(* request that reads a projection back.                                    *)
(*                                                                         *)
(* A chunk stands for the chunks a document got in one transaction, which   *)
(* have one created_at: the start of that transaction.  The index stage, in *)
(* several threads, and the delete of a document change the chunks while a  *)
(* recompute is on its way.                                                 *)
(***************************************************************************)
EXTENDS Naturals, Sequences, FiniteSets

CONSTANTS
  Tenants, Docs,
  Workers,    \* streams that run _projection_loop, one in each worker process
  Readers,    \* requests for the map in flight at one time
  MaxPoints,  \* projection_max_points
  MaxClock,   \* bound: transactions that add chunks
  MaxCrashes, \* bound: deaths of a worker
  MaxLosses,  \* bound: failures of complete()
  NoTenant

ASSUME ProjectionsAssumption ==
  /\ NoTenant \notin Tenants
  /\ MaxPoints \in Nat \ {0} /\ MaxClock \in Nat
  /\ MaxCrashes \in Nat /\ MaxLosses \in Nat

VARIABLES
  chunks,     \* document_chunks, of each tenant
  adding,     \* those of transactions that have begun and not ended
  clock,      \* the last created_at given out
  queue,      \* tenants with a pending request, oldest first
  running,    \* tenants with a running request
  runner,     \* per worker: its position in run_pending, and what it has read
  projection, \* embedding_projections with their points
  reader,     \* per request: its position in get_map, and what it has read
  crashes, losses

dataVars == <<chunks, adding, clock>>
queueVars == <<queue, running>>
faultVars == <<crashes, losses>>
vars == <<dataVars, queueVars, runner, projection, reader, faultVars>>

-----------------------------------------------------------------------------
Dims == {2, 3}
ChunkType == [doc: Docs, at: 1..MaxClock]

(* Mutant: how many chunks there are tells one set of them from another.     *)
Fingerprint_CountOnly(S) == [count |-> Cardinality(S), latest |-> {}]

(* embedding_fingerprint: how many chunks there are, and the latest time     *)
Latest(S) == {c.at : c \in {d \in S : \A e \in S : e.at <= d.at}}
Fingerprint(S) == [count |-> Cardinality(S), latest |-> Latest(S)]
FingerprintType == [count: Nat, latest: SUBSET (1..MaxClock)]

(* Mutant: the one row read beyond the limit is kept.                        *)
Cuts_OneMore(S) == IF Cardinality(S) <= MaxPoints + 1
                   THEN {S}
                   ELSE {C \in SUBSET S : Cardinality(C) = MaxPoints + 1}

(* The first max_points rows, in the order of their random identifiers       *)
Cuts(S) == IF Cardinality(S) <= MaxPoints
           THEN {S}
           ELSE {C \in SUBSET S : Cardinality(C) = MaxPoints}

(* A projection.  Three fields are auxiliary: of, the chunks there were when *)
(* its embeddings were read; behind, those on their way then whose created_at *)
(* is before that of a chunk read; raced: of changed before the fingerprint. *)
NoProjection == [of |-> {}, behind |-> {}, rows |-> {}, print |-> Fingerprint({}),
                 raced |-> FALSE, exists |-> FALSE]
ProjectionType ==
  {p \in [of: SUBSET ChunkType, behind: SUBSET ChunkType, rows: SUBSET ChunkType,
          print: FingerprintType, raced: BOOLEAN, exists: BOOLEAN] :
     Cardinality(p.rows) <= MaxPoints}

RunnerPlaces == {"idle", "read", "print", "fit", "store2", "store3", "complete"}
RunnerType == [at: RunnerPlaces, tenant: Tenants \cup {NoTenant}, new: ProjectionType]
Waiting == [at |-> "idle", tenant |-> NoTenant, new |-> NoProjection]

(* own: the points of the projection whose id the request holds; valid: that *)
(* projection has not been replaced                                          *)
ReaderType == [at: {"idle", "header", "map"}, tenant: Tenants \cup {NoTenant}, dim: Dims,
               own: SUBSET ChunkType, valid: BOOLEAN, points: SUBSET ChunkType]
NoMap == [at |-> "idle", tenant |-> NoTenant, dim |-> 2, own |-> {},
          valid |-> FALSE, points |-> {}]

Init ==
  /\ chunks = [t \in Tenants |-> {}] /\ adding = [t \in Tenants |-> {}] /\ clock = 0
  /\ queue = <<>> /\ running = {}
  /\ runner = [w \in Workers |-> Waiting]
  /\ projection = [t \in Tenants |-> [d \in Dims |-> NoProjection]]
  /\ reader = [r \in Readers |-> NoMap]
  /\ crashes = 0 /\ losses = 0

-----------------------------------------------------------------------------
(* Chunks                                                                   *)

(* add_chunks, one transaction that lasts: created_at is its start, and the   *)
(* chunks appear when it commits                                             *)
BeginAdd(t, d) ==
  /\ clock < MaxClock
  /\ \A c \in chunks[t] \cup adding[t] : c.doc # d
  /\ adding' = [adding EXCEPT ![t] = @ \cup {[doc |-> d, at |-> clock + 1]}]
  /\ clock' = clock + 1
  /\ UNCHANGED <<chunks, queueVars, runner, projection, reader, faultVars>>

EndAdd(t) ==
  /\ \E c \in adding[t] :
       /\ adding' = [adding EXCEPT ![t] = @ \ {c}]
       /\ chunks' = [chunks EXCEPT ![t] = @ \cup {c}] \/ UNCHANGED chunks
  /\ UNCHANGED <<clock, queueVars, runner, projection, reader, faultVars>>

(* delete_for_document: before the chunks are added again, or for good       *)
RemoveChunks(t, d) ==
  /\ \E c \in chunks[t] : c.doc = d
  /\ chunks' = [chunks EXCEPT ![t] = {c \in @ : c.doc # d}]
  /\ UNCHANGED <<adding, clock, queueVars, runner, projection, reader, faultVars>>

-----------------------------------------------------------------------------
(* The queue                                                                *)

Queued == {queue[i] : i \in DOMAIN queue}

(* Mutant: a request that runs does not count.                               *)
RequestRecompute_WhileRunning(t) ==
  /\ t \notin Queued
  /\ queue' = Append(queue, t)
  /\ UNCHANGED <<dataVars, running, runner, projection, reader, faultVars>>

(* A tenant with a request, pending or running, gets no other                *)
RequestRecompute(t) ==
  /\ t \notin Queued \cup running
  /\ queue' = Append(queue, t)
  /\ UNCHANGED <<dataVars, running, runner, projection, reader, faultVars>>

(* claim_next                                                               *)
ClaimNext(w) ==
  /\ runner[w].at = "idle" /\ queue # <<>>
  /\ runner' = [runner EXCEPT ![w].at = "read", ![w].tenant = Head(queue)]
  /\ queue' = Tail(queue)
  /\ running' = running \cup {Head(queue)}
  /\ UNCHANGED <<dataVars, projection, reader, faultVars>>

-----------------------------------------------------------------------------
(* recompute; a failure at any step leads to complete()                      *)

Behind(t) == {c \in adding[t] : \E b \in chunks[t] : c.at <= b.at}

ReadEmbeddings(w) ==
  LET t == runner[w].tenant IN
  /\ runner[w].at = "read"
  /\ \E rows \in Cuts(chunks[t]) :
       runner' = [runner EXCEPT ![w].at = "print",
                    ![w].new = [NoProjection EXCEPT !.of = chunks[t], !.behind = Behind(t),
                                                    !.rows = rows, !.exists = TRUE]]
  /\ UNCHANGED <<dataVars, queueVars, projection, reader, faultVars>>

ReadFingerprint(w) ==
  LET t == runner[w].tenant IN
  /\ runner[w].at = "print"
  /\ runner' = [runner EXCEPT ![w].at = "fit",
                              ![w].new.print = Fingerprint(chunks[t]),
                              ![w].new.raced = chunks[t] # runner[w].new.of,
                              ![w].new.of = IF chunks[t] = @ THEN @ ELSE {}]
  /\ UNCHANGED <<dataVars, queueVars, projection, reader, faultVars>>

Fit(w) ==
  /\ runner[w].at = "fit"
  /\ runner' = [runner EXCEPT ![w].at = "store2"]
  /\ UNCHANGED <<dataVars, queueVars, projection, reader, faultVars>>

(* upsert, of one dimension at a time, replaces the projection and its id    *)
Store(w, dim, next) ==
  LET t == runner[w].tenant IN
  /\ projection' = [projection EXCEPT ![t][dim] = runner[w].new]
  /\ reader' = [r \in Readers |-> IF reader[r].tenant = t /\ reader[r].dim = dim
                                  THEN [reader[r] EXCEPT !.valid = FALSE] ELSE reader[r]]
  /\ runner' = [runner EXCEPT ![w].at = next]
  /\ UNCHANGED <<dataVars, queueVars, faultVars>>

Upsert(w) ==
  \/ runner[w].at = "store2" /\ Store(w, 2, "store3")
  \/ runner[w].at = "store3" /\ Store(w, 3, "complete")

FailRecompute(w) ==
  /\ runner[w].at \in {"read", "print", "fit", "store2", "store3"}
  /\ runner' = [runner EXCEPT ![w].at = "complete", ![w].new = NoProjection]
  /\ UNCHANGED <<dataVars, queueVars, projection, reader, faultVars>>

(* Mutant: the claim is cleared when a projection has been stored only.      *)
Complete_OnSuccess(w) ==
  /\ runner[w].at = "complete"
  /\ running' = IF runner[w].new.exists THEN running \ {runner[w].tenant} ELSE running
  /\ runner' = [runner EXCEPT ![w] = IF runner[w].new.exists THEN Waiting ELSE @]
  /\ UNCHANGED <<dataVars, queue, projection, reader, faultVars>>

(* complete() deletes the request                                            *)
Complete(w) ==
  /\ runner[w].at = "complete"
  /\ running' = running \ {runner[w].tenant}
  /\ runner' = [runner EXCEPT ![w] = Waiting]
  /\ UNCHANGED <<dataVars, queue, projection, reader, faultVars>>

(* complete() meets a database error: the request stays running              *)
LoseCompletion(w) ==
  /\ runner[w].at = "complete" /\ losses < MaxLosses
  /\ losses' = losses + 1
  /\ runner' = [runner EXCEPT ![w] = Waiting]
  /\ UNCHANGED <<dataVars, queueVars, projection, reader, crashes>>

(* A worker that dies leaves its request running                             *)
Crash(w) ==
  /\ runner[w].at # "idle" /\ crashes < MaxCrashes
  /\ crashes' = crashes + 1
  /\ runner' = [runner EXCEPT ![w] = Waiting]
  /\ UNCHANGED <<dataVars, queueVars, projection, reader, losses>>

StepRunner(w) ==
  \/ ClaimNext(w) \/ ReadEmbeddings(w) \/ ReadFingerprint(w) \/ Fit(w) \/ Upsert(w)
  \/ FailRecompute(w) \/ Complete(w)

-----------------------------------------------------------------------------
(* get: the header, then the points that bear its id                         *)
GetHeader(r, t, dim) ==
  /\ reader[r].at # "header" /\ projection[t][dim].exists
  /\ reader' = [reader EXCEPT ![r] =
       [NoMap EXCEPT !.at = "header", !.tenant = t, !.dim = dim,
                     !.own = projection[t][dim].rows, !.valid = TRUE]]
  /\ UNCHANGED <<dataVars, queueVars, runner, projection, faultVars>>

(* Mutant: the points are those of the tenant and the dimension.             *)
GetPoints_ByDim(r) ==
  /\ reader[r].at = "header"
  /\ reader' = [reader EXCEPT ![r] =
       [NoMap EXCEPT !.at = "map", !.own = reader[r].own,
                     !.points = projection[reader[r].tenant][reader[r].dim].rows]]
  /\ UNCHANGED <<dataVars, queueVars, runner, projection, faultVars>>

GetPoints(r) ==
  /\ reader[r].at = "header"
  /\ reader' = [reader EXCEPT ![r] =
       [NoMap EXCEPT !.at = "map", !.own = reader[r].own,
                     !.points = IF reader[r].valid THEN reader[r].own ELSE {}]]
  /\ UNCHANGED <<dataVars, queueVars, runner, projection, faultVars>>

-----------------------------------------------------------------------------
Next ==
  \/ \E t \in Tenants, d \in Docs : BeginAdd(t, d) \/ RemoveChunks(t, d)
  \/ \E t \in Tenants : EndAdd(t) \/ RequestRecompute(t)
  \/ \E w \in Workers : StepRunner(w) \/ LoseCompletion(w) \/ Crash(w)
  \/ \E r \in Readers : GetPoints(r)
  \/ \E r \in Readers, t \in Tenants, dim \in Dims : GetHeader(r, t, dim)

Spec == Init /\ [][Next]_vars

(* _projection_loop goes on after an exception and after a restart           *)
FairSpec == Spec /\ \A w \in Workers : WF_vars(StepRunner(w))

-----------------------------------------------------------------------------
(* Properties                                                               *)

(* Types, and: no projection has more points than projection_max_points.     *)
TypeOK ==
  /\ chunks \in [Tenants -> SUBSET ChunkType] /\ adding \in [Tenants -> SUBSET ChunkType]
  /\ clock \in 0..MaxClock
  /\ queue \in Seq(Tenants) /\ running \in SUBSET Tenants
  /\ runner \in [Workers -> RunnerType]
  /\ projection \in [Tenants -> [Dims -> ProjectionType]]
  /\ reader \in [Readers -> ReaderType]
  /\ crashes \in 0..MaxCrashes /\ losses \in 0..MaxLosses

(* At most one live request per tenant, and at most one worker that fits     *)
(* for it: repeated presses, two workers and their deaths do not pile up     *)
(* work (PostgresProjectionRequestRepository).                               *)
OneRecompute ==
  /\ \A i, j \in DOMAIN queue : queue[i] = queue[j] => i = j
  /\ Queued \cap running = {}
  /\ \A w \in Workers : runner[w].at # "idle" => runner[w].tenant \in running
  /\ \A v, w \in Workers :
       runner[v].at # "idle" /\ runner[w].at # "idle" /\ runner[v].tenant = runner[w].tenant
         => v = w

(* A projection that passes for up to date was made from the chunks there    *)
(* are: no series of deletions and re-indexing brings the fingerprint back   *)
(* (is_stale, get_map, embedding_fingerprint).  Two exceptions: the chunks    *)
(* changed between the read of the embeddings and that of the fingerprint;   *)
(* or a transaction that had not ended at that read, and had begun before    *)
(* the one of a chunk that was read, has committed since.                    *)
FreshMeansCurrent ==
  \A t \in Tenants, dim \in Dims :
    LET p == projection[t][dim] IN
    /\ p.exists /\ ~p.raced /\ chunks[t] \cap p.behind = {}
    /\ p.print = Fingerprint(chunks[t])
    => p.rows \in Cuts(chunks[t])

(* A map that is read while a recompute replaces it has the points of its    *)
(* own header, or none; never those of another projection (get, upsert).     *)
MapIsWhole ==
  \A r \in Readers : reader[r].at = "map" => reader[r].points \in {reader[r].own, {}}

(* A request is served and cleared, also when its recompute fails, unless    *)
(* its worker dies or complete() fails: such a request stays running, and    *)
(* further ones are dropped.                                                 *)
Stranded(t) == t \in running /\ \A w \in Workers : runner[w].tenant # t
RequestsServed ==
  \A t \in Tenants : (t \in Queued \cup running) ~> (t \notin Queued \cup running \/ Stranded(t))
=============================================================================
