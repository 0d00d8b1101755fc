------------------------- MODULE ProjectionsProofs -------------------------
(***************************************************************************)
(* Theorems about Projections, for every set of tenants, documents, workers *)
(* and readers and every bound: one recompute of a tenant at a time, and    *)
(* that a projection that passes for up to date is up to date.              *)
(***************************************************************************)
EXTENDS Projections, FiniteSetTheorems, WellFoundedInduction, TLAPS

(* B was the set of a tenant's chunks at one time, and C is what it became:  *)
(* what has been added since is later than all of B                          *)
Grown(B, C) == IsFiniteSet(B) /\ \A c \in C, b \in B : c \notin B => b.at < c.at

(* The chunks of a tenant that are there, and that may come                  *)
Coming(t) == chunks[t] \cup adding[t]

(* What is known of a projection, and of one under way, whose embeddings and *)
(* fingerprint were read of the same chunks; C are the chunks that are there *)
(* or may come, and k is the clock of now                                    *)
Snapshot(p, C, k) ==
  /\ p.of \in SUBSET ChunkType /\ \A b \in p.of : b.at <= k
  /\ p.exists /\ ~p.raced =>
       /\ IsFiniteSet(p.of) /\ p.rows \in Cuts(p.of)
       /\ \A c \in C, b \in p.of : c \notin p.of \cup p.behind => b.at < c.at
Printed(p) == p.exists /\ ~p.raced => p.print = Fingerprint(p.of)

Basic == TypeOK /\ OneRecompute /\ \A t \in Tenants : IsFiniteSet(chunks[t])

ChunksInv == \A t \in Tenants, c \in ChunkType : c \in Coming(t) => c.at <= clock

RunnerInv ==
  \A w \in Workers :
    /\ runner[w].at = "idle" => runner[w] = Waiting
    /\ runner[w].at # "idle" => Snapshot(runner[w].new, Coming(runner[w].tenant), clock)
    /\ IF runner[w].at = "print" THEN ~runner[w].new.raced ELSE Printed(runner[w].new)

ProjectionInv ==
  \A t \in Tenants, dim \in Dims :
    Snapshot(projection[t][dim], Coming(t), clock) /\ Printed(projection[t][dim])

Fresh == ChunksInv /\ RunnerInv /\ ProjectionInv

-----------------------------------------------------------------------------
(* Fingerprints                                                             *)

(* A set of chunks has a latest one.                                         *)
LEMMA LatestExists ==
  ASSUME NEW S \in SUBSET ChunkType, S # {}
  PROVE  \E m \in S : \A e \in S : e.at <= m.at
<1> DEFINE T == {MaxClock - c.at : c \in S}
<1>1. MaxClock \in Nat /\ \A c \in S : c.at \in 1..MaxClock
  BY ProjectionsAssumption DEF ChunkType
<1>2. T \subseteq Nat /\ T # {}
  BY <1>1
<1>3. IsWellFoundedOn({ss \in Nat \X Nat : ss[1] < ss[2]}, Nat)
  BY NatLessThanWellFounded, Zenon DEF OpToRel
<1>4. \E x \in T : \A y \in T : <<y, x>> \notin {ss \in Nat \X Nat : ss[1] < ss[2]}
  <2> HIDE DEF T
  <2> QED BY <1>2, <1>3, WFMin
<1>5. PICK x \in T : \A y \in T : x <= y
  <2>1. PICK x \in T : \A y \in T : <<y, x>> \notin {ss \in Nat \X Nat : ss[1] < ss[2]}
    BY <1>4
  <2>2. \A y \in T : ~ (y < x) /\ x \in Nat /\ y \in Nat
    <3> HIDE DEF T
    <3> QED BY <1>2, <2>1
  <2> HIDE DEF T
  <2> QED BY <2>2
<1>6. PICK m \in S : x = MaxClock - m.at
  OBVIOUS
<1>7. ASSUME NEW e \in S PROVE e.at <= m.at
  <2>1. MaxClock - m.at <= MaxClock - e.at
    BY <1>5, <1>6
  <2> QED BY <2>1, <1>1
<1> QED BY <1>7

(* Chunks that have grown, and have the fingerprint they had, are the same.  *)
LEMMA SamePrintSameChunks ==
  ASSUME NEW B \in SUBSET ChunkType, NEW C \in SUBSET ChunkType,
         IsFiniteSet(C), Grown(B, C), Fingerprint(B) = Fingerprint(C)
  PROVE  B = C
<1>1. Cardinality(B) = Cardinality(C) /\ Latest(B) = Latest(C)
  BY DEF Fingerprint
<1>2. \A c \in ChunkType : c.at \in Nat
  BY ProjectionsAssumption DEF ChunkType
<1>3. C \subseteq B
  <2> SUFFICES ASSUME NEW c \in C, c \notin B PROVE FALSE
    OBVIOUS
  <2>1. PICK m \in C : \A e \in C : e.at <= m.at
    BY LatestExists
  <2>2. m.at \in Latest(C)
    BY <2>1 DEF Latest
  <2>3. PICK b \in B : b.at = m.at
    BY <1>1, <2>2 DEF Latest
  <2>4. b.at < c.at /\ c.at <= m.at
    BY <2>1 DEF Grown
  <2> QED BY <1>2, <2>3, <2>4
<1> QED BY <1>1, <1>3, FS_Subset DEF Grown

(* A worker that has not finished has a tenant.                              *)
LEMMA BusyTenant ==
  ASSUME TypeOK, OneRecompute, NEW w \in Workers, runner[w].at # "idle"
  PROVE  runner[w].tenant \in Tenants
  BY DEF TypeOK, OneRecompute

-----------------------------------------------------------------------------
(* Types                                                                    *)

LEMMA NoProjectionType == NoProjection \in ProjectionType /\ Waiting \in RunnerType
<1>1. IsFiniteSet({}) /\ Cardinality({}) = 0
  BY FS_EmptySet
<1>2. NoProjection \in ProjectionType
  BY <1>1, ProjectionsAssumption
  DEF NoProjection, ProjectionType, Fingerprint, FingerprintType, Latest
<1> QED BY <1>2 DEF Waiting, RunnerType, RunnerPlaces

LEMMA PrintType ==
  ASSUME NEW S \in SUBSET ChunkType, IsFiniteSet(S)
  PROVE  Fingerprint(S) \in FingerprintType
<1>1. Cardinality(S) \in Nat
  BY FS_CardinalityType
<1>2. Latest(S) \in SUBSET (1..MaxClock)
  BY DEF Latest, ChunkType
<1> QED BY <1>1, <1>2 DEF Fingerprint, FingerprintType

LEMMA CutType ==
  ASSUME NEW S \in SUBSET ChunkType, IsFiniteSet(S), NEW rows \in Cuts(S)
  PROVE  rows \in SUBSET ChunkType /\ Cardinality(rows) <= MaxPoints
  BY FS_CardinalityType, ProjectionsAssumption DEF Cuts

-----------------------------------------------------------------------------
(* The types, the queue, and that chunks are finitely many                  *)

LEMMA InitBasic == Init => Basic
<1> SUFFICES ASSUME Init PROVE Basic
  OBVIOUS
<1>1. TypeOK
  BY NoProjectionType, ProjectionsAssumption DEF Init, TypeOK, ReaderType, NoMap, Dims
<1>2. OneRecompute
  BY DEF Init, OneRecompute, Queued, Waiting
<1>3. \A t \in Tenants : IsFiniteSet(chunks[t])
  BY FS_EmptySet DEF Init
<1> QED BY <1>1, <1>2, <1>3 DEF Basic

LEMMA ChunksBasic ==
  ASSUME Basic, NEW t \in Tenants,
         EndAdd(t) \/ \E d \in Docs : BeginAdd(t, d) \/ RemoveChunks(t, d)
  PROVE  Basic'
<1>1. /\ chunks \in [Tenants -> SUBSET ChunkType] /\ adding \in [Tenants -> SUBSET ChunkType]
      /\ \A u \in Tenants : IsFiniteSet(chunks[u])
  BY DEF Basic, TypeOK
<1>2. UNCHANGED <<queueVars, runner, projection, reader, faultVars>>
  BY DEF BeginAdd, EndAdd, RemoveChunks
<1> DEFINE Typed ==
      /\ chunks' \in [Tenants -> SUBSET ChunkType] /\ adding' \in [Tenants -> SUBSET ChunkType]
      /\ \A u \in Tenants : IsFiniteSet(chunks'[u])
      /\ clock' \in 0..MaxClock
<1>3. Typed
  <2>1. ASSUME NEW d \in Docs, BeginAdd(t, d) PROVE Typed
    <3>1. clock \in Nat /\ clock < MaxClock /\ clock' = clock + 1 /\ clock' \in 0..MaxClock
      BY <2>1, ProjectionsAssumption DEF BeginAdd, Basic, TypeOK
    <3>2. [doc |-> d, at |-> clock + 1] \in ChunkType
      BY <3>1, ProjectionsAssumption DEF ChunkType
    <3> QED BY <1>1, <2>1, <3>1, <3>2 DEF BeginAdd
  <2>2. CASE EndAdd(t)
    <3>1. PICK c \in adding[t] :
            /\ adding' = [adding EXCEPT ![t] = @ \ {c}]
            /\ chunks' = [chunks EXCEPT ![t] = @ \cup {c}] \/ UNCHANGED chunks
      BY <2>2 DEF EndAdd
    <3>2. \A u \in Tenants : IsFiniteSet(chunks'[u])
      BY <1>1, <3>1, FS_AddElement
    <3>3. UNCHANGED clock
      BY <2>2 DEF EndAdd
    <3> QED BY <1>1, <3>1, <3>2, <3>3 DEF Basic, TypeOK
  <2>3. ASSUME NEW d \in Docs, RemoveChunks(t, d) PROVE Typed
    <3>1. /\ chunks' = [chunks EXCEPT ![t] = {c \in chunks[t] : c.doc # d}]
          /\ UNCHANGED <<adding, clock>>
      BY <2>3 DEF RemoveChunks
    <3>2. IsFiniteSet({c \in chunks[t] : c.doc # d})
      BY FS_Subset DEF Basic
    <3> QED BY <1>1, <3>1, <3>2 DEF Basic, TypeOK
  <2> QED BY <2>1, <2>2, <2>3
<1>4. TypeOK'
  BY <1>2, <1>3 DEF Basic, TypeOK, queueVars, faultVars
<1>5. OneRecompute'
  BY <1>2 DEF Basic, OneRecompute, Queued, queueVars
<1> QED BY <1>3, <1>4, <1>5 DEF Basic

LEMMA RequestBasic ==
  ASSUME Basic, NEW t \in Tenants, RequestRecompute(t)
  PROVE  Basic'
<1>1. TypeOK'
  BY DEF Basic, TypeOK, RequestRecompute, dataVars, faultVars
<1>2. OneRecompute'
  <2>1. /\ queue \in Seq(Tenants) /\ queue' = Append(queue, t)
        /\ t \notin Queued \cup running /\ UNCHANGED <<running, runner>>
    BY DEF Basic, TypeOK, RequestRecompute
  <2>2. /\ DOMAIN queue' = 1..(Len(queue) + 1) /\ DOMAIN queue = 1..Len(queue)
        /\ Len(queue) \in Nat /\ queue'[Len(queue) + 1] = t
        /\ \A i \in 1..Len(queue) : queue'[i] = queue[i] /\ queue[i] # t
    BY <2>1 DEF Queued
  <2>3. Queued' = Queued \cup {t}
    BY <2>2 DEF Queued
  <2>4. \A i, j \in DOMAIN queue' : queue'[i] = queue'[j] => i = j
    BY <2>2 DEF Basic, OneRecompute
  <2> QED BY <2>1, <2>3, <2>4 DEF Basic, OneRecompute
<1> QED BY <1>1, <1>2 DEF Basic, RequestRecompute, dataVars

LEMMA ClaimBasic ==
  ASSUME Basic, NEW w \in Workers, ClaimNext(w)
  PROVE  Basic'
<1>1. /\ queue \in Seq(Tenants) /\ queue # <<>> /\ queue' = Tail(queue)
      /\ running' = running \cup {Head(queue)} /\ runner[w].at = "idle"
      /\ runner' = [runner EXCEPT ![w].at = "read", ![w].tenant = Head(queue)]
      /\ UNCHANGED <<dataVars, projection, reader, faultVars>>
  BY DEF Basic, TypeOK, ClaimNext
<1>2. /\ Head(queue) = queue[1] /\ Head(queue) \in Tenants
      /\ queue' \in Seq(Tenants) /\ Len(queue) \in Nat \ {0}
      /\ DOMAIN queue = 1..Len(queue) /\ DOMAIN queue' = 1..(Len(queue) - 1)
      /\ \A i \in 1..(Len(queue) - 1) : queue'[i] = queue[i + 1]
  BY <1>1
<1>3. runner \in [Workers -> RunnerType]
  BY DEF Basic, TypeOK
<1>4. runner'[w] \in RunnerType
  BY <1>1, <1>2, <1>3 DEF RunnerType, RunnerPlaces
<1>5. TypeOK'
  BY <1>1, <1>2, <1>3, <1>4 DEF Basic, TypeOK, dataVars, faultVars
<1>6. OneRecompute'
  <2>1. Queued' \subseteq Queued /\ Head(queue) \in Queued /\ Head(queue) \notin Queued'
    <3>1. ASSUME NEW i \in DOMAIN queue' PROVE queue'[i] \in Queued /\ queue'[i] # Head(queue)
      <4>1. i + 1 \in DOMAIN queue /\ 1 \in DOMAIN queue /\ i + 1 # 1 /\ queue'[i] = queue[i + 1]
        BY <1>2
      <4> QED BY <1>2, <4>1 DEF Basic, OneRecompute, Queued
    <3>2. 1 \in DOMAIN queue
      BY <1>2
    <3> QED BY <1>2, <3>1, <3>2 DEF Queued
  <2>2. \A i, j \in DOMAIN queue' : queue'[i] = queue'[j] => i = j
    BY <1>2 DEF Basic, OneRecompute
  <2>3. /\ runner'[w].at = "read" /\ runner'[w].tenant = Head(queue)
        /\ \A v \in Workers \ {w} : runner'[v] = runner[v]
    BY <1>1, <1>3 DEF RunnerType
  <2>4. \A v \in Workers : runner[v].at # "idle" => runner[v].tenant # Head(queue)
    BY <2>1 DEF Basic, OneRecompute
  <2>5. Queued' \cap running' = {}
    BY <1>1, <2>1 DEF Basic, OneRecompute
  <2>6. ASSUME NEW v \in Workers, runner'[v].at # "idle" PROVE runner'[v].tenant \in running'
    <3>1. CASE v = w
      BY <1>1, <2>3, <3>1
    <3>2. CASE v # w
      <4>1. runner'[v] = runner[v]
        BY <2>3, <3>2
      <4>2. runner[v].tenant \in running
        BY <2>6, <4>1 DEF Basic, OneRecompute
      <4> QED BY <1>1, <4>1, <4>2
    <3> QED BY <3>1, <3>2
  <2>7. \A u, v \in Workers :
           runner'[u].at # "idle" /\ runner'[v].at # "idle"
           /\ runner'[u].tenant = runner'[v].tenant => u = v
    BY <2>3, <2>4 DEF Basic, OneRecompute
  <2> QED BY <2>2, <2>5, <2>6, <2>7 DEF OneRecompute
<1> QED BY <1>1, <1>5, <1>6 DEF Basic, dataVars

(* A worker that goes on with its tenant, or stops, disturbs no other        *)
LEMMA RunnerOneRecompute ==
  ASSUME Basic, NEW w \in Workers, NEW x \in RunnerType,
         runner' = [runner EXCEPT ![w] = x], UNCHANGED queue,
         \/ /\ running' = running
            /\ x.at # "idle" => runner[w].at # "idle" /\ x.tenant = runner[w].tenant
         \/ /\ running' = running \ {runner[w].tenant}
            /\ runner[w].at # "idle" /\ x.at = "idle"
  PROVE  OneRecompute' /\ runner' \in [Workers -> RunnerType] /\ running' \subseteq Tenants
<1>1. runner \in [Workers -> RunnerType] /\ running \subseteq Tenants
  BY DEF Basic, TypeOK
<1>2. runner'[w] = x /\ \A v \in Workers \ {w} : runner'[v] = runner[v]
  BY <1>1
<1>3. Queued' = Queued
  BY DEF Queued
<1>4. ASSUME NEW v \in Workers, runner'[v].at # "idle"
      PROVE  /\ runner[v].at # "idle" /\ runner'[v].tenant = runner[v].tenant
             /\ runner[v].tenant \in running'
  <2>1. CASE v = w
    BY <1>2, <1>4, <2>1 DEF Basic, OneRecompute
  <2>2. CASE v # w
    BY <1>2, <1>4, <2>2 DEF Basic, OneRecompute
  <2> QED BY <2>1, <2>2
<1> QED BY <1>1, <1>3, <1>4 DEF Basic, OneRecompute

LEMMA StepRunnerBasic ==
  ASSUME Basic, NEW w \in Workers,
         \/ ReadEmbeddings(w) \/ ReadFingerprint(w) \/ Fit(w) \/ Upsert(w)
         \/ FailRecompute(w) \/ Complete(w) \/ LoseCompletion(w) \/ Crash(w)
  PROVE  Basic'
<1> DEFINE t == runner[w].tenant
<1>1. /\ runner \in [Workers -> RunnerType] /\ runner[w] \in RunnerType
      /\ runner[w].at # "idle" => t \in Tenants
      /\ \A u \in Tenants : chunks[u] \in SUBSET ChunkType /\ IsFiniteSet(chunks[u])
  BY BusyTenant DEF Basic, TypeOK
<1> HIDE DEF t
<1>2. ASSUME NEW x \in RunnerType, runner' = [runner EXCEPT ![w] = x],
             UNCHANGED <<dataVars, queueVars, projection, reader>>,
             crashes' \in 0..MaxCrashes, losses' \in 0..MaxLosses,
             x.at # "idle" => runner[w].at # "idle" /\ x.tenant = t
      PROVE  Basic'
  <2>1. OneRecompute' /\ runner' \in [Workers -> RunnerType]
    BY <1>2, RunnerOneRecompute DEF t, queueVars
  <2> QED BY <1>2, <2>1 DEF Basic, TypeOK, dataVars, queueVars
<1>3. CASE ReadEmbeddings(w)
  <2>1. PICK rows \in Cuts(chunks[t]) :
          runner' = [runner EXCEPT ![w].at = "print",
                       ![w].new = [NoProjection EXCEPT !.of = chunks[t], !.behind = Behind(t),
                                                       !.rows = rows, !.exists = TRUE]]
    BY <1>3 DEF ReadEmbeddings, t
  <2>2. rows \in SUBSET ChunkType /\ Cardinality(rows) <= MaxPoints
    BY <1>1, <1>3, CutType DEF ReadEmbeddings
  <2> DEFINE new == [NoProjection EXCEPT !.of = chunks[t], !.behind = Behind(t), !.rows = rows,
                                         !.exists = TRUE]
  <2>7. Behind(t) \in SUBSET ChunkType
    BY <1>1, <1>3 DEF Behind, Basic, TypeOK, ReadEmbeddings
  <2>3. new \in ProjectionType
    BY <1>1, <1>3, <2>2, <2>7, NoProjectionType DEF ProjectionType, ReadEmbeddings
  <2> DEFINE x == [runner[w] EXCEPT !.at = "print", !.new = new]
  <2>4. x \in RunnerType /\ x.tenant = t
    BY <1>1, <2>3 DEF RunnerType, RunnerPlaces, t
  <2>5. runner' = [runner EXCEPT ![w] = x]
    BY <1>1, <2>1
  <2>6. UNCHANGED <<dataVars, queueVars, projection, reader, faultVars>> /\ runner[w].at = "read"
    BY <1>3 DEF ReadEmbeddings
  <2> QED BY <1>2, <2>4, <2>5, <2>6 DEF Basic, TypeOK, faultVars
<1>4. CASE ReadFingerprint(w)
  <2> DEFINE p == runner[w].new
             new == [p EXCEPT !.print = Fingerprint(chunks[t]), !.raced = chunks[t] # p.of,
                              !.of = IF chunks[t] = p.of THEN p.of ELSE {}]
             x == [runner[w] EXCEPT !.at = "fit", !.new = new]
  <2>1. runner[w].at = "print" /\ UNCHANGED <<dataVars, queueVars, projection, reader, faultVars>>
    BY <1>4 DEF ReadFingerprint
  <2>2. p \in ProjectionType /\ Fingerprint(chunks[t]) \in FingerprintType
    BY <1>1, <2>1, PrintType DEF RunnerType
  <2>3. new \in ProjectionType
    BY <2>2 DEF ProjectionType
  <2>4. x \in RunnerType /\ x.tenant = t
    BY <1>1, <2>1, <2>3 DEF RunnerType, RunnerPlaces, t
  <2>5. runner' = [runner EXCEPT ![w] = x]
    BY <1>1, <1>4, <2>2 DEF RunnerType, ProjectionType, ReadFingerprint, t
  <2> QED BY <1>2, <2>1, <2>4, <2>5 DEF Basic, TypeOK, faultVars
<1>5. CASE Fit(w)
  <2>1. /\ runner' = [runner EXCEPT ![w] = [runner[w] EXCEPT !.at = "store2"]]
        /\ runner[w].at # "idle" /\ UNCHANGED <<dataVars, queueVars, projection, reader, faultVars>>
    BY <1>1, <1>5 DEF Fit
  <2>2. /\ [runner[w] EXCEPT !.at = "store2"] \in RunnerType
        /\ [runner[w] EXCEPT !.at = "store2"].tenant = t
    BY <1>1 DEF RunnerType, RunnerPlaces, t
  <2> QED BY <1>2, <2>1, <2>2 DEF Basic, TypeOK, faultVars
<1>6. CASE Upsert(w)
  <2>1. PICK dim \in Dims, next \in {"store3", "complete"} :
          runner[w].at # "idle" /\ Store(w, dim, next)
    BY <1>6 DEF Upsert, Dims
  <2>2. /\ runner' = [runner EXCEPT ![w] = [runner[w] EXCEPT !.at = next]]
        /\ UNCHANGED <<dataVars, queueVars, faultVars>>
    BY <1>1, <2>1 DEF Store
  <2>3. [runner[w] EXCEPT !.at = next] \in RunnerType /\ [runner[w] EXCEPT !.at = next].tenant = t
    BY <1>1 DEF RunnerType, RunnerPlaces, t
  <2>4. OneRecompute' /\ runner' \in [Workers -> RunnerType]
    BY <2>1, <2>2, <2>3, RunnerOneRecompute DEF t, queueVars
  <2>5. projection' \in [Tenants -> [Dims -> ProjectionType]]
    <3>1. runner[w].new \in ProjectionType /\ t \in Tenants
      BY <1>1, <2>1 DEF RunnerType
    <3>2. projection' = [projection EXCEPT ![t][dim] = runner[w].new]
      BY <2>1 DEF Store, t
    <3> QED BY <3>1, <3>2 DEF Basic, TypeOK
  <2>6. reader' \in [Readers -> ReaderType]
    <3>1. /\ reader \in [Readers -> ReaderType]
          /\ reader' = [r \in Readers |-> IF reader[r].tenant = t /\ reader[r].dim = dim
                                          THEN [reader[r] EXCEPT !.valid = FALSE] ELSE reader[r]]
      BY <2>1 DEF Store, t, Basic, TypeOK
    <3>2. \A r \in Readers : [reader[r] EXCEPT !.valid = FALSE] \in ReaderType
      BY <3>1 DEF ReaderType
    <3> QED BY <3>1, <3>2
  <2> QED BY <2>2, <2>4, <2>5, <2>6 DEF Basic, TypeOK, dataVars, queueVars, faultVars
<1>7. CASE FailRecompute(w)
  <2> DEFINE x == [runner[w] EXCEPT !.at = "complete", !.new = NoProjection]
  <2>1. /\ runner' = [runner EXCEPT ![w] = x]
        /\ runner[w].at # "idle" /\ UNCHANGED <<dataVars, queueVars, projection, reader, faultVars>>
    BY <1>1, <1>7 DEF FailRecompute
  <2>2. x \in RunnerType /\ x.tenant = t
    BY <1>1, NoProjectionType DEF RunnerType, RunnerPlaces, t
  <2> QED BY <1>2, <2>1, <2>2 DEF Basic, TypeOK, faultVars
<1>8. CASE Complete(w)
  <2>1. /\ runner' = [runner EXCEPT ![w] = Waiting] /\ runner[w].at # "idle"
        /\ running' = running \ {t}
        /\ UNCHANGED <<dataVars, queue, projection, reader, faultVars>>
    BY <1>8 DEF Complete, t
  <2>2. Waiting \in RunnerType /\ Waiting.at = "idle"
    BY NoProjectionType DEF Waiting
  <2>3. OneRecompute' /\ runner' \in [Workers -> RunnerType] /\ running' \subseteq Tenants
    BY <2>1, <2>2, RunnerOneRecompute DEF t
  <2> QED BY <2>1, <2>3 DEF Basic, TypeOK, dataVars, faultVars
<1>9. CASE LoseCompletion(w) \/ Crash(w)
  <2>1. /\ runner' = [runner EXCEPT ![w] = Waiting]
        /\ UNCHANGED <<dataVars, queueVars, projection, reader>>
    BY <1>9 DEF LoseCompletion, Crash
  <2>2. crashes' \in 0..MaxCrashes /\ losses' \in 0..MaxLosses
    BY <1>9, ProjectionsAssumption DEF LoseCompletion, Crash, Basic, TypeOK
  <2>3. Waiting \in RunnerType /\ Waiting.at = "idle"
    BY NoProjectionType DEF Waiting
  <2> QED BY <1>2, <2>1, <2>2, <2>3
<1> QED BY <1>3, <1>4, <1>5, <1>6, <1>7, <1>8, <1>9

LEMMA ReaderBasic ==
  ASSUME Basic, NEW r \in Readers,
         \/ GetPoints(r)
         \/ \E t \in Tenants, dim \in Dims : GetHeader(r, t, dim)
  PROVE  Basic'
<1>1. /\ reader \in [Readers -> ReaderType]
      /\ projection \in [Tenants -> [Dims -> ProjectionType]]
  BY DEF Basic, TypeOK
<1>2. PICK x \in ReaderType : reader' = [reader EXCEPT ![r] = x]
  <2>1. NoMap \in ReaderType
    BY DEF NoMap, ReaderType, Dims
  <2>2. CASE GetPoints(r)
    BY <1>1, <2>1, <2>2 DEF GetPoints, ReaderType
  <2>3. ASSUME NEW t \in Tenants, NEW dim \in Dims, GetHeader(r, t, dim)
        PROVE  \E x \in ReaderType : reader' = [reader EXCEPT ![r] = x]
    <3>1. projection[t][dim].rows \in SUBSET ChunkType
      BY <1>1 DEF ProjectionType
    <3> QED BY <2>1, <2>3, <3>1 DEF GetHeader, ReaderType
  <2> QED BY <2>2, <2>3
<1>3. UNCHANGED <<dataVars, queueVars, runner, projection, faultVars>>
  BY DEF GetPoints, GetHeader
<1>4. reader' \in [Readers -> ReaderType]
  BY <1>1, <1>2
<1> QED BY <1>3, <1>4 DEF Basic, TypeOK, OneRecompute, Queued, dataVars, queueVars, faultVars

LEMMA NextBasic == Basic /\ [Next]_vars => Basic'
<1> SUFFICES ASSUME Basic, [Next]_vars PROVE Basic'
  OBVIOUS
<1>1. CASE UNCHANGED vars
  BY <1>1 DEF vars, Basic, TypeOK, OneRecompute, Queued, dataVars, queueVars, faultVars
<1> QED BY <1>1, ChunksBasic, RequestBasic, ClaimBasic, StepRunnerBasic, ReaderBasic
        DEF Next, StepRunner

(* What a projection holds is bounded, whatever runs at the same time        *)
THEOREM TypesHold == Spec => []TypeOK
<1>1. Basic => TypeOK
  BY DEF Basic
<1> QED BY <1>1, InitBasic, NextBasic, PTL DEF Spec

(* One live request of a tenant, and one worker at it: the claim, the death  *)
(* of workers and requests at any time                                       *)
THEOREM OneRecomputeHolds == Spec => []OneRecompute
<1>1. Basic => OneRecompute
  BY DEF Basic
<1> QED BY <1>1, InitBasic, NextBasic, PTL DEF Spec

-----------------------------------------------------------------------------
(* Freshness                                                                *)

(* Chunks go, and others come that are later than the clock was              *)
LEMMA SnapshotGrows ==
  ASSUME NEW p, NEW C, NEW D \in SUBSET ChunkType, NEW k \in Nat, NEW m \in Nat,
         Snapshot(p, C, k), k <= m, \A c \in D : c \in C \/ k < c.at
  PROVE  Snapshot(p, D, m)
<1>1. \A c \in ChunkType : c.at \in Nat
  BY ProjectionsAssumption DEF ChunkType
<1>2. \A b \in p.of : b.at \in Nat /\ b.at <= k
  BY <1>1 DEF Snapshot
<1> QED BY <1>1, <1>2 DEF Snapshot

(* The chunks a read has just seen: what may come is behind or later         *)
LEMMA SnapshotNow ==
  ASSUME NEW p, NEW t \in Tenants, NEW k \in Nat, IsFiniteSet(chunks[t]),
         Coming(t) \in SUBSET ChunkType, \A c \in Coming(t) : c.at <= k,
         p.of = chunks[t], p.behind = Behind(t), p.rows \in Cuts(chunks[t])
  PROVE  Snapshot(p, Coming(t), k)
<1>1. \A c \in ChunkType : c.at \in Nat
  BY ProjectionsAssumption DEF ChunkType
<1>2. ASSUME NEW c \in Coming(t), NEW b \in p.of, c \notin p.of \cup p.behind
      PROVE  b.at < c.at
  BY <1>1, <1>2 DEF Coming, Behind
<1> QED BY <1>2 DEF Snapshot, Coming

LEMMA NothingSnapshot ==
  /\ \A C, k : Snapshot(NoProjection, C, k)
  /\ Printed(NoProjection)
  BY DEF Snapshot, Printed, NoProjection

LEMMA InitFresh == Init => Fresh
  BY NothingSnapshot DEF Init, Fresh, ChunksInv, RunnerInv, ProjectionInv, Waiting, Coming

LEMMA ChunksFresh ==
  ASSUME Basic, Fresh, NEW t \in Tenants,
         EndAdd(t) \/ \E d \in Docs : BeginAdd(t, d) \/ RemoveChunks(t, d)
  PROVE  Fresh'
<1>1. /\ chunks \in [Tenants -> SUBSET ChunkType] /\ adding \in [Tenants -> SUBSET ChunkType]
      /\ clock \in Nat
      /\ \A u \in Tenants : \A c \in Coming(u) : c.at \in Nat /\ c.at <= clock
  BY ProjectionsAssumption DEF Basic, TypeOK, Fresh, ChunksInv, ChunkType, Coming
<1>2. \A u \in Tenants : Coming(u)' \in SUBSET ChunkType
  BY ChunksBasic DEF Basic, TypeOK, Coming
<1> DEFINE Comes ==
      /\ clock' \in {clock, clock + 1}
      /\ \A u \in Tenants : \A c \in Coming(u)' :
           c \in Coming(u) \/ (c.at = clock' /\ clock' = clock + 1)
<1>3. Comes
  <2>1. ASSUME NEW d \in Docs, BeginAdd(t, d) PROVE Comes
    <3>1. /\ adding' = [adding EXCEPT ![t] = @ \cup {[doc |-> d, at |-> clock + 1]}]
          /\ clock' = clock + 1 /\ UNCHANGED chunks
      BY <2>1 DEF BeginAdd
    <3> QED BY <1>1, <3>1 DEF Coming
  <2>2. CASE EndAdd(t)
    <3>1. \A u \in Tenants : Coming(u)' \subseteq Coming(u)
      BY <1>1, <2>2 DEF EndAdd, Coming
    <3>2. UNCHANGED clock
      BY <2>2 DEF EndAdd
    <3> QED BY <3>1, <3>2
  <2>3. ASSUME NEW d \in Docs, RemoveChunks(t, d) PROVE Comes
    <3>1. \A u \in Tenants : Coming(u)' \subseteq Coming(u)
      BY <1>1, <2>3 DEF RemoveChunks, Coming
    <3>2. UNCHANGED clock
      BY <2>3 DEF RemoveChunks
    <3> QED BY <3>1, <3>2
  <2> QED BY <2>1, <2>2, <2>3
<1>4. UNCHANGED <<runner, projection>>
  BY DEF BeginAdd, EndAdd, RemoveChunks
<1>5. ASSUME NEW u \in Tenants, NEW p, Snapshot(p, Coming(u), clock)
      PROVE  Snapshot(p, Coming(u)', clock')
  <2>1. \A c \in Coming(u)' : c \in Coming(u) \/ clock < c.at
    BY <1>1, <1>3
  <2>2. clock' \in Nat /\ clock <= clock'
    BY <1>1, <1>3
  <2> QED BY <1>1, <1>2, <1>5, <2>1, <2>2, SnapshotGrows
<1>6. ChunksInv'
  <2>1. \A u \in Tenants : \A c \in Coming(u)' : c.at <= clock'
    BY <1>1, <1>3
  <2> QED BY <2>1 DEF ChunksInv
<1>7. RunnerInv'
  BY <1>4, <1>5, BusyTenant DEF Basic, Fresh, RunnerInv, Printed
<1>8. ProjectionInv'
  BY <1>4, <1>5 DEF Fresh, ProjectionInv, Printed
<1> QED BY <1>6, <1>7, <1>8 DEF Fresh

LEMMA StepRunnerFresh ==
  ASSUME Basic, Fresh, NEW w \in Workers, StepRunner(w) \/ LoseCompletion(w) \/ Crash(w)
  PROVE  Fresh'
<1> DEFINE t == runner[w].tenant
<1>1. /\ runner \in [Workers -> RunnerType] /\ runner[w] \in RunnerType
      /\ runner[w].at # "idle" => t \in Tenants
  BY BusyTenant DEF Basic, TypeOK
<1>2. /\ clock \in Nat
      /\ \A u \in Tenants : /\ chunks[u] \in SUBSET ChunkType /\ IsFiniteSet(chunks[u])
                            /\ Coming(u) \in SUBSET ChunkType
                            /\ \A c \in Coming(u) : c.at <= clock
  BY ProjectionsAssumption DEF Basic, TypeOK, Fresh, ChunksInv, Coming
<1>3. UNCHANGED dataVars /\ UNCHANGED <<chunks, adding>>
  BY DEF StepRunner, ClaimNext, ReadEmbeddings, ReadFingerprint, Fit, Upsert, Store, FailRecompute,
         Complete, LoseCompletion, Crash, dataVars
<1> HIDE DEF t
<1>12. ASSUME NEW x, runner' = [runner EXCEPT ![w] = x],
              x.at = "idle" => x = Waiting,
              x.at # "idle" => Snapshot(x.new, Coming(x.tenant), clock),
              IF x.at = "print" THEN ~x.new.raced ELSE Printed(x.new)
       PROVE  RunnerInv'
  <2>1. runner'[w] = x /\ \A v \in Workers \ {w} : runner'[v] = runner[v]
    BY <1>1, <1>12
  <2> QED BY <1>3, <1>12, <2>1 DEF Fresh, RunnerInv, Printed, Coming, dataVars
<1>4. ASSUME NEW x, runner' = [runner EXCEPT ![w] = x], UNCHANGED projection,
             x.at = "idle" => x = Waiting,
             x.at # "idle" => Snapshot(x.new, Coming(x.tenant), clock),
             IF x.at = "print" THEN ~x.new.raced ELSE Printed(x.new)
      PROVE  Fresh'
  <2>2. RunnerInv'
    BY <1>4, <1>12
  <2>3. ChunksInv' /\ ProjectionInv'
    BY <1>3, <1>4 DEF Fresh, ChunksInv, ProjectionInv, Printed, Coming, dataVars
  <2> QED BY <2>2, <2>3 DEF Fresh
<1>5. CASE ClaimNext(w)
  <2> DEFINE x == [runner[w] EXCEPT !.at = "read", !.tenant = Head(queue)]
  <2>1. runner' = [runner EXCEPT ![w] = x] /\ UNCHANGED projection /\ runner[w].at = "idle"
    BY <1>1, <1>5 DEF ClaimNext
  <2>2. runner[w].new = NoProjection
    BY <2>1 DEF Fresh, RunnerInv, Waiting
  <2>3. x.new = NoProjection /\ x.at = "read"
    BY <1>1, <2>2 DEF RunnerType
  <2> HIDE DEF x
  <2> QED BY <1>4, <2>1, <2>3, NothingSnapshot
<1>6. CASE ReadEmbeddings(w)
  <2>1. PICK rows \in Cuts(chunks[t]) :
          runner' = [runner EXCEPT ![w] = [runner[w] EXCEPT !.at = "print",
                       !.new = [NoProjection EXCEPT !.of = chunks[t], !.behind = Behind(t),
                                                    !.rows = rows, !.exists = TRUE]]]
    BY <1>1, <1>6 DEF ReadEmbeddings, t
  <2> DEFINE new == [NoProjection EXCEPT !.of = chunks[t], !.behind = Behind(t), !.rows = rows,
                                         !.exists = TRUE]
             x == [runner[w] EXCEPT !.at = "print", !.new = new]
  <2>2. new.of = chunks[t] /\ new.behind = Behind(t) /\ new.rows = rows /\ ~new.raced
    BY DEF NoProjection
  <2>3. x.at = "print" /\ x.tenant = t /\ x.new = new
    BY <1>1 DEF RunnerType, t
  <2>4. runner[w].at # "idle" /\ UNCHANGED projection
    BY <1>6 DEF ReadEmbeddings
  <2> HIDE DEF new, x
  <2>5. Snapshot(new, Coming(t), clock)
    BY <1>1, <1>2, <2>1, <2>2, <2>4, SnapshotNow
  <2>6. runner' = [runner EXCEPT ![w] = x]
    BY <2>1 DEF new, x
  <2> QED BY <1>4, <2>2, <2>3, <2>4, <2>5, <2>6
<1>7. CASE ReadFingerprint(w)
  <2> DEFINE p == runner[w].new
             new == [p EXCEPT !.print = Fingerprint(chunks[t]), !.raced = chunks[t] # p.of,
                              !.of = IF chunks[t] = p.of THEN p.of ELSE {}]
             x == [runner[w] EXCEPT !.at = "fit", !.new = new]
  <2>1. runner[w].at = "print" /\ UNCHANGED projection
    BY <1>7 DEF ReadFingerprint
  <2>2. runner[w] \in RunnerType /\ p \in ProjectionType
    BY <1>1 DEF RunnerType
  <2>3. /\ new.print = Fingerprint(chunks[t]) /\ new.raced = (chunks[t] # p.of)
        /\ new.of = (IF chunks[t] = p.of THEN p.of ELSE {})
        /\ new.behind = p.behind /\ new.rows = p.rows /\ new.exists = p.exists
    BY <2>2 DEF ProjectionType
  <2>4. x.at = "fit" /\ x.tenant = t /\ x.new = new
    BY <2>2 DEF RunnerType, t
  <2>5. runner' = [runner EXCEPT ![w] = x]
    BY <1>1, <1>7, <2>2 DEF RunnerType, ProjectionType, ReadFingerprint, t
  <2>6. Snapshot(p, Coming(t), clock) /\ ~p.raced
    BY <2>1 DEF Fresh, RunnerInv, t
  <2> HIDE DEF new, x, p
  <2>7. Snapshot(new, Coming(t), clock) /\ Printed(new)
    <3>1. CASE chunks[t] = p.of
      BY <2>3, <2>6, <3>1 DEF Snapshot, Printed
    <3>2. CASE chunks[t] # p.of
      BY <2>3, <3>2 DEF Snapshot, Printed
    <3> QED BY <3>1, <3>2
  <2> QED BY <1>4, <2>1, <2>4, <2>5, <2>7
<1>8. CASE Fit(w)
  <2> DEFINE x == [runner[w] EXCEPT !.at = "store2"]
  <2>1. /\ runner' = [runner EXCEPT ![w] = x] /\ UNCHANGED projection
        /\ runner[w].at = "fit"
    BY <1>1, <1>8 DEF Fit
  <2>2. x.at = "store2" /\ x.tenant = t /\ x.new = runner[w].new
    BY <1>1 DEF RunnerType, t
  <2>3. Snapshot(runner[w].new, Coming(t), clock) /\ Printed(runner[w].new)
    BY <2>1 DEF Fresh, RunnerInv, t
  <2> HIDE DEF x
  <2> QED BY <1>4, <2>1, <2>2, <2>3
<1>9. CASE Upsert(w)
  <2>1. PICK dim \in Dims, next \in {"store3", "complete"} :
          runner[w].at \notin {"idle", "print"} /\ Store(w, dim, next)
    BY <1>9 DEF Upsert, Dims
  <2> DEFINE x == [runner[w] EXCEPT !.at = next]
  <2>2. runner' = [runner EXCEPT ![w] = x]
        /\ projection' = [projection EXCEPT ![t][dim] = runner[w].new]
    BY <1>1, <2>1 DEF Store, t
  <2>3. x.at = next /\ x.tenant = t /\ x.new = runner[w].new /\ t \in Tenants
    BY <1>1, <2>1 DEF RunnerType, t
  <2>4. Snapshot(runner[w].new, Coming(t), clock) /\ Printed(runner[w].new)
    BY <2>1 DEF Fresh, RunnerInv, t
  <2> HIDE DEF x
  <2>6. RunnerInv'
    BY <1>12, <2>2, <2>3, <2>4
  <2>7. ASSUME NEW u \in Tenants, NEW e \in Dims
        PROVE  Snapshot(projection'[u][e], Coming(u), clock) /\ Printed(projection'[u][e])
    <3>1. projection \in [Tenants -> [Dims -> ProjectionType]]
      BY DEF Basic, TypeOK
    <3>2. CASE u = t /\ e = dim
      BY <2>2, <2>3, <2>4, <3>1, <3>2
    <3>3. CASE ~(u = t /\ e = dim)
      <4>1. projection'[u][e] = projection[u][e]
        BY <2>2, <3>1, <3>3
      <4> QED BY <4>1 DEF Fresh, ProjectionInv
    <3> QED BY <3>2, <3>3
  <2>8. ChunksInv' /\ ProjectionInv'
    BY <1>3, <2>7 DEF Fresh, ChunksInv, ProjectionInv, Printed, Coming, dataVars
  <2> QED BY <2>6, <2>8 DEF Fresh
<1>10. CASE FailRecompute(w)
  <2> DEFINE x == [runner[w] EXCEPT !.at = "complete", !.new = NoProjection]
  <2>1. runner' = [runner EXCEPT ![w] = x] /\ UNCHANGED projection
    BY <1>1, <1>10 DEF FailRecompute
  <2>2. x.at = "complete" /\ x.new = NoProjection
    BY <1>1 DEF RunnerType
  <2> HIDE DEF x
  <2> QED BY <1>4, <2>1, <2>2, NothingSnapshot
<1>11. CASE Complete(w) \/ LoseCompletion(w) \/ Crash(w)
  <2>1. runner' = [runner EXCEPT ![w] = Waiting] /\ UNCHANGED projection
    BY <1>11 DEF Complete, LoseCompletion, Crash
  <2>2. Waiting.at = "idle" /\ Waiting.new = NoProjection
    BY DEF Waiting
  <2> QED BY <1>4, <2>1, <2>2, NothingSnapshot
<1> QED BY <1>5, <1>6, <1>7, <1>8, <1>9, <1>10, <1>11 DEF StepRunner

LEMMA NextFresh == Basic /\ Fresh /\ [Next]_vars => Fresh'
<1> SUFFICES ASSUME Basic, Fresh, [Next]_vars PROVE Fresh'
  OBVIOUS
<1>1. ASSUME UNCHANGED <<dataVars, runner, projection>> PROVE Fresh'
  BY <1>1 DEF Fresh, ChunksInv, RunnerInv, ProjectionInv, Printed, dataVars, Coming
<1>2. CASE UNCHANGED vars
  BY <1>1, <1>2 DEF vars
<1>3. ASSUME NEW t \in Tenants, RequestRecompute(t) PROVE Fresh'
  BY <1>1, <1>3 DEF RequestRecompute
<1>4. ASSUME NEW r \in Readers,
             GetPoints(r) \/ \E t \in Tenants, dim \in Dims : GetHeader(r, t, dim)
      PROVE  Fresh'
  BY <1>1, <1>4 DEF GetPoints, GetHeader
<1> QED BY <1>2, <1>3, <1>4, ChunksFresh, StepRunnerFresh DEF Next

LEMMA FreshImplies == Basic /\ Fresh => FreshMeansCurrent
<1> SUFFICES ASSUME Basic, Fresh, NEW t \in Tenants, NEW dim \in Dims,
                    projection[t][dim].exists, ~projection[t][dim].raced,
                    chunks[t] \cap projection[t][dim].behind = {},
                    projection[t][dim].print = Fingerprint(chunks[t])
             PROVE  projection[t][dim].rows \in Cuts(chunks[t])
  BY DEF FreshMeansCurrent
<1> DEFINE p == projection[t][dim]
<1>1. /\ p.of \in SUBSET ChunkType /\ IsFiniteSet(p.of) /\ p.rows \in Cuts(p.of)
      /\ \A c \in Coming(t), b \in p.of : c \notin p.of \cup p.behind => b.at < c.at
      /\ p.print = Fingerprint(p.of)
  BY DEF Fresh, ProjectionInv, Snapshot, Printed
<1>2. chunks[t] \in SUBSET ChunkType /\ IsFiniteSet(chunks[t])
  BY DEF Basic, TypeOK
<1> HIDE DEF p
<1>3. Grown(p.of, chunks[t])
  BY <1>1 DEF Grown, Coming, p
<1>4. p.of = chunks[t]
  BY <1>1, <1>2, <1>3, SamePrintSameChunks DEF p
<1> QED BY <1>1, <1>4 DEF p

(* A projection that passes for up to date was made from the chunks there    *)
(* are, whatever came and went in between, in transactions of several        *)
(* threads that overlap (is_stale, embedding_fingerprint, add_chunks).       *)
(* Excepted are projections whose chunks changed between the two reads of    *)
(* recompute, and those overtaken by a transaction that had begun before the *)
(* one of a chunk that was read and committed after that read.               *)
THEOREM FreshIsCurrent == Spec => []FreshMeansCurrent
<1>1. Basic /\ Fresh /\ [Next]_vars => (Basic /\ Fresh)'
  BY NextBasic, NextFresh
<1> QED BY <1>1, InitBasic, InitFresh, FreshImplies, PTL DEF Spec
-----------------------------------------------------------------------------
(* What a request for the map returns                                       *)

LEMMA NextWhole == Basic /\ MapIsWhole /\ [Next]_vars => MapIsWhole'
<1> SUFFICES ASSUME Basic, MapIsWhole, [Next]_vars PROVE MapIsWhole'
  OBVIOUS
<1>1. reader \in [Readers -> ReaderType]
  BY DEF Basic, TypeOK
<1>2. CASE UNCHANGED reader
  BY <1>2 DEF MapIsWhole
<1>3. ASSUME NEW w \in Workers, Upsert(w) PROVE MapIsWhole'
  <2>1. ASSUME NEW dim, NEW next, Store(w, dim, next) PROVE MapIsWhole'
    <3>1. \A r \in Readers : /\ reader'[r].at = reader[r].at
                             /\ reader'[r].own = reader[r].own
                             /\ reader'[r].points = reader[r].points
      BY <1>1, <2>1 DEF Store, ReaderType
    <3> QED BY <3>1 DEF MapIsWhole
  <2> QED BY <1>3, <2>1 DEF Upsert
<1>4. ASSUME NEW r \in Readers, NEW t \in Tenants, NEW dim \in Dims, GetHeader(r, t, dim)
      PROVE  MapIsWhole'
  <2>1. reader'[r].at = "header" /\ \A q \in Readers \ {r} : reader'[q] = reader[q]
    BY <1>1, <1>4 DEF GetHeader, NoMap
  <2> QED BY <2>1 DEF MapIsWhole
<1>5. ASSUME NEW r \in Readers, GetPoints(r) PROVE MapIsWhole'
  <2>1. /\ reader'[r].points \in {reader'[r].own, {}}
        /\ \A q \in Readers \ {r} : reader'[q] = reader[q]
    BY <1>1, <1>5 DEF GetPoints, NoMap
  <2> QED BY <2>1 DEF MapIsWhole
<1> QED BY <1>2, <1>3, <1>4, <1>5
        DEF Next, vars, BeginAdd, EndAdd, RemoveChunks, RequestRecompute, StepRunner, ClaimNext,
            ReadEmbeddings, ReadFingerprint, Fit, FailRecompute, Complete, LoseCompletion, Crash

(* A map is of one projection, or empty: recomputes of any worker may replace *)
(* the projection between the header and the points (get, upsert)            *)
THEOREM MapsAreWhole == Spec => []MapIsWhole
<1>1. Init => MapIsWhole
  BY DEF Init, MapIsWhole, NoMap
<1> QED BY <1>1, InitBasic, NextBasic, NextWhole, PTL DEF Spec
=============================================================================
