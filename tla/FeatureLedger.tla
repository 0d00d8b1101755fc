---------------------------- MODULE FeatureLedger ----------------------------
(***************************************************************************)
(* The per-document, per-feature processing ledger of one tenant (ADR-0009) *)
(* and the workers that drain it: the document_features table, the         *)
(* reconciler's passes with their pool of threads, the lease, the backoff, *)
(* the WIP lanes, and the API calls that re-queue rows.                    *)
(*                                                                         *)
(* A feature processor is abstracted to the relation between its output    *)
(* and the outputs of its prerequisites: "none" (nothing stored),          *)
(* "current" (built from what the prerequisites hold now) or "stale"       *)
(* (a prerequisite was rewritten since).  Clock readings are abstracted to *)
(* two flags of a row: due (its backoff has elapsed) and stale (its lease  *)
(* has expired).                                                           *)
(***************************************************************************)
EXTENDS Naturals, FiniteSets, Sequences

CONSTANTS
  Docs,         \* documents of the tenant, in the order they were created or not
  Features,     \* the feature names that occur in the ledger
  Extract,      \* the root stage, "extract"
  Registered,   \* features with a processor; Extract is one in staged mode only
  Inline,       \* features the inline pipeline records as done; {} in staged mode
  Deps,         \* pairs <<feature, prerequisite>>
  LaneLimit,    \* WIP limit of each feature's lane
  Groups,       \* shared budgets, such as "llm"
  Group,        \* the budget a feature draws on, or None
  GroupLimit,   \* WIP limit of each shared budget
  Chain,        \* the reprocess_set of a feature group, in the order it is reset
  Workers,      \* worker processes
  Threads,      \* reconcile pool threads of all the workers
  Owner,        \* the worker a thread belongs to
  Releases,     \* code releases a worker may start with, 1..n
  Version,      \* [Releases -> [Features -> Nat]], the registered versions
  MaxAttempts,  \* document_features.max_attempts
  MaxPerPass,   \* claims one pass may make
  SlowRuns,     \* TRUE: a run may outlast its lease
  MaxCrashes,   \* bound: process deaths
  MaxLosses,    \* bound: database errors of the reconciler's statements
  MaxRetries,   \* bound: retry requests of one row
  MaxGroups,    \* bound: reprocess requests of a group
  None

Rows == Docs \X Features

ASSUME SetsAssumption ==
  /\ IsFiniteSet(Docs) /\ IsFiniteSet(Features)
  /\ Extract \in Features
  /\ Registered \subseteq Features
  /\ Inline \subseteq Features
  /\ Deps \subseteq Features \X Features
  /\ None \notin Rows /\ None \notin Groups

ASSUME LimitsAssumption ==
  /\ LaneLimit \in [Features -> Nat]
  /\ Group \in [Features -> Groups \cup {None}]
  /\ GroupLimit \in [Groups -> Nat]
  /\ MaxAttempts \in Nat /\ MaxPerPass \in Nat

ASSUME WorkersAssumption ==
  /\ Owner \in [Threads -> Workers]
  /\ Version \in [Releases -> [Features -> Nat]]
  /\ Chain \in Seq(Features)
  /\ SlowRuns \in BOOLEAN
  /\ MaxCrashes \in Nat /\ MaxLosses \in Nat
  /\ MaxRetries \in Nat /\ MaxGroups \in Nat

VARIABLES
  doc,      \* status of each document row
  row,      \* the document_features table
  output,   \* what each processor has stored for each document
  intake,   \* statements an ingestion thread has still to issue for a document
  worker,   \* per process: position in the reconcile loop, drain state, release
  thread,   \* per pool thread: position in worker() and _process()
  request,  \* per document: next position of a group reprocess in Chain, 0 if none
  used      \* how much of each bound on the environment is spent

vars == <<doc, row, output, intake, worker, thread, request, used>>

-----------------------------------------------------------------------------
DocStatus == {"absent", "processing", "active", "failed", "gone"}

RowType ==
  [status   : {"none", "pending", "running", "done", "failed"},
   attempts : Nat,
   due      : BOOLEAN,    \* failed row: next_attempt_at is null or past
   stale    : BOOLEAN,    \* running row: last_attempt_at is before the lease cutoff
   version  : Nat]

NoRow == [status |-> "none", attempts |-> 0, due |-> TRUE, stale |-> FALSE, version |-> 0]

Fresh(s, v) == [status |-> s, attempts |-> 0, due |-> TRUE, stale |-> FALSE, version |-> v]

Pending(v) == Fresh("pending", v)
Done(v)    == Fresh("done", v)

(* A row whose status alone is rewritten                                     *)
Moved(x, s, due) ==
  [status |-> s, attempts |-> x.attempts, due |-> due, stale |-> FALSE, version |-> x.version]

WorkerType ==
  [pc      : {"down", "recovering", "idle", "draining"},
   drained : BOOLEAN,
   budget  : Nat,
   release : Releases]

At(pc, n) == [pc |-> pc, drained |-> FALSE, budget |-> 0, release |-> n]
Draining(n) == [pc |-> "draining", drained |-> FALSE, budget |-> MaxPerPass, release |-> n]

(* current: no prerequisite was rewritten since the run began                *)
ThreadType ==
  [pc : {"stopped", "looping", "claiming"}, row : {None}, current : {FALSE}]
  \cup [pc : {"running", "returned", "raised"}, row : Rows, current : BOOLEAN]

Idle(pc) == [pc |-> pc, row |-> None, current |-> FALSE]
Stopped  == Idle("stopped")
Looping  == Idle("looping")
Running(r) == [pc |-> "running", row |-> r, current |-> TRUE]

IntakeType ==
  [by   : Workers \cup {None},      \* the process the ingestion thread belongs to
   left : SUBSET ({"seed"} \cup Inline)]

NoIntake == [by |-> None, left |-> {}]

(* Every variable keeps its type.                                           *)
TypeOK ==
  /\ doc \in [Docs -> DocStatus]
  /\ row \in [Rows -> RowType]
  /\ output \in [Rows -> {"none", "current", "stale"}]
  /\ intake \in [Docs -> IntakeType]
  /\ worker \in [Workers -> WorkerType]
  /\ thread \in [Threads -> ThreadType]
  /\ request \in [Docs -> Nat]
  /\ used \in [crashes : Nat, losses : Nat, retries : Nat, groups : Nat]

Init ==
  /\ doc = [d \in Docs |-> "absent"]
  /\ row = [r \in Rows |-> NoRow]
  /\ output = [r \in Rows |-> "none"]
  /\ intake = [d \in Docs |-> NoIntake]
  /\ worker \in [Workers -> {At("down", n) : n \in Releases}]
  /\ thread = [t \in Threads |-> Stopped]
  /\ request = [d \in Docs |-> 0]
  /\ used = [crashes |-> 0, losses |-> 0, retries |-> 0, groups |-> 0]

-----------------------------------------------------------------------------
(* Operators of the claim query                                             *)

Prereqs(f) == {p \in Features : <<f, p>> \in Deps}

IsPrereq(f) == \E g \in Features : <<g, f>> \in Deps

RunningIn(table, f) == {r \in Rows : r[2] = f /\ table[r].status = "running"}

RunningGroup(table, g) == {r \in Rows : Group[r[2]] = g /\ table[r].status = "running"}

LaneOpen(table, f) == Cardinality(RunningIn(table, f)) < LaneLimit[f]

GroupOpen(table, f) ==
  Group[f] # None => Cardinality(RunningGroup(table, Group[f])) < GroupLimit[Group[f]]

Ready(table, r) == \A p \in Prereqs(r[2]) : table[<<r[1], p>>].status = "done"

(* pending / retryable-failed / stale-running                               *)
Due_NoReclaim(x) ==
  \/ x.status = "pending"
  \/ x.status = "failed" /\ x.attempts < MaxAttempts /\ x.due

Due_NoRetry(x) ==
  \/ x.status = "pending"
  \/ x.status = "running" /\ x.attempts < MaxAttempts /\ x.stale

Due(x) ==
  \/ x.status = "pending"
  \/ x.status = "failed" /\ x.attempts < MaxAttempts /\ x.due
  \/ x.status = "running" /\ x.attempts < MaxAttempts /\ x.stale

Claimable_NoLane(table) ==
  {r \in Rows : Due(table[r]) /\ GroupOpen(table, r[2]) /\ Ready(table, r)}

Claimable_NoGroup(table) ==
  {r \in Rows : Due(table[r]) /\ LaneOpen(table, r[2]) /\ Ready(table, r)}

Claimable(table) ==
  {r \in Rows : /\ Due(table[r])
                /\ LaneOpen(table, r[2])
                /\ GroupOpen(table, r[2])
                /\ Ready(table, r)}

(* ORDER BY: rows of prerequisite stages first; the creation order inside    *)
(* each class is left open                                                   *)
Best(rs) ==
  IF \E r \in rs : IsPrereq(r[2]) THEN {r \in rs : IsPrereq(r[2])} ELSE rs

(* The crash bound that runs before every claim: a stale running row without *)
(* attempts left is failed                                                   *)
CrashBound(table) ==
  [r \in Rows |->
     IF table[r].status = "running" /\ table[r].attempts >= MaxAttempts /\ table[r].stale
     THEN Moved(table[r], "failed", TRUE)
     ELSE table[r]]

Marked(x) ==
  [status |-> "running", attempts |-> x.attempts + 1, due |-> TRUE, stale |-> FALSE,
   version |-> x.version]

-----------------------------------------------------------------------------
(* Ingestion: the rows a document starts with                               *)

Issued(i, step) == IF i.left = {step} THEN NoIntake ELSE [i EXCEPT !.left = @ \ {step}]

(* _create_processing_document: the document row first, its stages after.    *)
(* A row of a document deleted meanwhile violates the foreign key: no row.   *)
AddProcessing(d, w) ==
  /\ Inline = {} /\ doc[d] = "absent" /\ worker[w].pc # "down"
  /\ doc' = [doc EXCEPT ![d] = "processing"]
  /\ intake' = [intake EXCEPT ![d] = [by |-> w, left |-> {"seed"}]]
  /\ UNCHANGED <<row, output, worker, thread, request, used>>

SeedForDocument(d, w) ==
  /\ intake[d].by = w /\ "seed" \in intake[d].left
  /\ intake' = [intake EXCEPT ![d] = Issued(@, "seed")]
  /\ row' = [r \in Rows |->
               IF r[1] = d /\ r[2] \in Registered /\ row[r].status = "none" /\ doc[d] # "gone"
               THEN Pending(Version[worker[w].release][r[2]])
               ELSE row[r]]
  /\ UNCHANGED <<doc, output, worker, thread, request, used>>

(* _activate: the active document row, then its indexes, then record_done    *)
(* for each of them                                                          *)
AddActive(d, w) ==
  /\ Inline # {} /\ doc[d] = "absent" /\ worker[w].pc # "down"
  /\ doc' = [doc EXCEPT ![d] = "active"]
  /\ intake' = [intake EXCEPT ![d] = [by |-> w, left |-> Inline]]
  /\ UNCHANGED <<row, output, worker, thread, request, used>>

RecordDone(d, f, w) ==
  /\ intake[d].by = w /\ f \in intake[d].left \cap Inline
  /\ intake' = [intake EXCEPT ![d] = Issued(@, f)]
  /\ IF doc[d] = "gone" THEN UNCHANGED <<row, output>>
     ELSE /\ row' = [row EXCEPT ![<<d, f>>] = Done(Version[worker[w].release][f])]
          /\ output' = [output EXCEPT ![<<d, f>>] = "current"]
  /\ UNCHANGED <<doc, worker, thread, request, used>>

(* fail_interrupted_processing and the terminal failures of a staged document *)
FailProcessing_AnyStatus(d) ==
  /\ doc[d] \in {"processing", "active"}
  /\ doc' = [doc EXCEPT ![d] = "failed"]
  /\ UNCHANGED <<row, output, intake, worker, thread, request, used>>

FailProcessing(d) ==
  /\ doc[d] = "processing"
  /\ doc' = [doc EXCEPT ![d] = "failed"]
  /\ UNCHANGED <<row, output, intake, worker, thread, request, used>>

(* A delete cascades to the ledger rows and the stored outputs              *)
Cascade(d) ==
  /\ doc' = [doc EXCEPT ![d] = "gone"]
  /\ row' = [r \in Rows |-> IF r[1] = d THEN NoRow ELSE row[r]]
  /\ output' = [r \in Rows |-> IF r[1] = d THEN "none" ELSE output[r]]

DeleteDocument(d) ==
  /\ doc[d] \in {"processing", "active", "failed"}
  /\ Cascade(d)
  /\ UNCHANGED <<intake, worker, thread, request, used>>

-----------------------------------------------------------------------------
(* The worker process and its reconcile loop                                *)

Mine(w) == {t \in Threads : Owner[t] = w}

Start(w) ==
  /\ worker[w].pc = "down"
  /\ \E n \in Releases : /\ n >= worker[w].release
                         /\ worker' = [worker EXCEPT ![w] = At("recovering", n)]
  /\ UNCHANGED <<doc, row, output, intake, thread, request, used>>

(* recover_running; a database error leaves the rows to the lease            *)
RequeueRunning(w) ==
  /\ worker[w].pc = "recovering"
  /\ worker' = [worker EXCEPT ![w].pc = "idle"]
  /\ \/ /\ row' = [r \in Rows |->
                     IF row[r].status = "running"
                     THEN Moved(row[r], "pending", TRUE)
                     ELSE row[r]]
        /\ UNCHANGED used
     \/ /\ used.losses < MaxLosses
        /\ used' = [used EXCEPT !.losses = @ + 1]
        /\ UNCHANGED row
  /\ UNCHANGED <<doc, output, intake, thread, request>>

(* ensure_for_active, one transaction: missing rows are inserted, completed  *)
(* rows of an older version are re-queued, the extract marker is healed      *)
Ensured(n) ==
  [r \in Rows |->
     LET v == Version[n][r[2]] IN
     CASE doc[r[1]] = "active" /\ row[r].status = "none" /\ r[2] \in Registered -> Pending(v)
       [] doc[r[1]] = "active" /\ row[r].status = "none" /\ r[2] = Extract
            /\ Extract \notin Registered -> Done(1)
       [] row[r].status = "done" /\ r[2] \in Registered /\ row[r].version < v -> Pending(v)
       [] OTHER -> row[r]]

(* reconcile: a pass starts with ensure_for_active and a fresh pool          *)
BeginPass(w) ==
  /\ worker[w].pc = "idle"
  /\ row' = Ensured(worker[w].release)
  /\ worker' = [worker EXCEPT ![w] = Draining(@.release)]
  /\ thread' = [t \in Threads |-> IF t \in Mine(w) THEN Looping ELSE thread[t]]
  /\ UNCHANGED <<doc, output, intake, request, used>>

(* The pool is joined before reconcile returns                              *)
EndPass(w) ==
  /\ worker[w].pc = "draining"
  /\ \A t \in Mine(w) : thread[t].pc = "stopped"
  /\ worker' = [worker EXCEPT ![w] = At("idle", @.release)]
  /\ UNCHANGED <<doc, row, output, intake, thread, request, used>>

(* SIGKILL or OOM: the threads go with the process                           *)
Crash(w) ==
  /\ used.crashes < MaxCrashes
  /\ worker[w].pc # "down"
  /\ worker' = [worker EXCEPT ![w] = At("down", @.release)]
  /\ thread' = [t \in Threads |-> IF t \in Mine(w) THEN Stopped ELSE thread[t]]
  /\ intake' = [d \in Docs |-> IF intake[d].by = w THEN NoIntake ELSE intake[d]]
  /\ used' = [used EXCEPT !.crashes = @ + 1]
  /\ UNCHANGED <<doc, row, output, request>>

-----------------------------------------------------------------------------
(* A pool thread: worker() of _drain_concurrent                             *)

Take_AnyBudget(t) ==
  LET w == Owner[t] IN
  /\ thread[t].pc = "looping"
  /\ IF worker[w].drained
     THEN /\ thread' = [thread EXCEPT ![t] = Stopped]
          /\ UNCHANGED worker
     ELSE /\ thread' = [thread EXCEPT ![t] = Idle("claiming")]
          /\ worker' = [worker EXCEPT ![w].budget = @ - 1]
  /\ UNCHANGED <<doc, row, output, intake, request, used>>

Take(t) ==
  LET w == Owner[t] IN
  /\ thread[t].pc = "looping"
  /\ IF worker[w].drained \/ worker[w].budget = 0
     THEN /\ thread' = [thread EXCEPT ![t] = Stopped]
          /\ UNCHANGED worker
     ELSE /\ thread' = [thread EXCEPT ![t] = Idle("claiming")]
          /\ worker' = [worker EXCEPT ![w].budget = @ - 1]
  /\ UNCHANGED <<doc, row, output, intake, request, used>>

(* claim_next, serialized per tenant by an advisory lock                    *)
Claim(t) ==
  LET table == CrashBound(row) IN
  /\ thread[t].pc = "claiming"
  /\ \/ /\ Claimable(table) = {}
        /\ row' = table
        /\ worker' = [worker EXCEPT ![Owner[t]].drained = TRUE]
        /\ thread' = [thread EXCEPT ![t] = Stopped]
     \/ \E r \in Best(Claimable(table)) :
          /\ row' = [table EXCEPT ![r] = Marked(@)]
          /\ thread' = [thread EXCEPT ![t] = Running(r)]
          /\ UNCHANGED worker
  /\ UNCHANGED <<doc, output, intake, request, used>>

(* The output of row r is rewritten by thread t: what was built from it, or  *)
(* is being built from it, is out of date                                    *)
Rewrite(t, r) ==
  LET dependents == {s \in Rows : s[1] = r[1] /\ <<s[2], r[2]>> \in Deps} IN
  /\ output' = [s \in Rows |->
                  CASE s = r -> IF thread[t].current THEN "current" ELSE "stale"
                    [] s \in dependents /\ output[s] = "current" -> "stale"
                    [] OTHER -> output[s]]
  /\ thread' = [u \in Threads |->
                  IF u = t THEN [thread[t] EXCEPT !.pc = "returned"]
                  ELSE IF thread[u].row \in dependents
                       THEN [thread[u] EXCEPT !.current = FALSE] ELSE thread[u]]

(* processor.process returns.  Extraction acts on a processing document only *)
(* and may activate it, fail it, or drop it as a duplicate; every other      *)
(* processor rewrites its output if the document has content.  A feature     *)
(* without a processor is only marked.                                       *)
ProcessReturns(t) ==
  LET r == thread[t].row
      d == r[1] IN
  /\ thread[t].pc = "running"
  /\ \/ /\ r[2] = Extract /\ r[2] \in Registered /\ doc[d] = "processing"
        /\ \/ doc' = [doc EXCEPT ![d] = "active"] /\ Rewrite(t, r) /\ UNCHANGED row
           \/ /\ doc' = [doc EXCEPT ![d] = "failed"]
              /\ thread' = [thread EXCEPT ![t].pc = "returned"]
              /\ UNCHANGED <<row, output>>
           \/ /\ Cascade(d)
              /\ thread' = [thread EXCEPT ![t].pc = "returned"]
     \/ /\ r[2] # Extract /\ r[2] \in Registered /\ doc[d] = "active"
        /\ Rewrite(t, r)
        /\ UNCHANGED <<doc, row>>
     \/ /\ r[2] \in Registered => doc[d] \notin
                                    (IF r[2] = Extract THEN {"processing"} ELSE {"active"})
        /\ thread' = [thread EXCEPT ![t].pc = "returned"]
        /\ UNCHANGED <<doc, row, output>>
  /\ UNCHANGED <<intake, worker, request, used>>

(* processor.process raises, before or after it deleted its prior output     *)
ProcessRaises_Swallowed(t) ==
  LET r == thread[t].row IN
  /\ thread[t].pc = "running"
  /\ r[2] \in Registered
  /\ thread' = [thread EXCEPT ![t].pc = "returned"]
  /\ \/ UNCHANGED output
     \/ r[2] # Extract /\ output' = [output EXCEPT ![r] = "none"]
  /\ UNCHANGED <<doc, row, intake, worker, request, used>>

ProcessRaises(t) ==
  LET r == thread[t].row IN
  /\ thread[t].pc = "running"
  /\ r[2] \in Registered
  /\ thread' = [thread EXCEPT ![t].pc = "raised"]
  /\ \/ UNCHANGED output
     \/ r[2] # Extract /\ output' = [output EXCEPT ![r] = "none"]
  /\ UNCHANGED <<doc, row, intake, worker, request, used>>

(* mark_done and mark_failed: by row id, whatever the row's status is now    *)
MarkDone(t) ==
  LET r == thread[t].row
      v == IF r[2] \in Registered THEN Version[worker[Owner[t]].release][r[2]]
           ELSE row[r].version IN
  /\ thread[t].pc = "returned"
  /\ row' = [row EXCEPT ![r] =
               IF @.status = "none" THEN @
               ELSE [Moved(@, "done", TRUE) EXCEPT !.version = v]]
  /\ thread' = [thread EXCEPT ![t] = Looping]
  /\ UNCHANGED <<doc, output, intake, worker, request, used>>

MarkFailed(t) ==
  LET r == thread[t].row IN
  /\ thread[t].pc = "raised"
  /\ row' = [row EXCEPT ![r] =
               IF @.status = "none" THEN @
               ELSE Moved(@, "failed", FALSE)]
  /\ thread' = [thread EXCEPT ![t] = Looping]
  /\ UNCHANGED <<doc, output, intake, worker, request, used>>

(* A database error in a claim ends the thread; one in mark_done is handled   *)
(* as a failed run; one in mark_failed, or in the mark_done of a feature      *)
(* without a processor, ends the thread and leaves the row running           *)
DatabaseError(t) ==
  LET handled == thread[t].pc = "returned" /\ thread[t].row[2] \in Registered IN
  /\ used.losses < MaxLosses
  /\ used' = [used EXCEPT !.losses = @ + 1]
  /\ thread[t].pc \in {"claiming", "returned", "raised"}
  /\ \/ handled /\ thread' = [thread EXCEPT ![t].pc = "raised"]
     \/ ~handled /\ thread' = [thread EXCEPT ![t] = Stopped]
  /\ UNCHANGED <<doc, row, output, intake, worker, request>>

-----------------------------------------------------------------------------
(* Time                                                                     *)

BackoffElapses(r) ==
  /\ row[r].status = "failed" /\ ~row[r].due
  /\ row' = [row EXCEPT ![r].due = TRUE]
  /\ UNCHANGED <<doc, output, intake, worker, thread, request, used>>

(* Threads between the claim of a row and the end of its run                *)
Runners(r) == {t \in Threads : thread[t].row = r}

LeaseExpires(r) ==
  /\ row[r].status = "running" /\ ~row[r].stale
  /\ SlowRuns \/ Runners(r) = {}
  /\ row' = [row EXCEPT ![r].stale = TRUE]
  /\ UNCHANGED <<doc, output, intake, worker, thread, request, used>>

-----------------------------------------------------------------------------
(* The API: retry of one row, reprocess of a group                          *)

(* reset refuses a running row                                              *)
Reset(r) ==
  row' = [row EXCEPT ![r] = IF @.status \in {"none", "running"} THEN @ ELSE Pending(@.version)]

RetryFeature_Running(r) ==
  /\ used.retries < MaxRetries
  /\ row[r].status # "none"
  /\ used' = [used EXCEPT !.retries = @ + 1]
  /\ row' = [row EXCEPT ![r] = Pending(@.version)]
  /\ UNCHANGED <<doc, output, intake, worker, thread, request>>

RetryFeature(r) ==
  /\ used.retries < MaxRetries
  /\ row[r].status \notin {"none", "running"}
  /\ used' = [used EXCEPT !.retries = @ + 1]
  /\ Reset(r)
  /\ UNCHANGED <<doc, output, intake, worker, thread, request>>

BeginReprocess(d) ==
  /\ used.groups < MaxGroups /\ Chain # <<>>
  /\ doc[d] \notin {"absent", "gone"} /\ request[d] = 0
  /\ used' = [used EXCEPT !.groups = @ + 1]
  /\ request' = [request EXCEPT ![d] = 1]
  /\ UNCHANGED <<doc, row, output, intake, worker, thread>>

ReprocessNext(d) ==
  /\ request[d] \in DOMAIN Chain
  /\ Reset(<<d, Chain[request[d]]>>)
  /\ request' = [request EXCEPT ![d] = IF @ < Len(Chain) THEN @ + 1 ELSE 0]
  /\ UNCHANGED <<doc, output, intake, worker, thread, used>>

-----------------------------------------------------------------------------
Ingest(d) ==
  \/ FailProcessing(d)
  \/ DeleteDocument(d)
  \/ \E w \in Workers : \/ AddProcessing(d, w)
                        \/ SeedForDocument(d, w)
                        \/ AddActive(d, w)
                        \/ \E f \in Inline : RecordDone(d, f, w)

Loop(w) == Start(w) \/ RequeueRunning(w) \/ BeginPass(w) \/ EndPass(w)

Step(t) ==
  \/ Take(t)
  \/ Claim(t)
  \/ ProcessReturns(t)
  \/ ProcessRaises(t)
  \/ MarkDone(t)
  \/ MarkFailed(t)

Api(d) == BeginReprocess(d) \/ ReprocessNext(d)

Next ==
  \/ \E d \in Docs : Ingest(d) \/ Api(d)
  \/ \E w \in Workers : Loop(w) \/ Crash(w)
  \/ \E t \in Threads : Step(t) \/ DatabaseError(t)
  \/ \E r \in Rows : BackoffElapses(r) \/ LeaseExpires(r) \/ RetryFeature(r)

Spec == Init /\ [][Next]_vars

(* The process is supervised (restart policy), its loop and its threads run, *)
(* every run ends, and time passes.  Nothing is assumed of the users, of the *)
(* ingestion thread, of crashes or of database errors.                       *)
Fairness ==
  /\ \A w \in Workers : WF_vars(Loop(w))
  /\ \A t \in Threads : WF_vars(Step(t))
  /\ \A r \in Rows : WF_vars(BackoffElapses(r)) /\ WF_vars(LeaseExpires(r))

FairSpec == Spec /\ Fairness

-----------------------------------------------------------------------------
(* Properties                                                               *)

(* A feature's lane is never exceeded by the rows the ledger shows as         *)
(* running, however many workers claim and whatever re-queues rows meanwhile  *)
(* (claim_next counts and marks under one advisory lock).                    *)
LaneCap == \A f \in Features : Cardinality(RunningIn(row, f)) <= LaneLimit[f]

(* The same for a budget that features share: LLM-backed stages together      *)
(* never hold more running rows than the budget.                            *)
GroupCap == \A g \in Groups : Cardinality(RunningGroup(row, g)) <= GroupLimit[g]

(* No row is run by two threads at once: the claim, the lease, the refusal   *)
(* of reset on a running row and the start-up requeue together keep a        *)
(* document's feature to a single run.                                      *)
NoDoubleRun ==
  \A t, u \in Threads : thread[t].row # None /\ thread[t].row = thread[u].row => t = u

(* A feature shown as done for an active document has stored its output: no  *)
(* late run, failed run or retry has cleared it behind the ledger's back.    *)
DoneMeansBuilt ==
  \A r \in Rows : row[r].status = "done" /\ doc[r[1]] = "active" /\ r[2] \in Registered
                 => output[r] # "none"

(* A finished row goes back to work only by being re-queued or deleted; a    *)
(* result that arrives late never turns it into a failure or a run.          *)
FinishedStaysFinished ==
  [][\A r \in Rows : row[r].status = "done"
                     => row'[r].status \in {"done", "pending", "none"}]_vars

(* What the documents table promises: deletes, duplicates, failures and late   *)
(* activations of the stages follow the life cycle of a document.            *)
Lifecycle == INSTANCE DocumentLifecycle WITH Content <- [d \in Docs |-> d]

Implements == Lifecycle!Spec

(* Once attempts reach max_attempts a row is never run again (claim_next's   *)
(* crash bound).  Not so: a row re-queued at each start passes the bound.    *)
AttemptsBounded == \A r \in Rows : row[r].attempts <= MaxAttempts

Open(r) ==
  \/ row[r].status \in {"pending", "running"}
  \/ row[r].status = "failed" /\ row[r].attempts < MaxAttempts

(* Every open row whose prerequisites are done is eventually worked off:     *)
(* done, failed for good, or deleted.                                       *)
NoStuckRow == \A r \in Rows : []<>(~Open(r) \/ ~Ready(row, r))

(* After a group reprocess, once a document's rows are all done again, every *)
(* feature of the group is built from what its prerequisites now hold.  Not  *)
(* so: reset leaves a graph stage that is running to finish on old entities. *)
Rebuilt ==
  \A d \in Docs :
    (/\ doc[d] = "active" /\ request[d] = 0 /\ intake[d] = NoIntake
     /\ \A f \in Features : row[<<d, f>>].status = "done")
    => \A f \in Registered : output[<<d, f>>] = "current"
=============================================================================
