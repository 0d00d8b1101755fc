------------------------------- MODULE Intake -------------------------------
(***************************************************************************)
(* Intake and extraction of one tenant's files in one worker process: the   *)
(* ingestion job and the file as process_file moves it through the folders, *)
(* the staged hand-off to a processing document, the extract stage that     *)
(* activates it, the recovery of jobs and documents that a dead worker left *)
(* behind, and crashes between any two of these steps.                      *)
(*                                                                         *)
(* A file is its content and the folder it lies in; os.replace moves it in  *)
(* one step.  A job makes at most one document of its own (staged, or inline *)
(* and active at once), which is named by the job; the terminal rows that   *)
(* record a failure, a duplicate or a quarantine are kept apart.            *)
(***************************************************************************)
EXTENDS Naturals, FiniteSets

CONSTANTS
  Files,       \* the files that are dropped
  Content,     \* the content (sha256) of each file
  Jobs,        \* job identifiers
  Ingesters,   \* threads of the intake pool
  Extractors,  \* reconciler threads that run the extract stage
  Modes,       \* settings of staged_ingestion a deployment may have
  MaxAttempts, \* document_features.max_attempts
  MaxStale,    \* MAX_STALE_RECOVERIES
  SlowRuns,    \* TRUE: an extraction may outlast its lease
  MaxCrashes,  \* bound: process deaths
  MaxErrors,   \* bound: database errors outside of content extraction
  MaxRetries,  \* bound: manual retries of an extract row
  MaxRequests, \* bound: reingests, job retries, deletes of a terminal document
  NoFile, NoJob

ASSUME IntakeAssumption ==
  /\ IsFiniteSet(Jobs)
  /\ NoFile \notin Files /\ NoJob \notin Jobs
  /\ Modes \subseteq BOOLEAN /\ SlowRuns \in BOOLEAN
  /\ MaxAttempts \in Nat \ {0} /\ MaxStale \in Nat
  /\ MaxCrashes \in Nat /\ MaxErrors \in Nat /\ MaxRetries \in Nat /\ MaxRequests \in Nat

VARIABLES
  file,      \* where each file lies
  job,       \* the ingestion_jobs table
  doc,       \* status of the document each job made
  aged,      \* jobs, and documents, created before the recovery cutoff
  terminal,  \* the terminal document rows recorded for each job
  extract,   \* the extract row of each document's ledger
  intake,    \* per intake thread: position in process_file
  runner,    \* per extract thread: position in ExtractStage.process
  sweep,     \* position of the recovery sweep
  request,   \* position of a reingest in the API process
  up,        \* the worker process is alive
  staged,    \* TRUE: staged ingestion; FALSE: the inline pipeline
  used       \* how much of each bound is spent

vars == <<file, job, doc, aged, terminal, extract, intake, runner, sweep, request, up, staged,
          used>>

-----------------------------------------------------------------------------
Folders == {"work", "active", "failed", "duplicates", "quarantine"}

(* Folders of a job or a document carry its identifier                       *)
In(folder, j) == [folder |-> folder, of |-> j]
Outside == In("outside", NoJob)
Ingest  == In("ingest", NoJob)
Lost    == In("lost", NoJob)      \* removed with its folder by the program
Purged  == In("purged", NoJob)    \* removed at the user's request
Held    == In("held", NoJob)      \* bytes a reingest has read and not yet written

Place == {Outside, Ingest, Lost, Purged, Held} \cup [folder : Folders, of : Jobs]

JobType ==
  [status : {"unused", "open", "active", "failed", "duplicate", "quarantined", "recovered",
             "deleted"},
   file   : Files \cup {NoFile},
   source : {"ingest", "work"},   \* the stored source_path
   hashed : BOOLEAN]              \* the stored sha256

Unused == [status |-> "unused", file |-> NoFile, source |-> "ingest", hashed |-> FALSE]

(* A document goes by the program, "gone", or by a user, "deleted"           *)
DocStatus == {"absent", "processing", "active", "failed", "gone", "deleted"}

Outcome == {"active", "failed", "duplicate", "quarantined"}

ExtractType == [status : {"none", "pending", "running", "done", "failed"}, attempts : Nat]
NoRow == [status |-> "none", attempts |-> 0]

(* guarded: the thread is inside the try of process_file                     *)
IntakeType ==
  [pc : {"idle"}, job : {NoJob}, outcome : {"active"}, guarded : {TRUE}]
  \cup [pc : {"added", "moved", "identified", "creating", "seeding", "extracting", "written",
              "indexing", "recording_done", "closing"},
        job : Jobs, outcome : {"active"}, guarded : BOOLEAN]
  \cup [pc : {"restoring", "relocating", "recording", "closing"},
        job : Jobs, outcome : Outcome \ {"active"}, guarded : BOOLEAN]

RunnerType ==
  [pc : {"idle"}, job : {NoJob}]
  \cup [pc  : {"claimed", "resolving", "reading", "writing", "written", "dropping", "deleting",
               "discarding", "returned", "raised"},
        job : Jobs]

(* strike: the job at hand has used up its re-queues                         *)
SweepType ==
  [pc   : {"idle", "jobs", "docs"},
   jobs : SUBSET Jobs, docs : SUBSET Jobs, job : {NoJob}, strike : {FALSE}]
  \cup [pc   : {"moving", "recording", "updating", "clearing"},
        jobs : SUBSET Jobs, docs : SUBSET Jobs, job : Jobs, strike : BOOLEAN]
  \cup [pc   : {"failing"},
        jobs : SUBSET Jobs, docs : SUBSET Jobs, job : Jobs, strike : {FALSE}]

(* died: the API process has died while a reingest held the bytes            *)
RequestType ==
  [pc : {"idle"}, job : {NoJob}, folder : {"active"}, copy : {NoFile}, died : BOOLEAN]
  \cup [pc : {"read", "purged"}, job : Jobs, folder : Folders \ {"work"}, copy : Files,
        died : BOOLEAN]

Resting   == [pc |-> "idle", job |-> NoJob, outcome |-> "active", guarded |-> TRUE]
Free      == [pc |-> "idle", job |-> NoJob]
NoSweep   == [pc |-> "idle", jobs |-> {}, docs |-> {}, job |-> NoJob, strike |-> FALSE]
NoRequest == [pc |-> "idle", job |-> NoJob, folder |-> "active", copy |-> NoFile, died |-> FALSE]

Types ==
  /\ file \in [Files -> Place]
  /\ job \in [Jobs -> JobType]
  /\ doc \in [Jobs -> DocStatus]
  /\ aged \in [jobs : SUBSET Jobs, docs : SUBSET Jobs]
  /\ terminal \in [Jobs -> SUBSET {"failed", "duplicate", "quarantined", "gone", "deleted"}]
  /\ extract \in [Jobs -> ExtractType]
  /\ intake \in [Ingesters -> IntakeType]
  /\ runner \in [Extractors -> RunnerType]
  /\ sweep \in SweepType /\ request \in RequestType
  /\ up \in BOOLEAN /\ staged \in Modes
  /\ used \in [crashes : Nat, errors : Nat, retries : Nat, requests : Nat]

(* Every variable keeps its type, and an extract row is claimed beyond        *)
(* max_attempts at most once for each death of a process: start-up puts a     *)
(* running row back in the queue with its attempts, a retry starts afresh, and *)
(* no lease, late result or failure grants another run (claim_next,          *)
(* requeue_running).                                                        *)
TypeOK ==
  /\ Types
  /\ \A j \in Jobs : extract[j].attempts <= MaxAttempts + used.crashes

Init ==
  /\ file = [f \in Files |-> Outside]
  /\ job = [j \in Jobs |-> Unused]
  /\ doc = [j \in Jobs |-> "absent"]
  /\ aged = [jobs |-> {}, docs |-> {}]
  /\ terminal = [j \in Jobs |-> {}]
  /\ extract = [j \in Jobs |-> NoRow]
  /\ intake = [i \in Ingesters |-> Resting]
  /\ runner = [x \in Extractors |-> Free]
  /\ sweep = NoSweep /\ request = NoRequest
  /\ up = TRUE /\ staged \in Modes
  /\ used = [crashes |-> 0, errors |-> 0, retries |-> 0, requests |-> 0]

-----------------------------------------------------------------------------
(* Tables and folders                                                       *)

ContentOf(j) == Content[job[j].file]

SameContent(j) == {k \in Jobs : job[k].file # NoFile /\ ContentOf(k) = ContentOf(j)}

Gone(j) == doc[j] \in {"gone", "deleted"}
DocRemoved(j) == [doc EXCEPT ![j] = IF @ = "deleted" THEN @ ELSE "gone"]

(* find_unfinished_by_sha256                                                *)
Unfinished(j) == {k \in SameContent(j) : doc[k] \in {"processing", "active"}}

(* find_active_by_sha256, and uq_documents_active_sha                        *)
Served(j) == {k \in SameContent(j) : doc[k] = "active"}

(* The file of job j as move and rmtree change its place                     *)
Move(j, from, to) ==
  file' = [file EXCEPT ![job[j].file] = IF @ \in from THEN to ELSE @]

Rmtree(folder, j) ==
  file' = [f \in Files |-> IF file[f] = In(folder, j) THEN Lost ELSE file[f]]

-----------------------------------------------------------------------------
(* The user                                                                 *)

Upload(f) ==
  /\ file[f] = Outside
  /\ file' = [file EXCEPT ![f] = Ingest]
  /\ UNCHANGED <<job, doc, aged, terminal, extract, intake, runner, sweep, request, up, staged, used>>

(* delete_document: the job rows that name the document, the row, its ledger, *)
(* then the folder storage_path names; only an activated document has one    *)
Delete(j) ==
  /\ doc[j] \in {"processing", "active", "failed"}
  /\ doc' = [doc EXCEPT ![j] = "deleted"]
  /\ extract' = [extract EXCEPT ![j] = NoRow]
  /\ job' = [job EXCEPT ![j].status = IF @ = "active" THEN "deleted" ELSE @]
  /\ IF doc[j] = "active" THEN Move(j, {In("active", j)}, Purged) ELSE UNCHANGED file
  /\ UNCHANGED <<aged, terminal, intake, runner, sweep, request, up, staged, used>>

(* retry_document_feature on the extract row                                 *)
RetryExtract(j) ==
  /\ used.retries < MaxRetries
  /\ extract[j].status \notin {"none", "running"}
  /\ extract' = [extract EXCEPT ![j] = [status |-> "pending", attempts |-> 0]]
  /\ used' = [used EXCEPT !.retries = @ + 1]
  /\ UNCHANGED <<file, job, doc, aged, terminal, intake, runner, sweep, request, up, staged>>

(* One more request of those that are bounded                                *)
Request ==
  /\ used.requests < MaxRequests
  /\ used' = [used EXCEPT !.requests = @ + 1]

(* The folder of a terminal row, and the row as the job and the table have it *)
FolderOf(outcome) == CASE outcome = "failed" -> "failed"
                       [] outcome = "duplicate" -> "duplicates"
                       [] OTHER -> "quarantine"

RemoveTerminal(j, outcome, mark, place) ==
  /\ terminal' = [terminal EXCEPT ![j] = (@ \ {outcome}) \cup {mark}]
  /\ job' = [job EXCEPT ![j].status = IF @ = outcome THEN "deleted" ELSE @]
  /\ Move(j, {In(FolderOf(outcome), j)}, place)

(* delete_document of a terminal row                                        *)
DeleteTerminal(j, outcome) ==
  /\ Request
  /\ outcome \in terminal[j]
  /\ RemoveTerminal(j, outcome, "deleted", Purged)
  /\ UNCHANGED <<doc, aged, extract, intake, runner, sweep, request, up, staged>>

(* retry_job: a file that still lies at the stored source path goes back to   *)
(* the ingest folder.  _fail and _quarantine have moved theirs, so it is     *)
(* there only if an extract run puts it back meanwhile, or for a tombstone   *)
(* whose file waits in the ingest folder, which is renamed in place.         *)
RetryJob(j) ==
  /\ Request
  /\ job[j].status \in {"failed", "quarantined", "recovered"}
  /\ job[j].source = "work" /\ file[job[j].file] = In("work", j)
  /\ Move(j, {In("work", j)}, Ingest)
  /\ UNCHANGED <<job, doc, aged, terminal, extract, intake, runner, sweep, request, up, staged>>

(* reingest_document: the bytes are read, rows and folder removed, the bytes *)
(* written into the ingest folder as a file of their own                     *)
ReadOriginal(j, folder, g) ==
  /\ Request
  /\ request.pc = "idle"
  /\ \/ folder = "active" /\ doc[j] = "active"
     \/ \E outcome \in terminal[j] \cap Outcome : folder = FolderOf(outcome)
  /\ file[job[j].file] = In(folder, j)
  /\ file[g] = Outside /\ Content[g] = ContentOf(j)
  /\ file' = [file EXCEPT ![g] = Held]
  /\ request' = [request EXCEPT !.pc = "read", !.job = j, !.folder = folder, !.copy = g]
  /\ UNCHANGED <<job, doc, aged, terminal, extract, intake, runner, sweep, up, staged>>

PurgeOriginal ==
  LET j == request.job IN
  /\ request.pc = "read"
  /\ IF request.folder = "active"
     THEN /\ doc' = DocRemoved(j)
          /\ extract' = [extract EXCEPT ![j] = NoRow]
          /\ job' = [job EXCEPT ![j].status = IF @ = "active" THEN "deleted" ELSE @]
          /\ Move(j, {In("active", j)}, Lost)
          /\ UNCHANGED terminal
     ELSE /\ \E outcome \in Outcome \ {"active"} :
               /\ request.folder = FolderOf(outcome)
               /\ RemoveTerminal(j, outcome, "gone", Lost)
          /\ UNCHANGED <<doc, extract>>
  /\ request' = [request EXCEPT !.pc = "purged"]
  /\ UNCHANGED <<aged, intake, runner, sweep, up, staged, used>>

(* Mutant: the original is read after its folder has been removed.           *)
WriteBack_ReadsLate ==
  /\ request.pc = "purged"
  /\ file' = [file EXCEPT ![request.copy] = Lost]
  /\ request' = [NoRequest EXCEPT !.died = request.died]
  /\ UNCHANGED <<job, doc, aged, terminal, extract, intake, runner, sweep, up, staged, used>>

WriteBack ==
  /\ request.pc = "purged"
  /\ file' = [file EXCEPT ![request.copy] = Ingest]
  /\ request' = [NoRequest EXCEPT !.died = request.died]
  /\ UNCHANGED <<job, doc, aged, terminal, extract, intake, runner, sweep, up, staged, used>>

(* The API process dies with the bytes                                       *)
ApiCrash ==
  /\ request.pc # "idle" /\ used.crashes < MaxCrashes
  /\ file' = [file EXCEPT ![request.copy] = Lost]
  /\ request' = [NoRequest EXCEPT !.died = TRUE]
  /\ used' = [used EXCEPT !.crashes = @ + 1]
  /\ UNCHANGED <<job, doc, aged, terminal, extract, intake, runner, sweep, up, staged>>

-----------------------------------------------------------------------------
(* process_file                                                             *)

Goto(i, pc) == intake' = [intake EXCEPT ![i].pc = pc]
End(i, pc, outcome) == intake' = [intake EXCEPT ![i].pc = pc, ![i].outcome = outcome]

(* job_repo.add; the scan runs on the thread that also runs the sweep        *)
AddJob(i, f, j) ==
  /\ up /\ sweep.pc = "idle" /\ intake[i].pc = "idle"
  /\ file[f] = Ingest /\ job[j].status = "unused"
  /\ \A k \in Ingesters : intake[k].pc # "idle" => job[intake[k].job].file # f
  /\ job' = [job EXCEPT ![j] = [status |-> "open", file |-> f, source |-> "ingest",
                                hashed |-> FALSE]]
  /\ intake' = [intake EXCEPT ![i] = [pc |-> "added", job |-> j, outcome |-> "active",
                                      guarded |-> TRUE]]
  /\ UNCHANGED <<file, doc, aged, terminal, extract, runner, sweep, request, up, staged, used>>

TakeFile(i) ==
  LET j == intake[i].job IN
  /\ intake[i].pc = "added"
  /\ Move(j, {Ingest}, In("work", j))
  /\ Goto(i, "moved")
  /\ UNCHANGED <<job, doc, aged, terminal, extract, runner, sweep, request, up, staged, used>>

(* hash, sniff the type, and only now store the new path                     *)
Identify(i) ==
  LET j == intake[i].job IN
  /\ intake[i].pc = "moved"
  /\ job' = [job EXCEPT ![j].source = "work", ![j].hashed = TRUE]
  /\ Goto(i, "identified")
  /\ UNCHANGED <<file, doc, aged, terminal, extract, runner, sweep, request, up, staged, used>>

(* the duplicate check, then the security policy                             *)
Decide(i) ==
  LET j == intake[i].job IN
  /\ intake[i].pc = "identified"
  /\ IF Unfinished(j) # {} THEN End(i, "relocating", "duplicate")
     ELSE \/ Goto(i, IF staged THEN "creating" ELSE "extracting")
          \/ End(i, "relocating", "failed")
          \/ End(i, "relocating", "quarantined")
  /\ UNCHANGED <<file, job, doc, aged, terminal, extract, runner, sweep, request, up, staged, used>>

(* _create_processing_document: the row, the ledger, then the job            *)
CreateDocument(i) ==
  LET j == intake[i].job IN
  /\ intake[i].pc = "creating"
  /\ doc' = [doc EXCEPT ![j] = "processing"]
  /\ Goto(i, "seeding")
  /\ UNCHANGED <<file, job, aged, terminal, extract, runner, sweep, request, up, staged, used>>

SeedLedger(i) ==
  LET j == intake[i].job IN
  /\ intake[i].pc = "seeding"
  /\ ~Gone(j)                        \* else the foreign key raises: see Raise
  /\ extract' = [extract EXCEPT ![j] = [status |-> "pending", attempts |-> 0]]
  /\ Goto(i, "closing")
  /\ UNCHANGED <<file, job, doc, aged, terminal, runner, sweep, request, up, staged, used>>

(* _activate: extraction, the artifacts, the active row, its indexes.  A      *)
(* limit of the extraction is failed inside the try, any other error by its   *)
(* handler.                                                                 *)
Extract(i) ==
  LET j == intake[i].job IN
  /\ intake[i].pc = "extracting"
  /\ \/ /\ Move(j, {In("work", j)}, In("active", j))
        /\ Goto(i, "written")
     \/ /\ \E guarded \in BOOLEAN :
             intake' = [intake EXCEPT ![i] = [pc |-> "relocating", job |-> j,
                                              outcome |-> "failed", guarded |-> guarded]]
        /\ UNCHANGED file
  /\ UNCHANGED <<job, doc, aged, terminal, extract, runner, sweep, request, up, staged, used>>

Publish(i) ==
  LET j == intake[i].job IN
  /\ intake[i].pc = "written"
  /\ IF Served(j) = {}
     THEN doc' = [doc EXCEPT ![j] = "active"] /\ Goto(i, "indexing") /\ UNCHANGED file
     ELSE Rmtree("active", j) /\ End(i, "relocating", "duplicate") /\ UNCHANGED doc
  /\ UNCHANGED <<job, aged, terminal, extract, runner, sweep, request, up, staged, used>>

(* a failed indexing takes the document back                                 *)
Index(i) ==
  LET j == intake[i].job IN
  /\ intake[i].pc = "indexing"
  /\ \/ Goto(i, "recording_done") /\ UNCHANGED doc
     \/ /\ doc' = DocRemoved(j)
        /\ End(i, "restoring", "failed")
  /\ UNCHANGED <<file, job, aged, terminal, extract, runner, sweep, request, up, staged, used>>

(* _record_features_done                                                    *)
RecordDone(i) ==
  LET j == intake[i].job IN
  /\ intake[i].pc = "recording_done"
  /\ ~Gone(j)
  /\ extract' = [extract EXCEPT ![j] = [status |-> "done", attempts |-> 0]]
  /\ Goto(i, "closing")
  /\ UNCHANGED <<file, job, doc, aged, terminal, runner, sweep, request, up, staged, used>>

(* _fail, _handle_duplicate, _quarantine: the source if it is still there,   *)
(* the terminal row, then the job                                           *)
Relocate(i) ==
  LET j == intake[i].job
      folder == FolderOf(intake[i].outcome) IN
  /\ \/ intake[i].pc = "relocating" /\ Move(j, {Ingest, In("work", j)}, In(folder, j))
     \/ intake[i].pc = "restoring" /\ Move(j, {In("active", j)}, In(folder, j))
  /\ Goto(i, "recording")
  /\ UNCHANGED <<job, doc, aged, terminal, extract, runner, sweep, request, up, staged, used>>

RecordTerminal_Skipped(i) ==
  /\ intake[i].pc = "recording"
  /\ Goto(i, "closing")
  /\ UNCHANGED <<file, job, doc, aged, terminal, extract, runner, sweep, request, up, staged, used>>

RecordTerminal(i) ==
  LET j == intake[i].job IN
  /\ intake[i].pc = "recording"
  /\ terminal' = [terminal EXCEPT ![j] = @ \cup {intake[i].outcome}]
  /\ Goto(i, "closing")
  /\ UNCHANGED <<file, job, doc, aged, extract, runner, sweep, request, up, staged, used>>

CloseJob(i) ==
  LET j == intake[i].job IN
  /\ intake[i].pc = "closing"
  /\ job' = [job EXCEPT ![j].status = intake[i].outcome]
  /\ intake' = [intake EXCEPT ![i] = Resting]
  /\ UNCHANGED <<file, doc, aged, terminal, extract, runner, sweep, request, up, staged, used>>

(* Where an exception leads: to _fail.  Once the document is published the    *)
(* job names the original in the active folder as soon as the clean-up starts *)
Cleanup(pc) ==
  CASE pc = "restoring" -> {"restoring"}
    [] pc = "indexing" -> {"relocating", "restoring"}
    [] OTHER -> {"relocating"}

(* An exception: the handler of process_file fails the job; raised inside    *)
(* that handler, it ends the thread and leaves the job open.  A deleted       *)
(* document refuses its ledger rows without any fault of the database.       *)
Raise(i) ==
  LET t == intake[i]
      deleted == t.pc \in {"seeding", "recording_done"} /\ Gone(t.job) IN
  /\ t.pc \notin {"idle", "extracting"}
  /\ IF deleted THEN UNCHANGED used
     ELSE used.errors < MaxErrors /\ used' = [used EXCEPT !.errors = @ + 1]
  /\ \/ /\ t.guarded
        /\ \E pc \in Cleanup(t.pc) :
             intake' = [intake EXCEPT ![i] = [pc |-> pc, job |-> t.job, outcome |-> "failed",
                                              guarded |-> FALSE]]
     \/ ~t.guarded /\ intake' = [intake EXCEPT ![i] = Resting]
  /\ UNCHANGED <<file, job, doc, aged, terminal, extract, runner, sweep, request, up, staged>>

-----------------------------------------------------------------------------
(* The extract stage: ExtractStage.process, driven by the reconciler         *)

Step(x, pc) == runner' = [runner EXCEPT ![x].pc = pc]

FailDocument_AnyStatus(j) == doc' = [doc EXCEPT ![j] = "failed"]

FailDocument(j) == doc' = [doc EXCEPT ![j] = IF @ = "processing" THEN "failed" ELSE @]

Claimable_AnyFailure(j) == extract[j].status \in {"pending", "failed"}

Claimable(j) ==
  \/ extract[j].status = "pending"
  \/ extract[j].status = "failed" /\ extract[j].attempts < MaxAttempts

Claim(x, j) ==
  /\ up /\ staged /\ runner[x].pc = "idle" /\ Claimable(j)
  /\ extract' = [extract EXCEPT ![j] = [status |-> "running", attempts |-> @.attempts + 1]]
  /\ runner' = [runner EXCEPT ![x] = [pc |-> "claimed", job |-> j]]
  /\ UNCHANGED <<file, job, doc, aged, terminal, intake, sweep, request, up, staged, used>>

Load_AnyStatus(x) ==
  /\ runner[x].pc = "claimed"
  /\ Step(x, "resolving")
  /\ UNCHANGED <<file, job, doc, aged, terminal, extract, intake, sweep, request, up, staged, used>>

Load(x) ==
  LET j == runner[x].job IN
  /\ runner[x].pc = "claimed"
  /\ Step(x, IF doc[j] = "processing" THEN "resolving" ELSE "returned")
  /\ UNCHANGED <<file, job, doc, aged, terminal, extract, intake, sweep, request, up, staged, used>>

(* _resolve_source: an attempt that died after the move left the original in *)
(* the active folder                                                        *)
Resolve(x) ==
  LET j == runner[x].job IN
  /\ runner[x].pc = "resolving"
  /\ IF file[job[j].file] \in {In("work", j), In("active", j)}
     THEN Move(j, {In("active", j)}, In("work", j)) /\ Step(x, "reading") /\ UNCHANGED doc
     ELSE FailDocument(j) /\ Step(x, "returned") /\ UNCHANGED file
  /\ UNCHANGED <<job, aged, terminal, extract, intake, sweep, request, up, staged, used>>

(* A render limit fails the document, so does a source that is gone by now   *)
Read(x) ==
  LET j == runner[x].job IN
  /\ runner[x].pc = "reading"
  /\ \/ Step(x, "writing") /\ UNCHANGED doc
     \/ Step(x, "raised") /\ UNCHANGED doc
     \/ FailDocument(j) /\ Step(x, "returned")
  /\ UNCHANGED <<file, job, aged, terminal, extract, intake, sweep, request, up, staged, used>>

(* write_document_artifacts moves the source first                           *)
Write(x) ==
  LET j == runner[x].job IN
  /\ runner[x].pc = "writing"
  /\ IF file[job[j].file] = In("work", j)
     THEN Move(j, {In("work", j)}, In("active", j)) /\ Step(x, "written")
     ELSE Step(x, "raised") /\ UNCHANGED file
  /\ UNCHANGED <<job, doc, aged, terminal, extract, intake, sweep, request, up, staged, used>>

Activate(x) ==
  LET j == runner[x].job IN
  /\ runner[x].pc = "written"
  /\ IF doc[j] = "processing" /\ Served(j) = {}
     THEN doc' = [doc EXCEPT ![j] = "active"] /\ Step(x, "returned")
     ELSE Step(x, IF doc[j] = "processing" THEN "dropping" ELSE "discarding") /\ UNCHANGED doc
  /\ UNCHANGED <<file, job, aged, terminal, extract, intake, sweep, request, up, staged, used>>

(* A duplicate drops its artifacts, then its row; a document that is no      *)
(* longer processing drops its artifacts                                    *)
Drop(x) ==
  LET j == runner[x].job IN
  /\ runner[x].pc \in {"dropping", "discarding"}
  /\ Rmtree("active", j)
  /\ Step(x, IF runner[x].pc = "dropping" THEN "deleting" ELSE "returned")
  /\ UNCHANGED <<job, doc, aged, terminal, extract, intake, sweep, request, up, staged, used>>

DropRow(x) ==
  LET j == runner[x].job IN
  /\ runner[x].pc = "deleting"
  /\ doc' = DocRemoved(j)
  /\ extract' = [extract EXCEPT ![j] = NoRow]
  /\ Step(x, "returned")
  /\ UNCHANGED <<file, job, aged, terminal, intake, sweep, request, up, staged, used>>

(* A database error in the stage fails the attempt                           *)
Fault(x) ==
  /\ runner[x].pc \in {"claimed", "resolving", "written", "deleting"}
  /\ used.errors < MaxErrors
  /\ used' = [used EXCEPT !.errors = @ + 1]
  /\ Step(x, "raised")
  /\ UNCHANGED <<file, job, doc, aged, terminal, extract, intake, sweep, request, up, staged>>

(* mark_done or mark_failed                                                 *)
Mark(x) ==
  LET j == runner[x].job
      result == IF runner[x].pc = "returned" THEN "done" ELSE "failed" IN
  /\ runner[x].pc \in {"returned", "raised"}
  /\ extract' = [extract EXCEPT ![j].status = IF @ = "none" THEN @ ELSE result]
  /\ runner' = [runner EXCEPT ![x] = Free]
  /\ UNCHANGED <<file, job, doc, aged, terminal, intake, sweep, request, up, staged, used>>

(* The lease of a run that ended with its thread, or outlasted it            *)
LeaseExpires(j) ==
  /\ extract[j].status = "running"
  /\ SlowRuns \/ \A x \in Extractors : runner[x].job # j
  /\ extract' = [extract EXCEPT ![j].status =
                   IF extract[j].attempts < MaxAttempts THEN "pending" ELSE "failed"]
  /\ UNCHANGED <<file, job, doc, aged, terminal, intake, runner, sweep, request, up, staged, used>>

-----------------------------------------------------------------------------
(* Time: past the cutoff of stale_job_minutes                                *)

Ages(j) ==
  /\ \/ job[j].status = "open" /\ j \notin aged.jobs
        /\ aged' = [aged EXCEPT !.jobs = @ \cup {j}]
     \/ doc[j] = "processing" /\ j \notin aged.docs
        /\ aged' = [aged EXCEPT !.docs = @ \cup {j}]
  /\ UNCHANGED <<file, job, doc, terminal, extract, intake, runner, sweep, request, up, staged, used>>

-----------------------------------------------------------------------------
(* recover_stale: the jobs first, then the documents                         *)

StaleJobs_Hashed == {j \in aged.jobs : job[j].status = "open" /\ job[j].hashed}
StaleJobs == {j \in aged.jobs : job[j].status = "open"}
OldDocs   == {j \in aged.docs : doc[j] = "processing"}

BeginSweep ==
  /\ up /\ sweep.pc = "idle" /\ \A i \in Ingesters : intake[i].pc = "idle"
  /\ StaleJobs \cup OldDocs # {}
  /\ sweep' = [NoSweep EXCEPT !.pc = "jobs", !.jobs = StaleJobs]
  /\ UNCHANGED <<file, job, doc, aged, terminal, extract, intake, runner, request, up, staged, used>>

SourceIsFile(j) ==
  file[job[j].file] = IF job[j].source = "work" THEN In("work", j) ELSE Ingest

Strikes_None(j) == 0

(* _crash_strikes: tombstones of the same content that stored its hash       *)
Strikes(j) ==
  IF job[j].hashed \/ SourceIsFile(j)
  THEN Cardinality({k \in SameContent(j) \ {j} : job[k].status = "recovered" /\ job[k].hashed})
  ELSE 0

(* _requeue_stale_job: complete the hand-off, or re-queue, or quarantine     *)
RecoverJob(j) ==
  /\ sweep.pc = "jobs" /\ j \in sweep.jobs
  /\ IF doc[j] = "processing" /\ job[j].source = "work"
     THEN /\ job' = [job EXCEPT ![j].status = "active"]
          /\ sweep' = [sweep EXCEPT !.jobs = @ \ {j}]
     ELSE /\ sweep' = [sweep EXCEPT !.pc = "moving", !.job = j,
                                    !.strike = Strikes(j) >= MaxStale]
          /\ UNCHANGED job
  /\ UNCHANGED <<file, doc, aged, terminal, extract, intake, runner, request, up, staged, used>>

MoveBack ==
  LET j == sweep.job IN
  /\ sweep.pc = "moving"
  /\ IF SourceIsFile(j)
     THEN file' = [file EXCEPT ![job[j].file] = IF sweep.strike THEN In("quarantine", j)
                                                ELSE Ingest]
     ELSE UNCHANGED file
  /\ sweep' = [sweep EXCEPT !.pc = IF sweep.strike THEN "recording" ELSE "updating"]
  /\ UNCHANGED <<job, doc, aged, terminal, extract, intake, runner, request, up, staged, used>>

RecordQuarantine ==
  /\ sweep.pc = "recording"
  /\ terminal' = [terminal EXCEPT ![sweep.job] = @ \cup {"quarantined"}]
  /\ sweep' = [sweep EXCEPT !.pc = "updating"]
  /\ UNCHANGED <<file, job, doc, aged, extract, intake, runner, request, up, staged, used>>

Tombstone ==
  /\ sweep.pc = "updating"
  /\ job' = [job EXCEPT ![sweep.job].status = IF sweep.strike THEN "quarantined"
                                              ELSE "recovered"]
  /\ sweep' = [sweep EXCEPT !.pc = "clearing"]
  /\ UNCHANGED <<file, doc, aged, terminal, extract, intake, runner, request, up, staged, used>>

ClearWorkdir ==
  /\ sweep.pc = "clearing"
  /\ Rmtree("work", sweep.job)
  /\ sweep' = [sweep EXCEPT !.pc = "jobs", !.jobs = @ \ {sweep.job}, !.job = NoJob,
                            !.strike = FALSE]
  /\ UNCHANGED <<job, doc, aged, terminal, extract, intake, runner, request, up, staged, used>>

(* One job that cannot be recovered does not stop the others                 *)
RecoveryFails ==
  /\ sweep.pc \in {"moving", "recording", "updating"}
  /\ used.errors < MaxErrors
  /\ used' = [used EXCEPT !.errors = @ + 1]
  /\ sweep' = [sweep EXCEPT !.pc = "jobs", !.jobs = @ \ {sweep.job}, !.job = NoJob,
                            !.strike = FALSE]
  /\ UNCHANGED <<file, job, doc, aged, terminal, extract, intake, runner, request, up, staged>>

(* fail_interrupted_processing                                              *)
ListProcessing ==
  /\ sweep.pc = "jobs" /\ sweep.jobs = {}
  /\ sweep' = [sweep EXCEPT !.pc = "docs", !.docs = OldDocs]
  /\ UNCHANGED <<file, job, doc, aged, terminal, extract, intake, runner, request, up, staged, used>>

SourceGone(j) == file[job[j].file] # In("work", j)

ExtractDead(j) == extract[j].status = "failed" /\ extract[j].attempts >= MaxAttempts

Interrupted_IfSeeded(j) == extract[j].status # "none" /\ (SourceGone(j) \/ ExtractDead(j))

Interrupted(j) == SourceGone(j) \/ extract[j].status = "none" \/ ExtractDead(j)

CheckDocument(j) ==
  /\ sweep.pc = "docs" /\ j \in sweep.docs
  /\ sweep' = IF Interrupted(j) THEN [sweep EXCEPT !.pc = "failing", !.job = j]
              ELSE [sweep EXCEPT !.docs = @ \ {j}]
  /\ UNCHANGED <<file, job, doc, aged, terminal, extract, intake, runner, request, up, staged, used>>

FailInterrupted ==
  /\ sweep.pc = "failing"
  /\ FailDocument(sweep.job)
  /\ sweep' = [sweep EXCEPT !.pc = "docs", !.docs = @ \ {sweep.job}, !.job = NoJob]
  /\ UNCHANGED <<file, job, aged, terminal, extract, intake, runner, request, up, staged, used>>

EndSweep ==
  /\ sweep.pc = "docs" /\ sweep.docs = {}
  /\ sweep' = NoSweep
  /\ UNCHANGED <<file, job, doc, aged, terminal, extract, intake, runner, request, up, staged, used>>

-----------------------------------------------------------------------------
(* The worker process                                                       *)

Crash ==
  /\ up /\ used.crashes < MaxCrashes
  /\ up' = FALSE
  /\ intake' = [i \in Ingesters |-> Resting]
  /\ runner' = [x \in Extractors |-> Free]
  /\ sweep' = NoSweep
  /\ used' = [used EXCEPT !.crashes = @ + 1]
  /\ UNCHANGED <<file, job, doc, aged, terminal, extract, request, staged>>

(* recover_running re-queues the runs of the dead process                    *)
Restart ==
  /\ ~up
  /\ up' = TRUE
  /\ extract' = [j \in Jobs |-> [extract[j] EXCEPT !.status =
                                  IF @ = "running" THEN "pending" ELSE @]]
  /\ UNCHANGED <<file, job, doc, aged, terminal, intake, runner, sweep, request, staged, used>>

-----------------------------------------------------------------------------
(* The steps of one upload inside process_file                               *)
Process(i) ==
  \/ TakeFile(i) \/ Identify(i) \/ Decide(i)
  \/ CreateDocument(i) \/ SeedLedger(i)
  \/ Extract(i) \/ Publish(i) \/ Index(i) \/ RecordDone(i)
  \/ Relocate(i) \/ RecordTerminal(i) \/ CloseJob(i)
  \/ Raise(i)

Run(x) ==
  \/ \E j \in Jobs : Claim(x, j)
  \/ Load(x) \/ Resolve(x) \/ Read(x) \/ Write(x) \/ Activate(x)
  \/ Drop(x) \/ DropRow(x) \/ Mark(x)

Reingest ==
  \/ \E j \in Jobs, folder \in Folders, g \in Files : ReadOriginal(j, folder, g)
  \/ PurgeOriginal \/ WriteBack

Sweep ==
  \/ BeginSweep
  \/ \E j \in Jobs : RecoverJob(j) \/ CheckDocument(j)
  \/ MoveBack \/ RecordQuarantine \/ Tombstone \/ ClearWorkdir
  \/ ListProcessing \/ FailInterrupted \/ EndSweep

Next ==
  \/ \E f \in Files : Upload(f) \/ \E i \in Ingesters, j \in Jobs : AddJob(i, f, j)
  \/ \E i \in Ingesters : Process(i)
  \/ \E x \in Extractors : Run(x) \/ Fault(x)
  \/ \E j \in Jobs : Delete(j) \/ RetryExtract(j) \/ RetryJob(j) \/ LeaseExpires(j) \/ Ages(j)
  \/ \E j \in Jobs, outcome \in Outcome : DeleteTerminal(j, outcome)
  \/ Reingest \/ ApiCrash
  \/ Sweep \/ RecoveryFails
  \/ Crash \/ Restart

Spec == Init /\ [][Next]_vars

(* The process is restarted, its threads run, its sweep runs on a schedule,  *)
(* and time passes                                                          *)
Fairness ==
  /\ WF_vars(Restart) /\ WF_vars(Sweep)
  /\ \A i \in Ingesters : WF_vars(Process(i))
                          /\ WF_vars(\E f \in Files, j \in Jobs : AddJob(i, f, j))
  /\ \A x \in Extractors : WF_vars(Run(x))
  /\ \A j \in Jobs : WF_vars(LeaseExpires(j)) /\ WF_vars(Ages(j))

FairSpec == Spec /\ Fairness

-----------------------------------------------------------------------------
(* Properties                                                               *)

(* An active document has its original in its folder, through every order    *)
(* of a retry that moves the file back, a dropped duplicate, a sweep and a    *)
(* crash (ExtractStage, _activate).                                         *)
ActiveHasOriginal ==
  \A j \in Jobs : doc[j] = "active" => file[job[j].file] = In("active", j)

(* The crash tripwire: of the jobs of a content that had stored its hash when  *)
(* the worker died, at most MAX_STALE_RECOVERIES are re-queued, and the next  *)
(* one is quarantined (_crash_strikes).  A job that dies before its hash is    *)
(* stored is re-queued without a strike, and nothing bounds how often.       *)
TripwireBound ==
  \A j \in Jobs : job[j].file # NoFile =>
    Cardinality({k \in SameContent(j) : job[k].status = "recovered" /\ job[k].hashed})
      <= MaxStale

(* Every accepted file ends with a document row: a finished job has recorded  *)
(* its outcome, as a terminal row or as its own document (audit F1, F2).      *)
OutcomeRecorded ==
  \A j \in Jobs :
    /\ job[j].status \in {"failed", "duplicate", "quarantined"} =>
         terminal[j] \cap {job[j].status, "gone", "deleted"} # {}
    /\ job[j].status = "active" => doc[j] # "absent"

(* The documents table as others see it: a row for a file and its job        *)
Shown(status) == IF status \in {"gone", "deleted"} THEN "gone" ELSE status

Documents ==
  [p \in Files \X Jobs |-> IF job[p[2]].file = p[1] THEN Shown(doc[p[2]]) ELSE "absent"]

Lifecycle == INSTANCE DocumentLifecycle WITH
  Docs <- Files \X Jobs, Content <- [p \in Files \X Jobs |-> Content[p[1]]],
  doc <- Documents

(* What the documents table promises: a late extraction, a sweep, a duplicate *)
(* and a request never bring a document back from failed or gone, never fail  *)
(* one that is active, and never publish a content twice.                    *)
Implements == Lifecycle!Spec

(* No document stays in processing: it is activated, failed or removed,      *)
(* whatever died in between (audit F3-F5).                                   *)
ProcessingResolves == \A j \in Jobs : doc[j] = "processing" ~> doc[j] # "processing"

(* No job stays open: the pipeline or the recovery sweep closes it.          *)
JobsClose == \A j \in Jobs : job[j].status = "open" ~> job[j].status # "open"

(* No upload vanishes: there is a copy of its content in some folder, or held *)
(* by a reingest, unless a user has deleted a document of that content, one   *)
(* has failed, a job was given up before its file was hashed, or the API died *)
(* holding the bytes (reingest_document, delete_document, ExtractStage,       *)
(* _requeue_stale_job).                                                     *)
NothingVanishes ==
  \A f \in Files :
    \/ file[f] = Outside
    \/ \E g \in Files : Content[g] = Content[f] /\ file[g] \notin {Outside, Lost, Purged}
    \/ request.died
    \/ \E j \in Jobs :
         /\ job[j].file # NoFile /\ ContentOf(j) = Content[f]
         /\ \/ doc[j] \in {"deleted", "failed"} \/ "deleted" \in terminal[j]
            \/ job[j].status = "recovered" /\ ~job[j].hashed

(* The program never destroys the last copy of a content that was accepted:   *)
(* it removes a folder only when what lay there lies elsewhere.              *)
NothingLost ==
  \A f \in Files : file[f] = Lost =>
    \E g \in Files \ {f} : Content[g] = Content[f] /\ file[g] # Lost

(* The sweep fails a document for its missing source only when the source is  *)
(* neither staged nor in the document's own folder.                          *)
ReapedOnlyIfGone ==
  [][\A j \in Jobs :
       sweep.pc = "failing" /\ sweep.job = j /\ doc[j] = "processing" /\ doc'[j] = "failed"
         => \/ file[job[j].file] \notin {In("work", j), In("active", j)}
            \/ extract[j].status \in {"none", "failed"}]_vars
=============================================================================
