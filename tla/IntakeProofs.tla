---------------------------- MODULE IntakeProofs ----------------------------
(***************************************************************************)
(* Theorems about Intake, for every number of files, jobs and threads and   *)
(* any number of crashes, errors, retries and requests: the types, that     *)
(* every accepted file ends with a row that records its outcome, that the   *)
(* strikes of a content are bounded, that the documents table follows the   *)
(* life cycle of a document, that an active document has its original, that *)
(* no content vanishes, and that no document is stranded.                   *)
(***************************************************************************)
EXTENDS Intake, FiniteSetTheorems, TLAPS

Forward == {"added", "moved", "identified", "creating", "seeding", "extracting", "written",
            "indexing", "recording_done", "closing"}
Ending  == {"restoring", "relocating", "recording", "closing"}
Bad     == Outcome \ {"active"}

Stages == {"claimed", "resolving", "reading", "writing", "written", "dropping", "deleting",
           "discarding", "returned", "raised"}

Marks == {"failed", "duplicate", "quarantined", "gone", "deleted"}

-----------------------------------------------------------------------------
(* Types                                                                    *)

LEMMA Values ==
  /\ Outside \in Place /\ Ingest \in Place /\ Lost \in Place /\ Purged \in Place /\ Held \in Place
  /\ \A folder \in Folders, j \in Jobs : In(folder, j) \in Place
  /\ \A j \in Jobs : In("work", j) \in Place /\ In("active", j) \in Place
  /\ \A outcome \in Outcome : FolderOf(outcome) \in Folders \ {"work"}
  /\ Unused \in JobType /\ NoRow \in ExtractType
  /\ Resting \in IntakeType /\ Free \in RunnerType /\ NoSweep \in SweepType
  /\ NoRequest \in RequestType
  /\ \A died \in BOOLEAN : [NoRequest EXCEPT !.died = died] \in RequestType
<1>1. \A folder \in Folders, j \in Jobs : In(folder, j) \in Place
  BY DEF In, Place
<1>2. \A outcome \in Outcome : FolderOf(outcome) \in Folders \ {"work"}
  BY DEF Outcome, FolderOf, Folders
<1>3. Unused \in JobType /\ NoRow \in ExtractType
  BY DEF Unused, JobType, NoRow, ExtractType
<1>4. Resting \in IntakeType /\ Free \in RunnerType /\ NoSweep \in SweepType
  BY DEF Resting, IntakeType, Outcome, Free, RunnerType, NoSweep, SweepType
<1>5. /\ NoRequest \in RequestType
      /\ \A died \in BOOLEAN : [NoRequest EXCEPT !.died = died] \in RequestType
  BY DEF NoRequest, RequestType
<1>6. "work" \in Folders /\ "active" \in Folders
  BY DEF Folders
<1> QED BY <1>1, <1>2, <1>3, <1>4, <1>5, <1>6 DEF Place

LEMMA InitTypes == Init => Types
<1> SUFFICES ASSUME Init PROVE Types
  OBVIOUS
<1>1. /\ file \in [Files -> Place] /\ job \in [Jobs -> JobType]
      /\ extract \in [Jobs -> ExtractType]
      /\ intake \in [Ingesters -> IntakeType] /\ runner \in [Extractors -> RunnerType]
      /\ sweep \in SweepType /\ request \in RequestType
  BY Values DEF Init
<1>2. /\ doc \in [Jobs -> DocStatus] /\ aged \in [jobs : SUBSET Jobs, docs : SUBSET Jobs]
      /\ terminal \in [Jobs -> SUBSET Marks]
      /\ up \in BOOLEAN /\ staged \in Modes
      /\ used \in [crashes : Nat, errors : Nat, retries : Nat, requests : Nat]
  BY DEF Init, DocStatus
<1> QED BY <1>1, <1>2 DEF Types, Marks

(* What the table and folder helpers return is of the type                   *)
LEMMA MoveType ==
  ASSUME file \in [Files -> Place], NEW j, NEW from, NEW to \in Place, Move(j, from, to)
  PROVE  file' \in [Files -> Place]
  BY DEF Move

LEMMA RmtreeType ==
  ASSUME file \in [Files -> Place], NEW j, NEW folder, Rmtree(folder, j)
  PROVE  file' \in [Files -> Place]
  BY Values DEF Rmtree

LEMMA RemovedType ==
  ASSUME doc \in [Jobs -> DocStatus], NEW j \in Jobs
  PROVE  /\ DocRemoved(j) \in [Jobs -> DocStatus]
         /\ FailDocument(j) => doc' \in [Jobs -> DocStatus]
  BY DEF DocRemoved, DocStatus, FailDocument

LEMMA JobTypes ==
  ASSUME job \in [Jobs -> JobType], NEW j \in Jobs
  PROVE  /\ \A s \in {"open", "active", "failed", "duplicate", "quarantined", "recovered",
                      "deleted"} :
              [job EXCEPT ![j].status = s] \in [Jobs -> JobType]
         /\ \A s : [job EXCEPT ![j].status = IF @ = s THEN "deleted" ELSE @]
                     \in [Jobs -> JobType]
         /\ [job EXCEPT ![j].source = "work", ![j].hashed = TRUE] \in [Jobs -> JobType]
  BY DEF JobType

(* A thread in process_file has a job, and an outcome other than "active"     *)
(* once it clears up; its next position is of the type                       *)
LEMMA IntakeOf ==
  ASSUME intake \in [Ingesters -> IntakeType], NEW i \in Ingesters, intake[i].pc # "idle"
  PROVE  /\ intake[i].job \in Jobs /\ intake[i].guarded \in BOOLEAN
         /\ intake[i].pc \in Forward \cup Ending /\ intake[i].outcome \in Outcome
         /\ intake[i].pc \in Forward \ {"closing"} => intake[i].outcome = "active"
         /\ intake[i].pc \in Ending \ {"closing"} => intake[i].outcome \in Bad
  BY DEF IntakeType, Forward, Ending, Bad, Outcome

LEMMA IntakeMoves ==
  ASSUME intake \in [Ingesters -> IntakeType], NEW i \in Ingesters, intake[i].pc # "idle"
  PROVE  /\ intake[i].pc \in Forward \ {"closing"} =>
              \A pc \in Forward : Goto(i, pc) => intake' \in [Ingesters -> IntakeType]
         /\ intake[i].pc \in Ending \ {"closing"} =>
              \A pc \in Ending : Goto(i, pc) => intake' \in [Ingesters -> IntakeType]
         /\ \A pc \in Ending, o \in Bad : End(i, pc, o) => intake' \in [Ingesters -> IntakeType]
<1>1. ASSUME NEW pc \in Forward, intake[i].pc \in Forward \ {"closing"}, Goto(i, pc)
      PROVE  intake' \in [Ingesters -> IntakeType]
  <2>1. [intake[i] EXCEPT !.pc = pc] \in IntakeType
    BY <1>1 DEF IntakeType, Forward
  <2>2. intake' = [intake EXCEPT ![i] = [intake[i] EXCEPT !.pc = pc]]
    BY <1>1 DEF Goto
  <2> QED BY <2>1, <2>2
<1>2. ASSUME NEW pc \in Ending, intake[i].pc \in Ending \ {"closing"}, Goto(i, pc)
      PROVE  intake' \in [Ingesters -> IntakeType]
  <2>1. [intake[i] EXCEPT !.pc = pc] \in IntakeType
    BY <1>2 DEF IntakeType, Ending
  <2>2. intake' = [intake EXCEPT ![i] = [intake[i] EXCEPT !.pc = pc]]
    BY <1>2 DEF Goto
  <2> QED BY <2>1, <2>2
<1>3. ASSUME NEW pc \in Ending, NEW o \in Bad, End(i, pc, o)
      PROVE  intake' \in [Ingesters -> IntakeType]
  <2>1. [intake[i] EXCEPT !.pc = pc, !.outcome = o] \in IntakeType
    BY <1>3 DEF IntakeType, Ending, Bad
  <2>2. intake' = [intake EXCEPT ![i] = [intake[i] EXCEPT !.pc = pc, !.outcome = o]]
    BY <1>3 DEF End
  <2> QED BY <2>1, <2>2
<1> QED BY <1>1, <1>2, <1>3

LEMMA IntakeRecords ==
  ASSUME NEW j \in Jobs
  PROVE  /\ [pc |-> "added", job |-> j, outcome |-> "active", guarded |-> TRUE] \in IntakeType
         /\ \A guarded \in BOOLEAN, pc \in {"relocating", "restoring"} :
              [pc |-> pc, job |-> j, outcome |-> "failed", guarded |-> guarded] \in IntakeType
  BY DEF IntakeType, Outcome

LEMMA RunnerMoves ==
  ASSUME runner \in [Extractors -> RunnerType], NEW x \in Extractors, runner[x].pc # "idle"
  PROVE  /\ runner[x] \in [pc : Stages, job : Jobs]
         /\ \A pc \in Stages : Step(x, pc) => runner' \in [Extractors -> RunnerType]
  BY DEF RunnerType, Stages, Step

LEMMA UploadTypes == ASSUME Types, NEW f \in Files, Upload(f) PROVE Types'
  BY Values DEF Types, Upload

LEMMA UserTypes ==
  ASSUME Types, NEW j \in Jobs,
         \/ Delete(j) \/ RetryExtract(j) \/ RetryJob(j)
         \/ \E outcome \in Outcome : DeleteTerminal(j, outcome)
  PROVE  Types'
<1>2. CASE Delete(j)
  <2>1. doc' \in [Jobs -> DocStatus] /\ extract' \in [Jobs -> ExtractType]
    BY <1>2, Values DEF Types, Delete, DocStatus
  <2>2. job' \in [Jobs -> JobType] /\ file' \in [Files -> Place]
    BY <1>2, JobTypes, MoveType, Values DEF Types, Delete
  <2> QED BY <1>2, <2>1, <2>2 DEF Types, Delete
<1>3. CASE RetryExtract(j)
  <2>1. extract' \in [Jobs -> ExtractType]
    BY <1>3 DEF Types, RetryExtract, ExtractType
  <2>2. used' \in [crashes : Nat, errors : Nat, retries : Nat, requests : Nat]
    BY <1>3 DEF Types, RetryExtract
  <2> QED BY <1>3, <2>1, <2>2 DEF Types, RetryExtract
<1>4. CASE \E outcome \in Outcome : DeleteTerminal(j, outcome)
  <2> PICK outcome \in Outcome : DeleteTerminal(j, outcome)
    BY <1>4
  <2>1. terminal' \in [Jobs -> SUBSET Marks]
    BY DEF Types, DeleteTerminal, RemoveTerminal, Marks
  <2>2. job' \in [Jobs -> JobType] /\ file' \in [Files -> Place]
    BY JobTypes, MoveType, Values DEF Types, DeleteTerminal, RemoveTerminal
  <2>3. used' \in [crashes : Nat, errors : Nat, retries : Nat, requests : Nat]
    BY DEF Types, DeleteTerminal, Request
  <2> QED BY <2>1, <2>2, <2>3 DEF Types, DeleteTerminal, Marks
<1>5. CASE RetryJob(j)
  <2>1. file' \in [Files -> Place]
    BY <1>5, MoveType, Values DEF Types, RetryJob
  <2>2. used' \in [crashes : Nat, errors : Nat, retries : Nat, requests : Nat]
    BY <1>5 DEF Types, RetryJob, Request
  <2> QED BY <1>5, <2>1, <2>2 DEF Types, RetryJob
<1> QED BY <1>2, <1>3, <1>4, <1>5

LEMMA ReingestTypes ==
  ASSUME Types, Reingest \/ ApiCrash
  PROVE  Types'
<1>1. /\ request.pc # "idle" => /\ request.job \in Jobs /\ request.copy \in Files
      /\ request.died \in BOOLEAN
  BY DEF Types, RequestType
<1>2. CASE \E j \in Jobs, folder \in Folders, g \in Files : ReadOriginal(j, folder, g)
  <2>1. PICK j \in Jobs, folder \in Folders, g \in Files : ReadOriginal(j, folder, g)
    BY <1>2
  <2>2. folder # "work"
    BY <2>1, Values DEF ReadOriginal
  <2>3. request' \in RequestType
    BY <2>1, <2>2 DEF Types, ReadOriginal, RequestType
  <2>4. used' \in [crashes : Nat, errors : Nat, retries : Nat, requests : Nat]
    BY <2>1 DEF Types, ReadOriginal, Request
  <2> QED BY <2>1, <2>3, <2>4, Values DEF Types, ReadOriginal
<1>3. CASE PurgeOriginal
  <2> DEFINE j == request.job
  <2>1. j \in Jobs
    BY <1>1, <1>3 DEF PurgeOriginal
  <2>2. request' \in RequestType
    BY <1>3 DEF Types, PurgeOriginal, RequestType
  <2>3. CASE request.folder = "active"
    <3>1. /\ doc' = DocRemoved(j) /\ Move(j, {In("active", j)}, Lost)
          /\ job' = [job EXCEPT ![j].status = IF @ = "active" THEN "deleted" ELSE @]
          /\ extract' = [extract EXCEPT ![j] = NoRow]
      BY <1>3, <2>3 DEF PurgeOriginal
    <3>2. doc' \in [Jobs -> DocStatus] /\ job' \in [Jobs -> JobType]
      BY <2>1, <3>1, RemovedType, JobTypes DEF Types
    <3>3. extract' \in [Jobs -> ExtractType] /\ file' \in [Files -> Place]
      BY <2>1, <3>1, MoveType, Values DEF Types
    <3> QED BY <1>3, <2>2, <2>3, <3>2, <3>3 DEF Types, PurgeOriginal
  <2>4. CASE request.folder # "active"
    <3>1. PICK outcome \in Outcome \ {"active"} : RemoveTerminal(j, outcome, "gone", Lost)
      BY <1>3, <2>4 DEF PurgeOriginal
    <3>2. terminal' \in [Jobs -> SUBSET Marks]
      BY <2>1, <3>1 DEF Types, RemoveTerminal, Marks
    <3>3. job' \in [Jobs -> JobType] /\ file' \in [Files -> Place]
      BY <2>1, <3>1, JobTypes, MoveType, Values DEF Types, RemoveTerminal
    <3> QED BY <1>3, <2>2, <2>4, <3>2, <3>3 DEF Types, PurgeOriginal, Marks
  <2> QED BY <2>3, <2>4
<1>4. CASE WriteBack \/ ApiCrash
  <2>1. file' \in [Files -> Place]
    BY <1>4, Values DEF Types, WriteBack, ApiCrash
  <2>3. request' \in RequestType
    BY <1>1, <1>4, Values DEF WriteBack, ApiCrash
  <2>2. used' \in [crashes : Nat, errors : Nat, retries : Nat, requests : Nat]
    BY <1>4 DEF Types, WriteBack, ApiCrash
  <2> QED BY <1>4, <2>1, <2>2, <2>3 DEF Types, WriteBack, ApiCrash
<1> QED BY <1>2, <1>3, <1>4 DEF Reingest

LEMMA ProcessTypes ==
  ASSUME Types, NEW i \in Ingesters,
         Process(i) \/ \E f \in Files, j \in Jobs : AddJob(i, f, j)
  PROVE  Types'
<1> DEFINE j == intake[i].job
<1>1. intake[i].pc # "idle" =>
        /\ j \in Jobs /\ intake[i].outcome \in Outcome
        /\ intake[i].pc \in Ending \ {"closing"} => intake[i].outcome \in Bad
  BY IntakeOf DEF Types
<1>2. CASE \E f \in Files, k \in Jobs : AddJob(i, f, k)
  <2>1. PICK f \in Files, k \in Jobs : AddJob(i, f, k)
    BY <1>2
  <2>2. job' \in [Jobs -> JobType]
    BY <2>1 DEF Types, AddJob, JobType
  <2>3. intake' \in [Ingesters -> IntakeType]
    BY <2>1, IntakeRecords DEF Types, AddJob
  <2> QED BY <2>1, <2>2, <2>3 DEF Types, AddJob
<1>3. CASE TakeFile(i)
  <2>3. j \in Jobs /\ Move(j, {Ingest}, In("work", j))
    BY <1>1, <1>3 DEF TakeFile
  <2>1. file' \in [Files -> Place]
    BY <2>3, MoveType, Values DEF Types
  <2>2. intake' \in [Ingesters -> IntakeType]
    BY <1>3, IntakeMoves DEF Types, TakeFile, Forward
  <2> QED BY <1>3, <2>1, <2>2 DEF Types, TakeFile
<1>4. CASE Identify(i)
  <2>1. intake' \in [Ingesters -> IntakeType]
    BY <1>4, IntakeMoves DEF Types, Identify, Forward, Ending, Bad, Outcome
  <2> QED BY <1>1, <1>4, <2>1, JobTypes DEF Types, Identify
<1>5. CASE Decide(i)
  <2>1. intake' \in [Ingesters -> IntakeType]
    BY <1>1, <1>5, IntakeMoves DEF Types, Decide, Forward, Ending, Bad, Outcome
  <2> QED BY <1>5, <2>1 DEF Types, Decide
<1>6. CASE CreateDocument(i)
  <2>1. intake' \in [Ingesters -> IntakeType]
    BY <1>6, IntakeMoves DEF Types, CreateDocument, Forward, Ending, Bad, Outcome
  <2>2. doc' \in [Jobs -> DocStatus]
    BY <1>1, <1>6 DEF Types, CreateDocument, DocStatus
  <2> QED BY <1>6, <2>1, <2>2 DEF Types, CreateDocument
<1>7. CASE SeedLedger(i) \/ RecordDone(i)
  <2>1. intake' \in [Ingesters -> IntakeType]
    BY <1>7, IntakeMoves DEF Types, SeedLedger, RecordDone, Forward, Ending, Bad, Outcome
  <2>2. extract' \in [Jobs -> ExtractType]
    BY <1>1, <1>7 DEF Types, SeedLedger, RecordDone, ExtractType
  <2> QED BY <1>7, <2>1, <2>2 DEF Types, SeedLedger, RecordDone
<1>8. CASE Extract(i)
  <2>1. intake[i].pc = "extracting"
    BY <1>8 DEF Extract
  <2>2. intake' \in [Ingesters -> IntakeType]
    <3>1. CASE Goto(i, "written")
      BY <2>1, <3>1, IntakeMoves DEF Types, Forward, Ending, Bad, Outcome
    <3>2. CASE \E guarded \in BOOLEAN :
                 intake' = [intake EXCEPT ![i] = [pc |-> "relocating", job |-> j,
                                                  outcome |-> "failed", guarded |-> guarded]]
      <4>1. j \in Jobs
        BY <1>1, <2>1
      <4>2. PICK guarded \in BOOLEAN :
              intake' = [intake EXCEPT ![i] = [pc |-> "relocating", job |-> j,
                                               outcome |-> "failed", guarded |-> guarded]]
        BY <3>2
      <4>3. [pc |-> "relocating", job |-> j, outcome |-> "failed", guarded |-> guarded]
              \in IntakeType
        BY <4>1, IntakeRecords
      <4> QED BY <4>2, <4>3 DEF Types
    <3> QED BY <1>8, <3>1, <3>2 DEF Extract
  <2>3. file' \in [Files -> Place]
    <3>1. j \in Jobs /\ (Move(j, {In("work", j)}, In("active", j)) \/ UNCHANGED file)
      BY <1>1, <1>8, <2>1 DEF Extract
    <3> QED BY <3>1, MoveType, Values DEF Types
  <2> QED BY <1>8, <2>2, <2>3 DEF Types, Extract
<1>9. CASE Publish(i)
  <2>1. intake' \in [Ingesters -> IntakeType]
    BY <1>1, <1>9, IntakeMoves DEF Types, Publish, Forward, Ending, Bad, Outcome
  <2>2. doc' \in [Jobs -> DocStatus] /\ file' \in [Files -> Place]
    BY <1>1, <1>9, RmtreeType DEF Types, Publish, DocStatus
  <2> QED BY <1>9, <2>1, <2>2 DEF Types, Publish
<1>10. CASE Index(i)
  <2>1. intake' \in [Ingesters -> IntakeType]
    BY <1>1, <1>10, IntakeMoves DEF Types, Index, Forward, Ending, Bad, Outcome
  <2>2. doc' \in [Jobs -> DocStatus]
    <3>1. j \in Jobs /\ (doc' = DocRemoved(j) \/ UNCHANGED doc)
      BY <1>1, <1>10 DEF Index
    <3> QED BY <3>1, RemovedType DEF Types
  <2> QED BY <1>10, <2>1, <2>2 DEF Types, Index
<1>11. CASE Relocate(i)
  <2>1. intake' \in [Ingesters -> IntakeType]
    BY <1>11, IntakeMoves DEF Types, Relocate, Forward, Ending, Bad, Outcome
  <2>2. j \in Jobs /\ FolderOf(intake[i].outcome) \in Folders
    <3>1. intake[i].pc # "idle"
      BY <1>11 DEF Relocate
    <3> QED BY <1>1, <3>1, Values
  <2>3. file' \in [Files -> Place]
    BY <1>11, <2>2, MoveType, Values DEF Types, Relocate
  <2> QED BY <1>11, <2>1, <2>3 DEF Types, Relocate
<1>12. CASE RecordTerminal(i)
  <2>1. intake' \in [Ingesters -> IntakeType]
    BY <1>12, IntakeMoves DEF Types, RecordTerminal, Forward, Ending, Bad, Outcome
  <2>2. intake[i].outcome \in Marks
    <3>1. intake[i].pc = "recording"
      BY <1>12 DEF RecordTerminal
    <3>2. intake[i].outcome \in Bad
      BY <1>1, <3>1 DEF Ending
    <3> QED BY <3>2 DEF Bad, Outcome, Marks
  <2> QED BY <1>1, <1>12, <2>1, <2>2 DEF Types, RecordTerminal, Marks
<1>13. CASE CloseJob(i)
  <2>1. intake' \in [Ingesters -> IntakeType]
    BY <1>13, Values DEF Types, CloseJob
  <2>2. job' \in [Jobs -> JobType]
    <3>1. /\ j \in Jobs /\ intake[i].outcome \in Outcome
          /\ job' = [job EXCEPT ![j].status = intake[i].outcome]
      BY <1>1, <1>13 DEF CloseJob
    <3>2. intake[i].outcome \in {"open", "active", "failed", "duplicate", "quarantined",
                                "recovered", "deleted"}
      BY <3>1 DEF Outcome
    <3> QED BY <3>1, <3>2, JobTypes DEF Types
  <2> QED BY <1>13, <2>1, <2>2 DEF Types, CloseJob
<1>14. CASE Raise(i)
  <2>1. intake' \in [Ingesters -> IntakeType]
    <3>1. CASE intake' = [intake EXCEPT ![i] = Resting]
      BY <3>1, Values DEF Types
    <3>2. CASE \E pc \in Cleanup(intake[i].pc) :
                 intake' = [intake EXCEPT ![i] = [pc |-> pc, job |-> j, outcome |-> "failed",
                                                  guarded |-> FALSE]]
      <4>1. Cleanup(intake[i].pc) \subseteq {"relocating", "restoring"}
        BY DEF Cleanup
      <4>2. j \in Jobs
        BY <1>1, <1>14 DEF Raise
      <4> QED BY <3>2, <4>1, <4>2, IntakeRecords DEF Types
    <3> QED BY <1>14, <3>1, <3>2 DEF Raise
  <2>2. used' \in [crashes : Nat, errors : Nat, retries : Nat, requests : Nat]
    BY <1>14 DEF Types, Raise
  <2> QED BY <1>14, <2>1, <2>2 DEF Types, Raise
<1> QED BY <1>2, <1>3, <1>4, <1>5, <1>6, <1>7, <1>8, <1>9, <1>10, <1>11, <1>12, <1>13, <1>14
        DEF Process

LEMMA RunTypes ==
  ASSUME Types, NEW x \in Extractors, Run(x) \/ Fault(x)
  PROVE  Types'
<1> DEFINE j == runner[x].job
<1>1. runner[x].pc # "idle" => j \in Jobs
  BY RunnerMoves DEF Types
<1>2. CASE \E k \in Jobs : Claim(x, k)
  <2>1. PICK k \in Jobs : Claim(x, k)
    BY <1>2
  <2>2. extract' \in [Jobs -> ExtractType]
    BY <2>1 DEF Types, Claim, ExtractType
  <2>3. [pc |-> "claimed", job |-> k] \in RunnerType
    BY DEF RunnerType
  <2>4. runner' \in [Extractors -> RunnerType]
    BY <2>1, <2>3 DEF Types, Claim
  <2> QED BY <2>1, <2>2, <2>4 DEF Types, Claim
<1>3. CASE Load(x)
  <2>1. runner' \in [Extractors -> RunnerType]
    BY <1>3, RunnerMoves DEF Types, Load, Stages
  <2> QED BY <1>3, <2>1 DEF Types, Load
<1>4. CASE Resolve(x) \/ Read(x) \/ Write(x)
  <2>1. runner' \in [Extractors -> RunnerType]
    BY <1>4, RunnerMoves DEF Types, Resolve, Read, Write, Stages
  <2>2. /\ j \in Jobs /\ (FailDocument(j) \/ UNCHANGED doc)
        /\ \/ Move(j, {In("active", j)}, In("work", j))
           \/ Move(j, {In("work", j)}, In("active", j)) \/ UNCHANGED file
    BY <1>1, <1>4 DEF Resolve, Read, Write
  <2>3. doc' \in [Jobs -> DocStatus]
    BY <2>2, RemovedType DEF Types
  <2>4. file' \in [Files -> Place]
    BY <2>2, MoveType, Values DEF Types
  <2> QED BY <1>4, <2>1, <2>3, <2>4 DEF Types, Resolve, Read, Write
<1>5. CASE Activate(x)
  <2>1. runner' \in [Extractors -> RunnerType]
    BY <1>5, RunnerMoves DEF Types, Activate, Stages
  <2>2. doc' \in [Jobs -> DocStatus]
    BY <1>1, <1>5 DEF Types, Activate, DocStatus
  <2> QED BY <1>5, <2>1, <2>2 DEF Types, Activate
<1>6. CASE Drop(x)
  <2>1. runner' \in [Extractors -> RunnerType]
    BY <1>6, RunnerMoves DEF Types, Drop, Stages
  <2> QED BY <1>6, <2>1, RmtreeType DEF Types, Drop
<1>7. CASE DropRow(x)
  <2>1. runner' \in [Extractors -> RunnerType]
    BY <1>7, RunnerMoves DEF Types, DropRow, Stages
  <2>2. doc' \in [Jobs -> DocStatus] /\ extract' \in [Jobs -> ExtractType]
    BY <1>1, <1>7, RemovedType, Values DEF Types, DropRow
  <2> QED BY <1>7, <2>1, <2>2 DEF Types, DropRow
<1>8. CASE Mark(x)
  <2>1. runner' \in [Extractors -> RunnerType]
    BY <1>8, Values DEF Types, Mark
  <2>2. extract' \in [Jobs -> ExtractType]
    BY <1>1, <1>8 DEF Types, Mark, ExtractType
  <2> QED BY <1>8, <2>1, <2>2 DEF Types, Mark
<1>9. CASE Fault(x)
  <2>1. runner' \in [Extractors -> RunnerType]
    BY <1>9, RunnerMoves DEF Types, Fault, Stages
  <2>2. used' \in [crashes : Nat, errors : Nat, retries : Nat, requests : Nat]
    BY <1>9 DEF Types, Fault
  <2> QED BY <1>9, <2>1, <2>2 DEF Types, Fault
<1> QED BY <1>2, <1>3, <1>4, <1>5, <1>6, <1>7, <1>8, <1>9 DEF Run

LEMMA TimeTypes ==
  ASSUME Types, (\E j \in Jobs : LeaseExpires(j) \/ Ages(j)) \/ Crash \/ Restart
  PROVE  Types'
<1>1. CASE \E j \in Jobs : LeaseExpires(j)
  <2>1. extract' \in [Jobs -> ExtractType]
    BY <1>1 DEF Types, LeaseExpires, ExtractType
  <2> QED BY <1>1, <2>1 DEF Types, LeaseExpires
<1>2. CASE \E j \in Jobs : Ages(j)
  BY <1>2 DEF Types, Ages
<1>3. CASE Crash
  <2>1. used' \in [crashes : Nat, errors : Nat, retries : Nat, requests : Nat]
    BY <1>3 DEF Types, Crash
  <2>2. /\ intake' \in [Ingesters -> IntakeType] /\ runner' \in [Extractors -> RunnerType]
        /\ sweep' \in SweepType /\ up' \in BOOLEAN
    BY <1>3, Values DEF Crash
  <2> QED BY <1>3, <2>1, <2>2 DEF Types, Crash
<1>4. CASE Restart
  <2>1. extract' \in [Jobs -> ExtractType]
    BY <1>4 DEF Types, Restart, ExtractType
  <2> QED BY <1>4, <2>1 DEF Types, Restart
<1> QED BY <1>1, <1>2, <1>3, <1>4

LEMMA SweepTypes ==
  ASSUME Types, Sweep \/ RecoveryFails
  PROVE  Types'
<1> DEFINE at(pc, jobs, docs, k, strike) ==
      [pc |-> pc, jobs |-> jobs, docs |-> docs, job |-> k, strike |-> strike]
<1>1. /\ sweep.jobs \in SUBSET Jobs /\ sweep.docs \in SUBSET Jobs /\ sweep.strike \in BOOLEAN
      /\ sweep = at(sweep.pc, sweep.jobs, sweep.docs, sweep.job, sweep.strike)
      /\ sweep.pc \in {"idle", "jobs", "docs"} => sweep.job = NoJob /\ sweep.strike = FALSE
      /\ sweep.pc = "failing" => sweep.job \in Jobs /\ sweep.strike = FALSE
      /\ sweep.pc \in {"moving", "recording", "updating", "clearing"} => sweep.job \in Jobs
      /\ \A k : sweep.jobs \ {k} \in SUBSET Jobs /\ sweep.docs \ {k} \in SUBSET Jobs
  BY DEF Types, SweepType
<1>2. \A jobs, docs \in SUBSET Jobs :
        /\ \A pc \in {"jobs", "docs"} : at(pc, jobs, docs, NoJob, FALSE) \in SweepType
        /\ \A pc \in {"moving", "recording", "updating", "clearing"}, k \in Jobs,
             strike \in BOOLEAN : at(pc, jobs, docs, k, strike) \in SweepType
        /\ \A k \in Jobs : at("failing", jobs, docs, k, FALSE) \in SweepType
  BY DEF SweepType
<1>3. CASE BeginSweep
  <2>1. StaleJobs \in SUBSET Jobs /\ {} \in SUBSET Jobs
    BY DEF Types, StaleJobs
  <2>2. sweep' = at("jobs", StaleJobs, {}, NoJob, FALSE)
    BY <1>3 DEF BeginSweep, NoSweep
  <2>3. sweep' \in SweepType
    BY <1>2, <2>1, <2>2
  <2> QED BY <1>3, <2>3 DEF Types, BeginSweep
<1>4. CASE \E j \in Jobs : RecoverJob(j)
  <2>1. PICK j \in Jobs : RecoverJob(j)
    BY <1>4
  <2>2. job' \in [Jobs -> JobType]
    <3>1. job' = [job EXCEPT ![j].status = "active"] \/ UNCHANGED job
      BY <2>1 DEF RecoverJob
    <3>2. [job EXCEPT ![j].status = "active"] \in [Jobs -> JobType]
      BY JobTypes DEF Types
    <3> QED BY <3>1, <3>2 DEF Types
  <2>3. \/ sweep' = at("jobs", sweep.jobs \ {j}, sweep.docs, NoJob, FALSE)
        \/ sweep' = at("moving", sweep.jobs, sweep.docs, j, Strikes(j) >= MaxStale)
    BY <1>1, <2>1 DEF RecoverJob
  <2>4. (Strikes(j) >= MaxStale) \in BOOLEAN
    OBVIOUS
  <2>5. sweep' \in SweepType
    BY <1>1, <1>2, <2>3, <2>4
  <2> QED BY <2>1, <2>2, <2>5 DEF Types, RecoverJob
<1>5. CASE MoveBack
  <2>1. sweep' = at(IF sweep.strike THEN "recording" ELSE "updating", sweep.jobs, sweep.docs,
                    sweep.job, sweep.strike)
    BY <1>1, <1>5 DEF MoveBack
  <2>2. sweep' \in SweepType
    <3>1. sweep.job \in Jobs
      BY <1>1, <1>5 DEF MoveBack
    <3> QED BY <1>1, <1>2, <2>1, <3>1
  <2>3. In("quarantine", sweep.job) \in Place
    BY <1>1, <1>5, Values DEF MoveBack, Folders
  <2>4. file' \in [Files -> Place]
    BY <1>5, <2>3, Values DEF Types, MoveBack
  <2> QED BY <1>5, <2>2, <2>4 DEF Types, MoveBack
<1>6. CASE RecordQuarantine
  <2>1. sweep' = at("updating", sweep.jobs, sweep.docs, sweep.job, sweep.strike)
    BY <1>1, <1>6 DEF RecordQuarantine
  <2>2. sweep' \in SweepType
    <3>1. sweep.job \in Jobs
      BY <1>1, <1>6 DEF RecordQuarantine
    <3> QED BY <1>1, <1>2, <2>1, <3>1
  <2> QED BY <1>1, <1>6, <2>2 DEF Types, RecordQuarantine
<1>7. CASE Tombstone
  <2>1. sweep' = at("clearing", sweep.jobs, sweep.docs, sweep.job, sweep.strike)
    BY <1>1, <1>7 DEF Tombstone
  <2>2. sweep' \in SweepType /\ sweep.job \in Jobs
    <3>1. sweep.job \in Jobs
      BY <1>1, <1>7 DEF Tombstone
    <3> QED BY <1>1, <1>2, <2>1, <3>1
  <2>3. job' \in [Jobs -> JobType]
    BY <1>7, <2>2, JobTypes DEF Types, Tombstone
  <2> QED BY <1>7, <2>2, <2>3 DEF Types, Tombstone
<1>8. CASE ClearWorkdir \/ RecoveryFails
  <2>1. sweep' = at("jobs", sweep.jobs \ {sweep.job}, sweep.docs, NoJob, FALSE)
    BY <1>1, <1>8 DEF ClearWorkdir, RecoveryFails
  <2>2. sweep' \in SweepType
    BY <1>1, <1>2, <2>1
  <2>3. file' \in [Files -> Place]
    BY <1>8, RmtreeType DEF Types, ClearWorkdir, RecoveryFails
  <2>4. used' \in [crashes : Nat, errors : Nat, retries : Nat, requests : Nat]
    BY <1>8 DEF Types, ClearWorkdir, RecoveryFails
  <2> QED BY <1>8, <2>2, <2>3, <2>4 DEF Types, ClearWorkdir, RecoveryFails
<1>9. CASE ListProcessing
  <2>1. OldDocs \in SUBSET Jobs
    BY DEF Types, OldDocs
  <2>2. sweep' = at("docs", sweep.jobs, OldDocs, NoJob, FALSE)
    BY <1>1, <1>9 DEF ListProcessing
  <2>3. sweep' \in SweepType
    BY <1>1, <1>2, <2>1, <2>2
  <2> QED BY <1>9, <2>3 DEF Types, ListProcessing
<1>10. CASE \E j \in Jobs : CheckDocument(j)
  <2>1. PICK j \in Jobs : CheckDocument(j)
    BY <1>10
  <2>2. \/ sweep' = at("failing", sweep.jobs, sweep.docs, j, FALSE)
        \/ sweep' = at("docs", sweep.jobs, sweep.docs \ {j}, NoJob, FALSE)
    BY <1>1, <2>1 DEF CheckDocument
  <2>3. sweep' \in SweepType
    BY <1>1, <1>2, <2>2
  <2> QED BY <2>1, <2>3 DEF Types, CheckDocument
<1>11. CASE FailInterrupted
  <2>1. sweep' = at("docs", sweep.jobs, sweep.docs \ {sweep.job}, NoJob, FALSE)
    BY <1>1, <1>11 DEF FailInterrupted
  <2>2. sweep' \in SweepType
    BY <1>1, <1>2, <2>1
  <2>3. doc' \in [Jobs -> DocStatus]
    BY <1>1, <1>11, RemovedType DEF Types, FailInterrupted
  <2> QED BY <1>11, <2>2, <2>3 DEF Types, FailInterrupted
<1>12. CASE EndSweep
  BY <1>12, Values DEF Types, EndSweep
<1> QED BY <1>3, <1>4, <1>5, <1>6, <1>7, <1>8, <1>9, <1>10, <1>11, <1>12 DEF Sweep

LEMMA NextTypes == Types /\ [Next]_vars => Types'
<1> SUFFICES ASSUME Types, [Next]_vars PROVE Types'
  OBVIOUS
<1>1. CASE \E f \in Files : Upload(f) \/ \E i \in Ingesters, j \in Jobs : AddJob(i, f, j)
  BY <1>1, UploadTypes, ProcessTypes
<1>2. CASE \E i \in Ingesters : Process(i)
  BY <1>2, ProcessTypes
<1>3. CASE \E x \in Extractors : Run(x) \/ Fault(x)
  BY <1>3, RunTypes
<1>4. CASE \E j \in Jobs : Delete(j) \/ RetryExtract(j) \/ RetryJob(j) \/ LeaseExpires(j) \/ Ages(j)
  BY <1>4, UserTypes, TimeTypes
<1>5. CASE \E j \in Jobs, outcome \in Outcome : DeleteTerminal(j, outcome)
  BY <1>5, UserTypes
<1>6. CASE Reingest \/ ApiCrash
  BY <1>6, ReingestTypes
<1>7. CASE Sweep \/ RecoveryFails
  BY <1>7, SweepTypes
<1>8. CASE Crash \/ Restart
  BY <1>8, TimeTypes
<1>9. CASE UNCHANGED vars
  BY <1>9 DEF vars, Types
<1> QED BY <1>1, <1>2, <1>3, <1>4, <1>5, <1>6, <1>7, <1>8, <1>9 DEF Next

-----------------------------------------------------------------------------
(* Who writes which table                                                   *)

LEMMA JobWriters ==
  ASSUME [Next]_vars
  PROVE  \/ UNCHANGED job
         \/ \E j \in Jobs : Delete(j) \/ RecoverJob(j)
         \/ \E j \in Jobs, outcome \in Outcome : DeleteTerminal(j, outcome)
         \/ \E i \in Ingesters : \/ Identify(i) \/ CloseJob(i)
                                 \/ \E f \in Files, j \in Jobs : AddJob(i, f, j)
         \/ PurgeOriginal \/ Tombstone
<1>1. CASE \E f \in Files : Upload(f) \/ \E i \in Ingesters, j \in Jobs : AddJob(i, f, j)
  BY <1>1 DEF Upload
<1>2. CASE \E i \in Ingesters : Process(i)
  BY <1>2 DEF Process, TakeFile, Decide, CreateDocument, SeedLedger, Extract, Publish, Index,
              RecordDone, Relocate, RecordTerminal, Raise
<1>3. CASE \E x \in Extractors : Run(x) \/ Fault(x)
  BY <1>3 DEF Run, Fault, Claim, Load, Resolve, Read, Write, Activate, Drop, DropRow, Mark
<1>4. CASE \E j \in Jobs : Delete(j) \/ RetryExtract(j) \/ RetryJob(j) \/ LeaseExpires(j) \/ Ages(j)
  BY <1>4 DEF RetryExtract, RetryJob, LeaseExpires, Ages
<1>5. CASE Reingest \/ ApiCrash
  BY <1>5 DEF Reingest, ApiCrash, ReadOriginal, WriteBack
<1>6. CASE Sweep \/ RecoveryFails
  BY <1>6 DEF Sweep, RecoveryFails, BeginSweep, CheckDocument, MoveBack, RecordQuarantine,
              ClearWorkdir, ListProcessing, FailInterrupted, EndSweep
<1>7. CASE Crash \/ Restart \/ UNCHANGED vars
  BY <1>7 DEF Crash, Restart, vars
<1> QED BY <1>1, <1>2, <1>3, <1>4, <1>5, <1>6, <1>7 DEF Next

LEMMA DocWriters ==
  ASSUME [Next]_vars
  PROVE  \/ UNCHANGED doc
         \/ \E j \in Jobs : Delete(j)
         \/ \E i \in Ingesters : CreateDocument(i) \/ Publish(i) \/ Index(i)
         \/ \E x \in Extractors : Resolve(x) \/ Read(x) \/ Activate(x) \/ DropRow(x)
         \/ PurgeOriginal \/ FailInterrupted
<1>1. CASE \E f \in Files : Upload(f) \/ \E i \in Ingesters, j \in Jobs : AddJob(i, f, j)
  BY <1>1 DEF Upload, AddJob
<1>2. CASE \E i \in Ingesters : Process(i)
  BY <1>2 DEF Process, TakeFile, Identify, Decide, SeedLedger, Extract, RecordDone, Relocate,
              RecordTerminal, CloseJob, Raise
<1>3. CASE \E x \in Extractors : Run(x) \/ Fault(x)
  BY <1>3 DEF Run, Fault, Claim, Load, Write, Drop, Mark
<1>4. CASE \/ \E j \in Jobs : Delete(j) \/ RetryExtract(j) \/ RetryJob(j) \/ LeaseExpires(j) \/ Ages(j)
           \/ \E j \in Jobs, outcome \in Outcome : DeleteTerminal(j, outcome)
  BY <1>4 DEF RetryExtract, RetryJob, LeaseExpires, Ages, DeleteTerminal
<1>5. CASE Reingest \/ ApiCrash
  BY <1>5 DEF Reingest, ApiCrash, ReadOriginal, WriteBack
<1>6. CASE Sweep \/ RecoveryFails
  BY <1>6 DEF Sweep, RecoveryFails, BeginSweep, RecoverJob, CheckDocument, MoveBack,
              RecordQuarantine, Tombstone, ClearWorkdir, ListProcessing, EndSweep
<1>7. CASE Crash \/ Restart \/ UNCHANGED vars
  BY <1>7 DEF Crash, Restart, vars
<1> QED BY <1>1, <1>2, <1>3, <1>4, <1>5, <1>6, <1>7 DEF Next

LEMMA TerminalWriters ==
  ASSUME [Next]_vars
  PROVE  \/ UNCHANGED terminal
         \/ \E j \in Jobs, outcome \in Outcome : DeleteTerminal(j, outcome)
         \/ \E i \in Ingesters : RecordTerminal(i)
         \/ PurgeOriginal \/ RecordQuarantine
<1>1. CASE \E f \in Files : Upload(f) \/ \E i \in Ingesters, j \in Jobs : AddJob(i, f, j)
  BY <1>1 DEF Upload, AddJob
<1>2. CASE \E i \in Ingesters : Process(i)
  BY <1>2 DEF Process, TakeFile, Identify, Decide, CreateDocument, SeedLedger, Extract, Publish,
              Index, RecordDone, Relocate, CloseJob, Raise
<1>3. CASE \E x \in Extractors : Run(x) \/ Fault(x)
  BY <1>3 DEF Run, Fault, Claim, Load, Resolve, Read, Write, Activate, Drop, DropRow, Mark
<1>4. CASE \E j \in Jobs : Delete(j) \/ RetryExtract(j) \/ RetryJob(j) \/ LeaseExpires(j) \/ Ages(j)
  BY <1>4 DEF Delete, RetryExtract, RetryJob, LeaseExpires, Ages
<1>5. CASE Reingest \/ ApiCrash
  BY <1>5 DEF Reingest, ApiCrash, ReadOriginal, WriteBack
<1>6. CASE Sweep \/ RecoveryFails
  BY <1>6 DEF Sweep, RecoveryFails, BeginSweep, RecoverJob, CheckDocument, MoveBack, Tombstone,
              ClearWorkdir, ListProcessing, FailInterrupted, EndSweep
<1>7. CASE Crash \/ Restart \/ UNCHANGED vars
  BY <1>7 DEF Crash, Restart, vars
<1> QED BY <1>1, <1>2, <1>3, <1>4, <1>5, <1>6, <1>7 DEF Next

LEMMA LedgerWriters ==
  ASSUME [Next]_vars
  PROVE  \/ UNCHANGED extract
         \/ \E j \in Jobs : Delete(j) \/ RetryExtract(j) \/ LeaseExpires(j)
         \/ \E i \in Ingesters : SeedLedger(i) \/ RecordDone(i)
         \/ \E x \in Extractors : DropRow(x) \/ Mark(x) \/ \E j \in Jobs : Claim(x, j)
         \/ PurgeOriginal \/ Restart
<1>1. CASE \E f \in Files : Upload(f) \/ \E i \in Ingesters, j \in Jobs : AddJob(i, f, j)
  BY <1>1 DEF Upload, AddJob
<1>2. CASE \E i \in Ingesters : Process(i)
  BY <1>2 DEF Process, TakeFile, Identify, Decide, CreateDocument, Extract, Publish, Index,
              Relocate, RecordTerminal, CloseJob, Raise
<1>3. CASE \E x \in Extractors : Run(x) \/ Fault(x)
  BY <1>3 DEF Run, Fault, Load, Resolve, Read, Write, Activate, Drop
<1>4. CASE \/ \E j \in Jobs : Delete(j) \/ RetryExtract(j) \/ RetryJob(j) \/ LeaseExpires(j) \/ Ages(j)
           \/ \E j \in Jobs, outcome \in Outcome : DeleteTerminal(j, outcome)
  BY <1>4 DEF RetryJob, Ages, DeleteTerminal
<1>5. CASE Reingest \/ ApiCrash
  BY <1>5 DEF Reingest, ApiCrash, ReadOriginal, WriteBack
<1>6. CASE Sweep \/ RecoveryFails
  BY <1>6 DEF Sweep, RecoveryFails, BeginSweep, RecoverJob, CheckDocument, MoveBack,
              RecordQuarantine, Tombstone, ClearWorkdir, ListProcessing, FailInterrupted, EndSweep
<1>7. CASE Crash \/ Restart \/ UNCHANGED vars
  BY <1>7 DEF Crash, vars
<1> QED BY <1>1, <1>2, <1>3, <1>4, <1>5, <1>6, <1>7 DEF Next

-----------------------------------------------------------------------------
(* Runs of an extract row                                                   *)

(* A row that waits, or that a dead process has left running, has room for a  *)
(* claim                                                                    *)
RunsInTime ==
  \A j \in Jobs :
    /\ extract[j].attempts <= MaxAttempts + used.crashes
    /\ extract[j].status = "pending" \/ (~up /\ extract[j].status = "running") =>
         extract[j].attempts < MaxAttempts + used.crashes

LEMMA InitRuns == Init => RunsInTime
  BY IntakeAssumption DEF Init, RunsInTime, NoRow

(* Deaths are counted for good, and only they stop the worker                 *)
LEMMA UsedGrows ==
  ASSUME Types, [Next]_vars
  PROVE  /\ used'.crashes \in Nat /\ used'.crashes >= used.crashes
         /\ up' = up \/ Crash \/ Restart
<1> DEFINE Spent == \/ used' = used
                    \/ used' = [used EXCEPT !.crashes = @ + 1]
                    \/ used' = [used EXCEPT !.errors = @ + 1]
                    \/ used' = [used EXCEPT !.retries = @ + 1]
                    \/ used' = [used EXCEPT !.requests = @ + 1]
<1>1. ASSUME \E f \in Files : Upload(f) \/ \E i \in Ingesters, j \in Jobs : AddJob(i, f, j)
     PROVE  Spent /\ (up' = up \/ Crash \/ Restart)
  BY <1>1 DEF Upload, AddJob
<1>2. ASSUME \E i \in Ingesters : Process(i)
     PROVE  Spent /\ (up' = up \/ Crash \/ Restart)
  BY <1>2 DEF Process, TakeFile, Identify, Decide, CreateDocument, SeedLedger, Extract, Publish,
              Index, RecordDone, Relocate, RecordTerminal, CloseJob, Raise
<1>3. ASSUME \E x \in Extractors : Run(x) \/ Fault(x)
     PROVE  Spent /\ (up' = up \/ Crash \/ Restart)
  BY <1>3 DEF Run, Fault, Claim, Load, Resolve, Read, Write, Activate, Drop, DropRow, Mark
<1>4. ASSUME \/ \E j \in Jobs : Delete(j) \/ RetryExtract(j) \/ RetryJob(j) \/ LeaseExpires(j) \/ Ages(j)
            \/ \E j \in Jobs, outcome \in Outcome : DeleteTerminal(j, outcome)
     PROVE  Spent /\ (up' = up \/ Crash \/ Restart)
  BY <1>4 DEF Delete, RetryExtract, RetryJob, LeaseExpires, Ages, DeleteTerminal, Request
<1>5. ASSUME Reingest \/ ApiCrash
     PROVE  Spent /\ (up' = up \/ Crash \/ Restart)
  BY <1>5 DEF Reingest, ApiCrash, ReadOriginal, PurgeOriginal, WriteBack, Request
<1>6. ASSUME Sweep \/ RecoveryFails
     PROVE  Spent /\ (up' = up \/ Crash \/ Restart)
  BY <1>6 DEF Sweep, RecoveryFails, BeginSweep, RecoverJob, CheckDocument, MoveBack,
              RecordQuarantine, Tombstone, ClearWorkdir, ListProcessing, FailInterrupted, EndSweep
<1>7. ASSUME Crash \/ Restart \/ UNCHANGED vars
     PROVE  Spent /\ (up' = up \/ Crash \/ Restart)
  BY <1>7 DEF Crash, Restart, vars
<1>8. Spent /\ (up' = up \/ Crash \/ Restart)
  BY <1>1, <1>2, <1>3, <1>4, <1>5, <1>6, <1>7 DEF Next
<1>9. Spent => used'.crashes \in Nat /\ used'.crashes >= used.crashes
  BY DEF Types
<1> QED BY <1>8, <1>9

LEMMA NextRuns == Types /\ RunsInTime /\ [Next]_vars => RunsInTime'
<1> SUFFICES ASSUME Types, RunsInTime, [Next]_vars, NEW j \in Jobs
             PROVE  /\ extract'[j].attempts <= MaxAttempts + used'.crashes
                    /\ extract'[j].status = "pending" \/ (~up' /\ extract'[j].status = "running")
                         => extract'[j].attempts < MaxAttempts + used'.crashes
  BY DEF RunsInTime
<1>1. /\ extract[j] \in ExtractType /\ extract \in [Jobs -> ExtractType] /\ up \in BOOLEAN
      /\ used.crashes \in Nat /\ MaxAttempts \in Nat \ {0}
      /\ used'.crashes \in Nat /\ used'.crashes >= used.crashes
  BY UsedGrows, IntakeAssumption DEF Types
<1>2. /\ extract[j].attempts <= MaxAttempts + used.crashes
      /\ extract[j].status = "pending" \/ (~up /\ extract[j].status = "running") =>
           extract[j].attempts < MaxAttempts + used.crashes
  BY DEF RunsInTime
<1>3. CASE UNCHANGED extract /\ up' = up
  BY <1>1, <1>2, <1>3 DEF ExtractType
<1>4. CASE Crash
  <2>1. UNCHANGED extract /\ used'.crashes = used.crashes + 1
    BY <1>4 DEF Crash, Types
  <2> QED BY <1>1, <1>2, <2>1 DEF ExtractType
<1>5. CASE Restart
  <2>1. /\ ~up /\ up' /\ used' = used /\ extract'[j].attempts = extract[j].attempts
        /\ extract'[j].status = IF extract[j].status = "running" THEN "pending"
                               ELSE extract[j].status
    BY <1>1, <1>5 DEF Restart, ExtractType
  <2> QED BY <1>1, <1>2, <2>1 DEF ExtractType
<1>6. CASE up' = up /\ ~UNCHANGED extract
  <2>1. CASE \E k \in Jobs : Delete(k) \/ RetryExtract(k)
    <3>1. extract'[j] = extract[j] \/ extract'[j].attempts = 0
      BY <1>1, <2>1 DEF Delete, RetryExtract, NoRow
    <3> QED BY <1>1, <1>2, <1>6, <3>1 DEF ExtractType
  <2>2. CASE \E k \in Jobs : LeaseExpires(k)
    <3>1. /\ extract'[j].attempts = extract[j].attempts
          /\ extract'[j].status \in {extract[j].status, "failed"} \/ extract[j].attempts < MaxAttempts
      BY <1>1, <2>2 DEF LeaseExpires, ExtractType
    <3> QED BY <1>1, <1>2, <1>6, <3>1 DEF ExtractType
  <2>3. CASE \E i \in Ingesters : SeedLedger(i) \/ RecordDone(i)
    <3>1. extract'[j] = extract[j] \/ extract'[j].attempts = 0
      BY <1>1, <2>3 DEF SeedLedger, RecordDone
    <3> QED BY <1>1, <1>2, <1>6, <3>1 DEF ExtractType
  <2>4. CASE PurgeOriginal \/ \E x \in Extractors : DropRow(x)
    <3>1. extract'[j] = extract[j] \/ extract'[j].attempts = 0
      BY <1>1, <2>4 DEF PurgeOriginal, DropRow, NoRow
    <3> QED BY <1>1, <1>2, <1>6, <3>1 DEF ExtractType
  <2>5. CASE \E x \in Extractors : Mark(x)
    <3>1. /\ extract'[j].attempts = extract[j].attempts
          /\ extract'[j].status \in {extract[j].status, "done", "failed"}
      BY <1>1, <2>5 DEF Mark, ExtractType
    <3> QED BY <1>1, <1>2, <1>6, <3>1 DEF ExtractType
  <2>6. CASE \E x \in Extractors, k \in Jobs : Claim(x, k)
    <3> PICK x \in Extractors, k \in Jobs : Claim(x, k)
      BY <2>6
    <3>1. CASE k = j
      <4>1. /\ up /\ Claimable(j) /\ extract'[j].status = "running"
            /\ extract'[j].attempts = extract[j].attempts + 1
        BY <1>1, <3>1 DEF Claim
      <4> QED BY <1>1, <1>2, <1>6, <4>1 DEF Claimable, ExtractType
    <3>2. CASE k # j
      <4>1. extract'[j] = extract[j]
        BY <1>1, <3>2 DEF Claim
      <4> QED BY <1>1, <1>2, <1>6, <4>1 DEF ExtractType
    <3> QED BY <3>1, <3>2
  <2>7. CASE Restart
    BY <1>5, <2>7
  <2> QED BY <1>6, <2>1, <2>2, <2>3, <2>4, <2>5, <2>6, <2>7, LedgerWriters
<1> QED BY <1>3, <1>4, <1>5, <1>6, UsedGrows

(* Every variable keeps its type: positions that hold a job, outcomes that    *)
(* are recorded only when they are terminal; and an extract row is run beyond *)
(* max_attempts at most once for each death of a process, whatever expired    *)
(* leases, late results, retries and failures there are (process_file,       *)
(* recover_stale, claim_next, requeue_running).                             *)
THEOREM TypesHold == Spec => []TypeOK
<1>1. Types /\ RunsInTime => TypeOK
  BY DEF RunsInTime, TypeOK
<1> QED BY <1>1, InitTypes, NextTypes, InitRuns, NextRuns, PTL DEF Spec

-----------------------------------------------------------------------------
(* Positions of the actors                                                  *)
LEMMA PositionWriters ==
  ASSUME [Next]_vars
  PROVE  /\ \/ UNCHANGED intake
            \/ \E i \in Ingesters : Process(i) \/ \E f \in Files, j \in Jobs : AddJob(i, f, j)
            \/ Crash
         /\ UNCHANGED runner \/ (\E x \in Extractors : Run(x) \/ Fault(x)) \/ Crash
         /\ UNCHANGED sweep \/ Sweep \/ RecoveryFails \/ Crash
         /\ UNCHANGED request \/ Reingest \/ ApiCrash
<1>1. CASE \E f \in Files : Upload(f) \/ \E i \in Ingesters, j \in Jobs : AddJob(i, f, j)
  BY <1>1 DEF Upload, AddJob
<1>2. CASE \E i \in Ingesters : Process(i)
  <2>1. UNCHANGED <<runner, sweep, request>>
    BY <1>2 DEF Process, TakeFile, Identify, Decide, CreateDocument, SeedLedger, Extract,
                Publish, Index, RecordDone, Relocate, RecordTerminal, CloseJob, Raise
  <2> QED BY <1>2, <2>1
<1>3. CASE \E x \in Extractors : Run(x) \/ Fault(x)
  BY <1>3 DEF Run, Fault, Claim, Load, Resolve, Read, Write, Activate, Drop, DropRow, Mark
<1>4. CASE \/ \E j \in Jobs : Delete(j) \/ RetryExtract(j) \/ RetryJob(j) \/ LeaseExpires(j) \/ Ages(j)
           \/ \E j \in Jobs, outcome \in Outcome : DeleteTerminal(j, outcome)
  BY <1>4 DEF Delete, RetryExtract, RetryJob, LeaseExpires, Ages, DeleteTerminal
<1>5. CASE Reingest \/ ApiCrash
  BY <1>5 DEF Reingest, ApiCrash, ReadOriginal, PurgeOriginal, WriteBack
<1>6. CASE Sweep \/ RecoveryFails
  BY <1>6 DEF Sweep, RecoveryFails, BeginSweep, RecoverJob, CheckDocument, MoveBack,
              RecordQuarantine, Tombstone, ClearWorkdir, ListProcessing, FailInterrupted, EndSweep
<1>7. CASE Crash
  BY <1>7 DEF Crash
<1>8. CASE Restart \/ UNCHANGED vars
  BY <1>8 DEF Restart, vars
<1> QED BY <1>1, <1>2, <1>3, <1>4, <1>5, <1>6, <1>7, <1>8 DEF Next

-----------------------------------------------------------------------------
(* The inductive invariant                                                  *)

Recorded(j, outcome) == terminal[j] \cap {outcome, "gone", "deleted"} # {}

Early == {"added", "moved", "identified", "creating", "extracting", "written"}
Made  == {"seeding", "indexing", "recording_done"}

(* A job has its file from the start and a document only afterwards          *)
JobsInv ==
  \A j \in Jobs :
    /\ job[j].status = "unused" => doc[j] = "absent"
    /\ job[j].status # "unused" => job[j].file \in Files

(* Each thread has a job of its own, and what it has made so far is there     *)
IntakeInv ==
  /\ \A i \in Ingesters : intake[i].pc # "idle" =>
       LET j == intake[i].job IN
       /\ job[j].status # "unused"
       /\ intake[i].pc \in Early => doc[j] = "absent"
       /\ intake[i].pc \in Made => doc[j] # "absent"
       /\ intake[i].pc = "closing" => IF intake[i].outcome = "active" THEN doc[j] # "absent"
                                      ELSE Recorded(j, intake[i].outcome)
  /\ \A i, k \in Ingesters :
       intake[i].pc # "idle" /\ intake[k].pc # "idle" /\ intake[i].job = intake[k].job => i = k

(* Ledger rows, runs and reingests are of documents that have been made      *)
MadeInv ==
  /\ \A j \in Jobs : extract[j].status # "none" => doc[j] # "absent"
  /\ \A x \in Extractors : runner[x].pc # "idle" => doc[runner[x].job] # "absent"
  /\ request.pc = "read" /\ request.folder = "active" => doc[request.job] # "absent"

SweepInv ==
  /\ \A j \in sweep.jobs : job[j].status # "unused"
  /\ sweep.pc \in {"moving", "recording", "updating", "clearing"} =>
       job[sweep.job].status # "unused"
  /\ sweep.pc = "updating" /\ sweep.strike => Recorded(sweep.job, "quarantined")

IInv == Types /\ JobsInv /\ IntakeInv /\ MadeInv /\ SweepInv /\ OutcomeRecorded

LEMMA InitIInv == Init => IInv
<1> SUFFICES ASSUME Init PROVE IInv
  OBVIOUS
<1>1. Types
  BY InitTypes
<1>2. JobsInv /\ IntakeInv /\ MadeInv /\ SweepInv /\ OutcomeRecorded
  BY DEF Init, JobsInv, IntakeInv, MadeInv, SweepInv, OutcomeRecorded, Unused, Resting, Free,
         NoRow, NoSweep, NoRequest
<1> QED BY <1>1, <1>2 DEF IInv

-----------------------------------------------------------------------------
(* A document that was made, a job that was taken and an outcome that was     *)
(* recorded stay so                                                         *)

LEMMA JobKept ==
  ASSUME IInv, [Next]_vars, NEW j \in Jobs
  PROVE  \/ /\ job'[j].file = job[j].file
            /\ (job'[j].status = "unused") <=> (job[j].status = "unused")
         \/ /\ job[j].status = "unused" /\ job'[j].status = "open" /\ job'[j].file \in Files
            /\ \E i \in Ingesters, f \in Files : AddJob(i, f, j)
<1>1. job \in [Jobs -> JobType] /\ \A s \in Outcome \cup {"recovered", "deleted"} : s # "unused"
  BY DEF IInv, Types, Outcome
<1>2. CASE UNCHANGED job
  BY <1>2
<1>3. CASE \E k \in Jobs : Delete(k)
  BY <1>1, <1>3 DEF Delete, JobType
<1>4. CASE \E k \in Jobs : RecoverJob(k)
  BY <1>1, <1>4 DEF RecoverJob, JobType, IInv, SweepInv
<1>5. CASE \E k \in Jobs, outcome \in Outcome : DeleteTerminal(k, outcome)
  BY <1>1, <1>5 DEF DeleteTerminal, RemoveTerminal, JobType
<1>6. CASE \E i \in Ingesters : Identify(i)
  BY <1>1, <1>6 DEF Identify, JobType
<1>7. CASE \E i \in Ingesters : CloseJob(i)
  <2>1. PICK i \in Ingesters : CloseJob(i)
    BY <1>7
  <2>2. job[intake[i].job].status # "unused" /\ intake[i].outcome \in Outcome
    BY <2>1, IntakeOf DEF IInv, Types, IntakeInv, CloseJob
  <2> QED BY <1>1, <2>1, <2>2 DEF CloseJob, JobType
<1>8. CASE \E i \in Ingesters, f \in Files, k \in Jobs : AddJob(i, f, k)
  <2>1. PICK i \in Ingesters, f \in Files, k \in Jobs : AddJob(i, f, k)
    BY <1>8
  <2>2. /\ job[k].status = "unused"
        /\ job' = [job EXCEPT ![k] = [status |-> "open", file |-> f, source |-> "ingest",
                                      hashed |-> FALSE]]
    BY <2>1 DEF AddJob
  <2>3. CASE j = k
    BY <1>1, <2>1, <2>2, <2>3
  <2>4. CASE j # k
    BY <1>1, <2>2, <2>4
  <2> QED BY <2>3, <2>4
<1>9. CASE PurgeOriginal
  <2>1. \E o : job' = [job EXCEPT ![request.job].status = IF @ = o THEN "deleted" ELSE @]
                 /\ o # "unused"
    BY <1>1, <1>9 DEF PurgeOriginal, RemoveTerminal
  <2> QED BY <1>1, <2>1 DEF JobType
<1>10. CASE Tombstone
  BY <1>1, <1>10 DEF Tombstone, JobType, IInv, SweepInv
<1> QED BY <1>2, <1>3, <1>4, <1>5, <1>6, <1>7, <1>8, <1>9, <1>10, JobWriters

LEMMA DocKept ==
  ASSUME IInv, [Next]_vars, NEW j \in Jobs
  PROVE  /\ doc[j] # "absent" => doc'[j] # "absent"
         /\ doc[j] = "absent" /\ doc'[j] # "absent" =>
              \E i \in Ingesters : intake[i].job = j /\ (CreateDocument(i) \/ Publish(i))
<1>1. doc \in [Jobs -> DocStatus]
  BY DEF IInv, Types
<1>2. CASE UNCHANGED doc
  BY <1>2
<1>3. CASE \E k \in Jobs : Delete(k)
  BY <1>1, <1>3 DEF Delete
<1>4. CASE \E i \in Ingesters : CreateDocument(i) \/ Publish(i)
  BY <1>1, <1>4 DEF CreateDocument, Publish
<1>5. CASE \E i \in Ingesters : Index(i)
  BY <1>1, <1>5 DEF Index, DocRemoved, IInv, IntakeInv, Made
<1>6. CASE \E x \in Extractors : Resolve(x) \/ Read(x) \/ Activate(x)
  BY <1>1, <1>6 DEF Resolve, Read, Activate, FailDocument
<1>7. CASE \E x \in Extractors : DropRow(x)
  BY <1>1, <1>7 DEF DropRow, DocRemoved, IInv, MadeInv
<1>8. CASE PurgeOriginal
  BY <1>1, <1>8 DEF PurgeOriginal, DocRemoved, IInv, MadeInv
<1>9. CASE FailInterrupted
  BY <1>1, <1>9 DEF FailInterrupted, FailDocument
<1> QED BY <1>2, <1>3, <1>4, <1>5, <1>6, <1>7, <1>8, <1>9, DocWriters

LEMMA RecordedKept ==
  ASSUME IInv, [Next]_vars, NEW j \in Jobs, NEW outcome, Recorded(j, outcome)
  PROVE  Recorded(j, outcome)'
<1>1. terminal \in [Jobs -> SUBSET Marks]
  BY DEF IInv, Types, Marks
<1>2. CASE UNCHANGED terminal
  BY <1>2 DEF Recorded
<1>3. CASE \E k \in Jobs, o \in Outcome : DeleteTerminal(k, o)
  BY <1>1, <1>3 DEF DeleteTerminal, RemoveTerminal, Recorded
<1>4. CASE (\E i \in Ingesters : RecordTerminal(i)) \/ RecordQuarantine
  BY <1>1, <1>4 DEF RecordTerminal, RecordQuarantine, Recorded
<1>5. CASE PurgeOriginal
  BY <1>1, <1>5 DEF PurgeOriginal, RemoveTerminal, Recorded
<1> QED BY <1>2, <1>3, <1>4, <1>5, TerminalWriters

-----------------------------------------------------------------------------
(* Each part of the invariant is kept                                       *)

LEMMA JobsStep == ASSUME IInv, [Next]_vars PROVE JobsInv'
<1> SUFFICES ASSUME NEW j \in Jobs
             PROVE  /\ job'[j].status = "unused" => doc'[j] = "absent"
                    /\ job'[j].status # "unused" => job'[j].file \in Files
  BY DEF JobsInv
<1>1. job'[j].status # "unused" => job'[j].file \in Files
  BY JobKept DEF IInv, JobsInv
<1>2. ASSUME job'[j].status = "unused" PROVE doc'[j] = "absent"
  <2>1. job[j].status = "unused" /\ doc[j] = "absent"
    BY <1>2, JobKept DEF IInv, JobsInv
  <2>2. ASSUME NEW i \in Ingesters, intake[i].job = j, CreateDocument(i) \/ Publish(i)
        PROVE  FALSE
    BY <2>1, <2>2 DEF IInv, IntakeInv, CreateDocument, Publish
  <2> QED BY <2>1, <2>2, DocKept
<1> QED BY <1>1, <1>2

LEMMA GotoOf ==
  ASSUME intake \in [Ingesters -> IntakeType], NEW i \in Ingesters, NEW pc, NEW o,
         (Goto(i, pc) /\ o = intake[i].outcome) \/ End(i, pc, o)
  PROVE  /\ intake'[i].pc = pc /\ intake'[i].job = intake[i].job /\ intake'[i].outcome = o
         /\ \A k \in Ingesters \ {i} : intake'[k] = intake[k]
<1>1. /\ intake[i] = [pc |-> intake[i].pc, job |-> intake[i].job,
                      outcome |-> intake[i].outcome, guarded |-> intake[i].guarded]
      /\ DOMAIN intake = Ingesters
  BY DEF IntakeType
<1>2. CASE Goto(i, pc) /\ o = intake[i].outcome
  BY <1>1, <1>2 DEF Goto
<1>3. CASE End(i, pc, o)
  BY <1>1, <1>3 DEF End
<1> QED BY <1>2, <1>3

(* What a step of process_file leads to                                     *)
LEMMA ProcessStep ==
  ASSUME IInv, [Next]_vars, NEW i \in Ingesters, Process(i), NEW j, j = intake[i].job
  PROVE  /\ intake[i].pc # "idle" /\ j \in Jobs
         /\ \A k \in Ingesters \ {i} : intake'[k] = intake[k]
         /\ intake'[i].pc # "idle" =>
              /\ intake'[i].job = j
              /\ intake'[i].pc \in Early => intake[i].pc \in Early /\ UNCHANGED doc
              /\ intake'[i].pc \in Made => doc'[j] # "absent"
              /\ intake'[i].pc = "closing" =>
                   IF intake'[i].outcome = "active" THEN doc'[j] # "absent"
                   ELSE intake'[i].outcome \in terminal'[j]
<1>1. /\ intake \in [Ingesters -> IntakeType] /\ doc \in [Jobs -> DocStatus]
      /\ terminal \in [Jobs -> SUBSET Marks]
  BY DEF IInv, Types, Marks
<1>2. intake[i].pc # "idle"
  BY DEF Process, TakeFile, Identify, Decide, CreateDocument, SeedLedger, Extract, Publish,
         Index, RecordDone, Relocate, RecordTerminal, CloseJob, Raise
<1>3. /\ j \in Jobs
      /\ intake[i].pc \in Forward \ {"closing"} => intake[i].outcome = "active"
      /\ intake[i].pc \in Made => doc[j] # "absent"
  BY <1>1, <1>2, IntakeOf DEF IInv, IntakeInv
<1>4. CASE TakeFile(i) \/ Identify(i) \/ Decide(i)
  <2>1. PICK pc, o : /\ pc \in {"moved", "identified", "creating", "extracting", "relocating"}
                     /\ (Goto(i, pc) /\ o = intake[i].outcome) \/ End(i, pc, o)
    BY <1>4 DEF TakeFile, Identify, Decide
  <2>2. UNCHANGED doc /\ intake[i].pc \in Early
    BY <1>4 DEF TakeFile, Identify, Decide, Early
  <2>3. pc # "closing" /\ pc \notin Made
    BY <2>1 DEF Made
  <2> QED BY <1>1, <1>2, <1>3, <2>1, <2>2, <2>3, GotoOf
<1>5. CASE CreateDocument(i)
  <2>1. Goto(i, "seeding") /\ doc' = [doc EXCEPT ![j] = "processing"]
    BY <1>5 DEF CreateDocument
  <2>9. /\ intake'[i].pc = "seeding" /\ intake'[i].job = j
        /\ intake'[i].outcome = intake[i].outcome
        /\ \A k \in Ingesters \ {i} : intake'[k] = intake[k]
    BY <1>1, <2>1, GotoOf
  <2> QED BY <1>1, <1>2, <1>3, <2>1, <2>9 DEF Early
<1>6. CASE SeedLedger(i) \/ RecordDone(i)
  <2>1. /\ intake[i].pc \in Made /\ intake[i].pc \in Forward \ {"closing"}
        /\ Goto(i, "closing") /\ UNCHANGED doc
    BY <1>6 DEF SeedLedger, RecordDone, Made, Forward
  <2>9. /\ intake'[i].pc = "closing" /\ intake'[i].job = j
        /\ intake'[i].outcome = intake[i].outcome
        /\ \A k \in Ingesters \ {i} : intake'[k] = intake[k]
    BY <1>1, <2>1, GotoOf
  <2> QED BY <1>1, <1>2, <1>3, <2>1, <2>9 DEF Early, Made
<1>7. CASE Extract(i)
  <2>1. CASE Goto(i, "written")
    <3>1. UNCHANGED doc /\ intake[i].pc \in Early
      BY <1>7 DEF Extract, Early
    <3> QED BY <1>1, <1>2, <1>3, <2>1, <3>1, GotoOf DEF Made
  <2>2. CASE \E guarded \in BOOLEAN :
               intake' = [intake EXCEPT ![i] = [pc |-> "relocating", job |-> intake[i].job,
                                                outcome |-> "failed", guarded |-> guarded]]
    BY <1>1, <1>2, <1>3, <2>2 DEF Early, Made
  <2> QED BY <1>7, <2>1, <2>2 DEF Extract
<1>8. CASE Publish(i) \/ Index(i)
  <2>1. \/ Goto(i, "indexing") /\ doc' = [doc EXCEPT ![j] = "active"]
        \/ Goto(i, "recording_done") /\ UNCHANGED doc /\ intake[i].pc \in Made
        \/ \E o : End(i, "relocating", o) \/ End(i, "restoring", o)
    BY <1>8 DEF Publish, Index, Made
  <2>2. CASE Goto(i, "indexing") /\ doc' = [doc EXCEPT ![j] = "active"]
    <3>1. /\ intake'[i].pc = "indexing" /\ intake'[i].job = j
          /\ \A k \in Ingesters \ {i} : intake'[k] = intake[k]
      BY <1>1, <2>2, GotoOf
    <3> QED BY <1>1, <1>2, <1>3, <2>2, <3>1 DEF Early
  <2>3. CASE Goto(i, "recording_done") /\ UNCHANGED doc /\ intake[i].pc \in Made
    <3>1. /\ intake'[i].pc = "recording_done" /\ intake'[i].job = j
          /\ \A k \in Ingesters \ {i} : intake'[k] = intake[k]
      BY <1>1, <2>3, GotoOf
    <3> QED BY <1>1, <1>2, <1>3, <2>3, <3>1 DEF Early
  <2>4. CASE \E o : End(i, "relocating", o) \/ End(i, "restoring", o)
    <3>1. /\ intake'[i].pc \in {"relocating", "restoring"} /\ intake'[i].job = j
          /\ \A k \in Ingesters \ {i} : intake'[k] = intake[k]
      BY <1>1, <2>4, GotoOf
    <3> QED BY <1>2, <1>3, <3>1 DEF Early, Made
  <2> QED BY <2>1, <2>2, <2>3, <2>4
<1>9. CASE Relocate(i)
  <2>1. Goto(i, "recording")
    BY <1>9 DEF Relocate
  <2>9. /\ intake'[i].pc = "recording" /\ intake'[i].job = j
        /\ intake'[i].outcome = intake[i].outcome
        /\ \A k \in Ingesters \ {i} : intake'[k] = intake[k]
    BY <1>1, <2>1, GotoOf
  <2> QED BY <1>2, <1>3, <2>9 DEF Early, Made
<1>10. CASE RecordTerminal(i)
  <2>1. /\ Goto(i, "closing") /\ intake[i].pc = "recording"
        /\ terminal' = [terminal EXCEPT ![j] = @ \cup {intake[i].outcome}]
    BY <1>10 DEF RecordTerminal
  <2>2. intake[i].outcome # "active" /\ intake[i].outcome \in terminal'[j]
    BY <1>1, <1>2, <1>3, <2>1, IntakeOf DEF Ending, Bad
  <2>9. /\ intake'[i].pc = "closing" /\ intake'[i].job = j
        /\ intake'[i].outcome = intake[i].outcome
        /\ \A k \in Ingesters \ {i} : intake'[k] = intake[k]
    BY <1>1, <2>1, GotoOf
  <2> QED BY <1>2, <1>3, <2>2, <2>9 DEF Early, Made
<1>11. CASE CloseJob(i)
  BY <1>1, <1>2, <1>3, <1>11 DEF CloseJob, Resting
<1>12. CASE Raise(i)
  <2>1. \/ intake' = [intake EXCEPT ![i] = Resting]
        \/ \E pc \in {"relocating", "restoring"} :
             intake' = [intake EXCEPT ![i] = [pc |-> pc, job |-> j, outcome |-> "failed",
                                              guarded |-> FALSE]]
    BY <1>12 DEF Raise, Cleanup
  <2> QED BY <1>1, <1>2, <1>3, <2>1 DEF Resting, Early, Made
<1> QED BY <1>4, <1>5, <1>6, <1>7, <1>8, <1>9, <1>10, <1>11, <1>12 DEF Process

(* A thread that does not move keeps what it has made                        *)
LEMMA OthersKept ==
  ASSUME IInv, [Next]_vars, NEW i \in Ingesters, NEW j, j = intake[i].job,
         intake'[i] = intake[i], intake[i].pc # "idle"
  PROVE  /\ j \in Jobs /\ job'[j].status # "unused"
         /\ intake[i].pc \in Early => doc'[j] = "absent"
         /\ intake[i].pc \in Made => doc'[j] # "absent"
         /\ intake[i].pc = "closing" =>
              IF intake[i].outcome = "active" THEN doc'[j] # "absent"
              ELSE terminal'[j] \cap {intake[i].outcome, "gone", "deleted"} # {}
<1>1. intake \in [Ingesters -> IntakeType] /\ j \in Jobs
  BY IntakeOf DEF IInv, Types
<1>2. /\ job[j].status # "unused"
      /\ intake[i].pc \in Early => doc[j] = "absent"
      /\ intake[i].pc \in Made => doc[j] # "absent"
      /\ intake[i].pc = "closing" => IF intake[i].outcome = "active" THEN doc[j] # "absent"
                                     ELSE Recorded(j, intake[i].outcome)
  BY DEF IInv, IntakeInv
<1>3. job'[j].status # "unused"
  BY <1>1, <1>2, JobKept
<1>4. doc[j] # "absent" => doc'[j] # "absent"
  BY <1>1, DocKept
<1>5. ASSUME intake[i].pc \in Early, doc'[j] # "absent" PROVE FALSE
  <2>1. PICK k \in Ingesters : intake[k].job = j /\ (CreateDocument(k) \/ Publish(k))
    BY <1>1, <1>2, <1>5, DocKept
  <2>2. k = i
    BY <2>1 DEF IInv, IntakeInv, CreateDocument, Publish
  <2>3. /\ intake[i].pc \in {"creating", "written"}
        /\ \E o : \/ Goto(i, "seeding") /\ o = intake[i].outcome
                  \/ Goto(i, "indexing") /\ o = intake[i].outcome
                  \/ End(i, "relocating", o)
    BY <2>1, <2>2 DEF CreateDocument, Publish
  <2>4. intake'[i].pc \in {"seeding", "indexing", "relocating"}
    BY <1>1, <2>3, GotoOf
  <2> QED BY <2>3, <2>4
<1>6. ASSUME intake[i].pc = "closing", intake[i].outcome # "active"
      PROVE  terminal'[j] \cap {intake[i].outcome, "gone", "deleted"} # {}
  <2>1. PICK outcome : outcome = intake[i].outcome
    OBVIOUS
  <2>2. Recorded(j, outcome)
    BY <1>2, <1>6, <2>1
  <2>3. PICK k \in Jobs : k = j
    BY <1>1
  <2>4. Recorded(k, outcome)'
    BY <2>2, <2>3, RecordedKept
  <2> QED BY <2>1, <2>3, <2>4 DEF Recorded
<1> QED BY <1>1, <1>2, <1>3, <1>4, <1>5, <1>6

LEMMA IntakeStep == ASSUME IInv, [Next]_vars PROVE IntakeInv'
<1>1. /\ intake \in [Ingesters -> IntakeType] /\ job \in [Jobs -> JobType]
      /\ \A i \in Ingesters : intake[i].pc # "idle" => intake[i].job \in Jobs
                                                      /\ job[intake[i].job].status # "unused"
      /\ \A i, k \in Ingesters :
           intake[i].pc # "idle" /\ intake[k].pc # "idle" /\ intake[i].job = intake[k].job => i = k
  BY IntakeOf DEF IInv, Types, IntakeInv
<1> DEFINE Kept(i) ==
      /\ job'[intake'[i].job].status # "unused"
      /\ intake'[i].pc \in Early => doc'[intake'[i].job] = "absent"
      /\ intake'[i].pc \in Made => doc'[intake'[i].job] # "absent"
      /\ intake'[i].pc = "closing" =>
           IF intake'[i].outcome = "active" THEN doc'[intake'[i].job] # "absent"
           ELSE terminal'[intake'[i].job] \cap {intake'[i].outcome, "gone", "deleted"} # {}
<1> DEFINE Alone(i, k) ==
      intake'[i].pc # "idle" /\ intake'[k].pc # "idle" /\ intake'[i].job = intake'[k].job => i = k
<1>2. ASSUME NEW i \in Ingesters, intake'[i] = intake[i], intake[i].pc # "idle" PROVE Kept(i)
  BY <1>2, OthersKept
<1>3. SUFFICES /\ \A i \in Ingesters : intake'[i].pc # "idle" => Kept(i)
               /\ \A i, k \in Ingesters : Alone(i, k)
  BY <1>3 DEF IntakeInv, Recorded
<1>4. CASE UNCHANGED intake
  BY <1>1, <1>2, <1>4
<1>5. CASE \E i \in Ingesters : Process(i)
  <2>1. PICK i \in Ingesters : Process(i)
    BY <1>5
  <2>2. PICK j : j = intake[i].job
    OBVIOUS
  <2>3. /\ intake[i].pc # "idle" /\ j \in Jobs
        /\ \A k \in Ingesters \ {i} : intake'[k] = intake[k]
        /\ intake'[i].pc # "idle" =>
             /\ intake'[i].job = j
             /\ intake'[i].pc \in Early => intake[i].pc \in Early /\ UNCHANGED doc
             /\ intake'[i].pc \in Made => doc'[j] # "absent"
             /\ intake'[i].pc = "closing" =>
                  IF intake'[i].outcome = "active" THEN doc'[j] # "absent"
                  ELSE intake'[i].outcome \in terminal'[j]
    BY <2>1, <2>2, ProcessStep
  <2>4. ASSUME intake'[i].pc # "idle" PROVE Kept(i)
    <3>1. job'[j].status # "unused"
      BY <1>1, <2>2, <2>3, JobKept
    <3>2. intake[i].pc \in Early => doc[j] = "absent"
      BY <2>2, <2>3 DEF IInv, IntakeInv
    <3> QED BY <2>3, <2>4, <3>1, <3>2
  <2>5. \A k, l \in Ingesters : Alone(k, l)
    BY <1>1, <2>2, <2>3
  <2> QED BY <1>2, <2>3, <2>4, <2>5
<1>6. CASE \E i \in Ingesters, f \in Files, j \in Jobs : AddJob(i, f, j)
  <2>1. PICK i \in Ingesters, f \in Files, j \in Jobs : AddJob(i, f, j)
    BY <1>6
  <2>2. /\ intake'[i].pc = "added" /\ intake'[i].job = j
        /\ \A k \in Ingesters \ {i} : intake'[k] = intake[k]
    BY <1>1, <2>1 DEF AddJob
  <2>3. job[j].status = "unused" /\ job'[j].status = "open"
    BY <1>1, <2>1 DEF AddJob
  <2>4. doc'[j] = "absent"
    BY <2>1, <2>3 DEF AddJob, IInv, JobsInv
  <2>5. Kept(i)
    BY <2>2, <2>3, <2>4 DEF Made
  <2>6. \A k, l \in Ingesters : Alone(k, l)
    BY <1>1, <2>2, <2>3
  <2> QED BY <1>2, <2>2, <2>5, <2>6
<1>7. CASE Crash
  BY <1>7 DEF Crash, Resting
<1> QED BY <1>4, <1>5, <1>6, <1>7, PositionWriters

LEMMA MadeStep == ASSUME IInv, [Next]_vars PROVE MadeInv'
<1>1. /\ extract \in [Jobs -> ExtractType] /\ runner \in [Extractors -> RunnerType]
      /\ \A j \in Jobs : extract[j].status # "none" => doc[j] # "absent"
      /\ \A x \in Extractors : runner[x].pc # "idle" => /\ doc[runner[x].job] # "absent"
                                                       /\ runner[x].job \in Jobs
      /\ \A j \in Jobs : doc[j] # "absent" => doc'[j] # "absent"
  BY RunnerMoves, DocKept DEF IInv, Types, MadeInv
<1>2. ASSUME NEW j \in Jobs, extract'[j].status # "none" PROVE doc'[j] # "absent"
  <2>1. CASE extract[j].status # "none"
    BY <1>1, <2>1
  <2>2. CASE extract[j].status = "none"
    <3>1. CASE UNCHANGED extract
      BY <1>2, <2>2, <3>1
    <3>2. CASE \E k \in Jobs : Delete(k) \/ RetryExtract(k) \/ LeaseExpires(k)
      BY <1>1, <1>2, <2>2, <3>2 DEF Delete, RetryExtract, LeaseExpires, NoRow, ExtractType
    <3>3. CASE \E i \in Ingesters : SeedLedger(i) \/ RecordDone(i)
      BY <1>1, <1>2, <2>2, <3>3 DEF SeedLedger, RecordDone, IInv, IntakeInv, Made
    <3>4. CASE \E x \in Extractors : DropRow(x) \/ Mark(x) \/ \E k \in Jobs : Claim(x, k)
      BY <1>1, <1>2, <2>2, <3>4 DEF DropRow, Mark, Claim, Claimable, NoRow, ExtractType
    <3>5. CASE PurgeOriginal \/ Restart
      BY <1>1, <1>2, <2>2, <3>5 DEF PurgeOriginal, Restart, NoRow, ExtractType
    <3> QED BY <3>1, <3>2, <3>3, <3>4, <3>5, LedgerWriters
  <2> QED BY <2>1, <2>2
<1>3. ASSUME NEW x \in Extractors, runner'[x].pc # "idle" PROVE doc'[runner'[x].job] # "absent"
  <2>1. CASE runner'[x].job = runner[x].job /\ runner[x].pc # "idle"
    BY <1>1, <2>1
  <2>2. CASE \E j \in Jobs : Claim(x, j)
    <3>1. PICK j \in Jobs : Claim(x, j)
      BY <2>2
    <3>2. runner'[x].job = j /\ extract[j].status # "none"
      BY <1>1, <3>1 DEF Claim, Claimable
    <3> QED BY <1>1, <3>2
  <2>3. CASE ~(runner'[x].job = runner[x].job /\ runner[x].pc # "idle")
             /\ ~(\E j \in Jobs : Claim(x, j))
    <3>1. CASE UNCHANGED runner \/ Crash
      BY <1>3, <2>3, <3>1 DEF Crash, Free
    <3>2. CASE \E y \in Extractors : Run(y) \/ Fault(y)
      <4>1. PICK y \in Extractors : Run(y) \/ Fault(y)
        BY <3>2
      <4>2. CASE y # x
        <5>1. \E v : runner' = [runner EXCEPT ![y] = v]
          <6>1. CASE (\E j \in Jobs : Claim(y, j)) \/ Mark(y)
            BY <6>1 DEF Claim, Mark
          <6>2. CASE \E pc : Step(y, pc)
            BY <6>2 DEF Step
          <6> QED BY <4>1, <6>1, <6>2 DEF Run, Fault, Load, Resolve, Read, Write, Activate,
                                          Drop, DropRow
        <5> QED BY <1>1, <1>3, <2>3, <4>2, <5>1
      <4>3. CASE y = x
        <5>1. CASE Mark(x)
          BY <1>1, <1>3, <5>1 DEF Mark, Free
        <5>2. CASE runner[x].pc # "idle" /\ \E pc : Step(x, pc)
          BY <1>1, <2>3, <5>2 DEF Step, RunnerType
        <5> QED BY <2>3, <4>1, <4>3, <5>1, <5>2 DEF Run, Fault, Load, Resolve, Read, Write,
                                                   Activate, Drop, DropRow
      <4> QED BY <4>2, <4>3
    <3> QED BY <3>1, <3>2, PositionWriters
  <2> QED BY <2>1, <2>2, <2>3
<1>4. ASSUME request'.pc = "read", request'.folder = "active" PROVE doc'[request'.job] # "absent"
  <2>1. CASE UNCHANGED request
    BY <1>1, <1>4, <2>1 DEF IInv, MadeInv, Types, RequestType
  <2>2. CASE \E j \in Jobs, folder \in Folders, g \in Files : ReadOriginal(j, folder, g)
    <3>1. PICK j \in Jobs, folder \in Folders, g \in Files : ReadOriginal(j, folder, g)
      BY <2>2
    <3>2. request'.job = j /\ request'.folder = folder
      BY <3>1 DEF ReadOriginal, IInv, Types, RequestType
    <3>3. doc'[j] = "active"
      BY <1>4, <3>1, <3>2 DEF ReadOriginal, FolderOf
    <3> QED BY <3>2, <3>3
  <2>3. CASE PurgeOriginal
    BY <1>4, <2>3 DEF PurgeOriginal, IInv, Types, RequestType
  <2>4. CASE WriteBack \/ ApiCrash
    BY <1>4, <2>4 DEF WriteBack, ApiCrash, NoRequest
  <2> QED BY <2>1, <2>2, <2>3, <2>4, PositionWriters DEF Reingest
<1> QED BY <1>2, <1>3, <1>4 DEF MadeInv

LEMMA SweepStep == ASSUME IInv, [Next]_vars PROVE SweepInv'
<1> DEFINE Busy == {"moving", "recording", "updating", "clearing"}
<1>1. /\ sweep \in SweepType /\ sweep.jobs \subseteq Jobs
      /\ sweep.pc \in Busy => sweep.job \in Jobs
      /\ job \in [Jobs -> JobType] /\ terminal \in [Jobs -> SUBSET Marks]
  BY DEF IInv, Types, SweepType, Marks
<1>2. /\ \A j \in sweep.jobs : job[j].status # "unused"
      /\ sweep.pc \in Busy => job[sweep.job].status # "unused"
      /\ sweep.pc = "updating" /\ sweep.strike => Recorded(sweep.job, "quarantined")
  BY DEF IInv, SweepInv
<1>3. \A j \in Jobs : job[j].status # "unused" => job'[j].status # "unused"
  BY JobKept
<1>4. CASE UNCHANGED sweep
  <2>1. ASSUME sweep.pc = "updating", sweep.strike
        PROVE  terminal'[sweep.job] \cap {"quarantined", "gone", "deleted"} # {}
    <3>1. PICK j \in Jobs : j = sweep.job
      BY <1>1, <2>1
    <3>2. Recorded(j, "quarantined")'
      BY <1>2, <2>1, <3>1, RecordedKept
    <3> QED BY <3>1, <3>2 DEF Recorded
  <2> QED BY <1>1, <1>2, <1>3, <1>4, <2>1 DEF SweepInv, Recorded
<1>5. CASE BeginSweep
  <2>1. sweep'.pc = "jobs" /\ sweep'.jobs = StaleJobs
    BY <1>5 DEF BeginSweep, NoSweep
  <2>2. \A j \in StaleJobs : job'[j].status # "unused"
    BY <1>5 DEF StaleJobs, BeginSweep
  <2> QED BY <2>1, <2>2 DEF SweepInv
<1>6. CASE \E j \in Jobs : RecoverJob(j)
  <2>1. PICK j \in Jobs : RecoverJob(j)
    BY <1>6
  <2>2. sweep.pc = "jobs" /\ j \in sweep.jobs
    BY <2>1 DEF RecoverJob
  <2>3. CASE sweep' = [sweep EXCEPT !.jobs = @ \ {j}]
    <3>1. sweep'.jobs \subseteq sweep.jobs /\ sweep'.pc = "jobs"
      BY <1>1, <2>2, <2>3 DEF SweepType
    <3> QED BY <1>1, <1>2, <1>3, <3>1 DEF SweepInv
  <2>4. CASE sweep' = [sweep EXCEPT !.pc = "moving", !.job = j,
                                    !.strike = Strikes(j) >= MaxStale]
    <3>1. sweep'.jobs = sweep.jobs /\ sweep'.pc = "moving" /\ sweep'.job = j
      BY <1>1, <2>4 DEF SweepType
    <3> QED BY <1>1, <1>2, <1>3, <2>2, <3>1 DEF SweepInv
  <2> QED BY <2>1, <2>3, <2>4 DEF RecoverJob
<1>7. CASE MoveBack
  <2>1. /\ sweep.pc = "moving" /\ sweep'.jobs = sweep.jobs /\ sweep'.job = sweep.job
        /\ sweep'.strike = sweep.strike
        /\ sweep'.pc = IF sweep.strike THEN "recording" ELSE "updating"
    BY <1>1, <1>7 DEF MoveBack, SweepType
  <2> QED BY <1>1, <1>2, <1>3, <2>1 DEF SweepInv
<1>8. CASE RecordQuarantine
  <2>1. /\ sweep.pc = "recording" /\ sweep'.jobs = sweep.jobs /\ sweep'.job = sweep.job
        /\ sweep'.pc = "updating"
    BY <1>1, <1>8 DEF RecordQuarantine, SweepType
  <2>2. "quarantined" \in terminal'[sweep.job]
    BY <1>1, <1>8, <2>1 DEF RecordQuarantine
  <2> QED BY <1>1, <1>2, <1>3, <2>1, <2>2 DEF SweepInv, Recorded
<1>9. CASE Tombstone
  <2>1. /\ sweep.pc = "updating" /\ sweep'.jobs = sweep.jobs /\ sweep'.job = sweep.job
        /\ sweep'.pc = "clearing"
    BY <1>1, <1>9 DEF Tombstone, SweepType
  <2> QED BY <1>1, <1>2, <1>3, <2>1 DEF SweepInv
<1>10. CASE ClearWorkdir \/ RecoveryFails
  <2>1. sweep'.jobs \subseteq sweep.jobs /\ sweep'.pc = "jobs"
    BY <1>1, <1>10 DEF ClearWorkdir, RecoveryFails, SweepType
  <2> QED BY <1>1, <1>2, <1>3, <2>1 DEF SweepInv
<1>11. CASE ListProcessing \/ (\E j \in Jobs : CheckDocument(j)) \/ FailInterrupted
  <2>1. sweep'.jobs = sweep.jobs /\ sweep'.pc \in {"docs", "failing"}
    BY <1>1, <1>11 DEF ListProcessing, CheckDocument, FailInterrupted, SweepType
  <2> QED BY <1>1, <1>2, <1>3, <2>1 DEF SweepInv
<1>12. CASE EndSweep \/ Crash
  BY <1>12 DEF EndSweep, Crash, NoSweep, SweepInv
<1> QED BY <1>4, <1>5, <1>6, <1>7, <1>8, <1>9, <1>10, <1>11, <1>12, PositionWriters DEF Sweep

LEMMA OutcomeStep == ASSUME IInv, [Next]_vars PROVE OutcomeRecorded'
<1> SUFFICES ASSUME NEW j \in Jobs
             PROVE  /\ job'[j].status \in {"failed", "duplicate", "quarantined"} =>
                         terminal'[j] \cap {job'[j].status, "gone", "deleted"} # {}
                    /\ job'[j].status = "active" => doc'[j] # "absent"
  BY DEF OutcomeRecorded
<1>1. /\ job \in [Jobs -> JobType] /\ terminal \in [Jobs -> SUBSET Marks]
      /\ job[j].status \in {"failed", "duplicate", "quarantined"} =>
           Recorded(j, job[j].status)
      /\ job[j].status = "active" => doc[j] # "absent"
  BY DEF IInv, Types, Marks, OutcomeRecorded, Recorded
<1>2. doc[j] # "absent" => doc'[j] # "absent"
  BY DocKept
<1>3. ASSUME NEW outcome, Recorded(j, outcome)
      PROVE  terminal'[j] \cap {outcome, "gone", "deleted"} # {}
  <2>1. Recorded(j, outcome)'
    BY <1>3, RecordedKept
  <2> QED BY <2>1 DEF Recorded
<1>4. CASE job'[j].status = job[j].status
  BY <1>1, <1>2, <1>3, <1>4
<1>5. CASE job'[j].status \notin Outcome
  BY <1>5 DEF Outcome
<1>6. CASE job'[j].status # job[j].status /\ job'[j].status \in Outcome
  <2>1. CASE \E i \in Ingesters : CloseJob(i)
    <3>1. PICK i \in Ingesters : CloseJob(i)
      BY <2>1
    <3>2. /\ intake[i].pc = "closing" /\ j = intake[i].job
          /\ job'[j].status = intake[i].outcome
      BY <1>1, <1>6, <3>1 DEF CloseJob, JobType
    <3>3. IF intake[i].outcome = "active" THEN doc[j] # "absent"
          ELSE Recorded(j, intake[i].outcome)
      BY <3>2 DEF IInv, IntakeInv
    <3> QED BY <1>2, <1>3, <3>2, <3>3
  <2>2. CASE \E k \in Jobs : RecoverJob(k)
    <3>1. doc[j] = "processing" /\ job'[j].status = "active"
      BY <1>1, <1>6, <2>2 DEF RecoverJob, JobType
    <3> QED BY <1>2, <3>1
  <2>3. CASE Tombstone
    <3>1. /\ sweep.pc = "updating" /\ sweep.strike /\ j = sweep.job
          /\ job'[j].status = "quarantined"
      BY <1>1, <1>6, <2>3 DEF Tombstone, JobType, Outcome
    <3>2. Recorded(j, "quarantined")
      BY <3>1 DEF IInv, SweepInv
    <3> QED BY <1>3, <3>1, <3>2
  <2>4. CASE \E i \in Ingesters : \/ Identify(i)
                                \/ \E f \in Files, k \in Jobs : AddJob(i, f, k)
    BY <1>1, <1>6, <2>4 DEF Identify, AddJob, JobType, Outcome
  <2>5. CASE (\E k \in Jobs : Delete(k)) \/ PurgeOriginal
             \/ \E k \in Jobs, o \in Outcome : DeleteTerminal(k, o)
    <3>1. \E k, o : job' = [job EXCEPT ![k].status = IF @ = o THEN "deleted" ELSE @]
      BY <2>5 DEF Delete, PurgeOriginal, DeleteTerminal, RemoveTerminal
    <3> QED BY <1>1, <1>6, <3>1 DEF JobType, Outcome
  <2>6. CASE UNCHANGED job
    BY <1>6, <2>6
  <2> QED BY <2>1, <2>2, <2>3, <2>4, <2>5, <2>6, JobWriters
<1> QED BY <1>4, <1>5, <1>6

LEMMA NextIInv == IInv /\ [Next]_vars => IInv'
<1> SUFFICES ASSUME IInv, [Next]_vars PROVE IInv'
  OBVIOUS
<1>1. Types'
  BY NextTypes DEF IInv
<1> QED BY <1>1, JobsStep, IntakeStep, MadeStep, SweepStep, OutcomeStep DEF IInv

THEOREM InvariantHolds == Spec => []IInv
  BY InitIInv, NextIInv, PTL DEF Spec

(* A finished job has recorded its outcome, whatever crashed, raised, was     *)
(* deleted or was recovered in between (process_file, _requeue_stale_job).   *)
THEOREM OutcomesAreRecorded == Spec => []OutcomeRecorded
<1>1. IInv => OutcomeRecorded
  BY DEF IInv
<1> QED BY <1>1, InvariantHolds, PTL

-----------------------------------------------------------------------------
(* The life cycle of documents                                              *)

LEMMA InitLifecycle == Init => Lifecycle!Init
<1> SUFFICES ASSUME Init PROVE Lifecycle!Init
  OBVIOUS
<1>1. \A p \in Files \X Jobs : p[2] \in Jobs
  OBVIOUS
<1>2. Documents = [p \in Files \X Jobs |-> "absent"]
  BY <1>1 DEF Init, Documents, Shown
<1> QED BY <1>2 DEF Lifecycle!Init

(* One row changes; a file that is taken by a job has no row yet             *)
LEMMA RowChanges ==
  ASSUME IInv, [Next]_vars, NEW j \in Jobs, NEW s, job[j].status # "unused",
         doc' = [doc EXCEPT ![j] = s]
  PROVE  \E p \in Files \X Jobs :
           /\ p[1] = job[j].file /\ Documents[p] = Shown(doc[j])
           /\ Documents' = [Documents EXCEPT ![p] = Shown(s)]
<1>0. PICK p : p = <<job[j].file, j>>
  OBVIOUS
<1>1. doc \in [Jobs -> DocStatus] /\ doc' \in [Jobs -> DocStatus]
  BY NextTypes DEF IInv, Types
<1>2. p \in Files \X Jobs /\ p[1] = job[j].file /\ p[2] = j
  BY <1>0 DEF IInv, JobsInv
<1>3. Documents[p] = Shown(doc[j])
  BY <1>2 DEF Documents
<1>4. job'[j].file = job[j].file
  BY JobKept
<1>5. ASSUME NEW q \in Files \X Jobs, q # p
      PROVE  Documents'[q] = Documents[q]
  <2>1. q = <<q[1], q[2]>> /\ q[1] \in Files /\ q[2] \in Jobs
    OBVIOUS
  <2>2. CASE q[2] = j
    <3>1. q[1] # job[j].file
      BY <1>0, <1>5, <2>1, <2>2
    <3> QED BY <1>4, <2>2, <3>1 DEF Documents
  <2>3. CASE q[2] # j
    <3>1. doc'[q[2]] = doc[q[2]]
      BY <1>1, <2>1, <2>3
    <3>2. CASE job'[q[2]].file = job[q[2]].file
      BY <3>1, <3>2 DEF Documents
    <3>3. CASE job[q[2]].status = "unused"
      <4>1. doc[q[2]] = "absent"
        BY <2>1, <3>3 DEF IInv, JobsInv
      <4> QED BY <3>1, <4>1 DEF Documents, Shown
    <3> QED BY <2>1, <3>2, <3>3, JobKept
  <2> QED BY <2>2, <2>3
<1>6. Documents'[p] = Shown(s)
  BY <1>1, <1>2, <1>4 DEF Documents
<1>7. /\ Documents = [q \in Files \X Jobs |-> Documents[q]]
      /\ Documents' = [q \in Files \X Jobs |-> Documents'[q]]
  BY DEF Documents
<1>8. Documents' = [Documents EXCEPT ![p] = Shown(s)]
  BY <1>2, <1>5, <1>6, <1>7
<1> QED BY <1>2, <1>3, <1>8

LEMMA NoRowChanges == ASSUME IInv, [Next]_vars, UNCHANGED doc PROVE UNCHANGED Documents
<1>1. ASSUME NEW q \in Files \X Jobs PROVE Documents'[q] = Documents[q]
  <2>1. q[2] \in Jobs
    OBVIOUS
  <2>2. CASE job'[q[2]].file = job[q[2]].file
    BY <2>2 DEF Documents
  <2>3. CASE job[q[2]].status = "unused"
    <3>1. doc[q[2]] = "absent"
      BY <2>1, <2>3 DEF IInv, JobsInv
    <3> QED BY <3>1 DEF Documents, Shown
  <2> QED BY <2>1, <2>2, <2>3, JobKept
<1> QED BY <1>1 DEF Documents

(* The changes of status the life cycle allows                              *)
LEMMA AllowedChange ==
  ASSUME IInv, [Next]_vars, NEW j \in Jobs, NEW s, job[j].status # "unused",
         doc' = [doc EXCEPT ![j] = s],
         \/ doc[j] = "absent" /\ s = "processing"
         \/ doc[j] \in {"absent", "processing"} /\ s = "active" /\ Served(j) = {}
         \/ doc[j] = "processing" /\ s = "failed"
         \/ doc[j] \in {"processing", "active", "failed"} /\ s \in {"gone", "deleted"}
         \/ s = doc[j]
  PROVE  [Lifecycle!Next]_Documents
<1>1. PICK p \in Files \X Jobs : /\ p[1] = job[j].file /\ Documents[p] = Shown(doc[j])
                               /\ Documents' = [Documents EXCEPT ![p] = Shown(s)]
  BY RowChanges
<1>2. /\ p \in Files \X Jobs /\ Documents[p] = Shown(doc[j])
      /\ Documents' = [Documents EXCEPT ![p] = Shown(s)]
  BY <1>1
<1>3. SUFFICES ASSUME Documents' # Documents
               PROVE  \E d \in Files \X Jobs : \/ Lifecycle!Create(d) \/ Lifecycle!Publish(d)
                                              \/ Lifecycle!Fail(d) \/ Lifecycle!Remove(d)
  BY <1>3 DEF Lifecycle!Next
<1>4. CASE doc[j] = "absent" /\ s = "processing"
  <2>1. Lifecycle!Create(p)
    BY <1>2, <1>4 DEF Lifecycle!Create, Shown
  <2> QED BY <1>2, <2>1
<1>5. CASE doc[j] \in {"absent", "processing"} /\ s = "active" /\ Served(j) = {}
  <2>1. ASSUME NEW e \in Files \X Jobs, Documents[e] = "active", Content[e[1]] = Content[p[1]]
        PROVE  FALSE
    <3>1. e[1] \in Files /\ e[2] \in Jobs /\ p[1] = job[j].file
      BY <1>1
    <3>2. job[e[2]].file = e[1] /\ doc[e[2]] = "active"
      BY <2>1 DEF Documents, Shown
    <3>3. e[2] \in Served(j)
      BY <2>1, <3>1, <3>2, IntakeAssumption DEF Served, SameContent, ContentOf
    <3> QED BY <1>5, <3>3
  <2>2. Lifecycle!Publish(p)
    BY <1>2, <1>5, <2>1 DEF Lifecycle!Publish, Shown
  <2> QED BY <1>2, <2>2
<1>6. CASE doc[j] = "processing" /\ s = "failed"
  <2>1. Lifecycle!Fail(p)
    BY <1>2, <1>6 DEF Lifecycle!Fail, Shown
  <2> QED BY <1>2, <2>1
<1>7. CASE doc[j] \in {"processing", "active", "failed"} /\ s \in {"gone", "deleted"}
  <2>1. Lifecycle!Remove(p)
    BY <1>2, <1>7 DEF Lifecycle!Remove, Shown
  <2> QED BY <1>2, <2>1
<1>8. CASE s = doc[j]
  <2>1. Documents' = Documents
    BY <1>2, <1>8 DEF Documents
  <2> QED BY <1>3, <2>1
<1> QED BY <1>4, <1>5, <1>6, <1>7, <1>8

LEMMA RemovedChange ==
  ASSUME IInv, [Next]_vars, NEW j \in Jobs, doc[j] # "absent", doc' = DocRemoved(j)
  PROVE  [Lifecycle!Next]_Documents
<1>1. job[j].status # "unused" /\ doc[j] \in DocStatus
  BY DEF IInv, JobsInv, Types
<1>2. PICK s : s = IF doc[j] = "deleted" THEN "deleted" ELSE "gone"
  OBVIOUS
<1>3. doc' = [doc EXCEPT ![j] = s]
  BY <1>2 DEF DocRemoved
<1> QED BY <1>1, <1>2, <1>3, AllowedChange DEF DocStatus

LEMMA FailedChange ==
  ASSUME IInv, [Next]_vars, NEW j \in Jobs, FailDocument(j)
  PROVE  [Lifecycle!Next]_Documents
<1>1. doc \in [Jobs -> DocStatus]
  BY DEF IInv, Types
<1>2. CASE doc[j] = "processing"
  <2>1. job[j].status # "unused" /\ doc' = [doc EXCEPT ![j] = "failed"]
    BY <1>2 DEF IInv, JobsInv, FailDocument
  <2> QED BY <1>2, <2>1, AllowedChange
<1>3. CASE doc[j] # "processing"
  BY <1>1, <1>3, NoRowChanges DEF FailDocument
<1> QED BY <1>2, <1>3

LEMMA NextLifecycle == IInv /\ [Next]_vars => [Lifecycle!Next]_Documents
<1> SUFFICES ASSUME IInv, [Next]_vars PROVE [Lifecycle!Next]_Documents
  OBVIOUS
<1>1. CASE UNCHANGED doc
  BY <1>1, NoRowChanges
<1>2. ASSUME NEW j \in Jobs, Delete(j) PROVE [Lifecycle!Next]_Documents
  <2>1. /\ job[j].status # "unused" /\ doc[j] \in {"processing", "active", "failed"}
        /\ doc' = [doc EXCEPT ![j] = "deleted"]
    BY <1>2 DEF Delete, IInv, JobsInv
  <2> QED BY <2>1, AllowedChange
<1>3. ASSUME NEW i \in Ingesters, CreateDocument(i) \/ Publish(i) \/ Index(i)
      PROVE  [Lifecycle!Next]_Documents
  <2>1. PICK j : j = intake[i].job
    OBVIOUS
  <2>2. /\ j \in Jobs /\ job[j].status # "unused"
        /\ intake[i].pc \in Early => doc[j] = "absent"
        /\ intake[i].pc \in Made => doc[j] # "absent"
    <3>1. intake[i].pc # "idle"
      BY <1>3 DEF CreateDocument, Publish, Index
    <3> QED BY <2>1, <3>1, IntakeOf DEF IInv, Types, IntakeInv
  <2>3. CASE CreateDocument(i)
    <3>1. doc[j] = "absent" /\ doc' = [doc EXCEPT ![j] = "processing"]
      BY <2>1, <2>2, <2>3 DEF CreateDocument, Early
    <3> QED BY <2>2, <3>1, AllowedChange
  <2>4. CASE Publish(i)
    <3>1. CASE Served(j) = {}
      <4>1. doc[j] = "absent" /\ doc' = [doc EXCEPT ![j] = "active"]
        BY <2>1, <2>2, <2>4, <3>1 DEF Publish, Early
      <4> QED BY <2>2, <3>1, <4>1, AllowedChange
    <3>2. CASE Served(j) # {}
      BY <2>1, <2>4, <3>2, NoRowChanges DEF Publish
    <3> QED BY <3>1, <3>2
  <2>5. CASE Index(i)
    <3>1. doc[j] # "absent" /\ (doc' = DocRemoved(j) \/ UNCHANGED doc)
      BY <2>1, <2>2, <2>5 DEF Index, Made
    <3> QED BY <2>2, <3>1, RemovedChange, NoRowChanges
  <2> QED BY <1>3, <2>3, <2>4, <2>5
<1>4. ASSUME NEW x \in Extractors, Resolve(x) \/ Read(x) \/ Activate(x) \/ DropRow(x)
      PROVE  [Lifecycle!Next]_Documents
  <2>1. PICK j : j = runner[x].job
    OBVIOUS
  <2>2. j \in Jobs /\ doc[j] # "absent" /\ job[j].status # "unused"
    <3>1. runner[x].pc # "idle"
      BY <1>4 DEF Resolve, Read, Activate, DropRow
    <3> QED BY <2>1, <3>1, RunnerMoves DEF IInv, Types, MadeInv, JobsInv
  <2>3. CASE Resolve(x) \/ Read(x)
    <3>1. FailDocument(j) \/ UNCHANGED doc
      BY <2>1, <2>3 DEF Resolve, Read
    <3> QED BY <2>2, <3>1, FailedChange, NoRowChanges
  <2>4. CASE Activate(x)
    <3>1. \/ doc[j] = "processing" /\ Served(j) = {} /\ doc' = [doc EXCEPT ![j] = "active"]
          \/ UNCHANGED doc
      BY <2>1, <2>4 DEF Activate
    <3> QED BY <2>2, <3>1, AllowedChange, NoRowChanges
  <2>5. CASE DropRow(x)
    BY <2>1, <2>2, <2>5, RemovedChange DEF DropRow
  <2> QED BY <1>4, <2>3, <2>4, <2>5
<1>5. CASE PurgeOriginal
  <2>1. CASE request.folder = "active"
    <3>1. PICK j : j = request.job
      OBVIOUS
    <3>2. j \in Jobs /\ doc[j] # "absent" /\ doc' = DocRemoved(j)
      BY <1>5, <2>1, <3>1 DEF PurgeOriginal, IInv, Types, RequestType, MadeInv
    <3> QED BY <3>2, RemovedChange
  <2>2. CASE request.folder # "active"
    BY <1>5, <2>2, NoRowChanges DEF PurgeOriginal
  <2> QED BY <2>1, <2>2
<1>6. CASE FailInterrupted
  <2>1. FailDocument(sweep.job) /\ sweep.job \in Jobs
    BY <1>6 DEF FailInterrupted, IInv, Types, SweepType
  <2> QED BY <2>1, FailedChange
<1> QED BY <1>1, <1>2, <1>3, <1>4, <1>5, <1>6, DocWriters

(* Intake, extraction, recovery and requests keep to the life cycle of a      *)
(* document, in both modes (process_file, ExtractStage, recover_stale).      *)
THEOREM RefinesLifecycle == Spec => Implements
  BY InvariantHolds, InitLifecycle, NextLifecycle, PTL DEF Spec, Implements, Lifecycle!Spec

-----------------------------------------------------------------------------
(* The crash tripwire                                                       *)

Tombstones(c) ==
  {k \in Jobs : /\ job[k].file # NoFile /\ Content[job[k].file] = c
                /\ job[k].status = "recovered" /\ job[k].hashed}

(* A job is open while a thread has it; no thread has one during a sweep; and *)
(* a re-queue that is underway was decided with room for one tombstone more  *)
TripInv ==
  /\ \A i \in Ingesters : intake[i].pc # "idle" => job[intake[i].job].status = "open"
  /\ sweep.pc # "idle" => \A i \in Ingesters : intake[i].pc = "idle"
  /\ \A c : Cardinality(Tombstones(c)) <= MaxStale
  /\ sweep.pc \in {"moving", "recording", "updating"} /\ ~sweep.strike /\ job[sweep.job].hashed
       => Cardinality(Tombstones(ContentOf(sweep.job)) \ {sweep.job}) < MaxStale

LEMMA InitTrip == Init => TripInv
<1> SUFFICES ASSUME Init PROVE TripInv
  OBVIOUS
<1>1. ASSUME NEW c PROVE Cardinality(Tombstones(c)) <= MaxStale
  <2>1. Tombstones(c) = {}
    BY DEF Init, Tombstones, Unused
  <2>2. Cardinality({}) = 0
    BY FS_EmptySet
  <2> QED BY <2>1, <2>2, IntakeAssumption
<1> QED BY <1>1 DEF Init, TripInv, Resting, NoSweep

LEMMA Counted ==
  ASSUME NEW c, NEW S, S \subseteq Tombstones(c)
  PROVE  /\ IsFiniteSet(S) /\ Cardinality(S) \in Nat
         /\ Cardinality(S) <= Cardinality(Tombstones(c)) /\ Cardinality(Tombstones(c)) \in Nat
<1>1. IsFiniteSet(Tombstones(c))
  BY IntakeAssumption, FS_Subset DEF Tombstones
<1> QED BY <1>1, FS_Subset, FS_CardinalityType

(* Only a re-queue by the sweep adds a tombstone                             *)
LEMMA OnlyRequeueTombstones ==
  ASSUME IInv, TripInv, [Next]_vars, NEW j \in Jobs, NEW c, j \in Tombstones(c)'
  PROVE  \/ j \in Tombstones(c)
         \/ /\ Tombstone /\ ~sweep.strike /\ j = sweep.job
            /\ job[j].hashed /\ job[j].file # NoFile /\ ContentOf(j) = c
<1>1. /\ job \in [Jobs -> JobType]
      /\ job'[j].file # NoFile /\ Content[job'[j].file] = c
      /\ job'[j].status = "recovered" /\ job'[j].hashed
  BY DEF IInv, Types, Tombstones
<1>2. job'[j].file = job[j].file
  BY <1>1, JobKept
<1>3. CASE UNCHANGED job
  BY <1>1, <1>3 DEF Tombstones
<1>4. CASE \E k \in Jobs : RecoverJob(k)
  BY <1>1, <1>2, <1>4 DEF RecoverJob, JobType, Tombstones
<1>5. CASE (\E k \in Jobs : Delete(k)) \/ PurgeOriginal
           \/ \E k \in Jobs, o \in Outcome : DeleteTerminal(k, o)
  <2>1. PICK k, o : job' = [job EXCEPT ![k].status = IF @ = o THEN "deleted" ELSE @]
    BY <1>5 DEF Delete, PurgeOriginal, DeleteTerminal, RemoveTerminal
  <2> QED BY <1>1, <2>1 DEF JobType, Tombstones
<1>6. CASE \E i \in Ingesters : Identify(i)
  <2>1. PICK i \in Ingesters : Identify(i)
    BY <1>6
  <2>2. job[intake[i].job].status = "open"
    BY <2>1 DEF TripInv, Identify
  <2> QED BY <1>1, <1>2, <2>1, <2>2 DEF Identify, JobType, Tombstones
<1>7. CASE \E i \in Ingesters : CloseJob(i)
  <2>1. PICK i \in Ingesters : CloseJob(i)
    BY <1>7
  <2>2. intake[i].outcome # "recovered"
    BY <2>1, IntakeOf DEF CloseJob, IInv, Types, Outcome
  <2> QED BY <1>1, <1>2, <2>1, <2>2 DEF CloseJob, JobType, Tombstones
<1>8. CASE \E i \in Ingesters, f \in Files, k \in Jobs : AddJob(i, f, k)
  <2>1. PICK k \in Jobs, f \in Files :
          job' = [job EXCEPT ![k] = [status |-> "open", file |-> f, source |-> "ingest",
                                     hashed |-> FALSE]]
    BY <1>8 DEF AddJob
  <2> QED BY <1>1, <2>1 DEF Tombstones
<1>9. CASE Tombstone
  <2>1. CASE j = sweep.job
    BY <1>1, <1>2, <1>9, <2>1 DEF Tombstone, JobType, ContentOf
  <2>2. CASE j # sweep.job
    BY <1>1, <1>9, <2>2 DEF Tombstone, Tombstones
  <2> QED BY <2>1, <2>2
<1> QED BY <1>3, <1>4, <1>5, <1>6, <1>7, <1>8, <1>9, JobWriters

LEMMA OpenStep ==
  ASSUME IInv, TripInv, [Next]_vars
  PROVE  /\ \A i \in Ingesters : intake'[i].pc # "idle" => job'[intake'[i].job].status = "open"
         /\ sweep'.pc # "idle" => \A i \in Ingesters : intake'[i].pc = "idle"
<1>1. /\ job \in [Jobs -> JobType] /\ intake \in [Ingesters -> IntakeType]
      /\ \A i \in Ingesters : intake[i].pc # "idle" => /\ intake[i].job \in Jobs
                                                      /\ job[intake[i].job].status = "open"
      /\ \A i, k \in Ingesters :
           intake[i].pc # "idle" /\ intake[k].pc # "idle" /\ intake[i].job = intake[k].job => i = k
  BY IntakeOf DEF IInv, Types, IntakeInv, TripInv
<1>2. sweep'.pc # "idle" => \A i \in Ingesters : intake'[i].pc = "idle"
  <2>1. CASE Crash
    BY <2>1 DEF Crash, NoSweep
  <2>2. CASE \E i \in Ingesters : Process(i)
    <3>1. PICK i \in Ingesters : Process(i)
      BY <2>2
    <3>2. intake[i].pc # "idle" /\ UNCHANGED sweep
      BY <3>1 DEF Process, TakeFile, Identify, Decide, CreateDocument, SeedLedger, Extract,
                  Publish, Index, RecordDone, Relocate, RecordTerminal, CloseJob, Raise
    <3> QED BY <3>2 DEF TripInv
  <2>3. CASE \E i \in Ingesters, f \in Files, j \in Jobs : AddJob(i, f, j)
    BY <2>3 DEF AddJob
  <2>4. CASE UNCHANGED intake /\ (Sweep \/ RecoveryFails)
    <3>1. sweep.pc # "idle" \/ \A i \in Ingesters : intake[i].pc = "idle"
      BY <2>4 DEF Sweep, RecoveryFails, BeginSweep, RecoverJob, CheckDocument, MoveBack,
                  RecordQuarantine, Tombstone, ClearWorkdir, ListProcessing, FailInterrupted,
                  EndSweep
    <3> QED BY <2>4, <3>1 DEF TripInv
  <2>5. CASE UNCHANGED <<intake, sweep>>
    BY <2>5 DEF TripInv
  <2> QED BY <2>1, <2>2, <2>3, <2>4, <2>5, PositionWriters
<1>3. ASSUME NEW i \in Ingesters, intake'[i].pc # "idle"
      PROVE  job'[intake'[i].job].status = "open"
  <2>1. CASE \E k \in Ingesters, f \in Files, j \in Jobs : AddJob(k, f, j)
    <3>1. PICK k \in Ingesters, f \in Files, j \in Jobs : AddJob(k, f, j)
      BY <2>1
    <3>2. CASE k = i
      BY <1>1, <3>1, <3>2 DEF AddJob
    <3>3. CASE k # i
      BY <1>1, <1>3, <3>1, <3>3 DEF AddJob
    <3> QED BY <3>2, <3>3
  <2>2. CASE ~\E k \in Ingesters, f \in Files, j \in Jobs : AddJob(k, f, j)
    <3>1. intake[i].pc # "idle" /\ intake'[i].job = intake[i].job /\ ~Crash
      <4>1. CASE UNCHANGED intake
        BY <1>3, <4>1 DEF Crash, Resting
      <4>2. CASE \E k \in Ingesters : Process(k)
        <5>1. PICK k \in Ingesters : Process(k)
          BY <4>2
        <5>2. PICK j : j = intake[k].job
          OBVIOUS
        <5>3. /\ intake[k].pc # "idle" /\ \A l \in Ingesters \ {k} : intake'[l] = intake[l]
              /\ intake'[k].pc # "idle" => intake'[k].job = j
          BY <5>1, <5>2, ProcessStep
        <5>4. ~Crash
          BY <1>3 DEF Crash, Resting
        <5> QED BY <1>3, <5>2, <5>3, <5>4
      <4>3. ~Crash
        BY <1>3 DEF Crash, Resting
      <4> QED BY <2>2, <4>1, <4>2, <4>3, PositionWriters
    <3>2. job[intake[i].job].status = "open" /\ intake[i].job \in Jobs
      BY <1>1, <3>1
    <3>3. CASE UNCHANGED job
      BY <3>1, <3>2, <3>3
    <3>4. CASE \E k \in Jobs : RecoverJob(k)
      BY <3>1, <3>4 DEF RecoverJob, TripInv
    <3>5. CASE (\E k \in Jobs : Delete(k)) \/ PurgeOriginal
               \/ \E k \in Jobs, o \in Outcome : DeleteTerminal(k, o)
      <4>1. ASSUME NEW k \in Jobs, NEW o, o # "open",
                   job' = [job EXCEPT ![k].status = IF @ = o THEN "deleted" ELSE @]
            PROVE  job'[intake'[i].job].status = "open"
        BY <1>1, <3>1, <3>2, <4>1 DEF JobType
      <4>2. CASE \E k \in Jobs : Delete(k)
        BY <4>1, <4>2 DEF Delete
      <4>3. CASE \E k \in Jobs, o \in Outcome : DeleteTerminal(k, o)
        BY <4>1, <4>3 DEF DeleteTerminal, RemoveTerminal, Outcome
      <4>4. CASE PurgeOriginal
        <5>1. request.job \in Jobs
          BY <4>4 DEF PurgeOriginal, IInv, Types, RequestType
        <5>2. CASE request.folder = "active"
          BY <4>1, <4>4, <5>1, <5>2 DEF PurgeOriginal
        <5>3. CASE request.folder # "active"
          BY <4>1, <4>4, <5>1, <5>3 DEF PurgeOriginal, RemoveTerminal, Outcome
        <5> QED BY <5>2, <5>3
      <4> QED BY <3>5, <4>2, <4>3, <4>4
    <3>6. CASE \E k \in Ingesters : Identify(k)
      BY <1>1, <3>1, <3>2, <3>6 DEF Identify, JobType
    <3>7. CASE \E k \in Ingesters : CloseJob(k)
      <4>1. PICK k \in Ingesters : CloseJob(k)
        BY <3>7
      <4>2. k # i
        BY <1>1, <1>3, <4>1 DEF CloseJob, Resting
      <4>3. intake[k].job # intake[i].job
        BY <1>1, <3>1, <4>1, <4>2 DEF CloseJob
      <4> QED BY <1>1, <3>1, <3>2, <4>1, <4>3 DEF CloseJob, JobType
    <3>8. CASE Tombstone
      BY <3>1, <3>8 DEF Tombstone, TripInv
    <3> QED BY <2>2, <3>3, <3>4, <3>5, <3>6, <3>7, <3>8, JobWriters
  <2> QED BY <2>1, <2>2
<1> QED BY <1>2, <1>3

LEMMA CountStep ==
  ASSUME IInv, TripInv, [Next]_vars, NEW c
  PROVE  Cardinality(Tombstones(c)') <= MaxStale
<1>1. MaxStale \in Nat /\ Cardinality(Tombstones(c)) <= MaxStale
  BY IntakeAssumption DEF TripInv
<1>2. Tombstones(c)' \subseteq Jobs
  BY DEF Tombstones
<1>3. CASE Tombstones(c)' \subseteq Tombstones(c)
  BY <1>1, <1>3, Counted
<1>4. CASE ~(Tombstones(c)' \subseteq Tombstones(c))
  <2>1. PICK j \in Tombstones(c)' : j \notin Tombstones(c)
    BY <1>4
  <2>2. /\ Tombstone /\ ~sweep.strike /\ j = sweep.job
        /\ job[j].hashed /\ ContentOf(j) = c
    BY <1>2, <2>1, OnlyRequeueTombstones
  <2>3. Cardinality(Tombstones(c) \ {j}) < MaxStale
    BY <2>2 DEF TripInv, Tombstone
  <2>4. Tombstones(c)' \subseteq Tombstones(c) \cup {j}
    BY <1>2, <2>2, OnlyRequeueTombstones
  <2>5. /\ IsFiniteSet(Tombstones(c) \ {j}) /\ Cardinality(Tombstones(c) \ {j}) \in Nat
    BY Counted
  <2>6. PICK S : S = (Tombstones(c) \ {j}) \cup {j}
    OBVIOUS
  <2>7. IsFiniteSet(S) /\ Cardinality(S) = Cardinality(Tombstones(c) \ {j}) + 1
    BY <2>5, <2>6, FS_AddElement
  <2>8. Tombstones(c)' \subseteq S
    BY <2>4, <2>6
  <2>9. Cardinality(Tombstones(c)') <= Cardinality(S) /\ Cardinality(Tombstones(c)') \in Nat
    BY <2>7, <2>8, FS_Subset, FS_CardinalityType
  <2> QED BY <1>1, <2>3, <2>5, <2>7, <2>9
<1> QED BY <1>3, <1>4

(* The room that the sweep found stays                                      *)
LEMMA RoomStep ==
  ASSUME IInv, TripInv, [Next]_vars,
         sweep'.pc \in {"moving", "recording", "updating"}, ~sweep'.strike,
         job'[sweep'.job].hashed
  PROVE  Cardinality((Tombstones(ContentOf(sweep.job)) \ {sweep.job})') < MaxStale
<1> DEFINE Requeue == {"moving", "recording", "updating"}
<1>1. /\ sweep \in SweepType /\ sweep' \in SweepType /\ job \in [Jobs -> JobType]
      /\ MaxStale \in Nat
  BY NextTypes, IntakeAssumption DEF IInv, Types
<1>2. PICK j : j = sweep'.job
  OBVIOUS
<1>3. j \in Jobs
  BY <1>1, <1>2 DEF SweepType
<1>4. PICK c : c = ContentOf(j)
  OBVIOUS
<1>5. ASSUME Cardinality(Tombstones(c) \ {j}) < MaxStale, ~Tombstone,
             job'[j].file = job[j].file
      PROVE  Cardinality((Tombstones(ContentOf(sweep.job)) \ {sweep.job})') < MaxStale
  <2>1. Tombstones(c)' \subseteq Tombstones(c)
    <3>1. Tombstones(c)' \subseteq Jobs
      BY DEF Tombstones
    <3> QED BY <1>5, <3>1, OnlyRequeueTombstones
  <2>2. PICK S : S = Tombstones(c)' \ {j}
    OBVIOUS
  <2>3. S \subseteq Tombstones(c) \ {j}
    BY <2>1, <2>2
  <2>4. IsFiniteSet(Tombstones(c) \ {j}) /\ Cardinality(Tombstones(c) \ {j}) \in Nat
    BY Counted
  <2>5. Cardinality(S) <= Cardinality(Tombstones(c) \ {j}) /\ Cardinality(S) \in Nat
    BY <2>3, <2>4, FS_Subset, FS_CardinalityType
  <2>6. (Tombstones(ContentOf(sweep.job)) \ {sweep.job})' = S
    BY <1>2, <1>4, <1>5, <2>2 DEF ContentOf, Tombstones
  <2> QED BY <1>1, <1>5, <2>4, <2>5, <2>6
<1>6. CASE UNCHANGED sweep
  <2>1. ~Tombstone
    BY <1>1, <1>6 DEF Tombstone, SweepType
  <2>2. job[j].status # "unused" /\ job'[j].file = job[j].file
    BY <1>2, <1>3, <1>6, JobKept DEF IInv, SweepInv
  <2>3. job[j].hashed
    <3>1. CASE UNCHANGED job
      BY <1>2, <3>1
    <3>2. CASE \E i \in Ingesters : Identify(i)
      BY <1>6, <3>2 DEF Identify, TripInv
    <3>3. CASE (\E k \in Jobs : Delete(k) \/ RecoverJob(k)) \/ PurgeOriginal
               \/ (\E k \in Jobs, o \in Outcome : DeleteTerminal(k, o))
               \/ \E i \in Ingesters : CloseJob(i)
      <4>1. ASSUME NEW k, NEW v, job' = [job EXCEPT ![k].status = v]
            PROVE  job[j].hashed
        BY <1>1, <1>2, <1>3, <4>1 DEF JobType
      <4>2. CASE (\E k \in Jobs : Delete(k)) \/ PurgeOriginal
                 \/ \E k \in Jobs, o \in Outcome : DeleteTerminal(k, o)
        <5>1. PICK k, o : job' = [job EXCEPT ![k].status = IF @ = o THEN "deleted" ELSE @]
          BY <4>2 DEF Delete, PurgeOriginal, DeleteTerminal, RemoveTerminal
        <5> QED BY <4>1, <5>1
      <4>3. CASE \E i \in Ingesters : CloseJob(i)
        BY <4>1, <4>3 DEF CloseJob
      <4>4. CASE \E k \in Jobs : RecoverJob(k)
        <5>1. PICK k \in Jobs : RecoverJob(k)
          BY <4>4
        <5>2. UNCHANGED job \/ job' = [job EXCEPT ![k].status = "active"]
          BY <5>1 DEF RecoverJob
        <5> QED BY <1>2, <4>1, <5>2
      <4> QED BY <3>3, <4>2, <4>3, <4>4
    <3>4. CASE \E i \in Ingesters, f \in Files, k \in Jobs : AddJob(i, f, k)
      BY <1>6, <3>4 DEF AddJob
    <3> QED BY <2>1, <3>1, <3>2, <3>3, <3>4, JobWriters
  <2>4. Cardinality(Tombstones(c) \ {j}) < MaxStale
    BY <1>2, <1>4, <1>6, <2>3 DEF TripInv
  <2> QED BY <1>5, <2>1, <2>2, <2>4
<1>7. CASE \E k \in Jobs : RecoverJob(k)
  <2>1. PICK k \in Jobs : RecoverJob(k)
    BY <1>7
  <2>2. /\ sweep.pc = "jobs" /\ k \in sweep.jobs /\ UNCHANGED job
        /\ sweep' = [sweep EXCEPT !.pc = "moving", !.job = k, !.strike = Strikes(k) >= MaxStale]
    BY <1>1, <2>1 DEF RecoverJob, SweepType
  <2>3. k = j /\ ~(Strikes(j) >= MaxStale) /\ job[j].hashed
    BY <1>1, <1>2, <2>2 DEF SweepType
  <2>4. Strikes(j) = Cardinality(Tombstones(c) \ {j})
    <3>1. {n \in SameContent(j) \ {j} : job[n].status = "recovered" /\ job[n].hashed}
            = Tombstones(c) \ {j}
      BY <1>4 DEF SameContent, ContentOf, Tombstones
    <3> QED BY <2>3, <3>1 DEF Strikes
  <2>5. Cardinality(Tombstones(c) \ {j}) \in Nat
    BY Counted
  <2>6. ~Tombstone
    BY <2>2 DEF Tombstone
  <2> QED BY <1>1, <1>5, <2>2, <2>3, <2>4, <2>5, <2>6
<1>8. CASE MoveBack \/ RecordQuarantine
  <2>1. /\ sweep.pc \in Requeue /\ sweep.job = j /\ sweep'.strike = sweep.strike
        /\ UNCHANGED job /\ sweep.pc # "updating"
    BY <1>1, <1>2, <1>8 DEF MoveBack, RecordQuarantine, SweepType
  <2>2. ~Tombstone
    BY <2>1 DEF Tombstone
  <2>3. Cardinality(Tombstones(c) \ {j}) < MaxStale
    BY <1>2, <1>4, <2>1 DEF TripInv
  <2> QED BY <1>5, <2>1, <2>2, <2>3
<1>9. CASE BeginSweep \/ (\E k \in Jobs : CheckDocument(k)) \/ Tombstone \/ ClearWorkdir
           \/ RecoveryFails \/ ListProcessing \/ FailInterrupted \/ EndSweep \/ Crash
  <2>1. sweep'.pc \notin Requeue
    <3>1. CASE BeginSweep
      <4>1. NoSweep \in SweepType
        BY DEF NoSweep, SweepType
      <4>2. PICK S : sweep' = [NoSweep EXCEPT !.pc = "jobs", !.jobs = S]
        BY <3>1 DEF BeginSweep
      <4> QED BY <4>1, <4>2 DEF SweepType
    <3>6. CASE Crash
      BY <3>6 DEF Crash, NoSweep
    <3>2. CASE \E k \in Jobs : CheckDocument(k)
      <4>1. PICK k \in Jobs : CheckDocument(k)
        BY <3>2
      <4>2. /\ sweep.pc = "docs"
            /\ \/ sweep' = [sweep EXCEPT !.pc = "failing", !.job = k]
               \/ sweep' = [sweep EXCEPT !.docs = @ \ {k}]
        BY <4>1 DEF CheckDocument
      <4> QED BY <1>1, <4>2 DEF SweepType
    <3>3. CASE Tombstone
      BY <1>1, <3>3 DEF Tombstone, SweepType
    <3>4. CASE ClearWorkdir \/ RecoveryFails
      BY <1>1, <3>4 DEF ClearWorkdir, RecoveryFails, SweepType
    <3>5. CASE ListProcessing
      <4>1. PICK S : S = OldDocs
        OBVIOUS
      <4>2. sweep.pc = "jobs" /\ sweep' = [sweep EXCEPT !.pc = "docs", !.docs = S]
        BY <3>5, <4>1 DEF ListProcessing
      <4> QED BY <1>1, <4>2 DEF SweepType
    <3>7. CASE FailInterrupted
      BY <1>1, <3>7 DEF FailInterrupted, SweepType
    <3>8. CASE EndSweep
      BY <3>8 DEF EndSweep, NoSweep
    <3> QED BY <1>9, <3>1, <3>2, <3>3, <3>4, <3>5, <3>6, <3>7, <3>8
  <2> QED BY <2>1
<1> QED BY <1>6, <1>7, <1>8, <1>9, PositionWriters DEF Sweep

LEMMA NextTrip == IInv /\ TripInv /\ [Next]_vars => TripInv'
<1> SUFFICES ASSUME IInv, TripInv, [Next]_vars PROVE TripInv'
  OBVIOUS
<1> QED BY OpenStep, CountStep, RoomStep DEF TripInv

(* Of the jobs of a content that stored its hash before the worker died, at    *)
(* most MAX_STALE_RECOVERIES are re-queued, over any number of jobs, crashes  *)
(* and duplicates of the content (_crash_strikes, _requeue_stale_job).       *)
THEOREM TripwireHolds == Spec => []TripwireBound
<1>1. TripInv => TripwireBound
  <2> SUFFICES ASSUME TripInv, NEW j \in Jobs
               PROVE  Cardinality({k \in SameContent(j) :
                                    job[k].status = "recovered" /\ job[k].hashed}) <= MaxStale
    BY DEF TripwireBound
  <2>1. PICK c : c = ContentOf(j)
    OBVIOUS
  <2>2. {k \in SameContent(j) : job[k].status = "recovered" /\ job[k].hashed} = Tombstones(c)
    BY <2>1 DEF SameContent, ContentOf, Tombstones
  <2> QED BY <2>2 DEF TripInv
<1>2. Spec => []TripInv
  BY InvariantHolds, InitTrip, NextTrip, PTL DEF Spec
<1> QED BY <1>1, <1>2, PTL
-----------------------------------------------------------------------------
(* The original of an active document                                       *)

(* Extractions end within their lease, and inline ingestion meets no database *)
(* error: its clean-up takes the original back before the row                *)
InTime == ~SlowRuns /\ (FALSE \in Modes => MaxErrors = 0)

Detour  == {"extracting", "written", "indexing", "recording_done", "restoring"}
Working == {"resolving", "reading", "writing", "written", "dropping", "deleting", "discarding"}

(* A worker has either staged or inline uploads, and runs with the former;    *)
(* a new document has no ledger row yet, one that is taken back has gone      *)
StageInv ==
  /\ \A i \in Ingesters :
       /\ intake[i].pc \in Detour => ~staged
       /\ intake[i].pc \in {"creating", "seeding"} => staged
       /\ intake[i].pc = "seeding" => extract[intake[i].job].status = "none"
       /\ intake[i].pc = "restoring" => Gone(intake[i].job)
  /\ ~staged => /\ \A j \in Jobs : doc[j] \notin {"processing", "failed"}
                /\ \A x \in Extractors : runner[x].pc = "idle"

(* Runs are of different documents; the row of a run is marked running, or   *)
(* went with its document; none works on an active document                  *)
RunsInv ==
  /\ \A x \in Extractors : runner[x].pc # "idle" =>
       LET j == runner[x].job IN
       /\ up
       /\ extract[j].status = "running" \/ (extract[j].status = "none" /\ Gone(j))
       /\ runner[x].pc \in Working => doc[j] # "active"
  /\ \A x, y \in Extractors :
       runner[x].pc # "idle" /\ runner[y].pc # "idle" /\ runner[x].job = runner[y].job => x = y

(* The file of an inline upload is where the thread has put it               *)
InlineInv ==
  /\ \A i, k \in Ingesters :
       intake[i].pc # "idle" /\ intake[k].pc # "idle"
       /\ job[intake[i].job].file = job[intake[k].job].file => i = k
  /\ ~staged => \A i \in Ingesters :
       LET j == intake[i].job IN
       /\ intake[i].pc = "added" => file[job[j].file] = Ingest
       /\ intake[i].pc \in {"moved", "identified", "extracting"} => file[job[j].file] = In("work", j)
       /\ intake[i].pc = "written" => file[job[j].file] = In("active", j)

(* The bytes a reingest holds, and the original a run has written            *)
OriginalInv ==
  /\ request.pc # "idle" => file[request.copy] = Held
  /\ \A x \in Extractors :
       LET j == runner[x].job IN
       runner[x].pc = "written" /\ doc[j] = "processing" => file[job[j].file] = In("active", j)
  /\ ActiveHasOriginal

StagedInv == StageInv /\ RunsInv /\ OriginalInv /\ InlineInv

LEMMA InitStaged == Init => StagedInv
  BY DEF Init, StagedInv, StageInv, RunsInv, OriginalInv, InlineInv, ActiveHasOriginal, Detour,
         Resting, Free, NoRequest

LEMMA Places ==
  /\ \A j \in Jobs : In("active", j) \notin {Ingest, Outside, Lost, Purged, Held}
  /\ \A j, k \in Jobs : /\ In("active", j) = In("active", k) => j = k
                        /\ \A folder \in Folders \ {"active"} : In(folder, k) # In("active", j)
  /\ \A folder \in Folders, k \in Jobs : In(folder, k) # Held
  /\ Held \notin {Ingest, Outside, Lost, Purged}
  /\ "work" \in Folders \ {"active"} /\ "quarantine" \in Folders \ {"active"}
  /\ "active" \in Folders
  /\ \A outcome \in Bad : FolderOf(outcome) \in Folders \ {"active"}
  BY DEF In, Ingest, Outside, Lost, Purged, Held, Folders, FolderOf, Bad, Outcome

LEMMA PlacesApart ==
  /\ \A folder \in Folders, j \in Jobs : In(folder, j) \notin {Ingest, Outside, Lost, Purged, Held}
  /\ \A folder, other \in Folders, j, k \in Jobs :
       In(folder, j) = In(other, k) => folder = other /\ j = k
  /\ Ingest \notin {Outside, Lost, Purged, Held} /\ Held \notin {Outside, Lost, Purged}
  /\ {"work", "active", "quarantine"} \subseteq Folders
  /\ \A outcome \in Bad : FolderOf(outcome) \in Folders \ {"work", "active"}
  BY DEF In, Ingest, Outside, Lost, Purged, Held, Folders, FolderOf, Bad, Outcome

LEMMA FileWriters ==
  ASSUME [Next]_vars
  PROVE  \/ UNCHANGED file
         \/ \E f \in Files : Upload(f)
         \/ \E j \in Jobs : Delete(j) \/ RetryJob(j)
         \/ \E j \in Jobs, outcome \in Outcome : DeleteTerminal(j, outcome)
         \/ \E j \in Jobs, folder \in Folders, g \in Files : ReadOriginal(j, folder, g)
         \/ PurgeOriginal \/ WriteBack \/ ApiCrash
         \/ \E i \in Ingesters : TakeFile(i) \/ Extract(i) \/ Publish(i) \/ Relocate(i)
         \/ \E x \in Extractors : Resolve(x) \/ Write(x) \/ Drop(x)
         \/ MoveBack \/ ClearWorkdir
<1>1. CASE \E f \in Files : Upload(f) \/ \E i \in Ingesters, j \in Jobs : AddJob(i, f, j)
  BY <1>1 DEF AddJob
<1>2. CASE \E i \in Ingesters : Process(i)
  BY <1>2 DEF Process, Identify, Decide, CreateDocument, SeedLedger, Index, RecordDone,
              RecordTerminal, CloseJob, Raise
<1>3. CASE \E x \in Extractors : Run(x) \/ Fault(x)
  BY <1>3 DEF Run, Fault, Claim, Load, Read, Activate, DropRow, Mark
<1>4. CASE \E j \in Jobs : Delete(j) \/ RetryExtract(j) \/ RetryJob(j) \/ LeaseExpires(j) \/ Ages(j)
  BY <1>4 DEF RetryExtract, LeaseExpires, Ages
<1>5. CASE Reingest \/ ApiCrash
  BY <1>5 DEF Reingest
<1>6. CASE Sweep \/ RecoveryFails
  BY <1>6 DEF Sweep, RecoveryFails, BeginSweep, RecoverJob, CheckDocument, RecordQuarantine,
              Tombstone, ListProcessing, FailInterrupted, EndSweep
<1>7. CASE Crash \/ Restart \/ UNCHANGED vars
  BY <1>7 DEF Crash, Restart, vars
<1> QED BY <1>1, <1>2, <1>3, <1>4, <1>5, <1>6, <1>7 DEF Next

(* What becomes of a run                                                    *)
LEMMA RunnerStep ==
  ASSUME IInv, [Next]_vars, NEW x \in Extractors, runner'[x].pc # "idle"
  PROVE  \/ runner'[x] = runner[x]
         \/ \E j \in Jobs : Claim(x, j) /\ runner'[x].job = j /\ runner'[x].pc = "claimed"
         \/ /\ runner[x].pc # "idle" /\ runner'[x].job = runner[x].job
            /\ runner'[x].pc \in Working =>
                 \/ runner[x].pc \in Working
                 \/ runner'[x].pc = "resolving" /\ doc[runner[x].job] = "processing"
            /\ runner'[x].pc = "written" => Write(x)
<1>1. runner \in [Extractors -> RunnerType]
  BY DEF IInv, Types
<1>2. CASE UNCHANGED runner
  BY <1>2
<1>3. CASE Crash
  BY <1>3 DEF Crash, Free
<1>4. ASSUME NEW y \in Extractors, Run(y) \/ Fault(y), y # x PROVE runner'[x] = runner[x]
  BY <1>1, <1>4 DEF Run, Fault, Claim, Load, Resolve, Read, Write, Activate, Drop, DropRow, Mark, Step
<1>5. CASE Run(x) \/ Fault(x)
  <2>1. ASSUME NEW pc, Step(x, pc) PROVE runner'[x].pc = pc /\ runner'[x].job = runner[x].job
    <3>1. runner[x] = [pc |-> runner[x].pc, job |-> runner[x].job]
      BY <1>1 DEF RunnerType
    <3> QED BY <1>1, <2>1, <3>1 DEF Step
  <2>2. CASE \E j \in Jobs : Claim(x, j)
    <3>1. PICK j \in Jobs : Claim(x, j)
      BY <2>2
    <3>2. runner'[x] = [pc |-> "claimed", job |-> j]
      BY <1>1, <3>1 DEF Claim
    <3> QED BY <3>1, <3>2
  <2>3. CASE Load(x)
    BY <2>1, <2>3 DEF Load, Working
  <2>4. CASE Resolve(x) \/ Read(x) \/ Write(x)
    BY <2>1, <2>4 DEF Resolve, Read, Write, Working
  <2>5. CASE Activate(x) \/ Drop(x) \/ DropRow(x)
    BY <2>1, <2>5 DEF Activate, Drop, DropRow, Working
  <2>6. CASE Mark(x)
    BY <1>1, <2>6 DEF Mark, Free
  <2>7. CASE Fault(x)
    BY <2>1, <2>7 DEF Fault, Working
  <2> QED BY <1>5, <2>2, <2>3, <2>4, <2>5, <2>6, <2>7 DEF Run
<1> QED BY <1>2, <1>3, <1>4, <1>5, PositionWriters

(* A worker keeps its mode; inline, it meets no error of the database        *)
LEMMA ModeKept ==
  ASSUME InTime, IInv, [Next]_vars
  PROVE  staged' = staged /\ staged \in BOOLEAN /\ (~staged => ~(used.errors < MaxErrors))
<1>1. staged \in Modes /\ used.errors \in Nat
  BY DEF IInv, Types
<1>2. staged \in BOOLEAN
  BY <1>1, IntakeAssumption
<1>4. ASSUME ~staged PROVE ~(used.errors < MaxErrors)
  <2>1. FALSE \in Modes
    <3>1. staged = FALSE
      BY <1>2, <1>4
    <3> QED BY <1>1, <3>1
  <2>2. MaxErrors = 0
    BY <2>1 DEF InTime
  <2> QED BY <1>1, <2>2
<1>3. staged' = staged
  <2>1. CASE \E f \in Files : Upload(f) \/ \E i \in Ingesters, j \in Jobs : AddJob(i, f, j)
    BY <2>1 DEF Upload, AddJob
  <2>2. CASE \E i \in Ingesters : Process(i)
    BY <2>2 DEF Process, TakeFile, Identify, Decide, CreateDocument, SeedLedger, Extract, Publish,
                Index, RecordDone, Relocate, RecordTerminal, CloseJob, Raise
  <2>3. CASE \E x \in Extractors : Run(x) \/ Fault(x)
    BY <2>3 DEF Run, Fault, Claim, Load, Resolve, Read, Write, Activate, Drop, DropRow, Mark
  <2>4. CASE \/ \E j \in Jobs : Delete(j) \/ RetryExtract(j) \/ RetryJob(j) \/ LeaseExpires(j) \/ Ages(j)
             \/ \E j \in Jobs, outcome \in Outcome : DeleteTerminal(j, outcome)
    BY <2>4 DEF Delete, RetryExtract, RetryJob, LeaseExpires, Ages, DeleteTerminal
  <2>5. CASE Reingest \/ ApiCrash
    BY <2>5 DEF Reingest, ApiCrash, ReadOriginal, PurgeOriginal, WriteBack
  <2>6. CASE Sweep \/ RecoveryFails
    BY <2>6 DEF Sweep, RecoveryFails, BeginSweep, RecoverJob, CheckDocument, MoveBack,
                RecordQuarantine, Tombstone, ClearWorkdir, ListProcessing, FailInterrupted, EndSweep
  <2>7. CASE Crash \/ Restart \/ UNCHANGED vars
    BY <2>7 DEF Crash, Restart, vars
  <2> QED BY <2>1, <2>2, <2>3, <2>4, <2>5, <2>6, <2>7 DEF Next
<1> QED BY <1>2, <1>3, <1>4

(* A document that has gone does not come back                               *)
LEMMA GoneKept ==
  ASSUME IInv, [Next]_vars, NEW j \in Jobs, Gone(j) PROVE Gone(j)'
<1>1. doc \in [Jobs -> DocStatus]
  BY DEF IInv, Types
<1>2. CASE UNCHANGED doc \/ \E k \in Jobs : Delete(k)
  BY <1>1, <1>2 DEF Delete, Gone
<1>3. ASSUME NEW i \in Ingesters, CreateDocument(i) \/ Publish(i) PROVE Gone(j)'
  <2>1. doc[intake[i].job] = "absent"
    BY <1>3 DEF Publish, CreateDocument, IInv, IntakeInv, Early
  <2> QED BY <1>1, <1>3, <2>1 DEF CreateDocument, Publish, Gone
<1>4. CASE \E i \in Ingesters : Index(i)
  BY <1>1, <1>4 DEF Index, DocRemoved, Gone
<1>5. CASE \E x \in Extractors : Resolve(x) \/ Read(x) \/ Activate(x) \/ DropRow(x)
  BY <1>1, <1>5 DEF Resolve, Read, Activate, DropRow, FailDocument, DocRemoved, Gone
<1>6. CASE PurgeOriginal \/ FailInterrupted
  BY <1>1, <1>6 DEF PurgeOriginal, FailInterrupted, FailDocument, DocRemoved, Gone
<1> QED BY <1>2, <1>3, <1>4, <1>5, <1>6, DocWriters

(* The positions of a thread in either mode                                  *)
LEMMA ThreadMode ==
  ASSUME InTime, IInv, StageInv, [Next]_vars, NEW i \in Ingesters, Process(i)
  PROVE  /\ intake'[i].pc \in Detour => ~staged
         /\ intake'[i].pc \in {"creating", "seeding"} => staged
         /\ intake'[i].pc = "restoring" => doc'[intake[i].job] \in {"gone", "deleted"}
<1>1. /\ intake \in [Ingesters -> IntakeType] /\ doc \in [Jobs -> DocStatus]
      /\ staged \in BOOLEAN /\ (~staged => ~(used.errors < MaxErrors))
  BY ModeKept DEF IInv, Types
<1>2. /\ intake[i].pc \in Detour => ~staged
      /\ intake[i].pc \in {"creating", "seeding"} => staged
      /\ intake[i].pc = "restoring" => Gone(intake[i].job)
  BY DEF StageInv
<1>3. ASSUME NEW pc, NEW o, (Goto(i, pc) /\ o = intake[i].outcome) \/ End(i, pc, o)
      PROVE  intake'[i].pc = pc
  BY <1>1, <1>3, GotoOf
<1>4. CASE TakeFile(i) \/ Identify(i) \/ SeedLedger(i) \/ RecordDone(i)
  BY <1>3, <1>4 DEF TakeFile, Identify, SeedLedger, RecordDone, Detour
<1>5. CASE Decide(i) \/ CreateDocument(i) \/ Publish(i)
  <2>1. CASE Decide(i)
    BY <1>1, <1>3, <2>1 DEF Decide, Detour
  <2>2. CASE CreateDocument(i)
    BY <1>2, <1>3, <2>2 DEF CreateDocument, Detour
  <2>3. CASE Publish(i)
    BY <1>2, <1>3, <2>3 DEF Publish, Detour
  <2> QED BY <1>5, <2>1, <2>2, <2>3
<1>6. CASE Extract(i)
  <2>1. intake'[i].pc \in {"written", "relocating"}
    <3>1. CASE Goto(i, "written")
      BY <1>3, <3>1
    <3>2. CASE \E guarded \in BOOLEAN :
                 intake' = [intake EXCEPT ![i] = [pc |-> "relocating", job |-> intake[i].job,
                                                  outcome |-> "failed", guarded |-> guarded]]
      BY <1>1, <3>2
    <3> QED BY <1>6, <3>1, <3>2 DEF Extract
  <2> QED BY <1>2, <1>6, <2>1 DEF Extract, Detour
<1>7. CASE Index(i)
  <2>1. intake[i].job \in Jobs /\ ~staged
    BY <1>1, <1>2, <1>7, IntakeOf DEF Index, Detour
  <2>2. CASE Goto(i, "recording_done")
    BY <1>3, <2>1, <2>2
  <2>3. CASE doc' = DocRemoved(intake[i].job) /\ End(i, "restoring", "failed")
    <3>1. doc'[intake[i].job] \in {"gone", "deleted"}
      <4>1. PICK j \in Jobs : j = intake[i].job /\ doc' = DocRemoved(j)
        BY <2>1, <2>3
      <4>2. intake'[i].pc = "restoring" /\ intake'[i].job = j
        BY <1>1, <2>3, <4>1, GotoOf
      <4>3. doc'[j] \in {"gone", "deleted"}
        BY <1>1, <4>1 DEF DocRemoved
      <4> QED BY <4>1, <4>2, <4>3
    <3>2. intake'[i].pc = "restoring"
      BY <1>3, <2>3
    <3> QED BY <2>1, <3>1, <3>2
  <2> QED BY <1>7, <2>2, <2>3 DEF Index
<1>8. CASE Relocate(i) \/ RecordTerminal(i)
  BY <1>3, <1>8 DEF Relocate, RecordTerminal, Detour
<1>9. CASE CloseJob(i)
  BY <1>1, <1>9 DEF CloseJob, Resting, Detour
<1>10. CASE Raise(i)
  <2>1. intake[i].pc # "indexing"
    BY <1>1, <1>2, <1>10 DEF Raise, Detour
  <2>2. \/ intake'[i] = Resting
        \/ intake'[i].pc = "relocating"
        \/ intake'[i].pc = "restoring" /\ intake[i].pc = "restoring"
    BY <1>1, <1>10, <2>1 DEF Raise, Cleanup
  <2>3. intake'[i].pc = "restoring" => doc'[intake[i].job] \in {"gone", "deleted"}
    <3>1. CASE intake[i].pc = "restoring"
      BY <1>1, <1>2, <3>1, GoneKept, IntakeOf DEF Gone
    <3> QED BY <2>2, <3>1 DEF Resting
  <2>4. intake[i].pc = "restoring" => ~staged
    BY <1>2 DEF Detour
  <2> QED BY <2>2, <2>3, <2>4 DEF Resting, Detour
<1> QED BY <1>4, <1>5, <1>6, <1>7, <1>8, <1>9, <1>10 DEF Process

LEMMA StageStep ==
  ASSUME InTime, IInv, StageInv, [Next]_vars PROVE StageInv'
<1>1. /\ intake \in [Ingesters -> IntakeType] /\ extract \in [Jobs -> ExtractType]
      /\ doc \in [Jobs -> DocStatus] /\ runner \in [Extractors -> RunnerType]
      /\ staged \in BOOLEAN /\ staged' = staged
  BY ModeKept DEF IInv, Types
<1>2. ASSUME NEW i \in Ingesters
      PROVE  /\ intake'[i].pc \in Detour => ~staged
             /\ intake'[i].pc \in {"creating", "seeding"} => staged
             /\ intake'[i].pc = "restoring" => doc'[intake'[i].job] \in {"gone", "deleted"}
  <2>1. CASE intake'[i] = intake[i]
    <3>1. intake[i].pc = "restoring" => intake[i].job \in Jobs
      BY <1>1, IntakeOf
    <3>2. intake[i].pc = "restoring" => doc'[intake[i].job] \in {"gone", "deleted"}
      BY <3>1, GoneKept DEF StageInv, Gone
    <3>3. intake[i].pc = "restoring" => doc'[intake'[i].job] \in {"gone", "deleted"}
      BY <2>1, <3>2
    <3> QED BY <2>1, <3>3 DEF StageInv
  <2>2. CASE Crash
    BY <2>2 DEF Crash, Resting, Detour
  <2>3. ASSUME NEW k \in Ingesters, NEW f \in Files, NEW j \in Jobs, AddJob(k, f, j)
        PROVE  intake'[i] = intake[i] \/ intake'[i].pc = "added"
    BY <1>1, <2>3 DEF AddJob
  <2>4. CASE Process(i)
    <3>1. intake'[i].pc # "idle" => intake'[i].job = intake[i].job
      BY <2>4, ProcessStep
    <3>2. intake'[i].pc = "restoring" => doc'[intake[i].job] \in {"gone", "deleted"}
      BY <2>4, ThreadMode
    <3>3. intake'[i].pc = "restoring" => doc'[intake'[i].job] \in {"gone", "deleted"}
      BY <3>1, <3>2
    <3> QED BY <2>4, <3>3, ThreadMode
  <2>5. ASSUME NEW k \in Ingesters, Process(k), k # i PROVE intake'[i] = intake[i]
    BY <2>5, ProcessStep
  <2>6. "added" \notin Detour
    BY DEF Detour
  <2> QED BY <2>1, <2>2, <2>3, <2>4, <2>5, <2>6, PositionWriters
<1>3. ASSUME NEW i \in Ingesters, intake'[i].pc = "seeding"
      PROVE  extract'[intake'[i].job].status = "none"
  <2>1. CASE CreateDocument(i)
    <3>1. intake[i].job \in Jobs /\ doc[intake[i].job] = "absent"
      BY <1>1, <2>1, IntakeOf DEF CreateDocument, IInv, IntakeInv, Early
    <3>2. intake'[i].job = intake[i].job
      BY <1>1, <2>1, GotoOf DEF CreateDocument
    <3> QED BY <2>1, <3>1, <3>2 DEF CreateDocument, IInv, MadeInv
  <2>2. CASE intake'[i] = intake[i]
    <3>1. PICK j \in Jobs : j = intake[i].job /\ extract[j].status = "none"
      BY <1>1, <1>3, <2>2, IntakeOf DEF StageInv
    <3>2. ~SeedLedger(i)
      <4> SUFFICES ASSUME SeedLedger(i) PROVE FALSE
        OBVIOUS
      <4>1. Goto(i, "closing")
        BY DEF SeedLedger
      <4>2. intake'[i].pc = "closing"
        BY <1>1, <4>1, GotoOf
      <4> QED BY <1>3, <4>2
    <3>3. \A k \in Ingesters : SeedLedger(k) => intake[k].job # j
      BY <1>3, <2>2, <3>1, <3>2 DEF SeedLedger, IInv, IntakeInv
    <3>4. extract'[j].status = "none"
      <4>0. NoRow.status = "none"
        BY DEF NoRow
      <4>1. CASE \E k \in Jobs : Delete(k) \/ RetryExtract(k) \/ LeaseExpires(k)
        <5>1. extract'[j] = extract[j] \/ extract'[j] = NoRow
          BY <1>1, <3>1, <4>1 DEF Delete, RetryExtract, LeaseExpires
        <5> QED BY <3>1, <4>0, <5>1
      <4>2. CASE \E k \in Ingesters : SeedLedger(k) \/ RecordDone(k)
        BY <1>1, <1>2, <1>3, <3>1, <3>3, <4>2 DEF SeedLedger, RecordDone, StageInv, Detour
      <4>3. CASE \E x \in Extractors : DropRow(x) \/ Mark(x) \/ \E k \in Jobs : Claim(x, k)
        <5>1. ASSUME NEW x \in Extractors, DropRow(x) \/ \E k \in Jobs : Claim(x, k)
              PROVE  extract'[j] = extract[j] \/ extract'[j] = NoRow
          BY <1>1, <3>1, <5>1 DEF DropRow, Claim, Claimable
        <5>2. ASSUME NEW x \in Extractors, Mark(x) PROVE extract'[j].status = "none"
          BY <1>1, <3>1, <5>2 DEF Mark, ExtractType
        <5> QED BY <3>1, <4>0, <4>3, <5>1, <5>2
      <4>4. CASE PurgeOriginal \/ UNCHANGED extract
        <5>1. extract'[j] = extract[j] \/ extract'[j] = NoRow
          BY <1>1, <3>1, <4>4 DEF PurgeOriginal
        <5> QED BY <3>1, <4>0, <5>1
      <4>5. CASE Restart
        BY <1>1, <3>1, <4>5 DEF Restart, ExtractType
      <4> QED BY <4>1, <4>2, <4>3, <4>4, <4>5, LedgerWriters
    <3> QED BY <2>2, <3>1, <3>4
  <2>3. CASE intake'[i] # intake[i]
    <3>1. CASE Crash
      BY <1>3, <3>1 DEF Crash, Resting
    <3>2. ASSUME NEW k \in Ingesters, NEW f \in Files, NEW j \in Jobs, AddJob(k, f, j) PROVE FALSE
      BY <1>1, <1>3, <2>3, <3>2 DEF AddJob
    <3>3. ASSUME NEW k \in Ingesters, Process(k) PROVE CreateDocument(i)
      <4>1. k = i
        BY <2>3, <3>3, ProcessStep
      <4>2. ASSUME NEW pc, NEW o, pc # "seeding", (Goto(i, pc) /\ o = intake[i].outcome) \/ End(i, pc, o)
            PROVE  FALSE
        BY <1>1, <1>3, <4>2, GotoOf
      <4>3. ~(TakeFile(i) \/ Identify(i) \/ SeedLedger(i) \/ Relocate(i) \/ RecordTerminal(i))
        BY <4>2 DEF TakeFile, Identify, SeedLedger, Relocate, RecordTerminal
      <4>4. ~Decide(i)
        BY <1>1, <4>2 DEF Decide
      <4>8. intake'[i] # Resting
        BY <1>3 DEF Resting
      <4>5. ~CloseJob(i)
        BY <1>1, <4>8 DEF CloseJob
      <4>6. ~Raise(i)
        <5>1. \A pc \in Cleanup(intake[i].pc) : pc # "seeding"
          BY DEF Cleanup
        <5>2. ASSUME NEW pc \in Cleanup(intake[i].pc), NEW t,
                     intake' = [intake EXCEPT ![i] = [pc |-> pc, job |-> t, outcome |-> "failed",
                                                      guarded |-> FALSE]]
              PROVE  FALSE
          <6>1. intake'[i].pc = pc
            BY <1>1, <5>2
          <6> QED BY <1>3, <5>1, <6>1
        <5> QED BY <1>1, <4>8, <5>2 DEF Raise
      <4>7. ~(Extract(i) \/ Publish(i) \/ Index(i) \/ RecordDone(i))
        BY <1>2, <1>3 DEF Extract, Publish, Index, RecordDone, StageInv, Detour
      <4> QED BY <3>3, <4>1, <4>3, <4>4, <4>5, <4>6, <4>7 DEF Process
    <3> QED BY <2>1, <2>3, <3>1, <3>2, <3>3, PositionWriters
  <2> QED BY <2>2, <2>3
<1>4. ASSUME ~staged, NEW j \in Jobs PROVE doc'[j] \notin {"processing", "failed"}
  <2>1. doc[j] \notin {"processing", "failed"} /\ \A i \in Ingesters : ~CreateDocument(i)
    BY <1>4 DEF StageInv, CreateDocument
  <2>2. CASE \E i \in Ingesters : Publish(i) \/ Index(i)
    BY <1>1, <2>1, <2>2 DEF Publish, Index, DocRemoved
  <2>3. CASE \E x \in Extractors : Resolve(x) \/ Read(x) \/ Activate(x) \/ DropRow(x)
    BY <1>1, <2>1, <2>3 DEF Resolve, Read, Activate, DropRow, FailDocument, DocRemoved
  <2>4. CASE PurgeOriginal \/ FailInterrupted \/ \E k \in Jobs : Delete(k)
    BY <1>1, <2>1, <2>4 DEF PurgeOriginal, FailInterrupted, FailDocument, DocRemoved, Delete
  <2> QED BY <2>1, <2>2, <2>3, <2>4, DocWriters
<1>5. ASSUME ~staged, NEW x \in Extractors PROVE runner'[x].pc = "idle"
  <2>1. \A y \in Extractors : runner[y].pc = "idle"
    BY <1>5 DEF StageInv
  <2>2. \A y \in Extractors : ~Run(y) /\ ~Fault(y)
    BY <1>5, <2>1 DEF Run, Fault, Claim, Load, Resolve, Read, Write, Activate, Drop, DropRow, Mark
  <2>3. CASE Crash
    BY <2>3 DEF Crash, Free
  <2> QED BY <2>1, <2>2, <2>3, PositionWriters
<1> QED BY <1>1, <1>2, <1>3, <1>4, <1>5 DEF StageInv, Gone

(* Only the end of a run and an inline upload activate a document; a new one  *)
(* has no run                                                               *)
LEMMA StatusSteps ==
  ASSUME IInv, [Next]_vars, NEW j \in Jobs
  PROVE  /\ doc'[j] = "active" /\ doc[j] # "active" =>
              \/ \E x \in Extractors : /\ runner[x].job = j /\ Activate(x) /\ runner'[x].pc = "returned"
                                       /\ runner[x].pc = "written" /\ doc[j] = "processing"
              \/ \E i \in Ingesters : Publish(i) /\ intake[i].job = j /\ doc[j] = "absent"
         /\ doc'[j] = "processing" => doc[j] = "processing" \/ doc[j] = "absent"
<1>1. doc \in [Jobs -> DocStatus] /\ runner \in [Extractors -> RunnerType]
  BY DEF IInv, Types
<1>2. CASE UNCHANGED doc \/ \E k \in Jobs : Delete(k)
  BY <1>1, <1>2 DEF Delete
<1>3. ASSUME NEW i \in Ingesters, CreateDocument(i) \/ Publish(i) \/ Index(i), doc'[j] # doc[j]
      PROVE  /\ doc'[j] = "active" => Publish(i) /\ intake[i].job = j /\ doc[j] = "absent"
             /\ doc'[j] = "processing" => doc[j] = "absent"
  <2>1. CASE CreateDocument(i) \/ Publish(i)
    <3>1. doc[intake[i].job] = "absent"
      BY <2>1 DEF Publish, CreateDocument, IInv, IntakeInv, Early
    <3> QED BY <1>1, <1>3, <2>1, <3>1 DEF CreateDocument, Publish
  <2>2. CASE Index(i)
    BY <1>1, <1>3, <2>2 DEF Index, DocRemoved
  <2> QED BY <1>3, <2>1, <2>2
<1>4. CASE \E x \in Extractors : Resolve(x) \/ Read(x) \/ DropRow(x)
  BY <1>1, <1>4 DEF Resolve, Read, DropRow, FailDocument, DocRemoved
<1>5. ASSUME NEW x \in Extractors, Activate(x), doc'[j] # doc[j]
      PROVE  /\ runner[x].job = j /\ runner[x].pc = "written" /\ doc[j] = "processing"
             /\ doc'[j] = "active" /\ runner'[x].pc = "returned"
  <2>1. /\ runner[x].pc = "written" /\ Step(x, "returned") /\ doc[runner[x].job] = "processing"
        /\ doc' = [doc EXCEPT ![runner[x].job] = "active"]
    BY <1>5 DEF Activate
  <2>2. runner[x] = [pc |-> runner[x].pc, job |-> runner[x].job]
    BY <1>1 DEF RunnerType
  <2>3. runner'[x].pc = "returned"
    BY <1>1, <2>1, <2>2 DEF Step
  <2> QED BY <1>1, <1>5, <2>1, <2>3
<1>6. CASE PurgeOriginal \/ FailInterrupted
  BY <1>1, <1>6 DEF PurgeOriginal, FailInterrupted, FailDocument, DocRemoved
<1> QED BY <1>2, <1>3, <1>4, <1>5, <1>6, DocWriters

(* The row of a document that a run is at                                    *)
LEMMA RowOfRun ==
  ASSUME InTime, IInv, StageInv, RunsInv, [Next]_vars, NEW x \in Extractors, NEW j \in Jobs,
         runner[x].pc # "idle", runner[x].job = j, runner'[x].pc # "idle"
  PROVE  extract'[j].status = "running" \/ (extract'[j].status = "none" /\ Gone(j)')
<1>1. /\ extract \in [Jobs -> ExtractType] /\ doc \in [Jobs -> DocStatus]
      /\ runner \in [Extractors -> RunnerType]
  BY DEF IInv, Types
<1>2. extract[j].status = "running" \/ (extract[j].status = "none" /\ Gone(j))
  BY DEF RunsInv
<1>3. NoRow.status = "none" /\ (Gone(j) => Gone(j)')
  BY GoneKept DEF NoRow
<1>4. ASSUME extract'[j] = extract[j] \/ (extract'[j] = NoRow /\ Gone(j)')
      PROVE  extract'[j].status = "running" \/ (extract'[j].status = "none" /\ Gone(j)')
  BY <1>2, <1>3, <1>4
<1>5. CASE UNCHANGED extract
  BY <1>4, <1>5
<1>6. ASSUME NEW k \in Jobs, Delete(k) \/ RetryExtract(k) \/ LeaseExpires(k)
      PROVE  extract'[j] = extract[j] \/ (extract'[j] = NoRow /\ Gone(j)')
  <2>1. CASE Delete(k)
    BY <1>1, <2>1 DEF Delete, Gone
  <2>2. CASE RetryExtract(k) \/ LeaseExpires(k)
    <3>1. k # j
      BY <1>2, <2>2 DEF RetryExtract, LeaseExpires, InTime
    <3> QED BY <1>1, <2>2, <3>1 DEF RetryExtract, LeaseExpires
  <2> QED BY <1>6, <2>1, <2>2
<1>7. ASSUME NEW i \in Ingesters, SeedLedger(i) \/ RecordDone(i) PROVE extract'[j] = extract[j]
  <2>0. staged
    BY ModeKept DEF StageInv
  <2>1. SeedLedger(i) /\ extract[intake[i].job].status = "none" /\ ~Gone(intake[i].job)
    BY <1>7, <2>0 DEF SeedLedger, RecordDone, StageInv, Detour
  <2>2. intake[i].job # j
    BY <1>2, <2>1
  <2> QED BY <1>1, <2>1, <2>2 DEF SeedLedger
<1>8. ASSUME NEW y \in Extractors, DropRow(y) \/ Mark(y) \/ \E k \in Jobs : Claim(y, k)
      PROVE  extract'[j] = extract[j] \/ (extract'[j] = NoRow /\ Gone(j)')
  <2>1. CASE DropRow(y)
    BY <1>1, <2>1 DEF DropRow, DocRemoved, Gone
  <2>2. CASE Mark(y)
    <3>1. y # x
      BY <1>1, <2>2 DEF Mark, Free
    <3>2. runner[y].job # j
      BY <2>2, <3>1 DEF Mark, RunsInv
    <3> QED BY <1>1, <2>2, <3>2 DEF Mark
  <2>3. CASE \E k \in Jobs : Claim(y, k)
    <3>1. PICK k \in Jobs : Claim(y, k)
      BY <2>3
    <3>2. k # j
      BY <1>2, <3>1 DEF Claim, Claimable
    <3> QED BY <1>1, <3>1, <3>2 DEF Claim
  <2> QED BY <1>8, <2>1, <2>2, <2>3
<1>9. CASE PurgeOriginal
  BY <1>1, <1>4, <1>9 DEF PurgeOriginal, DocRemoved, Gone
<1>10. ~Restart
  BY DEF Restart, RunsInv
<1> QED BY <1>4, <1>5, <1>6, <1>7, <1>8, <1>9, <1>10, LedgerWriters

LEMMA RunsStep ==
  ASSUME InTime, IInv, StageInv, RunsInv, [Next]_vars PROVE RunsInv'
<1>1. /\ extract \in [Jobs -> ExtractType] /\ doc \in [Jobs -> DocStatus]
      /\ runner \in [Extractors -> RunnerType]
      /\ \A x \in Extractors : runner[x].pc # "idle" => runner[x].job \in Jobs
  BY DEF IInv, Types, RunnerType
<1>2. ASSUME NEW x \in Extractors, NEW k \in Jobs, Claim(x, k)
      PROVE  /\ up' /\ extract'[k].status = "running"
             /\ \A y \in Extractors : y # x => runner'[y] = runner[y]
             /\ \A y \in Extractors : runner[y].pc # "idle" => runner[y].job # k
  <2>1. \A y \in Extractors : runner[y].pc # "idle" => runner[y].job # k
    BY <1>2 DEF Claim, Claimable, RunsInv
  <2> QED BY <1>1, <1>2, <2>1 DEF Claim
<1>3. ASSUME NEW x \in Extractors, runner[x].pc # "idle", runner'[x].pc # "idle" PROVE up'
  <2>1. up
    BY <1>3 DEF RunsInv
  <2>2. ~Crash
    BY <1>3 DEF Crash, Free
  <2>3. UNCHANGED up \/ Crash \/ up'
    BY DEF Next, vars, Upload, AddJob, Process, TakeFile, Identify, Decide, CreateDocument,
           SeedLedger, Extract, Publish, Index, RecordDone, Relocate, RecordTerminal, CloseJob,
           Raise, Run, Claim, Load, Resolve, Read, Write, Activate, Drop, DropRow, Mark, Fault,
           Delete, RetryExtract, RetryJob, LeaseExpires, Ages, DeleteTerminal, Reingest,
           ReadOriginal, PurgeOriginal, WriteBack, ApiCrash, Sweep, BeginSweep, RecoverJob,
           CheckDocument, MoveBack, RecordQuarantine, Tombstone, ClearWorkdir, ListProcessing,
           FailInterrupted, EndSweep, RecoveryFails, Restart
  <2> QED BY <2>1, <2>2, <2>3
<1>4. ASSUME NEW x \in Extractors, runner'[x].pc # "idle"
      PROVE  \/ runner[x].pc # "idle" /\ runner'[x].job = runner[x].job
             \/ \E k \in Jobs : Claim(x, k) /\ runner'[x].job = k /\ runner'[x].pc = "claimed"
  BY <1>4, RunnerStep
<1>5. ASSUME NEW x \in Extractors, runner'[x].pc # "idle", NEW j, j = runner'[x].job
      PROVE  /\ up'
             /\ extract'[j].status = "running" \/ (extract'[j].status = "none" /\ Gone(j)')
             /\ runner'[x].pc \in Working => doc'[j] # "active"
  <2>1. CASE \E k \in Jobs : Claim(x, k) /\ runner'[x].job = k /\ runner'[x].pc = "claimed"
    BY <1>2, <1>5, <2>1 DEF Working
  <2>2. CASE runner[x].pc # "idle" /\ runner[x].job = j
    <3>1. j \in Jobs
      BY <1>1, <2>2
    <3>2. /\ up'
          /\ extract'[j].status = "running" \/ (extract'[j].status = "none" /\ Gone(j)')
      BY <1>3, <1>5, <2>2, <3>1, RowOfRun
    <3>3. ASSUME runner'[x].pc \in Working PROVE doc'[j] # "active"
      <4>1. doc[j] # "active"
        BY <1>5, <2>2, <3>3, RunnerStep DEF RunsInv, Claim
      <4>2. ASSUME doc'[j] = "active" PROVE FALSE
        <5>0. doc[j] # "absent"
          BY <2>2 DEF IInv, MadeInv
        <5>1. PICK y \in Extractors : runner[y].job = j /\ runner[y].pc = "written" /\ runner'[y].pc = "returned"
          BY <3>1, <4>1, <4>2, <5>0, StatusSteps
        <5>2. y = x
          BY <2>2, <5>1 DEF RunsInv
        <5> QED BY <3>3, <5>1, <5>2 DEF Working
      <4> QED BY <4>2
    <3> QED BY <3>2, <3>3
  <2> QED BY <1>4, <1>5, <2>1, <2>2
<1>6. ASSUME NEW x \in Extractors, NEW y \in Extractors, runner'[x].pc # "idle",
             runner'[y].pc # "idle", runner'[x].job = runner'[y].job
      PROVE  x = y
  <2>1. CASE runner[x].pc # "idle" /\ runner'[x].job = runner[x].job
             /\ runner[y].pc # "idle" /\ runner'[y].job = runner[y].job
    BY <1>6, <2>1 DEF RunsInv
  <2>2. ASSUME NEW k \in Jobs, Claim(x, k) \/ Claim(y, k), runner'[x].job = k, x # y PROVE FALSE
    BY <1>2, <1>6, <2>2
  <2> QED BY <1>4, <1>6, <2>1, <2>2
<1>7. \A x \in Extractors : runner'[x].pc # "idle" =>
        /\ up'
        /\ \/ extract'[runner'[x].job].status = "running"
           \/ extract'[runner'[x].job].status = "none" /\ doc'[runner'[x].job] \in {"gone", "deleted"}
        /\ runner'[x].pc \in Working => doc'[runner'[x].job] # "active"
  BY <1>5 DEF Gone
<1> QED BY <1>6, <1>7 DEF RunsInv, Gone

-----------------------------------------------------------------------------
(* Who takes an original out of its folder                                   *)
LEMMA OriginalStays ==
  ASSUME InTime, IInv, StageInv, OriginalInv, [Next]_vars, NEW f \in Files, NEW j \in Jobs,
         file[f] = In("active", j), file'[f] # In("active", j), f = job[j].file
  PROVE  \/ Gone(j)'
         \/ \E x \in Extractors : runner[x].job = j /\ (Resolve(x) \/ Drop(x))
         \/ \E i \in Ingesters : intake[i].job = j /\ Publish(i) /\ Served(j) # {}
<1>1. /\ file \in [Files -> Place] /\ job \in [Jobs -> JobType] /\ doc \in [Jobs -> DocStatus]
      /\ intake \in [Ingesters -> IntakeType] /\ runner \in [Extractors -> RunnerType]
  BY DEF IInv, Types
<1>2. ASSUME NEW k, NEW from, NEW to, Move(k, from, to) PROVE In("active", j) \in from
  BY <1>1, <1>2 DEF Move
<1>3. ASSUME NEW k \in Jobs, NEW folder \in Folders, Rmtree(folder, k) PROVE folder = "active" /\ k = j
  BY <1>1, <1>3, Places DEF Rmtree
<1>4. CASE \E g \in Files : Upload(g)
  BY <1>1, <1>4, Places DEF Upload
<1>5. ASSUME NEW k \in Jobs, Delete(k) PROVE Gone(j)'
  <2>1. k = j
    BY <1>2, <1>5, Places DEF Delete
  <2> QED BY <1>1, <1>5, <2>1 DEF Delete, Gone
<1>6. ASSUME NEW k \in Jobs, RetryJob(k) PROVE FALSE
  BY <1>2, <1>6, Places DEF RetryJob
<1>7. ASSUME NEW k \in Jobs, NEW outcome \in Outcome, DeleteTerminal(k, outcome) PROVE FALSE
  <2>1. FolderOf(outcome) \in Folders \ {"active"}
    BY DEF FolderOf, Outcome, Folders
  <2> QED BY <1>2, <1>7, <2>1, Places DEF DeleteTerminal, RemoveTerminal
<1>8. ASSUME NEW k \in Jobs, NEW folder \in Folders, NEW g \in Files, ReadOriginal(k, folder, g)
      PROVE  FALSE
  BY <1>1, <1>8, Places DEF ReadOriginal
<1>9. CASE PurgeOriginal
  <2>1. request.job \in Jobs
    BY <1>9 DEF PurgeOriginal, IInv, Types, RequestType
  <2>2. CASE request.folder = "active"
    <3>1. request.job = j
      BY <1>2, <1>9, <2>1, <2>2, Places DEF PurgeOriginal
    <3> QED BY <1>1, <1>9, <2>2, <3>1 DEF PurgeOriginal, DocRemoved, Gone
  <2>3. CASE request.folder # "active"
    <3>1. PICK outcome \in Bad : RemoveTerminal(request.job, outcome, "gone", Lost)
      BY <1>9, <2>3 DEF PurgeOriginal, Bad
    <3> QED BY <1>2, <2>1, <3>1, Places DEF RemoveTerminal
  <2> QED BY <2>2, <2>3
<1>10. CASE WriteBack \/ ApiCrash
  <2>1. file[request.copy] = Held /\ request.copy # f
    BY <1>10, Places DEF WriteBack, ApiCrash, OriginalInv
  <2> QED BY <1>1, <1>10, <2>1 DEF WriteBack, ApiCrash
<1>11. ASSUME NEW i \in Ingesters, TakeFile(i) \/ Extract(i) \/ Publish(i) \/ Relocate(i)
       PROVE  Gone(j)' \/ (intake[i].job = j /\ Publish(i) /\ Served(j) # {})
  <2>1. PICK k \in Jobs : k = intake[i].job
    BY <1>1, <1>11, IntakeOf DEF TakeFile, Extract, Publish, Relocate
  <2>2. CASE TakeFile(i) \/ Extract(i)
    <3>1. Move(k, {Ingest}, In("work", k)) \/ Move(k, {In("work", k)}, In("active", k)) \/ UNCHANGED file
      BY <2>1, <2>2 DEF TakeFile, Extract
    <3> QED BY <1>2, <2>1, <3>1, Places
  <2>3. CASE Publish(i)
    <3>1. Rmtree("active", k) /\ Served(k) # {}
      BY <2>1, <2>3 DEF Publish
    <3> QED BY <1>3, <2>1, <2>3, <3>1, Places
  <2>4. CASE Relocate(i)
    <3>1. PICK to : \/ Move(k, {Ingest, In("work", k)}, to)
                    \/ Move(k, {In("active", k)}, to) /\ intake[i].pc = "restoring"
      BY <2>1, <2>4 DEF Relocate
    <3>2. k = j /\ intake[i].pc = "restoring"
      BY <1>2, <2>1, <3>1, Places
    <3> QED BY <2>1, <3>2, GoneKept DEF StageInv
  <2> QED BY <1>11, <2>2, <2>3, <2>4
<1>12. ASSUME NEW x \in Extractors, Resolve(x) \/ Write(x) \/ Drop(x)
       PROVE  runner[x].job = j /\ (Resolve(x) \/ Drop(x))
  <2>1. runner[x].job \in Jobs
    BY <1>1, <1>12 DEF Resolve, Write, Drop, RunnerType
  <2>2. CASE Resolve(x)
    <3>1. Move(runner[x].job, {In("active", runner[x].job)}, In("work", runner[x].job)) \/ UNCHANGED file
      BY <2>2 DEF Resolve
    <3> QED BY <1>2, <2>1, <2>2, <3>1, Places
  <2>3. CASE Write(x)
    <3>1. Move(runner[x].job, {In("work", runner[x].job)}, In("active", runner[x].job)) \/ UNCHANGED file
      BY <2>3 DEF Write
    <3> QED BY <1>2, <2>1, <3>1, Places
  <2>4. CASE Drop(x)
    BY <1>3, <2>1, <2>4, Places DEF Drop
  <2> QED BY <1>12, <2>2, <2>3, <2>4
<1>13. CASE MoveBack
  <2>1. sweep.job \in Jobs
    BY <1>13 DEF MoveBack, IInv, Types, SweepType
  <2>2. SourceIsFile(sweep.job) => file[job[sweep.job].file] \in {In("work", sweep.job), Ingest}
    BY DEF SourceIsFile
  <2>3. SourceIsFile(sweep.job) => job[sweep.job].file # f
    BY <2>1, <2>2, Places
  <2> QED BY <1>1, <1>13, <2>3 DEF MoveBack
<1>14. CASE ClearWorkdir
  <2>1. sweep.job \in Jobs
    BY <1>14 DEF ClearWorkdir, IInv, Types, SweepType
  <2> QED BY <1>3, <1>14, <2>1, Places DEF ClearWorkdir
<1> QED BY <1>4, <1>5, <1>6, <1>7, <1>8, <1>9, <1>10, <1>11, <1>12, <1>13, <1>14, FileWriters

(* The bytes a reingest has read stay with it                                *)
LEMMA HeldStays ==
  ASSUME IInv, [Next]_vars, NEW f \in Files, file[f] = Held, ~WriteBack, ~ApiCrash
  PROVE  file'[f] = Held
<1>1. /\ file \in [Files -> Place] /\ job \in [Jobs -> JobType]
      /\ intake \in [Ingesters -> IntakeType] /\ runner \in [Extractors -> RunnerType]
  BY DEF IInv, Types
<1>2. ASSUME NEW k, NEW from, NEW to, Move(k, from, to), Held \notin from PROVE file'[f] = Held
  BY <1>1, <1>2 DEF Move
<1>3. ASSUME NEW k \in Jobs, NEW folder \in Folders, Rmtree(folder, k) PROVE file'[f] = Held
  BY <1>1, <1>3, Places DEF Rmtree
<1>4. \A k \in Jobs : /\ Held \notin {In("work", k)} /\ Held \notin {In("active", k)}
                      /\ Held \notin {Ingest} /\ Held \notin {Ingest, In("work", k)}
                      /\ \A o \in Outcome : Held \notin {In(FolderOf(o), k)}
  <2>1. \A o \in Outcome : FolderOf(o) \in Folders
    BY DEF FolderOf, Outcome, Folders
  <2> QED BY <2>1, Places
<1>5. CASE \E g \in Files : Upload(g)
  BY <1>1, <1>5, Places DEF Upload
<1>6. CASE \E j \in Jobs : Delete(j) \/ RetryJob(j)
  BY <1>2, <1>4, <1>6 DEF Delete, RetryJob
<1>7. CASE \E k \in Jobs, outcome \in Outcome : DeleteTerminal(k, outcome)
  BY <1>2, <1>4, <1>7 DEF DeleteTerminal, RemoveTerminal
<1>8. CASE \E k \in Jobs, folder \in Folders, g \in Files : ReadOriginal(k, folder, g)
  BY <1>1, <1>8 DEF ReadOriginal
<1>9. CASE PurgeOriginal
  <2>1. request.job \in Jobs
    BY <1>9 DEF PurgeOriginal, IInv, Types, RequestType
  <2> QED BY <1>2, <1>4, <1>9, <2>1 DEF PurgeOriginal, RemoveTerminal
<1>10. ASSUME NEW i \in Ingesters, TakeFile(i) \/ Extract(i) \/ Publish(i) \/ Relocate(i)
       PROVE  file'[f] = Held
  <2>1. intake[i].job \in Jobs
    BY <1>1, <1>10, IntakeOf DEF TakeFile, Extract, Publish, Relocate
  <2> QED BY <1>2, <1>3, <1>4, <1>10, <2>1, Places DEF TakeFile, Extract, Publish, Relocate
<1>11. ASSUME NEW x \in Extractors, Resolve(x) \/ Write(x) \/ Drop(x) PROVE file'[f] = Held
  <2>1. runner[x].job \in Jobs
    BY <1>1, <1>11 DEF Resolve, Write, Drop, RunnerType
  <2> QED BY <1>2, <1>3, <1>4, <1>11, <2>1, Places DEF Resolve, Write, Drop
<1>12. CASE MoveBack \/ ClearWorkdir
  <2>1. sweep.job \in Jobs
    BY <1>12 DEF MoveBack, ClearWorkdir, IInv, Types, SweepType
  <2>2. SourceIsFile(sweep.job) => job[sweep.job].file # f
    BY <1>4, <2>1 DEF SourceIsFile
  <2> QED BY <1>1, <1>3, <1>12, <2>1, <2>2, Places DEF MoveBack, ClearWorkdir
<1> QED BY <1>5, <1>6, <1>7, <1>8, <1>9, <1>10, <1>11, <1>12, FileWriters

LEMMA OriginalStep ==
  ASSUME InTime, IInv, StageInv, RunsInv, OriginalInv, InlineInv, [Next]_vars PROVE OriginalInv'
<1>1. /\ file \in [Files -> Place] /\ job \in [Jobs -> JobType] /\ doc \in [Jobs -> DocStatus]
      /\ runner \in [Extractors -> RunnerType] /\ request \in RequestType
  BY DEF IInv, Types
<1>2. ASSUME NEW j \in Jobs, doc[j] # "absent"
      PROVE  job[j].file \in Files /\ job'[j].file = job[j].file
  BY <1>2, JobKept DEF IInv, JobsInv
<1>3. ASSUME request'.pc # "idle" PROVE file'[request'.copy] = Held
  <2>1. ~WriteBack /\ ~ApiCrash
    BY <1>1, <1>3 DEF WriteBack, ApiCrash, NoRequest
  <2>2. CASE \E j \in Jobs, folder \in Folders, g \in Files : ReadOriginal(j, folder, g)
    BY <1>1, <2>2 DEF ReadOriginal, RequestType
  <2>3. CASE UNCHANGED request \/ PurgeOriginal
    <3>1. request.pc # "idle" /\ request'.copy = request.copy /\ request.copy \in Files
      BY <1>1, <1>3, <2>3 DEF PurgeOriginal, RequestType
    <3> QED BY <2>1, <3>1, HeldStays DEF OriginalInv
  <2> QED BY <2>1, <2>2, <2>3, PositionWriters DEF Reingest
<1>4. ASSUME NEW x \in Extractors, NEW j \in Jobs, runner[x].job = j, runner[x].pc # "idle",
             NEW y \in Extractors, runner[y].job = j, Resolve(y) \/ Drop(y)
      PROVE  y = x /\ runner[x].pc \in {"resolving", "dropping", "discarding"}
             /\ runner'[x].pc \notin {"written", "idle"}
  <2>1. y = x
    BY <1>4 DEF RunsInv, Resolve, Drop
  <2>2. \E pc : Step(x, pc) /\ pc \notin {"written", "idle"}
    BY <1>4, <2>1 DEF Resolve, Drop
  <2>3. runner[x] = [pc |-> runner[x].pc, job |-> runner[x].job]
    BY <1>1 DEF RunnerType
  <2> QED BY <1>1, <1>4, <2>1, <2>2, <2>3 DEF Resolve, Drop, Step
<1>8. ASSUME NEW j \in Jobs, doc[j] # "absent", NEW i \in Ingesters, Publish(i), intake[i].job = j
      PROVE  FALSE
  BY <1>8 DEF Publish, IInv, IntakeInv, Early
<1>5. ASSUME NEW x \in Extractors, NEW j, j = runner'[x].job, runner'[x].pc = "written",
             doc'[j] = "processing"
      PROVE  file'[job'[j].file] = In("active", j)
  <2>1. runner[x].pc # "idle" /\ runner[x].job = j /\ j \in Jobs /\ (runner[x].pc = "written" \/ Write(x))
    <3>1. runner[x].pc # "idle" /\ runner[x].job = j /\ (runner[x].pc = "written" \/ Write(x))
      BY <1>5, RunnerStep
    <3> QED BY <1>1, <3>1 DEF RunnerType
  <2>2. doc[j] = "processing"
    BY <1>5, <2>1, StatusSteps DEF IInv, MadeInv
  <2>3. job[j].file \in Files /\ job'[j].file = job[j].file
    BY <1>2, <2>1, <2>2
  <2>4. CASE Write(x)
    <3>1. file[job[j].file] = In("work", j) /\ Move(j, {In("work", j)}, In("active", j))
      <4>1. ~Step(x, "raised")
        <5>1. runner[x] = [pc |-> runner[x].pc, job |-> runner[x].job]
          BY <1>1 DEF RunnerType
        <5> QED BY <1>1, <1>5, <5>1 DEF Step
      <4> QED BY <2>1, <2>4, <4>1 DEF Write
    <3> QED BY <1>1, <2>3, <3>1 DEF Move
  <2>5. CASE runner[x].pc = "written"
    <3>1. file[job[j].file] = In("active", j)
      BY <2>1, <2>2, <2>5 DEF OriginalInv
    <3>2. ~Gone(j)'
      BY <1>5 DEF Gone
    <3>3. \A y \in Extractors : ~(runner[y].job = j /\ (Resolve(y) \/ Drop(y)))
      BY <1>4, <1>5, <2>1
    <3> QED BY <1>8, <2>1, <2>2, <2>3, <3>1, <3>2, <3>3, OriginalStays
  <2> QED BY <2>1, <2>4, <2>5
<1>6. ASSUME NEW j \in Jobs, doc'[j] = "active" PROVE file'[job'[j].file] = In("active", j)
  <2>1. CASE doc[j] = "active"
    <3>1. file[job[j].file] = In("active", j)
      BY <2>1 DEF OriginalInv, ActiveHasOriginal
    <3>2. ~Gone(j)'
      BY <1>6 DEF Gone
    <3>3. ASSUME NEW y \in Extractors, runner[y].job = j, Resolve(y) \/ Drop(y) PROVE FALSE
      <4>1. runner[y].pc \in Working
        BY <3>3 DEF Resolve, Drop, Working
      <4> QED BY <2>1, <3>3, <4>1 DEF RunsInv, Working
    <3>4. job[j].file \in Files /\ job'[j].file = job[j].file
      BY <1>2, <2>1
    <3> QED BY <1>8, <2>1, <3>1, <3>2, <3>3, <3>4, OriginalStays
  <2>2. CASE \E y \in Extractors : /\ runner[y].job = j /\ Activate(y)
                                   /\ runner[y].pc = "written" /\ doc[j] = "processing"
    <3>1. UNCHANGED <<file, job>>
      BY <2>2 DEF Activate
    <3> QED BY <2>2, <3>1 DEF OriginalInv
  <2>3. CASE doc[j] = "absent" /\ \E i \in Ingesters : Publish(i) /\ intake[i].job = j
    <3>1. PICK i \in Ingesters : Publish(i) /\ intake[i].job = j /\ intake[i].pc = "written"
      BY <2>3 DEF Publish
    <3>2. UNCHANGED <<file, job>>
      BY <1>6, <2>3, <3>1 DEF Publish
    <3>3. file[job[j].file] = In("active", j)
      BY <3>1 DEF InlineInv, StageInv, Detour
    <3> QED BY <3>2, <3>3
  <2> QED BY <1>6, <2>1, <2>2, <2>3, StatusSteps
<1> QED BY <1>3, <1>5, <1>6 DEF OriginalInv, ActiveHasOriginal

(* A thread goes on with its job or starts one                               *)
LEMMA ThreadStep ==
  ASSUME IInv, [Next]_vars, NEW i \in Ingesters, intake'[i].pc # "idle"
  PROVE  \/ /\ intake[i].pc # "idle" /\ intake[i].job \in Jobs /\ intake'[i].job = intake[i].job
            /\ job'[intake[i].job].file = job[intake[i].job].file
            /\ intake'[i] = intake[i] \/ Process(i)
         \/ /\ intake[i].pc = "idle" /\ intake'[i].pc = "added"
            /\ \E f \in Files, j \in Jobs :
                 AddJob(i, f, j) /\ intake'[i].job = j /\ job'[j].file = f
<1>1. intake \in [Ingesters -> IntakeType] /\ job \in [Jobs -> JobType]
  BY DEF IInv, Types
<1>2. ASSUME intake[i].pc # "idle", intake[i].job \in Jobs
      PROVE  job'[intake[i].job].file = job[intake[i].job].file
  <2>1. job[intake[i].job].status # "unused"
    BY <1>2 DEF IInv, IntakeInv
  <2> QED BY <1>2, <2>1, JobKept
<1>3. CASE intake'[i] = intake[i]
  BY <1>1, <1>2, <1>3, IntakeOf
<1>4. CASE Process(i)
  BY <1>1, <1>2, <1>4, ProcessStep, IntakeOf
<1>5. ASSUME NEW k \in Ingesters, k # i, Process(k) PROVE intake'[i] = intake[i]
  BY <1>5, ProcessStep
<1>6. ASSUME NEW k \in Ingesters, NEW f \in Files, NEW j \in Jobs, AddJob(k, f, j), intake'[i] # intake[i]
      PROVE  /\ intake[i].pc = "idle" /\ intake'[i].pc = "added"
             /\ AddJob(i, f, j) /\ intake'[i].job = j /\ job'[j].file = f
  BY <1>1, <1>6 DEF AddJob
<1>7. ~Crash
  BY DEF Crash, Resting
<1> QED BY <1>3, <1>4, <1>5, <1>6, <1>7, PositionWriters

(* Nobody else moves the file of a thread                                    *)
LEMMA InlineStill ==
  ASSUME IInv, TripInv, StageInv, OriginalInv, InlineInv, [Next]_vars, ~staged,
         NEW i \in Ingesters, intake'[i] = intake[i], intake[i].pc # "idle",
         NEW j \in Jobs, j = intake[i].job, NEW f \in Files, f = job[j].file,
         \/ intake[i].pc = "added" /\ file[f] = Ingest
         \/ intake[i].pc \in {"moved", "identified", "extracting"} /\ file[f] = In("work", j)
         \/ intake[i].pc = "written" /\ file[f] = In("active", j)
  PROVE  file'[f] = file[f]
<1>1. /\ file \in [Files -> Place] /\ job \in [Jobs -> JobType] /\ doc \in [Jobs -> DocStatus]
      /\ intake \in [Ingesters -> IntakeType] /\ request \in RequestType
  BY DEF IInv, Types
<1>2. /\ job[j].status = "open" /\ sweep.pc = "idle"
      /\ file[f] \in {Ingest, In("work", j), In("active", j)}
      /\ doc[j] = "absent"
  BY DEF TripInv, IInv, IntakeInv, Early
<1>3. ASSUME NEW k \in Jobs, NEW from, NEW to, Move(k, from, to), file[f] \notin from \/ job[k].file # f
      PROVE  file'[f] = file[f]
  BY <1>1, <1>3 DEF Move
<1>4. ASSUME NEW k \in Jobs, k # j, NEW folder \in Folders PROVE file[f] # In(folder, k)
  BY <1>2, <1>4, PlacesApart
<1>5. ASSUME NEW k \in Jobs, NEW outcome, FolderOf(outcome) \in Folders \ {"work", "active"}
      PROVE  file[f] # In(FolderOf(outcome), k)
  BY <1>2, <1>5, PlacesApart
<1>6. "work" \in Folders /\ "active" \in Folders
  BY PlacesApart
<1>7. CASE \E g \in Files : Upload(g)
  BY <1>1, <1>2, <1>7, PlacesApart DEF Upload
<1>8. CASE \E k \in Jobs : Delete(k)
  <2>1. PICK k \in Jobs : Delete(k)
    BY <1>8
  <2>2. k # j
    BY <1>2, <2>1 DEF Delete
  <2>3. file[f] # In("active", k)
    BY <1>4, <1>6, <2>2
  <2> QED BY <1>3, <2>1, <2>3 DEF Delete
<1>9. CASE \E k \in Jobs : RetryJob(k)
  <2>1. PICK k \in Jobs : RetryJob(k)
    BY <1>9
  <2>2. k # j
    BY <1>2, <2>1 DEF RetryJob
  <2>3. file[f] # In("work", k)
    BY <1>4, <1>6, <2>2
  <2> QED BY <1>3, <2>1, <2>3 DEF RetryJob
<1>10. CASE \E k \in Jobs, outcome \in Outcome : DeleteTerminal(k, outcome)
  <2>1. PICK k \in Jobs, outcome \in Outcome : DeleteTerminal(k, outcome)
    BY <1>10
  <2>2. FolderOf(outcome) \in Folders \ {"work", "active"}
    BY DEF FolderOf, Folders
  <2>3. file[f] # In(FolderOf(outcome), k)
    BY <1>5, <2>2
  <2> QED BY <1>3, <2>1, <2>3 DEF DeleteTerminal, RemoveTerminal
<1>11. CASE \E k \in Jobs, folder \in Folders, g \in Files : ReadOriginal(k, folder, g)
  BY <1>1, <1>2, <1>11, PlacesApart DEF ReadOriginal
<1>12. CASE PurgeOriginal
  <2>1. request.job \in Jobs
    BY <1>1, <1>12 DEF PurgeOriginal, RequestType
  <2>2. CASE request.folder = "active"
    <3>1. request.job # j
      BY <1>2, <1>12, <2>2 DEF PurgeOriginal, IInv, MadeInv
    <3>2. file[f] # In("active", request.job)
      BY <1>4, <1>6, <2>1, <3>1
    <3> QED BY <1>3, <1>12, <2>1, <2>2, <3>2 DEF PurgeOriginal
  <2>3. CASE request.folder # "active"
    <3>1. PICK outcome \in Bad : RemoveTerminal(request.job, outcome, "gone", Lost)
      BY <1>12, <2>3 DEF PurgeOriginal, Bad
    <3>2. file[f] # In(FolderOf(outcome), request.job)
      BY <1>5, <2>1, PlacesApart
    <3> QED BY <1>3, <2>1, <3>1, <3>2 DEF RemoveTerminal
  <2> QED BY <2>2, <2>3
<1>13. CASE WriteBack \/ ApiCrash
  <2>1. file[request.copy] = Held /\ request.copy # f
    BY <1>2, <1>13, PlacesApart DEF WriteBack, ApiCrash, OriginalInv
  <2> QED BY <1>1, <1>13, <2>1 DEF WriteBack, ApiCrash
<1>14. CASE \E k \in Ingesters : TakeFile(k) \/ Extract(k) \/ Publish(k) \/ Relocate(k)
  <2>1. PICK k \in Ingesters : TakeFile(k) \/ Extract(k) \/ Publish(k) \/ Relocate(k)
    BY <1>14
  <2>2. intake[k].pc # "idle" /\ intake[k].job \in Jobs
    BY <1>1, <2>1, IntakeOf DEF TakeFile, Extract, Publish, Relocate
  <2>3. CASE k = i
    <3>1. ~Relocate(k)
      BY <2>3 DEF Relocate
    <3>2. ASSUME NEW pc, NEW o, (Goto(i, pc) /\ o = intake[i].outcome) \/ End(i, pc, o) PROVE intake[i].pc = pc
      BY <1>1, <3>2, GotoOf
    <3>3. ~TakeFile(i)
      BY <3>2 DEF TakeFile
    <3>4. ~Publish(i)
      BY <3>2 DEF Publish
    <3>5. Extract(i) => UNCHANGED file
      BY <3>2 DEF Extract
    <3> QED BY <2>1, <2>3, <3>1, <3>3, <3>4, <3>5
  <2>4. CASE k # i
    <3>1. job[intake[k].job].file # f
      BY <2>2, <2>4 DEF InlineInv
    <3>2. intake[k].job # j
      BY <3>1
    <3>3. file[f] # In("active", intake[k].job)
      BY <1>4, <1>6, <2>2, <3>2
    <3>4. CASE Publish(k)
      BY <1>1, <3>3, <3>4 DEF Publish, Rmtree
    <3>5. CASE TakeFile(k) \/ Extract(k) \/ Relocate(k)
      <4>1. UNCHANGED file \/ \E from, to : Move(intake[k].job, from, to)
        BY <3>5 DEF TakeFile, Extract, Relocate
      <4> QED BY <1>3, <2>2, <3>1, <4>1
    <3> QED BY <2>1, <3>4, <3>5
  <2> QED BY <2>3, <2>4
<1>15. ~\E x \in Extractors : Resolve(x) \/ Write(x) \/ Drop(x)
  BY DEF StageInv, Resolve, Write, Drop
<1>16. ~MoveBack /\ ~ClearWorkdir
  BY <1>2 DEF MoveBack, ClearWorkdir
<1> QED BY <1>7, <1>8, <1>9, <1>10, <1>11, <1>12, <1>13, <1>14, <1>15, <1>16, FileWriters

LEMMA InlineStep ==
  ASSUME InTime, IInv, TripInv, StageInv, OriginalInv, InlineInv, [Next]_vars PROVE InlineInv'
<1>1. /\ file \in [Files -> Place] /\ job \in [Jobs -> JobType]
      /\ intake \in [Ingesters -> IntakeType] /\ staged' = staged
  BY ModeKept DEF IInv, Types
<1> DEFINE Old(i) == /\ intake[i].pc # "idle" /\ intake[i].job \in Jobs
                     /\ intake'[i].job = intake[i].job
                     /\ job'[intake[i].job].file = job[intake[i].job].file
           New(i) == \E f \in Files, j \in Jobs :
                       AddJob(i, f, j) /\ intake'[i].job = j /\ job'[j].file = f
<1>2. ASSUME NEW i \in Ingesters, NEW k \in Ingesters, intake'[i].pc # "idle", intake'[k].pc # "idle",
             job'[intake'[i].job].file = job'[intake'[k].job].file
      PROVE  i = k
  <2>1. (Old(i) \/ New(i)) /\ (Old(k) \/ New(k))
    BY <1>2, ThreadStep
  <2>2. CASE Old(i) /\ Old(k)
    BY <1>2, <2>2 DEF InlineInv
  <2>3. ASSUME NEW a \in Ingesters, NEW b \in Ingesters, New(a), Old(b) \/ New(b),
               intake'[b].pc # "idle",
               job'[intake'[a].job].file = job'[intake'[b].job].file
        PROVE  a = b
    <3>1. PICK f \in Files, j \in Jobs : AddJob(a, f, j) /\ intake'[a].job = j /\ job'[j].file = f
      BY <2>3
    <3>2. CASE Old(b)
      BY <2>3, <3>1, <3>2 DEF AddJob
    <3>3. CASE New(b) /\ a # b
      <4>1. intake[b].pc = "idle" /\ intake'[b] = intake[b]
        BY <1>1, <3>1, <3>3 DEF AddJob
      <4> QED BY <2>3, <4>1
    <3> QED BY <2>3, <3>2, <3>3
  <2> QED BY <1>2, <2>1, <2>2, <2>3
<1>3. ASSUME ~staged, NEW i \in Ingesters, NEW j, j = intake'[i].job
      PROVE  /\ intake'[i].pc = "added" => file'[job'[j].file] = Ingest
             /\ intake'[i].pc \in {"moved", "identified", "extracting"} => file'[job'[j].file] = In("work", j)
             /\ intake'[i].pc = "written" => file'[job'[j].file] = In("active", j)
  <2> DEFINE At(t, g) == /\ t.pc = "added" => g = Ingest
                         /\ t.pc \in {"moved", "identified", "extracting"} => g = In("work", t.job)
                         /\ t.pc = "written" => g = In("active", t.job)
             Early2 == {"added", "moved", "identified", "extracting", "written"}
  <2>1. SUFFICES ASSUME intake'[i].pc \in Early2 PROVE At(intake'[i], file'[job'[j].file])
    BY <1>3
  <2>2. intake'[i].pc # "idle"
    BY <2>1
  <2>3. CASE New(i)
    <3>1. PICK f \in Files, k \in Jobs : AddJob(i, f, k) /\ intake'[i].job = k /\ job'[k].file = f
      BY <2>3
    <3>2. intake'[i].pc = "added" /\ file'[f] = Ingest
      BY <1>1, <3>1 DEF AddJob
    <3> QED BY <1>3, <3>1, <3>2
  <2>4. CASE Old(i) /\ (intake'[i] = intake[i] \/ Process(i))
    <3>1. PICK f \in Files : f = job[j].file
      BY <1>3, <2>4 DEF IInv, JobsInv, IntakeInv
    <3>2. j \in Jobs /\ j = intake[i].job /\ job'[j].file = f /\ At(intake[i], file[f])
      BY <1>3, <2>4, <3>1 DEF InlineInv
    <3>3. CASE intake'[i] = intake[i]
      <4>1. file'[f] = file[f]
        BY <1>3, <2>1, <2>4, <3>1, <3>2, <3>3, InlineStill
      <4> QED BY <3>2, <3>3, <4>1
    <3>4. CASE Process(i)
      <4>1. ASSUME NEW pc, NEW o, (Goto(i, pc) /\ o = intake[i].outcome) \/ End(i, pc, o)
            PROVE  intake'[i].pc = pc
        BY <1>1, <4>1, GotoOf
      <4>2. CASE TakeFile(i)
        <5>1. intake'[i].pc = "moved"
          BY <4>1, <4>2 DEF TakeFile
        <5>2. file'[f] = In("work", j)
          BY <1>1, <3>1, <3>2, <4>2 DEF TakeFile, Move
        <5> QED BY <1>3, <3>2, <5>1, <5>2
      <4>3. CASE Identify(i)
        <5>1. intake'[i].pc = "identified" /\ intake[i].pc = "moved" /\ UNCHANGED file
          BY <4>1, <4>3 DEF Identify
        <5> QED BY <1>3, <3>2, <5>1
      <4>4. CASE Decide(i)
        <5>1. intake'[i].pc \in {"extracting", "relocating"} /\ intake[i].pc = "identified" /\ UNCHANGED file
          BY <1>3, <4>1, <4>4 DEF Decide
        <5> QED BY <1>3, <3>2, <5>1
      <4>5. CASE Extract(i)
        <5>1. CASE Move(j, {In("work", j)}, In("active", j)) /\ Goto(i, "written")
          <6>1. intake'[i].pc = "written"
            BY <4>1, <5>1
          <6>2. file'[f] = In("active", j)
            BY <1>1, <3>1, <3>2, <4>5, <5>1 DEF Extract, Move
          <6> QED BY <1>3, <3>2, <6>1, <6>2
        <5>2. CASE \E guarded \in BOOLEAN :
                     intake' = [intake EXCEPT ![i] = [pc |-> "relocating", job |-> j,
                                                      outcome |-> "failed", guarded |-> guarded]]
          BY <1>1, <2>1, <5>2
        <5> QED BY <3>2, <4>5, <5>1, <5>2 DEF Extract
      <4>6. CASE CreateDocument(i) \/ SeedLedger(i) \/ RecordDone(i) \/ Relocate(i) \/ RecordTerminal(i)
        BY <2>1, <4>1, <4>6 DEF CreateDocument, SeedLedger, RecordDone, Relocate, RecordTerminal
      <4>7. CASE Publish(i) \/ Index(i)
        BY <2>1, <4>1, <4>7 DEF Publish, Index
      <4>8. CASE CloseJob(i)
        BY <1>1, <2>1, <4>8 DEF CloseJob, Resting
      <4>9. CASE Raise(i)
        <5>1. intake'[i] = Resting \/ intake'[i].pc \in {"relocating", "restoring"}
          BY <1>1, <4>9 DEF Raise, Cleanup
        <5> QED BY <2>1, <5>1 DEF Resting
      <4> QED BY <3>4, <4>2, <4>3, <4>4, <4>5, <4>6, <4>7, <4>8, <4>9 DEF Process
    <3> QED BY <2>4, <3>3, <3>4
  <2> QED BY <2>2, <2>3, <2>4, ThreadStep
<1> QED BY <1>1, <1>2, <1>3 DEF InlineInv

(* An active document has its original in its folder, through crashes,        *)
(* retries, reingests, deletes and sweeps, staged or inline (ExtractStage,    *)
(* _activate, reingest_document).                                           *)
THEOREM OriginalsAreKept == ASSUME InTime PROVE Spec => []ActiveHasOriginal
<1>1. IInv /\ TripInv /\ StagedInv /\ [Next]_vars => StagedInv'
  BY StageStep, RunsStep, OriginalStep, InlineStep DEF StagedInv
<1>2. StagedInv => ActiveHasOriginal
  BY DEF StagedInv, OriginalInv
<1> QED BY <1>1, <1>2, InitStaged, InvariantHolds, InitTrip, NextTrip, PTL DEF Spec

-----------------------------------------------------------------------------
(* No content vanishes                                                      *)

(* A folder holds the file of the job it belongs to                          *)
PlaceInv ==
  \A f \in Files, folder \in Folders, j \in Jobs :
    file[f] = In(folder, j) => job[j].status # "unused" /\ job[j].file = f

(* The hash is stored with the path, before there is a document              *)
HashInv ==
  /\ \A j \in Jobs : /\ job[j].hashed <=> job[j].source = "work"
                     /\ doc[j] # "absent" => job[j].hashed
                     /\ terminal[j] # {} => job[j].status # "unused"
  /\ \A i \in Ingesters :
       intake[i].pc \in {"identified", "creating", "extracting", "written"} => job[intake[i].job].hashed

(* What a run may find of its document, and a reingest of its own            *)
RunDocs ==
  \A x \in Extractors :
    /\ runner[x].pc \in {"resolving", "reading", "writing", "written", "dropping"} =>
         doc[runner[x].job] \in {"processing", "failed", "deleted"}
    /\ runner[x].pc = "discarding" => doc[runner[x].job] \in {"failed", "deleted"}

ReadInv ==
  request.pc = "read" =>
    /\ job[request.job].status # "unused" /\ Content[request.copy] = ContentOf(request.job)
    /\ request.folder = "active" => doc[request.job] \in {"active", "gone", "deleted"}

(* The job at hand in the sweep, and the jobs it has still to look at        *)
InHand == {"moving", "recording", "updating", "clearing"}

SweepOpen ==
  /\ sweep.pc \in InHand \cup {"jobs"} =>
       \A j \in sweep.jobs : job[j].status = "open" \/ (sweep.pc = "clearing" /\ j = sweep.job)
  /\ sweep.pc \in InHand => sweep.job \in sweep.jobs /\ doc[sweep.job] # "processing"

(* A run that drops a duplicate leaves the row to be removed, so a failure of *)
(* that row excuses nothing                                                 *)
Dropping(j) == \E x \in Extractors : runner[x].job = j /\ runner[x].pc \in {"dropping", "deleting"}

Excuse(j) ==
  \/ doc[j] = "deleted" \/ (doc[j] = "failed" /\ ~Dropping(j))
  \/ "deleted" \in terminal[j]
  \/ job[j].status = "recovered" /\ ~job[j].hashed

Excused(c) ==
  request.died \/ \E j \in Jobs : job[j].file # NoFile /\ ContentOf(j) = c /\ Excuse(j)

(* The working folder that the sweep is about to remove has no file whose     *)
(* loss nothing excuses                                                     *)
SweepFile ==
  LET j == sweep.job
      inWork == file[job[j].file] = In("work", j) IN
  /\ sweep.pc = "moving" /\ sweep.strike /\ ~job[j].hashed => file[job[j].file] = Ingest
  /\ sweep.pc \in {"recording", "updating"} /\ inWork =>
       Excused(ContentOf(j)) \/ (~job[j].hashed /\ ~sweep.strike)
  /\ sweep.pc = "clearing" /\ inWork => Excused(ContentOf(j))

(* A file that no step underway is about to remove                           *)
Secure(g) ==
  /\ file[g] \notin {Outside, Lost, Purged}
  /\ \A x \in Extractors : runner[x].pc = "dropping" => file[g] # In("active", runner[x].job)
  /\ sweep.pc = "clearing" => file[g] # In("work", sweep.job)

SecureInv ==
  \A f \in Files : \/ file[f] = Outside \/ Excused(Content[f])
                   \/ \E g \in Files : Content[g] = Content[f] /\ Secure(g)

VanishInv ==
  PlaceInv /\ HashInv /\ RunDocs /\ ReadInv /\ SweepOpen /\ SweepFile /\ SecureInv

LEMMA InitVanish == Init => VanishInv
<1> SUFFICES ASSUME Init PROVE VanishInv
  OBVIOUS
<1>1. PlaceInv
  <2>1. \A folder \in Folders, j \in Jobs : In(folder, j) # Outside
    BY DEF In, Outside, Folders
  <2> QED BY <2>1 DEF PlaceInv, Init
<1>2. HashInv /\ RunDocs /\ ReadInv /\ SweepOpen /\ SweepFile /\ SecureInv
  BY DEF Init, HashInv, RunDocs, ReadInv, SweepOpen, SweepFile, SecureInv, InHand, Unused, Resting,
         Free, NoSweep, NoRequest
<1> QED BY <1>1, <1>2 DEF VanishInv

(* Where a file may go in one step, and who moves it                         *)
LEMMA FileSteps ==
  ASSUME IInv, StageInv, OriginalInv, HashInv, ReadInv, [Next]_vars,
         NEW f \in Files, file'[f] # file[f]
  PROVE  \/ file'[f] = Ingest
         \/ file[f] = Outside /\ file'[f] = Held
         \/ file[f] = Held /\ ApiCrash
         \/ \E j \in Jobs :
              /\ f = job[j].file /\ job[j].status # "unused"
              /\ \/ /\ \E folder \in Folders \ {"work", "active"} : file'[f] = In(folder, j)
                    /\ MoveBack \/ \E i \in Ingesters : Relocate(i)
                 \/ file'[f] = In("work", j) /\ \E i \in Ingesters : TakeFile(i)
                 \/ /\ file[f] # Ingest /\ file'[f] = In("work", j)
                    /\ \E x \in Extractors : runner[x].job = j /\ Resolve(x)
                 \/ /\ file[f] # Ingest /\ file'[f] = In("active", j)
                    /\ \/ \E x \in Extractors : runner[x].job = j /\ Write(x)
                       \/ \E i \in Ingesters : intake[i].job = j /\ Extract(i)
                 \/ /\ file[f] # Ingest /\ file'[f] = Purged
                    /\ doc'[j] = "deleted" \/ "deleted" \in terminal'[j]
                 \/ file[f] # Ingest /\ file'[f] = Lost /\ PurgeOriginal /\ j = request.job
         \/ /\ file'[f] = Lost
            /\ \/ \E x \in Extractors : Drop(x) /\ file[f] = In("active", runner[x].job)
               \/ \E i \in Ingesters : Publish(i) /\ file[f] = In("active", intake[i].job)
               \/ ClearWorkdir /\ file[f] = In("work", sweep.job)
<1> DEFINE Goal ==
             \/ file'[f] = Ingest
             \/ file[f] = Outside /\ file'[f] = Held
             \/ file[f] = Held /\ ApiCrash
             \/ \E j \in Jobs :
                  /\ f = job[j].file /\ job[j].status # "unused"
                  /\ \/ /\ \E folder \in Folders \ {"work", "active"} : file'[f] = In(folder, j)
                        /\ MoveBack \/ \E i \in Ingesters : Relocate(i)
                     \/ file'[f] = In("work", j) /\ \E i \in Ingesters : TakeFile(i)
                     \/ /\ file[f] # Ingest /\ file'[f] = In("work", j)
                        /\ \E x \in Extractors : runner[x].job = j /\ Resolve(x)
                     \/ /\ file[f] # Ingest /\ file'[f] = In("active", j)
                        /\ \/ \E x \in Extractors : runner[x].job = j /\ Write(x)
                           \/ \E i \in Ingesters : intake[i].job = j /\ Extract(i)
                     \/ /\ file[f] # Ingest /\ file'[f] = Purged
                        /\ doc'[j] = "deleted" \/ "deleted" \in terminal'[j]
                     \/ file[f] # Ingest /\ file'[f] = Lost /\ PurgeOriginal /\ j = request.job
             \/ /\ file'[f] = Lost
                /\ \/ \E x \in Extractors : Drop(x) /\ file[f] = In("active", runner[x].job)
                   \/ \E i \in Ingesters : Publish(i) /\ file[f] = In("active", intake[i].job)
                   \/ ClearWorkdir /\ file[f] = In("work", sweep.job)
<1>1. /\ file \in [Files -> Place] /\ job \in [Jobs -> JobType] /\ doc \in [Jobs -> DocStatus]
      /\ terminal \in [Jobs -> SUBSET Marks]
      /\ intake \in [Ingesters -> IntakeType] /\ runner \in [Extractors -> RunnerType]
  BY DEF IInv, Types, Marks
<1>2. ASSUME NEW k, NEW from, NEW to, Move(k, from, to)
      PROVE  f = job[k].file /\ file[f] \in from /\ file'[f] = to
  BY <1>1, <1>2 DEF Move
<1>3. ASSUME NEW k, NEW folder, Rmtree(folder, k)
      PROVE  file[f] = In(folder, k) /\ file'[f] = Lost
  BY <1>1, <1>3 DEF Rmtree
<1>4. ASSUME NEW j \in Jobs, doc[j] # "absent" PROVE job[j].status # "unused"
  BY <1>4 DEF IInv, JobsInv
<1>5. CASE \E g \in Files : Upload(g)
  BY <1>1, <1>5 DEF Upload
<1>6. ASSUME NEW j \in Jobs, Delete(j) PROVE Goal
  <2>1. Move(j, {In("active", j)}, Purged) /\ doc'[j] = "deleted" /\ doc[j] # "absent"
    BY <1>1, <1>6 DEF Delete
  <2>2. f = job[j].file /\ file[f] = In("active", j) /\ file'[f] = Purged
    BY <1>2, <2>1
  <2> QED BY <1>4, <2>1, <2>2, PlacesApart
<1>7. ASSUME NEW j \in Jobs, RetryJob(j) PROVE Goal
  BY <1>2, <1>7 DEF RetryJob
<1>8. ASSUME NEW j \in Jobs, NEW outcome \in Outcome, DeleteTerminal(j, outcome) PROVE Goal
  <2>1. Move(j, {In(FolderOf(outcome), j)}, Purged) /\ "deleted" \in terminal'[j]
    BY <1>1, <1>8 DEF DeleteTerminal, RemoveTerminal
  <2>2. f = job[j].file /\ file[f] = In(FolderOf(outcome), j) /\ file'[f] = Purged
    BY <1>2, <2>1
  <2>3. FolderOf(outcome) \in Folders
    BY DEF FolderOf, Outcome, Folders
  <2>4. job[j].status # "unused"
    BY <1>8 DEF DeleteTerminal, HashInv
  <2> QED BY <2>1, <2>2, <2>3, <2>4, PlacesApart
<1>9. ASSUME NEW j \in Jobs, NEW folder \in Folders, NEW g \in Files, ReadOriginal(j, folder, g)
      PROVE  Goal
  BY <1>1, <1>9 DEF ReadOriginal
<1>10. CASE PurgeOriginal
  <2>1. request.job \in Jobs /\ job[request.job].status # "unused"
    BY <1>10 DEF PurgeOriginal, IInv, Types, RequestType, ReadInv
  <2>2. \E folder \in Folders : Move(request.job, {In(folder, request.job)}, Lost)
    <3>1. CASE request.folder = "active"
      BY <1>10, <3>1, PlacesApart DEF PurgeOriginal
    <3>2. CASE request.folder # "active"
      <4>1. PICK outcome \in Bad : RemoveTerminal(request.job, outcome, "gone", Lost)
        BY <1>10, <3>2 DEF PurgeOriginal, Bad
      <4> QED BY <4>1, PlacesApart DEF RemoveTerminal
    <3> QED BY <3>1, <3>2
  <2>3. PICK folder \in Folders : Move(request.job, {In(folder, request.job)}, Lost)
    BY <2>2
  <2>4. f = job[request.job].file /\ file[f] = In(folder, request.job) /\ file'[f] = Lost
    BY <1>2, <2>3
  <2> QED BY <1>10, <2>1, <2>4, PlacesApart
<1>11. CASE WriteBack
  BY <1>1, <1>11 DEF WriteBack
<1>12. CASE ApiCrash
  BY <1>1, <1>12 DEF ApiCrash, OriginalInv
<1>13. ASSUME NEW i \in Ingesters, TakeFile(i) \/ Extract(i) \/ Publish(i) \/ Relocate(i) PROVE Goal
  <2>1. PICK j \in Jobs : j = intake[i].job /\ job[j].status # "unused"
    BY <1>1, <1>13, IntakeOf DEF TakeFile, Extract, Publish, Relocate, IInv, IntakeInv
  <2>2. CASE TakeFile(i)
    BY <1>2, <2>1, <2>2 DEF TakeFile
  <2>3. CASE Extract(i)
    <3>1. Move(j, {In("work", j)}, In("active", j))
      BY <2>1, <2>3 DEF Extract
    <3>2. f = job[j].file /\ file[f] = In("work", j) /\ file'[f] = In("active", j)
      BY <1>2, <3>1
    <3> QED BY <2>1, <2>3, <3>2, PlacesApart
  <2>4. CASE Publish(i)
    BY <1>3, <2>4 DEF Publish
  <2>5. CASE Relocate(i)
    <3>1. intake[i].pc \in {"relocating", "restoring"}
      BY <2>5 DEF Relocate
    <3>2. FolderOf(intake[i].outcome) \in Folders \ {"work", "active"}
      <4>1. intake[i].outcome \in Bad
        BY <1>1, <3>1, IntakeOf DEF Ending
      <4> QED BY <4>1, PlacesApart
    <3>3. \E from : Move(j, from, In(FolderOf(intake[i].outcome), j))
      BY <2>1, <2>5 DEF Relocate
    <3>4. f = job[j].file /\ file'[f] = In(FolderOf(intake[i].outcome), j)
      BY <1>2, <3>3
    <3> QED BY <2>1, <2>5, <3>2, <3>4
  <2> QED BY <1>13, <2>2, <2>3, <2>4, <2>5
<1>14. ASSUME NEW x \in Extractors, Resolve(x) \/ Write(x) \/ Drop(x) PROVE Goal
  <2>1. PICK j \in Jobs : j = runner[x].job /\ job[j].status # "unused"
    <3>1. runner[x].job \in Jobs /\ runner[x].pc # "idle"
      BY <1>1, <1>14 DEF Resolve, Write, Drop, RunnerType
    <3> QED BY <1>4, <3>1 DEF IInv, MadeInv
  <2>2. CASE Resolve(x)
    <3>1. Move(j, {In("active", j)}, In("work", j))
      BY <2>1, <2>2 DEF Resolve
    <3>2. f = job[j].file /\ file[f] = In("active", j) /\ file'[f] = In("work", j)
      BY <1>2, <3>1
    <3> QED BY <2>1, <2>2, <3>2, PlacesApart
  <2>3. CASE Write(x)
    <3>1. Move(j, {In("work", j)}, In("active", j))
      BY <2>1, <2>3 DEF Write
    <3>2. f = job[j].file /\ file[f] = In("work", j) /\ file'[f] = In("active", j)
      BY <1>2, <3>1
    <3> QED BY <2>1, <2>3, <3>2, PlacesApart
  <2>4. CASE Drop(x)
    BY <1>3, <2>4 DEF Drop
  <2> QED BY <1>14, <2>2, <2>3, <2>4
<1>15. CASE MoveBack
  <2>1. sweep.job \in Jobs /\ job[sweep.job].status # "unused"
    BY <1>15 DEF MoveBack, IInv, Types, SweepType, SweepInv
  <2>2. f = job[sweep.job].file /\ file'[f] \in {In("quarantine", sweep.job), Ingest}
    BY <1>1, <1>15 DEF MoveBack
  <2>3. "quarantine" \in Folders \ {"work", "active"}
    BY DEF Folders
  <2> QED BY <1>15, <2>1, <2>2, <2>3
<1>16. CASE ClearWorkdir
  BY <1>3, <1>16 DEF ClearWorkdir
<1> QED BY <1>5, <1>6, <1>7, <1>8, <1>9, <1>10, <1>11, <1>12, <1>13, <1>14, <1>15, <1>16, FileWriters

LEMMA PlaceStep ==
  ASSUME IInv, StageInv, OriginalInv, HashInv, ReadInv, PlaceInv, [Next]_vars
  PROVE  PlaceInv'
<1> SUFFICES ASSUME NEW f \in Files, NEW folder \in Folders, NEW j \in Jobs, file'[f] = In(folder, j)
             PROVE  job'[j].status # "unused" /\ job'[j].file = f
  BY DEF PlaceInv, In
<1>1. job[j].status # "unused" /\ job[j].file = f
  <2>1. CASE file'[f] = file[f]
    <3>1. file[f] = In(folder, j)
      BY <2>1
    <3> QED BY <3>1 DEF PlaceInv
  <2>2. CASE file'[f] # file[f]
    <3>1. ~(file'[f] \in {Ingest, Held, Purged, Lost})
      BY PlacesApart
    <3>2. ~ApiCrash \/ file[f] # Held
      <4>1. ASSUME ApiCrash, file[f] = Held PROVE FALSE
        <5>1. file \in [Files -> Place] /\ file'[f] = Lost
          BY <2>2, <4>1 DEF ApiCrash, IInv, Types
        <5> QED BY <3>1, <5>1
      <4> QED BY <4>1
    <3>3. PICK k \in Jobs, other \in Folders :
            f = job[k].file /\ job[k].status # "unused" /\ file'[f] = In(other, k)
      BY <2>2, <3>1, <3>2, FileSteps, PlacesApart
    <3>4. k = j
      BY <3>3, PlacesApart
    <3> QED BY <3>3, <3>4
  <2> QED BY <2>1, <2>2
<1> QED BY <1>1, JobKept

(* The steps of a run                                                       *)
LEMMA RunnerPlaces ==
  ASSUME IInv, [Next]_vars, NEW x \in Extractors, runner'[x].pc # "idle", runner'[x] # runner[x]
  PROVE  \/ runner'[x].pc \in {"claimed", "returned", "raised"}
         \/ /\ runner[x].pc # "idle" /\ runner'[x].job = runner[x].job
            /\ \/ /\ Load(x) /\ runner'[x].pc = "resolving" /\ doc[runner[x].job] = "processing"
               \/ Resolve(x) /\ UNCHANGED doc /\ runner'[x].pc = "reading"
               \/ Read(x) /\ UNCHANGED doc /\ runner'[x].pc = "writing"
               \/ Write(x) /\ runner'[x].pc = "written"
               \/ /\ Activate(x) /\ UNCHANGED doc /\ runner'[x].pc = "dropping"
                  /\ doc[runner[x].job] = "processing" /\ Served(runner[x].job) # {}
               \/ /\ Activate(x) /\ UNCHANGED doc /\ runner'[x].pc = "discarding"
                  /\ doc[runner[x].job] # "processing"
               \/ Drop(x) /\ runner[x].pc = "dropping" /\ runner'[x].pc = "deleting"
<1>1. runner \in [Extractors -> RunnerType]
  BY DEF IInv, Types
<1>2. ~Crash /\ ~UNCHANGED runner
  BY DEF Crash, Free
<1>3. ASSUME NEW y \in Extractors, Run(y) \/ Fault(y) PROVE y = x
  BY <1>1, <1>3 DEF Run, Fault, Claim, Load, Resolve, Read, Write, Activate, Drop, DropRow, Mark, Step
<1>4. Run(x) \/ Fault(x)
  BY <1>2, <1>3, PositionWriters
<1>5. ASSUME NEW pc, Step(x, pc) PROVE runner'[x].pc = pc /\ runner'[x].job = runner[x].job
  <2>1. runner[x] = [pc |-> runner[x].pc, job |-> runner[x].job]
    BY <1>1 DEF RunnerType
  <2> QED BY <1>1, <1>5, <2>1 DEF Step
<1>6. CASE \E j \in Jobs : Claim(x, j)
  BY <1>1, <1>6 DEF Claim
<1>7. CASE Load(x)
  BY <1>5, <1>7 DEF Load
<1>8. CASE Resolve(x)
  BY <1>5, <1>8 DEF Resolve
<1>9. CASE Read(x)
  BY <1>5, <1>9 DEF Read
<1>10. CASE Write(x)
  BY <1>5, <1>10 DEF Write
<1>11. CASE Activate(x)
  <2>1. runner[x].pc = "written"
    BY <1>11 DEF Activate
  <2>2. CASE doc[runner[x].job] = "processing" /\ Served(runner[x].job) = {}
    BY <1>5, <1>11, <2>2 DEF Activate
  <2>3. CASE doc[runner[x].job] = "processing" /\ Served(runner[x].job) # {}
    BY <1>5, <1>11, <2>1, <2>3 DEF Activate
  <2>4. CASE doc[runner[x].job] # "processing"
    BY <1>5, <1>11, <2>1, <2>4 DEF Activate
  <2> QED BY <2>2, <2>3, <2>4
<1>12. CASE Drop(x)
  BY <1>5, <1>12 DEF Drop
<1>13. CASE DropRow(x)
  BY <1>5, <1>13 DEF DropRow
<1>14. CASE Mark(x)
  BY <1>1, <1>14 DEF Mark, Free
<1>15. CASE Fault(x)
  BY <1>5, <1>15 DEF Fault
<1> QED BY <1>4, <1>6, <1>7, <1>8, <1>9, <1>10, <1>11, <1>12, <1>13, <1>14, <1>15 DEF Run

(* What becomes of a document that is not active                             *)
LEMMA DocSteps ==
  ASSUME IInv, StageInv, ReadInv, [Next]_vars, NEW j \in Jobs, doc[j] \in {"processing", "failed", "deleted"}
  PROVE  \/ doc'[j] \in {doc[j], "deleted"}
         \/ doc[j] = "processing" /\ doc'[j] = "failed"
         \/ /\ doc[j] = "processing"
            /\ \E x \in Extractors : runner[x].job = j /\ Activate(x) /\ runner'[x].pc = "returned"
         \/ \E x \in Extractors : /\ runner[x].job = j /\ runner[x].pc = "deleting"
                                  /\ runner'[x].pc = "returned" /\ doc[j] # "deleted"
<1>1. doc \in [Jobs -> DocStatus] /\ runner \in [Extractors -> RunnerType]
  BY DEF IInv, Types
<1>2. CASE UNCHANGED doc \/ \E k \in Jobs : Delete(k)
  BY <1>1, <1>2 DEF Delete
<1>3. ASSUME NEW i \in Ingesters, CreateDocument(i) \/ Publish(i) \/ Index(i) PROVE doc'[j] = doc[j]
  <2>1. CASE CreateDocument(i) \/ Publish(i)
    <3>1. doc[intake[i].job] = "absent"
      BY <2>1 DEF Publish, CreateDocument, IInv, IntakeInv, Early
    <3> QED BY <1>1, <2>1, <3>1 DEF CreateDocument, Publish
  <2>2. CASE Index(i)
    <3>1. doc[j] = "deleted"
      BY <2>2 DEF Index, StageInv, Detour
    <3> QED BY <1>1, <2>2, <3>1 DEF Index, DocRemoved
  <2> QED BY <1>3, <2>1, <2>2
<1>4. CASE \E x \in Extractors : Resolve(x) \/ Read(x)
  BY <1>1, <1>4 DEF Resolve, Read, FailDocument
<1>5. ASSUME NEW x \in Extractors, Activate(x), doc'[j] # doc[j]
      PROVE  runner[x].job = j /\ doc[j] = "processing" /\ runner'[x].pc = "returned"
  <2>1. /\ Step(x, "returned") /\ doc[runner[x].job] = "processing"
        /\ doc' = [doc EXCEPT ![runner[x].job] = "active"]
    BY <1>5 DEF Activate
  <2>2. runner[x] = [pc |-> runner[x].pc, job |-> runner[x].job]
    BY <1>1 DEF RunnerType
  <2> QED BY <1>1, <1>5, <2>1, <2>2 DEF Step
<1>6. ASSUME NEW x \in Extractors, DropRow(x), doc'[j] # doc[j]
      PROVE  runner[x].job = j /\ runner[x].pc = "deleting" /\ runner'[x].pc = "returned"
             /\ doc[j] # "deleted"
  <2>1. runner[x] = [pc |-> runner[x].pc, job |-> runner[x].job]
    BY <1>1 DEF RunnerType
  <2> QED BY <1>1, <1>6, <2>1 DEF DropRow, DocRemoved, Step
<1>7. CASE PurgeOriginal
  BY <1>1, <1>7 DEF PurgeOriginal, DocRemoved, ReadInv
<1>8. CASE FailInterrupted
  BY <1>1, <1>8 DEF FailInterrupted, FailDocument
<1> QED BY <1>2, <1>3, <1>4, <1>5, <1>6, <1>7, <1>8, DocWriters

(* A run on a document sees no other run at it                               *)
LEMMA RunDocsStep ==
  ASSUME IInv, StageInv, RunsInv, ReadInv, RunDocs, [Next]_vars
  PROVE  RunDocs'
<1>1. runner \in [Extractors -> RunnerType] /\ doc \in [Jobs -> DocStatus]
  BY DEF IInv, Types
<1>2. ASSUME NEW x \in Extractors, NEW j \in Jobs, j = runner[x].job, runner[x].pc # "idle",
             runner'[x].pc \in {"resolving", "reading", "writing", "written", "dropping", "discarding"},
             runner[x].pc # "deleting", doc[j] \in {"processing", "failed", "deleted"}
      PROVE  /\ doc'[j] \in {"processing", "failed", "deleted"}
             /\ doc[j] # "processing" => doc'[j] # "processing"
  <2>1. ASSUME NEW y \in Extractors, runner[y].job = j, runner'[y].pc = "returned", runner[y].pc # "idle"
        PROVE  FALSE
    BY <1>2, <2>1 DEF RunsInv
  <2>2. \A y \in Extractors : Activate(y) => runner[y].pc # "idle"
    BY DEF Activate
  <2> QED BY <1>2, <2>1, <2>2, DocSteps
<1>3. ASSUME NEW x \in Extractors,
             runner'[x].pc \in {"resolving", "reading", "writing", "written", "dropping", "discarding"}
      PROVE  LET j == runner'[x].job IN
             /\ runner'[x].pc # "discarding" => doc'[j] \in {"processing", "failed", "deleted"}
             /\ runner'[x].pc = "discarding" => doc'[j] \in {"failed", "deleted"}
  <2>1. /\ runner[x].pc # "idle" /\ runner'[x].job = runner[x].job /\ runner[x].job \in Jobs
        /\ runner[x].pc # "deleting" /\ doc[runner[x].job] \in {"processing", "failed", "deleted"}
        /\ runner'[x].pc = "discarding" => doc[runner[x].job] # "processing"
    <3>1. CASE runner'[x] = runner[x]
      BY <1>1, <1>3, <3>1 DEF RunDocs, RunnerType
    <3>2. CASE runner'[x] # runner[x]
      <4>1. runner[x].pc # "idle" /\ runner'[x].job = runner[x].job /\ runner[x].job \in Jobs
        BY <1>1, <1>3, <3>2, RunnerPlaces DEF RunnerType
      <4>2. /\ runner[x].pc # "deleting" /\ doc[runner[x].job] \in {"processing", "failed", "deleted"}
            /\ runner'[x].pc = "discarding" => doc[runner[x].job] # "processing"
        BY <1>3, <3>2, RunnerPlaces DEF RunDocs, Load, Resolve, Read, Write, Activate, Drop
      <4> QED BY <4>1, <4>2
    <3> QED BY <3>1, <3>2
  <2> QED BY <1>2, <1>3, <2>1
<1> QED BY <1>3 DEF RunDocs

(* Who takes a job out of the states that the recovery sweep relies on       *)
LEMMA StatusKept ==
  ASSUME IInv, TripInv, [Next]_vars, NEW j \in Jobs, job[j].status \in {"open", "recovered"}
  PROVE  \/ job'[j].status = job[j].status
         \/ RecoverJob(j) /\ sweep'.pc = "jobs"
         \/ Tombstone /\ j = sweep.job
         \/ \E i \in Ingesters : CloseJob(i) /\ intake[i].job = j
<1>1. job \in [Jobs -> JobType]
  BY DEF IInv, Types
<1>2. CASE UNCHANGED job
  BY <1>2
<1>3. ASSUME NEW k \in Jobs, NEW o, o \notin {"open", "recovered"},
             job' = [job EXCEPT ![k].status = IF @ = o THEN "deleted" ELSE @]
      PROVE  job'[j].status = job[j].status
  BY <1>1, <1>3 DEF JobType
<1>4. CASE \E k \in Jobs : Delete(k)
  BY <1>3, <1>4 DEF Delete
<1>5. CASE \E k \in Jobs, outcome \in Outcome : DeleteTerminal(k, outcome)
  BY <1>3, <1>5 DEF DeleteTerminal, RemoveTerminal, Outcome
<1>6. CASE PurgeOriginal
  <2>1. request.job \in Jobs
    BY <1>6 DEF PurgeOriginal, IInv, Types, RequestType
  <2>2. CASE request.folder = "active"
    BY <1>3, <1>6, <2>1, <2>2 DEF PurgeOriginal
  <2>3. CASE request.folder # "active"
    BY <1>3, <1>6, <2>1, <2>3 DEF PurgeOriginal, RemoveTerminal, Outcome
  <2> QED BY <2>2, <2>3
<1>7. ASSUME NEW k \in Jobs, RecoverJob(k), job'[j].status # job[j].status
      PROVE  k = j /\ sweep'.pc = "jobs"
  <2>1. job' = [job EXCEPT ![k].status = "active"] /\ sweep' = [sweep EXCEPT !.jobs = @ \ {k}]
        /\ sweep.pc = "jobs"
    BY <1>7 DEF RecoverJob
  <2>2. sweep'.pc = "jobs"
    BY <2>1 DEF IInv, Types, SweepType
  <2> QED BY <1>1, <1>7, <2>1, <2>2
<1>8. ASSUME NEW i \in Ingesters, Identify(i) PROVE job'[j].status = job[j].status
  BY <1>1, <1>8 DEF Identify, JobType
<1>9. ASSUME NEW i \in Ingesters, CloseJob(i), job'[j].status # job[j].status
      PROVE  intake[i].job = j
  BY <1>1, <1>9 DEF CloseJob
<1>10. CASE \E i \in Ingesters, f \in Files, k \in Jobs : AddJob(i, f, k)
  BY <1>1, <1>10 DEF AddJob
<1>11. CASE Tombstone
  BY <1>1, <1>11 DEF Tombstone
<1> QED BY <1>2, <1>4, <1>5, <1>6, <1>7, <1>8, <1>9, <1>10, <1>11, JobWriters

(* The hash and the path of a job are stored once, together                  *)
LEMMA HashKept ==
  ASSUME IInv, [Next]_vars, NEW j \in Jobs
  PROVE  \/ job'[j].hashed = job[j].hashed /\ job'[j].source = job[j].source
         \/ /\ job'[j].hashed /\ job'[j].source = "work"
            /\ \E i \in Ingesters : Identify(i) /\ intake[i].job = j
         \/ /\ ~job'[j].hashed /\ job'[j].source = "ingest"
            /\ \E i \in Ingesters, f \in Files : AddJob(i, f, j)
<1>1. job \in [Jobs -> JobType]
  BY DEF IInv, Types
<1>2. ASSUME NEW k, NEW s, job' = [job EXCEPT ![k].status = s]
      PROVE  job'[j].hashed = job[j].hashed /\ job'[j].source = job[j].source
  BY <1>1, <1>2 DEF JobType
<1>3. CASE UNCHANGED job
  BY <1>3
<1>4. CASE (\E k \in Jobs : Delete(k)) \/ PurgeOriginal
           \/ \E k \in Jobs, o \in Outcome : DeleteTerminal(k, o)
  <2>1. PICK k, o : job' = [job EXCEPT ![k].status = IF @ = o THEN "deleted" ELSE @]
    BY <1>4 DEF Delete, PurgeOriginal, DeleteTerminal, RemoveTerminal
  <2> QED BY <1>1, <2>1 DEF JobType
<1>5. CASE (\E k \in Jobs : RecoverJob(k)) \/ Tombstone \/ \E i \in Ingesters : CloseJob(i)
  BY <1>2, <1>5 DEF RecoverJob, Tombstone, CloseJob
<1>6. ASSUME NEW i \in Ingesters, Identify(i)
      PROVE  \/ job'[j] = job[j]
             \/ intake[i].job = j /\ job'[j].hashed /\ job'[j].source = "work"
  BY <1>1, <1>6 DEF Identify, JobType
<1>7. ASSUME NEW i \in Ingesters, NEW f \in Files, NEW k \in Jobs, AddJob(i, f, k)
      PROVE  \/ job'[j] = job[j]
             \/ k = j /\ ~job'[j].hashed /\ job'[j].source = "ingest"
  BY <1>1, <1>7 DEF AddJob
<1> QED BY <1>3, <1>4, <1>5, <1>6, <1>7, JobWriters

LEMMA HashStep ==
  ASSUME InTime, IInv, StageInv, HashInv, ReadInv, [Next]_vars
  PROVE  HashInv'
<1>1. /\ job \in [Jobs -> JobType] /\ intake \in [Ingesters -> IntakeType]
      /\ terminal \in [Jobs -> SUBSET Marks]
  BY DEF IInv, Types, Marks
<1> DEFINE Hashed == {"identified", "creating", "extracting", "written"}
<1>2. ASSUME NEW j \in Jobs, NEW i \in Ingesters, NEW f \in Files, AddJob(i, f, j)
      PROVE  doc[j] = "absent" /\ UNCHANGED doc /\ terminal[j] = {}
  BY <1>2 DEF AddJob, IInv, JobsInv, HashInv
<1>3. ASSUME NEW j \in Jobs PROVE job'[j].hashed <=> job'[j].source = "work"
  BY HashKept DEF HashInv
<1>4. ASSUME NEW j \in Jobs, doc'[j] # "absent" PROVE job'[j].hashed
  <2>1. job[j].hashed
    <3>1. CASE doc[j] # "absent"
      BY <3>1 DEF HashInv
    <3>2. CASE doc[j] = "absent"
      <4>1. PICK i \in Ingesters : intake[i].job = j /\ (CreateDocument(i) \/ Publish(i))
        BY <1>4, <3>2, DocKept
      <4> QED BY <4>1 DEF CreateDocument, Publish, HashInv
    <3> QED BY <3>1, <3>2
  <2> QED BY <1>2, <1>4, <2>1, HashKept
<1>5. ASSUME NEW j \in Jobs, terminal'[j] # {} PROVE job'[j].status # "unused"
  <2>1. job[j].status # "unused"
    <3>1. CASE terminal[j] # {}
      BY <3>1 DEF HashInv
    <3>2. CASE terminal[j] = {}
      <4>1. ASSUME NEW k \in Jobs, NEW outcome \in Outcome, DeleteTerminal(k, outcome) PROVE FALSE
        BY <1>1, <1>5, <3>2, <4>1 DEF DeleteTerminal, RemoveTerminal
      <4>2. ASSUME NEW i \in Ingesters, RecordTerminal(i) PROVE job[j].status # "unused"
        BY <1>1, <1>5, <3>2, <4>2 DEF RecordTerminal, IInv, IntakeInv
      <4>3. CASE PurgeOriginal
        BY <1>1, <1>5, <3>2, <4>3 DEF PurgeOriginal, RemoveTerminal, ReadInv
      <4>4. CASE RecordQuarantine
        BY <1>1, <1>5, <3>2, <4>4 DEF RecordQuarantine, IInv, SweepInv
      <4> QED BY <1>5, <3>2, <4>1, <4>2, <4>3, <4>4, TerminalWriters
    <3> QED BY <3>1, <3>2
  <2> QED BY <2>1, JobKept
<1>6. ASSUME NEW i \in Ingesters, intake'[i].pc \in Hashed
      PROVE  job'[intake'[i].job].hashed
  <2>1. CASE intake'[i] = intake[i]
    <3>1. PICK j \in Jobs : j = intake[i].job /\ job[j].hashed /\ job[j].status # "unused"
      BY <1>1, <1>6, <2>1, IntakeOf DEF HashInv, IInv, IntakeInv
    <3>2. \A k \in Ingesters, f \in Files : ~AddJob(k, f, j)
      BY <3>1 DEF AddJob
    <3> QED BY <2>1, <3>1, <3>2, HashKept
  <2>2. CASE intake'[i] # intake[i]
    <3>1. ASSUME NEW k \in Ingesters, NEW f \in Files, NEW j \in Jobs, AddJob(k, f, j) PROVE FALSE
      BY <1>1, <1>6, <2>2, <3>1 DEF AddJob
    <3>2. ~Crash
      BY <1>6 DEF Crash, Resting
    <3>3. PICK k \in Ingesters : Process(k)
      BY <2>2, <3>1, <3>2, PositionWriters
    <3>4. k = i /\ intake'[i].job = intake[i].job /\ intake[i].job \in Jobs
      <4>1. PICK j : j = intake[k].job
        OBVIOUS
      <4>2. k = i
        BY <2>2, <3>3, <4>1, ProcessStep
      <4> QED BY <1>6, <3>3, <4>1, <4>2, ProcessStep
    <3>5. \A pc : pc \notin Hashed => ~Goto(i, pc) /\ \A o : ~End(i, pc, o)
      <4>1. ASSUME NEW pc, NEW o, pc \notin Hashed, (Goto(i, pc) /\ o = intake[i].outcome) \/ End(i, pc, o)
            PROVE  FALSE
        BY <1>1, <1>6, <4>1, GotoOf
      <4> QED BY <4>1
    <3>6. /\ ~(TakeFile(i) \/ CreateDocument(i) \/ SeedLedger(i) \/ Relocate(i) \/ RecordTerminal(i))
          /\ ~(Publish(i) \/ Index(i) \/ RecordDone(i))
      <4>1. ~(TakeFile(i) \/ CreateDocument(i) \/ SeedLedger(i) \/ Relocate(i) \/ RecordTerminal(i))
        BY <3>5 DEF TakeFile, CreateDocument, SeedLedger, Relocate, RecordTerminal
      <4>2. ~(Publish(i) \/ Index(i) \/ RecordDone(i))
        BY <3>5 DEF Publish, Index, RecordDone
      <4> QED BY <4>1, <4>2
    <3>7. intake'[i] # Resting
      BY <1>6 DEF Resting
    <3>8. ~CloseJob(i)
      BY <1>1, <3>7 DEF CloseJob
    <3>9. ~Raise(i)
      <4>1. \A pc \in Cleanup(intake[i].pc) : pc \notin Hashed
        BY DEF Cleanup
      <4>2. ASSUME NEW pc \in Cleanup(intake[i].pc),
                   intake' = [intake EXCEPT ![i] = [pc |-> pc, job |-> intake[i].job,
                                                    outcome |-> "failed", guarded |-> FALSE]]
            PROVE  FALSE
        <5>1. intake'[i].pc = pc
          BY <1>1, <4>2
        <5> QED BY <1>6, <4>1, <5>1
      <4> QED BY <1>1, <3>7, <4>2 DEF Raise
    <3>10. Identify(i) \/ Decide(i) \/ Extract(i)
      BY <3>3, <3>4, <3>6, <3>8, <3>9 DEF Process
    <3>11. CASE Identify(i)
      BY <1>1, <3>4, <3>11 DEF Identify, JobType
    <3>12. CASE Decide(i) \/ Extract(i)
      BY <3>4, <3>12 DEF Decide, Extract, HashInv
    <3> QED BY <3>10, <3>11, <3>12
  <2> QED BY <2>1, <2>2
<1> QED BY <1>3, <1>4, <1>5, <1>6 DEF HashInv

(* A reingest reads an original of a job that was taken, and its document    *)
(* does not go back                                                         *)
LEMMA ReadStep ==
  ASSUME IInv, StageInv, HashInv, ReadInv, [Next]_vars
  PROVE  ReadInv'
<1> SUFFICES ASSUME request'.pc = "read"
             PROVE  LET j == request'.job IN
                    /\ job'[j].status # "unused" /\ Content[request'.copy] = Content[job'[j].file]
                    /\ request'.folder = "active" => doc'[j] \in {"active", "gone", "deleted"}
  BY DEF ReadInv, ContentOf
<1>1. /\ request \in RequestType /\ doc \in [Jobs -> DocStatus]
      /\ terminal \in [Jobs -> SUBSET Marks]
  BY DEF IInv, Types, Marks
<1>2. CASE \E j \in Jobs, folder \in Folders, g \in Files : ReadOriginal(j, folder, g)
  <2>1. PICK j \in Jobs, folder \in Folders, g \in Files : ReadOriginal(j, folder, g)
    BY <1>2
  <2>2. request'.job = j /\ request'.copy = g /\ request'.folder = folder
    BY <1>1, <2>1 DEF ReadOriginal, RequestType
  <2>3. UNCHANGED <<job, doc>> /\ Content[g] = Content[job[j].file]
    BY <2>1 DEF ReadOriginal, ContentOf
  <2>4. \/ folder = "active" /\ doc[j] = "active"
        \/ folder # "active" /\ terminal[j] # {}
    <3>1. \A outcome \in Marks \cap Outcome : FolderOf(outcome) # "active"
      BY DEF FolderOf, Marks, Outcome
    <3>2. \/ folder = "active" /\ doc[j] = "active"
          \/ \E outcome \in terminal[j] \cap Outcome : folder = FolderOf(outcome)
      BY <2>1 DEF ReadOriginal
    <3> QED BY <1>1, <3>1, <3>2
  <2>5. job[j].status # "unused"
    BY <2>4 DEF IInv, JobsInv, HashInv
  <2> QED BY <2>2, <2>3, <2>4, <2>5
<1>3. CASE UNCHANGED request
  <2>1. PICK j \in Jobs : j = request.job
    BY <1>1, <1>3 DEF RequestType
  <2>2. job[j].status # "unused" /\ Content[request.copy] = Content[job[j].file]
    BY <1>3, <2>1 DEF ReadInv, ContentOf
  <2>3. ASSUME request.folder = "active" PROVE doc'[j] \in {"active", "gone", "deleted"}
    <3>1. doc[j] \in {"active", "gone", "deleted"}
      BY <1>3, <2>1, <2>3 DEF ReadInv
    <3>2. doc'[j] \in {doc[j], "gone", "deleted"}
      <4>1. CASE UNCHANGED doc \/ \E k \in Jobs : Delete(k)
        BY <1>1, <4>1 DEF Delete
      <4>2. ASSUME NEW i \in Ingesters, CreateDocument(i) \/ Publish(i)
            PROVE  doc'[j] = doc[j]
        <5>1. doc[intake[i].job] = "absent"
          BY <4>2 DEF Publish, CreateDocument, IInv, IntakeInv, Early
        <5> QED BY <1>1, <3>1, <4>2, <5>1 DEF CreateDocument, Publish
      <4>3. CASE \E x \in Extractors : Resolve(x) \/ Read(x) \/ Activate(x) \/ DropRow(x)
        BY <1>1, <3>1, <4>3 DEF Resolve, Read, Activate, DropRow, FailDocument, DocRemoved
      <4>4. CASE PurgeOriginal \/ FailInterrupted
        BY <1>1, <3>1, <4>4 DEF PurgeOriginal, FailInterrupted, FailDocument, DocRemoved
      <4>5. CASE \E i \in Ingesters : Index(i)
        BY <1>1, <3>1, <4>5 DEF Index, DocRemoved
      <4> QED BY <4>1, <4>2, <4>3, <4>4, <4>5, DocWriters
    <3> QED BY <3>1, <3>2
  <2>4. job'[j].file = job[j].file /\ job'[j].status # "unused"
    BY <2>2, JobKept
  <2> QED BY <1>3, <2>1, <2>2, <2>3, <2>4
<1>4. ~(PurgeOriginal \/ WriteBack \/ ApiCrash)
  BY <1>1 DEF PurgeOriginal, WriteBack, ApiCrash, NoRequest, RequestType
<1> QED BY <1>2, <1>3, <1>4, PositionWriters DEF Reingest

(* A run turns to drop a duplicate only while its document is processing     *)
LEMMA DroppingStep ==
  ASSUME IInv, [Next]_vars, NEW j \in Jobs, Dropping(j)', doc[j] # "processing"
  PROVE  Dropping(j)
<1>1. PICK x \in Extractors : runner'[x].job = j /\ runner'[x].pc \in {"dropping", "deleting"}
  BY DEF Dropping
<1>2. CASE runner'[x] = runner[x]
  BY <1>1, <1>2 DEF Dropping
<1>3. CASE runner'[x] # runner[x]
  <2>1. runner[x].job = j /\ runner[x].pc = "dropping"
    BY <1>1, <1>3, RunnerPlaces
  <2> QED BY <2>1 DEF Dropping
<1> QED BY <1>2, <1>3

(* What excuses the loss of a content does so from then on                   *)
LEMMA ExcuseKept ==
  ASSUME IInv, StageInv, RunsInv, TripInv, HashInv, ReadInv, SweepOpen, [Next]_vars,
         NEW j \in Jobs, Excuse(j)
  PROVE  Excuse(j)' /\ job[j].status # "unused"
<1>1. /\ doc \in [Jobs -> DocStatus] /\ runner \in [Extractors -> RunnerType]
      /\ terminal \in [Jobs -> SUBSET Marks]
  BY DEF IInv, Types, Marks
<1>2. \A x \in Extractors : runner[x].pc = "deleting" => runner[x].job \in Jobs
  BY <1>1 DEF RunnerType
<1>3. CASE doc[j] = "deleted"
  BY <1>3, DocSteps DEF Excuse, IInv, JobsInv
<1>4. CASE doc[j] = "failed" /\ ~Dropping(j)
  <2>1. doc'[j] \in {"failed", "deleted"}
    BY <1>4, DocSteps DEF Dropping
  <2>2. ~Dropping(j)'
    BY <1>4, DroppingStep
  <2> QED BY <1>4, <2>1, <2>2 DEF Excuse, IInv, JobsInv
<1>5. CASE "deleted" \in terminal[j]
  <2>1. "deleted" \in terminal'[j]
    <3>1. CASE UNCHANGED terminal
      BY <1>5, <3>1
    <3>2. CASE \E k \in Jobs, outcome \in Outcome : DeleteTerminal(k, outcome)
      BY <1>1, <1>5, <3>2 DEF DeleteTerminal, RemoveTerminal, Outcome
    <3>3. CASE (\E i \in Ingesters : RecordTerminal(i)) \/ RecordQuarantine
      BY <1>1, <1>5, <3>3 DEF RecordTerminal, RecordQuarantine
    <3>4. CASE PurgeOriginal
      <4>1. CASE request.folder = "active"
        BY <1>5, <3>4, <4>1 DEF PurgeOriginal
      <4>2. CASE request.folder # "active"
        <5>1. PICK outcome \in Bad : RemoveTerminal(request.job, outcome, "gone", Lost)
          BY <3>4, <4>2 DEF PurgeOriginal, Bad
        <5> QED BY <1>1, <1>5, <5>1 DEF RemoveTerminal, Bad, Outcome
      <4> QED BY <4>1, <4>2
    <3> QED BY <3>1, <3>2, <3>3, <3>4, TerminalWriters
  <2>2. job[j].status # "unused"
    BY <1>5 DEF HashInv
  <2> QED BY <2>1, <2>2 DEF Excuse
<1>6. CASE job[j].status = "recovered" /\ ~job[j].hashed
  <2>1. ASSUME RecoverJob(j) \/ (Tombstone /\ j = sweep.job) PROVE FALSE
    BY <1>6, <2>1 DEF RecoverJob, Tombstone, SweepOpen, InHand
  <2>2. \A i \in Ingesters : intake[i].job = j => ~CloseJob(i) /\ ~Identify(i)
    BY <1>6 DEF CloseJob, Identify, TripInv
  <2>3. \A i \in Ingesters, f \in Files : ~AddJob(i, f, j)
    BY <1>6 DEF AddJob
  <2>4. job'[j].status = "recovered"
    BY <1>6, <2>1, <2>2, StatusKept
  <2>5. ~job'[j].hashed
    BY <1>6, <2>2, <2>3, HashKept
  <2> QED BY <1>6, <2>4, <2>5 DEF Excuse
<1> QED BY <1>3, <1>4, <1>5, <1>6 DEF Excuse

LEMMA ExcusedKept ==
  ASSUME IInv, StageInv, RunsInv, TripInv, HashInv, ReadInv, SweepOpen, [Next]_vars, NEW c, Excused(c)
  PROVE  Excused(c)'
<1>1. CASE request.died
  <2>1. request \in RequestType
    BY DEF IInv, Types
  <2>2. request'.died
    <3>1. CASE UNCHANGED request
      BY <1>1, <3>1
    <3>2. CASE \E j \in Jobs, folder \in Folders, g \in Files : ReadOriginal(j, folder, g)
      BY <1>1, <2>1, <3>2 DEF ReadOriginal, RequestType
    <3>3. CASE PurgeOriginal
      BY <1>1, <2>1, <3>3 DEF PurgeOriginal, RequestType
    <3>4. CASE WriteBack \/ ApiCrash
      BY <1>1, <3>4 DEF WriteBack, ApiCrash, NoRequest
    <3> QED BY <3>1, <3>2, <3>3, <3>4, PositionWriters DEF Reingest
  <2> QED BY <2>2 DEF Excused
<1>2. CASE \E j \in Jobs : job[j].file # NoFile /\ ContentOf(j) = c /\ Excuse(j)
  <2>1. PICK j \in Jobs : job[j].file # NoFile /\ ContentOf(j) = c /\ Excuse(j)
    BY <1>2
  <2>2. Excuse(j)' /\ job'[j].file = job[j].file
    BY <2>1, ExcuseKept, JobKept
  <2> QED BY <2>1, <2>2 DEF Excused, ContentOf
<1> QED BY <1>1, <1>2 DEF Excused

(* The jobs of the sweep are open until it has looked at them                *)
LEMMA SweepOpenStep ==
  ASSUME IInv, StageInv, TripInv, HashInv, SweepOpen, [Next]_vars
  PROVE  SweepOpen'
<1>1. sweep \in SweepType /\ job \in [Jobs -> JobType]
  BY DEF IInv, Types
<1>2. ASSUME NEW j \in Jobs, job[j].status = "open", sweep.pc # "idle",
             ~RecoverJob(j) \/ sweep'.pc # "jobs", ~Tombstone \/ j # sweep.job
      PROVE  job'[j].status = "open"
  <2>1. \A i \in Ingesters : ~CloseJob(i)
    BY <1>2 DEF TripInv, CloseJob
  <2> QED BY <1>2, <2>1, StatusKept
<1>3. ASSUME NEW j \in Jobs, sweep.pc # "idle", doc[j] # "processing" PROVE doc'[j] # "processing"
  <2>1. \A i \in Ingesters : ~CreateDocument(i) /\ ~Publish(i)
    BY <1>3 DEF TripInv, CreateDocument, Publish
  <2> QED BY <1>3, <2>1, StatusSteps, DocKept
<1> DEFINE Looked == sweep'.pc \in InHand \cup {"jobs"} =>
                       \A j \in sweep'.jobs :
                         job'[j].status = "open" \/ (sweep'.pc = "clearing" /\ j = sweep'.job)
           Hand == sweep'.pc \in InHand => sweep'.job \in sweep'.jobs /\ doc'[sweep'.job] # "processing"
<1> SUFFICES Looked /\ Hand
  BY DEF SweepOpen, InHand
<1>4. CASE UNCHANGED sweep
  <2>1. ASSUME sweep.pc \in InHand \cup {"jobs"}, NEW j \in sweep.jobs,
               ~(sweep.pc = "clearing" /\ j = sweep.job)
        PROVE  job'[j].status = "open"
    <3>1. j \in Jobs /\ job[j].status = "open" /\ sweep.pc # "idle"
      BY <1>1, <2>1 DEF SweepType, SweepOpen, InHand
    <3>2. ~RecoverJob(j) \/ sweep'.pc # "jobs"
      <4> SUFFICES ASSUME RecoverJob(j) PROVE FALSE
        OBVIOUS
      <4>1. (j \in sweep.jobs /\ j \notin sweep'.jobs) \/ sweep'.pc = "moving"
        BY <1>1 DEF RecoverJob, SweepType
      <4> QED BY <1>4, <4>1 DEF RecoverJob
    <3>3. ~Tombstone
      BY <1>1, <1>4 DEF Tombstone, SweepType
    <3> QED BY <1>2, <3>1, <3>2, <3>3
  <2>2. Looked
    BY <1>4, <2>1
  <2>3. Hand
    <3>1. sweep.pc \in InHand => sweep.job \in Jobs /\ sweep.pc # "idle"
      BY <1>1 DEF SweepType, InHand
    <3> QED BY <1>3, <1>4, <3>1 DEF SweepOpen
  <2> QED BY <2>2, <2>3
<1>5. CASE BeginSweep
  <2>1. sweep'.pc = "jobs" /\ sweep'.jobs = StaleJobs /\ UNCHANGED job
    BY <1>5 DEF BeginSweep, NoSweep
  <2> QED BY <2>1 DEF StaleJobs, InHand
<1>6. ASSUME NEW k \in Jobs, RecoverJob(k) PROVE Looked /\ Hand
  <2>1. sweep.pc = "jobs" /\ k \in sweep.jobs /\ job[k].status = "open" /\ UNCHANGED doc
    BY <1>6 DEF RecoverJob, SweepOpen
  <2>2. CASE doc[k] = "processing" /\ job[k].source = "work"
    <3>1. sweep'.pc = "jobs" /\ sweep'.jobs = sweep.jobs \ {k}
          /\ job' = [job EXCEPT ![k].status = "active"]
      BY <1>1, <1>6, <2>2 DEF RecoverJob, SweepType
    <3>2. \A j \in sweep.jobs \ {k} : job'[j] = job[j]
      BY <1>1, <3>1 DEF SweepType
    <3> QED BY <2>1, <3>1, <3>2 DEF SweepOpen, InHand
  <2>3. CASE ~(doc[k] = "processing" /\ job[k].source = "work")
    <3>1. sweep'.pc = "moving" /\ sweep'.jobs = sweep.jobs /\ sweep'.job = k /\ UNCHANGED job
      BY <1>1, <1>6, <2>3 DEF RecoverJob, SweepType
    <3>2. doc[k] # "processing"
      BY <2>3 DEF HashInv
    <3> QED BY <2>1, <3>1, <3>2 DEF SweepOpen, InHand
  <2> QED BY <2>2, <2>3
<1>7. CASE MoveBack \/ RecordQuarantine
  <2>1. /\ sweep.pc \in InHand \ {"clearing"} /\ UNCHANGED <<job, doc>>
        /\ sweep'.pc \in InHand \ {"clearing"} /\ sweep'.jobs = sweep.jobs /\ sweep'.job = sweep.job
    BY <1>1, <1>7 DEF MoveBack, RecordQuarantine, SweepType, InHand
  <2> QED BY <2>1 DEF SweepOpen
<1>8. CASE Tombstone
  <2>1. /\ sweep.pc \in InHand \ {"clearing"} /\ UNCHANGED doc
        /\ sweep'.pc = "clearing" /\ sweep'.jobs = sweep.jobs /\ sweep'.job = sweep.job
        /\ \A j \in sweep.jobs \ {sweep.job} : job'[j] = job[j]
    BY <1>1, <1>8 DEF Tombstone, SweepType, InHand
  <2> QED BY <2>1 DEF SweepOpen
<1>9. CASE ClearWorkdir \/ RecoveryFails
  <2>1. /\ sweep.pc \in InHand /\ UNCHANGED <<job, doc>>
        /\ sweep'.pc = "jobs" /\ sweep'.jobs = sweep.jobs \ {sweep.job}
    BY <1>1, <1>9 DEF ClearWorkdir, RecoveryFails, SweepType, InHand
  <2> QED BY <2>1 DEF SweepOpen, InHand
<1>10. CASE ListProcessing \/ (\E j \in Jobs : CheckDocument(j)) \/ FailInterrupted \/ EndSweep \/ Crash
  <2>1. sweep'.pc \in {"idle", "docs", "failing"}
    <3>1. CASE ListProcessing \/ FailInterrupted
      BY <1>1, <3>1 DEF ListProcessing, FailInterrupted, SweepType
    <3>2. ASSUME NEW j \in Jobs, CheckDocument(j) PROVE sweep'.pc \in {"docs", "failing"}
      BY <1>1, <3>2 DEF CheckDocument, SweepType
    <3>3. CASE EndSweep \/ Crash
      BY <3>3 DEF EndSweep, Crash, NoSweep
    <3> QED BY <1>10, <3>1, <3>2, <3>3
  <2> QED BY <2>1 DEF InHand
<1> HIDE DEF Looked, Hand
<1> QED BY <1>4, <1>5, <1>6, <1>7, <1>8, <1>9, <1>10, PositionWriters DEF Sweep

(* A run on a document that is not processing, other than one that drops a    *)
(* duplicate, works on one whose failure or removal excuses the loss          *)
LEMMA RunExcuses ==
  ASSUME IInv, RunsInv, RunDocs, NEW x \in Extractors, NEW j \in Jobs, runner[x].job = j,
         \/ runner[x].pc \in {"resolving", "reading", "writing", "written"} /\ doc[j] # "processing"
         \/ runner[x].pc = "discarding"
  PROVE  Excused(ContentOf(j))
<1>1. doc[j] \in {"failed", "deleted"} /\ job[j].file \in Files
  BY DEF RunDocs, IInv, JobsInv
<1>2. ~Dropping(j)
  BY DEF Dropping, RunsInv
<1> QED BY <1>1, <1>2, IntakeAssumption DEF Excused, Excuse

(* The file in the working folder of the job that the sweep has at hand       *)
LEMMA SweepFileStep ==
  ASSUME MaxStale > 0, IInv, StageInv, RunsInv, OriginalInv, TripInv, HashInv,
         RunDocs, ReadInv, SweepOpen, SweepFile, [Next]_vars
  PROVE  SweepFile'
<1>1. /\ sweep \in SweepType /\ job \in [Jobs -> JobType] /\ file \in [Files -> Place]
      /\ MaxStale \in Nat
  BY IntakeAssumption DEF IInv, Types
<1>2. IInv'
  BY NextIInv
<1> SUFFICES ASSUME NEW j \in Jobs, j = sweep'.job, sweep'.pc \in InHand,
                    NEW f \in Files, f = job'[j].file
             PROVE  /\ sweep'.pc = "moving" /\ sweep'.strike /\ ~job'[j].hashed => file'[f] = Ingest
                    /\ sweep'.pc \in {"recording", "updating"} /\ file'[f] = In("work", j) =>
                         Excused(Content[f])' \/ (~job'[j].hashed /\ ~sweep'.strike)
                    /\ sweep'.pc = "clearing" /\ file'[f] = In("work", j) => Excused(Content[f])'
  <2>1. sweep'.pc \in InHand =>
          /\ sweep'.job \in Jobs /\ job'[sweep'.job].status # "unused"
          /\ job'[sweep'.job].file \in Files
    BY <1>2 DEF IInv, Types, SweepType, SweepInv, JobsInv, InHand
  <2> QED BY <2>1 DEF SweepFile, ContentOf, In, InHand
<1>3. CASE \E k \in Jobs : RecoverJob(k)
  <2>1. /\ sweep'.pc = "moving"
        /\ sweep'.strike => Strikes(j) >= MaxStale
        /\ UNCHANGED <<job, file>>
    <3>1. PICK k \in Jobs : RecoverJob(k)
      BY <1>3
    <3>2. CASE doc[k] = "processing" /\ job[k].source = "work"
      <4>1. sweep' = [sweep EXCEPT !.jobs = @ \ {k}] /\ sweep.pc = "jobs"
        BY <3>1, <3>2 DEF RecoverJob
      <4>2. sweep'.pc = "jobs"
        BY <1>1, <4>1 DEF SweepType
      <4> QED BY <4>2 DEF InHand
    <3>3. CASE ~(doc[k] = "processing" /\ job[k].source = "work")
      <4>1. sweep' = [sweep EXCEPT !.pc = "moving", !.job = k, !.strike = Strikes(k) >= MaxStale]
            /\ UNCHANGED <<job, file>>
        BY <3>1, <3>3 DEF RecoverJob
      <4>2. sweep'.pc = "moving" /\ sweep'.job = k /\ (sweep'.strike => Strikes(k) >= MaxStale)
        BY <1>1, <4>1 DEF SweepType
      <4> QED BY <4>1, <4>2
    <3> QED BY <3>2, <3>3
  <2>2. ASSUME sweep'.strike, ~job[j].hashed PROVE file[f] = Ingest
    <3>1. Strikes(j) # 0
      <4>1. Strikes(j) >= MaxStale
        BY <2>1, <2>2
      <4> QED BY <1>1, <4>1
    <3>2. SourceIsFile(j)
      BY <2>2, <3>1 DEF Strikes
    <3>3. job[j].source # "work"
      BY <2>2 DEF HashInv
    <3> QED BY <2>1, <3>2, <3>3 DEF SourceIsFile
  <2> QED BY <2>1, <2>2
<1>4. CASE UNCHANGED sweep \/ MoveBack \/ RecordQuarantine \/ Tombstone
  <2>1. /\ sweep.pc \in InHand /\ sweep.job = j /\ sweep'.strike = sweep.strike
    BY <1>1, <1>4 DEF MoveBack, RecordQuarantine, Tombstone, SweepType, InHand
  <2>2. job[j].file = f /\ job[j].status # "unused" /\ doc[j] # "processing"
    <3>1. job[j].status # "unused"
      BY <2>1 DEF IInv, SweepInv, InHand
    <3> QED BY <2>1, <3>1, JobKept DEF SweepOpen
  <2>3. /\ \A i \in Ingesters : /\ ~TakeFile(i) /\ ~Relocate(i) /\ ~Identify(i)
                                 /\ ~Extract(i) /\ ~Publish(i)
        /\ \A i \in Ingesters, g \in Files, k \in Jobs : ~AddJob(i, g, k)
    BY <2>1 DEF TripInv, InHand, TakeFile, Relocate, Identify, Extract, Publish, AddJob
  <2>4. job'[j].hashed = job[j].hashed
    BY <2>3, HashKept
  <2>5. Excused(Content[f]) => Excused(Content[f])'
    BY ExcusedKept
  <2>6. ASSUME file'[f] = In("work", j), file[f] # In("work", j) PROVE Excused(Content[f])'
    <3>1. file'[f] # file[f] /\ "work" \in Folders
      BY <2>6, PlacesApart
    <3>2. file'[f] \notin {Ingest, Held, Purged, Lost}
      BY <2>6, <3>1, PlacesApart
    <3>3. file[f] # Held \/ ~ApiCrash
      <4>1. ASSUME file[f] = Held, ApiCrash PROVE FALSE
        BY <1>1, <2>6, <3>2, <4>1 DEF ApiCrash
      <4> QED BY <4>1
    <3>4. PICK k \in Jobs, x \in Extractors : file'[f] = In("work", k) /\ runner[x].job = k /\ Resolve(x)
      <4>1. \A k \in Jobs, folder \in Folders \ {"work", "active"} : file'[f] # In(folder, k)
        BY <2>6, <3>1, PlacesApart
      <4>2. \A k \in Jobs : file'[f] # In("active", k)
        BY <2>6, PlacesApart
      <4> QED BY <2>3, <3>1, <3>2, <3>3, <4>1, <4>2, FileSteps
    <3>5. k = j
      BY <2>6, <3>1, <3>4, PlacesApart
    <3>6. Excused(ContentOf(j))
      BY <2>2, <3>4, <3>5, RunExcuses DEF Resolve
    <3> QED BY <2>2, <2>5, <3>6 DEF ContentOf
  <2>7. CASE UNCHANGED sweep
    <3>1. ASSUME sweep'.pc = "moving", sweep'.strike, ~job'[j].hashed PROVE file'[f] = Ingest
      <4>1. file[f] = Ingest
        BY <2>1, <2>2, <2>4, <2>7, <3>1 DEF SweepFile
      <4>2. ~MoveBack
        BY <1>1, <2>7, <3>1 DEF MoveBack, SweepType
      <4>3. Ingest \notin {Outside, Held} /\ \A k \in Jobs : Ingest # In("active", k) /\ Ingest # In("work", k)
        BY PlacesApart
      <4>4. /\ \A x \in Extractors : Drop(x) => runner[x].job \in Jobs
            /\ ClearWorkdir => sweep.job \in Jobs
        BY DEF IInv, Types, RunnerType, SweepType, Drop, ClearWorkdir
      <4>5. file'[f] = file[f] \/ file'[f] = Ingest
        BY <2>3, <4>1, <4>2, <4>3, <4>4, FileSteps
      <4> QED BY <4>1, <4>5
    <3>2. ASSUME sweep'.pc \in {"recording", "updating"}, file'[f] = In("work", j)
          PROVE  Excused(Content[f])' \/ (~job'[j].hashed /\ ~sweep'.strike)
      BY <2>1, <2>2, <2>4, <2>5, <2>6, <2>7, <3>2 DEF SweepFile, ContentOf
    <3>3. ASSUME sweep'.pc = "clearing", file'[f] = In("work", j) PROVE Excused(Content[f])'
      BY <2>1, <2>2, <2>5, <2>6, <2>7, <3>3 DEF SweepFile, ContentOf
    <3> QED BY <3>1, <3>2, <3>3
  <2>8. CASE MoveBack
    <3>1. sweep.pc = "moving" /\ sweep'.pc \in {"recording", "updating"}
      BY <1>1, <2>8 DEF MoveBack, SweepType
    <3>2. ASSUME file'[f] = In("work", j), ~Excused(Content[f])' PROVE ~job[j].hashed /\ ~sweep.strike
      <4>1. ~SourceIsFile(j)
        <5>1. SourceIsFile(j) => file'[f] \in {In("quarantine", j), Ingest}
          BY <1>1, <2>1, <2>2, <2>8 DEF MoveBack
        <5> QED BY <3>2, <5>1, PlacesApart
      <4>2. file[f] = In("work", j)
        BY <2>6, <3>2
      <4>3. ~job[j].hashed
        BY <2>2, <4>1, <4>2 DEF SourceIsFile, HashInv
      <4>4. ~sweep.strike
        BY <2>1, <2>2, <3>1, <4>2, <4>3, PlacesApart DEF SweepFile
      <4> QED BY <4>3, <4>4
    <3> QED BY <2>1, <2>4, <3>1, <3>2
  <2>9. CASE RecordQuarantine
    <3>1. sweep.pc = "recording" /\ sweep'.pc = "updating" /\ UNCHANGED file
      BY <1>1, <2>9 DEF RecordQuarantine, SweepType
    <3> QED BY <2>1, <2>2, <2>4, <2>5, <3>1 DEF SweepFile, ContentOf
  <2>10. CASE Tombstone
    <3>1. sweep.pc = "updating" /\ sweep'.pc = "clearing" /\ UNCHANGED file
      BY <1>1, <2>10 DEF Tombstone, SweepType
    <3>2. ASSUME file[f] = In("work", j) PROVE Excused(Content[f])'
      <4>1. CASE Excused(Content[f])
        BY <2>5, <4>1
      <4>2. CASE ~job[j].hashed /\ ~sweep.strike
        <5>1. job'[j].status = "recovered" /\ ~job'[j].hashed
          BY <1>1, <2>1, <2>4, <2>10, <4>2 DEF Tombstone, JobType
        <5>2. Excuse(j)'
          BY <5>1 DEF Excuse
        <5> QED BY <5>2, IntakeAssumption DEF Excused, ContentOf
      <4> QED BY <2>1, <2>2, <3>1, <3>2, <4>1, <4>2 DEF SweepFile, ContentOf
    <3> QED BY <3>1, <3>2
  <2> QED BY <1>4, <2>7, <2>8, <2>9, <2>10
<1>5. ASSUME ~(UNCHANGED sweep \/ MoveBack \/ RecordQuarantine \/ Tombstone), ~\E k \in Jobs : RecoverJob(k)
      PROVE  FALSE
  <2>1. BeginSweep \/ (\E k \in Jobs : CheckDocument(k)) \/ ClearWorkdir \/ ListProcessing
        \/ FailInterrupted \/ EndSweep \/ RecoveryFails \/ Crash
    BY <1>5, PositionWriters DEF Sweep
  <2>2. ASSUME NEW k \in Jobs, CheckDocument(k) PROVE sweep'.pc \in {"docs", "failing"}
    BY <1>1, <2>2 DEF CheckDocument, SweepType
  <2>3. /\ BeginSweep => sweep'.pc = "jobs"
        /\ EndSweep \/ Crash => sweep'.pc = "idle"
    <3>1. NoSweep.pc = "idle" /\ \A S : [NoSweep EXCEPT !.pc = "jobs", !.jobs = S].pc = "jobs"
      BY DEF NoSweep
    <3> QED BY <3>1 DEF BeginSweep, EndSweep, Crash
  <2>4. ClearWorkdir \/ ListProcessing \/ FailInterrupted \/ RecoveryFails => sweep'.pc \in {"jobs", "docs"}
    BY <1>1 DEF ClearWorkdir, ListProcessing, FailInterrupted, RecoveryFails, SweepType
  <2> QED BY <2>1, <2>2, <2>3, <2>4 DEF InHand
<1> QED BY <1>3, <1>4, <1>5

(* A secure file stays so, or another copy is, or the loss is excused; a new  *)
(* one is secure                                                            *)
LEMMA SecureKept ==
  ASSUME IInv, StageInv, RunsInv, OriginalInv, TripInv, PlaceInv, HashInv, RunDocs, ReadInv, SweepOpen,
         [Next]_vars, RunsInv', SweepFile', PlaceInv', NEW g \in Files, ~Excused(Content[g])',
         Secure(g) \/ (file[g] = Outside /\ file'[g] # Outside)
  PROVE  \E h \in Files : Content[h] = Content[g] /\ Secure(h)'
<1>1. /\ sweep \in SweepType /\ job \in [Jobs -> JobType] /\ file \in [Files -> Place]
      /\ runner \in [Extractors -> RunnerType] /\ request \in RequestType
  BY DEF IInv, Types
<1>2. \A x \in Extractors : runner'[x].pc = "dropping" => runner'[x].job \in Jobs
  <2>1. runner' \in [Extractors -> RunnerType]
    BY NextIInv DEF IInv, Types
  <2> QED BY <2>1 DEF RunnerType
<1>3. sweep'.pc = "clearing" => sweep'.job \in Jobs
  <2>1. sweep' \in SweepType
    BY NextIInv DEF IInv, Types
  <2> QED BY <2>1 DEF SweepType
<1>4. ASSUME NEW h \in Files, file'[h] \in {Ingest, Held} PROVE Secure(h)'
  <2>1. file'[h] \notin {Outside, Lost, Purged}
    BY <1>4, PlacesApart
  <2>2. /\ \A x \in Extractors : runner'[x].pc = "dropping" => file'[h] # In("active", runner'[x].job)
        /\ sweep'.pc = "clearing" => file'[h] # In("work", sweep'.job)
    BY <1>2, <1>3, <1>4, PlacesApart
  <2> QED BY <2>1, <2>2 DEF Secure, In
<1>5. ~Excused(Content[g])
  BY ExcusedKept
<1>6. ASSUME sweep'.pc = "clearing", file'[g] = In("work", sweep'.job) PROVE FALSE
  <2>1. job'[sweep'.job].file = g
    BY <1>3, <1>6, PlacesApart DEF PlaceInv, In
  <2> QED BY <1>6, <2>1 DEF SweepFile, ContentOf, In
<1>7. CASE file'[g] = file[g]
  <2>1. CASE \E x \in Extractors : runner'[x].pc = "dropping" /\ file'[g] = In("active", runner'[x].job)
    <3>1. PICK x \in Extractors : runner'[x].pc = "dropping" /\ file'[g] = In("active", runner'[x].job)
      BY <2>1
    <3>2. runner'[x] # runner[x]
      BY <1>7, <3>1 DEF Secure
    <3>3. PICK j \in Jobs : /\ j = runner[x].job /\ Activate(x) /\ UNCHANGED <<file, job, doc>>
                            /\ doc[j] = "processing" /\ Served(j) # {} /\ job[j].file = g
      <4>1. /\ runner'[x].job = runner[x].job /\ Activate(x) /\ UNCHANGED doc
            /\ doc[runner[x].job] = "processing" /\ Served(runner[x].job) # {}
        BY <3>1, <3>2, RunnerPlaces
      <4>2. UNCHANGED <<file, job>>
        BY <4>1 DEF Activate
      <4>3. job[runner[x].job].file = g
        BY <1>2, <3>1, <4>1, <4>2, PlacesApart DEF PlaceInv
      <4> QED BY <1>2, <3>1, <4>1, <4>2, <4>3
    <3>4. PICK k \in Jobs : /\ job[k].file # NoFile /\ ContentOf(k) = ContentOf(j) /\ doc[k] = "active"
      BY <3>3 DEF Served, SameContent
    <3>5. PICK h \in Files : h = job[k].file /\ file[h] = In("active", k)
      BY <3>4 DEF IInv, JobsInv, OriginalInv, ActiveHasOriginal
    <3>6. Secure(h)'
      <4>1. file'[h] = In("active", k)
        BY <3>3, <3>5
      <4>2. ASSUME NEW y \in Extractors, runner'[y].pc = "dropping", file'[h] = In("active", runner'[y].job)
            PROVE  FALSE
        <5>1. runner'[y].job = k
          BY <1>2, <4>1, <4>2, PlacesApart
        <5> QED BY <3>3, <3>4, <4>2, <5>1 DEF RunsInv, Working
      <4>3. /\ file'[h] \notin {Outside, Lost, Purged}
            /\ sweep'.pc = "clearing" => file'[h] # In("work", sweep'.job)
        BY <1>3, <4>1, PlacesApart
      <4> QED BY <4>2, <4>3 DEF Secure, In
    <3> QED BY <3>3, <3>4, <3>5, <3>6 DEF ContentOf
  <2>2. CASE ~\E x \in Extractors : runner'[x].pc = "dropping" /\ file'[g] = In("active", runner'[x].job)
    BY <1>6, <1>7, <2>2 DEF Secure, In
  <2> QED BY <2>1, <2>2
<1>8. CASE file'[g] # file[g]
  <2>1. CASE file'[g] = Ingest \/ file'[g] = Held
    BY <1>4, <2>1
  <2>2. CASE ApiCrash
    BY <2>2 DEF ApiCrash, Excused
  <2>3. ASSUME NEW j \in Jobs, g = job[j].file, job[j].status # "unused",
               \/ \E folder \in Folders \ {"work", "active"} : file'[g] = In(folder, j)
               \/ file'[g] = In("work", j)
        PROVE  Secure(g)'
    <3>1. PICK folder \in Folders \ {"active"} : file'[g] = In(folder, j)
      BY <2>3, PlacesApart
    <3>2. file'[g] \notin {Outside, Lost, Purged}
      BY <3>1, PlacesApart
    <3>3. \A x \in Extractors : runner'[x].pc = "dropping" => file'[g] # In("active", runner'[x].job)
      BY <1>2, <3>1, PlacesApart
    <3> QED BY <1>6, <3>2, <3>3 DEF Secure, In
  <2>4. ASSUME NEW j \in Jobs, file'[g] = In("active", j), NEW x \in Extractors, runner[x].job = j, Write(x)
        PROVE  Secure(g)'
    <3>1. file'[g] \notin {Outside, Lost, Purged}
      BY <2>4, PlacesApart
    <3>2. ASSUME NEW y \in Extractors, runner'[y].pc = "dropping", file'[g] = In("active", runner'[y].job)
          PROVE  FALSE
      <4>1. runner'[y].job = j
        BY <1>2, <2>4, <3>2, PlacesApart
      <4>2. runner'[x].job = j /\ runner'[x].pc \in {"written", "raised"}
        <5>1. runner[x] = [pc |-> runner[x].pc, job |-> runner[x].job]
          BY <1>1 DEF RunnerType
        <5> QED BY <1>1, <2>4, <5>1 DEF Write, Step
      <4>3. x = y
        BY <3>2, <4>1, <4>2 DEF RunsInv
      <4> QED BY <3>2, <4>2, <4>3
    <3> QED BY <1>6, <3>1, <3>2 DEF Secure, In
  <2>5. ASSUME NEW j \in Jobs, g = job[j].file, job[j].status # "unused",
               doc'[j] = "deleted" \/ "deleted" \in terminal'[j]
        PROVE  FALSE
    <3>1. job'[j].file = g /\ Excuse(j)'
      BY <2>5, JobKept DEF Excuse
    <3> QED BY <3>1, IntakeAssumption DEF Excused, ContentOf
  <2>6. ASSUME PurgeOriginal, g = job[request.job].file PROVE \E h \in Files : Content[h] = Content[g] /\ Secure(h)'
    <3>1. PICK h \in Files : h = request.copy /\ file[h] = Held /\ Content[h] = Content[g]
      BY <1>1, <2>6 DEF PurgeOriginal, RequestType, OriginalInv, ReadInv, ContentOf
    <3>2. ~WriteBack /\ ~ApiCrash
      <4>1. ~WriteBack
        BY <2>6 DEF PurgeOriginal, WriteBack
      <4>2. ApiCrash => request'.pc = "idle"
        BY DEF ApiCrash, NoRequest
      <4>3. request'.pc = "purged"
        BY <1>1, <2>6 DEF PurgeOriginal, RequestType
      <4> QED BY <4>1, <4>2, <4>3
    <3>3. file'[h] = Held
      BY <3>1, <3>2, HeldStays
    <3> QED BY <1>4, <3>1, <3>3
  <2>7. ASSUME NEW x \in Extractors, Drop(x), file[g] = In("active", runner[x].job) PROVE FALSE
    <3>1. runner[x].job \in Jobs /\ runner[x].pc = "discarding"
      <4>1. runner[x].job \in Jobs /\ runner[x].pc \in {"dropping", "discarding"}
        BY <1>1, <2>7 DEF Drop, RunnerType
      <4> QED BY <2>7, <4>1, PlacesApart DEF Secure
    <3>2. g = job[runner[x].job].file
      BY <2>7, <3>1, PlacesApart DEF PlaceInv
    <3>3. Excused(ContentOf(runner[x].job))
      BY <3>1, RunExcuses
    <3> QED BY <1>5, <3>2, <3>3 DEF ContentOf
  <2>8. ~(ClearWorkdir /\ file[g] = In("work", sweep.job))
    <3>1. ClearWorkdir => sweep.pc = "clearing" /\ sweep.job \in Jobs
      BY <1>1 DEF ClearWorkdir, SweepType
    <3> QED BY <3>1, PlacesApart DEF Secure
  <2>9. ASSUME NEW i \in Ingesters, Extract(i) \/ Publish(i)
        PROVE  \A x \in Extractors : runner'[x].pc = "idle"
    <3>1. ~staged /\ UNCHANGED runner
      BY <2>9 DEF Extract, Publish, StageInv, Detour
    <3> QED BY <3>1 DEF StageInv
  <2>10. ASSUME NEW j \in Jobs, file'[g] = In("active", j), NEW i \in Ingesters, Extract(i)
         PROVE  Secure(g)'
    <3>1. file'[g] \notin {Outside, Lost, Purged}
      BY <2>10, PlacesApart
    <3> QED BY <1>6, <2>9, <2>10, <3>1 DEF Secure, In
  <2>11. ASSUME NEW i \in Ingesters, Publish(i), file'[g] = Lost, file[g] = In("active", intake[i].job)
         PROVE  \E h \in Files : Content[h] = Content[g] /\ Secure(h)'
    <3>1. PICK j \in Jobs : j = intake[i].job /\ doc[j] = "absent"
      BY <2>11, IntakeOf DEF Publish, IInv, Types, IntakeInv, Early
    <3>2. Rmtree("active", j) /\ Served(j) # {}
      BY <1>8, <2>11, <3>1 DEF Publish
    <3>3. g = job[j].file
      BY <2>11, <3>1, PlacesApart DEF PlaceInv
    <3>4. PICK k \in Jobs : job[k].file # NoFile /\ ContentOf(k) = ContentOf(j) /\ doc[k] = "active"
      BY <3>2 DEF Served, SameContent
    <3>5. PICK h \in Files : h = job[k].file /\ file[h] = In("active", k)
      BY <3>4 DEF IInv, JobsInv, OriginalInv, ActiveHasOriginal
    <3>6. file'[h] = In("active", k)
      <4>1. In("active", k) # In("active", j)
        BY <3>1, <3>4, PlacesApart
      <4> QED BY <1>1, <3>2, <3>5, <4>1 DEF Rmtree
    <3>7. /\ file'[h] \notin {Outside, Lost, Purged}
          /\ sweep'.pc = "clearing" => file'[h] # In("work", sweep'.job)
      BY <1>3, <3>6, PlacesApart
    <3>8. Secure(h)'
      BY <2>9, <2>11, <3>7 DEF Secure, In
    <3> QED BY <3>3, <3>4, <3>5, <3>8 DEF ContentOf
  <2> QED BY <1>8, <2>1, <2>2, <2>3, <2>4, <2>5, <2>6, <2>7, <2>8, <2>10, <2>11, FileSteps
<1> QED BY <1>7, <1>8

LEMMA SecureStep ==
  ASSUME IInv, StageInv, RunsInv, OriginalInv, TripInv, PlaceInv, HashInv, RunDocs, ReadInv, SweepOpen,
         SecureInv, [Next]_vars, RunsInv', SweepFile', PlaceInv'
  PROVE  SecureInv'
<1> SUFFICES ASSUME NEW f \in Files, file'[f] # Outside, ~Excused(Content[f])'
             PROVE  \E h \in Files : Content[h] = Content[f] /\ Secure(h)'
  BY DEF SecureInv, Outside, In
<1>1. CASE file[f] = Outside
  BY <1>1, SecureKept
<1>2. CASE file[f] # Outside
  <2>1. ~Excused(Content[f])
    BY ExcusedKept
  <2>2. PICK g \in Files : Content[g] = Content[f] /\ Secure(g)
    BY <1>2, <2>1 DEF SecureInv
  <2>3. ~Excused(Content[g])'
    BY <2>2
  <2> QED BY <2>2, <2>3, SecureKept
<1> QED BY <1>1, <1>2

(* No upload vanishes: a copy of every content that was accepted lies in some *)
(* folder or is held by a reingest, unless a user deleted a document of it,   *)
(* one failed, a job was given up before its hash was stored, or the API died *)
(* with the bytes; through any number of crashes, errors, duplicates, retries *)
(* and reingests (reingest_document, ExtractStage, _requeue_stale_job).       *)
THEOREM NothingIsLost == ASSUME InTime, MaxStale > 0 PROVE Spec => []NothingVanishes
<1>1. IInv /\ StagedInv /\ TripInv /\ VanishInv /\ [Next]_vars => VanishInv'
  <2> SUFFICES ASSUME IInv, StagedInv, TripInv, VanishInv, [Next]_vars PROVE VanishInv'
    OBVIOUS
  <2>1. PlaceInv' /\ HashInv' /\ RunDocs' /\ ReadInv' /\ SweepOpen' /\ SweepFile'
    BY PlaceStep, HashStep, RunDocsStep, ReadStep, SweepOpenStep, SweepFileStep DEF VanishInv, StagedInv
  <2>2. RunsInv'
    BY RunsStep DEF StagedInv
  <2>3. SecureInv'
    BY <2>1, <2>2, SecureStep DEF VanishInv, StagedInv
  <2> QED BY <2>1, <2>3 DEF VanishInv
<1>2. VanishInv => NothingVanishes
  <2> SUFFICES ASSUME SecureInv, NEW f \in Files, file[f] # Outside,
                      ~\E g \in Files : Content[g] = Content[f] /\ file[g] \notin {Outside, Lost, Purged}
               PROVE  \/ request.died
                      \/ \E j \in Jobs :
                           /\ job[j].file # NoFile /\ ContentOf(j) = Content[f]
                           /\ \/ doc[j] \in {"deleted", "failed"} \/ "deleted" \in terminal[j]
                              \/ job[j].status = "recovered" /\ ~job[j].hashed
    BY DEF VanishInv, NothingVanishes
  <2>1. Excused(Content[f])
    BY DEF SecureInv, Secure
  <2> QED BY <2>1 DEF Excused, Excuse
<1>3. Spec => []TripInv
  BY InvariantHolds, InitTrip, NextTrip, PTL DEF Spec
<1>4. IInv /\ TripInv /\ StagedInv /\ [Next]_vars => StagedInv'
  BY StageStep, RunsStep, OriginalStep, InlineStep DEF StagedInv
<1>5. Spec => []StagedInv
  BY <1>3, <1>4, InitStaged, InvariantHolds, PTL DEF Spec
<1> QED BY <1>1, <1>2, <1>3, <1>5, InitVanish, InvariantHolds, PTL DEF Spec
-----------------------------------------------------------------------------
(* There is always a way on                                                 *)

(* A run that returns without an error, and a row that is done, leave no      *)
(* document in processing; an inline upload has published its document       *)
ReturnInv ==
  /\ \A j \in Jobs : extract[j].status = "done" => doc[j] # "processing"
  /\ \A x \in Extractors :
       runner[x].pc \in {"returned", "discarding"} => doc[runner[x].job] # "processing"
  /\ \A i \in Ingesters :
       intake[i].pc \in {"indexing", "recording_done"} => doc[intake[i].job] # "processing"

(* A document in processing is one that the ledger offers to a run, that a    *)
(* run has claimed, or that the sweep will find interrupted                  *)
WayOn == \A j \in Jobs : doc[j] = "processing" =>
           Claimable(j) \/ extract[j].status = "running" \/ Interrupted(j)

LEMMA ProcessedStays ==
  ASSUME IInv, [Next]_vars, NEW j \in Jobs, doc[j] \notin {"absent", "processing"}
  PROVE  doc'[j] \notin {"absent", "processing"}
<1>1. doc \in [Jobs -> DocStatus]
  BY DEF IInv, Types
<1>2. CASE UNCHANGED doc
  BY <1>2
<1>3. CASE \E k \in Jobs : Delete(k)
  BY <1>1, <1>3 DEF Delete
<1>4. CASE \E i \in Ingesters : CreateDocument(i) \/ Publish(i)
  <2>1. PICK i \in Ingesters : CreateDocument(i) \/ Publish(i)
    BY <1>4
  <2>2. doc[intake[i].job] = "absent"
    BY <2>1 DEF CreateDocument, Publish, IInv, IntakeInv, Early
  <2> QED BY <1>1, <2>1, <2>2 DEF CreateDocument, Publish
<1>5. CASE \E i \in Ingesters : Index(i)
  BY <1>1, <1>5 DEF Index, DocRemoved
<1>6. CASE \E x \in Extractors : Resolve(x) \/ Read(x) \/ Activate(x)
  BY <1>1, <1>6 DEF Resolve, Read, Activate, FailDocument
<1>7. CASE \E x \in Extractors : DropRow(x)
  BY <1>1, <1>7 DEF DropRow, DocRemoved
<1>8. CASE PurgeOriginal
  BY <1>1, <1>8 DEF PurgeOriginal, DocRemoved
<1>9. CASE FailInterrupted
  BY <1>1, <1>9 DEF FailInterrupted, FailDocument
<1> QED BY <1>2, <1>3, <1>4, <1>5, <1>6, <1>7, <1>8, <1>9, DocWriters

(* What takes a run to its end                                              *)
LEMMA ReturnSteps ==
  ASSUME IInv, ReturnInv, [Next]_vars, NEW x \in Extractors,
         runner'[x].pc \in {"returned", "discarding"}
  PROVE  doc'[runner'[x].job] \notin {"absent", "processing"}
<1>1. /\ runner \in [Extractors -> RunnerType] /\ doc \in [Jobs -> DocStatus]
      /\ runner[x].pc # "idle" => runner[x].job \in Jobs /\ doc[runner[x].job] # "absent"
  BY RunnerMoves DEF IInv, Types, MadeInv
<1>2. CASE runner'[x] = runner[x]
  BY <1>1, <1>2, ProcessedStays DEF ReturnInv
<1>3. CASE runner'[x] # runner[x]
  <2>1. Run(x) \/ Fault(x)
    <3>1. ~Crash /\ ~UNCHANGED runner
      BY <1>3 DEF Crash, Free
    <3>2. ASSUME NEW y \in Extractors, Run(y) \/ Fault(y) PROVE y = x
      BY <1>1, <1>3, <3>2 DEF Run, Fault, Claim, Load, Resolve, Read, Write, Activate, Drop,
                              DropRow, Mark, Step
    <3> QED BY <3>1, <3>2, PositionWriters
  <2>2. ASSUME NEW pc, Step(x, pc) PROVE runner'[x].pc = pc /\ runner'[x].job = runner[x].job
    <3>1. runner[x] = [pc |-> runner[x].pc, job |-> runner[x].job]
      BY <1>1 DEF RunnerType
    <3> QED BY <1>1, <2>2, <3>1 DEF Step
  <2>3. CASE (\E j \in Jobs : Claim(x, j)) \/ Mark(x)
    BY <1>1, <2>3 DEF Claim, Mark, Free
  <2>4. CASE Load(x)
    BY <1>1, <2>2, <2>4 DEF Load
  <2>5. CASE Resolve(x) \/ Read(x)
    <3>1. Step(x, "returned") /\ FailDocument(runner[x].job) /\ runner[x].pc # "idle"
      BY <2>2, <2>5 DEF Resolve, Read
    <3> QED BY <1>1, <2>2, <3>1 DEF FailDocument
  <2>6. CASE Write(x) \/ Fault(x)
    BY <2>2, <2>6 DEF Write, Fault
  <2>7. CASE Activate(x)
    <3>1. CASE doc[runner[x].job] = "processing"
      <4>1. /\ doc' = [doc EXCEPT ![runner[x].job] = "active"] /\ runner[x].pc # "idle"
            /\ Step(x, "returned")
        BY <2>2, <2>7, <3>1 DEF Activate
      <4> QED BY <1>1, <2>2, <4>1
    <3>2. CASE doc[runner[x].job] # "processing"
      BY <1>1, <2>2, <2>7, <3>2 DEF Activate
    <3> QED BY <3>1, <3>2
  <2>8. CASE Drop(x)
    BY <1>1, <2>2, <2>8 DEF Drop, ReturnInv
  <2>9. CASE DropRow(x)
    BY <1>1, <2>2, <2>9 DEF DropRow, DocRemoved
  <2> QED BY <2>1, <2>3, <2>4, <2>5, <2>6, <2>7, <2>8, <2>9 DEF Run
<1> QED BY <1>2, <1>3

LEMMA ReturnStep == ASSUME IInv, ReturnInv, [Next]_vars PROVE ReturnInv'
<1>1. /\ extract \in [Jobs -> ExtractType] /\ intake \in [Ingesters -> IntakeType]
      /\ doc \in [Jobs -> DocStatus] /\ runner \in [Extractors -> RunnerType]
  BY DEF IInv, Types
<1>2. ASSUME NEW j \in Jobs, extract'[j].status = "done" PROVE doc'[j] # "processing"
  <2>1. CASE extract[j].status = "done"
    BY <2>1, ProcessedStays DEF ReturnInv, IInv, MadeInv
  <2>2. CASE extract[j].status # "done"
    <3>1. CASE UNCHANGED extract
      BY <1>2, <2>2, <3>1
    <3>2. CASE \E k \in Jobs : Delete(k) \/ RetryExtract(k) \/ LeaseExpires(k)
      BY <1>1, <1>2, <2>2, <3>2 DEF Delete, RetryExtract, LeaseExpires, NoRow, ExtractType
    <3>3. CASE \E i \in Ingesters : SeedLedger(i) \/ RecordDone(i)
      BY <1>1, <1>2, <2>2, <3>3 DEF SeedLedger, RecordDone, ReturnInv
    <3>4. CASE \E x \in Extractors : DropRow(x) \/ \E k \in Jobs : Claim(x, k)
      BY <1>1, <1>2, <2>2, <3>4 DEF DropRow, Claim, NoRow, ExtractType
    <3>5. CASE \E x \in Extractors : Mark(x)
      <4>1. PICK x \in Extractors : Mark(x)
        BY <3>5
      <4>2. runner[x].job = j /\ runner[x].pc = "returned"
        BY <1>1, <1>2, <2>2, <4>1 DEF Mark, ExtractType
      <4> QED BY <4>1, <4>2 DEF Mark, ReturnInv
    <3>6. CASE PurgeOriginal \/ Restart
      BY <1>1, <1>2, <2>2, <3>6 DEF PurgeOriginal, Restart, NoRow, ExtractType
    <3> QED BY <3>1, <3>2, <3>3, <3>4, <3>5, <3>6, LedgerWriters
  <2> QED BY <2>1, <2>2
<1>3. ASSUME NEW i \in Ingesters, intake'[i].pc \in {"indexing", "recording_done"}
      PROVE  doc'[intake'[i].job] # "processing"
  <2>1. /\ intake[i].pc # "idle" /\ intake[i].job \in Jobs /\ intake'[i].job = intake[i].job
        /\ intake'[i] = intake[i] \/ Process(i)
    BY <1>3, ThreadStep
  <2>2. CASE intake[i].pc \in {"indexing", "recording_done"}
    BY <2>1, <2>2, ProcessedStays DEF ReturnInv, IInv, IntakeInv, Made
  <2>3. CASE intake[i].pc \notin {"indexing", "recording_done"}
    <3>1. Process(i)
      BY <1>3, <2>1, <2>3
    <3>2. ASSUME NEW pc, NEW o, (Goto(i, pc) /\ o = intake[i].outcome) \/ End(i, pc, o)
          PROVE  intake'[i].pc = pc
      BY <1>1, <3>2, GotoOf
    <3>3. ~(TakeFile(i) \/ Identify(i) \/ Decide(i))
      BY <1>3, <3>2 DEF TakeFile, Identify, Decide
    <3>4. ~(CreateDocument(i) \/ SeedLedger(i) \/ Relocate(i) \/ RecordTerminal(i))
      BY <1>3, <3>2 DEF CreateDocument, SeedLedger, Relocate, RecordTerminal
    <3>5. ~(Index(i) \/ RecordDone(i))
      BY <2>3 DEF Index, RecordDone
    <3>6. ~(CloseJob(i) \/ Raise(i) \/ Extract(i))
      <4>1. ~CloseJob(i) /\ ~Raise(i)
        BY <1>1, <1>3 DEF CloseJob, Raise, Cleanup, Resting
      <4>2. ~Extract(i)
        <5>1. ~Goto(i, "written")
          BY <1>3, <3>2
        <5>2. \A v : intake' = [intake EXCEPT ![i] = v] => intake'[i] = v
          BY <1>1
        <5> QED BY <1>3, <5>1, <5>2 DEF Extract
      <4> QED BY <4>1, <4>2
    <3>7. Publish(i)
      BY <3>1, <3>3, <3>4, <3>5, <3>6 DEF Process
    <3>8. doc' = [doc EXCEPT ![intake[i].job] = "active"]
      BY <1>3, <3>2, <3>7 DEF Publish
    <3> QED BY <1>1, <2>1, <3>8
  <2> QED BY <2>2, <2>3
<1> QED BY <1>2, <1>3, ReturnSteps DEF ReturnInv

(* No document is left to nobody: while one is in processing, the ledger      *)
(* offers its extract row, a run has claimed it, or the sweep will take it    *)
(* for interrupted. No run that returned, and no row that was done, re-queued *)
(* twice or given up, leaves one behind (ExtractStage.process, mark_done,     *)
(* fail_interrupted_processing).                                            *)
THEOREM NoneIsStranded == Spec => []WayOn
<1>1. Init => ReturnInv
  BY DEF Init, ReturnInv, NoRow, Free, Resting
<1>2. IInv /\ ReturnInv /\ [Next]_vars => ReturnInv'
  BY ReturnStep
<1>3. IInv /\ ReturnInv => WayOn
  <2> SUFFICES ASSUME IInv, ReturnInv, NEW j \in Jobs, doc[j] = "processing"
               PROVE  Claimable(j) \/ extract[j].status = "running" \/ Interrupted(j)
    BY DEF WayOn
  <2>1. /\ extract[j].status \in {"none", "pending", "running", "failed"}
        /\ extract[j].attempts \in Nat /\ MaxAttempts \in Nat
    BY IntakeAssumption DEF IInv, Types, ExtractType, ReturnInv
  <2> QED BY <2>1 DEF Claimable, Interrupted, ExtractDead
<1> QED BY <1>1, <1>2, <1>3, InvariantHolds, PTL DEF Spec
=============================================================================
