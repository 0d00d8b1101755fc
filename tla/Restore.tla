------------------------------- MODULE Restore ------------------------------
(***************************************************************************)
(* Portable restore: the staged validation of an uploaded archive, the      *)
(* request file that asks for the destructive import, the root helper that  *)
(* performs it, and the maintenance flag that parks the requests that       *)
(* change state.                                                            *)
(*                                                                         *)
(* The backend may die and restart at any step, which leaves its files.     *)
(* The helper is deploy/restore-import.sh as its unit starts it.  Time is   *)
(* the step in which a file grows older than its time to live.              *)
(***************************************************************************)
EXTENDS Naturals

CONSTANTS
  Staged,     \* staged restore ids
  Bare,       \* those whose archive carries no files/ tree
  Previews,   \* requests that preview a restore
  Compose,    \* TRUE: DOKTOK_DEPLOY_MODE=compose
  LateApply,  \* TRUE: a tree may be applied past its time to live
  MaxCrashes, \* bound: deaths of the backend
  NoStaged

ASSUME RestoreAssumption ==
  /\ {NoStaged, "before", "half", "away"} \cap Staged = {} /\ Bare \subseteq Staged
  /\ Compose \in BOOLEAN /\ LateApply \in BOOLEAN /\ MaxCrashes \in Nat

VARIABLES
  slot,     \* _restore_preview.lock
  staged,   \* per staged id: its directory
  preview,  \* position of preview_backup_restore, and its staged id
  restore,  \* restore.json, its state
  request,  \* restore.request
  applier,  \* position of apply_backup_restore, and its staged id
  helper,   \* position of restore-import.sh, and its staged id
  flag,     \* maintenance.flag exists
  worker,   \* the worker runs
  db,       \* the database: as before, half restored, or of an archive
  safety,   \* the database in the pre-restore safety snapshot
  files,    \* the files root: as before, moved away, or of an archive
  crashes

stageVars == <<slot, staged, preview>>
applyVars == <<restore, request, applier>>
hostVars == <<helper, flag, worker, db, safety, files>>
vars == <<stageVars, applyVars, hostVars, crashes>>

-----------------------------------------------------------------------------
TreeType == [tree: {"none", "upload", "valid"}, stale: BOOLEAN]
NoTree == [tree |-> "none", stale |-> FALSE]

(* A position, and the staged id it holds, if it holds one                   *)
At(place, x) == [at |-> place, of |-> x]
PreviewType == [at: {"idle", "received", "stage", "release"}, of: {NoStaged}]
                 \cup [at: {"validate"}, of: Staged]
ApplierType == {At("idle", NoStaged)} \cup [at: {"write"}, of: Staged]
HelperPlaces == {"start", "quiesce", "import", "files", "swap", "finish", "lift"}
HelperType == {At("idle", NoStaged)} \cup [at: HelperPlaces, of: Staged]
Database == {"before", "half"} \cup Staged

Init ==
  /\ slot = "free"
  /\ staged = [x \in Staged |-> NoTree]
  /\ preview = [p \in Previews |-> At("idle", NoStaged)]
  /\ restore = "idle" /\ request = NoStaged
  /\ applier = At("idle", NoStaged)
  /\ helper = At("idle", NoStaged)
  /\ flag = FALSE /\ worker = TRUE
  /\ db = "before" /\ safety = "before" /\ files = "before"
  /\ crashes = 0

-----------------------------------------------------------------------------
(* Preview                                                                  *)

(* The middleware looks at the flag before the upload is received            *)
Receive(p) ==
  /\ preview[p].at = "idle" /\ ~flag
  /\ preview' = [preview EXCEPT ![p].at = "received"]
  /\ UNCHANGED <<slot, staged, applyVars, hostVars, crashes>>

(* Mutant: a held slot is taken like a stale one.                            *)
ClaimPreview_TakesHeld(p) ==
  /\ preview[p].at = "received"
  /\ preview' = [preview EXCEPT ![p].at = "stage"] /\ slot' = "held"
  /\ UNCHANGED <<staged, applyVars, hostVars, crashes>>

(* claim_preview: a held slot refuses the request, a stale one is taken over *)
ClaimPreview(p) ==
  /\ preview[p].at = "received"
  /\ IF slot = "held"
     THEN preview' = [preview EXCEPT ![p].at = "idle"] /\ UNCHANGED slot
     ELSE preview' = [preview EXCEPT ![p].at = "stage"] /\ slot' = "held"
  /\ UNCHANGED <<staged, applyVars, hostVars, crashes>>

(* sweep_stale_restores                                                      *)
Swept(y) == IF staged[y].stale THEN NoTree ELSE staged[y]

(* A new id is one that nothing else names                                   *)
Fresh(x) ==
  /\ staged[x] = NoTree
  /\ x \notin {request, applier.of, helper.of, db, safety, files}

(* The sweep, then the upload is stored and restore.json says validating     *)
Stage(p) ==
  /\ preview[p].at = "stage"
  /\ \E x \in {y \in Staged : Fresh(y)} :
       /\ staged' = [y \in Staged |->
            IF y = x THEN [tree |-> "upload", stale |-> FALSE] ELSE Swept(y)]
       /\ preview' = [preview EXCEPT ![p] = At("validate", x)]
  /\ restore' = "validating"
  /\ UNCHANGED <<slot, request, applier, hostVars, crashes>>

(* The sweep, then an upload that is too large or cannot be stored           *)
FailStage(p) ==
  /\ preview[p].at = "stage"
  /\ staged' = [y \in Staged |-> Swept(y)]
  /\ preview' = [preview EXCEPT ![p] = At("release", NoStaged)]
  /\ UNCHANGED <<slot, applyVars, hostVars, crashes>>

(* validate_staged_upload marks the tree or removes it; restore.json says    *)
(* idle                                                                      *)
Validate(p) ==
  /\ preview[p].at = "validate"
  /\ \E t \in {[tree |-> "valid", stale |-> FALSE], NoTree} :
       staged' = [staged EXCEPT ![preview[p].of] = IF @ = NoTree THEN @ ELSE t]
  /\ restore' = "idle"
  /\ preview' = [preview EXCEPT ![p] = At("release", NoStaged)]
  /\ UNCHANGED <<slot, request, applier, hostVars, crashes>>

(* release_preview removes whatever lock is there                            *)
ReleasePreview(p) ==
  /\ preview[p].at = "release"
  /\ preview' = [preview EXCEPT ![p] = At("idle", NoStaged)]
  /\ slot' = "free"
  /\ UNCHANGED <<staged, applyVars, hostVars, crashes>>

StepPreview(p) ==
  ClaimPreview(p) \/ Stage(p) \/ FailStage(p) \/ Validate(p) \/ ReleasePreview(p)

-----------------------------------------------------------------------------
(* Apply                                                                    *)

(* apply_backup_restore: a validated tree, no request pending, none applying *)
Apply(x) ==
  /\ applier.at = "idle" /\ ~flag
  /\ staged[x].tree = "valid" /\ (LateApply \/ ~staged[x].stale)
  /\ request = NoStaged /\ restore # "applying"
  /\ applier' = At("write", x)
  /\ UNCHANGED <<restore, request, stageVars, hostVars, crashes>>

(* The request file and the status                                           *)
WriteRequest ==
  /\ applier.at = "write"
  /\ request' = applier.of /\ restore' = "applying"
  /\ applier' = At("idle", NoStaged)
  /\ UNCHANGED <<stageVars, hostVars, crashes>>

-----------------------------------------------------------------------------
(* The helper                                                               *)

Helper(place, next) == helper.at = place /\ helper' = [helper EXCEPT !.at = next]

(* The path unit starts the service, which removes the request first         *)
TakeRequest ==
  /\ helper.at = "idle" /\ request # NoStaged
  /\ helper' = At("start", request)
  /\ request' = NoStaged
  /\ UNCHANGED <<restore, applier, flag, worker, db, safety, files, stageVars, crashes>>

(* Until the import starts there is nothing to roll back.  After that the    *)
(* rollback fails, or recovers the snapshot and as much of the import as the *)
(* archived WAL holds                                                        *)
RolledBack ==
  IF helper.at \in {"start", "quiesce"} THEN {db} ELSE {db, safety, "half"}

(* Mutant: a rollback ends the maintenance.                                  *)
FailRestore_LiftsFlag ==
  /\ helper.at # "idle"
  /\ restore' \in {restore, "failed"}
  /\ helper' = At("idle", NoStaged)
  /\ db' \in RolledBack /\ flag' = FALSE
  /\ UNCHANGED <<worker, safety, files>>

(* fail_restore, on any error: the status is written, if it can be, and the  *)
(* database rolled back; the files are not; the flag stays                   *)
FailRestore ==
  /\ helper.at # "idle"
  /\ restore' \in {restore, "failed"}
  /\ helper' = At("idle", NoStaged)
  /\ db' \in RolledBack
  /\ UNCHANGED <<flag, worker, safety, files>>

TreeExists == staged[helper.of].tree = "valid"

(* Step 1: a dump must be there                                              *)
Snapshot ==
  /\ Helper("start", "quiesce") /\ TreeExists
  /\ safety' = db
  /\ restore' = "applying"
  /\ UNCHANGED <<flag, worker, db, files>>

(* Step 2: the flag, then the worker, which may not stop; the sessions are   *)
(* cut off                                                                   *)
Quiesce ==
  /\ Helper("quiesce", "import")
  /\ flag' = TRUE
  /\ worker' \in (IF Compose THEN {worker, FALSE} ELSE {worker})
  /\ restore' = "applying"
  /\ UNCHANGED <<db, safety, files>>

(* Step 3: pg_restore drops what is there and recreates it                   *)
Import ==
  \/ /\ Helper("import", "import") /\ TreeExists
     /\ db' = "half"
     /\ restore' = "applying"
     /\ UNCHANGED <<flag, worker, safety, files>>
  \/ /\ Helper("import", "files") /\ db = "half"
     /\ db' = helper.of
     /\ UNCHANGED <<restore, flag, worker, safety, files>>

(* Step 4: the staged files are copied, what is in the way is moved away, and*)
(* they are renamed into place; without a files/ tree there is nothing to do *)
MoveAway ==
  /\ \/ /\ Helper("files", "swap") /\ TreeExists /\ helper.of \notin Bare
        /\ files' = "away"
     \/ /\ Helper("files", "finish") /\ (~TreeExists \/ helper.of \in Bare)
        /\ UNCHANGED files
  /\ restore' = "applying"
  /\ UNCHANGED <<flag, worker, db, safety>>

MoveIn ==
  /\ Helper("swap", "finish")
  /\ files' = helper.of
  /\ UNCHANGED <<restore, flag, worker, db, safety>>

(* Step 5: the worker is started, if it starts; the flag goes, the status is *)
(* written and the tree removed, in this order and any error ends it          *)
StartWorker ==
  /\ Helper("finish", "lift")
  /\ worker' \in (IF Compose THEN {worker, TRUE} ELSE {worker})
  /\ restore' = "applying"
  /\ UNCHANGED <<flag, db, safety, files>>

(* The files belong to the database; an archive without files/ makes no      *)
(* claim on them                                                             *)
Mixed == db \notin Bare /\ files # db

(* What the import leaves is what the next one finds as before               *)
LiftFlag ==
  /\ helper.at = "lift"
  /\ flag' = FALSE
  /\ helper' = At("idle", NoStaged)
  /\ \/ restore' = "done" /\ staged' \in {staged, [staged EXCEPT ![helper.of] = NoTree]}
     \/ UNCHANGED <<restore, staged>>
  /\ IF Mixed THEN UNCHANGED <<db, files>> ELSE db' = "before" /\ files' = "before"
  /\ UNCHANGED <<worker, safety>>

StepHelper ==
  \/ TakeRequest
  \/ /\ Snapshot \/ Quiesce \/ Import \/ MoveAway \/ MoveIn \/ StartWorker \/ FailRestore
     /\ UNCHANGED <<request, applier, stageVars, crashes>>
  \/ LiftFlag /\ UNCHANGED <<request, applier, slot, preview, crashes>>

(* A human repairs what a failed restore has left and lifts the flag         *)
Repair ==
  /\ helper.at = "idle" /\ flag
  /\ flag' = FALSE /\ worker' = TRUE
  /\ db' = "before" /\ files' = "before"
  /\ UNCHANGED <<helper, safety, stageVars, applyVars, crashes>>

-----------------------------------------------------------------------------
(* Time and failure                                                         *)

(* A tree grows older than its time to live                                  *)
AgeTree(x) ==
  /\ staged[x].tree # "none" /\ ~staged[x].stale
  /\ LateApply \/ x \notin {helper.of, request, applier.of}
  /\ \A p \in Previews : preview[p].of # x
  /\ staged' = [staged EXCEPT ![x].stale = TRUE]
  /\ UNCHANGED <<slot, preview, applyVars, hostVars, crashes>>

(* A preview that holds the slot has died with the backend                   *)
AgeSlot ==
  /\ slot = "held"
  /\ \A p \in Previews : preview[p].at \notin {"stage", "validate", "release"}
  /\ slot' = "stale"
  /\ UNCHANGED <<staged, preview, applyVars, hostVars, crashes>>

(* The backend dies: its requests are gone, files stay                       *)
Crash ==
  /\ crashes < MaxCrashes
  /\ crashes' = crashes + 1
  /\ preview' = [p \in Previews |-> At("idle", NoStaged)]
  /\ applier' = At("idle", NoStaged)
  /\ UNCHANGED <<slot, staged, restore, request, hostVars>>

-----------------------------------------------------------------------------
Next ==
  \/ \E p \in Previews : Receive(p) \/ StepPreview(p)
  \/ \E x \in Staged : Apply(x) \/ AgeTree(x)
  \/ WriteRequest \/ StepHelper \/ Repair \/ AgeSlot \/ Crash

Spec == Init /\ [][Next]_vars

-----------------------------------------------------------------------------
(* Properties                                                               *)

(* A preview that holds the slot                                             *)
Holds(p) == preview[p].at \in {"stage", "validate", "release"}

(* The types, and: no two previews are between claim_preview and             *)
(* release_preview, whatever refusals and deaths of the backend.             *)
TypeOK ==
  /\ slot \in {"free", "held", "stale"}
  /\ staged \in [Staged -> TreeType]
  /\ preview \in [Previews -> PreviewType]
  /\ restore \in {"idle", "validating", "applying", "done", "failed"}
  /\ request \in Staged \cup {NoStaged}
  /\ applier \in ApplierType /\ helper \in HelperType
  /\ flag \in BOOLEAN /\ worker \in BOOLEAN
  /\ db \in Database /\ safety \in Database
  /\ files \in {"before", "away"} \cup Staged
  /\ crashes \in 0..MaxCrashes
  /\ \A p \in Previews : Holds(p) => slot = "held" /\ \A q \in Previews \ {p} : ~Holds(q)

(* While the database and the files do not belong together, requests that    *)
(* change state are parked and the status does not say that the restore is   *)
(* done: through every failure of an import and the next one after it, and   *)
(* whatever previews, requests and deaths of the backend go on beside it     *)
(* (restore-import.sh).  The worker is not claimed to be stopped.            *)
MixedIsParked == Mixed => flag /\ restore # "done"
=============================================================================
