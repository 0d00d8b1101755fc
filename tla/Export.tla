------------------------------- MODULE Export -------------------------------
(***************************************************************************)
(* The slot of the portable export: requests that start a build, the lock   *)
(* file one of them creates, the background task that builds and releases,  *)
(* and the files a backend that died leaves behind.                         *)
(*                                                                         *)
(* Requests and tasks run in threads of one backend process, which may die  *)
(* and restart at any step.  Time is the step in which a file grows older   *)
(* than its time to live.                                                   *)
(***************************************************************************)
EXTENDS Naturals, FiniteSets

CONSTANTS
  Builds,     \* export ids
  Starters,   \* requests that start an export
  SlowBuilds, \* TRUE: a build may outlast DEFAULT_TTL_SECONDS
  MaxFaults,  \* bound: deaths of the backend, claims without a task
  NoBuild

ASSUME ExportAssumption ==
  /\ NoBuild \notin Builds
  /\ SlowBuilds \in BOOLEAN /\ MaxFaults \in Nat

VARIABLES
  lock,     \* _building.lock
  build,    \* per export id: its status file and its background task
  starter,  \* position of each start_backup_export
  swept,    \* auxiliary: a stale lock has been removed
  faults

vars == <<lock, build, starter, swept, faults>>

-----------------------------------------------------------------------------
NoLock == [of |-> NoBuild, stale |-> FALSE]
LockType == [of: Builds, stale: BOOLEAN] \cup {NoLock}

(* A build: its status file, whether that is older than the time to live,    *)
(* and where its task is; the archive exists while the status says ready     *)
BuildType == [status: {"none", "building", "ready", "failed"}, stale: BOOLEAN,
              task: {"none", "queued", "dump", "assemble", "release"}]
Unbuilt == [status |-> "none", stale |-> FALSE, task |-> "none"]

(* is_build_in_progress is called by the handler and again by claim_build    *)
StarterType == [at: {"idle", "look", "unlink", "scan", "create"}, call: {1, 2}]
Resting == [at |-> "idle", call |-> 1]

Init ==
  /\ lock = NoLock
  /\ build = [b \in Builds |-> Unbuilt]
  /\ starter = [s \in Starters |-> Resting]
  /\ swept = FALSE /\ faults = 0

Alive(b) == build[b].task # "none"
Locked == lock # NoLock

(* An id no file or task bears stands for a fresh uuid4; a failed status is  *)
(* not looked at again                                                       *)
Unused(b) == ~Alive(b) /\ lock.of # b /\ build[b].status \in {"none", "failed"}

-----------------------------------------------------------------------------
Start(s) ==
  /\ starter[s].at = "idle"
  /\ starter' = [starter EXCEPT ![s].at = "look"]
  /\ UNCHANGED <<lock, build, swept, faults>>

(* Mutant: a stale lock refuses the request as well.                         *)
LookAtLock_NoSweep(s) ==
  /\ starter[s].at = "look"
  /\ starter' = [starter EXCEPT ![s] = IF Locked THEN Resting ELSE [@ EXCEPT !.at = "scan"]]
  /\ UNCHANGED <<lock, build, swept, faults>>

(* is_build_in_progress: a fresh lock refuses the request, a stale one is    *)
(* about to be removed                                                       *)
LookAtLock(s) ==
  /\ starter[s].at = "look"
  /\ starter' = [starter EXCEPT ![s] =
       IF ~Locked THEN [@ EXCEPT !.at = "scan"]
       ELSE IF lock.stale THEN [@ EXCEPT !.at = "unlink"] ELSE Resting]
  /\ UNCHANGED <<lock, build, swept, faults>>

(* unlink removes the lock that lies there by now                            *)
UnlinkLock(s) ==
  /\ starter[s].at = "unlink"
  /\ lock' = NoLock /\ swept' = TRUE
  /\ starter' = [starter EXCEPT ![s].at = "scan"]
  /\ UNCHANGED <<build, faults>>

(* The status files: a fresh one that says building refuses the request, the *)
(* stale ones are removed.  After the first call sweep_stale_exports removes *)
(* the archives past their time to live.                                     *)
Building == {b \in Builds : build[b].status = "building"}
LookAtStatuses(s) ==
  /\ starter[s].at = "scan"
  /\ IF \E b \in Building : ~build[b].stale
     THEN starter' = [starter EXCEPT ![s] = Resting] /\ UNCHANGED build
     ELSE LET over == Building \cup IF starter[s].call = 1
                                    THEN {b \in Builds : build[b].status = "ready" /\ build[b].stale}
                                    ELSE {}
          IN  /\ build' = [b \in Builds |-> IF b \in over
                                            THEN [build[b] EXCEPT !.status = "none", !.stale = FALSE]
                                            ELSE build[b]]
              /\ starter' = [starter EXCEPT ![s] =
                   IF @.call = 1 THEN [at |-> "look", call |-> 2] ELSE [@ EXCEPT !.at = "create"]]
  /\ UNCHANGED <<lock, swept, faults>>

(* The lock of b, and its background task, which never starts if the handler *)
(* fails after the claim                                                     *)
Claim(b) ==
  /\ lock' = [of |-> b, stale |-> FALSE]
  /\ \/ build' = [build EXCEPT ![b] = [Unbuilt EXCEPT !.task = "queued"]] /\ UNCHANGED faults
     \/ faults < MaxFaults /\ faults' = faults + 1 /\ UNCHANGED build

(* Mutant: the lock is written over the one that is there.                   *)
CreateLock_NotExclusive(s) ==
  /\ starter[s].at = "create"
  /\ starter' = [starter EXCEPT ![s] = Resting]
  /\ \/ /\ \A b \in Builds : ~Unused(b)
        /\ UNCHANGED <<lock, build, faults>>
     \/ \E b \in {c \in Builds : Unused(c)} : Claim(b)
  /\ UNCHANGED swept

(* claim_build creates the lock exclusively; the build is left to a          *)
(* background task.  Without an id left in the pool the request ends.        *)
CreateLock(s) ==
  /\ starter[s].at = "create"
  /\ starter' = [starter EXCEPT ![s] = Resting]
  /\ \/ /\ Locked \/ \A b \in Builds : ~Unused(b)
        /\ UNCHANGED <<lock, build, faults>>
     \/ ~Locked /\ \E b \in {c \in Builds : Unused(c)} : Claim(b)
  /\ UNCHANGED swept

(* build_export: the status file, then pg_dump and the archive; any failure  *)
(* after the first write is a status, unless that cannot be written either.  *)
(* release_build removes whatever lock is there.                             *)
Build(b, task, next) ==
  /\ build[b].task = task
  /\ build' = [build EXCEPT ![b].task = next]
Report(b, task, status, next) ==
  /\ build[b].task = task
  /\ build' = [build EXCEPT ![b] = [status |-> status, stale |-> FALSE, task |-> next]]

BeginBuild(b) ==
  /\ Report(b, "queued", "building", "dump") \/ Build(b, "queued", "release")
  /\ UNCHANGED lock
Dumped(b) == Build(b, "dump", "assemble") /\ UNCHANGED lock
BuildReady(b) == Report(b, "assemble", "ready", "release") /\ UNCHANGED lock
BuildFails(b) ==
  /\ \E task \in {"dump", "assemble"} :
       Report(b, task, "failed", "release") \/ Build(b, task, "release")
  /\ UNCHANGED lock

(* Mutant: the lock is emptied, not removed.                                 *)
Release_Empties(b) ==
  /\ build[b].task = "release"
  /\ build' = [build EXCEPT ![b].task = "none"]
  /\ lock' = [lock EXCEPT !.of = NoBuild, !.stale = TRUE]

Release(b) ==
  /\ build[b].task = "release"
  /\ build' = [build EXCEPT ![b].task = "none"]
  /\ lock' = NoLock

StepBuild(b) ==
  /\ BeginBuild(b) \/ Dumped(b) \/ BuildReady(b) \/ BuildFails(b) \/ Release(b)
  /\ UNCHANGED <<starter, swept, faults>>

(* The archive and its status go when the download ends                      *)
Download(b) ==
  /\ build[b].status = "ready"
  /\ build' = [build EXCEPT ![b].status = "none", ![b].stale = FALSE]
  /\ UNCHANGED <<lock, starter, swept, faults>>

StepStarter(s) == LookAtLock(s) \/ UnlinkLock(s) \/ LookAtStatuses(s) \/ CreateLock(s)

-----------------------------------------------------------------------------
(* Time and failure                                                         *)

(* A file grows older than its time to live                                  *)
AgeLock ==
  /\ Locked /\ ~lock.stale
  /\ SlowBuilds \/ ~Alive(lock.of)
  /\ lock' = [lock EXCEPT !.stale = TRUE]
  /\ UNCHANGED <<build, starter, swept, faults>>
AgeBuild(b) ==
  /\ build[b].status \in {"building", "ready"} /\ ~build[b].stale
  /\ SlowBuilds \/ ~Alive(b)
  /\ build' = [build EXCEPT ![b].stale = TRUE]
  /\ UNCHANGED <<lock, starter, swept, faults>>

(* The backend dies: requests and tasks are gone, files stay                 *)
Crash ==
  /\ faults < MaxFaults
  /\ faults' = faults + 1
  /\ build' = [b \in Builds |-> [build[b] EXCEPT !.task = "none"]]
  /\ starter' = [s \in Starters |-> Resting]
  /\ UNCHANGED <<lock, swept>>

-----------------------------------------------------------------------------
Next ==
  \/ \E s \in Starters : Start(s) \/ StepStarter(s)
  \/ \E b \in Builds : StepBuild(b) \/ Download(b) \/ AgeBuild(b)
  \/ AgeLock \/ Crash

Spec == Init /\ [][Next]_vars

(* Requests and tasks run on, time passes; and somebody keeps asking for an  *)
(* export                                                                    *)
FairSpec ==
  /\ Spec /\ WF_vars(AgeLock)
  /\ \A b \in Builds : WF_vars(StepBuild(b)) /\ WF_vars(AgeBuild(b))
  /\ \A s \in Starters : WF_vars(StepStarter(s)) /\ WF_vars(Start(s))

-----------------------------------------------------------------------------
(* Properties                                                               *)

TypeOK ==
  /\ lock \in LockType
  /\ build \in [Builds -> BuildType]
  /\ starter \in [Starters -> StarterType]
  /\ swept \in BOOLEAN /\ faults \in 0..MaxFaults

(* No two exports are built at a time, however requests interleave with the  *)
(* background task of an earlier one: claim_build, release_build.  The       *)
(* removal of a lock left by a dead build is the exception: two requests     *)
(* that both find it may remove each other's.                                *)
OneBuild == swept \/ \A b, c \in Builds : Alive(b) /\ Alive(c) => b = c

(* A backend that died while building does not refuse exports for ever: the  *)
(* lock and the status it left go stale and are removed                      *)
(* (is_build_in_progress).                                                   *)
ExportRecovers == []<>(\E b \in Builds : Alive(b))
=============================================================================
