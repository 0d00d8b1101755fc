---------------------------- MODULE ExportProofs ----------------------------
(***************************************************************************)
(* Theorems about Export, for every number of requests and exports and any  *)
(* number of deaths of the backend: the types, and that one export is built *)
(* at a time until a stale lock has been removed.                           *)
(***************************************************************************)
EXTENDS Export, TLAPS

(* The lock names the export whose task runs: the task's release then        *)
(* removes its own lock, and a request that finds no lock finds no task      *)
LockNamesTask == swept \/ \A b \in Builds : Alive(b) => lock.of = b

IInv == TypeOK /\ LockNamesTask

-----------------------------------------------------------------------------
LEMMA InitIInv == Init => IInv
<1> SUFFICES ASSUME Init PROVE IInv
  OBVIOUS
<1>1. NoLock \in LockType /\ Unbuilt \in BuildType /\ Resting \in StarterType
  BY DEF LockType, BuildType, Unbuilt, StarterType, Resting
<1>2. TypeOK
  <2>1. build \in [Builds -> BuildType] /\ starter \in [Starters -> StarterType]
    BY <1>1 DEF Init
  <2>2. lock \in LockType /\ swept \in BOOLEAN
    BY <1>1 DEF Init
  <2>3. faults \in 0..MaxFaults
    BY ExportAssumption DEF Init
  <2> QED BY <2>1, <2>2, <2>3 DEF TypeOK
<1>3. LockNamesTask
  BY DEF Init, LockNamesTask, Alive, Unbuilt
<1> QED BY <1>2, <1>3 DEF IInv

(* The steps of a request before it creates the lock                         *)
LEMMA LookIInv ==
  ASSUME IInv, NEW s \in Starters,
         Start(s) \/ LookAtLock(s) \/ UnlinkLock(s) \/ LookAtStatuses(s)
  PROVE  IInv'
<1>1. /\ starter \in [Starters -> StarterType] /\ Resting \in StarterType
      /\ build \in [Builds -> BuildType] /\ NoLock \in LockType
  BY DEF IInv, TypeOK, Resting, StarterType, LockType
<1>2. starter' \in [Starters -> StarterType]
  <2>1. \A p \in {"look", "unlink", "scan", "create"} : [starter[s] EXCEPT !.at = p] \in StarterType
    BY <1>1 DEF StarterType
  <2>2. [at |-> "look", call |-> 2] \in StarterType
    BY DEF StarterType
  <2>3. PICK x \in StarterType : starter' = [starter EXCEPT ![s] = x]
    <3>1. CASE Start(s)
      BY <1>1, <2>1, <3>1 DEF Start
    <3>2. CASE LookAtLock(s)
      BY <1>1, <2>1, <3>2 DEF LookAtLock
    <3>3. CASE UnlinkLock(s)
      BY <1>1, <2>1, <3>3 DEF UnlinkLock
    <3>4. CASE LookAtStatuses(s)
      BY <1>1, <2>1, <2>2, <3>4 DEF LookAtStatuses
    <3> QED BY <3>1, <3>2, <3>3, <3>4
  <2> QED BY <1>1, <2>3
<1>3. CASE Start(s) \/ LookAtLock(s)
  BY <1>2, <1>3 DEF Start, LookAtLock, IInv, TypeOK, LockNamesTask, Alive
<1>4. CASE UnlinkLock(s)
  BY <1>1, <1>2, <1>4 DEF UnlinkLock, IInv, TypeOK, LockNamesTask
<1>5. CASE LookAtStatuses(s)
  <2>1. PICK over \in SUBSET Builds :
          build' = [b \in Builds |-> IF b \in over
                                     THEN [build[b] EXCEPT !.status = "none", !.stale = FALSE]
                                     ELSE build[b]]
    <3>1. CASE \E b \in Building : ~build[b].stale
      <4> DEFINE over == {}
      <4>1. build' = [b \in Builds |-> IF b \in over
                                      THEN [build[b] EXCEPT !.status = "none", !.stale = FALSE]
                                      ELSE build[b]]
        BY <1>1, <1>5, <3>1 DEF LookAtStatuses
      <4>2. over \in SUBSET Builds
        OBVIOUS
      <4> HIDE DEF over
      <4> QED BY <4>1, <4>2
    <3>2. CASE ~\E b \in Building : ~build[b].stale
      <4> DEFINE over == Building \cup
                   IF starter[s].call = 1
                   THEN {b \in Builds : build[b].status = "ready" /\ build[b].stale}
                   ELSE {}
      <4>1. build' = [b \in Builds |-> IF b \in over
                                      THEN [build[b] EXCEPT !.status = "none", !.stale = FALSE]
                                      ELSE build[b]]
        BY <1>5, <3>2 DEF LookAtStatuses
      <4>2. over \in SUBSET Builds
        BY DEF Building
      <4> HIDE DEF over
      <4> QED BY <4>1, <4>2
    <3> QED BY <3>1, <3>2
  <2>2. ASSUME NEW b \in Builds PROVE build'[b] \in BuildType /\ build'[b].task = build[b].task
    BY <1>1, <2>1 DEF BuildType
  <2>3. build' \in [Builds -> BuildType]
    BY <2>1, <2>2
  <2> QED BY <1>2, <1>5, <2>2, <2>3 DEF LookAtStatuses, IInv, TypeOK, LockNamesTask, Alive
<1> QED BY <1>3, <1>4, <1>5

LEMMA CreateIInv ==
  ASSUME IInv, NEW s \in Starters, CreateLock(s)
  PROVE  IInv'
<1>1. starter' \in [Starters -> StarterType]
  BY DEF CreateLock, IInv, TypeOK, StarterType, Resting
<1>2. CASE UNCHANGED <<lock, build, faults>>
  BY <1>1, <1>2 DEF CreateLock, IInv, TypeOK, LockNamesTask, Alive
<1>3. ASSUME NEW b \in Builds, ~Locked, Unused(b), Claim(b), UNCHANGED swept
      PROVE  IInv'
  <2>1. /\ lock' = [of |-> b, stale |-> FALSE] /\ lock' \in LockType
        /\ build' \in [Builds -> BuildType] /\ faults' \in 0..MaxFaults
    <3>1. [Unbuilt EXCEPT !.task = "queued"] \in BuildType
      BY DEF Unbuilt, BuildType
    <3> QED BY <1>3, <3>1, ExportAssumption DEF Claim, IInv, TypeOK, LockType
  <2>2. swept \/ \A c \in Builds : ~Alive(c)
    BY <1>3, ExportAssumption DEF Locked, NoLock, IInv, LockNamesTask
  <2>3. \A c \in Builds \ {b} : build'[c] = build[c]
    BY <1>3 DEF Claim, IInv, TypeOK
  <2>4. LockNamesTask'
    BY <1>3, <2>1, <2>2, <2>3 DEF LockNamesTask, Alive
  <2> QED BY <1>1, <1>3, <2>1, <2>4 DEF IInv, TypeOK
<1> QED BY <1>2, <1>3 DEF CreateLock

(* A task goes on, or ends and removes the lock                              *)
LEMMA BuildIInv ==
  ASSUME IInv, NEW b \in Builds, StepBuild(b)
  PROVE  IInv'
<1>1. build \in [Builds -> BuildType] /\ UNCHANGED <<starter, swept, faults>>
  BY DEF IInv, TypeOK, StepBuild
<1>2. CASE Release(b)
  <2>1. /\ Alive(b) /\ lock' = NoLock /\ build' = [build EXCEPT ![b].task = "none"]
    BY <1>2 DEF Release, Alive
  <2>2. build' \in [Builds -> BuildType] /\ NoLock \in LockType
    BY <1>1, <2>1 DEF BuildType, LockType
  <2>3. build'[b].task = "none" /\ \A c \in Builds \ {b} : build'[c] = build[c]
    BY <1>1, <2>1 DEF BuildType
  <2>4. swept \/ \A c \in Builds \ {b} : ~Alive(c)
    BY <2>1 DEF IInv, LockNamesTask
  <2> QED BY <1>1, <2>1, <2>2, <2>3, <2>4 DEF IInv, TypeOK, LockNamesTask, Alive
<1>3. CASE ~Release(b)
  <2>1. PICK task \in {"queued", "dump", "assemble"}, next \in {"dump", "assemble", "release"},
             status \in {"building", "ready", "failed"} :
          Build(b, task, next) \/ Report(b, task, status, next)
    BY <1>3 DEF StepBuild, BeginBuild, Dumped, BuildReady, BuildFails
  <2>2. PICK x \in BuildType : build' = [build EXCEPT ![b] = x]
    <3>1. CASE Build(b, task, next)
      <4>1. [build[b] EXCEPT !.task = next] \in BuildType
        BY <1>1 DEF BuildType
      <4>2. build' = [build EXCEPT ![b] = [build[b] EXCEPT !.task = next]]
        BY <1>1, <3>1 DEF Build
      <4> QED BY <4>1, <4>2
    <3>2. CASE Report(b, task, status, next)
      BY <3>2 DEF Report, BuildType
    <3> QED BY <2>1, <3>1, <3>2
  <2>3. Alive(b) /\ UNCHANGED lock
    BY <1>3, <2>1 DEF StepBuild, BeginBuild, Dumped, BuildReady, BuildFails, Build, Report, Alive
  <2>4. \A c \in Builds : build'[c].task # "none" => Alive(c)
    BY <1>1, <2>2, <2>3 DEF Alive
  <2> QED BY <1>1, <2>2, <2>3, <2>4 DEF IInv, TypeOK, LockNamesTask, Alive
<1> QED BY <1>2, <1>3

LEMMA FilesIInv ==
  ASSUME IInv, AgeLock \/ Crash \/ \E b \in Builds : Download(b) \/ AgeBuild(b)
  PROVE  IInv'
<1>1. build \in [Builds -> BuildType] /\ lock \in LockType
  BY DEF IInv, TypeOK
<1>2. CASE AgeLock
  <2>1. lock' \in LockType /\ lock'.of = lock.of
    BY <1>1, <1>2 DEF AgeLock, LockType, Locked
  <2> QED BY <1>2, <2>1 DEF AgeLock, IInv, TypeOK, LockNamesTask, Alive
<1>3. CASE Crash
  <2>1. \A b \in Builds : build'[b] \in BuildType /\ build'[b].task = "none"
    BY <1>1, <1>3 DEF Crash, BuildType
  <2>2. build' \in [Builds -> BuildType] /\ starter' \in [Starters -> StarterType]
    BY <1>3, <2>1 DEF Crash, StarterType, Resting
  <2> QED BY <1>3, <2>1, <2>2, ExportAssumption DEF Crash, IInv, TypeOK, LockNamesTask, Alive
<1>4. ASSUME NEW b \in Builds, Download(b) \/ AgeBuild(b) PROVE IInv'
  <2>1. /\ build' \in [Builds -> BuildType]
        /\ \A c \in Builds : build'[c].task = build[c].task
    <3>1. PICK x \in BuildType : x.task = build[b].task /\ build' = [build EXCEPT ![b] = x]
      <4>1. CASE Download(b)
        <5> DEFINE x == [build[b] EXCEPT !.status = "none", !.stale = FALSE]
        <5>1. build' = [build EXCEPT ![b] = x]
          BY <1>1, <4>1 DEF Download
        <5>2. x \in BuildType /\ x.task = build[b].task
          BY <1>1 DEF BuildType
        <5> HIDE DEF x
        <5> QED BY <5>1, <5>2
      <4>2. CASE AgeBuild(b)
        <5> DEFINE x == [build[b] EXCEPT !.stale = TRUE]
        <5>1. build' = [build EXCEPT ![b] = x]
          BY <1>1, <4>2 DEF AgeBuild
        <5>2. x \in BuildType /\ x.task = build[b].task
          BY <1>1 DEF BuildType
        <5> HIDE DEF x
        <5> QED BY <5>1, <5>2
      <4> QED BY <1>4, <4>1, <4>2
    <3> QED BY <1>1, <3>1
  <2> QED BY <1>4, <2>1 DEF Download, AgeBuild, IInv, TypeOK, LockNamesTask, Alive
<1> QED BY <1>2, <1>3, <1>4

LEMMA NextIInv == IInv /\ [Next]_vars => IInv'
<1> SUFFICES ASSUME IInv, [Next]_vars PROVE IInv'
  OBVIOUS
<1>1. CASE UNCHANGED vars
  BY <1>1 DEF vars, IInv, TypeOK, LockNamesTask, Alive
<1> QED BY <1>1, LookIInv, CreateIInv, BuildIInv, FilesIInv DEF Next, StepStarter

(* Types                                                                    *)
THEOREM TypesHold == Spec => []TypeOK
<1>1. IInv => TypeOK
  BY DEF IInv
<1> QED BY <1>1, InitIInv, NextIInv, PTL DEF Spec

(* Whatever requests, builds and deaths come together, no two exports are    *)
(* built at a time before a stale lock has been removed (claim_build)        *)
THEOREM OneBuildHolds == Spec => []OneBuild
<1>1. IInv => OneBuild
  BY DEF IInv, LockNamesTask, OneBuild
<1> QED BY <1>1, InitIInv, NextIInv, PTL DEF Spec
=============================================================================
