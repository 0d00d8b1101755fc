------------------------- MODULE FeatureLedgerProofs -------------------------
(* Proofs about FeatureLedger, for every value of its constants.            *)
EXTENDS FeatureLedger, FiniteSetTheorems, TLAPS

(* Every variable keeps its type.                                           *)
LEMMA TypeInit == Init => TypeOK
<1> SUFFICES ASSUME Init PROVE TypeOK
  OBVIOUS
<1>1. NoRow \in RowType /\ Stopped \in ThreadType /\ NoIntake \in IntakeType
  BY DEF NoRow, RowType, Stopped, Idle, ThreadType, NoIntake, IntakeType
<1>2. doc \in [Docs -> DocStatus] /\ request \in [Docs -> Nat]
  BY DEF Init, DocStatus
<1>3. row \in [Rows -> RowType] /\ output \in [Rows -> {"none", "current", "stale"}]
  BY <1>1 DEF Init
<1>4. intake \in [Docs -> IntakeType] /\ thread \in [Threads -> ThreadType]
  BY <1>1 DEF Init
<1>5. worker \in [Workers -> WorkerType]
  <2>1. \A n \in Releases :
          At("down", n) \in WorkerType
    BY DEF At, WorkerType
  <2>. QED  BY <2>1 DEF Init
<1>6. used \in [crashes : Nat, losses : Nat, retries : Nat, groups : Nat]
  BY DEF Init
<1>. QED  BY <1>2, <1>3, <1>4, <1>5, <1>6 DEF TypeOK

LEMMA PendingDoneType ==
  ASSUME NEW v \in Nat
  PROVE  Pending(v) \in RowType /\ Done(v) \in RowType
BY DEF Pending, Done, Fresh, RowType

LEMMA MovedType ==
  ASSUME NEW x \in RowType, NEW s \in {"pending", "running", "done", "failed"},
         NEW due \in BOOLEAN
  PROVE  Moved(x, s, due) \in RowType
BY DEF Moved, RowType

LEMMA AtType ==
  ASSUME NEW n \in Releases
  PROVE  /\ \A pc \in {"down", "recovering", "idle"} : At(pc, n) \in WorkerType
         /\ Draining(n) \in WorkerType
BY LimitsAssumption DEF At, Draining, WorkerType

LEMMA RunningType == ASSUME NEW r \in Rows PROVE Running(r) \in ThreadType
BY DEF Running, ThreadType

LEMMA RowsPair == ASSUME NEW r \in Rows PROVE r[1] \in Docs /\ r[2] \in Features
BY DEF Rows

LEMMA VersionType ==
  ASSUME NEW n \in Releases, NEW f \in Features
  PROVE  Version[n][f] \in Nat
BY WorkersAssumption

LEMMA ThreadTypes ==
  /\ Stopped \in ThreadType /\ Looping \in ThreadType /\ Idle("claiming") \in ThreadType
  /\ NoIntake \in IntakeType /\ NoRow \in RowType
BY DEF Stopped, Looping, Idle, ThreadType, NoIntake, IntakeType, NoRow, RowType

LEMMA IssuedType ==
  ASSUME NEW i \in IntakeType, NEW step PROVE Issued(i, step) \in IntakeType
BY DEF Issued, IntakeType, NoIntake

LEMMA CrashBoundType ==
  ASSUME NEW table \in [Rows -> RowType] PROVE CrashBound(table) \in [Rows -> RowType]
BY MovedType DEF CrashBound

LEMMA MarkedType == ASSUME NEW x \in RowType PROVE Marked(x) \in RowType
BY DEF Marked, RowType

LEMMA RunMovesType ==
  ASSUME NEW table \in [Threads -> ThreadType], NEW t \in Threads, table[t].row \in Rows,
         NEW pc \in {"returned", "raised"}
  PROVE  [table EXCEPT ![t].pc = pc] \in [Threads -> ThreadType]
<1>1. [table[t] EXCEPT !.pc = pc] \in ThreadType
  BY SetsAssumption DEF ThreadType
<1>. QED  BY <1>1

LEMMA HoldsRow ==
  ASSUME TypeOK, NEW t \in Threads
  PROVE  /\ thread[t].pc \in {"running", "returned", "raised"} <=> thread[t].row \in Rows
         /\ thread[t].row \in Rows <=> thread[t].row # None
BY SetsAssumption DEF TypeOK, ThreadType

LEMMA EnsuredType ==
  ASSUME TypeOK, NEW n \in Releases PROVE Ensured(n) \in [Rows -> RowType]
<1> SUFFICES ASSUME NEW r \in Rows PROVE Ensured(n)[r] \in RowType
  BY DEF Ensured
<1>1. Version[n][r[2]] \in Nat
  BY RowsPair, VersionType
<1>2. Pending(Version[n][r[2]]) \in RowType /\ Done(1) \in RowType
  BY <1>1, PendingDoneType
<1>3. row[r] \in RowType
  BY DEF TypeOK
<1>. QED  BY <1>2, <1>3 DEF Ensured

LEMMA RewriteType ==
  ASSUME TypeOK, NEW t \in Threads, NEW r \in Rows, Rewrite(t, r),
         thread[t].pc = "running"
  PROVE  /\ output' \in [Rows -> {"none", "current", "stale"}]
         /\ thread' \in [Threads -> ThreadType]
<1>1. output' \in [Rows -> {"none", "current", "stale"}]
  BY DEF Rewrite, TypeOK
<1>2. \A u \in Threads : [thread[u] EXCEPT !.current = FALSE] \in ThreadType \/ thread[u].row = None
  BY DEF TypeOK, ThreadType
<1>3. [thread[t] EXCEPT !.pc = "returned"] \in ThreadType
  BY DEF TypeOK, ThreadType
<1>4. thread' \in [Threads -> ThreadType]
  BY <1>2, <1>3, SetsAssumption DEF Rewrite, TypeOK
<1>. QED  BY <1>1, <1>4

LEMMA TypeStep == ASSUME TypeOK, [Next]_vars PROVE TypeOK'
<1> USE DEF TypeOK
<1>1. ASSUME NEW d \in Docs, NEW w \in Workers, AddProcessing(d, w) PROVE TypeOK'
  BY <1>1 DEF AddProcessing, DocStatus, IntakeType
<1>2. ASSUME NEW d \in Docs, NEW w \in Workers, SeedForDocument(d, w) PROVE TypeOK'
  <2>1. \A r \in Rows : Pending(Version[worker[w].release][r[2]]) \in RowType
    BY RowsPair, VersionType, PendingDoneType DEF WorkerType
  <2>2. row' \in [Rows -> RowType]
    BY <1>2, <2>1 DEF SeedForDocument
  <2>3. intake' \in [Docs -> IntakeType]
    BY <1>2, IssuedType DEF SeedForDocument
  <2>. QED  BY <1>2, <2>2, <2>3 DEF SeedForDocument
<1>3. ASSUME NEW d \in Docs, NEW w \in Workers, AddActive(d, w) PROVE TypeOK'
  BY <1>3 DEF AddActive, DocStatus, IntakeType
<1>4. ASSUME NEW d \in Docs, NEW w \in Workers, NEW f \in Inline, RecordDone(d, f, w)
      PROVE TypeOK'
  <2>1. f \in Features /\ Done(Version[worker[w].release][f]) \in RowType
    BY SetsAssumption, VersionType, PendingDoneType DEF WorkerType
  <2>2. intake' \in [Docs -> IntakeType]
    BY <1>4, IssuedType DEF RecordDone
  <2>3. row' \in [Rows -> RowType] /\ output' \in [Rows -> {"none", "current", "stale"}]
    BY <1>4, <2>1 DEF RecordDone
  <2>. QED  BY <1>4, <2>2, <2>3 DEF RecordDone
<1>5. ASSUME NEW d \in Docs, FailProcessing(d) PROVE TypeOK'
  BY <1>5 DEF FailProcessing, DocStatus
<1>6. ASSUME NEW d \in Docs, DeleteDocument(d) PROVE TypeOK'
  BY <1>6, ThreadTypes DEF DeleteDocument, Cascade, DocStatus
<1>7. ASSUME NEW w \in Workers, Start(w) PROVE TypeOK'
  BY <1>7, AtType DEF Start
<1>8. ASSUME NEW w \in Workers, RequeueRunning(w) PROVE TypeOK'
  <2>1. worker' \in [Workers -> WorkerType]
    BY <1>8, AtType DEF RequeueRunning, WorkerType
  <2>2. row' \in [Rows -> RowType]
    BY <1>8, MovedType DEF RequeueRunning
  <2>3. used' \in [crashes : Nat, losses : Nat, retries : Nat, groups : Nat]
    <3>1. [used EXCEPT !.losses = @ + 1] \in
            [crashes : Nat, losses : Nat, retries : Nat, groups : Nat]
      OBVIOUS
    <3>. QED  BY <1>8, <3>1 DEF RequeueRunning
  <2>. QED  BY <1>8, <2>1, <2>2, <2>3 DEF RequeueRunning
<1>9. ASSUME NEW w \in Workers, BeginPass(w) PROVE TypeOK'
  <2>1. row' \in [Rows -> RowType]
    BY <1>9, EnsuredType DEF BeginPass, WorkerType
  <2>2. worker' \in [Workers -> WorkerType]
    BY <1>9, AtType DEF BeginPass, WorkerType
  <2>3. thread' \in [Threads -> ThreadType]
    BY <1>9, ThreadTypes DEF BeginPass
  <2>. QED  BY <1>9, <2>1, <2>2, <2>3 DEF BeginPass
<1>10. ASSUME NEW w \in Workers, EndPass(w) PROVE TypeOK'
  BY <1>10, AtType DEF EndPass, WorkerType
<1>11. ASSUME NEW w \in Workers, Crash(w) PROVE TypeOK'
  <2>1. worker' \in [Workers -> WorkerType]
    BY <1>11, AtType DEF Crash, WorkerType
  <2>2. thread' \in [Threads -> ThreadType] /\ intake' \in [Docs -> IntakeType]
    BY <1>11, ThreadTypes DEF Crash
  <2>. QED  BY <1>11, <2>1, <2>2 DEF Crash
<1>12. ASSUME NEW t \in Threads, Take(t) PROVE TypeOK'
  <2>1. Owner[t] \in Workers
    BY WorkersAssumption
  <2>2. thread' \in [Threads -> ThreadType]
    BY <1>12, ThreadTypes DEF Take
  <2>3. worker' \in [Workers -> WorkerType]
    <3>1. worker[Owner[t]].budget # 0 =>
            [worker[Owner[t]] EXCEPT !.budget = @ - 1] \in WorkerType
      BY <2>1 DEF WorkerType
    <3>. QED  BY <1>12, <2>1, <3>1 DEF Take
  <2>. QED  BY <1>12, <2>2, <2>3 DEF Take
<1>13. ASSUME NEW t \in Threads, Claim(t) PROVE TypeOK'
  <2> DEFINE table == CrashBound(row)
  <2>1. table \in [Rows -> RowType]
    BY CrashBoundType
  <2>2. CASE /\ row' = table
             /\ worker' = [worker EXCEPT ![Owner[t]].drained = TRUE]
             /\ thread' = [thread EXCEPT ![t] = Stopped]
    BY <1>13, <2>1, <2>2, ThreadTypes, WorkersAssumption DEF Claim, WorkerType
  <2>3. ASSUME NEW r \in Best(Claimable(table)),
               row' = [table EXCEPT ![r] = Marked(@)],
               thread' = [thread EXCEPT ![t] = Running(r)],
               UNCHANGED worker
        PROVE TypeOK'
    <3>1. r \in Rows
      BY DEF Best, Claimable
    <3>2. row' \in [Rows -> RowType]
      BY <2>1, <2>3, <3>1, MarkedType
    <3>3. thread' \in [Threads -> ThreadType]
      BY <2>3, <3>1, RunningType
    <3>. QED  BY <1>13, <2>3, <3>2, <3>3 DEF Claim
  <2>. QED  BY <1>13, <2>2, <2>3 DEF Claim
<1>14. ASSUME NEW t \in Threads, ProcessReturns(t) PROVE TypeOK'
  <2> DEFINE r == thread[t].row
             moved == thread' = [thread EXCEPT ![t].pc = "returned"]
  <2>0. thread[t].pc = "running" /\ r \in Rows
    BY <1>14 DEF ProcessReturns, ThreadType
  <2>1. r[1] \in Docs /\ r[2] \in Features
    BY <2>0, RowsPair
  <2>2. moved => thread' \in [Threads -> ThreadType]
    <3>1. [thread EXCEPT ![t].pc = "returned"] \in [Threads -> ThreadType]
      BY <2>0, RunMovesType
    <3>. QED  BY <3>1
  <2>3. CASE doc' = [doc EXCEPT ![r[1]] = "active"] /\ Rewrite(t, r) /\ UNCHANGED row
    BY <1>14, <2>1, <2>3, <2>0, RewriteType DEF ProcessReturns, DocStatus
  <2>4. CASE doc' = [doc EXCEPT ![r[1]] = "failed"] /\ moved /\ UNCHANGED <<row, output>>
    BY <1>14, <2>1, <2>2, <2>4 DEF ProcessReturns, DocStatus
  <2>5. CASE Cascade(r[1]) /\ moved
    <3>1. /\ doc' \in [Docs -> DocStatus] /\ row' \in [Rows -> RowType]
          /\ output' \in [Rows -> {"none", "current", "stale"}]
      BY <2>1, <2>5, ThreadTypes DEF Cascade, DocStatus
    <3>. QED  BY <1>14, <2>2, <2>5, <3>1 DEF ProcessReturns
  <2>6. CASE Rewrite(t, r) /\ UNCHANGED <<doc, row>>
    BY <1>14, <2>6, <2>0, RewriteType DEF ProcessReturns
  <2>7. CASE moved /\ UNCHANGED <<doc, row, output>>
    BY <1>14, <2>2, <2>7 DEF ProcessReturns
  <2>. QED  BY <1>14, <2>3, <2>4, <2>5, <2>6, <2>7 DEF ProcessReturns
<1>15. ASSUME NEW t \in Threads, ProcessRaises(t) PROVE TypeOK'
  <2>1. thread[t].row \in Rows
    BY <1>15, HoldsRow DEF ProcessRaises
  <2>2. thread' \in [Threads -> ThreadType]
    BY <1>15, <2>1, RunMovesType DEF ProcessRaises
  <2>. QED  BY <1>15, <2>2 DEF ProcessRaises
<1>16. ASSUME NEW t \in Threads, MarkDone(t) PROVE TypeOK'
  <2> DEFINE r == thread[t].row
             v == IF r[2] \in Registered THEN Version[worker[Owner[t]].release][r[2]]
                  ELSE row[r].version
  <2>1. r \in Rows /\ Owner[t] \in Workers
    BY <1>16, WorkersAssumption, HoldsRow DEF MarkDone
  <2>2. v \in Nat
    BY <2>1, RowsPair, VersionType DEF WorkerType, RowType
  <2>4. Moved(row[r], "done", TRUE) \in RowType
    BY <2>1, MovedType
  <2> HIDE DEF v
  <2>5. [Moved(row[r], "done", TRUE) EXCEPT !.version = v] \in RowType
    BY <2>2, <2>4 DEF RowType
  <2>6. row' = [row EXCEPT ![r] = IF row[r].status = "none" THEN row[r]
                                  ELSE [Moved(row[r], "done", TRUE) EXCEPT !.version = v]]
    BY <1>16, <2>1 DEF MarkDone, v
  <2>3. thread' \in [Threads -> ThreadType]
    BY <1>16, ThreadTypes DEF MarkDone
  <2>7. row' \in [Rows -> RowType]
    BY <2>1, <2>5, <2>6
  <2>. QED  BY <1>16, <2>3, <2>7 DEF MarkDone
<1>17. ASSUME NEW t \in Threads, MarkFailed(t) PROVE TypeOK'
  <2>1. row' \in [Rows -> RowType]
    BY <1>17, MovedType DEF MarkFailed
  <2>2. thread' \in [Threads -> ThreadType]
    BY <1>17, ThreadTypes DEF MarkFailed
  <2>. QED  BY <1>17, <2>1, <2>2 DEF MarkFailed
<1>18. ASSUME NEW t \in Threads, DatabaseError(t) PROVE TypeOK'
  <2>1. CASE thread' = [thread EXCEPT ![t] = Stopped]
    BY <1>18, <2>1, ThreadTypes DEF DatabaseError
  <2>2. CASE /\ thread[t].pc = "returned"
             /\ thread' = [thread EXCEPT ![t].pc = "raised"]
    <3>1. thread' \in [Threads -> ThreadType]
      BY <2>2, HoldsRow, RunMovesType
    <3>. QED  BY <1>18, <3>1 DEF DatabaseError
  <2>. QED  BY <1>18, <2>1, <2>2 DEF DatabaseError
<1>19. ASSUME NEW r \in Rows, BackoffElapses(r) PROVE TypeOK'
  BY <1>19 DEF BackoffElapses, RowType
<1>20. ASSUME NEW r \in Rows, LeaseExpires(r) PROVE TypeOK'
  BY <1>20 DEF LeaseExpires, RowType
<1>21. ASSUME NEW r \in Rows, RetryFeature(r) PROVE TypeOK'
  <2>1. Pending(row[r].version) \in RowType
    BY PendingDoneType DEF RowType
  <2>. QED  BY <1>21, <2>1 DEF RetryFeature, Reset
<1>22. ASSUME NEW d \in Docs, BeginReprocess(d) PROVE TypeOK'
  <2>1. used' \in [crashes : Nat, losses : Nat, retries : Nat, groups : Nat]
    BY <1>22 DEF BeginReprocess
  <2>2. request' \in [Docs -> Nat]
    BY <1>22 DEF BeginReprocess
  <2>. QED  BY <1>22, <2>1, <2>2 DEF BeginReprocess
<1>23. ASSUME NEW d \in Docs, ReprocessNext(d) PROVE TypeOK'
  <2> DEFINE r == <<d, Chain[request[d]]>>
  <2>1. r \in Rows
    BY <1>23, WorkersAssumption DEF ReprocessNext, Rows
  <2>2. Pending(row[r].version) \in RowType
    BY <2>1, PendingDoneType DEF RowType
  <2>3. row' \in [Rows -> RowType]
    BY <1>23, <2>1, <2>2 DEF ReprocessNext, Reset
  <2>4. request' \in [Docs -> Nat]
    BY <1>23 DEF ReprocessNext
  <2>. QED  BY <1>23, <2>3, <2>4 DEF ReprocessNext
<1>24. CASE UNCHANGED vars
  BY <1>24 DEF vars
<1>. QED
  <2>1. ASSUME NEW d \in Docs, Ingest(d) \/ Api(d) PROVE TypeOK'
    BY <2>1, <1>1, <1>2, <1>3, <1>4, <1>5, <1>6, <1>22, <1>23 DEF Ingest, Api
  <2>2. ASSUME NEW w \in Workers, Loop(w) \/ Crash(w) PROVE TypeOK'
    BY <2>2, <1>7, <1>8, <1>9, <1>10, <1>11 DEF Loop
  <2>3. ASSUME NEW t \in Threads, Step(t) \/ DatabaseError(t) PROVE TypeOK'
    BY <2>3, <1>12, <1>13, <1>14, <1>15, <1>16, <1>17, <1>18 DEF Step
  <2>4. ASSUME NEW r \in Rows, BackoffElapses(r) \/ LeaseExpires(r) \/ RetryFeature(r)
        PROVE TypeOK'
    BY <2>4, <1>19, <1>20, <1>21
  <2>. QED  BY <2>1, <2>2, <2>3, <2>4, <1>24 DEF Next

THEOREM TypeCorrect == Spec => []TypeOK
BY TypeInit, TypeStep, PTL DEF Spec
(* A step that starts no run keeps both limits.                              *)
NoNewRun == \A r \in Rows : row'[r].status = "running" => row[r].status = "running"

LEMMA RowsFinite == IsFiniteSet(Rows)
BY SetsAssumption, FS_Product DEF Rows

LEMMA RunningFinite ==
  ASSUME NEW table
  PROVE  /\ \A f \in Features : IsFiniteSet(RunningIn(table, f))
         /\ \A g \in Groups : IsFiniteSet(RunningGroup(table, g))
<1>1. /\ \A f \in Features : RunningIn(table, f) \subseteq Rows
      /\ \A g \in Groups : RunningGroup(table, g) \subseteq Rows
  BY DEF RunningIn, RunningGroup
<1>. QED  BY <1>1, RowsFinite, FS_Subset

(* Fewer running rows, fewer running rows of a feature or of a group.        *)
LEMMA FewerRunning ==
  ASSUME NEW old, NEW new,
         \A r \in Rows : new[r].status = "running" => old[r].status = "running"
  PROVE  /\ \A f \in Features :
              Cardinality(RunningIn(new, f)) <= Cardinality(RunningIn(old, f))
         /\ \A g \in Groups :
              Cardinality(RunningGroup(new, g)) <= Cardinality(RunningGroup(old, g))
<1>1. \A f \in Features : RunningIn(new, f) \subseteq RunningIn(old, f)
  BY DEF RunningIn
<1>2. \A g \in Groups : RunningGroup(new, g) \subseteq RunningGroup(old, g)
  BY DEF RunningGroup
<1>. QED  BY <1>1, <1>2, RunningFinite, FS_Subset

LEMMA LimitsNat ==
  /\ \A f \in Features : LaneLimit[f] \in Nat
  /\ \A g \in Groups : GroupLimit[g] \in Nat
BY LimitsAssumption

LEMMA CardsNat ==
  ASSUME NEW table
  PROVE  /\ \A f \in Features : Cardinality(RunningIn(table, f)) \in Nat
         /\ \A g \in Groups : Cardinality(RunningGroup(table, g)) \in Nat
BY RunningFinite, FS_CardinalityType

LEMMA NoNewRunKeepsCaps ==
  ASSUME LaneCap, GroupCap, NoNewRun PROVE LaneCap' /\ GroupCap'
<1>1. /\ \A f \in Features : Cardinality(RunningIn(row', f)) <= Cardinality(RunningIn(row, f))
      /\ \A g \in Groups :
           Cardinality(RunningGroup(row', g)) <= Cardinality(RunningGroup(row, g))
  BY FewerRunning DEF NoNewRun
<1>2. LaneCap'
  BY <1>1, LimitsNat, CardsNat DEF LaneCap
<1>3. GroupCap'
  BY <1>1, LimitsNat, CardsNat DEF GroupCap
<1>. QED  BY <1>2, <1>3

(* One more run, of a row whose lane and group are open, keeps both limits.  *)
LEMMA OneMoreRun ==
  ASSUME NEW old, NEW new, NEW r \in Rows,
         \A s \in Rows : new[s].status = "running" => s = r \/ old[s].status = "running"
  PROVE  /\ \A f \in Features : f # r[2] =>
              Cardinality(RunningIn(new, f)) <= Cardinality(RunningIn(old, f))
         /\ Cardinality(RunningIn(new, r[2])) <= Cardinality(RunningIn(old, r[2])) + 1
         /\ \A g \in Groups : g # Group[r[2]] =>
              Cardinality(RunningGroup(new, g)) <= Cardinality(RunningGroup(old, g))
         /\ Group[r[2]] \in Groups => Cardinality(RunningGroup(new, Group[r[2]]))
                                       <= Cardinality(RunningGroup(old, Group[r[2]])) + 1
<1>1. ASSUME NEW A, NEW B, IsFiniteSet(B), A \subseteq B \cup {r}
      PROVE  Cardinality(A) <= Cardinality(B) + 1
  <2>1. /\ IsFiniteSet(B \cup {r})
        /\ Cardinality(B \cup {r}) \in Nat /\ Cardinality(B) \in Nat
        /\ Cardinality(B \cup {r}) <= Cardinality(B) + 1
    <3>1. /\ IsFiniteSet(B \cup {r})
          /\ Cardinality(B \cup {r}) = IF r \in B THEN Cardinality(B) ELSE Cardinality(B) + 1
      BY <1>1, FS_AddElement
    <3>2. Cardinality(B \cup {r}) \in Nat /\ Cardinality(B) \in Nat
      BY <1>1, <3>1, FS_CardinalityType
    <3>. QED  BY <3>1, <3>2
  <2>2. Cardinality(A) \in Nat /\ Cardinality(A) <= Cardinality(B \cup {r})
    BY <1>1, <2>1, FS_Subset, FS_CardinalityType
  <2>. QED  BY <2>1, <2>2
<1>2. r[2] \in Features
  BY RowsPair
<1>3. ASSUME NEW f \in Features PROVE RunningIn(new, f) \subseteq
                                 RunningIn(old, f) \cup (IF f = r[2] THEN {r} ELSE {})
  BY DEF RunningIn
<1>4. ASSUME NEW g \in Groups PROVE RunningGroup(new, g) \subseteq
                          RunningGroup(old, g) \cup (IF g = Group[r[2]] THEN {r} ELSE {})
  BY DEF RunningGroup
<1>5. \A f \in Features : f # r[2] =>
        Cardinality(RunningIn(new, f)) <= Cardinality(RunningIn(old, f))
  BY <1>3, RunningFinite, FS_Subset
<1>6. \A g \in Groups : g # Group[r[2]] =>
        Cardinality(RunningGroup(new, g)) <= Cardinality(RunningGroup(old, g))
  BY <1>4, RunningFinite, FS_Subset
<1>7. Cardinality(RunningIn(new, r[2])) <= Cardinality(RunningIn(old, r[2])) + 1
  <2>1. RunningIn(new, r[2]) \subseteq RunningIn(old, r[2]) \cup {r}
    BY <1>2, <1>3
  <2>. QED  BY <1>1, <1>2, <2>1, RunningFinite
<1>8. Group[r[2]] \in Groups => Cardinality(RunningGroup(new, Group[r[2]]))
                                 <= Cardinality(RunningGroup(old, Group[r[2]])) + 1
  <2> SUFFICES ASSUME Group[r[2]] \in Groups
               PROVE  Cardinality(RunningGroup(new, Group[r[2]]))
                        <= Cardinality(RunningGroup(old, Group[r[2]])) + 1
    OBVIOUS
  <2>1. RunningGroup(new, Group[r[2]]) \subseteq RunningGroup(old, Group[r[2]]) \cup {r}
    BY <1>4
  <2>. QED  BY <1>1, <2>1, RunningFinite
<1>. QED  BY <1>5, <1>6, <1>7, <1>8

LEMMA ClaimKeepsCaps ==
  ASSUME TypeOK, LaneCap, GroupCap, NEW t \in Threads, Claim(t) PROVE LaneCap' /\ GroupCap'
<1> DEFINE table == CrashBound(row)
<1>0. \A s \in Rows : table[s].status = "running" => row[s].status = "running"
  BY DEF CrashBound, Moved
<1>1. CASE row' = table
  BY <1>0, <1>1, NoNewRunKeepsCaps DEF NoNewRun
<1>2. ASSUME NEW r \in Best(Claimable(table)), row' = [table EXCEPT ![r] = Marked(@)]
      PROVE  LaneCap' /\ GroupCap'
  <2>1. r \in Rows /\ LaneOpen(table, r[2]) /\ GroupOpen(table, r[2])
    BY DEF Best, Claimable
  <2>2. \A s \in Rows : row'[s].status = "running" => s = r \/ table[s].status = "running"
    BY <1>2, <2>1 DEF CrashBound
  <2> HIDE DEF table
  <2>3. /\ \A f \in Features : f # r[2] =>
              Cardinality(RunningIn(row', f)) <= Cardinality(RunningIn(table, f))
        /\ Cardinality(RunningIn(row', r[2])) <= Cardinality(RunningIn(table, r[2])) + 1
        /\ \A g \in Groups : g # Group[r[2]] =>
              Cardinality(RunningGroup(row', g)) <= Cardinality(RunningGroup(table, g))
        /\ Group[r[2]] \in Groups => Cardinality(RunningGroup(row', Group[r[2]]))
                                      <= Cardinality(RunningGroup(table, Group[r[2]])) + 1
    BY <2>1, <2>2, OneMoreRun
  <2>4. /\ \A f \in Features :
             Cardinality(RunningIn(table, f)) <= Cardinality(RunningIn(row, f))
        /\ \A g \in Groups :
             Cardinality(RunningGroup(table, g)) <= Cardinality(RunningGroup(row, g))
    BY <1>0, FewerRunning
  <2>5. LaneCap'
    <3> SUFFICES ASSUME NEW f \in Features
                 PROVE  Cardinality(RunningIn(row', f)) <= LaneLimit[f]
      BY DEF LaneCap
    <3>1. /\ Cardinality(RunningIn(row', f)) \in Nat /\ Cardinality(RunningIn(table, f)) \in Nat
          /\ Cardinality(RunningIn(row, f)) \in Nat /\ LaneLimit[f] \in Nat
      BY CardsNat, LimitsNat
    <3>. QED  BY <2>1, <2>3, <2>4, <3>1 DEF LaneCap, LaneOpen
  <2>6. GroupCap'
    <3> SUFFICES ASSUME NEW g \in Groups
                 PROVE  Cardinality(RunningGroup(row', g)) <= GroupLimit[g]
      BY DEF GroupCap
    <3>1. /\ Cardinality(RunningGroup(row', g)) \in Nat
          /\ Cardinality(RunningGroup(table, g)) \in Nat
          /\ Cardinality(RunningGroup(row, g)) \in Nat /\ GroupLimit[g] \in Nat
      BY CardsNat, LimitsNat
    <3>. QED  BY <2>1, <2>3, <2>4, <3>1, SetsAssumption DEF GroupCap, GroupOpen
  <2>. QED  BY <2>5, <2>6
<1>. QED  BY <1>1, <1>2 DEF Claim

(* Only a claim starts a run.                                                *)
LEMMA OnlyClaimRuns ==
  ASSUME TypeOK, [Next]_vars, \A t \in Threads : ~Claim(t) PROVE NoNewRun
<1>1. ASSUME NEW d \in Docs, NEW w \in Workers, SeedForDocument(d, w) PROVE NoNewRun
  BY <1>1 DEF SeedForDocument, NoNewRun, Pending, Fresh
<1>2. ASSUME NEW d \in Docs, NEW w \in Workers, NEW f \in Inline, RecordDone(d, f, w)
      PROVE NoNewRun
  BY <1>2 DEF RecordDone, NoNewRun, Done, Fresh, TypeOK
<1>3. ASSUME NEW d, Cascade(d) PROVE NoNewRun
  BY <1>3 DEF Cascade, NoNewRun, NoRow
<1>4. ASSUME NEW w \in Workers, RequeueRunning(w) PROVE NoNewRun
  BY <1>4 DEF RequeueRunning, NoNewRun
<1>5. ASSUME NEW w \in Workers, BeginPass(w) PROVE NoNewRun
  BY <1>5 DEF BeginPass, Ensured, NoNewRun, Pending, Done, Fresh
<1>6. ASSUME NEW t \in Threads, MarkDone(t) PROVE NoNewRun
  BY <1>6 DEF MarkDone, Moved, NoNewRun, TypeOK
<1>7. ASSUME NEW t \in Threads, MarkFailed(t) PROVE NoNewRun
  BY <1>7 DEF MarkFailed, Moved, NoNewRun, TypeOK
<1>8. ASSUME NEW r \in Rows, BackoffElapses(r) \/ LeaseExpires(r) PROVE NoNewRun
  <2>1. row[r] \in RowType /\ row \in [Rows -> RowType]
    BY DEF TypeOK
  <2>2. CASE row' = [row EXCEPT ![r].due = TRUE]
    BY <2>1, <2>2 DEF NoNewRun, RowType
  <2>3. CASE row' = [row EXCEPT ![r].stale = TRUE]
    BY <2>1, <2>3 DEF NoNewRun, RowType
  <2>. QED  BY <1>8, <2>2, <2>3 DEF BackoffElapses, LeaseExpires
<1>9. ASSUME NEW r, Reset(r) PROVE NoNewRun
  BY <1>9 DEF Reset, NoNewRun, TypeOK, Pending, Fresh
<1>10. CASE UNCHANGED row
  BY <1>10 DEF NoNewRun
<1>11. ASSUME NEW d \in Docs, Ingest(d) \/ Api(d) PROVE NoNewRun
  BY <1>1, <1>2, <1>3, <1>9, <1>10, <1>11
  DEF Ingest, Api, AddProcessing, AddActive, FailProcessing, DeleteDocument, BeginReprocess,
      ReprocessNext
<1>12. ASSUME NEW w \in Workers, Loop(w) \/ Crash(w) PROVE NoNewRun
  BY <1>4, <1>5, <1>10, <1>12 DEF Loop, Start, EndPass, Crash
<1>13. ASSUME NEW t \in Threads, Step(t) \/ DatabaseError(t) PROVE NoNewRun
  BY <1>3, <1>6, <1>7, <1>10, <1>13 DEF Step, Take, ProcessReturns, ProcessRaises, DatabaseError
<1>14. ASSUME NEW r \in Rows, BackoffElapses(r) \/ LeaseExpires(r) \/ RetryFeature(r)
       PROVE NoNewRun
  BY <1>8, <1>9, <1>14 DEF RetryFeature
<1>. QED  BY <1>10, <1>11, <1>12, <1>13, <1>14 DEF Next, vars

(* No claim, re-queue, retry or crash takes the running rows of a feature or *)
(* of a shared budget over its limit, whatever the numbers of workers,       *)
(* threads, documents and features.                                          *)
THEOREM LimitsHold == Spec => [](LaneCap /\ GroupCap)
<1>1. Init => LaneCap /\ GroupCap
  <2> SUFFICES ASSUME Init PROVE LaneCap /\ GroupCap
    OBVIOUS
  <2>1. /\ \A f \in Features : RunningIn(row, f) = {}
        /\ \A g \in Groups : RunningGroup(row, g) = {}
    BY DEF Init, NoRow, RunningIn, RunningGroup
  <2>. QED  BY <2>1, FS_EmptySet, LimitsNat DEF LaneCap, GroupCap
<1>2. TypeOK /\ LaneCap /\ GroupCap /\ [Next]_vars => (LaneCap /\ GroupCap)'
  BY ClaimKeepsCaps, OnlyClaimRuns, NoNewRunKeepsCaps
<1>. QED  BY <1>1, <1>2, TypeCorrect, PTL DEF Spec

(* The features that share a budget never run more rows at a time than the    *)
(* budget, in all workers together (claim_next under its advisory lock).     *)
THEOREM GroupsHold == Spec => []GroupCap
  BY LimitsHold, PTL

-----------------------------------------------------------------------------
(* The life cycle of documents                                              *)

LEMMA NextLifecycle == TypeOK /\ [Next]_vars => [Lifecycle!Next]_doc
<1> SUFFICES ASSUME TypeOK, [Next]_vars, doc' # doc PROVE Lifecycle!Next
  BY DEF Lifecycle!Next
<1> SUFFICES \E d \in Docs : \/ Lifecycle!Create(d) \/ Lifecycle!Publish(d)
                             \/ Lifecycle!Fail(d) \/ Lifecycle!Remove(d)
  BY DEF Lifecycle!Next
<1>1. ASSUME NEW d \in Docs, doc[d] \in {"absent", "processing"},
             doc' = [doc EXCEPT ![d] = "active"]
      PROVE  Lifecycle!Publish(d)
  BY <1>1 DEF Lifecycle!Publish
<1>2. ASSUME NEW d \in Docs, Ingest(d)
      PROVE  \/ Lifecycle!Create(d) \/ Lifecycle!Publish(d)
             \/ Lifecycle!Fail(d) \/ Lifecycle!Remove(d)
  <2>1. CASE FailProcessing(d)
    BY <2>1 DEF FailProcessing, Lifecycle!Fail
  <2>2. CASE DeleteDocument(d)
    BY <2>2 DEF DeleteDocument, Cascade, Lifecycle!Remove
  <2>3. ASSUME NEW w \in Workers, AddProcessing(d, w) PROVE Lifecycle!Create(d)
    BY <2>3 DEF AddProcessing, Lifecycle!Create
  <2>4. ASSUME NEW w \in Workers, AddActive(d, w) PROVE Lifecycle!Publish(d)
    BY <1>1, <2>4 DEF AddActive
  <2> QED BY <1>2, <2>1, <2>2, <2>3, <2>4 DEF Ingest, SeedForDocument, RecordDone
<1>3. ASSUME NEW t \in Threads, ProcessReturns(t)
      PROVE  \E d \in Docs : Lifecycle!Publish(d) \/ Lifecycle!Fail(d) \/ Lifecycle!Remove(d)
  <2>1. PICK d : d = thread[t].row[1]
    OBVIOUS
  <2>2. d \in Docs
    BY <1>3, <2>1, HoldsRow, RowsPair DEF ProcessReturns
  <2>3. /\ doc[d] = "processing"
        /\ \/ doc' = [doc EXCEPT ![d] = "active"]
           \/ doc' = [doc EXCEPT ![d] = "failed"]
           \/ doc' = [doc EXCEPT ![d] = "gone"]
    BY <1>3, <2>1 DEF ProcessReturns, Cascade
  <2> QED BY <1>1, <2>2, <2>3 DEF Lifecycle!Fail, Lifecycle!Remove
<1> QED BY <1>2, <1>3
        DEF Next, vars, Api, BeginReprocess, ReprocessNext, Loop, Start, RequeueRunning, BeginPass,
            EndPass, Crash, Step, Take, Claim, ProcessRaises, MarkDone, MarkFailed, DatabaseError,
            BackoffElapses, LeaseExpires, RetryFeature

(* Ingestion, extraction, deletion and recovery keep to the life cycle of a   *)
(* document for any number of workers, threads and crashes (ExtractFeature,  *)
(* fail_interrupted_processing, delete_document).                            *)
THEOREM RefinesLifecycle == Spec => Implements
<1>1. Init => Lifecycle!Init
  BY DEF Init, Lifecycle!Init
<1> QED BY <1>1, TypeCorrect, NextLifecycle, PTL DEF Spec, Implements, Lifecycle!Spec

-----------------------------------------------------------------------------
(* One run of a row at a time                                               *)

(* One worker process, whose runs end within their lease, and staged          *)
(* ingestion                                                                *)
OneWorker == ~SlowRuns /\ Inline = {} /\ \A v, w \in Workers : v = w

(* A row that a thread has: it runs within its lease, or was deleted          *)
Steady(x, status) ==
  \/ x.status = "running" /\ ~x.stale
  \/ x.status = "none" /\ status = "gone"

(* Threads have different rows, and they work in a pass only                  *)
HeldInv ==
  /\ \A t \in Threads, r \in Rows : thread[t].row = r => Steady(row[r], doc[r[1]])
  /\ NoDoubleRun
  /\ \A t \in Threads : worker[Owner[t]].pc # "draining" => thread[t].pc = "stopped"

LEMMA InitHeld == Init => HeldInv
  BY SetsAssumption DEF Init, HeldInv, NoDoubleRun, Stopped, Idle

(* No thread takes a row, and the rows that threads have stay as they are or  *)
(* are deleted                                                              *)
LEMMA HeldKept ==
  ASSUME HeldInv,
         \A t \in Threads : thread'[t].row \in {thread[t].row, None},
         \A t \in Threads, r \in Rows :
           thread'[t].row = r /\ Steady(row[r], doc[r[1]]) => Steady(row'[r], doc'[r[1]]),
         \A t \in Threads : worker'[Owner[t]].pc # "draining" => thread'[t].pc = "stopped"
  PROVE  HeldInv'
<1>1. ASSUME NEW t \in Threads, thread'[t].row # None PROVE thread'[t].row = thread[t].row
  BY <1>1
<1>2. ASSUME NEW t \in Threads, NEW r \in Rows, thread'[t].row = r
      PROVE  Steady(row'[r], doc'[r[1]])
  <2>1. thread[t].row = r
    BY <1>1, <1>2, SetsAssumption
  <2> QED BY <1>2, <2>1 DEF HeldInv
<1>3. NoDoubleRun'
  BY <1>1 DEF HeldInv, NoDoubleRun
<1> QED BY <1>2, <1>3 DEF HeldInv

(* Threads and processes as they were                                       *)
LEMMA RowsKept ==
  ASSUME HeldInv, UNCHANGED <<worker, thread>>,
         \A r \in Rows : Steady(row[r], doc[r[1]]) => Steady(row'[r], doc'[r[1]])
  PROVE  HeldInv'
<1>1. \A t \in Threads : worker'[Owner[t]].pc # "draining" => thread'[t].pc = "stopped"
  BY DEF HeldInv
<1> QED BY <1>1, HeldKept

LEMMA IngestHeld ==
  ASSUME OneWorker, TypeOK, HeldInv, NEW d \in Docs, Ingest(d) \/ Api(d) PROVE HeldInv'
<1>1. row \in [Rows -> RowType] /\ doc \in [Docs -> DocStatus] /\ \A r \in Rows : r[1] \in Docs
  BY RowsPair DEF TypeOK
<1>2. UNCHANGED <<worker, thread>>
  BY DEF Ingest, AddProcessing, SeedForDocument, AddActive, RecordDone, FailProcessing,
         DeleteDocument, Api, BeginReprocess, ReprocessNext
<1>3. ASSUME NEW w \in Workers, AddProcessing(d, w) PROVE HeldInv'
  BY <1>1, <1>2, <1>3, RowsKept DEF AddProcessing, Steady
<1>4. ASSUME NEW w \in Workers, SeedForDocument(d, w) PROVE HeldInv'
  BY <1>1, <1>2, <1>4, RowsKept DEF SeedForDocument, Steady
<1>5. CASE FailProcessing(d)
  BY <1>1, <1>2, <1>5, RowsKept DEF FailProcessing, Steady
<1>6. CASE DeleteDocument(d)
  BY <1>1, <1>2, <1>6, RowsKept DEF DeleteDocument, Cascade, Steady, NoRow
<1>7. CASE BeginReprocess(d)
  BY <1>2, <1>7, RowsKept DEF BeginReprocess
<1>8. CASE ReprocessNext(d)
  BY <1>1, <1>2, <1>8, RowsKept DEF ReprocessNext, Reset, Steady
<1> QED BY <1>3, <1>4, <1>5, <1>6, <1>7, <1>8
        DEF Ingest, Api, OneWorker, AddActive

LEMMA LoopHeld ==
  ASSUME OneWorker, TypeOK, HeldInv, NEW w \in Workers, Loop(w) \/ Crash(w) PROVE HeldInv'
<1>1. /\ \A t \in Threads : Owner[t] = w /\ t \in Mine(w)
      /\ worker \in [Workers -> WorkerType] /\ thread \in [Threads -> ThreadType]
  BY WorkersAssumption DEF OneWorker, TypeOK, Mine
<1>2. \A t \in Threads : thread[t].pc = "stopped" => thread[t].row = None
  BY <1>1 DEF ThreadType
<1>3. ASSUME \A t \in Threads : thread'[t].row = None,
             worker'[w].pc # "draining" => \A t \in Threads : thread'[t].pc = "stopped"
      PROVE  HeldInv'
  BY <1>1, <1>3, SetsAssumption, HeldKept
<1>4. CASE Start(w) \/ RequeueRunning(w) \/ EndPass(w)
  <2>1. \A t \in Threads : thread[t].pc = "stopped"
    BY <1>1, <1>4 DEF Start, RequeueRunning, EndPass, HeldInv
  <2> QED BY <1>2, <1>3, <1>4, <2>1 DEF Start, RequeueRunning, EndPass
<1>5. CASE BeginPass(w)
  <2>1. worker'[w].pc = "draining" /\ \A t \in Threads : thread'[t].row = None
    BY <1>1, <1>5 DEF BeginPass, Draining, Looping, Idle
  <2> QED BY <1>3, <2>1
<1>6. CASE Crash(w)
  <2>1. \A t \in Threads : thread'[t].row = None /\ thread'[t].pc = "stopped"
    BY <1>1, <1>6 DEF Crash, Stopped, Idle
  <2> QED BY <1>3, <2>1
<1> QED BY <1>4, <1>5, <1>6 DEF Loop

(* What a return does to the threads: the returning one, and the marks of     *)
(* runs that read what was rewritten                                        *)
LEMMA ReturnThreads ==
  ASSUME TypeOK, NEW t \in Threads, ProcessReturns(t)
  PROVE  /\ thread'[t].pc = "returned"
         /\ \A u \in Threads : /\ thread'[u].row = thread[u].row
                               /\ u # t => thread'[u].pc = thread[u].pc
<1>1. /\ thread \in [Threads -> ThreadType] /\ thread[t].pc = "running"
  BY DEF TypeOK, ProcessReturns
<1>2. CASE thread' = [thread EXCEPT ![t].pc = "returned"]
  BY <1>1, <1>2 DEF ThreadType
<1>3. CASE Rewrite(t, thread[t].row)
  <2>1. \A u \in Threads : /\ [thread[u] EXCEPT !.current = FALSE].row = thread[u].row
                           /\ [thread[u] EXCEPT !.current = FALSE].pc = thread[u].pc
    BY <1>1 DEF ThreadType
  <2>2. /\ [thread[t] EXCEPT !.pc = "returned"].row = thread[t].row
        /\ [thread[t] EXCEPT !.pc = "returned"].pc = "returned"
    BY <1>1 DEF ThreadType
  <2> QED BY <1>3, <2>1, <2>2 DEF Rewrite
<1> QED BY <1>2, <1>3 DEF ProcessReturns

(* A claim takes a row that no thread has: the rows threads have are neither  *)
(* due nor bounded                                                          *)
LEMMA ClaimHeld ==
  ASSUME TypeOK, HeldInv, NEW t \in Threads, Claim(t) PROVE HeldInv'
<1> DEFINE table == CrashBound(row)
<1>1. /\ row \in [Rows -> RowType] /\ thread \in [Threads -> ThreadType]
      /\ worker \in [Workers -> WorkerType] /\ Owner \in [Threads -> Workers]
      /\ thread[t].pc = "claiming" /\ thread[t].row = None
  <2>1. thread[t].pc = "claiming"
    BY DEF Claim
  <2> QED BY <2>1, WorkersAssumption DEF TypeOK, ThreadType
<1>2. ASSUME NEW r \in Rows, Steady(row[r], doc[r[1]])
      PROVE  table[r] = row[r] /\ ~Due(table[r])
  BY <1>2 DEF CrashBound, Steady, Due
<1>3. \A u \in Threads : worker[Owner[u]].pc # "draining" => thread[u].pc = "stopped"
  BY DEF HeldInv
<1>4. doc' = doc /\ worker[Owner[t]].pc = "draining"
  BY <1>1, <1>3 DEF Claim
<1> HIDE DEF table
<1>5. CASE /\ row' = table
           /\ worker' = [worker EXCEPT ![Owner[t]].drained = TRUE]
           /\ thread' = [thread EXCEPT ![t] = Stopped]
  <2>1. \A u \in Threads : thread'[u].row \in {thread[u].row, None}
    BY <1>1, <1>5 DEF Stopped, Idle
  <2>2. \A r \in Rows : Steady(row[r], doc[r[1]]) => Steady(row'[r], doc'[r[1]])
    BY <1>2, <1>4, <1>5
  <2>3. \A u \in Threads : worker'[Owner[u]].pc = worker[Owner[u]].pc
    BY <1>1, <1>5 DEF WorkerType
  <2>4. \A u \in Threads : worker'[Owner[u]].pc # "draining" => thread'[u].pc = "stopped"
    BY <1>1, <1>3, <1>5, <2>3 DEF Stopped, Idle
  <2> QED BY <2>1, <2>2, <2>4, HeldKept
<1>6. ASSUME NEW r \in Best(Claimable(table)), row' = [table EXCEPT ![r] = Marked(table[r])],
             thread' = [thread EXCEPT ![t] = Running(r)], worker' = worker
      PROVE  HeldInv'
  <2>1. r \in Rows /\ Due(table[r])
    BY DEF Best, Claimable
  <2>2. \A u \in Threads : thread[u].row # r
    BY <1>2, <2>1 DEF HeldInv
  <2>3. table \in [Rows -> RowType]
    BY <1>1, CrashBoundType DEF table
  <2>4. row'[r].status = "running" /\ ~row'[r].stale
    BY <1>6, <2>1, <2>3 DEF Marked
  <2>5. /\ thread'[t].row = r /\ \A u \in Threads \ {t} : thread'[u] = thread[u]
        /\ \A s \in Rows \ {r} : row'[s] = table[s]
    BY <1>1, <1>6, <2>1, <2>3 DEF Running
  <2>6. ASSUME NEW u \in Threads, NEW s \in Rows, thread'[u].row = s
        PROVE  Steady(row'[s], doc'[s[1]])
    <3>1. CASE u = t
      BY <2>4, <2>5, <2>6, <3>1 DEF Steady
    <3>2. CASE u # t
      <4>1. thread[u].row = s /\ s # r
        BY <2>2, <2>5, <2>6, <3>2
      <4> QED BY <1>2, <1>4, <2>5, <4>1 DEF HeldInv
    <3> QED BY <3>1, <3>2
  <2>7. NoDoubleRun'
    BY <2>2, <2>5 DEF HeldInv, NoDoubleRun
  <2>8. \A u \in Threads : worker'[Owner[u]].pc # "draining" => thread'[u].pc = "stopped"
    BY <1>3, <1>4, <1>6, <2>5
  <2> QED BY <2>6, <2>7, <2>8 DEF HeldInv
<1> QED BY <1>5, <1>6 DEF Claim, table

LEMMA StepHeld ==
  ASSUME TypeOK, HeldInv, NEW t \in Threads, Step(t) \/ DatabaseError(t) PROVE HeldInv'
<1>1. /\ row \in [Rows -> RowType] /\ thread \in [Threads -> ThreadType]
      /\ worker \in [Workers -> WorkerType] /\ Owner \in [Threads -> Workers]
  BY WorkersAssumption DEF TypeOK
<1>2. \A u \in Threads : worker[Owner[u]].pc # "draining" => thread[u].pc = "stopped"
  BY DEF HeldInv
<1>3. ASSUME UNCHANGED <<row, doc, worker>>, thread[t].pc # "stopped",
             \A u \in Threads : thread'[u].row \in {thread[u].row, None},
             \A u \in Threads \ {t} : thread'[u].pc = thread[u].pc
      PROVE  HeldInv'
  <2>1. \A u \in Threads : worker'[Owner[u]].pc # "draining" => thread'[u].pc = "stopped"
    BY <1>2, <1>3
  <2> QED BY <1>3, <2>1, HeldKept
<1>4. CASE Take(t)
  <2>1. /\ \A u \in Threads : thread'[u].row \in {thread[u].row, None}
        /\ \A u \in Threads \ {t} : thread'[u].pc = thread[u].pc
    BY <1>1, <1>4 DEF Take, Stopped, Idle
  <2>2. \A u \in Threads : worker'[Owner[u]].pc = worker[Owner[u]].pc
    BY <1>1, <1>4 DEF Take, WorkerType
  <2>3. \A u \in Threads : worker'[Owner[u]].pc # "draining" => thread'[u].pc = "stopped"
    BY <1>2, <1>4, <2>1, <2>2 DEF Take
  <2> QED BY <1>4, <2>1, <2>3, HeldKept DEF Take
<1>5. CASE ProcessReturns(t)
  <2>1. \A u \in Threads : /\ thread'[u].row = thread[u].row
                           /\ u # t => thread'[u].pc = thread[u].pc
    BY <1>5, ReturnThreads
  <2>2. worker' = worker /\ thread[t].pc = "running"
    BY <1>5 DEF ProcessReturns
  <2>3. \A u \in Threads : worker'[Owner[u]].pc # "draining" => thread'[u].pc = "stopped"
    BY <1>2, <2>1, <2>2
  <2>4. \A r \in Rows : Steady(row[r], doc[r[1]]) => Steady(row'[r], doc'[r[1]])
    <3> DEFINE d == thread[t].row[1]
    <3>1. d \in Docs /\ doc \in [Docs -> DocStatus]
      BY <2>2, HoldsRow, RowsPair DEF TypeOK
    <3>2. CASE Cascade(d)
      BY <3>1, <3>2 DEF Cascade, Steady, NoRow
    <3>3. CASE row' = row /\ (doc' = doc \/ doc[d] = "processing")
      <4>1. \A e \in Docs : doc[e] = "gone" => doc'[e] = "gone"
        BY <1>5, <3>1, <3>3 DEF ProcessReturns, Cascade
      <4> QED BY <3>3, <4>1, RowsPair DEF Steady
    <3> QED BY <1>5, <3>2, <3>3 DEF ProcessReturns
  <2> QED BY <2>1, <2>3, <2>4, HeldKept
<1>6. CASE ProcessRaises(t)
  <2>1. /\ \A u \in Threads : thread'[u].row = thread[u].row
        /\ \A u \in Threads \ {t} : thread'[u].pc = thread[u].pc
    BY <1>1, <1>6 DEF ProcessRaises, ThreadType
  <2> QED BY <1>3, <1>6, <2>1 DEF ProcessRaises
<1>7. CASE MarkDone(t) \/ MarkFailed(t)
  <2>1. /\ doc' = doc /\ worker' = worker /\ thread' = [thread EXCEPT ![t] = Looping]
        /\ \A r \in Rows : r # thread[t].row => row'[r] = row[r]
        /\ thread[t].row # None /\ thread[t].pc # "stopped"
    BY <1>1, <1>7, HoldsRow DEF MarkDone, MarkFailed
  <2>2. /\ thread'[t].row = None /\ \A u \in Threads \ {t} : thread'[u] = thread[u]
    BY <1>1, <2>1 DEF Looping, Idle
  <2>3. ASSUME NEW u \in Threads, NEW r \in Rows, thread'[u].row = r
        PROVE  row'[r] = row[r]
    <3>1. u # t
      BY <2>2, <2>3, SetsAssumption
    <3>2. thread[u].row = r /\ thread[t].row # r
      BY <2>1, <2>2, <2>3, <3>1, SetsAssumption DEF HeldInv, NoDoubleRun
    <3> QED BY <2>1, <3>2
  <2>4. \A u \in Threads : worker'[Owner[u]].pc # "draining" => thread'[u].pc = "stopped"
    BY <1>2, <2>1, <2>2
  <2> QED BY <2>1, <2>2, <2>3, <2>4, HeldKept
<1>8. CASE DatabaseError(t)
  <2>1. /\ \A u \in Threads : thread'[u].row \in {thread[u].row, None}
        /\ \A u \in Threads \ {t} : thread'[u].pc = thread[u].pc
    <3>1. CASE thread' = [thread EXCEPT ![t] = Stopped]
      BY <1>1, <3>1 DEF Stopped, Idle
    <3>2. CASE thread' = [thread EXCEPT ![t].pc = "raised"]
      BY <1>1, <3>2 DEF ThreadType
    <3> QED BY <1>8, <3>1, <3>2 DEF DatabaseError
  <2> QED BY <1>3, <1>8, <2>1 DEF DatabaseError
<1> QED BY <1>4, <1>5, <1>6, <1>7, <1>8, ClaimHeld DEF Step

LEMMA TimeHeld ==
  ASSUME OneWorker, TypeOK, HeldInv, NEW r \in Rows,
         BackoffElapses(r) \/ LeaseExpires(r) \/ RetryFeature(r)
  PROVE  HeldInv'
<1>1. row \in [Rows -> RowType] /\ UNCHANGED <<doc, worker, thread>>
  BY DEF TypeOK, BackoffElapses, LeaseExpires, RetryFeature
<1>2. CASE BackoffElapses(r)
  BY <1>1, <1>2, RowsKept DEF BackoffElapses, Steady
<1>3. CASE RetryFeature(r)
  BY <1>1, <1>3, RowsKept DEF RetryFeature, Reset, Steady
<1>4. CASE LeaseExpires(r)
  <2>1. \A t \in Threads : thread[t].row # r
    BY <1>4 DEF LeaseExpires, Runners, OneWorker
  <2>2. \A s \in Rows \ {r} : row'[s] = row[s]
    BY <1>1, <1>4 DEF LeaseExpires
  <2>3. \A t \in Threads : worker'[Owner[t]].pc # "draining" => thread'[t].pc = "stopped"
    BY <1>1 DEF HeldInv
  <2> QED BY <1>1, <2>1, <2>2, <2>3, HeldKept
<1> QED BY <1>2, <1>3, <1>4

LEMMA NextHeld == OneWorker /\ TypeOK /\ HeldInv /\ [Next]_vars => HeldInv'
<1> SUFFICES ASSUME OneWorker, TypeOK, HeldInv, [Next]_vars PROVE HeldInv'
  OBVIOUS
<1>1. CASE UNCHANGED vars
  BY <1>1, RowsKept DEF vars
<1> QED BY <1>1, IngestHeld, LoopHeld, StepHeld, TimeHeld DEF Next

(* With one worker process, whatever crashes, database errors, retries and    *)
(* deletes fall between: a document's feature has one run at a time           *)
(* (claim_next, reset, recover_running).                                     *)
THEOREM RunsAreSingle == ASSUME OneWorker PROVE Spec => []NoDoubleRun
<1>1. TypeOK /\ HeldInv /\ [Next]_vars => HeldInv'
  BY NextHeld
<1>2. HeldInv => NoDoubleRun
  BY DEF HeldInv
<1> QED BY <1>1, <1>2, InitHeld, TypeCorrect, PTL DEF Spec

-----------------------------------------------------------------------------
(* What is finished                                                         *)

Settled(status) == status \in {"done", "pending", "none"}

LEMMA NextFinished ==
  ASSUME TypeOK, HeldInv, [Next]_vars, NEW r \in Rows, row[r].status = "done"
  PROVE  Settled(row'[r].status)
<1>1. row \in [Rows -> RowType]
  BY DEF TypeOK
<1>2. CASE row' = row
  BY <1>2 DEF Settled
<1>3. ASSUME NEW d \in Docs, Cascade(d) PROVE Settled(row'[r].status)
  BY <1>3 DEF Cascade, NoRow, Settled
<1>4. ASSUME NEW s, Reset(s) PROVE Settled(row'[r].status)
  BY <1>1, <1>4 DEF Reset, Pending, Fresh, Settled
<1>5. ASSUME NEW d \in Docs, Ingest(d) \/ Api(d) PROVE Settled(row'[r].status)
  <2>1. ASSUME NEW w \in Workers, SeedForDocument(d, w) PROVE Settled(row'[r].status)
    BY <2>1 DEF SeedForDocument, Settled
  <2>2. ASSUME NEW w \in Workers, NEW f \in Inline, RecordDone(d, f, w)
        PROVE  Settled(row'[r].status)
    BY <1>1, <2>2 DEF RecordDone, Done, Fresh, Settled
  <2> QED BY <1>2, <1>3, <1>4, <1>5, <2>1, <2>2
          DEF Ingest, Api, AddProcessing, AddActive, FailProcessing, DeleteDocument,
              BeginReprocess, ReprocessNext
<1>6. ASSUME NEW w \in Workers, Loop(w) \/ Crash(w) PROVE Settled(row'[r].status)
  <2>1. CASE RequeueRunning(w)
    BY <1>1, <2>1 DEF RequeueRunning, Settled
  <2>2. CASE BeginPass(w)
    BY <1>1, <2>2 DEF BeginPass, Ensured, Pending, Done, Fresh, Settled
  <2> QED BY <1>2, <1>6, <2>1, <2>2 DEF Loop, Start, EndPass, Crash
<1>7. ASSUME NEW t \in Threads, Step(t) \/ DatabaseError(t) PROVE Settled(row'[r].status)
  <2>1. CASE Claim(t)
    <3>1. CrashBound(row)[r] = row[r] /\ CrashBound(row) \in [Rows -> RowType]
      BY <1>1, CrashBoundType DEF CrashBound
    <3>2. ~Due(CrashBound(row)[r])
      BY <3>1 DEF Due
    <3>3. \A s \in Best(Claimable(CrashBound(row))) : s \in Rows /\ s # r
      BY <3>2 DEF Best, Claimable
    <3> HIDE DEF CrashBound
    <3>4. row'[r] = row[r]
      BY <2>1, <3>1, <3>3 DEF Claim
    <3> QED BY <3>4 DEF Settled
  <2>2. CASE MarkDone(t)
    BY <1>1, <2>2 DEF MarkDone, Moved, Settled
  <2>3. CASE MarkFailed(t)
    <3>1. thread[t].row # r
      BY DEF HeldInv, Steady
    <3> QED BY <1>1, <2>3, <3>1 DEF MarkFailed, Settled
  <2>4. CASE ProcessReturns(t)
    <3>1. thread[t].row[1] \in Docs
      BY <2>4, HoldsRow, RowsPair DEF ProcessReturns
    <3> QED BY <1>2, <1>3, <2>4, <3>1 DEF ProcessReturns
  <2> QED BY <1>2, <1>7, <2>1, <2>2, <2>3, <2>4 DEF Step, Take, ProcessRaises, DatabaseError
<1>8. CASE BackoffElapses(r) \/ LeaseExpires(r)
  BY <1>8 DEF BackoffElapses, LeaseExpires
<1>9. ASSUME NEW s \in Rows, BackoffElapses(s) \/ LeaseExpires(s) \/ RetryFeature(s)
      PROVE  Settled(row'[r].status)
  <2>1. CASE s # r /\ (BackoffElapses(s) \/ LeaseExpires(s))
    BY <1>1, <2>1 DEF BackoffElapses, LeaseExpires, Settled
  <2> QED BY <1>4, <1>8, <1>9, <2>1 DEF RetryFeature
<1> QED BY <1>2, <1>5, <1>6, <1>7, <1>9 DEF Next, vars

(* With one worker process, a result that arrives late never turns a finished *)
(* row into a failure or a run (mark_failed, claim_next).                    *)
THEOREM FinishedStays == ASSUME OneWorker PROVE Spec => FinishedStaysFinished
<1>1. TypeOK /\ HeldInv /\ [Next]_vars => HeldInv'
  BY NextHeld
<1>2. TypeOK /\ HeldInv /\ [Next]_vars
        => [\A r \in Rows : row[r].status = "done"
                            => row'[r].status \in {"done", "pending", "none"}]_vars
  BY NextFinished DEF Settled
<1> QED BY <1>1, <1>2, InitHeld, TypeCorrect, PTL DEF Spec, FinishedStaysFinished

-----------------------------------------------------------------------------
(* Done means built                                                         *)

(* Staged mode: extraction is a stage, and every other stage has a            *)
(* prerequisite (the processors of the catalogue)                            *)
Rooted == Extract \in Registered /\ \A f \in Features \ {Extract} : Prereqs(f) # {}

(* Until a document is extracted, no stage of it is done or runs but the      *)
(* extraction itself, which has not returned                                 *)
FreshInv ==
  /\ \A d \in Docs : "seed" \in intake[d].left => doc[d] # "absent"
  /\ \A r \in Rows : doc[r[1]] = "absent" => row[r].status = "none"
  /\ \A r \in Rows : doc[r[1]] = "processing" => row[r].status # "done"
  /\ \A t \in Threads, r \in Rows :
       thread[t].row = r /\ doc[r[1]] = "processing" => r[2] = Extract /\ thread[t].pc # "returned"

(* An active document was extracted, and a run that returned stored its       *)
(* output                                                                   *)
BuiltInv ==
  /\ \A d \in Docs : doc[d] = "active" => output[<<d, Extract>>] # "none"
  /\ \A t \in Threads, r \in Rows :
       thread[t].row = r /\ thread[t].pc = "returned" /\ doc[r[1]] = "active" /\ r[2] \in Registered
         => output[r] # "none"
  /\ DoneMeansBuilt

LEMMA InitBuilt == Init => FreshInv /\ BuiltInv
  BY RowsPair, SetsAssumption
     DEF Init, FreshInv, BuiltInv, DoneMeansBuilt, NoRow, Stopped, Idle, NoIntake

LEMMA FreshKept ==
  ASSUME FreshInv,
         \A d \in Docs : doc'[d] \in {"absent", "processing"} => doc'[d] = doc[d],
         \A d \in Docs : "seed" \in intake'[d].left => "seed" \in intake[d].left,
         \A r \in Rows : doc'[r[1]] = "absent" /\ row[r].status = "none" => row'[r].status = "none",
         \A r \in Rows : doc'[r[1]] = "processing" /\ row'[r].status = "done"
                         => row[r].status = "done",
         \A t \in Threads, r \in Rows :
           thread'[t].row = r /\ doc'[r[1]] = "processing"
             => \/ thread[t].row = r /\ (thread'[t].pc = "returned" => thread[t].pc = "returned")
                \/ r[2] = Extract /\ thread'[t].pc # "returned"
  PROVE  FreshInv'
<1>1. \A r \in Rows : r[1] \in Docs
  BY RowsPair
<1>2. \A r \in Rows : doc'[r[1]] \in {"absent", "processing"} => doc'[r[1]] = doc[r[1]]
  BY <1>1
<1>3. ASSUME NEW t \in Threads, NEW r \in Rows, thread'[t].row = r, doc'[r[1]] = "processing"
      PROVE  r[2] = Extract /\ thread'[t].pc # "returned"
  BY <1>2, <1>3 DEF FreshInv
<1> QED BY <1>2, <1>3 DEF FreshInv

LEMMA NextFresh ==
  ASSUME OneWorker, Rooted, TypeOK, HeldInv, FreshInv, [Next]_vars PROVE FreshInv'
<1>1. /\ row \in [Rows -> RowType] /\ doc \in [Docs -> DocStatus]
      /\ thread \in [Threads -> ThreadType] /\ intake \in [Docs -> IntakeType]
      /\ \A r \in Rows : r[1] \in Docs
  BY RowsPair DEF TypeOK
<1>2. ASSUME NEW d \in Docs, Ingest(d) \/ Api(d) PROVE FreshInv'
  <2>1. thread' = thread
    BY <1>2 DEF Ingest, AddProcessing, SeedForDocument, AddActive, RecordDone, FailProcessing,
                DeleteDocument, Api, BeginReprocess, ReprocessNext
  <2>2. ASSUME NEW w \in Workers, AddProcessing(d, w) PROVE FreshInv'
    <3>1. /\ doc[d] = "absent" /\ doc' = [doc EXCEPT ![d] = "processing"] /\ row' = row
          /\ \A e \in Docs \ {d} : intake'[e] = intake[e]
      BY <1>1, <2>2 DEF AddProcessing
    <3>2. \A t \in Threads, r \in Rows : thread[t].row = r => doc[r[1]] # "absent"
      BY DEF HeldInv, Steady, FreshInv
    <3> QED BY <1>1, <2>1, <3>1, <3>2 DEF FreshInv
  <2>3. ASSUME NEW w \in Workers, SeedForDocument(d, w) PROVE FreshInv'
    <3>1. "seed" \in intake[d].left /\ doc' = doc /\ intake' = [intake EXCEPT ![d] = Issued(@, "seed")]
      BY <2>3 DEF SeedForDocument
    <3>2. \A e \in Docs : "seed" \in intake'[e].left => "seed" \in intake[e].left
      BY <1>1, <3>1
    <3>3. \A r \in Rows : /\ doc[r[1]] = "absent" => row'[r] = row[r]
                          /\ row'[r].status = "done" => row[r].status = "done"
      BY <2>3, <3>1 DEF SeedForDocument, FreshInv, Pending, Fresh
    <3> QED BY <2>1, <3>1, <3>2, <3>3, FreshKept
  <2>4. CASE FailProcessing(d)
    BY <1>1, <2>1, <2>4, FreshKept DEF FailProcessing
  <2>5. CASE DeleteDocument(d)
    BY <1>1, <2>1, <2>5, FreshKept DEF DeleteDocument, Cascade, NoRow
  <2>6. CASE BeginReprocess(d)
    BY <2>1, <2>6, FreshKept DEF BeginReprocess
  <2>7. CASE ReprocessNext(d)
    <3>1. \A r \in Rows : row'[r].status \in {row[r].status, "pending"}
                          /\ (row[r].status = "none" => row'[r] = row[r])
      BY <1>1, <2>7 DEF ReprocessNext, Reset, Pending, Fresh
    <3> QED BY <2>1, <2>7, <3>1, FreshKept DEF ReprocessNext
  <2> QED BY <1>2, <2>2, <2>3, <2>4, <2>5, <2>6, <2>7 DEF Ingest, Api, OneWorker, AddActive
<1>3. ASSUME NEW w \in Workers, Loop(w) \/ Crash(w) PROVE FreshInv'
  <2>1. doc' = doc
    BY <1>3 DEF Loop, Start, RequeueRunning, BeginPass, EndPass, Crash
  <2>2. \A t \in Threads : thread'[t] = thread[t] \/ thread'[t].row = None
    <3>1. CASE BeginPass(w)
      BY <1>1, <3>1 DEF BeginPass, Looping, Idle
    <3>2. CASE Crash(w)
      BY <1>1, <3>2 DEF Crash, Stopped, Idle
    <3> QED BY <1>3, <3>1, <3>2 DEF Loop, Start, RequeueRunning, EndPass
  <2>3. \A d \in Docs : "seed" \in intake'[d].left => "seed" \in intake[d].left
    <3>1. CASE Crash(w)
      BY <1>1, <3>1 DEF Crash, NoIntake
    <3> QED BY <1>3, <3>1 DEF Loop, Start, RequeueRunning, BeginPass, EndPass
  <2>4. \A r \in Rows : /\ doc[r[1]] = "absent" /\ row[r].status = "none" => row'[r].status = "none"
                        /\ doc[r[1]] = "processing" /\ row'[r].status = "done"
                           => row[r].status = "done"
    <3>1. CASE RequeueRunning(w)
      BY <3>1 DEF RequeueRunning, Moved
    <3>2. CASE BeginPass(w)
      BY <3>2 DEF BeginPass, Ensured, Pending, Fresh
    <3> QED BY <1>3, <3>1, <3>2 DEF Loop, Start, EndPass, Crash
  <2> QED BY <2>1, <2>2, <2>3, <2>4, FreshKept, SetsAssumption
<1>4. ASSUME NEW t \in Threads, Claim(t) PROVE FreshInv'
  <2> DEFINE table == CrashBound(row)
  <2>1. /\ table \in [Rows -> RowType]
        /\ \A r \in Rows : /\ row[r].status = "none" <=> table[r].status = "none"
                           /\ row[r].status = "done" <=> table[r].status = "done"
    BY <1>1, CrashBoundType DEF CrashBound, Moved
  <2>2. doc' = doc /\ intake' = intake
    BY <1>4 DEF Claim
  <2>3. CASE row' = table /\ thread' = [thread EXCEPT ![t] = Stopped]
    <3> HIDE DEF table
    <3>1. \A u \in Threads : thread'[u] = thread[u] \/ thread'[u].row = None
      BY <1>1, <2>3 DEF Stopped, Idle
    <3> QED BY <2>1, <2>2, <2>3, <3>1, FreshKept, SetsAssumption
  <2>4. ASSUME NEW r \in Best(Claimable(table)), row' = [table EXCEPT ![r] = Marked(table[r])],
               thread' = [thread EXCEPT ![t] = Running(r)]
        PROVE  FreshInv'
    <3>1. r \in Rows /\ Due(table[r]) /\ Ready(table, r)
      BY DEF Best, Claimable
    <3> HIDE DEF table
    <3>2. ASSUME doc[r[1]] = "processing", r[2] # Extract PROVE FALSE
      <4>1. r[1] \in Docs /\ r[2] \in Features
        BY <3>1, RowsPair
      <4>2. PICK p \in Features : <<r[2], p>> \in Deps
        BY <3>2, <4>1 DEF Rooted, Prereqs
      <4>3. <<r[1], p>> \in Rows /\ table[<<r[1], p>>].status = "done"
        BY <3>1, <4>1, <4>2 DEF Ready, Prereqs, Rows
      <4> QED BY <2>1, <3>2, <4>3 DEF FreshInv
    <3>3. /\ thread'[t].row = r /\ thread'[t].pc = "running"
          /\ \A u \in Threads \ {t} : thread'[u] = thread[u]
      BY <1>1, <2>4 DEF Running
    <3>4. /\ row'[r].status = "running" /\ table[r].status # "none"
          /\ \A s \in Rows \ {r} : row'[s] = table[s]
      BY <2>1, <2>4, <3>1 DEF Marked, Due
    <3>5. \A u \in Threads, s \in Rows :
            thread'[u].row = s /\ doc'[s[1]] = "processing"
              => \/ thread[u].row = s /\ (thread'[u].pc = "returned" => thread[u].pc = "returned")
                 \/ s[2] = Extract /\ thread'[u].pc # "returned"
      BY <2>2, <3>2, <3>3
    <3> QED BY <2>1, <2>2, <3>4, <3>5, FreshKept
  <2> QED BY <1>4, <2>3, <2>4 DEF Claim
<1>5. ASSUME NEW t \in Threads, ProcessReturns(t) PROVE FreshInv'
  <2> DEFINE s == thread[t].row
  <2>1. s \in Rows /\ s[1] \in Docs /\ intake' = intake
    BY <1>5, HoldsRow, RowsPair DEF ProcessReturns
  <2>2. /\ \A e \in Docs \ {s[1]} : doc'[e] = doc[e]
        /\ doc'[s[1]] \in {"absent", "processing"} => doc' = doc
        /\ \A r \in Rows : row'[r] = row[r] \/ row'[r].status = "none"
    BY <1>1, <1>5, <2>1 DEF ProcessReturns, Cascade, NoRow
  <2>3. doc'[s[1]] # "processing"
    <3>1. doc[s[1]] = "processing" => s[2] = Extract
      BY <2>1 DEF FreshInv
    <3> QED BY <1>1, <1>5, <2>1, <3>1 DEF ProcessReturns, Cascade, Rooted
  <2>4. \A u \in Threads : /\ thread'[u].row = thread[u].row
                           /\ u # t => thread'[u].pc = thread[u].pc
    BY <1>5, ReturnThreads
  <2>5. \A u \in Threads, r \in Rows :
          thread'[u].row = r /\ doc'[r[1]] = "processing"
            => thread[u].row = r /\ (thread'[u].pc = "returned" => thread[u].pc = "returned")
    BY <2>3, <2>4
  <2>6. \A e \in Docs : doc'[e] \in {"absent", "processing"} => doc'[e] = doc[e]
    BY <2>2
  <2> HIDE DEF s
  <2> QED BY <2>1, <2>2, <2>5, <2>6, FreshKept
<1>6. ASSUME NEW t \in Threads,
             Take(t) \/ ProcessRaises(t) \/ MarkDone(t) \/ MarkFailed(t) \/ DatabaseError(t)
      PROVE  FreshInv'
  <2>1. doc' = doc /\ intake' = intake
    BY <1>6 DEF Take, ProcessRaises, MarkDone, MarkFailed, DatabaseError
  <2>2. \A u \in Threads :
          \/ thread'[u] = thread[u] \/ thread'[u].row = None
          \/ thread'[u].row = thread[u].row /\ thread'[u].pc = "raised"
    <3>1. CASE thread' = [thread EXCEPT ![t].pc = "raised"]
      BY <1>1, <3>1 DEF ThreadType
    <3>2. ASSUME NEW x, thread' = [thread EXCEPT ![t] = x], x.row = None
          PROVE  thread'[t].row = None /\ \A u \in Threads \ {t} : thread'[u] = thread[u]
      BY <1>1, <3>2
    <3>3. Looping.row = None /\ Stopped.row = None /\ Idle("claiming").row = None
      BY DEF Looping, Stopped, Idle
    <3> QED BY <1>6, <3>1, <3>2, <3>3
            DEF Take, ProcessRaises, MarkDone, MarkFailed, DatabaseError
  <2>3. \A u \in Threads, r \in Rows :
          thread'[u].row = r
            => thread[u].row = r /\ (thread'[u].pc = "returned" => thread[u].pc = "returned")
    BY <2>2, SetsAssumption
  <2>4. \A r \in Rows : /\ row[r].status = "none" => row'[r].status = "none"
                        /\ doc[r[1]] = "processing" /\ row'[r].status = "done"
                           => row[r].status = "done"
    <3>1. CASE MarkDone(t)
      <4>1. ASSUME NEW r \in Rows, doc[r[1]] = "processing" PROVE thread[t].row # r
        BY <3>1, <4>1 DEF MarkDone, FreshInv
      <4> QED BY <1>1, <3>1, <4>1 DEF MarkDone
    <3>2. CASE MarkFailed(t)
      BY <1>1, <3>2 DEF MarkFailed, Moved
    <3> QED BY <1>6, <3>1, <3>2 DEF Take, ProcessRaises, DatabaseError
  <2> QED BY <2>1, <2>3, <2>4, FreshKept
<1>7. ASSUME NEW s \in Rows, BackoffElapses(s) \/ LeaseExpires(s) \/ RetryFeature(s)
      PROVE  FreshInv'
  <2>1. UNCHANGED <<doc, intake, thread>>
    BY <1>7 DEF BackoffElapses, LeaseExpires, RetryFeature
  <2>2. \A r \in Rows : /\ row[r].status = "none" => row'[r].status = "none"
                        /\ row'[r].status = "done" => row[r].status = "done"
    <3>1. CASE RetryFeature(s)
      BY <1>1, <3>1 DEF RetryFeature, Reset, Pending, Fresh
    <3>2. CASE BackoffElapses(s) \/ LeaseExpires(s)
      BY <1>1, <3>2 DEF BackoffElapses, LeaseExpires, RowType
    <3> QED BY <1>7, <3>1, <3>2
  <2> QED BY <2>1, <2>2, FreshKept
<1>8. CASE UNCHANGED vars
  BY <1>8, FreshKept DEF vars
<1> QED BY <1>2, <1>3, <1>4, <1>5, <1>6, <1>7, <1>8 DEF Next, Step

LEMMA RootRow ==
  ASSUME NEW d \in Docs
  PROVE  \E r \in Rows : r = <<d, Extract>> /\ r[1] = d /\ r[2] = Extract
<1>1. <<d, Extract>> \in Rows
  BY SetsAssumption DEF Rows
<1> QED BY <1>1

LEMMA BuiltKept ==
  ASSUME BuiltInv,
         \A d \in Docs : doc'[d] = "active" => doc[d] = "active",
         \A r \in Rows : output'[r] = "none" /\ doc'[r[1]] = "active" => output[r] = "none",
         \A t \in Threads, r \in Rows :
           thread'[t].row = r /\ thread'[t].pc = "returned"
             => thread[t].row = r /\ thread[t].pc = "returned",
         \A r \in Rows :
           doc'[r[1]] = "active" /\ r[2] \in Registered /\ row'[r].status = "done"
             => row[r].status = "done"
  PROVE  BuiltInv'
<1>1. \A r \in Rows : doc'[r[1]] = "active" => doc[r[1]] = "active"
  BY RowsPair
<1>3. ASSUME NEW d \in Docs, doc'[d] = "active" PROVE output'[<<d, Extract>>] # "none"
  <2>1. output[<<d, Extract>>] # "none"
    BY <1>3 DEF BuiltInv
  <2>2. PICK r \in Rows : r = <<d, Extract>> /\ r[1] = d
    BY RootRow
  <2> QED BY <1>3, <2>1, <2>2
<1>4. ASSUME NEW t \in Threads, NEW r \in Rows, thread'[t].row = r, thread'[t].pc = "returned",
             doc'[r[1]] = "active", r[2] \in Registered
      PROVE  output'[r] # "none"
  BY <1>1, <1>4 DEF BuiltInv
<1>5. DoneMeansBuilt'
  BY <1>1 DEF BuiltInv, DoneMeansBuilt
<1> QED BY <1>3, <1>4, <1>5 DEF BuiltInv

LEMMA BuiltSame ==
  ASSUME BuiltInv, UNCHANGED <<doc, output>>,
         \A t \in Threads : thread'[t] = thread[t] \/ thread'[t].pc # "returned",
         \A r \in Rows : r[2] \in Registered /\ row'[r].status = "done" => row[r].status = "done"
  PROVE  BuiltInv'
<1>1. \A t \in Threads, r \in Rows :
        thread'[t].row = r /\ thread'[t].pc = "returned"
          => thread[t].row = r /\ thread[t].pc = "returned"
  OBVIOUS
<1>2. /\ \A d \in Docs : doc'[d] = "active" => doc[d] = "active"
      /\ \A r \in Rows : output'[r] = "none" /\ doc'[r[1]] = "active" => output[r] = "none"
      /\ \A r \in Rows :
           doc'[r[1]] = "active" /\ r[2] \in Registered /\ row'[r].status = "done"
             => row[r].status = "done"
  OBVIOUS
<1> QED BY <1>1, <1>2, BuiltKept

(* A rewrite stores the output and clears no other                           *)
LEMMA RewriteStores ==
  ASSUME TypeOK, NEW t \in Threads, NEW r \in Rows, Rewrite(t, r)
  PROVE  output'[r] # "none" /\ \A s \in Rows : output'[s] = "none" => output[s] = "none"
  BY DEF Rewrite

LEMMA ReturnBuilt ==
  ASSUME Rooted, TypeOK, FreshInv, BuiltInv, NEW t \in Threads, ProcessReturns(t)
  PROVE  BuiltInv'
<1>1. PICK r \in Rows : thread[t].row = r
  BY HoldsRow DEF ProcessReturns
<1>2. /\ doc \in [Docs -> DocStatus] /\ r[1] \in Docs /\ r = <<r[1], r[2]>>
      /\ \A s \in Rows : s[1] \in Docs
  BY RowsPair DEF TypeOK, Rows
<1>3. /\ thread'[t].pc = "returned"
      /\ \A u \in Threads : /\ thread'[u].row = thread[u].row
                            /\ u # t => thread'[u].pc = thread[u].pc
  BY ReturnThreads
<1>4. ASSUME \A d \in Docs : doc'[d] = "active" => doc[d] = "active",
             \A s \in Rows : output'[s] = "none" /\ doc'[s[1]] = "active" => output[s] = "none",
             \A s \in Rows : row'[s].status = "done" => row[s].status = "done",
             doc'[r[1]] = "active" /\ r[2] \in Registered => output'[r] # "none"
      PROVE  BuiltInv'
  <2>1. ASSUME NEW d \in Docs, doc'[d] = "active" PROVE output'[<<d, Extract>>] # "none"
    <3>1. PICK s \in Rows : s = <<d, Extract>> /\ s[1] = d
      BY RootRow
    <3> QED BY <1>4, <2>1, <3>1 DEF BuiltInv
  <2>2. ASSUME NEW u \in Threads, NEW s \in Rows, thread'[u].row = s, thread'[u].pc = "returned",
               doc'[s[1]] = "active", s[2] \in Registered
        PROVE  output'[s] # "none"
    <3>1. CASE u = t
      BY <1>1, <1>3, <1>4, <2>2, <3>1
    <3>2. CASE u # t
      <4>1. output[s] # "none"
        BY <1>2, <1>3, <1>4, <2>2, <3>2 DEF BuiltInv
      <4> QED BY <1>4, <2>2, <4>1
    <3> QED BY <3>1, <3>2
  <2>3. DoneMeansBuilt'
    BY <1>2, <1>4 DEF BuiltInv, DoneMeansBuilt
  <2> QED BY <2>1, <2>2, <2>3 DEF BuiltInv
<1>5. CASE /\ r[2] = Extract /\ doc[r[1]] = "processing"
           /\ doc' = [doc EXCEPT ![r[1]] = "active"] /\ Rewrite(t, r) /\ UNCHANGED row
  <2>1. /\ output'[r] # "none" /\ \A s \in Rows : output'[s] = "none" => output[s] = "none"
        /\ \A d \in Docs \ {r[1]} : doc'[d] = doc[d]
    BY <1>2, <1>5, RewriteStores
  <2>2. ASSUME NEW d \in Docs, doc'[d] = "active" PROVE output'[<<d, Extract>>] # "none"
    <3>1. CASE d = r[1]
      BY <1>2, <1>5, <2>1, <3>1
    <3>2. CASE d # r[1]
      <4>1. PICK s \in Rows : s = <<d, Extract>>
        BY RootRow
      <4> QED BY <2>1, <2>2, <3>2, <4>1 DEF BuiltInv
    <3> QED BY <3>1, <3>2
  <2>3. ASSUME NEW u \in Threads, NEW s \in Rows, thread'[u].row = s, thread'[u].pc = "returned",
               doc'[s[1]] = "active", s[2] \in Registered
        PROVE  output'[s] # "none"
    <3>1. CASE u = t
      BY <1>1, <1>3, <2>1, <2>3, <3>1
    <3>2. CASE u # t
      <4>1. thread[u].row = s /\ thread[u].pc = "returned"
        BY <1>3, <2>3, <3>2
      <4>2. s[1] # r[1]
        BY <1>5, <4>1 DEF FreshInv
      <4> QED BY <1>2, <2>1, <2>3, <4>1, <4>2 DEF BuiltInv
    <3> QED BY <3>1, <3>2
  <2>4. DoneMeansBuilt'
    <3> SUFFICES ASSUME NEW s \in Rows, row[s].status = "done", doc'[s[1]] = "active",
                        s[2] \in Registered
                 PROVE  output'[s] # "none"
      BY <1>5 DEF DoneMeansBuilt
    <3>1. s[1] # r[1]
      BY <1>5 DEF FreshInv
    <3> QED BY <1>2, <2>1, <3>1 DEF BuiltInv, DoneMeansBuilt
  <2> QED BY <2>2, <2>3, <2>4 DEF BuiltInv
<1>6. CASE doc' = [doc EXCEPT ![r[1]] = "failed"] /\ UNCHANGED <<row, output>>
  BY <1>2, <1>4, <1>6
<1>7. CASE Cascade(r[1])
  BY <1>2, <1>4, <1>7 DEF Cascade, NoRow
<1>8. CASE r[2] # Extract /\ Rewrite(t, r) /\ UNCHANGED <<doc, row>>
  BY <1>4, <1>8, RewriteStores
<1>9. CASE /\ UNCHANGED <<doc, row, output>>
           /\ r[2] \in Registered => doc[r[1]] \notin
                                       (IF r[2] = Extract THEN {"processing"} ELSE {"active"})
  <2>1. ASSUME doc[r[1]] = "active", r[2] \in Registered PROVE output[r] # "none"
    <3>1. r = <<r[1], Extract>>
      BY <1>2, <1>9, <2>1
    <3> QED BY <1>2, <2>1, <3>1 DEF BuiltInv
  <2> QED BY <1>4, <1>9, <2>1
<1> QED BY <1>1, <1>5, <1>6, <1>7, <1>8, <1>9 DEF ProcessReturns

LEMMA NextBuilt ==
  ASSUME OneWorker, Rooted, TypeOK, HeldInv, FreshInv, BuiltInv, [Next]_vars PROVE BuiltInv'
<1>1. /\ row \in [Rows -> RowType] /\ doc \in [Docs -> DocStatus]
      /\ output \in [Rows -> {"none", "current", "stale"}]
      /\ thread \in [Threads -> ThreadType] /\ \A r \in Rows : r[1] \in Docs
  BY RowsPair DEF TypeOK
<1>2. ASSUME NEW d \in Docs, Ingest(d) \/ Api(d) PROVE BuiltInv'
  <2>1. thread' = thread
    BY <1>2 DEF Ingest, AddProcessing, SeedForDocument, AddActive, RecordDone, FailProcessing,
                DeleteDocument, Api, BeginReprocess, ReprocessNext
  <2>2. \A r \in Rows : row'[r].status = "done" => row[r].status = "done"
    <3>1. ASSUME NEW w \in Workers, SeedForDocument(d, w)
          PROVE  \A r \in Rows : row'[r].status = "done" => row[r].status = "done"
      BY <3>1 DEF SeedForDocument, Pending, Fresh
    <3>2. CASE DeleteDocument(d)
      BY <3>2 DEF DeleteDocument, Cascade, NoRow
    <3>3. CASE ReprocessNext(d)
      BY <1>1, <3>3 DEF ReprocessNext, Reset, Pending, Fresh
    <3> QED BY <1>2, <3>1, <3>2, <3>3
            DEF Ingest, AddProcessing, AddActive, FailProcessing, Api, BeginReprocess, OneWorker
  <2>3. \A e \in Docs : doc'[e] = "active" => doc[e] = "active"
    BY <1>1, <1>2 DEF Ingest, AddProcessing, SeedForDocument, AddActive, RecordDone, FailProcessing,
                      DeleteDocument, Cascade, Api, BeginReprocess, ReprocessNext, OneWorker
  <2>4. \A r \in Rows : output'[r] = "none" /\ doc'[r[1]] = "active" => output[r] = "none"
    <3>1. CASE DeleteDocument(d)
      BY <1>1, <3>1 DEF DeleteDocument, Cascade
    <3> QED BY <1>2, <3>1 DEF Ingest, AddProcessing, SeedForDocument, AddActive, FailProcessing,
                              Api, BeginReprocess, ReprocessNext, OneWorker
  <2>5. /\ \A t \in Threads, r \in Rows :
             thread'[t].row = r /\ thread'[t].pc = "returned"
               => thread[t].row = r /\ thread[t].pc = "returned"
        /\ \A r \in Rows :
             doc'[r[1]] = "active" /\ r[2] \in Registered /\ row'[r].status = "done"
               => row[r].status = "done"
    BY <2>1, <2>2
  <2> QED BY <2>3, <2>4, <2>5, BuiltKept
<1>3. ASSUME NEW w \in Workers, Loop(w) \/ Crash(w) PROVE BuiltInv'
  <2>1. UNCHANGED <<doc, output>>
    BY <1>3 DEF Loop, Start, RequeueRunning, BeginPass, EndPass, Crash
  <2>2. \A t \in Threads : thread'[t] = thread[t] \/ thread'[t].pc # "returned"
    <3>1. CASE BeginPass(w)
      BY <1>1, <3>1 DEF BeginPass, Looping, Idle
    <3>2. CASE Crash(w)
      BY <1>1, <3>2 DEF Crash, Stopped, Idle
    <3> QED BY <1>3, <3>1, <3>2 DEF Loop, Start, RequeueRunning, EndPass
  <2>3. \A r \in Rows : r[2] \in Registered /\ row'[r].status = "done" => row[r].status = "done"
    <3>1. CASE RequeueRunning(w)
      BY <3>1 DEF RequeueRunning, Moved
    <3>2. CASE BeginPass(w)
      BY <3>2 DEF BeginPass, Ensured, Pending, Fresh
    <3> QED BY <1>3, <3>1, <3>2 DEF Loop, Start, EndPass, Crash
  <2> QED BY <2>1, <2>2, <2>3, BuiltSame
<1>4. ASSUME NEW t \in Threads, Claim(t) PROVE BuiltInv'
  <2>1. UNCHANGED <<doc, output>>
    BY <1>4 DEF Claim
  <2>2. \A u \in Threads : thread'[u] = thread[u] \/ thread'[u].pc # "returned"
    BY <1>1, <1>4 DEF Claim, Stopped, Idle, Running
  <2>3. \A r \in Rows : row'[r].status = "done" => row[r].status = "done"
    <3>1. \A r \in Rows : CrashBound(row)[r].status = "done" => row[r].status = "done"
      BY DEF CrashBound, Moved
    <3>2. CrashBound(row) \in [Rows -> RowType]
      BY <1>1, CrashBoundType
    <3>3. \A x : Marked(x).status = "running"
      BY DEF Marked
    <3> HIDE DEF CrashBound
    <3> QED BY <1>4, <3>1, <3>2, <3>3 DEF Claim
  <2> QED BY <2>1, <2>2, <2>3, BuiltSame
<1>5. ASSUME NEW t \in Threads, Take(t) \/ MarkFailed(t) \/ DatabaseError(t) PROVE BuiltInv'
  <2>1. UNCHANGED <<doc, output>>
    BY <1>5 DEF Take, MarkFailed, DatabaseError
  <2>2. \A u \in Threads : thread'[u] = thread[u] \/ thread'[u].pc # "returned"
    <3>1. CASE thread' = [thread EXCEPT ![t].pc = "raised"]
      BY <1>1, <3>1 DEF ThreadType
    <3>2. ASSUME NEW x, thread' = [thread EXCEPT ![t] = x], x.pc # "returned"
          PROVE  thread'[t].pc # "returned" /\ \A u \in Threads \ {t} : thread'[u] = thread[u]
      BY <1>1, <3>2
    <3>3. Looping.pc # "returned" /\ Stopped.pc # "returned" /\ Idle("claiming").pc # "returned"
      BY DEF Looping, Stopped, Idle
    <3> QED BY <1>5, <3>1, <3>2, <3>3 DEF Take, MarkFailed, DatabaseError
  <2>3. \A r \in Rows : row'[r].status = "done" => row[r].status = "done"
    BY <1>1, <1>5 DEF Take, MarkFailed, DatabaseError, Moved
  <2> QED BY <2>1, <2>2, <2>3, BuiltSame
<1>6. ASSUME NEW t \in Threads, ProcessRaises(t) PROVE BuiltInv'
  <2>1. PICK r \in Rows : thread[t].row = r
    BY <1>6, HoldsRow DEF ProcessRaises
  <2>2. /\ UNCHANGED <<doc, row>> /\ thread'[t].pc = "raised"
        /\ \A u \in Threads \ {t} : thread'[u] = thread[u]
    BY <1>1, <1>6 DEF ProcessRaises, ThreadType
  <2>3. \A s \in Rows \ {r} : output'[s] = output[s]
    BY <1>1, <1>6, <2>1 DEF ProcessRaises
  <2>4. ASSUME NEW d \in Docs, doc'[d] = "active" PROVE output'[<<d, Extract>>] # "none"
    <3>1. PICK s \in Rows : s = <<d, Extract>> /\ s[2] = Extract
      BY RootRow
    <3>2. output'[s] = output[s]
      BY <1>1, <1>6, <2>1, <3>1 DEF ProcessRaises
    <3> QED BY <2>2, <2>4, <3>1, <3>2 DEF BuiltInv
  <2>5. ASSUME NEW u \in Threads, NEW s \in Rows, thread'[u].row = s, thread'[u].pc = "returned",
               doc'[s[1]] = "active", s[2] \in Registered
        PROVE  output'[s] # "none"
    <3>1. u # t /\ thread[u] = thread'[u]
      BY <2>2, <2>5
    <3>2. s # r
      BY <2>1, <2>5, <3>1, SetsAssumption DEF HeldInv, NoDoubleRun
    <3> QED BY <2>2, <2>3, <2>5, <3>1, <3>2 DEF BuiltInv
  <2>6. DoneMeansBuilt'
    <3>1. row[r].status # "done"
      BY <2>1 DEF HeldInv, Steady
    <3> QED BY <2>2, <2>3, <3>1 DEF BuiltInv, DoneMeansBuilt
  <2> QED BY <2>4, <2>5, <2>6 DEF BuiltInv
<1>7. ASSUME NEW t \in Threads, MarkDone(t) PROVE BuiltInv'
  <2>1. /\ UNCHANGED <<doc, output>> /\ thread' = [thread EXCEPT ![t] = Looping]
        /\ \A r \in Rows : r # thread[t].row => row'[r] = row[r]
        /\ thread[t].pc = "returned"
    BY <1>1, <1>7 DEF MarkDone
  <2>2. \A u \in Threads : thread'[u] = thread[u] \/ thread'[u].pc # "returned"
    BY <1>1, <2>1 DEF Looping, Idle
  <2>3. DoneMeansBuilt'
    <3> SUFFICES ASSUME NEW r \in Rows, row'[r].status = "done", doc[r[1]] = "active",
                        r[2] \in Registered
                 PROVE  output[r] # "none"
      BY <2>1 DEF DoneMeansBuilt
    <3>1. CASE r = thread[t].row
      BY <2>1, <3>1 DEF BuiltInv
    <3>2. CASE r # thread[t].row
      BY <2>1, <3>2 DEF BuiltInv, DoneMeansBuilt
    <3> QED BY <3>1, <3>2
  <2> QED BY <2>1, <2>2, <2>3 DEF BuiltInv
<1>8. ASSUME NEW s \in Rows, BackoffElapses(s) \/ LeaseExpires(s) \/ RetryFeature(s)
      PROVE  BuiltInv'
  <2>1. UNCHANGED <<doc, output, thread>>
    BY <1>8 DEF BackoffElapses, LeaseExpires, RetryFeature
  <2>2. \A r \in Rows : row'[r].status = "done" => row[r].status = "done"
    <3>1. CASE RetryFeature(s)
      BY <1>1, <3>1 DEF RetryFeature, Reset, Pending, Fresh
    <3>2. CASE BackoffElapses(s) \/ LeaseExpires(s)
      BY <1>1, <3>2 DEF BackoffElapses, LeaseExpires, RowType
    <3> QED BY <1>8, <3>1, <3>2
  <2> QED BY <2>1, <2>2, BuiltSame
<1>9. CASE UNCHANGED vars
  BY <1>9, BuiltSame DEF vars
<1> QED BY <1>2, <1>3, <1>4, <1>5, <1>6, <1>7, <1>8, <1>9, ReturnBuilt DEF Next, Step

(* With one worker process and staged ingestion, a feature that the ledger     *)
(* shows as done for an active document has stored its output, whatever runs  *)
(* failed, were retried or lost their process (mark_done, the processors).   *)
THEOREM DoneIsBuilt == ASSUME OneWorker, Rooted PROVE Spec => []DoneMeansBuilt
<1> DEFINE IInv == HeldInv /\ FreshInv /\ BuiltInv
<1>1. TypeOK /\ IInv /\ [Next]_vars => IInv'
  BY NextHeld, NextFresh, NextBuilt
<1>2. Init => IInv
  BY InitHeld, InitBuilt
<1>3. IInv => DoneMeansBuilt
  BY DEF BuiltInv
<1> HIDE DEF IInv
<1> QED BY <1>1, <1>2, <1>3, TypeCorrect, PTL DEF Spec
=============================================================================
