--------------------------- MODULE RestoreProofs ---------------------------
(***************************************************************************)
(* Theorems about Restore, for every number of previews and staged trees    *)
(* and any number of deaths of the backend, in both deployments: the types, *)
(* and that a database and files which do not belong together keep the      *)
(* requests that change state parked.                                       *)
(***************************************************************************)
EXTENDS Restore, TLAPS

Working == {"quiesce", "import", "files", "swap", "finish", "lift"}

(* A tree that is applied, or to be applied, or validated is not swept       *)
TreesInv ==
  /\ \A x \in Staged : x \in {helper.of, request, applier.of} => ~staged[x].stale
  /\ \A p \in Previews : preview[p].at = "validate" =>
       staged[preview[p].of] = [tree |-> "upload", stale |-> FALSE]
  /\ helper.at \in Working => TreeExists

(* What the import has done at each place, and what a failed one may leave   *)
HostInv ==
  /\ MixedIsParked
  /\ helper.at \in Working => restore # "done"
  /\ helper.at \in Working \ {"quiesce"} => flag
  /\ helper.at \in {"files", "swap", "finish", "lift"} => db = helper.of
  /\ helper.at \in {"finish", "lift"} => ~Mixed

IInv == TreesInv /\ HostInv

-----------------------------------------------------------------------------
(* Types                                                                    *)

LEMMA Positions ==
  /\ \A x \in Staged : x # NoStaged
  /\ At("idle", NoStaged) \in HelperType /\ At("idle", NoStaged) \in ApplierType
  /\ At("idle", NoStaged) \in PreviewType /\ At("release", NoStaged) \in PreviewType
  /\ \A x \in Staged : At("validate", x) \in PreviewType /\ At("write", x) \in ApplierType
  /\ \A x \in Staged, place \in HelperPlaces : At(place, x) \in HelperType
  /\ NoTree \in TreeType /\ "before" \notin Bare
  BY RestoreAssumption DEF At, HelperType, ApplierType, PreviewType, TreeType, NoTree

(* A helper at work has a staged id, and keeps it while it works             *)
LEMMA HelperOf ==
  ASSUME helper \in HelperType
  PROVE  /\ helper.at # "idle" => helper.of \in Staged
         /\ \A next \in HelperPlaces : helper.at # "idle" =>
              [helper EXCEPT !.at = next] = At(next, helper.of)
         /\ helper.at = "idle" => helper = At("idle", NoStaged)
  BY DEF HelperType, HelperPlaces, At

LEMMA PreviewOf ==
  ASSUME NEW v \in PreviewType
  PROVE  /\ v.at = "validate" => v.of \in Staged
         /\ v.at \in {"idle", "received", "stage", "release"} =>
              \A place \in {"idle", "received", "stage", "release"} :
                /\ [v EXCEPT !.at = place] \in PreviewType
                /\ [v EXCEPT !.at = place].at = place
  BY DEF PreviewType

LEMMA InitTypes == Init => TypeOK
<1> SUFFICES ASSUME Init PROVE TypeOK
  OBVIOUS
<1>1. /\ slot \in {"free", "held", "stale"} /\ flag \in BOOLEAN /\ worker \in BOOLEAN
      /\ restore \in {"idle", "validating", "applying", "done", "failed"}
      /\ db \in Database /\ safety \in Database /\ files \in {"before", "away"} \cup Staged
      /\ request \in Staged \cup {NoStaged}
      /\ \A p \in Previews : ~Holds(p)
  BY DEF Init, Database, Holds, At
<1>2. crashes \in 0..MaxCrashes
  BY RestoreAssumption DEF Init
<1>3. /\ staged \in [Staged -> TreeType] /\ preview \in [Previews -> PreviewType]
      /\ applier \in ApplierType /\ helper \in HelperType
  BY Positions DEF Init
<1> QED BY <1>1, <1>2, <1>3 DEF TypeOK

LEMMA PreviewTypes ==
  ASSUME TypeOK, NEW p \in Previews, Receive(p) \/ StepPreview(p)
  PROVE  TypeOK'
<1>1. preview \in [Previews -> PreviewType] /\ staged \in [Staged -> TreeType]
  BY DEF TypeOK
<1>2. /\ UNCHANGED <<request, applier, hostVars, crashes>>
      /\ restore' \in {restore, "validating", "idle"}
  BY DEF Receive, StepPreview, ClaimPreview, Stage, FailStage, Validate, ReleasePreview,
         applyVars
<1>3. preview' \in [Previews -> PreviewType]
  <2>1. CASE Receive(p) \/ ClaimPreview(p)
    <3>1. PICK place \in {"idle", "received", "stage"} :
            /\ preview[p].at \in {"idle", "received"}
            /\ preview' = [preview EXCEPT ![p] = [preview[p] EXCEPT !.at = place]]
      BY <1>1, <2>1 DEF Receive, ClaimPreview
    <3>2. [preview[p] EXCEPT !.at = place] \in PreviewType
      BY <1>1, <3>1, PreviewOf
    <3> QED BY <1>1, <3>1, <3>2
  <2>2. CASE Stage(p)
    BY <1>1, <2>2, Positions DEF Stage
  <2>3. CASE FailStage(p) \/ Validate(p) \/ ReleasePreview(p)
    BY <1>1, <2>3, Positions DEF FailStage, Validate, ReleasePreview
  <2> QED BY <2>1, <2>2, <2>3 DEF StepPreview
<1>4. staged' \in [Staged -> TreeType] /\ slot' \in {"free", "held", "stale"}
  <2>1. CASE Receive(p) \/ ClaimPreview(p) \/ ReleasePreview(p)
    BY <2>1 DEF TypeOK, Receive, ClaimPreview, ReleasePreview
  <2>2. CASE Stage(p) \/ FailStage(p)
    <3>1. [tree |-> "upload", stale |-> FALSE] \in TreeType
      BY DEF TreeType
    <3>2. \A y \in Staged : Swept(y) \in TreeType
      BY <1>1, Positions DEF Swept
    <3> QED BY <1>1, <2>2, <3>1, <3>2 DEF TypeOK, Stage, FailStage
  <2>3. CASE Validate(p)
    <3>1. [tree |-> "valid", stale |-> FALSE] \in TreeType
      BY DEF TreeType
    <3>2. PICK t \in TreeType :
            staged' = [staged EXCEPT ![preview[p].of] = IF @ = NoTree THEN @ ELSE t]
      BY <2>3, <3>1, Positions DEF Validate
    <3>3. staged' \in [Staged -> TreeType]
      BY <1>1, <3>2
    <3> QED BY <2>3, <3>3 DEF TypeOK, Validate
  <2> QED BY <2>1, <2>2, <2>3 DEF StepPreview
<1>5. /\ \A q \in Previews \ {p} : preview'[q] = preview[q]
      /\ Holds(p)' => slot' = "held" /\ (Holds(p) \/ slot # "held")
      /\ slot' # slot => slot' = "held" \/ Holds(p)
  <2>1. CASE Receive(p) \/ ClaimPreview(p)
    BY <1>1, <2>1 DEF Receive, ClaimPreview, Holds, PreviewType
  <2>2. CASE Stage(p) \/ FailStage(p) \/ Validate(p) \/ ReleasePreview(p)
    BY <1>1, <2>2 DEF TypeOK, Stage, FailStage, Validate, ReleasePreview, Holds, At
  <2> QED BY <2>1, <2>2 DEF StepPreview
<1>6. \A r \in Previews : Holds(r)' => slot' = "held" /\ \A q \in Previews \ {r} : ~Holds(q)'
  BY <1>5 DEF TypeOK, Holds
<1> QED BY <1>2, <1>3, <1>4, <1>6 DEF TypeOK, hostVars

LEMMA HelperTypes ==
  ASSUME TypeOK, StepHelper
  PROVE  TypeOK'
<1>1. helper \in HelperType /\ staged \in [Staged -> TreeType]
  BY DEF TypeOK
<1>2. /\ UNCHANGED <<applier, slot, preview, crashes>>
      /\ restore' \in {restore, "applying", "failed", "done"}
      /\ request' \in {request, NoStaged}
  BY DEF StepHelper, TakeRequest, Snapshot, Quiesce, Import, MoveAway, MoveIn, StartWorker, LiftFlag,
         FailRestore, stageVars, Helper
<1>3. /\ flag' \in BOOLEAN /\ worker' \in BOOLEAN
      /\ db' \in Database /\ safety' \in Database
      /\ files' \in {"before", "away"} \cup Staged
  BY HelperOf DEF TypeOK, Database, StepHelper, TakeRequest, Snapshot, Quiesce, Import, MoveAway, MoveIn,
         StartWorker, LiftFlag, FailRestore, RolledBack, Helper
<1>4. helper' \in HelperType
  <2>1. CASE TakeRequest
    BY <2>1, Positions DEF TakeRequest, TypeOK, HelperPlaces
  <2>2. ASSUME NEW place \in HelperPlaces, NEW next \in HelperPlaces, Helper(place, next)
        PROVE  helper' \in HelperType
    BY <1>1, <2>2, HelperOf, Positions DEF Helper, HelperPlaces
  <2>3. CASE LiftFlag \/ FailRestore
    BY <2>3, Positions DEF LiftFlag, FailRestore
  <2> QED BY <2>1, <2>2, <2>3
          DEF StepHelper, Snapshot, Quiesce, Import, MoveAway, MoveIn, StartWorker, HelperPlaces
<1>5. staged' \in [Staged -> TreeType]
  BY <1>1, Positions DEF StepHelper, TakeRequest, LiftFlag, stageVars
<1> QED BY <1>2, <1>3, <1>4, <1>5 DEF TypeOK, Holds

LEMMA NextTypes == TypeOK /\ [Next]_vars => TypeOK'
<1> SUFFICES ASSUME TypeOK, [Next]_vars PROVE TypeOK'
  OBVIOUS
<1>1. ASSUME NEW x \in Staged, Apply(x) PROVE TypeOK'
  BY <1>1, Positions DEF Apply, TypeOK, Holds, stageVars, hostVars
<1>2. ASSUME NEW x \in Staged, AgeTree(x) PROVE TypeOK'
  BY <1>2 DEF AgeTree, TypeOK, Holds, TreeType, applyVars, hostVars
<1>3. CASE WriteRequest
  <2>1. applier.of \in Staged
    BY <1>3, Positions DEF WriteRequest, TypeOK, ApplierType, At
  <2> QED BY <1>3, <2>1, Positions DEF WriteRequest, TypeOK, Holds, stageVars, hostVars
<1>4. CASE Repair \/ AgeSlot
  BY <1>4 DEF Repair, AgeSlot, TypeOK, Holds, Database, stageVars, applyVars, hostVars
<1>5. CASE Crash
  <2>1. preview' \in [Previews -> PreviewType] /\ applier' \in ApplierType
    BY <1>5, Positions DEF Crash
  <2>2. crashes' \in 0..MaxCrashes
    BY <1>5, RestoreAssumption DEF Crash, TypeOK
  <2>3. \A p \in Previews : ~Holds(p)'
    BY <1>5 DEF Crash, Holds, At
  <2> QED BY <1>5, <2>1, <2>2, <2>3 DEF Crash, TypeOK, hostVars
<1>6. CASE UNCHANGED vars
  BY <1>6 DEF vars, TypeOK, Holds, stageVars, applyVars, hostVars
<1> QED BY <1>1, <1>2, <1>3, <1>4, <1>5, <1>6, PreviewTypes, HelperTypes DEF Next

(* The types, and one preview at a time in the preview slot                  *)
THEOREM TypesHold == Spec => []TypeOK
  BY InitTypes, NextTypes, PTL DEF Spec

-----------------------------------------------------------------------------
(* The staged trees, and what the helper has done                           *)

LEMMA InitIInv == Init => IInv
<1> SUFFICES ASSUME Init PROVE IInv
  OBVIOUS
<1>1. TreesInv
  BY Positions DEF Init, TreesInv, At, Working, NoTree
<1>2. HostInv
  BY Positions DEF Init, HostInv, MixedIsParked, Mixed, Working, At
<1> QED BY <1>1, <1>2 DEF IInv

(* A step that leaves the helper and what it works on alone                  *)
LEMMA HostUntouched ==
  ASSUME HostInv, UNCHANGED <<helper, flag, db, files>>, restore' = restore \/ restore' # "done"
  PROVE  HostInv'
  BY DEF HostInv, MixedIsParked, Mixed

LEMMA PreviewIInv ==
  ASSUME ~LateApply, TypeOK, IInv, NEW p \in Previews, Receive(p) \/ StepPreview(p)
  PROVE  IInv'
<1>1. /\ preview \in [Previews -> PreviewType] /\ staged \in [Staged -> TreeType]
      /\ helper.at \in Working => helper.of \in Staged
      /\ \A q \in Previews : preview[q].at = "validate" => preview[q].of \in Staged
  BY HelperOf, PreviewOf DEF TypeOK, Working
<1>2. /\ UNCHANGED <<request, applier, helper, flag, db, files>>
      /\ restore' = restore \/ restore' # "done"
  BY DEF Receive, StepPreview, ClaimPreview, Stage, FailStage, Validate, ReleasePreview,
         applyVars, hostVars
<1>3. HostInv'
  BY <1>2, HostUntouched DEF IInv
<1>4. CASE Receive(p) \/ ClaimPreview(p) \/ ReleasePreview(p)
  <2>1. UNCHANGED staged
    BY <1>4 DEF Receive, ClaimPreview, ReleasePreview
  <2>2. preview'[p].at # "validate"
    <3>1. CASE ReleasePreview(p)
      BY <1>1, <3>1 DEF ReleasePreview, At
    <3>2. CASE Receive(p) \/ ClaimPreview(p)
      <4>1. PICK place \in {"idle", "received", "stage"} :
              /\ preview[p].at \in {"idle", "received"}
              /\ preview' = [preview EXCEPT ![p] = [preview[p] EXCEPT !.at = place]]
        BY <1>1, <3>2 DEF Receive, ClaimPreview
      <4> QED BY <1>1, <4>1, PreviewOf
    <3> QED BY <1>4, <3>1, <3>2
  <2>3. \A q \in Previews : q # p => preview'[q] = preview[q]
    BY <1>1, <1>4 DEF Receive, ClaimPreview, ReleasePreview
  <2>4. \A q \in Previews : preview'[q].at = "validate" => preview'[q] = preview[q]
    BY <2>2, <2>3
  <2> QED BY <1>2, <1>3, <2>1, <2>4 DEF IInv, TreesInv, TreeExists
<1>5. CASE Stage(p)
  <2>1. PICK x \in Staged :
          /\ Fresh(x)
          /\ staged' = [y \in Staged |->
               IF y = x THEN [tree |-> "upload", stale |-> FALSE]
               ELSE IF staged[y].stale THEN NoTree ELSE staged[y]]
          /\ preview' = [preview EXCEPT ![p] = At("validate", x)]
    BY <1>5 DEF Stage, Swept
  <2>2. /\ staged'[x] = [tree |-> "upload", stale |-> FALSE]
        /\ \A y \in Staged \ {x} : ~staged[y].stale => staged'[y] = staged[y]
    BY <2>1
  <2>3. \A y \in Staged : ~staged'[y].stale
    BY <2>1 DEF NoTree
  <2>4. \A q \in Previews : preview[q].at = "validate" => preview[q].of # x
    BY <2>1 DEF IInv, TreesInv, NoTree, Fresh
  <2>5. /\ preview'[p].at = "validate" /\ preview'[p].of = x
        /\ \A q \in Previews : q # p => preview'[q] = preview[q]
    BY <1>1, <2>1 DEF At
  <2>6. helper.at \in Working => TreeExists'
    <3> SUFFICES ASSUME helper.at \in Working PROVE TreeExists'
      OBVIOUS
    <3>1. staged[helper.of].tree = "valid" /\ ~staged[helper.of].stale /\ helper.of # x
      BY <1>1, <2>1 DEF IInv, TreesInv, TreeExists, NoTree, Fresh
    <3> QED BY <1>1, <1>2, <2>2, <3>1 DEF TreeExists
  <2>7. \A q \in Previews : preview'[q].at = "validate" =>
          staged'[preview'[q].of] = [tree |-> "upload", stale |-> FALSE]
    <3> SUFFICES ASSUME NEW q \in Previews, preview'[q].at = "validate"
                 PROVE  staged'[preview'[q].of] = [tree |-> "upload", stale |-> FALSE]
      OBVIOUS
    <3>1. CASE q = p
      BY <2>2, <2>5, <3>1
    <3>2. CASE q # p
      <4>1. /\ preview'[q] = preview[q] /\ preview[q].of \in Staged \ {x}
            /\ staged[preview[q].of] = [tree |-> "upload", stale |-> FALSE]
        BY <1>1, <2>4, <2>5, <3>2 DEF IInv, TreesInv
      <4> QED BY <2>2, <4>1
    <3> QED BY <3>1, <3>2
  <2> QED BY <1>2, <1>3, <2>3, <2>6, <2>7 DEF IInv, TreesInv
<1>6. CASE Validate(p)
  <2> DEFINE x == preview[p].of
  <2>1. x \in Staged /\ preview[p].at = "validate" /\ staged[x].tree = "upload"
    BY <1>1, <1>6 DEF Validate, IInv, TreesInv
  <2>2. PICK t \in {[tree |-> "valid", stale |-> FALSE], NoTree} :
          staged' = [staged EXCEPT ![x] = t]
    BY <1>6, <2>1 DEF Validate, NoTree
  <2>3. /\ ~staged'[x].stale /\ \A y \in Staged \ {x} : staged'[y] = staged[y]
    BY <1>1, <2>1, <2>2 DEF NoTree
  <2>4. /\ preview'[p].at = "release"
        /\ \A q \in Previews : q # p => preview'[q] = preview[q]
    BY <1>1, <1>6 DEF Validate, At
  <2> HIDE DEF x
  <2>5. helper.at \in Working => TreeExists'
    <3> SUFFICES ASSUME helper.at \in Working PROVE TreeExists'
      OBVIOUS
    <3>1. staged[helper.of].tree = "valid" /\ helper.of # x
      BY <2>1 DEF IInv, TreesInv, TreeExists
    <3> QED BY <1>1, <1>2, <2>3, <3>1 DEF TreeExists
  <2>6. \A q \in Previews : preview'[q].at # "validate"
    BY <2>1, <2>4 DEF TypeOK, Holds
  <2>7. \A y \in Staged : staged[y].stale \/ ~staged'[y].stale
    BY <2>3
  <2> QED BY <1>2, <1>3, <2>3, <2>5, <2>6, <2>7 DEF IInv, TreesInv
<1>7. CASE FailStage(p)
  <2>1. /\ \A y \in Staged : ~staged'[y].stale
        /\ \A y \in Staged : ~staged[y].stale => staged'[y] = staged[y]
    BY <1>7 DEF FailStage, Swept, NoTree
  <2>2. \A q \in Previews : preview'[q].at = "validate" => preview'[q] = preview[q]
    BY <1>1, <1>7 DEF FailStage, At
  <2>3. helper.at \in Working => TreeExists'
    <3> SUFFICES ASSUME helper.at \in Working PROVE TreeExists'
      OBVIOUS
    <3>1. staged[helper.of].tree = "valid" /\ ~staged[helper.of].stale
      BY <1>1 DEF IInv, TreesInv, TreeExists
    <3> QED BY <1>1, <1>2, <2>1, <3>1 DEF TreeExists
  <2>4. \A q \in Previews : preview'[q].at = "validate" =>
          staged'[preview'[q].of] = [tree |-> "upload", stale |-> FALSE]
    BY <1>1, <2>1, <2>2 DEF IInv, TreesInv
  <2> QED BY <1>2, <1>3, <2>1, <2>3, <2>4 DEF IInv, TreesInv
<1> QED BY <1>4, <1>5, <1>6, <1>7 DEF StepPreview

LEMMA ApplyIInv ==
  ASSUME ~LateApply, TypeOK, IInv,
         \/ \E x \in Staged : Apply(x) \/ AgeTree(x)
         \/ WriteRequest \/ AgeSlot \/ Crash
  PROVE  IInv'
<1>1. UNCHANGED <<helper, flag, db, files>> /\ restore' \in {restore, "applying"}
  BY DEF Apply, AgeTree, WriteRequest, AgeSlot, Crash, hostVars, applyVars
<1>2. HostInv'
  BY <1>1, HostUntouched DEF IInv
<1>3. \A y \in Staged : y # NoStaged
  BY Positions
<1>4. CASE \E x \in Staged : Apply(x)
  <2>1. PICK x \in Staged : Apply(x)
    BY <1>4
  <2>2. /\ ~staged[x].stale /\ applier' = At("write", x)
        /\ UNCHANGED <<restore, request, slot, staged, preview>>
    BY <2>1 DEF Apply, stageVars
  <2> QED BY <1>1, <1>2, <2>2 DEF IInv, TreesInv, TreeExists, At
<1>5. CASE \E x \in Staged : AgeTree(x)
  <2>1. PICK x \in Staged : AgeTree(x)
    BY <1>5
  <2>2. /\ x \notin {helper.of, request, applier.of} /\ \A p \in Previews : preview[p].of # x
        /\ staged' = [staged EXCEPT ![x].stale = TRUE]
        /\ UNCHANGED <<preview, request, applier>>
    BY <2>1 DEF AgeTree, applyVars
  <2>3. /\ staged \in [Staged -> TreeType]
        /\ helper.at \in Working => helper.of \in Staged
        /\ \A q \in Previews : preview[q].at = "validate" => preview[q].of \in Staged
    BY HelperOf, PreviewOf DEF TypeOK, Working
  <2>4. \A y \in Staged \ {x} : staged'[y] = staged[y]
    BY <2>2, <2>3
  <2> QED BY <1>1, <1>2, <2>2, <2>3, <2>4 DEF IInv, TreesInv, TreeExists
<1>6. CASE WriteRequest
  BY <1>1, <1>2, <1>3, <1>6 DEF WriteRequest, IInv, TreesInv, TreeExists, At, stageVars
<1>7. CASE AgeSlot
  BY <1>1, <1>2, <1>7 DEF AgeSlot, IInv, TreesInv, TreeExists, applyVars
<1>8. CASE Crash
  BY <1>1, <1>2, <1>3, <1>8 DEF Crash, IInv, TreesInv, TreeExists, At
<1> QED BY <1>4, <1>5, <1>6, <1>7, <1>8

(* A step of the helper that leaves the trees alone                          *)
LEMMA HelperTrees ==
  ASSUME TypeOK, TreesInv, UNCHANGED <<staged, preview, applier>>,
         request' \in {request, NoStaged}, helper'.of \in {helper.of, request, NoStaged},
         helper'.at \in Working =>
           helper'.of = helper.of /\ (helper.at \in Working \/ TreeExists)
  PROVE  TreesInv'
  BY Positions DEF TreesInv, TreeExists

LEMMA HelperIInv ==
  ASSUME ~LateApply, TypeOK, IInv, StepHelper
  PROVE  IInv'
<1>1. /\ helper \in HelperType /\ (helper.at # "idle" => helper.of \in Staged)
      /\ At("idle", NoStaged).at = "idle" /\ At("idle", NoStaged).of = NoStaged
  BY HelperOf DEF TypeOK, At
<1>2. ASSUME NEW place \in HelperPlaces, NEW next \in HelperPlaces, Helper(place, next)
      PROVE  helper.at = place /\ helper'.at = next /\ helper'.of = helper.of
  BY <1>1, <1>2, HelperOf DEF Helper, HelperPlaces, At
<1>3. CASE TakeRequest
  <2>1. /\ helper'.at = "start" /\ helper'.of = request /\ request' = NoStaged
        /\ helper.at = "idle"
        /\ UNCHANGED <<applier, flag, restore, db, files, staged, preview>>
    BY <1>3 DEF TakeRequest, At, stageVars
  <2>2. TreesInv'
    BY <2>1, HelperTrees DEF IInv, Working
  <2>3. HostInv'
    BY <2>1 DEF IInv, HostInv, MixedIsParked, Mixed, Working
  <2> QED BY <2>2, <2>3 DEF IInv
<1>4. CASE LiftFlag /\ UNCHANGED <<request, applier, slot, preview, crashes>>
  <2>1. /\ helper.at = "lift" /\ helper'.at = "idle" /\ helper'.of = NoStaged
        /\ staged' \in {staged, [staged EXCEPT ![helper.of] = NoTree]}
        /\ UNCHANGED <<request, applier, preview>>
    BY <1>1, <1>4 DEF LiftFlag
  <2>2. staged \in [Staged -> TreeType] /\ TreeExists
    BY <2>1 DEF TypeOK, IInv, TreesInv, Working
  <2>3. \A y \in Staged : staged'[y] = staged[y] \/ (y = helper.of /\ staged'[y] = NoTree)
    BY <2>1, <2>2
  <2>4. \A q \in Previews : preview[q].at = "validate" =>
          preview[q].of # helper.of /\ preview[q].of \in Staged
    <3> SUFFICES ASSUME NEW q \in Previews, preview[q].at = "validate"
                 PROVE  preview[q].of # helper.of /\ preview[q].of \in Staged
      OBVIOUS
    <3>1. preview[q] \in PreviewType
      BY DEF TypeOK
    <3>2. staged[preview[q].of].tree = "upload" /\ staged[helper.of].tree = "valid"
      BY <2>2 DEF IInv, TreesInv, TreeExists
    <3> QED BY <3>1, <3>2, PreviewOf
  <2>5. TreesInv'
    BY <2>1, <2>3, <2>4, Positions DEF IInv, TreesInv, Working, NoTree
  <2>6. db' = "before" /\ files' = "before"
    BY <1>4, <2>1 DEF LiftFlag, IInv, HostInv
  <2>7. HostInv'
    BY <2>1, <2>6 DEF HostInv, MixedIsParked, Mixed, Working
  <2> QED BY <2>5, <2>7 DEF IInv
<1>5. CASE FailRestore /\ UNCHANGED <<request, applier, stageVars, crashes>>
  <2>1. /\ helper.at # "idle" /\ helper'.at = "idle" /\ helper'.of = NoStaged
        /\ restore' \in {restore, "failed"}
        /\ helper.at \in {"start", "quiesce"} => db' = db
        /\ UNCHANGED <<flag, files, request, applier, staged, preview>>
    BY <1>1, <1>5 DEF FailRestore, RolledBack, stageVars
  <2>2. TreesInv'
    BY <2>1, HelperTrees DEF IInv, Working
  <2>3. CASE helper.at \in {"start", "quiesce"}
    BY <2>1, <2>2, <2>3 DEF IInv, HostInv, MixedIsParked, Mixed, Working
  <2>4. CASE helper.at \in Working \ {"quiesce"}
    BY <2>1, <2>2, <2>4 DEF IInv, HostInv, MixedIsParked, Working
  <2> QED BY <1>1, <2>1, <2>3, <2>4 DEF HelperType, HelperPlaces, Working, At
<1>6. CASE /\ Snapshot \/ Quiesce \/ Import \/ MoveAway \/ MoveIn \/ StartWorker
           /\ UNCHANGED <<request, applier, stageVars, crashes>>
  <2>1. ASSUME NEW place \in HelperPlaces, NEW next \in Working, Helper(place, next),
               place \in Working \/ TreeExists, HostInv'
        PROVE  IInv'
    <3>1. next \in HelperPlaces
      BY DEF Working, HelperPlaces
    <3>2. TreesInv'
      BY <1>2, <1>6, <2>1, <3>1, HelperTrees DEF IInv, stageVars
    <3> QED BY <2>1, <3>2 DEF IInv
  <2>2. CASE Snapshot
    <3>1. HostInv'
      BY <1>2, <2>2 DEF Snapshot, HelperPlaces, IInv, HostInv, MixedIsParked, Mixed, Working
    <3> QED BY <2>1, <2>2, <3>1 DEF Snapshot, HelperPlaces, Working
  <2>3. CASE Quiesce
    <3>1. HostInv'
      BY <1>2, <2>3 DEF Quiesce, HelperPlaces, HostInv, MixedIsParked, Working
    <3> QED BY <2>1, <2>3, <3>1 DEF Quiesce, HelperPlaces, Working
  <2>4. CASE Helper("import", "import") /\ TreeExists /\ restore' = "applying" /\ UNCHANGED <<flag, files>>
    <3>1. HostInv'
      BY <1>2, <2>4 DEF HelperPlaces, IInv, HostInv, MixedIsParked, Working
    <3> QED BY <2>1, <2>4, <3>1 DEF HelperPlaces, Working
  <2>5. CASE Helper("import", "files") /\ db' = helper.of /\ UNCHANGED <<restore, flag, files>>
    <3>1. HostInv'
      BY <1>2, <2>5 DEF HelperPlaces, IInv, HostInv, MixedIsParked, Working
    <3> QED BY <2>1, <2>5, <3>1 DEF HelperPlaces, Working
  <2>6. CASE Helper("files", "swap") /\ restore' = "applying" /\ UNCHANGED <<flag, db>>
    <3>1. HostInv'
      BY <1>2, <2>6 DEF HelperPlaces, IInv, HostInv, MixedIsParked, Working
    <3> QED BY <2>1, <2>6, <3>1 DEF HelperPlaces, Working
  <2>7. CASE /\ Helper("files", "finish") /\ (~TreeExists \/ helper.of \in Bare)
             /\ restore' = "applying" /\ UNCHANGED <<flag, db, files>>
    <3>1. helper.of \in Bare /\ db = helper.of /\ flag
      BY <1>2, <2>7 DEF HelperPlaces, IInv, TreesInv, HostInv, Working
    <3>2. HostInv'
      BY <1>2, <2>7, <3>1 DEF HelperPlaces, HostInv, MixedIsParked, Mixed, Working
    <3> QED BY <2>1, <2>7, <3>2 DEF HelperPlaces, Working
  <2>8. CASE MoveIn
    <3>1. HostInv'
      BY <1>2, <2>8 DEF MoveIn, HelperPlaces, IInv, HostInv, MixedIsParked, Mixed, Working
    <3> QED BY <2>1, <2>8, <3>1 DEF MoveIn, HelperPlaces, Working
  <2>9. CASE StartWorker
    <3>1. HostInv'
      BY <1>2, <2>9 DEF StartWorker, HelperPlaces, IInv, HostInv, MixedIsParked, Mixed, Working
    <3> QED BY <2>1, <2>9, <3>1 DEF StartWorker, HelperPlaces, Working
  <2> QED BY <1>6, <2>2, <2>3, <2>4, <2>5, <2>6, <2>7, <2>8, <2>9 DEF Import, MoveAway
<1> QED BY <1>3, <1>4, <1>5, <1>6 DEF StepHelper

LEMMA NextIInv == ~LateApply /\ TypeOK /\ IInv /\ [Next]_vars => IInv'
<1> SUFFICES ASSUME ~LateApply, TypeOK, IInv, [Next]_vars PROVE IInv'
  OBVIOUS
<1>1. CASE Repair
  <2>1. /\ helper.at = "idle" /\ db' = "before" /\ files' = "before"
        /\ UNCHANGED <<helper, staged, preview, request, applier>>
    BY <1>1 DEF Repair, stageVars, applyVars
  <2> QED BY <2>1 DEF IInv, TreesInv, TreeExists, HostInv, MixedIsParked, Mixed, Working
<1>2. CASE UNCHANGED vars
  BY <1>2 DEF vars, stageVars, applyVars, hostVars, IInv, TreesInv, TreeExists, HostInv,
              MixedIsParked, Mixed
<1> QED BY <1>1, <1>2, PreviewIInv, ApplyIInv, HelperIInv DEF Next

(* While the database and the files do not belong together, requests that    *)
(* change state are parked and the status does not say done: for any         *)
(* failures of the imports, rollbacks, previews and deaths of the backend,   *)
(* whatever archives carry no files, as long as no tree past its time to     *)
(* live is applied (restore-import.sh)                                       *)
THEOREM MixedStaysParked ==
  ASSUME ~LateApply PROVE Spec => []MixedIsParked
<1>1. IInv => MixedIsParked
  BY DEF IInv, HostInv
<1>2. TypeOK /\ IInv /\ [Next]_vars => (TypeOK /\ IInv)'
  BY NextTypes, NextIInv
<1> QED BY <1>1, <1>2, InitTypes, InitIInv, PTL DEF Spec
=============================================================================
