----------------------------- MODULE ChatProofs -----------------------------
(***************************************************************************)
(* Theorems about Chat, for every number of threads, requests, slots and    *)
(* messages: the types, the slots, and that the context the model is shown  *)
(* is complete.                                                             *)
(***************************************************************************)
EXTENDS Chat, FiniteSetTheorems, TLAPS

(* Messages are counted before they are stored                               *)
Lengths ==
  /\ \A t \in Threads : Len(thread[t].messages) <= stored
  /\ \A r \in Requests : Len(turn[r].history) <= stored

Basic == TypeOK /\ Lengths /\ SlotsAccounted

-----------------------------------------------------------------------------
(* Slots                                                                    *)

(* A turn that begins, one that ends, and one that goes on                   *)
LEMMA HoldingChanges ==
  ASSUME turn \in [Requests -> TurnType], NEW r \in Requests, NEW x,
         turn' = [turn EXCEPT ![r] = x]
  PROVE  /\ Cardinality(Holding) \in Nat
         /\ (x.at = "idle") /\ turn[r].at # "idle" =>
              Cardinality(Holding') = Cardinality(Holding) - 1
         /\ (x.at # "idle") /\ turn[r].at = "idle" =>
              Cardinality(Holding') = Cardinality(Holding) + 1
         /\ (x.at = "idle") = (turn[r].at = "idle") => Holding' = Holding
<1>1. IsFiniteSet(Requests) /\ IsFiniteSet(Holding)
  BY ChatAssumption, FS_Subset DEF Holding
<1>2. turn'[r] = x /\ \A q \in Requests \ {r} : turn'[q] = turn[q]
  OBVIOUS
<1>3. CASE x.at = "idle" /\ turn[r].at # "idle"
  <2>1. Holding' = Holding \ {r} /\ r \in Holding
    BY <1>2, <1>3 DEF Holding
  <2> QED BY <1>1, <1>3, <2>1, FS_RemoveElement, FS_CardinalityType
<1>4. CASE x.at # "idle" /\ turn[r].at = "idle"
  <2>1. Holding' = Holding \cup {r} /\ r \notin Holding
    BY <1>2, <1>4 DEF Holding
  <2> QED BY <1>1, <1>4, <2>1, FS_AddElement, FS_CardinalityType
<1>5. CASE (x.at = "idle") = (turn[r].at = "idle")
  <2>1. Holding' = Holding
    BY <1>2, <1>5 DEF Holding
  <2> QED BY <1>1, <1>5, <2>1, FS_CardinalityType
<1> QED BY <1>3, <1>4, <1>5

-----------------------------------------------------------------------------
(* Types                                                                    *)

LEMMA NewTypes ==
  /\ NewThread \in ThreadType /\ [NewThread EXCEPT !.state = "gone"] \in ThreadType
  /\ Idle \in TurnType /\ Idle.at = "idle" /\ Idle.on = NoThread
  /\ NewThread.messages = <<>> /\ Len(<<>>) = 0 /\ Idle.history = <<>>
<1>1. 0 \in 0..MaxMessages /\ {} \in SUBSET Messages /\ <<>> \in Seq(Messages) /\ Len(<<>>) = 0
  BY ChatAssumption
<1>2. /\ NewThread \in ThreadType /\ [NewThread EXCEPT !.state = "gone"] \in ThreadType
      /\ NewThread.messages = <<>>
  BY <1>1 DEF NewThread, ThreadType, Titles
<1>3. /\ Idle \in TurnType /\ Idle.at = "idle" /\ Idle.on = NoThread /\ Idle.history = <<>>
  BY <1>1 DEF Idle, TurnType, Places
<1> QED BY <1>1, <1>2, <1>3

LEMMA AppendedType ==
  ASSUME NEW th \in ThreadType, NEW m \in Messages
  PROVE  /\ Appended(th, m) \in ThreadType
         /\ Appended(th, m).messages = Append(th.messages, m)
         /\ Appended(th, m).state = th.state
         /\ Appended(th, m).summary = th.summary
         /\ Appended(th, m).through = th.through
<1> DEFINE title == IF th.source = "auto" /\ th.title = "" THEN "seed" ELSE th.title
           new == [th EXCEPT !.messages = Append(th.messages, m), !.title = title]
<1>1. Appended(th, m) = new
  BY DEF Appended
<1>2. Append(th.messages, m) \in Seq(Messages)
  BY DEF ThreadType
<1>3. title \in Titles /\ (th.source = "manual" <=> title = "user")
  BY DEF ThreadType, Titles
<1> HIDE DEF title
<1>4. /\ new \in ThreadType /\ new.messages = Append(th.messages, m) /\ new.state = th.state
      /\ new.summary = th.summary /\ new.through = th.through
  BY <1>2, <1>3 DEF ThreadType
<1> QED BY <1>1, <1>4

(* A turn that moves on                                                      *)
LEMMA MovedType ==
  ASSUME NEW v \in TurnType, NEW place \in Places
  PROVE  /\ [v EXCEPT !.at = place] \in TurnType
         /\ [v EXCEPT !.at = place].at = place
         /\ [v EXCEPT !.at = place].history = v.history
  BY DEF TurnType

(* What is folded are messages, and the watermark stays within the bound     *)
LEMMA OverflowType ==
  ASSUME Basic, NEW r \in Requests
  PROVE  /\ Cutoff(r) \in Int /\ Cutoff(r) < Len(turn[r].history)
         /\ Overflow(r) \in SUBSET Messages
         /\ Overflow(r) # {} => Cutoff(r) \in 0..MaxMessages
<1>1. /\ turn[r].history \in Seq(Messages) /\ turn[r].through \in Nat
      /\ KeepRecent \in Nat \ {0} /\ stored \in Nat /\ stored <= MaxMessages /\ MaxMessages \in Nat
      /\ Len(turn[r].history) \in Nat /\ Len(turn[r].history) <= stored
  BY ChatAssumption DEF Basic, TypeOK, TurnType, Lengths
<1>2. Cutoff(r) \in Int /\ Cutoff(r) < Len(turn[r].history)
  BY <1>1 DEF Cutoff
<1>3. Overflow(r) \in SUBSET Messages
  BY <1>1, <1>2 DEF Overflow, Slice
<1>4. Overflow(r) # {} => Cutoff(r) >= 0
  BY <1>1, <1>2 DEF Overflow, Slice
<1> QED BY <1>1, <1>2, <1>3, <1>4

LEMMA InitBasic == Init => Basic
<1> SUFFICES ASSUME Init PROVE Basic
  OBVIOUS
<1>1. /\ thread \in [Threads -> ThreadType] /\ turn \in [Requests -> TurnType]
      /\ intact \in [Threads -> BOOLEAN]
  BY NewTypes DEF Init
<1>2. /\ stored \in 0..MaxMessages /\ edits \in 0..MaxEdits /\ lost \in 0..MaxUnstarted
      /\ free \in 0..Slots
  BY ChatAssumption DEF Init
<1>3. Lengths
  BY NewTypes DEF Init, Lengths
<1>4. SlotsAccounted
  <2>1. Holding = {}
    BY NewTypes DEF Init, Holding
  <2> QED BY <2>1, FS_EmptySet, ChatAssumption DEF Init, SlotsAccounted
<1> QED BY <1>1, <1>2, <1>3, <1>4 DEF Basic, TypeOK

(* The operations on threads                                                 *)
LEMMA ThreadBasic ==
  ASSUME Basic, NEW t \in Threads,
         \/ CreateThread(t) \/ Rename(t) \/ DeleteThread(t)
         \/ \E i \in DOMAIN thread[t].messages : Truncate(t, i)
  PROVE  Basic'
<1>1. /\ thread \in [Threads -> ThreadType] /\ thread[t] \in ThreadType
      /\ thread[t].messages \in Seq(Messages) /\ stored \in Nat
      /\ Len(thread[t].messages) \in Nat /\ Len(thread[t].messages) <= stored
  BY ChatAssumption DEF Basic, TypeOK, ThreadType, Lengths
<1>2. UNCHANGED <<turn, free, stored, lost>>
  BY DEF CreateThread, Rename, DeleteThread, Truncate
<1>3. edits' \in 0..MaxEdits /\ intact' \in [Threads -> BOOLEAN]
  <2>1. CASE UNCHANGED <<edits, intact>>
    BY <2>1 DEF Basic, TypeOK
  <2>2. CASE \E i \in DOMAIN thread[t].messages : Truncate(t, i)
    <3>1. edits' \in 0..MaxEdits
      BY <2>2, ChatAssumption DEF Truncate, Basic, TypeOK
    <3>2. intact' \in [Threads -> BOOLEAN]
      BY <2>2 DEF Truncate, Basic, TypeOK
    <3> QED BY <3>1, <3>2
  <2> QED BY <2>1, <2>2 DEF CreateThread, Rename, DeleteThread
<1>4. PICK th \in ThreadType :
        thread' = [thread EXCEPT ![t] = th] /\ Len(th.messages) <= stored
  <2>1. CASE CreateThread(t)
    <3> DEFINE th == [thread[t] EXCEPT !.state = "live"]
    <3>1. thread' = [thread EXCEPT ![t] = th]
      BY <1>1, <2>1 DEF CreateThread
    <3>2. th \in ThreadType /\ th.messages = thread[t].messages
      BY <1>1 DEF ThreadType
    <3> HIDE DEF th
    <3> QED BY <1>1, <3>1, <3>2
  <2>2. CASE Rename(t)
    <3> DEFINE th == [thread[t] EXCEPT !.title = "user", !.source = "manual"]
    <3>1. thread' = [thread EXCEPT ![t] = th]
      BY <1>1, <2>2 DEF Rename
    <3>2. th \in ThreadType /\ th.messages = thread[t].messages
      BY <1>1 DEF ThreadType, Titles
    <3> HIDE DEF th
    <3> QED BY <1>1, <3>1, <3>2
  <2>3. CASE DeleteThread(t)
    <3> DEFINE th == [NewThread EXCEPT !.state = "gone"]
    <3>1. thread' = [thread EXCEPT ![t] = th] /\ th \in ThreadType
      BY <2>3, NewTypes DEF DeleteThread
    <3>2. Len(th.messages) = 0
      BY NewTypes DEF NewThread
    <3> HIDE DEF th
    <3>3. Len(th.messages) <= stored
      BY <1>1, <3>2
    <3> QED BY <3>1, <3>3
  <2>4. ASSUME NEW i \in DOMAIN thread[t].messages, Truncate(t, i)
        PROVE  \E th \in ThreadType :
                 thread' = [thread EXCEPT ![t] = th] /\ Len(th.messages) <= stored
    <3> DEFINE th == [thread[t] EXCEPT !.messages = SubSeq(thread[t].messages, 1, i - 1)]
    <3>1. thread' = [thread EXCEPT ![t] = th]
      BY <1>1, <2>4 DEF Truncate
    <3>2. /\ i \in 1..Len(thread[t].messages)
          /\ SubSeq(thread[t].messages, 1, i - 1) \in Seq(Messages)
          /\ Len(SubSeq(thread[t].messages, 1, i - 1)) = i - 1
      BY <1>1
    <3>3. th \in ThreadType /\ th.messages = SubSeq(thread[t].messages, 1, i - 1)
      BY <1>1, <3>2 DEF ThreadType
    <3> HIDE DEF th
    <3>4. Len(th.messages) <= stored
      BY <1>1, <3>2, <3>3
    <3> QED BY <3>1, <3>3, <3>4
  <2> QED BY <2>1, <2>2, <2>3, <2>4
<1>5. thread' \in [Threads -> ThreadType] /\ Lengths'
  BY <1>1, <1>2, <1>4 DEF Basic, Lengths
<1>6. SlotsAccounted'
  BY <1>2 DEF Basic, SlotsAccounted, Holding
<1> QED BY <1>2, <1>3, <1>5, <1>6 DEF Basic, TypeOK

(* A turn that begins                                                        *)
LEMMA BeginBasic ==
  ASSUME Basic, NEW r \in Requests, NEW t \in Threads \cup {NoThread}, Begin(r, t)
  PROVE  Basic'
<1> DEFINE x == [Idle EXCEPT !.on = t, !.at = IF t = NoThread THEN "send" ELSE "load"]
<1>1. /\ turn \in [Requests -> TurnType] /\ turn[r].at = "idle"
      /\ turn' = [turn EXCEPT ![r] = x] /\ free' = free - 1 /\ free > 0
      /\ UNCHANGED <<thread, stored, edits, lost, intact>>
  BY DEF Begin, Basic, TypeOK
<1>2. x \in TurnType /\ x.at # "idle" /\ x.history = <<>>
  BY NewTypes DEF Idle, TurnType, Places
<1> HIDE DEF x
<1>3. Cardinality(Holding) \in Nat /\ Cardinality(Holding') = Cardinality(Holding) + 1
  BY <1>1, <1>2, HoldingChanges
<1>4. free \in Nat /\ free <= Slots /\ Slots \in Nat /\ lost \in Nat
  BY ChatAssumption DEF Basic, TypeOK
<1>5. SlotsAccounted' /\ free' \in 0..Slots
  BY <1>1, <1>3, <1>4 DEF Basic, SlotsAccounted
<1>6. turn' \in [Requests -> TurnType]
  BY <1>1, <1>2
<1>7. stored \in Nat /\ Len(x.history) = 0
  BY <1>2, NewTypes, ChatAssumption DEF Basic, TypeOK
<1>8. Lengths'
  BY <1>1, <1>7 DEF Basic, Lengths
<1> QED BY <1>1, <1>5, <1>6, <1>8 DEF Basic, TypeOK

(* A turn that goes on                                                       *)
LEMMA GoesOn ==
  ASSUME Basic, NEW r \in Requests, NEW x \in TurnType, turn[r].at # "idle", x.at # "idle",
         turn' = [turn EXCEPT ![r] = x], UNCHANGED <<free, edits, lost>>,
         thread' \in [Threads -> ThreadType], intact' \in [Threads -> BOOLEAN],
         stored' \in 0..MaxMessages, stored <= stored',
         \A t \in Threads : Len(thread'[t].messages) <= stored',
         Len(x.history) <= stored'
  PROVE  Basic'
<1>1. turn \in [Requests -> TurnType] /\ stored \in Nat /\ stored' \in Nat
  BY ChatAssumption DEF Basic, TypeOK
<1>2. turn' \in [Requests -> TurnType] /\ Holding' = Holding
  BY <1>1, HoldingChanges
<1>3. \A q \in Requests : Len(turn'[q].history) <= stored'
  <2> SUFFICES ASSUME NEW q \in Requests PROVE Len(turn'[q].history) <= stored'
    OBVIOUS
  <2>1. CASE q = r
    BY <1>1, <2>1
  <2>2. CASE q # r
    <3>1. turn'[q] = turn[q] /\ Len(turn[q].history) <= stored /\ Len(turn[q].history) \in Nat
      BY <1>1, <2>2 DEF Basic, Lengths, TurnType
    <3> QED BY <1>1, <3>1
  <2> QED BY <2>1, <2>2
<1> QED BY <1>2, <1>3 DEF Basic, TypeOK, Lengths, SlotsAccounted

(* A turn that ends, and one whose stream never starts                       *)
LEMMA EndBasic ==
  ASSUME Basic, NEW r \in Requests, turn[r].at # "idle",
         turn' = [turn EXCEPT ![r] = Idle], UNCHANGED <<edits, intact>>,
         \/ free' = free + 1 /\ UNCHANGED lost
         \/ lost' = lost + 1 /\ lost < MaxUnstarted /\ UNCHANGED free,
         thread' \in [Threads -> ThreadType],
         stored' \in 0..MaxMessages, stored <= stored',
         \A t \in Threads : Len(thread'[t].messages) <= stored'
  PROVE  Basic'
<1>1. /\ turn \in [Requests -> TurnType] /\ stored \in Nat /\ stored' \in Nat
      /\ free \in Nat /\ lost \in Nat /\ Slots \in Nat /\ lost <= MaxUnstarted
      /\ MaxUnstarted \in Nat
  BY ChatAssumption DEF Basic, TypeOK
<1>2. turn' \in [Requests -> TurnType]
  BY <1>1, NewTypes
<1>3. Cardinality(Holding) \in Nat /\ Cardinality(Holding') = Cardinality(Holding) - 1
  BY <1>1, NewTypes, HoldingChanges
<1>4. Cardinality(Holding') \in Nat
  BY <1>2, <1>3, ChatAssumption, FS_Subset, FS_CardinalityType DEF Holding
<1>5. SlotsAccounted' /\ free' \in 0..Slots /\ lost' \in 0..MaxUnstarted
  BY <1>1, <1>3, <1>4 DEF Basic, SlotsAccounted
<1>6. \A q \in Requests : Len(turn'[q].history) <= stored'
  <2> SUFFICES ASSUME NEW q \in Requests PROVE Len(turn'[q].history) <= stored'
    OBVIOUS
  <2>1. CASE q = r
    <3>1. turn'[q] = Idle
      BY <1>1, <2>1
    <3>2. Len(turn'[q].history) = 0
      BY <3>1, NewTypes
    <3> QED BY <1>1, <3>2
  <2>2. CASE q # r
    <3>1. turn'[q] = turn[q] /\ Len(turn[q].history) <= stored /\ Len(turn[q].history) \in Nat
      BY <1>1, <2>2 DEF Basic, Lengths, TurnType
    <3> QED BY <1>1, <3>1
  <2> QED BY <2>1, <2>2
<1> QED BY <1>2, <1>5, <1>6 DEF Basic, TypeOK, Lengths

(* A turn that goes on to a place and leaves threads and counters alone      *)
LEMMA MovesOn ==
  ASSUME Basic, NEW r \in Requests, NEW place \in Places \ {"idle"}, turn[r].at # "idle",
         Goto(r, place), UNCHANGED <<free, stored, edits, lost>>,
         thread' \in [Threads -> ThreadType], intact' \in [Threads -> BOOLEAN],
         \A t \in Threads : thread'[t].messages = thread[t].messages
  PROVE  Basic'
<1> DEFINE x == [turn[r] EXCEPT !.at = place]
<1>1. turn[r] \in TurnType /\ turn' = [turn EXCEPT ![r] = x]
  BY DEF Basic, TypeOK, Goto
<1>2. x \in TurnType /\ x.at # "idle" /\ x.history = turn[r].history
  BY <1>1, MovedType
<1> HIDE DEF x
<1>3. stored' \in 0..MaxMessages /\ stored <= stored'
  BY ChatAssumption DEF Basic, TypeOK
<1>4. \A t \in Threads : Len(thread'[t].messages) <= stored'
  BY DEF Basic, Lengths
<1>5. Len(x.history) <= stored'
  BY <1>2 DEF Basic, Lengths
<1> QED BY <1>1, <1>2, <1>3, <1>4, <1>5, GoesOn

(* A message is stored                                                       *)
LEMMA StoresMessage ==
  ASSUME Basic, NEW t \in Threads, stored < MaxMessages, stored' = stored + 1,
         thread' = [thread EXCEPT ![t] = Appended(@, stored + 1)]
  PROVE  /\ thread' \in [Threads -> ThreadType]
         /\ stored' \in 0..MaxMessages /\ stored <= stored'
         /\ \A u \in Threads : Len(thread'[u].messages) <= stored'
<1>1. /\ stored \in Nat /\ MaxMessages \in Nat /\ thread \in [Threads -> ThreadType]
      /\ stored + 1 \in Messages
  BY ChatAssumption DEF Basic, TypeOK, Messages
<1>2. /\ Appended(thread[t], stored + 1) \in ThreadType
      /\ Appended(thread[t], stored + 1).messages = Append(thread[t].messages, stored + 1)
  BY <1>1, AppendedType
<1>3. \A u \in Threads : /\ thread[u].messages \in Seq(Messages)
                          /\ Len(thread[u].messages) \in Nat /\ Len(thread[u].messages) <= stored
  BY <1>1 DEF Basic, Lengths, ThreadType
<1>4. Len(Append(thread[t].messages, stored + 1)) = Len(thread[t].messages) + 1
  BY <1>3
<1>5. thread' \in [Threads -> ThreadType]
  BY <1>1, <1>2
<1>6. ASSUME NEW u \in Threads PROVE Len(thread'[u].messages) <= stored'
  <2>1. CASE u = t
    <3>1. thread'[u].messages = Append(thread[t].messages, stored + 1)
      BY <1>1, <1>2, <2>1
    <3>2. Len(thread'[u].messages) = Len(thread[t].messages) + 1
      BY <1>4, <3>1
    <3> QED BY <1>1, <1>3, <3>2
  <2>2. CASE u # t
    <3>1. thread'[u] = thread[u]
      BY <1>1, <2>2
    <3> QED BY <1>1, <1>3, <3>1
  <2> QED BY <2>1, <2>2
<1> QED BY <1>1, <1>5, <1>6

LEMMA StepBasic ==
  ASSUME Basic, NEW r \in Requests, Step(r) \/ Abandon(r) \/ Unstarted(r)
  PROVE  Basic'
<1> DEFINE t == turn[r].on
<1>1. /\ turn \in [Requests -> TurnType] /\ turn[r] \in TurnType
      /\ thread \in [Threads -> ThreadType] /\ intact \in [Threads -> BOOLEAN]
      /\ stored \in 0..MaxMessages /\ stored \in Nat
      /\ \A u \in Threads : Len(thread[u].messages) <= stored
      /\ Len(turn[r].history) <= stored
  BY ChatAssumption DEF Basic, TypeOK, Lengths
<1>2. Live(t) => t \in Threads
  BY <1>1 DEF Live, TurnType
<1>3. CASE Load(r)
  <2> DEFINE x == [turn[r] EXCEPT !.at = "append", !.history = thread[t].messages]
  <2>1. /\ t \in Threads /\ turn[r].at # "idle" /\ turn' = [turn EXCEPT ![r] = x]
        /\ UNCHANGED <<thread, free, stored, edits, lost, intact>>
    BY <1>1, <1>2, <1>3 DEF Load
  <2>2. thread[t].messages \in Seq(Messages)
    BY <1>1, <2>1 DEF ThreadType
  <2>3. x \in TurnType /\ x.at # "idle" /\ x.history = thread[t].messages
    BY <1>1, <2>2 DEF TurnType, Places
  <2> HIDE DEF x
  <2>4. Len(x.history) <= stored' /\ stored <= stored'
    BY <1>1, <2>1, <2>3
  <2> QED BY <1>1, <2>1, <2>3, <2>4, GoesOn
<1>4. CASE AppendQuestion(r)
  <2> DEFINE place == IF turn[r].history = <<>> THEN "title" ELSE "read"
             x == [turn[r] EXCEPT !.at = place]
  <2>1. /\ t \in Threads /\ turn[r].at # "idle" /\ turn' = [turn EXCEPT ![r] = x]
        /\ stored < MaxMessages /\ stored' = stored + 1
        /\ thread' = [thread EXCEPT ![t] = Appended(@, stored + 1)]
        /\ UNCHANGED <<free, edits, lost, intact>>
    BY <1>1, <1>2, <1>4 DEF AppendQuestion, Goto
  <2>2. place \in Places \ {"idle"}
    BY DEF Places
  <2> HIDE DEF place
  <2>3. x \in TurnType /\ x.at # "idle" /\ x.history = turn[r].history
    BY <1>1, <2>2, MovedType
  <2> HIDE DEF x
  <2>4. /\ thread' \in [Threads -> ThreadType]
        /\ stored' \in 0..MaxMessages /\ stored <= stored'
        /\ \A u \in Threads : Len(thread'[u].messages) <= stored'
    BY <2>1, StoresMessage
  <2>5. Len(x.history) <= stored'
    BY <1>1, <2>1, <2>3, <2>4 DEF TurnType
  <2> QED BY <1>1, <2>1, <2>3, <2>4, <2>5, GoesOn
<1>5. CASE Title(r)
  <2>1. turn[r].at # "idle" /\ Goto(r, "read") /\ UNCHANGED <<free, stored, edits, lost, intact>>
    BY <1>5 DEF Title
  <2>2. /\ thread' \in [Threads -> ThreadType]
        /\ \A u \in Threads : thread'[u].messages = thread[u].messages
    <3>1. CASE UNCHANGED thread
      BY <1>1, <3>1
    <3>2. CASE ~UNCHANGED thread
      <4> DEFINE th == [thread[t] EXCEPT !.title = "model"]
      <4>1. /\ t \in Threads /\ thread[t].source = "auto"
            /\ thread' = [thread EXCEPT ![t] = th]
        BY <1>1, <1>2, <1>5, <3>2 DEF Title
      <4>2. thread[t] \in ThreadType
        BY <1>1, <4>1
      <4>3. th \in ThreadType /\ th.messages = thread[t].messages
        BY <4>1, <4>2 DEF ThreadType, Titles
      <4> HIDE DEF th
      <4> QED BY <1>1, <4>1, <4>3
    <3> QED BY <3>1, <3>2
  <2>3. "read" \in Places \ {"idle"}
    BY DEF Places
  <2> QED BY <1>1, <2>1, <2>2, <2>3, MovesOn
<1>6. CASE ReadSummary(r)
  <2>1. turn[r].at # "idle" /\ UNCHANGED <<thread, free, stored, edits, lost, intact>>
    BY <1>6 DEF ReadSummary
  <2>2. CASE Goto(r, "send")
    <3>1. "send" \in Places \ {"idle"}
      BY DEF Places
    <3> QED BY <1>1, <2>1, <2>2, <3>1, MovesOn
  <2>3. CASE ~Goto(r, "send")
    <3> DEFINE sum == IF Live(t) THEN thread[t].summary ELSE {}
               mark == IF Live(t) THEN thread[t].through ELSE 0
               x == [turn[r] EXCEPT !.at = "fold", !.summary = sum, !.through = mark]
    <3>1. turn' = [turn EXCEPT ![r] = x]
      BY <1>1, <1>6, <2>3 DEF ReadSummary
    <3>2. sum \in SUBSET Messages /\ mark \in 0..MaxMessages
      BY <1>1, <1>2, ChatAssumption DEF ThreadType
    <3> HIDE DEF sum, mark
    <3>3. x \in TurnType /\ x.at # "idle" /\ x.history = turn[r].history
      BY <1>1, <3>2 DEF TurnType, Places
    <3> HIDE DEF x
    <3>4. Len(x.history) <= stored' /\ stored <= stored'
      BY <1>1, <2>1, <3>3
    <3> QED BY <1>1, <2>1, <3>1, <3>3, <3>4, GoesOn
  <2> QED BY <2>2, <2>3
<1>7. CASE Fold(r)
  <2>1. turn[r].at # "idle" /\ UNCHANGED <<free, stored, edits, lost>>
    BY <1>7 DEF Fold
  <2>2. CASE Overflow(r) = {}
    <3>1. "send" \in Places \ {"idle"} /\ Goto(r, "send") /\ UNCHANGED <<thread, intact>>
      BY <1>7, <2>2 DEF Fold, Places
    <3> QED BY <1>1, <2>1, <3>1, MovesOn
  <2>3. CASE Overflow(r) # {}
    <3>1. PICK sum \in FoldSummary(r) :
            /\ turn' = [turn EXCEPT ![r].at = "send", ![r].summary = sum]
            /\ thread' = IF Live(t)
                         THEN [thread EXCEPT ![t].summary = sum, ![t].through = Cutoff(r)]
                         ELSE thread
            /\ intact' = [intact EXCEPT ![t] = @ /\ Overflow(r) \subseteq sum]
      BY <1>7, <2>3 DEF Fold
    <3>2. sum \in SUBSET Messages /\ Cutoff(r) \in 0..MaxMessages
      BY <1>1, <2>3, OverflowType DEF FoldSummary, TurnType
    <3> DEFINE x == [turn[r] EXCEPT !.at = "send", !.summary = sum]
               th == [thread[t] EXCEPT !.summary = sum, !.through = Cutoff(r)]
    <3>3. turn' = [turn EXCEPT ![r] = x] /\ x.history = turn[r].history
      BY <1>1, <3>1 DEF TurnType
    <3>4. x \in TurnType /\ x.at # "idle"
      BY <1>1, <3>2 DEF TurnType, Places
    <3>5. /\ thread' \in [Threads -> ThreadType]
          /\ \A u \in Threads : Len(thread'[u].messages) <= stored
      <4>1. CASE Live(t)
        <5>1. thread' = [thread EXCEPT ![t] = th]
          BY <1>1, <3>1, <4>1
        <5>2. thread[t] \in ThreadType
          BY <1>1, <1>2, <4>1
        <5>3. th \in ThreadType /\ th.messages = thread[t].messages
          BY <3>2, <5>2 DEF ThreadType
        <5> HIDE DEF th
        <5>4. \A u \in Threads : thread'[u].messages = thread[u].messages
          BY <1>1, <1>2, <4>1, <5>1, <5>3
        <5> QED BY <1>1, <1>2, <4>1, <5>1, <5>3, <5>4
      <4>2. CASE ~Live(t)
        BY <1>1, <3>1, <4>2
      <4> QED BY <4>1, <4>2
    <3>6. intact' \in [Threads -> BOOLEAN]
      BY <1>1, <3>1
    <3> HIDE DEF x, th
    <3>7. Len(x.history) <= stored' /\ stored <= stored' /\ stored' \in 0..MaxMessages
      BY <1>1, <2>1, <3>3
    <3> QED BY <2>1, <3>3, <3>4, <3>5, <3>6, <3>7, GoesOn
  <2> QED BY <2>2, <2>3
<1>8. CASE Generate(r) \/ Abandon(r)
  <2>1. PICK place \in Places \ {"idle"} :
          /\ turn[r].at # "idle" /\ Goto(r, place)
          /\ UNCHANGED <<thread, free, stored, edits, lost, intact>>
    BY <1>8 DEF Generate, Abandon, Places
  <2> QED BY <1>1, <2>1, MovesOn
<1>9. CASE Answer(r) /\ t # NoThread
  <2>1. /\ "save" \in Places \ {"idle"} /\ turn[r].at # "idle" /\ Goto(r, "save")
        /\ UNCHANGED <<thread, free, stored, edits, lost, intact>>
    BY <1>9 DEF Answer, Places
  <2> QED BY <1>1, <2>1, MovesOn
<1>10. CASE \/ Answer(r) /\ t = NoThread
            \/ Collect(r) \/ Fail(r) \/ Unstarted(r)
  <2>1. /\ turn[r].at # "idle" /\ turn' = [turn EXCEPT ![r] = Idle]
        /\ \/ free' = free + 1 /\ UNCHANGED lost
           \/ lost' = lost + 1 /\ lost < MaxUnstarted /\ UNCHANGED free
        /\ UNCHANGED <<thread, stored, edits, intact>>
    BY <1>10 DEF Answer, Collect, Fail, Unstarted, Finish
  <2>2. stored <= stored'
    BY <1>1, <2>1
  <2> QED BY <1>1, <2>1, <2>2, EndBasic
<1>11. CASE Save(r)
  <2>1. /\ t \in Threads /\ turn[r].at # "idle" /\ turn' = [turn EXCEPT ![r] = Idle]
        /\ free' = free + 1 /\ stored < MaxMessages /\ stored' = stored + 1
        /\ thread' = [thread EXCEPT ![t] = Appended(@, stored + 1)]
        /\ UNCHANGED <<edits, lost, intact>>
    BY <1>2, <1>11 DEF Save, Finish
  <2>2. /\ thread' \in [Threads -> ThreadType]
        /\ stored' \in 0..MaxMessages /\ stored <= stored'
        /\ \A u \in Threads : Len(thread'[u].messages) <= stored'
    BY <2>1, StoresMessage
  <2> QED BY <2>1, <2>2, EndBasic
<1> QED BY <1>3, <1>4, <1>5, <1>6, <1>7, <1>8, <1>9, <1>10, <1>11 DEF Step

LEMMA NextBasic == Basic /\ [Next]_vars => Basic'
<1> SUFFICES ASSUME Basic, [Next]_vars PROVE Basic'
  OBVIOUS
<1>1. CASE UNCHANGED vars
  BY <1>1 DEF vars, Basic, TypeOK, Lengths, SlotsAccounted, Holding
<1>2. ASSUME NEW t \in Threads, NEW i \in DOMAIN thread[t].messages, Truncate(t, i) PROVE Basic'
  BY <1>2, ThreadBasic
<1> QED BY <1>1, <1>2, ThreadBasic, BeginBasic, StepBasic DEF Next

(* Types, and that no turn overwrites the title the user gave                *)
THEOREM TypesHold == Spec => []TypeOK
<1>1. Basic => TypeOK
  BY DEF Basic
<1> QED BY <1>1, InitBasic, NextBasic, PTL DEF Spec

(* Every generation slot is free, held by one turn, or lost with a stream    *)
(* that never started, for any number of turns and on every way out of one   *)
THEOREM SlotsAreAccounted == Spec => []SlotsAccounted
<1>1. Basic => SlotsAccounted
  BY DEF Basic
<1> QED BY <1>1, InitBasic, NextBasic, PTL DEF Spec

-----------------------------------------------------------------------------
(* The context                                                              *)

(* The first k messages are in the summary                                   *)
Covers(h, sum, k) == \A i \in 1..Len(h) : i <= k => h[i] \in sum
Prefix(h, m) == Len(h) <= Len(m) /\ \A i \in 1..Len(h) : h[i] = m[i]

ThreadInv ==
  \A t \in Threads :
    intact[t] => /\ thread[t].through <= Len(thread[t].messages)
                 /\ Covers(thread[t].messages, thread[t].summary, thread[t].through)

(* A turn that has read its thread: others only add to it while it lives,    *)
(* and the summary read covers what lies below its watermark                 *)
TurnInv(r) ==
  LET t == turn[r].on IN
  /\ t \in Threads /\ turn[r].at \notin {"idle", "load"} => thread[t].state # "new"
  /\ t \in Threads /\ intact[t] =>
       /\ turn[r].at \notin {"idle", "load"} /\ Live(t) =>
            Prefix(turn[r].history, thread[t].messages)
       /\ turn[r].at = "fold" =>
            Covers(turn[r].history, turn[r].summary, turn[r].through)
       /\ turn[r].at \in {"send", "generate", "save"} => ToSet(turn[r].history) \subseteq Shown(r)

Context == ThreadInv /\ \A r \in Requests : TurnInv(r)

(* What is not recent is in the summary, so all is shown                     *)
LEMMA CoveredIsShown ==
  ASSUME NEW h, h \in Seq(Messages), NEW sum, NEW k \in Int, Covers(h, sum, k)
  PROVE  ToSet(h) \subseteq Slice(h, IF k > 0 THEN k ELSE 0, Len(h)) \cup sum
<1> SUFFICES ASSUME NEW i \in 1..Len(h)
             PROVE  h[i] \in Slice(h, IF k > 0 THEN k ELSE 0, Len(h)) \cup sum
  BY DEF ToSet
<1>1. CASE i <= k
  BY <1>1 DEF Covers
<1>2. CASE ~(i <= k)
  <2>1. i \in ((IF k > 0 THEN k ELSE 0) + 1)..Len(h)
    BY <1>2
  <2> QED BY <2>1 DEF Slice
<1> QED BY <1>1, <1>2

LEMMA CoversLess ==
  ASSUME NEW h, h \in Seq(Messages), NEW sum, NEW k \in Int, NEW m \in Int, m <= k,
         Covers(h, sum, k)
  PROVE  Covers(h, sum, m)
  BY DEF Covers

(* A fold adds what lies between the two watermarks                          *)
LEMMA FoldCovers ==
  ASSUME NEW h, h \in Seq(Messages), NEW old, NEW sum, NEW k \in Nat, NEW m \in Int,
         Covers(h, old, k), old \subseteq sum, Slice(h, k, m) \subseteq sum
  PROVE  Covers(h, sum, m)
<1> SUFFICES ASSUME NEW i \in 1..Len(h), i <= m PROVE h[i] \in sum
  BY DEF Covers
<1>1. CASE i <= k
  BY <1>1 DEF Covers
<1>2. CASE ~(i <= k)
  BY <1>2 DEF Slice
<1> QED BY <1>1, <1>2

(* A turn that does not move, while its thread only grows                    *)
LEMMA OtherTurn ==
  ASSUME NEW q \in Requests, TurnInv(q), turn'[q] = turn[q],
         turn[q].on \in Threads => thread'[turn[q].on].state \in {thread[turn[q].on].state, "live", "gone"},
         turn[q].on \in Threads /\ intact'[turn[q].on] /\ turn[q].at # "idle" =>
           /\ intact[turn[q].on]
           /\ turn[q].at # "load" /\ Live(turn[q].on)' =>
                /\ Live(turn[q].on)
                /\ \A h : Prefix(h, thread[turn[q].on].messages)
                         => Prefix(h, thread'[turn[q].on].messages)
  PROVE  TurnInv(q)'
<1>1. Shown(q)' = Shown(q)
  BY DEF Shown, Recent, Cutoff, Slice
<1> QED BY <1>1 DEF TurnInv, Live

LEMMA PrefixAppend ==
  ASSUME NEW m, m \in Seq(Messages), NEW x, NEW h, Len(h) \in Nat, Prefix(h, m)
  PROVE  Prefix(h, Append(m, x))
  BY DEF Prefix

LEMMA InitContext == Init => Context
<1> SUFFICES ASSUME Init PROVE Context
  OBVIOUS
<1>1. ThreadInv
  <2>1. ASSUME NEW t \in Threads PROVE thread[t].through = 0 /\ Len(thread[t].messages) = 0
    BY NewTypes DEF Init, NewThread
  <2> QED BY <2>1 DEF ThreadInv, Covers
<1>2. ASSUME NEW r \in Requests PROVE TurnInv(r)
  BY <1>2, NewTypes DEF Init, TurnInv
<1> QED BY <1>1, <1>2 DEF Context

LEMMA ContextTypes ==
  ASSUME Basic
  PROVE  /\ thread \in [Threads -> ThreadType] /\ turn \in [Requests -> TurnType]
         /\ intact \in [Threads -> BOOLEAN] /\ NoThread \notin Threads
         /\ \A t \in Threads : /\ thread[t].messages \in Seq(Messages)
                               /\ Len(thread[t].messages) \in Nat /\ thread[t].through \in Nat
         /\ \A r \in Requests : /\ turn[r].history \in Seq(Messages)
                                /\ Len(turn[r].history) \in Nat /\ turn[r].through \in Nat
                                /\ Cutoff(r) \in Int /\ Cutoff(r) <= Len(turn[r].history)
         /\ \A t : Live(t) /\ t \in Threads \cup {NoThread} => t \in Threads
<1>1. /\ thread \in [Threads -> ThreadType] /\ turn \in [Requests -> TurnType]
      /\ intact \in [Threads -> BOOLEAN] /\ NoThread \notin Threads
  BY ChatAssumption DEF Basic, TypeOK
<1>2. ASSUME NEW t \in Threads
      PROVE  /\ thread[t].messages \in Seq(Messages) /\ Len(thread[t].messages) \in Nat
             /\ thread[t].through \in Nat
  BY <1>1, ChatAssumption DEF ThreadType
<1>3. ASSUME NEW r \in Requests
      PROVE  /\ turn[r].history \in Seq(Messages) /\ Len(turn[r].history) \in Nat
             /\ turn[r].through \in Nat
  BY <1>1, ChatAssumption DEF TurnType
<1>4. \A r \in Requests : Cutoff(r) \in Int /\ Cutoff(r) <= Len(turn[r].history)
  BY <1>3, ChatAssumption DEF Cutoff
<1> QED BY <1>1, <1>2, <1>3, <1>4 DEF Live

(* Threads with what was stored, folded and read of them left alone          *)
LEMMA ThreadContext ==
  ASSUME Basic, Context, NEW t \in Threads, CreateThread(t) \/ Rename(t) \/ DeleteThread(t)
  PROVE  Context'
<1>1. UNCHANGED <<turn, intact>> /\ thread \in [Threads -> ThreadType]
  BY ContextTypes DEF CreateThread, Rename, DeleteThread
<1>2. /\ \A u \in Threads \ {t} : thread'[u] = thread[u]
      /\ thread'[t].state # "gone" => /\ thread'[t].messages = thread[t].messages
                                      /\ thread'[t].summary = thread[t].summary
                                      /\ thread'[t].through = thread[t].through
      /\ thread'[t].state = "gone" => Len(thread'[t].messages) = 0 /\ thread'[t].through = 0
      /\ thread'[t].state \in {"live", "gone"}
      /\ thread[t].state \in {"new", "live"}
  <2>1. CASE CreateThread(t)
    BY <1>1, <2>1 DEF CreateThread, ThreadType
  <2>2. CASE Rename(t)
    BY <1>1, <2>2 DEF Rename, ThreadType, Live
  <2>3. CASE DeleteThread(t)
    BY <1>1, <2>3, NewTypes DEF DeleteThread, NewThread, Live
  <2> QED BY <2>1, <2>2, <2>3
<1>3. ThreadInv'
  <2> SUFFICES ASSUME NEW u \in Threads, intact[u]
               PROVE  /\ thread'[u].through <= Len(thread'[u].messages)
                      /\ Covers(thread'[u].messages, thread'[u].summary, thread'[u].through)
    BY <1>1 DEF ThreadInv
  <2>1. /\ thread[u].through <= Len(thread[u].messages)
        /\ Covers(thread[u].messages, thread[u].summary, thread[u].through)
    BY DEF Context, ThreadInv
  <2>2. CASE u # t \/ thread'[t].state # "gone"
    BY <1>2, <2>1, <2>2
  <2>3. CASE u = t /\ thread'[t].state = "gone"
    BY <1>2, <2>3 DEF Covers
  <2> QED BY <2>2, <2>3
<1>4. ASSUME NEW q \in Requests PROVE TurnInv(q)'
  <2>1. TurnInv(q) /\ turn'[q] = turn[q]
    BY <1>1 DEF Context
  <2>2. turn[q].on \in Threads =>
          thread'[turn[q].on].state \in {thread[turn[q].on].state, "live", "gone"}
    BY <1>2
  <2>3. ASSUME turn[q].on \in Threads, turn[q].at \notin {"idle", "load"}, Live(turn[q].on)'
        PROVE  Live(turn[q].on) /\ thread'[turn[q].on].messages = thread[turn[q].on].messages
    <3>1. thread[turn[q].on].state # "new"
      BY <2>1, <2>3 DEF TurnInv
    <3>2. CASE turn[q].on = t
      BY <1>1, <1>2, <2>3, <3>1, <3>2 DEF Live
    <3>3. CASE turn[q].on # t
      <4>1. thread'[turn[q].on] = thread[turn[q].on]
        BY <1>2, <2>3, <3>3
      <4> QED BY <1>1, <2>3, <4>1 DEF Live
    <3> QED BY <3>2, <3>3
  <2> QED BY <1>1, <2>1, <2>2, <2>3, OtherTurn
<1> QED BY <1>3, <1>4 DEF Context

LEMMA TruncateContext ==
  ASSUME Basic, Context, NEW t \in Threads, NEW i \in DOMAIN thread[t].messages, Truncate(t, i)
  PROVE  Context'
<1>1. /\ UNCHANGED turn /\ thread \in [Threads -> ThreadType] /\ intact \in [Threads -> BOOLEAN]
      /\ thread' = [thread EXCEPT ![t] =
                      [thread[t] EXCEPT !.messages = SubSeq(thread[t].messages, 1, i - 1)]]
      /\ \A u \in Threads \ {t} : intact'[u] = intact[u]
      /\ intact'[t] => intact[t] /\ thread[t].through < i /\ \A r \in Requests : turn[r].on # t
  BY ContextTypes DEF Truncate
<1>2. /\ \A u \in Threads \ {t} : thread'[u] = thread[u]
      /\ thread'[t].messages = SubSeq(thread[t].messages, 1, i - 1)
      /\ thread'[t].summary = thread[t].summary /\ thread'[t].through = thread[t].through
      /\ thread'[t].state = thread[t].state
  BY <1>1 DEF ThreadType
<1>3. ThreadInv'
  <2> SUFFICES ASSUME NEW u \in Threads, intact'[u]
               PROVE  /\ thread'[u].through <= Len(thread'[u].messages)
                      /\ Covers(thread'[u].messages, thread'[u].summary, thread'[u].through)
    BY DEF ThreadInv
  <2>1. intact[u]
    BY <1>1
  <2>2. /\ thread[u].through <= Len(thread[u].messages)
        /\ Covers(thread[u].messages, thread[u].summary, thread[u].through)
    BY <2>1 DEF Context, ThreadInv
  <2>3. CASE u = t
    <3>1. /\ i \in 1..Len(thread[t].messages) /\ thread[t].messages \in Seq(Messages)
          /\ Len(thread[t].messages) \in Nat /\ thread[t].through \in Nat /\ thread[t].through < i
      BY <1>1, <2>3, ContextTypes
    <3>2. /\ Len(SubSeq(thread[t].messages, 1, i - 1)) = i - 1
          /\ \A j \in 1..(i - 1) : SubSeq(thread[t].messages, 1, i - 1)[j] = thread[t].messages[j]
      BY <3>1
    <3> DEFINE m == SubSeq(thread[t].messages, 1, i - 1)
    <3>3. thread[t].through <= Len(m)
      BY <3>1, <3>2
    <3>4. Covers(m, thread[t].summary, thread[t].through)
      <4> SUFFICES ASSUME NEW j \in 1..Len(m), j <= thread[t].through
                   PROVE  m[j] \in thread[t].summary
        BY DEF Covers
      <4>1. j \in 1..(i - 1) /\ j \in 1..Len(thread[t].messages)
        BY <3>1, <3>2
      <4>2. thread[t].messages[j] \in thread[t].summary
        BY <2>2, <2>3, <4>1 DEF Covers
      <4> QED BY <3>2, <4>1, <4>2
    <3> QED BY <1>2, <2>3, <3>3, <3>4
  <2>4. CASE u # t
    BY <1>2, <2>2, <2>4
  <2> QED BY <2>3, <2>4
<1>4. ASSUME NEW q \in Requests PROVE TurnInv(q)'
  <2>1. TurnInv(q) /\ turn'[q] = turn[q]
    BY <1>1 DEF Context
  <2>2. turn[q].on \in Threads => thread'[turn[q].on].state = thread[turn[q].on].state
    BY <1>2
  <2>3. turn[q].on \in Threads /\ intact'[turn[q].on] =>
          intact[turn[q].on] /\ thread'[turn[q].on] = thread[turn[q].on]
    BY <1>1, <1>2
  <2> QED BY <2>1, <2>2, <2>3, OtherTurn DEF Live
<1> QED BY <1>3, <1>4 DEF Context

(* A step of one turn: the others, whose threads only grow, are undisturbed  *)
LEMMA OneTurnMoves ==
  ASSUME Basic, Context, NEW r \in Requests, NEW x, turn' = [turn EXCEPT ![r] = x],
         TurnInv(r)', ThreadInv', \A t \in Threads : intact'[t] => intact[t],
         \A t \in Threads :
           /\ thread'[t].state = thread[t].state
           /\ \A h : Prefix(h, thread[t].messages) /\ Len(h) \in Nat
                     => Prefix(h, thread'[t].messages)
  PROVE  Context'
<1>1. ASSUME NEW q \in Requests \ {r} PROVE TurnInv(q)'
  <2>1. TurnInv(q) /\ turn'[q] = turn[q] /\ Len(turn[q].history) \in Nat
    BY ContextTypes DEF Context
  <2>2. Shown(q)' = Shown(q)
    BY <2>1 DEF Shown, Recent, Cutoff, Slice
  <2> QED BY <2>1, <2>2 DEF TurnInv, Live
<1> QED BY <1>1 DEF Context

(* A turn that leaves its thread alone, or only what it says of itself       *)
LEMMA ThreadsKept ==
  ASSUME Basic, Context, UNCHANGED intact,
         \A t \in Threads : /\ thread'[t].messages = thread[t].messages
                            /\ thread'[t].summary = thread[t].summary
                            /\ thread'[t].through = thread[t].through
  PROVE  ThreadInv'
  BY DEF Context, ThreadInv

(* A message that is added lies above the watermark                          *)
LEMMA AppendKept ==
  ASSUME Basic, Context, UNCHANGED intact, NEW t \in Threads, stored < MaxMessages,
         thread' = [thread EXCEPT ![t] = Appended(@, stored + 1)]
  PROVE  /\ ThreadInv'
         /\ \A u \in Threads :
              /\ thread'[u].state = thread[u].state
              /\ \A h : Prefix(h, thread[u].messages) /\ Len(h) \in Nat
                        => Prefix(h, thread'[u].messages)
<1>1. stored + 1 \in Messages /\ thread[t] \in ThreadType
  BY ChatAssumption DEF Basic, TypeOK, Messages
<1> DEFINE m == Append(thread[t].messages, stored + 1)
<1>2. /\ thread'[t].messages = m /\ thread'[t].state = thread[t].state
      /\ thread'[t].summary = thread[t].summary /\ thread'[t].through = thread[t].through
      /\ \A u \in Threads \ {t} : thread'[u] = thread[u]
  BY <1>1, AppendedType, ContextTypes
<1>3. thread[t].messages \in Seq(Messages) /\ thread[t].through \in Nat
  BY ContextTypes
<1>4. \A h : Prefix(h, thread[t].messages) /\ Len(h) \in Nat => Prefix(h, m)
  BY <1>3, PrefixAppend
<1>5. intact[t] => thread[t].through <= Len(m) /\ Covers(m, thread[t].summary, thread[t].through)
  <2> SUFFICES ASSUME intact[t]
               PROVE  thread[t].through <= Len(m) /\ Covers(m, thread[t].summary, thread[t].through)
    OBVIOUS
  <2>1. /\ thread[t].through <= Len(thread[t].messages)
        /\ Covers(thread[t].messages, thread[t].summary, thread[t].through)
    BY DEF Context, ThreadInv
  <2>2. /\ Len(m) = Len(thread[t].messages) + 1
        /\ \A j \in 1..Len(thread[t].messages) : m[j] = thread[t].messages[j]
    BY <1>3
  <2> HIDE DEF m
  <2> QED BY <1>3, <2>1, <2>2 DEF Covers
<1> HIDE DEF m
<1>6. ASSUME NEW u \in Threads, intact'[u]
      PROVE  /\ thread'[u].through <= Len(thread'[u].messages)
             /\ Covers(thread'[u].messages, thread'[u].summary, thread'[u].through)
  <2>1. CASE u = t
    BY <1>2, <1>5, <1>6, <2>1
  <2>2. CASE u # t
    BY <1>2, <1>6, <2>2 DEF Context, ThreadInv
  <2> QED BY <2>1, <2>2
<1> QED BY <1>2, <1>4, <1>6 DEF ThreadInv

(* A turn that begins, ends, or stays as it is but for its place             *)
LEMMA PlaceContext ==
  ASSUME Basic, Context, NEW r \in Requests, UNCHANGED <<thread, intact>>,
         \/ \E t \in Threads \cup {NoThread} : Begin(r, t)
         \/ turn' = [turn EXCEPT ![r] = Idle]
         \/ Generate(r) \/ Abandon(r) \/ (Answer(r) /\ turn[r].on # NoThread)
  PROVE  Context'
<1>1. turn \in [Requests -> TurnType] /\ NoThread \notin Threads
  BY ContextTypes
<1>2. PICK x \in TurnType : turn' = [turn EXCEPT ![r] = x] /\
        \/ x.at \in {"idle", "load"} \/ x.on = NoThread
        \/ /\ \/ turn[r].at = "send" /\ x.at = "generate"
              \/ turn[r].at = "generate" /\ x.at \in {"save", "abandoned"}
           /\ x = [turn[r] EXCEPT !.at = x.at]
  <2>1. CASE \E t \in Threads \cup {NoThread} : Begin(r, t)
    <3>1. PICK t \in Threads \cup {NoThread} : Begin(r, t)
      BY <2>1
    <3> DEFINE x == [Idle EXCEPT !.on = t, !.at = IF t = NoThread THEN "send" ELSE "load"]
    <3>2. turn' = [turn EXCEPT ![r] = x]
      BY <3>1 DEF Begin
    <3>3. x \in TurnType /\ (x.at = "load" \/ x.on = NoThread)
      BY NewTypes DEF Idle, TurnType, Places
    <3> QED BY <3>2, <3>3
  <2>2. CASE turn' = [turn EXCEPT ![r] = Idle]
    BY <2>2, NewTypes
  <2>3. CASE Abandon(r)
    <3>1. /\ [turn[r] EXCEPT !.at = "abandoned"] \in TurnType
          /\ [turn[r] EXCEPT !.at = "abandoned"].at = "abandoned"
      BY <1>1, MovedType DEF Places
    <3> QED BY <2>3, <3>1 DEF Abandon, Goto
  <2>4. CASE Generate(r)
    <3>1. /\ [turn[r] EXCEPT !.at = "generate"] \in TurnType
          /\ [turn[r] EXCEPT !.at = "generate"].at = "generate"
      BY <1>1, MovedType DEF Places
    <3> QED BY <2>4, <3>1 DEF Generate, Goto
  <2>5. CASE Answer(r) /\ turn[r].on # NoThread
    <3>1. /\ [turn[r] EXCEPT !.at = "save"] \in TurnType
          /\ [turn[r] EXCEPT !.at = "save"].at = "save"
      BY <1>1, MovedType DEF Places
    <3> QED BY <2>5, <3>1 DEF Answer, Goto
  <2> QED BY <2>1, <2>2, <2>3, <2>4, <2>5
<1>3. TurnInv(r)'
  <2>1. turn'[r] = x
    BY <1>1, <1>2
  <2>2. CASE x.at \in {"idle", "load"} \/ x.on = NoThread
    BY <1>1, <2>1, <2>2 DEF TurnInv
  <2>3. CASE /\ \/ turn[r].at = "send" /\ x.at = "generate"
                \/ turn[r].at = "generate" /\ x.at \in {"save", "abandoned"}
             /\ x = [turn[r] EXCEPT !.at = x.at]
    <3>1. /\ x.on = turn[r].on /\ x.history = turn[r].history /\ x.summary = turn[r].summary
      BY <1>1, <2>3 DEF TurnType
    <3>2. Shown(r)' = Shown(r)
      BY <2>1, <3>1 DEF Shown, Recent, Cutoff, Slice
    <3> QED BY <2>1, <2>3, <3>1, <3>2 DEF Context, TurnInv, Live
  <2> QED BY <1>2, <2>2, <2>3
<1> QED BY <1>2, <1>3, ThreadsKept, OneTurnMoves DEF Live

LEMMA LoadContext ==
  ASSUME Basic, Context, NEW r \in Requests, Load(r)
  PROVE  Context'
<1> DEFINE t == turn[r].on
           x == [turn[r] EXCEPT !.at = "append", !.history = thread[t].messages]
<1>1. /\ turn[r] \in TurnType /\ Live(t) /\ t \in Threads /\ turn' = [turn EXCEPT ![r] = x]
      /\ turn'[r] = x /\ UNCHANGED <<thread, intact>>
  BY ContextTypes DEF Load, Live, TurnType
<1>2. x.at = "append" /\ x.on = t /\ x.history = thread[t].messages
  BY <1>1 DEF TurnType
<1> HIDE DEF x
<1>3. Prefix(x.history, thread[t].messages)
  BY <1>1, <1>2, ContextTypes DEF Prefix
<1>4. TurnInv(r)'
  BY <1>1, <1>2, <1>3 DEF TurnInv, Live
<1> QED BY <1>1, <1>4, ThreadsKept, OneTurnMoves

(* The question, and the answer                                              *)
LEMMA StoreContext ==
  ASSUME Basic, Context, NEW r \in Requests, AppendQuestion(r) \/ Save(r)
  PROVE  Context'
<1> DEFINE t == turn[r].on
<1>1. /\ turn[r] \in TurnType /\ Live(t) /\ t \in Threads /\ UNCHANGED intact
      /\ stored < MaxMessages /\ thread' = [thread EXCEPT ![t] = Appended(@, stored + 1)]
  BY ContextTypes DEF AppendQuestion, Save, Live, TurnType
<1>2. /\ ThreadInv'
      /\ \A u \in Threads :
           /\ thread'[u].state = thread[u].state
           /\ \A h : Prefix(h, thread[u].messages) /\ Len(h) \in Nat
                     => Prefix(h, thread'[u].messages)
  BY <1>1, AppendKept
<1>3. CASE AppendQuestion(r)
  <2> DEFINE place == IF turn[r].history = <<>> THEN "title" ELSE "read"
             x == [turn[r] EXCEPT !.at = place]
  <2>1. turn' = [turn EXCEPT ![r] = x] /\ turn[r].at = "append"
    BY <1>3 DEF AppendQuestion, Goto
  <2>2. x.at \in {"title", "read"} /\ x.on = t /\ x.history = turn[r].history
    BY <1>1 DEF TurnType
  <2>3. turn'[r] = x
    BY <2>1, ContextTypes
  <2> HIDE DEF x
  <2>4. intact[t] => Prefix(turn[r].history, thread[t].messages)
    BY <1>1, <2>1 DEF Context, TurnInv
  <2>5. Len(turn[r].history) \in Nat
    BY ContextTypes
  <2>6. TurnInv(r)'
    BY <1>1, <1>2, <2>2, <2>3, <2>4, <2>5 DEF TurnInv, Live
  <2> QED BY <1>1, <1>2, <2>1, <2>6, OneTurnMoves
<1>4. CASE Save(r)
  <2>1. turn' = [turn EXCEPT ![r] = Idle]
    BY <1>4 DEF Save, Finish
  <2>2. turn'[r] = Idle
    BY <2>1, ContextTypes
  <2>3. TurnInv(r)'
    BY <2>2, NewTypes, ContextTypes DEF TurnInv
  <2> QED BY <1>1, <1>2, <2>1, <2>3, OneTurnMoves
<1> QED BY <1>3, <1>4

LEMMA TitleContext ==
  ASSUME Basic, Context, NEW r \in Requests, Title(r)
  PROVE  Context'
<1> DEFINE t == turn[r].on
           x == [turn[r] EXCEPT !.at = "read"]
<1>1. /\ turn[r] \in TurnType /\ turn' = [turn EXCEPT ![r] = x] /\ turn'[r] = x
      /\ turn[r].at = "title" /\ UNCHANGED intact
  BY ContextTypes DEF Title, Goto
<1>2. x.at = "read" /\ x.on = t /\ x.history = turn[r].history
  BY <1>1 DEF TurnType
<1> HIDE DEF x
<1>3. \A u \in Threads : /\ thread'[u].messages = thread[u].messages
                        /\ thread'[u].summary = thread[u].summary
                        /\ thread'[u].through = thread[u].through
                        /\ thread'[u].state = thread[u].state
  <2>1. CASE UNCHANGED thread
    BY <2>1
  <2>2. CASE ~UNCHANGED thread
    <3>1. t \in Threads /\ thread' = [thread EXCEPT ![t] = [thread[t] EXCEPT !.title = "model"]]
      BY <1>1, <2>2, ContextTypes DEF Title, Live, TurnType
    <3> QED BY <3>1, ContextTypes DEF ThreadType
  <2> QED BY <2>1, <2>2
<1>4. TurnInv(r)'
  BY <1>1, <1>2, <1>3 DEF Context, TurnInv, Live
<1>5. ThreadInv'
  BY <1>1, <1>3, ThreadsKept
<1>6. \A u \in Threads : /\ thread'[u].state = thread[u].state
                        /\ \A h : Prefix(h, thread[u].messages) /\ Len(h) \in Nat
                                  => Prefix(h, thread'[u].messages)
  BY <1>3
<1> QED BY <1>1, <1>4, <1>5, <1>6, OneTurnMoves

LEMMA ReadContext ==
  ASSUME Basic, Context, NEW r \in Requests, ReadSummary(r)
  PROVE  Context'
<1> DEFINE t == turn[r].on
           h == turn[r].history
<1>1. /\ turn \in [Requests -> TurnType] /\ turn[r] \in TurnType /\ turn[r].at = "read"
      /\ UNCHANGED <<thread, intact>>
      /\ h \in Seq(Messages) /\ Len(h) \in Nat /\ Cutoff(r) = Len(h) - KeepRecent
      /\ KeepRecent \in Nat \ {0} /\ Cutoff(r) \in Int
      /\ TurnInv(r)
  BY ContextTypes, ChatAssumption DEF ReadSummary, Cutoff, Context
<1>2. CASE Len(h) <= KeepRecent
  <2> DEFINE x == [turn[r] EXCEPT !.at = "send"]
  <2>1. turn' = [turn EXCEPT ![r] = x] /\ turn'[r] = x
    BY <1>1, <1>2 DEF ReadSummary, Goto
  <2>2. x.at = "send" /\ x.on = t /\ x.history = h /\ x.summary = turn[r].summary
    BY <1>1 DEF TurnType
  <2> HIDE DEF x
  <2>3. Covers(h, turn[r].summary, Cutoff(r))
    BY <1>1, <1>2 DEF Covers
  <2>4. ToSet(h) \subseteq Shown(r)
    BY <1>1, <2>3, CoveredIsShown DEF Shown, Recent
  <2>5. Shown(r)' = Shown(r)
    BY <2>1, <2>2 DEF Shown, Recent, Cutoff, Slice
  <2>6. TurnInv(r)'
    BY <1>1, <2>1, <2>2, <2>4, <2>5 DEF TurnInv, Live
  <2> QED BY <1>1, <2>1, <2>6, ThreadsKept, OneTurnMoves
<1>3. CASE ~(Len(h) <= KeepRecent)
  <2> DEFINE sum == IF Live(t) THEN thread[t].summary ELSE {}
             mark == IF Live(t) THEN thread[t].through ELSE 0
             x == [turn[r] EXCEPT !.at = "fold", !.summary = sum, !.through = mark]
  <2>1. turn' = [turn EXCEPT ![r] = x] /\ turn'[r] = x
    BY <1>1, <1>3 DEF ReadSummary
  <2>2. x.at = "fold" /\ x.on = t /\ x.history = h /\ x.summary = sum /\ x.through = mark
    BY <1>1 DEF TurnType
  <2>3. ASSUME t \in Threads, intact[t] PROVE Covers(h, sum, mark)
    <3>1. CASE Live(t)
      <4>1. Covers(thread[t].messages, thread[t].summary, thread[t].through)
        BY <2>3 DEF Context, ThreadInv
      <4>2. Prefix(h, thread[t].messages)
        BY <1>1, <2>3, <3>1 DEF TurnInv
      <4>3. Len(thread[t].messages) \in Nat
        BY <2>3, ContextTypes
      <4> QED BY <1>1, <3>1, <4>1, <4>2, <4>3 DEF Covers, Prefix
    <3>2. CASE ~Live(t)
      BY <1>1, <3>2 DEF Covers
    <3> QED BY <3>1, <3>2
  <2> HIDE DEF x, sum, mark
  <2>4. TurnInv(r)'
    BY <1>1, <2>1, <2>2, <2>3 DEF TurnInv, Live
  <2> QED BY <1>1, <2>1, <2>4, ThreadsKept, OneTurnMoves
<1> QED BY <1>2, <1>3

LEMMA FoldContext ==
  ASSUME Basic, Context, NEW r \in Requests, Fold(r)
  PROVE  Context'
<1> DEFINE t == turn[r].on
           h == turn[r].history
           k == turn[r].through
           old == turn[r].summary
<1>1. /\ turn \in [Requests -> TurnType] /\ turn[r] \in TurnType /\ turn[r].at = "fold"
      /\ h \in Seq(Messages) /\ Len(h) \in Nat /\ k \in Nat
      /\ Cutoff(r) \in Int /\ Cutoff(r) <= Len(h) /\ Overflow(r) = Slice(h, k, Cutoff(r))
      /\ TurnInv(r)
  BY ContextTypes DEF Fold, Overflow, Context
<1>2. t \in Threads /\ intact[t] => Covers(h, old, k)
  BY <1>1 DEF TurnInv
<1>3. CASE Overflow(r) = {}
  <2> DEFINE x == [turn[r] EXCEPT !.at = "send"]
  <2>1. turn' = [turn EXCEPT ![r] = x] /\ turn'[r] = x /\ UNCHANGED <<thread, intact>>
    BY <1>1, <1>3 DEF Fold, Goto
  <2>2. x.at = "send" /\ x.on = t /\ x.history = h /\ x.summary = old
    BY <1>1 DEF TurnType
  <2> HIDE DEF x
  <2>3. t \in Threads /\ intact[t] => Covers(h, old, Cutoff(r))
    <3>1. old \subseteq old /\ Slice(h, k, Cutoff(r)) \subseteq old
      BY <1>1, <1>3
    <3> HIDE DEF h, k, old
    <3>2. h \in Seq(Messages) /\ k \in Nat /\ Cutoff(r) \in Int
      BY <1>1
    <3> QED BY <1>2, <3>1, <3>2, FoldCovers
  <2>4. t \in Threads /\ intact[t] => ToSet(h) \subseteq Shown(r)
    BY <1>1, <2>3, CoveredIsShown DEF Shown, Recent
  <2>5. Shown(r)' = Shown(r)
    BY <2>1, <2>2 DEF Shown, Recent, Cutoff, Slice
  <2>6. TurnInv(r)'
    BY <1>1, <2>1, <2>2, <2>4, <2>5 DEF TurnInv, Live
  <2> QED BY <2>1, <2>6, ThreadsKept, OneTurnMoves
<1>4. CASE Overflow(r) # {}
  <2>1. PICK sum \in FoldSummary(r) :
          /\ turn' = [turn EXCEPT ![r].at = "send", ![r].summary = sum]
          /\ thread' = IF Live(t)
                       THEN [thread EXCEPT ![t].summary = sum, ![t].through = Cutoff(r)]
                       ELSE thread
          /\ intact' = [intact EXCEPT ![t] = @ /\ Overflow(r) \subseteq sum]
    BY <1>4 DEF Fold
  <2> DEFINE x == [turn[r] EXCEPT !.at = "send", !.summary = sum]
  <2>2. turn' = [turn EXCEPT ![r] = x] /\ turn'[r] = x
    BY <1>1, <2>1
  <2>3. x.at = "send" /\ x.on = t /\ x.history = h /\ x.summary = sum /\ old \subseteq sum
    BY <1>1, <2>1 DEF TurnType, FoldSummary
  <2> HIDE DEF x
  <2>4. /\ \A u \in Threads : intact'[u] => intact[u]
        /\ t \in Threads /\ intact'[t] => Overflow(r) \subseteq sum
    BY <2>1, ContextTypes
  <2>5. t \in Threads /\ intact'[t] => Covers(h, sum, Cutoff(r))
    BY <1>1, <1>2, <2>3, <2>4, FoldCovers
  <2>6. \A u \in Threads : thread'[u].state = thread[u].state
                          /\ thread'[u].messages = thread[u].messages
    <3>1. CASE Live(t)
      BY <2>1, <3>1, ContextTypes DEF ThreadType
    <3>2. CASE ~Live(t)
      BY <2>1, <3>2
    <3> QED BY <3>1, <3>2
  <2>7. TurnInv(r)'
    <3>1. Shown(r)' = Slice(h, IF Cutoff(r) > 0 THEN Cutoff(r) ELSE 0, Len(h)) \cup sum
      BY <2>2, <2>3 DEF Shown, Recent, Cutoff, Slice
    <3>2. t \in Threads /\ intact'[t] => ToSet(h) \subseteq Shown(r)'
      BY <1>1, <2>5, <3>1, CoveredIsShown
    <3> QED BY <1>1, <2>2, <2>3, <2>4, <2>6, <3>2 DEF TurnInv, Live
  <2>8. ThreadInv'
    <3> SUFFICES ASSUME NEW u \in Threads, intact'[u]
                 PROVE  /\ thread'[u].through <= Len(thread'[u].messages)
                        /\ Covers(thread'[u].messages, thread'[u].summary, thread'[u].through)
      BY DEF ThreadInv
    <3>1. /\ thread[u].through <= Len(thread[u].messages)
          /\ Covers(thread[u].messages, thread[u].summary, thread[u].through)
      BY <2>4 DEF Context, ThreadInv
    <3>2. CASE u = t /\ Live(t)
      <4>1. /\ thread'[u].summary = sum /\ thread'[u].through = Cutoff(r)
            /\ thread'[u].messages = thread[t].messages
        BY <2>1, <3>2, ContextTypes DEF ThreadType
      <4>2. Prefix(h, thread[t].messages) /\ Covers(h, sum, Cutoff(r))
        BY <1>1, <2>4, <2>5, <3>2 DEF TurnInv
      <4>3. Len(thread[t].messages) \in Nat
        BY <3>2, ContextTypes
      <4> QED BY <1>1, <4>1, <4>2, <4>3 DEF Prefix, Covers
    <3>3. CASE ~(u = t /\ Live(t))
      <4>1. thread'[u] = thread[u]
        BY <2>1, <3>3, ContextTypes
      <4> QED BY <3>1, <4>1
    <3> QED BY <3>2, <3>3
  <2> QED BY <2>2, <2>4, <2>6, <2>7, <2>8, OneTurnMoves
<1> QED BY <1>3, <1>4

LEMMA NextContext == Basic /\ Context /\ [Next]_vars => Context'
<1> SUFFICES ASSUME Basic, Context, [Next]_vars PROVE Context'
  OBVIOUS
<1>1. CASE UNCHANGED vars
  BY <1>1 DEF vars, Context, ThreadInv, TurnInv, Live, Shown, Recent, Cutoff, Slice
<1>2. ASSUME NEW t \in Threads, CreateThread(t) \/ Rename(t) \/ DeleteThread(t) PROVE Context'
  BY <1>2, ThreadContext
<1>3. ASSUME NEW t \in Threads, NEW i \in DOMAIN thread[t].messages, Truncate(t, i)
      PROVE  Context'
  BY <1>3, TruncateContext
<1>4. ASSUME NEW r \in Requests, NEW t \in Threads \cup {NoThread}, Begin(r, t) PROVE Context'
  BY <1>4, PlaceContext DEF Begin
<1>5. ASSUME NEW r \in Requests, Step(r) \/ Abandon(r) \/ Unstarted(r) PROVE Context'
  <2>1. CASE \/ Answer(r) /\ turn[r].on = NoThread
             \/ Collect(r) \/ Fail(r) \/ Unstarted(r)
    <3>1. turn' = [turn EXCEPT ![r] = Idle] /\ UNCHANGED <<thread, intact>>
      BY <2>1 DEF Answer, Collect, Fail, Unstarted, Finish
    <3> QED BY <3>1, PlaceContext
  <2>2. CASE Generate(r) \/ Abandon(r) \/ (Answer(r) /\ turn[r].on # NoThread)
    <3>1. UNCHANGED <<thread, intact>>
      BY <2>2 DEF Generate, Abandon, Answer
    <3> QED BY <2>2, <3>1, PlaceContext
  <2> QED BY <1>5, <2>1, <2>2, LoadContext, StoreContext, TitleContext, ReadContext, FoldContext
          DEF Step
<1> QED BY <1>1, <1>2, <1>3, <1>4, <1>5 DEF Next

(* Unless a folded message was deleted or a fold has failed, the model is    *)
(* shown the whole conversation, for any number of turns of a thread that    *)
(* fold it at the same time (prepare_context)                                *)
THEOREM ContextIsComplete == Spec => []ContextComplete
<1>1. Basic /\ Context => ContextComplete
  <2> SUFFICES ASSUME Basic, Context, NEW r \in Requests,
                      turn[r].at \in {"send", "generate", "save"}, turn[r].on # NoThread,
                      intact[turn[r].on]
               PROVE  ToSet(turn[r].history) \subseteq Shown(r)
    BY DEF ContextComplete
  <2>1. turn[r].on \in Threads
    BY ContextTypes DEF TurnType
  <2> QED BY <2>1 DEF Context, TurnInv
<1>2. Basic /\ Context /\ [Next]_vars => (Basic /\ Context)'
  BY NextBasic, NextContext
<1> QED BY <1>1, <1>2, InitBasic, InitContext, PTL DEF Spec
=============================================================================
