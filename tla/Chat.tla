-------------------------------- MODULE Chat --------------------------------
(***************************************************************************)
(* Conversations kept on the server and the requests that answer in them:   *)
(* the generation slots, the order in which a turn reads and writes its     *)
(* thread, the rolling summary with its watermark, titles, and the thread   *)
(* operations (rename, truncate, delete) that run meanwhile.                *)
(*                                                                         *)
(* A message is its number in order of creation.  A summary is the set of   *)
(* messages whose content it was made from.  chat and chat_stream run the   *)
(* same steps up to the answer; only the stream can be abandoned.           *)
(***************************************************************************)
EXTENDS Naturals, Sequences, FiniteSets, SequencesExt

CONSTANTS
  Threads,     \* thread identifiers
  Requests,    \* requests in flight at one time
  Slots,       \* settings.chat_max_concurrent
  KeepRecent,  \* KEEP_RECENT
  MaxMessages, \* bound: messages ever stored
  MaxEdits,    \* bound: truncations
  MaxUnstarted,\* bound: streams dropped before their generator starts
  NoThread     \* a turn without thread_id

ASSUME ChatAssumption ==
  /\ Slots \in Nat \ {0} /\ KeepRecent \in Nat \ {0}
  /\ MaxMessages \in Nat /\ MaxEdits \in Nat /\ MaxUnstarted \in Nat
  /\ NoThread \notin Threads /\ IsFiniteSet(Requests)

VARIABLES
  thread,  \* chat_threads with their messages
  turn,    \* per request: its position and what it has read
  free,    \* the count of chat_semaphore
  stored,  \* messages stored so far
  edits,   \* truncations so far
  lost,    \* streams dropped before they started
  intact   \* auxiliary: no folded message was deleted, no fold has failed

vars == <<thread, turn, free, stored, edits, lost, intact>>

-----------------------------------------------------------------------------
(* The title: empty, the start of a message, the model's, the user's         *)
Titles == {"", "seed", "model", "user"}
Messages == 1..MaxMessages

NewThread == [state |-> "new", title |-> "", source |-> "auto",
              messages |-> <<>>, summary |-> {}, through |-> 0]

Idle == [at |-> "idle", on |-> NoThread, history |-> <<>>, summary |-> {}, through |-> 0]

(* A title is the user's or found by itself, and its source says which       *)
ThreadType ==
  {th \in [state: {"new", "live", "gone"}, title: Titles, source: {"auto", "manual"},
           messages: Seq(Messages), summary: SUBSET Messages, through: 0..MaxMessages] :
     th.source = "manual" <=> th.title = "user"}

(* Positions of a turn; at "send" a stream is built and not yet iterated, an *)
(* "abandoned" one is blocked in a read from the model and cannot be closed  *)
Places == {"idle", "load", "append", "title", "read", "fold", "send", "generate",
           "abandoned", "save"}
TurnType == [at: Places, on: Threads \cup {NoThread}, history: Seq(Messages),
             summary: SUBSET Messages, through: 0..MaxMessages]

Init ==
  /\ thread = [t \in Threads |-> NewThread]
  /\ turn = [r \in Requests |-> Idle]
  /\ free = Slots
  /\ stored = 0 /\ edits = 0 /\ lost = 0
  /\ intact = [t \in Threads |-> TRUE]

Live(t) == t # NoThread /\ thread[t].state = "live"

(* Elements from..to-1 of a sequence, counted from 0, as a slice gives them  *)
Slice(s, from, to) == {s[i] : i \in (from + 1)..to}

(* The message row and, in the same transaction, the activity and the title  *)
Appended(th, m) ==
  [th EXCEPT !.messages = Append(@, m),
             !.title = IF th.source = "auto" /\ @ = "" THEN "seed" ELSE @]

Goto(r, place) == turn' = [turn EXCEPT ![r].at = place]
Finish(r) == turn' = [turn EXCEPT ![r] = Idle] /\ free' = free + 1

-----------------------------------------------------------------------------
(* Threads                                                                  *)
CreateThread(t) ==
  /\ thread[t].state = "new"
  /\ thread' = [thread EXCEPT ![t].state = "live"]
  /\ UNCHANGED <<turn, free, stored, edits, lost, intact>>

Rename(t) ==
  /\ Live(t)
  /\ thread' = [thread EXCEPT ![t].title = "user", ![t].source = "manual"]
  /\ UNCHANGED <<turn, free, stored, edits, lost, intact>>

DeleteThread(t) ==
  /\ Live(t)
  /\ thread' = [thread EXCEPT ![t] = [NewThread EXCEPT !.state = "gone"]]
  /\ UNCHANGED <<turn, free, stored, edits, lost, intact>>

(* delete_messages_from: the message and what follows it; summary and        *)
(* watermark stay                                                            *)
Truncate(t, i) ==
  /\ Live(t) /\ edits < MaxEdits /\ i \in DOMAIN thread[t].messages
  /\ thread' = [thread EXCEPT ![t].messages = SubSeq(@, 1, i - 1)]
  /\ intact' = [intact EXCEPT ![t] = @ /\ thread[t].through < i
                                      /\ \A r \in Requests : turn[r].on # t]
  /\ edits' = edits + 1
  /\ UNCHANGED <<turn, free, stored, lost>>

-----------------------------------------------------------------------------
(* A turn                                                                   *)

(* _acquire_chat_slot: without a free slot the request is refused with 429   *)
Begin(r, t) ==
  /\ turn[r].at = "idle" /\ free > 0
  /\ free' = free - 1
  /\ turn' = [turn EXCEPT ![r] = [Idle EXCEPT !.on = t,
                                              !.at = IF t = NoThread THEN "send" ELSE "load"]]
  /\ UNCHANGED <<thread, stored, edits, lost, intact>>

(* thread_exists (else 404, see Fail) and get_messages: a thread that goes   *)
(* in between reads as empty, and storing the question fails                 *)
Load(r) ==
  /\ turn[r].at = "load" /\ Live(turn[r].on)
  /\ turn' = [turn EXCEPT ![r].at = "append",
                          ![r].history = thread[turn[r].on].messages]
  /\ UNCHANGED <<thread, free, stored, edits, lost, intact>>

(* The question is stored                                                    *)
AppendQuestion(r) ==
  LET t == turn[r].on IN
  /\ turn[r].at = "append" /\ Live(t) /\ stored < MaxMessages
  /\ stored' = stored + 1
  /\ thread' = [thread EXCEPT ![t] = Appended(@, stored + 1)]
  /\ Goto(r, IF turn[r].history = <<>> THEN "title" ELSE "read")
  /\ UNCHANGED <<free, edits, lost, intact>>

(* Mutant: the model's title replaces any title.                             *)
Title_AnySource(r) ==
  LET t == turn[r].on IN
  /\ turn[r].at = "title"
  /\ \/ UNCHANGED thread
     \/ Live(t) /\ thread' = [thread EXCEPT ![t].title = "model"]
  /\ Goto(r, "read")
  /\ UNCHANGED <<free, stored, edits, lost, intact>>

(* _maybe_title_thread of the first turn: the model's title, or none         *)
Title(r) ==
  LET t == turn[r].on IN
  /\ turn[r].at = "title"
  /\ \/ UNCHANGED thread
     \/ /\ Live(t) /\ thread[t].source = "auto"
        /\ thread' = [thread EXCEPT ![t].title = "model"]
  /\ Goto(r, "read")
  /\ UNCHANGED <<free, stored, edits, lost, intact>>

Cutoff(r) == Len(turn[r].history) - KeepRecent
Overflow(r) == Slice(turn[r].history, turn[r].through, Cutoff(r))

(* prepare_context of a thread that outgrows KEEP_RECENT reads the summary   *)
ReadSummary(r) ==
  LET t == turn[r].on IN
  /\ turn[r].at = "read"
  /\ IF Len(turn[r].history) <= KeepRecent
     THEN Goto(r, "send")
     ELSE turn' = [turn EXCEPT ![r].at = "fold",
                               ![r].summary = IF Live(t) THEN thread[t].summary ELSE {},
                               ![r].through = IF Live(t) THEN thread[t].through ELSE 0]
  /\ UNCHANGED <<thread, free, stored, edits, lost, intact>>

(* Mutant: the summary is made of the new turns alone.                       *)
FoldSummary_Restarts(r) == {Overflow(r), turn[r].summary}

(* What fold_summary may return: the old summary with the overflow, or, when *)
(* the model fails, the old summary                                          *)
FoldSummary(r) == {turn[r].summary \cup Overflow(r), turn[r].summary}

(* Summary and watermark are written whether or not the fold has failed      *)
Fold(r) ==
  LET t == turn[r].on IN
  /\ turn[r].at = "fold"
  /\ IF Overflow(r) = {}
     THEN Goto(r, "send") /\ UNCHANGED <<thread, intact>>
     ELSE \E sum \in FoldSummary(r) :
            /\ turn' = [turn EXCEPT ![r].at = "send", ![r].summary = sum]
            /\ thread' = IF Live(t)
                         THEN [thread EXCEPT ![t].summary = sum, ![t].through = Cutoff(r)]
                         ELSE thread
            /\ intact' = [intact EXCEPT ![t] = @ /\ Overflow(r) \subseteq sum]
  /\ UNCHANGED <<free, stored, edits, lost>>

(* Recall, then the model: at once in chat, when the stream is first read in *)
(* chat_stream                                                               *)
Generate(r) ==
  /\ turn[r].at = "send"
  /\ Goto(r, "generate")
  /\ UNCHANGED <<thread, free, stored, edits, lost, intact>>

(* The client of a stream goes before the response iterates it: the          *)
(* generator never starts, and neither does its finally block                *)
Unstarted(r) ==
  /\ turn[r].at = "send" /\ lost < MaxUnstarted
  /\ turn' = [turn EXCEPT ![r] = Idle]
  /\ lost' = lost + 1
  /\ UNCHANGED <<thread, free, stored, edits, intact>>

(* The answer is complete and, with a thread, to be stored                   *)
Answer(r) ==
  /\ turn[r].at = "generate"
  /\ IF turn[r].on = NoThread
     THEN Finish(r)
     ELSE Goto(r, "save") /\ UNCHANGED free
  /\ UNCHANGED <<thread, stored, edits, lost, intact>>

(* Mutant: the guard gives the slot back as well.                            *)
Abandon_Releases(r) ==
  /\ turn[r].at = "generate"
  /\ Goto(r, "abandoned")
  /\ free' = free + 1
  /\ UNCHANGED <<thread, stored, edits, lost, intact>>

(* stream_with_disconnect_guard meets a generator that is blocked in a read: *)
(* close() is refused and the slot stays taken                               *)
Abandon(r) ==
  /\ turn[r].at = "generate"
  /\ Goto(r, "abandoned")
  /\ UNCHANGED <<thread, free, stored, edits, lost, intact>>

(* Mutant: a generator that is collected keeps its slot.                     *)
Collect_KeepsSlot(r) ==
  /\ turn[r].at = "abandoned"
  /\ turn' = [turn EXCEPT ![r] = Idle]
  /\ UNCHANGED <<thread, free, stored, edits, lost, intact>>

(* The read returns or times out; the generator is collected                 *)
Collect(r) ==
  /\ turn[r].at = "abandoned"
  /\ Finish(r)
  /\ UNCHANGED <<thread, stored, edits, lost, intact>>

(* The answer is stored                                                      *)
Save(r) ==
  LET t == turn[r].on IN
  /\ turn[r].at = "save" /\ Live(t) /\ stored < MaxMessages
  /\ stored' = stored + 1
  /\ thread' = [thread EXCEPT ![t] = Appended(@, stored + 1)]
  /\ Finish(r)
  /\ UNCHANGED <<edits, lost, intact>>

(* Mutant: a missing thread is reported outside of the try block.            *)
Fail_KeepsSlot(r) ==
  /\ turn[r].at \in {"load", "append", "title", "read", "fold", "generate", "save"}
  /\ turn' = [turn EXCEPT ![r] = Idle]
  /\ free' = IF turn[r].at = "load" THEN free ELSE free + 1
  /\ UNCHANGED <<thread, stored, edits, lost, intact>>

(* A missing thread, an insert without its thread, a database or model       *)
(* failure, an empty answer, a stream closed at a yield: the except or       *)
(* finally block gives the slot back                                         *)
Fail(r) ==
  /\ turn[r].at \in {"load", "append", "title", "read", "fold", "generate", "save"}
  /\ Finish(r)
  /\ UNCHANGED <<thread, stored, edits, lost, intact>>

-----------------------------------------------------------------------------
Step(r) ==
  \/ Load(r) \/ AppendQuestion(r) \/ Title(r) \/ ReadSummary(r) \/ Fold(r)
  \/ Generate(r) \/ Answer(r) \/ Collect(r) \/ Save(r)
  \/ Fail(r)

Next ==
  \/ \E t \in Threads : CreateThread(t) \/ Rename(t) \/ DeleteThread(t)
  \/ \E t \in Threads : \E i \in DOMAIN thread[t].messages : Truncate(t, i)
  \/ \E r \in Requests, t \in Threads \cup {NoThread} : Begin(r, t)
  \/ \E r \in Requests : Step(r) \/ Abandon(r) \/ Unstarted(r)

Spec == Init /\ [][Next]_vars

(* The thread pool runs every request; model calls have a read timeout       *)
FairSpec == Spec /\ \A r \in Requests : WF_vars(Step(r))

-----------------------------------------------------------------------------
(* Properties                                                               *)

(* Types, and: a title the user gave is not overwritten by a turn that was   *)
(* underway, whose model took seconds to propose one (set_auto_title).       *)
TypeOK ==
  /\ thread \in [Threads -> ThreadType]
  /\ turn \in [Requests -> TurnType]
  /\ free \in 0..Slots
  /\ stored \in 0..MaxMessages /\ edits \in 0..MaxEdits /\ lost \in 0..MaxUnstarted
  /\ intact \in [Threads -> BOOLEAN]

(* Every slot is free, held by exactly one request, or lost with a stream    *)
(* that never started, on every path out of a turn: a refused thread, a      *)
(* failed insert, a failed model, an abandoned stream whose generator still  *)
(* runs (chat_semaphore).                                                    *)
Holding == {r \in Requests : turn[r].at # "idle"}
SlotsAccounted == free + Cardinality(Holding) + lost = Slots

(* Unless a folded message was deleted or a fold has failed, the model is    *)
(* shown the whole of the conversation: what the compacted context leaves    *)
(* out is in the summary, whichever of two turns of the thread wrote it      *)
(* (prepare_context, compact_history).                                       *)
Recent(r) == Slice(turn[r].history, IF Cutoff(r) > 0 THEN Cutoff(r) ELSE 0, Len(turn[r].history))
Shown(r) == Recent(r) \cup turn[r].summary
ContextComplete ==
  \A r \in Requests :
    turn[r].at \in {"send", "generate", "save"} /\ turn[r].on # NoThread =>
      \/ ~intact[turn[r].on]
      \/ ToSet(turn[r].history) \subseteq Shown(r)

(* Slots come back: deleted threads, failing models and abandoned streams do *)
(* not use up the semaphore for ever, as long as every stream has started.   *)
SlotsComeBack == []<>(free > 0)
=============================================================================
