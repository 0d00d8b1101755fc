-------------------------- MODULE DocumentLifecycle --------------------------
(***************************************************************************)
(* What the tables promise about a document, whatever worker, thread,      *)
(* sweep or request writes its status: it is created once, it leaves        *)
(* "processing" for good, a published content has one active document, and  *)
(* a removed document never comes back.                                    *)
(***************************************************************************)
CONSTANTS
  Docs,
  Content   \* the content hash of each document

VARIABLE doc

DocStatus == {"absent", "processing", "active", "failed", "gone"}

(* Every document has a status of the life cycle.                           *)
TypeOK == doc \in [Docs -> DocStatus]

Init == doc = [d \in Docs |-> "absent"]

Create(d) == doc[d] = "absent" /\ doc' = [doc EXCEPT ![d] = "processing"]

(* uq_documents_active_sha: a second active document of a content is refused *)
Publish(d) ==
  /\ doc[d] \in {"absent", "processing"}
  /\ \A e \in Docs : Content[e] = Content[d] => doc[e] # "active"
  /\ doc' = [doc EXCEPT ![d] = "active"]

Fail(d) == doc[d] = "processing" /\ doc' = [doc EXCEPT ![d] = "failed"]

Remove(d) ==
  doc[d] \in {"processing", "active", "failed"} /\ doc' = [doc EXCEPT ![d] = "gone"]

Next ==
  /\ doc' # doc
  /\ \E d \in Docs : Create(d) \/ Publish(d) \/ Fail(d) \/ Remove(d)

Spec == Init /\ [][Next]_doc
=============================================================================
