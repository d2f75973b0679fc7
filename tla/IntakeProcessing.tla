-------------------------- MODULE IntakeProcessing --------------------------
(***************************************************************************)
(* One talent intake draft between its creation and its promotion: the      *)
(* recruiter uploads, edits, retries, replaces and discards it, workers     *)
(* extract its resume on at-least-once deliveries, and the attachment       *)
(* worker's tick polls the same table of extraction children.  Every        *)
(* database statement of a worker is a step of its own; between two of      *)
(* them anything may happen to the row, and the worker may die.             *)
(*                                                                         *)
(* The review payload keeps, per field, who wrote it last.  The resume is   *)
(* its generation: 0 when the draft has none, one more for each Replace.    *)
(* Drafts do not interact here, so one draft is the whole system.           *)
(***************************************************************************)
EXTENDS Naturals, FiniteSets

CONSTANTS
  Workers,          \* concurrent deliveries
  Fields,           \* the reviewed fields (scalars and arrays alike)
  Source,           \* "upload", "manual" or "producer": source_type
  AttachmentWorker, \* is the attachment worker registered (REDIS_URL set)?
  MaxClaimAttempts, \* MAX_CLAIM_ATTEMPTS of processIntakeDraft
  MaxMergeAttempts, \* MAX_ATTEMPTS of mergeIntoLatestReview
  MaxResumes,       \* bound: generations of the resume
  MaxEdits,         \* bound: recruiter saves
  MaxEvents,        \* bound: times the draft is queued
  MaxCrashes        \* bound: deliveries that die or throw

ASSUME IntakeAssumption ==
  /\ Source \in {"upload", "manual", "producer"}
  /\ AttachmentWorker \in BOOLEAN
  /\ MaxClaimAttempts \in Nat \ {0}
  /\ MaxMergeAttempts \in Nat \ {0}
  /\ MaxResumes \in Nat \ {0}
  /\ MaxEdits \in Nat
  /\ MaxEvents \in Nat \ {0}
  /\ MaxCrashes \in Nat

VARIABLES
  status,       \* processing_status, "GONE" once the row is deleted
  version,      \* the optimistic version
  resume,       \* generation behind storage_key, 0 for null
  structured,   \* did the producer send a structured_payload?
  result,       \* generation whose extraction is on structured_payload
  review,       \* review_payload
  materialized, \* save_evidence_materialized_at is set
  promoted,     \* promoted_talent_record_id is set
  child,        \* status of the ResumeExtractionDraft, "none" before it exists
  linked,       \* resume_extraction_draft_id is set
  settling,     \* a settleManualIntake call is under way
  tick,         \* the attachment tick holds the child in its batch
  enqueued,     \* outbox events written so far: 1 .. enqueued
  pending,      \* events not yet acknowledged and not parked
  parked,       \* quarantined events
  pc,           \* where each delivery is
  loc,          \* its local variables
  crashes,      \* deliveries that died
  edits,        \* history: recruiter saves accepted
  last,         \* history: last save of each field, 0 for none
  claims        \* history: successful claims

rowVars == <<status, version, resume, structured, result, review, materialized,
             promoted, child, linked>>
eventVars == <<enqueued, pending, parked>>
workVars == <<pc, loc, crashes>>
historyVars == <<edits, last, claims>>
vars == <<rowVars, settling, tick, eventVars, workVars, historyVars>>

Statuses == {"UPLOADED", "QUEUED", "PROCESSING", "READY", "PARTIAL", "FAILED"}
Authors == {"none", "extraction", "producer", "recruiter"}
Cells == [by : Authors, n : Nat]
NoReview == [f \in Fields |-> [by |-> "none", n |-> 0]]
Outcomes == {"READY", "PARTIAL", "FAILED", "threw"}
Steps == {"idle", "read", "claim", "upsert", "extract", "child", "merge", "save",
          "mark", "ack"}

(* A delivery's local variables: the event, the loop counter, the row as last *)
(* read, the outcome of the extraction and the fields it proposes.            *)
Locals ==
  [event : Nat, tries : Nat, version : Nat, resume : 0 .. MaxResumes,
   review : [Fields -> Cells], outcome : Outcomes, proposal : SUBSET Fields]
NoLocals ==
  [event |-> 0, tries |-> 0, version |-> 0, resume |-> 0,
   review |-> NoReview, outcome |-> "FAILED", proposal |-> {}]

TypeOK ==
  /\ status \in Statuses \union {"GONE"}
  /\ version \in Nat
  /\ resume \in 0 .. MaxResumes
  /\ structured \in BOOLEAN
  /\ result \in 0 .. MaxResumes
  /\ review \in [Fields -> Cells]
  /\ materialized \in BOOLEAN
  /\ promoted \in BOOLEAN
  /\ child \in {"none", "PROCESSING", "READY_FOR_REVIEW", "FAILED", "ACCEPTED"}
  /\ linked \in BOOLEAN
  /\ settling \in BOOLEAN
  /\ tick \in BOOLEAN
  /\ enqueued \in 0 .. MaxEvents
  /\ pending \subseteq 1 .. enqueued
  /\ parked \subseteq 1 .. enqueued
  /\ pc \in [Workers -> Steps]
  /\ loc \in [Workers -> Locals]
  /\ crashes \in 0 .. MaxCrashes
  /\ edits \in 0 .. MaxEdits
  /\ last \in [Fields -> 0 .. MaxEdits]
  /\ claims \in Nat

(* The draft as its create call leaves it. *)
Init ==
  /\ version = 0
  /\ \/ /\ Source = "upload"
        /\ status = "UPLOADED" /\ resume = 1 /\ structured = FALSE
        /\ settling = FALSE /\ enqueued = 0
     \/ /\ Source = "manual"
        /\ status = "UPLOADED" /\ resume = 0 /\ structured = FALSE
        /\ settling = TRUE /\ enqueued = 0
     \/ /\ Source = "producer"
        /\ status = "QUEUED" /\ resume \in {0, 1} /\ structured \in BOOLEAN
        /\ settling = FALSE /\ enqueued = 1
  /\ pending = 1 .. enqueued
  /\ parked = {}
  /\ result = 0
  /\ review = NoReview
  /\ materialized = FALSE
  /\ promoted = FALSE
  /\ child = "none"
  /\ linked = FALSE
  /\ tick = FALSE
  /\ pc = [w \in Workers |-> "idle"]
  /\ loc = [w \in Workers |-> NoLocals]
  /\ crashes = 0
  /\ edits = 0
  /\ last = [f \in Fields |-> 0]
  /\ claims = 0

Exists == status # "GONE"

-----------------------------------------------------------------------------
(* The outbox event is written in the transaction that queues the draft. *)
Enqueue ==
  /\ enqueued < MaxEvents
  /\ enqueued' = enqueued + 1
  /\ pending' = pending \union {enqueued + 1}
  /\ UNCHANGED parked

(* Mutant: the draft is queued but the outbox row is forgotten. *)
CompleteUploadSilent ==
  /\ status = "UPLOADED"
  /\ resume # 0
  /\ status' = "QUEUED"
  /\ version' = version + 1
  /\ UNCHANGED <<resume, structured, result, review, materialized, promoted, child,
                 linked, settling, tick, eventVars, workVars, historyVars>>

(* completeUpload, called directly or by retry: the update is guarded on      *)
(* UPLOADED alone, and a replay changes nothing.  Whether the bytes are really *)
(* there shows in the outcome of the extraction.                              *)
CompleteUpload ==
  /\ status = "UPLOADED"
  /\ resume # 0
  /\ status' = "QUEUED"
  /\ version' = version + 1
  /\ Enqueue
  /\ UNCHANGED <<resume, structured, result, review, materialized, promoted, child,
                 linked, settling, tick, workVars, historyVars>>

(* retry on a manual draft left UPLOADED: the check ... *)
RetryManual ==
  /\ Source = "manual"
  /\ status = "UPLOADED"
  /\ ~promoted
  /\ resume = 0
  /\ settling' = TRUE
  /\ UNCHANGED <<rowVars, tick, eventVars, workVars, historyVars>>

(* ... and settleManualIntake, which is unguarded, or its failure. *)
SettleManual ==
  /\ settling
  /\ settling' = FALSE
  /\ \/ /\ Exists
        /\ status' = "READY"
        /\ version' = version + 1
     \/ UNCHANGED <<status, version>>
  /\ UNCHANGED <<resume, structured, result, review, materialized, promoted, child,
                 linked, tick, eventVars, workVars, historyVars>>

(* retry on a settled draft. *)
Requeue ==
  /\ status \in {"FAILED", "PARTIAL"}
  /\ ~promoted
  /\ status' = "QUEUED"
  /\ version' = version + 1
  /\ Enqueue
  /\ UNCHANGED <<resume, structured, result, review, materialized, promoted, child,
                 linked, settling, tick, workVars, historyVars>>

(* replaceResume: a new key, back to UPLOADED. *)
Replace ==
  /\ Exists
  /\ ~promoted
  /\ ~materialized
  /\ resume < MaxResumes
  /\ resume' = resume + 1
  /\ status' = "UPLOADED"
  /\ version' = version + 1
  /\ UNCHANGED <<structured, result, review, materialized, promoted, child, linked,
                 settling, tick, eventVars, workVars, historyVars>>

(* discard: the row is deleted, the extraction child is not. *)
Discard ==
  /\ Exists
  /\ ~promoted
  /\ ~materialized
  /\ status' = "GONE"
  /\ UNCHANGED <<version, resume, structured, result, review, materialized, promoted,
                 child, linked, settling, tick, eventVars, workVars, historyVars>>

(* applyRecruiterReview: a field the recruiter sent is the recruiter's. *)
ApplyRecruiterReview(r, f, n) == [r EXCEPT ![f] = [by |-> "recruiter", n |-> n]]

(* patchReview of one field.  The save compares the version the page was      *)
(* loaded with and every write of the payload bumps it, so an accepted save is *)
(* a merge into the current payload; a stale one is refused and changes        *)
(* nothing.                                                                   *)
Patch(f) ==
  /\ Exists
  /\ ~promoted
  /\ edits < MaxEdits
  /\ edits' = edits + 1
  /\ last' = [last EXCEPT ![f] = edits + 1]
  /\ review' = ApplyRecruiterReview(review, f, edits + 1)
  /\ version' = version + 1
  /\ UNCHANGED <<status, resume, structured, result, materialized, promoted, child,
                 linked, settling, tick, eventVars, workVars, claims>>

(* Save, step 1: the evidence is written and a reviewable child accepted. *)
Materialize ==
  /\ Exists
  /\ ~materialized
  /\ materialized' = TRUE
  /\ child' = IF linked /\ child = "READY_FOR_REVIEW" THEN "ACCEPTED" ELSE child
  /\ UNCHANGED <<status, version, resume, structured, result, review, promoted,
                 linked, settling, tick, eventVars, workVars, historyVars>>

(* Save, step 4: the draft is linked to its TalentRecord. *)
Promote ==
  /\ Exists
  /\ materialized
  /\ ~promoted
  /\ promoted' = TRUE
  /\ version' = version + 1
  /\ UNCHANGED <<status, resume, structured, result, review, materialized, child,
                 linked, settling, tick, eventVars, workVars, historyVars>>

-----------------------------------------------------------------------------
(* The handler is through with the draft: the outbox row is published next. *)
Finish(w) ==
  /\ pc' = [pc EXCEPT ![w] = "ack"]
  /\ loc' = [loc EXCEPT ![w] = [NoLocals EXCEPT !.event = loc[w].event]]

(* The outbox hands an unacknowledged event to the handler, also when another *)
(* delivery of it is still running.                                           *)
Deliver(w) ==
  /\ pc[w] = "idle"
  /\ \E e \in pending : loc' = [loc EXCEPT ![w] = [@ EXCEPT !.event = e]]
  /\ pc' = [pc EXCEPT ![w] = "read"]
  /\ UNCHANGED <<rowVars, settling, tick, eventVars, crashes, historyVars>>

(* processIntakeDraft, one turn of the loop: the read. *)
ReadDraft(w) ==
  /\ pc[w] = "read"
  /\ IF status = "QUEUED" /\ ~promoted
     THEN /\ loc' = [loc EXCEPT ![w] = [@ EXCEPT !.version = version, !.resume = resume]]
          /\ pc' = [pc EXCEPT ![w] = "claim"]
     ELSE Finish(w)
  /\ UNCHANGED <<rowVars, settling, tick, eventVars, crashes, historyVars>>

(* Mutant: the claim is an update by id. *)
ClaimableById(w) == Exists

(* The claim's WHERE clause. *)
Claimable(w) ==
  /\ status = "QUEUED"
  /\ ~promoted
  /\ version = loc[w].version

(* The claim lost the race: read again, up to the bound. *)
ClaimLost(w) ==
  /\ pc[w] = "claim"
  /\ ~Claimable(w)
  /\ IF loc[w].tries + 1 < MaxClaimAttempts
     THEN /\ loc' = [loc EXCEPT ![w] = [@ EXCEPT !.tries = loc[w].tries + 1]]
          /\ pc' = [pc EXCEPT ![w] = "read"]
     ELSE Finish(w)
  /\ UNCHANGED <<rowVars, settling, tick, eventVars, crashes, historyVars>>

(* The claim: QUEUED to PROCESSING.  A draft without a resume is settled from *)
(* what its producer sent, READY or PARTIAL.                                  *)
ClaimWon(w) ==
  /\ pc[w] = "claim"
  /\ Claimable(w)
  /\ status' = "PROCESSING"
  /\ version' = version + 1
  /\ claims' = claims + 1
  /\ IF loc[w].resume = 0
     THEN /\ loc' = [loc EXCEPT ![w] =
                      [@ EXCEPT !.tries = 0, !.version = 0,
                                !.outcome = IF structured THEN "READY" ELSE "PARTIAL"]]
          /\ pc' = [pc EXCEPT ![w] = "mark"]
     ELSE /\ loc' = [loc EXCEPT ![w] = [@ EXCEPT !.tries = 0, !.version = 0]]
          /\ pc' = [pc EXCEPT ![w] = "upsert"]
  /\ UNCHANGED <<resume, structured, result, review, materialized, promoted, child,
                 linked, settling, tick, eventVars, crashes, edits, last>>

(* upsertResumeExtractionDraft: an existing child is kept as it is. *)
UpsertChild(w) ==
  /\ pc[w] = "upsert"
  /\ child' = IF child = "none" THEN "PROCESSING" ELSE child
  /\ pc' = [pc EXCEPT ![w] = "extract"]
  /\ UNCHANGED <<status, version, resume, structured, result, review, materialized,
                 promoted, linked, settling, tick, eventVars, loc, crashes, historyVars>>

(* extractResume and classifyIntakeOutcome. *)
Extract(w) ==
  /\ pc[w] = "extract"
  /\ \E o \in Outcomes, S \in SUBSET Fields :
       /\ o \in {"FAILED", "threw"} => S = {}
       /\ loc' = [loc EXCEPT ![w] = [@ EXCEPT !.outcome = o, !.proposal = S]]
  /\ pc' = [pc EXCEPT ![w] = "child"]
  /\ UNCHANGED <<rowVars, settling, tick, eventVars, crashes, historyVars>>

(* Mutant: a thrown extraction is not taken for a failed one. *)
FailedIfReported(w) == loc[w].outcome = "FAILED"

(* Both failure paths settle the draft and its child FAILED. *)
Failed(w) == loc[w].outcome \in {"FAILED", "threw"}

(* The child first, whatever its status is by now. *)
MarkChild(w) ==
  /\ pc[w] = "child"
  /\ child' = IF Failed(w) THEN "FAILED" ELSE "READY_FOR_REVIEW"
  /\ pc' = [pc EXCEPT ![w] = IF Failed(w) THEN "mark" ELSE "merge"]
  /\ UNCHANGED <<status, version, resume, structured, result, review, materialized,
                 promoted, linked, settling, tick, eventVars, loc, crashes, historyVars>>

(* Mutant: the merge does not look at the promotion. *)
MergeReadAlways(w) ==
  /\ pc[w] = "merge"
  /\ Exists
  /\ loc' = [loc EXCEPT ![w] = [@ EXCEPT !.version = version, !.review = review]]
  /\ pc' = [pc EXCEPT ![w] = "save"]
  /\ UNCHANGED <<rowVars, settling, tick, eventVars, crashes, historyVars>>

(* mergeIntoLatestReview, one turn of the loop: the read. *)
MergeRead(w) ==
  /\ pc[w] = "merge"
  /\ IF Exists /\ ~promoted
     THEN /\ loc' = [loc EXCEPT ![w] = [@ EXCEPT !.version = version, !.review = review]]
          /\ pc' = [pc EXCEPT ![w] = "save"]
     ELSE /\ pc' = [pc EXCEPT ![w] = "mark"]
          /\ UNCHANGED loc
  /\ UNCHANGED <<rowVars, settling, tick, eventVars, crashes, historyVars>>

(* mergeExtractionIntoReview: a recruiter's value stays, every other proposed *)
(* field takes the value extracted from resume g.                             *)
MergeExtraction(r, S, g) ==
  [f \in Fields |-> IF f \in S /\ r[f].by # "recruiter"
                    THEN [by |-> "extraction", n |-> g]
                    ELSE r[f]]

(* Mutant: the save does not compare the version. *)
SaveableById(w) == Exists

(* saveTalentIntakeDraftReview's WHERE clause. *)
Saveable(w) ==
  /\ Exists
  /\ version = loc[w].version

(* ... and the save, or one more turn, or giving up. *)
MergeSave(w) ==
  /\ pc[w] = "save"
  /\ IF Saveable(w)
     THEN /\ review' = MergeExtraction(loc[w].review, loc[w].proposal, loc[w].resume)
          /\ version' = version + 1
          /\ pc' = [pc EXCEPT ![w] = "mark"]
     ELSE /\ pc' = [pc EXCEPT ![w] = IF loc[w].tries + 1 < MaxMergeAttempts
                                     THEN "merge" ELSE "mark"]
          /\ UNCHANGED <<review, version>>
  /\ loc' = [loc EXCEPT ![w] =
                [@ EXCEPT !.version = 0, !.review = NoReview,
                          !.tries = IF Saveable(w) THEN 0 ELSE loc[w].tries + 1]]
  /\ UNCHANGED <<status, resume, structured, result, materialized, promoted, child,
                 linked, settling, tick, eventVars, crashes, historyVars>>

(* markTalentIntakeDraftProcessed: an update by id.  Without a resume the     *)
(* producer's payload becomes the review payload.                             *)
MarkProcessed(w) ==
  /\ pc[w] = "mark"
  /\ Finish(w)
  /\ IF Exists
     THEN /\ status' = IF Failed(w) THEN "FAILED" ELSE loc[w].outcome
          /\ version' = version + 1
          /\ result' = IF loc[w].resume = 0 \/ loc[w].outcome = "threw"
                       THEN result ELSE loc[w].resume
          /\ review' = IF loc[w].resume = 0 /\ structured
                       THEN [f \in Fields |-> [by |-> "producer", n |-> 0]]
                       ELSE review
          /\ linked' = (linked \/ loc[w].resume # 0)
     ELSE UNCHANGED <<status, version, result, review, linked>>
  /\ UNCHANGED <<resume, structured, materialized, promoted, child, settling, tick,
                 eventVars, crashes, historyVars>>

(* processed or skipped: either way the outbox row is published. *)
Ack(w) ==
  /\ pc[w] = "ack"
  /\ pending' = pending \ {loc[w].event}
  /\ parked' = parked \ {loc[w].event}
  /\ pc' = [pc EXCEPT ![w] = "idle"]
  /\ loc' = [loc EXCEPT ![w] = NoLocals]
  /\ UNCHANGED <<rowVars, settling, tick, enqueued, crashes, historyVars>>

(* The process dies or a call throws: the event is delivered again, or parked *)
(* when that was its last attempt.                                            *)
Crash(w) ==
  /\ pc[w] # "idle"
  /\ crashes < MaxCrashes
  /\ crashes' = crashes + 1
  /\ pc' = [pc EXCEPT ![w] = "idle"]
  /\ loc' = [loc EXCEPT ![w] = NoLocals]
  /\ \/ UNCHANGED <<pending, parked>>
     \/ /\ loc[w].event \in pending
        /\ pending' = pending \ {loc[w].event}
        /\ parked' = parked \union {loc[w].event}
  /\ UNCHANGED <<rowVars, settling, tick, enqueued, historyVars>>

(* The operator redrives the draft's unpublished events. *)
Redrive ==
  /\ parked # {}
  /\ pending' = pending \union parked
  /\ parked' = {}
  /\ UNCHANGED <<rowVars, settling, tick, enqueued, workVars, historyVars>>

(* The attachment worker lists the PROCESSING children ... *)
TickList ==
  /\ AttachmentWorker
  /\ ~tick
  /\ child = "PROCESSING"
  /\ tick' = TRUE
  /\ UNCHANGED <<rowVars, settling, eventVars, workVars, historyVars>>

(* ... and when it gets to this one, which is not an attachment, fails it. *)
TickFail ==
  /\ tick
  /\ tick' = FALSE
  /\ child' = "FAILED"
  /\ UNCHANGED <<status, version, resume, structured, result, review, materialized,
                 promoted, linked, settling, eventVars, workVars, historyVars>>

-----------------------------------------------------------------------------
WorkerStep(w) ==
  \/ ReadDraft(w)
  \/ ClaimLost(w)
  \/ ClaimWon(w)
  \/ UpsertChild(w)
  \/ Extract(w)
  \/ MarkChild(w)
  \/ MergeRead(w)
  \/ MergeSave(w)
  \/ MarkProcessed(w)
  \/ Ack(w)

Recruiter ==
  \/ CompleteUpload
  \/ RetryManual
  \/ SettleManual
  \/ Requeue
  \/ Replace
  \/ Discard
  \/ \E f \in Fields : Patch(f)
  \/ Materialize
  \/ Promote

Next ==
  \/ Recruiter
  \/ \E w \in Workers : Deliver(w) \/ WorkerStep(w) \/ Crash(w)
  \/ Redrive
  \/ TickList
  \/ TickFail

Spec == Init /\ [][Next]_vars

(* The drain runs on a timer and a handler that is not interrupted finishes;  *)
(* nothing is assumed of the recruiter, the operator or the attachment tick.  *)
FairSpec ==
  /\ Spec
  /\ \A w \in Workers : WF_vars(Deliver(w)) /\ WF_vars(WorkerStep(w))

-----------------------------------------------------------------------------
(* Each queueing of the draft is claimed at most once, however often its      *)
(* event is delivered and however many deliveries run at the same time.       *)
OneClaimPerQueueing ==
  claims + (IF status = "QUEUED" THEN 1 ELSE 0) <= enqueued

(* What a recruiter saved stands: no extraction running at the same time, or   *)
(* later, overwrites the last accepted save of a field.                       *)
RecruiterEditsKept ==
  \A f \in Fields : last[f] # 0 => review[f] = [by |-> "recruiter", n |-> last[f]]

(* Once the draft is promoted its review payload no longer changes: an        *)
(* extraction still under way cannot touch what the TalentRecord was made of. *)
PromotedReviewFrozen == [][promoted => review' = review]_vars

(* A draft reported as read shows what was read from the resume it now has. *)
ResultOfCurrentResume ==
  status \in {"READY", "PARTIAL"} /\ linked => result = resume

(* A queued draft is processed: it settles, or the recruiter takes it back. *)
QueuedSettles ==
  status = "QUEUED" ~>
    status \in {"READY", "PARTIAL", "FAILED", "UPLOADED", "GONE"} \/ promoted

(* A delivery that has claimed the draft and not yet settled it. *)
Extracting(w) == pc[w] \in {"upsert", "extract", "child", "merge", "save", "mark"}

(* PROCESSING works as a lock on the draft: one delivery at a time extracts.  *)
(* It holds while the resume is not replaced, although neither the settlement *)
(* nor the child's update compares anything (README, section 4).              *)
OneExtraction ==
  \A w, v \in Workers : Extracting(w) /\ Extracting(v) => w = v

(* A draft reported as read has an extraction child to accept: the child is   *)
(* settled before the parent says so, but by id, like the parent.  It holds   *)
(* without replacements and attachment worker (README, Observations).         *)
ReadyHasReviewableChild ==
  status \in {"READY", "PARTIAL"} /\ linked => child \in {"READY_FOR_REVIEW", "ACCEPTED"}
=============================================================================
