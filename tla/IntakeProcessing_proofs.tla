----------------------- MODULE IntakeProcessing_proofs -----------------------
(***************************************************************************)
(* Proofs about IntakeProcessing, for any number of workers and fields and  *)
(* for every value of the bounds.                                           *)
(***************************************************************************)
EXTENDS IntakeProcessing, TLAPS

(* The locals of an idle worker have their types. *)
LEMMA NoLocalsTyped == NoReview \in [Fields -> Cells] /\ NoLocals \in Locals
<1>1. NoReview \in [Fields -> Cells]
  BY DEF NoReview, Cells, Authors
<1>2. 0 \in 0 .. MaxResumes
  BY IntakeAssumption DEF IntakeAssumption
<1> QED
  BY <1>1, <1>2 DEF NoLocals, Locals, Outcomes

(* The extraction of a well-typed payload is well typed. *)
LEMMA MergeTyped ==
  ASSUME NEW r \in [Fields -> Cells], NEW S \in SUBSET Fields, NEW g \in 0 .. MaxResumes
  PROVE  MergeExtraction(r, S, g) \in [Fields -> Cells]
BY IntakeAssumption DEF MergeExtraction, Cells, Authors, IntakeAssumption
(* The type of the variables a worker's step leaves alone. *)
RestTypes ==
  /\ status \in Statuses \union {"GONE"}
  /\ version \in Nat
  /\ resume \in 0 .. MaxResumes
  /\ structured \in BOOLEAN
  /\ result \in 0 .. MaxResumes
  /\ review \in [Fields -> Cells]
  /\ materialized \in BOOLEAN
  /\ promoted \in BOOLEAN
  /\ child \in {"none", "PROCESSING", "READY_FOR_REVIEW", "FAILED", "ACCEPTED"}
  /\ linked \in BOOLEAN
  /\ settling \in BOOLEAN
  /\ tick \in BOOLEAN

EventTypes ==
  /\ enqueued \in 0 .. MaxEvents
  /\ pending \subseteq 1 .. enqueued
  /\ parked \subseteq 1 .. enqueued

WorkTypes ==
  /\ pc \in [Workers -> Steps]
  /\ loc \in [Workers -> Locals]
  /\ crashes \in 0 .. MaxCrashes

HistoryTypes ==
  /\ edits \in 0 .. MaxEdits
  /\ last \in [Fields -> 0 .. MaxEdits]
  /\ claims \in Nat

(* TypeOK falls into four independent parts. *)
LEMMA TypeParts ==
  ASSUME RestTypes', EventTypes', WorkTypes', HistoryTypes'
  PROVE  TypeOK'
BY DEF TypeOK, RestTypes, EventTypes, WorkTypes, HistoryTypes

(* A step of a delivery, by kind: what it does to the two worker variables. *)
LEMMA WorkStep ==
  ASSUME TypeOK, NEW w \in Workers, NEW s \in Steps, NEW l \in Locals,
         pc' = [pc EXCEPT ![w] = s], loc' = [loc EXCEPT ![w] = l], UNCHANGED crashes
  PROVE  WorkTypes'
BY DEF TypeOK, WorkTypes

LEMMA SameWork ==
  ASSUME TypeOK, UNCHANGED workVars
  PROVE  WorkTypes'
BY DEF TypeOK, WorkTypes, workVars

LEMMA SameRest ==
  ASSUME TypeOK, UNCHANGED <<rowVars, settling, tick>>
  PROVE  RestTypes'
BY DEF TypeOK, RestTypes, rowVars

LEMMA SameEvents ==
  ASSUME TypeOK, UNCHANGED eventVars
  PROVE  EventTypes'
BY DEF TypeOK, EventTypes, eventVars

LEMMA SameHistory ==
  ASSUME TypeOK, UNCHANGED historyVars
  PROVE  HistoryTypes'
BY DEF TypeOK, HistoryTypes, historyVars

(* The draft is queued: one more event. *)
LEMMA EnqueueTypes ==
  ASSUME TypeOK, Enqueue
  PROVE  EventTypes'
<1>1. enqueued \in Nat /\ enqueued < MaxEvents /\ enqueued' = enqueued + 1
  BY DEF TypeOK, Enqueue
<1>2. enqueued' \in 0 .. MaxEvents
  BY <1>1, IntakeAssumption DEF IntakeAssumption
<1>3. 1 .. enqueued \subseteq 1 .. enqueued' /\ enqueued + 1 \in 1 .. enqueued'
  BY <1>1
<1> QED
  BY <1>2, <1>3 DEF TypeOK, Enqueue, EventTypes

(* What the recruiter does keeps the types. *)
LEMMA RecruiterTypes ==
  ASSUME TypeOK, Recruiter
  PROVE  TypeOK'
<1>1. CASE CompleteUpload
  <2>1. RestTypes'
    BY <1>1 DEF TypeOK, RestTypes, CompleteUpload, Statuses
  <2> QED
    BY <1>1, <2>1, EnqueueTypes, SameWork, SameHistory, TypeParts DEF CompleteUpload, eventVars, workVars, historyVars
<1>2. CASE RetryManual
  <2>1. RestTypes'
    BY <1>2 DEF TypeOK, RestTypes, RetryManual, rowVars
  <2> QED
    BY <1>2, <2>1, SameEvents, SameWork, SameHistory, TypeParts DEF RetryManual, eventVars, workVars, historyVars
<1>3. CASE SettleManual
  <2>1. settling' = FALSE /\ status' \in Statuses \union {"GONE"} /\ version' \in Nat
    BY <1>3 DEF TypeOK, SettleManual, Statuses, Exists
  <2>2. UNCHANGED <<resume, structured, result, review, materialized, promoted, child,
                    linked, tick>>
    BY <1>3 DEF SettleManual
  <2>3. RestTypes'
    BY <2>1, <2>2 DEF TypeOK, RestTypes
  <2> QED
    BY <1>3, <2>3, SameEvents, SameWork, SameHistory, TypeParts DEF SettleManual, eventVars, workVars, historyVars
<1>4. CASE Requeue
  <2>1. RestTypes'
    BY <1>4 DEF TypeOK, RestTypes, Requeue, Statuses
  <2> QED
    BY <1>4, <2>1, EnqueueTypes, SameWork, SameHistory, TypeParts DEF Requeue, eventVars, workVars, historyVars
<1>5. CASE Replace
  <2>1. resume' \in 0 .. MaxResumes
    BY <1>5, IntakeAssumption DEF TypeOK, Replace, IntakeAssumption
  <2>2. RestTypes'
    BY <1>5, <2>1 DEF TypeOK, RestTypes, Replace, Statuses
  <2> QED
    BY <1>5, <2>2, SameEvents, SameWork, SameHistory, TypeParts DEF Replace, eventVars, workVars, historyVars
<1>6. CASE Discard
  <2>1. RestTypes'
    BY <1>6 DEF TypeOK, RestTypes, Discard, Statuses
  <2> QED
    BY <1>6, <2>1, SameEvents, SameWork, SameHistory, TypeParts DEF Discard, eventVars, workVars, historyVars
<1>7. CASE \E f \in Fields : Patch(f)
  <2>1. PICK f \in Fields : Patch(f)
    BY <1>7
  <2>2. edits \in 0 .. MaxEdits /\ edits < MaxEdits /\ edits' = edits + 1
    BY <2>1 DEF TypeOK, Patch
  <2>3. edits' \in 0 .. MaxEdits /\ edits + 1 \in 0 .. MaxEdits /\ edits + 1 \in Nat
    BY <2>2, IntakeAssumption DEF IntakeAssumption
  <2>4. [by |-> "recruiter", n |-> edits + 1] \in Cells
    BY <2>3 DEF Cells, Authors
  <2>5. review' \in [Fields -> Cells]
    BY <2>1, <2>4 DEF TypeOK, Patch, ApplyRecruiterReview
  <2>6. RestTypes'
    BY <2>1, <2>5 DEF TypeOK, RestTypes, Patch
  <2>7. HistoryTypes'
    BY <2>1, <2>3 DEF TypeOK, HistoryTypes, Patch
  <2> QED
    BY <2>1, <2>6, <2>7, SameEvents, SameWork, TypeParts DEF Patch, eventVars, workVars, historyVars
<1>8. CASE Materialize
  <2>1. RestTypes'
    BY <1>8 DEF TypeOK, RestTypes, Materialize
  <2> QED
    BY <1>8, <2>1, SameEvents, SameWork, SameHistory, TypeParts DEF Materialize, eventVars, workVars, historyVars
<1>9. CASE Promote
  <2>1. RestTypes'
    BY <1>9 DEF TypeOK, RestTypes, Promote
  <2> QED
    BY <1>9, <2>1, SameEvents, SameWork, SameHistory, TypeParts DEF Promote, eventVars, workVars, historyVars
<1> QED
  BY <1>1, <1>2, <1>3, <1>4, <1>5, <1>6, <1>7, <1>8, <1>9 DEF Recruiter

(* So does every step of a delivery. *)
LEMMA FinishTypes ==
  ASSUME TypeOK, NEW w \in Workers, Finish(w), UNCHANGED crashes
  PROVE  WorkTypes'
<1>1. [NoLocals EXCEPT !.event = loc[w].event] \in Locals
  BY NoLocalsTyped DEF TypeOK, Locals
<1> QED
  BY <1>1, WorkStep DEF Finish, Steps

LEMMA WorkerTypes ==
  ASSUME TypeOK, NEW w \in Workers, Deliver(w) \/ WorkerStep(w)
  PROVE  TypeOK'
<1> USE DEF eventVars, historyVars, Steps
<1>l. loc[w] \in Locals
  BY DEF TypeOK
<1>1. CASE Deliver(w)
  <2>1. PICK e \in pending : loc' = [loc EXCEPT ![w] = [loc[w] EXCEPT !.event = e]]
    BY <1>1 DEF Deliver
  <2>2. e \in Nat
    BY DEF TypeOK
  <2>3. [loc[w] EXCEPT !.event = e] \in Locals
    BY <1>l, <2>2 DEF Locals
  <2>4. WorkTypes'
    BY <1>1, <2>1, <2>3, WorkStep DEF Deliver
  <2> QED
    BY <1>1, <2>4, SameRest, SameEvents, SameHistory, TypeParts DEF Deliver
<1>2. CASE ReadDraft(w)
  <2>1. [loc[w] EXCEPT !.version = version, !.resume = resume] \in Locals
    BY <1>l DEF Locals, TypeOK
  <2>2. WorkTypes'
    BY <1>2, <2>1, WorkStep, FinishTypes DEF ReadDraft
  <2> QED
    BY <1>2, <2>2, SameRest, SameEvents, SameHistory, TypeParts DEF ReadDraft
<1>3. CASE ClaimLost(w)
  <2>1. [loc[w] EXCEPT !.tries = loc[w].tries + 1] \in Locals
    BY <1>l DEF Locals
  <2>2. WorkTypes'
    BY <1>3, <2>1, WorkStep, FinishTypes DEF ClaimLost
  <2> QED
    BY <1>3, <2>2, SameRest, SameEvents, SameHistory, TypeParts DEF ClaimLost
<1>4. CASE ClaimWon(w)
  <2>1. [loc[w] EXCEPT !.tries = 0, !.version = 0] \in Locals
    BY <1>l DEF Locals
  <2>2. ASSUME NEW o \in {"READY", "PARTIAL"}
        PROVE  [loc[w] EXCEPT !.tries = 0, !.version = 0, !.outcome = o] \in Locals
    BY <1>l DEF Locals, Outcomes
  <2>3. (IF structured THEN "READY" ELSE "PARTIAL") \in {"READY", "PARTIAL"}
    OBVIOUS
  <2>4. [loc[w] EXCEPT !.tries = 0, !.version = 0,
                       !.outcome = IF structured THEN "READY" ELSE "PARTIAL"] \in Locals
    BY <2>2, <2>3
  <2>5. loc[w].resume = 0 => WorkTypes'
    BY <1>4, <2>4, WorkStep DEF ClaimWon
  <2>6. loc[w].resume # 0 => WorkTypes'
    BY <1>4, <2>1, WorkStep DEF ClaimWon
  <2>7. WorkTypes'
    BY <2>5, <2>6
  <2>8. RestTypes'
    BY <1>4 DEF ClaimWon, TypeOK, RestTypes, Statuses
  <2>9. HistoryTypes'
    BY <1>4 DEF ClaimWon, TypeOK, HistoryTypes
  <2> QED
    BY <1>4, <2>7, <2>8, <2>9, SameEvents, TypeParts DEF ClaimWon
<1>5. CASE UpsertChild(w)
  <2>1. WorkTypes'
    BY <1>5 DEF UpsertChild, TypeOK, WorkTypes
  <2>2. RestTypes'
    BY <1>5 DEF UpsertChild, TypeOK, RestTypes
  <2> QED
    BY <1>5, <2>1, <2>2, SameEvents, SameHistory, TypeParts DEF UpsertChild
<1>6. CASE Extract(w)
  <2>1. PICK o \in Outcomes, S \in SUBSET Fields :
           loc' = [loc EXCEPT ![w] = [loc[w] EXCEPT !.outcome = o, !.proposal = S]]
    BY <1>6 DEF Extract
  <2>2. [loc[w] EXCEPT !.outcome = o, !.proposal = S] \in Locals
    BY <1>l DEF Locals
  <2>3. WorkTypes'
    BY <1>6, <2>1, <2>2, WorkStep DEF Extract
  <2> QED
    BY <1>6, <2>3, SameRest, SameEvents, SameHistory, TypeParts DEF Extract
<1>7. CASE MarkChild(w)
  <2>1. WorkTypes'
    BY <1>7 DEF MarkChild, TypeOK, WorkTypes
  <2>2. RestTypes'
    BY <1>7 DEF MarkChild, TypeOK, RestTypes
  <2> QED
    BY <1>7, <2>1, <2>2, SameEvents, SameHistory, TypeParts DEF MarkChild
<1>8. CASE MergeRead(w)
  <2>1. [loc[w] EXCEPT !.version = version, !.review = review] \in Locals
    BY <1>l DEF Locals, TypeOK
  <2>2. (Exists /\ ~promoted) => WorkTypes'
    BY <1>8, <2>1, WorkStep DEF MergeRead
  <2>3. ~(Exists /\ ~promoted) => WorkTypes'
    BY <1>8 DEF MergeRead, TypeOK, WorkTypes
  <2>4. WorkTypes'
    BY <2>2, <2>3
  <2> QED
    BY <1>8, <2>4, SameRest, SameEvents, SameHistory, TypeParts DEF MergeRead
<1>9. CASE MergeSave(w)
  <2>1. ASSUME NEW n \in Nat
        PROVE  [loc[w] EXCEPT !.version = 0, !.review = NoReview, !.tries = n] \in Locals
    BY <1>l, NoLocalsTyped DEF Locals
  <2>2. (IF Saveable(w) THEN 0 ELSE loc[w].tries + 1) \in Nat
    BY <1>l DEF Locals
  <2>3. [loc[w] EXCEPT !.version = 0, !.review = NoReview,
                       !.tries = IF Saveable(w) THEN 0 ELSE loc[w].tries + 1] \in Locals
    BY <2>1, <2>2
  <2>4. PICK s \in Steps : pc' = [pc EXCEPT ![w] = s]
    BY <1>9 DEF MergeSave
  <2>5. WorkTypes'
    BY <1>9, <2>3, <2>4, WorkStep DEF MergeSave
  <2>6. MergeExtraction(loc[w].review, loc[w].proposal, loc[w].resume) \in [Fields -> Cells]
    BY <1>l, MergeTyped DEF Locals
  <2>7. review' \in [Fields -> Cells] /\ version' \in Nat
    BY <1>9, <2>6 DEF MergeSave, TypeOK
  <2>8. RestTypes'
    BY <1>9, <2>7 DEF MergeSave, TypeOK, RestTypes
  <2> QED
    BY <1>9, <2>5, <2>8, SameEvents, SameHistory, TypeParts DEF MergeSave
<1>10. CASE MarkProcessed(w)
  <2>1. WorkTypes'
    BY <1>10, FinishTypes DEF MarkProcessed
  <2>2. loc[w].outcome \in Outcomes /\ loc[w].resume \in 0 .. MaxResumes
    BY <1>l DEF Locals
  <2>3. status' \in Statuses \union {"GONE"} /\ version' \in Nat
    BY <1>10, <2>2 DEF MarkProcessed, TypeOK, Failed, Outcomes, Statuses
  <2>4. result' \in 0 .. MaxResumes
    BY <1>10, <2>2 DEF MarkProcessed, TypeOK
  <2>5. [f \in Fields |-> [by |-> "producer", n |-> 0]] \in [Fields -> Cells]
    BY DEF Cells, Authors
  <2>6. review' \in [Fields -> Cells]
    BY <1>10, <2>5 DEF MarkProcessed, TypeOK
  <2>7. linked' \in BOOLEAN
    BY <1>10 DEF MarkProcessed, TypeOK
  <2>8. RestTypes'
    BY <1>10, <2>3, <2>4, <2>6, <2>7 DEF MarkProcessed, TypeOK, RestTypes
  <2> QED
    BY <1>10, <2>1, <2>8, SameEvents, SameHistory, TypeParts DEF MarkProcessed
<1>11. CASE Ack(w)
  <2>1. WorkTypes'
    BY <1>11, NoLocalsTyped, WorkStep DEF Ack
  <2>2. EventTypes'
    BY <1>11 DEF Ack, TypeOK, EventTypes
  <2> QED
    BY <1>11, <2>1, <2>2, SameRest, SameHistory, TypeParts DEF Ack
<1> QED
  BY <1>1, <1>2, <1>3, <1>4, <1>5, <1>6, <1>7, <1>8, <1>9, <1>10, <1>11 DEF WorkerStep

(* Every variable of the draft, its events and its deliveries keeps its type, *)
(* the bounds included.                                                       *)
THEOREM TypeCorrect == Spec => []TypeOK
<1>1. Init => TypeOK
  <2> SUFFICES ASSUME Init PROVE TypeOK
    OBVIOUS
  <2>1. enqueued \in 0 .. MaxEvents /\ pending \subseteq 1 .. enqueued
    BY IntakeAssumption DEF Init, IntakeAssumption
  <2>2. resume \in 0 .. MaxResumes /\ result \in 0 .. MaxResumes /\ crashes \in 0 .. MaxCrashes
    BY IntakeAssumption DEF Init, IntakeAssumption
  <2>3. edits \in 0 .. MaxEdits /\ last \in [Fields -> 0 .. MaxEdits]
    BY IntakeAssumption DEF Init, IntakeAssumption
  <2>4. pc \in [Workers -> Steps] /\ loc \in [Workers -> Locals]
    BY NoLocalsTyped DEF Init, Steps
  <2>5. review \in [Fields -> Cells] /\ parked \subseteq 1 .. enqueued
    BY NoLocalsTyped DEF Init
  <2>6. status \in Statuses \union {"GONE"} /\ structured \in BOOLEAN /\ settling \in BOOLEAN
    BY DEF Init, Statuses
  <2> QED
    BY <2>1, <2>2, <2>3, <2>4, <2>5, <2>6 DEF Init, TypeOK
<1>2. TypeOK /\ [Next]_vars => TypeOK'
  <2> SUFFICES ASSUME TypeOK, [Next]_vars PROVE TypeOK'
    OBVIOUS
  <2>1. CASE Recruiter
    BY <2>1, RecruiterTypes
  <2>2. ASSUME NEW w \in Workers, Deliver(w) \/ WorkerStep(w)
        PROVE  TypeOK'
    BY <2>2, WorkerTypes
  <2>3. ASSUME NEW w \in Workers, Crash(w)
        PROVE  TypeOK'
    <3>1. crashes' \in 0 .. MaxCrashes
      BY <2>3, IntakeAssumption DEF Crash, TypeOK, IntakeAssumption
    <3>2. WorkTypes'
      BY <2>3, <3>1, NoLocalsTyped DEF Crash, TypeOK, WorkTypes, Steps
    <3>3. EventTypes'
      BY <2>3 DEF Crash, TypeOK, EventTypes
    <3> QED
      BY <2>3, <3>2, <3>3, SameRest, SameHistory, TypeParts DEF Crash
  <2>4. CASE Redrive
    <3>1. EventTypes'
      BY <2>4 DEF Redrive, TypeOK, EventTypes
    <3> QED
      BY <2>4, <3>1, SameRest, SameWork, SameHistory, TypeParts DEF Redrive
  <2>5. CASE TickList
    <3>1. RestTypes'
      BY <2>5 DEF TickList, TypeOK, RestTypes, rowVars
    <3> QED
      BY <2>5, <3>1, SameEvents, SameWork, SameHistory, TypeParts DEF TickList
  <2>6. CASE TickFail
    <3>1. RestTypes'
      BY <2>6 DEF TickFail, TypeOK, RestTypes
    <3> QED
      BY <2>6, <3>1, SameEvents, SameWork, SameHistory, TypeParts DEF TickFail
  <2>7. CASE UNCHANGED vars
    BY <2>7, SameRest, SameEvents, SameWork, SameHistory, TypeParts DEF vars
  <2> QED
    BY <2>1, <2>2, <2>3, <2>4, <2>5, <2>6, <2>7 DEF Next
<1> QED
  BY <1>1, <1>2, PTL DEF Spec

(* Each queueing of the draft is claimed at most once: only the transaction   *)
(* that writes an event makes the draft QUEUED, and the claim takes that      *)
(* status away.                                                               *)
THEOREM ClaimedOnce == Spec => []OneClaimPerQueueing
<1>1. Init => OneClaimPerQueueing
  BY DEF Init, OneClaimPerQueueing
<1>2. TypeOK /\ OneClaimPerQueueing /\ [Next]_vars => OneClaimPerQueueing'
  <2> SUFFICES ASSUME TypeOK, OneClaimPerQueueing, [Next]_vars
               PROVE  OneClaimPerQueueing'
    OBVIOUS
  <2>t. claims \in Nat /\ enqueued \in Nat /\ enqueued \in 0 .. MaxEvents
    BY DEF TypeOK
  <2>1. ASSUME claims' = claims, enqueued' = enqueued, status' = "QUEUED" => status = "QUEUED"
        PROVE  OneClaimPerQueueing'
    BY <2>1, <2>t DEF OneClaimPerQueueing
  <2>2. CASE CompleteUpload \/ Requeue
    BY <2>2, <2>t DEF CompleteUpload, Requeue, Enqueue, historyVars, OneClaimPerQueueing
  <2>3. CASE RetryManual \/ SettleManual \/ Replace \/ Discard \/ Materialize \/ Promote
    BY <2>3, <2>1 DEF RetryManual, SettleManual, Replace, Discard, Materialize, Promote,
                      rowVars, eventVars, historyVars
  <2>4. ASSUME NEW f \in Fields, Patch(f)
        PROVE  OneClaimPerQueueing'
    BY <2>4, <2>1 DEF Patch, eventVars
  <2>5. ASSUME NEW w \in Workers, ClaimWon(w)
        PROVE  OneClaimPerQueueing'
    BY <2>5, <2>t DEF ClaimWon, Claimable, eventVars, OneClaimPerQueueing
  <2>6. ASSUME NEW w \in Workers, MarkProcessed(w)
        PROVE  OneClaimPerQueueing'
    <3>1. loc[w].outcome \in Outcomes
      BY DEF TypeOK, Locals
    <3>2. status' = "QUEUED" => status = "QUEUED"
      BY <2>6, <3>1 DEF MarkProcessed, Failed, Outcomes
    <3> QED
      BY <2>6, <2>1, <3>2 DEF MarkProcessed, eventVars, historyVars
  <2>7. ASSUME NEW w \in Workers,
               \/ Deliver(w) \/ ReadDraft(w) \/ ClaimLost(w) \/ UpsertChild(w)
               \/ Extract(w) \/ MarkChild(w) \/ MergeRead(w) \/ MergeSave(w)
               \/ Ack(w) \/ Crash(w)
        PROVE  OneClaimPerQueueing'
    BY <2>7, <2>1 DEF Deliver, ReadDraft, ClaimLost, UpsertChild, Extract, MarkChild,
                      MergeRead, MergeSave, Ack, Crash, rowVars, eventVars, historyVars
  <2>8. CASE Redrive \/ TickList \/ TickFail \/ UNCHANGED vars
    BY <2>8, <2>1 DEF Redrive, TickList, TickFail, vars, rowVars, eventVars, historyVars
  <2> QED
    BY <2>2, <2>3, <2>4, <2>5, <2>6, <2>7, <2>8 DEF Next, Recruiter, WorkerStep
<1> QED
  BY <1>1, <1>2, TypeCorrect, PTL DEF Spec

-----------------------------------------------------------------------------
(* Uploaded drafts.  A worker that has claimed one has a resume to read, and  *)
(* a worker about to save its merge holds the payload of the version it will  *)
(* compare: that is why the comparison protects a save made meanwhile.  Its   *)
(* version is already out of date once the draft is promoted.                 *)
Busy == {"claim", "upsert", "extract", "child", "merge", "save", "mark"}

HasResume ==
  /\ resume # 0
  /\ \A w \in Workers : pc[w] \in Busy => loc[w].resume # 0

SnapshotHonest ==
  \A w \in Workers : pc[w] = "save" =>
    /\ loc[w].version <= version
    /\ loc[w].version = version => loc[w].review = review
    /\ promoted => loc[w].version # version

EditInv == HasResume /\ SnapshotHonest /\ RecruiterEditsKept

(* A step that leaves the payload, the saves and the workers' positions alone *)
(* and does not turn the version back keeps the invariant.                    *)
LEMMA EditFrame ==
  ASSUME TypeOK, EditInv, resume' # 0, UNCHANGED <<review, last, pc, loc>>,
         version' \in Nat, version' >= version,
         promoted' = promoted \/ version' > version
  PROVE  EditInv'
<1>1. HasResume'
  BY DEF EditInv, HasResume
<1>2. \A w \in Workers : loc[w].version \in Nat
  BY DEF TypeOK, Locals
<1>3. SnapshotHonest'
  BY <1>2 DEF EditInv, SnapshotHonest, TypeOK
<1>4. RecruiterEditsKept'
  BY DEF EditInv, RecruiterEditsKept
<1> QED
  BY <1>1, <1>3, <1>4 DEF EditInv

(* A step of one worker that touches neither the row nor the saves. *)
LEMMA EditWorkerStep ==
  ASSUME TypeOK, EditInv, UNCHANGED <<review, last, version, promoted, resume>>,
         NEW w \in Workers, NEW s \in Steps, NEW l \in Locals,
         pc' = [pc EXCEPT ![w] = s], loc' = [loc EXCEPT ![w] = l],
         s \in Busy => l.resume # 0,
         s = "save" => l.version = version /\ l.review = review /\ ~promoted
  PROVE  EditInv'
<1>1. pc' \in [Workers -> Steps] /\ loc' \in [Workers -> Locals]
  BY DEF TypeOK
<1>2. \A v \in Workers : pc'[v] = (IF v = w THEN s ELSE pc[v]) /\ loc'[v] = (IF v = w THEN l ELSE loc[v])
  BY DEF TypeOK
<1>3. HasResume'
  BY <1>2 DEF EditInv, HasResume
<1>4. version \in Nat
  BY DEF TypeOK
<1>5. SnapshotHonest'
  BY <1>2, <1>4 DEF EditInv, SnapshotHonest
<1>6. RecruiterEditsKept'
  BY DEF EditInv, RecruiterEditsKept
<1> QED
  BY <1>3, <1>5, <1>6 DEF EditInv

LEMMA EditFinish ==
  ASSUME TypeOK, EditInv, UNCHANGED <<review, last, version, promoted, resume>>,
         NEW w \in Workers, Finish(w)
  PROVE  EditInv'
<1>1. [NoLocals EXCEPT !.event = loc[w].event] \in Locals
  BY NoLocalsTyped DEF TypeOK, Locals
<1> QED
  BY <1>1, EditWorkerStep DEF Finish, Steps, Busy

(* The invariant of an uploaded draft is inductive. *)
LEMMA EditInductive ==
  ASSUME TypeOK, TypeOK', EditInv, Next
  PROVE  EditInv' /\ (promoted => review' = review)
<1> USE DEF rowVars, eventVars, workVars, historyVars
<1>v. version \in Nat /\ version' \in Nat
  BY DEF TypeOK
<1>r. resume # 0
  BY DEF EditInv, HasResume
<1>l. \A w \in Workers : loc[w] \in Locals /\ (pc[w] \in Busy => loc[w].resume # 0)
  BY DEF TypeOK, EditInv, HasResume
<1>1. CASE CompleteUpload \/ RetryManual \/ SettleManual \/ Requeue \/ Discard \/ Materialize
  <2>1. UNCHANGED <<review, last, pc, loc, resume, promoted>> /\ version' >= version
    BY <1>1, <1>v DEF CompleteUpload, RetryManual, SettleManual, Requeue, Discard, Materialize
  <2> QED
    BY <2>1, <1>r, <1>v, EditFrame
<1>2. CASE Replace
  <2>1. resume' # 0
    BY <1>2 DEF Replace, TypeOK
  <2> QED
    BY <1>2, <2>1, <1>v, EditFrame DEF Replace
<1>3. CASE Promote
  <2>1. UNCHANGED <<review, last, pc, loc, resume>> /\ version' = version + 1
    BY <1>3 DEF Promote
  <2>2. version' >= version /\ version' > version
    BY <2>1, <1>v
  <2>3. EditInv'
    BY <2>1, <2>2, <1>r, <1>v, EditFrame
  <2> QED
    BY <2>1, <2>3
<1>4. ASSUME NEW f \in Fields, Patch(f)
      PROVE  EditInv' /\ (promoted => review' = review)
  <2>1. edits \in Nat /\ version' = version + 1
    BY <1>4 DEF Patch, TypeOK
  <2>2. RecruiterEditsKept'
    BY <1>4, <2>1 DEF Patch, ApplyRecruiterReview, TypeOK, EditInv, RecruiterEditsKept
  <2>3. \A w \in Workers : loc[w].version \in Nat
    BY <1>l DEF Locals
  <2>4. SnapshotHonest'
    BY <1>4, <1>v, <2>1, <2>3 DEF Patch, EditInv, SnapshotHonest
  <2>5. HasResume'
    BY <1>4 DEF Patch, EditInv, HasResume
  <2> QED
    BY <1>4, <2>2, <2>4, <2>5 DEF EditInv, Patch
<1>5. ASSUME NEW w \in Workers, Deliver(w) \/ WorkerStep(w) \/ Crash(w)
      PROVE  EditInv' /\ (promoted => review' = review)
  <2> USE DEF Steps, Busy
  <2>l. loc[w] \in Locals /\ loc'[w] \in Locals
    BY DEF TypeOK
  <2>1. CASE Deliver(w)
    <3>1. PICK e \in pending : loc' = [loc EXCEPT ![w] = [loc[w] EXCEPT !.event = e]]
      BY <2>1 DEF Deliver
    <3>2. e \in Nat
      BY DEF TypeOK
    <3>3. [loc[w] EXCEPT !.event = e] \in Locals
      BY <2>l, <3>2 DEF Locals
    <3> QED
      BY <2>1, <3>1, <3>3, EditWorkerStep DEF Deliver
  <2>2. CASE ReadDraft(w)
    <3>1. [loc[w] EXCEPT !.version = version, !.resume = resume] \in Locals
      BY <2>l DEF Locals, TypeOK
    <3>2. [loc[w] EXCEPT !.version = version, !.resume = resume].resume = resume
      BY <2>l DEF Locals
    <3> QED
      BY <2>2, <3>1, <3>2, <1>r, EditWorkerStep, EditFinish DEF ReadDraft
  <2>3. CASE ClaimLost(w)
    <3>1. [loc[w] EXCEPT !.tries = loc[w].tries + 1] \in Locals
      BY <2>l DEF Locals
    <3> QED
      BY <2>3, <3>1, EditWorkerStep, EditFinish DEF ClaimLost
  <2>4. CASE ClaimWon(w)
    <3>1. loc[w].resume # 0
      BY <2>4, <1>l DEF ClaimWon
    <3>2. /\ pc' = [pc EXCEPT ![w] = "upsert"]
          /\ loc' = [loc EXCEPT ![w] = [loc[w] EXCEPT !.tries = 0, !.version = 0]]
          /\ UNCHANGED <<review, last, promoted, resume>>
          /\ version' = version + 1
      BY <2>4, <3>1 DEF ClaimWon
    <3>3. [loc[w] EXCEPT !.tries = 0, !.version = 0].resume = loc[w].resume
      BY <2>l DEF Locals
    <3>4. HasResume'
      BY <3>1, <3>2, <3>3 DEF TypeOK, EditInv, HasResume
    <3>5. \A v \in Workers : loc[v].version \in Nat
      BY <1>l DEF Locals
    <3>6. \A v \in Workers : pc'[v] = "save" => v # w /\ pc[v] = "save" /\ loc'[v] = loc[v]
      BY <3>2 DEF TypeOK
    <3>7. SnapshotHonest'
      BY <3>2, <3>5, <3>6, <1>v DEF EditInv, SnapshotHonest
    <3>8. RecruiterEditsKept'
      BY <3>2 DEF EditInv, RecruiterEditsKept
    <3> QED
      BY <3>2, <3>4, <3>7, <3>8 DEF EditInv
  <2>5. CASE UpsertChild(w)
    <3>1. loc' = [loc EXCEPT ![w] = loc[w]]
      BY <2>5 DEF UpsertChild, TypeOK
    <3>2. loc[w].resume # 0
      BY <2>5, <1>l DEF UpsertChild
    <3> QED
      BY <2>5, <2>l, <3>1, <3>2, EditWorkerStep DEF UpsertChild
  <2>6. CASE Extract(w)
    <3>1. PICK o \in Outcomes, S \in SUBSET Fields :
             loc' = [loc EXCEPT ![w] = [loc[w] EXCEPT !.outcome = o, !.proposal = S]]
      BY <2>6 DEF Extract
    <3>2. [loc[w] EXCEPT !.outcome = o, !.proposal = S] \in Locals
      BY <2>l DEF Locals
    <3>3. [loc[w] EXCEPT !.outcome = o, !.proposal = S].resume # 0
      BY <2>6, <2>l, <1>l DEF Extract, Locals
    <3> QED
      BY <2>6, <3>1, <3>2, <3>3, EditWorkerStep DEF Extract
  <2>7. CASE MarkChild(w)
    <3>1. loc' = [loc EXCEPT ![w] = loc[w]]
      BY <2>7 DEF MarkChild, TypeOK
    <3>2. loc[w].resume # 0
      BY <2>7, <1>l DEF MarkChild
    <3> QED
      BY <2>7, <2>l, <3>1, <3>2, EditWorkerStep DEF MarkChild
  <2>8. CASE MergeRead(w)
    <3>0. loc[w].resume # 0
      BY <2>8, <1>l DEF MergeRead
    <3>1. ASSUME Exists /\ ~promoted
          PROVE  EditInv'
      <4>1. [loc[w] EXCEPT !.version = version, !.review = review] \in Locals
        BY <2>l DEF Locals, TypeOK
      <4>2. /\ [loc[w] EXCEPT !.version = version, !.review = review].resume # 0
            /\ [loc[w] EXCEPT !.version = version, !.review = review].version = version
            /\ [loc[w] EXCEPT !.version = version, !.review = review].review = review
        BY <2>l, <3>0 DEF Locals
      <4> QED
        BY <2>8, <3>1, <4>1, <4>2, EditWorkerStep DEF MergeRead
    <3>2. ASSUME ~(Exists /\ ~promoted)
          PROVE  EditInv'
      <4>1. loc' = [loc EXCEPT ![w] = loc[w]]
        BY <2>8, <3>2 DEF MergeRead, TypeOK
      <4> QED
        BY <2>8, <2>l, <3>0, <3>2, <4>1, EditWorkerStep DEF MergeRead
    <3> QED
      BY <2>8, <3>1, <3>2 DEF MergeRead
  <2>9. CASE MergeSave(w)
    <3>0. loc[w].resume # 0 /\ pc[w] = "save"
      BY <2>9, <1>l DEF MergeSave
    <3>1. PICK n \in Nat :
            loc' = [loc EXCEPT ![w] = [loc[w] EXCEPT !.version = 0, !.review = NoReview,
                                                     !.tries = n]]
      <4>1. (IF Saveable(w) THEN 0 ELSE loc[w].tries + 1) \in Nat
        BY <2>l DEF Locals
      <4> QED
        BY <2>9, <4>1 DEF MergeSave
    <3>2. [loc[w] EXCEPT !.version = 0, !.review = NoReview, !.tries = n] \in Locals
      BY <2>l, NoLocalsTyped DEF Locals
    <3>3. [loc[w] EXCEPT !.version = 0, !.review = NoReview, !.tries = n].resume # 0
      BY <2>l, <3>0 DEF Locals
    <3>4. ASSUME ~Saveable(w)
          PROVE  EditInv' /\ review' = review
      <4>1. PICK s \in {"merge", "mark"} : pc' = [pc EXCEPT ![w] = s]
        BY <2>9, <3>4 DEF MergeSave
      <4> QED
        BY <2>9, <3>1, <3>2, <3>3, <3>4, <4>1, EditWorkerStep DEF MergeSave
    <3>5. ASSUME Saveable(w)
          PROVE  EditInv' /\ ~promoted
      <4>1. loc[w].review = review /\ ~promoted
        BY <3>0, <3>5 DEF Saveable, EditInv, SnapshotHonest
      <4>2. /\ review' = MergeExtraction(review, loc[w].proposal, loc[w].resume)
            /\ version' = version + 1
            /\ pc' = [pc EXCEPT ![w] = "mark"]
            /\ UNCHANGED <<last, promoted, resume>>
        BY <2>9, <3>5, <4>1 DEF MergeSave
      <4>3. RecruiterEditsKept'
        BY <4>2 DEF EditInv, RecruiterEditsKept, MergeExtraction
      <4>4. \A v \in Workers : loc[v].version \in Nat
        BY <1>l DEF Locals
      <4>5. \A v \in Workers : pc'[v] = "save" => v # w /\ pc[v] = "save" /\ loc'[v] = loc[v]
        BY <3>1, <4>2 DEF TypeOK
      <4>6. SnapshotHonest'
        BY <4>2, <4>4, <4>5, <1>v DEF EditInv, SnapshotHonest
      <4>7. HasResume'
        BY <3>1, <3>3, <4>2 DEF TypeOK, EditInv, HasResume
      <4> QED
        BY <4>1, <4>3, <4>6, <4>7 DEF EditInv
    <3> QED
      BY <3>4, <3>5
  <2>10. CASE MarkProcessed(w)
    <3>1. loc[w].resume # 0
      BY <2>10, <1>l DEF MarkProcessed
    <3>2. UNCHANGED <<review, last, resume, promoted>> /\ version' >= version
      BY <2>10, <3>1, <1>v DEF MarkProcessed
    <3>3. \A v \in Workers : loc[v].version \in Nat
      BY <1>l DEF Locals
    <3>4. \A v \in Workers : /\ pc'[v] = "save" => v # w /\ pc[v] = "save" /\ loc'[v] = loc[v]
                             /\ pc'[v] \in Busy => v # w /\ pc[v] \in Busy /\ loc'[v] = loc[v]
      BY <2>10 DEF MarkProcessed, Finish, TypeOK
    <3>5. SnapshotHonest'
      BY <3>2, <3>3, <3>4, <1>v DEF EditInv, SnapshotHonest
    <3>6. HasResume'
      BY <3>2, <3>4 DEF EditInv, HasResume
    <3>7. RecruiterEditsKept'
      BY <3>2 DEF EditInv, RecruiterEditsKept
    <3> QED
      BY <3>2, <3>5, <3>6, <3>7 DEF EditInv
  <2>11. CASE Ack(w) \/ Crash(w)
    <3>1. /\ pc' = [pc EXCEPT ![w] = "idle"]
          /\ loc' = [loc EXCEPT ![w] = NoLocals]
          /\ UNCHANGED <<review, last, version, promoted, resume>>
      BY <2>11 DEF Ack, Crash
    <3> QED
      BY <3>1, NoLocalsTyped, EditWorkerStep
  <2> QED
    BY <1>5, <2>1, <2>2, <2>3, <2>4, <2>5, <2>6, <2>7, <2>8, <2>9, <2>10, <2>11
       DEF WorkerStep
<1>6. CASE Redrive \/ TickList \/ TickFail
  <2>1. UNCHANGED <<review, last, pc, loc, resume, promoted, version>>
    BY <1>6 DEF Redrive, TickList, TickFail
  <2> QED
    BY <2>1, <1>r, <1>v, EditFrame
<1> QED
  BY <1>1, <1>2, <1>3, <1>4, <1>5, <1>6 DEF Next, Recruiter

(* On an uploaded draft no extraction, current or left over from a replaced   *)
(* resume, overwrites a recruiter's save, and nothing touches the review      *)
(* payload after the promotion.                                               *)
THEOREM EditsSurvive ==
  ASSUME Source = "upload"
  PROVE  Spec => []RecruiterEditsKept /\ PromotedReviewFrozen
<1>1. Init => EditInv
  BY DEF Init, EditInv, HasResume, SnapshotHonest, RecruiterEditsKept, Busy
<1>2. TypeOK /\ TypeOK' /\ EditInv /\ [Next]_vars => EditInv'
  <2>1. ASSUME TypeOK, EditInv, UNCHANGED vars
        PROVE  EditInv'
    BY <2>1 DEF vars, rowVars, workVars, historyVars, EditInv, HasResume, SnapshotHonest,
                RecruiterEditsKept
  <2> QED
    BY <2>1, EditInductive
<1>3. TypeOK /\ TypeOK' /\ EditInv /\ [Next]_vars => [promoted => review' = review]_vars
  BY EditInductive
<1>4. EditInv => RecruiterEditsKept
  BY DEF EditInv
<1> QED
  BY <1>1, <1>2, <1>3, <1>4, TypeCorrect, PTL DEF Spec, PromotedReviewFrozen

-----------------------------------------------------------------------------
(* Without replacements PROCESSING is a lock.  What a step of a delivery does: *)

Reviewable == {"READY_FOR_REVIEW", "ACCEPTED"}

(* The delivery has settled the child, and will report the draft as read. *)
ChildDue(w) == pc[w] \in {"merge", "save"} \/ (pc[w] = "mark" /\ ~Failed(w))

(* It waits for an event, reads the draft, loses a claim, ends or dies. *)
Waits(w) ==
  /\ UNCHANGED <<status, result, child>>
  /\ ~Extracting(w)'
  /\ pc'[w] = "claim" => loc'[w].resume = resume \/ (pc[w] = "claim" /\ loc'[w].resume = loc[w].resume)

Claims(w) ==
  /\ UNCHANGED <<result, child>>
  /\ status = "QUEUED" /\ status' = "PROCESSING"
  /\ pc[w] = "claim"
  /\ pc'[w] = IF loc[w].resume = 0 THEN "mark" ELSE "upsert"
  /\ loc'[w].resume = loc[w].resume

Works(w) ==
  /\ UNCHANGED <<status, result>>
  /\ Extracting(w) /\ Extracting(w)'
  /\ loc'[w].resume = loc[w].resume
  /\ \/ ChildDue(w)' /\ child' = "READY_FOR_REVIEW"
     \/ ChildDue(w)' /\ ChildDue(w) /\ child' = child
     \/ ~ChildDue(w)'

Settles(w) ==
  /\ pc[w] = "mark" /\ ~Extracting(w)' /\ pc'[w] # "claim"
  /\ child' = child
  /\ \/ UNCHANGED <<status, result>>
     \/ Failed(w) /\ status' = "FAILED" /\ result' \in {result, loc[w].resume}
     \/ /\ ~Failed(w) /\ status' \in {"READY", "PARTIAL"}
        /\ result' = IF loc[w].resume = 0 THEN result ELSE loc[w].resume

LEMMA DeliverySteps ==
  ASSUME TypeOK, NEW w \in Workers, WorkerStep(w) \/ Deliver(w) \/ Crash(w)
  PROVE  /\ \A v \in Workers \ {w} : pc'[v] = pc[v] /\ loc'[v] = loc[v]
         /\ UNCHANGED <<resume, settling, tick>>
         /\ Waits(w) \/ Claims(w) \/ Works(w) \/ Settles(w)
<1>t. pc \in [Workers -> Steps] /\ loc \in [Workers -> Locals] /\ loc[w] \in Locals
  BY DEF TypeOK
<1>n. NoLocals.resume = 0
  BY DEF NoLocals
<1>1. CASE Deliver(w)
  BY <1>1, <1>t DEF Deliver, rowVars, Waits, Extracting
<1>2. CASE ReadDraft(w)
  <2>1. CASE status = "QUEUED" /\ ~promoted
    <3>1. loc'[w] = [loc[w] EXCEPT !.version = version, !.resume = resume] /\ pc'[w] = "claim"
      BY <1>2, <1>t, <2>1 DEF ReadDraft
    <3>2. loc'[w].resume = resume
      BY <1>t, <3>1 DEF Locals
    <3> QED
      BY <1>2, <1>t, <2>1, <3>1, <3>2 DEF ReadDraft, rowVars, Waits, Extracting
  <2>2. CASE ~(status = "QUEUED" /\ ~promoted)
    BY <1>2, <1>t, <2>2 DEF ReadDraft, Finish, rowVars, Waits, Extracting
  <2> QED
    BY <2>1, <2>2
<1>3. CASE ClaimLost(w)
  BY <1>3, <1>t DEF ClaimLost, Finish, rowVars, Waits, Extracting
<1>4. CASE ClaimWon(w)
  <2>1. loc'[w].resume = loc[w].resume
    <3>1. CASE loc[w].resume = 0
      <4>1. loc'[w] = [loc[w] EXCEPT !.tries = 0, !.version = 0,
                                !.outcome = IF structured THEN "READY" ELSE "PARTIAL"]
        BY <1>4, <1>t, <3>1 DEF ClaimWon
      <4> QED
        BY <1>t, <4>1 DEF Locals
    <3>2. CASE loc[w].resume # 0
      <4>1. loc'[w] = [loc[w] EXCEPT !.tries = 0, !.version = 0]
        BY <1>4, <1>t, <3>2 DEF ClaimWon
      <4> QED
        BY <1>t, <4>1 DEF Locals
    <3> QED
      BY <3>1, <3>2
  <2>2. pc'[w] = IF loc[w].resume = 0 THEN "mark" ELSE "upsert"
    BY <1>4, <1>t DEF ClaimWon
  <2>3. \A v \in Workers \ {w} : pc'[v] = pc[v] /\ loc'[v] = loc[v]
    BY <1>4, <1>t DEF ClaimWon
  <2> QED
    BY <1>4, <2>1, <2>2, <2>3 DEF ClaimWon, Claimable, Claims
<1>5. CASE UpsertChild(w)
  BY <1>5, <1>t DEF UpsertChild, Works, Extracting, ChildDue
<1>6. CASE Extract(w)
  <2>1. PICK o \in Outcomes, S \in SUBSET Fields :
          loc' = [loc EXCEPT ![w] = [@ EXCEPT !.outcome = o, !.proposal = S]]
    BY <1>6 DEF Extract
  <2>2. loc'[w] = [loc[w] EXCEPT !.outcome = o, !.proposal = S]
    BY <1>t, <2>1
  <2>3. loc'[w].resume = loc[w].resume
    BY <1>t, <2>2 DEF Locals
  <2>4. pc' = [pc EXCEPT ![w] = "child"] /\ \A v \in Workers \ {w} : loc'[v] = loc[v]
    BY <1>6, <1>t, <2>1 DEF Extract
  <2> QED
    BY <1>6, <1>t, <2>3, <2>4 DEF Extract, rowVars, Works, Extracting, ChildDue
<1>7. CASE MarkChild(w)
  <2>1. pc' = [pc EXCEPT ![w] = IF Failed(w) THEN "mark" ELSE "merge"] /\ loc' = loc
    BY <1>7 DEF MarkChild
  <2>2. CASE Failed(w)
    <3>1. pc'[w] = "mark" /\ Failed(w)'
      BY <1>t, <2>1, <2>2 DEF Failed
    <3> QED
      BY <1>7, <1>t, <2>1, <3>1 DEF MarkChild, Works, Extracting, ChildDue
  <2>3. CASE ~Failed(w)
    <3>1. pc'[w] = "merge" /\ child' = "READY_FOR_REVIEW"
      BY <1>7, <1>t, <2>1, <2>3 DEF MarkChild
    <3> QED
      BY <1>7, <1>t, <2>1, <3>1 DEF MarkChild, Works, Extracting, ChildDue
  <2> QED
    BY <2>2, <2>3
<1>8. CASE MergeRead(w)
  <2>1. loc'[w].resume = loc[w].resume
    <3>1. CASE Exists /\ ~promoted
      <4>1. loc'[w] = [loc[w] EXCEPT !.version = version, !.review = review]
        BY <1>8, <1>t, <3>1 DEF MergeRead
      <4> QED
        BY <1>t, <4>1 DEF Locals
    <3>2. CASE ~(Exists /\ ~promoted)
      BY <1>8, <3>2 DEF MergeRead
    <3> QED
      BY <3>1, <3>2
  <2>2. pc[w] = "merge" /\ pc'[w] \in {"save", "mark"}
    BY <1>8, <1>t DEF MergeRead
  <2>3. \A v \in Workers \ {w} : pc'[v] = pc[v] /\ loc'[v] = loc[v]
    BY <1>8, <1>t DEF MergeRead
  <2> QED
    BY <1>8, <2>1, <2>2, <2>3 DEF MergeRead, rowVars, Works, Extracting, ChildDue
<1>9. CASE MergeSave(w)
  <2>1. loc'[w].resume = loc[w].resume
    <3> DEFINE n == IF Saveable(w) THEN 0 ELSE loc[w].tries + 1
    <3>1. loc'[w] = [loc[w] EXCEPT !.version = 0, !.review = NoReview, !.tries = n]
      BY <1>9, <1>t DEF MergeSave
    <3> HIDE DEF n
    <3> QED
      BY <1>t, <3>1 DEF Locals
  <2>2. pc[w] = "save" /\ pc'[w] \in {"merge", "mark"}
    BY <1>9, <1>t DEF MergeSave
  <2>3. \A v \in Workers \ {w} : pc'[v] = pc[v] /\ loc'[v] = loc[v]
    BY <1>9, <1>t DEF MergeSave
  <2> QED
    BY <1>9, <2>1, <2>2, <2>3 DEF MergeSave, Works, Extracting, ChildDue
<1>10. CASE MarkProcessed(w)
  <2>1. pc' = [pc EXCEPT ![w] = "ack"] /\ \A v \in Workers \ {w} : loc'[v] = loc[v]
    BY <1>10, <1>t DEF MarkProcessed, Finish
  <2>2. ~Failed(w) => loc[w].outcome \in {"READY", "PARTIAL"}
    BY <1>t DEF Failed, Locals, Outcomes
  <2>3. \/ UNCHANGED <<status, result>>
        \/ Failed(w) /\ status' = "FAILED" /\ result' \in {result, loc[w].resume}
        \/ /\ ~Failed(w) /\ status' \in {"READY", "PARTIAL"}
           /\ result' = IF loc[w].resume = 0 THEN result ELSE loc[w].resume
    BY <1>10, <2>2 DEF MarkProcessed, Failed
  <2> QED
    BY <1>10, <1>t, <2>1, <2>3 DEF MarkProcessed, Settles, Extracting
<1>11. CASE Ack(w) \/ Crash(w)
  <2>1. pc' = [pc EXCEPT ![w] = "idle"] /\ loc' = [loc EXCEPT ![w] = NoLocals]
    BY <1>11 DEF Ack, Crash
  <2> QED
    BY <1>11, <1>t, <2>1 DEF Ack, Crash, rowVars, Waits, Extracting
<1> QED
  BY <1>1, <1>2, <1>3, <1>4, <1>5, <1>6, <1>7, <1>8, <1>9, <1>10, <1>11 DEF WorkerStep

(* Everybody else.  The tick aside, only the recruiter's Save touches the     *)
(* child, and accepts it.                                                     *)
LEMMA OtherSteps ==
  ASSUME TypeOK, resume = MaxResumes, ~settling, Source = "upload",
         Recruiter \/ Redrive \/ TickList \/ TickFail \/ UNCHANGED vars
  PROVE  /\ UNCHANGED <<pc, loc, resume, settling, result>>
         /\ \/ status' = status
            \/ status' = "GONE"
            \/ status \in {"UPLOADED", "FAILED", "PARTIAL"} /\ status' = "QUEUED"
         /\ child' = child \/ child' = "ACCEPTED" \/ tick
         /\ tick' => tick \/ AttachmentWorker
<1>1. CASE Recruiter
  <2>1. ~RetryManual /\ ~SettleManual
    BY DEF RetryManual, SettleManual
  <2>2. ~Replace
    BY IntakeAssumption DEF Replace, IntakeAssumption
  <2> QED
    BY <1>1, <2>1, <2>2
       DEF Recruiter, CompleteUpload, Requeue, Discard, Patch, Materialize, Promote, workVars
<1>2. CASE Redrive \/ TickList \/ TickFail \/ UNCHANGED vars
  BY <1>2 DEF Redrive, TickList, TickFail, rowVars, workVars, vars
<1> QED
  BY <1>1, <1>2

(* The lock: whoever has claimed the draft finds it PROCESSING until it        *)
(* settles it, unless it is discarded.                                        *)
LockInv ==
  /\ resume = 1 /\ ~settling
  /\ \A w \in Workers : Extracting(w) => status \in {"PROCESSING", "GONE"}
  /\ \A w \in Workers : Extracting(w) \/ pc[w] = "claim" => loc[w].resume = 1
  /\ OneExtraction
  /\ status \in {"READY", "PARTIAL"} => result = 1

LEMMA LockStep ==
  ASSUME Source = "upload", MaxResumes = 1, TypeOK, LockInv, [Next]_vars
  PROVE  LockInv'
<1>1. ASSUME NEW w \in Workers, WorkerStep(w) \/ Deliver(w) \/ Crash(w)
      PROVE  LockInv'
  <2>a. /\ \A v \in Workers \ {w} : pc'[v] = pc[v] /\ loc'[v] = loc[v]
        /\ UNCHANGED <<resume, settling>>
        /\ Waits(w) \/ Claims(w) \/ Works(w) \/ Settles(w)
    BY <1>1, DeliverySteps
  <2>b. \A v \in Workers \ {w} : Extracting(v)' <=> Extracting(v)
    BY <2>a DEF Extracting
  <2>1. CASE Waits(w)
    BY <2>a, <2>b, <2>1 DEF Waits, LockInv, OneExtraction
  <2>2. CASE Claims(w)
    BY <2>a, <2>b, <2>2 DEF Claims, LockInv, OneExtraction
  <2>3. CASE Works(w)
    BY <2>a, <2>b, <2>3 DEF Works, LockInv, OneExtraction
  <2>4. CASE Settles(w)
    <3>1. Extracting(w) /\ loc[w].resume = 1
      BY <2>4 DEF Settles, Extracting, LockInv
    <3>2. \A v \in Workers : ~Extracting(v)'
      BY <2>b, <2>4, <3>1 DEF Settles, LockInv, OneExtraction
    <3>3. status' \in {"READY", "PARTIAL"} => result' = 1
      BY <2>4, <3>1 DEF Settles, LockInv
    <3> QED
      BY <2>a, <2>4, <3>2, <3>3 DEF Settles, LockInv, OneExtraction
  <2> QED
    BY <2>a, <2>1, <2>2, <2>3, <2>4
<1>2. CASE Recruiter \/ Redrive \/ TickList \/ TickFail \/ UNCHANGED vars
  <2>1. /\ UNCHANGED <<pc, loc, resume, settling, result>>
        /\ \/ status' = status
           \/ status' = "GONE"
           \/ status \in {"UPLOADED", "FAILED", "PARTIAL"} /\ status' = "QUEUED"
    BY <1>2, OtherSteps DEF LockInv
  <2> QED
    BY <2>1 DEF LockInv, OneExtraction, Extracting
<1> QED
  BY <1>1, <1>2 DEF Next

LEMMA LockHolds ==
  ASSUME Source = "upload", MaxResumes = 1
  PROVE  Spec => [](TypeOK /\ LockInv)
<1>1. Init => LockInv
  BY DEF Init, LockInv, OneExtraction, Extracting
<1>2. TypeOK /\ LockInv /\ [Next]_vars => LockInv'
  BY LockStep
<1> QED
  BY <1>1, <1>2, TypeCorrect, PTL DEF Spec

(* processIntakeDraft on a draft whose resume is never replaced: the claim is  *)
(* a lock although only the claim itself compares anything, so what the draft *)
(* reports is what was read from its resume.  With a replacement it is not     *)
(* (finding 1).                                                               *)
THEOREM ClaimIsLock ==
  ASSUME Source = "upload", MaxResumes = 1
  PROVE  Spec => []OneExtraction /\ []ResultOfCurrentResume
<1>1. TypeOK /\ LockInv => OneExtraction /\ ResultOfCurrentResume
  BY DEF LockInv, ResultOfCurrentResume
<1> QED
  BY <1>1, LockHolds, PTL

ChildInv ==
  /\ ~tick
  /\ \A w \in Workers : ChildDue(w) => child \in Reviewable
  /\ status \in {"READY", "PARTIAL"} => child \in Reviewable

(* markResumeExtractionDraft before markTalentIntakeDraftProcessed: without a  *)
(* replacement and without the attachment worker, which fails children by id, *)
(* a draft reported as read has a child that can be accepted.                 *)
THEOREM ReadyChild ==
  ASSUME Source = "upload", MaxResumes = 1, AttachmentWorker = FALSE
  PROVE  Spec => []ReadyHasReviewableChild
<1>1. Init => ChildInv
  BY DEF Init, ChildInv, ChildDue
<1>2. ASSUME TypeOK, LockInv, ChildInv, [Next]_vars
      PROVE  ChildInv'
  <2>1. ASSUME NEW w \in Workers, WorkerStep(w) \/ Deliver(w) \/ Crash(w)
        PROVE  ChildInv'
    <3>a. /\ \A v \in Workers \ {w} : pc'[v] = pc[v] /\ loc'[v] = loc[v]
          /\ UNCHANGED tick
          /\ Waits(w) \/ Claims(w) \/ Works(w) \/ Settles(w)
      BY <1>2, <2>1, DeliverySteps
    <3>b. \A v \in Workers \ {w} : ChildDue(v)' <=> ChildDue(v)
      BY <3>a DEF ChildDue, Failed
    <3>c. \A v \in Workers : ChildDue(v) => Extracting(v)
      BY DEF ChildDue, Extracting
    <3>1. CASE Waits(w)
      <4>1. ~ChildDue(w)'
        BY <3>1 DEF Waits, Extracting, ChildDue
      <4> QED
        BY <1>2, <3>a, <3>b, <3>1, <4>1 DEF Waits, ChildInv
    <3>2. CASE Claims(w)
      <4>1. ~ChildDue(w)'
        BY <1>2, <3>2 DEF Claims, ChildDue, LockInv
      <4> QED
        BY <1>2, <3>a, <3>b, <3>2, <4>1 DEF Claims, ChildInv
    <3>3. CASE Works(w)
      <4>1. \A v \in Workers \ {w} : ~ChildDue(v)'
        BY <1>2, <3>b, <3>c, <3>3 DEF Works, LockInv, OneExtraction
      <4>2. status' \notin {"READY", "PARTIAL"}
        BY <1>2, <3>3 DEF Works, LockInv
      <4>3. ChildDue(w)' => child' \in Reviewable
        BY <1>2, <3>3 DEF Works, ChildInv, Reviewable
      <4> QED
        BY <1>2, <3>a, <4>1, <4>2, <4>3 DEF ChildInv
    <3>4. CASE Settles(w)
      <4>1. ~ChildDue(w)'
        BY <3>4 DEF Settles, Extracting, ChildDue
      <4>2. status' \in {"READY", "PARTIAL"} => child' \in Reviewable
        BY <1>2, <3>4 DEF Settles, ChildInv, ChildDue
      <4> QED
        BY <1>2, <3>a, <3>b, <3>4, <4>1, <4>2 DEF Settles, ChildInv
    <3> QED
      BY <3>a, <3>1, <3>2, <3>3, <3>4
  <2>2. CASE Recruiter \/ Redrive \/ TickList \/ TickFail \/ UNCHANGED vars
    <3>1. /\ UNCHANGED <<pc, loc>>
          /\ \/ status' = status
             \/ status' = "GONE"
             \/ status \in {"UPLOADED", "FAILED", "PARTIAL"} /\ status' = "QUEUED"
          /\ child' = child \/ child' = "ACCEPTED"
          /\ ~tick'
      BY <1>2, <2>2, OtherSteps DEF LockInv, ChildInv
    <3> QED
      BY <1>2, <3>1 DEF ChildInv, ChildDue, Failed, Reviewable
  <2> QED
    BY <1>2, <2>1, <2>2 DEF Next
<1>3. (TypeOK /\ LockInv) /\ ChildInv /\ [Next]_vars => ChildInv'
  BY <1>2
<1>4. ChildInv => ReadyHasReviewableChild
  BY DEF ChildInv, ReadyHasReviewableChild, Reviewable
<1> QED
  BY <1>1, <1>3, <1>4, LockHolds, PTL DEF Spec
=============================================================================
