--------------------------- MODULE PipelineEpisode ---------------------------
(***************************************************************************)
(* The Pipeline episodes of one talent on one requisition, and the bridge   *)
(* that ends an episode with the outcome of its placement.  A client's        *)
(* decision against the talent ends it too, in the request that records it.  *)
(*                                                                         *)
(* A recruiter's command carries the version its client saw.  Its           *)
(* transaction reads the row and checks the state machine and the evidence  *)
(* (Read), then writes the row by compare-and-swap, checks the requisition  *)
(* read FOR SHARE, verifies the evidence and adds the history, event and     *)
(* disposition rows (Write).  From the compare-and-swap on the row is locked *)
(* and nothing is visible before the commit, so Write is one step.          *)
(* Any transaction may be refused for a reason not modelled (no executed     *)
(* Right to Represent, a lock timeout, a hidden requisition): it leaves      *)
(* nothing behind.                                                          *)
(*                                                                         *)
(* on_hold behaves like open here, and canceled like closed; NO_SHOW is     *)
(* treated like FELL_THROUGH.  A history row also stands for the outbox      *)
(* event of its transaction, which carries the evidence.                    *)
(***************************************************************************)
EXTENDS Naturals, Sequences, FiniteSets

CONSTANTS
  Episodes,    \* bound: Pipeline rows of the talent on the requisition
  Recruiters,  \* requests under way at a time
  Workers,     \* replicas of the placement lifecycle orchestrator
  MaxMoves,    \* bound: moves of episodes by requests
  MaxPlaced,   \* bound: episodes that are submitted to the client
  MaxCrashes   \* bound: ticks of the orchestrator that die

ASSUME EpisodeAssumption ==
  /\ MaxMoves \in Nat
  /\ MaxPlaced \in Nat
  /\ MaxCrashes \in Nat
  /\ "none" \notin Episodes

VARIABLES
  status,      \* Pipeline.status, "unborn" before the insert
  version,     \* Pipeline.version
  history,     \* PipelineStatusHistory, oldest row first
  disposition, \* authority class of the PipelineDisposition row
  requisition, \* Requisition.status
  evidence,    \* kinds of interaction recorded for talent and requisition
  placement,   \* how far the placement downstream of the episode has come
  inbox,       \* outcome code of the placement event's PlacementPipelineInbox row
  tx,          \* the request of each recruiter
  job,         \* the event each orchestrator replica works on
  moves,       \* moves by requests so far
  crashes      \* ticks that died

rowVars == <<status, version, history, disposition>>
vars == <<rowVars, requisition, evidence, placement, inbox, tx, job, moves, crashes>>

Terminals == {"not_in_consideration", "completed", "voided"}
Active == {"no_contact", "contacted", "talent_responded", "qualifying", "qualified"}
Statuses == Active \union Terminals
EvidenceBacked == {"contacted", "talent_responded"}
Kinds == {"interaction", "confirmation"}
Outcomes == {"STARTED", "FELL_THROUGH"}
OutcomeCodes == {"completed", "dispositioned", "already_satisfied", "pipeline_not_live"}
RequisitionStatuses == {"lead", "open", "closed"}

\* activeStageOrdinal, 0 for a status outside the funnel.
Ordinal(s) ==
  CASE s = "no_contact" -> 1
    [] s = "contacted" -> 2
    [] s = "talent_responded" -> 3
    [] s = "qualifying" -> 4
    [] s = "qualified" -> 5
    [] OTHER -> 0

\* LEGAL_TRANSITIONS.  VOID is not among them: it has a command of its own.
LegalNext(s) ==
  CASE s = "no_contact" -> {"contacted", "talent_responded", "not_in_consideration"}
    [] s = "contacted" -> {"talent_responded", "no_contact", "not_in_consideration"}
    [] s = "talent_responded" -> {"qualifying", "contacted", "not_in_consideration"}
    [] s = "qualifying" -> {"qualified", "talent_responded", "not_in_consideration"}
    [] s = "qualified" -> {"qualifying", "not_in_consideration", "completed"}
    [] OTHER -> {}

Live(e) == status[e] \in Active

Admissible(stage, kind) ==
  \/ stage = "contacted" /\ kind \in Kinds
  \/ stage = "talent_responded" /\ kind = "confirmation"

\* requisitionPermits, for the activity that ends in the stage ("add" is ADD).
RequisitionPermits(req, stage) ==
  \/ req = "open"
  \/ req = "lead" /\ stage \in {"add", "contacted"}

\* requisitionGateForTransition: a disposition always carries its reason here, and the
\* system's own moves are not gated.
GatePermits(req, from, to) ==
  \/ to \in Terminals
  \/ Ordinal(to) < Ordinal(from) /\ req # "closed"
  \/ Ordinal(to) > Ordinal(from) /\ RequisitionPermits(req, to)

-----------------------------------------------------------------------------
(* Requests of recruiters. *)

\* A bare transition or action, a disposition with its reason, recordContactEvidence and
\* recordResponseEvidence, void, and reconcileForward after a response was confirmed.
Commands ==
  [op : {"move"}, to : Statuses \ {"completed"}, evidence : {"none"}, reason : {FALSE}]
    \union [op : {"move"}, to : {"not_in_consideration"}, evidence : {"none"}, reason : {TRUE}]
    \union [op : {"move"}, to : EvidenceBacked, evidence : Kinds, reason : {FALSE}]
    \union [op : {"void"}, to : {"voided"}, evidence : {"none"}, reason : {FALSE}]
    \union [op : {"reconcile"}, to : {"talent_responded"}, evidence : {"confirmation"},
            reason : {FALSE}]

AddCommand == [op |-> "add", to |-> "no_contact", evidence |-> "none", reason |-> FALSE]

\* dispositionDownstream, called by ClientDecisionOrchestrator.decide.
ClientCommand ==
  [op |-> "client", to |-> "not_in_consideration", evidence |-> "none", reason |-> FALSE]

Requests ==
  [step : {"idle", "insert", "decided", "write"},
   ep : Episodes \union {"none"},
   cmd : Commands \union {AddCommand, ClientCommand},
   seen : Nat,                                       \* the version the client saw
   from : Statuses,                                  \* the row as the transaction read it
   version : Nat,
   expected : RequisitionStatuses \union {"none"}]   \* the status ADD was decided on

Idle == [step |-> "idle", ep |-> "none", cmd |-> AddCommand, seen |-> 0,
         from |-> "no_contact", version |-> 0, expected |-> "none"]

Row(from, to, kind) == [from |-> from, to |-> to, evidence |-> kind]
Rows == [from : Statuses \union {"none"}, to : Statuses, evidence : Kinds \union {"none"}]

Jobs == [step : {"idle", "reserve", "load", "command", "finish"},
         ep : Episodes \union {"none"}, version : Nat, code : OutcomeCodes]
NoJob == [step |-> "idle", ep |-> "none", version |-> 0, code |-> "completed"]

TypeOK ==
  /\ status \in [Episodes -> Statuses \union {"unborn"}]
  /\ version \in [Episodes -> Nat]
  /\ history \in [Episodes -> Seq(Rows)]
  /\ disposition \in [Episodes -> {"none", "recruiter", "downstream"}]
  /\ requisition \in RequisitionStatuses
  /\ evidence \in SUBSET Kinds
  /\ placement \in [Episodes -> {"none", "submitted", "DECLINED"} \union Outcomes]
  /\ inbox \in [Episodes -> {"absent", "pending"} \union OutcomeCodes]
  /\ tx \in [Recruiters -> Requests]
  /\ job \in [Workers -> Jobs]
  /\ moves \in 0 .. MaxMoves
  /\ crashes \in 0 .. MaxCrashes

Init ==
  /\ status = [e \in Episodes |-> "unborn"]
  /\ version = [e \in Episodes |-> 0]
  /\ history = [e \in Episodes |-> <<>>]
  /\ disposition = [e \in Episodes |-> "none"]
  /\ requisition \in RequisitionStatuses
  /\ evidence = {}
  /\ placement = [e \in Episodes |-> "none"]
  /\ inbox = [e \in Episodes |-> "absent"]
  /\ tx = [r \in Recruiters |-> Idle]
  /\ job = [w \in Workers |-> NoJob]
  /\ moves = 0
  /\ crashes = 0

Answer(r) == tx' = [tx EXCEPT ![r] = Idle]

\* The ADD policy is decided on the requisition as it is read before the transaction (the
\* sourcing path passes no such status), and create finds no live episode.  Nothing is
\* added once every row of the model is used.
AddCheck(r) ==
  /\ tx[r].step = "idle"
  /\ \A e \in Episodes : ~Live(e)
  /\ \E e \in Episodes : status[e] = "unborn"
  /\ \E expected \in {requisition, "none"} :
       tx' = [tx EXCEPT ![r] = [Idle EXCEPT !.step = "insert", !.expected = expected]]
  /\ UNCHANGED <<rowVars, requisition, evidence, placement, inbox, job, moves, crashes>>

\* Mutant: no unique index under the check.
LiveSlotUnguarded == TRUE

\* Its insert is checked by the partial unique index Pipeline_live_episode_key.
LiveSlotFree == \A e \in Episodes : ~Live(e)

\* Mutant: the insert trusts the decision made before the transaction.
AddableAsDecided(r) == LiveSlotFree

Addable(r) ==
  /\ LiveSlotFree
  /\ tx[r].expected \in {requisition, "none"}
  /\ RequisitionPermits(requisition, "add")

Add(r) ==
  /\ tx[r].step = "insert"
  /\ \/ /\ Addable(r)
        /\ \E e \in Episodes :
             /\ status[e] = "unborn"
             /\ status' = [status EXCEPT ![e] = "no_contact"]
             /\ history' = [history EXCEPT ![e] = <<Row("none", "no_contact", "none")>>]
        /\ UNCHANGED <<version, disposition>>
     \/ UNCHANGED rowVars
  /\ Answer(r)
  /\ UNCHANGED <<requisition, evidence, placement, inbox, job, moves, crashes>>

\* Mutant: a step back needs no earlier arrival.
GroundedBackward(e, c) ==
  c.evidence = "none" => Ordinal(status[e]) > Ordinal(c.to)

\* The evidence gate: evidence of an admissible kind, or a correction one step back into
\* a stage this episode has already reached.
Grounded(e, c) ==
  IF c.evidence = "none"
  THEN /\ Ordinal(status[e]) > Ordinal(c.to)
       /\ \E i \in 1 .. Len(history[e]) : history[e][i].to = c.to
  ELSE Admissible(c.to, c.evidence)

\* Mutant: the client's version is not compared.
SeenIgnored(e, seen) == TRUE

\* expected_version: the version the client decided on.
SeenIsCurrent(e, seen) == seen = version[e]

\* Mutant: a bare transition reaches not_in_consideration.
MoveAcceptedBare(e, c, seen) ==
  /\ SeenIsCurrent(e, seen)
  /\ c.to \in LegalNext(status[e])
  /\ c.to \in EvidenceBacked => Grounded(e, c)

\* The checks of transitionInTx before its write.
MoveAccepted(e, c, seen) ==
  /\ SeenIsCurrent(e, seen)
  /\ c.to \in LegalNext(status[e])
  /\ c.to = "not_in_consideration" => c.reason
  /\ c.to \in EvidenceBacked => Grounded(e, c)

\* PipelineVoidService.void: nothing downstream of the episode, and no engagement.
VoidEligible(e) == placement[e] = "none" /\ evidence = {}

VoidAccepted(e, seen) ==
  /\ VoidEligible(e)
  /\ SeenIsCurrent(e, seen)
  /\ status[e] = "no_contact"

\* reconcileForward takes the version it reads.  It goes forward only, and has nothing to
\* do on a terminal episode.
ReconcileAccepted(e, c, seen) ==
  /\ seen = version[e]
  /\ Live(e)
  /\ Ordinal(status[e]) < Ordinal(c.to)

Accepted(e, c, seen) ==
  \/ c.op = "move" /\ MoveAccepted(e, c, seen)
  \/ c.op = "void" /\ VoidAccepted(e, seen)
  \/ c.op = "reconcile" /\ ReconcileAccepted(e, c, seen)

\* A command arrives, decided on a version the episode has or had, and its transaction
\* reads the row.  A command refused here changes nothing.
Read(r, e, c) ==
  /\ tx[r].step = "idle"
  /\ status[e] # "unborn"
  /\ moves < MaxMoves
  /\ \E seen \in 0 .. version[e] :
       /\ Accepted(e, c, seen)
       /\ tx' = [tx EXCEPT ![r] = [Idle EXCEPT !.step = "write", !.ep = e, !.cmd = c,
                                               !.seen = seen, !.from = status[e],
                                               !.version = version[e]]]
  /\ UNCHANGED <<rowVars, requisition, evidence, placement, inbox, job, moves, crashes>>

\* The client selection process becomes DECLINED, or WITHDRAWN for good, in a transaction of
\* its own; a decision repeated on the version it has now finds it so and goes on.  A
\* withdrawal that preserves the qualification leaves the episode alone: it is no step here.
Decide(r, e) ==
  /\ tx[r].step = "idle"
  /\ placement[e] \in {"submitted", "DECLINED"}
  /\ placement' = [placement EXCEPT ![e] = "DECLINED"]
  /\ tx' = [tx EXCEPT ![r] = [Idle EXCEPT !.step = "decided", !.ep = e,
                                          !.cmd = ClientCommand]]
  /\ UNCHANGED <<rowVars, requisition, evidence, inbox, job, moves, crashes>>

\* Then its episode is read, and dispositioned if it is live.  The request may also die here:
\* the episode stays as it is unless the decision is repeated.
LoadDecided(r) ==
  /\ tx[r].step = "decided"
  /\ LET e == tx[r].ep IN
       \/ /\ Live(e)
          /\ tx' = [tx EXCEPT ![r].step = "write", ![r].seen = version[e],
                              ![r].from = status[e], ![r].version = version[e]]
       \/ Answer(r)
  /\ UNCHANGED <<rowVars, requisition, evidence, placement, inbox, job, moves, crashes>>

\* One move of an episode, with everything its transaction writes.
Move(e, from, to, kind, authority) ==
  /\ status' = [status EXCEPT ![e] = to]
  /\ version' = [version EXCEPT ![e] = @ + 1]
  /\ history' = [history EXCEPT ![e] = Append(@, Row(from, to, kind))]
  /\ disposition' = [disposition EXCEPT ![e] = IF authority = "none" THEN @ ELSE authority]

\* The two hops of reconcileForward from no_contact, in one transaction.
TwoHops(e, kind) ==
  /\ status' = [status EXCEPT ![e] = "talent_responded"]
  /\ version' = [version EXCEPT ![e] = @ + 2]
  /\ history' = [history EXCEPT ![e] =
       Append(Append(@, Row("no_contact", "contacted", kind)),
              Row("contacted", "talent_responded", kind))]
  /\ UNCHANGED disposition

Hops(r) == IF tx[r].cmd.op = "reconcile" /\ tx[r].from = "no_contact" THEN 2 ELSE 1

\* Mutant: the write is not conditional on the version read.
SwappableBlind(r) == TRUE

\* The compare-and-swap of the write.
Swappable(r) == version[tx[r].ep] = tx[r].version

\* The checks after it: the requisition under the lock, and the evidence.
Permitted(r) ==
  \/ tx[r].cmd.op = "void"
  \/ /\ GatePermits(requisition, tx[r].from, tx[r].cmd.to)
     /\ tx[r].cmd.evidence \in evidence \union {"none"}

\* The authority class of the disposition the command writes, if it writes one.
Authority(c) ==
  CASE c.reason -> "recruiter"
    [] c.op = "client" -> "downstream"
    [] OTHER -> "none"

Write(r) ==
  /\ tx[r].step = "write"
  /\ \/ /\ Swappable(r)
        /\ Permitted(r)
        /\ moves + Hops(r) <= MaxMoves
        /\ moves' = moves + Hops(r)
        /\ IF Hops(r) = 2
           THEN TwoHops(tx[r].ep, tx[r].cmd.evidence)
           ELSE Move(tx[r].ep, tx[r].from, tx[r].cmd.to, tx[r].cmd.evidence,
                     Authority(tx[r].cmd))
     \/ UNCHANGED <<rowVars, moves>>
  /\ Answer(r)
  /\ UNCHANGED <<requisition, evidence, placement, inbox, job, crashes>>

-----------------------------------------------------------------------------
(* The rest of the platform, as the episode sees it. *)

\* The requisition's status writer (FOR UPDATE and compare-and-swap); closed is terminal.
SetRequisition(s) ==
  /\ requisition # "closed"
  /\ requisition # s
  /\ requisition' = s
  /\ UNCHANGED <<rowVars, evidence, placement, inbox, tx, job, moves, crashes>>

\* Communications records an interaction or a response confirmation.
RecordEvidence(k) ==
  /\ k \notin evidence
  /\ evidence' = evidence \union {k}
  /\ UNCHANGED <<rowVars, requisition, placement, inbox, tx, job, moves, crashes>>

\* Submit to the client: the linked episode is live, the requisition open.
Submit(e) ==
  /\ placement[e] = "none"
  /\ Live(e)
  /\ requisition = "open"
  /\ Cardinality({f \in Episodes : placement[f] # "none"}) < MaxPlaced
  /\ placement' = [placement EXCEPT ![e] = "submitted"]
  /\ UNCHANGED <<rowVars, requisition, evidence, inbox, tx, job, moves, crashes>>

\* The client selects the talent, and the placement that follows reaches STARTED or falls
\* through, and emits its event.
PlacementEnds(e, o) ==
  /\ placement[e] = "submitted"
  /\ placement' = [placement EXCEPT ![e] = o]
  /\ UNCHANGED <<rowVars, requisition, evidence, inbox, tx, job, moves, crashes>>

-----------------------------------------------------------------------------
(* The placement lifecycle orchestrator. *)

Advance(w, step) == job' = [job EXCEPT ![w].step = step]
Release(w) == job' = [job EXCEPT ![w] = NoJob]
Conclude(w, code) == job' = [job EXCEPT ![w].step = "finish", ![w].code = code]

\* drainBatch selects an event with no inbox row, or a pending one.
Pick(w, e) ==
  /\ job[w].step = "idle"
  /\ placement[e] \in Outcomes
  /\ inbox[e] \in {"absent", "pending"}
  /\ job' = [job EXCEPT ![w] = [NoJob EXCEPT !.step = "reserve", !.ep = e]]
  /\ UNCHANGED <<rowVars, requisition, evidence, placement, inbox, tx, moves, crashes>>

Reserve(w) ==
  /\ job[w].step = "reserve"
  /\ IF inbox[job[w].ep] \in OutcomeCodes
     THEN Release(w) /\ UNCHANGED inbox
     ELSE Advance(w, "load") /\ inbox' = [inbox EXCEPT ![job[w].ep] = "pending"]
  /\ UNCHANGED <<rowVars, requisition, evidence, placement, tx, moves, crashes>>

\* The episode of the event's submittal, and what is left to do to it.
Load(w) ==
  /\ job[w].step = "load"
  /\ LET e == job[w].ep IN
       IF Live(e)
       THEN job' = [job EXCEPT ![w].step = "command", ![w].version = version[e]]
       ELSE Conclude(w, IF placement[e] = "STARTED" /\ status[e] # "completed"
                        THEN "pipeline_not_live" ELSE "already_satisfied")
  /\ UNCHANGED <<rowVars, requisition, evidence, placement, inbox, tx, moves, crashes>>

\* Mutant: the inbox gets the placement's own word for it.
CodeRaw(outcome) == outcome

\* complete, dispositionDownstream.
Target(outcome) == IF outcome = "STARTED" THEN "completed" ELSE "not_in_consideration"
Code(outcome) == IF outcome = "STARTED" THEN "completed" ELSE "dispositioned"

\* Mutant: a lost compare-and-swap counts as done by somebody else.
CommandLostIsDone(w) ==
  /\ job[w].step = "command"
  /\ LET e == job[w].ep IN
       IF version[e] = job[w].version /\ Target(placement[e]) \in LegalNext(status[e])
       THEN /\ Move(e, status[e], Target(placement[e]), "none", "downstream")
            /\ Conclude(w, Code(placement[e]))
       ELSE Conclude(w, "already_satisfied") /\ UNCHANGED rowVars
  /\ UNCHANGED <<requisition, evidence, placement, inbox, tx, moves, crashes>>

\* The command's compare-and-swap fails (the event stays pending), the state machine
\* refuses it (the event is skipped), or it ends the episode.
Command(w) ==
  /\ job[w].step = "command"
  /\ LET e == job[w].ep
         to == Target(placement[e])
     IN \/ /\ version[e] # job[w].version
           /\ Release(w)
           /\ UNCHANGED rowVars
        \/ /\ version[e] = job[w].version
           /\ to \notin LegalNext(status[e])
           /\ Conclude(w, "pipeline_not_live")
           /\ UNCHANGED rowVars
        \/ /\ version[e] = job[w].version
           /\ to \in LegalNext(status[e])
           /\ Move(e, status[e], to, "none", "downstream")
           /\ Conclude(w, Code(placement[e]))
  /\ UNCHANGED <<requisition, evidence, placement, inbox, tx, moves, crashes>>

\* markProcessed flips a pending row only.
Finish(w) ==
  /\ job[w].step = "finish"
  /\ inbox' = [inbox EXCEPT ![job[w].ep] = IF @ = "pending" THEN job[w].code ELSE @]
  /\ Release(w)
  /\ UNCHANGED <<rowVars, requisition, evidence, placement, tx, moves, crashes>>

\* The replica dies, or a statement throws: the tick ends where it is.
Crash(w) ==
  /\ job[w].step # "idle"
  /\ crashes < MaxCrashes
  /\ crashes' = crashes + 1
  /\ Release(w)
  /\ UNCHANGED <<rowVars, requisition, evidence, placement, inbox, tx, moves>>

-----------------------------------------------------------------------------
RecruiterNext ==
  \E r \in Recruiters :
    \/ AddCheck(r) \/ Add(r) \/ LoadDecided(r) \/ Write(r)
    \/ \E e \in Episodes : Decide(r, e)
    \/ \E e \in Episodes, c \in Commands : Read(r, e, c)

WorkerStep(w) == Reserve(w) \/ Load(w) \/ Command(w) \/ Finish(w)
WorkerNext == \E w \in Workers : WorkerStep(w) \/ Crash(w) \/ \E e \in Episodes : Pick(w, e)

PlatformNext ==
  \/ \E s \in RequisitionStatuses : SetRequisition(s)
  \/ \E k \in Kinds : RecordEvidence(k)
  \/ \E e \in Episodes : Submit(e) \/ \E o \in Outcomes : PlacementEnds(e, o)

Next == RecruiterNext \/ WorkerNext \/ PlatformNext

Spec == Init /\ [][Next]_vars

-----------------------------------------------------------------------------
(* Properties. *)

(* A talent has at most one live episode on a requisition, however the adds     *)
(* interleave (create, Pipeline_live_episode_key).                             *)
OneLiveEpisode ==
  \A e, f \in Episodes : Live(e) /\ Live(f) => e = f

Birth == Row("none", "no_contact", "none")

(* The history of an episode is the unbroken chain of its legal moves from      *)
(* no_contact to its status, one row per version: no concurrent move was        *)
(* overwritten and none went unrecorded (transitionInTx, void).                *)
HistorySound ==
  \A e \in Episodes : status[e] # "unborn" =>
    /\ Len(history[e]) = version[e] + 1
    /\ history[e][1] = Birth
    /\ history[e][version[e] + 1].to = status[e]
    /\ \A i \in 1 .. version[e] :
         /\ history[e][i + 1].from = history[e][i].to
         /\ \/ history[e][i + 1].to \in LegalNext(history[e][i].to)
            \/ history[e][i].to = "no_contact" /\ history[e][i + 1].to = "voided"

(* Every time an episode was contacted or talent_responded, it then rested, or   *)
(* had rested before, on recorded evidence of a kind admissible for the stage   *)
(* (the evidence gate of transitionInTx).                                      *)
EvidenceGrounded ==
  \A e \in Episodes : \A i \in 1 .. Len(history[e]) :
    history[e][i].to \in EvidenceBacked =>
      \E j \in 1 .. i :
        /\ history[e][j].to = history[e][i].to
        /\ Admissible(history[e][j].to, history[e][j].evidence)
        /\ history[e][j].evidence \in evidence

(* An episode has its one disposition exactly when it ended as                  *)
(* not_in_consideration or completed, and only the placement completes it       *)
(* (transitionInTx 4f; void writes none).                                      *)
DispositionMatches ==
  \A e \in Episodes :
    /\ disposition[e] # "none" <=> status[e] \in {"not_in_consideration", "completed"}
    /\ status[e] = "completed" => disposition[e] = "downstream" /\ placement[e] = "STARTED"

(* What the inbox records of a placement event is what became of the episode,   *)
(* through crashes between the command and markProcessed and through two        *)
(* replicas on one event (PlacementLifecycleOrchestratorService).              *)
InboxTruthful ==
  \A e \in Episodes :
    /\ inbox[e] = "completed" => status[e] = "completed"
    /\ inbox[e] = "dispositioned" =>
         status[e] = "not_in_consideration" /\ disposition[e] = "downstream"
    /\ inbox[e] = "already_satisfied" => status[e] \in Terminals

(* A command moves the episode only if it is still at the version on which the  *)
(* recruiter decided; reconcileForward alone decides by itself, and the client's *)
(* decision on the version it reads (the check of expected_version and the      *)
(* compare-and-swap of the write).                                             *)
NoStaleDecision ==
  [][\A r \in Recruiters :
       tx[r].step = "write" /\ tx[r].cmd.op # "reconcile" /\ tx'[r] # tx[r] =>
         \A e \in Episodes :
           version'[e] # version[e] => e = tx[r].ep /\ version[e] = tx[r].seen]_vars

(* Once the requisition is closed no talent is added and no episode moves except *)
(* out of the funnel, even by a request admitted while it was open              *)
(* (requisitionGateForTransition under FOR SHARE).                             *)
ClosedStops ==
  [][requisition = "closed" =>
       \A e \in Episodes : status'[e] # status[e] => status'[e] \in Terminals]_vars

(* What the refinement calls Allowed and Establishes: the state machine, with void, under *)
(* the requisition's gate, and the evidence gate.                                       *)
AllowedMoves ==
  {m \in RequisitionStatuses \X Statuses \X Statuses :
     /\ m[3] \in LegalNext(m[2]) \/ (m[2] = "no_contact" /\ m[3] = "voided")
     /\ GatePermits(m[1], m[2], m[3])}

Establishing == {g \in EvidenceBacked \X Kinds : Admissible(g[1], g[2])}

Answers == [e \in Episodes |-> IF inbox[e] \in OutcomeCodes THEN inbox[e] ELSE "none"]

Ledger == INSTANCE EpisodeLedger WITH
  Stages <- Statuses, Allowed <- AllowedMoves,
  Milestones <- EvidenceBacked, Establishes <- Establishing,
  outcome <- placement, stage <- status, ledger <- history, ending <- disposition,
  answer <- Answers

(* Commands that read, check and only later write, on screens that were loaded      *)
(* before, and replicas that die between the command and markProcessed, behave as    *)
(* if every command were one atomic step decided on the present row, requisition and *)
(* evidence, and every placement event were answered once (transitionInTx, void,     *)
(* reconcileForward, PlacementLifecycleOrchestratorService).                        *)
ImplementsLedger == Ledger!Spec

(* Not a property of this code (README, Observations).  An event is marked       *)
(* processed only once its command succeeded or its episode had ended already.  *)
ProcessedMeansSettled ==
  \A e \in Episodes : inbox[e] \in OutcomeCodes => ~Live(e)

(* What is true of it: an episode is left live by a processed event only if its   *)
(* placement started and the event was skipped; one that fell through ends it     *)
(* (handleFallthrough, classifyCommandError).                                  *)
OnlyStartsAreSkipped ==
  \A e \in Episodes : inbox[e] \in OutcomeCodes /\ Live(e) =>
    inbox[e] = "pipeline_not_live" /\ placement[e] = "STARTED"

=============================================================================
