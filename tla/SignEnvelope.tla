----------------------------- MODULE SignEnvelope -----------------------------
(***************************************************************************)
(* One e-sign envelope from send to its terminal state: the recipients who   *)
(* act through capability sessions, the sessions that are minted for them,   *)
(* the worker that delivers invitations, the expiry sweep, and the producer   *)
(* of the executed documents.                                               *)
(*                                                                         *)
(* Every recipient operation and every status change runs in one transaction *)
(* that holds the envelope row FOR UPDATE, so it is one step; each re-checks *)
(* under the lock whatever resolveSession read before it.  The invitation     *)
(* worker and the producer take several steps and may die between them.     *)
(*                                                                         *)
(* Only sessions that work are kept: one that is COMPLETED, REVOKED, EXPIRED *)
(* or past its expires_at is refused everywhere and never works again, and    *)
(* no guard tells ISSUED, EXCHANGED and ACTIVE apart.  Each recipient has one *)
(* required field.  Self-only envelopes, copy recipients, payment, identity verification and QES  *)
(* gates, the contents of the ledger and time stamps are left out.          *)
(***************************************************************************)
EXTENDS Naturals, Sequences, FiniteSets

CONSTANTS
  Signers,          \* the signing recipients of the envelope
  Setups,           \* what the sender may have chosen: see SetupAssumption
  Values,           \* what may be written into a field
  None,             \* NULL
  Documents,        \* the documents of the envelope
  Workers,          \* processes that deliver invitations
  MaxCodeAttempts,  \* MAX_ACCESS_CODE_ATTEMPTS
  MaxAttempts,      \* SIGNING_INVITATION_MAX_ATTEMPTS
  MaxSessions,      \* bound: sessions minted for one recipient but by a worker
  MaxSlow,          \* bound: claims that outlive STALE_CLAIM_MS while delivering
  MaxCrashes        \* bound: deaths of a worker or of the producer

Kinds == {"SIGNER", "IN_PERSON_SIGNER", "WITNESS"}

ASSUME SetupAssumption ==
  /\ Setups \subseteq
       [routing : {"PARALLEL", "SEQUENTIAL"}, kind : [Signers -> Kinds],
        principal : [Signers -> Signers], order : [Signers -> Nat], code : [Signers -> BOOLEAN],
        bound : [Signers -> BOOLEAN], delegable : BOOLEAN]
  /\ \A c \in Setups : \A s, t \in Signers : c.order[s] = c.order[t] => s = t

ASSUME BoundsAssumption ==
  /\ MaxCodeAttempts \in Nat \ {0}
  /\ MaxAttempts \in Nat \ {0}
  /\ {MaxSessions, MaxSlow, MaxCrashes} \subseteq Nat
  /\ None \notin Values

VARIABLES
  setup,       \* routing, kinds and options, fixed when the envelope is sent
  status,      \* SignatureEnvelope.status
  windowOver,  \* expires_at has passed
  signer,      \* the Signer rows, their field, and the value each signed
  sessions,    \* the SigningSession rows of each recipient that still work
  minted,      \* the sessions minted for each recipient so far
  intents,     \* the SIGNATURE_REQUEST rows of NotificationDelivery
  outbox,      \* the lifecycle events enqueued for the envelope
  worker,      \* what each invitation worker is doing
  producer,    \* the completion that produces the executed documents
  executed,    \* ExecutedDocument: the field values each document was stamped with
  certified,   \* the ExecutionCertificate row exists
  slow,        \* claims that were overtaken so far
  crashes      \* deaths so far

tokenVars == <<sessions, minted>>
execVars == <<producer, executed, certified>>
workVars == <<worker, slow>>
vars == <<setup, status, windowOver, signer, tokenVars, intents, outbox, workVars,
          execVars, crashes>>

Statuses == {"DRAFT", "SENT", "IN_PROGRESS", "COMPLETED", "DECLINED", "VOIDED", "EXPIRED"}
Terminal == {"COMPLETED", "DECLINED", "VOIDED", "EXPIRED"}
Transitions ==
  [from \in Statuses |->
     CASE from = "DRAFT" -> {"SENT", "VOIDED"}
       [] from = "SENT" -> {"IN_PROGRESS", "DECLINED", "VOIDED", "EXPIRED"}
       [] from = "IN_PROGRESS" -> {"COMPLETED", "DECLINED", "VOIDED", "EXPIRED"}
       [] OTHER -> {}]

Holders == {"first", "delegate"}  \* who a slot, a session or an acceptance belongs to
Origins == {"LINK", "INBOX", "HOSTED", "SELF"}
Session == [n : Nat, origin : Origins, to : Holders, verified : BOOLEAN, emailed : BOOLEAN]
Signer == [status : {"PENDING", "VIEWED", "SIGNED", "DECLINED"}, holder : Holders,
           accepted : SUBSET Holders, value : Values \union {None},
           signed : Values \union {None}, failed : 0 .. MaxCodeAttempts, locked : BOOLEAN]
Intent == [status : {"PENDING", "DISPATCHING", "SENT", "FAILED", "CANCELLED"}, attempts : Nat]
WorkerStates == {"idle", "listed", "claimed", "issued", "SENT", "FAILED", "CANCELLED"}
idle == [pc |-> "idle", for |-> None, row |-> 0, seen |-> None, link |-> 0]

Init ==
  /\ setup \in Setups
  /\ status = "DRAFT"
  /\ windowOver = FALSE
  /\ signer = [s \in Signers |->
       [status |-> "PENDING", holder |-> "first", accepted |-> {}, value |-> None,
        signed |-> None, failed |-> 0, locked |-> FALSE]]
  /\ sessions = [s \in Signers |-> {}]
  /\ minted = [s \in Signers |-> 0]
  /\ intents = [s \in Signers |-> << >>]
  /\ outbox = << >>
  /\ worker = [w \in Workers |-> idle]
  /\ producer = [pc |-> "none", read |-> None]
  /\ executed = [d \in Documents |-> None]
  /\ certified = FALSE
  /\ slow = 0
  /\ crashes = 0

-----------------------------------------------------------------------------
(* Who may act.                                                            *)

\* Mutant: a terminal envelope is signable.
SignableOnceSent == status # "DRAFT"
SignableNow == status \in {"SENT", "IN_PROGRESS"}
Awaiting(s) == signer[s].status \in {"PENDING", "VIEWED"}
IsLinkSigner(s) == setup.kind[s] \in {"SIGNER", "WITNESS"}

\* Mutant: witnesses and in-person signers do not block completion.
SignersSigned(rows) == \A s \in Signers : setup.kind[s] = "SIGNER" => rows[s].status = "SIGNED"
AllSigned(rows) == \A s \in Signers : rows[s].status = "SIGNED"

\* The recipient whose turn it is: the lowest order among those who have not signed.
IsTurn(rows, s) ==
  /\ rows[s].status # "SIGNED"
  /\ \A t \in Signers : rows[t].status # "SIGNED" => setup.order[s] <= setup.order[t]

\* A witness waits for the recipient it witnesses.
WitnessReady(s) == setup.kind[s] = "WITNESS" => signer[setup.principal[s]].status = "SIGNED"
OnTurn(s) == setup.routing = "SEQUENTIAL" => IsTurn(signer, s)

\* Mutant: a witness need not wait.
EligibleByTurn(s) == OnTurn(s)
Eligible(s) == WitnessReady(s) /\ OnTurn(s)

\* Mutant: the first holder's acceptance counts after a delegation.
EverAccepted(s) == signer[s].accepted # {}

\* Only an acceptance made since the slot was delegated counts.
HasAccepted(s) == IF signer[s].holder = "first" THEN signer[s].accepted # {}
                                               ELSE "delegate" \in signer[s].accepted

CodeCleared(s, x) == setup.code[s] => ~signer[s].locked /\ x.verified

\* The checks every recipient operation makes under the envelope lock.
MayAct(s, x) ==
  /\ SignableNow
  /\ x \in sessions[s]
  /\ Eligible(s)
  /\ CodeCleared(s, x)

-----------------------------------------------------------------------------
(* Sessions.                                                               *)

NewSession(s, origin, emailed) ==
  [n |-> minted[s] + 1, origin |-> origin, to |-> signer[s].holder,
   verified |-> FALSE, emailed |-> emailed]

\* A bound; links the invitation worker issues are bounded by its attempts instead.
HasRoom(s) == minted[s] < MaxSessions

\* A reminder, an invitation and a hosted session replace whatever works ...
Reissued(s, origin, emailed) == {NewSession(s, origin, emailed)}
\* ... an inbox and a self-sign session are minted beside the emailed link.
Added(s, origin) == sessions[s] \union {NewSession(s, origin, TRUE)}

MintFor(targets, rows) ==
  /\ sessions' = [s \in Signers |-> IF s \in targets THEN rows[s] ELSE sessions[s]]
  /\ minted' = [s \in Signers |-> IF s \in targets THEN minted[s] + 1 ELSE minted[s]]

\* transitionEnvelopeIn to a terminal status: its event is enqueued with it, except
\* that of COMPLETED, which waits for the certificate.
Told(to) == IF to = "COMPLETED" THEN outbox ELSE Append(outbox, to)
Terminate(to) ==
  /\ status' = to
  /\ sessions' = [s \in Signers |-> {}]
  /\ outbox' = Told(to)

-----------------------------------------------------------------------------
(* The sender.                                                             *)

InvitedAtSend == {s \in Signers : IsLinkSigner(s) /\ Eligible(s)}

Send ==
  /\ "SENT" \in Transitions[status]
  /\ status' = "SENT"
  /\ MintFor(InvitedAtSend, [s \in Signers |-> Added(s, "LINK")])
  /\ UNCHANGED <<setup, windowOver, signer, intents, outbox, workVars, execVars, crashes>>

\* A reminder of one recipient, or of all the limits let through.
Remindable == {s \in Signers : Awaiting(s) /\ IsLinkSigner(s) /\ Eligible(s)}
Remind(targets) ==
  /\ SignableNow
  /\ targets \subseteq Remindable
  /\ targets # {}
  /\ \A s \in targets : HasRoom(s)
  /\ MintFor(targets, [s \in Signers |-> Reissued(s, "LINK", TRUE)])
  /\ UNCHANGED <<setup, status, windowOver, signer, intents, outbox, workVars, execVars, crashes>>

Void ==
  /\ "VOIDED" \in Transitions[status]
  /\ Terminate("VOIDED")
  /\ UNCHANGED <<setup, minted, windowOver, signer, intents, workVars, execVars, crashes>>

-----------------------------------------------------------------------------
(* Sessions a recipient or a host asks for.                                *)

\* lockForSessionIssue: no witness check here, every operation makes it.
Issuable(s) == /\ SignableNow
               /\ ~windowOver
               /\ Awaiting(s)
               /\ OnTurn(s)
               /\ HasRoom(s)

IssueHosted(s) ==
  /\ Issuable(s)
  /\ setup.kind[s] = "IN_PERSON_SIGNER"
  /\ MintFor({s}, [t \in Signers |-> Reissued(t, "HOSTED", TRUE)])
  /\ UNCHANGED <<setup, status, windowOver, signer, intents, outbox, workVars, execVars, crashes>>

\* bound_user_id is cleared by a delegation.
IssueSelf(s) ==
  /\ Issuable(s)
  /\ setup.bound[s] /\ signer[s].holder = "first"
  /\ MintFor({s}, [t \in Signers |-> Added(t, "SELF")])
  /\ UNCHANGED <<setup, status, windowOver, signer, intents, outbox, workVars, execVars, crashes>>

IssueInbox(s) ==
  /\ Issuable(s)
  /\ IsLinkSigner(s) /\ WitnessReady(s)
  /\ \E x \in sessions[s] : x.origin = "LINK"
  /\ MintFor({s}, [t \in Signers |-> Added(t, "INBOX")])
  /\ UNCHANGED <<setup, status, windowOver, signer, intents, outbox, workVars, execVars, crashes>>

\* A session passes its expires_at; an inbox session never outlives its link.
Lapse(s, x) ==
  /\ x \in sessions[s]
  /\ sessions' = [sessions EXCEPT ![s] =
       {y \in @ : y # x /\ ~(x.origin = "LINK" /\ y.origin = "INBOX")}]
  /\ UNCHANGED <<setup, status, windowOver, signer, minted, intents, outbox, workVars, execVars,
                 crashes>>

\* The signing window ends; every session but an emailed link ends with it.
WindowCloses ==
  /\ SignableNow /\ ~windowOver
  /\ windowOver' = TRUE
  /\ sessions' = [s \in Signers |-> {x \in sessions[s] : x.origin = "LINK"}]
  /\ UNCHANGED <<setup, minted, status, signer, intents, outbox, workVars, execVars, crashes>>

\* The expiry sweep: a completion or void in between wins, the envelope is skipped.
ExpireSweep ==
  /\ windowOver
  /\ "EXPIRED" \in Transitions[status]
  /\ Terminate("EXPIRED")
  /\ UNCHANGED <<setup, minted, windowOver, signer, intents, workVars, execVars, crashes>>

-----------------------------------------------------------------------------
(* The recipient's operations.                                             *)

Exchange(s, x) ==
  /\ MayAct(s, x)
  /\ status' = "IN_PROGRESS"
  /\ signer' = [signer EXCEPT ![s].status = IF @ = "PENDING" THEN "VIEWED" ELSE @]
  /\ UNCHANGED <<setup, windowOver, tokenVars, intents, outbox, workVars, execVars, crashes>>

AcceptDisclosure(s, x) ==
  /\ MayAct(s, x)
  /\ signer' = [signer EXCEPT ![s].accepted = @ \union {signer[s].holder}]
  /\ UNCHANGED <<setup, status, windowOver, tokenVars, intents, outbox, workVars, execVars, crashes>>

\* Mutant: one more wrong code is allowed.
CodeLocksLate(failures) == failures > MaxCodeAttempts
CodeLocks(failures) == failures >= MaxCodeAttempts

\* Mutant: a locked recipient may try again.
CodeSet(s) == setup.code[s]
CodeOpen(s) == setup.code[s] /\ ~signer[s].locked

VerifyCode(s, x) ==
  /\ SignableNow
  /\ x \in sessions[s]
  /\ CodeOpen(s)
  /\ sessions' = [sessions EXCEPT ![s] = (@ \ {x}) \union {[x EXCEPT !.verified = TRUE]}]
  /\ signer' = [signer EXCEPT ![s].failed = 0]
  /\ UNCHANGED <<setup, minted, status, windowOver, intents, outbox, workVars, execVars, crashes>>

WrongCode(s, x) ==
  /\ SignableNow
  /\ x \in sessions[s]
  /\ CodeOpen(s)
  /\ LET failures == signer[s].failed + 1 IN
     /\ signer' = [signer EXCEPT ![s].failed = failures, ![s].locked = CodeLocks(failures)]
     /\ sessions' = IF CodeLocks(failures) THEN [sessions EXCEPT ![s] = {}] ELSE sessions
  /\ UNCHANGED <<setup, minted, status, windowOver, intents, outbox, workVars, execVars, crashes>>

\* An intent is recorded for each recipient that has none open.
WithIntents(targets) ==
  [s \in Signers |->
     IF /\ s \in targets
        /\ \A i \in DOMAIN intents[s] : intents[s][i].status \notin {"PENDING", "DISPATCHING"}
     THEN Append(intents[s], [status |-> "PENDING", attempts |-> 0]) ELSE intents[s]]

\* The slot passes to a delegate: acceptance, field and sessions start afresh.
DelegatedSessions(s) == {}
Delegate(s, x) ==
  /\ MayAct(s, x)
  /\ setup.delegable
  /\ setup.kind[s] = "SIGNER"
  /\ signer[s].holder = "first"
  /\ Awaiting(s)
  /\ signer' = [signer EXCEPT ![s].holder = "delegate", ![s].status = "PENDING", ![s].value = None]
  /\ sessions' = [sessions EXCEPT ![s] = DelegatedSessions(s)]
  /\ intents' = WithIntents({s})
  /\ UNCHANGED <<setup, minted, status, windowOver, outbox, workVars, execVars, crashes>>

FillField(s, x, v) ==
  /\ MayAct(s, x)
  /\ HasAccepted(s)
  /\ signer' = [signer EXCEPT ![s].value = v]
  /\ UNCHANGED <<setup, status, windowOver, tokenVars, intents, outbox, workVars, execVars, crashes>>

\* The recipients a completion lets in.
NextInvited(s, rows) ==
  {t \in Signers :
     IF setup.routing = "SEQUENTIAL"
     THEN IsTurn(rows, t) /\ IsLinkSigner(t)
     ELSE /\ setup.kind[t] = "WITNESS"
          /\ setup.principal[t] = s
          /\ rows[t].status \in {"PENDING", "VIEWED"}}

\* Mutant: a completion straight from SENT produces nothing.
ProducesInProgress(before) == IF before = "IN_PROGRESS" THEN "produce" ELSE "none"

\* The winner of the COMPLETED transition goes on to produce the executed documents.
Produces(before) == "produce"

CompleteSigner(s, x) ==
  /\ MayAct(s, x)
  /\ HasAccepted(s)
  /\ signer[s].value # None
  /\ LET rows == [signer EXCEPT ![s].status = "SIGNED", ![s].signed = signer[s].value]
     IN /\ signer' = rows
        /\ \/ /\ AllSigned(rows)
              /\ Terminate("COMPLETED")
              /\ producer' = [producer EXCEPT !.pc = Produces(status)]
              /\ intents' = intents
           \/ /\ ~AllSigned(rows)
              /\ sessions' = [sessions EXCEPT ![s] = @ \ {x}]
              /\ intents' = WithIntents(NextInvited(s, rows))
              /\ UNCHANGED <<status, outbox, producer>>
  /\ UNCHANGED <<setup, minted, windowOver, workVars, executed, certified, crashes>>

Decline(s, x) ==
  /\ MayAct(s, x)
  /\ signer' = [signer EXCEPT ![s].status = "DECLINED"]
  /\ Terminate("DECLINED")
  /\ UNCHANGED <<setup, minted, windowOver, intents, workVars, execVars, crashes>>

-----------------------------------------------------------------------------
(* The invitation worker: list, claim, issue under the lock, deliver, record. *)

Row(w) == intents[worker[w].for][worker[w].row]
Delivering(w, s, i) == /\ worker[w].pc \notin {"idle", "listed"}
                       /\ worker[w].for = s /\ worker[w].row = i
Overtakes(s, i) == /\ intents[s][i].status = "DISPATCHING"
                   /\ \E w \in Workers : Delivering(w, s, i)

\* Mutant: the claim of a dead worker is never open again.
NeverStale(row) == FALSE

\* A claim older than STALE_CLAIM_MS is open again, whatever its attempts.
Stale(row) == row.status = "DISPATCHING"
OpenIntent(row) == \/ row.status = "PENDING"
                   \/ row.status = "FAILED" /\ row.attempts < MaxAttempts
                   \/ Stale(row)

ListIntent(w, s, i) ==
  /\ worker[w].pc = "idle"
  /\ OpenIntent(intents[s][i])
  /\ Overtakes(s, i) => slow < MaxSlow
  /\ slow' = IF Overtakes(s, i) THEN slow + 1 ELSE slow
  /\ worker' = [worker EXCEPT ![w] =
       [pc |-> "listed", for |-> s, row |-> i, seen |-> intents[s][i], link |-> 0]]
  /\ UNCHANGED <<setup, status, windowOver, signer, tokenVars, intents, outbox, execVars, crashes>>

\* Compare-and-swap on the status and the attempts that were listed.
ClaimIntent(w) ==
  /\ worker[w].pc = "listed"
  /\ \/ /\ Row(w) = worker[w].seen
        /\ intents' = [intents EXCEPT ![worker[w].for][worker[w].row] =
             [status |-> "DISPATCHING", attempts |-> @.attempts + 1]]
        /\ worker' = [worker EXCEPT ![w].pc = "claimed"]
     \/ /\ Row(w) # worker[w].seen
        /\ intents' = intents
        /\ worker' = [worker EXCEPT ![w] = idle]
  /\ UNCHANGED <<setup, status, windowOver, signer, tokenVars, outbox, execVars, slow, crashes>>

\* Mutant: an invitation does not look at the envelope.
StillAwaiting(s) == Awaiting(s) /\ IsLinkSigner(s) /\ Eligible(s)
StillInvited(s) == SignableNow /\ Awaiting(s) /\ IsLinkSigner(s) /\ Eligible(s)

IssueLink(w) ==
  /\ worker[w].pc = "claimed"
  /\ LET s == worker[w].for IN
     \/ /\ StillInvited(s)
        /\ MintFor({s}, [t \in Signers |-> Reissued(t, "LINK", FALSE)])
        /\ worker' = [worker EXCEPT ![w].pc = "issued", ![w].link = minted[s] + 1]
     \/ /\ ~StillInvited(s)
        /\ worker' = [worker EXCEPT ![w].pc = "CANCELLED"]
        /\ UNCHANGED tokenVars
  /\ UNCHANGED <<setup, status, windowOver, signer, intents, outbox, execVars, slow, crashes>>

Deliver(w, ok) ==
  /\ worker[w].pc = "issued"
  /\ worker' = [worker EXCEPT ![w].pc = IF ok THEN "SENT" ELSE "FAILED"]
  /\ sessions' = [sessions EXCEPT ![worker[w].for] =
       {IF ok /\ x.n = worker[w].link THEN [x EXCEPT !.emailed = TRUE] ELSE x : x \in @}]
  /\ UNCHANGED <<setup, minted, status, windowOver, signer, intents, outbox, execVars, slow, crashes>>

\* The outcome is written by id, whoever holds the claim by now.
RecordOutcome(w) ==
  /\ worker[w].pc \in {"SENT", "FAILED", "CANCELLED"}
  /\ intents' = [intents EXCEPT ![worker[w].for][worker[w].row].status = worker[w].pc]
  /\ worker' = [worker EXCEPT ![w] = idle]
  /\ UNCHANGED <<setup, status, windowOver, signer, tokenVars, outbox, execVars, slow, crashes>>

WorkerDies(w) ==
  /\ worker[w].pc # "idle"
  /\ crashes < MaxCrashes
  /\ crashes' = crashes + 1
  /\ worker' = [worker EXCEPT ![w] = idle]
  /\ UNCHANGED <<setup, status, windowOver, signer, tokenVars, intents, outbox, execVars, slow>>

-----------------------------------------------------------------------------
(* The producer, after the completing transaction has committed.           *)

\* The fields are read once here and again for each document (renderExecutedDocument); those
\* of a completed envelope do not change in between.
ProduceRead ==
  /\ producer.pc = "produce"
  /\ producer' = [pc |-> "stamp", read |-> [s \in Signers |-> signer[s].value]]
  /\ UNCHANGED <<setup, status, windowOver, signer, tokenVars, intents, outbox, workVars,
                 executed, certified, crashes>>

InsertExecuted(d) ==
  /\ producer.pc = "stamp"
  /\ executed[d] = None
  /\ executed' = [executed EXCEPT ![d] = producer.read]
  /\ UNCHANGED <<setup, status, windowOver, signer, tokenVars, intents, outbox, workVars,
                 producer, certified, crashes>>

\* Certificate and executed event in one transaction, after every document.
InsertCertificate ==
  /\ producer.pc = "stamp"
  /\ \A d \in Documents : executed[d] # None
  /\ certified' = TRUE
  /\ outbox' = Append(outbox, "EXECUTED")
  /\ producer' = [producer EXCEPT !.pc = "done"]
  /\ UNCHANGED <<setup, status, windowOver, signer, tokenVars, intents, workVars, executed, crashes>>

\* Nothing calls produce again for a completed envelope.
ProducerDies ==
  /\ producer.pc \in {"produce", "stamp"}
  /\ crashes < MaxCrashes
  /\ crashes' = crashes + 1
  /\ producer' = [producer EXCEPT !.pc = "dead"]
  /\ UNCHANGED <<setup, status, windowOver, signer, tokenVars, intents, outbox, workVars,
                 executed, certified>>

-----------------------------------------------------------------------------
RecipientStep(s, x) ==
  \/ Lapse(s, x)
  \/ Exchange(s, x)
  \/ AcceptDisclosure(s, x)
  \/ VerifyCode(s, x) \/ WrongCode(s, x)
  \/ Delegate(s, x)
  \/ \E v \in Values : FillField(s, x, v)
  \/ CompleteSigner(s, x)
  \/ Decline(s, x)

WorkerStep(w) ==
  \/ \E s \in Signers : \E i \in DOMAIN intents[s] : ListIntent(w, s, i)
  \/ ClaimIntent(w)
  \/ IssueLink(w)
  \/ \E ok \in BOOLEAN : Deliver(w, ok)
  \/ RecordOutcome(w)

ProducerStep ==
  \/ ProduceRead
  \/ \E d \in Documents : InsertExecuted(d)
  \/ InsertCertificate

\* The envelope is over and nothing is left in flight.
Settled ==
  /\ status \in Terminal
  /\ \A w \in Workers : worker[w].pc = "idle"
  /\ \A s \in Signers : \A i \in DOMAIN intents[s] : ~OpenIntent(intents[s][i])
  /\ producer.pc \notin {"produce", "stamp"}
  /\ UNCHANGED vars

Next ==
  \/ Send
  \/ \E targets \in SUBSET Signers : Remind(targets)
  \/ Void
  \/ \E s \in Signers : IssueHosted(s) \/ IssueSelf(s) \/ IssueInbox(s)
  \/ WindowCloses
  \/ ExpireSweep
  \/ \E s \in Signers : \E x \in sessions[s] : RecipientStep(s, x)
  \/ \E w \in Workers : WorkerStep(w) \/ WorkerDies(w)
  \/ ProducerStep
  \/ ProducerDies
  \/ Settled

Spec == Init /\ [][Next]_vars

\* The invitation worker runs on a timer in every replica, and the producer is the rest
\* of a request that has committed.
FairSpec ==
  /\ Spec
  /\ \A w \in Workers : WF_vars(WorkerStep(w))
  /\ WF_vars(ProducerStep)

-----------------------------------------------------------------------------
(* What the envelope promises.                                             *)

\* Every row and process keeps its type, the wrong codes of a recipient are counted
\* up to the limit, and the recipient is locked out exactly at the limit.
TypeOK ==
  /\ setup \in Setups
  /\ status \in Statuses
  /\ windowOver \in BOOLEAN
  /\ signer \in [Signers -> Signer]
  /\ \A s \in Signers : signer[s].locked <=> signer[s].failed = MaxCodeAttempts
  /\ sessions \in [Signers -> SUBSET Session]
  /\ minted \in [Signers -> Nat]
  /\ intents \in [Signers -> Seq(Intent)]
  /\ outbox \in Seq({"DECLINED", "VOIDED", "EXPIRED", "EXECUTED"})
  /\ worker \in [Workers -> [pc : WorkerStates, for : Signers \union {None}, row : Nat,
                             seen : Intent \union {None}, link : Nat]]
  /\ producer \in [pc : {"none", "produce", "stamp", "done", "dead"},
                   read : [Signers -> Values \union {None}] \union {None}]
  /\ executed \in [Documents -> [Signers -> Values \union {None}] \union {None}]
  /\ certified \in BOOLEAN
  /\ slow \in Nat
  /\ crashes \in 0 .. MaxCrashes

\* completeSigner: the envelope completes only when every signing recipient, witnesses
\* included, has signed a filled field after the person who now holds the slot accepted
\* the disclosure; a delegation in between voids what the first holder did.
CompletedIsSound ==
  status = "COMPLETED" =>
    \A s \in Signers : /\ signer[s].status = "SIGNED"
                       /\ signer[s].value # None
                       /\ signer[s].holder \in signer[s].accepted

\* assertEligible: whatever link, inbox, hosted or self-sign session they hold, nobody
\* has viewed, accepted or filled anything before their turn in a SEQUENTIAL envelope,
\* and no witness has before the recipient it witnesses signed.
Acted(s) == \/ signer[s].status # "PENDING"
            \/ signer[s].accepted # {}
            \/ signer[s].value # None
ActsInTurn ==
  \A s \in Signers : Acted(s) =>
    /\ setup.routing = "SEQUENTIAL" =>
         \A t \in Signers : setup.order[t] < setup.order[s] => signer[t].status = "SIGNED"
    /\ setup.kind[s] = "WITNESS" =>
         status = "DECLINED" \/ signer[setup.principal[s]].status = "SIGNED"

\* send, remindSigner, issueHostedSession and the invitation worker, in any order and
\* with several workers on one intent: a recipient never holds two working links.
OneWorkingLink ==
  \A s \in Signers : \A x, y \in sessions[s] :
    {x.origin, y.origin} \subseteq {"LINK", "HOSTED"} => x = y

\* delegateSigner: every session that still works was minted for the person who holds
\* the slot now, even when an invitation of the first holder is being delivered.
SessionsOfHolder ==
  \A s \in Signers : \A x \in sessions[s] : x.to = signer[s].holder

\* transitionEnvelopeIn: no session works once the envelope is terminal, although
\* reminders and invitations that began before it ended go on minting.
TerminalRevokes == status \in Terminal => \A s \in Signers : sessions[s] = {}

\* What may be said of the sessions that work, at any time: at most one link, nobody's
\* but the present holder's, and none after the end.
SessionsSound == OneWorkingLink /\ SessionsOfHolder /\ TerminalRevokes

\* A terminal envelope stays as it is: no later step of a recipient, sender, sweep or
\* worker changes its status, a recipient's row or a field.
TerminalIsFinal ==
  [][(status \in Terminal) => (status' = status /\ signer' = signer)]_vars

\* verifyRecipientAccessCode: after the last wrong code the recipient's row never
\* changes again, through whatever session is minted for them later.
LockedIsFrozen ==
  [][\A s \in Signers : signer[s].locked => signer'[s] = signer[s]]_vars

\* No step changes the row of a recipient who is locked out or whose envelope is over.
RowsFrozen == TerminalIsFinal /\ LockedIsFrozen

\* produce reads the fields without the lock, after the commit: still every executed
\* document carries the final value of every recipient's field, and the certificate
\* exists only with all of them.
ExecutedIsComplete ==
  /\ \A d \in Documents : executed[d] # None =>
       /\ status = "COMPLETED"
       /\ \A s \in Signers : executed[d][s] = signer[s].value /\ executed[d][s] # None
  /\ certified => \A d \in Documents : executed[d] # None

\* The consuming application hears of the end of the envelope at most once, and what it
\* hears is what happened; an end other than completion is never left untold.
OneLifecycleEvent ==
  outbox = CASE status \in {"DECLINED", "VOIDED", "EXPIRED"} -> <<status>>
             [] status = "COMPLETED" /\ certified -> <<"EXECUTED">>
             [] OTHER -> << >>

\* What came of the envelope: the executed artefacts and the event that tells of it.
OutcomeSound == ExecutedIsComplete /\ OneLifecycleEvent

\* SigningInvitationService: an intent recorded with a completion or a delegation is
\* delivered, cancelled or given up after its attempts, whatever dies on the way.
Unsettled(row) == \/ row.status \in {"PENDING", "DISPATCHING"}
                  \/ row.status = "FAILED" /\ row.attempts < MaxAttempts
HasUnsettled(s) == \E i \in DOMAIN intents[s] : Unsettled(intents[s][i])
InvitationSettles == \A s \in Signers : HasUnsettled(s) ~> ~HasUnsettled(s)

\* A completed envelope gets its documents, certificate and executed event, unless the
\* process dies in between: nothing calls produce again.
ExecutionFollows == status = "COMPLETED" ~> certified \/ producer.pc = "dead"

\* "a signer who has completed, or a signer on a terminal envelope, can no longer alter a
\* field value" (the comment of fillField).
SignedFieldKept == \A s \in Signers : signer[s].status = "SIGNED" => signer[s].value = signer[s].signed

\* What was executed is what was signed; with SignedFieldKept this holds of SEQUENTIAL
\* envelopes only.
ExecutedAsSigned ==
  \A d \in Documents : executed[d] # None => \A s \in Signers : executed[d][s] = signer[s].signed

\* SigningInvitationService, as long as no claim outlives STALE_CLAIM_MS while it delivers
\* (README, Observations): once every intent of a recipient is recorded as SENT and no
\* worker is on one, the link that works is one that was emailed.
SentLinkWorks ==
  \A s \in Signers :
    /\ intents[s] # << >>
    /\ \A i \in DOMAIN intents[s] : intents[s][i].status = "SENT"
    /\ \A w \in Workers : worker[w].for # s
    => \A x \in sessions[s] : x.emailed

-----------------------------------------------------------------------------
(* The envelope implements its lifecycle.                                  *)

\* The recipients s has to wait for: those before it in a SEQUENTIAL envelope, and the
\* one it witnesses.
WaitsFor(s) ==
  {t \in Signers : \/ setup.routing = "SEQUENTIAL" /\ setup.order[t] < setup.order[s]
                   \/ setup.kind[s] = "WITNESS" /\ t = setup.principal[s]}
Waiting == [s \in Signers |-> WaitsFor(s)]
Phase == CASE status = "DRAFT" -> "draft"
           [] status \in {"SENT", "IN_PROGRESS"} -> "open"
           [] OTHER -> status
Fields == [s \in Signers |-> signer[s].value]
HaveSigned == {s \in Signers : signer[s].status = "SIGNED"}

Lifecycle == INSTANCE EnvelopeLifecycle
  WITH Parties <- Signers, waitsFor <- Waiting, phase <- Phase, fields <- Fields,
       signed <- HaveSigned, told <- outbox

\* The sessions, invitations, access codes, delegations and the producer that stamps what
\* it read without the lock give the application what EnvelopeLifecycle promises.
ImplementsLifecycle == Lifecycle!Spec
=============================================================================
