# Aramo platform: a TLA+ verification of its core protocols

Aramo is a multi-tenant recruiting platform (a NestJS API over PostgreSQL, one schema per
module, with workers on timers and queues). Most of its code is forms, views and rules. What is
hard to get right, and hard to test, is what several actors do to one row: recruiters with stale
screens, replicas of workers, redelivered events, Saves that span two schemas without a common
transaction, signers and workers on one envelope, refreshes of one token, and processes that die
between two statements. This project models those protocols.

Paths below are relative to `src/`.

## 1. Inventory

Every part of the system is listed in `PROJECT.json` under `components`. The parts that carry
the core protocols:

| part | state it keeps | operations | hard behaviour | what makes it correct |
|---|---|---|---|---|
| Lease-safe outbox drain (`libs/outbox-publisher`, `libs/events`) over the ATS talent outbox and the intake outbox | rows with `published_at`, `quarantined_at`, `publish_attempts`, `lease_expires_at` | emit in the transaction of the fact; claim, map, publish, mark, quarantine, release; redrive | replicas, leases that lapse under a slow worker, ticks that die, updates that do not check the lease | at-least-once delivery, acknowledgement only after every handler succeeded, final acknowledgements, justified quarantine, no row forgotten |
| Talent intake: draft processing (`libs/talent-record/.../talent-intake`, `libs/talent-evidence`) | the draft (status, version, review payload, resume), its extraction child, its outbox events | upload, complete-upload, retry, replace, discard, review saves; claim, extract, merge, settle; the attachment worker's tick | overlapping deliveries, edits during an extraction, a new resume during an extraction, a worker restart | one claim per queueing, no recruiter edit overwritten, no draft left behind |
| Talent intake: Save | the reservation, materialization mark and payload hash on the draft; record, evidence, event | the five steps of `promote`, resumable | two Saves at once, a Save that fails between any two steps, edits, discards and deletions meanwhile | one talent, one set of evidence, PROMOTED only when whole, no edit lost |
| Pipeline episodes (`libs/pipeline`) | `Pipeline` rows with status and version, history, disposition | create, transition and its actions, evidence commands, reconcileForward, void, complete, dispositionDownstream (of the bridge and of a client's decision) | two recruiters on one row, stale screens, a requisition that closes under a command | one live episode, an unbroken history, milestones that rest on evidence |
| Placement-to-Pipeline bridge (`libs/placement-pipeline-bridge`, `apps/api/.../placement-pipeline-orchestration`) | the inbox row of each placement event | reserve, load, command, markProcessed | replicas, crashes between command and mark, a recruiter who moves the episode meanwhile | the inbox tells the truth, only a started placement completes an episode |
| E-sign envelopes and execution (`libs/sign`) | envelope status, recipients, signing sessions, invitation intents, executed documents, certificate, lifecycle events | send, remind, void, expire; exchange, accept, access code, delegate, fill, complete, decline; issue hosted, self-sign and inbox sessions; deliver invitations; produce | several sessions of one recipient, invitations under way when the envelope ends or a slot is delegated, slow and dying workers, a producer that reads after the commit | signed by everyone, in turn, after their own acceptance; no session works after the end; the executed documents are what was signed |
| Sessions and refresh tokens (`libs/auth-storage`, `libs/auth-core`) | refresh tokens linked by `replaced_by_id`, native device sessions, the ledger of redeemed codes | sign-in, code exchange, refresh with rotation, reuse cascade, denial, logout, device revocation, erasure, removal of product access, retention sweep | concurrent refreshes of one token, a device revoked while it refreshes, opposite lock orders, a cascade that misses or fails | one working token per sign-in, a device points at it, a closed device stays closed, a code opens one session |

How they interact: a Save writes `talent.created` into the ATS talent outbox, and complete-upload
and retry write an event into the intake outbox; the drain hands the events to handlers, one of
which is the intake's extraction. Submitting a live episode leads to a decision of the client
against the talent, which ends the episode in the request that records it, or, by way of offers, to a
placement; the placement's outcome is an event the bridge turns into a Pipeline command. Pipeline
commands read the requisition's status under a lock and the evidence that Communications records.
The end of an envelope is an event for the application that sent it; the native sessions are those
of the signing app. Neither shares rows with the other parts.

Parts not modelled, with the reason for each, are in section 8.

## 2. Modules

| module | what it is |
|---|---|
| `AtLeastOnceDelivery` | abstract specification: what an outbox promises its consumers |
| `LeaseSafeOutbox` | the drain and both of its tables |
| `LeaseSafeOutbox_proofs` | its theorems |
| `MCTalentEventOutbox`, `MCIntakeOutbox` | small instances: the ATS talent outbox (backoff, no redrive), the intake outbox (no backoff, redrive) |
| `IntakeProcessing` | one draft from its creation to its promotion |
| `IntakeProcessing_proofs`, `MCIntakeProcessing` | its theorems, its instances |
| `DraftPromotion` | abstract specification: what the Save of a draft promises |
| `IntakeSave` | the Save of one draft |
| `IntakeSave_proofs`, `MCIntakeSave` | its theorems, its instances |
| `EpisodeLedger` | abstract specification: atomic commands on the episodes, events answered once |
| `PipelineEpisode` | the episodes of one talent on one requisition, and the bridge |
| `PipelineEpisode_proofs`, `MCPipelineEpisode` | its theorems, its instance |
| `EnvelopeLifecycle` | abstract specification: what an envelope promises the application that sent it |
| `SignEnvelope` | one envelope from send to its end, with its sessions, invitations and execution |
| `SignEnvelope_proofs`, `MCSignEnvelope` | its theorems, its instances |
| `RotatingCredentials` | abstract specification: credentials that replace one another and sessions that close |
| `SessionTokens` | the refresh tokens and device sessions of one user |
| `SessionTokens_proofs`, `MCSessionTokens` | its theorems, its instance |

An operator commented "Mutant:" is the definition after it with a plausible bug. It is not used by
the specification; replacing the definition by it must make the property it is listed with fail.

### 2.1 LeaseSafeOutbox

One worker is one replica: the in-process latch of the drain worker admits one tick at a time. A
tick is `Claim` (one `UPDATE ... FOR UPDATE SKIP LOCKED`, which also counts the attempt),
`QuarantineUnmappable`, one `Dispatch` per envelope (each with the set of handlers that succeed),
`MarkPublished`, `QuarantineOverBudget` and `ReleaseRetryable`, each a database or transport call
of `drainOnce`. Between two of them other replicas act, leases lapse (`LeaseLapses`) and an
operator may redrive (`Redrive`). `Abort` is a call that throws or a process that dies.

Time is abstracted to the state of a row's lease: none, live or lapsed. It may lapse at any moment,
so the model has every relation of lease length to processing time. An envelope of an unknown type
requires no handler (the dispatcher confirms it). `Known`, `Unmappable` and `BackoffOnRelease`
are the differences between the two tables.

### 2.2 IntakeProcessing

Every statement of a delivery is a step: `ReadDraft`, the claim (`ClaimWon`, `ClaimLost`),
`UpsertChild`, `Extract`, `MarkChild`, `MergeRead`, `MergeSave`, `MarkProcessed`, `Ack`. The
review payload keeps, per field, who wrote it last (nobody, an extraction of resume *g*, the
producer, the recruiter's *n*-th save); a resume is its generation. `Materialize` and `Promote`
are the two effects the Save has on the draft; `IntakeSave` has the Save itself. `Deliver` takes
any unacknowledged event, also one whose earlier delivery still runs: that is what the outbox model
shows the drain may do. `TickList` and `TickFail` are the attachment worker, which polls the same
table of extraction children and fails the ones it does not recognize.

`patchReview` is one step here: it compares the version the page was loaded with, and every write
of the payload bumps it, so an accepted save is a merge into the current payload. Splitting it is
the subject of `IntakeSave`, where its three statements are three steps.

### 2.3 IntakeSave

`promote` is split at every statement that another request can interleave with: `Load`, `Replay`,
`Dedupe`, `Reserve`, `Reread`, `Materialize` or `FindRecord` and `Rematerialize`, `CreateRecord`,
`FollowUps`, `Complete`. A request keeps the draft as it loaded it (`loc`), which is the point.
The review payload is abstracted to the number of the edit that last changed its scalars (they go
to the record) and its arrays (they go to the evidence and into the payload hash). `Rival` is any
other way a record of the same person comes or goes, at any time and whatever records exist: another
create looks for duplicates, but an import (`createForImport`) and an update of email or phone do
not, so a second record of a person who has one is possible. What is claimed is that no *Save* makes
it. `CreateRecord` is one step: its transaction takes the advisory locks of email and phone before it
looks for a duplicate. `FollowUps` is that the follow-ups were attempted: the consent default
swallows its errors.

`Overlap` separates two questions: with `Overlap = TRUE` edits may be saved while a Save runs; with
`FALSE` edits and Saves take turns (but Saves still fail anywhere and are resumed).

`ImplementsPromotion` maps this to `DraftPromotion`, which knows no requests: the state of the
draft, the id it elected, the ids that have evidence, the ids a talent was created under, the ones
that are there, and whether a rival exists. A rival may come and go there too; only a talent of this
draft is created when there is none. Steps that only read, or that rewrite evidence already
there, are stutters.

### 2.4 PipelineEpisode

A command's transaction is `Read` (the row, the version the client saw, the state machine, the
evidence gate) and `Write` (compare-and-swap on the version, then the requisition read `FOR SHARE`,
the evidence verified, the history, event and disposition rows). The write is one step because the
row is locked from the swap to the commit and nothing is visible before it. Adds are `AddCheck` and
`Add`, whose insert meets the partial unique index. A client's decision against the talent is
`Decide` (the client selection process, in its own transaction), `LoadDecided` (the episode is read)
and `Write` with `ClientCommand`; it may be repeated, and it excludes a placement of the same
submission, for which the client must have selected the talent. The bridge is `Pick`, `Reserve`, `Load`,
`Command`, `Finish`, any of which a `Crash` may follow. Everything a transaction can be refused for
that is not modelled (the Right to Represent gate, visibility, lock timeouts) is the alternative of
`Add` and `Write` that changes nothing.

`on_hold` is treated like `open`, `canceled` like `closed`, `NO_SHOW` like `FELL_THROUGH`: the
code makes no difference here. A disposition with its reason and a void are admitted on a
closed requisition, as in the code.

`ImplementsLedger` maps the rows, the history and the answered inbox rows to `EpisodeLedger`, which
has neither versions nor transactions: there a command is one step whose legality, requisition
gate, evidence and placement are those of the moment it is written. Its tables of allowed moves and
of evidence (`AllowedMoves`, `Establishing`) are the state machine and the gates of the code.

### 2.5 SignEnvelope

Every recipient operation and every change of the envelope's status runs in one transaction that
holds the envelope row `FOR UPDATE` and checks again under the lock what it read before, so each is
one step: `Exchange`, `AcceptDisclosure`, `VerifyCode`, `WrongCode`, `Delegate`, `FillField`,
`CompleteSigner`, `Decline`, `Send`, `Remind`, `Void`, `ExpireSweep`. What does not run under that
lock is split: the invitation worker (`ListIntent`, `ClaimIntent`, `IssueLink`, `Deliver`,
`RecordOutcome`) and the producer of the executed artefacts (`ProduceRead`, one `InsertExecuted`
per document, `InsertCertificate`), either of which may die between its steps.

A session is kept while it works. Its origin says how it was minted: an emailed link, a hosted
session, a self-sign session or one from the recipient's inbox. The first two replace what the
recipient had, the other two stand beside it. `setup` is what the sender chose (routing, kinds,
who witnesses whom, access codes, delegation); the instances enumerate four of them. A field's
content is a value, a person is the first holder of the slot or the delegate. Time is
`WindowCloses`, `Lapse` and the age of a claim.

`ImplementsLifecycle` maps the envelope to `EnvelopeLifecycle`: parties, whom each has to wait for,
what is filled in and signed, what was executed, what the application was told. Sessions,
invitations, codes, delegates and the producer's reading are not visible there.

### 2.6 SessionTokens

A request is a record of where it is and what it has read. Statements and single-row transactions
are one step. Two transactions touch a token and a device session and are split where each holds
one row and asks for the other: `RetireOld` and `MoveSession` are `rotateForSession`,
`CloseSession` and `RevokeCurrent` are `revokeSession`. Their writes appear at the commit; the
row locks are `TokenLocked` and `DeviceLocked`. The removal of product access and the revocation of
a privacy request are one transaction of two statements, the first on all open sessions and the
second on all tokens: `RemoveAccess` (its snapshot), `AccessCloses` (the sessions are locked, `Held`)
and `AccessEnds` (both are committed). Two such requests can wait for each other, and the
database then aborts one: `GiveUp`, which is also a refusal, an error or a death. `CascadeStarts` and
`CascadeEnds` split the user-wide revocation at its snapshot, because a token inserted by a rotation
that commits in between is not updated. The age of a rotation is within the grace window
(`fresh`) or past it (`old`), and `GracePasses` may happen at any time. The ledger is pruned only of codes
the identity provider no longer accepts (`PruneLedger`): that a ledger row outlives its code is what
`CODE_LEDGER_TTL_SECONDS` is chosen for, and the model assumes it. `Sweep` is the retention sweep,
which deletes sessions that ended long ago; when a token expired is not part of the state, so it may
take any that is not locked. A swept session stays in the sequence as such, and counts as closed.

The model is one user's rows of one product in one tenant. `logout-all` is a `Logout` per consumer,
each in its own statement; that it would also revoke a native token presented in a legacy cookie is
left out, as the app presents none there. `CreateSession` merges the provider's acceptance of the
code with the insert: a code that was accepted is in the ledger already.

`ImplementsCredentials` maps the tokens to `RotatingCredentials`: which credential succeeds which,
which ones work, and which sessions are closed (by themselves, with others, or with their tokens). Locks, requests and codes are not visible there.

## 3. Runs

All run with `tlc -workers 2 -config <cfg> <module>`. Deadlock is not checked except in the sign
runs, where an ended envelope stutters (`Settled`): elsewhere the counters are bounded and the
actors may all be done.

| run | configuration | distinct states | shows |
|---|---|---|---|
| `talent_event_outbox` | `MCTalentEventOutbox.cfg`: 3 rows (one of unknown type, one unmappable), 2 replicas, 2 handlers, one row per claim, 2 attempts, fairness | 304 272 | `ClaimTokensDistinct`, `QuarantineJustified`, `TypeOK`; the drain implements `AtLeastOnceDelivery` (`ImplementsDelivery`); `EveryRowSettles` |
| `intake_outbox` | `MCIntakeOutbox.cfg`: 2 rows of one draft in one batch, 2 replicas, redrives at any time | 1 230 461 | `PublishedOnlyWhenHandled`, `PublishedIsFinal`, also under an operator who resets rows that workers hold |
| `intake_processing` | `MCIntakeProcessing.cfg`: uploaded draft, 2 deliveries, 2 resumes, 1 save, 2 queueings, 1 crash | 1 841 365 | `OneClaimPerQueueing`, `RecruiterEditsKept`, `PromotedReviewFrozen`, `TypeOK` |
| `intake_settles` | `MCIntakeSettles.cfg`: manual draft, attachment worker, no crash, fairness | 1 006 414 | `QueuedSettles` |
| `intake_stale_result` | `MCIntakeStaleResult.cfg` | violation | finding 1 |
| `intake_restart` | `MCIntakeRestart.cfg`, fairness | violation | finding 2 |
| `intake_save` | `MCIntakeSave.cfg`: 3 Saves, 2 at a time, 2 edits and 2 resumes between them, 2 crashes, 1 deletion | 2 730 986 | `OneTalent`, `PromotedIsWhole`, `EvidenceSound`, `SavedAsReviewed`, `TypeOK`; the Save implements `DraftPromotion` (`ImplementsPromotion`) |
| `intake_save_lost` | `MCIntakeSaveLost.cfg`: 1 Save, 1 overlapping edit | violation | finding 3 |
| `pipeline_episode` | `MCPipelineEpisode.cfg`: 2 episodes, 2 recruiters, 1 replica, 3 moves, 1 submission, 1 crash | 1 782 789 | `OneLiveEpisode`, `HistorySound`, `EvidenceGrounded`, `DispositionMatches`, `InboxTruthful`, `NoStaleDecision`, `TypeOK`; the commands implement `EpisodeLedger` (`ImplementsLedger`) |
| `sign_envelope` | `MCSignEnvelope.cfg`: 2 recipients in four setups, 2 documents, 2 values, 2 wrong codes, 2 sessions besides the worker's, 1 worker with 2 attempts, 1 death, fairness | 489 382 | `CompletedIsSound`, `ActsInTurn`, `SessionsSound`, `OutcomeSound`, `RowsFrozen`, `InvitationSettles`, `ExecutionFollows`, `TypeOK`; the envelope implements `EnvelopeLifecycle` (`ImplementsLifecycle`) |
| `sign_signed_fields` | `MCSignedFields.cfg`: two signers side by side | violation | finding 4 |
| `session_tokens` | `MCSessionTokens.cfg`: 2 requests, 3 tokens, 2 codes | 1 815 568 | `FamilyIsChain`, `DeviceSound`, `CodeOnce`, `TypeOK`; the tokens implement `RotatingCredentials` (`ImplementsCredentials`) |

Why the bounds are enough to make the cases happen:

- Outbox: two replicas and two attempts give a stale holder of a row (first attempt) beside its
  last-attempt holder; one row per claim puts failing rows in front of younger ones; the batch of
  two of the intake table gives the partial failure of a batch.
- Intake: two deliveries of two events are needed for one queueing to be contended; two resumes for
  a late result; `MaxMergeAttempts = 2` (5 in the code) makes giving up reachable. `MaxClaimAttempts`
  is the code's 3. `QueuedSettles` holds with fewer saves than claim attempts; with more it does not
  (section 7).
- Save: three requests, two at a time, give a loser of the reservation, a resumed Save and a replay;
  two crashes and two edits make a resumed Save re-materialize what an earlier resumption wrote.
- Pipeline: three moves reach `qualified` (by way of `talent_responded`), after which the bridge
  completes the episode without spending a move; two of them suffice for forward-back-forward into
  an evidence-backed stage. Two episodes are needed for a second life after a terminal one and for
  two racing adds. A second replica is covered by the proof, and in the run by the redelivery after
  a crash. `MaxMoves` bounds the reads as well: a read that can no longer write changes nothing.

- Sign: two recipients are a pair for every relation that matters (turn, witness, side by side,
  delegate and next), one setup each: side by side with an access code and a recipient bound to a user,
  with delegation, an in-person signer and a witness with an access code, and in order. Two sessions beside the worker's give a link next to an inbox or self-sign
  session. One worker that dies gives a stale claim; two workers of whom one is overtaken
  (`MaxSlow > 0`) are covered by the proofs, which bound neither.
- Sessions: three tokens are a native family rotated once beside a browser token, or a chain with a
  reused first member; two requests are a rotation against a revocation, a cascade or another
  rotation; two codes are a second device. `MaxTokens` is a guard of every insert, so a request at
  the bound can only give up.

Symmetry is used for deliveries, Saves, recruiters, episodes, requests and codes, in runs without
liveness only.

Fairness. `LeaseSafeOutbox!FairSpec` assumes weak fairness of each replica's claim (its interval
timer), of each step of a tick (an awaited call returns or throws) and of lapsing leases (database
time passes). Nothing obliges a tick to succeed: `Abort` may take every one.
`IntakeProcessing!FairSpec` assumes weak fairness of deliveries and of the steps of a delivery,
nothing of the recruiter, the operator or the attachment tick; that the drain does deliver
is what `EveryRowSettles` says of the outbox, as long as the attempt budget is not spent by ticks
that die, which is why `intake_settles` has no crashes.
`SignEnvelope!FairSpec` assumes weak fairness of the invitation worker (a timer in every replica)
and of the producer's steps (the rest of a request). Nothing obliges a signer, a sender or the
sweep to act, and deaths are bounded by `MaxCrashes`.

## 4. What is proved

The theorems hold for every number of rows, workers, handlers, fields, savers, episodes,
recruiters, recipients, documents and requests and for all bounds, from the assumptions named in the
modules that declare the constants (`OutboxAssumption`, `IntakeAssumption`, `SaveAssumption`,
`EpisodeAssumption`, `SetupAssumption`, `BoundsAssumption`: types of the constants, and that no two recipients
share an order) and, where stated, more. A theorem with a further hypothesis says where a promise
that the code does not always keep is kept: each hypothesis excludes one circumstance (a replaced
resume, an overlapping edit, a deletion, a claim that goes stale), the instances that violate it
are those of sections 5 and 7, and the states it leaves are reached by the runs.

Five refinements are proved, one per component with an abstract specification: `Refinement`,
`PromotionRefined`, `LedgerRefined`, `LifecycleRefined`, `CredentialsRefined`. Each shows that the
initial states map to initial states and that, under the inductive invariant, every step maps to a
step of the abstract specification or to a stutter; the proofs have one case per kind of step.

**Outbox** (`LeaseSafeOutbox_proofs`). `TypeCorrect`. `PublishedHandled` rests on `DeliveryInv`: it
adds that what a worker remembers as confirmed has been handled, without which a `MarkPublished`
of a worker that lost its lease could not be justified. `Refinement` shows every step of the drain
to be a step of `AtLeastOnceDelivery` or a stutter, under the mapping `acked <- published`,
`parked <- quarantined`. `PublishedFinal` is the action property. `ClaimsDistinct` and
`BudgetSound`, for a table without redrive (`ASSUME Drafts = {}`), rest on `BudgetInv`: the attempts a claim returned never exceed the stored
ones, and a worker's results are about its own batch. (A redrive resets the counter, and both
properties then fail as one would expect; they are not checked for the intake table.)

**Intake processing** (`IntakeProcessing_proofs`). `TypeCorrect`; `ClaimedOnce`; `EditsSurvive`
(`ASSUME Source = "upload"`): `RecruiterEditsKept` and `PromotedReviewFrozen`. Its invariant
`EditInv` says that a worker about to save holds the payload of the version it will compare, so
either the comparison fails or the payload it merges into is the current one. `ClaimIsLock`
(`ASSUME Source = "upload", MaxResumes = 1`): as long as the resume is not replaced, the claim is a
lock although nothing after it compares anything. At most one worker extracts (`OneExtraction`)
and the draft reports what was read from its resume. `LockInv` adds that while someone extracts the
draft is PROCESSING or gone, so nobody else can claim it: of the requests only a replacement
and a discard take a draft out of PROCESSING. `ReadyChild` (besides, `AttachmentWorker = FALSE`): `ReadyHasReviewableChild`, from
`ChildInv`: a worker that has marked the child and not yet the draft still finds it as it marked it.
Finding 1 and the observation on children are thus confined to replaced resumes and to the
attachment worker.

**Save** (`IntakeSave_proofs`). `TypeCorrect`; `OneTalentPerDraft`, `PromotedWhole`,
`EvidenceSafe` from `SaveInv` = `Elected` (every Save works on the id the row elected) /\
`Claimed` (the mark on the row and the evidence go together, and keep the row from being discarded)
/\ `Created` (a Save past a step has left its trace); `NoEditLost`
(`ASSUME Overlap = FALSE`) from `EditInv` = `Turns` /\ `HashKnown` (a Save either knows the hash on
the row or the row is up to date) /\ `Carried`; `EvidenceKept` (`ASSUME Overlap = FALSE`) from the
same invariant: without overlapping edits the evidence of a live talent is never rewritten, because
the hash on the row is then that of the payload, and every Save has loaded that payload. `PromotionRefined`: the Save implements
`DraftPromotion`. `EvidencePresent`: while the draft exists, a live talent has its evidence.
`CurrentDocument`: a resume document that names the draft's present resume names a stored object. `ReplayQuiet` (`ASSUME MaxDeletes = 0`): a Save
of a promoted draft writes nothing.

**Pipeline** (`PipelineEpisode_proofs`). `TypeCorrect`, `OneLive`, `HistoryIsChain`,
`ArrivalsGrounded`, `OneDisposition`, `InboxSaysTrue`, `ClosedMeansStopped`, `NoStale`. The argument: every
step changes the rows in one of three ways (`Born`, `Moved`, `Hopped`: `RowStep`), so rows only
grow; what a transaction or a replica has read therefore stays true or loses its compare-and-swap
(`WriteInv`, `DecidedInv`, `JobInv`). The inductive invariant is the conjunction `Inv` of these with the
properties themselves: a write that swaps is justified only by what `WriteInv` remembers of its
read, and a `Finish` only by what `JobInv` says of the code it carries. `LedgerRefined` adds
`SkipInv` (a replica about to command loaded a live episode, and only the event of a placement that
started is ever skipped) and maps `Born` to `Open`, `Moved` to `Advance` or `Conclude` by its
authority, `Hopped` to `Repair`, `Finish` to `Tell`; a `Reserve`, a read and a lost swap are
stutters. `OnlyStarts` (`OnlyStartsAreSkipped`): a placement that fell through always ends its
episode; only one that started can be marked processed with the episode live.

**Sign** (`SignEnvelope_proofs`). `TypeCorrect` needs that a worker that is not idle works on a row
that exists (`WorkerInv`) and that only a recipient with an access code is locked (`LockInv`).
`Completed` (`SignedInv`: whoever has signed has a value and accepted as the present holder, and no
acceptance is the delegate's before the delegation), `InTurn`, `Sessions`
(`SessionInv`: besides, nothing works before the envelope is sent), `Outcome` (`OutcomeInv`: what the producer read is what the recipients' fields are, because it reads
a terminal envelope), and the action properties `Terminals` and `Locked`, together `Frozen`. The
argument splits `Next` into steps that only mint, steps of a recipient and the rest, and says once
what each may change; `LifecycleRefined` uses the same split. `SequentialKeepsSignature`: on a
SEQUENTIAL envelope nobody changes a field after signing it and the executed documents carry what
was signed, because whoever has signed is never on turn again; finding 4 is about PARALLEL ones
only. `SentLinks` (`ASSUME MaxSlow = 0`): with any number of workers and deaths, once all intents of
a recipient are SENT the link that works was emailed. It rests on `ClaimInv` (a claimed row is
DISPATCHING and whoever else listed it holds an older attempt count, so its claim will lose) and
`LinkInv` (a working link that was not emailed is owed by an intent that is not settled).

**Sessions** (`SessionTokens_proofs`). `TypeCorrect`, `Chain`, `Devices`, `Redemption`, `Closed`,
from one inductive invariant: `FamilyInv` (a family is a chain, all native or all browser),
`DeviceInv` (a device points at the head of its family, which is its own and native), `HoldInv`
(what a request remembers exists and is of the kind the request is about), `LockInv` (the locks
exclude each other, and what was checked under one still holds when the transaction goes on),
`HeldInv` (the session a removal of access holds points at a token that its second statement sees),
`CodeInv` (a code the provider would accept is in the ledger once a request or a session has it,
and only one of them does). Every step issues, extends or revokes tokens and opens, moves or closes
devices; the lemmas are about these kinds of change, and `KindsHold` assigns the actions to them.
`CredentialsRefined` maps the kinds to the steps of `RotatingCredentials`.

Only model-checked: the liveness properties (`EveryRowSettles`, `QueuedSettles`,
`InvitationSettles`, `ExecutionFollows`), which need fairness and `ENABLED`. The invariants and
action properties of all passing runs are proved.

## 5. Findings

Each is shown by a run that TLC must find violated.

1. `intake_stale_result`, `ResultOfCurrentResume`. The settlement of an extraction is an update by
   id. If the resume was replaced meanwhile, the draft turns READY with the old result and
   complete-upload of the new resume is a no-op.
2. `intake_restart`, `QueuedSettles`. A worker that dies after its claim leaves the draft
   PROCESSING for ever; neither redelivery nor retry nor redrive reopens it.
3. `intake_save_lost`, `CarriesReview`. `promote` uses the review payload of its first load; an edit
   accepted between it and the record's creation is on neither record nor evidence.
4. `sign_signed_fields`, `SignedFieldKept`. A completion ends only the session it was made through.
   A recipient who also holds a self-sign or inbox session can change the field after signing it,
   while others still have to sign, and the executed document carries the later value.

The lines that say otherwise are quoted in `PROJECT.json`.

## 6. Hazards

`PROJECT.json` lists every place where a step of another actor, a crash, a stale value or a bound
can go wrong, with the properties that would catch it. Those without a property are either in
section 7 (the code does not prevent them) or in a part that is planned (section 9).

## 7. Observations

Expectations the modelled code does not meet, found while modelling and left out of the runs; where
a property is named, TLC violates it.

- `IntakeSave!EvidenceFrozen` (two Saves overlapping, one edit). The resumed step 1 looks for the
  record and rewrites the evidence in different transactions
  (`talent-intake-promotion.service.ts:141-142`). Another Save may create the record in between;
  the typed evidence of a live talent is then deleted and written again. Without overlapping edits
  it is not (`EvidenceKept`).
- `IntakeSave!RecordHasEvidence` (one Save and a discard). A discard between the reservation and
  step 1 makes the claim match no row; the Save goes on and creates a talent without evidence.
  As long as the draft exists this does not happen (`EvidencePresent`).
- `IntakeSave!DocumentStored` (one Save, `MaxResumes = 2`). A replace between the load and step 1
  leaves a resume document that names the deleted object. A document of
  the draft's present resume is always there (`CurrentDocument`).
- `IntakeSave!ReplayWritesNothing` (one Saver, two Saves, one deletion). A Save of a promoted draft
  whose talent was deleted creates the talent again. Without deletions it writes nothing
  (`ReplayQuiet`).
- A second record of a person (`talent-record.repository.ts:905-964`, `1386-1391`). An import creates
  records, and an update changes email and phone, without the look for duplicates and the advisory
  locks of `create`; the platform knows of such pairs and has an advisory for them
  (`libs/talent-record/prisma/schema.prisma:526-530`). Two live records of a person are therefore
  reachable, beside a saved draft too. A Save never adds one to a record that is there
  (`ImplementsPromotion`).
- `IntakeProcessing!ReadyHasReviewableChild`. The attachment worker may fail the extraction child
  of an intake draft by id after the extraction settled it
  (`resume-extraction-draft.processor.ts:101`); a worker on the old resume and one on the new can
  do the same to each other; and the unguarded settlement of a manual draft can turn FAILED into
  READY. The draft is then READY with a FAILED child. An uploaded draft whose resume is not replaced
  and whose children the attachment worker leaves alone is safe (`ReadyChild`).
- `IntakeProcessing!QueuedSettles` with `MaxEdits >= 3`. After `MAX_CLAIM_ATTEMPTS` lost claims
  the delivery is acknowledged like one with nothing to do
  (`talent-intake-extraction.service.ts:73`, `talent-intake-message.handler.ts:100`) and the draft
  stays QUEUED without an event.
- `IntakeProcessing!RecruiterEditsKept` with `Source = "producer"`. A structured payload without
  a resume replaces the review payload, saves included (`talent-intake-extraction.service.ts:100`).
- `PipelineEpisode!ProcessedMeansSettled`. Submit asks only for a live episode, so a placement may
  start while the episode is not at `qualified`. `complete` is refused, `classifyCommandError`
  finishes the event as `pipeline_not_live`
  (`placement-lifecycle-orchestrator.service.ts:209-214`), and nothing completes the episode
  later: it stays live and keeps the talent's slot on the requisition. An event of a placement that
  fell through is never lost in this way (`OnlyStarts`).
- Client decisions (`client-decision.orchestrator.ts:82-134`). The decision is committed before the
  episode is read and dispositioned. If the request dies or loses its compare-and-swap in between, the
  client has decided against a talent whose episode stays live; only a repetition of the decision
  ends it.
- Void (`pipeline-void.service.ts:66-106`). The checks for submittals and interactions are made
  before the write and change no version it compares, so an episode can be voided although
  engagement was recorded meanwhile. The model has this behaviour (`VoidEligible` is a guard of
  `Read`, not of `Write`).

- Outbox rows of a dead last attempt. The claim spends the attempt before anything is published,
  and only failures the port reports are quarantined
  (`lease-safe-outbox-drain.service.ts:115-146`). A tick that dies on the last attempt leaves a row
  no claim takes and no dead-letter view shows, although the worker's comment says the lease model
  "keeps rows retryable or quarantines them" (`talent-intake-outbox-drain.worker.ts:20-21`).
  `EveryRowSettles` counts such a row as settled.
- `SignEnvelope!SentLinkWorks` (two workers, `MaxSlow = 1`). Outcomes of an invitation are written
  by id. A worker overtaken after `STALE_CLAIM_MS` may record SENT for a link that the overtaking
  worker has replaced and failed to send; the intent is SENT and the working link was never mailed.
  Without such an overtaking it is always mailed (`SentLinks`).
- Execution (`esign.service.ts:886-890`). Nothing but the completing request calls `produce`. If it
  dies, the envelope is COMPLETED without documents, certificate and event; `ExecutionFollows`
  says so explicitly.
- Sign ledger (`esign.repository.ts:122`). The predecessor of an event is chosen by
  `(occurred_at, id)`, and ids are random: two events of one millisecond may be chained out of order.
- Browser half of the reuse cascade (`refresh-token.repository.ts:151`). A rotation that commits
  after the statement's snapshot leaves a token the cascade has not revoked. A device session is
  closed as well, which makes such a token useless (theorem `Closed`); for the browser it works on.
- `refresh-token.repository.ts:142-148` revokes by id and stamps `revoked_at` again. A logout with
  a token that was already rotated moves its rotation into the present, so that its reuse counts as
  within the grace window once more.

## 8. What is not modelled

- Inside the modelled parts: visibility and authorization (a refusal changes nothing), activity,
  metering and provenance rows, timestamps shown to users, the text of resumes and how it is
  extracted (its outcome is an input), the Right to Represent gate, repointing of episodes to
  another talent record, placement events without a lineage; of an envelope drafting, copies,
  self-only envelopes, payments, identity verification, qualified signatures, sealing and the
  contents of the ledger, and the retention purge, which long after the end removes field values and
  artefacts that `RowsFrozen` is about; of sessions access tokens, host binding, expiry (an expired
  token is one nobody presents), several products or tenants at once and the audit.
- Other parts, each with its reason in `PROJECT.json`: the delivery of e-sign lifecycle events,
  the multi-schema outbox publisher, the Talent Intelligence drain, the
  placement and requisition lifecycles beyond what the Pipeline sees, subscription and billing,
  consent, reconciliation, submittal and client selection, sourcing and import, matching, policy,
  identity, integrations, documents, communications, pre-start requirements, tenant reset,
  reporting, the clients, deployment.

## 9. Plan

In this order, most important first:

1. **Other outboxes**: the sign lifecycle outbox, the multi-schema publisher and the Talent
   Intelligence drain, each compared with `AtLeastOnceDelivery`; theorem: the claim-token drain
   implements it.
2. **Bridge liveness**: every placement event is processed under weak fairness of the replica's
   steps and strong fairness of its picking the event.
3. **Placement and requisition lifecycles**: the transitions, the database trigger that guards them
   and the capacity count, composed with `PipelineEpisode` in place of `PlacementEnds` and
   `SetRequisition`.
4. **Reconciliation** of two talent records: repointing against live episodes.
5. **Reissue of a corrected envelope**, and the application's handling of its events.
6. **Billing inbox and capacity reservations.**
7. Proofs for each of these, along the lines of section 4; an abstract specification of the
   draft's reading (queued, read, settled) for `IntakeProcessing`, beside `DraftPromotion` for its
   Save.
