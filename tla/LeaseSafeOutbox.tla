--------------------------- MODULE LeaseSafeOutbox ---------------------------
(***************************************************************************)
(* The lease-safe transactional outbox: several replicas drain one durable  *)
(* table.  A tick claims a batch under a lease taken from database time,    *)
(* parks the rows that cannot be mapped, hands the rest to the publisher    *)
(* port, and settles them with three guarded updates.  The module covers    *)
(* the two tables that run on this drain:                                   *)
(*                                                                         *)
(*   - the ATS talent events (TalentEventOutbox): a failed row keeps a      *)
(*     backoff lease, and nothing reopens a parked row;                     *)
(*   - the talent intake events (TalentIntakeOutboxEvent): a failed row     *)
(*     loses its lease at once, and an operator may redrive a draft's rows. *)
(*                                                                         *)
(* Database time appears only through the lease of a row: it is live until  *)
(* LeaseLapses, which may come at any moment, also while the claiming       *)
(* worker is still busy.  A worker that dies, or whose database or          *)
(* transport call throws, drops its whole tick (Abort).                     *)
(***************************************************************************)
EXTENDS Naturals, FiniteSets

CONSTANTS
  Rows,             \* row numbers, in created_at order
  Workers,          \* one per replica: the in-process latch admits one tick each
  Handlers,         \* the handlers of the bound publisher port
  Known,            \* rows whose event type the dispatcher knows
  Unmappable,       \* rows buildEventEnvelope throws on
  Limit,            \* config.limit
  MaxAttempts,      \* config.max_attempts
  BackoffOnRelease, \* TRUE: the ATS talent outbox, FALSE: the intake outbox
  Drafts,           \* the intake drafts an operator can redrive ({}: no redrive)
  SubjectOf         \* SubjectOf[r]: the draft row r is about

ASSUME OutboxAssumption ==
  /\ Rows \subseteq Nat
  /\ Known \subseteq Rows
  /\ Unmappable \subseteq Rows
  /\ Limit \in Nat \ {0}
  /\ MaxAttempts \in Nat \ {0}
  /\ BackoffOnRelease \in BOOLEAN

VARIABLES
  emitted,      \* rows in the table
  published,    \* rows with published_at set
  quarantined,  \* rows with quarantined_at set
  attempts,     \* publish_attempts
  lease,        \* lease_expires_at: absent, in the future or in the past
  handled,      \* effect on the consumers: handlers that succeeded on a row
  pc,           \* where each worker's tick is
  held,         \* rows this tick claimed
  seen,         \* publish_attempts as returned by the claim
  todo,         \* envelopes not yet published through the port
  ok,           \* result.published_event_ids
  failed        \* result.failed_event_ids

rowVars == <<emitted, published, quarantined, attempts, lease>>
tickVars == <<pc, held, seen, todo, ok, failed>>
vars == <<rowVars, handled, tickVars>>

LeaseStates == {"none", "live", "lapsed"}
Steps == {"idle", "map", "publish", "mark", "park", "release"}

TypeOK ==
  /\ emitted \subseteq Rows
  /\ published \subseteq emitted
  /\ quarantined \subseteq emitted
  /\ attempts \in [Rows -> 0 .. MaxAttempts]
  /\ lease \in [Rows -> LeaseStates]
  /\ handled \in [Rows -> SUBSET Handlers]
  /\ pc \in [Workers -> Steps]
  /\ held \in [Workers -> SUBSET emitted]
  /\ seen \in [Workers -> [Rows -> 0 .. MaxAttempts]]
  /\ todo \in [Workers -> SUBSET emitted]
  /\ ok \in [Workers -> SUBSET emitted]
  /\ failed \in [Workers -> SUBSET emitted]

Init ==
  /\ emitted = {}
  /\ published = {}
  /\ quarantined = {}
  /\ attempts = [r \in Rows |-> 0]
  /\ lease = [r \in Rows |-> "none"]
  /\ handled = [r \in Rows |-> {}]
  /\ pc = [w \in Workers |-> "idle"]
  /\ held = [w \in Workers |-> {}]
  /\ seen = [w \in Workers |-> [r \in Rows |-> 0]]
  /\ todo = [w \in Workers |-> {}]
  /\ ok = [w \in Workers |-> {}]
  /\ failed = [w \in Workers |-> {}]

-----------------------------------------------------------------------------
(* The row is written in the transaction of the fact it records. *)
Emit(r) ==
  /\ r \notin emitted
  /\ emitted' = emitted \union {r}
  /\ UNCHANGED <<published, quarantined, attempts, lease, handled, tickVars>>

(* Mutant: the claim ignores the attempt budget. *)
ClaimableOverBudget ==
  {r \in emitted : /\ r \notin published
                   /\ r \notin quarantined
                   /\ lease[r] # "live"}

(* Mutant: the claim takes rows without a lease, not those whose lease lapsed. *)
ClaimableUnleased ==
  {r \in emitted : /\ r \notin published
                   /\ r \notin quarantined
                   /\ attempts[r] < MaxAttempts
                   /\ lease[r] = "none"}

(* The claim's WHERE clause. *)
Claimable ==
  {r \in emitted : /\ r \notin published
                   /\ r \notin quarantined
                   /\ attempts[r] < MaxAttempts
                   /\ lease[r] # "live"}

(* ORDER BY created_at LIMIT n. *)
Oldest(S) == {r \in S : Cardinality({q \in S : q < r}) < Limit}

(* The tick is over: a return, a throw or the death of the process. *)
EndTick(w) ==
  /\ pc' = [pc EXCEPT ![w] = "idle"]
  /\ held' = [held EXCEPT ![w] = {}]
  /\ seen' = [seen EXCEPT ![w] = [r \in Rows |-> 0]]
  /\ todo' = [todo EXCEPT ![w] = {}]
  /\ ok' = [ok EXCEPT ![w] = {}]
  /\ failed' = [failed EXCEPT ![w] = {}]

(* Mutant: the claim takes the lease but forgets publish_attempts + 1. *)
ClaimUncounted(w) ==
  /\ pc[w] = "idle"
  /\ Claimable # {}
  /\ lease' = [r \in Rows |-> IF r \in Oldest(Claimable) THEN "live" ELSE lease[r]]
  /\ held' = [held EXCEPT ![w] = Oldest(Claimable)]
  /\ seen' = [seen EXCEPT ![w] = attempts]
  /\ pc' = [pc EXCEPT ![w] = "map"]
  /\ UNCHANGED <<emitted, published, quarantined, attempts, handled, todo, ok, failed>>

(* claimOutboxBatch: one UPDATE over a FOR UPDATE SKIP LOCKED subselect. *)
Claim(w) ==
  /\ pc[w] = "idle"
  /\ Claimable # {}
  /\ LET batch == Oldest(Claimable) IN
       /\ attempts' = [r \in Rows |-> IF r \in batch THEN attempts[r] + 1
                                                     ELSE attempts[r]]
       /\ lease' = [r \in Rows |-> IF r \in batch THEN "live" ELSE lease[r]]
       /\ held' = [held EXCEPT ![w] = batch]
       /\ seen' = [seen EXCEPT ![w] =
                     [r \in Rows |-> IF r \in batch THEN attempts[r] + 1 ELSE 0]]
  /\ pc' = [pc EXCEPT ![w] = "map"]
  /\ UNCHANGED <<emitted, published, quarantined, handled, todo, ok, failed>>

(* quarantineOutbox: guarded on published_at only, never on the lease. *)
Quarantine(S) == quarantined' = quarantined \union (S \ published)

(* Map the rows to envelopes and park the ones that throw. *)
QuarantineUnmappable(w) ==
  /\ pc[w] = "map"
  /\ Quarantine(held[w] \intersect Unmappable)
  /\ UNCHANGED <<emitted, published, attempts, lease, handled>>
  /\ IF held[w] \subseteq Unmappable
     THEN EndTick(w)
     ELSE /\ pc' = [pc EXCEPT ![w] = "publish"]
          /\ todo' = [todo EXCEPT ![w] = held[w] \ Unmappable]
          /\ UNCHANGED <<held, seen, ok, failed>>

(* The handlers of the port on which an envelope has to succeed. *)
Required(r) == IF r \in Known THEN Handlers ELSE {}

(* Mutant: an event is confirmed when some handler succeeded. *)
DispatchAnyHandler(w, r, S) ==
  /\ pc[w] = "publish"
  /\ r \in todo[w]
  /\ S \subseteq Required(r)
  /\ handled' = [handled EXCEPT ![r] = @ \union S]
  /\ todo' = [todo EXCEPT ![w] = @ \ {r}]
  /\ ok' = [ok EXCEPT ![w] = IF S # {} THEN @ \union {r} ELSE @]
  /\ failed' = [failed EXCEPT ![w] = IF S # {} THEN @ ELSE @ \union {r}]
  /\ pc' = [pc EXCEPT ![w] = IF todo[w] = {r} THEN "mark" ELSE "publish"]
  /\ UNCHANGED <<rowVars, held, seen>>

(* publisher.publish, one envelope: every handler is tried, S succeed. *)
Dispatch(w, r, S) ==
  /\ pc[w] = "publish"
  /\ r \in todo[w]
  /\ S \subseteq Required(r)
  /\ handled' = [handled EXCEPT ![r] = @ \union S]
  /\ todo' = [todo EXCEPT ![w] = @ \ {r}]
  /\ ok' = [ok EXCEPT ![w] = IF S = Required(r) THEN @ \union {r} ELSE @]
  /\ failed' = [failed EXCEPT ![w] = IF S = Required(r) THEN @ ELSE @ \union {r}]
  /\ pc' = [pc EXCEPT ![w] = IF todo[w] = {r} THEN "mark" ELSE "publish"]
  /\ UNCHANGED <<rowVars, held, seen>>

(* Mutant: the whole batch is marked published. *)
MarkPublishedBatch(w) ==
  /\ pc[w] = "mark"
  /\ published' = published \union (ok[w] \union failed[w])
  /\ pc' = [pc EXCEPT ![w] = "park"]
  /\ UNCHANGED <<emitted, quarantined, attempts, lease, handled,
                 held, seen, todo, ok, failed>>

(* markOutboxPublished on the confirmed ids. *)
MarkPublished(w) ==
  /\ pc[w] = "mark"
  /\ published' = published \union ok[w]
  /\ pc' = [pc EXCEPT ![w] = "park"]
  /\ UNCHANGED <<emitted, quarantined, attempts, lease, handled,
                 held, seen, todo, ok, failed>>

(* Mutant: the budget is spent one attempt early. *)
OverBudgetEarly(w) == {r \in failed[w] : seen[w][r] + 1 >= MaxAttempts}

(* The retry-or-quarantine split, from the attempts the claim returned. *)
OverBudget(w) == {r \in failed[w] : seen[w][r] >= MaxAttempts}

QuarantineOverBudget(w) ==
  /\ pc[w] = "park"
  /\ Quarantine(OverBudget(w))
  /\ pc' = [pc EXCEPT ![w] = "release"]
  /\ UNCHANGED <<emitted, published, attempts, lease, handled,
                 held, seen, todo, ok, failed>>

(* releaseOutboxLease: guarded on the row being unsettled, not on owning it. *)
ReleaseRetryable(w) ==
  /\ pc[w] = "release"
  /\ LET rows == (failed[w] \ OverBudget(w)) \ (published \union quarantined) IN
       lease' = [r \in Rows |->
                   IF r \notin rows THEN lease[r]
                   ELSE IF BackoffOnRelease THEN "live" ELSE "none"]
  /\ UNCHANGED <<emitted, published, quarantined, attempts, handled>>
  /\ EndTick(w)

(* A throw caught by tick(), or the replica dies: nothing after it runs. *)
Abort(w) ==
  /\ pc[w] # "idle"
  /\ EndTick(w)
  /\ UNCHANGED <<rowVars, handled>>

(* lease_expires_at < now(). *)
LeaseLapses(r) ==
  /\ lease[r] = "live"
  /\ lease' = [lease EXCEPT ![r] = "lapsed"]
  /\ UNCHANGED <<emitted, published, quarantined, attempts, handled, tickVars>>

(* Mutant: the redrive resets published rows as well. *)
RedriveAll(d) ==
  LET rows == {r \in emitted : SubjectOf[r] = d} IN
  /\ rows # {}
  /\ attempts' = [r \in Rows |-> IF r \in rows THEN 0 ELSE attempts[r]]
  /\ lease' = [r \in Rows |-> IF r \in rows THEN "none" ELSE lease[r]]
  /\ quarantined' = quarantined \ rows
  /\ UNCHANGED <<emitted, published, handled, tickVars>>

(* redriveTalentIntakeOutboxByDraft: every unpublished row of the draft. *)
Redrive(d) ==
  LET rows == {r \in emitted \ published : SubjectOf[r] = d} IN
  /\ rows # {}
  /\ attempts' = [r \in Rows |-> IF r \in rows THEN 0 ELSE attempts[r]]
  /\ lease' = [r \in Rows |-> IF r \in rows THEN "none" ELSE lease[r]]
  /\ quarantined' = quarantined \ rows
  /\ UNCHANGED <<emitted, published, handled, tickVars>>

DispatchSome(w) == \E r \in Rows, S \in SUBSET Handlers : Dispatch(w, r, S)

WorkerStep(w) ==
  \/ QuarantineUnmappable(w)
  \/ DispatchSome(w)
  \/ MarkPublished(w)
  \/ QuarantineOverBudget(w)
  \/ ReleaseRetryable(w)

Next ==
  \/ \E r \in Rows : Emit(r)
  \/ \E w \in Workers : Claim(w)
  \/ \E w \in Workers : WorkerStep(w)
  \/ \E w \in Workers : Abort(w)
  \/ \E r \in Rows : LeaseLapses(r)
  \/ \E d \in Drafts : Redrive(d)

Spec == Init /\ [][Next]_vars

(* The interval timer fires again and again, an awaited call returns or     *)
(* throws, and database time passes.  Nothing obliges a tick to succeed.    *)
Fairness ==
  /\ \A w \in Workers : WF_vars(Claim(w))
  /\ \A w \in Workers : WF_vars(WorkerStep(w))
  /\ \A r \in Rows : WF_vars(LeaseLapses(r))

FairSpec == Spec /\ Fairness

-----------------------------------------------------------------------------
(* Nobody is working on the row, and no claim will ever pick it up again. *)
Stranded(r) ==
  /\ r \in emitted
  /\ r \notin published \union quarantined
  /\ attempts[r] >= MaxAttempts
  /\ \A w \in Workers : r \notin held[w]

(***************************************************************************)
(* A row is stamped published only when every handler has succeeded on it,  *)
(* whichever workers did the work: partial success of a batch, a replica    *)
(* that died half way and a worker whose lease has lapsed never acknowledge *)
(* an event some handler has not seen (drainOnce steps 2 and 3).            *)
(***************************************************************************)
PublishedOnlyWhenHandled ==
  \A r \in published : Required(r) \subseteq handled[r]

(***************************************************************************)
(* Two workers may hold the same row, once a lease has lapsed under a slow  *)
(* one, but never under the same attempt number: publish_attempts as the    *)
(* claim returned it identifies the claim, so at most one of them decides   *)
(* that the budget is spent.                                                *)
(***************************************************************************)
ClaimTokensDistinct ==
  \A w1, w2 \in Workers : \A r \in held[w1] \intersect held[w2] :
    w1 # w2 => seen[w1][r] # seen[w2][r]

(***************************************************************************)
(* A row is parked for one of the two documented reasons only: it cannot be *)
(* mapped, or it has really been attempted max_attempts times, also when    *)
(* the worker that parks it lost its lease long ago.                        *)
(***************************************************************************)
QuarantineJustified ==
  \A r \in quarantined : r \in Unmappable \/ attempts[r] >= MaxAttempts

(***************************************************************************)
(* Once published a row is left alone: no later claim, release, quarantine  *)
(* or redrive, by a stale worker or by an operator, takes the stamp away,   *)
(* parks it or spends another attempt on it.                                *)
(***************************************************************************)
PublishedIsFinal ==
  [][\A r \in published :
       /\ r \in published'
       /\ r \in quarantined' => r \in quarantined
       /\ attempts'[r] = attempts[r]]_vars

(***************************************************************************)
(* No row is retried for ever and none in its budget is forgotten: every    *)
(* row ends published, parked, or stranded at the attempt limit, whatever   *)
(* the handlers answer and wherever ticks abort, and however many older     *)
(* rows fail in front of it under the claim limit.                          *)
(***************************************************************************)
EveryRowSettles ==
  \A r \in Rows :
    r \in emitted ~> (r \in published \union quarantined \/ Stranded(r))

(***************************************************************************)
(* The drain implements the abstract at-least-once delivery.               *)
(***************************************************************************)
Delivery == INSTANCE AtLeastOnceDelivery
              WITH acked <- published, parked <- quarantined

ImplementsDelivery == Delivery!Spec

=============================================================================
