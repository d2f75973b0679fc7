----------------------- MODULE LeaseSafeOutbox_proofs -----------------------
(***************************************************************************)
(* Proofs about the lease-safe outbox, for any number of rows, replicas and *)
(* handlers, any claim limit and any attempt budget.                        *)
(***************************************************************************)
EXTENDS LeaseSafeOutbox, TLAPS

(* What one step of the system is; the leaves below split on it. *)
LEMMA NextCases ==
  ASSUME Next
  PROVE  \/ \E r \in Rows : Emit(r)
         \/ \E w \in Workers : Claim(w)
         \/ \E w \in Workers : QuarantineUnmappable(w)
         \/ \E w \in Workers, r \in Rows, S \in SUBSET Handlers : Dispatch(w, r, S)
         \/ \E w \in Workers : MarkPublished(w)
         \/ \E w \in Workers : QuarantineOverBudget(w)
         \/ \E w \in Workers : ReleaseRetryable(w)
         \/ \E w \in Workers : Abort(w)
         \/ \E r \in Rows : LeaseLapses(r)
         \/ \E d \in Drafts : Redrive(d)
BY DEF Next, WorkerStep, DispatchSome

(* The claim takes claimable rows only, so each of them has budget left. *)
LEMMA BatchClaimable == Oldest(Claimable) \subseteq Claimable
BY DEF Oldest

(* Leaving a tick, in whatever way, empties the worker's memory. *)
LEMMA EndTickTypes ==
  ASSUME TypeOK, NEW w \in Workers, EndTick(w)
  PROVE  /\ pc' \in [Workers -> Steps]
         /\ held' \in [Workers -> SUBSET emitted]
         /\ seen' \in [Workers -> [Rows -> 0 .. MaxAttempts]]
         /\ todo' \in [Workers -> SUBSET emitted]
         /\ ok' \in [Workers -> SUBSET emitted]
         /\ failed' \in [Workers -> SUBSET emitted]
<1>1. [r \in Rows |-> 0] \in [Rows -> 0 .. MaxAttempts]
  BY OutboxAssumption
<1>2. pc' \in [Workers -> Steps]
  BY DEF EndTick, TypeOK, Steps
<1>3. seen' \in [Workers -> [Rows -> 0 .. MaxAttempts]]
  BY <1>1 DEF EndTick, TypeOK
<1> QED
  BY <1>2, <1>3 DEF EndTick, TypeOK

-----------------------------------------------------------------------------
(* Every variable keeps its type, and the attempt counter its bound, along  *)
(* every behaviour of the drain.                                            *)
THEOREM TypeCorrect == Spec => []TypeOK
<1>1. Init => TypeOK
  BY OutboxAssumption DEF Init, TypeOK, Steps, LeaseStates
<1>2. TypeOK /\ [Next]_vars => TypeOK'
  <2> SUFFICES ASSUME TypeOK, [Next]_vars PROVE TypeOK'
    OBVIOUS
  <2> USE OutboxAssumption DEF TypeOK, Steps, LeaseStates
  <2>1. CASE \E r \in Rows : Emit(r)
    BY <2>1 DEF Emit, tickVars
  <2>2. CASE \E w \in Workers : Claim(w)
    <3> PICK w \in Workers : Claim(w)
      BY <2>2
    <3>1. /\ Oldest(Claimable) \subseteq emitted
          /\ \A r \in Oldest(Claimable) : attempts[r] < MaxAttempts
      BY BatchClaimable DEF Claimable
    <3>2. ASSUME NEW r \in Oldest(Claimable)
          PROVE  attempts[r] + 1 \in 0 .. MaxAttempts
      <4>1. r \in Rows /\ attempts[r] < MaxAttempts /\ attempts[r] \in 0 .. MaxAttempts
        BY <3>1
      <4> QED
        BY <4>1
    <3>3. attempts' \in [Rows -> 0 .. MaxAttempts]
      BY <3>2 DEF Claim
    <3>4. seen' \in [Workers -> [Rows -> 0 .. MaxAttempts]]
      BY <3>2 DEF Claim
    <3>5. /\ held' \in [Workers -> SUBSET emitted]
          /\ lease' \in [Rows -> LeaseStates]
          /\ pc' \in [Workers -> Steps]
      BY <3>1 DEF Claim
    <3>6. UNCHANGED <<emitted, published, quarantined, handled, todo, ok, failed>>
      BY DEF Claim
    <3> QED
      BY <3>3, <3>4, <3>5, <3>6
  <2>3. CASE \E w \in Workers : QuarantineUnmappable(w)
    <3> PICK w \in Workers : QuarantineUnmappable(w)
      BY <2>3
    <3>1. /\ UNCHANGED <<emitted, published, attempts, lease, handled>>
          /\ quarantined' \subseteq emitted
      BY DEF QuarantineUnmappable, Quarantine
    <3>2. CASE held[w] \subseteq Unmappable
      <4>1. EndTick(w)
        BY <3>2 DEF QuarantineUnmappable
      <4> QED
        BY <3>1, <4>1, EndTickTypes
    <3>3. CASE ~(held[w] \subseteq Unmappable)
      <4>1. /\ pc' \in [Workers -> Steps]
            /\ todo' \in [Workers -> SUBSET emitted]
            /\ UNCHANGED <<held, seen, ok, failed>>
        BY <3>3 DEF QuarantineUnmappable
      <4> QED
        BY <3>1, <4>1
    <3> QED
      BY <3>2, <3>3
  <2>4. CASE \E w \in Workers, r \in Rows, S \in SUBSET Handlers : Dispatch(w, r, S)
    <3> PICK w \in Workers, r \in Rows, S \in SUBSET Handlers : Dispatch(w, r, S)
      BY <2>4
    <3>1. handled' \in [Rows -> SUBSET Handlers]
      BY DEF Dispatch
    <3>2. /\ pc' \in [Workers -> Steps]
          /\ todo' \in [Workers -> SUBSET emitted]
          /\ ok' \in [Workers -> SUBSET emitted]
          /\ failed' \in [Workers -> SUBSET emitted]
      BY DEF Dispatch
    <3>3. UNCHANGED <<emitted, published, quarantined, attempts, lease, held, seen>>
      BY DEF Dispatch, rowVars
    <3> QED
      BY <3>1, <3>2, <3>3
  <2>5. CASE \E w \in Workers : MarkPublished(w)
    BY <2>5 DEF MarkPublished
  <2>6. CASE \E w \in Workers : QuarantineOverBudget(w)
    BY <2>6 DEF QuarantineOverBudget, Quarantine, OverBudget
  <2>7. CASE \E w \in Workers : ReleaseRetryable(w)
    BY <2>7, EndTickTypes DEF ReleaseRetryable
  <2>8. CASE \E w \in Workers : Abort(w)
    BY <2>8, EndTickTypes DEF Abort, rowVars
  <2>9. CASE \E r \in Rows : LeaseLapses(r)
    BY <2>9 DEF LeaseLapses, tickVars
  <2>10. CASE \E d \in Drafts : Redrive(d)
    <3> PICK d \in Drafts : Redrive(d)
      BY <2>10
    <3>0. 0 \in 0 .. MaxAttempts
      OBVIOUS
    <3>1. /\ attempts' \in [Rows -> 0 .. MaxAttempts]
          /\ lease' \in [Rows -> LeaseStates]
          /\ quarantined' \subseteq emitted
      BY <3>0 DEF Redrive
    <3>2. UNCHANGED <<emitted, published, handled, pc, held, seen, todo, ok, failed>>
      BY DEF Redrive, tickVars
    <3> QED
      BY <3>1, <3>2
  <2>11. CASE UNCHANGED vars
    BY <2>11 DEF vars, rowVars, tickVars
  <2> QED
    BY <2>1, <2>2, <2>3, <2>4, <2>5, <2>6, <2>7, <2>8, <2>9, <2>10, <2>11, NextCases
<1> QED
  BY <1>1, <1>2, PTL DEF Spec

-----------------------------------------------------------------------------
(* What a worker remembers as confirmed has been handled: the strengthening *)
(* that carries PublishedOnlyWhenHandled over a MarkPublished step.         *)
ConfirmedHandled ==
  \A w \in Workers : \A r \in ok[w] : Required(r) \subseteq handled[r]

DeliveryInv == TypeOK /\ ConfirmedHandled /\ PublishedOnlyWhenHandled

(* The strengthened invariant holds along every behaviour of the drain. *)
LEMMA DeliveryInvariant == Spec => []DeliveryInv
<1>1. Init => DeliveryInv
  BY OutboxAssumption
     DEF Init, DeliveryInv, TypeOK, Steps, LeaseStates, ConfirmedHandled,
         PublishedOnlyWhenHandled
<1>2. DeliveryInv /\ TypeOK' /\ [Next]_vars => (ConfirmedHandled /\ PublishedOnlyWhenHandled)'
  <2> SUFFICES ASSUME DeliveryInv, TypeOK', [Next]_vars
               PROVE  (ConfirmedHandled /\ PublishedOnlyWhenHandled)'
    OBVIOUS
  <2> USE DEF DeliveryInv, TypeOK, ConfirmedHandled, PublishedOnlyWhenHandled
  <2>1. CASE \E r \in Rows : Emit(r)
    BY <2>1 DEF Emit, tickVars, Required
  <2>2. CASE \E w \in Workers : Claim(w)
    BY <2>2 DEF Claim, Required
  <2>3. CASE \E w \in Workers : QuarantineUnmappable(w)
    BY <2>3 DEF QuarantineUnmappable, EndTick, Required
  <2>4. CASE \E w \in Workers, r \in Rows, S \in SUBSET Handlers : Dispatch(w, r, S)
    <3> PICK w \in Workers, r \in Rows, S \in SUBSET Handlers : Dispatch(w, r, S)
      BY <2>4
    <3>1. \A q \in Rows : handled[q] \subseteq handled'[q]
      BY DEF Dispatch
    <3>2. S \subseteq handled'[r]
      BY DEF Dispatch
    <3>3. \A v \in Workers : \A q \in ok'[v] :
            q \in ok[v] \/ (q = r /\ S = Required(r))
      BY DEF Dispatch
    <3>4. published' = published
      BY DEF Dispatch, rowVars
    <3> QED
      BY <3>1, <3>2, <3>3, <3>4 DEF Required
  <2>5. CASE \E w \in Workers : MarkPublished(w)
    BY <2>5 DEF MarkPublished, Required
  <2>6. CASE \E w \in Workers : QuarantineOverBudget(w)
    BY <2>6 DEF QuarantineOverBudget, Required
  <2>7. CASE \E w \in Workers : ReleaseRetryable(w)
    BY <2>7 DEF ReleaseRetryable, EndTick, Required
  <2>8. CASE \E w \in Workers : Abort(w)
    BY <2>8 DEF Abort, EndTick, rowVars, Required
  <2>9. CASE \E r \in Rows : LeaseLapses(r)
    BY <2>9 DEF LeaseLapses, tickVars, Required
  <2>10. CASE \E d \in Drafts : Redrive(d)
    BY <2>10 DEF Redrive, tickVars, Required
  <2>11. CASE UNCHANGED vars
    BY <2>11 DEF vars, rowVars, tickVars, Required
  <2> QED
    BY <2>1, <2>2, <2>3, <2>4, <2>5, <2>6, <2>7, <2>8, <2>9, <2>10, <2>11, NextCases
<1> QED
  BY <1>1, <1>2, TypeCorrect, PTL DEF Spec, DeliveryInv

(* An acknowledged event has been handled by every handler it needs, in any *)
(* interleaving of slow, dying and restarted replicas.                      *)
THEOREM PublishedHandled == Spec => []PublishedOnlyWhenHandled
BY DeliveryInvariant, PTL DEF DeliveryInv

-----------------------------------------------------------------------------
(* The drain implements at-least-once delivery: a claim, a release, an      *)
(* abort and a lapsing lease are invisible to the consumers, a dispatch is  *)
(* a delivery, and the three settling updates are Ack and Park.             *)
THEOREM Refinement == Spec => ImplementsDelivery
<1>1. Init => Delivery!Init
  BY DEF Init, Delivery!Init
<1>2. DeliveryInv /\ [Next]_vars => [Delivery!Next]_(Delivery!vars)
  <2> SUFFICES ASSUME DeliveryInv, [Next]_vars
               PROVE  Delivery!Next \/ UNCHANGED Delivery!vars
    OBVIOUS
  <2> USE DEF Delivery!vars
  <2>0. published \subseteq emitted /\ emitted \subseteq Rows
    BY DEF DeliveryInv, TypeOK
  <2>1. CASE \E r \in Rows : Emit(r)
    BY <2>1 DEF Emit, Delivery!Next, Delivery!Emit
  <2>2. CASE \E w \in Workers : Claim(w)
    BY <2>2 DEF Claim
  <2>3. CASE \E w \in Workers : QuarantineUnmappable(w)
    <3> PICK w \in Workers : QuarantineUnmappable(w)
      BY <2>3
    <3> DEFINE S == (held[w] \intersect Unmappable) \ published
    <3>1. S \in SUBSET Rows /\ S \subseteq emitted \ published
      BY <2>0 DEF DeliveryInv, TypeOK
    <3>2. Delivery!Park(S)
      BY <3>1 DEF QuarantineUnmappable, Quarantine, Delivery!Park
    <3> HIDE DEF S
    <3> QED
      BY <3>1, <3>2 DEF Delivery!Next
  <2>4. CASE \E w \in Workers, r \in Rows, S \in SUBSET Handlers : Dispatch(w, r, S)
    <3> PICK w \in Workers, r \in Rows, S \in SUBSET Handlers : Dispatch(w, r, S)
      BY <2>4
    <3>1. Delivery!Handle(r, S)
      BY DEF Dispatch, rowVars, DeliveryInv, TypeOK, Delivery!Handle
    <3> QED
      BY <3>1 DEF Delivery!Next
  <2>5. CASE \E w \in Workers : MarkPublished(w)
    <3> PICK w \in Workers : MarkPublished(w)
      BY <2>5
    <3>1. ok[w] \in SUBSET Rows /\ ok[w] \subseteq emitted
      BY <2>0 DEF DeliveryInv, TypeOK
    <3>2. \A r \in ok[w] : Delivery!Complete(r)
      BY <3>1 DEF DeliveryInv, TypeOK, ConfirmedHandled, Required, Delivery!Complete
    <3>3. Delivery!Ack(ok[w])
      BY <3>1, <3>2 DEF MarkPublished, Delivery!Ack
    <3> QED
      BY <3>1, <3>3 DEF Delivery!Next
  <2>6. CASE \E w \in Workers : QuarantineOverBudget(w)
    <3> PICK w \in Workers : QuarantineOverBudget(w)
      BY <2>6
    <3> DEFINE S == OverBudget(w) \ published
    <3>1. S \in SUBSET Rows /\ S \subseteq emitted \ published
      BY <2>0 DEF DeliveryInv, TypeOK, OverBudget
    <3>2. Delivery!Park(S)
      BY <3>1 DEF QuarantineOverBudget, Quarantine, Delivery!Park
    <3> HIDE DEF S
    <3> QED
      BY <3>1, <3>2 DEF Delivery!Next
  <2>7. CASE \E w \in Workers : ReleaseRetryable(w)
    BY <2>7 DEF ReleaseRetryable
  <2>8. CASE \E w \in Workers : Abort(w)
    BY <2>8 DEF Abort, rowVars
  <2>9. CASE \E r \in Rows : LeaseLapses(r)
    BY <2>9 DEF LeaseLapses
  <2>10. CASE \E d \in Drafts : Redrive(d)
    <3> PICK d \in Drafts : Redrive(d)
      BY <2>10
    <3> DEFINE S == {r \in emitted \ published : SubjectOf[r] = d}
    <3>1. S \in SUBSET Rows /\ S \subseteq emitted \ published
      BY <2>0
    <3>2. Delivery!Reopen(S)
      BY <3>1 DEF Redrive, Delivery!Reopen
    <3> HIDE DEF S
    <3> QED
      BY <3>1, <3>2 DEF Delivery!Next
  <2>11. CASE UNCHANGED vars
    BY <2>11 DEF vars, rowVars
  <2> QED
    BY <2>1, <2>2, <2>3, <2>4, <2>5, <2>6, <2>7, <2>8, <2>9, <2>10, <2>11, NextCases
<1> QED
  BY <1>1, <1>2, DeliveryInvariant, PTL DEF Spec, ImplementsDelivery, Delivery!Spec

-----------------------------------------------------------------------------
(* A published row is settled for good: the guards of the four update       *)
(* statements suffice, no statement needs to know who holds the lease.      *)
THEOREM PublishedFinal == Spec => PublishedIsFinal
<1>1. TypeOK /\ [Next]_vars =>
        \A r \in published :
          /\ r \in published'
          /\ r \in quarantined' => r \in quarantined
          /\ attempts'[r] = attempts[r]
  <2> SUFFICES ASSUME TypeOK, [Next]_vars, NEW r \in published
               PROVE  /\ r \in published'
                      /\ r \in quarantined' => r \in quarantined
                      /\ attempts'[r] = attempts[r]
    OBVIOUS
  <2>0. r \in Rows /\ attempts \in [Rows -> 0 .. MaxAttempts]
    BY DEF TypeOK
  <2>1. CASE \E q \in Rows : Emit(q)
    BY <2>1 DEF Emit
  <2>2. CASE \E w \in Workers : Claim(w)
    <3>1. r \notin Oldest(Claimable)
      BY BatchClaimable DEF Claimable
    <3> QED
      BY <2>0, <2>2, <3>1 DEF Claim
  <2>3. CASE \E w \in Workers : QuarantineUnmappable(w)
    BY <2>3 DEF QuarantineUnmappable, Quarantine
  <2>4. CASE \E w \in Workers, q \in Rows, S \in SUBSET Handlers : Dispatch(w, q, S)
    BY <2>4 DEF Dispatch, rowVars
  <2>5. CASE \E w \in Workers : MarkPublished(w)
    BY <2>5 DEF MarkPublished
  <2>6. CASE \E w \in Workers : QuarantineOverBudget(w)
    BY <2>6 DEF QuarantineOverBudget, Quarantine
  <2>7. CASE \E w \in Workers : ReleaseRetryable(w)
    BY <2>7 DEF ReleaseRetryable
  <2>8. CASE \E w \in Workers : Abort(w)
    BY <2>8 DEF Abort, rowVars
  <2>9. CASE \E q \in Rows : LeaseLapses(q)
    BY <2>9 DEF LeaseLapses
  <2>10. CASE \E d \in Drafts : Redrive(d)
    BY <2>0, <2>10 DEF Redrive
  <2>11. CASE UNCHANGED vars
    BY <2>11 DEF vars, rowVars
  <2> QED
    BY <2>1, <2>2, <2>3, <2>4, <2>5, <2>6, <2>7, <2>8, <2>9, <2>10, <2>11, NextCases
<1> QED
  BY <1>1, TypeCorrect, PTL DEF Spec, PublishedIsFinal

-----------------------------------------------------------------------------
(***************************************************************************)
(* Where nothing resets publish_attempts (the ATS talent outbox has no      *)
(* redrive) the counter only grows, so the number a claim returned never    *)
(* exceeds the stored one, and a later claim returns a larger one.          *)
(***************************************************************************)
SeenBounded ==
  \A w \in Workers : \A r \in held[w] : seen[w][r] <= attempts[r]

(* A worker's results are about rows of its batch, and an idle one has none. *)
TickMemory ==
  \A w \in Workers : /\ failed[w] \union todo[w] \subseteq held[w]
                     /\ pc[w] = "idle" => failed[w] \union todo[w] = {}

BudgetInv ==
  /\ TypeOK
  /\ SeenBounded
  /\ TickMemory
  /\ ClaimTokensDistinct
  /\ QuarantineJustified

(* A worker that leaves its tick holds nothing, and the others keep theirs. *)
LEMMA EndTickBudget ==
  ASSUME BudgetInv, NEW w \in Workers, EndTick(w), UNCHANGED attempts
  PROVE  (SeenBounded /\ TickMemory /\ ClaimTokensDistinct)'
<1>1. /\ held'[w] = {} /\ failed'[w] = {} /\ todo'[w] = {}
      /\ \A v \in Workers \ {w} : /\ held'[v] = held[v] /\ seen'[v] = seen[v]
                                   /\ failed'[v] = failed[v] /\ todo'[v] = todo[v]
                                   /\ pc'[v] = pc[v]
  BY DEF EndTick, BudgetInv, TypeOK
<1>2. SeenBounded'
  BY <1>1 DEF BudgetInv, SeenBounded
<1>3. TickMemory'
  BY <1>1 DEF BudgetInv, TickMemory
<1>4. ClaimTokensDistinct'
  BY <1>1 DEF BudgetInv, ClaimTokensDistinct
<1> QED
  BY <1>2, <1>3, <1>4

(* A step that leaves claims and counters alone keeps what is said of them. *)
LEMMA SameClaims ==
  ASSUME BudgetInv, UNCHANGED <<attempts, held, seen>>
  PROVE  (SeenBounded /\ ClaimTokensDistinct)'
BY DEF BudgetInv, SeenBounded, ClaimTokensDistinct

(* Without redrives publish_attempts counts the claims of a row. *)
LEMMA BudgetInvariant ==
  ASSUME Drafts = {}
  PROVE  Spec => []BudgetInv
<1>1. Init => BudgetInv
  BY OutboxAssumption
     DEF Init, BudgetInv, TypeOK, Steps, LeaseStates, SeenBounded, TickMemory,
         ClaimTokensDistinct, QuarantineJustified
<1>2. BudgetInv /\ TypeOK' /\ [Next]_vars => BudgetInv'
  <2> SUFFICES ASSUME BudgetInv, TypeOK', [Next]_vars PROVE BudgetInv'
    OBVIOUS
  <2>0. /\ attempts \in [Rows -> 0 .. MaxAttempts]
        /\ emitted \subseteq Rows
        /\ MaxAttempts \in Nat
    BY OutboxAssumption DEF BudgetInv, TypeOK
  <2>1. CASE \E r \in Rows : Emit(r)
    BY <2>1, SameClaims DEF Emit, tickVars, BudgetInv, TickMemory, QuarantineJustified
  <2>2. CASE \E w \in Workers : Claim(w)
    <3> PICK w \in Workers : Claim(w)
      BY <2>2
    <3> DEFINE batch == Oldest(Claimable)
    <3>1. batch \subseteq Rows
      BY <2>0, BatchClaimable DEF Claimable
    <3>2. /\ held'[w] = batch
          /\ \A r \in batch : seen'[w][r] = attempts[r] + 1 /\ attempts'[r] = attempts[r] + 1
          /\ \A r \in Rows : attempts[r] <= attempts'[r]
          /\ UNCHANGED <<quarantined, failed, todo>>
      BY <2>0, <3>1 DEF Claim, BudgetInv, TypeOK
    <3>3. \A v \in Workers \ {w} :
            held'[v] = held[v] /\ seen'[v] = seen[v] /\ pc'[v] = pc[v]
      BY DEF Claim, BudgetInv, TypeOK
    <3>4. ASSUME NEW v \in Workers \ {w}, NEW r \in held[v]
          PROVE  /\ r \in Rows
                 /\ seen[v][r] \in Nat /\ attempts[r] \in Nat /\ attempts'[r] \in Nat
                 /\ seen[v][r] <= attempts[r]
                 /\ attempts[r] <= attempts'[r]
      BY <2>0, <3>2 DEF BudgetInv, TypeOK, SeenBounded
    <3>5. SeenBounded'
      <4> SUFFICES ASSUME NEW v \in Workers, NEW r \in held'[v]
                   PROVE  seen'[v][r] <= attempts'[r]
        BY DEF SeenBounded
      <4>1. CASE v = w
        <5>1. seen'[v][r] = attempts'[r] /\ attempts'[r] \in Nat
          BY <2>0, <3>1, <3>2, <4>1
        <5> QED
          BY <5>1
      <4>2. CASE v # w
        BY <3>3, <3>4, <4>2
      <4> QED
        BY <4>1, <4>2
    <3>6. TickMemory'
      <4>1. failed[w] \union todo[w] = {}
        BY DEF Claim, BudgetInv, TickMemory
      <4> QED
        BY <3>2, <3>3, <4>1 DEF BudgetInv, TickMemory
    <3>7. ClaimTokensDistinct'
      <4>1. ASSUME NEW v \in Workers \ {w}, NEW r \in batch \intersect held[v]
            PROVE  seen'[w][r] # seen[v][r]
        BY <3>2, <3>4
      <4> QED
        BY <3>2, <3>3, <4>1 DEF BudgetInv, ClaimTokensDistinct
    <3>8. QuarantineJustified'
      <4> SUFFICES ASSUME NEW r \in quarantined, attempts[r] >= MaxAttempts
                   PROVE  attempts'[r] >= MaxAttempts
        BY <3>2 DEF BudgetInv, QuarantineJustified
      <4>1. r \in Rows /\ attempts[r] \in Nat /\ attempts'[r] \in Nat
        BY <2>0 DEF BudgetInv, TypeOK
      <4> QED
        BY <2>0, <3>2, <4>1
    <3> QED
      BY <3>5, <3>6, <3>7, <3>8 DEF BudgetInv
  <2>3. CASE \E w \in Workers : QuarantineUnmappable(w)
    <3> PICK w \in Workers : QuarantineUnmappable(w)
      BY <2>3
    <3>1. QuarantineJustified'
      BY DEF QuarantineUnmappable, Quarantine, BudgetInv, QuarantineJustified
    <3>2. CASE held[w] \subseteq Unmappable
      BY <3>1, <3>2, EndTickBudget DEF QuarantineUnmappable, BudgetInv
    <3>3. CASE ~(held[w] \subseteq Unmappable)
      <4>1. TickMemory'
        BY <3>3 DEF QuarantineUnmappable, BudgetInv, TypeOK, TickMemory
      <4>2. (SeenBounded /\ ClaimTokensDistinct)'
        BY <3>3, SameClaims DEF QuarantineUnmappable
      <4> QED
        BY <3>1, <4>1, <4>2 DEF BudgetInv
    <3> QED
      BY <3>2, <3>3
  <2>4. CASE \E w \in Workers, r \in Rows, S \in SUBSET Handlers : Dispatch(w, r, S)
    <3> PICK w \in Workers, r \in Rows, S \in SUBSET Handlers : Dispatch(w, r, S)
      BY <2>4
    <3>1. TickMemory'
      <4>1. /\ failed'[w] \union todo'[w] \subseteq held[w]
            /\ pc'[w] # "idle"
            /\ held' = held
        BY DEF Dispatch, BudgetInv, TypeOK, TickMemory
      <4>2. \A v \in Workers \ {w} :
              failed'[v] = failed[v] /\ todo'[v] = todo[v] /\ pc'[v] = pc[v]
        BY DEF Dispatch, BudgetInv, TypeOK
      <4> QED
        BY <4>1, <4>2 DEF BudgetInv, TickMemory
    <3>2. UNCHANGED <<attempts, held, seen, quarantined>>
      BY DEF Dispatch, rowVars
    <3>3. QuarantineJustified'
      BY <3>2 DEF BudgetInv, QuarantineJustified
    <3> QED
      BY <3>1, <3>2, <3>3, SameClaims DEF BudgetInv
  <2>5. CASE \E w \in Workers : MarkPublished(w)
    BY <2>5, SameClaims
       DEF MarkPublished, BudgetInv, TypeOK, TickMemory, QuarantineJustified
  <2>6. CASE \E w \in Workers : QuarantineOverBudget(w)
    <3> PICK w \in Workers : QuarantineOverBudget(w)
      BY <2>6
    <3>1. ASSUME NEW r \in OverBudget(w)
          PROVE  attempts[r] >= MaxAttempts
      <4>1. r \in held[w] /\ seen[w][r] >= MaxAttempts
        BY DEF OverBudget, BudgetInv, TickMemory
      <4>2. seen[w][r] <= attempts[r] /\ seen[w][r] \in Nat /\ attempts[r] \in Nat
        BY <2>0, <4>1 DEF BudgetInv, TypeOK, SeenBounded
      <4> QED
        BY <2>0, <4>1, <4>2
    <3>2. QuarantineJustified'
      BY <3>1 DEF QuarantineOverBudget, Quarantine, BudgetInv, QuarantineJustified
    <3>3. TickMemory'
      BY DEF QuarantineOverBudget, BudgetInv, TypeOK, TickMemory
    <3>4. UNCHANGED <<attempts, held, seen>>
      BY DEF QuarantineOverBudget
    <3> QED
      BY <3>2, <3>3, <3>4, SameClaims DEF BudgetInv
  <2>7. CASE \E w \in Workers : ReleaseRetryable(w)
    BY <2>7, EndTickBudget DEF ReleaseRetryable, BudgetInv, QuarantineJustified
  <2>8. CASE \E w \in Workers : Abort(w)
    BY <2>8, EndTickBudget DEF Abort, rowVars, BudgetInv, QuarantineJustified
  <2>9. CASE \E r \in Rows : LeaseLapses(r)
    BY <2>9, SameClaims DEF LeaseLapses, tickVars, BudgetInv, TickMemory, QuarantineJustified
  <2>10. CASE \E d \in Drafts : Redrive(d)
    BY <2>10
  <2>11. CASE UNCHANGED vars
    BY <2>11, SameClaims
       DEF vars, rowVars, tickVars, BudgetInv, TickMemory, QuarantineJustified
  <2> QED
    BY <2>1, <2>2, <2>3, <2>4, <2>5, <2>6, <2>7, <2>8, <2>9, <2>10, <2>11, NextCases
<1> QED
  BY <1>1, <1>2, TypeCorrect, PTL DEF Spec

(* Two workers that hold a row, one of them beyond its lease, hold it under *)
(* different attempt numbers (claimOutboxBatch).                            *)
THEOREM ClaimsDistinct ==
  ASSUME Drafts = {}
  PROVE  Spec => []ClaimTokensDistinct
<1>1. BudgetInv => ClaimTokensDistinct
  BY DEF BudgetInv
<1> QED
  BY <1>1, BudgetInvariant, PTL

(* A parked row is unmappable or really out of attempts (drainOnce).        *)
THEOREM BudgetSound ==
  ASSUME Drafts = {}
  PROVE  Spec => []QuarantineJustified
<1>1. BudgetInv => QuarantineJustified
  BY DEF BudgetInv
<1> QED
  BY <1>1, BudgetInvariant, PTL

=============================================================================
