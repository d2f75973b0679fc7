------------------------- MODULE SignEnvelope_proofs -------------------------
(***************************************************************************)
(* Theorems about SignEnvelope, for any recipients, setups, documents and     *)
(* invitation workers and all bounds.                                       *)
(***************************************************************************)
EXTENDS SignEnvelope, SequenceTheorems, TLAPS

(* A worker that is not idle works on a row of a recipient. *)
WorkerInv ==
  \A w \in Workers : worker[w].pc # "idle" =>
    /\ worker[w].for \in Signers
    /\ worker[w].row \in DOMAIN intents[worker[w].for]

(* A recipient is locked out only by an access code. *)
LockInv == \A s \in Signers : signer[s].locked => setup.code[s]

TypeInv == TypeOK /\ WorkerInv /\ LockInv

-----------------------------------------------------------------------------
LEMMA SetupType ==
  ASSUME TypeOK
  PROVE  /\ setup.routing \in {"PARALLEL", "SEQUENTIAL"}
         /\ setup.kind \in [Signers -> Kinds]
         /\ setup.principal \in [Signers -> Signers]
         /\ setup.order \in [Signers -> Nat]
         /\ \A s, t \in Signers : setup.order[s] = setup.order[t] => s = t
  BY SetupAssumption DEF TypeOK

LEMMA NewIsSession ==
  ASSUME TypeOK, NEW s \in Signers, NEW origin \in Origins, NEW emailed \in BOOLEAN
  PROVE  NewSession(s, origin, emailed) \in Session
  BY DEF NewSession, Session, TypeOK, Signer

(* Recording an intent keeps the rows there are. *)
LEMMA WithIntentsType ==
  ASSUME TypeOK, NEW targets
  PROVE  /\ WithIntents(targets) \in [Signers -> Seq(Intent)]
         /\ \A s \in Signers : DOMAIN intents[s] \subseteq DOMAIN WithIntents(targets)[s]
<1> DEFINE new == [status |-> "PENDING", attempts |-> 0]
<1>1. new \in Intent
  BY DEF Intent
<1>2. ASSUME NEW s \in Signers
      PROVE  /\ Append(intents[s], new) \in Seq(Intent)
             /\ DOMAIN intents[s] \subseteq DOMAIN Append(intents[s], new)
  <2>1. intents[s] \in Seq(Intent)
    BY DEF TypeOK
  <2> QED  BY <1>1, <2>1, AppendProperties
<1>3. \A s \in Signers : intents[s] \in Seq(Intent)
  BY DEF TypeOK
<1> QED  BY <1>2, <1>3 DEF WithIntents

(* Rewriting a row keeps the rows there are. *)
LEMMA RowRewritten ==
  ASSUME TypeOK, NEW s \in Signers, NEW i \in DOMAIN intents[s], NEW r \in Intent
  PROVE  /\ [intents EXCEPT ![s][i] = r] \in [Signers -> Seq(Intent)]
         /\ \A t \in Signers : DOMAIN [intents EXCEPT ![s][i] = r][t] = DOMAIN intents[t]
<1>1. intents \in [Signers -> Seq(Intent)] /\ intents[s] \in Seq(Intent)
  BY DEF TypeOK
<1>2. i \in 1 .. Len(intents[s])
  BY <1>1
<1>3. /\ [intents[s] EXCEPT ![i] = r] \in Seq(Intent)
      /\ DOMAIN [intents[s] EXCEPT ![i] = r] = DOMAIN intents[s]
  BY <1>1, <1>2, ExceptSeq
<1> QED  BY <1>1, <1>3

(* Minting keeps the type of the sessions. *)
LEMMA MintType ==
  ASSUME TypeOK, NEW targets, NEW rows \in [Signers -> SUBSET Session], MintFor(targets, rows)
  PROVE  sessions' \in [Signers -> SUBSET Session] /\ minted' \in [Signers -> Nat]
  BY DEF MintFor, TypeOK

-----------------------------------------------------------------------------
LEMMA TypeInit == Init => TypeInv
<1> SUFFICES ASSUME Init PROVE TypeInv
  OBVIOUS
<1>1. signer \in [Signers -> Signer] /\ \A s \in Signers : signer[s].failed = 0 /\ ~signer[s].locked
  BY BoundsAssumption DEF Init, Signer, Holders
<1>2. intents \in [Signers -> Seq(Intent)] /\ outbox \in Seq({"DECLINED", "VOIDED", "EXPIRED", "EXECUTED"})
  BY DEF Init
<1>3. worker \in [Workers -> [pc : WorkerStates, for : Signers \union {None}, row : Nat,
                             seen : Intent \union {None}, link : Nat]]
  BY DEF Init, idle, WorkerStates
<1>4. /\ producer \in [pc : {"none", "produce", "stamp", "done", "dead"},
                       read : [Signers -> Values \union {None}] \union {None}]
      /\ executed \in [Documents -> [Signers -> Values \union {None}] \union {None}]
  BY DEF Init
<1>a. \A s \in Signers : signer[s].locked <=> signer[s].failed = MaxCodeAttempts
  BY <1>1, BoundsAssumption
<1>b. /\ sessions \in [Signers -> SUBSET Session] /\ minted \in [Signers -> Nat]
      /\ status \in Statuses /\ setup \in Setups
  BY DEF Init, Statuses
<1>c. windowOver \in BOOLEAN /\ certified \in BOOLEAN
  BY DEF Init
<1>d. slow \in Nat /\ crashes \in 0 .. MaxCrashes
  <2>1. slow = 0 /\ crashes = 0 /\ MaxCrashes \in Nat
    BY BoundsAssumption DEF Init
  <2> QED  BY <2>1
<1>5. TypeOK
  BY <1>1, <1>2, <1>3, <1>4, <1>a, <1>b, <1>c, <1>d DEF TypeOK
<1>6. WorkerInv /\ LockInv
  BY <1>1 DEF Init, WorkerInv, LockInv, idle
<1> QED  BY <1>5, <1>6 DEF TypeInv

(* The steps that touch nothing but the sessions. *)
TokenStep ==
  \/ \E targets \in SUBSET Signers : Remind(targets)
  \/ \E s \in Signers : IssueHosted(s) \/ IssueSelf(s) \/ IssueInbox(s)
  \/ \E s \in Signers : \E x \in sessions[s] : Lapse(s, x)

LEMMA TypeToken == TypeInv /\ TokenStep => TypeInv'
<1> SUFFICES ASSUME TypeInv, TokenStep PROVE TypeInv'
  OBVIOUS
<1>a. TypeOK
  BY DEF TypeInv
<1>1. \A s \in Signers : Reissued(s, "LINK", TRUE) \in SUBSET Session
  BY <1>a, NewIsSession DEF Reissued, Origins
<1>2. \A s \in Signers : Reissued(s, "HOSTED", TRUE) \in SUBSET Session
  BY <1>a, NewIsSession DEF Reissued, Origins
<1>3. \A s \in Signers : Added(s, "SELF") \in SUBSET Session /\ Added(s, "INBOX") \in SUBSET Session
  BY <1>a, NewIsSession DEF Added, Origins, TypeOK
<1>4. sessions' \in [Signers -> SUBSET Session] /\ minted' \in [Signers -> Nat]
  <2>1. CASE \E targets \in SUBSET Signers : Remind(targets)
    BY <1>a, <1>1, <2>1, MintType DEF Remind
  <2>2. CASE \E s \in Signers : IssueHosted(s)
    BY <1>a, <1>2, <2>2, MintType DEF IssueHosted
  <2>3. CASE \E s \in Signers : IssueSelf(s)
    BY <1>a, <1>3, <2>3, MintType DEF IssueSelf
  <2>4. CASE \E s \in Signers : IssueInbox(s)
    BY <1>a, <1>3, <2>4, MintType DEF IssueInbox
  <2>5. CASE \E s \in Signers : \E x \in sessions[s] : Lapse(s, x)
    BY <1>a, <2>5 DEF Lapse, TypeOK
  <2> QED  BY <2>1, <2>2, <2>3, <2>4, <2>5 DEF TokenStep
<1>5. UNCHANGED <<setup, status, windowOver, signer, intents, outbox, workVars, execVars, crashes>>
  BY DEF TokenStep, Remind, IssueHosted, IssueSelf, IssueInbox, Lapse
<1> QED  BY <1>4, <1>5 DEF TypeInv, TypeOK, WorkerInv, LockInv, workVars, execVars

(* Terminating keeps the types. *)
LEMMA TerminateType ==
  ASSUME TypeOK, NEW to \in Terminal, Terminate(to)
  PROVE  /\ status' \in Statuses
         /\ sessions' \in [Signers -> SUBSET Session]
         /\ outbox' \in Seq({"DECLINED", "VOIDED", "EXPIRED", "EXECUTED"})
  BY DEF Terminate, Told, Terminal, Statuses, TypeOK

(* Sending, the window and the terminations by the sender and the sweep. *)
LEMMA TypeSender == TypeInv /\ (Send \/ Void \/ WindowCloses \/ ExpireSweep) => TypeInv'
<1> SUFFICES ASSUME TypeInv, Send \/ Void \/ WindowCloses \/ ExpireSweep PROVE TypeInv'
  OBVIOUS
<1>a. TypeOK
  BY DEF TypeInv
<1>1. \A s \in Signers : Added(s, "LINK") \in SUBSET Session
  BY <1>a, NewIsSession DEF Added, Origins, TypeOK
<1>2. /\ sessions' \in [Signers -> SUBSET Session] /\ minted' \in [Signers -> Nat]
      /\ status' \in Statuses /\ windowOver' \in BOOLEAN
      /\ outbox' \in Seq({"DECLINED", "VOIDED", "EXPIRED", "EXECUTED"})
  <2>1. CASE Send
    BY <1>a, <1>1, <2>1, MintType DEF Send, TypeOK, Statuses
  <2>2. CASE Void
    BY <1>a, <2>2, TerminateType DEF Void, TypeOK, Terminal
  <2>3. CASE WindowCloses
    BY <1>a, <2>3 DEF WindowCloses, TypeOK
  <2>4. CASE ExpireSweep
    BY <1>a, <2>4, TerminateType DEF ExpireSweep, TypeOK, Terminal
  <2> QED  BY <2>1, <2>2, <2>3, <2>4
<1>3. UNCHANGED <<setup, signer, intents, workVars, execVars, crashes>>
  BY DEF Send, Void, WindowCloses, ExpireSweep
<1> QED  BY <1>2, <1>3 DEF TypeInv, TypeOK, WorkerInv, LockInv, workVars, execVars

(* What a recipient's step changes. *)
ActorFrame == UNCHANGED <<setup, minted, windowOver, workVars, executed, certified, crashes>>

RecipientOp(s, x) ==
  \/ Exchange(s, x)
  \/ AcceptDisclosure(s, x)
  \/ VerifyCode(s, x) \/ WrongCode(s, x)
  \/ Delegate(s, x)
  \/ \E v \in Values : FillField(s, x, v)
  \/ CompleteSigner(s, x)
  \/ Decline(s, x)

LEMMA ActorFrameHolds ==
  ASSUME NEW s, NEW x, RecipientOp(s, x)
  PROVE  ActorFrame
  BY DEF RecipientOp, ActorFrame, Exchange, AcceptDisclosure, VerifyCode, WrongCode, Delegate,
         FillField, CompleteSigner, Decline, execVars, tokenVars

LEMMA SignerRowType ==
  ASSUME TypeInv, NEW s \in Signers, NEW x \in sessions[s], RecipientOp(s, x)
  PROVE  /\ signer' \in [Signers -> Signer]
         /\ \A t \in Signers : signer'[t].locked <=> signer'[t].failed = MaxCodeAttempts
         /\ \A t \in Signers : signer'[t].locked => setup.code[t]
<1>a. /\ signer \in [Signers -> Signer]
      /\ \A t \in Signers : signer[t].locked <=> signer[t].failed = MaxCodeAttempts
      /\ \A t \in Signers : signer[t].locked => setup.code[t]
  BY DEF TypeInv, TypeOK, LockInv
<1>1. CASE Exchange(s, x)
  BY <1>a, <1>1 DEF Exchange, Signer
<1>2. CASE AcceptDisclosure(s, x)
  BY <1>a, <1>2 DEF AcceptDisclosure, Signer
<1>3. CASE VerifyCode(s, x)
  BY <1>a, <1>3, BoundsAssumption DEF VerifyCode, CodeOpen, Signer
<1>4. CASE WrongCode(s, x)
  <2>1. signer[s].failed + 1 \in 0 .. MaxCodeAttempts /\ setup.code[s]
    BY <1>a, <1>4, BoundsAssumption DEF WrongCode, CodeOpen, Signer
  <2> DEFINE n == signer[s].failed + 1
             r == [signer[s] EXCEPT !.failed = n, !.locked = CodeLocks(n)]
  <2>2. CodeLocks(n) \in BOOLEAN /\ (CodeLocks(n) <=> n = MaxCodeAttempts)
    BY <2>1, BoundsAssumption DEF CodeLocks
  <2>3. signer' = [signer EXCEPT ![s] = r]
    BY <1>4 DEF WrongCode
  <2>4. r \in Signer /\ (r.locked <=> r.failed = MaxCodeAttempts)
    <3> HIDE DEF n
    <3> QED  BY <1>a, <2>1, <2>2 DEF Signer, n
  <2> HIDE DEF r
  <2> QED  BY <1>a, <2>1, <2>3, <2>4
<1>5. CASE Delegate(s, x)
  <2> DEFINE r == [signer[s] EXCEPT !.holder = "delegate", !.status = "PENDING", !.value = None]
  <2>1. signer' = [signer EXCEPT ![s] = r]
    BY <1>5 DEF Delegate
  <2>a. signer[s] \in Signer
    BY <1>a
  <2>b. [signer[s] EXCEPT !.holder = "delegate"] \in Signer
    BY <2>a DEF Signer, Holders
  <2>c. [[signer[s] EXCEPT !.holder = "delegate"] EXCEPT !.status = "PENDING"] \in Signer
    BY <2>b DEF Signer
  <2>2. r \in Signer /\ r.locked = signer[s].locked /\ r.failed = signer[s].failed
    BY <2>a, <2>c DEF Signer
  <2> HIDE DEF r
  <2> QED  BY <1>a, <2>1, <2>2
<1>6. CASE \E v \in Values : FillField(s, x, v)
  BY <1>a, <1>6 DEF FillField, Signer
<1>7. CASE CompleteSigner(s, x)
  BY <1>a, <1>7 DEF CompleteSigner, Signer
<1>8. CASE Decline(s, x)
  BY <1>a, <1>8 DEF Decline, Signer
<1> QED  BY <1>1, <1>2, <1>3, <1>4, <1>5, <1>6, <1>7, <1>8 DEF RecipientOp

LEMMA TypeRecipient ==
  ASSUME TypeInv, NEW s \in Signers, NEW x \in sessions[s], RecipientOp(s, x)
  PROVE  TypeInv'
<1>a. TypeOK /\ x \in Session
  BY DEF TypeInv, TypeOK
<1>1. /\ status' \in Statuses
      /\ sessions' \in [Signers -> SUBSET Session]
      /\ outbox' \in Seq({"DECLINED", "VOIDED", "EXPIRED", "EXECUTED"})
      /\ producer' \in [pc : {"none", "produce", "stamp", "done", "dead"},
                        read : [Signers -> Values \union {None}] \union {None}]
      /\ intents' \in [Signers -> Seq(Intent)]
      /\ \A t \in Signers : DOMAIN intents[t] \subseteq DOMAIN intents'[t]
  <2>1. CASE Exchange(s, x) \/ AcceptDisclosure(s, x) \/ \E v \in Values : FillField(s, x, v)
    BY <1>a, <2>1 DEF Exchange, AcceptDisclosure, FillField, TypeOK, Statuses, tokenVars, execVars
  <2>2. CASE VerifyCode(s, x)
    <3>1. [x EXCEPT !.verified = TRUE] \in Session
      BY <1>a DEF Session
    <3> QED  BY <1>a, <2>2, <3>1 DEF VerifyCode, TypeOK, tokenVars, execVars
  <2>3. CASE WrongCode(s, x)
    BY <1>a, <2>3 DEF WrongCode, TypeOK, tokenVars, execVars
  <2>4. CASE Delegate(s, x)
    BY <1>a, <2>4, WithIntentsType DEF Delegate, DelegatedSessions, TypeOK, tokenVars, execVars
  <2>5. CASE CompleteSigner(s, x)
    <3>1. PICK rows : \/ /\ AllSigned(rows)
                         /\ Terminate("COMPLETED")
                         /\ producer' = [producer EXCEPT !.pc = Produces(status)]
                         /\ intents' = intents
                      \/ /\ ~AllSigned(rows)
                         /\ sessions' = [sessions EXCEPT ![s] = @ \ {x}]
                         /\ intents' = WithIntents(NextInvited(s, rows))
                         /\ UNCHANGED <<status, outbox, producer>>
      BY <2>5 DEF CompleteSigner
    <3>2. CASE Terminate("COMPLETED") /\ producer' = [producer EXCEPT !.pc = Produces(status)]
               /\ intents' = intents
      BY <1>a, <3>2, TerminateType DEF Produces, TypeOK, Terminal
    <3>3. CASE /\ sessions' = [sessions EXCEPT ![s] = @ \ {x}]
               /\ intents' = WithIntents(NextInvited(s, rows))
               /\ UNCHANGED <<status, outbox, producer>>
      BY <1>a, <3>3, WithIntentsType DEF TypeOK
    <3> QED  BY <3>1, <3>2, <3>3
  <2>6. CASE Decline(s, x)
    BY <1>a, <2>6, TerminateType DEF Decline, TypeOK, Terminal, execVars
  <2> QED  BY <2>1, <2>2, <2>3, <2>4, <2>5, <2>6 DEF RecipientOp
<1>2. /\ signer' \in [Signers -> Signer]
      /\ \A t \in Signers : signer'[t].locked <=> signer'[t].failed = MaxCodeAttempts
      /\ \A t \in Signers : signer'[t].locked => setup.code[t]
  BY SignerRowType
<1>3. UNCHANGED <<setup, minted, windowOver, worker, slow, executed, certified, crashes>>
  BY ActorFrameHolds DEF ActorFrame, workVars
<1>4. TypeOK'
  BY <1>a, <1>1, <1>2, <1>3 DEF TypeOK
<1>5. WorkerInv'
  BY <1>1, <1>3 DEF TypeInv, WorkerInv
<1> QED  BY <1>2, <1>3, <1>4, <1>5 DEF TypeInv, LockInv

(* The steps of an invitation worker, each with what it does to the worker, the intents
   and the sessions. *)
WorkerTypes == [pc : WorkerStates, for : Signers \union {None}, row : Nat,
                seen : Intent \union {None}, link : Nat]

WorkerOp(w) == WorkerStep(w) \/ WorkerDies(w)

LEMMA WorkerFrame ==
  ASSUME NEW w \in Workers, WorkerOp(w)
  PROVE  UNCHANGED <<setup, status, windowOver, signer, outbox, execVars>>
  BY DEF WorkerOp, WorkerStep, ListIntent, ClaimIntent, IssueLink, Deliver, RecordOutcome, WorkerDies

LEMMA TypeWorkerRow ==
  ASSUME TypeInv, NEW w \in Workers, WorkerOp(w)
  PROVE  /\ intents' \in [Signers -> Seq(Intent)]
         /\ \A s \in Signers : DOMAIN intents'[s] = DOMAIN intents[s]
<1>a. TypeOK /\ WorkerInv
  BY DEF TypeInv
<1>1. CASE intents' = intents
  BY <1>a, <1>1 DEF TypeOK
<1>2. CASE /\ worker[w].pc # "idle"
           /\ \E r \in Intent : intents' = [intents EXCEPT ![worker[w].for][worker[w].row] = r]
  BY <1>a, <1>2, RowRewritten DEF WorkerInv
<1>3. CASE ClaimIntent(w)
  <2>1. CASE intents' = [intents EXCEPT ![worker[w].for][worker[w].row] =
               [status |-> "DISPATCHING", attempts |-> @.attempts + 1]]
    <3>1. worker[w].for \in Signers /\ worker[w].row \in DOMAIN intents[worker[w].for]
      BY <1>a, <1>3 DEF ClaimIntent, WorkerInv
    <3>2. intents[worker[w].for] \in Seq(Intent)
      BY <1>a, <3>1 DEF TypeOK
    <3>3. intents[worker[w].for][worker[w].row] \in Intent
      BY <3>1, <3>2
    <3>4. [status |-> "DISPATCHING", attempts |-> intents[worker[w].for][worker[w].row].attempts + 1]
            \in Intent
      BY <3>3 DEF Intent
    <3> QED  BY <1>2, <1>3, <2>1, <3>4 DEF ClaimIntent
  <2> QED  BY <1>1, <1>3, <2>1 DEF ClaimIntent
<1>4. CASE RecordOutcome(w)
  <2>1. worker[w].for \in Signers /\ worker[w].row \in DOMAIN intents[worker[w].for]
    BY <1>a, <1>4 DEF RecordOutcome, WorkerInv
  <2>2. intents[worker[w].for] \in Seq(Intent)
    BY <1>a, <2>1 DEF TypeOK
  <2>3. intents[worker[w].for][worker[w].row] \in Intent
    BY <2>1, <2>2
  <2>4. [intents[worker[w].for][worker[w].row] EXCEPT !.status = worker[w].pc] \in Intent
    BY <1>4, <2>3 DEF RecordOutcome, Intent
  <2>5. intents' = [intents EXCEPT ![worker[w].for][worker[w].row] =
                      [intents[worker[w].for][worker[w].row] EXCEPT !.status = worker[w].pc]]
    BY <1>4 DEF RecordOutcome
  <2> QED  BY <1>2, <1>4, <2>4, <2>5 DEF RecordOutcome
<1>5. CASE ~ClaimIntent(w) /\ ~RecordOutcome(w)
  BY <1>1, <1>5 DEF WorkerOp, WorkerStep, ListIntent, IssueLink, Deliver, WorkerDies
<1> QED  BY <1>3, <1>4, <1>5

LEMMA TypeWorkerState ==
  ASSUME TypeInv, NEW w \in Workers, WorkerOp(w)
  PROVE  /\ worker' \in [Workers -> WorkerTypes]
         /\ slow' \in Nat /\ crashes' \in 0 .. MaxCrashes
         /\ \A v \in Workers : worker'[v].pc # "idle" =>
              worker'[v].for \in Signers /\ worker'[v].row \in DOMAIN intents[worker'[v].for]
<1>a. /\ TypeOK /\ WorkerInv
      /\ worker \in [Workers -> WorkerTypes] /\ worker[w] \in WorkerTypes
  BY DEF TypeInv, TypeOK, WorkerTypes
<1>b. idle \in WorkerTypes /\ idle.pc = "idle"
  BY DEF idle, WorkerTypes, WorkerStates
<1>1. ASSUME NEW r \in WorkerTypes, worker' = [worker EXCEPT ![w] = r],
             r.pc # "idle" => r.for \in Signers /\ r.row \in DOMAIN intents[r.for]
      PROVE  /\ worker' \in [Workers -> WorkerTypes]
             /\ \A v \in Workers : worker'[v].pc # "idle" =>
                  worker'[v].for \in Signers /\ worker'[v].row \in DOMAIN intents[worker'[v].for]
  BY <1>a, <1>1 DEF WorkerInv
<1>2. ASSUME NEW pc \in WorkerStates, NEW n \in Nat, worker[w].pc # "idle"
      PROVE  LET r == [worker[w] EXCEPT !.pc = pc, !.link = n] IN
             r \in WorkerTypes /\ r.for \in Signers /\ r.row \in DOMAIN intents[r.for]
  BY <1>a, <1>2 DEF WorkerTypes, WorkerInv
<1>3. ASSUME NEW pc \in WorkerStates, worker[w].pc # "idle"
      PROVE  LET r == [worker[w] EXCEPT !.pc = pc] IN
             r \in WorkerTypes /\ r.for \in Signers /\ r.row \in DOMAIN intents[r.for]
  BY <1>a, <1>3 DEF WorkerTypes, WorkerInv
<1>c. slow \in Nat /\ crashes \in 0 .. MaxCrashes /\ MaxCrashes \in Nat
  BY <1>a, BoundsAssumption DEF TypeOK
<1>4. CASE \E s \in Signers : \E i \in DOMAIN intents[s] : ListIntent(w, s, i)
  <2>0. PICK s \in Signers : \E i \in DOMAIN intents[s] : ListIntent(w, s, i)
    BY <1>4
  <2>1. PICK i \in DOMAIN intents[s] : ListIntent(w, s, i)
    BY <2>0
  <2> DEFINE r == [pc |-> "listed", for |-> s, row |-> i, seen |-> intents[s][i], link |-> 0]
  <2>2. intents[s] \in Seq(Intent)
    BY <1>a DEF TypeOK
  <2>3. intents[s][i] \in Intent /\ i \in Nat
    BY <2>2
  <2>4. r \in WorkerTypes /\ r.for = s /\ r.row = i
    BY <2>3 DEF WorkerTypes, WorkerStates
  <2>5. worker' = [worker EXCEPT ![w] = r] /\ slow' \in Nat /\ crashes' = crashes
    BY <1>c, <2>1 DEF ListIntent
  <2> HIDE DEF r
  <2> QED  BY <1>1, <1>c, <2>4, <2>5
<1>5. CASE ClaimIntent(w)
  <2>1. "claimed" \in WorkerStates
    BY DEF WorkerStates
  <2>2. /\ worker[w].pc # "idle" /\ slow' = slow /\ crashes' = crashes
        /\ \/ worker' = [worker EXCEPT ![w] = [worker[w] EXCEPT !.pc = "claimed"]]
           \/ worker' = [worker EXCEPT ![w] = idle]
    BY <1>5 DEF ClaimIntent
  <2> QED  BY <1>1, <1>3, <1>b, <1>c, <2>1, <2>2
<1>6. CASE IssueLink(w)
  <2>1. {"issued", "CANCELLED"} \subseteq WorkerStates
    BY DEF WorkerStates
  <2>2. worker[w].pc # "idle" /\ slow' = slow /\ crashes' = crashes
    BY <1>6 DEF IssueLink
  <2>3. worker[w].for \in Signers
    BY <1>a, <2>2 DEF WorkerInv
  <2>4. minted[worker[w].for] + 1 \in Nat
    BY <1>a, <2>3 DEF TypeOK
  <2>5. \/ worker' = [worker EXCEPT ![w] =
                        [worker[w] EXCEPT !.pc = "issued", !.link = minted[worker[w].for] + 1]]
        \/ worker' = [worker EXCEPT ![w] = [worker[w] EXCEPT !.pc = "CANCELLED"]]
    BY <1>a, <1>6 DEF IssueLink
  <2>6. CASE worker' = [worker EXCEPT ![w] =
                          [worker[w] EXCEPT !.pc = "issued", !.link = minted[worker[w].for] + 1]]
    BY <1>1, <1>2, <1>c, <2>1, <2>2, <2>4, <2>6
  <2>7. CASE worker' = [worker EXCEPT ![w] = [worker[w] EXCEPT !.pc = "CANCELLED"]]
    BY <1>1, <1>3, <1>c, <2>1, <2>2, <2>7
  <2> QED  BY <2>5, <2>6, <2>7
<1>7. CASE \E ok \in BOOLEAN : Deliver(w, ok)
  <2>1. {"SENT", "FAILED"} \subseteq WorkerStates
    BY DEF WorkerStates
  <2>2. /\ worker[w].pc # "idle" /\ slow' = slow /\ crashes' = crashes
        /\ \/ worker' = [worker EXCEPT ![w] = [worker[w] EXCEPT !.pc = "SENT"]]
           \/ worker' = [worker EXCEPT ![w] = [worker[w] EXCEPT !.pc = "FAILED"]]
    BY <1>7 DEF Deliver
  <2> QED  BY <1>1, <1>3, <1>c, <2>1, <2>2
<1>8. CASE RecordOutcome(w) \/ WorkerDies(w)
  <2>1. worker' = [worker EXCEPT ![w] = idle] /\ slow' = slow /\ crashes' \in 0 .. MaxCrashes
    BY <1>8, <1>c DEF RecordOutcome, WorkerDies
  <2> QED  BY <1>1, <1>b, <1>c, <2>1
<1> QED  BY <1>4, <1>5, <1>6, <1>7, <1>8 DEF WorkerOp, WorkerStep

LEMMA TypeWorkerSessions ==
  ASSUME TypeInv, NEW w \in Workers, WorkerOp(w)
  PROVE  sessions' \in [Signers -> SUBSET Session] /\ minted' \in [Signers -> Nat]
<1>a. TypeOK
  BY DEF TypeInv
<1>1. \A s \in Signers : Reissued(s, "LINK", FALSE) \in SUBSET Session
  BY <1>a, NewIsSession DEF Reissued, Origins
<1>2. CASE IssueLink(w)
  <2>1. \/ MintFor({worker[w].for}, [t \in Signers |-> Reissued(t, "LINK", FALSE)])
        \/ UNCHANGED <<sessions, minted>>
    BY <1>2 DEF IssueLink, tokenVars
  <2>2. [t \in Signers |-> Reissued(t, "LINK", FALSE)] \in [Signers -> SUBSET Session]
    BY <1>1
  <2> QED  BY <1>a, <2>1, <2>2, MintType DEF TypeOK
<1>3. CASE \E ok \in BOOLEAN : Deliver(w, ok)
  <2>1. PICK ok \in BOOLEAN : Deliver(w, ok)
    BY <1>3
  <2>a. \A x \in Session : [x EXCEPT !.emailed = TRUE] \in Session
    BY DEF Session
  <2>2. \A s \in Signers : \A x \in sessions[s] : [x EXCEPT !.emailed = TRUE] \in Session
    BY <1>a, <2>a DEF TypeOK
  <2>3. worker[w].for \in Signers
    BY <2>1 DEF Deliver, TypeInv, WorkerInv
  <2>4. {IF ok /\ x.n = worker[w].link THEN [x EXCEPT !.emailed = TRUE] ELSE x :
           x \in sessions[worker[w].for]} \in SUBSET Session
    BY <1>a, <2>2, <2>3 DEF TypeOK
  <2> QED  BY <1>a, <2>1, <2>3, <2>4 DEF Deliver, TypeOK
<1>4. CASE ~IssueLink(w) /\ ~\E ok \in BOOLEAN : Deliver(w, ok)
  BY <1>a, <1>4 DEF WorkerOp, WorkerStep, ListIntent, ClaimIntent, RecordOutcome, WorkerDies, tokenVars,
                    TypeOK
<1> QED  BY <1>2, <1>3, <1>4

LEMMA TypeWorker ==
  ASSUME TypeInv, NEW w \in Workers, WorkerOp(w)
  PROVE  TypeInv'
<1>1. UNCHANGED <<setup, status, windowOver, signer, outbox, producer, executed, certified>>
  BY WorkerFrame DEF execVars
<1>2. TypeOK'
  BY <1>1, TypeWorkerRow, TypeWorkerState, TypeWorkerSessions DEF TypeInv, TypeOK, WorkerTypes
<1>3. WorkerInv'
  BY <1>1, TypeWorkerRow, TypeWorkerState DEF WorkerInv
<1>4. LockInv'
  BY <1>1 DEF TypeInv, LockInv
<1> QED  BY <1>2, <1>3, <1>4 DEF TypeInv

LEMMA TypeProducer == TypeInv /\ (ProducerStep \/ ProducerDies) => TypeInv'
<1> SUFFICES ASSUME TypeInv, ProducerStep \/ ProducerDies PROVE TypeInv'
  OBVIOUS
<1>a. TypeOK /\ MaxCrashes \in Nat
  BY BoundsAssumption DEF TypeInv
<1>1. UNCHANGED <<setup, status, windowOver, signer, sessions, minted, intents, worker, slow>>
  BY DEF ProducerStep, ProduceRead, InsertExecuted, InsertCertificate, ProducerDies, tokenVars, workVars
<1>2. producer' \in [pc : {"none", "produce", "stamp", "done", "dead"},
                     read : [Signers -> Values \union {None}] \union {None}]
  <2>1. [s \in Signers |-> signer[s].value] \in [Signers -> Values \union {None}]
    BY <1>a DEF TypeOK, Signer
  <2>2. \/ producer' = [pc |-> "stamp", read |-> [s \in Signers |-> signer[s].value]]
        \/ producer' = producer
        \/ producer' = [producer EXCEPT !.pc = "done"]
        \/ producer' = [producer EXCEPT !.pc = "dead"]
    BY DEF ProducerStep, ProduceRead, InsertExecuted, InsertCertificate, ProducerDies
  <2> QED  BY <1>a, <2>1, <2>2 DEF TypeOK
<1>3. executed' \in [Documents -> [Signers -> Values \union {None}] \union {None}]
  BY <1>a DEF TypeOK, ProducerStep, ProduceRead, InsertExecuted, InsertCertificate, ProducerDies
<1>4. certified' \in BOOLEAN /\ outbox' \in Seq({"DECLINED", "VOIDED", "EXPIRED", "EXECUTED"})
  <2>1. \/ certified' = certified /\ outbox' = outbox
        \/ certified' = TRUE /\ outbox' = Append(outbox, "EXECUTED")
    BY DEF ProducerStep, ProduceRead, InsertExecuted, InsertCertificate, ProducerDies
  <2>2. certified' \in BOOLEAN
    BY <1>a, <2>1 DEF TypeOK
  <2>3. outbox \in Seq({"DECLINED", "VOIDED", "EXPIRED", "EXECUTED"})
    BY <1>a DEF TypeOK
  <2>4. outbox' = outbox \/ outbox' = Append(outbox, "EXECUTED")
    BY <2>1
  <2>5. outbox' \in Seq({"DECLINED", "VOIDED", "EXPIRED", "EXECUTED"})
    BY <2>3, <2>4
  <2> QED  BY <2>2, <2>5
<1>5. crashes' \in 0 .. MaxCrashes
  BY <1>a DEF TypeOK, ProducerStep, ProduceRead, InsertExecuted, InsertCertificate, ProducerDies
<1> QED  BY <1>a, <1>1, <1>2, <1>3, <1>4, <1>5 DEF TypeInv, TypeOK, WorkerInv, LockInv

(* Next, sorted by who takes the step. *)
LEMMA StepKinds ==
  ASSUME Next
  PROVE  \/ TokenStep
         \/ Send \/ Void \/ WindowCloses \/ ExpireSweep
         \/ \E s \in Signers : \E x \in sessions[s] : RecipientOp(s, x)
         \/ \E w \in Workers : WorkerOp(w)
         \/ ProducerStep \/ ProducerDies
         \/ UNCHANGED vars
  BY DEF Next, TokenStep, RecipientStep, RecipientOp, WorkerOp, Settled

LEMMA TypeStep == TypeInv /\ [Next]_vars => TypeInv'
<1>1. TypeInv /\ UNCHANGED vars => TypeInv'
  BY DEF TypeInv, TypeOK, WorkerInv, LockInv, vars, tokenVars, workVars, execVars
<1> QED  BY <1>1, StepKinds, TypeToken, TypeSender, TypeRecipient, TypeWorker, TypeProducer

(* Every row and process keeps its type; a recipient is locked out exactly at the limit of
   wrong access codes.  TypeInv adds that a worker works on a row there is. *)
THEOREM TypeCorrect == Spec => []TypeOK
<1>1. Spec => []TypeInv
  BY TypeInit, TypeStep, PTL DEF Spec
<1>2. TypeInv => TypeOK
  BY DEF TypeInv
<1> QED  BY <1>1, <1>2, PTL

-----------------------------------------------------------------------------
(* Who may change a recipient's row: only a recipient, only its own, and only while the
   envelope is signable. *)
LEMMA RecipientEffect ==
  ASSUME TypeInv, NEW s \in Signers, NEW x \in sessions[s], RecipientOp(s, x)
  PROVE  /\ SignableNow
         /\ setup' = setup
         /\ \A t \in Signers \ {s} : signer'[t] = signer[t]
<1>1. signer \in [Signers -> Signer]
  BY DEF TypeInv, TypeOK
<1>2. SignableNow /\ setup' = setup
  BY DEF RecipientOp, Exchange, AcceptDisclosure, VerifyCode, WrongCode, Delegate,
         FillField, CompleteSigner, Decline, MayAct
<1>3. \A t \in Signers \ {s} : signer'[t] = signer[t]
  BY <1>1 DEF RecipientOp, Exchange, AcceptDisclosure, VerifyCode, WrongCode, Delegate,
              FillField, CompleteSigner, Decline
<1> QED  BY <1>2, <1>3

OtherStep ==
  \/ TokenStep
  \/ Send \/ Void \/ WindowCloses \/ ExpireSweep
  \/ \E w \in Workers : WorkerOp(w)
  \/ ProducerStep \/ ProducerDies
  \/ UNCHANGED vars

LEMMA OtherEffect ==
  ASSUME TypeInv, OtherStep
  PROVE  /\ UNCHANGED <<setup, signer>>
         /\ \/ status' = status
            \/ status = "DRAFT" /\ status' = "SENT"
            \/ status \notin Terminal /\ status' \in {"VOIDED", "EXPIRED"}
<1>1. CASE TokenStep
  BY <1>1 DEF TokenStep, Remind, IssueHosted, IssueSelf, IssueInbox, Lapse
<1>2. CASE Send \/ Void \/ WindowCloses \/ ExpireSweep
  <2>1. status \in Statuses
    BY DEF TypeInv, TypeOK
  <2>2. UNCHANGED <<setup, signer>>
    BY <1>2 DEF Send, Void, WindowCloses, ExpireSweep
  <2>3. CASE Send
    BY <2>1, <2>2, <2>3 DEF Send, Transitions, Statuses
  <2>4. CASE Void
    BY <2>1, <2>2, <2>4 DEF Void, Transitions, Terminal, Terminate, Statuses
  <2>5. CASE WindowCloses
    BY <2>2, <2>5 DEF WindowCloses
  <2>6. CASE ExpireSweep
    BY <2>1, <2>2, <2>6 DEF ExpireSweep, Transitions, Terminal, Terminate, Statuses
  <2> QED  BY <1>2, <2>3, <2>4, <2>5, <2>6
<1>3. CASE \E w \in Workers : WorkerOp(w)
  BY <1>3, WorkerFrame
<1>4. CASE ProducerStep \/ ProducerDies
  BY <1>4 DEF ProducerStep, ProduceRead, InsertExecuted, InsertCertificate, ProducerDies
<1>5. CASE UNCHANGED vars
  BY <1>5 DEF vars
<1> QED  BY <1>1, <1>2, <1>3, <1>4, <1>5 DEF OtherStep

LEMMA TwoKinds ==
  ASSUME [Next]_vars
  PROVE  OtherStep \/ \E s \in Signers : \E x \in sessions[s] : RecipientOp(s, x)
  BY StepKinds DEF OtherStep

-----------------------------------------------------------------------------
(* Signing.  A signed recipient has a value and an acceptance by the present holder; a
   slot that was never delegated has no acceptance by a delegate; a completed envelope
   has only signed recipients. *)
SignedInv ==
  /\ \A s \in Signers :
       /\ signer[s].status = "SIGNED" =>
            signer[s].value # None /\ signer[s].holder \in signer[s].accepted
       /\ signer[s].holder = "first" => "delegate" \notin signer[s].accepted
  /\ status = "COMPLETED" => \A s \in Signers : signer[s].status = "SIGNED"

LEMMA SignedInit == Init => SignedInv
  BY DEF Init, SignedInv

LEMMA SignedStep ==
  ASSUME TypeInv, SignedInv, [Next]_vars
  PROVE  SignedInv'
<1>1. CASE OtherStep
  BY <1>1, OtherEffect DEF SignedInv
<1>2. ASSUME NEW s \in Signers, NEW x \in sessions[s], RecipientOp(s, x)
      PROVE  SignedInv'
  <2>a. /\ signer \in [Signers -> Signer] /\ signer[s] \in Signer
        /\ SignableNow /\ \A t \in Signers \ {s} : signer'[t] = signer[t]
    BY <1>2, RecipientEffect DEF TypeInv, TypeOK
  <2>b. status # "COMPLETED"
    BY <2>a DEF SignableNow
  <2>1. /\ signer'[s].status = "SIGNED" =>
             signer'[s].value # None /\ signer'[s].holder \in signer'[s].accepted
        /\ signer'[s].holder = "first" => "delegate" \notin signer'[s].accepted
    <3>1. CASE Exchange(s, x)
      BY <2>a, <3>1 DEF Exchange, SignedInv, Signer
    <3>2. CASE AcceptDisclosure(s, x)
      BY <2>a, <3>2 DEF AcceptDisclosure, SignedInv, Signer
    <3>3. CASE VerifyCode(s, x)
      BY <2>a, <3>3 DEF VerifyCode, SignedInv, Signer
    <3>4. CASE WrongCode(s, x)
      BY <2>a, <3>4 DEF WrongCode, SignedInv, Signer
    <3>5. CASE Delegate(s, x)
      BY <2>a, <3>5 DEF Delegate, SignedInv, Signer
    <3>6. CASE \E v \in Values : FillField(s, x, v)
      BY <2>a, <3>6, BoundsAssumption DEF FillField, SignedInv, Signer
    <3>7. CASE CompleteSigner(s, x)
      <4>1. signer[s].holder \in signer[s].accepted
        BY <2>a, <3>7 DEF CompleteSigner, HasAccepted, SignedInv, Signer, Holders
      <4>2. signer[s].value # None
        BY <3>7 DEF CompleteSigner
      <4>3. /\ signer'[s].value = signer[s].value /\ signer'[s].holder = signer[s].holder
            /\ signer'[s].accepted = signer[s].accepted
        BY <2>a, <3>7 DEF CompleteSigner, Signer
      <4> QED  BY <4>1, <4>2, <4>3 DEF SignedInv
    <3>8. CASE Decline(s, x)
      BY <2>a, <3>8 DEF Decline, SignedInv, Signer
    <3> QED  BY <1>2, <3>1, <3>2, <3>3, <3>4, <3>5, <3>6, <3>7, <3>8 DEF RecipientOp
  <2>2. status' = "COMPLETED" => \A t \in Signers : signer'[t].status = "SIGNED"
    <3>1. CASE CompleteSigner(s, x)
      BY <2>b, <3>1 DEF CompleteSigner, AllSigned
    <3>2. CASE ~CompleteSigner(s, x)
      BY <1>2, <2>b, <3>2 DEF RecipientOp, Exchange, AcceptDisclosure, VerifyCode, WrongCode, Delegate,
                             FillField, Decline, Terminate
    <3> QED  BY <3>1, <3>2
  <2> QED  BY <2>a, <2>1, <2>2 DEF SignedInv
<1> QED  BY <1>1, <1>2, TwoKinds

(* completeSigner, for any routing and any delegations: when the envelope completes every
   recipient has signed a filled field that the present holder of the slot accepted. *)
THEOREM Completed == Spec => []CompletedIsSound
<1>1. Spec => [](TypeInv /\ SignedInv)
  <2>1. Init => TypeInv /\ SignedInv
    BY TypeInit, SignedInit
  <2>2. TypeInv /\ SignedInv /\ [Next]_vars => (TypeInv /\ SignedInv)'
    BY TypeStep, SignedStep
  <2> QED  BY <2>1, <2>2, PTL DEF Spec
<1>2. SignedInv => CompletedIsSound
  BY DEF SignedInv, CompletedIsSound
<1> QED  BY <1>1, <1>2, PTL

-----------------------------------------------------------------------------
(* Turns.  ActsInTurn is inductive: a recipient acts only when eligible, and one who has
   signed stays signed unless the envelope ends as DECLINED. *)
LEMMA TurnInit == Init => ActsInTurn
  BY DEF Init, ActsInTurn, Acted

LEMMA TurnStep ==
  ASSUME TypeInv, ActsInTurn, [Next]_vars
  PROVE  ActsInTurn'
<1>a. signer \in [Signers -> Signer] /\ status \in Statuses
  BY DEF TypeInv, TypeOK
<1>b. /\ setup.principal \in [Signers -> Signers] /\ setup.order \in [Signers -> Nat]
      /\ setup.routing \in {"PARALLEL", "SEQUENTIAL"}
  BY SetupType DEF TypeInv
<1>1. CASE OtherStep
  <2>1. UNCHANGED <<setup, signer>> /\ (status = "DECLINED" => status' = "DECLINED")
    BY <1>1, OtherEffect DEF Terminal
  <2> QED  BY <2>1 DEF ActsInTurn, Acted
<1>2. ASSUME NEW s \in Signers, NEW x \in sessions[s], RecipientOp(s, x)
      PROVE  ActsInTurn'
  <2>a. setup' = setup /\ SignableNow /\ \A t \in Signers \ {s} : signer'[t] = signer[t]
    BY <1>2, RecipientEffect
  <2>b. status # "DECLINED"
    BY <2>a DEF SignableNow
  <2>1. CASE VerifyCode(s, x) \/ WrongCode(s, x)
    <3>1. /\ signer'[s].status = signer[s].status /\ signer'[s].accepted = signer[s].accepted
          /\ signer'[s].value = signer[s].value /\ status' = status
      BY <1>a, <2>1 DEF VerifyCode, WrongCode, Signer
    <3>2. \A t \in Signers : signer'[t].status = signer[t].status
      BY <2>a, <3>1
    <3>3. \A t \in Signers : Acted(t)' => Acted(t)
      BY <2>a, <3>1 DEF Acted
    <3> QED  BY <1>b, <2>a, <3>1, <3>2, <3>3 DEF ActsInTurn
  <2>2. CASE MayAct(s, x)
    <3>1. Eligible(s)
      BY <2>2 DEF MayAct
    <3>2. setup.routing = "SEQUENTIAL" =>
            /\ signer[s].status # "SIGNED"
            /\ \A t \in Signers : setup.order[t] < setup.order[s] => signer[t].status = "SIGNED"
      BY <1>b, <3>1 DEF Eligible, OnTurn, IsTurn
    <3>3. setup.kind[s] = "WITNESS" => signer[setup.principal[s]].status = "SIGNED"
      BY <3>1 DEF Eligible, WitnessReady
    <3>4. signer[s].status = "SIGNED" => signer'[s].status = "SIGNED" \/ status' = "DECLINED"
      <4>1. CASE Exchange(s, x) \/ AcceptDisclosure(s, x) \/ \E v \in Values : FillField(s, x, v)
        BY <1>a, <4>1 DEF Exchange, AcceptDisclosure, FillField, Signer
      <4>2. CASE VerifyCode(s, x) \/ WrongCode(s, x)
        BY <1>a, <4>2 DEF VerifyCode, WrongCode, Signer
      <4>3. CASE Delegate(s, x)
        BY <4>3 DEF Delegate, Awaiting
      <4>4. CASE CompleteSigner(s, x)
        BY <1>a, <4>4 DEF CompleteSigner, Signer
      <4>5. CASE Decline(s, x)
        BY <4>5 DEF Decline, Terminate
      <4> QED  BY <1>2, <4>1, <4>2, <4>3, <4>4, <4>5 DEF RecipientOp
    <3>5. \A t \in Signers : signer[t].status = "SIGNED" =>
            signer'[t].status = "SIGNED" \/ (t = s /\ status' = "DECLINED")
      BY <2>a, <3>4
    <3>6. ASSUME NEW t \in Signers, Acted(t)', setup.routing = "SEQUENTIAL",
                 NEW u \in Signers, setup.order[u] < setup.order[t]
          PROVE  signer'[u].status = "SIGNED"
      <4>1. CASE t = s
        <5>1. u # s /\ signer[u].status = "SIGNED"
          BY <1>b, <3>2, <3>6, <4>1
        <5> QED  BY <2>a, <5>1
      <4>2. CASE t # s
        <5>1. Acted(t)
          BY <2>a, <3>6, <4>2 DEF Acted
        <5>2. signer[u].status = "SIGNED"
          BY <3>6, <5>1 DEF ActsInTurn
        <5>3. u # s
          BY <3>2, <3>6, <5>2
        <5> QED  BY <2>a, <5>2, <5>3
      <4> QED  BY <4>1, <4>2
    <3>7. ASSUME NEW t \in Signers, Acted(t)', setup.kind[t] = "WITNESS"
          PROVE  status' = "DECLINED" \/ signer'[setup.principal[t]].status = "SIGNED"
      <4>1. signer[setup.principal[t]].status = "SIGNED"
        <5>1. CASE t = s
          BY <3>3, <3>7, <5>1
        <5>2. CASE t # s
          <6>1. Acted(t)
            BY <2>a, <3>7, <5>2 DEF Acted
          <6> QED  BY <2>b, <3>7, <6>1 DEF ActsInTurn
        <5> QED  BY <5>1, <5>2
      <4> QED  BY <1>b, <3>5, <4>1
    <3> QED  BY <2>a, <3>6, <3>7 DEF ActsInTurn
  <2> QED  BY <1>2, <2>1, <2>2 DEF RecipientOp, Exchange, AcceptDisclosure, Delegate, FillField,
                                   CompleteSigner, Decline
<1> QED  BY <1>1, <1>2, TwoKinds

(* assertEligible, for any number of recipients and sessions: nobody acts before their
   turn, and no witness before the recipient it witnesses. *)
THEOREM InTurn == Spec => []ActsInTurn
<1>1. Init => TypeInv /\ ActsInTurn
  BY TypeInit, TurnInit
<1>2. TypeInv /\ ActsInTurn /\ [Next]_vars => (TypeInv /\ ActsInTurn)'
  BY TypeStep, TurnStep
<1> QED  BY <1>1, <1>2, PTL DEF Spec

-----------------------------------------------------------------------------
(* Sessions.  SessionsSound needs only that nothing is minted before the envelope is
   sent: what send adds to is empty. *)
SessionInv == SessionsSound /\ (status = "DRAFT" => \A s \in Signers : sessions[s] = {})

(* What may be done to one recipient's sessions. *)
Sound(X, holder) ==
  /\ \A x, y \in X : {x.origin, y.origin} \subseteq {"LINK", "HOSTED"} => x = y
  /\ \A x \in X : x.to = holder

LEMMA SoundSubset ==
  ASSUME NEW X, NEW h, Sound(X, h), NEW Y \in SUBSET X
  PROVE  Sound(Y, h)
  BY DEF Sound

LEMMA SoundReissued ==
  ASSUME TypeOK, NEW s \in Signers, NEW origin, NEW emailed
  PROVE  Sound(Reissued(s, origin, emailed), signer[s].holder)
  BY DEF Sound, Reissued, NewSession

LEMMA SoundAdded ==
  ASSUME TypeOK, NEW s \in Signers, NEW origin, Sound(sessions[s], signer[s].holder),
         origin \in {"SELF", "INBOX"} \/ sessions[s] = {}
  PROVE  Sound(Added(s, origin), signer[s].holder)
<1> DEFINE n == NewSession(s, origin, TRUE)
<1>1. n.origin = origin /\ n.to = signer[s].holder
  BY DEF NewSession
<1>2. Added(s, origin) = sessions[s] \union {n}
  BY DEF Added
<1> HIDE DEF n
<1> QED  BY <1>1, <1>2 DEF Sound

(* The sessions of every recipient are sound, none works after the end or before sending. *)
LEMMA SessionInvAs ==
  SessionInv <=> /\ \A s \in Signers : Sound(sessions[s], signer[s].holder)
                 /\ status \in Terminal \union {"DRAFT"} => \A s \in Signers : sessions[s] = {}
  BY DEF SessionInv, SessionsSound, OneWorkingLink, SessionsOfHolder, TerminalRevokes, Sound

LEMMA SessionInvNext ==
  (SessionInv)' <=> /\ \A s \in Signers : Sound(sessions'[s], signer'[s].holder)
                    /\ status' \in Terminal \union {"DRAFT"} => \A s \in Signers : sessions'[s] = {}
  BY DEF SessionInv, SessionsSound, OneWorkingLink, SessionsOfHolder, TerminalRevokes, Sound

LEMMA SessionInit == Init => SessionInv
  BY DEF Init, SessionInv, SessionsSound, OneWorkingLink, SessionsOfHolder, TerminalRevokes, Terminal

(* A step that mints, for recipients whose new sessions are sound. *)
LEMMA SessionMint ==
  ASSUME TypeInv, SessionInv, NEW targets, NEW rows,
         MintFor(targets, [s \in Signers |-> rows[s]]),
         \A s \in Signers : s \in targets => Sound(rows[s], signer[s].holder),
         signer' = signer, status' \in {"SENT", "IN_PROGRESS"}
  PROVE  SessionInv'
<1>1. \A s \in Signers : Sound(sessions'[s], signer'[s].holder)
  BY SessionInvAs DEF MintFor
<1> QED  BY <1>1, SessionInvNext DEF Terminal

LEMMA SessionToken == TypeInv /\ SessionInv /\ TokenStep => SessionInv'
<1> SUFFICES ASSUME TypeInv, SessionInv, TokenStep PROVE SessionInv'
  OBVIOUS
<1>a. TypeOK /\ \A s \in Signers : Sound(sessions[s], signer[s].holder)
  BY SessionInvAs DEF TypeInv
<1>b. signer' = signer /\ status' = status
  BY DEF TokenStep, Remind, IssueHosted, IssueSelf, IssueInbox, Lapse
<1>1. CASE \E targets \in SUBSET Signers : Remind(targets)
  <2>1. PICK targets \in SUBSET Signers : Remind(targets)
    BY <1>1
  <2> DEFINE rows == [s \in Signers |-> Reissued(s, "LINK", TRUE)]
  <2>2. \A s \in Signers : Sound(rows[s], signer[s].holder)
    BY <1>a, SoundReissued
  <2>3. MintFor(targets, rows) /\ status' \in {"SENT", "IN_PROGRESS"}
    BY <1>b, <2>1 DEF Remind, SignableNow
  <2>4. rows = [s \in Signers |-> rows[s]]
    OBVIOUS
  <2> HIDE DEF rows
  <2> QED  BY <1>b, <2>2, <2>3, <2>4, SessionMint
<1>2. ASSUME NEW s \in Signers, IssueHosted(s) PROVE SessionInv'
  <2> DEFINE rows == [t \in Signers |-> Reissued(t, "HOSTED", TRUE)]
  <2>2. \A t \in Signers : Sound(rows[t], signer[t].holder)
    BY <1>a, SoundReissued
  <2>3. MintFor({s}, rows) /\ status' \in {"SENT", "IN_PROGRESS"}
    BY <1>b, <1>2 DEF IssueHosted, Issuable, SignableNow
  <2>4. rows = [t \in Signers |-> rows[t]]
    OBVIOUS
  <2> HIDE DEF rows
  <2> QED  BY <1>b, <2>2, <2>3, <2>4, SessionMint
<1>3. ASSUME NEW s \in Signers, NEW origin \in {"SELF", "INBOX"}, SignableNow,
             MintFor({s}, [t \in Signers |-> Added(t, origin)])
      PROVE  SessionInv'
  <2> DEFINE rows == [t \in Signers |-> Added(t, origin)]
  <2>2. \A t \in Signers : Sound(rows[t], signer[t].holder)
    BY <1>a, SoundAdded
  <2>3. MintFor({s}, rows) /\ status' \in {"SENT", "IN_PROGRESS"}
    BY <1>b, <1>3 DEF SignableNow
  <2>4. rows = [t \in Signers |-> rows[t]]
    OBVIOUS
  <2> HIDE DEF rows
  <2> QED  BY <1>b, <2>2, <2>3, <2>4, SessionMint
<1>4. ASSUME NEW s \in Signers, NEW x \in sessions[s], Lapse(s, x) PROVE SessionInv'
  <2>1. \A t \in Signers : sessions'[t] \in SUBSET sessions[t]
    BY <1>a, <1>4 DEF Lapse, TypeOK
  <2>2. \A t \in Signers : Sound(sessions'[t], signer'[t].holder)
    BY <1>a, <1>b, <2>1, SoundSubset
  <2> QED  BY <1>b, <2>1, <2>2, SessionInvAs, SessionInvNext
<1> QED  BY <1>1, <1>2, <1>3, <1>4 DEF TokenStep, IssueSelf, IssueInbox, Issuable

LEMMA SessionSender ==
  TypeInv /\ SessionInv /\ (Send \/ Void \/ WindowCloses \/ ExpireSweep) => SessionInv'
<1> SUFFICES ASSUME TypeInv, SessionInv, Send \/ Void \/ WindowCloses \/ ExpireSweep PROVE SessionInv'
  OBVIOUS
<1>a. TypeOK /\ \A s \in Signers : Sound(sessions[s], signer[s].holder)
  BY SessionInvAs DEF TypeInv
<1>b. signer' = signer
  BY DEF Send, Void, WindowCloses, ExpireSweep
<1>1. CASE Send
  <2> DEFINE rows == [t \in Signers |-> Added(t, "LINK")]
  <2>1. \A t \in Signers : sessions[t] = {}
    BY <1>a, <1>1 DEF Send, Transitions, Statuses, SessionInv, TypeOK
  <2>2. \A t \in Signers : Sound(rows[t], signer[t].holder)
    BY <1>a, <2>1, SoundAdded
  <2>3. MintFor(InvitedAtSend, rows) /\ status' \in {"SENT", "IN_PROGRESS"}
    BY <1>1 DEF Send
  <2>4. rows = [t \in Signers |-> rows[t]]
    OBVIOUS
  <2> HIDE DEF rows
  <2> QED  BY <1>b, <2>2, <2>3, <2>4, SessionMint
<1>2. CASE Void \/ ExpireSweep
  <2>1. \A s \in Signers : sessions'[s] = {}
    BY <1>2 DEF Void, ExpireSweep, Terminate
  <2> QED  BY <2>1, SessionInvNext DEF Sound
<1>3. CASE WindowCloses
  <2>1. \A t \in Signers : sessions'[t] \in SUBSET sessions[t]
    BY <1>3 DEF WindowCloses
  <2>2. \A t \in Signers : Sound(sessions'[t], signer'[t].holder)
    BY <1>a, <1>b, <2>1, SoundSubset
  <2> QED  BY <1>3, <2>1, <2>2, SessionInvAs, SessionInvNext DEF WindowCloses
<1> QED  BY <1>1, <1>2, <1>3

LEMMA SessionRecipient ==
  ASSUME TypeInv, SessionInv, NEW s \in Signers, NEW x \in sessions[s], RecipientOp(s, x)
  PROVE  SessionInv'
<1>a. /\ TypeOK /\ \A t \in Signers : Sound(sessions[t], signer[t].holder)
      /\ signer \in [Signers -> Signer] /\ sessions \in [Signers -> SUBSET Session]
      /\ x \in Session
  BY SessionInvAs DEF TypeInv, TypeOK
<1>b. SignableNow /\ \A t \in Signers \ {s} : signer'[t] = signer[t]
  BY RecipientEffect
<1>1. CASE \A t \in Signers : sessions'[t] = {}
  BY <1>1, SessionInvNext DEF Sound
<1>2. ASSUME \A t \in Signers \ {s} : sessions'[t] = sessions[t],
             Sound(sessions'[s], signer'[s].holder),
             status' \in {"SENT", "IN_PROGRESS"}
      PROVE  SessionInv'
  <2>1. \A t \in Signers : Sound(sessions'[t], signer'[t].holder)
    BY <1>a, <1>b, <1>2
  <2> QED  BY <1>2, <2>1, SessionInvNext DEF Terminal
<1>3. ASSUME \A t \in Signers \ {s} : sessions'[t] = sessions[t], sessions'[s] \in SUBSET sessions[s],
             signer'[s].holder = signer[s].holder,
             status' \in {"SENT", "IN_PROGRESS"}
      PROVE  SessionInv'
  BY <1>a, <1>2, <1>3, SoundSubset
<1>4. CASE Exchange(s, x) \/ AcceptDisclosure(s, x) \/ \E v \in Values : FillField(s, x, v)
  <2>1. signer'[s].holder = signer[s].holder /\ sessions' = sessions
    BY <1>a, <1>4 DEF Exchange, AcceptDisclosure, FillField, Signer, tokenVars
  <2>2. status' \in {"SENT", "IN_PROGRESS"}
    BY <1>b, <1>4 DEF Exchange, AcceptDisclosure, FillField, SignableNow
  <2> QED  BY <1>3, <2>1, <2>2
<1>5. CASE VerifyCode(s, x)
  <2> DEFINE y == [x EXCEPT !.verified = TRUE]
  <2>1. y.origin = x.origin /\ y.to = x.to
    BY <1>a DEF Session
  <2>2. sessions'[s] = (sessions[s] \ {x}) \union {y} /\ \A t \in Signers \ {s} : sessions'[t] = sessions[t]
    BY <1>a, <1>5 DEF VerifyCode
  <2>3. signer'[s].holder = signer[s].holder /\ status' \in {"SENT", "IN_PROGRESS"}
    BY <1>a, <1>b, <1>5 DEF VerifyCode, Signer, SignableNow
  <2> HIDE DEF y
  <2>4. Sound(sessions'[s], signer[s].holder)
    <3>1. Sound(sessions[s], signer[s].holder)
      BY <1>a
    <3> QED  BY <2>1, <2>2, <3>1 DEF Sound
  <2> QED  BY <1>2, <2>2, <2>3, <2>4
<1>6. CASE WrongCode(s, x)
  <2>1. signer'[s].holder = signer[s].holder /\ status' \in {"SENT", "IN_PROGRESS"}
    BY <1>a, <1>b, <1>6 DEF WrongCode, Signer, SignableNow
  <2>2. sessions'[s] \in SUBSET sessions[s] /\ \A t \in Signers \ {s} : sessions'[t] = sessions[t]
    BY <1>a, <1>6 DEF WrongCode
  <2> QED  BY <1>3, <2>1, <2>2
<1>7. CASE Delegate(s, x)
  <2>1. /\ sessions'[s] = {} /\ \A t \in Signers \ {s} : sessions'[t] = sessions[t]
        /\ status' \in {"SENT", "IN_PROGRESS"}
    BY <1>a, <1>b, <1>7 DEF Delegate, DelegatedSessions, SignableNow
  <2> QED  BY <1>2, <2>1 DEF Sound
<1>8. CASE CompleteSigner(s, x)
  <2>1. signer'[s].holder = signer[s].holder
    BY <1>a, <1>8 DEF CompleteSigner, Signer
  <2>2. CASE Terminate("COMPLETED")
    BY <1>1, <2>2 DEF Terminate
  <2>3. CASE sessions' = [sessions EXCEPT ![s] = @ \ {x}] /\ status' = status
    BY <1>3, <1>a, <1>b, <2>1, <2>3 DEF SignableNow
  <2> QED  BY <1>8, <2>2, <2>3 DEF CompleteSigner
<1>9. CASE Decline(s, x)
  BY <1>1, <1>9 DEF Decline, Terminate
<1> QED  BY <1>4, <1>5, <1>6, <1>7, <1>8, <1>9 DEF RecipientOp

LEMMA SessionWorker ==
  ASSUME TypeInv, SessionInv, NEW w \in Workers, WorkerOp(w)
  PROVE  SessionInv'
<1>a. /\ TypeOK /\ \A t \in Signers : Sound(sessions[t], signer[t].holder)
      /\ sessions \in [Signers -> SUBSET Session]
  BY SessionInvAs DEF TypeInv, TypeOK
<1>b. signer' = signer /\ status' = status
  BY WorkerFrame
<1>1. CASE sessions' = sessions
  BY <1>1, <1>a, <1>b, SessionInvAs, SessionInvNext
<1>2. CASE IssueLink(w)
  <2> DEFINE rows == [t \in Signers |-> Reissued(t, "LINK", FALSE)]
  <2>1. CASE StillInvited(worker[w].for) /\ MintFor({worker[w].for}, rows)
    <3>1. \A t \in Signers : Sound(rows[t], signer[t].holder)
      BY <1>a, SoundReissued
    <3>2. status' \in {"SENT", "IN_PROGRESS"}
      BY <1>b, <2>1 DEF StillInvited, SignableNow
    <3>3. rows = [t \in Signers |-> rows[t]]
      OBVIOUS
    <3> HIDE DEF rows
    <3> QED  BY <1>b, <2>1, <3>1, <3>2, <3>3, SessionMint
  <2> QED  BY <1>1, <1>2, <2>1 DEF IssueLink, tokenVars
<1>3. ASSUME NEW ok \in BOOLEAN, Deliver(w, ok) PROVE SessionInv'
  <2> DEFINE s == worker[w].for
             f(x) == IF ok /\ x.n = worker[w].link THEN [x EXCEPT !.emailed = TRUE] ELSE x
  <2>1. \A x \in Session : f(x).origin = x.origin /\ f(x).to = x.to
    BY DEF Session
  <2>2. s \in Signers
    BY <1>3 DEF Deliver, TypeInv, WorkerInv
  <2>3. sessions'[s] = {f(x) : x \in sessions[s]} /\ \A t \in Signers \ {s} : sessions'[t] = sessions[t]
    BY <1>a, <1>3, <2>2 DEF Deliver
  <2>4. Sound(sessions'[s], signer[s].holder)
    <3>1. Sound(sessions[s], signer[s].holder) /\ sessions[s] \in SUBSET Session
      BY <1>a, <2>2
    <3> HIDE DEF f, s
    <3> QED  BY <2>1, <2>3, <3>1 DEF Sound
  <2>5. sessions[s] = {} => sessions'[s] = {}
    BY <2>3
  <2> HIDE DEF f, s
  <2> QED  BY <1>a, <1>b, <2>2, <2>3, <2>4, <2>5, SessionInvAs, SessionInvNext
<1>4. CASE ~IssueLink(w) /\ ~\E ok \in BOOLEAN : Deliver(w, ok)
  <2>1. sessions' = sessions
    BY <1>4 DEF WorkerOp, WorkerStep, ListIntent, ClaimIntent, RecordOutcome, WorkerDies, tokenVars
  <2> QED  BY <1>1, <2>1
<1> QED  BY <1>2, <1>3, <1>4

LEMMA SessionStep ==
  ASSUME TypeInv, SessionInv, [Next]_vars
  PROVE  SessionInv'
<1>1. CASE UNCHANGED <<sessions, signer, status>>
  BY <1>1, SessionInvAs, SessionInvNext
<1>2. CASE ProducerStep \/ ProducerDies \/ UNCHANGED vars
  BY <1>1, <1>2 DEF ProducerStep, ProduceRead, InsertExecuted, InsertCertificate, ProducerDies, tokenVars,
                    vars
<1> QED  BY <1>2, StepKinds, SessionToken, SessionSender, SessionRecipient, SessionWorker

(* For any number of recipients, sessions and invitation workers, some of them overtaken:
   a recipient holds at most one working link, every session that works is the present
   holder's, and none works after the end. *)
THEOREM Sessions == Spec => []SessionsSound
<1>1. Init => TypeInv /\ SessionInv
  BY TypeInit, SessionInit
<1>2. TypeInv /\ SessionInv /\ [Next]_vars => (TypeInv /\ SessionInv)'
  BY TypeStep, SessionStep
<1>3. SessionInv => SessionsSound
  BY DEF SessionInv
<1> QED  BY <1>1, <1>2, <1>3, PTL DEF Spec

-----------------------------------------------------------------------------
(* The outcome.  The producer runs only for a completed envelope, whose fields no longer
   change, so what it read is what the fields hold. *)
OutcomeInv ==
  /\ producer.pc = "none" <=> status # "COMPLETED"
  /\ producer.pc \in {"stamp", "done"} => producer.read = Fields
  /\ \A d \in Documents : executed[d] # None => status = "COMPLETED" /\ executed[d] = Fields
  /\ certified <=> producer.pc = "done"
  /\ certified => \A d \in Documents : executed[d] # None
  /\ OneLifecycleEvent

LEMMA OutcomeInit == Init => OutcomeInv
  BY DEF Init, OutcomeInv, OneLifecycleEvent, Fields

(* Steps that leave the outcome and what it is about alone. *)
LEMMA OutcomeKept ==
  ASSUME OutcomeInv, UNCHANGED <<producer, executed, certified, outbox>>,
         status # "COMPLETED" \/ signer' = signer,
         status' = status \/ {status, status'} \subseteq {"DRAFT", "SENT", "IN_PROGRESS"}
  PROVE  OutcomeInv'
<1>1. CASE status = "COMPLETED"
  <2>1. UNCHANGED <<status, signer>>
    BY <1>1
  <2>2. Fields' = Fields
    BY <2>1 DEF Fields
  <2> QED  BY <2>1, <2>2 DEF OutcomeInv, OneLifecycleEvent
<1>2. CASE status # "COMPLETED"
  <2>1. status' # "COMPLETED" /\ producer.pc = "none" /\ ~certified
    BY <1>2 DEF OutcomeInv
  <2>2. \A d \in Documents : executed[d] = None
    BY <1>2 DEF OutcomeInv
  <2>3. OneLifecycleEvent'
    BY <1>2, <2>1 DEF OutcomeInv, OneLifecycleEvent
  <2> QED  BY <1>2, <2>1, <2>2, <2>3 DEF OutcomeInv
<1> QED  BY <1>1, <1>2

(* A termination other than the completion: the event goes with it. *)
LEMMA OutcomeTold ==
  ASSUME TypeInv, OutcomeInv, NEW to \in {"DECLINED", "VOIDED", "EXPIRED"}, Terminate(to),
         status \in {"DRAFT", "SENT", "IN_PROGRESS"}, UNCHANGED <<producer, executed, certified>>
  PROVE  OutcomeInv'
<1>1. status' = to /\ outbox' = Append(outbox, to)
  BY DEF Terminate, Told
<1>2. outbox = << >>
  BY DEF OutcomeInv, OneLifecycleEvent
<1>3. outbox' = <<to>>
  BY <1>1, <1>2
<1>4. producer.pc = "none" /\ ~certified /\ \A d \in Documents : executed[d] = None
  BY DEF OutcomeInv
<1>5. OneLifecycleEvent'
  BY <1>1, <1>3, <1>4 DEF OneLifecycleEvent
<1> QED  BY <1>1, <1>4, <1>5 DEF OutcomeInv

LEMMA OutcomeRecipient ==
  ASSUME TypeInv, OutcomeInv, NEW s \in Signers, NEW x \in sessions[s], RecipientOp(s, x)
  PROVE  OutcomeInv'
<1>a. SignableNow /\ status \in {"SENT", "IN_PROGRESS"} /\ executed' = executed /\ certified' = certified
  BY RecipientEffect, ActorFrameHolds DEF SignableNow, ActorFrame
<1>1. CASE CompleteSigner(s, x) /\ Terminate("COMPLETED")
  <2>0. producer \in [pc : {"none", "produce", "stamp", "done", "dead"},
                      read : [Signers -> Values \union {None}] \union {None}]
    BY DEF TypeInv, TypeOK
  <2>1. status' = "COMPLETED" /\ outbox' = outbox
    BY <1>1 DEF Terminate, Told
  <2>2. producer.pc = "none" /\ ~certified /\ \A d \in Documents : executed[d] = None
    BY <1>a DEF OutcomeInv
  <2>3. producer'.pc = "produce"
    BY <1>1, <1>a, <2>0, <2>1 DEF CompleteSigner, Produces
  <2>4. OneLifecycleEvent'
    BY <1>a, <2>1, <2>2 DEF OutcomeInv, OneLifecycleEvent
  <2> QED  BY <1>a, <2>1, <2>2, <2>3, <2>4 DEF OutcomeInv
<1>2. CASE Decline(s, x)
  BY <1>2, <1>a, OutcomeTold DEF Decline, execVars
<1>3. CASE ~Decline(s, x) /\ ~(CompleteSigner(s, x) /\ Terminate("COMPLETED"))
  <2>1. UNCHANGED <<producer, outbox>> /\ status' \in {"SENT", "IN_PROGRESS"}
    BY <1>3, <1>a DEF RecipientOp, Exchange, AcceptDisclosure, VerifyCode, WrongCode, Delegate, FillField,
                      CompleteSigner, execVars
  <2> QED  BY <1>a, <2>1, OutcomeKept
<1> QED  BY <1>1, <1>2, <1>3

LEMMA OutcomeProducer == TypeInv /\ OutcomeInv /\ (ProducerStep \/ ProducerDies) => OutcomeInv'
<1> SUFFICES ASSUME TypeInv, OutcomeInv, ProducerStep \/ ProducerDies PROVE OutcomeInv'
  OBVIOUS
<1>a. /\ producer \in [pc : {"none", "produce", "stamp", "done", "dead"},
                       read : [Signers -> Values \union {None}] \union {None}]
      /\ executed \in [Documents -> [Signers -> Values \union {None}] \union {None}]
  BY DEF TypeInv, TypeOK
<1>b. signer' = signer /\ status' = status
  BY DEF ProducerStep, ProduceRead, InsertExecuted, InsertCertificate, ProducerDies
<1>c. Fields' = Fields
  BY <1>b DEF Fields
<1>1. CASE ProduceRead
  <2>1. /\ producer.pc = "produce" /\ producer'.pc = "stamp" /\ producer'.read = Fields
        /\ UNCHANGED <<executed, certified, outbox>>
    BY <1>1 DEF ProduceRead, Fields
  <2> QED  BY <1>b, <1>c, <2>1 DEF OutcomeInv, OneLifecycleEvent
<1>2. CASE \E d \in Documents : InsertExecuted(d)
  <2>1. PICK d \in Documents : InsertExecuted(d)
    BY <1>2
  <2>2. /\ producer.pc = "stamp" /\ UNCHANGED <<producer, certified, outbox>>
        /\ \A e \in Documents : executed'[e] = IF e = d THEN producer.read ELSE executed[e]
    BY <1>a, <2>1 DEF InsertExecuted
  <2>3. status = "COMPLETED" /\ producer.read = Fields /\ ~certified
    BY <2>2 DEF OutcomeInv
  <2> QED  BY <1>b, <1>c, <2>2, <2>3 DEF OutcomeInv, OneLifecycleEvent
<1>3. CASE InsertCertificate
  <2>1. /\ producer.pc = "stamp" /\ producer'.pc = "done" /\ producer'.read = producer.read
        /\ certified' = TRUE /\ outbox' = Append(outbox, "EXECUTED") /\ executed' = executed
        /\ \A d \in Documents : executed[d] # None
    BY <1>a, <1>3 DEF InsertCertificate
  <2>2. status = "COMPLETED" /\ producer.read = Fields /\ outbox = << >>
    BY <2>1 DEF OutcomeInv, OneLifecycleEvent
  <2>3. outbox' = <<"EXECUTED">>
    BY <2>1, <2>2
  <2> QED  BY <1>b, <1>c, <2>1, <2>2, <2>3 DEF OutcomeInv, OneLifecycleEvent
<1>4. CASE ProducerDies
  <2>1. /\ producer.pc \in {"produce", "stamp"} /\ producer'.pc = "dead"
        /\ UNCHANGED <<executed, certified, outbox>>
    BY <1>a, <1>4 DEF ProducerDies
  <2> QED  BY <1>b, <1>c, <2>1 DEF OutcomeInv, OneLifecycleEvent
<1> QED  BY <1>1, <1>2, <1>3, <1>4 DEF ProducerStep

LEMMA OutcomeStep ==
  ASSUME TypeInv, OutcomeInv, [Next]_vars
  PROVE  OutcomeInv'
<1>1. CASE TokenStep
  <2>1. UNCHANGED <<producer, executed, certified, outbox, signer, status>>
    BY <1>1 DEF TokenStep, Remind, IssueHosted, IssueSelf, IssueInbox, Lapse, execVars
  <2> QED  BY <2>1, OutcomeKept
<1>2. CASE Send \/ WindowCloses
  <2>1. status \in Statuses
    BY DEF TypeInv, TypeOK
  <2>2. /\ UNCHANGED <<producer, executed, certified, outbox, signer>>
        /\ status' = status \/ {status, status'} \subseteq {"DRAFT", "SENT", "IN_PROGRESS"}
    BY <1>2, <2>1 DEF Send, WindowCloses, execVars, Transitions, Statuses
  <2> QED  BY <2>2, OutcomeKept
<1>3. CASE Void \/ ExpireSweep
  <2>1. status \in Statuses
    BY DEF TypeInv, TypeOK
  <2>2. status \in {"DRAFT", "SENT", "IN_PROGRESS"} /\ UNCHANGED <<producer, executed, certified>>
    BY <1>3, <2>1 DEF Void, ExpireSweep, execVars, Transitions, Statuses
  <2> QED  BY <1>3, <2>2, OutcomeTold DEF Void, ExpireSweep
<1>4. CASE \E w \in Workers : WorkerOp(w)
  <2>1. UNCHANGED <<producer, executed, certified, outbox, signer, status>>
    BY <1>4, WorkerFrame DEF execVars
  <2> QED  BY <2>1, OutcomeKept
<1>5. CASE UNCHANGED vars
  <2>1. UNCHANGED <<producer, executed, certified, outbox, signer, status>>
    BY <1>5 DEF vars, execVars
  <2> QED  BY <2>1, OutcomeKept
<1> QED  BY <1>1, <1>2, <1>3, <1>4, <1>5, StepKinds, OutcomeRecipient, OutcomeProducer

(* produce and the lifecycle event, for any documents and any number of deaths: what is
   executed carries the final fields, the certificate covers every document, and the end
   of the envelope is told once and as it was. *)
THEOREM Outcome == Spec => []OutcomeSound
<1>1. Init => TypeInv /\ SignedInv /\ OutcomeInv
  BY TypeInit, SignedInit, OutcomeInit
<1>2. TypeInv /\ SignedInv /\ OutcomeInv /\ [Next]_vars => (TypeInv /\ SignedInv /\ OutcomeInv)'
  BY TypeStep, SignedStep, OutcomeStep
<1>3. SignedInv /\ OutcomeInv => OutcomeSound
  BY DEF SignedInv, OutcomeInv, OutcomeSound, ExecutedIsComplete, Fields
<1> QED  BY <1>1, <1>2, <1>3, PTL DEF Spec

-----------------------------------------------------------------------------
(* No step of a recipient, sender, sweep, worker or producer changes the status or a
   recipient's row of a terminal envelope. *)
THEOREM Terminals == Spec => TerminalIsFinal
<1>1. ASSUME TypeInv, [Next]_vars, status \in Terminal
      PROVE  status' = status /\ signer' = signer
  <2>1. ~SignableNow
    BY <1>1 DEF SignableNow, Terminal
  <2>2. OtherStep
    BY <1>1, <2>1, TwoKinds, RecipientEffect
  <2> QED  BY <1>1, <2>2, OtherEffect DEF Terminal
<1>2. TypeInv /\ [Next]_vars => [(status \in Terminal) => (status' = status /\ signer' = signer)]_vars
  BY <1>1
<1> QED  BY <1>2, TypeInit, TypeStep, PTL DEF Spec, TerminalIsFinal

(* Once the last wrong access code has locked a recipient out its row never changes,
   through whatever session: the lock is checked by every operation of that recipient. *)
THEOREM Locked == Spec => LockedIsFrozen
<1>1. ASSUME TypeInv, [Next]_vars, NEW s \in Signers, signer[s].locked
      PROVE  signer'[s] = signer[s]
  <2>1. CASE OtherStep
    BY <2>1, <1>1, OtherEffect
  <2>2. ASSUME NEW t \in Signers, NEW x \in sessions[t], RecipientOp(t, x)
        PROVE  signer'[s] = signer[s]
    <3>1. setup.code[s]
      BY <1>1 DEF TypeInv, LockInv
    <3>2. t # s
      BY <1>1, <2>2, <3>1 DEF RecipientOp, Exchange, AcceptDisclosure, VerifyCode, WrongCode, Delegate,
                              FillField, CompleteSigner, Decline, MayAct, CodeCleared, CodeOpen
    <3> QED  BY <1>1, <2>2, <3>2, RecipientEffect
  <2> QED  BY <1>1, <2>1, <2>2, TwoKinds
<1>2. TypeInv /\ [Next]_vars => [\A s \in Signers : signer[s].locked => signer'[s] = signer[s]]_vars
  BY <1>1
<1> QED  BY <1>2, TypeInit, TypeStep, PTL DEF Spec, LockedIsFrozen

(* The two together, as the run checks them. *)
THEOREM Frozen == Spec => RowsFrozen
  BY Terminals, Locked DEF RowsFrozen

-----------------------------------------------------------------------------
(* The lifecycle.  A step that leaves what the lifecycle shows alone is a stutter. *)
LifecycleStep == Lifecycle!Next \/ UNCHANGED Lifecycle!vars

LEMMA WaitingKept == setup' = setup => Waiting' = Waiting
  BY DEF Waiting, WaitsFor

(* Who may act in the code may act in the lifecycle. *)
LEMMA ReadyToAct ==
  ASSUME TypeInv, NEW s \in Signers, NEW x, MayAct(s, x)
  PROVE  Lifecycle!Ready(s)
<1>1. /\ setup.principal \in [Signers -> Signers] /\ setup.order \in [Signers -> Nat]
      /\ setup.routing \in {"PARALLEL", "SEQUENTIAL"}
  BY SetupType DEF TypeInv
<1>2. Phase = "open"
  BY DEF MayAct, SignableNow, Phase
<1>3. WaitsFor(s) \subseteq HaveSigned
  BY <1>1 DEF MayAct, Eligible, WitnessReady, OnTurn, IsTurn, WaitsFor, HaveSigned
<1> QED  BY <1>2, <1>3 DEF Lifecycle!Ready, Waiting

(* A step of a recipient that neither signs nor declines fills in its field at most. *)
LEMMA LifecycleFill ==
  ASSUME TypeInv, NEW s \in Signers, NEW x \in sessions[s], MayAct(s, x),
         \/ Exchange(s, x) \/ AcceptDisclosure(s, x) \/ Delegate(s, x)
         \/ \E v \in Values : FillField(s, x, v)
  PROVE  Lifecycle!Fill(s)
<1>a. signer \in [Signers -> Signer] /\ signer[s] \in Signer
  BY DEF TypeInv, TypeOK
<1>b. RecipientOp(s, x)
  BY DEF RecipientOp
<1>1. Lifecycle!Ready(s)
  BY ReadyToAct
<1>2. signer' \in [Signers -> Signer] /\ \A t \in Signers \ {s} : signer'[t] = signer[t]
  BY <1>b, SignerRowType, RecipientEffect
<1>3. Fields' \in [Signers -> Values \union {None}]
  BY <1>2 DEF Fields, Signer
<1>4. \A t \in Signers \ {s} : Fields'[t] = Fields[t]
  BY <1>2 DEF Fields
<1>5. signer[s].status = "SIGNED" <=> signer'[s].status = "SIGNED"
  BY <1>a DEF Exchange, AcceptDisclosure, Delegate, FillField, Signer, Awaiting
<1>6. HaveSigned' = HaveSigned
  BY <1>2, <1>5 DEF HaveSigned
<1>7. Waiting' = Waiting
  BY <1>b, RecipientEffect, WaitingKept
<1>8. Phase = "open" /\ Phase' = "open"
  BY DEF MayAct, SignableNow, Phase, Exchange, AcceptDisclosure, Delegate, FillField
<1>9. UNCHANGED <<executed, outbox>>
  BY DEF Exchange, AcceptDisclosure, Delegate, FillField, execVars
<1> QED  BY <1>1, <1>3, <1>4, <1>6, <1>7, <1>8, <1>9 DEF Lifecycle!Fill

LEMMA LifecycleSign ==
  ASSUME TypeInv, NEW s \in Signers, NEW x \in sessions[s], CompleteSigner(s, x)
  PROVE  Lifecycle!Sign(s)
<1>a. signer \in [Signers -> Signer] /\ signer[s] \in Signer
  BY DEF TypeInv, TypeOK
<1>b. RecipientOp(s, x)
  BY DEF RecipientOp
<1> DEFINE rows == [signer EXCEPT ![s].status = "SIGNED", ![s].signed = signer[s].value]
<1>1. Lifecycle!Ready(s) /\ Fields[s] # None
  BY ReadyToAct DEF CompleteSigner, Fields
<1>2. /\ signer' = rows /\ \A t \in Signers \ {s} : rows[t] = signer[t]
      /\ rows[s].status = "SIGNED" /\ rows[s].value = signer[s].value
  BY <1>a DEF CompleteSigner, Signer
<1> HIDE DEF rows
<1>3. Fields' = Fields
  BY <1>2 DEF Fields
<1>4. HaveSigned' = HaveSigned \union {s}
  BY <1>2 DEF HaveSigned
<1>5. HaveSigned' = Signers <=> AllSigned(rows)
  BY <1>2 DEF HaveSigned, AllSigned
<1>6. Phase = "open" /\ executed' = executed
  BY DEF CompleteSigner, MayAct, SignableNow, Phase
<1>7. Phase' = (IF HaveSigned' = Signers THEN "COMPLETED" ELSE "open") /\ outbox' = outbox
  <2>1. CASE AllSigned(rows)
    <3>1. Terminate("COMPLETED")
      BY <2>1 DEF CompleteSigner, rows
    <3> QED  BY <1>5, <2>1, <3>1 DEF Terminate, Told, Phase
  <2>2. CASE ~AllSigned(rows)
    <3>1. UNCHANGED <<status, outbox>>
      BY <2>2 DEF CompleteSigner, rows
    <3> QED  BY <1>5, <1>6, <2>2, <3>1 DEF Phase
  <2> QED  BY <2>1, <2>2
<1>8. Waiting' = Waiting
  BY <1>b, RecipientEffect, WaitingKept
<1> QED  BY <1>1, <1>3, <1>4, <1>6, <1>7, <1>8 DEF Lifecycle!Sign

(* An end other than completion finds nothing told yet. *)
LEMMA LifecycleEnd ==
  ASSUME OutcomeInv, NEW to \in {"DECLINED", "VOIDED", "EXPIRED"}, Terminate(to),
         status \in {"DRAFT", "SENT", "IN_PROGRESS"}
  PROVE  Lifecycle!EndsAs(to)
<1>1. outbox = << >>
  BY DEF OutcomeInv, OneLifecycleEvent
<1>2. outbox' = <<to>> /\ Phase' = to
  BY <1>1 DEF Terminate, Told, Phase
<1> QED  BY <1>1, <1>2 DEF Lifecycle!EndsAs

LEMMA LifecycleDecline ==
  ASSUME TypeInv, OutcomeInv, NEW s \in Signers, NEW x \in sessions[s], Decline(s, x)
  PROVE  Lifecycle!Decline(s)
<1>a. signer \in [Signers -> Signer] /\ signer[s] \in Signer
  BY DEF TypeInv, TypeOK
<1>b. RecipientOp(s, x)
  BY DEF RecipientOp
<1>1. Lifecycle!Ready(s)
  BY ReadyToAct DEF Decline
<1>2. /\ \A t \in Signers \ {s} : signer'[t] = signer[t]
      /\ signer'[s].status = "DECLINED" /\ signer'[s].value = signer[s].value
  BY <1>a DEF Decline, Signer
<1>3. HaveSigned' = HaveSigned \ {s} /\ Fields' = Fields
  BY <1>2 DEF HaveSigned, Fields
<1>4. Lifecycle!EndsAs("DECLINED")
  BY LifecycleEnd DEF Decline, MayAct, SignableNow
<1>5. Waiting' = Waiting /\ executed' = executed
  BY <1>b, RecipientEffect, WaitingKept DEF Decline, execVars
<1> QED  BY <1>1, <1>3, <1>4, <1>5 DEF Lifecycle!Decline

LEMMA LifecycleRecipient ==
  ASSUME TypeInv, OutcomeInv, NEW s \in Signers, NEW x \in sessions[s], RecipientOp(s, x)
  PROVE  LifecycleStep
<1>1. CASE VerifyCode(s, x) \/ WrongCode(s, x)
  <2>a. signer \in [Signers -> Signer] /\ signer[s] \in Signer
    BY DEF TypeInv, TypeOK
  <2>1. /\ UNCHANGED <<setup, status, executed, outbox>>
        /\ \A t \in Signers : signer'[t].status = signer[t].status /\ signer'[t].value = signer[t].value
    BY <1>1, <2>a DEF VerifyCode, WrongCode, Signer, execVars
  <2>2. Fields' = Fields /\ HaveSigned' = HaveSigned /\ Phase' = Phase
    BY <2>1 DEF Fields, HaveSigned, Phase
  <2> QED  BY <2>1, <2>2, WaitingKept DEF LifecycleStep, Lifecycle!vars
<1>2. CASE \/ Exchange(s, x) \/ AcceptDisclosure(s, x) \/ Delegate(s, x)
           \/ \E v \in Values : FillField(s, x, v)
  <2>1. MayAct(s, x)
    BY <1>2 DEF Exchange, AcceptDisclosure, Delegate, FillField
  <2>2. Lifecycle!Fill(s)
    BY <1>2, <2>1, LifecycleFill
  <2> QED  BY <2>2 DEF LifecycleStep, Lifecycle!Next
<1>3. CASE CompleteSigner(s, x)
  <2>1. Lifecycle!Sign(s)
    BY <1>3, LifecycleSign
  <2> QED  BY <2>1 DEF LifecycleStep, Lifecycle!Next
<1>4. CASE Decline(s, x)
  <2>1. Lifecycle!Decline(s)
    BY <1>4, LifecycleDecline
  <2> QED  BY <2>1 DEF LifecycleStep, Lifecycle!Next
<1> QED  BY <1>1, <1>2, <1>3, <1>4 DEF RecipientOp

LEMMA LifecycleSender ==
  ASSUME TypeInv, OutcomeInv, Send \/ Void \/ WindowCloses \/ ExpireSweep
  PROVE  LifecycleStep
<1>a. UNCHANGED <<setup, signer, executed>> /\ status \in Statuses
  BY DEF Send, Void, WindowCloses, ExpireSweep, execVars, TypeInv, TypeOK
<1>b. Fields' = Fields /\ HaveSigned' = HaveSigned /\ Waiting' = Waiting
  BY <1>a, WaitingKept DEF Fields, HaveSigned
<1>1. CASE Send
  <2>1. Phase = "draft" /\ Phase' = "open" /\ outbox' = outbox
    BY <1>a, <1>1 DEF Send, Transitions, Statuses, Phase
  <2>2. Lifecycle!Send
    BY <1>a, <1>b, <2>1 DEF Lifecycle!Send
  <2> QED  BY <2>2 DEF LifecycleStep, Lifecycle!Next
<1>2. CASE WindowCloses
  <2>1. Phase' = Phase /\ outbox' = outbox
    BY <1>2 DEF WindowCloses, Phase
  <2> QED  BY <1>a, <1>b, <2>1 DEF LifecycleStep, Lifecycle!vars
<1>3. CASE Void \/ ExpireSweep
  <2>1. PICK end \in {"VOIDED", "EXPIRED"} : end \in Transitions[status] /\ Terminate(end)
    BY <1>3 DEF Void, ExpireSweep
  <2>2. status \in {"DRAFT", "SENT", "IN_PROGRESS"}
    BY <1>a, <2>1 DEF Transitions, Statuses
  <2>3. Phase \in {"draft", "open"}
    BY <2>2 DEF Phase
  <2>4. Lifecycle!EndsAs(end)
    BY <2>1, <2>2, LifecycleEnd
  <2>5. Lifecycle!Withdraw(end)
    BY <1>a, <1>b, <2>3, <2>4 DEF Lifecycle!Withdraw
  <2> QED  BY <2>5 DEF LifecycleStep, Lifecycle!Next
<1> QED  BY <1>1, <1>2, <1>3

(* The producer stamps what it read earlier, which is what the fields still hold. *)
LEMMA LifecycleProducer ==
  ASSUME TypeInv, OutcomeInv, ProducerStep \/ ProducerDies
  PROVE  LifecycleStep
<1>a. UNCHANGED <<setup, signer, status>>
  BY DEF ProducerStep, ProduceRead, InsertExecuted, InsertCertificate, ProducerDies
<1>b. Fields' = Fields /\ HaveSigned' = HaveSigned /\ Waiting' = Waiting /\ Phase' = Phase
  BY <1>a, WaitingKept DEF Fields, HaveSigned, Phase
<1>c. producer.pc # "none" => Phase = "COMPLETED"
  BY DEF OutcomeInv, Phase
<1>1. CASE ProduceRead \/ ProducerDies
  <2>1. UNCHANGED <<executed, outbox>>
    BY <1>1 DEF ProduceRead, ProducerDies
  <2> QED  BY <1>b, <2>1 DEF LifecycleStep, Lifecycle!vars
<1>2. CASE \E d \in Documents : InsertExecuted(d)
  <2>1. PICK d \in Documents : InsertExecuted(d)
    BY <1>2
  <2>2. producer.read = Fields
    BY <2>1 DEF InsertExecuted, OutcomeInv
  <2>3. Lifecycle!Execute(d)
    BY <1>b, <1>c, <2>1, <2>2 DEF InsertExecuted, Lifecycle!Execute
  <2> QED  BY <2>3 DEF LifecycleStep, Lifecycle!Next
<1>3. CASE InsertCertificate
  <2>1. outbox = << >>
    BY <1>3 DEF InsertCertificate, OutcomeInv, OneLifecycleEvent
  <2>2. outbox' = <<"EXECUTED">>
    BY <1>3, <2>1 DEF InsertCertificate
  <2>3. Lifecycle!Certify
    BY <1>3, <1>b, <1>c, <2>1, <2>2 DEF InsertCertificate, Lifecycle!Certify
  <2> QED  BY <2>3 DEF LifecycleStep, Lifecycle!Next
<1> QED  BY <1>1, <1>2, <1>3 DEF ProducerStep

(* The whole machinery of sessions, invitations, codes, delegations and the producer
   implements EnvelopeLifecycle, for any recipients, setups, documents and workers: the
   executed documents carry the fields of the completed envelope although the producer
   reads them without the lock, and the end is told once. *)
THEOREM LifecycleRefined == Spec => ImplementsLifecycle
<1>1. Init => Lifecycle!Init
  <2> SUFFICES ASSUME Init PROVE Lifecycle!Init
    OBVIOUS
  <2>1. Waiting \in [Signers -> SUBSET Signers]
    BY DEF Waiting, WaitsFor
  <2>2. /\ Phase = "draft" /\ outbox = << >>
        /\ Fields = [s \in Signers |-> None] /\ HaveSigned = {}
        /\ executed = [d \in Documents |-> None]
    BY DEF Init, Phase, Fields, HaveSigned
  <2> QED  BY <2>1, <2>2 DEF Lifecycle!Init
<1>2. ASSUME TypeInv, OutcomeInv, [Next]_vars
      PROVE  [Lifecycle!Next]_(Lifecycle!vars)
  <2>1. CASE UNCHANGED <<setup, signer, status, executed, outbox>>
    <3>1. Fields' = Fields /\ HaveSigned' = HaveSigned /\ Waiting' = Waiting /\ Phase' = Phase
      BY <2>1, WaitingKept DEF Fields, HaveSigned, Phase
    <3> QED  BY <2>1, <3>1 DEF Lifecycle!vars
  <2>2. CASE TokenStep \/ (\E w \in Workers : WorkerOp(w)) \/ UNCHANGED vars
    <3>1. CASE TokenStep
      BY <2>1, <3>1 DEF TokenStep, Remind, IssueHosted, IssueSelf, IssueInbox, Lapse, execVars
    <3>2. CASE \E w \in Workers : WorkerOp(w)
      BY <2>1, <3>2, WorkerFrame DEF execVars
    <3>3. CASE UNCHANGED vars
      BY <2>1, <3>3 DEF vars, execVars
    <3> QED  BY <2>2, <3>1, <3>2, <3>3
  <2>3. \/ TokenStep \/ (\E w \in Workers : WorkerOp(w)) \/ UNCHANGED vars
        \/ LifecycleStep
    BY <1>2, StepKinds, LifecycleSender, LifecycleRecipient, LifecycleProducer
  <2> QED  BY <2>2, <2>3 DEF LifecycleStep
<1>3. Init => TypeInv /\ OutcomeInv
  BY TypeInit, OutcomeInit
<1>4. TypeInv /\ OutcomeInv /\ [Next]_vars => (TypeInv /\ OutcomeInv)'
  BY TypeStep, OutcomeStep
<1> QED  BY <1>1, <1>2, <1>3, <1>4, PTL DEF Spec, ImplementsLifecycle, Lifecycle!Spec

-----------------------------------------------------------------------------
(* What was signed.  In a SEQUENTIAL envelope whoever has signed is no longer on turn, so
   no session of theirs can touch the field; in a PARALLEL one this fails. *)
KeptInv == setup.routing = "SEQUENTIAL" => SignedFieldKept

LEMMA KeptStep ==
  ASSUME TypeInv, KeptInv, [Next]_vars
  PROVE  KeptInv'
<1>1. CASE OtherStep
  BY <1>1, OtherEffect DEF KeptInv, SignedFieldKept
<1>2. ASSUME NEW s \in Signers, NEW x \in sessions[s], RecipientOp(s, x)
      PROVE  KeptInv'
  <2>a. /\ signer \in [Signers -> Signer] /\ signer[s] \in Signer
        /\ setup' = setup /\ \A t \in Signers \ {s} : signer'[t] = signer[t]
    BY <1>2, RecipientEffect DEF TypeInv, TypeOK
  <2>1. CASE VerifyCode(s, x) \/ WrongCode(s, x)
    <3>1. /\ signer'[s].status = signer[s].status /\ signer'[s].value = signer[s].value
          /\ signer'[s].signed = signer[s].signed
      BY <2>a, <2>1 DEF VerifyCode, WrongCode, Signer
    <3> QED  BY <2>a, <3>1 DEF KeptInv, SignedFieldKept
  <2>2. CASE CompleteSigner(s, x)
    <3>1. signer'[s].value = signer'[s].signed
      BY <2>a, <2>2 DEF CompleteSigner, Signer
    <3> QED  BY <2>a, <3>1 DEF KeptInv, SignedFieldKept
  <2>3. CASE \/ Exchange(s, x) \/ AcceptDisclosure(s, x) \/ Delegate(s, x) \/ Decline(s, x)
             \/ \E v \in Values : FillField(s, x, v)
    <3>1. setup.routing = "SEQUENTIAL" => signer[s].status # "SIGNED"
      BY <2>3 DEF Exchange, AcceptDisclosure, Delegate, Decline, FillField, MayAct, Eligible, OnTurn, IsTurn
    <3>2. signer'[s].status = "SIGNED" => signer[s].status = "SIGNED"
      BY <2>a, <2>3 DEF Exchange, AcceptDisclosure, Delegate, Decline, FillField, Signer
    <3> QED  BY <2>a, <3>1, <3>2 DEF KeptInv, SignedFieldKept
  <2> QED  BY <1>2, <2>1, <2>2, <2>3 DEF RecipientOp
<1> QED  BY <1>1, <1>2, TwoKinds

(* fillField promises that "a signer who has completed can no longer alter a field value".
   In a SEQUENTIAL envelope it holds whatever sessions the recipient has, and every
   executed document carries the values that were signed: the finding is confined to
   PARALLEL envelopes. *)
THEOREM SequentialKeepsSignature ==
  Spec => [](setup.routing = "SEQUENTIAL" => SignedFieldKept /\ ExecutedAsSigned)
<1>1. Init => TypeInv /\ SignedInv /\ OutcomeInv /\ KeptInv
  <2>1. Init => KeptInv
    BY DEF Init, KeptInv, SignedFieldKept
  <2> QED  BY <2>1, TypeInit, SignedInit, OutcomeInit
<1>2. TypeInv /\ SignedInv /\ OutcomeInv /\ KeptInv /\ [Next]_vars
        => (TypeInv /\ SignedInv /\ OutcomeInv /\ KeptInv)'
  BY TypeStep, SignedStep, OutcomeStep, KeptStep
<1>3. SignedInv /\ OutcomeInv /\ KeptInv
        => (setup.routing = "SEQUENTIAL" => SignedFieldKept /\ ExecutedAsSigned)
  BY DEF SignedInv, OutcomeInv, KeptInv, SignedFieldKept, ExecutedAsSigned, Fields
<1> QED  BY <1>1, <1>2, <1>3, PTL DEF Spec

-----------------------------------------------------------------------------
(* Claims.  While nobody is overtaken, the worker that delivers an intent is alone on it:
   the row is DISPATCHING, and whoever else has listed it saw fewer attempts. *)
OnRow(v, s, i) == worker[v].pc # "idle" /\ worker[v].for = s /\ worker[v].row = i

ClaimInv ==
  \A w \in Workers : worker[w].pc # "idle" =>
    /\ worker[w].pc = "listed" => worker[w].seen \in Intent /\ worker[w].seen.attempts <= Row(w).attempts
    /\ worker[w].pc # "listed" =>
         /\ Row(w).status = "DISPATCHING"
         /\ \A v \in Workers \ {w} : OnRow(v, worker[w].for, worker[w].row) =>
              worker[v].pc = "listed" /\ worker[v].seen.attempts < Row(w).attempts

LEMMA RowIsIntent ==
  ASSUME TypeInv, NEW w \in Workers, worker[w].pc # "idle"
  PROVE  /\ Row(w) \in Intent /\ worker[w].for \in Signers
         /\ worker[w].row \in DOMAIN intents[worker[w].for] /\ Row(w).attempts \in Nat
<1>1. worker[w].for \in Signers /\ worker[w].row \in DOMAIN intents[worker[w].for]
  BY DEF TypeInv, WorkerInv
<1>2. intents[worker[w].for] \in Seq(Intent)
  BY <1>1 DEF TypeInv, TypeOK
<1>3. Row(w) \in Intent
  BY <1>1, <1>2 DEF Row
<1> QED  BY <1>1, <1>3 DEF Intent

(* The steps of others keep the rows the workers are on. *)
RowsKept ==
  \A s \in Signers : \A i \in DOMAIN intents[s] :
    i \in DOMAIN intents'[s] /\ intents'[s][i] = intents[s][i]

LEMMA WithIntentsKeeps ==
  ASSUME TypeOK, NEW targets, intents' = WithIntents(targets)
  PROVE  RowsKept
<1>1. ASSUME NEW s \in Signers, NEW i \in DOMAIN intents[s]
      PROVE  i \in DOMAIN intents'[s] /\ intents'[s][i] = intents[s][i]
  <2> DEFINE new == [status |-> "PENDING", attempts |-> 0]
  <2>1. intents[s] \in Seq(Intent) /\ new \in Intent
    BY DEF TypeOK, Intent
  <2>2. /\ i \in DOMAIN Append(intents[s], new)
        /\ Append(intents[s], new)[i] = intents[s][i]
    BY <2>1, AppendProperties
  <2>3. intents'[s] = Append(intents[s], new) \/ intents'[s] = intents[s]
    BY DEF WithIntents
  <2> QED  BY <2>2, <2>3
<1> QED  BY <1>1 DEF RowsKept

NotWorker ==
  \/ TokenStep
  \/ Send \/ Void \/ WindowCloses \/ ExpireSweep
  \/ \E s \in Signers : \E x \in sessions[s] : RecipientOp(s, x)
  \/ ProducerStep \/ ProducerDies
  \/ UNCHANGED vars

LEMMA NotWorkerKeeps ==
  ASSUME TypeInv, NotWorker
  PROVE  worker' = worker /\ RowsKept
<1>0. CASE UNCHANGED <<worker, intents>>
  BY <1>0 DEF RowsKept
<1>1. CASE TokenStep
  BY <1>0, <1>1 DEF TokenStep, Remind, IssueHosted, IssueSelf, IssueInbox, Lapse, workVars
<1>2. CASE Send \/ Void \/ WindowCloses \/ ExpireSweep
  BY <1>0, <1>2 DEF Send, Void, WindowCloses, ExpireSweep, workVars
<1>3. ASSUME NEW s \in Signers, NEW x \in sessions[s], RecipientOp(s, x)
      PROVE  worker' = worker /\ RowsKept
  <2>1. worker' = worker
    BY <1>3, ActorFrameHolds DEF ActorFrame, workVars
  <2>2. intents' = intents \/ \E targets \in SUBSET Signers : intents' = WithIntents(targets)
    BY <1>3 DEF RecipientOp, Exchange, AcceptDisclosure, VerifyCode, WrongCode, Delegate, FillField,
                CompleteSigner, Decline, NextInvited
  <2> QED  BY <1>0, <2>1, <2>2, WithIntentsKeeps DEF TypeInv
<1>4. CASE ProducerStep \/ ProducerDies
  BY <1>0, <1>4 DEF ProducerStep, ProduceRead, InsertExecuted, InsertCertificate, ProducerDies, workVars
<1>5. CASE UNCHANGED vars
  BY <1>0, <1>5 DEF vars, workVars
<1> QED  BY <1>1, <1>2, <1>3, <1>4, <1>5 DEF NotWorker

LEMMA ClaimKept ==
  ASSUME TypeInv, ClaimInv, worker' = worker, RowsKept
  PROVE  ClaimInv'
<1>1. \A w \in Workers : worker[w].pc # "idle" => Row(w)' = Row(w)
  BY RowIsIntent DEF RowsKept, Row
<1> QED  BY <1>1 DEF ClaimInv, OnRow

LEMMA ClaimWorker ==
  ASSUME MaxSlow = 0, TypeInv, ClaimInv, NEW w \in Workers, WorkerOp(w)
  PROVE  ClaimInv'
<1>a. /\ worker \in [Workers -> WorkerTypes] /\ worker[w] \in WorkerTypes /\ slow \in Nat
      /\ intents \in [Signers -> Seq(Intent)]
  BY DEF TypeInv, TypeOK, WorkerTypes
<1>b. \A v \in Workers : worker[v].pc # "idle" =>
        Row(v) \in Intent /\ worker[v].for \in Signers /\ Row(v).attempts \in Nat
  BY RowIsIntent
<1>1. CASE \E s \in Signers : \E i \in DOMAIN intents[s] : ListIntent(w, s, i)
  <2>0. PICK s \in Signers : \E i \in DOMAIN intents[s] : ListIntent(w, s, i)
    BY <1>1
  <2>1. PICK i \in DOMAIN intents[s] : ListIntent(w, s, i)
    BY <2>0
  <2>2. /\ intents' = intents /\ \A v \in Workers \ {w} : worker'[v] = worker[v]
        /\ worker'[w].pc = "listed" /\ worker'[w].for = s /\ worker'[w].row = i
        /\ worker'[w].seen = intents[s][i]
    BY <1>a, <2>1 DEF ListIntent
  <2>3. ~Overtakes(s, i)
    BY <1>a, <2>1 DEF ListIntent
  <2>4. intents[s][i] \in Intent
    BY <1>a
  <2>5. /\ \A v \in Workers \ {w} : Row(v)' = Row(v)
        /\ Row(w)' = intents[s][i]
    BY <2>2 DEF Row
  <2>6. \A v \in Workers \ {w} : worker[v].pc \notin {"idle", "listed"} => ~(worker[v].for = s /\ worker[v].row = i)
    <3> SUFFICES ASSUME NEW v \in Workers \ {w}, worker[v].pc \notin {"idle", "listed"},
                        worker[v].for = s, worker[v].row = i
                 PROVE  FALSE
      OBVIOUS
    <3>1. intents[s][i].status = "DISPATCHING"
      BY DEF ClaimInv, Row
    <3> QED  BY <2>3, <3>1 DEF Overtakes, Delivering
  <2>7. intents[s][i].attempts <= intents[s][i].attempts
    BY <2>4 DEF Intent
  <2> QED  BY <2>2, <2>4, <2>5, <2>6, <2>7 DEF ClaimInv, OnRow
<1>2. CASE ClaimIntent(w) /\ Row(w) = worker[w].seen
  <2> DEFINE s == worker[w].for
             i == worker[w].row
             r == [status |-> "DISPATCHING", attempts |-> Row(w).attempts + 1]
  <2>0. worker[w].pc = "listed"
    BY <1>2 DEF ClaimIntent
  <2>1. s \in Signers /\ i \in DOMAIN intents[s] /\ Row(w).attempts \in Nat
    BY <2>0, RowIsIntent
  <2>2. /\ \A v \in Workers \ {w} : worker'[v] = worker[v]
        /\ worker'[w].pc = "claimed" /\ worker'[w].for = s /\ worker'[w].row = i
    BY <1>a, <1>2 DEF ClaimIntent, WorkerTypes
  <2>3. intents' = [intents EXCEPT ![s][i] = r]
    BY <1>2 DEF ClaimIntent, Row
  <2>4. \A v \in Workers \ {w} : OnRow(v, s, i) =>
          worker[v].pc = "listed" /\ worker[v].seen \in Intent /\ worker[v].seen.attempts <= Row(w).attempts
    <3> SUFFICES ASSUME NEW v \in Workers \ {w}, OnRow(v, s, i)
                 PROVE  /\ worker[v].pc = "listed" /\ worker[v].seen \in Intent
                        /\ worker[v].seen.attempts <= Row(w).attempts
      OBVIOUS
    <3>1. Row(v) = Row(w)
      BY DEF OnRow, Row
    <3>2. worker[v].pc # "listed" => worker[w].seen.attempts < Row(v).attempts
      BY <2>0 DEF ClaimInv, OnRow
    <3>3. worker[v].pc = "listed"
      BY <1>2, <2>1, <3>1, <3>2
    <3> QED  BY <3>1, <3>3 DEF ClaimInv
  <2>5. /\ Row(w)' = r
        /\ \A v \in Workers \ {w} : OnRow(v, s, i) => Row(v)' = r
        /\ \A v \in Workers \ {w} : worker[v].pc # "idle" /\ ~OnRow(v, s, i) => Row(v)' = Row(v)
    <3>1. /\ intents'[s][i] = r
          /\ \A t \in Signers : \A j \in DOMAIN intents[t] :
               ~(t = s /\ j = i) => intents'[t][j] = intents[t][j]
      BY <1>a, <2>1, <2>3
    <3>2. \A v \in Workers : worker[v].pc # "idle" =>
            worker[v].for \in Signers /\ worker[v].row \in DOMAIN intents[worker[v].for]
      BY DEF TypeInv, WorkerInv
    <3> HIDE DEF r, s, i
    <3> QED  BY <2>2, <3>1, <3>2 DEF Row, OnRow
  <2>6. r.status = "DISPATCHING" /\ r.attempts = Row(w).attempts + 1
    OBVIOUS
  <2>7. \A n \in Nat : n <= Row(w).attempts => n <= r.attempts /\ n < r.attempts
    BY <2>1
  <2>8. \A v \in Workers \ {w} : OnRow(v, s, i) => worker[v].seen.attempts < r.attempts
    <3>1. \A e \in Intent : e.attempts \in Nat
      BY DEF Intent
    <3> HIDE DEF r, s, i
    <3> QED  BY <2>4, <2>7, <3>1
  <2>9. \A v \in Workers \ {w} : OnRow(v, s, i) => worker[v].seen.attempts <= r.attempts
    <3>1. \A e \in Intent : e.attempts \in Nat
      BY DEF Intent
    <3> HIDE DEF r, s, i
    <3> QED  BY <2>4, <2>7, <3>1
  <2> HIDE DEF r, s, i
  <2>10. ASSUME NEW v \in Workers \ {w}, worker[v].pc # "idle", ~OnRow(v, s, i)
         PROVE  /\ worker'[v].pc = "listed" =>
                     worker'[v].seen \in Intent /\ worker'[v].seen.attempts <= Row(v)'.attempts
                /\ worker'[v].pc # "listed" =>
                     /\ Row(v)'.status = "DISPATCHING"
                     /\ \A u \in Workers \ {v} : OnRow(u, worker[v].for, worker[v].row)' =>
                          worker'[u].pc = "listed" /\ worker'[u].seen.attempts < Row(v)'.attempts
    <3>1. Row(v)' = Row(v) /\ worker'[v] = worker[v]
      BY <2>2, <2>5, <2>10
    <3>2. ~OnRow(w, worker[v].for, worker[v].row)'
      BY <2>2, <2>10, <3>1 DEF OnRow
    <3>3. \A u \in Workers \ {v} : OnRow(u, worker[v].for, worker[v].row)' =>
            OnRow(u, worker[v].for, worker[v].row) /\ worker'[u] = worker[u]
      BY <2>2, <3>1, <3>2 DEF OnRow
    <3> QED  BY <2>10, <3>1, <3>3 DEF ClaimInv
  <2> QED  BY <2>2, <2>4, <2>5, <2>6, <2>8, <2>9, <2>10 DEF ClaimInv, OnRow
<1>3. CASE (ClaimIntent(w) /\ Row(w) # worker[w].seen) \/ WorkerDies(w)
  <2>1. /\ intents' = intents /\ \A v \in Workers \ {w} : worker'[v] = worker[v]
        /\ worker'[w] = idle
    BY <1>a, <1>3 DEF ClaimIntent, WorkerDies
  <2>2. worker'[w].pc = "idle" /\ \A v \in Workers \ {w} : Row(v)' = Row(v)
    BY <2>1 DEF idle, Row
  <2> QED  BY <2>1, <2>2 DEF ClaimInv, OnRow
<1>4. CASE IssueLink(w) \/ \E ok \in BOOLEAN : Deliver(w, ok)
  <2>1. /\ intents' = intents /\ \A v \in Workers \ {w} : worker'[v] = worker[v]
        /\ worker[w].pc \notin {"idle", "listed"} /\ worker'[w].pc \notin {"idle", "listed"}
        /\ worker'[w].for = worker[w].for /\ worker'[w].row = worker[w].row
    BY <1>a, <1>4 DEF IssueLink, Deliver, WorkerTypes
  <2>2. \A v \in Workers : Row(v)' = Row(v)
    BY <2>1 DEF Row
  <2> QED  BY <2>1, <2>2 DEF ClaimInv, OnRow
<1>5. CASE RecordOutcome(w)
  <2> DEFINE s == worker[w].for
             i == worker[w].row
  <2>0. worker[w].pc \notin {"idle", "listed"}
    BY <1>5 DEF RecordOutcome
  <2>1. s \in Signers /\ i \in DOMAIN intents[s] /\ Row(w) \in Intent
    BY <2>0, RowIsIntent
  <2>2. worker'[w].pc = "idle" /\ \A v \in Workers \ {w} : worker'[v] = worker[v]
    BY <1>a, <1>5 DEF RecordOutcome, idle
  <2>3. intents'[s][i].attempts = intents[s][i].attempts
    BY <1>a, <1>5, <2>1 DEF RecordOutcome, Row, Intent
  <2>4. \A t \in Signers : \A j \in DOMAIN intents[t] :
          ~(t = s /\ j = i) => intents'[t][j] = intents[t][j]
    BY <1>a, <1>5, <2>1 DEF RecordOutcome
  <2>5. \A v \in Workers \ {w} : OnRow(v, s, i) => worker[v].pc = "listed"
    BY <2>0 DEF ClaimInv
  <2>6. \A v \in Workers : worker[v].pc # "idle" =>
          worker[v].for \in Signers /\ worker[v].row \in DOMAIN intents[worker[v].for]
    BY DEF TypeInv, WorkerInv
  <2> HIDE DEF s, i
  <2>7. \A v \in Workers \ {w} : OnRow(v, s, i) => Row(v)'.attempts = Row(v).attempts
    BY <2>2, <2>3 DEF OnRow, Row
  <2>8. \A v \in Workers \ {w} : worker[v].pc # "idle" /\ ~OnRow(v, s, i) => Row(v)' = Row(v)
    BY <2>2, <2>4, <2>6 DEF OnRow, Row
  <2> QED  BY <2>2, <2>5, <2>7, <2>8 DEF ClaimInv, OnRow
<1> QED  BY <1>1, <1>2, <1>3, <1>4, <1>5 DEF WorkerOp, WorkerStep, ClaimIntent

(* A link that was not emailed is the business of an intent that is not SENT yet, and a
   worker that delivers that intent delivers this very link. *)
Owes(s, i, n) ==
  /\ intents[s][i].status # "SENT"
  /\ \A w \in Workers : Delivering(w, s, i) =>
       worker[w].pc # "SENT" /\ (worker[w].pc = "issued" => worker[w].link = n)

LinkInv ==
  \A s \in Signers : \A x \in sessions[s] : ~x.emailed => \E i \in DOMAIN intents[s] : Owes(s, i, x.n)

(* No step but a worker's leaves a link that is not emailed where there was none. *)
NoNewLink ==
  \A s \in Signers : \A x \in sessions'[s] : ~x.emailed => \E y \in sessions[s] : ~y.emailed /\ y.n = x.n

LEMMA LinkKept ==
  ASSUME TypeInv, LinkInv, worker' = worker, RowsKept, NoNewLink
  PROVE  LinkInv'
<1> SUFFICES ASSUME NEW s \in Signers, NEW x \in sessions'[s], ~x.emailed
             PROVE  \E i \in DOMAIN intents'[s] : Owes(s, i, x.n)'
  BY DEF LinkInv
<1>1. PICK y \in sessions[s] : ~y.emailed /\ y.n = x.n
  BY DEF NoNewLink
<1>2. PICK i \in DOMAIN intents[s] : Owes(s, i, x.n)
  BY <1>1 DEF LinkInv
<1>3. i \in DOMAIN intents'[s] /\ intents'[s][i] = intents[s][i]
  BY DEF RowsKept
<1>4. Owes(s, i, x.n)'
  BY <1>2, <1>3 DEF Owes, Delivering
<1> QED  BY <1>3, <1>4

LEMMA OthersEmail ==
  ASSUME TypeInv, NotWorker
  PROVE  NoNewLink
<1>a. /\ sessions \in [Signers -> SUBSET Session]
      /\ \A s \in Signers, origin \in Origins : NewSession(s, origin, TRUE).emailed = TRUE
  BY DEF TypeInv, TypeOK, NewSession
<1>0. CASE \A s \in Signers : sessions'[s] \subseteq sessions[s]
  BY <1>0 DEF NoNewLink
<1>1. CASE TokenStep
  <2>1. ASSUME NEW origin \in Origins,
               \A s \in Signers : \/ sessions'[s] = sessions[s]
                                 \/ sessions'[s] = Reissued(s, origin, TRUE)
                                 \/ sessions'[s] = Added(s, origin)
        PROVE  NoNewLink
    <3>1. \A s \in Signers : /\ \A x \in Reissued(s, origin, TRUE) : x.emailed
                             /\ \A x \in Added(s, origin) : x.emailed \/ x \in sessions[s]
      BY <1>a DEF Reissued, Added
    <3> QED  BY <2>1, <3>1 DEF NoNewLink
  <2>3. {"LINK", "HOSTED", "SELF", "INBOX"} \subseteq Origins
    BY DEF Origins
  <2>4. CASE \E targets \in SUBSET Signers : Remind(targets)
    <3>1. \A s \in Signers : sessions'[s] = sessions[s] \/ sessions'[s] = Reissued(s, "LINK", TRUE)
      BY <2>4 DEF Remind, MintFor
    <3> QED  BY <2>1, <2>3, <3>1
  <2>5. CASE \E s \in Signers : IssueHosted(s)
    <3>1. \A s \in Signers : sessions'[s] = sessions[s] \/ sessions'[s] = Reissued(s, "HOSTED", TRUE)
      BY <2>5 DEF IssueHosted, MintFor
    <3> QED  BY <2>1, <2>3, <3>1
  <2>6. CASE \E s \in Signers : IssueSelf(s)
    <3>1. \A s \in Signers : sessions'[s] = sessions[s] \/ sessions'[s] = Added(s, "SELF")
      BY <2>6 DEF IssueSelf, MintFor
    <3> QED  BY <2>1, <2>3, <3>1
  <2>7. CASE \E s \in Signers : IssueInbox(s)
    <3>1. \A s \in Signers : sessions'[s] = sessions[s] \/ sessions'[s] = Added(s, "INBOX")
      BY <2>7 DEF IssueInbox, MintFor
    <3> QED  BY <2>1, <2>3, <3>1
  <2>8. CASE \E s \in Signers : \E x \in sessions[s] : Lapse(s, x)
    BY <1>0, <1>a, <2>8 DEF Lapse
  <2> QED  BY <1>1, <2>4, <2>5, <2>6, <2>7, <2>8 DEF TokenStep
<1>2. CASE Send
  <2>1. \A s \in Signers : \A x \in Added(s, "LINK") : x.emailed \/ x \in sessions[s]
    BY <1>a DEF Added, Origins
  <2> QED  BY <1>2, <1>a, <2>1 DEF Send, MintFor, NoNewLink
<1>3. CASE Void \/ WindowCloses \/ ExpireSweep
  BY <1>0, <1>3, <1>a DEF Void, WindowCloses, ExpireSweep, Terminate
<1>4. ASSUME NEW s \in Signers, NEW x \in sessions[s], RecipientOp(s, x)
      PROVE  NoNewLink
  <2>1. CASE VerifyCode(s, x)
    <3>1. [x EXCEPT !.verified = TRUE].emailed = x.emailed /\ [x EXCEPT !.verified = TRUE].n = x.n
      BY <1>a DEF Session
    <3> QED  BY <1>a, <2>1, <3>1 DEF VerifyCode, NoNewLink
  <2>2. CASE ~VerifyCode(s, x)
    BY <1>0, <1>4, <1>a, <2>2 DEF RecipientOp, Exchange, AcceptDisclosure, WrongCode, Delegate,
         DelegatedSessions, FillField, CompleteSigner, Decline, Terminate, tokenVars
  <2> QED  BY <2>1, <2>2
<1>5. CASE ProducerStep \/ ProducerDies \/ UNCHANGED vars
  BY <1>0, <1>5 DEF ProducerStep, ProduceRead, InsertExecuted, InsertCertificate, ProducerDies, tokenVars, vars
<1> QED  BY <1>1, <1>2, <1>3, <1>4, <1>5 DEF NotWorker

LEMMA LinkWorker ==
  ASSUME TypeInv, ClaimInv, LinkInv, NEW w \in Workers, WorkerOp(w)
  PROVE  LinkInv'
<1>a. /\ worker \in [Workers -> WorkerTypes] /\ worker[w] \in WorkerTypes
      /\ intents \in [Signers -> Seq(Intent)] /\ sessions \in [Signers -> SUBSET Session]
  BY DEF TypeInv, TypeOK, WorkerTypes
<1>b. \A s \in Signers : DOMAIN intents'[s] = DOMAIN intents[s]
  BY TypeWorkerRow
<1>c. \A v \in Workers \ {w} : worker'[v] = worker[v]
  BY <1>a DEF WorkerOp, WorkerStep, ListIntent, ClaimIntent, IssueLink, Deliver, RecordOutcome, WorkerDies
(* It is enough that the sessions stay and that nothing owed is settled. *)
<1>0. ASSUME sessions' = sessions,
             \A s \in Signers : \A i \in DOMAIN intents[s] : \A n \in Nat : Owes(s, i, n) => Owes(s, i, n)'
      PROVE  LinkInv'
  <2>1. \A s \in Signers : \A x \in sessions[s] : x.n \in Nat
    BY <1>a DEF Session
  <2> QED  BY <1>0, <1>b, <2>1 DEF LinkInv
<1>1. CASE \/ \E s \in Signers : \E i \in DOMAIN intents[s] : ListIntent(w, s, i)
           \/ WorkerDies(w)
  <2>1. /\ sessions' = sessions /\ intents' = intents
        /\ worker'[w].pc \in {"idle", "listed"}
    BY <1>a, <1>1 DEF ListIntent, WorkerDies, idle, tokenVars
  <2> QED  BY <1>0, <1>c, <2>1 DEF Owes, Delivering
<1>2. CASE ClaimIntent(w)
  <2>1. sessions' = sessions /\ worker'[w].pc \in {"idle", "claimed"}
    BY <1>a, <1>2 DEF ClaimIntent, idle, tokenVars, WorkerTypes
  <2>2. \A s \in Signers : \A i \in DOMAIN intents[s] :
          intents'[s][i] = intents[s][i] \/ intents'[s][i].status = "DISPATCHING"
    <3>1. worker[w].for \in Signers /\ worker[w].row \in DOMAIN intents[worker[w].for]
      BY <1>2, RowIsIntent DEF ClaimIntent
    <3>2. \/ intents' = intents
          \/ \E r : /\ r.status = "DISPATCHING"
                   /\ intents' = [intents EXCEPT ![worker[w].for][worker[w].row] = r]
      <4> DEFINE r == [status |-> "DISPATCHING",
                       attempts |-> intents[worker[w].for][worker[w].row].attempts + 1]
      <4>1. r.status = "DISPATCHING"
        OBVIOUS
      <4>2. intents' = intents \/ intents' = [intents EXCEPT ![worker[w].for][worker[w].row] = r]
        BY <1>2 DEF ClaimIntent
      <4> QED  BY <4>1, <4>2
    <3>3. ASSUME NEW r, r.status = "DISPATCHING", NEW s \in Signers, NEW i \in DOMAIN intents[s],
                 intents' = [intents EXCEPT ![worker[w].for][worker[w].row] = r]
          PROVE  intents'[s][i] = intents[s][i] \/ intents'[s][i] = r
      BY <1>a, <3>1, <3>3
    <3> QED  BY <3>2, <3>3
  <2> QED  BY <1>0, <1>c, <2>1, <2>2 DEF Owes, Delivering
<1>e. ASSUME worker[w].pc \notin {"idle", "listed"}
      PROVE  \E s \in Signers : \E i \in DOMAIN intents[s] :
               /\ s = worker[w].for /\ i = worker[w].row
               /\ intents[s][i].status = "DISPATCHING"
               /\ \A v \in Workers \ {w} : ~Delivering(v, s, i)
  <2>1. worker[w].for \in Signers /\ worker[w].row \in DOMAIN intents[worker[w].for]
    BY <1>e, RowIsIntent
  <2> QED  BY <1>e, <2>1 DEF ClaimInv, Row, OnRow, Delivering
<1>3. CASE IssueLink(w)
  <2>0. worker[w].pc = "claimed" /\ intents' = intents
    BY <1>3 DEF IssueLink
  <2>s. PICK s \in Signers : \E i \in DOMAIN intents[s] :
               /\ s = worker[w].for /\ i = worker[w].row
               /\ intents[s][i].status = "DISPATCHING"
               /\ \A v \in Workers \ {w} : ~Delivering(v, s, i)
    BY <1>e, <2>0
  <2>i. PICK i \in DOMAIN intents[s] :
               /\ s = worker[w].for /\ i = worker[w].row
               /\ intents[s][i].status = "DISPATCHING"
               /\ \A v \in Workers \ {w} : ~Delivering(v, s, i)
    BY <2>s
  <2>1. CASE worker' = [worker EXCEPT ![w].pc = "CANCELLED"] /\ UNCHANGED tokenVars
    <3>1. worker'[w].pc = "CANCELLED"
      BY <1>a, <2>1 DEF WorkerTypes
    <3>2. sessions' = sessions
      BY <2>1 DEF tokenVars
    <3>3. worker'[w].for = s /\ worker'[w].row = i
      BY <1>a, <2>1, <2>i DEF WorkerTypes
    <3>4. \A t \in Signers : \A j \in DOMAIN intents[t] : \A n \in Nat : Owes(t, j, n) => Owes(t, j, n)'
      BY <1>c, <2>0, <2>i, <3>1, <3>3 DEF Owes, Delivering
    <3> QED  BY <1>0, <3>2, <3>4
  <2>2. CASE /\ MintFor({s}, [t \in Signers |-> Reissued(t, "LINK", FALSE)])
             /\ worker' = [worker EXCEPT ![w].pc = "issued", ![w].link = minted[s] + 1]
    <3>n. PICK n : n = minted[s] + 1
      OBVIOUS
    <3>1. /\ worker'[w].pc = "issued" /\ worker'[w].for = s /\ worker'[w].row = i /\ worker'[w].link = n
      BY <1>a, <2>2, <2>i, <3>n DEF WorkerTypes
    <3>2. /\ \A x \in sessions'[s] : x.n = n
          /\ \A t \in Signers \ {s} : sessions'[t] = sessions[t]
      BY <2>2, <3>n DEF MintFor, Reissued, NewSession
    <3>3. \A v \in Workers : Delivering(v, s, i)' => v = w
      BY <1>c, <2>i DEF Delivering
    <3>4. Owes(s, i, n)'
      BY <2>0, <2>i, <3>1, <3>3 DEF Owes
    <3>5. \A t \in Signers \ {s} : \A j \in DOMAIN intents[t] : \A m : Owes(t, j, m) => Owes(t, j, m)'
      BY <1>c, <2>0, <3>1 DEF Owes, Delivering
    <3>6. \A x \in sessions'[s] : \E j \in DOMAIN intents'[s] : Owes(s, j, x.n)'
      BY <2>0, <3>2, <3>4
    <3>7. \A t \in Signers \ {s} : \A x \in sessions'[t] : ~x.emailed =>
            \E j \in DOMAIN intents'[t] : Owes(t, j, x.n)'
      BY <2>0, <3>2, <3>5 DEF LinkInv
    <3> QED  BY <3>6, <3>7 DEF LinkInv
  <2> QED  BY <1>3, <2>1, <2>2, <2>i DEF IssueLink
<1>4. ASSUME NEW ok \in BOOLEAN, Deliver(w, ok) PROVE LinkInv'
  <2>0. worker[w].pc = "issued" /\ intents' = intents
    BY <1>4 DEF Deliver
  <2>s. PICK s \in Signers : \E i \in DOMAIN intents[s] : s = worker[w].for /\ i = worker[w].row
    BY <1>e, <2>0
  <2>i. PICK i \in DOMAIN intents[s] : s = worker[w].for /\ i = worker[w].row
    BY <2>s
  <2>1. /\ worker'[w].pc = (IF ok THEN "SENT" ELSE "FAILED")
        /\ worker'[w].for = s /\ worker'[w].row = i
    BY <1>a, <1>4, <2>i DEF Deliver, WorkerTypes
  <2>2. /\ \A t \in Signers \ {s} : sessions'[t] = sessions[t]
        /\ \A x \in sessions'[s] : ~x.emailed => x \in sessions[s] /\ ~(ok /\ x.n = worker[w].link)
    <3>1. sessions'[s] = {IF ok /\ x.n = worker[w].link THEN [x EXCEPT !.emailed = TRUE] ELSE x : x \in sessions[s]}
      BY <1>a, <1>4, <2>i DEF Deliver
    <3>2. \A x \in sessions[s] : [x EXCEPT !.emailed = TRUE].emailed = TRUE
      BY <1>a DEF Session
    <3>3. \A t \in Signers \ {s} : sessions'[t] = sessions[t]
      BY <1>a, <1>4, <2>i DEF Deliver
    <3> QED  BY <3>1, <3>2, <3>3
  <2>3. \A t \in Signers : \A j \in DOMAIN intents[t] : \A n :
          Owes(t, j, n) /\ ~(ok /\ t = s /\ j = i) => Owes(t, j, n)'
    BY <1>c, <2>0, <2>1 DEF Owes, Delivering
  <2>4. ASSUME NEW x \in sessions'[s], ~x.emailed
        PROVE  \E j \in DOMAIN intents'[s] : Owes(s, j, x.n)'
    <3>1. PICK j \in DOMAIN intents[s] : Owes(s, j, x.n)
      BY <2>2, <2>4 DEF LinkInv
    <3>2. ~(ok /\ j = i)
      BY <2>0, <2>2, <2>4, <2>i, <3>1 DEF Owes, Delivering
    <3>3. Owes(s, j, x.n)'
      BY <2>3, <3>1, <3>2
    <3> QED  BY <2>0, <3>3
  <2>5. ASSUME NEW t \in Signers \ {s}, NEW x \in sessions'[t], ~x.emailed
        PROVE  \E j \in DOMAIN intents'[t] : Owes(t, j, x.n)'
    <3>1. PICK j \in DOMAIN intents[t] : Owes(t, j, x.n)
      BY <2>2, <2>5 DEF LinkInv
    <3>2. Owes(t, j, x.n)'
      BY <2>3, <3>1
    <3> QED  BY <2>0, <3>2
  <2> QED  BY <2>4, <2>5 DEF LinkInv
<1>5. CASE RecordOutcome(w)
  <2>0. worker[w].pc \in {"SENT", "FAILED", "CANCELLED"} /\ sessions' = sessions
    BY <1>5 DEF RecordOutcome, tokenVars
  <2>s. PICK s \in Signers : \E i \in DOMAIN intents[s] : s = worker[w].for /\ i = worker[w].row
    BY <1>e, <2>0
  <2>i. PICK i \in DOMAIN intents[s] : s = worker[w].for /\ i = worker[w].row
    BY <2>s
  <2>1. worker'[w].pc = "idle"
    BY <1>a, <1>5 DEF RecordOutcome, idle
  <2>2. /\ intents'[s][i].status = worker[w].pc
        /\ \A t \in Signers : \A j \in DOMAIN intents[t] :
             ~(t = s /\ j = i) => intents'[t][j] = intents[t][j]
    <3>1. intents[s][i] \in Intent
      BY <1>a
    <3>2. intents' = [intents EXCEPT ![s][i].status = worker[w].pc]
      BY <1>5, <2>i DEF RecordOutcome
    <3> QED  BY <1>a, <3>1, <3>2 DEF Intent
  <2>3. \A n : Owes(s, i, n) => worker[w].pc # "SENT"
    BY <2>0, <2>i DEF Owes, Delivering
  <2>4. \A t \in Signers : \A j \in DOMAIN intents[t] : \A n \in Nat : Owes(t, j, n) => Owes(t, j, n)'
    BY <1>c, <2>1, <2>2, <2>3 DEF Owes, Delivering
  <2> QED  BY <1>0, <2>0, <2>4
<1> QED  BY <1>1, <1>2, <1>3, <1>4, <1>5 DEF WorkerOp, WorkerStep

(* SigningInvitationService.  As long as no claim outlives STALE_CLAIM_MS while its worker
   delivers, for any number of workers and deaths: a recipient whose intents are all
   recorded as SENT holds no link that was not emailed.  A worker that is overtaken (MaxSlow
   above zero) can break this: the outcome is written by id. *)
THEOREM SentLinks ==
  ASSUME MaxSlow = 0
  PROVE  Spec => []SentLinkWorks
<1>1. Init => TypeInv /\ ClaimInv /\ LinkInv
  <2>1. Init => ClaimInv /\ LinkInv
    BY DEF Init, ClaimInv, LinkInv, idle
  <2> QED  BY <2>1, TypeInit
<1>2. ASSUME TypeInv, ClaimInv, LinkInv, [Next]_vars
      PROVE  (TypeInv /\ ClaimInv /\ LinkInv)'
  <2>1. NotWorker \/ \E w \in Workers : WorkerOp(w)
    BY <1>2, StepKinds DEF NotWorker
  <2>2. CASE NotWorker
    BY <1>2, <2>2, TypeStep, NotWorkerKeeps, OthersEmail, ClaimKept, LinkKept
  <2>3. CASE \E w \in Workers : WorkerOp(w)
    BY <1>2, <2>3, TypeStep, ClaimWorker, LinkWorker
  <2> QED  BY <2>1, <2>2, <2>3
<1>3. TypeInv /\ LinkInv => SentLinkWorks
  <2> SUFFICES ASSUME TypeInv, LinkInv, NEW s \in Signers,
                      \A i \in DOMAIN intents[s] : intents[s][i].status = "SENT",
                      NEW x \in sessions[s]
               PROVE  x.emailed
    BY DEF SentLinkWorks
  <2>1. x.emailed \in BOOLEAN
    BY DEF TypeInv, TypeOK, Session
  <2> QED  BY <2>1 DEF LinkInv, Owes
<1> QED  BY <1>1, <1>2, <1>3, PTL DEF Spec
=============================================================================
