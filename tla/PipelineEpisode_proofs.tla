----------------------- MODULE PipelineEpisode_proofs -----------------------
(***************************************************************************)
(* Theorems about PipelineEpisode, for any number of episodes, recruiters   *)
(* and orchestrator replicas and all bounds.                                *)
(***************************************************************************)
EXTENDS PipelineEpisode, TLAPS

(* An episode that is not born has left no trace, and one with a submittal is born. *)
BirthInv ==
  \A e \in Episodes :
    /\ status[e] = "unborn" => version[e] = 0 /\ disposition[e] = "none"
    /\ history[e] # <<>> => status[e] # "unborn"
    /\ placement[e] # "none" => status[e] # "unborn"

(* The stage was reached before, or the command brings what establishes it. *)
Based(e, c) ==
  \/ c.evidence = "none" /\ \E i \in 1 .. Len(history[e]) : history[e][i].to = c.to
  \/ Admissible(c.to, c.evidence)

(* What the checks before the write leave: the command fits the status it read. *)
Fits(e, c, from) ==
  \/ c.op = "void" /\ from = "no_contact"
  \/ /\ c.op = "move"
     /\ c.to \in LegalNext(from)
     /\ c.to = "not_in_consideration" => c.reason
     /\ c.to \in EvidenceBacked => Based(e, c)
  \/ c.op = "reconcile" /\ from \in {"no_contact", "contacted"}
  \/ c = ClientCommand /\ from \in Active /\ placement[e] = "DECLINED"

(* A request that has recorded a client's decision knows whose episode it ends. *)
DecidedInv ==
  \A r \in Recruiters : tx[r].step = "decided" =>
    /\ tx[r].ep \in Episodes
    /\ placement[tx[r].ep] = "DECLINED"
    /\ tx[r].cmd = ClientCommand

(* A transaction about to write knows a status and a version the episode had together. *)
WriteInv ==
  \A r \in Recruiters : tx[r].step = "write" =>
    /\ tx[r].ep \in Episodes
    /\ status[tx[r].ep] # "unborn"
    /\ tx[r].cmd \in Commands \union {ClientCommand}
    /\ tx[r].version <= version[tx[r].ep]
    /\ tx[r].version = version[tx[r].ep] => tx[r].from = status[tx[r].ep]
    /\ tx[r].seen = tx[r].version
    /\ Fits(tx[r].ep, tx[r].cmd, tx[r].from)

(* What an outcome code says of its episode. *)
Truth(e, code) ==
  /\ code = "completed" => status[e] = "completed"
  /\ code = "dispositioned" =>
       status[e] = "not_in_consideration" /\ disposition[e] = "downstream"
  /\ code = "already_satisfied" => status[e] \in Terminals

(* The same of the next state. *)
Holds(e, code) ==
  /\ code = "completed" => status'[e] = "completed"
  /\ code = "dispositioned" =>
       status'[e] = "not_in_consideration" /\ disposition'[e] = "downstream"
  /\ code = "already_satisfied" => status'[e] \in Terminals

(* A replica works on an event that was emitted, and concludes the truth. *)
JobInv ==
  \A w \in Workers : job[w].step # "idle" =>
    /\ job[w].ep \in Episodes
    /\ placement[job[w].ep] \in Outcomes
    /\ job[w].step = "finish" => Truth(job[w].ep, job[w].code)

Inv ==
  /\ TypeOK
  /\ BirthInv
  /\ DecidedInv
  /\ WriteInv
  /\ JobInv
  /\ OneLiveEpisode
  /\ HistorySound
  /\ EvidenceGrounded
  /\ DispositionMatches
  /\ InboxTruthful

-----------------------------------------------------------------------------
(* What a step can do to the rows. *)

Settled == Outcomes \union {"DECLINED"}

Born(e) ==
  /\ LiveSlotFree
  /\ requisition # "closed"
  /\ status[e] = "unborn"
  /\ status' = [status EXCEPT ![e] = "no_contact"]
  /\ history' = [history EXCEPT ![e] = <<Row("none", "no_contact", "none")>>]
  /\ UNCHANGED <<version, disposition>>

Moved(e, to, kind, authority) ==
  /\ status[e] \in Active
  /\ to \in Statuses
  /\ to \in LegalNext(status[e]) \/ (status[e] = "no_contact" /\ to = "voided")
  /\ kind \in evidence \union {"none"}
  /\ to \in EvidenceBacked => Based(e, [to |-> to, evidence |-> kind])
  /\ authority \in {"none", "recruiter", "downstream"}
  /\ authority # "none" <=> to \in {"not_in_consideration", "completed"}
  /\ to = "completed" => authority = "downstream" /\ placement[e] = "STARTED"
  /\ authority = "downstream" =>
       kind = "none" /\ placement[e] \in Settled /\ to = Target(placement[e])
  /\ requisition = "closed" => to \in Terminals
  /\ GatePermits(requisition, status[e], to)
  /\ Move(e, status[e], to, kind, authority)

Hopped(e) ==
  /\ status[e] = "no_contact"
  /\ "confirmation" \in evidence
  /\ requisition = "open"
  /\ TwoHops(e, "confirmation")

RowStep ==
  \/ UNCHANGED rowVars
  \/ \E e \in Episodes :
       \/ Born(e)
       \/ \E to \in Statuses, kind \in Kinds \union {"none"},
             authority \in {"none", "recruiter", "downstream"} : Moved(e, to, kind, authority)
       \/ Hopped(e)

(* What every one of these leaves of an episode. *)
Grown(e) ==
  /\ version'[e] >= version[e]
  /\ status[e] # "unborn" => status'[e] # "unborn"
  /\ status[e] # "unborn" /\ version'[e] = version[e] => status'[e] = status[e]
  /\ status[e] \in Terminals => status'[e] = status[e] /\ disposition'[e] = disposition[e]
  /\ Len(history'[e]) >= Len(history[e])
  /\ status[e] # "unborn" => \A i \in 1 .. Len(history[e]) : history'[e][i] = history[e][i]

(* The moves of LegalNext stay within the statuses and leave live ones only. *)
LEMMA LegalMoves ==
  ASSUME NEW s, NEW t \in LegalNext(s)
  PROVE  s \in Active /\ t \in Statuses /\ t # "voided" /\ (t = "completed" => s = "qualified")
BY DEF LegalNext, Active, Statuses, Terminals

(* A disposition is legal from every live stage. *)
LEMMA DispositionLegal ==
  ASSUME NEW s \in Active
  PROVE  "not_in_consideration" \in LegalNext(s)
BY DEF Active, LegalNext

(* Write changes the rows in one of these ways. *)
LEMMA WriteShape ==
  ASSUME Inv, NEW r \in Recruiters, Write(r)
  PROVE  RowStep
<1>1. CASE UNCHANGED rowVars
  BY <1>1 DEF RowStep
<1>2. CASE ~UNCHANGED rowVars
  <2> DEFINE t == tx[r]
             e == tx[r].ep
             c == tx[r].cmd
  <2>1. /\ t.step = "write"
        /\ version[e] = t.version
        /\ Permitted(r)
        /\ IF Hops(r) = 2
           THEN TwoHops(e, c.evidence)
           ELSE Move(e, t.from, c.to, c.evidence, Authority(c))
    BY <1>2 DEF Write, Swappable
  <2>2. /\ e \in Episodes
        /\ c \in Commands \union {ClientCommand}
        /\ t.from = status[e]
        /\ Fits(e, c, t.from)
    BY <2>1 DEF Inv, WriteInv
  <2>21. c.op # "client" => c \in Commands
    BY <2>2 DEF ClientCommand
  <2>3. CASE c.op = "void"
    <3>1. c.to = "voided" /\ c.evidence = "none" /\ c.reason = FALSE
      BY <2>21, <2>3 DEF Commands
    <3>2. status[e] = "no_contact"
      BY <2>2, <2>3 DEF Fits, ClientCommand
    <3>3. Move(e, status[e], "voided", "none", "none")
      BY <2>1, <2>2, <2>3, <3>1 DEF Hops, Authority
    <3>4. Moved(e, "voided", "none", "none")
      BY <3>2, <3>3 DEF Moved, Active, Statuses, Terminals, EvidenceBacked, GatePermits
    <3> QED
      BY <2>2, <3>4 DEF RowStep, Statuses, Terminals
  <2>4. CASE c.op = "move"
    <3>1. /\ c.to \in LegalNext(status[e])
          /\ c.to = "not_in_consideration" => c.reason
          /\ c.to \in EvidenceBacked => Based(e, c)
      BY <2>2, <2>4 DEF Fits, ClientCommand
    <3>2. /\ c.to \in Statuses
          /\ c.to # "completed"
          /\ c.evidence \in Kinds \union {"none"}
          /\ c.reason \in BOOLEAN
          /\ c.reason => c.to = "not_in_consideration"
      BY <2>21, <2>4 DEF Commands, Statuses, Active, Terminals, EvidenceBacked
    <3>3. status[e] \in Active
      BY <3>1, LegalMoves
    <3>4. PICK a \in {"none", "recruiter"} : a = Authority(c)
      BY <2>4 DEF Authority
    <3>5. Move(e, status[e], c.to, c.evidence, a)
      BY <2>1, <2>2, <2>4, <3>4 DEF Hops
    <3>6. a # "none" <=> c.to \in {"not_in_consideration", "completed"}
      BY <2>4, <3>1, <3>2, <3>4 DEF Authority
    <3>7. c.evidence \in evidence \union {"none"} /\ GatePermits(requisition, status[e], c.to)
      BY <2>1, <2>2, <2>4 DEF Permitted
    <3>8. requisition = "closed" => c.to \in Terminals
      BY <3>7 DEF GatePermits, RequisitionPermits
    <3>9. c.to \in EvidenceBacked => Based(e, [to |-> c.to, evidence |-> c.evidence])
      BY <3>1 DEF Based
    <3>10. Moved(e, c.to, c.evidence, a)
      BY <3>1, <3>2, <3>3, <3>4, <3>5, <3>6, <3>7, <3>8, <3>9 DEF Moved
    <3> QED
      BY <2>2, <3>2, <3>10 DEF RowStep
  <2>5. CASE c.op = "reconcile"
    <3>1. /\ c.to = "talent_responded"
          /\ c.evidence = "confirmation"
          /\ c.reason = FALSE
      BY <2>21, <2>5 DEF Commands
    <3>2. status[e] \in {"no_contact", "contacted"}
      BY <2>2, <2>5 DEF Fits, ClientCommand
    <3>3. "confirmation" \in evidence /\ GatePermits(requisition, status[e], "talent_responded")
      BY <2>1, <2>2, <2>5, <3>1 DEF Permitted
    <3>4. requisition # "closed"
      BY <3>2, <3>3 DEF GatePermits, RequisitionPermits, Terminals, Ordinal
    <3>5. CASE status[e] = "no_contact"
      <4>1. TwoHops(e, "confirmation")
        BY <2>1, <2>2, <2>5, <3>1, <3>5 DEF Hops
      <4>2. requisition = "open"
        BY <3>3, <3>5 DEF GatePermits, RequisitionPermits, Terminals, Ordinal
      <4> QED
        BY <2>2, <3>3, <3>5, <4>1, <4>2 DEF RowStep, Hopped
    <3>6. CASE status[e] = "contacted"
      <4>1. Move(e, status[e], "talent_responded", "confirmation", "none")
        BY <2>1, <2>2, <2>5, <3>1, <3>6 DEF Hops, Authority
      <4>2. Based(e, [to |-> "talent_responded", evidence |-> "confirmation"])
        BY DEF Based, Admissible
      <4>3. Moved(e, "talent_responded", "confirmation", "none")
        BY <3>3, <3>4, <3>6, <4>1, <4>2
        DEF Moved, Active, Statuses, LegalNext
      <4> QED
        BY <2>2, <4>3 DEF RowStep, Statuses, Active, Kinds
    <3> QED
      BY <3>2, <3>5, <3>6
  <2>6. CASE c = ClientCommand
    <3>1. /\ c.op = "client"
          /\ c.to = "not_in_consideration"
          /\ c.evidence = "none"
          /\ c.reason = FALSE
      BY <2>6 DEF ClientCommand
    <3>2. status[e] \in Active /\ placement[e] = "DECLINED"
      BY <2>2, <3>1 DEF Fits
    <3>3. Move(e, status[e], "not_in_consideration", "none", "downstream")
      BY <2>1, <2>2, <3>1 DEF Hops, Authority
    <3>4. "not_in_consideration" \in LegalNext(status[e])
      BY <3>2, DispositionLegal
    <3>5. Moved(e, "not_in_consideration", "none", "downstream")
      BY <3>2, <3>3, <3>4
      DEF Moved, Statuses, Terminals, EvidenceBacked, Settled, Target, GatePermits
    <3> QED
      BY <2>2, <3>5 DEF RowStep, Statuses, Terminals
  <2> QED
    BY <2>2, <2>3, <2>4, <2>5, <2>6 DEF Fits
<1> QED
  BY <1>1, <1>2

(* So does every step. *)
LEMMA Shape ==
  ASSUME Inv, Next
  PROVE  RowStep
<1>1. ASSUME NEW r \in Recruiters, Add(r)
      PROVE  RowStep
  <2>1. CASE UNCHANGED rowVars
    BY <2>1 DEF RowStep
  <2>2. CASE ~UNCHANGED rowVars
    <3>1. Addable(r) /\ UNCHANGED <<version, disposition>>
      BY <1>1, <2>2 DEF Add
    <3>2. PICK e \in Episodes :
            /\ status[e] = "unborn"
            /\ status' = [status EXCEPT ![e] = "no_contact"]
            /\ history' = [history EXCEPT ![e] = <<Row("none", "no_contact", "none")>>]
      BY <1>1, <2>2 DEF Add
    <3>3. requisition # "closed" /\ LiveSlotFree
      BY <3>1 DEF Addable, RequisitionPermits
    <3> QED
      BY <3>1, <3>2, <3>3 DEF RowStep, Born
  <2> QED
    BY <2>1, <2>2
<1>2. ASSUME NEW w \in Workers, Command(w)
      PROVE  RowStep
  <2> DEFINE e == job[w].ep
             to == Target(placement[e])
  <2>1. CASE UNCHANGED rowVars
    BY <2>1 DEF RowStep
  <2>2. CASE ~UNCHANGED rowVars
    <3>1. to \in LegalNext(status[e]) /\ Move(e, status[e], to, "none", "downstream")
      BY <1>2, <2>2 DEF Command
    <3>2. e \in Episodes /\ placement[e] \in Outcomes
      BY <1>2 DEF Inv, JobInv, Command
    <3>3. to \in {"not_in_consideration", "completed"} /\ (to = "completed" => placement[e] = "STARTED")
      BY DEF Target
    <3>4. status[e] \in Active /\ to \in Statuses /\ to \in Terminals
      BY <3>1, <3>3, LegalMoves DEF Terminals
    <3>5. to \notin EvidenceBacked
      BY <3>3 DEF EvidenceBacked
    <3>6. Moved(e, to, "none", "downstream")
      BY <3>1, <3>2, <3>3, <3>4, <3>5 DEF Moved, Settled, GatePermits
    <3> QED
      BY <3>2, <3>4, <3>6 DEF RowStep
  <2> QED
    BY <2>1, <2>2
<1>3. ASSUME NEW r \in Recruiters,
             \/ AddCheck(r) \/ LoadDecided(r)
             \/ \E e \in Episodes : Decide(r, e)
             \/ \E e \in Episodes, c \in Commands : Read(r, e, c)
      PROVE  RowStep
  BY <1>3 DEF AddCheck, LoadDecided, Decide, Read, RowStep
<1>4. ASSUME NEW w \in Workers,
             \/ Reserve(w) \/ Load(w) \/ Finish(w) \/ Crash(w)
             \/ \E e \in Episodes : Pick(w, e)
      PROVE  RowStep
  BY <1>4 DEF Reserve, Load, Finish, Crash, Pick, RowStep
<1>5. CASE PlatformNext
  BY <1>5 DEF PlatformNext, SetRequisition, RecordEvidence, Submit, PlacementEnds, RowStep
<1> QED
  BY <1>1, <1>2, <1>3, <1>4, <1>5, WriteShape
  DEF Next, RecruiterNext, WorkerNext, WorkerStep

-----------------------------------------------------------------------------
(* Types. *)

RowTypes ==
  /\ status \in [Episodes -> Statuses \union {"unborn"}]
  /\ version \in [Episodes -> Nat]
  /\ history \in [Episodes -> Seq(Rows)]
  /\ disposition \in [Episodes -> {"none", "recruiter", "downstream"}]

(* The rows keep their types. *)
LEMMA RowsTyped ==
  ASSUME TypeOK, RowStep
  PROVE  RowTypes'
<1> USE DEF TypeOK, RowTypes
<1>1. CASE UNCHANGED rowVars
  BY <1>1 DEF rowVars
<1>2. ASSUME NEW e \in Episodes, Born(e)
      PROVE  RowTypes'
  <2>1. Row("none", "no_contact", "none") \in Rows
    BY DEF Row, Rows, Statuses, Active
  <2>2. <<Row("none", "no_contact", "none")>> \in Seq(Rows)
    BY <2>1
  <2> QED
    BY <1>2, <2>2 DEF Born, Statuses, Active
<1>3. ASSUME NEW e \in Episodes, NEW to \in Statuses, NEW kind \in Kinds \union {"none"},
             NEW a \in {"none", "recruiter", "downstream"}, Moved(e, to, kind, a)
      PROVE  RowTypes'
  <2>1. status[e] \in Statuses /\ Move(e, status[e], to, kind, a)
    BY <1>3 DEF Moved, Statuses
  <2>2. Row(status[e], to, kind) \in Rows
    BY <2>1 DEF Row, Rows
  <2>3. Append(history[e], Row(status[e], to, kind)) \in Seq(Rows)
    BY <2>2
  <2>4. history' \in [Episodes -> Seq(Rows)]
    BY <2>1, <2>3 DEF Move
  <2>5. status' \in [Episodes -> Statuses \union {"unborn"}] /\ version' \in [Episodes -> Nat]
    BY <2>1 DEF Move
  <2>6. disposition' \in [Episodes -> {"none", "recruiter", "downstream"}]
    BY <2>1 DEF Move
  <2> QED
    BY <2>4, <2>5, <2>6
<1>4. ASSUME NEW e \in Episodes, Hopped(e)
      PROVE  RowTypes'
  <2>1. /\ Row("no_contact", "contacted", "confirmation") \in Rows
        /\ Row("contacted", "talent_responded", "confirmation") \in Rows
    BY DEF Row, Rows, Statuses, Active, Kinds
  <2>2. Append(Append(history[e], Row("no_contact", "contacted", "confirmation")),
               Row("contacted", "talent_responded", "confirmation")) \in Seq(Rows)
    BY <2>1
  <2>3. history' \in [Episodes -> Seq(Rows)]
    BY <1>4, <2>2 DEF Hopped, TwoHops
  <2> QED
    BY <1>4, <2>3 DEF Hopped, TwoHops, Statuses, Active
<1> QED
  BY <1>1, <1>2, <1>3, <1>4 DEF RowStep

(* The fields a request and a job are made of. *)
LEMMA Nothing == Idle \in Requests /\ NoJob \in Jobs
BY DEF Idle, Requests, AddCommand, Statuses, Active, NoJob, Jobs, OutcomeCodes

(* Requests, jobs and the rest of the state keep theirs. *)
LEMMA RestTyped ==
  ASSUME Inv, Next
  PROVE  /\ requisition' \in RequisitionStatuses
         /\ evidence' \in SUBSET Kinds
         /\ placement' \in [Episodes -> {"none", "submitted", "DECLINED"} \union Outcomes]
         /\ inbox' \in [Episodes -> {"absent", "pending"} \union OutcomeCodes]
         /\ tx' \in [Recruiters -> Requests]
         /\ job' \in [Workers -> Jobs]
         /\ moves' \in 0 .. MaxMoves
         /\ crashes' \in 0 .. MaxCrashes
<1> DEFINE Rest == /\ requisition \in RequisitionStatuses
                   /\ evidence \in SUBSET Kinds
                   /\ placement \in [Episodes -> {"none", "submitted", "DECLINED"} \union Outcomes]
                   /\ inbox \in [Episodes -> {"absent", "pending"} \union OutcomeCodes]
                   /\ tx \in [Recruiters -> Requests]
                   /\ job \in [Workers -> Jobs]
                   /\ moves \in 0 .. MaxMoves
                   /\ crashes \in 0 .. MaxCrashes
<1>0. Rest /\ RowTypes
  BY DEF Inv, TypeOK, RowTypes
<1>1. ASSUME NEW r \in Recruiters, AddCheck(r)
      PROVE  Rest'
  <2>1. PICK x \in {requisition, "none"} :
          tx' = [tx EXCEPT ![r] = [Idle EXCEPT !.step = "insert", !.expected = x]]
    BY <1>1 DEF AddCheck
  <2>2. [Idle EXCEPT !.step = "insert", !.expected = x] \in Requests
    BY <1>0, Nothing DEF Requests
  <2> QED
    BY <1>0, <1>1, <2>1, <2>2 DEF AddCheck
<1>2. ASSUME NEW r \in Recruiters, Add(r) \/ Write(r)
      PROVE  Rest'
  <2>1. tx' = [tx EXCEPT ![r] = Idle]
    BY <1>2 DEF Add, Write, Answer
  <2>2. moves' \in 0 .. MaxMoves
    BY <1>0, <1>2, EpisodeAssumption DEF EpisodeAssumption, Add, Write, Hops
  <2> QED
    BY <1>0, <1>2, <2>1, <2>2, Nothing DEF Add, Write
<1>3. ASSUME NEW r \in Recruiters, NEW e \in Episodes, NEW c \in Commands, Read(r, e, c)
      PROVE  Rest'
  <2>1. PICK n \in 0 .. version[e] :
          /\ Accepted(e, c, n)
          /\ tx' = [tx EXCEPT ![r] = [Idle EXCEPT !.step = "write", !.ep = e, !.cmd = c,
                                !.seen = n, !.from = status[e], !.version = version[e]]]
    BY <1>3 DEF Read
  <2>2. status[e] \in Statuses /\ version[e] \in Nat
    BY <1>0, <1>3 DEF RowTypes, Read
  <2>3. n \in Nat
    BY <2>1, <2>2
  <2>4. [Idle EXCEPT !.step = "write", !.ep = e, !.cmd = c, !.seen = n,
                     !.from = status[e], !.version = version[e]] \in Requests
    BY <2>2, <2>3, Nothing DEF Requests
  <2> QED
    BY <1>0, <1>3, <2>1, <2>4 DEF Read
<1>31. ASSUME NEW r \in Recruiters, NEW e \in Episodes, Decide(r, e)
       PROVE  Rest'
  <2>1. [Idle EXCEPT !.step = "decided", !.ep = e, !.cmd = ClientCommand] \in Requests
    BY Nothing DEF Requests
  <2> QED
    BY <1>0, <1>31, <2>1 DEF Decide
<1>32. ASSUME NEW r \in Recruiters, LoadDecided(r)
       PROVE  Rest'
  <2> DEFINE e == tx[r].ep
  <2>1. e \in Episodes
    BY <1>32 DEF Inv, DecidedInv, LoadDecided
  <2>2. CASE Live(e)
    <3>1. status[e] \in Statuses /\ version[e] \in Nat
      BY <1>0, <2>1, <2>2 DEF RowTypes, Live, Statuses
    <3>2. [tx[r] EXCEPT !.step = "write", !.seen = version[e], !.from = status[e],
                        !.version = version[e]] \in Requests
      BY <1>0, <3>1 DEF Requests
    <3>3. tx' \in [Recruiters -> Requests]
      BY <1>0, <1>32, <3>2, Nothing DEF LoadDecided, Answer
    <3> QED
      BY <1>0, <1>32, <3>3 DEF LoadDecided
  <2>3. CASE ~Live(e)
    BY <1>0, <1>32, <2>3, Nothing DEF LoadDecided, Answer
  <2> QED
    BY <2>2, <2>3
<1>4. ASSUME NEW w \in Workers, NEW e \in Episodes, Pick(w, e)
      PROVE  Rest'
  <2>1. [NoJob EXCEPT !.step = "reserve", !.ep = e] \in Jobs
    BY Nothing DEF Jobs
  <2> QED
    BY <1>0, <1>4, <2>1 DEF Pick
<1>5. ASSUME NEW w \in Workers, Reserve(w)
      PROVE  Rest'
  <2>1. [job[w] EXCEPT !.step = "load"] \in Jobs
    BY <1>0 DEF Jobs
  <2>2. job' \in [Workers -> Jobs]
    BY <1>0, <1>5, <2>1, Nothing DEF Reserve, Release, Advance
  <2>3. inbox' \in [Episodes -> {"absent", "pending"} \union OutcomeCodes]
    BY <1>0, <1>5 DEF Reserve
  <2> QED
    BY <1>0, <1>5, <2>2, <2>3 DEF Reserve
<1>6. ASSUME NEW w \in Workers, NEW code \in OutcomeCodes, Conclude(w, code)
      PROVE  job' \in [Workers -> Jobs]
  <2>1. [job[w] EXCEPT !.step = "finish", !.code = code] \in Jobs
    BY <1>0 DEF Jobs
  <2> QED
    BY <1>0, <1>6, <2>1 DEF Conclude
<1>7. ASSUME NEW w \in Workers, Load(w)
      PROVE  Rest'
  <2>1. job[w].ep \in Episodes
    BY <1>7 DEF Inv, JobInv, Load
  <2>2. [job[w] EXCEPT !.step = "command", !.version = version[job[w].ep]] \in Jobs
    BY <1>0, <2>1 DEF Jobs, RowTypes
  <2>3. CASE Live(job[w].ep)
    <3>1. job' \in [Workers -> Jobs]
      BY <1>0, <1>7, <2>2, <2>3 DEF Load
    <3> QED
      BY <1>0, <1>7, <3>1 DEF Load
  <2>4. CASE ~Live(job[w].ep)
    <3>1. PICK code \in OutcomeCodes : Conclude(w, code)
      BY <1>7, <2>4 DEF Load, OutcomeCodes
    <3>2. job' \in [Workers -> Jobs]
      BY <1>6, <3>1
    <3> QED
      BY <1>0, <1>7, <3>2 DEF Load
  <2> QED
    BY <2>3, <2>4
<1>8. ASSUME NEW w \in Workers, Command(w)
      PROVE  Rest'
  <2>1. Release(w) \/ \E code \in OutcomeCodes : Conclude(w, code)
    BY <1>8 DEF Command, Code, OutcomeCodes
  <2>2. Release(w) => job' \in [Workers -> Jobs]
    BY <1>0, Nothing DEF Release
  <2>3. job' \in [Workers -> Jobs]
    BY <1>6, <2>1, <2>2
  <2> QED
    BY <1>0, <1>8, <2>3 DEF Command
<1>9. ASSUME NEW w \in Workers, Finish(w)
      PROVE  Rest'
  <2>1. job[w].code \in OutcomeCodes
    BY <1>0 DEF Jobs
  <2>2. inbox' \in [Episodes -> {"absent", "pending"} \union OutcomeCodes]
    BY <1>0, <1>9, <2>1 DEF Finish
  <2> QED
    BY <1>0, <1>9, <2>2, Nothing DEF Finish, Release
<1>10. ASSUME NEW w \in Workers, Crash(w)
       PROVE  Rest'
  <2>1. crashes' \in 0 .. MaxCrashes
    BY <1>0, <1>10, EpisodeAssumption DEF EpisodeAssumption, Crash
  <2> QED
    BY <1>0, <1>10, <2>1, Nothing DEF Crash, Release
<1>11. CASE PlatformNext
  BY <1>0, <1>11 DEF PlatformNext, SetRequisition, RecordEvidence, Submit, PlacementEnds
<1> QED
  BY <1>1, <1>2, <1>3, <1>31, <1>32, <1>4, <1>5, <1>7, <1>8, <1>9, <1>10, <1>11
  DEF Next, RecruiterNext, WorkerNext, WorkerStep

-----------------------------------------------------------------------------
(* What the rows keep. *)

(* Versions and histories only grow, and what has ended stays as it ended. *)
LEMMA RowsGrow ==
  ASSUME TypeOK, BirthInv, RowStep, NEW f \in Episodes
  PROVE  Grown(f)
<1> USE DEF TypeOK, Grown
<1>1. CASE UNCHANGED rowVars
  BY <1>1 DEF rowVars
<1>2. ASSUME NEW e \in Episodes, Born(e)
      PROVE  Grown(f)
  <2>1. history[e] = <<>>
    BY <1>2 DEF BirthInv, Born
  <2> QED
    BY <1>2, <2>1 DEF Born, Terminals
<1>3. ASSUME NEW e \in Episodes, NEW to \in Statuses, NEW kind \in Kinds \union {"none"},
             NEW a \in {"none", "recruiter", "downstream"}, Moved(e, to, kind, a)
      PROVE  Grown(f)
  <2>1. status[e] \in Active /\ Move(e, status[e], to, kind, a)
    BY <1>3 DEF Moved
  <2>2. status[e] \notin Terminals /\ to # "unborn"
    BY <2>1 DEF Active, Terminals, Statuses
  <2>3. CASE f # e
    BY <2>1, <2>3 DEF Move
  <2>4. CASE f = e
    <3>1. history'[f] = Append(history[f], Row(status[e], to, kind))
      BY <2>1, <2>4 DEF Move
    <3>2. history[f] \in Seq(Rows)
      OBVIOUS
    <3>3. /\ Len(history'[f]) = Len(history[f]) + 1
          /\ \A i \in 1 .. Len(history[f]) : history'[f][i] = history[f][i]
      BY <3>1, <3>2
    <3>4. version'[f] = version[f] + 1 /\ status'[f] = to
      BY <2>1, <2>4 DEF Move
    <3> QED
      BY <2>2, <2>4, <3>2, <3>3, <3>4
  <2> QED
    BY <2>3, <2>4
<1>4. ASSUME NEW e \in Episodes, Hopped(e)
      PROVE  Grown(f)
  <2>1. status[e] \notin Terminals
    BY <1>4 DEF Hopped, Terminals
  <2>2. CASE f # e
    BY <1>4, <2>2 DEF Hopped, TwoHops
  <2>3. CASE f = e
    <3>1. history'[f] = Append(Append(history[f], Row("no_contact", "contacted", "confirmation")),
                               Row("contacted", "talent_responded", "confirmation"))
      BY <1>4, <2>3 DEF Hopped, TwoHops
    <3>2. history[f] \in Seq(Rows)
      OBVIOUS
    <3>3. /\ Len(history'[f]) = Len(history[f]) + 2
          /\ \A i \in 1 .. Len(history[f]) : history'[f][i] = history[f][i]
      BY <3>1, <3>2
    <3>4. version'[f] = version[f] + 2 /\ status'[f] = "talent_responded"
      BY <1>4, <2>3 DEF Hopped, TwoHops
    <3> QED
      BY <2>1, <2>3, <3>2, <3>3, <3>4
  <2> QED
    BY <2>2, <2>3
<1> QED
  BY <1>1, <1>2, <1>3, <1>4 DEF RowStep

(* The history stays the chain of the episode's moves. *)
LEMMA ChainKept ==
  ASSUME TypeOK, BirthInv, HistorySound, RowStep
  PROVE  HistorySound'
<1> USE DEF TypeOK
<1> DEFINE Chain(h, n, s) ==
      /\ Len(h) = n + 1
      /\ h[1] = Birth
      /\ h[n + 1].to = s
      /\ \A i \in 1 .. n :
           /\ h[i + 1].from = h[i].to
           /\ \/ h[i + 1].to \in LegalNext(h[i].to)
              \/ h[i].to = "no_contact" /\ h[i + 1].to = "voided"
<1>1. ASSUME NEW h \in Seq(Rows), NEW n \in Nat, NEW s, NEW t, NEW k, Chain(h, n, s),
             t \in LegalNext(s) \/ (s = "no_contact" /\ t = "voided")
      PROVE  Chain(Append(h, Row(s, t, k)), n + 1, t)
  <2> DEFINE g == Append(h, Row(s, t, k))
  <2>1. /\ Len(g) = n + 2
        /\ g[n + 2] = Row(s, t, k)
        /\ \A i \in 1 .. n + 1 : g[i] = h[i]
    BY <1>1
  <2>2. Row(s, t, k).from = s /\ Row(s, t, k).to = t
    BY DEF Row
  <2>3. g[1] = Birth /\ g[n + 2].to = t
    BY <1>1, <2>1, <2>2
  <2>4. ASSUME NEW i \in 1 .. n + 1
        PROVE  /\ g[i + 1].from = g[i].to
               /\ \/ g[i + 1].to \in LegalNext(g[i].to)
                  \/ g[i].to = "no_contact" /\ g[i + 1].to = "voided"
    <3>1. CASE i = n + 1
      <4>1. g[i + 1] = Row(s, t, k) /\ g[i].to = s
        BY <1>1, <2>1, <3>1
      <4> QED
        BY <1>1, <2>2, <4>1
    <3>2. CASE i \in 1 .. n
      <4>1. g[i + 1] = h[i + 1] /\ g[i] = h[i]
        BY <2>1, <3>2
      <4> QED
        BY <1>1, <3>2, <4>1
    <3>3. i = n + 1 \/ i \in 1 .. n
      OBVIOUS
    <3> HIDE DEF g
    <3> QED
      BY <3>1, <3>2, <3>3
  <2> HIDE DEF g
  <2>5. Len(g) = (n + 1) + 1 /\ g[(n + 1) + 1].to = t
    BY <2>1, <2>3
  <2>6. Chain(g, n + 1, t)
    BY <2>3, <2>4, <2>5
  <2> QED
    BY <2>6 DEF g
<1> HIDE DEF Chain
<1>2. \A f \in Episodes : status[f] # "unborn" => Chain(history[f], version[f], status[f])
  BY DEF HistorySound, Chain
<1>3. SUFFICES ASSUME NEW f \in Episodes, status'[f] # "unborn"
              PROVE  Chain(history'[f], version'[f], status'[f])
  BY DEF HistorySound, Chain
<1>4. CASE UNCHANGED rowVars
  BY <1>2, <1>3, <1>4 DEF rowVars
<1>5. ASSUME NEW e \in Episodes, Born(e)
      PROVE  Chain(history'[f], version'[f], status'[f])
  <2>1. CASE f # e
    BY <1>2, <1>3, <1>5, <2>1 DEF Born
  <2>2. CASE f = e
    <3>1. history'[f] = <<Birth>> /\ version'[f] = 0 /\ status'[f] = "no_contact"
      BY <1>5, <2>2 DEF Born, BirthInv, Birth
    <3>2. Birth.to = "no_contact"
      BY DEF Birth, Row
    <3> QED
      BY <3>1, <3>2 DEF Chain
  <2> QED
    BY <2>1, <2>2
<1>6. ASSUME NEW e \in Episodes, NEW to \in Statuses, NEW kind \in Kinds \union {"none"},
             NEW a \in {"none", "recruiter", "downstream"}, Moved(e, to, kind, a)
      PROVE  Chain(history'[f], version'[f], status'[f])
  <2>1. /\ status[e] \in Active
        /\ to \in LegalNext(status[e]) \/ (status[e] = "no_contact" /\ to = "voided")
        /\ Move(e, status[e], to, kind, a)
    BY <1>6 DEF Moved
  <2>2. CASE f # e
    BY <1>2, <1>3, <2>1, <2>2 DEF Move
  <2>3. CASE f = e
    <3>1. /\ history'[f] = Append(history[f], Row(status[f], to, kind))
          /\ version'[f] = version[f] + 1
          /\ status'[f] = to
      BY <2>1, <2>3 DEF Move
    <3>2. Chain(history[f], version[f], status[f])
      BY <1>2, <2>1, <2>3 DEF Active
    <3>3. history[f] \in Seq(Rows) /\ version[f] \in Nat
      OBVIOUS
    <3> QED
      BY <1>1, <2>1, <2>3, <3>1, <3>2, <3>3
  <2> QED
    BY <2>2, <2>3
<1>7. ASSUME NEW e \in Episodes, Hopped(e)
      PROVE  Chain(history'[f], version'[f], status'[f])
  <2>1. status[e] = "no_contact" /\ TwoHops(e, "confirmation")
    BY <1>7 DEF Hopped
  <2>2. CASE f # e
    BY <1>2, <1>3, <2>1, <2>2 DEF TwoHops
  <2>3. CASE f = e
    <3> DEFINE h == Append(history[f], Row("no_contact", "contacted", "confirmation"))
    <3>1. /\ history'[f] = Append(h, Row("contacted", "talent_responded", "confirmation"))
          /\ version'[f] = version[f] + 2
          /\ status'[f] = "talent_responded"
      BY <2>1, <2>3 DEF TwoHops
    <3>2. Chain(history[f], version[f], "no_contact")
      BY <1>2, <2>1, <2>3
    <3>3. history[f] \in Seq(Rows) /\ version[f] \in Nat
      OBVIOUS
    <3>4. /\ "contacted" \in LegalNext("no_contact")
          /\ "talent_responded" \in LegalNext("contacted")
      BY DEF LegalNext
    <3>5. Chain(h, version[f] + 1, "contacted")
      BY <1>1, <3>2, <3>3, <3>4
    <3>6. Row("no_contact", "contacted", "confirmation") \in Rows
      BY DEF Row, Rows, Statuses, Active, Kinds
    <3>7. h \in Seq(Rows) /\ version[f] + 1 \in Nat
      BY <3>3, <3>6
    <3> HIDE DEF h
    <3>8. Chain(Append(h, Row("contacted", "talent_responded", "confirmation")),
                (version[f] + 1) + 1, "talent_responded")
      BY <1>1, <3>4, <3>5, <3>7
    <3>9. (version[f] + 1) + 1 = version[f] + 2
      BY <3>3
    <3> QED
      BY <3>1, <3>8, <3>9
  <2> QED
    BY <2>2, <2>3
<1> QED
  BY <1>4, <1>5, <1>6, <1>7 DEF RowStep

(* Evidence is never withdrawn, and a client's decision against the talent and the end of *)
(* a placement are final.                                                              *)
LEMMA OthersGrow ==
  ASSUME TypeOK, Next
  PROVE  /\ evidence \subseteq evidence'
         /\ \A e \in Episodes : placement[e] \in Outcomes => placement'[e] = placement[e]
         /\ \A e \in Episodes : placement[e] = "DECLINED" => placement'[e] = "DECLINED"
<1>1. CASE RecruiterNext
  BY <1>1 DEF RecruiterNext, AddCheck, Add, Read, Write, Decide, LoadDecided, TypeOK, Outcomes
<1>2. CASE WorkerNext
  BY <1>2 DEF WorkerNext, WorkerStep, Pick, Reserve, Load, Command, Finish, Crash
<1>3. CASE PlatformNext
  BY <1>3 DEF PlatformNext, SetRequisition, RecordEvidence, Submit, PlacementEnds, TypeOK, Outcomes
<1> QED
  BY <1>1, <1>2, <1>3 DEF Next

(* Evidence-backed stages stay grounded. *)
LEMMA GroundsKept ==
  ASSUME TypeOK, BirthInv, EvidenceGrounded, RowStep, evidence \subseteq evidence'
  PROVE  EvidenceGrounded'
<1> USE DEF TypeOK
<1> DEFINE Rests(h, ev, i) ==
      \E j \in 1 .. i :
        /\ h[j].to = h[i].to
        /\ Admissible(h[j].to, h[j].evidence)
        /\ h[j].evidence \in ev
    Resting(h, ev) == \A i \in 1 .. Len(h) : h[i].to \in EvidenceBacked => Rests(h, ev, i)
<1>1. ASSUME NEW h \in Seq(Rows), Resting(h, evidence), NEW s, NEW t, NEW k,
             t \in EvidenceBacked =>
               \/ \E i \in 1 .. Len(h) : h[i].to = t
               \/ Admissible(t, k) /\ k \in evidence
      PROVE  Resting(Append(h, Row(s, t, k)), evidence)
  <2> DEFINE g == Append(h, Row(s, t, k))
             n == Len(h)
  <2>1. /\ n \in Nat
        /\ Len(g) = n + 1
        /\ g[n + 1] = Row(s, t, k)
        /\ \A i \in 1 .. n : g[i] = h[i]
    BY <1>1
  <2>2. Row(s, t, k).to = t /\ Row(s, t, k).evidence = k
    BY DEF Row
  <2>3. SUFFICES ASSUME NEW i \in 1 .. n + 1, g[i].to \in EvidenceBacked
                PROVE  Rests(g, evidence, i)
    BY <2>1
  <2> HIDE DEF g, n
  <2>4. ASSUME NEW m \in 1 .. n, h[m].to \in EvidenceBacked
        PROVE  \E j \in 1 .. m :
                 /\ g[j].to = h[m].to
                 /\ Admissible(g[j].to, g[j].evidence)
                 /\ g[j].evidence \in evidence
    <3>1. PICK j \in 1 .. m :
                 /\ h[j].to = h[m].to
                 /\ Admissible(h[j].to, h[j].evidence)
                 /\ h[j].evidence \in evidence
      BY <1>1, <2>4 DEF n
    <3>2. j \in 1 .. n
      BY <2>1, <3>1
    <3> QED
      BY <2>1, <3>1, <3>2
  <2>5. CASE i \in 1 .. n
    <3>1. g[i] = h[i]
      BY <2>1, <2>5
    <3> QED
      BY <2>3, <2>4, <2>5, <3>1
  <2>6. CASE i = n + 1
    <3>1. g[i].to = t /\ g[i].evidence = k
      BY <2>1, <2>2, <2>6
    <3>2. CASE \E m \in 1 .. n : h[m].to = t
      <4>1. PICK m \in 1 .. n : h[m].to = t
        BY <3>2
      <4>2. PICK j \in 1 .. m :
                 /\ g[j].to = t
                 /\ Admissible(g[j].to, g[j].evidence)
                 /\ g[j].evidence \in evidence
        BY <2>3, <2>4, <3>1, <4>1
      <4>3. j \in 1 .. i
        BY <2>1, <2>6, <4>1, <4>2
      <4> QED
        BY <3>1, <4>2, <4>3
    <3>3. CASE Admissible(t, k) /\ k \in evidence
      <4>1. i \in 1 .. i
        BY <2>1, <2>6
      <4> QED
        BY <3>1, <3>3, <4>1
    <3>4. \/ \E m \in 1 .. n : h[m].to = t
          \/ Admissible(t, k) /\ k \in evidence
      BY <1>1, <2>3, <3>1 DEF n
    <3> QED
      BY <3>2, <3>3, <3>4
  <2>7. i \in 1 .. n \/ i = n + 1
    BY <2>1
  <2> QED
    BY <2>5, <2>6, <2>7
<1>2. \A f \in Episodes : Resting(history[f], evidence)
  BY DEF EvidenceGrounded
<1>3. ASSUME NEW h, Resting(h, evidence)
      PROVE  Resting(h, evidence')
  BY <1>3
<1>4. SUFFICES ASSUME NEW f \in Episodes
              PROVE  Resting(history'[f], evidence')
  BY DEF EvidenceGrounded
<1> HIDE DEF Resting
<1>5. SUFFICES Resting(history'[f], evidence)
  BY <1>3
<1>6. CASE UNCHANGED rowVars
  BY <1>2, <1>6 DEF rowVars
<1>7. ASSUME NEW e \in Episodes, Born(e)
      PROVE  Resting(history'[f], evidence)
  <2>1. CASE f # e
    BY <1>2, <1>7, <2>1 DEF Born
  <2>2. CASE f = e
    <3>1. history'[f] = <<Row("none", "no_contact", "none")>>
      BY <1>7, <2>2 DEF Born
    <3>2. Row("none", "no_contact", "none").to \notin EvidenceBacked
      BY DEF Row, EvidenceBacked
    <3> QED
      BY <3>1, <3>2 DEF Resting
  <2> QED
    BY <2>1, <2>2
<1>8. ASSUME NEW e \in Episodes, NEW to \in Statuses, NEW kind \in Kinds \union {"none"},
             NEW a \in {"none", "recruiter", "downstream"}, Moved(e, to, kind, a)
      PROVE  Resting(history'[f], evidence)
  <2>1. Move(e, status[e], to, kind, a)
    BY <1>8 DEF Moved
  <2>2. CASE f # e
    BY <1>2, <2>1, <2>2 DEF Move
  <2>3. CASE f = e
    <3>1. history'[f] = Append(history[f], Row(status[f], to, kind))
      BY <2>1, <2>3 DEF Move
    <3>2. to \in EvidenceBacked => Based(e, [to |-> to, evidence |-> kind])
      BY <1>8 DEF Moved
    <3>3. Admissible(to, kind) => kind \in evidence
      BY <1>8 DEF Moved, Admissible, Kinds
    <3>4. to \in EvidenceBacked =>
            \/ \E i \in 1 .. Len(history[f]) : history[f][i].to = to
            \/ Admissible(to, kind) /\ kind \in evidence
      BY <2>3, <3>2, <3>3 DEF Based
    <3>5. history[f] \in Seq(Rows)
      OBVIOUS
    <3> QED
      BY <1>1, <1>2, <3>1, <3>4, <3>5
  <2> QED
    BY <2>2, <2>3
<1>9. ASSUME NEW e \in Episodes, Hopped(e)
      PROVE  Resting(history'[f], evidence)
  <2>1. "confirmation" \in evidence /\ TwoHops(e, "confirmation")
    BY <1>9 DEF Hopped
  <2>2. CASE f # e
    BY <1>2, <2>1, <2>2 DEF TwoHops
  <2>3. CASE f = e
    <3> DEFINE h == Append(history[f], Row("no_contact", "contacted", "confirmation"))
    <3>1. history'[f] = Append(h, Row("contacted", "talent_responded", "confirmation"))
      BY <2>1, <2>3 DEF TwoHops
    <3>2. /\ Admissible("contacted", "confirmation")
          /\ Admissible("talent_responded", "confirmation")
      BY DEF Admissible, Kinds
    <3>3. history[f] \in Seq(Rows) /\ Row("no_contact", "contacted", "confirmation") \in Rows
      BY DEF Row, Rows, Statuses, Active, Kinds
    <3>4. h \in Seq(Rows)
      BY <3>3
    <3>5. Resting(h, evidence)
      BY <1>1, <1>2, <2>1, <3>2, <3>3
    <3> HIDE DEF h
    <3> QED
      BY <1>1, <2>1, <3>1, <3>2, <3>4, <3>5
  <2> QED
    BY <2>2, <2>3
<1> QED
  BY <1>6, <1>7, <1>8, <1>9 DEF RowStep

(* One live episode at most, one disposition per ended episode, births in order. *)
LEMMA EpisodesKept ==
  ASSUME TypeOK, BirthInv, OneLiveEpisode, DispositionMatches, RowStep,
         \A e \in Episodes : placement[e] \in Outcomes => placement'[e] = placement[e],
         \A e \in Episodes : placement'[e] # "none" => placement[e] # "none" \/ Live(e)
  PROVE  OneLiveEpisode' /\ DispositionMatches' /\ BirthInv'
<1> USE DEF TypeOK
<1> DEFINE Goal == OneLiveEpisode' /\ DispositionMatches' /\ BirthInv'
<1>0. \A e \in Episodes : placement[e] = "STARTED" => placement'[e] = "STARTED"
  BY DEF Outcomes
<1>00. \A e \in Episodes : placement'[e] # "none" => status[e] # "unborn"
  BY DEF BirthInv, Live, Active
<1>1. CASE UNCHANGED rowVars
  <2>1. OneLiveEpisode'
    BY <1>1 DEF rowVars, OneLiveEpisode, Live
  <2>2. DispositionMatches'
    BY <1>0, <1>1 DEF rowVars, DispositionMatches
  <2>3. BirthInv'
    BY <1>00, <1>1 DEF rowVars, BirthInv
  <2> QED
    BY <2>1, <2>2, <2>3
<1>2. ASSUME NEW e \in Episodes, Born(e)
      PROVE  Goal
  <2>1. OneLiveEpisode'
    BY <1>2 DEF Born, LiveSlotFree, OneLiveEpisode, Live
  <2>2. DispositionMatches'
    BY <1>0, <1>2 DEF Born, DispositionMatches, BirthInv
  <2>3. BirthInv'
    BY <1>00, <1>2 DEF Born, BirthInv
  <2> QED
    BY <2>1, <2>2, <2>3
<1>3. ASSUME NEW e \in Episodes, NEW to \in Statuses, NEW kind \in Kinds \union {"none"},
             NEW a \in {"none", "recruiter", "downstream"}, Moved(e, to, kind, a)
      PROVE  Goal
  <2>1. /\ status[e] \in Active
        /\ a # "none" <=> to \in {"not_in_consideration", "completed"}
        /\ to = "completed" => a = "downstream" /\ placement[e] = "STARTED"
        /\ Move(e, status[e], to, kind, a)
    BY <1>3 DEF Moved
  <2>2. status' = [status EXCEPT ![e] = to]
    BY <2>1 DEF Move
  <2>3. OneLiveEpisode'
    BY <2>1, <2>2 DEF OneLiveEpisode, Live
  <2>4. DispositionMatches'
    <3>1. disposition[e] = "none"
      BY <2>1 DEF DispositionMatches, Active
    <3>2. disposition'[e] = a /\ \A f \in Episodes \ {e} : disposition'[f] = disposition[f]
      BY <2>1, <3>1 DEF Move
    <3> QED
      BY <1>0, <2>1, <2>2, <3>2 DEF DispositionMatches
  <2>5. BirthInv'
    <3>1. to # "unborn"
      BY DEF Statuses, Active, Terminals
    <3>2. \A f \in Episodes \ {e} : /\ status'[f] = status[f]
                                    /\ version'[f] = version[f]
                                    /\ history'[f] = history[f]
                                    /\ disposition'[f] = disposition[f]
      BY <2>1 DEF Move
    <3>3. status'[e] # "unborn"
      BY <2>2, <3>1
    <3> QED
      BY <1>00, <3>2, <3>3 DEF BirthInv
  <2> QED
    BY <2>3, <2>4, <2>5
<1>4. ASSUME NEW e \in Episodes, Hopped(e)
      PROVE  Goal
  <2>1. /\ status[e] = "no_contact"
        /\ status' = [status EXCEPT ![e] = "talent_responded"]
        /\ disposition' = disposition
    BY <1>4 DEF Hopped, TwoHops
  <2>2. OneLiveEpisode'
    BY <2>1 DEF OneLiveEpisode, Live, Active
  <2>3. DispositionMatches'
    BY <1>0, <2>1 DEF DispositionMatches
  <2>4. \A f \in Episodes \ {e} : /\ status'[f] = status[f]
                                  /\ version'[f] = version[f]
                                  /\ history'[f] = history[f]
    BY <1>4 DEF Hopped, TwoHops
  <2>5. status'[e] # "unborn"
    BY <2>1
  <2>6. BirthInv'
    BY <1>00, <2>1, <2>4, <2>5 DEF BirthInv
  <2> QED
    BY <2>2, <2>3, <2>6
<1> QED
  BY <1>1, <1>2, <1>3, <1>4 DEF RowStep

(* What the guards of the first half of a command establish for the second. *)
LEMMA ReadFits ==
  ASSUME TypeOK, NEW e \in Episodes, NEW c \in Commands, NEW n \in Nat, Accepted(e, c, n)
  PROVE  n = version[e] /\ Fits(e, c, status[e])
<1>1. CASE c.op = "move" /\ MoveAccepted(e, c, n)
  <2>1. c.to \in EvidenceBacked => Based(e, c)
    BY <1>1 DEF MoveAccepted, Grounded, Based
  <2> QED
    BY <1>1, <2>1 DEF MoveAccepted, SeenIsCurrent, Fits
<1>2. CASE c.op = "void" /\ VoidAccepted(e, n)
  BY <1>2 DEF VoidAccepted, SeenIsCurrent, Fits
<1>3. CASE c.op = "reconcile" /\ ReconcileAccepted(e, c, n)
  <2>1. c.to = "talent_responded"
    BY <1>3 DEF Commands
  <2>2. status[e] \in {"no_contact", "contacted"}
    BY <1>3, <2>1 DEF ReconcileAccepted, Live, Active, Ordinal
  <2> QED
    BY <1>3, <2>2 DEF ReconcileAccepted, Fits
<1> QED
  BY <1>1, <1>2, <1>3 DEF Accepted

(* What a request under way knows stays true or loses its compare-and-swap. *)
LEMMA RequestsKept ==
  ASSUME Inv, Next, \A e \in Episodes : Grown(e),
         \A e \in Episodes : placement[e] = "DECLINED" => placement'[e] = "DECLINED"
  PROVE  WriteInv'
<1> USE DEF Inv, TypeOK
<1>1. SUFFICES ASSUME NEW r \in Recruiters, tx'[r].step = "write"
               PROVE  /\ tx'[r].ep \in Episodes
                      /\ status'[tx'[r].ep] # "unborn"
                      /\ tx'[r].cmd \in Commands \union {ClientCommand}
                      /\ tx'[r].version <= version'[tx'[r].ep]
                      /\ tx'[r].version = version'[tx'[r].ep] => tx'[r].from = status'[tx'[r].ep]
                      /\ tx'[r].seen = tx'[r].version
                      /\ Fits(tx[r].ep, tx[r].cmd, tx[r].from)'
  BY DEF WriteInv
<1>2. \/ tx'[r] = tx[r]
      \/ LoadDecided(r)
      \/ \E e \in Episodes, c \in Commands : Read(r, e, c)
  <2>1. CASE RecruiterNext
    <3>1. ASSUME NEW q \in Recruiters, Add(q) \/ Write(q)
          PROVE  tx'[r] = tx[r]
      <4>1. tx' = [tx EXCEPT ![q] = Idle]
        BY <3>1 DEF Add, Write, Answer
      <4> QED
        BY <1>1, <4>1 DEF Idle
    <3>2. ASSUME NEW q \in Recruiters, AddCheck(q)
          PROVE  tx'[r] = tx[r]
      <4>1. PICK x \in {requisition, "none"} :
              tx' = [tx EXCEPT ![q] = [Idle EXCEPT !.step = "insert", !.expected = x]]
        BY <3>2 DEF AddCheck
      <4> QED
        BY <1>1, <4>1 DEF Idle
    <3>3. ASSUME NEW q \in Recruiters, NEW e \in Episodes, NEW c \in Commands, Read(q, e, c)
          PROVE  tx'[r] = tx[r] \/ Read(r, e, c)
      <4>1. PICK n \in 0 .. version[e] :
              tx' = [tx EXCEPT ![q] = [Idle EXCEPT !.step = "write", !.ep = e, !.cmd = c,
                                 !.seen = n, !.from = status[e], !.version = version[e]]]
        BY <3>3 DEF Read
      <4> QED
        BY <3>3, <4>1
    <3>4. ASSUME NEW q \in Recruiters, NEW e \in Episodes, Decide(q, e)
          PROVE  tx'[r] = tx[r]
      BY <1>1, <3>4 DEF Decide, Idle
    <3>5. ASSUME NEW q \in Recruiters, LoadDecided(q)
          PROVE  tx'[r] = tx[r] \/ LoadDecided(r)
      BY <3>5 DEF LoadDecided, Answer
    <3> QED
      BY <2>1, <3>1, <3>2, <3>3, <3>4, <3>5 DEF RecruiterNext
  <2>2. CASE WorkerNext
    BY <2>2 DEF WorkerNext, WorkerStep, Pick, Reserve, Load, Command, Finish, Crash
  <2>3. CASE PlatformNext
    BY <2>3 DEF PlatformNext, SetRequisition, RecordEvidence, Submit, PlacementEnds
  <2> QED
    BY <2>1, <2>2, <2>3 DEF Next
<1>3. CASE tx'[r] = tx[r]
  <2> DEFINE e == tx[r].ep
             c == tx[r].cmd
  <2>1. /\ tx[r].step = "write"
        /\ e \in Episodes
        /\ status[e] # "unborn"
        /\ c \in Commands \union {ClientCommand}
        /\ tx[r].version <= version[e]
        /\ tx[r].version = version[e] => tx[r].from = status[e]
        /\ tx[r].seen = tx[r].version
        /\ Fits(e, c, tx[r].from)
    BY <1>1, <1>3 DEF WriteInv
  <2>2. tx[r].version \in Nat /\ version[e] \in Nat
    BY <2>1 DEF Requests
  <2>3. /\ version'[e] >= version[e]
        /\ status'[e] # "unborn"
        /\ version'[e] = version[e] => status'[e] = status[e]
        /\ Len(history'[e]) >= Len(history[e])
        /\ \A i \in 1 .. Len(history[e]) : history'[e][i] = history[e][i]
    BY <2>1 DEF Grown
  <2>4. version'[e] \in Nat
    <3>1. RowTypes'
      BY Shape, RowsTyped
    <3> QED
      BY <2>1, <3>1 DEF RowTypes
  <2>5. /\ tx[r].version <= version'[e]
        /\ tx[r].version = version'[e] => tx[r].from = status'[e]
    BY <2>1, <2>2, <2>3, <2>4
  <2>6. ASSUME NEW t, \E i \in 1 .. Len(history[e]) : history[e][i].to = t
        PROVE  \E i \in 1 .. Len(history'[e]) : history'[e][i].to = t
    <3>1. PICK i \in 1 .. Len(history[e]) : history[e][i].to = t
      BY <2>6
    <3>2. RowTypes'
      BY Shape, RowsTyped
    <3>3. Len(history[e]) \in Nat /\ Len(history'[e]) \in Nat
      BY <2>1, <3>2 DEF RowTypes
    <3>4. i \in 1 .. Len(history'[e])
      BY <2>3, <3>1, <3>3
    <3> QED
      BY <2>3, <3>1, <3>4
  <2>7. Fits(tx[r].ep, tx[r].cmd, tx[r].from)'
    <3>1. (\E i \in 1 .. Len(history[e]) : history[e][i].to = c.to)
            => \E i \in 1 .. Len(history'[e]) : history'[e][i].to = c.to
      BY <2>6
    <3>2. tx'[r].ep = e /\ tx'[r].cmd = c /\ tx'[r].from = tx[r].from
      BY <1>3
    <3>3. Based(e, c) => Based(tx[r].ep, tx[r].cmd)'
      <4> HIDE DEF e, c
      <4> QED
        BY <3>1, <3>2 DEF Based
    <3>4. c = ClientCommand /\ placement[e] = "DECLINED" => placement'[e] = "DECLINED"
      BY <2>1
    <3> QED
      BY <2>1, <3>2, <3>3, <3>4 DEF Fits
  <2> QED
    BY <1>3, <2>1, <2>3, <2>5, <2>7
<1>4. ASSUME NEW e \in Episodes, NEW c \in Commands, Read(r, e, c)
      PROVE  /\ tx'[r].ep \in Episodes
             /\ status'[tx'[r].ep] # "unborn"
             /\ tx'[r].cmd \in Commands \union {ClientCommand}
             /\ tx'[r].version <= version'[tx'[r].ep]
             /\ tx'[r].version = version'[tx'[r].ep] => tx'[r].from = status'[tx'[r].ep]
             /\ tx'[r].seen = tx'[r].version
             /\ Fits(tx[r].ep, tx[r].cmd, tx[r].from)'
  <2>1. PICK n \in 0 .. version[e] :
          /\ Accepted(e, c, n)
          /\ tx' = [tx EXCEPT ![r] = [Idle EXCEPT !.step = "write", !.ep = e, !.cmd = c,
                                !.seen = n, !.from = status[e], !.version = version[e]]]
    BY <1>4 DEF Read
  <2>2. n = version[e] /\ Fits(e, c, status[e]) /\ version[e] \in Nat
    BY <2>1, ReadFits
  <2>3. /\ tx'[r].ep = e
        /\ tx'[r].cmd = c
        /\ tx'[r].seen = n
        /\ tx'[r].from = status[e]
        /\ tx'[r].version = version[e]
    BY <2>1 DEF Idle
  <2>4. /\ status' = status
        /\ version' = version
        /\ history' = history
        /\ status[e] # "unborn"
    BY <1>4 DEF Read, rowVars
  <2>5. Fits(tx[r].ep, tx[r].cmd, tx[r].from)'
    <3>1. c.op # "client"
      BY DEF Commands
    <3>2. c # ClientCommand
      BY <3>1 DEF ClientCommand
    <3> QED
      BY <2>2, <2>3, <2>4, <3>2 DEF Fits, Based
  <2> QED
    BY <2>2, <2>3, <2>4, <2>5
<1>5. ASSUME LoadDecided(r)
      PROVE  /\ tx'[r].ep \in Episodes
             /\ status'[tx'[r].ep] # "unborn"
             /\ tx'[r].cmd \in Commands \union {ClientCommand}
             /\ tx'[r].version <= version'[tx'[r].ep]
             /\ tx'[r].version = version'[tx'[r].ep] => tx'[r].from = status'[tx'[r].ep]
             /\ tx'[r].seen = tx'[r].version
             /\ Fits(tx[r].ep, tx[r].cmd, tx[r].from)'
  <2> DEFINE e == tx[r].ep
  <2>1. /\ e \in Episodes
        /\ placement[e] = "DECLINED"
        /\ tx[r].cmd = ClientCommand
    BY <1>5 DEF DecidedInv, LoadDecided
  <2>2. /\ Live(e)
        /\ tx' = [tx EXCEPT ![r].step = "write", ![r].seen = version[e],
                            ![r].from = status[e], ![r].version = version[e]]
    <3>1. ~Answer(r)
      BY <1>1 DEF Answer, Idle
    <3> QED
      BY <1>5, <3>1 DEF LoadDecided
  <2>3. /\ tx'[r].ep = e
        /\ tx'[r].cmd = ClientCommand
        /\ tx'[r].seen = version[e]
        /\ tx'[r].from = status[e]
        /\ tx'[r].version = version[e]
    BY <2>1, <2>2 DEF Requests
  <2>4. /\ status' = status
        /\ version' = version
        /\ placement' = placement
        /\ status[e] \in Active
        /\ version[e] \in Nat
    BY <1>5, <2>1, <2>2 DEF LoadDecided, rowVars, Live
  <2>5. Fits(tx[r].ep, tx[r].cmd, tx[r].from)'
    BY <2>1, <2>3, <2>4 DEF Fits
  <2>6. status[e] # "unborn"
    BY <2>4 DEF Active
  <2> QED
    BY <2>1, <2>3, <2>4, <2>5, <2>6
<1> QED
  BY <1>2, <1>3, <1>4, <1>5

(* A client's decision that was recorded stays the one its request has to carry out. *)
LEMMA DecidedKept ==
  ASSUME Inv, Next,
         \A e \in Episodes : placement[e] = "DECLINED" => placement'[e] = "DECLINED"
  PROVE  DecidedInv'
<1> USE DEF Inv, TypeOK
<1>1. SUFFICES ASSUME NEW r \in Recruiters, tx'[r].step = "decided"
               PROVE  /\ tx'[r].ep \in Episodes
                      /\ placement'[tx'[r].ep] = "DECLINED"
                      /\ tx'[r].cmd = ClientCommand
  BY DEF DecidedInv
<1>2. CASE tx'[r] = tx[r]
  BY <1>1, <1>2 DEF DecidedInv
<1>3. ASSUME NEW q \in Recruiters, Add(q) \/ Write(q) \/ AddCheck(q) \/ LoadDecided(q)
      PROVE  tx'[r] = tx[r]
  <2>1. Answer(q) => tx'[r] = tx[r]
    BY <1>1 DEF Answer, Idle
  <2>2. CASE Add(q) \/ Write(q)
    BY <2>1, <2>2 DEF Add, Write
  <2>3. CASE AddCheck(q)
    BY <1>1, <2>3 DEF AddCheck, Idle
  <2>4. CASE LoadDecided(q)
    BY <1>1, <2>1, <2>4 DEF LoadDecided, Requests
  <2> QED
    BY <1>3, <2>2, <2>3, <2>4
<1>4. ASSUME NEW q \in Recruiters, NEW e \in Episodes, NEW c \in Commands, Read(q, e, c)
      PROVE  tx'[r] = tx[r]
  BY <1>1, <1>4 DEF Read, Idle
<1>5. ASSUME NEW q \in Recruiters, NEW e \in Episodes, Decide(q, e)
      PROVE  \/ tx'[r] = tx[r]
             \/ /\ tx'[r].ep \in Episodes
                /\ placement'[tx'[r].ep] = "DECLINED"
                /\ tx'[r].cmd = ClientCommand
  BY <1>5 DEF Decide, Idle
<1>6. CASE WorkerNext \/ PlatformNext
  <2>1. UNCHANGED tx
    BY <1>6 DEF WorkerNext, WorkerStep, Pick, Reserve, Load, Command, Finish, Crash,
                PlatformNext, SetRequisition, RecordEvidence, Submit, PlacementEnds
  <2> QED
    BY <1>2, <2>1
<1>7. CASE RecruiterNext
  BY <1>2, <1>3, <1>4, <1>5, <1>7 DEF RecruiterNext
<1> QED
  BY <1>6, <1>7 DEF Next

(* What a replica has concluded stays true. *)
LEMMA JobsKept ==
  ASSUME Inv, Next, \A e \in Episodes : Grown(e),
         \A e \in Episodes : placement[e] \in Outcomes => placement'[e] = placement[e]
  PROVE  JobInv' /\ InboxTruthful'
<1> USE DEF Inv, TypeOK
<1>1. ASSUME NEW e \in Episodes, NEW code, Truth(e, code)
      PROVE  Holds(e, code)
  BY <1>1 DEF Truth, Holds, Grown, Terminals
<1> DEFINE Good(w) ==
      job[w].step # "idle" =>
        /\ job[w].ep \in Episodes
        /\ placement[job[w].ep] \in Outcomes
        /\ job[w].step = "finish" => Truth(job[w].ep, job[w].code)
    GoodNext(w) ==
      job'[w].step # "idle" =>
        /\ job'[w].ep \in Episodes
        /\ placement'[job'[w].ep] \in Outcomes
        /\ job'[w].step = "finish" => Holds(job'[w].ep, job'[w].code)
    AllGood == \A v \in Workers : GoodNext(v)
<1>2. \A w \in Workers : Good(w)
  BY DEF JobInv
<1>3. ASSUME NEW w \in Workers, job'[w] = job[w]
      PROVE  GoodNext(w)
  <2>1. SUFFICES ASSUME job[w].step # "idle"
                 PROVE  /\ job[w].ep \in Episodes
                        /\ placement'[job[w].ep] \in Outcomes
                        /\ job[w].step = "finish" => Holds(job'[w].ep, job'[w].code)
    BY <1>3
  <2>2. /\ job[w].ep \in Episodes
        /\ placement[job[w].ep] \in Outcomes
        /\ job[w].step = "finish" => Truth(job[w].ep, job[w].code)
    BY <1>2, <2>1
  <2> QED
    BY <1>1, <1>3, <2>2
<1>4. ASSUME NEW w \in Workers, NEW e \in Episodes, placement[e] \in Outcomes,
             job'[w].ep = e, job'[w].step # "finish"
      PROVE  GoodNext(w)
  BY <1>4
<1>5. ASSUME NEW w \in Workers, job' = [job EXCEPT ![w] = NoJob]
      PROVE  \A v \in Workers : GoodNext(v)
  <2>1. job'[w].step = "idle" /\ \A v \in Workers \ {w} : job'[v] = job[v]
    BY <1>5 DEF NoJob
  <2> QED
    BY <1>3, <2>1
<1>6. ASSUME NEW w \in Workers, NEW e \in Episodes, NEW code, e = job[w].ep,
             placement[e] \in Outcomes, Holds(e, code), Conclude(w, code)
      PROVE  \A v \in Workers : GoodNext(v)
  <2>1. /\ job'[w].step = "finish"
        /\ job'[w].ep = e
        /\ job'[w].code = code
        /\ \A v \in Workers \ {w} : job'[v] = job[v]
    BY <1>6 DEF Conclude, Jobs
  <2>2. Holds(job'[w].ep, job'[w].code)
    BY <1>6, <2>1
  <2>3. GoodNext(w)
    BY <1>6, <2>1, <2>2
  <2> QED
    BY <1>3, <2>1, <2>3
<1> HIDE DEF Good, GoodNext
<1>7. ASSUME NEW w \in Workers, NEW e \in Episodes, Pick(w, e)
      PROVE  AllGood
  <2>1. /\ job'[w].ep = e
        /\ job'[w].step # "finish"
        /\ \A v \in Workers \ {w} : job'[v] = job[v]
    BY <1>7 DEF Pick, NoJob
  <2> QED
    BY <1>3, <1>4, <1>7, <2>1 DEF Pick
<1>8. ASSUME NEW w \in Workers, Reserve(w)
      PROVE  AllGood
  <2>1. job[w].ep \in Episodes /\ placement[job[w].ep] \in Outcomes
    BY <1>2, <1>8 DEF Good, Reserve
  <2>2. CASE Release(w)
    BY <1>5, <2>2 DEF Release
  <2>3. CASE Advance(w, "load")
    <3>1. /\ job'[w].ep = job[w].ep
          /\ job'[w].step # "finish"
          /\ \A v \in Workers \ {w} : job'[v] = job[v]
      BY <2>3 DEF Advance, Jobs
    <3> QED
      BY <1>3, <1>4, <2>1, <3>1
  <2> QED
    BY <1>8, <2>2, <2>3 DEF Reserve
<1>9. ASSUME NEW w \in Workers, Load(w)
      PROVE  AllGood
  <2> DEFINE e == job[w].ep
  <2>1. e \in Episodes /\ placement[e] \in Outcomes
    BY <1>2, <1>9 DEF Good, Load
  <2>2. CASE Live(e)
    <3>1. /\ job'[w].ep = e
          /\ job'[w].step # "finish"
          /\ \A v \in Workers \ {w} : job'[v] = job[v]
      BY <1>9, <2>2 DEF Load, Jobs
    <3> QED
      BY <1>3, <1>4, <2>1, <3>1
  <2>3. CASE ~Live(e)
    <3>1. PICK code \in {"pipeline_not_live", "already_satisfied"} : Conclude(w, code)
      BY <1>9, <2>3 DEF Load
    <3>2. status[e] \in Terminals
      BY <2>1, <2>3 DEF BirthInv, Outcomes, Live, Statuses
    <3>3. Truth(e, code)
      BY <3>1, <3>2 DEF Truth
    <3>4. Holds(e, code)
      BY <1>1, <2>1, <3>3
    <3> QED
      BY <1>6, <2>1, <3>1, <3>4
  <2> QED
    BY <2>2, <2>3
<1>10. ASSUME NEW w \in Workers, Command(w)
       PROVE  AllGood
  <2> DEFINE e == job[w].ep
             to == Target(placement[e])
  <2>1. e \in Episodes /\ placement[e] \in Outcomes
    BY <1>2, <1>10 DEF Good, Command
  <2>2. CASE Release(w)
    BY <1>5, <2>2 DEF Release
  <2>3. CASE Conclude(w, "pipeline_not_live")
    <3>1. Holds(e, "pipeline_not_live")
      BY DEF Holds
    <3> QED
      BY <1>6, <2>1, <2>3, <3>1
  <2>4. CASE Move(e, status[e], to, "none", "downstream") /\ Conclude(w, Code(placement[e]))
    <3>1. status'[e] = to /\ disposition'[e] = "downstream"
      BY <2>1, <2>4 DEF Move
    <3>2. Holds(e, Code(placement[e]))
      <4>1. placement'[e] = placement[e]
        BY <2>1
      <4> QED
        BY <2>1, <3>1, <4>1 DEF Holds, Target, Code, Outcomes
    <3> QED
      BY <1>6, <2>1, <2>4, <3>2
  <2> QED
    BY <1>10, <2>2, <2>3, <2>4 DEF Command
<1>11. ASSUME NEW w \in Workers, Finish(w) \/ Crash(w)
       PROVE  AllGood
  BY <1>5, <1>11 DEF Finish, Crash, Release
<1>12. ASSUME UNCHANGED job
       PROVE  AllGood
  BY <1>3, <1>12
<1>13. AllGood
  <2>1. CASE RecruiterNext
    BY <1>12, <2>1 DEF RecruiterNext, AddCheck, Add, Decide, LoadDecided, Read, Write
  <2>2. CASE PlatformNext
    BY <1>12, <2>2 DEF PlatformNext, SetRequisition, RecordEvidence, Submit, PlacementEnds
  <2>3. CASE WorkerNext
    BY <1>7, <1>8, <1>9, <1>10, <1>11, <2>3 DEF WorkerNext, WorkerStep
  <2> QED
    BY <2>1, <2>2, <2>3 DEF Next
<1>14. JobInv'
  BY <1>13 DEF JobInv, GoodNext, Truth, Holds
<1>15. ASSUME NEW e \in Episodes
       PROVE  Holds(e, inbox'[e])
  <2>1. Truth(e, inbox[e])
    BY DEF InboxTruthful, Truth
  <2>2. ASSUME NEW w \in Workers, Finish(w)
        PROVE  Holds(e, inbox'[e])
    <3>1. job[w].ep \in Episodes /\ Truth(job[w].ep, job[w].code)
      BY <1>2, <2>2 DEF Good, Finish
    <3>2. inbox'[e] = inbox[e] \/ (e = job[w].ep /\ inbox'[e] = job[w].code)
      BY <2>2, <3>1 DEF Finish
    <3> QED
      BY <1>1, <2>1, <3>1, <3>2
  <2>3. ASSUME NEW w \in Workers, Reserve(w)
        PROVE  Holds(e, inbox'[e])
    <3>1. inbox'[e] = inbox[e] \/ inbox'[e] = "pending"
      BY <2>3 DEF Reserve
    <3> QED
      BY <1>1, <2>1, <3>1 DEF Holds
  <2>4. CASE UNCHANGED inbox
    BY <1>1, <2>1, <2>4
  <2>5. CASE RecruiterNext
    BY <2>4, <2>5 DEF RecruiterNext, AddCheck, Add, Decide, LoadDecided, Read, Write
  <2>6. CASE PlatformNext
    BY <2>4, <2>6 DEF PlatformNext, SetRequisition, RecordEvidence, Submit, PlacementEnds
  <2>7. CASE WorkerNext
    BY <2>2, <2>3, <2>4, <2>7 DEF WorkerNext, WorkerStep, Pick, Load, Command, Crash
  <2> QED
    BY <2>5, <2>6, <2>7 DEF Next
<1>16. InboxTruthful'
  BY <1>15 DEF InboxTruthful, Holds
<1> QED
  BY <1>14, <1>16

-----------------------------------------------------------------------------
(* Every episode with a submittal had been live when it was submitted. *)
LEMMA Submitted ==
  ASSUME TypeOK, Next
  PROVE  \A e \in Episodes : placement'[e] # "none" => placement[e] # "none" \/ Live(e)
<1>1. CASE RecruiterNext
  BY <1>1 DEF RecruiterNext, AddCheck, Add, Read, Write, Decide, LoadDecided, TypeOK
<1>2. CASE WorkerNext
  BY <1>2 DEF WorkerNext, WorkerStep, Pick, Reserve, Load, Command, Finish, Crash
<1>3. CASE PlatformNext
  BY <1>3 DEF PlatformNext, SetRequisition, RecordEvidence, Submit, PlacementEnds, TypeOK
<1> QED
  BY <1>1, <1>2, <1>3 DEF Next

(* Inv holds at the start and every step keeps it. *)
LEMMA Inductive ==
  /\ Init => Inv
  /\ Inv /\ [Next]_vars => Inv'
<1>1. ASSUME Init
      PROVE  Inv
  <2> USE <1>1 DEF Init
  <2>1. TypeOK
    BY Nothing, EpisodeAssumption DEF EpisodeAssumption, TypeOK
  <2>2. BirthInv /\ OneLiveEpisode /\ HistorySound
    BY DEF BirthInv, OneLiveEpisode, HistorySound, Live, Active
  <2>3. EvidenceGrounded
    <3>1. \A e \in Episodes : Len(history[e]) = 0
      OBVIOUS
    <3> QED
      BY <3>1 DEF EvidenceGrounded
  <2>4. DecidedInv /\ WriteInv /\ JobInv
    BY DEF DecidedInv, WriteInv, JobInv, Idle, NoJob
  <2>5. DispositionMatches /\ InboxTruthful
    BY DEF DispositionMatches, InboxTruthful
  <2> QED
    BY <2>1, <2>2, <2>3, <2>4, <2>5 DEF Inv
<1>2. ASSUME Inv, Next
      PROVE  Inv'
  <2>1. TypeOK /\ BirthInv /\ RowStep
    BY <1>2, Shape DEF Inv
  <2>2. TypeOK'
    BY <1>2, <2>1, RowsTyped, RestTyped DEF TypeOK, RowTypes
  <2>3. \A e \in Episodes : Grown(e)
    BY <2>1, RowsGrow
  <2>4. HistorySound'
    BY <1>2, <2>1, ChainKept DEF Inv
  <2>5. EvidenceGrounded'
    BY <1>2, <2>1, OthersGrow, GroundsKept DEF Inv
  <2>6. OneLiveEpisode' /\ DispositionMatches' /\ BirthInv'
    BY <1>2, <2>1, OthersGrow, Submitted, EpisodesKept DEF Inv
  <2>7. WriteInv' /\ DecidedInv'
    BY <1>2, <2>1, <2>3, OthersGrow, RequestsKept, DecidedKept
  <2>8. JobInv' /\ InboxTruthful'
    BY <1>2, <2>1, <2>3, OthersGrow, JobsKept
  <2> QED
    BY <2>2, <2>4, <2>5, <2>6, <2>7, <2>8 DEF Inv
<1>3. ASSUME Inv, UNCHANGED vars
      PROVE  Inv'
  <2> USE <1>3 DEF Inv, vars, rowVars
  <2>1. TypeOK'
    BY DEF TypeOK
  <2>2. BirthInv' /\ OneLiveEpisode' /\ HistorySound'
    BY DEF BirthInv, OneLiveEpisode, HistorySound, Live
  <2>3. EvidenceGrounded'
    BY DEF EvidenceGrounded
  <2>4. WriteInv' /\ DecidedInv'
    BY DEF WriteInv, DecidedInv, Fits, Based
  <2>5. JobInv'
    BY DEF JobInv, Truth
  <2>6. DispositionMatches' /\ InboxTruthful'
    BY DEF DispositionMatches, InboxTruthful
  <2> QED
    BY <2>1, <2>2, <2>3, <2>4, <2>5, <2>6
<1> QED
  BY <1>1, <1>2, <1>3

(* The strengthened invariant holds of every behaviour. *)
LEMMA Invariant == Spec => []Inv
BY Inductive, PTL DEF Spec

(* Every row, request and job keeps its type (the Prisma schema and the records of the *)
(* orchestrator).                                                                     *)
THEOREM TypeCorrect == Spec => []TypeOK
<1>1. Inv => TypeOK
  BY DEF Inv
<1> QED
  BY <1>1, Invariant, PTL

(* However many adds race, one live episode per talent and requisition. *)
THEOREM OneLive == Spec => []OneLiveEpisode
<1>1. Inv => OneLiveEpisode
  BY DEF Inv
<1> QED
  BY <1>1, Invariant, PTL

(* However many recruiters, replicas and reconciliations race, the history is the chain *)
(* of the episode's legal moves, one row per version.                                  *)
THEOREM HistoryIsChain == Spec => []HistorySound
<1>1. Inv => HistorySound
  BY DEF Inv
<1> QED
  BY <1>1, Invariant, PTL

(* Every arrival at contacted or talent_responded rests on recorded evidence. *)
THEOREM ArrivalsGrounded == Spec => []EvidenceGrounded
<1>1. Inv => EvidenceGrounded
  BY DEF Inv
<1> QED
  BY <1>1, Invariant, PTL

(* An ended episode has its one disposition; only a placement that started completes it. *)
THEOREM OneDisposition == Spec => []DispositionMatches
<1>1. Inv => DispositionMatches
  BY DEF Inv
<1> QED
  BY <1>1, Invariant, PTL

(* Through any crashes and with any number of replicas, the inbox's outcome codes say *)
(* what became of the episode.                                                       *)
THEOREM InboxSaysTrue == Spec => []InboxTruthful
<1>1. Inv => InboxTruthful
  BY DEF Inv
<1> QED
  BY <1>1, Invariant, PTL

(* A closed requisition stops every move but one out of the funnel. *)
THEOREM ClosedMeansStopped == Spec => ClosedStops
<1> DEFINE Stops == requisition = "closed" =>
       \A e \in Episodes : status'[e] # status[e] => status'[e] \in Terminals
<1>1. ASSUME Inv, [Next]_vars
      PROVE  [Stops]_vars
  <2>1. CASE UNCHANGED vars
    BY <2>1
  <2>2. CASE Next
    <3>1. TypeOK /\ RowStep
      BY <1>1, <2>2, Shape DEF Inv
    <3>2. CASE UNCHANGED rowVars
      BY <3>2 DEF rowVars
    <3>3. ASSUME NEW e \in Episodes, Born(e) \/ Hopped(e)
          PROVE  Stops
      BY <3>3 DEF Born, Hopped
    <3>4. ASSUME NEW e \in Episodes, NEW to \in Statuses, NEW kind \in Kinds \union {"none"},
                 NEW a \in {"none", "recruiter", "downstream"}, Moved(e, to, kind, a)
          PROVE  Stops
      BY <3>1, <3>4 DEF Moved, Move, TypeOK
    <3> QED
      BY <3>1, <3>2, <3>3, <3>4 DEF RowStep
  <2> QED
    BY <1>1, <2>1, <2>2
<1> QED
  BY <1>1, Invariant, PTL DEF Spec, ClosedStops

(* No recruiter's command moves an episode that has moved since the recruiter looked. *)
THEOREM NoStale == Spec => NoStaleDecision
<1> DEFINE Fresh == \A r \in Recruiters :
       tx[r].step = "write" /\ tx[r].cmd.op # "reconcile" /\ tx'[r] # tx[r] =>
         \A e \in Episodes :
           version'[e] # version[e] => e = tx[r].ep /\ version[e] = tx[r].seen
<1>1. ASSUME Inv, [Next]_vars
      PROVE  [Fresh]_vars
  <2>1. CASE UNCHANGED vars
    BY <2>1
  <2>2. CASE Next
    <3>1. SUFFICES ASSUME NEW r \in Recruiters, tx[r].step = "write", tx'[r] # tx[r],
                          NEW e \in Episodes, version'[e] # version[e]
                   PROVE  e = tx[r].ep /\ version[e] = tx[r].seen
      OBVIOUS
    <3>2. TypeOK /\ WriteInv
      BY <1>1 DEF Inv
    <3>3. RecruiterNext
      <4>1. CASE WorkerNext
        BY <3>1, <4>1
        DEF WorkerNext, WorkerStep, Pick, Reserve, Load, Command, Finish, Crash
      <4>2. CASE PlatformNext
        BY <3>1, <4>2 DEF PlatformNext, SetRequisition, RecordEvidence, Submit, PlacementEnds
      <4> QED
        BY <2>2, <4>1, <4>2 DEF Next
    <3>4. PICK q \in Recruiters : Add(q) \/ Write(q)
      BY <3>1, <3>3 DEF RecruiterNext, AddCheck, Decide, LoadDecided, Read, rowVars
    <3>5. q = r
      BY <3>1, <3>2, <3>4 DEF Add, Write, Answer, TypeOK
    <3>6. Write(r) /\ ~UNCHANGED rowVars
      BY <3>1, <3>4, <3>5 DEF Add, rowVars
    <3>7. /\ version[tx[r].ep] = tx[r].version
          /\ \E n \in {1, 2} : version' = [version EXCEPT ![tx[r].ep] = @ + n]
      BY <3>6 DEF Write, Swappable, TwoHops, Move
    <3>8. tx[r].seen = tx[r].version
      BY <3>1, <3>2 DEF WriteInv
    <3> QED
      BY <3>1, <3>2, <3>7, <3>8 DEF TypeOK
  <2> QED
    BY <1>1, <2>1, <2>2
<1> QED
  BY <1>1, Invariant, PTL DEF Spec, NoStaleDecision

-----------------------------------------------------------------------------
(* The refinement of EpisodeLedger. *)

(* A replica about to command knows a version at which the episode was live, and only *)
(* the event of a placement that started is skipped.                                 *)
SkipInv ==
  /\ \A w \in Workers :
       /\ job[w].step = "command" =>
            /\ job[w].version <= version[job[w].ep]
            /\ job[w].version = version[job[w].ep] => Live(job[w].ep)
       /\ job[w].step = "finish" /\ job[w].code = "pipeline_not_live" =>
            placement[job[w].ep] = "STARTED"
  /\ \A e \in Episodes : inbox[e] = "pipeline_not_live" => placement[e] = "STARTED"

(* What SkipInv says of one replica in the next state. *)
Sound(w) ==
  /\ job'[w].step = "command" =>
       /\ job'[w].version <= version'[job'[w].ep]
       /\ job'[w].version = version'[job'[w].ep] => status'[job'[w].ep] \in Active
  /\ job'[w].step = "finish" /\ job'[w].code = "pipeline_not_live" =>
       placement'[job'[w].ep] = "STARTED"

(* Every step keeps SkipInv. *)
LEMMA SkipStep ==
  ASSUME Inv, SkipInv, Next
  PROVE  SkipInv'
<1> USE DEF Inv, TypeOK
<1>1. \A e \in Episodes : Grown(e)
  BY Shape, RowsGrow
<1>2. \A e \in Episodes : placement[e] \in Outcomes => placement'[e] = placement[e]
  BY OthersGrow
<1>3. RowTypes'
  BY Shape, RowsTyped
<1>4. \A w \in Workers : job[w].step # "idle" =>
        job[w].ep \in Episodes /\ placement[job[w].ep] \in Outcomes
  BY DEF JobInv
<1>5. ASSUME NEW w \in Workers, job'[w] = job[w]
      PROVE  Sound(w)
  <2>1. ASSUME job[w].step = "command"
        PROVE  /\ job[w].version <= version'[job[w].ep]
               /\ job[w].version = version'[job[w].ep] => status'[job[w].ep] \in Active
    <3>1. /\ job[w].ep \in Episodes
          /\ job[w].version \in Nat
      BY <1>4, <2>1 DEF Jobs
    <3>2. version[job[w].ep] \in Nat /\ version'[job[w].ep] \in Nat
      BY <1>3, <3>1 DEF RowTypes
    <3>3. /\ job[w].version <= version[job[w].ep]
          /\ job[w].version = version[job[w].ep] => status[job[w].ep] \in Active
      BY <2>1 DEF SkipInv, Live
    <3>4. /\ version'[job[w].ep] >= version[job[w].ep]
          /\ status[job[w].ep] # "unborn" /\ version'[job[w].ep] = version[job[w].ep]
               => status'[job[w].ep] = status[job[w].ep]
      BY <1>1, <3>1 DEF Grown
    <3> QED
      BY <3>1, <3>2, <3>3, <3>4 DEF Active
  <2>2. ASSUME job[w].step = "finish", job[w].code = "pipeline_not_live"
        PROVE  placement'[job[w].ep] = "STARTED"
    BY <1>2, <1>4, <2>2 DEF SkipInv
  <2> QED
    BY <1>5, <2>1, <2>2 DEF Sound
<1>6. ASSUME NEW w \in Workers, job' = [job EXCEPT ![w] = NoJob]
      PROVE  \A v \in Workers : Sound(v)
  <2>1. job'[w].step = "idle" /\ \A v \in Workers \ {w} : job'[v] = job[v]
    BY <1>6 DEF NoJob
  <2> QED
    BY <1>5, <2>1 DEF Sound
<1>7. ASSUME NEW w \in Workers, NEW code, Conclude(w, code), job[w].step # "idle",
             code = "pipeline_not_live" => placement[job[w].ep] = "STARTED"
      PROVE  \A v \in Workers : Sound(v)
  <2>1. /\ job'[w].step = "finish"
        /\ job'[w].ep = job[w].ep
        /\ job'[w].code = code
        /\ \A v \in Workers \ {w} : job'[v] = job[v]
    BY <1>7 DEF Conclude, Jobs
  <2>2. code = "pipeline_not_live" => placement'[job[w].ep] = "STARTED"
    BY <1>2, <1>4, <1>7
  <2> QED
    BY <1>5, <2>1, <2>2 DEF Sound
<1>8. ASSUME NEW w \in Workers, NEW e \in Episodes, Pick(w, e)
      PROVE  \A v \in Workers : Sound(v)
  <2>1. job'[w].step = "reserve" /\ \A v \in Workers \ {w} : job'[v] = job[v]
    BY <1>8 DEF Pick, NoJob
  <2> QED
    BY <1>5, <2>1 DEF Sound
<1>9. ASSUME NEW w \in Workers, Reserve(w)
      PROVE  \A v \in Workers : Sound(v)
  <2>1. CASE Release(w)
    BY <1>6, <2>1 DEF Release
  <2>2. CASE Advance(w, "load")
    <3>1. job'[w].step = "load" /\ \A v \in Workers \ {w} : job'[v] = job[v]
      BY <2>2 DEF Advance, Jobs
    <3> QED
      BY <1>5, <3>1 DEF Sound
  <2> QED
    BY <1>9, <2>1, <2>2 DEF Reserve
<1>10. ASSUME NEW w \in Workers, Load(w)
       PROVE  \A v \in Workers : Sound(v)
  <2> DEFINE e == job[w].ep
  <2>1. e \in Episodes /\ job[w].step = "load"
    BY <1>4, <1>10 DEF Load
  <2>2. CASE Live(e)
    <3>1. /\ job'[w].step = "command"
          /\ job'[w].ep = e
          /\ job'[w].version = version[e]
          /\ \A v \in Workers \ {w} : job'[v] = job[v]
      BY <1>10, <2>2 DEF Load, Jobs
    <3>2. version' = version /\ status' = status /\ version[e] \in Nat
      BY <1>10, <2>1 DEF Load, rowVars
    <3> QED
      BY <1>5, <2>2, <3>1, <3>2 DEF Sound, Live
  <2>3. CASE ~Live(e)
    <3>1. Conclude(w, IF placement[e] = "STARTED" /\ status[e] # "completed"
                      THEN "pipeline_not_live" ELSE "already_satisfied")
      BY <1>10, <2>3 DEF Load
    <3> QED
      BY <1>7, <2>1, <3>1
  <2> QED
    BY <2>2, <2>3
<1>11. ASSUME NEW w \in Workers, Command(w)
       PROVE  \A v \in Workers : Sound(v)
  <2> DEFINE e == job[w].ep
             to == Target(placement[e])
  <2>1. e \in Episodes /\ job[w].step = "command" /\ placement[e] \in Outcomes
    BY <1>4, <1>11 DEF Command
  <2>2. CASE Release(w)
    BY <1>6, <2>2 DEF Release
  <2>3. CASE /\ version[e] = job[w].version
             /\ to \notin LegalNext(status[e])
             /\ Conclude(w, "pipeline_not_live")
    <3>1. status[e] \in Active
      BY <2>1, <2>3 DEF SkipInv, Live
    <3>2. placement[e] = "STARTED"
      BY <2>3, <3>1, DispositionLegal DEF Target
    <3> QED
      BY <1>7, <2>1, <2>3, <3>2
  <2>4. CASE Conclude(w, Code(placement[e]))
    <3>1. Code(placement[e]) # "pipeline_not_live"
      BY DEF Code
    <3> QED
      BY <1>7, <2>1, <2>4, <3>1
  <2> QED
    BY <1>11, <2>2, <2>3, <2>4 DEF Command
<1>12. ASSUME NEW w \in Workers, Finish(w) \/ Crash(w)
       PROVE  \A v \in Workers : Sound(v)
  BY <1>6, <1>12 DEF Finish, Crash, Release
<1>13. \A v \in Workers : Sound(v)
  <2>0. ASSUME UNCHANGED job
        PROVE  \A v \in Workers : Sound(v)
    BY <1>5, <2>0
  <2>1. CASE RecruiterNext
    BY <2>0, <2>1 DEF RecruiterNext, AddCheck, Add, Decide, LoadDecided, Read, Write
  <2>2. CASE PlatformNext
    BY <2>0, <2>2 DEF PlatformNext, SetRequisition, RecordEvidence, Submit, PlacementEnds
  <2>3. CASE WorkerNext
    BY <1>8, <1>9, <1>10, <1>11, <1>12, <2>3 DEF WorkerNext, WorkerStep
  <2> QED
    BY <2>1, <2>2, <2>3 DEF Next
<1>14. ASSUME NEW e \in Episodes, inbox'[e] = "pipeline_not_live"
       PROVE  placement'[e] = "STARTED"
  <2>1. CASE inbox[e] = "pipeline_not_live"
    BY <1>2, <2>1 DEF SkipInv, Outcomes
  <2>2. CASE inbox'[e] # inbox[e]
    <3>1. PICK w \in Workers : Finish(w) \/ Reserve(w)
      BY <2>2 DEF Next, RecruiterNext, AddCheck, Add, Decide, LoadDecided, Read, Write,
                  PlatformNext, SetRequisition, RecordEvidence, Submit, PlacementEnds, WorkerNext, WorkerStep, Pick, Load,
                  Command, Crash
    <3>2. Finish(w) /\ e = job[w].ep /\ job[w].code = "pipeline_not_live"
      BY <1>14, <2>2, <3>1 DEF Finish, Reserve
    <3> QED
      BY <1>2, <1>4, <3>2 DEF SkipInv, Finish
  <2> QED
    BY <1>14, <2>1, <2>2
<1> QED
  BY <1>13, <1>14 DEF SkipInv, Sound, Live

(* SkipInv holds of every behaviour. *)
LEMMA Skipped == Spec => []SkipInv
<1>1. Init => SkipInv
  BY DEF Init, SkipInv, NoJob
<1>2. Inv /\ SkipInv /\ [Next]_vars => SkipInv'
  <2>1. ASSUME SkipInv, UNCHANGED vars
        PROVE  SkipInv'
    BY <2>1 DEF SkipInv, vars, rowVars, Live
  <2> QED
    BY <2>1, SkipStep
<1> QED
  BY <1>1, <1>2, Invariant, PTL DEF Spec

(* handleFallthrough ends the episode whatever its stage; only handleStarted, which     *)
(* completes from qualified alone, lets classifyCommandError finish an event with the   *)
(* episode still live.                                                                *)
THEOREM OnlyStarts == Spec => []OnlyStartsAreSkipped
<1>1. Inv /\ SkipInv => OnlyStartsAreSkipped
  BY DEF Inv, InboxTruthful, SkipInv, OnlyStartsAreSkipped, Live, Active, Terminals, OutcomeCodes
<1> QED
  BY <1>1, Invariant, Skipped, PTL

(* A row that changes is the whole of what its step changes of the ledger's state. *)
LEMMA RowsAlone ==
  ASSUME Inv, Next, ~UNCHANGED rowVars
  PROVE  UNCHANGED <<requisition, evidence, placement, inbox>>
<1>1. CASE RecruiterNext
  BY <1>1 DEF RecruiterNext, AddCheck, Add, Decide, LoadDecided, Read, Write
<1>2. CASE WorkerNext
  BY <1>2 DEF WorkerNext, WorkerStep, Pick, Reserve, Load, Command, Finish, Crash
<1>3. CASE PlatformNext
  BY <1>3 DEF PlatformNext, SetRequisition, RecordEvidence, Submit, PlacementEnds
<1> QED
  BY <1>1, <1>2, <1>3 DEF Next

(* Within the funnel and out of it, a legal move that the gate permits is allowed. *)
LEMMA AllowedMove ==
  ASSUME TypeOK, NEW e \in Episodes, NEW to \in Statuses, status[e] \in Active,
         to \in LegalNext(status[e]) \/ (status[e] = "no_contact" /\ to = "voided"),
         GatePermits(requisition, status[e], to)
  PROVE  <<requisition, status[e], to>> \in AllowedMoves
BY DEF TypeOK, AllowedMoves, Statuses

(* Two rows appended are two rows concatenated. *)
LEMMA AppendTwice ==
  ASSUME NEW S, NEW h \in Seq(S), NEW a \in S, NEW b \in S
  PROVE  Append(Append(h, a), b) = h \o <<a, b>>
OBVIOUS

(* A step that changes a row is one atomic command. *)
LEMMA LedgerRows ==
  ASSUME Inv, Next, ~UNCHANGED rowVars
  PROVE  Ledger!Next
<1> USE DEF Inv, TypeOK
<1>1. /\ requisition' = requisition
      /\ evidence' = evidence
      /\ placement' = placement
      /\ Answers' = Answers
  BY RowsAlone DEF Answers
<1>2. ASSUME NEW e \in Episodes, Born(e)
      PROVE  Ledger!Next
  <2>1. Ledger!Open(e)
    BY <1>1, <1>2 DEF Born, LiveSlotFree, Live, Row, Ledger!Open, Ledger!Entry
  <2> QED
    BY <2>1 DEF Ledger!Next
<1>3. ASSUME NEW e \in Episodes, NEW to \in Statuses, NEW kind \in Kinds \union {"none"},
             NEW a \in {"none", "recruiter", "downstream"}, Moved(e, to, kind, a)
      PROVE  Ledger!Next
  <2>1. /\ status[e] \in Active
        /\ to \in LegalNext(status[e]) \/ (status[e] = "no_contact" /\ to = "voided")
        /\ kind \in evidence \union {"none"}
        /\ to \in EvidenceBacked => Based(e, [to |-> to, evidence |-> kind])
        /\ a # "none" <=> to \in {"not_in_consideration", "completed"}
        /\ to = "completed" => a = "downstream"
        /\ a = "downstream" =>
             kind = "none" /\ placement[e] \in Settled /\ to = Target(placement[e])
        /\ GatePermits(requisition, status[e], to)
        /\ Move(e, status[e], to, kind, a)
    BY <1>3 DEF Moved
  <2>2. <<requisition, status[e], to>> \in AllowedMoves
    BY <2>1, AllowedMove
  <2>3. to \in EvidenceBacked =>
          \/ <<to, kind>> \in Establishing
          \/ kind = "none" /\ \E i \in 1 .. Len(history[e]) : history[e][i].to = to
    <3>1. ASSUME to \in EvidenceBacked, Admissible(to, kind)
          PROVE  <<to, kind>> \in Establishing
      BY <3>1 DEF Establishing, Admissible, Kinds
    <3> QED
      BY <2>1, <3>1 DEF Based
  <2>4. /\ status' = [status EXCEPT ![e] = to]
        /\ history' = [history EXCEPT ![e] = Append(@, Row(status[e], to, kind))]
        /\ disposition' = [disposition EXCEPT ![e] = IF a = "none" THEN @ ELSE a]
    BY <2>1 DEF Move
  <2>5. Ledger!Enter(e, to, kind)
    BY <2>1, <2>2, <2>3, <2>4 DEF Row, Ledger!Enter, Ledger!Entry
  <2>6. CASE a = "downstream"
    <3>1. Ledger!Enter(e, IF placement[e] = "STARTED" THEN "completed"
                          ELSE "not_in_consideration", "none")
      BY <2>1, <2>5, <2>6 DEF Target
    <3>2. Ledger!Conclude(e)
      BY <1>1, <2>1, <2>4, <2>6, <3>1 DEF Ledger!Conclude, Settled, Outcomes
    <3> QED
      BY <3>2 DEF Ledger!Next
  <2>7. CASE a # "downstream"
    <3>1. Ledger!Advance(e, to, kind)
      BY <1>1, <2>1, <2>4, <2>5, <2>7 DEF Ledger!Advance
    <3> QED
      BY <2>1, <3>1 DEF Ledger!Next
  <2> QED
    BY <2>6, <2>7
<1>4. ASSUME NEW e \in Episodes, Hopped(e)
      PROVE  Ledger!Next
  <2> DEFINE one == Row("no_contact", "contacted", "confirmation")
             two == Row("contacted", "talent_responded", "confirmation")
  <2>1. /\ status[e] = "no_contact"
        /\ requisition = "open"
        /\ "confirmation" \in evidence
        /\ TwoHops(e, "confirmation")
    BY <1>4 DEF Hopped
  <2>2. /\ <<requisition, "no_contact", "contacted">> \in AllowedMoves
        /\ <<requisition, "contacted", "talent_responded">> \in AllowedMoves
    BY <2>1 DEF AllowedMoves, RequisitionStatuses, Statuses, Active, LegalNext, GatePermits,
                RequisitionPermits, Ordinal
  <2>3. <<"contacted", "confirmation">> \in Establishing
        /\ <<"talent_responded", "confirmation">> \in Establishing
    BY DEF Establishing, EvidenceBacked, Kinds, Admissible
  <2>4. one \in Rows /\ two \in Rows /\ history[e] \in Seq(Rows)
    BY DEF Row, Rows, Statuses, Active, Kinds
  <2>5. Append(Append(history[e], one), two) = history[e] \o <<one, two>>
    BY <2>4, AppendTwice
  <2>6. history' = [history EXCEPT ![e] = @ \o <<one, two>>]
    BY <2>1, <2>5 DEF TwoHops
  <2>7. Ledger!Repair(e)
    <3>1. \A hop \in {<<"no_contact", "contacted">>, <<"contacted", "talent_responded">>} :
            /\ <<requisition, hop[1], hop[2]>> \in AllowedMoves
            /\ \E kind \in evidence : <<hop[2], kind>> \in Establishing
      <4>1. TAKE hop \in {<<"no_contact", "contacted">>, <<"contacted", "talent_responded">>}
      <4>2. \/ hop[1] = "no_contact" /\ hop[2] = "contacted"
            \/ hop[1] = "contacted" /\ hop[2] = "talent_responded"
        BY <4>1
      <4>3. <<requisition, hop[1], hop[2]>> \in AllowedMoves
        BY <2>2, <4>2
      <4>4. <<hop[2], "confirmation">> \in Establishing
        BY <2>3, <4>2
      <4> QED
        BY <2>1, <4>3, <4>4
    <3>2. /\ one = Ledger!Entry("no_contact", "contacted", "confirmation")
          /\ two = Ledger!Entry("contacted", "talent_responded", "confirmation")
      BY DEF Row, Ledger!Entry
    <3>3. /\ status' = [status EXCEPT ![e] = "talent_responded"]
          /\ disposition' = disposition
      BY <2>1 DEF TwoHops
    <3> HIDE DEF one, two
    <3> QED
      BY <1>1, <2>1, <2>6, <3>1, <3>2, <3>3 DEF Ledger!Repair
  <2> QED
    BY <2>7 DEF Ledger!Next
<1> QED
  BY <1>2, <1>3, <1>4, Shape DEF RowStep

(* So is one that changes none, or it answers an event, or nobody sees it. *)
LEMMA LedgerRest ==
  ASSUME Inv, SkipInv, Next, UNCHANGED rowVars
  PROVE  [Ledger!Next]_(Ledger!vars)
<1> USE DEF Inv, TypeOK
<1>1. status' = status /\ history' = history /\ disposition' = disposition
  BY DEF rowVars
<1>2. ASSUME UNCHANGED <<requisition, evidence, placement, inbox>>
      PROVE  UNCHANGED Ledger!vars
  BY <1>1, <1>2 DEF Ledger!vars, Answers
<1>31. ASSUME NEW r \in Recruiters, NEW e \in Episodes, Decide(r, e)
       PROVE  [Ledger!Next]_(Ledger!vars)
  <2>1. /\ placement' = [placement EXCEPT ![e] = "DECLINED"]
        /\ placement[e] \in {"submitted", "DECLINED"}
        /\ requisition' = requisition
        /\ evidence' = evidence
        /\ Answers' = Answers
    BY <1>31 DEF Decide, Answers
  <2>2. placement' \in [Episodes -> {"none", "submitted", "DECLINED", "STARTED", "FELL_THROUGH"}]
    BY <2>1 DEF Outcomes
  <2>3. Ledger!Platform
    BY <1>1, <2>1, <2>2 DEF Ledger!Platform
  <2> QED
    BY <2>3 DEF Ledger!Next
<1>3. CASE RecruiterNext
  BY <1>2, <1>3, <1>31 DEF RecruiterNext, AddCheck, Add, LoadDecided, Read, Write
<1>4. ASSUME NEW w \in Workers, Finish(w)
      PROVE  [Ledger!Next]_(Ledger!vars)
  <2> DEFINE e == job[w].ep
             code == job[w].code
  <2>1. /\ e \in Episodes
        /\ Truth(e, code)
        /\ code \in OutcomeCodes
        /\ code = "pipeline_not_live" => placement[e] = "STARTED"
    BY <1>4 DEF JobInv, SkipInv, Finish, Jobs
  <2>2. CASE inbox[e] # "pending"
    <3>1. inbox' = inbox
      BY <1>4, <2>1, <2>2 DEF Finish
    <3> QED
      BY <1>2, <1>4, <3>1 DEF Finish
  <2>3. CASE inbox[e] = "pending"
    <3>1. inbox' = [inbox EXCEPT ![e] = code]
      BY <1>4, <2>1, <2>3 DEF Finish
    <3>2. /\ Answers[e] = "none"
          /\ Answers' = [Answers EXCEPT ![e] = code]
      BY <2>1, <2>3, <3>1 DEF Answers, OutcomeCodes
    <3>3. \/ code = "completed" /\ status[e] = "completed"
          \/ /\ code = "dispositioned"
             /\ status[e] = "not_in_consideration"
             /\ disposition[e] = "downstream"
          \/ code = "already_satisfied" /\ status[e] \notin Active \union {"unborn"}
          \/ code = "pipeline_not_live" /\ placement[e] = "STARTED"
      BY <2>1 DEF Truth, OutcomeCodes, Active, Terminals
    <3>4. requisition' = requisition /\ evidence' = evidence /\ placement' = placement
      BY <1>4 DEF Finish
    <3>5. Ledger!Tell(e, code)
      BY <1>1, <3>2, <3>3, <3>4 DEF Ledger!Tell
    <3> QED
      BY <2>1, <3>5 DEF Ledger!Next, OutcomeCodes
  <2> QED
    BY <2>2, <2>3
<1>5. ASSUME NEW w \in Workers, Reserve(w)
      PROVE  UNCHANGED Ledger!vars
  <2>1. CASE inbox' = inbox
    BY <1>2, <1>5, <2>1 DEF Reserve
  <2>2. CASE inbox' # inbox
    <3>1. /\ inbox' = [inbox EXCEPT ![job[w].ep] = "pending"]
          /\ inbox[job[w].ep] \notin OutcomeCodes
      BY <1>5, <2>2 DEF Reserve
    <3>2. Answers' = Answers
      BY <3>1 DEF Answers, OutcomeCodes
    <3> QED
      BY <1>1, <1>5, <3>2 DEF Reserve, Ledger!vars
  <2> QED
    BY <2>1, <2>2
<1>6. CASE WorkerNext
  BY <1>2, <1>4, <1>5, <1>6 DEF WorkerNext, WorkerStep, Pick, Load, Command, Crash
<1>7. CASE PlatformNext
  <2>1. Answers' = Answers
    BY <1>7 DEF PlatformNext, SetRequisition, RecordEvidence, Submit, PlacementEnds, Answers
  <2>2. /\ requisition = "closed" => requisition' = "closed"
        /\ evidence \subseteq evidence'
    BY <1>7 DEF PlatformNext, SetRequisition, RecordEvidence, Submit, PlacementEnds
  <2> DEFINE Onward ==
        /\ placement' \in [Episodes -> {"none", "submitted", "DECLINED", "STARTED",
                                        "FELL_THROUGH"}]
        /\ \A e \in Episodes : placement'[e] # placement[e] =>
             \/ placement[e] = "none" /\ placement'[e] = "submitted" /\ status[e] \in Active
             \/ /\ placement[e] = "submitted"
                /\ placement'[e] \in {"DECLINED", "STARTED", "FELL_THROUGH"}
  <2>3. Onward
    <3>1. ASSUME NEW f \in Episodes, Submit(f)
          PROVE  Onward
      BY <3>1 DEF Submit, Live, Outcomes
    <3>2. ASSUME NEW f \in Episodes, NEW o \in Outcomes, PlacementEnds(f, o)
          PROVE  Onward
      BY <3>2 DEF PlacementEnds, Outcomes
    <3>3. CASE placement' = placement
      BY <3>3 DEF Outcomes
    <3> QED
      BY <1>7, <3>1, <3>2, <3>3 DEF PlatformNext, SetRequisition, RecordEvidence
  <2>4. Ledger!Platform
    BY <1>1, <2>1, <2>2, <2>3 DEF Ledger!Platform
  <2> QED
    BY <2>4 DEF Ledger!Next
<1> QED
  BY <1>3, <1>6, <1>7 DEF Next

(* transitionInTx, void, reconcileForward, complete and dispositionDownstream, for any *)
(* number of recruiters and replicas and through any crashes, are atomic: each entry is *)
(* decided on the row, requisition and evidence it is written against, and each         *)
(* placement event is answered once and truthfully.                                   *)
THEOREM LedgerRefined == Spec => ImplementsLedger
<1>1. Init => Ledger!Init
  BY DEF Init, Ledger!Init, Answers, OutcomeCodes, RequisitionStatuses
<1>2. Inv /\ SkipInv /\ [Next]_vars => [Ledger!Next]_(Ledger!vars)
  <2>1. ASSUME UNCHANGED vars
        PROVE  UNCHANGED Ledger!vars
    BY <2>1 DEF vars, rowVars, Ledger!vars, Answers
  <2> QED
    BY <2>1, LedgerRows, LedgerRest
<1> QED
  BY <1>1, <1>2, Invariant, Skipped, PTL DEF Spec, ImplementsLedger, Ledger!Spec

=============================================================================
