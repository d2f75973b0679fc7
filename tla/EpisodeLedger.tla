---------------------------- MODULE EpisodeLedger ----------------------------
(***************************************************************************)
(* What the Pipeline promises of the episodes of one talent on one            *)
(* requisition, without versions, transactions, replicas or an inbox that is  *)
(* pending: commands are atomic.  An entry is decided on the stage, the       *)
(* requisition, the evidence and what became of the submission as they are    *)
(* when it is written, and a placement event is answered once.               *)
(***************************************************************************)
EXTENDS Naturals, Sequences

CONSTANTS
  Episodes,    \* what may be opened
  Active,      \* the stages of a live episode
  Stages,      \* these and the ones it ends in
  Allowed,     \* <<r, s, t>>: on a requisition in status r an episode may go from s to t
  Milestones,  \* the stages that need grounds
  Establishes  \* <<s, k>>: evidence of kind k is grounds for stage s

VARIABLES
  requisition,
  evidence,
  outcome,     \* how far the submission of the episode has come
  stage,
  ledger,      \* the entries of the episode, oldest first
  ending,      \* on whose authority it ended, "none" if on nobody's
  answer       \* what the placement was told of its episode, "none" before

vars == <<requisition, evidence, outcome, stage, ledger, ending, answer>>

Init ==
  /\ requisition \in {"lead", "open", "closed"}
  /\ evidence = {}
  /\ outcome = [e \in Episodes |-> "none"]
  /\ stage = [e \in Episodes |-> "unborn"]
  /\ ledger = [e \in Episodes |-> << >>]
  /\ ending = [e \in Episodes |-> "none"]
  /\ answer = [e \in Episodes |-> "none"]

Entry(from, to, kind) == [from |-> from, to |-> to, evidence |-> kind]

Open(e) ==
  /\ requisition # "closed"
  /\ \A f \in Episodes : stage[f] \notin Active
  /\ stage[e] = "unborn"
  /\ stage' = [stage EXCEPT ![e] = "no_contact"]
  /\ ledger' = [ledger EXCEPT ![e] = <<Entry("none", "no_contact", "none")>>]
  /\ UNCHANGED <<requisition, evidence, outcome, ending, answer>>

\* e goes to a stage it may go to now, for which there are grounds now.
Enter(e, to, kind) ==
  /\ <<requisition, stage[e], to>> \in Allowed
  /\ kind \in evidence \union {"none"}
  /\ to \in Milestones =>
       \/ <<to, kind>> \in Establishes
       \/ kind = "none" /\ \E i \in 1 .. Len(ledger[e]) : ledger[e][i].to = to
  /\ stage' = [stage EXCEPT ![e] = to]
  /\ ledger' = [ledger EXCEPT ![e] = Append(@, Entry(stage[e], to, kind))]

\* A recruiter moves e, or ends it.
Advance(e, to, kind) ==
  /\ to # "completed"
  /\ Enter(e, to, kind)
  /\ ending' = [ending EXCEPT ![e] = IF to = "not_in_consideration" THEN "recruiter" ELSE @]
  /\ UNCHANGED <<requisition, evidence, outcome, answer>>

\* A confirmed response takes e through both milestones.
Repair(e) ==
  /\ stage[e] = "no_contact"
  /\ \A hop \in {<<"no_contact", "contacted">>, <<"contacted", "talent_responded">>} :
       /\ <<requisition, hop[1], hop[2]>> \in Allowed
       /\ \E kind \in evidence : <<hop[2], kind>> \in Establishes
  /\ stage' = [stage EXCEPT ![e] = "talent_responded"]
  /\ ledger' = [ledger EXCEPT ![e] =
       @ \o <<Entry("no_contact", "contacted", "confirmation"),
              Entry("contacted", "talent_responded", "confirmation")>>]
  /\ UNCHANGED <<requisition, evidence, outcome, ending, answer>>

\* The end the client's decision against it, or the outcome of its placement, has for e.
Conclude(e) ==
  /\ outcome[e] \in {"DECLINED", "STARTED", "FELL_THROUGH"}
  /\ Enter(e, IF outcome[e] = "STARTED" THEN "completed" ELSE "not_in_consideration", "none")
  /\ ending' = [ending EXCEPT ![e] = "downstream"]
  /\ UNCHANGED <<requisition, evidence, outcome, answer>>

\* Only of a placement that has started it may be said that its episode was not there.
Tell(e, code) ==
  /\ answer[e] = "none"
  /\ \/ code = "completed" /\ stage[e] = "completed"
     \/ /\ code = "dispositioned"
        /\ stage[e] = "not_in_consideration"
        /\ ending[e] = "downstream"
     \/ code = "already_satisfied" /\ stage[e] \notin Active \union {"unborn"}
     \/ code = "pipeline_not_live" /\ outcome[e] = "STARTED"
  /\ answer' = [answer EXCEPT ![e] = code]
  /\ UNCHANGED <<requisition, evidence, outcome, stage, ledger, ending>>

\* The rest of the platform: a closed requisition stays closed, evidence stays, and
\* only a live episode is submitted.
Platform ==
  /\ requisition = "closed" => requisition' = "closed"
  /\ evidence \subseteq evidence'
  /\ outcome' \in [Episodes -> {"none", "submitted", "DECLINED", "STARTED", "FELL_THROUGH"}]
  /\ \A e \in Episodes : outcome'[e] # outcome[e] =>
       \/ outcome[e] = "none" /\ outcome'[e] = "submitted" /\ stage[e] \in Active
       \/ outcome[e] = "submitted" /\ outcome'[e] \in {"DECLINED", "STARTED", "FELL_THROUGH"}
  /\ UNCHANGED <<stage, ledger, ending, answer>>

Next ==
  \/ Platform
  \/ \E e \in Episodes :
       \/ Open(e) \/ Repair(e) \/ Conclude(e)
       \/ \E to \in Stages, kind \in evidence \union {"none"} : Advance(e, to, kind)
       \/ \E code \in {"completed", "dispositioned", "already_satisfied",
                       "pipeline_not_live"} : Tell(e, code)

Spec == Init /\ [][Next]_vars
=============================================================================
