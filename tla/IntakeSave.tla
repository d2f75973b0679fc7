----------------------------- MODULE IntakeSave -----------------------------
(***************************************************************************)
(* Save of one talent intake draft (promote): the saga that reserves a      *)
(* TalentRecord id on the draft, materializes the reviewed evidence in the  *)
(* talent_evidence schema, creates the record and its talent.created event  *)
(* in the talent_record schema, and only then marks the draft PROMOTED.  No *)
(* transaction spans two steps: several Saves of the draft may be under way, *)
(* each on the draft as it loaded it, any of them may die between two steps, *)
(* and the recruiter may edit, replace the resume or discard meanwhile.      *)
(*                                                                         *)
(* The review payload is the number of the edit that last changed its        *)
(* scalars (which go to the record) and its arrays (which go to the         *)
(* evidence, and are what the payload hash tells apart).  A Save whose       *)
(* payload is refused by the validation ends before it writes anything and  *)
(* is not modelled.  The extraction worker's writes are IntakeProcessing's.  *)
(***************************************************************************)
EXTENDS Naturals

CONSTANTS
  Savers,      \* concurrent promote requests
  Overlap,     \* may the recruiter save an edit while a Save runs?
  MaxSaves,    \* bound: promote requests
  MaxEdits,    \* bound: review saves
  MaxResumes,  \* bound: generations of the resume
  MaxCrashes,  \* bound: requests that die or throw
  MaxDeletes   \* bound: deletions of the talent

ASSUME SaveAssumption ==
  /\ Overlap \in BOOLEAN
  /\ MaxSaves \in Nat
  /\ MaxEdits \in Nat
  /\ MaxResumes \in Nat \ {0}
  /\ MaxCrashes \in Nat
  /\ MaxDeletes \in Nat

VARIABLES
  exists,       \* the row has not been deleted
  version,      \* the optimistic version
  review,       \* review_payload
  resume,       \* generation behind storage_key, 0 for null
  reserved,     \* save_reserved_talent_record_id, 0 for null
  materialized, \* save_evidence_materialized_at is set
  hash,         \* save_evidence_payload_hash: the arrays it was taken of
  promoted,     \* promoted_talent_record_id is set (to the reserved id)
  record,       \* the TalentRecord under each id a Save may mint
  evidence,     \* and its evidence: runs of step 1, arrays, resume document
  followed,     \* ids whose step 3 ran
  rival,        \* does another live record have this email or cell phone?
  objects,      \* resume generations whose object is stored
  patch,        \* the review save under way
  pc,           \* where each Save is
  loc,          \* its local variables
  saves,        \* promote requests so far; the k-th one mints id k
  edits,        \* edits accepted so far
  crashes,      \* requests that died
  deletes       \* deletions of the talent

rowVars == <<exists, version, review, resume, reserved, materialized, hash, promoted>>
talentVars == <<record, evidence, followed>>
workVars == <<pc, loc>>
countVars == <<saves, edits, crashes, deletes>>
vars == <<rowVars, talentVars, rival, objects, patch, workVars, countVars>>

Ids == 1 .. MaxSaves
Parts == {"scalars", "arrays"}
Reviews == [Parts -> 0 .. MaxEdits]
Records == [state : {"none", "live", "deleted"}, scalars : 0 .. MaxEdits]
Evidence == [runs : Nat, arrays : 0 .. MaxEdits, document : 0 .. MaxResumes]
Patches == [step : {"idle", "check", "write"}, part : Parts, version : Nat,
            id : 0 .. MaxSaves]
Steps == {"idle", "replay", "dedupe", "reserve", "reread", "evidence",
          "rematerialize", "create", "follow", "complete"}
Locals == [mint : 0 .. MaxSaves, id : 0 .. MaxSaves, review : Reviews,
           resume : 0 .. MaxResumes, materialized : BOOLEAN, hash : 0 .. MaxEdits]

NoReview == [p \in Parts |-> 0]
NoPatch == [step |-> "idle", part |-> "scalars", version |-> 0, id |-> 0]
NoLocals == [mint |-> 0, id |-> 0, review |-> NoReview, resume |-> 0,
             materialized |-> FALSE, hash |-> 0]

TypeOK ==
  /\ exists \in BOOLEAN
  /\ version \in Nat
  /\ review \in Reviews
  /\ resume \in 0 .. MaxResumes
  /\ reserved \in 0 .. MaxSaves
  /\ materialized \in BOOLEAN
  /\ hash \in 0 .. MaxEdits
  /\ promoted \in BOOLEAN
  /\ record \in [Ids -> Records]
  /\ evidence \in [Ids -> Evidence]
  /\ followed \subseteq Ids
  /\ rival \in BOOLEAN
  /\ objects \subseteq 1 .. MaxResumes
  /\ patch \in Patches
  /\ pc \in [Savers -> Steps]
  /\ loc \in [Savers -> Locals]
  /\ saves \in 0 .. MaxSaves
  /\ edits \in 0 .. MaxEdits
  /\ crashes \in 0 .. MaxCrashes
  /\ deletes \in 0 .. MaxDeletes

(* A draft ready to be saved, with an uploaded resume or entered by hand. *)
Init ==
  /\ exists = TRUE
  /\ version = 0
  /\ review = NoReview
  /\ resume \in {0, 1}
  /\ reserved = 0
  /\ materialized = FALSE
  /\ hash = 0
  /\ promoted = FALSE
  /\ record = [i \in Ids |-> [state |-> "none", scalars |-> 0]]
  /\ evidence = [i \in Ids |-> [runs |-> 0, arrays |-> 0, document |-> 0]]
  /\ followed = {}
  /\ rival = FALSE
  /\ objects = IF resume = 1 THEN {1} ELSE {}
  /\ patch = NoPatch
  /\ pc = [s \in Savers |-> "idle"]
  /\ loc = [s \in Savers |-> NoLocals]
  /\ saves = 0
  /\ edits = 0
  /\ crashes = 0
  /\ deletes = 0

Live(i) == i \in Ids /\ record[i].state = "live"

Goto(s, step) == pc' = [pc EXCEPT ![s] = step]

(* The request ends, with its answer or with an error. *)
Return(s) ==
  /\ Goto(s, "idle")
  /\ loc' = [loc EXCEPT ![s] = NoLocals]

-----------------------------------------------------------------------------
(* promote: the actor's draft as it is now. *)
Load(s) ==
  /\ pc[s] = "idle"
  /\ exists
  /\ saves < MaxSaves
  /\ Overlap \/ patch.step = "idle"
  /\ saves' = saves + 1
  /\ loc' = [loc EXCEPT ![s] =
       [mint |-> saves + 1, id |-> reserved, review |-> review, resume |-> resume,
        materialized |-> materialized, hash |-> hash]]
  /\ Goto(s, IF promoted THEN "replay" ELSE "dedupe")
  /\ UNCHANGED <<rowVars, talentVars, rival, objects, patch, edits, crashes, deletes>>

(* A fully saved draft returns its record, if it is still there. *)
Replay(s) ==
  /\ pc[s] = "replay"
  /\ IF Live(loc[s].id)
       THEN Return(s)
       ELSE Goto(s, "dedupe") /\ UNCHANGED loc
  /\ UNCHANGED <<rowVars, talentVars, rival, objects, patch, countVars>>

(* Is another record in the way?  The one a concurrent Save of this draft has *)
(* created since the load is not, which a second load tells.                  *)
Unique(s) ==
  /\ ~rival
  /\ \A i \in Ids : Live(i) /\ i # loc[s].id =>
       loc[s].id = 0 /\ exists /\ reserved = i

Dedupe(s) ==
  /\ pc[s] = "dedupe"
  /\ IF Unique(s)
       THEN /\ Goto(s, IF loc[s].id = 0 THEN "reserve" ELSE "evidence")
            /\ UNCHANGED loc
       ELSE Return(s)
  /\ UNCHANGED <<rowVars, talentVars, rival, objects, patch, countVars>>

(* Mutant: a Save that found no reservation writes its own, whatever the row *)
(* says by now.                                                              *)
ReservableAlways == exists

Reservable == exists /\ reserved = 0 /\ ~promoted

(* Step 0: the reservation ... *)
Reserve(s) ==
  /\ pc[s] = "reserve"
  /\ reserved' = IF Reservable THEN loc[s].mint ELSE reserved
  /\ Goto(s, "reread")
  /\ UNCHANGED <<exists, version, review, resume, materialized, hash, promoted,
                 talentVars, rival, objects, patch, loc, countVars>>

(* Mutant: the winner's id is not carried back. *)
RereadForgets(s) ==
  /\ pc[s] = "reread"
  /\ Goto(s, "evidence")
  /\ UNCHANGED <<rowVars, talentVars, rival, objects, patch, loc, countVars>>

(* ... and the second load, which carries the winner's id and progress into   *)
(* the draft loaded first.                                                    *)
Reread(s) ==
  /\ pc[s] = "reread"
  /\ IF exists /\ reserved # 0
       THEN /\ loc' = [loc EXCEPT ![s] = [@ EXCEPT !.id = reserved,
                         !.materialized = materialized, !.hash = hash]]
            /\ Goto(s, "evidence")
       ELSE Return(s)
  /\ UNCHANGED <<rowVars, talentVars, rival, objects, patch, countVars>>

(* Mutant: step 1 does not claim the draft. *)
MaterializableAlways(s) == exists /\ reserved = loc[s].id

Materializable(s) == exists /\ reserved = loc[s].id /\ ~materialized

(* Step 1, first run: claim and evidence in one transaction.  A lost claim     *)
(* writes nothing, and the Save goes on.                                      *)
Materialize(s) ==
  /\ pc[s] = "evidence"
  /\ ~loc[s].materialized
  /\ IF Materializable(s)
       THEN /\ materialized' = TRUE
            /\ hash' = loc[s].review["arrays"]
            /\ evidence' = [evidence EXCEPT ![loc[s].id] =
                 [runs |-> @.runs + 1, arrays |-> loc[s].review["arrays"],
                  document |-> loc[s].resume]]
       ELSE UNCHANGED <<materialized, hash, evidence>>
  /\ Goto(s, "create")
  /\ UNCHANGED <<exists, version, review, resume, reserved, promoted, record, followed,
                 rival, objects, patch, loc, countVars>>

(* Mutant: a resumed Save takes the evidence as it is. *)
StaleNever(s) == FALSE

(* Were the arrays edited after they were materialized? *)
Stale(s) == loc[s].hash # loc[s].review["arrays"]

(* Step 1, resumed: look for the record, and compare the hashes without it. *)
FindRecord(s) ==
  /\ pc[s] = "evidence"
  /\ loc[s].materialized
  /\ Goto(s, CASE Live(loc[s].id)               -> "follow"
               [] ~Live(loc[s].id) /\ Stale(s)  -> "rematerialize"
               [] ~Live(loc[s].id) /\ ~Stale(s) -> "create")
  /\ UNCHANGED <<rowVars, talentVars, rival, objects, patch, loc, countVars>>

(* The typed rows are deleted and written again; the document stays. *)
Rematerialize(s) ==
  /\ pc[s] = "rematerialize"
  /\ IF /\ exists
        /\ reserved = loc[s].id
        /\ materialized
        /\ ~promoted
        /\ hash # loc[s].review["arrays"]
       THEN /\ hash' = loc[s].review["arrays"]
            /\ evidence' = [evidence EXCEPT ![loc[s].id] =
                 [@ EXCEPT !.arrays = loc[s].review["arrays"]]]
       ELSE UNCHANGED <<hash, evidence>>
  /\ Goto(s, "create")
  /\ UNCHANGED <<exists, version, review, resume, reserved, materialized, promoted,
                 record, followed, rival, objects, patch, loc, countVars>>

(* Mutant: the duplicate is not looked for again inside the transaction. *)
DuplicateNever(s) == FALSE

(* The create transaction holds the advisory locks of the email and the phone. *)
Duplicate(s) == rival \/ \E i \in Ids : Live(i) /\ i # loc[s].id

(* Step 2: the record under the reserved id, unless it is there already. *)
CreateRecord(s) ==
  /\ pc[s] = "create"
  /\ \/ /\ Live(loc[s].id)
        /\ Goto(s, "follow")
        /\ UNCHANGED <<record, loc>>
     \/ /\ ~Live(loc[s].id)
        /\ Duplicate(s)
        /\ Return(s)
        /\ UNCHANGED record
     \/ /\ ~Live(loc[s].id)
        /\ ~Duplicate(s)
        /\ record' = [record EXCEPT ![loc[s].id] =
             [state |-> "live", scalars |-> loc[s].review["scalars"]]]
        /\ Goto(s, "follow")
        /\ UNCHANGED loc
  /\ UNCHANGED <<rowVars, evidence, followed, rival, objects, patch, countVars>>

(* Mutant: the draft is marked before the follow-ups. *)
FollowUpsSkipped(s) ==
  /\ pc[s] = "follow"
  /\ Goto(s, "complete")
  /\ UNCHANGED <<rowVars, talentVars, rival, objects, patch, loc, countVars>>

(* Step 3: consent default and stated work authorization, once per id.  The    *)
(* consent default logs its failure and goes on: followed means attempted.     *)
FollowUps(s) ==
  /\ pc[s] = "follow"
  /\ followed' = followed \union {loc[s].id}
  /\ Goto(s, "complete")
  /\ UNCHANGED <<rowVars, record, evidence, rival, objects, patch, loc, countVars>>

(* Step 4: PROMOTED, guarded on the reservation; the row may be gone. *)
Complete(s) ==
  /\ pc[s] = "complete"
  /\ IF exists /\ reserved = loc[s].id
       THEN promoted' = TRUE /\ version' = version + 1
       ELSE UNCHANGED <<promoted, version>>
  /\ Return(s)
  /\ UNCHANGED <<exists, review, resume, reserved, materialized, hash, talentVars,
                 rival, objects, patch, countVars>>

(* The process dies, or a step throws: what was committed stays. *)
Crash(s) ==
  /\ pc[s] # "idle"
  /\ crashes < MaxCrashes
  /\ crashes' = crashes + 1
  /\ Return(s)
  /\ UNCHANGED <<rowVars, talentVars, rival, objects, patch, saves, edits, deletes>>

-----------------------------------------------------------------------------
(* patchReview of some value: the read ... *)
PatchRead(p) ==
  /\ patch.step = "idle"
  /\ exists
  /\ ~promoted
  /\ edits < MaxEdits
  /\ Overlap \/ \A s \in Savers : pc[s] = "idle"
  /\ patch' = [step |-> IF reserved = 0 THEN "write" ELSE "check", part |-> p,
               version |-> version, id |-> reserved]
  /\ UNCHANGED <<rowVars, talentVars, rival, objects, workVars, countVars>>

(* ... on a reserved draft the look for the record, which refuses the edit ... *)
PatchCheck ==
  /\ patch.step = "check"
  /\ patch' = IF Live(patch.id) THEN NoPatch ELSE [patch EXCEPT !.step = "write"]
  /\ UNCHANGED <<rowVars, talentVars, rival, objects, workVars, countVars>>

(* ... and the write, on the version that was read. *)
PatchWrite ==
  /\ patch.step = "write"
  /\ IF exists /\ version = patch.version /\ edits < MaxEdits
       THEN /\ review' = [review EXCEPT ![patch.part] = edits + 1]
            /\ version' = version + 1
            /\ edits' = edits + 1
       ELSE UNCHANGED <<review, version, edits>>
  /\ patch' = NoPatch
  /\ UNCHANGED <<exists, resume, reserved, materialized, hash, promoted, talentVars,
                 rival, objects, workVars, saves, crashes, deletes>>

(* The superseded object is deleted on a best-effort basis. *)
DropObject(set) == objects' \in {set, set \ {resume}}

(* replaceResume, then the upload of the new bytes. *)
Replace ==
  /\ exists
  /\ ~promoted
  /\ ~materialized
  /\ resume < MaxResumes
  /\ resume' = resume + 1
  /\ version' = version + 1
  /\ DropObject(objects \union {resume + 1})
  /\ UNCHANGED <<exists, review, reserved, materialized, hash, promoted, talentVars,
                 rival, patch, workVars, countVars>>

Discardable == exists /\ ~promoted /\ ~materialized

Discard ==
  /\ Discardable
  /\ exists' = FALSE
  /\ DropObject(objects)
  /\ UNCHANGED <<version, review, resume, reserved, materialized, hash, promoted,
                 talentVars, rival, patch, workVars, countVars>>

(* DELETE of the talent: the record goes, the draft is not told. *)
DeleteTalent(i) ==
  /\ Live(i)
  /\ deletes < MaxDeletes
  /\ deletes' = deletes + 1
  /\ record' = [record EXCEPT ![i] = [@ EXCEPT !.state = "deleted"]]
  /\ UNCHANGED <<rowVars, evidence, followed, rival, objects, patch, workVars, saves,
                 edits, crashes>>

(* A record of the same person from elsewhere comes or goes: an import creates *)
(* one and an update gives one this email or phone, neither of which looks for *)
(* a duplicate.                                                               *)
Rival ==
  /\ rival' = ~rival
  /\ UNCHANGED <<rowVars, talentVars, objects, patch, workVars, countVars>>

-----------------------------------------------------------------------------
SaveStep(s) ==
  \/ Load(s) \/ Replay(s) \/ Dedupe(s) \/ Reserve(s) \/ Reread(s)
  \/ Materialize(s) \/ FindRecord(s) \/ Rematerialize(s) \/ CreateRecord(s)
  \/ FollowUps(s) \/ Complete(s) \/ Crash(s)

Other ==
  \/ \E p \in Parts : PatchRead(p)
  \/ PatchCheck
  \/ PatchWrite
  \/ Replace
  \/ Discard
  \/ \E i \in Ids : DeleteTalent(i)
  \/ Rival

Next == Other \/ \E s \in Savers : SaveStep(s)

Spec == Init /\ [][Next]_vars

-----------------------------------------------------------------------------
(* However many Saves of the draft overlap or are resumed, all of them write  *)
(* on the one id the row elected: no second TalentRecord and no evidence on   *)
(* an id nobody will ever look up (promote, steps 0 to 2).                    *)
OneTalent ==
  \A i \in Ids : record[i].state # "none" \/ evidence[i].runs > 0 => i = reserved

(* "A PROMOTED draft without a TalentRecord cannot arise": when the draft is  *)
(* marked, the record was created, the evidence materialized and the          *)
(* follow-ups were run, all on the promoted id (promote, step 4).         *)
PromotedIsWhole ==
  promoted =>
    /\ reserved \in followed
    /\ record[reserved].state # "none"
    /\ evidence[reserved].runs > 0

(* Step 1 materializes one résumé document per draft, whatever is retried,    *)
(* and leaves "no orphan evidence": it is only ever found on the id of a      *)
(* draft that can still be saved again (deleteTalentIntakeDraft against       *)
(* step 1).                                                                   *)
EvidenceSound ==
  \A i \in Ids : evidence[i].runs <= 1 /\ (evidence[i].runs > 0 => exists)

(* "so no edit is silently lost": the record and its evidence carry the       *)
(* review as it stands, after any crash, edit and resumption, as long as no   *)
(* edit is saved while a Save runs (promote D6, patchReview D6).              *)
SavedAsReviewed ==
  \A i \in Ids : Live(i) /\ exists =>
    /\ record[i].scalars = review["scalars"]
    /\ evidence[i].arrays = review["arrays"]

(* A record is created from the review persisted at that moment (promote,     *)
(* step 2): every edit accepted before it is on it.                           *)
CarriesReview ==
  [][\A i \in Ids : ~Live(i) /\ Live(i)' =>
       /\ record'[i].scalars = review["scalars"]
       /\ evidence[i].arrays = review["arrays"]]_vars

-----------------------------------------------------------------------------
(* Four expectations this code does not meet (README, Observations), and how   *)
(* far it meets them.                                                         *)

(* "once the record exists the re-Save never rewrites its evidence"           *)
(* (promote, step 1 resumed).  It holds while edits and Saves take turns.     *)
EvidenceFrozen ==
  [][\A i \in Ids : Live(i) => evidence'[i] = evidence[i]]_vars

(* A talent created from a draft has its reviewed evidence (promote, steps 1  *)
(* and 2).  It holds until the draft is discarded.                            *)
RecordHasEvidence == \A i \in Ids : Live(i) => evidence[i].runs > 0

(* The resume document of a talent points at a stored object                  *)
(* (materializeIntakeSaveEvidence against replaceResume) ...                  *)
DocumentStored ==
  \A i \in Ids : evidence[i].runs > 0 => evidence[i].document \in objects \union {0}

(* ... at least when it is of the resume the draft still has.                 *)
CurrentDocumentStored ==
  \A i \in Ids : evidence[i].runs > 0 /\ evidence[i].document = resume =>
    evidence[i].document \in objects \union {0}

(* "replay of a saved draft returns the record and writes nothing" (promote). *)
(* It holds while the talent is not deleted.                                  *)
ReplayWritesNothing ==
  [][promoted => \A i \in Ids : Live(i)' => Live(i)]_vars

-----------------------------------------------------------------------------
(* The Saves of a draft, on the rows they leave, are one promotion.           *)
DraftState ==
  CASE exists /\ promoted                                 -> "saved"
    [] exists /\ ~promoted /\ materialized                -> "written"
    [] exists /\ ~promoted /\ ~materialized /\ reserved # 0 -> "elected"
    [] exists /\ ~promoted /\ ~materialized /\ reserved = 0 -> "open"
    [] ~exists /\ reserved = 0                            -> "discarded"
    [] ~exists /\ reserved # 0                            -> "abandoned"

ElectedIds == {reserved} \ {0}
DocumentedIds == {i \in Ids : evidence[i].runs # 0}
MadeIds == {i \in Ids : record[i].state # "none"}
LiveIds == {i \in Ids : Live(i)}

Promotion == INSTANCE DraftPromotion
  WITH draft <- DraftState, id <- ElectedIds, documented <- DocumentedIds,
       made <- MadeIds, live <- LiveIds, taken <- rival

(* promote, discard, delete and any other create of the person: requests on   *)
(* stale copies of the draft that overlap, die and are resumed do together    *)
(* what DraftPromotion promises.                                              *)
ImplementsPromotion == Promotion!Spec
=============================================================================
