-------------------------- MODULE IntakeSave_proofs --------------------------
(***************************************************************************)
(* Theorems about IntakeSave, for every set of concurrent Saves and all     *)
(* bounds.                                                                  *)
(***************************************************************************)
EXTENDS IntakeSave, TLAPS

(* What a Save has in hand after each step. *)
Writing == {"evidence", "rematerialize", "create", "follow", "complete"}
Materialized == {"rematerialize", "create", "follow", "complete"}

(* Every Save works on the id the row elected, or has none yet. *)
Elected ==
  \A s \in Savers :
    /\ loc[s].id = 0 \/ loc[s].id = reserved
    /\ pc[s] \in Writing => loc[s].id # 0
    /\ pc[s] # "idle" => loc[s].mint # 0

(* The claim on the row and the evidence go together, and hold the row. *)
Claimed ==
  /\ materialized => exists /\ reserved # 0
  /\ materialized => evidence[reserved].runs = 1
  /\ \A i \in Ids : evidence[i].runs # 0 => materialized /\ i = reserved
  /\ \A s \in Savers : pc[s] \in Materialized /\ exists => materialized
  /\ \A s \in Savers : loc[s].materialized => materialized

(* A Save past step 2, and past step 3, has left its trace. *)
Created ==
  /\ \A i \in Ids : record[i].state # "none" => i = reserved /\ (exists => materialized)
  /\ \A s \in Savers : pc[s] \in {"follow", "complete"} =>
       record[loc[s].id].state # "none"
  /\ \A s \in Savers : pc[s] = "complete" => loc[s].id \in followed
  /\ promoted => /\ reserved # 0
                 /\ materialized
                 /\ reserved \in followed
                 /\ record[reserved].state # "none"

SaveInv == Elected /\ Claimed /\ Created

(* Without overlapping edits: who edits and who saves take turns ... *)
Turns ==
  /\ patch.step # "idle" => ~promoted /\ \A s \in Savers : pc[s] = "idle"
  /\ patch.step = "check" => patch.id = reserved
  /\ patch.step = "write" => \A i \in Ids : ~Live(i)
  /\ \A s \in Savers : pc[s] # "idle" => loc[s].review = review

(* ... a Save knows the hash on the row, or the row is up to date ... *)
HashKnown ==
  \A s \in Savers : pc[s] # "idle" /\ materialized =>
    \/ hash = review["arrays"]
    \/ /\ loc[s].materialized
       /\ loc[s].hash = hash
       /\ pc[s] \notin {"create", "follow", "complete"}

(* ... and the record is created when the evidence is. *)
Carried ==
  /\ materialized => evidence[reserved].arrays = hash
  /\ \A i \in Ids : Live(i) /\ exists =>
       record[i].scalars = review["scalars"] /\ hash = review["arrays"]
  /\ promoted => hash = review["arrays"]

EditInv == Turns /\ HashKnown /\ Carried

-----------------------------------------------------------------------------
(* TypeOK by groups of variables. *)
RowTypes ==
  /\ exists \in BOOLEAN
  /\ version \in Nat
  /\ review \in Reviews
  /\ resume \in 0 .. MaxResumes
  /\ reserved \in 0 .. MaxSaves
  /\ materialized \in BOOLEAN
  /\ hash \in 0 .. MaxEdits
  /\ promoted \in BOOLEAN

TalentTypes ==
  /\ record \in [Ids -> Records]
  /\ evidence \in [Ids -> Evidence]
  /\ followed \subseteq Ids

WorldTypes ==
  /\ rival \in BOOLEAN
  /\ objects \subseteq 1 .. MaxResumes
  /\ patch \in Patches

WorkTypes ==
  /\ pc \in [Savers -> Steps]
  /\ loc \in [Savers -> Locals]

CountTypes ==
  /\ saves \in 0 .. MaxSaves
  /\ edits \in 0 .. MaxEdits
  /\ crashes \in 0 .. MaxCrashes
  /\ deletes \in 0 .. MaxDeletes

LEMMA TypeParts ==
  ASSUME RowTypes', TalentTypes', WorldTypes', WorkTypes', CountTypes'
  PROVE  TypeOK'
BY DEF TypeOK, RowTypes, TalentTypes, WorldTypes, WorkTypes, CountTypes

LEMMA SameRow == ASSUME TypeOK, UNCHANGED rowVars PROVE RowTypes'
BY DEF TypeOK, RowTypes, rowVars

LEMMA SameTalent == ASSUME TypeOK, UNCHANGED talentVars PROVE TalentTypes'
BY DEF TypeOK, TalentTypes, talentVars

LEMMA SameWorld == ASSUME TypeOK, UNCHANGED <<rival, objects, patch>> PROVE WorldTypes'
BY DEF TypeOK, WorldTypes

LEMMA SameWork == ASSUME TypeOK, UNCHANGED workVars PROVE WorkTypes'
BY DEF TypeOK, WorkTypes, workVars

LEMMA SameCount == ASSUME TypeOK, UNCHANGED countVars PROVE CountTypes'
BY DEF TypeOK, CountTypes, countVars

LEMMA InitialTyped ==
  /\ NoReview \in Reviews
  /\ NoLocals \in Locals
  /\ NoPatch \in Patches
<1>1. 0 \in 0 .. MaxEdits /\ 0 \in 0 .. MaxResumes /\ 0 \in 0 .. MaxSaves
  BY SaveAssumption DEF SaveAssumption
<1> QED
  BY <1>1 DEF NoReview, NoLocals, NoPatch, Reviews, Locals, Patches, Parts

LEMMA ReturnTypes == ASSUME TypeOK, NEW s \in Savers, Return(s) PROVE WorkTypes'
BY InitialTyped DEF TypeOK, WorkTypes, Return, Goto, Steps

LEMMA GotoTypes ==
  ASSUME TypeOK, NEW s \in Savers, NEW step \in Steps, Goto(s, step), UNCHANGED loc
  PROVE  WorkTypes'
BY DEF TypeOK, WorkTypes, Goto

LEMMA LocalsTyped ==
  ASSUME TypeOK, NEW s \in Savers
  PROVE  /\ loc[s].mint \in 0 .. MaxSaves
         /\ loc[s].id \in 0 .. MaxSaves
         /\ loc[s].review \in Reviews
         /\ loc[s].review["scalars"] \in 0 .. MaxEdits
         /\ loc[s].review["arrays"] \in 0 .. MaxEdits
         /\ loc[s].resume \in 0 .. MaxResumes
         /\ loc[s].materialized \in BOOLEAN
         /\ loc[s].hash \in 0 .. MaxEdits
<1>1. loc[s] \in Locals
  BY DEF TypeOK
<1> QED
  BY <1>1 DEF Locals, Reviews, Parts

(* A Save's steps keep the types; step 3 writes on an id because the Save has *)
(* one by then.                                                              *)
LEMMA SaveTypes ==
  ASSUME TypeOK, Elected, NEW s \in Savers, SaveStep(s)
  PROVE  TypeOK'
<1> USE DEF Steps
<1>1. CASE Load(s)
  <2>1. saves + 1 \in 0 .. MaxSaves
    BY <1>1, SaveAssumption DEF Load, TypeOK, SaveAssumption
  <2>2. [mint |-> saves + 1, id |-> reserved, review |-> review, resume |-> resume,
         materialized |-> materialized, hash |-> hash] \in Locals
    BY <2>1 DEF TypeOK, Locals
  <2>3. WorkTypes'
    BY <1>1, <2>2 DEF Load, Goto, TypeOK, WorkTypes
  <2>4. CountTypes'
    BY <1>1, <2>1 DEF Load, TypeOK, CountTypes
  <2> QED
    BY <1>1, <2>3, <2>4, SameRow, SameTalent, SameWorld, TypeParts DEF Load
<1>2. CASE Replay(s)
  <2>1. WorkTypes'
    BY <1>2, ReturnTypes, GotoTypes DEF Replay
  <2> QED
    BY <1>2, <2>1, SameRow, SameTalent, SameWorld, SameCount, TypeParts DEF Replay
<1>3. CASE Dedupe(s)
  <2>1. WorkTypes'
    BY <1>3, ReturnTypes, GotoTypes DEF Dedupe
  <2> QED
    BY <1>3, <2>1, SameRow, SameTalent, SameWorld, SameCount, TypeParts DEF Dedupe
<1>4. CASE Reserve(s)
  <2>1. WorkTypes'
    BY <1>4, GotoTypes DEF Reserve
  <2>2. RowTypes'
    BY <1>4, LocalsTyped DEF Reserve, TypeOK, RowTypes
  <2> QED
    BY <1>4, <2>1, <2>2, SameTalent, SameWorld, SameCount, TypeParts DEF Reserve
<1>5. CASE Reread(s)
  <2>1. [loc[s] EXCEPT !.id = reserved, !.materialized = materialized, !.hash = hash]
           \in Locals
    BY DEF TypeOK, Locals
  <2>2. WorkTypes'
    BY <1>5, <2>1, ReturnTypes DEF Reread, Goto, TypeOK, WorkTypes
  <2> QED
    BY <1>5, <2>2, SameRow, SameTalent, SameWorld, SameCount, TypeParts DEF Reread
<1>6. CASE Materialize(s)
  <2>1. WorkTypes'
    BY <1>6, GotoTypes DEF Materialize
  <2>2. RowTypes'
    BY <1>6, LocalsTyped DEF Materialize, TypeOK, RowTypes
  <2>3. evidence' \in [Ids -> Evidence]
    BY <1>6, LocalsTyped DEF Materialize, TypeOK, Evidence
  <2>4. TalentTypes'
    BY <1>6, <2>3 DEF Materialize, TypeOK, TalentTypes
  <2> QED
    BY <1>6, <2>1, <2>2, <2>4, SameWorld, SameCount, TypeParts DEF Materialize
<1>7. CASE FindRecord(s)
  <2>1. WorkTypes'
    BY <1>7, GotoTypes DEF FindRecord
  <2> QED
    BY <1>7, <2>1, SameRow, SameTalent, SameWorld, SameCount, TypeParts DEF FindRecord
<1>8. CASE Rematerialize(s)
  <2>1. WorkTypes'
    BY <1>8, GotoTypes DEF Rematerialize
  <2>2. RowTypes'
    BY <1>8, LocalsTyped DEF Rematerialize, TypeOK, RowTypes
  <2>3. evidence' \in [Ids -> Evidence]
    BY <1>8, LocalsTyped DEF Rematerialize, TypeOK, Evidence
  <2>4. TalentTypes'
    BY <1>8, <2>3 DEF Rematerialize, TypeOK, TalentTypes
  <2> QED
    BY <1>8, <2>1, <2>2, <2>4, SameWorld, SameCount, TypeParts DEF Rematerialize
<1>9. CASE CreateRecord(s)
  <2>1. WorkTypes'
    BY <1>9, GotoTypes, ReturnTypes DEF CreateRecord
  <2>2. record' \in [Ids -> Records]
    BY <1>9, LocalsTyped DEF CreateRecord, TypeOK, Records
  <2>3. TalentTypes'
    BY <1>9, <2>2 DEF CreateRecord, TypeOK, TalentTypes
  <2> QED
    BY <1>9, <2>1, <2>3, SameRow, SameWorld, SameCount, TypeParts DEF CreateRecord
<1>10. CASE Complete(s)
  <2>1. WorkTypes'
    BY <1>10, ReturnTypes DEF Complete
  <2>a. version' \in Nat /\ (promoted' = TRUE \/ promoted' = promoted)
    BY <1>10 DEF Complete, TypeOK
  <2>2. version' \in Nat /\ promoted' \in BOOLEAN
    BY <2>a DEF TypeOK
  <2>3. UNCHANGED <<exists, review, resume, reserved, materialized, hash>>
    BY <1>10 DEF Complete
  <2>4. RowTypes'
    BY <2>2, <2>3 DEF TypeOK, RowTypes
  <2> QED
    BY <1>10, <2>1, <2>4, SameTalent, SameWorld, SameCount, TypeParts DEF Complete
<1>11. CASE Crash(s)
  <2>1. WorkTypes'
    BY <1>11, ReturnTypes DEF Crash
  <2>2. CountTypes'
    BY <1>11, SaveAssumption DEF Crash, TypeOK, CountTypes, SaveAssumption
  <2> QED
    BY <1>11, <2>1, <2>2, SameRow, SameTalent, SameWorld, TypeParts DEF Crash
<1>12. CASE FollowUps(s)
  <2>1. WorkTypes'
    BY <1>12, GotoTypes DEF FollowUps
  <2>2. loc[s].id \in Ids
    BY <1>12, LocalsTyped, SaveAssumption DEF FollowUps, Elected, Writing, Ids, SaveAssumption
  <2>3. TalentTypes'
    BY <1>12, <2>2 DEF FollowUps, TypeOK, TalentTypes
  <2> QED
    BY <1>12, <2>1, <2>3, SameRow, SameWorld, SameCount, TypeParts DEF FollowUps
<1> QED
  BY <1>1, <1>2, <1>3, <1>4, <1>5, <1>6, <1>7, <1>8, <1>9, <1>10, <1>11, <1>12
  DEF SaveStep

(* So do the steps of everyone else. *)
LEMMA OtherTypes ==
  ASSUME TypeOK, Other
  PROVE  TypeOK'
<1>1. ASSUME NEW p \in Parts, PatchRead(p) PROVE TypeOK'
  <2>1. WorldTypes'
    BY <1>1 DEF PatchRead, TypeOK, WorldTypes, Patches
  <2> QED
    BY <1>1, <2>1, SameRow, SameTalent, SameWork, SameCount, TypeParts DEF PatchRead
<1>2. CASE PatchCheck
  <2>1. WorldTypes'
    BY <1>2, InitialTyped DEF PatchCheck, TypeOK, WorldTypes, Patches
  <2> QED
    BY <1>2, <2>1, SameRow, SameTalent, SameWork, SameCount, TypeParts DEF PatchCheck
<1>3. CASE PatchWrite
  <2>1. WorldTypes'
    BY <1>3, InitialTyped DEF PatchWrite, TypeOK, WorldTypes
  <2>2. edits' \in 0 .. MaxEdits /\ version' \in Nat
    BY <1>3, SaveAssumption DEF PatchWrite, TypeOK, SaveAssumption
  <2>3. review' \in Reviews
    BY <1>3, <2>2 DEF PatchWrite, TypeOK, Reviews
  <2>4. RowTypes' /\ CountTypes'
    BY <1>3, <2>2, <2>3 DEF PatchWrite, TypeOK, RowTypes, CountTypes
  <2> QED
    BY <1>3, <2>1, <2>4, SameTalent, SameWork, TypeParts DEF PatchWrite
<1>4. CASE Replace
  <2>1. resume' \in 1 .. MaxResumes /\ resume' = resume + 1
    BY <1>4, SaveAssumption DEF Replace, TypeOK, SaveAssumption
  <2>2. RowTypes'
    BY <1>4, <2>1 DEF Replace, TypeOK, RowTypes
  <2>3. WorldTypes'
    BY <1>4, <2>1 DEF Replace, DropObject, TypeOK, WorldTypes
  <2> QED
    BY <1>4, <2>2, <2>3, SameTalent, SameWork, SameCount, TypeParts DEF Replace
<1>5. CASE Discard
  <2>1. RowTypes'
    BY <1>5 DEF Discard, TypeOK, RowTypes
  <2>2. WorldTypes'
    BY <1>5 DEF Discard, DropObject, TypeOK, WorldTypes
  <2> QED
    BY <1>5, <2>1, <2>2, SameTalent, SameWork, SameCount, TypeParts DEF Discard
<1>6. ASSUME NEW i \in Ids, DeleteTalent(i) PROVE TypeOK'
  <2>1. TalentTypes'
    BY <1>6 DEF DeleteTalent, TypeOK, TalentTypes, Records
  <2>2. CountTypes'
    BY <1>6, SaveAssumption DEF DeleteTalent, TypeOK, CountTypes, SaveAssumption
  <2> QED
    BY <1>6, <2>1, <2>2, SameRow, SameWorld, SameWork, TypeParts DEF DeleteTalent
<1>7. CASE Rival
  <2>1. WorldTypes'
    BY <1>7 DEF Rival, TypeOK, WorldTypes
  <2> QED
    BY <1>7, <2>1, SameRow, SameTalent, SameWork, SameCount, TypeParts DEF Rival
<1> QED
  BY <1>1, <1>2, <1>3, <1>4, <1>5, <1>6, <1>7 DEF Other

-----------------------------------------------------------------------------
(* Facts about an id of Ids. *)
LEMMA IdInIds ==
  ASSUME NEW i \in 0 .. MaxSaves, i # 0
  PROVE  i \in Ids
BY SaveAssumption DEF Ids, SaveAssumption

(* A Save's steps keep the invariant. *)
LEMMA SaveKeeps ==
  ASSUME TypeOK, SaveInv, NEW s \in Savers, SaveStep(s)
  PROVE  SaveInv'
<1>t. /\ reserved \in 0 .. MaxSaves
      /\ saves \in 0 .. MaxSaves
      /\ \A t \in Savers : loc[t].id \in 0 .. MaxSaves /\ loc[t].mint \in 0 .. MaxSaves
      /\ pc \in [Savers -> Steps] /\ loc \in [Savers -> Locals]
      /\ record \in [Ids -> Records] /\ evidence \in [Ids -> Evidence]
  BY LocalsTyped DEF TypeOK
<1>n. NoLocals.id = 0 /\ NoLocals.materialized = FALSE
  BY DEF NoLocals
<1>z. 0 \notin Ids
  BY DEF Ids
<1>1. CASE Load(s)
  <2>1. Elected'
    BY <1>1, <1>t, <1>n, <1>z, SaveAssumption DEF Load, Goto, rowVars, talentVars, workVars, countVars, SaveInv, Elected, Claimed, Created, Writing, SaveAssumption
  <2>2. Claimed'
    BY <1>1, <1>t, <1>n, <1>z, IdInIds DEF Load, Goto, rowVars, talentVars, workVars, countVars, SaveInv, Elected, Claimed, Writing, Materialized, Evidence
  <2>3. Created'
    BY <1>1, <1>t, <1>n, <1>z, IdInIds DEF Load, Goto, rowVars, talentVars, workVars, countVars, SaveInv, Elected, Claimed, Created, Writing, Materialized, Live
  <2> QED
    BY <2>1, <2>2, <2>3 DEF SaveInv
<1>2. CASE Replay(s)
  <2>1. Elected'
    BY <1>2, <1>t, <1>n, <1>z, SaveAssumption DEF Replay, Goto, Return, rowVars, talentVars, workVars, countVars, SaveInv, Elected, Claimed, Created, Writing, SaveAssumption
  <2>2. Claimed'
    BY <1>2, <1>t, <1>n, <1>z, IdInIds DEF Replay, Goto, Return, rowVars, talentVars, workVars, countVars, SaveInv, Elected, Claimed, Writing, Materialized, Evidence
  <2>3. Created'
    BY <1>2, <1>t, <1>n, <1>z, IdInIds DEF Replay, Goto, Return, rowVars, talentVars, workVars, countVars, SaveInv, Elected, Claimed, Created, Writing, Materialized, Live
  <2> QED
    BY <2>1, <2>2, <2>3 DEF SaveInv
<1>3. CASE Dedupe(s)
  <2>1. Elected'
    BY <1>3, <1>t, <1>n, <1>z, SaveAssumption DEF Dedupe, Goto, Return, rowVars, talentVars, workVars, countVars, SaveInv, Elected, Claimed, Created, Writing, SaveAssumption
  <2>2. Claimed'
    BY <1>3, <1>t, <1>n, <1>z, IdInIds DEF Dedupe, Goto, Return, rowVars, talentVars, workVars, countVars, SaveInv, Elected, Claimed, Writing, Materialized, Evidence
  <2>3. Created'
    BY <1>3, <1>t, <1>n, <1>z, IdInIds DEF Dedupe, Goto, Return, rowVars, talentVars, workVars, countVars, SaveInv, Elected, Claimed, Created, Writing, Materialized, Live
  <2> QED
    BY <2>1, <2>2, <2>3 DEF SaveInv
<1>4. CASE Reserve(s)
  <2>1. Elected'
    BY <1>4, <1>t, <1>n, <1>z, SaveAssumption DEF Reserve, Goto, Reservable, rowVars, talentVars, workVars, countVars, SaveInv, Elected, Claimed, Created, Writing, SaveAssumption
  <2>2. Claimed'
    BY <1>4, <1>t, <1>n, <1>z, IdInIds DEF Reserve, Goto, Reservable, rowVars, talentVars, workVars, countVars, SaveInv, Elected, Claimed, Writing, Materialized, Evidence
  <2>3. Created'
    BY <1>4, <1>t, <1>n, <1>z, IdInIds DEF Reserve, Goto, Reservable, rowVars, talentVars, workVars, countVars, SaveInv, Elected, Claimed, Created, Writing, Materialized, Live
  <2> QED
    BY <2>1, <2>2, <2>3 DEF SaveInv
<1>5. CASE Reread(s)
  <2>a. \A t \in Savers : t # s => loc'[t] = loc[t] /\ pc'[t] = pc[t]
    BY <1>5, <1>t DEF Reread, Return, Goto
  <2>b. \/ pc'[s] = "idle" /\ loc'[s].id = 0 /\ ~loc'[s].materialized
        \/ /\ reserved # 0
           /\ pc'[s] = "evidence"
           /\ loc'[s].id = reserved
           /\ loc'[s].mint = loc[s].mint
           /\ loc'[s].materialized = materialized
    <3>1. CASE exists /\ reserved # 0
      <4>1. loc'[s] = [loc[s] EXCEPT !.id = reserved, !.materialized = materialized,
                                     !.hash = hash]
        BY <1>5, <1>t, <3>1 DEF Reread
      <4>2. loc[s] \in Locals
        BY <1>t
      <4>3. loc'[s].id = reserved /\ loc'[s].mint = loc[s].mint
        BY <4>1, <4>2 DEF Locals
      <4>4. loc'[s].materialized = materialized
        BY <4>1, <4>2 DEF Locals
      <4> QED
        BY <1>5, <1>t, <3>1, <4>3, <4>4 DEF Reread, Goto, Steps
    <3>2. CASE ~(exists /\ reserved # 0)
      BY <1>5, <1>t, <1>n, <3>2 DEF Reread, Return, Goto, Steps
    <3> QED
      BY <3>1, <3>2
  <2>c. pc[s] = "reread" /\ UNCHANGED <<rowVars, talentVars>>
    BY <1>5 DEF Reread
  <2>1. Elected'
    BY <1>t, <2>a, <2>b, <2>c DEF rowVars, SaveInv, Elected, Writing
  <2>2. Claimed'
    BY <1>t, <2>a, <2>b, <2>c DEF rowVars, talentVars, SaveInv, Claimed, Materialized
  <2>3. Created'
    BY <1>t, <2>a, <2>b, <2>c DEF rowVars, talentVars, SaveInv, Created
  <2> QED
    BY <2>1, <2>2, <2>3 DEF SaveInv
<1>6. CASE Materialize(s)
  <2>1. Elected'
    BY <1>6, <1>t, <1>n, <1>z, SaveAssumption DEF Materialize, Goto, Materializable, rowVars, talentVars, workVars, countVars, SaveInv, Elected, Claimed, Created, Writing, SaveAssumption
  <2>2. Claimed'
    BY <1>6, <1>t, <1>n, <1>z, IdInIds DEF Materialize, Goto, Materializable, rowVars, talentVars, workVars, countVars, SaveInv, Elected, Claimed, Writing, Materialized, Evidence
  <2>3. Created'
    BY <1>6, <1>t, <1>n, <1>z, IdInIds DEF Materialize, Goto, Materializable, rowVars, talentVars, workVars, countVars, SaveInv, Elected, Claimed, Created, Writing, Materialized, Live
  <2> QED
    BY <2>1, <2>2, <2>3 DEF SaveInv
<1>7. CASE FindRecord(s)
  <2>1. Elected'
    BY <1>7, <1>t, <1>n, <1>z, SaveAssumption DEF FindRecord, Goto, rowVars, talentVars, workVars, countVars, SaveInv, Elected, Claimed, Created, Writing, SaveAssumption
  <2>2. Claimed'
    BY <1>7, <1>t, <1>n, <1>z, IdInIds DEF FindRecord, Goto, rowVars, talentVars, workVars, countVars, SaveInv, Elected, Claimed, Writing, Materialized, Evidence
  <2>3. Created'
    BY <1>7, <1>t, <1>n, <1>z, IdInIds DEF FindRecord, Goto, rowVars, talentVars, workVars, countVars, SaveInv, Elected, Claimed, Created, Writing, Materialized, Live
  <2> QED
    BY <2>1, <2>2, <2>3 DEF SaveInv
<1>8. CASE Rematerialize(s)
  <2>1. Elected'
    BY <1>8, <1>t, <1>n, <1>z, SaveAssumption DEF Rematerialize, Goto, rowVars, talentVars, workVars, countVars, SaveInv, Elected, Claimed, Created, Writing, SaveAssumption
  <2>2. Claimed'
    BY <1>8, <1>t, <1>n, <1>z, IdInIds DEF Rematerialize, Goto, rowVars, talentVars, workVars, countVars, SaveInv, Elected, Claimed, Writing, Materialized, Evidence
  <2>3. Created'
    BY <1>8, <1>t, <1>n, <1>z, IdInIds DEF Rematerialize, Goto, rowVars, talentVars, workVars, countVars, SaveInv, Elected, Claimed, Created, Writing, Materialized, Live
  <2> QED
    BY <2>1, <2>2, <2>3 DEF SaveInv
<1>9. CASE CreateRecord(s)
  <2>1. Elected'
    BY <1>9, <1>t, <1>n, <1>z, SaveAssumption DEF CreateRecord, Goto, Return, rowVars, talentVars, workVars, countVars, SaveInv, Elected, Claimed, Created, Writing, SaveAssumption
  <2>2. Claimed'
    BY <1>9, <1>t, <1>n, <1>z, IdInIds DEF CreateRecord, Goto, Return, rowVars, talentVars, workVars, countVars, SaveInv, Elected, Claimed, Writing, Materialized, Evidence
  <2>3. Created'
    BY <1>9, <1>t, <1>n, <1>z, IdInIds DEF CreateRecord, Goto, Return, rowVars, talentVars, workVars, countVars, SaveInv, Elected, Claimed, Created, Writing, Materialized, Live
  <2> QED
    BY <2>1, <2>2, <2>3 DEF SaveInv
<1>10. CASE FollowUps(s)
  <2>1. Elected'
    BY <1>10, <1>t, <1>n, <1>z, SaveAssumption DEF FollowUps, Goto, rowVars, talentVars, workVars, countVars, SaveInv, Elected, Claimed, Created, Writing, SaveAssumption
  <2>2. Claimed'
    BY <1>10, <1>t, <1>n, <1>z, IdInIds DEF FollowUps, Goto, rowVars, talentVars, workVars, countVars, SaveInv, Elected, Claimed, Writing, Materialized, Evidence
  <2>3. Created'
    BY <1>10, <1>t, <1>n, <1>z, IdInIds DEF FollowUps, Goto, rowVars, talentVars, workVars, countVars, SaveInv, Elected, Claimed, Created, Writing, Materialized, Live
  <2> QED
    BY <2>1, <2>2, <2>3 DEF SaveInv
<1>11. CASE Complete(s)
  <2>1. Elected'
    BY <1>11, <1>t, <1>n, <1>z, SaveAssumption DEF Complete, Goto, Return, rowVars, talentVars, workVars, countVars, SaveInv, Elected, Claimed, Created, Writing, SaveAssumption
  <2>2. Claimed'
    BY <1>11, <1>t, <1>n, <1>z, IdInIds DEF Complete, Goto, Return, rowVars, talentVars, workVars, countVars, SaveInv, Elected, Claimed, Writing, Materialized, Evidence
  <2>3. Created'
    BY <1>11, <1>t, <1>n, <1>z, IdInIds DEF Complete, Goto, Return, rowVars, talentVars, workVars, countVars, SaveInv, Elected, Claimed, Created, Writing, Materialized, Live
  <2> QED
    BY <2>1, <2>2, <2>3 DEF SaveInv
<1>12. CASE Crash(s)
  <2>1. Elected'
    BY <1>12, <1>t, <1>n, <1>z, SaveAssumption DEF Crash, Goto, Return, rowVars, talentVars, workVars, countVars, SaveInv, Elected, Claimed, Created, Writing, SaveAssumption
  <2>2. Claimed'
    BY <1>12, <1>t, <1>n, <1>z, IdInIds DEF Crash, Goto, Return, rowVars, talentVars, workVars, countVars, SaveInv, Elected, Claimed, Writing, Materialized, Evidence
  <2>3. Created'
    BY <1>12, <1>t, <1>n, <1>z, IdInIds DEF Crash, Goto, Return, rowVars, talentVars, workVars, countVars, SaveInv, Elected, Claimed, Created, Writing, Materialized, Live
  <2> QED
    BY <2>1, <2>2, <2>3 DEF SaveInv
<1> QED
  BY <1>1, <1>2, <1>3, <1>4, <1>5, <1>6, <1>7, <1>8, <1>9, <1>10, <1>11, <1>12
  DEF SaveStep

(* So do the steps of everyone else. *)
LEMMA OtherKeeps ==
  ASSUME TypeOK, SaveInv, Other
  PROVE  SaveInv'
<1>t. record \in [Ids -> Records]
  BY DEF TypeOK
<1>1. ASSUME NEW p \in Parts, PatchRead(p) PROVE SaveInv'
  BY <1>1 DEF PatchRead, rowVars, talentVars, workVars, countVars, SaveInv, Elected, Claimed, Created, Live
<1>2. CASE PatchCheck
  BY <1>2 DEF PatchCheck, rowVars, talentVars, workVars, countVars, SaveInv, Elected, Claimed, Created, Live
<1>3. CASE PatchWrite
  BY <1>3 DEF PatchWrite, rowVars, talentVars, workVars, countVars, SaveInv, Elected, Claimed, Created, Live
<1>4. CASE Replace
  BY <1>4 DEF Replace, rowVars, talentVars, workVars, countVars, SaveInv, Elected, Claimed, Created, Live
<1>5. CASE Discard
  <2>1. Elected' /\ Claimed'
    BY <1>5 DEF Discard, Discardable, rowVars, talentVars, workVars, countVars, SaveInv, Elected, Claimed
  <2>2. Created'
    BY <1>5, <1>t DEF Discard, Discardable, rowVars, talentVars, workVars, countVars, SaveInv, Created, Live, Records
  <2> QED
    BY <2>1, <2>2 DEF SaveInv
<1>6. ASSUME NEW i \in Ids, DeleteTalent(i) PROVE SaveInv'
  <2>1. Elected' /\ Claimed'
    BY <1>6 DEF DeleteTalent, rowVars, talentVars, workVars, countVars, SaveInv, Elected, Claimed
  <2>2. Created'
    BY <1>6, <1>t DEF DeleteTalent, rowVars, talentVars, workVars, countVars, SaveInv, Created, Live, Records
  <2> QED
    BY <2>1, <2>2 DEF SaveInv
<1>7. CASE Rival
  BY <1>7 DEF Rival, rowVars, talentVars, workVars, countVars, SaveInv, Elected, Claimed, Created, Live
<1> QED
  BY <1>1, <1>2, <1>3, <1>4, <1>5, <1>6, <1>7 DEF Other

LEMMA InitInv == Init => TypeOK /\ SaveInv
<1> SUFFICES ASSUME Init PROVE TypeOK /\ SaveInv
  OBVIOUS
<1>1. 0 \in 0 .. MaxEdits /\ 0 \in 0 .. MaxSaves /\ {0, 1} \subseteq 0 .. MaxResumes
      /\ 0 \in 0 .. MaxCrashes /\ 0 \in 0 .. MaxDeletes /\ 1 \in 1 .. MaxResumes
  BY SaveAssumption DEF SaveAssumption
<1>2. record \in [Ids -> Records] /\ evidence \in [Ids -> Evidence]
  BY <1>1 DEF Init, Records, Evidence
<1>3. pc \in [Savers -> Steps] /\ loc \in [Savers -> Locals]
  BY InitialTyped DEF Init, Steps
<1>4. TypeOK
  BY <1>1, <1>2, <1>3, InitialTyped DEF Init, TypeOK
<1>5. NoLocals.id = 0 /\ NoLocals.materialized = FALSE
  BY DEF NoLocals
<1>6. SaveInv
  BY <1>5 DEF Init, SaveInv, Elected, Claimed, Created, Writing,
              Materialized, Live
<1> QED
  BY <1>4, <1>6

LEMMA StepInv == TypeOK /\ SaveInv /\ [Next]_vars => TypeOK' /\ SaveInv'
<1> SUFFICES ASSUME TypeOK, SaveInv, [Next]_vars PROVE TypeOK' /\ SaveInv'
  OBVIOUS
<1>1. ASSUME NEW s \in Savers, SaveStep(s) PROVE TypeOK' /\ SaveInv'
  BY <1>1, SaveTypes, SaveKeeps DEF SaveInv
<1>2. CASE Other
  BY <1>2, OtherTypes, OtherKeeps
<1>3. CASE UNCHANGED vars
  <2>1. TypeOK'
    BY <1>3, SameRow, SameTalent, SameWorld, SameWork, SameCount, TypeParts DEF vars
  <2>2. SaveInv'
    BY <1>3 DEF vars, rowVars, talentVars, workVars, SaveInv, Elected, Claimed, Created,
                Live
  <2> QED
    BY <2>1, <2>2
<1> QED
  BY <1>1, <1>2, <1>3 DEF Next

LEMMA InvHolds == Spec => [](TypeOK /\ SaveInv)
BY InitInv, StepInv, PTL DEF Spec

-----------------------------------------------------------------------------
(* Every variable of the draft, of its talent and of the requests keeps its   *)
(* type.  That step 3 writes on an id needs the invariant (promote).          *)
THEOREM TypeCorrect == Spec => []TypeOK
BY InvHolds, PTL

(* Concurrent and resumed Saves of a draft make one talent, on the id the     *)
(* reservation elected (promote, steps 0 to 2).                               *)
THEOREM OneTalentPerDraft == Spec => []OneTalent
<1>1. TypeOK /\ SaveInv => OneTalent
  <2> SUFFICES ASSUME TypeOK, SaveInv, NEW i \in Ids,
                      record[i].state # "none" \/ evidence[i].runs > 0
               PROVE  i = reserved
    BY DEF OneTalent
  <2>1. evidence[i].runs \in Nat
    BY DEF TypeOK, Evidence
  <2> QED
    BY <2>1 DEF SaveInv, Claimed, Created
<1> QED
  BY <1>1, InvHolds, PTL

(* A draft is marked PROMOTED only when every step was completed on its id    *)
(* (promote, step 4).                                                         *)
THEOREM PromotedWhole == Spec => []PromotedIsWhole
<1>1. TypeOK /\ SaveInv => PromotedIsWhole
  BY DEF SaveInv, Claimed, Created, PromotedIsWhole
<1> QED
  BY <1>1, InvHolds, PTL

(* Step 1 runs once for a draft, and a discard leaves no evidence behind      *)
(* (materializeIntakeSaveEvidence, deleteTalentIntakeDraft).                  *)
THEOREM EvidenceSafe == Spec => []EvidenceSound
<1>1. TypeOK /\ SaveInv => EvidenceSound
  <2> SUFFICES ASSUME TypeOK, SaveInv, NEW i \in Ids
               PROVE  evidence[i].runs <= 1 /\ (evidence[i].runs > 0 => exists)
    BY DEF EvidenceSound
  <2>1. evidence[i].runs \in Nat
    BY DEF TypeOK, Evidence
  <2>2. evidence[i].runs # 0 => exists /\ evidence[i].runs = 1
    BY DEF SaveInv, Claimed
  <2> QED
    BY <2>1, <2>2
<1> QED
  BY <1>1, InvHolds, PTL

-----------------------------------------------------------------------------
(* Without overlapping edits a Save's steps keep the second invariant. *)
LEMMA SaveKeepsEdits ==
  ASSUME Overlap = FALSE, TypeOK, SaveInv, EditInv, NEW s \in Savers, SaveStep(s)
  PROVE  EditInv'
<1>t. /\ reserved \in 0 .. MaxSaves
      /\ \A t \in Savers : loc[t].id \in 0 .. MaxSaves
      /\ pc \in [Savers -> Steps] /\ loc \in [Savers -> Locals]
      /\ record \in [Ids -> Records] /\ evidence \in [Ids -> Evidence]
  BY LocalsTyped DEF TypeOK
<1>z. 0 \notin Ids
  BY DEF Ids
<1>1. CASE Load(s)
  <2>1. Turns'
    BY <1>1, <1>t, <1>z DEF Load, Goto, rowVars, talentVars, workVars, countVars, SaveInv, Elected, Claimed, Created, Writing, EditInv, Turns, Live
  <2>2. HashKnown'
    BY <1>1, <1>t, <1>z, IdInIds DEF Load, Goto, rowVars, talentVars, workVars, countVars, SaveInv, Elected, Claimed, Writing, Materialized, EditInv, Turns, HashKnown
  <2>3. Carried'
    BY <1>1, <1>t, <1>z, IdInIds DEF Load, Goto, rowVars, talentVars, workVars, countVars, SaveInv, Elected, Claimed, Created, Writing, Materialized, EditInv, Turns, HashKnown, Carried, Live
  <2> QED
    BY <2>1, <2>2, <2>3 DEF EditInv
<1>2. CASE Replay(s)
  <2>1. Turns'
    BY <1>2, <1>t, <1>z DEF Replay, Goto, Return, rowVars, talentVars, workVars, countVars, SaveInv, Elected, Claimed, Created, Writing, EditInv, Turns, Live
  <2>2. HashKnown'
    BY <1>2, <1>t, <1>z, IdInIds DEF Replay, Goto, Return, rowVars, talentVars, workVars, countVars, SaveInv, Elected, Claimed, Writing, Materialized, EditInv, Turns, HashKnown
  <2>3. Carried'
    BY <1>2, <1>t, <1>z, IdInIds DEF Replay, Goto, Return, rowVars, talentVars, workVars, countVars, SaveInv, Elected, Claimed, Created, Writing, Materialized, EditInv, Turns, HashKnown, Carried, Live
  <2> QED
    BY <2>1, <2>2, <2>3 DEF EditInv
<1>3. CASE Dedupe(s)
  <2>1. Turns'
    BY <1>3, <1>t, <1>z DEF Dedupe, Goto, Return, rowVars, talentVars, workVars, countVars, SaveInv, Elected, Claimed, Created, Writing, EditInv, Turns, Live
  <2>2. HashKnown'
    BY <1>3, <1>t, <1>z, IdInIds DEF Dedupe, Goto, Return, rowVars, talentVars, workVars, countVars, SaveInv, Elected, Claimed, Writing, Materialized, EditInv, Turns, HashKnown
  <2>3. Carried'
    BY <1>3, <1>t, <1>z, IdInIds DEF Dedupe, Goto, Return, rowVars, talentVars, workVars, countVars, SaveInv, Elected, Claimed, Created, Writing, Materialized, EditInv, Turns, HashKnown, Carried, Live
  <2> QED
    BY <2>1, <2>2, <2>3 DEF EditInv
<1>4. CASE Reserve(s)
  <2>1. Turns'
    BY <1>4, <1>t, <1>z DEF Reserve, Goto, Reservable, rowVars, talentVars, workVars, countVars, SaveInv, Elected, Claimed, Created, Writing, EditInv, Turns, Live
  <2>2. HashKnown'
    BY <1>4, <1>t, <1>z, IdInIds DEF Reserve, Goto, Reservable, rowVars, talentVars, workVars, countVars, SaveInv, Elected, Claimed, Writing, Materialized, EditInv, Turns, HashKnown
  <2>3. Carried'
    BY <1>4, <1>t, <1>z, IdInIds DEF Reserve, Goto, Reservable, rowVars, talentVars, workVars, countVars, SaveInv, Elected, Claimed, Created, Writing, Materialized, EditInv, Turns, HashKnown, Carried, Live
  <2> QED
    BY <2>1, <2>2, <2>3 DEF EditInv
<1>5. CASE Reread(s)
  <2>a. \A t \in Savers : t # s => loc'[t] = loc[t] /\ pc'[t] = pc[t]
    BY <1>5, <1>t DEF Reread, Return, Goto
  <2>b. \/ pc'[s] = "idle"
        \/ /\ pc'[s] = "evidence"
           /\ loc'[s].review = loc[s].review
           /\ loc'[s].hash = hash
           /\ loc'[s].materialized = materialized
    <3>1. CASE exists /\ reserved # 0
      <4>1. loc'[s] = [loc[s] EXCEPT !.id = reserved, !.materialized = materialized,
                                     !.hash = hash]
        BY <1>5, <1>t, <3>1 DEF Reread
      <4>2. loc[s] \in Locals
        BY <1>t
      <4>3. loc'[s].review = loc[s].review /\ loc'[s].hash = hash
        BY <4>1, <4>2 DEF Locals
      <4>4. loc'[s].materialized = materialized
        BY <4>1, <4>2 DEF Locals
      <4> QED
        BY <1>5, <1>t, <3>1, <4>3, <4>4 DEF Reread, Goto, Steps
    <3>2. CASE ~(exists /\ reserved # 0)
      BY <1>5, <1>t, <3>2 DEF Reread, Return, Goto, Steps
    <3> QED
      BY <3>1, <3>2
  <2>c. pc[s] = "reread" /\ UNCHANGED <<rowVars, talentVars, patch>>
    BY <1>5 DEF Reread
  <2>1. Turns'
    BY <1>t, <2>a, <2>b, <2>c DEF rowVars, talentVars, EditInv, Turns, Live
  <2>2. HashKnown'
    BY <1>t, <2>a, <2>b, <2>c DEF rowVars, EditInv, HashKnown
  <2>3. Carried'
    BY <2>c DEF rowVars, talentVars, EditInv, Carried, Live
  <2> QED
    BY <2>1, <2>2, <2>3 DEF EditInv
<1>6. CASE Materialize(s)
  <2>1. Turns'
    BY <1>6, <1>t, <1>z DEF Materialize, Goto, Materializable, rowVars, talentVars, workVars, countVars, SaveInv, Elected, Claimed, Created, Writing, EditInv, Turns, Live
  <2>2. HashKnown'
    BY <1>6, <1>t, <1>z, IdInIds DEF Materialize, Goto, Materializable, rowVars, talentVars, workVars, countVars, SaveInv, Elected, Claimed, Writing, Materialized, EditInv, Turns, HashKnown
  <2>3. Carried'
    BY <1>6, <1>t, <1>z, IdInIds DEF Materialize, Goto, Materializable, rowVars, talentVars, workVars, countVars, SaveInv, Elected, Claimed, Created, Writing, Materialized, EditInv, Turns, HashKnown, Carried, Live
  <2> QED
    BY <2>1, <2>2, <2>3 DEF EditInv
<1>7. CASE FindRecord(s)
  <2>1. Turns'
    BY <1>7, <1>t DEF FindRecord, Goto, rowVars, talentVars, EditInv, Turns, Live
  <2>2. HashKnown'
    <3>1. \A t \in Savers : t # s => pc'[t] = pc[t]
      BY <1>7, <1>t DEF FindRecord, Goto
    <3>2. /\ loc[s].id \in Ids
          /\ loc[s].review = review
          /\ loc[s].materialized
          /\ materialized /\ exists
      BY <1>7, <1>t, IdInIds DEF FindRecord, SaveInv, Elected, Claimed, Writing, EditInv, Turns
    <3>3. pc'[s] # "rematerialize" => hash = review["arrays"]
      <4>1. CASE Live(loc[s].id)
        BY <3>2, <4>1 DEF EditInv, Carried
      <4>2. CASE ~Live(loc[s].id) /\ ~Stale(s)
        BY <1>7, <3>2, <4>2 DEF FindRecord, Stale, EditInv, HashKnown
      <4>3. CASE ~Live(loc[s].id) /\ Stale(s)
        BY <1>7, <1>t, <4>3 DEF FindRecord, Goto
      <4> QED
        BY <4>1, <4>2, <4>3
    <3>4. pc[s] = "evidence" /\ UNCHANGED <<rowVars, loc>>
      BY <1>7 DEF FindRecord
    <3> QED
      BY <3>1, <3>2, <3>3, <3>4 DEF rowVars, EditInv, HashKnown
  <2>3. Carried'
    BY <1>7 DEF FindRecord, rowVars, talentVars, EditInv, Carried, Live
  <2> QED
    BY <2>1, <2>2, <2>3 DEF EditInv
<1>8. CASE Rematerialize(s)
  <2>a. /\ loc[s].id = reserved
        /\ reserved \in Ids
        /\ loc[s].review = review
        /\ exists => materialized
    BY <1>8, <1>t, IdInIds DEF Rematerialize, SaveInv, Elected, Claimed, Writing,
                               Materialized, EditInv, Turns
  <2>b. /\ UNCHANGED <<exists, review, reserved, materialized, promoted, record, patch, loc>>
        /\ \A t \in Savers : t # s => pc'[t] = pc[t]
        /\ pc[s] = "rematerialize" /\ pc'[s] = "create"
    BY <1>8, <1>t DEF Rematerialize, Goto
  <2>c. \/ /\ materialized
           /\ hash' = review["arrays"]
           /\ evidence'[reserved].arrays = review["arrays"]
        \/ /\ UNCHANGED <<hash, evidence>>
           /\ materialized => hash = review["arrays"]
    <3>1. CASE /\ exists /\ reserved = loc[s].id /\ materialized /\ ~promoted
               /\ hash # loc[s].review["arrays"]
      <4>1. evidence[reserved] \in Evidence
        BY <1>t, <2>a
      <4>2. evidence'[reserved] = [evidence[reserved] EXCEPT !.arrays = review["arrays"]]
        BY <1>8, <1>t, <2>a, <3>1 DEF Rematerialize
      <4>3. evidence'[reserved].arrays = review["arrays"]
        BY <4>1, <4>2 DEF Evidence
      <4> QED
        BY <1>8, <2>a, <3>1, <4>3 DEF Rematerialize
    <3>2. CASE ~(/\ exists /\ reserved = loc[s].id /\ materialized /\ ~promoted
                 /\ hash # loc[s].review["arrays"])
      BY <1>8, <2>a, <3>2 DEF Rematerialize, SaveInv, Claimed, EditInv, Carried
    <3> QED
      BY <3>1, <3>2
  <2>1. Turns'
    BY <2>b DEF EditInv, Turns, Live
  <2>2. HashKnown'
    BY <2>b, <2>c DEF EditInv, HashKnown
  <2>3. Carried'
    BY <2>b, <2>c DEF EditInv, Carried, Live
  <2> QED
    BY <2>1, <2>2, <2>3 DEF EditInv
<1>9. CASE CreateRecord(s)
  <2>1. Turns'
    BY <1>9, <1>t, <1>z DEF CreateRecord, Goto, Return, rowVars, talentVars, workVars, countVars, SaveInv, Elected, Claimed, Created, Writing, EditInv, Turns, Live
  <2>2. HashKnown'
    BY <1>9, <1>t, <1>z, IdInIds DEF CreateRecord, Goto, Return, rowVars, talentVars, workVars, countVars, SaveInv, Elected, Claimed, Writing, Materialized, EditInv, Turns, HashKnown
  <2>3. Carried'
    BY <1>9, <1>t, <1>z, IdInIds DEF CreateRecord, Goto, Return, rowVars, talentVars, workVars, countVars, SaveInv, Elected, Claimed, Created, Writing, Materialized, EditInv, Turns, HashKnown, Carried, Live
  <2> QED
    BY <2>1, <2>2, <2>3 DEF EditInv
<1>10. CASE FollowUps(s)
  <2>1. Turns'
    BY <1>10, <1>t, <1>z DEF FollowUps, Goto, rowVars, talentVars, workVars, countVars, SaveInv, Elected, Claimed, Created, Writing, EditInv, Turns, Live
  <2>2. HashKnown'
    BY <1>10, <1>t, <1>z, IdInIds DEF FollowUps, Goto, rowVars, talentVars, workVars, countVars, SaveInv, Elected, Claimed, Writing, Materialized, EditInv, Turns, HashKnown
  <2>3. Carried'
    BY <1>10, <1>t, <1>z, IdInIds DEF FollowUps, Goto, rowVars, talentVars, workVars, countVars, SaveInv, Elected, Claimed, Created, Writing, Materialized, EditInv, Turns, HashKnown, Carried, Live
  <2> QED
    BY <2>1, <2>2, <2>3 DEF EditInv
<1>11. CASE Complete(s)
  <2>1. Turns'
    BY <1>11, <1>t, <1>z DEF Complete, Goto, Return, rowVars, talentVars, workVars, countVars, SaveInv, Elected, Claimed, Created, Writing, EditInv, Turns, Live
  <2>2. HashKnown'
    BY <1>11, <1>t, <1>z, IdInIds DEF Complete, Goto, Return, rowVars, talentVars, workVars, countVars, SaveInv, Elected, Claimed, Writing, Materialized, EditInv, Turns, HashKnown
  <2>3. Carried'
    BY <1>11, <1>t, <1>z, IdInIds DEF Complete, Goto, Return, rowVars, talentVars, workVars, countVars, SaveInv, Elected, Claimed, Created, Writing, Materialized, EditInv, Turns, HashKnown, Carried, Live
  <2> QED
    BY <2>1, <2>2, <2>3 DEF EditInv
<1>12. CASE Crash(s)
  <2>1. Turns'
    BY <1>12, <1>t, <1>z DEF Crash, Goto, Return, rowVars, talentVars, workVars, countVars, SaveInv, Elected, Claimed, Created, Writing, EditInv, Turns, Live
  <2>2. HashKnown'
    BY <1>12, <1>t, <1>z, IdInIds DEF Crash, Goto, Return, rowVars, talentVars, workVars, countVars, SaveInv, Elected, Claimed, Writing, Materialized, EditInv, Turns, HashKnown
  <2>3. Carried'
    BY <1>12, <1>t, <1>z, IdInIds DEF Crash, Goto, Return, rowVars, talentVars, workVars, countVars, SaveInv, Elected, Claimed, Created, Writing, Materialized, EditInv, Turns, HashKnown, Carried, Live
  <2> QED
    BY <2>1, <2>2, <2>3 DEF EditInv
<1> QED
  BY <1>1, <1>2, <1>3, <1>4, <1>5, <1>6, <1>7, <1>8, <1>9, <1>10, <1>11, <1>12
  DEF SaveStep

(* So do the steps of everyone else. *)
LEMMA OtherKeepsEdits ==
  ASSUME Overlap = FALSE, TypeOK, SaveInv, EditInv, Other
  PROVE  EditInv'
<1>t. record \in [Ids -> Records] /\ patch \in Patches /\ review \in Reviews
  BY DEF TypeOK
<1>z. 0 \notin Ids
  BY DEF Ids
<1>1. ASSUME NEW p \in Parts, PatchRead(p) PROVE EditInv'
  <2>1. Turns'
    BY <1>1, <1>z DEF PatchRead, rowVars, talentVars, workVars, SaveInv, Created, EditInv,
                      Turns, Live
  <2> QED
    BY <1>1, <2>1 DEF PatchRead, rowVars, talentVars, workVars, EditInv, HashKnown,
                      Carried, Live
<1>2. CASE PatchCheck
  <2>1. \A i \in Ids : i # reserved => ~Live(i)
    BY DEF SaveInv, Created, Live
  <2>2. patch.id = reserved
    BY <1>2 DEF PatchCheck, EditInv, Turns
  <2>3. \/ patch' = NoPatch
        \/ ~Live(reserved) /\ patch' = [patch EXCEPT !.step = "write"]
    BY <1>2, <2>2 DEF PatchCheck
  <2>4. patch'.step = "idle" \/ (patch'.step = "write" /\ ~Live(reserved))
    BY <1>t, <2>3 DEF NoPatch, Patches
  <2>5. Turns'
    BY <1>2, <2>1, <2>4 DEF PatchCheck, rowVars, talentVars, workVars, EditInv, Turns, Live
  <2> QED
    BY <1>2, <2>5 DEF PatchCheck, rowVars, talentVars, workVars, EditInv, HashKnown,
                      Carried, Live
<1>3. CASE PatchWrite
  <2>1. /\ ~promoted
        /\ \A s \in Savers : pc[s] = "idle"
        /\ \A i \in Ids : ~Live(i)
    BY <1>3 DEF PatchWrite, EditInv, Turns
  <2>2. patch'.step = "idle"
    BY <1>3 DEF PatchWrite, NoPatch
  <2>3. UNCHANGED <<exists, reserved, materialized, hash, promoted, record, evidence, pc, loc>>
    BY <1>3 DEF PatchWrite, talentVars, workVars
  <2>4. \A i \in Ids : ~Live(i)'
    BY <2>1, <2>3 DEF Live
  <2>5. Turns' /\ HashKnown'
    BY <2>1, <2>2, <2>3 DEF Turns, HashKnown
  <2>6. Carried'
    BY <2>1, <2>3, <2>4 DEF EditInv, Carried
  <2> QED
    BY <2>5, <2>6 DEF EditInv
<1>4. CASE Replace
  BY <1>4 DEF Replace, talentVars, workVars, EditInv, Turns, HashKnown, Carried, Live
<1>5. CASE Discard
  BY <1>5 DEF Discard, Discardable, talentVars, workVars, SaveInv, Claimed, EditInv, Turns,
              HashKnown, Carried, Live
<1>6. ASSUME NEW j \in Ids, DeleteTalent(j) PROVE EditInv'
  <2>1. \A i \in Ids : /\ Live(i)' => Live(i)
                        /\ record'[i].scalars = record[i].scalars
    BY <1>6, <1>t DEF DeleteTalent, Live, Records
  <2>2. UNCHANGED <<rowVars, evidence, patch, workVars>>
    BY <1>6 DEF DeleteTalent
  <2> QED
    BY <2>1, <2>2 DEF rowVars, workVars, EditInv, Turns, HashKnown, Carried
<1>7. CASE Rival
  BY <1>7 DEF Rival, rowVars, talentVars, workVars, EditInv, Turns, HashKnown, Carried, Live
<1> QED
  BY <1>1, <1>2, <1>3, <1>4, <1>5, <1>6, <1>7 DEF Other

LEMMA EditsHold ==
  ASSUME Overlap = FALSE
  PROVE  Spec => []((TypeOK /\ SaveInv) /\ EditInv)
<1>1. Init => EditInv
  <2> SUFFICES ASSUME Init PROVE EditInv
    OBVIOUS
  <2>1. patch.step = "idle"
    BY DEF Init, NoPatch
  <2>2. \A i \in Ids : ~Live(i)
    BY DEF Init, Live
  <2> QED
    BY <2>1, <2>2 DEF Init, EditInv, Turns, HashKnown, Carried
<1>2. (TypeOK /\ SaveInv) /\ EditInv /\ [Next]_vars => EditInv'
  <2> SUFFICES ASSUME TypeOK, SaveInv, EditInv, [Next]_vars PROVE EditInv'
    OBVIOUS
  <2>1. CASE UNCHANGED vars
    BY <2>1 DEF vars, rowVars, talentVars, workVars, EditInv, Turns, HashKnown, Carried, Live
  <2> QED
    BY <2>1, SaveKeepsEdits, OtherKeepsEdits DEF Next
<1> QED
  BY <1>1, <1>2, InvHolds, PTL DEF Spec

(* D6 of promote and patchReview: while no edit is saved during a Save, the   *)
(* record and its evidence are the reviewed draft, through any number of       *)
(* concurrent, failed and resumed Saves, edits in between and deletions.       *)
THEOREM NoEditLost ==
  ASSUME Overlap = FALSE
  PROVE  Spec => []SavedAsReviewed
<1>1. (TypeOK /\ SaveInv) /\ EditInv => SavedAsReviewed
  <2> SUFFICES ASSUME TypeOK, SaveInv, EditInv, NEW i \in Ids, Live(i), exists
               PROVE  /\ record[i].scalars = review["scalars"]
                      /\ evidence[i].arrays = review["arrays"]
    BY DEF SavedAsReviewed
  <2>1. i = reserved /\ materialized
    BY DEF SaveInv, Created, Live
  <2> QED
    BY <2>1 DEF EditInv, Carried
<1> QED
  BY <1>1, EditsHold, PTL

(* Step 1 resumed: while no edit is saved during a Save, nothing rewrites the *)
(* evidence of a talent that is there, although the look for the record and   *)
(* the rewriting are two transactions.                                        *)
THEOREM EvidenceKept ==
  ASSUME Overlap = FALSE
  PROVE  Spec => EvidenceFrozen
<1> DEFINE Kept == \A i \in Ids : Live(i) => evidence'[i] = evidence[i]
<1>1. ASSUME TypeOK, SaveInv, EditInv, [Next]_vars, NEW i \in Ids, Live(i)
      PROVE  evidence'[i] = evidence[i]
  <2>t. evidence \in [Ids -> Evidence] /\ i = reserved /\ (exists => materialized)
    BY <1>1 DEF TypeOK, SaveInv, Created, Live
  <2>1. ASSUME NEW s \in Savers, Materialize(s) PROVE evidence' = evidence
    BY <2>1, <2>t DEF Materialize, Materializable
  <2>2. ASSUME NEW s \in Savers, Rematerialize(s) PROVE evidence' = evidence
    <3>1. loc[s].review = review
      BY <1>1, <2>2 DEF EditInv, Turns, Rematerialize
    <3>2. exists => hash = review["arrays"]
      BY <1>1 DEF EditInv, Carried
    <3> QED
      BY <2>2, <3>1, <3>2 DEF Rematerialize
  <2>3. ASSUME NEW s \in Savers, SaveStep(s), ~Materialize(s), ~Rematerialize(s)
        PROVE  evidence' = evidence
    BY <2>3 DEF SaveStep, Load, Replay, Dedupe, Reserve, Reread, FindRecord, CreateRecord, FollowUps,
                Complete, Crash, talentVars
  <2>4. CASE Other \/ UNCHANGED vars
    BY <2>4 DEF Other, PatchRead, PatchCheck, PatchWrite, Replace, Discard, DeleteTalent, Rival,
                talentVars, vars
  <2> QED
    BY <1>1, <2>1, <2>2, <2>3, <2>4 DEF Next
<1>2. ((TypeOK /\ SaveInv) /\ EditInv) /\ [Next]_vars => [Kept]_vars
  BY <1>1
<1> QED
  BY <1>2, EditsHold, PTL DEF Spec, EvidenceFrozen

-----------------------------------------------------------------------------
(* The Saves implement DraftPromotion.  What a step leaves on the rows:       *)

Same ==
  /\ UNCHANGED <<exists, reserved, materialized, promoted, record, rival>>
  /\ DocumentedIds' = DocumentedIds

Reserves ==
  /\ Reservable
  /\ reserved' \in Ids
  /\ UNCHANGED <<exists, materialized, promoted, record, evidence, rival>>

Materializes ==
  /\ exists /\ reserved # 0 /\ ~materialized
  /\ materialized' = TRUE
  /\ DocumentedIds' = {reserved}
  /\ UNCHANGED <<exists, reserved, promoted, record, rival>>

Creates ==
  /\ reserved # 0 /\ (exists => materialized)
  /\ ~rival /\ \A i \in Ids : ~Live(i)
  /\ LiveIds' = {reserved} /\ MadeIds' = {reserved}
  /\ UNCHANGED <<exists, reserved, materialized, promoted, evidence, rival>>

Completes ==
  /\ exists /\ reserved # 0 /\ materialized
  /\ record[reserved].state # "none"
  /\ promoted' = TRUE
  /\ UNCHANGED <<exists, reserved, materialized, record, evidence, rival>>

Discards ==
  /\ Discardable
  /\ exists' = FALSE
  /\ UNCHANGED <<reserved, materialized, promoted, record, evidence, rival>>

Deletes ==
  /\ LiveIds' = {} /\ MadeIds' = MadeIds
  /\ UNCHANGED <<exists, reserved, materialized, promoted, evidence, rival>>

Effects == Same \/ Reserves \/ Materializes \/ Creates \/ Completes \/ Discards \/ Deletes \/ Rival

LEMMA SaveEffects ==
  ASSUME TypeOK, SaveInv, NEW s \in Savers, SaveStep(s)
  PROVE  Effects
<1>t. /\ reserved \in 0 .. MaxSaves
      /\ loc[s].id \in 0 .. MaxSaves /\ loc[s].mint \in 0 .. MaxSaves
      /\ record \in [Ids -> Records] /\ evidence \in [Ids -> Evidence]
  BY LocalsTyped DEF TypeOK
<1>w. pc[s] \in Writing => loc[s].id = reserved /\ reserved # 0 /\ reserved \in Ids
  BY <1>t, IdInIds DEF SaveInv, Elected
<1>1. CASE Load(s) \/ Replay(s) \/ Dedupe(s) \/ Reread(s) \/ FindRecord(s) \/ FollowUps(s) \/ Crash(s)
  <2>1. UNCHANGED <<exists, reserved, materialized, promoted, record, evidence, rival>>
    BY <1>1 DEF Load, Replay, Dedupe, Reread, FindRecord, FollowUps, Crash, rowVars, talentVars
  <2> QED
    BY <2>1 DEF Effects, Same, DocumentedIds
<1>2. CASE Reserve(s)
  <2>1. UNCHANGED <<exists, materialized, promoted, record, evidence, rival>>
    BY <1>2 DEF Reserve, talentVars
  <2>2. CASE Reservable
    <3>1. loc[s].mint \in Ids
      BY <1>2, <1>t, IdInIds DEF Reserve, SaveInv, Elected
    <3> QED
      BY <1>2, <2>1, <2>2, <3>1 DEF Reserve, Effects, Reserves
  <2>3. CASE ~Reservable
    BY <1>2, <2>1, <2>3 DEF Reserve, Effects, Same, DocumentedIds
  <2> QED
    BY <2>2, <2>3
<1>3. CASE Materialize(s)
  <2>1. UNCHANGED <<exists, reserved, promoted, record, rival>>
    BY <1>3 DEF Materialize
  <2>2. CASE Materializable(s)
    <3>1. reserved = loc[s].id /\ reserved # 0 /\ reserved \in Ids
      BY <1>3, <1>w DEF Materialize, Writing
    <3>2. \A i \in Ids : evidence[i].runs = 0
      BY <1>t, <2>2 DEF Materializable, SaveInv, Claimed
    <3>3. materialized' = TRUE /\ evidence'[reserved].runs = 1
          /\ \A i \in Ids : i # reserved => evidence'[i] = evidence[i]
      BY <1>3, <1>t, <2>2, <3>1, <3>2 DEF Materialize
    <3>4. DocumentedIds' = {reserved}
      BY <3>1, <3>2, <3>3 DEF DocumentedIds
    <3> QED
      BY <2>1, <2>2, <3>1, <3>3, <3>4 DEF Materializable, Effects, Materializes
  <2>3. CASE ~Materializable(s)
    BY <1>3, <2>1, <2>3 DEF Materialize, Effects, Same, DocumentedIds
  <2> QED
    BY <2>2, <2>3
<1>4. CASE Rematerialize(s)
  <2>1. UNCHANGED <<exists, reserved, materialized, promoted, record, rival>>
    BY <1>4 DEF Rematerialize
  <2>2. \A i \in Ids : evidence'[i].runs = evidence[i].runs
    BY <1>4, <1>t DEF Rematerialize, Evidence
  <2>3. DocumentedIds' = DocumentedIds
    BY <2>2 DEF DocumentedIds
  <2> QED
    BY <2>1, <2>3 DEF Effects, Same
<1>5. CASE CreateRecord(s)
  <2>1. UNCHANGED <<exists, reserved, materialized, promoted, evidence, rival>>
    BY <1>5 DEF CreateRecord, rowVars
  <2>2. CASE record' = record
    BY <2>1, <2>2 DEF Effects, Same, DocumentedIds
  <2>3. CASE ~(record' = record)
    <3>1. /\ ~Live(loc[s].id) /\ ~Duplicate(s)
          /\ record' = [record EXCEPT ![loc[s].id] =
               [state |-> "live", scalars |-> loc[s].review["scalars"]]]
      BY <1>5, <2>3 DEF CreateRecord
    <3>2. reserved = loc[s].id /\ reserved # 0 /\ reserved \in Ids
      BY <1>5, <1>w DEF CreateRecord, Writing
    <3>3. ~rival /\ \A i \in Ids : ~Live(i)
      BY <3>1 DEF Duplicate
    <3>4. record'[reserved].state = "live" /\ \A i \in Ids : i # reserved => record'[i] = record[i]
      BY <1>t, <3>1, <3>2
    <3>5. \A i \in Ids : i # reserved => record[i].state = "none"
      BY DEF SaveInv, Created
    <3>6. LiveIds' = {reserved} /\ MadeIds' = {reserved}
      BY <3>2, <3>4, <3>5 DEF LiveIds, MadeIds, Live
    <3>7. exists => materialized
      BY <1>5 DEF CreateRecord, SaveInv, Claimed, Materialized
    <3> QED
      BY <2>1, <3>2, <3>3, <3>6, <3>7 DEF Effects, Creates
  <2> QED
    BY <2>2, <2>3
<1>6. CASE Complete(s)
  <2>1. UNCHANGED <<exists, reserved, materialized, record, evidence, rival>>
    BY <1>6 DEF Complete, talentVars
  <2>2. CASE exists /\ reserved = loc[s].id
    <3>1. promoted' = TRUE
      BY <1>6, <2>2 DEF Complete
    <3>2. reserved # 0 /\ materialized /\ record[reserved].state # "none"
      BY <1>6, <1>w, <2>2 DEF Complete, Writing, SaveInv, Claimed, Created, Materialized
    <3> QED
      BY <2>1, <2>2, <3>1, <3>2 DEF Effects, Completes
  <2>3. CASE ~(exists /\ reserved = loc[s].id)
    BY <1>6, <2>1, <2>3 DEF Complete, Effects, Same, DocumentedIds
  <2> QED
    BY <2>2, <2>3
<1> QED
  BY <1>1, <1>2, <1>3, <1>4, <1>5, <1>6 DEF SaveStep

LEMMA OtherEffects ==
  ASSUME TypeOK, SaveInv, Other
  PROVE  Effects
<1>1. CASE (\E p \in Parts : PatchRead(p)) \/ PatchCheck \/ PatchWrite \/ Replace
  <2>1. UNCHANGED <<exists, reserved, materialized, promoted, record, evidence, rival>>
    BY <1>1 DEF PatchRead, PatchCheck, PatchWrite, Replace, rowVars, talentVars
  <2> QED
    BY <2>1 DEF Effects, Same, DocumentedIds
<1>2. CASE Discard
  BY <1>2 DEF Discard, talentVars, Effects, Discards
<1>3. ASSUME NEW i \in Ids, DeleteTalent(i) PROVE Effects
  <2>1. UNCHANGED <<exists, reserved, materialized, promoted, evidence, rival>>
    BY <1>3 DEF DeleteTalent, rowVars
  <2>2. record \in [Ids -> Records] /\ Live(i)
    BY <1>3 DEF TypeOK, DeleteTalent
  <2>3. record'[i].state = "deleted" /\ \A j \in Ids : j # i => record'[j] = record[j]
    BY <1>3, <2>2 DEF DeleteTalent, Records
  <2>4. \A j \in Ids : j # i => ~Live(j)
    BY <2>2 DEF SaveInv, Created, Live
  <2>5. LiveIds' = {} /\ MadeIds' = MadeIds
    BY <2>2, <2>3, <2>4 DEF LiveIds, MadeIds, Live
  <2> QED
    BY <2>1, <2>5 DEF Effects, Deletes
<1>4. CASE Rival
  BY <1>4 DEF Effects
<1> QED
  BY <1>1, <1>2, <1>3, <1>4 DEF Other

PromotionStep == Promotion!Next \/ UNCHANGED Promotion!vars

LEMMA EffectImplements ==
  ASSUME TypeOK, SaveInv, Effects
  PROVE  PromotionStep
<1>t. exists \in BOOLEAN /\ promoted \in BOOLEAN /\ materialized \in BOOLEAN /\ rival \in BOOLEAN
  BY DEF TypeOK
<1>i. promoted => materialized /\ reserved # 0
  BY DEF SaveInv, Created
<1>m. materialized => exists /\ reserved # 0
  BY DEF SaveInv, Claimed
<1>1. CASE Same
  <2>1. UNCHANGED <<DraftState, ElectedIds, DocumentedIds, MadeIds, LiveIds, rival>>
    BY <1>1 DEF Same, DraftState, ElectedIds, MadeIds, LiveIds, Live
  <2> QED
    BY <2>1 DEF PromotionStep, Promotion!vars
<1>2. CASE Reserves
  <2>1. reserved' # 0 /\ reserved' \in Ids
    BY <1>2 DEF Reserves, Ids
  <2>2. DraftState = "open" /\ DraftState' = "elected"
    BY <1>2, <1>t, <1>m, <2>1 DEF Reserves, Reservable, DraftState
  <2>3. UNCHANGED <<DocumentedIds, MadeIds, LiveIds, rival>> /\ ElectedIds' = {reserved'}
    BY <1>2, <2>1 DEF Reserves, DocumentedIds, MadeIds, LiveIds, Live, ElectedIds
  <2>4. Promotion!Elect(reserved')
    BY <2>2, <2>3 DEF Promotion!Elect
  <2> QED
    BY <2>1, <2>4 DEF PromotionStep, Promotion!Next
<1>3. CASE Materializes
  <2>1. DraftState = "elected" /\ DraftState' = "written"
    BY <1>3, <1>t, <1>i DEF Materializes, DraftState
  <2>2. UNCHANGED <<ElectedIds, MadeIds, LiveIds, rival>> /\ DocumentedIds' = ElectedIds
    BY <1>3 DEF Materializes, MadeIds, LiveIds, Live, ElectedIds
  <2>3. Promotion!WriteEvidence
    BY <2>1, <2>2 DEF Promotion!WriteEvidence
  <2> QED
    BY <2>3 DEF PromotionStep, Promotion!Next
<1>4. CASE Creates
  <2>1. DraftState \in {"written", "saved", "abandoned"} /\ DraftState' = DraftState
    BY <1>4, <1>t DEF Creates, DraftState
  <2>2. /\ UNCHANGED <<ElectedIds, DocumentedIds, rival>>
        /\ LiveIds = {} /\ ~rival /\ LiveIds' = ElectedIds /\ MadeIds' = ElectedIds
    BY <1>4 DEF Creates, LiveIds, ElectedIds, DocumentedIds
  <2>3. Promotion!Create
    BY <2>1, <2>2 DEF Promotion!Create
  <2> QED
    BY <2>3 DEF PromotionStep, Promotion!Next
<1>5. CASE Completes
  <2>1. UNCHANGED <<ElectedIds, DocumentedIds, MadeIds, LiveIds, rival>>
    BY <1>5 DEF Completes, LiveIds, MadeIds, Live, ElectedIds, DocumentedIds
  <2>2. CASE promoted
    <3>1. DraftState' = DraftState
      BY <1>5, <2>2 DEF Completes, DraftState
    <3> QED
      BY <2>1, <3>1 DEF PromotionStep, Promotion!vars
  <2>3. CASE ~promoted
    <3>1. DraftState = "written" /\ DraftState' = "saved"
      BY <1>5, <2>3 DEF Completes, DraftState
    <3>2. MadeIds = ElectedIds
      <4>1. reserved \in Ids
        BY <1>5, IdInIds DEF Completes, TypeOK
      <4> QED
        BY <1>5, <4>1 DEF Completes, MadeIds, ElectedIds, SaveInv, Created
    <3>3. Promotion!Finish
      BY <2>1, <3>1, <3>2 DEF Promotion!Finish
    <3> QED
      BY <3>3 DEF PromotionStep, Promotion!Next
  <2> QED
    BY <2>2, <2>3
<1>6. CASE Discards
  <2>1. UNCHANGED <<ElectedIds, DocumentedIds, MadeIds, LiveIds, rival>>
    BY <1>6 DEF Discards, LiveIds, MadeIds, Live, ElectedIds, DocumentedIds
  <2>2. \/ DraftState = "open" /\ DraftState' = "discarded"
        \/ DraftState = "elected" /\ DraftState' = "abandoned"
    BY <1>6, <1>t DEF Discards, Discardable, DraftState
  <2>3. Promotion!Discard
    BY <2>1, <2>2 DEF Promotion!Discard
  <2> QED
    BY <2>3 DEF PromotionStep, Promotion!Next
<1>7. CASE Deletes
  <2>1. UNCHANGED <<DraftState, ElectedIds, DocumentedIds, MadeIds, rival>> /\ LiveIds' = {}
    BY <1>7 DEF Deletes, DraftState, ElectedIds, DocumentedIds
  <2>2. Promotion!Delete
    BY <2>1 DEF Promotion!Delete
  <2> QED
    BY <2>2 DEF PromotionStep, Promotion!Next
<1>8. CASE Rival
  <2>1. UNCHANGED <<DraftState, ElectedIds, DocumentedIds, MadeIds, LiveIds>>
    BY <1>8 DEF Rival, rowVars, talentVars, DraftState, LiveIds, MadeIds, Live, ElectedIds, DocumentedIds
  <2>2. rival' = ~rival
    BY <1>8 DEF Rival
  <2>3. Promotion!Other
    BY <2>1, <2>2 DEF Promotion!Other
  <2> QED
    BY <2>3 DEF PromotionStep, Promotion!Next
<1> QED
  BY <1>1, <1>2, <1>3, <1>4, <1>5, <1>6, <1>7, <1>8 DEF Effects

(* promote: Saves that overlap, work on stale copies of the draft, die at any *)
(* step and are resumed, with edits, replacements, discards, deletions and    *)
(* other creates of the person in between, implement the one-way promotion of *)
(* DraftPromotion; also when edits are saved during a Save.                   *)
THEOREM PromotionRefined == Spec => ImplementsPromotion
<1>1. Init => Promotion!Init
  <2> SUFFICES ASSUME Init PROVE Promotion!Init
    OBVIOUS
  <2>1. DraftState = "open" /\ ElectedIds = {} /\ rival = FALSE
    BY DEF Init, DraftState, ElectedIds
  <2>2. DocumentedIds = {} /\ MadeIds = {} /\ LiveIds = {}
    BY DEF Init, DocumentedIds, MadeIds, LiveIds, Live
  <2> QED
    BY <2>1, <2>2 DEF Promotion!Init
<1>2. (TypeOK /\ SaveInv) /\ [Next]_vars => [Promotion!Next]_(Promotion!vars)
  <2> SUFFICES ASSUME TypeOK, SaveInv, [Next]_vars PROVE PromotionStep
    BY DEF PromotionStep
  <2>1. CASE UNCHANGED vars
    <3>1. Same
      BY <2>1 DEF vars, rowVars, talentVars, Same, DocumentedIds
    <3> QED
      BY <3>1, EffectImplements DEF Effects
  <2> QED
    BY <2>1, SaveEffects, OtherEffects, EffectImplements DEF Next
<1> QED
  BY <1>1, <1>2, InvHolds, PTL DEF Spec, ImplementsPromotion, Promotion!Spec

-----------------------------------------------------------------------------
(* How far the code meets the expectations of section 7 of the README.        *)

(* promote, steps 1 and 2, against deleteTalentIntakeDraft: until the draft is *)
(* discarded, every talent made of it has its evidence.                       *)
THEOREM EvidencePresent == Spec => [](exists => RecordHasEvidence)
<1>1. TypeOK /\ SaveInv => (exists => RecordHasEvidence)
  <2> SUFFICES ASSUME TypeOK, SaveInv, exists, NEW i \in Ids, Live(i) PROVE evidence[i].runs > 0
    BY DEF RecordHasEvidence
  <2>1. i = reserved /\ materialized
    BY DEF SaveInv, Created, Live
  <2>2. evidence[i].runs = 1
    BY <2>1 DEF SaveInv, Claimed
  <2> QED
    BY <2>2
<1> QED
  BY <1>1, InvHolds, PTL

(* promote of a saved draft: while talents are not deleted it creates nothing, *)
(* also when it overlaps Saves that are still under way.                      *)
THEOREM ReplayQuiet ==
  ASSUME MaxDeletes = 0
  PROVE  Spec => ReplayWritesNothing
<1> DEFINE Kept == \A i \in Ids : record[i].state # "deleted"
           Quiet == promoted => \A i \in Ids : Live(i)' => Live(i)
<1>1. Init => Kept
  BY DEF Init
<1>a. ASSUME TypeOK, Kept, [Next]_vars PROVE Kept'
  <2>t. record \in [Ids -> Records] /\ deletes = 0
    BY <1>a DEF TypeOK
  <2>1. ASSUME NEW s \in Savers, SaveStep(s), ~CreateRecord(s) PROVE record' = record
    BY <2>1 DEF SaveStep, Load, Replay, Dedupe, Reserve, Reread, FindRecord, Materialize, Rematerialize,
                FollowUps, Complete, Crash, talentVars
  <2>2. ASSUME NEW s \in Savers, CreateRecord(s) PROVE Kept'
    BY <1>a, <2>2, <2>t DEF CreateRecord
  <2>3. CASE Other \/ UNCHANGED vars
    <3>1. ~ \E i \in Ids : DeleteTalent(i)
      BY <2>t DEF DeleteTalent
    <3>2. record' = record
      BY <2>3, <3>1 DEF Other, PatchRead, PatchCheck, PatchWrite, Replace, Discard, Rival, talentVars, vars
    <3> QED
      BY <1>a, <3>2
  <2> QED
    BY <1>a, <2>1, <2>2, <2>3 DEF Next
<1>2. (TypeOK /\ SaveInv) /\ Kept /\ [Next]_vars => Kept'
  BY <1>a
<1>b. ASSUME TypeOK, SaveInv, Kept, [Next]_vars, promoted, NEW i \in Ids, Live(i)'
      PROVE  Live(i)
  <2>1. reserved \in Ids /\ record[reserved].state = "live"
    <3>1. reserved # 0 /\ reserved \in Ids /\ record[reserved].state # "none"
      BY <1>b, IdInIds DEF SaveInv, Created, TypeOK
    <3>2. record[reserved] \in Records
      BY <1>b, <3>1 DEF TypeOK
    <3> QED
      BY <1>b, <3>1, <3>2 DEF Records
  <2>2. Effects \/ UNCHANGED vars
    BY <1>b, SaveEffects, OtherEffects DEF Next
  <2>3. ~Creates
    BY <2>1 DEF Creates, Live
  <2>4. ~Deletes \/ ~(i \in LiveIds')
    BY DEF Deletes
  <2>5. i \in LiveIds'
    BY <1>b DEF LiveIds
  <2>6. record' = record
    BY <2>2, <2>3, <2>4, <2>5
       DEF Effects, Same, Reserves, Materializes, Completes, Discards, Rival, talentVars, vars
  <2> QED
    BY <1>b, <2>6 DEF Live
<1>3. (TypeOK /\ SaveInv) /\ Kept /\ [Next]_vars => [Quiet]_vars
  BY <1>b
<1> HIDE DEF Kept
<1> QED
  BY <1>1, <1>2, <1>3, InvHolds, PTL DEF Spec, ReplayWritesNothing

(* materializeIntakeSaveEvidence against replaceResume: only a document of a  *)
(* resume that was replaced can point at nothing.                             *)
THEOREM CurrentDocument == Spec => []CurrentDocumentStored
<1> DEFINE Stored == exists /\ resume # 0 => resume \in objects
<1>1. Init => Stored
  BY DEF Init
<1>a. ASSUME TypeOK, Stored, [Next]_vars PROVE Stored'
  <2>t. resume \in Nat
    BY <1>a DEF TypeOK
  <2>1. CASE Replace
    BY <2>1, <2>t DEF Replace, DropObject
  <2>2. CASE Discard
    BY <2>2 DEF Discard
  <2>3. CASE ~Replace /\ ~Discard
    <3>1. UNCHANGED <<exists, resume, objects>>
      BY <1>a, <2>3
         DEF Next, SaveStep, Load, Replay, Dedupe, Reserve, Reread, FindRecord, Materialize, Rematerialize,
             CreateRecord, FollowUps, Complete, Crash, Other, PatchRead, PatchCheck, PatchWrite,
             DeleteTalent, Rival, rowVars, vars
    <3> QED
      BY <1>a, <3>1
  <2> QED
    BY <2>1, <2>2, <2>3
<1>2. (TypeOK /\ SaveInv) /\ Stored /\ [Next]_vars => Stored'
  BY <1>a
<1>3. (TypeOK /\ SaveInv) /\ Stored => CurrentDocumentStored
  <2> SUFFICES ASSUME TypeOK, SaveInv, Stored, NEW i \in Ids, evidence[i].runs > 0,
                      evidence[i].document = resume
               PROVE  evidence[i].document \in objects \union {0}
    BY DEF CurrentDocumentStored
  <2>1. evidence[i].runs # 0
    OBVIOUS
  <2>2. exists
    BY <2>1 DEF SaveInv, Claimed
  <2> QED
    BY <2>2
<1> HIDE DEF Stored
<1> QED
  BY <1>1, <1>2, <1>3, InvHolds, PTL DEF Spec
=============================================================================
