--------------------------- MODULE DraftPromotion ---------------------------
(***************************************************************************)
(* What the Save of a draft promises, without requests, retries or          *)
(* failures: the draft elects one id, its evidence is written under that id  *)
(* once, the talent is created under it only at a moment when nobody else    *)
(* has the person's email or phone, and the draft is saved only when both    *)
(* are there.  What others do later is not promised: their record may join   *)
(* the talent at any time.  A draft with evidence is no longer discarded.    *)
(* One that was abandoned before that may still become a talent, and a       *)
(* talent that was deleted may come back.                                    *)
(***************************************************************************)
CONSTANT Ids

VARIABLES
  draft,        \* "open", "elected", "written", "saved", "discarded" or "abandoned"
  id,           \* the ids the draft has elected: none or one
  documented,   \* ids with evidence
  made,         \* ids a talent was created under
  live,         \* ids of talents that are there
  taken         \* does another talent have this email or phone?

vars == <<draft, id, documented, made, live, taken>>

Init ==
  /\ draft = "open"
  /\ id = {} /\ documented = {} /\ made = {} /\ live = {}
  /\ taken = FALSE

Elect(i) ==
  /\ draft = "open"
  /\ draft' = "elected"
  /\ id' = {i}
  /\ UNCHANGED <<documented, made, live, taken>>

WriteEvidence ==
  /\ draft = "elected"
  /\ draft' = "written"
  /\ documented' = id
  /\ UNCHANGED <<id, made, live, taken>>

Create ==
  /\ draft \in {"written", "saved", "abandoned"}
  /\ live = {} /\ ~taken
  /\ live' = id
  /\ made' = id
  /\ UNCHANGED <<draft, id, documented, taken>>

Finish ==
  /\ draft = "written"
  /\ made = id
  /\ draft' = "saved"
  /\ UNCHANGED <<id, documented, made, live, taken>>

Discard ==
  /\ \/ draft = "open" /\ draft' = "discarded"
     \/ draft = "elected" /\ draft' = "abandoned"
  /\ UNCHANGED <<id, documented, made, live, taken>>

Delete ==
  /\ live' = {}
  /\ UNCHANGED <<draft, id, documented, made, taken>>

\* Somebody else's record of the person comes or goes, whether or not ours is there.
Other ==
  /\ taken' = ~taken
  /\ UNCHANGED <<draft, id, documented, made, live>>

Next ==
  \/ \E i \in Ids : Elect(i)
  \/ WriteEvidence \/ Create \/ Finish \/ Discard \/ Delete \/ Other

Spec == Init /\ [][Next]_vars
=============================================================================
