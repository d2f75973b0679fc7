------------------------ MODULE MCTalentEventOutbox ------------------------
(***************************************************************************)
(* The ATS talent outbox: backoff on failure, no redrive.  Row 1 is of an   *)
(* event type no handler knows, row 3 cannot be mapped to an envelope.      *)
(***************************************************************************)
EXTENDS LeaseSafeOutbox

MCRows == 1 .. 3
MCKnown == {2, 3}
MCUnmappable == {3}
MCSubjectOf == [r \in {} |-> r]
=============================================================================
