--------------------------- MODULE MCIntakeOutbox ---------------------------
(***************************************************************************)
(* The talent intake outbox: a failed row is claimable at once, and an      *)
(* operator may redrive the draft both rows are about, at any moment.       *)
(***************************************************************************)
EXTENDS LeaseSafeOutbox

MCRows == 1 .. 2
MCUnmappable == {}
MCSubjectOf == [r \in MCRows |-> "draft"]
=============================================================================
