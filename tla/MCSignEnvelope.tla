---------------------------- MODULE MCSignEnvelope ----------------------------
(* Envelopes of two recipients: a signer who may delegate before an in-person  *)
(* signer; an in-person signer whose witness has an access code; two signers   *)
(* in order, the second invited when it is their turn; and two side by side,  *)
(* one of whom has an access code and may also sign from the account.       *)
EXTENDS SignEnvelope

CONSTANTS a, b

both(x, y) == [s \in {a, b} |-> IF s = a THEN x ELSE y]
plain == [routing |-> "PARALLEL", kind |-> both("SIGNER", "SIGNER"), principal |-> both(a, b),
          order |-> both(1, 2), code |-> both(FALSE, FALSE), bound |-> both(FALSE, FALSE),
          delegable |-> FALSE]

SideBySide == [plain EXCEPT !.code = both(TRUE, FALSE), !.bound = both(TRUE, FALSE)]
Delegated == [plain EXCEPT !.routing = "SEQUENTIAL", !.kind = both("SIGNER", "IN_PERSON_SIGNER"),
                           !.delegable = TRUE]
Witnessed == [plain EXCEPT !.kind = both("IN_PERSON_SIGNER", "WITNESS"), !.principal = both(a, a),
                           !.code = both(FALSE, TRUE)]
InOrder == [plain EXCEPT !.routing = "SEQUENTIAL"]

AllSetups == {SideBySide, Delegated, Witnessed, InOrder}
SideBySideOnly == {SideBySide}
=============================================================================
