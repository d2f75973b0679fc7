------------------------- MODULE AtLeastOnceDelivery -------------------------
(***************************************************************************)
(* What a lease-safe outbox promises its consumers, without leases, workers *)
(* or attempts: an event that has been written is handed to the handlers    *)
(* any number of times, it is acknowledged only once every handler it needs *)
(* has succeeded on it, an acknowledgement is final, and an event that is   *)
(* given up on is parked, never dropped.                                    *)
(***************************************************************************)

CONSTANTS
  Rows,       \* the outbox rows (event_id = row id)
  Handlers,   \* the handlers an event is fanned out to
  Known       \* the rows whose event type some handler knows

VARIABLES
  emitted,    \* rows whose business fact has committed
  handled,    \* handled[r]: handlers that have succeeded on r at least once
  acked,      \* rows acknowledged as delivered
  parked      \* rows set aside for an operator

vars == <<emitted, handled, acked, parked>>

Complete(r) == r \in Known => handled[r] = Handlers

Init ==
  /\ emitted = {}
  /\ handled = [r \in Rows |-> {}]
  /\ acked = {}
  /\ parked = {}

Emit(r) ==
  /\ r \notin emitted
  /\ emitted' = emitted \union {r}
  /\ UNCHANGED <<handled, acked, parked>>

Handle(r, S) ==
  /\ r \in emitted
  /\ handled' = [handled EXCEPT ![r] = @ \union S]
  /\ UNCHANGED <<emitted, acked, parked>>

Ack(S) ==
  /\ S \subseteq emitted
  /\ \A r \in S : Complete(r)
  /\ acked' = acked \union S
  /\ UNCHANGED <<emitted, handled, parked>>

Park(S) ==
  /\ S \subseteq emitted \ acked
  /\ parked' = parked \union S
  /\ UNCHANGED <<emitted, handled, acked>>

Reopen(S) ==
  /\ S \subseteq emitted \ acked
  /\ parked' = parked \ S
  /\ UNCHANGED <<emitted, handled, acked>>

Next ==
  \/ \E r \in Rows : Emit(r)
  \/ \E r \in Rows, S \in SUBSET Handlers : Handle(r, S)
  \/ \E S \in SUBSET Rows : Ack(S) \/ Park(S) \/ Reopen(S)

Spec == Init /\ [][Next]_vars

=============================================================================
