------------------------- MODULE RotatingCredentials -------------------------
(***************************************************************************)
(* What the tokens of a user promise, without requests, rows or locks: a     *)
(* sign-in brings one credential that works, a rotation replaces the one that *)
(* works by a new one in one step, a credential that was replaced or revoked  *)
(* never works again, and a sign-in that was closed gets no other.           *)
(***************************************************************************)
EXTENDS Naturals, Sequences

VARIABLES
  owner,     \* the sign-in of each credential, in the order they were issued
  working,   \* the credentials that work
  closed     \* the sign-ins that were closed

vars == <<owner, working, closed>>

Init ==
  /\ owner = << >>
  /\ working = {}
  /\ closed = {}

SignIn ==
  /\ owner' = Append(owner, Len(owner) + 1)
  /\ working' = working \union {Len(owner) + 1}
  /\ UNCHANGED closed

Rotate(c) ==
  /\ owner[c] \notin closed
  /\ owner' = Append(owner, owner[c])
  /\ working' = (working \ {c}) \union {Len(owner) + 1}
  /\ UNCHANGED closed

\* Credentials are revoked, and maybe sign-ins closed with them: nothing of a sign-in that
\* is closed here works any more.
Revoke ==
  /\ closed \subseteq closed' /\ closed' \subseteq 1 .. Len(owner)
  /\ working' \subseteq {c \in working : owner[c] \notin closed' \ closed}
  /\ UNCHANGED owner

\* Sign-ins are closed without their credentials: what works goes on working, and is not
\* replaced any more.
Close ==
  /\ closed \subseteq closed' /\ closed' \subseteq 1 .. Len(owner)
  /\ UNCHANGED <<owner, working>>

Next ==
  \/ SignIn
  \/ \E c \in working : Rotate(c)
  \/ Revoke
  \/ Close

Spec == Init /\ [][Next]_vars
=============================================================================
