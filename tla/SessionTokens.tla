----------------------------- MODULE SessionTokens -----------------------------
(***************************************************************************)
(* The refresh tokens and native device sessions that one user has of one      *)
(* product in one tenant: sign-in, code redemption, refresh with rotation, the *)
(* reuse cascade, denial, logout, device revocation, the removal of product   *)
(* access and the retention sweep, as requests that run concurrently in       *)
(* several processes.                                                       *)
(*                                                                         *)
(* A step is one statement or one transaction, except that the transactions   *)
(* which touch tokens and device sessions are split where each holds rows and *)
(* asks for others: rotateForSession locks the token first, revokeSession and *)
(* removeProductAccess the sessions.  Their writes appear at the commit.      *)
(* A user-wide revocation is split too: rows that are committed after its     *)
(* statement has taken its snapshot are not among those it updates.         *)
(*                                                                         *)
(* Hashes, consumers other than the browser and the native app of the product *)
(* (logout-all repeats Logout for each), host binding, access tokens and the  *)
(* audit are left out.  A refusal that writes nothing is the request giving   *)
(* up, or never starting: an expired token is one that nobody presents any    *)
(* more.                                                                    *)
(***************************************************************************)
EXTENDS Naturals, Sequences

CONSTANTS
  Requests,     \* requests that may be in progress at the same time
  Codes,        \* authorization codes of the identity provider
  None,         \* NULL
  MaxTokens     \* bound: refresh tokens ever issued

ASSUME BoundsAssumption == MaxTokens \in Nat /\ None \notin Codes

VARIABLES
  tokens,    \* RefreshToken rows in the order they were inserted
  devices,   \* NativeDeviceSession rows in the order they were inserted
  valid,     \* the codes the identity provider would still accept
  ledger,    \* NativeRedeemedCode
  req        \* what each request is doing

vars == <<tokens, devices, valid, ledger, req>>

\* revoked_at: NULL, set within the grace window, or before it.
Token == [family : Nat, native : BOOLEAN, revoked : {"no", "fresh", "old"}, next : Nat]
\* revoke_reason: NULL, the session itself was revoked, access to the product was removed,
\* or all the user's were; a row that was swept keeps its place in the sequence.
Device == [root : Nat, current : Nat, code : Codes,
           closed : {"no", "session", "access", "reuse", "swept"}]
Phases == {"idle", "read", "find", "session", "moving", "close", "closing",
           "cascade", "revoking", "closeall", "ending", "stamping", "redeemed"}
Request == [pc : Phases, token : Nat, device : Nat, known : Nat, code : Codes \union {None}]
idle == [pc |-> "idle", token |-> 0, device |-> 0, known |-> 0, code |-> None]

Init ==
  /\ tokens = << >>
  /\ devices = << >>
  /\ valid = Codes
  /\ ledger = {}
  /\ req = [r \in Requests |-> idle]

-----------------------------------------------------------------------------
(* Rows.                                                                   *)

HasRoom == Len(tokens) < MaxTokens
New(family, native) ==
  [family |-> family, native |-> native, revoked |-> "no", next |-> 0]
Live(t) == tokens[t].revoked = "no"
Open(d) == devices[d].closed = "no"

\* Mutant: the retirement of the old token is not guarded.
AnyToken(t) == TRUE

\* The guard of the retirement: nobody has revoked or rotated the token.
Retirable(t) == Live(t) /\ tokens[t].next = 0

Retired(t) == [tokens EXCEPT ![t] = [@ EXCEPT !.revoked = "fresh", !.next = Len(tokens) + 1]]

\* Mutant: the successor is named and not inserted.
RetiredOnly(t) == Retired(t)

\* The successor inherits the bindings of the token it replaces.
Rotated(t) == Append(Retired(t), New(tokens[t].family, tokens[t].native))

\* The row locks that outlast a step.
TokenLocked(t) == \E r \in Requests : req[r].pc = "moving" /\ req[r].token = t
Held(r, d) == req[r].pc = "stamping" /\ d <= req[r].device /\ Open(d)
DeviceLocked(d) ==
  \E r \in Requests : (req[r].pc = "closing" /\ req[r].device = d) \/ Held(r, d)

Go(r, pc) == req' = [req EXCEPT ![r].pc = pc]
End(r) == req' = [req EXCEPT ![r] = idle]

-----------------------------------------------------------------------------
(* Sign-in.                                                                *)

SignIn ==
  /\ HasRoom
  /\ tokens' = Append(tokens, New(Len(tokens) + 1, FALSE))
  /\ UNCHANGED <<devices, valid, ledger, req>>

\* Mutant: the ledger is not consulted.
AnyCode(c) == TRUE
Unredeemed(c) == c \notin ledger

\* The code is burned before it is exchanged.
RedeemCode(r, c) ==
  /\ req[r].pc = "idle"
  /\ Unredeemed(c)
  /\ ledger' = ledger \union {c}
  /\ req' = [req EXCEPT ![r] = [idle EXCEPT !.pc = "redeemed", !.code = c]]
  /\ UNCHANGED <<tokens, devices, valid>>

\* The provider accepts the code, and later token and session are inserted together.  (The
\* ledger holds the code from before the one until after the other.)
CreateSession(r) ==
  /\ req[r].pc = "redeemed"
  /\ req[r].code \in valid
  /\ HasRoom
  /\ LET t == Len(tokens) + 1 IN
     /\ tokens' = Append(tokens, New(t, TRUE))
     /\ devices' = Append(devices,
          [root |-> t, current |-> t, closed |-> "no", code |-> req[r].code])
  /\ End(r)
  /\ UNCHANGED <<valid, ledger>>

-----------------------------------------------------------------------------
(* Refresh.                                                                *)

\* detectReuse: a token that was rotated longer than the grace window ago.
IsReuse(t) == tokens[t].next # 0 /\ tokens[t].revoked = "old"

\* The presented token is read; an explicitly revoked one is refused.
Read(r, t) ==
  /\ req[r].pc = "idle"
  /\ tokens[t].revoked # "no" => tokens[t].next # 0
  /\ LET pc == IF IsReuse(t) THEN "cascade" ELSE IF tokens[t].native THEN "find" ELSE "read"
     IN  req' = [req EXCEPT ![r] = [idle EXCEPT !.pc = pc, !.token = t]]
  /\ UNCHANGED <<tokens, devices, valid, ledger>>

\* The browser's rotation, in one transaction.
Rotate(r) ==
  /\ req[r].pc = "read"
  /\ \/ /\ Retirable(req[r].token)
        /\ HasRoom
        /\ tokens' = Rotated(req[r].token)
     \/ /\ ~Retirable(req[r].token)
        /\ tokens' = tokens
  /\ End(r)
  /\ UNCHANGED <<devices, valid, ledger>>

\* The user is no longer eligible: the presented token is revoked by id, whatever became
\* of it since it was read.
Stamped(t) == [tokens EXCEPT ![t].revoked = "fresh"]
Deny(r) ==
  /\ req[r].pc = "read"
  /\ tokens' = Stamped(req[r].token)
  /\ End(r)
  /\ UNCHANGED <<devices, valid, ledger>>

\* The open session whose current token was presented.
FindActive(r, d) ==
  /\ req[r].pc = "find"
  /\ Open(d) /\ devices[d].current = req[r].token
  /\ req' = [req EXCEPT ![r].pc = "session", ![r].device = d]
  /\ UNCHANGED <<tokens, devices, valid, ledger>>

\* rotateForSession up to the retirement: the token stays locked.
RetireOld(r) ==
  /\ req[r].pc = "session"
  /\ ~TokenLocked(req[r].token)
  /\ \/ Retirable(req[r].token) /\ Go(r, "moving")
     \/ ~Retirable(req[r].token) /\ End(r)
  /\ UNCHANGED <<tokens, devices, valid, ledger>>

\* Mutant: the pointer of a closed session is moved as well.
StillCurrent(d, t) == devices[d].current = t

\* The guard of moving the session's pointer.
Moves(d, t) == Open(d) /\ devices[d].current = t

\* The rest of rotateForSession: the pointer moves and all of it is committed, or it is
\* rolled back.
MoveSession(r) ==
  /\ req[r].pc = "moving"
  /\ LET d == req[r].device
         t == req[r].token
     IN  /\ ~DeviceLocked(d)
         /\ \/ /\ Moves(d, t)
               /\ HasRoom
               /\ tokens' = Rotated(t)
               /\ devices' = [devices EXCEPT ![d].current = Len(tokens) + 1]
            \/ /\ ~Moves(d, t)
               /\ UNCHANGED <<tokens, devices>>
  /\ End(r)
  /\ UNCHANGED <<valid, ledger>>

-----------------------------------------------------------------------------
(* Ending sessions.                                                        *)

\* The browser's logout revokes the presented token by id.  The tokens of the native app
\* are never cookies of a browser.
Logout(t) ==
  /\ ~tokens[t].native
  /\ tokens' = Stamped(t)
  /\ UNCHANGED <<devices, valid, ledger, req>>

\* A denied native refresh or one of another client.
DenyNative(r) ==
  /\ req[r].pc = "session"
  /\ Go(r, "close")
  /\ UNCHANGED <<tokens, devices, valid, ledger>>

\* The native logout finds the open session of the presented token.
LogoutNative(r, d) ==
  /\ req[r].pc = "idle"
  /\ Open(d)
  /\ req' = [req EXCEPT ![r] =
       [idle EXCEPT !.pc = "close", !.token = devices[d].current, !.device = d]]
  /\ UNCHANGED <<tokens, devices, valid, ledger>>

\* A device is revoked from another one, when its current token still works.
RevokeDevice(r, d) ==
  /\ Live(devices[d].current)
  /\ LogoutNative(r, d)

\* revokeSession up to the update of the session, which stays locked.
CloseSession(r) ==
  /\ req[r].pc = "close"
  /\ ~DeviceLocked(req[r].device)
  /\ \/ Open(req[r].device) /\ Go(r, "closing")
     \/ ~Open(req[r].device) /\ End(r)
  /\ UNCHANGED <<tokens, devices, valid, ledger>>

\* Mutant: the token the request knows of is revoked.
PresentedToken(r) == req[r].token

\* The session is read again under its lock.
CurrentToken(r) == devices[req[r].device].current

\* The rest of revokeSession: its current token is revoked with it.
RevokeCurrent(r) ==
  /\ req[r].pc = "closing"
  /\ LET t == CurrentToken(r) IN
     /\ ~TokenLocked(t)
     /\ tokens' = IF Live(t) THEN Stamped(t) ELSE tokens
  /\ devices' = [devices EXCEPT ![req[r].device].closed = "session"]
  /\ End(r)
  /\ UNCHANGED <<valid, ledger>>

-----------------------------------------------------------------------------
(* Revocation of all the user has.                                         *)

\* The erasure of a portal identity revokes every token as the cascade does.  (Such a
\* user has no devices; with them the model allows more than the code.)
Erase(r) ==
  /\ req[r].pc = "idle"
  /\ req' = [req EXCEPT ![r] = [idle EXCEPT !.pc = "cascade"]]
  /\ UNCHANGED <<tokens, devices, valid, ledger>>

\* The statement takes its snapshot.
CascadeStarts(r) ==
  /\ req[r].pc = "cascade"
  /\ req' = [req EXCEPT ![r].pc = "revoking", ![r].known = Len(tokens)]
  /\ UNCHANGED <<tokens, devices, valid, ledger>>

\* After the tokens a native request goes on to the device sessions.
AfterCascade(r) ==
  IF req[r].token # 0 /\ tokens[req[r].token].native
  THEN Go(r, "closeall") ELSE End(r)

\* It updates the rows of its snapshot that still match, once nobody locks them.
RevokeKnown(r) ==
  /\ \A t \in 1 .. req[r].known : ~TokenLocked(t)
  /\ tokens' = [t \in DOMAIN tokens |->
       IF t <= req[r].known /\ Live(t) THEN [tokens[t] EXCEPT !.revoked = "fresh"] ELSE tokens[t]]

CascadeEnds(r) ==
  /\ req[r].pc = "revoking"
  /\ RevokeKnown(r)
  /\ AfterCascade(r)
  /\ UNCHANGED <<devices, valid, ledger>>

\* Its failure is logged, and the request goes on.
CascadeFails(r) ==
  /\ req[r].pc = "cascade"
  /\ AfterCascade(r)
  /\ UNCHANGED <<tokens, devices, valid, ledger>>

CloseAll(r) ==
  /\ req[r].pc = "closeall"
  /\ \A d \in DOMAIN devices : ~DeviceLocked(d)
  /\ devices' = [d \in DOMAIN devices |->
       IF Open(d) THEN [devices[d] EXCEPT !.closed = "reuse"] ELSE devices[d]]
  /\ End(r)
  /\ UNCHANGED <<tokens, valid, ledger>>

-----------------------------------------------------------------------------
(* Removal of access to the product, and the privacy execution's revocation, which is the
   same transaction of two statements.                                       *)

\* The first one takes its snapshot of the sessions ...
RemoveAccess(r) ==
  /\ req[r].pc = "idle"
  /\ req' = [req EXCEPT ![r] = [idle EXCEPT !.pc = "ending", !.device = Len(devices)]]
  /\ UNCHANGED <<tokens, devices, valid, ledger>>

\* ... and locks those that are still open; the second one takes its snapshot of the tokens.
AccessCloses(r) ==
  /\ req[r].pc = "ending"
  /\ \A d \in 1 .. req[r].device : ~DeviceLocked(d)
  /\ req' = [req EXCEPT ![r].pc = "stamping", ![r].known = Len(tokens)]
  /\ UNCHANGED <<tokens, devices, valid, ledger>>

\* The tokens are revoked, and both are committed.
AccessEnds(r) ==
  /\ req[r].pc = "stamping"
  /\ RevokeKnown(r)
  /\ devices' = [d \in DOMAIN devices |->
       IF Held(r, d) THEN [devices[d] EXCEPT !.closed = "access"] ELSE devices[d]]
  /\ End(r)
  /\ UNCHANGED <<valid, ledger>>

-----------------------------------------------------------------------------
(* Time, and what may go wrong.                                            *)

\* The retention sweep deletes a session that ended long ago and that nobody locks.  Ended
\* is one that was closed, whose token was revoked, or whose token expired: expiry is not
\* part of the state, so it may be any.
Sweep(d) ==
  /\ devices[d].closed # "swept"
  /\ ~DeviceLocked(d)
  /\ devices' = [devices EXCEPT ![d].closed = "swept"]
  /\ UNCHANGED <<tokens, valid, ledger, req>>

\* Only of a token that was rotated does anybody ask how long ago.
GracePasses(t) ==
  /\ tokens[t].revoked = "fresh" /\ tokens[t].next # 0
  /\ tokens' = [tokens EXCEPT ![t].revoked = "old"]
  /\ UNCHANGED <<devices, valid, ledger, req>>

CodeExpires(c) ==
  /\ c \in valid
  /\ valid' = valid \ {c}
  /\ UNCHANGED <<tokens, devices, ledger, req>>

\* The first statement of any redemption, of this user or another, removes the rows whose
\* time is over.  They outlive the codes they are about (CODE_LEDGER_TTL_SECONDS).
PruneLedger(c) ==
  /\ c \in ledger \ valid
  /\ ledger' = ledger \ {c}
  /\ UNCHANGED <<tokens, devices, valid, req>>

\* A refusal, an error or a death: an open transaction is rolled back.  The database does
\* this to one of two requests that wait for each other's rows.
GiveUp(r) ==
  /\ req[r].pc # "idle"
  /\ End(r)
  /\ UNCHANGED <<tokens, devices, valid, ledger>>

-----------------------------------------------------------------------------
RefreshStep(r) ==
  \/ \E t \in DOMAIN tokens : Read(r, t)
  \/ Rotate(r) \/ Deny(r)
  \/ \E d \in DOMAIN devices : FindActive(r, d)
  \/ RetireOld(r) \/ MoveSession(r) \/ DenyNative(r)

EndStep(r) ==
  \/ \E d \in DOMAIN devices : LogoutNative(r, d) \/ RevokeDevice(r, d)
  \/ CloseSession(r) \/ RevokeCurrent(r)
  \/ Erase(r) \/ CascadeStarts(r) \/ CascadeEnds(r) \/ CascadeFails(r) \/ CloseAll(r)
  \/ RemoveAccess(r) \/ AccessCloses(r) \/ AccessEnds(r)

RequestStep(r) ==
  \/ \E c \in Codes : RedeemCode(r, c)
  \/ CreateSession(r)
  \/ RefreshStep(r)
  \/ EndStep(r)
  \/ GiveUp(r)

TimeStep ==
  \/ \E t \in DOMAIN tokens : GracePasses(t)
  \/ \E d \in DOMAIN devices : Sweep(d)
  \/ \E c \in Codes : CodeExpires(c) \/ PruneLedger(c)

Next ==
  \/ SignIn
  \/ \E t \in DOMAIN tokens : Logout(t)
  \/ \E r \in Requests : RequestStep(r)
  \/ TimeStep

Spec == Init /\ [][Next]_vars

-----------------------------------------------------------------------------
(* What must hold.                                                         *)

\* Every row keeps its type, and replaced_by_id and current_refresh_token_id name tokens
\* that exist.
TypeOK ==
  /\ tokens \in Seq(Token)
  /\ devices \in Seq(Device)
  /\ valid \subseteq Codes
  /\ ledger \subseteq Codes
  /\ req \in [Requests -> Request]
  /\ \A t \in DOMAIN tokens : tokens[t].next \in 0 .. Len(tokens)
  /\ \A d \in DOMAIN devices : devices[d].current \in DOMAIN tokens

\* rotate and rotateForSession under concurrent refreshes of one token: a token that was
\* rotated is revoked, and of all the tokens of a sign-in only one has no successor, so
\* at most one of them ever works.
FamilyIsChain ==
  \A t, u \in DOMAIN tokens :
    /\ tokens[t].next # 0 => ~Live(t)
    /\ tokens[t].family = tokens[u].family /\ tokens[t].next = 0 /\ tokens[u].next = 0 => t = u

\* A device session points at the head of its family, also when rotations, logouts and
\* cascades overlap, and once revokeSession or removeProductAccess has closed it no token
\* of the family works.
DeviceSound ==
  \A d \in DOMAIN devices :
    /\ tokens[devices[d].current].next = 0
    /\ tokens[devices[d].current].family = devices[d].root
    /\ devices[d].closed \in {"session", "access"} =>
         \A t \in DOMAIN tokens : tokens[t].family = devices[d].root => ~Live(t)

\* rotateForSession, revokeSession, revokeAllForUser, removeProductAccess: a closed session
\* is never opened, moved or closed for another reason, until it is swept, and its family
\* never gets another token, although a token of it may have outlived the cascade that
\* closed it.
ClosedIsFinal ==
  [][\A d \in DOMAIN devices : ~Open(d) =>
       /\ devices'[d] \in {devices[d], [devices[d] EXCEPT !.closed = "swept"]}
       /\ \A t \in DOMAIN tokens' \ DOMAIN tokens : tokens'[t].family # devices[d].root]_vars

\* redeemCode: whatever is retried and however long an exchange takes, a code opens at
\* most one session; pruning the ledger does not change that.
CodeOnce ==
  \A d, e \in DOMAIN devices : devices[d].code = devices[e].code => d = e

-----------------------------------------------------------------------------
(* The tokens of a user are rotating credentials.                          *)

Owners == [t \in DOMAIN tokens |-> tokens[t].family]
Working == {t \in DOMAIN tokens : Live(t)}
ClosedRoots == {devices[d].root : d \in {e \in DOMAIN devices : ~Open(e)}}

Credentials == INSTANCE RotatingCredentials
  WITH owner <- Owners, working <- Working, closed <- ClosedRoots

\* rotate, rotateForSession, revokeSession, removeProductAccess, the cascades and the sweep,
\* with every overlap of theirs and transactions that take their locks in opposite orders,
\* do what RotatingCredentials promises.
ImplementsCredentials == Credentials!Spec
=============================================================================
