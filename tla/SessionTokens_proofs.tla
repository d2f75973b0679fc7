------------------------- MODULE SessionTokens_proofs -------------------------
(***************************************************************************)
(* Theorems about SessionTokens, for any number of requests, codes, tokens   *)
(* and device sessions.                                                    *)
(***************************************************************************)
EXTENDS SessionTokens, SequenceTheorems, TLAPS

-----------------------------------------------------------------------------
(* The inductive invariant.                                                *)

(* What a request holds on to exists, and is of the kind the request is about. *)
Holds(r) ==
  /\ req[r].pc \in {"read", "find", "session", "moving"} => req[r].token \in DOMAIN tokens
  /\ req[r].pc \in {"cascade", "revoking", "closeall"} => req[r].token \in DOMAIN tokens \union {0}
  /\ req[r].pc = "read" => ~tokens[req[r].token].native
  /\ req[r].pc \in {"find", "session", "moving"} => tokens[req[r].token].native
  /\ req[r].pc \in {"session", "moving", "close", "closing"} => req[r].device \in DOMAIN devices
  /\ req[r].pc \in {"ending", "stamping"} => req[r].device <= Len(devices)
  /\ req[r].pc = "redeemed" => req[r].code \in Codes

HoldInv == \A r \in Requests : Holds(r)

(* The row locks exclude each other, and what was checked under one still holds. *)
LockInv ==
  /\ \A r, q \in Requests :
       req[r].pc = "moving" /\ req[q].pc = "moving" /\ req[r].token = req[q].token => r = q
  /\ \A r, q \in Requests :
       req[r].pc = "closing" /\ req[q].pc = "closing" /\ req[r].device = req[q].device => r = q
  /\ \A r \in Requests : req[r].pc = "moving" => Retirable(req[r].token)
  /\ \A r \in Requests : req[r].pc = "closing" => Open(req[r].device)
  /\ \A r, q \in Requests : req[r].pc = "closing" => ~Held(q, req[r].device)

(* While access is being removed, the sessions it holds stay on the tokens it knows. *)
HeldInv ==
  \A r \in Requests : \A d \in DOMAIN devices : Held(r, d) => devices[d].current <= req[r].known

(* Tokens of a family are of one kind, and families are named after existing tokens. *)
FamilyInv ==
  /\ FamilyIsChain
  /\ \A t \in DOMAIN tokens : tokens[t].family \in DOMAIN tokens
  /\ \A t, u \in DOMAIN tokens :
       tokens[t].family = tokens[u].family => (tokens[t].native <=> tokens[u].native)

(* Every session has a family of its own, of native tokens. *)
DeviceInv ==
  /\ DeviceSound
  /\ \A d \in DOMAIN devices : devices[d].root \in DOMAIN tokens /\ tokens[devices[d].current].native
  /\ \A d, e \in DOMAIN devices : devices[d].root = devices[e].root => d = e

(* A code the provider would accept is in the ledger as soon as a request or a session has
   it, and only one of them does. *)
CodeInv ==
  /\ CodeOnce
  /\ \A d \in DOMAIN devices : devices[d].code \in valid => devices[d].code \in ledger
  /\ \A r \in Requests : req[r].pc = "redeemed" /\ req[r].code \in valid =>
       /\ req[r].code \in ledger
       /\ \A d \in DOMAIN devices : devices[d].code # req[r].code
       /\ \A q \in Requests : req[q].pc = "redeemed" /\ req[q].code = req[r].code => q = r

Inv == TypeOK /\ HoldInv /\ LockInv /\ HeldInv /\ FamilyInv /\ DeviceInv /\ CodeInv

-----------------------------------------------------------------------------
(* The four things a step does to the tokens.                              *)

Issues == \E native \in BOOLEAN : tokens' = Append(tokens, New(Len(tokens) + 1, native))

Extends(t) == Retirable(t) /\ tokens' = Rotated(t)

Revokes ==
  /\ tokens' \in Seq(Token) /\ Len(tokens') = Len(tokens)
  /\ \A t \in DOMAIN tokens :
       /\ tokens'[t].family = tokens[t].family
       /\ tokens'[t].native = tokens[t].native
       /\ tokens'[t].next = tokens[t].next
       /\ tokens'[t].revoked = "no" => tokens[t].revoked = "no"

LEMMA IssuesShape ==
  ASSUME TypeOK, Issues
  PROVE  /\ tokens' \in Seq(Token) /\ Len(tokens') = Len(tokens) + 1
         /\ \A t \in DOMAIN tokens : tokens'[t] = tokens[t]
         /\ tokens'[Len(tokens) + 1].family = Len(tokens) + 1
         /\ tokens'[Len(tokens) + 1].next = 0
<1>1. PICK native \in BOOLEAN : tokens' = Append(tokens, New(Len(tokens) + 1, native))
  BY DEF Issues
<1>2. tokens \in Seq(Token) /\ Len(tokens) \in Nat
  BY DEF TypeOK
<1>3. New(Len(tokens) + 1, native) \in Token
  BY <1>2 DEF New, Token
<1>4. /\ New(Len(tokens) + 1, native).family = Len(tokens) + 1
      /\ New(Len(tokens) + 1, native).next = 0
  BY DEF New
<1> QED  BY <1>1, <1>2, <1>3, <1>4, AppendProperties

LEMMA ExtendsShape ==
  ASSUME TypeOK, NEW t \in DOMAIN tokens, Extends(t)
  PROVE  /\ tokens' \in Seq(Token) /\ Len(tokens') = Len(tokens) + 1
         /\ \A u \in DOMAIN tokens \ {t} : tokens'[u] = tokens[u]
         /\ tokens'[t].family = tokens[t].family /\ tokens'[t].native = tokens[t].native
         /\ tokens'[t].next = Len(tokens) + 1 /\ tokens'[t].revoked = "fresh"
         /\ tokens'[Len(tokens) + 1] = New(tokens[t].family, tokens[t].native)
<1> DEFINE old == [tokens[t] EXCEPT !.revoked = "fresh", !.next = Len(tokens) + 1]
<1>1. tokens \in Seq(Token) /\ Len(tokens) \in Nat /\ t \in 1 .. Len(tokens) /\ tokens[t] \in Token
  BY DEF TypeOK
<1>2. /\ old \in Token /\ old.family = tokens[t].family /\ old.native = tokens[t].native
      /\ old.next = Len(tokens) + 1 /\ old.revoked = "fresh"
  <2> DEFINE half == [tokens[t] EXCEPT !.revoked = "fresh"]
             n == Len(tokens) + 1
  <2>1. /\ half \in Token /\ half.family = tokens[t].family /\ half.native = tokens[t].native
        /\ half.revoked = "fresh"
    BY <1>1 DEF Token
  <2>2. old = [half EXCEPT !.next = n] /\ n \in Nat
    BY <1>1
  <2> HIDE DEF half, n
  <2> QED  BY <2>1, <2>2 DEF Token, n
<1>3. Retired(t) = [tokens EXCEPT ![t] = old]
  BY <1>1 DEF Retired
<1> HIDE DEF old
<1>4. /\ Retired(t) \in Seq(Token) /\ Len(Retired(t)) = Len(tokens)
      /\ \A u \in 1 .. Len(tokens) : Retired(t)[u] = IF u = t THEN old ELSE tokens[u]
  BY <1>1, <1>2, <1>3, ExceptSeq
<1>5. New(tokens[t].family, tokens[t].native) \in Token
  BY <1>1 DEF New, Token
<1>6. tokens' = Append(Retired(t), New(tokens[t].family, tokens[t].native))
  BY DEF Extends, Rotated
<1> HIDE DEF Retired, New
<1>7. /\ tokens' \in Seq(Token) /\ Len(tokens') = Len(tokens) + 1
      /\ \A u \in 1 .. Len(tokens) : tokens'[u] = Retired(t)[u]
      /\ tokens'[Len(tokens) + 1] = New(tokens[t].family, tokens[t].native)
  BY <1>1, <1>4, <1>5, <1>6, AppendProperties
<1> QED  BY <1>1, <1>2, <1>4, <1>7

(* One revocation, whether or not the token still worked. *)
LEMMA StampRevokes ==
  ASSUME TypeOK, NEW t \in DOMAIN tokens, NEW r \in {"fresh", "old"},
         tokens' = [tokens EXCEPT ![t].revoked = r]
  PROVE  Revokes /\ \A u \in DOMAIN tokens \ {t} : tokens'[u] = tokens[u]
<1> DEFINE row == [tokens[t] EXCEPT !.revoked = r]
<1>1. tokens \in Seq(Token) /\ t \in 1 .. Len(tokens) /\ tokens[t] \in Token
  BY DEF TypeOK
<1>2. /\ row \in Token /\ row.family = tokens[t].family /\ row.native = tokens[t].native
      /\ row.next = tokens[t].next /\ row.revoked = r
  BY <1>1 DEF Token
<1>3. tokens' = [tokens EXCEPT ![t] = row]
  BY <1>1
<1> HIDE DEF row
<1>4. /\ tokens' \in Seq(Token) /\ Len(tokens') = Len(tokens)
      /\ \A u \in 1 .. Len(tokens) : tokens'[u] = IF u = t THEN row ELSE tokens[u]
  BY <1>1, <1>2, <1>3, ExceptSeq
<1> QED  BY <1>1, <1>2, <1>4 DEF Revokes

LEMMA CascadeRevokes ==
  ASSUME TypeOK, NEW r \in Requests, RevokeKnown(r)
  PROVE  /\ Revokes
         /\ \A t \in DOMAIN tokens : t \notin 1 .. req[r].known => tokens'[t] = tokens[t]
         /\ \A t \in DOMAIN tokens : t <= req[r].known => tokens'[t].revoked # "no"
<1>1. tokens \in Seq(Token) /\ Len(tokens) \in Nat /\ \A t \in 1 .. Len(tokens) : tokens[t] \in Token
  BY DEF TypeOK
<1>2. \A t \in 1 .. Len(tokens) :
        LET row == [tokens[t] EXCEPT !.revoked = "fresh"] IN
        /\ row \in Token /\ row.family = tokens[t].family /\ row.native = tokens[t].native
        /\ row.next = tokens[t].next /\ row.revoked = "fresh"
  BY <1>1 DEF Token
<1>3. tokens' = [t \in 1 .. Len(tokens) |->
        IF t <= req[r].known /\ Live(t) THEN [tokens[t] EXCEPT !.revoked = "fresh"] ELSE tokens[t]]
  BY <1>1 DEF RevokeKnown
<1>4. tokens' \in [1 .. Len(tokens) -> Token]
  BY <1>1, <1>2, <1>3
<1>5. tokens' \in Seq(Token) /\ Len(tokens') = Len(tokens)
  BY <1>1, <1>4
<1>6. req[r].known \in Nat
  BY DEF TypeOK, Request
<1> QED  BY <1>1, <1>2, <1>3, <1>5, <1>6 DEF Revokes, Live

LEMMA KeepRevokes ==
  ASSUME TypeOK, tokens' = tokens
  PROVE  Revokes
  BY DEF TypeOK, Revokes

-----------------------------------------------------------------------------
(* What a step does to tokens and sessions together.                       *)

Opens(t, c) ==
  /\ t = Len(tokens) + 1
  /\ tokens' = Append(tokens, New(t, TRUE))
  /\ devices' = Append(devices, [root |-> t, current |-> t, closed |-> "no", code |-> c])

Moved(d) ==
  /\ Open(d) /\ ~DeviceLocked(d)
  /\ Extends(devices[d].current)
  /\ devices' = [devices EXCEPT ![d].current = Len(tokens) + 1]

(* Sessions are closed or swept.  Of those closed by themselves no token works afterwards. *)
Ends(D, why) ==
  /\ D \subseteq DOMAIN devices
  /\ why # "swept" => \A d \in D : Open(d)
  /\ Revokes
  /\ why \in {"reuse", "swept"} => tokens' = tokens
  /\ why \in {"session", "access"} => \A d \in D : \A t \in DOMAIN tokens :
       tokens[t].family = devices[d].root => tokens'[t].revoked # "no"
  /\ devices' = [d \in DOMAIN devices |->
       IF d \in D THEN [devices[d] EXCEPT !.closed = why] ELSE devices[d]]

Reasons == {"session", "access", "reuse", "swept"}

Kinds ==
  \/ UNCHANGED <<tokens, devices>>
  \/ Issues /\ devices' = devices
  \/ \E c \in Codes : Opens(Len(tokens) + 1, c)
  \/ \E t \in DOMAIN tokens : ~tokens[t].native /\ Extends(t) /\ devices' = devices
  \/ \E d \in DOMAIN devices : Moved(d)
  \/ Revokes /\ devices' = devices
  \/ \E D \in SUBSET DOMAIN devices, why \in Reasons : Ends(D, why)

(* Only the token a session points at can work. *)
LEMMA HeadOnly ==
  ASSUME Inv, NEW d \in DOMAIN devices, NEW t \in DOMAIN tokens, tokens[t].family = devices[d].root
  PROVE  t = devices[d].current \/ tokens[t].revoked # "no"
<1>1. FamilyIsChain /\ DeviceSound /\ devices[d].current \in DOMAIN tokens
  BY DEF Inv, FamilyInv, DeviceInv, TypeOK
<1>2. t = devices[d].current \/ tokens[t].next # 0
  BY <1>1 DEF FamilyIsChain, DeviceSound
<1> QED  BY <1>1, <1>2 DEF FamilyIsChain, Live

LEMMA KindsHold ==
  ASSUME Inv, [Next]_vars
  PROVE  Kinds
<1>a. TypeOK /\ HoldInv /\ LockInv
  BY DEF Inv
<1>1. CASE SignIn
  BY <1>1 DEF SignIn, Issues, Kinds
<1>2. CASE \E t \in DOMAIN tokens : Logout(t)
  BY <1>2, <1>a, StampRevokes DEF Logout, Stamped, Kinds
<1>3. CASE TimeStep
  <2>1. CASE \E t \in DOMAIN tokens : GracePasses(t)
    BY <2>1, <1>a, StampRevokes DEF GracePasses, Kinds
  <2>2. CASE \E c \in Codes : CodeExpires(c) \/ PruneLedger(c)
    BY <2>2 DEF CodeExpires, PruneLedger, Kinds
  <2>3. ASSUME NEW d \in DOMAIN devices, Sweep(d)
        PROVE  Kinds
    <3>1. Revokes /\ tokens' = tokens
      BY <2>3, <1>a, KeepRevokes DEF Sweep
    <3>2. devices' = [e \in DOMAIN devices |->
            IF e \in {d} THEN [devices[e] EXCEPT !.closed = "swept"] ELSE devices[e]]
      BY <2>3 DEF Sweep
    <3>3. Ends({d}, "swept")
      BY <3>1, <3>2 DEF Ends
    <3> QED  BY <3>3 DEF Kinds, Reasons
  <2> QED  BY <1>3, <2>1, <2>2, <2>3 DEF TimeStep
<1>4. ASSUME NEW r \in Requests, RequestStep(r)
      PROVE  Kinds
  <2>1. CASE CreateSession(r)
    <3>1. req[r].code \in Codes
      BY <1>a, <2>1 DEF CreateSession, HoldInv, Holds
    <3>2. Opens(Len(tokens) + 1, req[r].code)
      BY <2>1 DEF CreateSession, Opens
    <3> QED  BY <3>1, <3>2 DEF Kinds
  <2>2. CASE Rotate(r)
    <3>1. req[r].token \in DOMAIN tokens /\ ~tokens[req[r].token].native
      BY <1>a, <2>2 DEF Rotate, HoldInv, Holds
    <3>2. \/ UNCHANGED <<tokens, devices>>
          \/ Extends(req[r].token) /\ devices' = devices
      BY <2>2 DEF Rotate, Extends
    <3> QED  BY <3>1, <3>2 DEF Kinds
  <2>3. CASE Deny(r)
    <3>1. req[r].token \in DOMAIN tokens
      BY <1>a, <2>3 DEF Deny, HoldInv, Holds
    <3> QED  BY <1>a, <2>3, <3>1, StampRevokes DEF Deny, Stamped, Kinds
  <2>4. CASE MoveSession(r)
    <3>1. req[r].device \in DOMAIN devices /\ Retirable(req[r].token)
      BY <1>a, <2>4 DEF MoveSession, HoldInv, Holds, LockInv
    <3>2. UNCHANGED <<tokens, devices>> \/ Moved(req[r].device)
      BY <2>4, <3>1 DEF MoveSession, Moves, Moved, Extends
    <3> QED  BY <3>1, <3>2 DEF Kinds
  <2>5. CASE RevokeCurrent(r)
    <3> DEFINE d == req[r].device
               t == devices[d].current
    <3>1. d \in DOMAIN devices /\ Open(d)
      BY <1>a, <2>5 DEF RevokeCurrent, HoldInv, Holds, LockInv
    <3>2. t \in DOMAIN tokens
      BY <1>a, <3>1 DEF TypeOK
    <3>3. tokens' = (IF Live(t) THEN Stamped(t) ELSE tokens) /\ devices' = [devices EXCEPT ![d].closed = "session"]
      BY <2>5 DEF RevokeCurrent, CurrentToken
    <3> HIDE DEF d, t
    <3>4. Revokes /\ tokens'[t].revoked # "no"
      <4>1. CASE Live(t)
        <5>1. tokens' = [tokens EXCEPT ![t].revoked = "fresh"]
          BY <3>3, <4>1 DEF Stamped
        <5>2. tokens[t] \in Token /\ tokens \in Seq(Token)
          BY <1>a, <3>2 DEF TypeOK
        <5>3. tokens'[t].revoked = "fresh"
          BY <3>2, <5>1, <5>2 DEF Token
        <5> QED  BY <1>a, <3>2, <5>1, <5>3, StampRevokes
      <4>2. CASE ~Live(t)
        BY <1>a, <3>3, <4>2, KeepRevokes DEF Live
      <4> QED  BY <4>1, <4>2
    <3>5. \A u \in DOMAIN tokens : tokens[u].family = devices[d].root => tokens'[u].revoked # "no"
      BY <3>1, <3>4, HeadOnly DEF Revokes, t
    <3>6. devices' = [e \in DOMAIN devices |->
            IF e \in {d} THEN [devices[e] EXCEPT !.closed = "session"] ELSE devices[e]]
      BY <3>3
    <3>7. Ends({d}, "session")
      BY <3>1, <3>4, <3>5, <3>6 DEF Ends
    <3> QED  BY <3>1, <3>7 DEF Kinds, Reasons
  <2>6. CASE CascadeEnds(r)
    BY <1>a, <2>6, CascadeRevokes DEF CascadeEnds, Kinds
  <2>7. CASE CloseAll(r)
    <3> DEFINE D == {d \in DOMAIN devices : Open(d)}
    <3>1. Revokes /\ tokens' = tokens
      BY <2>7, <1>a, KeepRevokes DEF CloseAll
    <3>2. devices' = [d \in DOMAIN devices |->
            IF d \in D THEN [devices[d] EXCEPT !.closed = "reuse"] ELSE devices[d]]
      BY <2>7 DEF CloseAll
    <3>3. Ends(D, "reuse")
      BY <3>1, <3>2 DEF Ends
    <3> QED  BY <3>3 DEF Kinds, Reasons
  <2>9. CASE AccessEnds(r)
    <3> DEFINE D == {d \in DOMAIN devices : Held(r, d)}
    <3>1. /\ Revokes
          /\ \A t \in DOMAIN tokens : t <= req[r].known => tokens'[t].revoked # "no"
      BY <2>9, <1>a, CascadeRevokes DEF AccessEnds
    <3>2. devices' = [d \in DOMAIN devices |->
            IF d \in D THEN [devices[d] EXCEPT !.closed = "access"] ELSE devices[d]]
      BY <2>9 DEF AccessEnds
    <3>3. ASSUME NEW d \in D, NEW t \in DOMAIN tokens, tokens[t].family = devices[d].root
          PROVE  tokens'[t].revoked # "no"
      <4>1. t = devices[d].current \/ tokens[t].revoked # "no"
        BY <3>3, HeadOnly
      <4>2. devices[d].current <= req[r].known
        BY DEF Inv, HeldInv
      <4> QED  BY <3>1, <4>1, <4>2 DEF Revokes
    <3>4. \A d \in D : Open(d)
      BY DEF Held
    <3>5. Ends(D, "access")
      BY <3>1, <3>2, <3>3, <3>4 DEF Ends
    <3> QED  BY <3>5 DEF Kinds, Reasons
  <2>8. CASE \/ GiveUp(r) \/ RetireOld(r) \/ DenyNative(r) \/ CloseSession(r)
             \/ Erase(r) \/ CascadeStarts(r) \/ CascadeFails(r) \/ RemoveAccess(r) \/ AccessCloses(r)
             \/ \E c \in Codes : RedeemCode(r, c)
             \/ \E t \in DOMAIN tokens : Read(r, t)
             \/ \E d \in DOMAIN devices : FindActive(r, d) \/ LogoutNative(r, d) \/ RevokeDevice(r, d)
    BY <2>8 DEF GiveUp, RetireOld, DenyNative, CloseSession, Erase, CascadeStarts, CascadeFails, RedeemCode,
                Read, FindActive, LogoutNative, RevokeDevice, RemoveAccess, AccessCloses, Kinds
  <2> QED  BY <1>4, <2>1, <2>2, <2>3, <2>4, <2>5, <2>6, <2>7, <2>8, <2>9 DEF RequestStep, RefreshStep, EndStep
<1>5. CASE UNCHANGED vars
  BY <1>5 DEF vars, Kinds
<1> QED  BY <1>1, <1>2, <1>3, <1>4, <1>5 DEF Next

-----------------------------------------------------------------------------
(* Tokens and sessions only ever grow, and keep their bindings.            *)

Grown ==
  /\ tokens' \in Seq(Token) /\ Len(tokens) <= Len(tokens')
  /\ DOMAIN tokens \subseteq DOMAIN tokens'
  /\ \A t \in DOMAIN tokens :
       tokens'[t].family = tokens[t].family /\ tokens'[t].native = tokens[t].native
  /\ devices' \in Seq(Device) /\ Len(devices) <= Len(devices')
  /\ DOMAIN devices \subseteq DOMAIN devices'
  /\ \A d \in DOMAIN devices :
       devices'[d].root = devices[d].root /\ devices'[d].code = devices[d].code

(* What each kind of change makes of the sessions. *)
LEMMA OpensShape ==
  ASSUME TypeOK, NEW c \in Codes, Opens(Len(tokens) + 1, c)
  PROVE  /\ Issues
         /\ devices' \in Seq(Device) /\ Len(devices') = Len(devices) + 1
         /\ \A d \in DOMAIN devices : devices'[d] = devices[d]
         /\ devices'[Len(devices) + 1] =
              [root |-> Len(tokens) + 1, current |-> Len(tokens) + 1, closed |-> "no", code |-> c]
         /\ tokens'[Len(tokens) + 1] = New(Len(tokens) + 1, TRUE)
<1> DEFINE new == [root |-> Len(tokens) + 1, current |-> Len(tokens) + 1, closed |-> "no", code |-> c]
           tok == New(Len(tokens) + 1, TRUE)
<1>1. tokens \in Seq(Token) /\ devices \in Seq(Device) /\ Len(tokens) \in Nat
  BY DEF TypeOK
<1>2. new \in Device /\ tok \in Token
  BY <1>1 DEF Device, Token, New
<1>3. devices' = Append(devices, new) /\ tokens' = Append(tokens, tok)
  BY DEF Opens
<1>4. Issues
  BY <1>3 DEF Issues
<1> HIDE DEF new, tok
<1>5. /\ devices' \in Seq(Device) /\ Len(devices') = Len(devices) + 1
      /\ \A d \in 1 .. Len(devices) : devices'[d] = devices[d]
      /\ devices'[Len(devices) + 1] = new
      /\ tokens'[Len(tokens) + 1] = tok
  BY <1>1, <1>2, <1>3, AppendProperties
<1> QED  BY <1>1, <1>4, <1>5 DEF new, tok

LEMMA MovedShape ==
  ASSUME TypeOK, NEW d \in DOMAIN devices, Moved(d)
  PROVE  /\ devices' \in Seq(Device) /\ Len(devices') = Len(devices)
         /\ \A e \in DOMAIN devices \ {d} : devices'[e] = devices[e]
         /\ devices'[d].root = devices[d].root /\ devices'[d].code = devices[d].code
         /\ devices'[d].current = Len(tokens) + 1 /\ devices'[d].closed = "no"
<1> DEFINE row == [devices[d] EXCEPT !.current = Len(tokens) + 1]
<1>1. /\ devices \in Seq(Device) /\ d \in 1 .. Len(devices) /\ devices[d] \in Device
      /\ tokens \in Seq(Token)
  BY DEF TypeOK
<1>2. Len(tokens) + 1 \in Nat /\ devices[d].closed = "no"
  BY <1>1 DEF Moved, Open
<1>3. /\ row \in Device /\ row.root = devices[d].root /\ row.code = devices[d].code
      /\ row.current = Len(tokens) + 1 /\ row.closed = "no"
  BY <1>1, <1>2 DEF Device
<1>4. devices' = [devices EXCEPT ![d] = row]
  BY <1>1 DEF Moved
<1> HIDE DEF row
<1>5. /\ devices' \in Seq(Device) /\ Len(devices') = Len(devices)
      /\ \A e \in 1 .. Len(devices) : devices'[e] = IF e = d THEN row ELSE devices[e]
  BY <1>1, <1>3, <1>4, ExceptSeq
<1> QED  BY <1>1, <1>3, <1>5

LEMMA EndsShape ==
  ASSUME TypeOK, NEW D \in SUBSET DOMAIN devices, NEW why \in Reasons, Ends(D, why)
  PROVE  /\ devices' \in Seq(Device) /\ Len(devices') = Len(devices)
         /\ DOMAIN devices' = DOMAIN devices
         /\ \A d \in DOMAIN devices :
              /\ devices'[d].root = devices[d].root /\ devices'[d].code = devices[d].code
              /\ devices'[d].current = devices[d].current
              /\ devices'[d].closed = IF d \in D THEN why ELSE devices[d].closed
              /\ d \notin D => devices'[d] = devices[d]
              /\ d \in D => devices'[d] = [devices[d] EXCEPT !.closed = why]
<1>1. devices \in Seq(Device) /\ Len(devices) \in Nat /\ \A d \in 1 .. Len(devices) : devices[d] \in Device
  BY DEF TypeOK
<1>2. \A d \in 1 .. Len(devices) :
        LET row == [devices[d] EXCEPT !.closed = why] IN
        /\ row \in Device /\ row.root = devices[d].root /\ row.code = devices[d].code
        /\ row.current = devices[d].current /\ row.closed = why
  BY <1>1 DEF Device, Reasons
<1>3. devices' = [d \in 1 .. Len(devices) |->
        IF d \in D THEN [devices[d] EXCEPT !.closed = why] ELSE devices[d]]
  BY <1>1 DEF Ends
<1>4. devices' \in [1 .. Len(devices) -> Device]
  BY <1>1, <1>2, <1>3
<1>5. devices' \in Seq(Device) /\ Len(devices') = Len(devices)
  BY <1>1, <1>4
<1> QED  BY <1>1, <1>2, <1>3, <1>5

LEMMA GrownHolds ==
  ASSUME Inv, Kinds
  PROVE  Grown
<1>a. TypeOK /\ tokens \in Seq(Token) /\ devices \in Seq(Device) /\ \A d \in DOMAIN devices : devices[d].current \in DOMAIN tokens
  BY DEF Inv, TypeOK
<1>1. CASE UNCHANGED <<tokens, devices>>
  BY <1>1, <1>a DEF Grown
<1>2. CASE Issues /\ devices' = devices
  BY <1>2, <1>a, IssuesShape DEF Grown
<1>3. ASSUME NEW c \in Codes, Opens(Len(tokens) + 1, c)
      PROVE  Grown
  <2>1. /\ tokens' \in Seq(Token) /\ Len(tokens') = Len(tokens) + 1
        /\ \A t \in DOMAIN tokens : tokens'[t] = tokens[t]
    BY <1>3, <1>a, OpensShape, IssuesShape
  <2>2. /\ devices' \in Seq(Device) /\ Len(devices') = Len(devices) + 1
        /\ \A d \in DOMAIN devices : devices'[d] = devices[d]
    BY <1>3, <1>a, OpensShape
  <2> QED  BY <1>a, <2>1, <2>2 DEF Grown
<1>4. CASE \E t \in DOMAIN tokens : ~tokens[t].native /\ Extends(t) /\ devices' = devices
  BY <1>4, <1>a, ExtendsShape DEF Grown
<1>5. ASSUME NEW d \in DOMAIN devices, Moved(d)
      PROVE  Grown
  <2>1. /\ tokens' \in Seq(Token) /\ Len(tokens') = Len(tokens) + 1
        /\ \A t \in DOMAIN tokens :
             tokens'[t].family = tokens[t].family /\ tokens'[t].native = tokens[t].native
    BY <1>5, <1>a, ExtendsShape DEF Moved
  <2>2. /\ devices' \in Seq(Device) /\ Len(devices') = Len(devices)
        /\ \A e \in DOMAIN devices : devices'[e].root = devices[e].root /\ devices'[e].code = devices[e].code
    BY <1>5, <1>a, MovedShape
  <2> QED  BY <1>a, <2>1, <2>2 DEF Grown
<1>6. CASE Revokes /\ devices' = devices
  BY <1>6, <1>a DEF Revokes, Grown
<1>7. ASSUME NEW D \in SUBSET DOMAIN devices, NEW why \in Reasons, Ends(D, why)
      PROVE  Grown
  <2>1. /\ devices' \in Seq(Device) /\ DOMAIN devices' = DOMAIN devices /\ Len(devices') = Len(devices)
        /\ \A e \in DOMAIN devices : devices'[e].root = devices[e].root /\ devices'[e].code = devices[e].code
    BY <1>7, <1>a, EndsShape
  <2> QED  BY <1>7, <1>a, <2>1 DEF Ends, Revokes, Grown
<1> QED  BY <1>1, <1>2, <1>3, <1>4, <1>5, <1>6, <1>7 DEF Kinds

(* No session is opened again, and one that is locked keeps its token. *)
LEMMA SessionsKept ==
  ASSUME Inv, Kinds, NEW d \in DOMAIN devices
  PROVE  /\ Open(d)' => Open(d)
         /\ DeviceLocked(d) => devices'[d].current = devices[d].current
<1>a. TypeOK
  BY DEF Inv
<1>1. CASE devices' = devices
  BY <1>1 DEF Open
<1>2. ASSUME NEW c \in Codes, Opens(Len(tokens) + 1, c)
      PROVE  devices'[d] = devices[d]
  BY <1>2, <1>a, OpensShape
<1>3. ASSUME NEW e \in DOMAIN devices, Moved(e)
      PROVE  /\ Open(d)' => Open(d)
             /\ DeviceLocked(d) => devices'[d].current = devices[d].current
  <2>1. CASE d = e
    BY <1>3, <2>1 DEF Moved
  <2>2. CASE d # e
    BY <1>3, <1>a, <2>2, MovedShape DEF Open
  <2> QED  BY <2>1, <2>2
<1>4. ASSUME NEW D \in SUBSET DOMAIN devices, NEW why \in Reasons, Ends(D, why)
      PROVE  devices'[d].current = devices[d].current /\ (Open(d)' => Open(d))
  BY <1>4, <1>a, EndsShape DEF Open, Reasons
<1> QED  BY <1>1, <1>2, <1>3, <1>4 DEF Kinds, Open

-----------------------------------------------------------------------------
(* Families stay chains.                                                   *)
LEMMA FamilyStep ==
  ASSUME Inv, Kinds
  PROVE  /\ FamilyInv'
         /\ \A t \in DOMAIN tokens' : tokens'[t].next \in 0 .. Len(tokens')
<1>a. /\ TypeOK /\ FamilyInv /\ tokens \in Seq(Token) /\ Len(tokens) \in Nat
      /\ DOMAIN tokens = 1 .. Len(tokens)
      /\ \A t \in DOMAIN tokens : tokens[t].next \in 0 .. Len(tokens)
  BY DEF Inv, TypeOK
<1>1. CASE tokens' = tokens
  BY <1>1, <1>a DEF FamilyInv, FamilyIsChain, Live
<1>2. CASE Issues
  <2> DEFINE n == Len(tokens) + 1
  <2>1. /\ tokens' \in Seq(Token) /\ Len(tokens') = n
        /\ \A t \in DOMAIN tokens : tokens'[t] = tokens[t]
        /\ tokens'[n].family = n /\ tokens'[n].next = 0
    BY <1>a, <1>2, IssuesShape
  <2>2. DOMAIN tokens' = DOMAIN tokens \union {n} /\ n \notin DOMAIN tokens
    BY <1>a, <2>1
  <2>3. \A t \in DOMAIN tokens : tokens[t].family # n
    BY <1>a DEF FamilyInv
  <2>4. \A t \in DOMAIN tokens' : tokens'[t].next \in 0 .. Len(tokens')
    BY <1>a, <2>1, <2>2
  <2> HIDE DEF n
  <2>5. FamilyIsChain'
    BY <1>a, <2>1, <2>2, <2>3 DEF FamilyInv, FamilyIsChain, Live
  <2>6. FamilyInv'
    BY <1>a, <2>1, <2>2, <2>3, <2>5 DEF FamilyInv
  <2> QED  BY <2>4, <2>6
<1>3. ASSUME NEW t \in DOMAIN tokens, Extends(t)
      PROVE  /\ FamilyInv'
             /\ \A u \in DOMAIN tokens' : tokens'[u].next \in 0 .. Len(tokens')
  <2> DEFINE n == Len(tokens) + 1
  <2>1. /\ tokens' \in Seq(Token) /\ Len(tokens') = n
        /\ \A u \in DOMAIN tokens \ {t} : tokens'[u] = tokens[u]
        /\ tokens'[t].family = tokens[t].family /\ tokens'[t].native = tokens[t].native
        /\ tokens'[t].next = n /\ tokens'[t].revoked = "fresh"
        /\ tokens'[n] = New(tokens[t].family, tokens[t].native)
    BY <1>a, <1>3, ExtendsShape
  <2>2. DOMAIN tokens' = DOMAIN tokens \union {n} /\ n \notin DOMAIN tokens /\ n # 0
    BY <1>a, <2>1
  <2>3. /\ tokens'[n].family = tokens[t].family /\ tokens'[n].native = tokens[t].native
        /\ tokens'[n].next = 0
    BY <2>1 DEF New
  <2>4. tokens[t].next = 0
    BY <1>3 DEF Extends, Retirable
  <2>5. \A u \in DOMAIN tokens' : tokens'[u].next \in 0 .. Len(tokens')
    BY <1>a, <2>1, <2>2, <2>3
  <2> HIDE DEF n
  <2>6. FamilyIsChain'
    <3>1. ASSUME NEW u \in DOMAIN tokens', tokens'[u].next # 0
          PROVE  tokens'[u].revoked # "no"
      BY <1>a, <2>1, <2>2, <2>3, <3>1 DEF FamilyInv, FamilyIsChain, Live
    <3>2. ASSUME NEW u \in DOMAIN tokens', tokens'[u].family = tokens[t].family, tokens'[u].next = 0
          PROVE  u = n
      <4>1. u # t
        BY <2>1, <2>2, <3>2
      <4>2. CASE u \in DOMAIN tokens
        BY <1>a, <2>1, <2>4, <3>2, <4>1, <4>2 DEF FamilyInv, FamilyIsChain
      <4> QED  BY <2>2, <4>2
    <3>3. ASSUME NEW u \in DOMAIN tokens', NEW v \in DOMAIN tokens',
                 tokens'[u].family = tokens'[v].family, tokens'[u].next = 0, tokens'[v].next = 0
          PROVE  u = v
      <4>1. CASE tokens'[u].family = tokens[t].family
        BY <3>2, <3>3, <4>1
      <4>2. CASE tokens'[u].family # tokens[t].family
        <5>1. {u, v} \subseteq DOMAIN tokens \ {t}
          BY <2>1, <2>2, <2>3, <3>3, <4>2
        <5> QED  BY <1>a, <2>1, <3>3, <5>1 DEF FamilyInv, FamilyIsChain
      <4> QED  BY <4>1, <4>2
    <3> QED  BY <3>1, <3>3 DEF FamilyIsChain, Live
  <2>7. FamilyInv'
    BY <1>a, <2>1, <2>2, <2>3, <2>6 DEF FamilyInv
  <2> QED  BY <2>5, <2>7
<1>4. CASE Revokes
  <2>1. DOMAIN tokens' = DOMAIN tokens /\ Len(tokens') = Len(tokens)
    BY <1>a, <1>4 DEF Revokes
  <2>2. FamilyIsChain'
    BY <1>a, <1>4, <2>1 DEF FamilyInv, FamilyIsChain, Live, Revokes
  <2> QED  BY <1>a, <1>4, <2>1, <2>2 DEF FamilyInv, Revokes
<1>5. Kinds => \/ tokens' = tokens \/ Issues \/ Revokes \/ \E t \in DOMAIN tokens : Extends(t)
  BY <1>a, OpensShape DEF Kinds, Moved, Ends, TypeOK
<1> QED  BY <1>1, <1>2, <1>3, <1>4, <1>5

-----------------------------------------------------------------------------
(* Sessions stay at the head of their family.                              *)
LEMMA DeviceStep ==
  ASSUME Inv, Kinds
  PROVE  /\ DeviceInv'
         /\ \A d \in DOMAIN devices' : devices'[d].current \in DOMAIN tokens'
<1>a. /\ TypeOK /\ FamilyInv /\ DeviceInv /\ Grown
      /\ \A d \in DOMAIN devices : devices[d].current \in DOMAIN tokens
      /\ DOMAIN devices = 1 .. Len(devices) /\ DOMAIN tokens = 1 .. Len(tokens)
      /\ Len(tokens) \in Nat /\ Len(devices) \in Nat
  BY GrownHolds DEF Inv, TypeOK
<1>b. DOMAIN tokens' = 1 .. Len(tokens') /\ DOMAIN devices' = 1 .. Len(devices')
  BY <1>a DEF Grown
<1>1. CASE UNCHANGED <<tokens, devices>>
  BY <1>1, <1>a DEF DeviceInv, DeviceSound, Live
<1>2. CASE Issues /\ devices' = devices
  <2> DEFINE n == Len(tokens) + 1
  <2>1. /\ \A t \in DOMAIN tokens : tokens'[t] = tokens[t]
        /\ tokens'[n].family = n /\ Len(tokens') = n
    BY <1>a, <1>2, IssuesShape
  <2>2. DOMAIN tokens' = DOMAIN tokens \union {n} /\ n \notin DOMAIN tokens
    BY <1>a, <1>b, <2>1
  <2> HIDE DEF n
  <2>3. DeviceSound'
    BY <1>2, <1>a, <2>1, <2>2 DEF DeviceInv, DeviceSound, Live
  <2> QED  BY <1>2, <1>a, <2>1, <2>2, <2>3 DEF DeviceInv
<1>3. ASSUME NEW c \in Codes, Opens(Len(tokens) + 1, c)
      PROVE  /\ DeviceInv'
             /\ \A d \in DOMAIN devices' : devices'[d].current \in DOMAIN tokens'
  <2> DEFINE n == Len(tokens) + 1
             e == Len(devices) + 1
  <2>1. /\ \A t \in DOMAIN tokens : tokens'[t] = tokens[t]
        /\ tokens'[n] = New(n, TRUE) /\ Len(tokens') = n
        /\ \A d \in DOMAIN devices : devices'[d] = devices[d]
        /\ devices'[e] = [root |-> n, current |-> n, closed |-> "no", code |-> c]
        /\ Len(devices') = e
    BY <1>3, <1>a, OpensShape, IssuesShape
  <2>2. /\ DOMAIN tokens' = DOMAIN tokens \union {n} /\ n \notin DOMAIN tokens
        /\ DOMAIN devices' = DOMAIN devices \union {e} /\ e \notin DOMAIN devices
    BY <1>a, <1>b, <2>1
  <2>3. /\ tokens'[n].family = n /\ tokens'[n].next = 0 /\ tokens'[n].native
        /\ devices'[e].root = n /\ devices'[e].current = n /\ devices'[e].closed = "no"
    BY <2>1 DEF New
  <2>4. /\ \A t \in DOMAIN tokens : tokens'[t] = tokens[t]
        /\ \A d \in DOMAIN devices : devices'[d] = devices[d]
    BY <2>1
  <2> HIDE DEF n, e
  <2>5. ASSUME NEW d \in DOMAIN devices
        PROVE  /\ devices'[d].current \in DOMAIN tokens /\ devices'[d].root \in DOMAIN tokens
               /\ tokens'[devices'[d].current].next = 0
               /\ tokens'[devices'[d].current].family = devices'[d].root
               /\ tokens'[devices'[d].current].native
    BY <1>a, <2>4 DEF DeviceInv, DeviceSound
  <2>6. ASSUME NEW d \in DOMAIN devices', devices'[d].closed \in {"session", "access"},
               NEW t \in DOMAIN tokens', tokens'[t].family = devices'[d].root
        PROVE  tokens'[t].revoked # "no"
    <3>1. d \in DOMAIN devices
      BY <2>2, <2>3, <2>6
    <3>2. t \in DOMAIN tokens
      BY <2>2, <2>3, <2>5, <2>6, <3>1
    <3> QED  BY <1>a, <2>4, <2>6, <3>1, <3>2 DEF DeviceInv, DeviceSound, Live
  <2>7. DeviceSound'
    BY <2>2, <2>3, <2>5, <2>6 DEF DeviceSound, Live
  <2>8. \A d, f \in DOMAIN devices' : devices'[d].root = devices'[f].root => d = f
    BY <1>a, <2>2, <2>3, <2>4, <2>5 DEF DeviceInv
  <2> QED  BY <2>2, <2>3, <2>5, <2>7, <2>8 DEF DeviceInv
<1>4. ASSUME NEW t \in DOMAIN tokens, ~tokens[t].native, Extends(t), devices' = devices
      PROVE  /\ DeviceInv'
             /\ \A d \in DOMAIN devices' : devices'[d].current \in DOMAIN tokens'
  <2> DEFINE n == Len(tokens) + 1
  <2>1. /\ Len(tokens') = n
        /\ \A u \in DOMAIN tokens \ {t} : tokens'[u] = tokens[u]
        /\ tokens'[n] = New(tokens[t].family, tokens[t].native)
        /\ tokens'[t].family = tokens[t].family /\ tokens'[t].native = tokens[t].native
    BY <1>4, <1>a, ExtendsShape
  <2>2. DOMAIN tokens' = DOMAIN tokens \union {n} /\ n \notin DOMAIN tokens
    BY <1>a, <1>b, <2>1
  <2>3. tokens'[n].family = tokens[t].family
    BY <2>1 DEF New
  <2> HIDE DEF n
  <2>4. \A d \in DOMAIN devices : devices[d].current # t /\ devices[d].root # tokens[t].family
    BY <1>4, <1>a DEF DeviceInv, DeviceSound, FamilyInv
  <2>a. ASSUME NEW d \in DOMAIN devices, devices[d].closed \in {"session", "access"},
               NEW u \in DOMAIN tokens', tokens'[u].family = devices[d].root
        PROVE  tokens'[u].revoked # "no"
    <3>1. u \in DOMAIN tokens \ {t} /\ tokens'[u] = tokens[u]
      BY <2>1, <2>2, <2>3, <2>4, <2>a
    <3> QED  BY <1>a, <2>a, <3>1 DEF DeviceInv, DeviceSound, Live
  <2>b. ASSUME NEW d \in DOMAIN devices
        PROVE  /\ tokens'[devices[d].current].next = 0
               /\ tokens'[devices[d].current].family = devices[d].root
    BY <1>a, <2>1, <2>4 DEF DeviceInv, DeviceSound
  <2>5. DeviceSound'
    BY <1>4, <2>a, <2>b DEF DeviceSound, Live
  <2> QED  BY <1>4, <1>a, <2>1, <2>2, <2>4, <2>5 DEF DeviceInv
<1>5. ASSUME NEW d \in DOMAIN devices, Moved(d)
      PROVE  /\ DeviceInv'
             /\ \A e \in DOMAIN devices' : devices'[e].current \in DOMAIN tokens'
  <2> DEFINE n == Len(tokens) + 1
             t == devices[d].current
  <2>1. /\ Len(tokens') = n /\ Len(devices') = Len(devices)
        /\ \A u \in DOMAIN tokens \ {t} : tokens'[u] = tokens[u]
        /\ tokens'[n] = New(tokens[t].family, tokens[t].native)
        /\ tokens'[t].family = tokens[t].family /\ tokens'[t].native = tokens[t].native
        /\ \A e \in DOMAIN devices \ {d} : devices'[e] = devices[e]
        /\ devices'[d].root = devices[d].root /\ devices'[d].current = n
        /\ devices'[d].closed = "no"
    BY <1>5, <1>a, ExtendsShape, MovedShape DEF Moved
  <2>2. /\ DOMAIN tokens' = DOMAIN tokens \union {n} /\ n \notin DOMAIN tokens /\ t \in DOMAIN tokens
        /\ DOMAIN devices' = DOMAIN devices
    BY <1>a, <1>b, <2>1
  <2>3. /\ tokens'[n].family = tokens[t].family /\ tokens'[n].native = tokens[t].native
        /\ tokens'[n].next = 0
    BY <2>1 DEF New
  <2>4. tokens[t].family = devices[d].root /\ tokens[t].native
    BY <1>a DEF DeviceInv, DeviceSound
  <2> HIDE DEF n, t
  <2>5. \A e \in DOMAIN devices \ {d} : devices[e].root # devices[d].root /\ devices[e].current # t
    BY <1>a, <2>4 DEF DeviceInv, DeviceSound
  <2>6. ASSUME NEW e \in DOMAIN devices
        PROVE  /\ devices'[e].current \in DOMAIN tokens' /\ devices'[e].root = devices[e].root
               /\ tokens'[devices'[e].current].next = 0
               /\ tokens'[devices'[e].current].family = devices'[e].root
               /\ tokens'[devices'[e].current].native
    <3>1. CASE e = d
      BY <2>1, <2>2, <2>3, <2>4, <3>1
    <3>2. CASE e # d
      <4>1. devices'[e] = devices[e] /\ devices[e].current \in DOMAIN tokens \ {t}
        BY <1>a, <2>1, <2>5, <3>2
      <4>2. tokens'[devices[e].current] = tokens[devices[e].current]
        BY <2>1, <4>1
      <4> QED  BY <1>a, <2>2, <4>1, <4>2 DEF DeviceInv, DeviceSound
    <3> QED  BY <3>1, <3>2
  <2>7. ASSUME NEW e \in DOMAIN devices, devices'[e].closed \in {"session", "access"},
               NEW u \in DOMAIN tokens', tokens'[u].family = devices'[e].root
        PROVE  tokens'[u].revoked # "no"
    <3>1. e # d /\ devices'[e] = devices[e]
      BY <2>1, <2>7
    <3>a. tokens'[u].family # devices[d].root
      BY <2>5, <2>7, <3>1
    <3>2. u \in DOMAIN tokens \ {t}
      BY <2>1, <2>2, <2>3, <2>4, <3>a
    <3>3. tokens'[u] = tokens[u]
      BY <2>1, <3>2
    <3> QED  BY <1>a, <2>7, <3>1, <3>2, <3>3 DEF DeviceInv, DeviceSound, Live
  <2>8. DeviceSound'
    BY <2>2, <2>6, <2>7 DEF DeviceSound, Live
  <2>9. \A e \in DOMAIN devices : devices'[e].root \in DOMAIN tokens'
    BY <1>a, <2>2, <2>6 DEF DeviceInv
  <2>10. \A e, f \in DOMAIN devices : devices'[e].root = devices'[f].root => e = f
    BY <1>a, <2>6 DEF DeviceInv
  <2> QED  BY <2>2, <2>6, <2>8, <2>9, <2>10 DEF DeviceInv
<1>6. CASE Revokes /\ devices' = devices
  <2>1. DOMAIN tokens' = DOMAIN tokens
    BY <1>6, <1>a, <1>b DEF Revokes
  <2> QED  BY <1>6, <1>a, <2>1 DEF DeviceInv, DeviceSound, Live, Revokes
<1>7. ASSUME NEW D \in SUBSET DOMAIN devices, NEW why \in Reasons, Ends(D, why)
      PROVE  /\ DeviceInv'
             /\ \A e \in DOMAIN devices' : devices'[e].current \in DOMAIN tokens'
  <2>1. /\ DOMAIN devices' = DOMAIN devices
        /\ \A e \in DOMAIN devices :
             /\ devices'[e].root = devices[e].root /\ devices'[e].current = devices[e].current
             /\ devices'[e].closed = IF e \in D THEN why ELSE devices[e].closed
    BY <1>7, <1>a, EndsShape
  <2>2. Revokes
    BY <1>7 DEF Ends
  <2>3. DOMAIN tokens' = DOMAIN tokens
    BY <1>a, <1>b, <2>2 DEF Revokes
  <2>4. ASSUME NEW e \in DOMAIN devices, devices'[e].closed \in {"session", "access"},
               NEW u \in DOMAIN tokens, tokens'[u].family = devices'[e].root
        PROVE  tokens'[u].revoked # "no"
    <3>1. tokens[u].family = devices[e].root
      BY <2>1, <2>2, <2>4 DEF Revokes
    <3>2. CASE e \in D
      BY <1>7, <2>1, <2>4, <3>1, <3>2 DEF Ends
    <3>3. CASE e \notin D
      BY <1>a, <2>1, <2>2, <2>4, <3>1, <3>3 DEF DeviceInv, DeviceSound, Revokes, Live
    <3> QED  BY <3>2, <3>3
  <2>5. ASSUME NEW e \in DOMAIN devices
        PROVE  /\ tokens'[devices'[e].current].next = 0 /\ tokens'[devices'[e].current].native
               /\ tokens'[devices'[e].current].family = devices'[e].root
    BY <1>a, <2>1, <2>2 DEF DeviceInv, DeviceSound, Revokes
  <2>6. DeviceSound'
    BY <2>1, <2>3, <2>4, <2>5 DEF DeviceSound, Live
  <2> QED  BY <1>a, <2>1, <2>3, <2>5, <2>6 DEF DeviceInv
<1> QED  BY <1>1, <1>2, <1>3, <1>4, <1>5, <1>6, <1>7 DEF Kinds

-----------------------------------------------------------------------------
(* What a step does to the requests.                                       *)
LEMMA GoShape ==
  ASSUME TypeOK, NEW r \in Requests, NEW pc \in Phases, Go(r, pc)
  PROVE  /\ req' \in [Requests -> Request]
         /\ \A q \in Requests \ {r} : req'[q] = req[q]
         /\ req'[r].pc = pc /\ req'[r].token = req[r].token
         /\ req'[r].device = req[r].device
<1>1. req \in [Requests -> Request] /\ req[r] \in Request
  BY DEF TypeOK
<1> QED  BY <1>1 DEF Go, Request

LEMMA EndShape ==
  ASSUME TypeOK, NEW r \in Requests, End(r)
  PROVE  /\ req' \in [Requests -> Request]
         /\ \A q \in Requests \ {r} : req'[q] = req[q]
         /\ req'[r].pc = "idle"
<1>1. req \in [Requests -> Request] /\ idle \in Request /\ idle.pc = "idle"
  BY DEF TypeOK, Request, idle, Phases
<1> QED  BY <1>1 DEF End

(* The request that steps: what it is doing next, and why it may. *)
Advances(r) ==
  \/ req'[r].pc = "idle"
  \/ /\ req'[r].pc = "redeemed" /\ req'[r].code \in Codes \ ledger
     /\ ledger' = ledger \union {req'[r].code} /\ valid' = valid /\ devices' = devices
  \/ /\ req'[r].pc \in {"read", "find", "cascade"} /\ req'[r].token \in DOMAIN tokens
     /\ req'[r].pc = "read" => ~tokens[req'[r].token].native
     /\ req'[r].pc = "find" => tokens[req'[r].token].native
  \/ /\ req'[r].pc = "session" /\ req[r].pc = "find" /\ req'[r].token = req[r].token
     /\ req'[r].device \in DOMAIN devices
  \/ /\ req'[r].pc = "moving" /\ req[r].pc = "session" /\ req'[r].token = req[r].token
     /\ req'[r].device = req[r].device /\ tokens' = tokens
     /\ ~TokenLocked(req[r].token) /\ Retirable(req[r].token)
  \/ req'[r].pc = "close" /\ req'[r].device \in DOMAIN devices
  \/ /\ req'[r].pc = "closing" /\ req[r].pc = "close" /\ req'[r].device = req[r].device
     /\ devices' = devices /\ ~DeviceLocked(req[r].device) /\ Open(req[r].device)
  \/ req'[r].pc = "cascade" /\ req'[r].token = 0
  \/ /\ req'[r].pc = "revoking" /\ req[r].pc = "cascade" /\ req'[r].token = req[r].token
     /\ req'[r].known = Len(tokens)
  \/ req'[r].pc = "ending" /\ req'[r].device = Len(devices)
  \/ /\ req'[r].pc = "stamping" /\ req[r].pc = "ending" /\ req'[r].device = req[r].device
     /\ req'[r].known = Len(tokens) /\ UNCHANGED <<tokens, devices>>
     /\ \A d \in 1 .. req[r].device : ~DeviceLocked(d)
  \/ req'[r].pc = "closeall" /\ req[r].pc \in {"cascade", "revoking"} /\ req'[r].token = req[r].token

LEMMA AdvancesHolds ==
  ASSUME Inv, NEW r \in Requests, RequestStep(r)
  PROVE  /\ req' \in [Requests -> Request]
         /\ \A q \in Requests \ {r} : req'[q] = req[q]
         /\ Advances(r)
<1>a. /\ TypeOK /\ HoldInv /\ req \in [Requests -> Request] /\ req[r] \in Request
      /\ idle \in Request /\ Len(tokens) \in Nat /\ Len(devices) \in Nat /\ DOMAIN tokens \subseteq Nat /\ DOMAIN devices \subseteq Nat
  BY DEF Inv, TypeOK, Request, idle, Phases
<1>1. CASE End(r)
  BY <1>1, <1>a, EndShape DEF Advances
<1>2. ASSUME NEW c \in Codes, RedeemCode(r, c)
      PROVE  /\ req' \in [Requests -> Request]
             /\ \A q \in Requests \ {r} : req'[q] = req[q]
             /\ Advances(r)
  <2> DEFINE new == [idle EXCEPT !.pc = "redeemed", !.code = c]
  <2>1. new \in Request /\ new.pc = "redeemed" /\ new.code = c
    BY DEF idle, Request, Phases
  <2>2. req' = [req EXCEPT ![r] = new]
    BY <1>2 DEF RedeemCode
  <2> HIDE DEF new
  <2>3. req'[r] = new /\ \A q \in Requests \ {r} : req'[q] = req[q]
    BY <1>a, <2>2
  <2> QED  BY <1>2, <1>a, <2>1, <2>2, <2>3 DEF RedeemCode, Unredeemed, Advances
<1>3. ASSUME NEW t \in DOMAIN tokens, Read(r, t)
      PROVE  /\ req' \in [Requests -> Request]
             /\ \A q \in Requests \ {r} : req'[q] = req[q]
             /\ Advances(r)
  <2> DEFINE pc == IF IsReuse(t) THEN "cascade" ELSE IF tokens[t].native THEN "find" ELSE "read"
             new == [idle EXCEPT !.pc = pc, !.token = t]
  <2>0. /\ pc \in {"cascade", "find", "read"} /\ (pc = "find" => tokens[t].native)
        /\ (pc = "read" => ~tokens[t].native)
    OBVIOUS
  <2>2. req' = [req EXCEPT ![r] = new]
    BY <1>3 DEF Read
  <2> HIDE DEF pc
  <2>1. new \in Request /\ new.pc = pc /\ new.token = t
    BY <1>a, <2>0 DEF idle, Request, Phases
  <2> HIDE DEF new
  <2>3. req'[r] = new /\ \A q \in Requests \ {r} : req'[q] = req[q]
    BY <1>a, <2>2
  <2> QED  BY <1>a, <2>0, <2>1, <2>2, <2>3 DEF Advances
<1>4. ASSUME NEW d \in DOMAIN devices, FindActive(r, d)
      PROVE  /\ req' \in [Requests -> Request]
             /\ \A q \in Requests \ {r} : req'[q] = req[q]
             /\ Advances(r)
  <2>1. /\ req[r].pc = "find"
        /\ req' = [req EXCEPT ![r] = [req[r] EXCEPT !.pc = "session", !.device = d]]
    BY <1>4, <1>a DEF FindActive
  <2> DEFINE new == [req[r] EXCEPT !.pc = "session", !.device = d]
  <2>2. new \in Request /\ new.pc = "session" /\ new.device = d /\ new.token = req[r].token
    BY <1>a DEF Request, Phases
  <2> HIDE DEF new
  <2>3. req' = [req EXCEPT ![r] = new]
    BY <2>1 DEF new
  <2>4. req'[r] = new /\ \A q \in Requests \ {r} : req'[q] = req[q]
    BY <1>a, <2>3
  <2> QED  BY <1>a, <2>1, <2>2, <2>3, <2>4 DEF Advances
<1>5. CASE RetireOld(r) /\ Go(r, "moving") /\ Retirable(req[r].token)
  BY <1>5, <1>a, GoShape DEF RetireOld, Advances, Phases
<1>6. CASE DenyNative(r)
  BY <1>6, <1>a, GoShape DEF DenyNative, Advances, Phases, HoldInv, Holds
<1>7. ASSUME NEW d \in DOMAIN devices, LogoutNative(r, d)
      PROVE  /\ req' \in [Requests -> Request]
             /\ \A q \in Requests \ {r} : req'[q] = req[q]
             /\ Advances(r)
  <2> DEFINE t == devices[d].current
             new == [idle EXCEPT !.pc = "close", !.token = t, !.device = d]
  <2>0. t \in Nat
    BY <1>a DEF TypeOK
  <2>2. req' = [req EXCEPT ![r] = new]
    BY <1>7 DEF LogoutNative
  <2> HIDE DEF t
  <2>1. new \in Request /\ new.pc = "close" /\ new.device = d
    BY <1>a, <2>0 DEF idle, Request, Phases
  <2> HIDE DEF new
  <2>3. req'[r] = new /\ \A q \in Requests \ {r} : req'[q] = req[q]
    BY <1>a, <2>2
  <2> QED  BY <1>a, <2>1, <2>2, <2>3 DEF Advances
<1>8. CASE CloseSession(r) /\ Go(r, "closing") /\ Open(req[r].device)
  BY <1>8, <1>a, GoShape DEF CloseSession, Advances, Phases
<1>9. CASE Erase(r)
  <2> DEFINE new == [idle EXCEPT !.pc = "cascade"]
  <2>1. new \in Request /\ new.pc = "cascade" /\ new.token = 0
    BY DEF idle, Request, Phases
  <2>2. req' = [req EXCEPT ![r] = new]
    BY <1>9 DEF Erase
  <2> HIDE DEF new
  <2>3. req'[r] = new /\ \A q \in Requests \ {r} : req'[q] = req[q]
    BY <1>a, <2>2
  <2> QED  BY <1>a, <2>1, <2>2, <2>3 DEF Advances
<1>10. CASE CascadeStarts(r)
  <2> DEFINE new == [req[r] EXCEPT !.pc = "revoking", !.known = Len(tokens)]
  <2>1. new \in Request /\ new.pc = "revoking" /\ new.known = Len(tokens) /\ new.token = req[r].token
    BY <1>a DEF Request, Phases
  <2>2. req' = [req EXCEPT ![r] = new] /\ req[r].pc = "cascade"
    BY <1>10, <1>a DEF CascadeStarts
  <2> HIDE DEF new
  <2>3. req'[r] = new /\ \A q \in Requests \ {r} : req'[q] = req[q]
    BY <1>a, <2>2
  <2> QED  BY <1>a, <2>1, <2>2, <2>3 DEF Advances
<1>11. CASE Go(r, "closeall") /\ req[r].pc \in {"cascade", "revoking"}
  BY <1>11, <1>a, GoShape DEF Advances, Phases
<1>14. CASE RemoveAccess(r)
  <2> DEFINE n == Len(devices)
             new == [idle EXCEPT !.pc = "ending", !.device = n]
  <2>0. n \in Nat
    BY <1>a
  <2>2. req' = [req EXCEPT ![r] = new]
    BY <1>14 DEF RemoveAccess
  <2> HIDE DEF n
  <2>1. new \in Request /\ new.pc = "ending" /\ new.device = n
    BY <2>0 DEF idle, Request, Phases
  <2> HIDE DEF new
  <2>3. req'[r] = new /\ \A q \in Requests \ {r} : req'[q] = req[q]
    BY <1>a, <2>2
  <2> QED  BY <1>a, <2>1, <2>2, <2>3 DEF Advances, n
<1>15. CASE AccessCloses(r)
  <2> DEFINE new == [req[r] EXCEPT !.pc = "stamping", !.known = Len(tokens)]
  <2>1. new \in Request /\ new.pc = "stamping" /\ new.known = Len(tokens) /\ new.device = req[r].device
    BY <1>a DEF Request, Phases
  <2>2. req' = [req EXCEPT ![r] = new] /\ req[r].pc = "ending"
    BY <1>15, <1>a DEF AccessCloses
  <2> HIDE DEF new
  <2>3. req'[r] = new /\ \A q \in Requests \ {r} : req'[q] = req[q]
    BY <1>a, <2>2
  <2>4. UNCHANGED <<tokens, devices>> /\ \A d \in 1 .. req[r].device : ~DeviceLocked(d)
    BY <1>15 DEF AccessCloses
  <2> QED  BY <1>a, <2>1, <2>2, <2>3, <2>4 DEF Advances
<1>12. CASE RefreshStep(r)
  BY <1>12, <1>1, <1>3, <1>4, <1>5, <1>6 DEF RefreshStep, Rotate, Deny, RetireOld, MoveSession
<1>13. CASE EndStep(r)
  <2>1. CASE \E d \in DOMAIN devices : LogoutNative(r, d) \/ RevokeDevice(r, d)
    BY <2>1, <1>7 DEF RevokeDevice
  <2>2. CASE CloseSession(r) \/ RevokeCurrent(r) \/ CloseAll(r) \/ AccessEnds(r)
    BY <2>2, <1>1, <1>8 DEF CloseSession, RevokeCurrent, CloseAll, AccessEnds
  <2>3. CASE CascadeEnds(r) \/ CascadeFails(r)
    BY <2>3, <1>1, <1>11 DEF CascadeEnds, CascadeFails, AfterCascade
  <2> QED  BY <1>13, <2>1, <2>2, <2>3, <1>9, <1>10, <1>14, <1>15 DEF EndStep
<1> QED  BY <1>1, <1>2, <1>12, <1>13 DEF RequestStep, CreateSession, GiveUp

LEMMA OthersStep ==
  ASSUME Inv, Next, ~ \E r \in Requests : RequestStep(r)
  PROVE  req' = req
  BY DEF Next, SignIn, Logout, TimeStep, GracePasses, Sweep, CodeExpires, PruneLedger

(* What a request holds on to does not go away. *)
LEMMA HoldStep ==
  ASSUME Inv, [Next]_vars
  PROVE  HoldInv' /\ req' \in [Requests -> Request]
<1>a. /\ TypeOK /\ HoldInv /\ Grown /\ req \in [Requests -> Request]
      /\ Len(tokens) \in Nat /\ Len(tokens') \in Nat /\ Len(devices) \in Nat /\ Len(devices') \in Nat
  <2>1. Grown
    BY KindsHold, GrownHolds
  <2> QED  BY <2>1 DEF Inv, TypeOK, Grown
<1>1. ASSUME NEW q \in Requests, req'[q] = req[q]
      PROVE  Holds(q)'
  <2>1. Holds(q) /\ req[q].device \in Nat
    BY <1>a DEF HoldInv, Request
  <2> QED  BY <1>1, <1>a, <2>1 DEF Holds, Grown
<1>2. ASSUME NEW r \in Requests, RequestStep(r)
      PROVE  HoldInv' /\ req' \in [Requests -> Request]
  <2>1. /\ req' \in [Requests -> Request]
        /\ \A q \in Requests \ {r} : req'[q] = req[q]
        /\ Advances(r)
    BY <1>2, AdvancesHolds
  <2>2. Holds(r)'
    BY <1>a, <2>1 DEF Advances, HoldInv, Holds, Grown
  <2> QED  BY <1>1, <2>1, <2>2 DEF HoldInv
<1>3. CASE Next /\ ~ \E r \in Requests : RequestStep(r)
  BY <1>1, <1>3, <1>a, OthersStep DEF HoldInv
<1>4. CASE UNCHANGED vars
  BY <1>1, <1>4, <1>a DEF vars, HoldInv
<1> QED  BY <1>2, <1>3, <1>4

(* A locked row is not written by anybody else. *)
LEMMA LockedRows ==
  ASSUME Inv, Next, NEW q \in Requests, req'[q] = req[q]
  PROVE  /\ req[q].pc = "moving" => tokens'[req[q].token] = tokens[req[q].token]
         /\ req[q].pc = "closing" => devices'[req[q].device].closed = devices[req[q].device].closed
<1>a. /\ TypeOK /\ HoldInv /\ LockInv /\ tokens \in Seq(Token) /\ devices \in Seq(Device)
      /\ \A d \in DOMAIN devices : devices[d].current \in DOMAIN tokens
  BY DEF Inv, TypeOK
<1>b. req[q].pc = "moving" =>
        /\ req[q].token \in DOMAIN tokens /\ tokens[req[q].token].native
        /\ Live(req[q].token) /\ TokenLocked(req[q].token)
  BY <1>a DEF HoldInv, Holds, LockInv, Retirable, TokenLocked
<1>c. req[q].pc = "closing" => req[q].device \in DOMAIN devices /\ DeviceLocked(req[q].device)
  BY <1>a DEF HoldInv, Holds, DeviceLocked
<1>1. CASE UNCHANGED <<tokens, devices>>
  BY <1>1
<1>2. CASE Issues /\ devices' = devices
  BY <1>2, <1>a, <1>b, IssuesShape
<1>3. ASSUME NEW t \in DOMAIN tokens, ~tokens[t].native \/ ~TokenLocked(t) \/ ~Live(t), devices' = devices,
             NEW v \in {"fresh", "old"}, tokens' = [tokens EXCEPT ![t].revoked = v]
      PROVE  req[q].pc = "moving" => tokens'[req[q].token] = tokens[req[q].token]
  BY <1>3, <1>a, <1>b, StampRevokes
<1>4. CASE \E t \in DOMAIN tokens : Logout(t)
  BY <1>4, <1>3 DEF Logout, Stamped
<1>5. CASE TimeStep
  <2>1. CASE \E t \in DOMAIN tokens : GracePasses(t)
    BY <2>1, <1>3 DEF GracePasses, Live
  <2>2. CASE \E d \in DOMAIN devices : Sweep(d)
    BY <1>a, <1>c, <2>2 DEF Sweep
  <2> QED  BY <1>1, <1>5, <2>1, <2>2 DEF TimeStep, CodeExpires, PruneLedger
<1>6. ASSUME NEW r \in Requests, RequestStep(r)
      PROVE  /\ req[q].pc = "moving" => tokens'[req[q].token] = tokens[req[q].token]
             /\ req[q].pc = "closing" => devices'[req[q].device].closed = devices[req[q].device].closed
  <2>1. CASE CreateSession(r)
    <3>1. req[r].code \in Codes /\ Opens(Len(tokens) + 1, req[r].code)
      BY <1>a, <2>1 DEF CreateSession, HoldInv, Holds, Opens
    <3> QED  BY <1>a, <1>b, <1>c, <3>1, OpensShape, IssuesShape
  <2>2. CASE Rotate(r)
    <3>1. req[r].token \in DOMAIN tokens /\ ~tokens[req[r].token].native
      BY <1>a, <2>2 DEF Rotate, HoldInv, Holds
    <3>2. \/ UNCHANGED <<tokens, devices>>
          \/ Extends(req[r].token) /\ devices' = devices
      BY <2>2 DEF Rotate, Extends
    <3> QED  BY <1>a, <1>b, <3>1, <3>2, ExtendsShape
  <2>3. CASE Deny(r)
    <3>1. req[r].token \in DOMAIN tokens /\ ~tokens[req[r].token].native
      BY <1>a, <2>3 DEF Deny, HoldInv, Holds
    <3> QED  BY <1>3, <2>3, <3>1 DEF Deny, Stamped
  <2>4. CASE MoveSession(r)
    <3>1. /\ req[r].device \in DOMAIN devices /\ Retirable(req[r].token) /\ req[r].pc = "moving"
          /\ req[r].token \in DOMAIN tokens
      BY <1>a, <2>4 DEF MoveSession, HoldInv, Holds, LockInv
    <3>2. r # q
      BY <2>4, <1>a, EndShape DEF MoveSession
    <3>3. req[q].pc = "moving" => req[q].token # req[r].token
      BY <1>a, <3>1, <3>2 DEF LockInv
    <3>4. \/ UNCHANGED <<tokens, devices>>
          \/ Extends(req[r].token) /\ Moved(req[r].device) /\ devices[req[r].device].closed = "no"
      BY <2>4, <3>1 DEF MoveSession, Moves, Moved, Extends, Open
    <3>5. CASE Extends(req[r].token) /\ Moved(req[r].device) /\ devices[req[r].device].closed = "no"
      <4>1. req[q].pc = "moving" => tokens'[req[q].token] = tokens[req[q].token]
        BY <1>a, <1>b, <3>1, <3>3, <3>5, ExtendsShape
      <4>2. \A d \in DOMAIN devices : devices'[d].closed = devices[d].closed
        BY <1>a, <3>1, <3>5, MovedShape
      <4> QED  BY <1>c, <4>1, <4>2
    <3> QED  BY <3>4, <3>5
  <2>5. CASE RevokeCurrent(r)
    <3> DEFINE d == req[r].device
               t == devices[d].current
    <3>1. d \in DOMAIN devices /\ t \in DOMAIN tokens /\ req[r].pc = "closing"
      BY <1>a, <2>5 DEF RevokeCurrent, HoldInv, Holds
    <3>2. r # q
      BY <2>5, <1>a, EndShape DEF RevokeCurrent
    <3>3. req[q].pc = "closing" => req[q].device # d
      BY <1>a, <3>1, <3>2 DEF LockInv
    <3>4. /\ ~TokenLocked(t)
          /\ tokens' = tokens \/ tokens' = Stamped(t)
          /\ devices' = [devices EXCEPT ![d].closed = "session"]
      BY <2>5 DEF RevokeCurrent, CurrentToken
    <3> HIDE DEF d, t
    <3>5. req[q].pc = "moving" => tokens'[req[q].token] = tokens[req[q].token]
      BY <1>a, <1>b, <3>1, <3>4, StampRevokes DEF Stamped
    <3> QED  BY <1>a, <1>c, <3>1, <3>3, <3>4, <3>5
  <2>6. CASE CascadeEnds(r)
    <3>1. devices' = devices /\ RevokeKnown(r)
      BY <2>6 DEF CascadeEnds
    <3> QED  BY <1>a, <1>b, <3>1, CascadeRevokes DEF RevokeKnown
  <2>7. CASE CloseAll(r)
    BY <1>c, <2>7 DEF CloseAll
  <2>8. CASE UNCHANGED <<tokens, devices>>
    BY <2>8
  <2>9. CASE AccessEnds(r)
    <3>1. RevokeKnown(r) /\ devices' = [d \in DOMAIN devices |->
            IF Held(r, d) THEN [devices[d] EXCEPT !.closed = "access"] ELSE devices[d]]
      BY <2>9 DEF AccessEnds
    <3>2. req[q].pc = "moving" => tokens'[req[q].token] = tokens[req[q].token]
      BY <1>a, <1>b, <3>1, CascadeRevokes DEF RevokeKnown
    <3>3. req[q].pc = "closing" => ~Held(r, req[q].device)
      BY <1>a DEF LockInv
    <3> QED  BY <1>c, <3>1, <3>2, <3>3
  <2> QED  BY <1>6, <2>1, <2>2, <2>3, <2>4, <2>5, <2>6, <2>7, <2>8, <2>9
           DEF RequestStep, RefreshStep, EndStep, GiveUp, RetireOld, DenyNative, CloseSession, Erase,
               CascadeStarts, CascadeFails, RedeemCode, Read, FindActive, LogoutNative, RevokeDevice,
               RemoveAccess, AccessCloses
<1>7. CASE SignIn
  BY <1>2, <1>7 DEF SignIn, Issues
<1> QED  BY <1>4, <1>5, <1>6, <1>7 DEF Next

LEMMA LockStep ==
  ASSUME Inv, [Next]_vars
  PROVE  LockInv' /\ HeldInv'
<1>a. TypeOK /\ HoldInv /\ LockInv /\ HeldInv /\ req \in [Requests -> Request] /\ DOMAIN devices = 1 .. Len(devices)
  BY DEF Inv, TypeOK
<1>b. \A q \in Requests : req[q].device \in Nat /\ req[q].known \in Nat
  BY <1>a DEF Request
<1>c. /\ DOMAIN devices' \subseteq Nat \ {0}
      /\ \A d \in DOMAIN devices : devices[d].current \in 1 .. Len(tokens) /\ devices[d].current \in Nat
      /\ Len(tokens) \in Nat /\ Len(devices) \in Nat
  <2>1. Grown
    BY KindsHold, GrownHolds
  <2> QED  BY <1>a, <2>1 DEF TypeOK, Grown
<1>1. CASE UNCHANGED vars
  BY <1>1, <1>a DEF vars, LockInv, HeldInv, Held, Retirable, Live, Open
<1>2. ASSUME Next, NEW q \in Requests, req'[q] = req[q]
      PROVE  /\ req'[q].pc = "moving" => Retirable(req[q].token)'
             /\ req'[q].pc = "closing" => Open(req[q].device)'
  BY <1>2, <1>a, LockedRows DEF LockInv, Retirable, Live, Open
(* A request that goes on removing access held the session before. *)
<1>h. ASSUME NEW q \in Requests, req'[q] = req[q], NEW d \in DOMAIN devices', Held(q, d)'
      PROVE  d \in DOMAIN devices /\ Held(q, d) /\ devices'[d].current = devices[d].current
  <2>1. req[q].pc = "stamping" /\ d <= req[q].device /\ req[q].device <= Len(devices)
    BY <1>a, <1>h DEF Held, HoldInv, Holds
  <2>2. d \in DOMAIN devices
    BY <1>a, <1>b, <1>c, <2>1
  <2>3. Held(q, d)
    BY <1>h, <2>1, <2>2, KindsHold, SessionsKept DEF Held
  <2> QED  BY <2>2, <2>3, KindsHold, SessionsKept DEF DeviceLocked
<1>i. ASSUME NEW q \in Requests, req'[q] = req[q], NEW d \in DOMAIN devices', Held(q, d)'
      PROVE  devices'[d].current <= req'[q].known
  BY <1>a, <1>i, <1>h DEF HeldInv
<1>j. ASSUME NEW p \in Requests, req'[p] = req[p], NEW q \in Requests, req'[q] = req[q], req'[p].pc = "closing"
      PROVE  ~Held(q, req[p].device)'
  <2>1. req[p].device \in DOMAIN devices /\ ~Held(q, req[p].device)
    BY <1>a, <1>j DEF HoldInv, Holds, LockInv
  <2>2. Open(req[p].device)' => Open(req[p].device)
    <3> DEFINE d == req[p].device
    <3>1. d \in DOMAIN devices
      BY <2>1
    <3> HIDE DEF d
    <3>2. devices'[d].closed = "no" => devices[d].closed = "no"
      BY <3>1, KindsHold, SessionsKept DEF Open
    <3> QED  BY <1>j, <3>2 DEF Open, d
  <2> QED  BY <1>j, <2>1, <2>2 DEF Held, Open
<1>3. ASSUME NEW r \in Requests, RequestStep(r), Next
      PROVE  LockInv' /\ HeldInv'
  <2>1. /\ \A q \in Requests \ {r} : req'[q] = req[q]
        /\ Advances(r)
    BY <1>3, AdvancesHolds
  <2>2. req'[r].pc = "moving" =>
          /\ Retirable(req[r].token)'
          /\ \A q \in Requests : req[q].pc = "moving" => req[q].token # req'[r].token
    BY <2>1 DEF Advances, TokenLocked, Retirable, Live
  <2>3. req'[r].pc = "closing" =>
          /\ Open(req[r].device)'
          /\ \A q \in Requests : req[q].pc = "closing" => req[q].device # req'[r].device
    BY <2>1 DEF Advances, DeviceLocked, Open
  <2>4. \A q \in Requests \ {r} :
          /\ req'[q].pc = "moving" => Retirable(req[q].token)'
          /\ req'[q].pc = "closing" => Open(req[q].device)'
    BY <1>2, <1>3, <2>1
  <2>5. \A q \in Requests :
          /\ req'[q].pc = "moving" => Retirable(req[q].token)'
          /\ req'[q].pc = "closing" => Open(req[q].device)'
    BY <2>2, <2>3, <2>4
  <2>6. \A p, q \in Requests :
          req'[p].pc = "moving" /\ req'[q].pc = "moving" /\ req'[p].token = req'[q].token => p = q
    BY <1>a, <2>1, <2>2 DEF LockInv
  <2>7. \A p, q \in Requests :
          req'[p].pc = "closing" /\ req'[q].pc = "closing" /\ req'[p].device = req'[q].device => p = q
    BY <1>a, <2>1, <2>3 DEF LockInv
  <2>8. ASSUME NEW p \in Requests, NEW q \in Requests, req'[p].pc = "closing", req'[q].pc = "stamping"
        PROVE  ~Held(q, req[p].device)'
    <3>1. CASE p = r
      <4>1. /\ req'[p].device = req[p].device /\ devices' = devices /\ ~DeviceLocked(req[p].device)
        BY <2>1, <2>8, <3>1 DEF Advances
      <4>2. req'[q] = req[q]
        BY <2>1, <2>8, <3>1
      <4> QED  BY <4>1, <4>2 DEF Held, Open, DeviceLocked
    <3>2. CASE q = r
      <4>1. /\ req'[q].device = req[q].device /\ \A d \in 1 .. req[q].device : ~DeviceLocked(d)
        BY <2>1, <2>8, <3>2 DEF Advances
      <4>2. req'[p] = req[p]
        BY <2>1, <2>8, <3>2
      <4>3. req[p].device \in DOMAIN devices /\ DeviceLocked(req[p].device)
        BY <1>a, <2>8, <4>2 DEF HoldInv, Holds, DeviceLocked
      <4>4. ~(req[p].device <= req[q].device)
        BY <1>a, <1>b, <4>1, <4>3
      <4> QED  BY <4>1, <4>2, <4>4 DEF Held
    <3>3. CASE p # r /\ q # r
      BY <1>j, <2>1, <2>8, <3>3
    <3> QED  BY <3>1, <3>2, <3>3
  <2>9. \A p, q \in Requests : req'[p].pc = "closing" => ~Held(q, req[p].device)'
    BY <2>8 DEF Held
  <2>10. LockInv'
    BY <2>5, <2>6, <2>7, <2>9 DEF LockInv
  <2>11. ASSUME NEW d \in DOMAIN devices', Held(r, d)'
         PROVE  devices'[d].current <= req'[r].known
    <3>1. req'[r].known = Len(tokens) /\ devices' = devices
      BY <2>1, <2>11 DEF Advances, Held
    <3> QED  BY <1>c, <3>1
  <2>12. HeldInv'
    BY <1>i, <2>1, <2>11 DEF HeldInv
  <2> QED  BY <2>10, <2>12
<1>4. CASE Next /\ ~ \E r \in Requests : RequestStep(r)
  <2>1. req' = req
    BY <1>4, OthersStep
  <2>2. \A p, q \in Requests : req'[p].pc = "closing" => ~Held(q, req[p].device)'
    BY <1>j, <2>1
  <2>3. LockInv'
    BY <1>2, <1>4, <1>a, <2>1, <2>2 DEF LockInv
  <2> QED  BY <1>i, <2>1, <2>3 DEF HeldInv
<1> QED  BY <1>1, <1>3, <1>4

-----------------------------------------------------------------------------
(* A code opens one session.                                               *)
LEMMA CodeStep ==
  ASSUME Inv, [Next]_vars
  PROVE  CodeInv' /\ valid' \subseteq Codes /\ ledger' \subseteq Codes
<1>a. /\ TypeOK /\ HoldInv /\ CodeInv /\ valid \subseteq Codes /\ ledger \subseteq Codes
      /\ devices \in Seq(Device) /\ Len(devices) \in Nat /\ DOMAIN devices = 1 .. Len(devices)
  BY DEF Inv, TypeOK
(* The sessions keep their codes, and no request comes to hold one. *)
<1> DEFINE Same == /\ DOMAIN devices' = DOMAIN devices
                   /\ \A d \in DOMAIN devices : devices'[d].code = devices[d].code
           Fewer == \A q \in Requests : req'[q].pc = "redeemed" => req'[q] = req[q]
<1>1. ASSUME Same, Fewer, valid' \subseteq valid, ledger' \subseteq Codes,
             \A c \in valid' : c \in ledger => c \in ledger'
      PROVE  CodeInv' /\ valid' \subseteq Codes /\ ledger' \subseteq Codes
  BY <1>1, <1>a DEF CodeInv, CodeOnce
<1>2. ASSUME NEW r \in Requests, CreateSession(r)
      PROVE  CodeInv' /\ valid' \subseteq Codes /\ ledger' \subseteq Codes
  <2> DEFINE c == req[r].code
             e == Len(devices) + 1
  <2>1. c \in valid /\ req[r].pc = "redeemed" /\ valid' = valid /\ ledger' = ledger /\ End(r)
    BY <1>2 DEF CreateSession
  <2>2. c \in Codes /\ Opens(Len(tokens) + 1, c)
    BY <1>a, <1>2 DEF CreateSession, HoldInv, Holds, Opens
  <2>3. /\ DOMAIN devices' = DOMAIN devices \union {e} /\ devices'[e].code = c
        /\ \A d \in DOMAIN devices : devices'[d] = devices[d]
    <3>1. /\ devices' \in Seq(Device) /\ Len(devices') = e
          /\ \A d \in DOMAIN devices : devices'[d] = devices[d]
          /\ devices'[e] = [root |-> Len(tokens) + 1, current |-> Len(tokens) + 1, closed |-> "no", code |-> c]
      BY <1>a, <2>2, OpensShape
    <3> QED  BY <1>a, <3>1
  <2>4. \A q \in Requests : req'[q].pc = "redeemed" => req'[q] = req[q] /\ q # r
    BY <1>a, <2>1, EndShape
  <2>5. c \in ledger /\ \A d \in DOMAIN devices : devices[d].code # c
    BY <1>a, <2>1 DEF CodeInv
  <2>6. \A q \in Requests : req'[q].pc = "redeemed" => req[q].code # c
    BY <1>a, <2>1, <2>4 DEF CodeInv
  <2> HIDE DEF c, e
  <2>7. CodeOnce'
    BY <1>a, <2>3, <2>5 DEF CodeInv, CodeOnce
  <2>8. \A q \in Requests : req'[q].pc = "redeemed" /\ req'[q].code \in valid' =>
          /\ req'[q].code \in ledger'
          /\ \A d \in DOMAIN devices' : devices'[d].code # req'[q].code
          /\ \A p \in Requests : req'[p].pc = "redeemed" /\ req'[p].code = req'[q].code => p = q
    BY <1>a, <2>1, <2>3, <2>4, <2>6 DEF CodeInv
  <2>9. \A d \in DOMAIN devices' : devices'[d].code \in valid' => devices'[d].code \in ledger'
    BY <1>a, <2>1, <2>3, <2>5 DEF CodeInv
  <2> QED  BY <1>a, <2>1, <2>7, <2>8, <2>9 DEF CodeInv
<1>3. ASSUME NEW r \in Requests, NEW c \in Codes, RedeemCode(r, c)
      PROVE  CodeInv' /\ valid' \subseteq Codes /\ ledger' \subseteq Codes
  <2>1. /\ c \notin ledger /\ ledger' = ledger \union {c} /\ valid' = valid /\ devices' = devices
    BY <1>3 DEF RedeemCode, Unredeemed
  <2>2. req' = [req EXCEPT ![r] = [idle EXCEPT !.pc = "redeemed", !.code = c]] /\ req \in [Requests -> Request]
    BY <1>3, <1>a DEF RedeemCode, TypeOK
  <2>3. req'[r].code = c /\ \A q \in Requests \ {r} : req'[q] = req[q]
    BY <2>2 DEF idle
  <2>4. c \in valid => /\ \A d \in DOMAIN devices : devices[d].code # c
                       /\ \A q \in Requests : req[q].pc = "redeemed" => req[q].code # c
    BY <1>a, <2>1 DEF CodeInv
  <2>5. ASSUME NEW q \in Requests, req'[q].pc = "redeemed", req'[q].code \in valid
        PROVE  /\ req'[q].code \in ledger'
               /\ \A d \in DOMAIN devices : devices[d].code # req'[q].code
               /\ \A p \in Requests : req'[p].pc = "redeemed" /\ req'[p].code = req'[q].code => p = q
    BY <1>a, <2>1, <2>3, <2>4, <2>5 DEF CodeInv
  <2> QED  BY <1>a, <2>1, <2>5 DEF CodeInv, CodeOnce
<1>4. ASSUME NEW c \in Codes, CodeExpires(c) \/ PruneLedger(c)
      PROVE  CodeInv' /\ valid' \subseteq Codes /\ ledger' \subseteq Codes
  <2>1. Same /\ Fewer
    BY <1>4 DEF CodeExpires, PruneLedger
  <2>2. /\ valid' \subseteq valid /\ ledger' \subseteq Codes
        /\ \A x \in valid' : x \in ledger => x \in ledger'
    BY <1>4, <1>a DEF CodeExpires, PruneLedger
  <2> QED  BY <1>1, <2>1, <2>2
<1>5. ASSUME UNCHANGED <<valid, ledger>>, Same, Fewer
      PROVE  CodeInv' /\ valid' \subseteq Codes /\ ledger' \subseteq Codes
  BY <1>1, <1>5, <1>a
<1>6. Kinds => Same \/ \E c \in Codes : Opens(Len(tokens) + 1, c)
  <2>1. Grown /\ \A d \in DOMAIN devices : devices[d].current \in DOMAIN tokens
    BY KindsHold, GrownHolds DEF Inv, TypeOK
  <2>2. DOMAIN devices' = 1 .. Len(devices')
    BY <2>1 DEF Grown
  <2>3. \A d \in DOMAIN devices : Moved(d) => Len(devices') = Len(devices)
    BY <1>a, MovedShape
  <2>4. \A D \in SUBSET DOMAIN devices, why \in Reasons : Ends(D, why) => Len(devices') = Len(devices)
    BY <1>a, EndsShape
  <2>5. \A d \in DOMAIN devices : devices'[d].code = devices[d].code
    BY <2>1 DEF Grown
  <2> QED  BY <1>a, <2>2, <2>3, <2>4, <2>5 DEF Kinds
<1>7. ASSUME NEW r \in Requests, RequestStep(r)
      PROVE  CodeInv' /\ valid' \subseteq Codes /\ ledger' \subseteq Codes
  <2>1. CASE ~ CreateSession(r) /\ ~ \E c \in Codes : RedeemCode(r, c)
    <3>1. UNCHANGED <<valid, ledger>>
      BY <1>7, <2>1
         DEF RequestStep, RefreshStep, EndStep, GiveUp, RetireOld, DenyNative, CloseSession, Erase,
             CascadeStarts, CascadeFails, Read, FindActive, LogoutNative, RevokeDevice, Rotate, Deny,
             MoveSession, RevokeCurrent, CascadeEnds, CloseAll, RemoveAccess, AccessCloses, AccessEnds
    <3>2. Fewer
      <4>1. Advances(r) /\ \A q \in Requests \ {r} : req'[q] = req[q]
        BY <1>7, AdvancesHolds
      <4>2. ASSUME req'[r].pc = "redeemed"
            PROVE  FALSE
        BY <1>a, <3>1, <4>1, <4>2 DEF Advances
      <4> QED  BY <4>1, <4>2
    <3>3. \/ UNCHANGED devices
          \/ MoveSession(r) \/ RevokeCurrent(r) \/ CloseAll(r) \/ AccessEnds(r)
      BY <1>7, <2>1
         DEF RequestStep, RefreshStep, EndStep, GiveUp, RetireOld, DenyNative, CloseSession, Erase,
             CascadeStarts, CascadeFails, Read, FindActive, LogoutNative, RevokeDevice, Rotate, Deny,
             CascadeEnds, RemoveAccess, AccessCloses
    <3>4. Same
      <4>1. ~ \E c \in Codes : Opens(Len(tokens) + 1, c)
        <5>1. DOMAIN devices' = DOMAIN devices
          BY <3>3 DEF MoveSession, RevokeCurrent, CloseAll, AccessEnds
        <5>2. ASSUME NEW c \in Codes, Opens(Len(tokens) + 1, c)
              PROVE  FALSE
          <6>1. devices' \in Seq(Device) /\ Len(devices') = Len(devices) + 1
            BY <1>a, <5>2, OpensShape
          <6>2. DOMAIN devices' = 1 .. Len(devices) + 1
            BY <6>1
          <6> QED  BY <1>a, <5>1, <6>2
        <5> QED  BY <5>2
      <4> QED  BY <1>6, <4>1, KindsHold
    <3> QED  BY <1>5, <3>1, <3>2, <3>4
  <2> QED  BY <1>2, <1>3, <2>1
<1>8. CASE UNCHANGED vars \/ SignIn \/ \E t \in DOMAIN tokens : Logout(t) \/ GracePasses(t)
  <2>1. UNCHANGED <<devices, valid, ledger, req>>
    BY <1>8 DEF vars, SignIn, Logout, GracePasses
  <2> QED  BY <1>5, <2>1
<1>9. ASSUME NEW d \in DOMAIN devices, Sweep(d)
      PROVE  CodeInv' /\ valid' \subseteq Codes /\ ledger' \subseteq Codes
  <2>1. UNCHANGED <<valid, ledger, req>> /\ devices' = [devices EXCEPT ![d].closed = "swept"]
    BY <1>9 DEF Sweep
  <2>2. \A e \in DOMAIN devices : devices[e] \in Device
    BY <1>a
  <2>3. Same
    BY <2>1, <2>2 DEF Device
  <2> QED  BY <1>5, <2>1, <2>3
<1> QED  BY <1>4, <1>7, <1>8, <1>9 DEF Next, TimeStep

-----------------------------------------------------------------------------
(* The theorems.                                                           *)
LEMMA InvInit ==
  ASSUME Init
  PROVE  Inv
<1>1. /\ tokens = << >> /\ devices = << >> /\ valid = Codes /\ ledger = {}
      /\ req = [r \in Requests |-> idle]
  BY DEF Init
<1>2. DOMAIN tokens = {} /\ DOMAIN devices = {} /\ tokens \in Seq(Token) /\ devices \in Seq(Device)
  BY <1>1
<1>3. idle \in Request /\ idle.pc = "idle"
  BY DEF idle, Request, Phases
<1>4. TypeOK
  BY <1>1, <1>2, <1>3 DEF TypeOK
<1>5. \A r \in Requests : req[r].pc = "idle"
  BY <1>1, <1>3
<1>6. HoldInv /\ LockInv /\ HeldInv
  BY <1>5 DEF HoldInv, Holds, LockInv, HeldInv, Held
<1>7. FamilyInv /\ DeviceInv /\ CodeInv
  BY <1>2, <1>5 DEF FamilyInv, FamilyIsChain, DeviceInv, DeviceSound, CodeInv, CodeOnce
<1> QED  BY <1>4, <1>6, <1>7 DEF Inv

LEMMA InvStep ==
  ASSUME Inv, [Next]_vars
  PROVE  Inv'
<1>1. Kinds /\ Grown
  BY KindsHold, GrownHolds
<1>2. /\ FamilyInv' /\ DeviceInv'
      /\ \A t \in DOMAIN tokens' : tokens'[t].next \in 0 .. Len(tokens')
      /\ \A d \in DOMAIN devices' : devices'[d].current \in DOMAIN tokens'
  BY <1>1, FamilyStep, DeviceStep
<1>3. HoldInv' /\ LockInv' /\ HeldInv' /\ CodeInv' /\ req' \in [Requests -> Request]
      /\ valid' \subseteq Codes /\ ledger' \subseteq Codes
  BY HoldStep, LockStep, CodeStep
<1>4. TypeOK'
  BY <1>1, <1>2, <1>3 DEF TypeOK, Grown
<1> QED  BY <1>2, <1>3, <1>4 DEF Inv

LEMMA Invariant == Spec => []Inv
  BY InvInit, InvStep, PTL DEF Spec

(* Rows keep their types, and a successor or a current token exists: rotate, createSession
   and rotateForSession insert what they point at. *)
THEOREM TypeCorrect == Spec => []TypeOK
<1>1. Inv => TypeOK
  BY DEF Inv
<1> QED  BY <1>1, Invariant, PTL

(* rotate and rotateForSession: whatever overlaps, one token of a sign-in has no successor. *)
THEOREM Chain == Spec => []FamilyIsChain
<1>1. Inv => FamilyIsChain
  BY DEF Inv, FamilyInv
<1> QED  BY <1>1, Invariant, PTL

(* createSession, rotateForSession, revokeSession: a session stays at the head of its
   family, and closing it leaves no token of the family working. *)
THEOREM Devices == Spec => []DeviceSound
<1>1. Inv => DeviceSound
  BY DEF Inv, DeviceInv
<1> QED  BY <1>1, Invariant, PTL

(* redeemCode before the exchange, and a ledger pruned of dead codes only: a code opens at
   most one session. *)
THEOREM Redemption == Spec => []CodeOnce
<1>1. Inv => CodeOnce
  BY DEF Inv, CodeInv
<1> QED  BY <1>1, Invariant, PTL

LEMMA ClosedStep ==
  ASSUME Inv, [Next]_vars, NEW d \in DOMAIN devices, ~Open(d)
  PROVE  /\ devices'[d] \in {devices[d], [devices[d] EXCEPT !.closed = "swept"]}
         /\ \A t \in DOMAIN tokens' \ DOMAIN tokens : tokens'[t].family # devices[d].root
<1>a. /\ TypeOK /\ FamilyInv /\ DeviceInv /\ Kinds /\ Grown
      /\ \A e \in DOMAIN devices : devices[e].current \in DOMAIN tokens
      /\ tokens \in Seq(Token) /\ Len(tokens) \in Nat /\ DOMAIN tokens = 1 .. Len(tokens)
  BY KindsHold, GrownHolds DEF Inv, TypeOK
<1>b. DOMAIN tokens' = 1 .. Len(tokens') /\ Len(tokens') \in Nat
  BY <1>a DEF Grown
<1>1. CASE UNCHANGED <<tokens, devices>>
  BY <1>1
<1>2. ASSUME Issues
      PROVE  \A t \in DOMAIN tokens' \ DOMAIN tokens : tokens'[t].family # devices[d].root
  <2>1. Len(tokens') = Len(tokens) + 1 /\ tokens'[Len(tokens) + 1].family = Len(tokens) + 1
    BY <1>2, <1>a, IssuesShape
  <2>2. \A t \in DOMAIN tokens' \ DOMAIN tokens : t = Len(tokens) + 1
    BY <1>a, <1>b, <2>1
  <2>3. devices[d].root # Len(tokens) + 1
    BY <1>a DEF DeviceInv
  <2> QED  BY <2>1, <2>2, <2>3
<1>3. ASSUME NEW t \in DOMAIN tokens, Extends(t), tokens[t].family # devices[d].root
      PROVE  \A u \in DOMAIN tokens' \ DOMAIN tokens : tokens'[u].family # devices[d].root
  <2>1. Len(tokens') = Len(tokens) + 1 /\ tokens'[Len(tokens) + 1] = New(tokens[t].family, tokens[t].native)
    BY <1>3, <1>a, ExtendsShape
  <2>2. \A u \in DOMAIN tokens' \ DOMAIN tokens : u = Len(tokens) + 1
    BY <1>a, <1>b, <2>1
  <2> QED  BY <1>3, <2>1, <2>2 DEF New
<1>4. ASSUME NEW t \in DOMAIN tokens, ~tokens[t].native, Extends(t), devices' = devices
      PROVE  /\ devices'[d] = devices[d]
             /\ \A u \in DOMAIN tokens' \ DOMAIN tokens : tokens'[u].family # devices[d].root
  <2>1. tokens[t].family # devices[d].root
    BY <1>4, <1>a DEF DeviceInv, DeviceSound, FamilyInv
  <2> QED  BY <1>3, <1>4, <2>1
<1>5. ASSUME NEW e \in DOMAIN devices, Moved(e)
      PROVE  /\ devices'[d] = devices[d]
             /\ \A u \in DOMAIN tokens' \ DOMAIN tokens : tokens'[u].family # devices[d].root
  <2>1. e # d
    BY <1>5 DEF Moved
  <2>2. devices'[d] = devices[d]
    BY <1>5, <1>a, <2>1, MovedShape
  <2>3. tokens[devices[e].current].family = devices[e].root /\ devices[e].root # devices[d].root
    BY <1>a, <2>1 DEF DeviceInv, DeviceSound
  <2>4. devices[e].current \in DOMAIN tokens /\ Extends(devices[e].current)
    BY <1>5, <1>a DEF Moved
  <2> QED  BY <1>3, <2>2, <2>3, <2>4
<1>6. ASSUME Revokes \/ tokens' = tokens
      PROVE  DOMAIN tokens' \ DOMAIN tokens = {}
  BY <1>6, <1>a, <1>b DEF Revokes
<1>7. CASE Revokes /\ devices' = devices
  BY <1>6, <1>7
<1>8. ASSUME NEW D \in SUBSET DOMAIN devices, NEW why \in Reasons, Ends(D, why)
      PROVE  /\ devices'[d] \in {devices[d], [devices[d] EXCEPT !.closed = "swept"]}
             /\ \A u \in DOMAIN tokens' \ DOMAIN tokens : tokens'[u].family # devices[d].root
  <2>1. d \in D => why = "swept"
    BY <1>8 DEF Ends
  <2>2. /\ d \notin D => devices'[d] = devices[d]
        /\ d \in D => devices'[d] = [devices[d] EXCEPT !.closed = why]
    BY <1>8, <1>a, EndsShape
  <2>3. Revokes
    BY <1>8 DEF Ends
  <2> QED  BY <1>6, <2>1, <2>2, <2>3
<1>10. ASSUME NEW c \in Codes, Opens(Len(tokens) + 1, c)
       PROVE  /\ devices'[d] = devices[d]
              /\ \A u \in DOMAIN tokens' \ DOMAIN tokens : tokens'[u].family # devices[d].root
  <2>1. Issues /\ devices'[d] = devices[d]
    BY <1>10, <1>a, OpensShape
  <2> QED  BY <1>2, <2>1
<1> QED  BY <1>1, <1>2, <1>4, <1>5, <1>7, <1>8, <1>10, <1>a DEF Kinds

(* rotateForSession checks revoked_at where it moves the pointer, and revokeSession,
   revokeAllForUser and removeProductAccess where they close: what is closed stays as it
   was until it is swept, without a new token. *)
THEOREM Closed == Spec => ClosedIsFinal
<1> DEFINE Final == \A d \in DOMAIN devices : ~Open(d) =>
       /\ devices'[d] \in {devices[d], [devices[d] EXCEPT !.closed = "swept"]}
       /\ \A t \in DOMAIN tokens' \ DOMAIN tokens : tokens'[t].family # devices[d].root
<1>1. Inv /\ [Next]_vars => [Final]_vars
  BY ClosedStep
<1> QED  BY <1>1, Invariant, PTL DEF Spec, ClosedIsFinal

-----------------------------------------------------------------------------
(* The tokens implement rotating credentials.                              *)

(* The owners of the credentials are the families, row by row. *)
LEMMA OwnersAre ==
  ASSUME NEW toks \in Seq(Token)
  PROVE  LET o == [t \in DOMAIN toks |-> toks[t].family] IN
         /\ o \in Seq(Nat) /\ Len(o) = Len(toks)
         /\ \A t \in DOMAIN toks : o[t] = toks[t].family
<1> DEFINE o == [t \in DOMAIN toks |-> toks[t].family]
<1>0. DOMAIN toks = 1 .. Len(toks) /\ Len(toks) \in Nat /\ \A t \in DOMAIN toks : toks[t] \in Token
  OBVIOUS
<1>1. DOMAIN toks = 1 .. Len(toks) /\ Len(toks) \in Nat /\ \A t \in DOMAIN toks : toks[t].family \in Nat
  BY <1>0 DEF Token
<1>2. o \in [1 .. Len(toks) -> Nat]
  BY <1>1
<1>3. \A t \in DOMAIN toks : o[t] = toks[t].family
  OBVIOUS
<1> HIDE DEF o
<1>4. o \in Seq(Nat) /\ Len(o) = Len(toks)
  BY <1>1, <1>2
<1> QED  BY <1>3, <1>4 DEF o

LEMMA OwnersKept ==
  ASSUME TypeOK, tokens' \in Seq(Token), Len(tokens') = Len(tokens),
         \A t \in DOMAIN tokens : tokens'[t].family = tokens[t].family
  PROVE  Owners' = Owners
<1>1. DOMAIN tokens' = DOMAIN tokens
  BY DEF TypeOK
<1> QED  BY <1>1 DEF Owners

LEMMA OwnersGrow ==
  ASSUME TypeOK, tokens' \in Seq(Token), Len(tokens') = Len(tokens) + 1,
         \A t \in DOMAIN tokens : tokens'[t].family = tokens[t].family
  PROVE  /\ Owners' = Append(Owners, tokens'[Len(tokens) + 1].family)
         /\ Len(Owners) = Len(tokens)
<1> DEFINE new == tokens'[Len(tokens) + 1].family
<1>1. /\ Owners \in Seq(Nat) /\ Len(Owners) = Len(tokens)
      /\ \A t \in DOMAIN tokens : Owners[t] = tokens[t].family
  <2>1. tokens \in Seq(Token)
    BY DEF TypeOK
  <2> QED  BY <2>1, OwnersAre, Zenon DEF Owners
<1>2. /\ Owners' \in Seq(Nat) /\ Len(Owners') = Len(tokens')
      /\ \A t \in DOMAIN tokens' : Owners'[t] = tokens'[t].family
  BY OwnersAre, Zenon DEF Owners
<1>3. /\ tokens \in Seq(Token) /\ Len(tokens) \in Nat
      /\ DOMAIN tokens = 1 .. Len(tokens) /\ DOMAIN tokens' = 1 .. (Len(tokens) + 1)
  BY DEF TypeOK
<1>n. Len(tokens) + 1 \in DOMAIN tokens' /\ \A t \in 1 .. Len(tokens) : t \in DOMAIN tokens'
  BY <1>3
<1>4. new \in Nat
  <2>1. tokens'[Len(tokens) + 1] \in Token
    BY <1>n
  <2> QED  BY <2>1 DEF Token
<1>5. /\ Owners'[Len(tokens) + 1] = new
      /\ \A t \in 1 .. Len(tokens) : Owners'[t] = Owners[t]
  BY <1>1, <1>2, <1>3, <1>n, Zenon
<1> HIDE DEF new
<1>6. /\ Append(Owners, new) \in Seq(Nat) /\ Len(Append(Owners, new)) = Len(tokens) + 1
      /\ Append(Owners, new)[Len(tokens) + 1] = new
      /\ \A t \in 1 .. Len(tokens) : Append(Owners, new)[t] = Owners[t]
  BY <1>1, <1>4, AppendProperties
<1>7. \A t \in 1 .. (Len(tokens) + 1) : Owners'[t] = Append(Owners, new)[t]
  BY <1>3, <1>5, <1>6
<1>8. Owners' = Append(Owners, new)
  BY <1>2, <1>3, <1>6, <1>7, SeqEqual
<1> QED  BY <1>1, <1>8 DEF new

(* A session that is opened or moved closes nothing. *)
LEMMA RootsKept ==
  ASSUME DOMAIN devices \subseteq DOMAIN devices',
         \A d \in DOMAIN devices : devices'[d].root = devices[d].root /\ devices'[d].closed = devices[d].closed,
         \A d \in DOMAIN devices' \ DOMAIN devices : devices'[d].closed = "no"
  PROVE  ClosedRoots' = ClosedRoots
<1>1. \A x : x \in ClosedRoots => x \in ClosedRoots'
  BY DEF ClosedRoots, Open
<1>2. \A x : x \in ClosedRoots' => x \in ClosedRoots
  BY DEF ClosedRoots, Open
<1> QED  BY <1>1, <1>2

(* The session of a family whose token is rotated is open. *)
LEMMA OwnerOpen ==
  ASSUME Inv, NEW t \in DOMAIN tokens,
         ~tokens[t].native \/ \E d \in DOMAIN devices : Open(d) /\ devices[d].current = t
  PROVE  tokens[t].family \notin ClosedRoots
<1>a. /\ DeviceInv /\ FamilyInv
      /\ \A e \in DOMAIN devices : devices[e].current \in DOMAIN tokens
  BY DEF Inv, TypeOK
<1>1. ASSUME NEW e \in DOMAIN devices, ~Open(e), devices[e].root = tokens[t].family
      PROVE  FALSE
  <2>1. tokens[devices[e].current].family = tokens[t].family /\ tokens[devices[e].current].native
    BY <1>a, <1>1 DEF DeviceInv, DeviceSound
  <2>2. tokens[t].native
    BY <1>a, <2>1 DEF FamilyInv
  <2>3. PICK d \in DOMAIN devices : Open(d) /\ devices[d].current = t
    BY <2>2
  <2>4. devices[d].root = devices[e].root
    BY <1>a, <1>1, <2>3 DEF DeviceInv, DeviceSound
  <2>5. d = e
    BY <1>a, <2>4 DEF DeviceInv
  <2> QED  BY <1>1, <2>3, <2>5
<1> QED  BY <1>1 DEF ClosedRoots

CredentialStep == Credentials!Next \/ UNCHANGED Credentials!vars

LEMMA IssueImplements ==
  ASSUME Inv, Issues, ClosedRoots' = ClosedRoots, tokens'[Len(tokens) + 1].revoked = "no"
  PROVE  Credentials!SignIn
<1> DEFINE n == Len(tokens) + 1
<1>a. TypeOK /\ tokens \in Seq(Token) /\ DOMAIN tokens = 1 .. Len(tokens) /\ Len(tokens) \in Nat
  BY DEF Inv, TypeOK
<1>1. /\ tokens' \in Seq(Token) /\ Len(tokens') = n /\ tokens'[n].family = n
      /\ \A t \in DOMAIN tokens : tokens'[t] = tokens[t]
  BY <1>a, IssuesShape
<1>2. Owners' = Append(Owners, n) /\ Len(Owners) = Len(tokens)
  BY <1>a, <1>1, OwnersGrow
<1>3. DOMAIN tokens' = DOMAIN tokens \union {n} /\ n \notin DOMAIN tokens
  BY <1>a, <1>1
<1>4. Working' = Working \union {n}
  BY <1>1, <1>3 DEF Working, Live
<1> QED  BY <1>2, <1>4 DEF Credentials!SignIn

LEMMA ExtendImplements ==
  ASSUME Inv, NEW t \in DOMAIN tokens, Extends(t), ClosedRoots' = ClosedRoots,
         ~tokens[t].native \/ \E d \in DOMAIN devices : Open(d) /\ devices[d].current = t
  PROVE  t \in Working /\ Credentials!Rotate(t)
<1> DEFINE n == Len(tokens) + 1
<1>a. TypeOK /\ tokens \in Seq(Token) /\ DOMAIN tokens = 1 .. Len(tokens) /\ Len(tokens) \in Nat
  BY DEF Inv, TypeOK
<1>1. /\ tokens' \in Seq(Token) /\ Len(tokens') = n
      /\ \A u \in DOMAIN tokens \ {t} : tokens'[u] = tokens[u]
      /\ tokens'[t].family = tokens[t].family /\ tokens'[t].revoked = "fresh"
      /\ tokens'[n] = New(tokens[t].family, tokens[t].native)
  BY <1>a, ExtendsShape
<1>2. tokens'[n].family = tokens[t].family /\ tokens'[n].revoked = "no"
  BY <1>1 DEF New
<1>3. \A u \in DOMAIN tokens : tokens'[u].family = tokens[u].family
  BY <1>1
<1>4. Owners' = Append(Owners, tokens[t].family) /\ Len(Owners) = Len(tokens) /\ Owners[t] = tokens[t].family
  BY <1>a, <1>1, <1>2, <1>3, OwnersGrow DEF Owners
<1>5. t \in Working
  BY DEF Extends, Retirable, Working
<1>6. Working' = (Working \ {t}) \union {n}
  <2>1. DOMAIN tokens' = DOMAIN tokens \union {n} /\ n \notin DOMAIN tokens
    BY <1>a, <1>1
  <2> QED  BY <1>1, <1>2, <2>1 DEF Working, Live
<1>7. Owners[t] \notin ClosedRoots
  BY <1>4, OwnerOpen
<1> QED  BY <1>4, <1>5, <1>6, <1>7 DEF Credentials!Rotate

LEMMA RootsExist ==
  ASSUME Inv
  PROVE  \A d \in DOMAIN devices : devices[d].root \in 1 .. Len(Owners)
<1>a. TypeOK /\ tokens \in Seq(Token) /\ DOMAIN tokens = 1 .. Len(tokens) /\ DeviceInv
  BY DEF Inv, TypeOK
<1>1. Len(Owners) = Len(tokens)
  BY <1>a, OwnersAre, Zenon DEF Owners
<1> QED  BY <1>a, <1>1 DEF DeviceInv

LEMMA RevokeImplements ==
  ASSUME Inv, Revokes, devices' = devices
  PROVE  Credentials!Revoke
<1>a. TypeOK /\ tokens \in Seq(Token) /\ DOMAIN tokens = 1 .. Len(tokens)
  BY DEF Inv, TypeOK
<1>1. DOMAIN tokens' = DOMAIN tokens
  BY <1>a DEF Revokes
<1>2. Owners' = Owners
  BY <1>a, OwnersKept DEF Revokes
<1>3. ClosedRoots' = ClosedRoots
  BY RootsKept
<1>4. Working' \subseteq Working
  BY <1>1 DEF Revokes, Working, Live
<1>5. ClosedRoots \subseteq 1 .. Len(Owners)
  BY RootsExist DEF ClosedRoots
<1> HIDE DEF Working, ClosedRoots
<1> QED  BY <1>2, <1>3, <1>4, <1>5 DEF Credentials!Revoke

(* Of a session closed by itself no token works any more; the others close their sign-ins
   and leave the tokens alone. *)
LEMMA EndsImplements ==
  ASSUME Inv, NEW D \in SUBSET DOMAIN devices, NEW why \in Reasons, Ends(D, why)
  PROVE  Credentials!Revoke \/ Credentials!Close
<1>a. TypeOK /\ tokens \in Seq(Token) /\ DOMAIN tokens = 1 .. Len(tokens)
  BY DEF Inv, TypeOK
<1>b. /\ DOMAIN devices' = DOMAIN devices
      /\ \A d \in DOMAIN devices :
           /\ devices'[d].root = devices[d].root
           /\ devices'[d].closed = IF d \in D THEN why ELSE devices[d].closed
  BY <1>a, EndsShape
<1>c. Revokes
  BY DEF Ends
<1>1. DOMAIN tokens' = DOMAIN tokens
  BY <1>a, <1>c DEF Revokes
<1>2. Owners' = Owners
  BY <1>a, <1>c, OwnersKept DEF Revokes
<1>3. \A d \in DOMAIN devices : Open(d)' <=> Open(d) /\ d \notin D
  BY <1>b DEF Open, Reasons
<1>4. ClosedRoots \subseteq ClosedRoots'
  BY <1>b, <1>3 DEF ClosedRoots
<1>5. ClosedRoots' \subseteq 1 .. Len(Owners)
  BY <1>b, RootsExist DEF ClosedRoots
<1>6. \A x \in ClosedRoots' \ ClosedRoots : \E d \in D : x = devices[d].root
  BY <1>b, <1>3 DEF ClosedRoots
<1>7. CASE why \in {"reuse", "swept"}
  <2>1. Working' = Working
    BY <1>7 DEF Ends, Working, Live
  <2> QED  BY <1>2, <1>4, <1>5, <2>1 DEF Credentials!Close
<1>8. CASE why \in {"session", "access"}
  <2>1. \A t \in DOMAIN tokens : Owners[t] = tokens[t].family
    BY DEF Owners
  <2>2. \A t \in Working' : t \in Working /\ Owners[t] \notin ClosedRoots' \ ClosedRoots
    BY <1>1, <1>6, <1>8, <1>c, <2>1 DEF Ends, Working, Live, Revokes
  <2> HIDE DEF Working, ClosedRoots
  <2> QED  BY <1>2, <1>4, <1>5, <2>2 DEF Credentials!Revoke
<1> QED  BY <1>7, <1>8 DEF Reasons

LEMMA CredentialStepHolds ==
  ASSUME Inv, [Next]_vars
  PROVE  CredentialStep
<1>a. /\ TypeOK /\ Kinds /\ tokens \in Seq(Token) /\ devices \in Seq(Device)
      /\ \A d \in DOMAIN devices : devices[d].current \in DOMAIN tokens
  BY KindsHold DEF Inv, TypeOK
<1>1. CASE UNCHANGED <<tokens, devices>>
  <2>1. UNCHANGED <<Owners, Working, ClosedRoots>>
    BY <1>1 DEF Owners, Working, Live, ClosedRoots, Open
  <2> QED  BY <2>1 DEF CredentialStep, Credentials!vars
<1>2. CASE Issues /\ devices' = devices
  <2>1. ClosedRoots' = ClosedRoots
    BY <1>2, RootsKept
  <2>2. tokens'[Len(tokens) + 1].revoked = "no"
    <3>1. PICK native \in BOOLEAN : tokens' = Append(tokens, New(Len(tokens) + 1, native))
      BY <1>2 DEF Issues
    <3>2. New(Len(tokens) + 1, native) \in Token /\ New(Len(tokens) + 1, native).revoked = "no"
      BY <1>a DEF New, Token
    <3> HIDE DEF New
    <3> QED  BY <1>a, <3>1, <3>2, AppendProperties
  <2>3. Credentials!SignIn
    BY <1>2, <2>1, <2>2, IssueImplements
  <2> QED  BY <2>3 DEF CredentialStep, Credentials!Next
<1>3. ASSUME NEW c \in Codes, Opens(Len(tokens) + 1, c)
      PROVE  CredentialStep
  <2>1. /\ Issues /\ devices' \in Seq(Device) /\ Len(devices') = Len(devices) + 1
        /\ \A d \in DOMAIN devices : devices'[d] = devices[d]
        /\ devices'[Len(devices) + 1] =
              [root |-> Len(tokens) + 1, current |-> Len(tokens) + 1, closed |-> "no", code |-> c]
        /\ tokens'[Len(tokens) + 1] = New(Len(tokens) + 1, TRUE)
    BY <1>3, <1>a, OpensShape
  <2>2. tokens'[Len(tokens) + 1].revoked = "no" /\ devices'[Len(devices) + 1].closed = "no"
    BY <2>1 DEF New
  <2>3. DOMAIN devices' = DOMAIN devices \union {Len(devices) + 1}
    BY <1>a, <2>1
  <2>4. ClosedRoots' = ClosedRoots
    BY <2>1, <2>2, <2>3, RootsKept
  <2>5. Credentials!SignIn
    BY <2>1, <2>2, <2>4, IssueImplements
  <2> QED  BY <2>5 DEF CredentialStep, Credentials!Next
<1>4. ASSUME NEW t \in DOMAIN tokens, ~tokens[t].native, Extends(t), devices' = devices
      PROVE  CredentialStep
  <2>1. ClosedRoots' = ClosedRoots
    BY <1>4, RootsKept
  <2>2. t \in Working /\ Credentials!Rotate(t)
    BY <1>4, <2>1, ExtendImplements
  <2> QED  BY <2>2 DEF CredentialStep, Credentials!Next
<1>5. ASSUME NEW d \in DOMAIN devices, Moved(d)
      PROVE  CredentialStep
  <2> DEFINE t == devices[d].current
  <2>1. t \in DOMAIN tokens /\ Extends(t) /\ Open(d)
    BY <1>5, <1>a DEF Moved
  <2>2. ClosedRoots' = ClosedRoots
    <3>1. /\ devices' \in Seq(Device) /\ Len(devices') = Len(devices)
          /\ \A e \in DOMAIN devices \ {d} : devices'[e] = devices[e]
          /\ devices'[d].root = devices[d].root /\ devices'[d].closed = "no"
      BY <1>5, <1>a, MovedShape
    <3>2. DOMAIN devices' = DOMAIN devices
      BY <1>a, <3>1
    <3> QED  BY <2>1, <3>1, <3>2, RootsKept DEF Open
  <2>3. t \in Working /\ Credentials!Rotate(t)
    BY <2>1, <2>2, ExtendImplements
  <2> QED  BY <2>3 DEF CredentialStep, Credentials!Next
<1>6. CASE Revokes /\ devices' = devices
  BY <1>6, RevokeImplements DEF CredentialStep, Credentials!Next
<1>7. ASSUME NEW D \in SUBSET DOMAIN devices, NEW why \in Reasons, Ends(D, why)
      PROVE  CredentialStep
  BY <1>7, EndsImplements DEF CredentialStep, Credentials!Next
<1> QED  BY <1>a, <1>1, <1>2, <1>3, <1>4, <1>5, <1>6, <1>7 DEF Kinds

(* rotate, rotateForSession, revokeSession, removeProductAccess, the cascades and the sweep,
   for any number of requests that overlap, implement rotating credentials: a token is
   replaced in one step by one that works, nothing that was replaced or revoked works
   again, closing sessions by themselves leaves none of their tokens working, and the
   family of a closed session is never extended. *)
THEOREM CredentialsRefined == Spec => ImplementsCredentials
<1>1. Init => Credentials!Init
  BY DEF Init, Credentials!Init, Owners, Working, ClosedRoots
<1>2. Inv /\ [Next]_vars => [Credentials!Next]_(Credentials!vars)
  BY CredentialStepHolds DEF CredentialStep
<1> QED  BY <1>1, <1>2, Invariant, PTL DEF Spec, ImplementsCredentials, Credentials!Spec
=============================================================================
