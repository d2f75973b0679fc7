-------------------------- MODULE EnvelopeLifecycle --------------------------
(***************************************************************************)
(* What an e-sign envelope promises the application that sent it, without     *)
(* sessions, invitations, access codes or delegates: a party acts only while *)
(* the envelope is open and those it waits for have signed, the envelope is   *)
(* complete exactly when the last party signs, every document is executed     *)
(* with the fields of the completed envelope, and its end is told once.      *)
(***************************************************************************)
EXTENDS Sequences

CONSTANTS
  Parties,    \* those who have to sign
  Documents,  \* what is to be executed
  Values,     \* what a party may fill in
  None        \* nothing filled in, or not executed

VARIABLES
  waitsFor,   \* waitsFor[p]: the parties who have to sign before p may act
  phase,      \* where the envelope is
  fields,     \* fields[p]: what p has filled in
  signed,     \* the parties who have signed
  executed,   \* executed[d]: the fields document d was executed with
  told        \* the ends the application has heard of

vars == <<waitsFor, phase, fields, signed, executed, told>>

Init ==
  /\ waitsFor \in [Parties -> SUBSET Parties]
  /\ phase = "draft"
  /\ fields = [p \in Parties |-> None]
  /\ signed = {}
  /\ executed = [d \in Documents |-> None]
  /\ told = << >>

\* p may act: the envelope is open and it is p's turn.
Ready(p) == phase = "open" /\ waitsFor[p] \subseteq signed

\* An end other than completion is told with it.
EndsAs(end) ==
  /\ phase' = end
  /\ told = << >>
  /\ told' = <<end>>

Send ==
  /\ phase = "draft"
  /\ phase' = "open"
  /\ UNCHANGED <<waitsFor, fields, signed, executed, told>>

\* p changes what p has filled in, and nothing else.
Fill(p) ==
  /\ Ready(p)
  /\ fields' \in [Parties -> Values \union {None}]
  /\ \A q \in Parties \ {p} : fields'[q] = fields[q]
  /\ UNCHANGED <<waitsFor, phase, signed, executed, told>>

Sign(p) ==
  /\ Ready(p)
  /\ fields[p] # None
  /\ signed' = signed \union {p}
  /\ phase' = IF signed' = Parties THEN "COMPLETED" ELSE "open"
  /\ UNCHANGED <<waitsFor, fields, executed, told>>

\* Whoever declines has not signed, whatever they did before.
Decline(p) ==
  /\ Ready(p)
  /\ signed' = signed \ {p}
  /\ EndsAs("DECLINED")
  /\ UNCHANGED <<waitsFor, fields, executed>>

Withdraw(end) ==
  /\ phase \in {"draft", "open"}
  /\ EndsAs(end)
  /\ UNCHANGED <<waitsFor, fields, signed, executed>>

Execute(d) ==
  /\ phase = "COMPLETED"
  /\ executed[d] = None
  /\ executed' = [executed EXCEPT ![d] = fields]
  /\ UNCHANGED <<waitsFor, phase, fields, signed, told>>

Certify ==
  /\ phase = "COMPLETED"
  /\ \A d \in Documents : executed[d] # None
  /\ told = << >>
  /\ told' = <<"EXECUTED">>
  /\ UNCHANGED <<waitsFor, phase, fields, signed, executed>>

Next ==
  \/ Send
  \/ \E p \in Parties : Fill(p) \/ Sign(p) \/ Decline(p)
  \/ \E end \in {"VOIDED", "EXPIRED"} : Withdraw(end)
  \/ \E d \in Documents : Execute(d)
  \/ Certify

Spec == Init /\ [][Next]_vars
=============================================================================
