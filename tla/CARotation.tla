----------------------------- MODULE CARotation -----------------------------
(***************************************************************************)
(* What the certificate manager promises about its certificate             *)
(* authorities, whatever calls fail and wherever it is interrupted: at     *)
(* most two CAs are stored, certificates are only signed by and webhooks   *)
(* are only told to trust a stored CA, and a CA is thrown away only after  *)
(* it expired.                                                             *)
(***************************************************************************)
EXTENDS Integers, TLAPS

CONSTANTS
  CAs,          \* CA certificates with their keys
  None,
  CAValidity    \* how long a new CA is valid

VARIABLES
  stored,  \* the CAs held in secrets
  life,    \* the time each CA has left; -1: expired
  signer,  \* the CA that signed the stored server certificate, None if there is none
  bundle   \* the CA the webhook configuration trusts

vars == <<stored, life, signer, bundle>>

Expired(c) == life[c] < 0

Age(x) == IF x < 0 THEN x ELSE x - 1

TypeOK ==
  /\ stored \subseteq CAs
  /\ life \in [CAs -> -1..CAValidity]
  /\ signer \in CAs \union {None}
  /\ bundle \in CAs \union {None}

Init ==
  /\ stored = {}
  /\ life = [c \in CAs |-> -1]
  /\ signer = None
  /\ bundle = None

\* A new CA joins at most one other.
Introduce(c) ==
  /\ c \notin stored \union {signer, bundle}
  /\ \A d, e \in stored : d = e
  /\ stored' = stored \union {c}
  /\ life' = [life EXCEPT ![c] = CAValidity]
  /\ UNCHANGED <<signer, bundle>>

Retire(c) ==
  /\ c \in stored /\ Expired(c)
  /\ stored' = stored \ {c}
  /\ UNCHANGED <<life, signer, bundle>>

Sign(c) ==
  /\ c \in stored
  /\ signer' = c
  /\ UNCHANGED <<stored, life, bundle>>

Publish(c) ==
  /\ c \in stored
  /\ bundle' = c
  /\ UNCHANGED <<stored, life, signer>>

\* Somebody else deletes or empties the secret of the server certificate.
LoseCertificate ==
  /\ signer' = None
  /\ UNCHANGED <<stored, life, bundle>>

Pass ==
  /\ life' = [c \in CAs |-> Age(life[c])]
  /\ UNCHANGED <<stored, signer, bundle>>

Next ==
  \/ \E c \in CAs : Introduce(c) \/ Retire(c) \/ Sign(c) \/ Publish(c)
  \/ LoseCertificate
  \/ Pass

Spec == Init /\ [][Next]_vars

(***************************************************************************)
(* The CA that signed the stored certificate, and the CA the webhook       *)
(* configuration trusts, are still stored as long as they are valid: a     *)
(* renewal before their end can always be signed by a CA that is already   *)
(* trusted (ensureCA, generateServerCert, patchWebhookConfiguration).      *)
(***************************************************************************)
SignerKept ==
  \A c \in {signer, bundle} \ {None} : c \in stored \/ Expired(c)
-----------------------------------------------------------------------------
\* What SignerKept needs to be inductive: ages are ages, so an expired CA stays so.
LEMMA AgeKeepsExpired ==
  ASSUME CAValidity \in Nat, NEW x \in -1..CAValidity
  PROVE  Age(x) \in -1..CAValidity /\ (x < 0 => Age(x) < 0)
BY DEF Age

\* The abstract specification keeps its promise for any set of CAs and any validity.
THEOREM RotationKeepsSigner ==
  ASSUME CAValidity \in Nat PROVE Spec => [](TypeOK /\ SignerKept)
<1>1. Init => TypeOK /\ SignerKept
  BY DEF Init, TypeOK, SignerKept
<1>2. TypeOK /\ SignerKept /\ [Next]_vars => TypeOK' /\ SignerKept'
  <2> SUFFICES ASSUME TypeOK, SignerKept, [Next]_vars
               PROVE  TypeOK' /\ SignerKept'
    OBVIOUS
  <2>1. ASSUME NEW c \in CAs, Introduce(c) PROVE TypeOK' /\ SignerKept'
    BY <2>1 DEF Introduce, TypeOK, SignerKept, Expired
  <2>2. ASSUME NEW c \in CAs, Retire(c) PROVE TypeOK' /\ SignerKept'
    BY <2>2 DEF Retire, TypeOK, SignerKept, Expired
  <2>3. ASSUME NEW c \in CAs, Sign(c) PROVE TypeOK' /\ SignerKept'
    BY <2>3 DEF Sign, TypeOK, SignerKept, Expired
  <2>4. ASSUME NEW c \in CAs, Publish(c) PROVE TypeOK' /\ SignerKept'
    BY <2>4 DEF Publish, TypeOK, SignerKept, Expired
  <2>5. CASE LoseCertificate
    BY <2>5 DEF LoseCertificate, TypeOK, SignerKept, Expired
  <2>6. CASE Pass
    BY <2>6, AgeKeepsExpired DEF Pass, TypeOK, SignerKept, Expired
  <2>7. CASE UNCHANGED vars
    BY <2>7 DEF vars, TypeOK, SignerKept, Expired
  <2> QED BY <2>1, <2>2, <2>3, <2>4, <2>5, <2>6, <2>7 DEF Next
<1> QED BY <1>1, <1>2, PTL DEF Spec
=============================================================================
