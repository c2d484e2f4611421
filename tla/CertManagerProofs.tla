-------------------------- MODULE CertManagerProofs --------------------------
(***************************************************************************)
(* Proofs about CertManager: type correctness, that an undisturbed manager *)
(* leaves no gap in trust for any validity periods and thresholds that     *)
(* satisfy PeriodAssumption, and that every behaviour, faults included,    *)
(* implements CARotation.  Then the same for the manager composed with the *)
(* secret watchers of WebhookCerts, that no watcher ever goes back to an   *)
(* older certificate, that none misses a change, and that undisturbed      *)
(* handshakes are accepted.                                                *)
(***************************************************************************)
EXTENDS WebhookCerts, TLAPS

\* How long, in seconds, the provers may try a leaf.
USE SMTT(15), ZenonT(20)

\* The CAs between two checks, slack time units after the last one: a CA without a
\* successor is not yet due, or due for at most slack; a successor outlives its
\* predecessor by the time that will be needed.
Settled(slack) ==
  /\ ca # None
  /\ IF new = None THEN life[ca] >= CARenewThreshold - slack
     ELSE /\ new # ca
          /\ IF Expired(ca)
             THEN life[new] >= CARenewThreshold + CheckInterval - slack
             ELSE life[new] >= life[ca] + CARenewThreshold + CheckInterval + 1

Strong(c) == c # None /\ life[c] >= CARenewThreshold

\* What the manager knows of the CAs before each call of an undisturbed pass.
CAInv ==
  /\ pc \in {"down", "generateCA"} => ca = None /\ new = None
  /\ pc = "getNew" => (ca = None /\ new = None) \/ Settled(CheckInterval)
  /\ pc \in {"getOld", "deleteOld"} => Settled(CheckInterval) /\ new # None /\ chosen = new
  /\ pc = "deleteOld" => Expired(ca)
  /\ pc = "createPrimary" => ca = None /\ Strong(new) /\ chosen = new
  /\ pc = "deleteNew" => ca = chosen /\ Strong(chosen)
  /\ pc \in {"getCA", "generateNew"} => new = None /\ (ca = None \/ Settled(CheckInterval))
  /\ pc = "generateNew" => Settled(CheckInterval) /\ life[ca] < CARenewThreshold
  /\ pc \in {"getServer", "store", "patch"} => Settled(0) /\ Strong(chosen)
  /\ pc = "idle" => Settled(since)

\* What it knows of the server certificate: it ends before its CA does, and the
\* webhook configuration trusts its CA except between the last two calls of a pass.
ServerInv ==
  /\ HasCert => life[server.issuer] >= server.left
  /\ HasCert /\ pc # "patch" => bundle = server.issuer
  /\ pc = "patch" => HasCert /\ server.issuer = chosen /\ server.left = CertValidity
  /\ pc = "idle" => HasCert /\ server.left >= RenewThreshold - since
  /\ pc \in Calls => since = 0

CertInv == faults = 0 => CAInv /\ ServerInv
-----------------------------------------------------------------------------
(* Type correctness.                                                       *)

LEMMA AgeType ==
  ASSUME NEW m \in Nat, NEW x \in -1..m PROVE Age(x) \in -1..m
BY DEF Age

LEMMA GeneratedType ==
  ASSUME NEW c \in CAs, TypeOK, Generated(c) PROVE life' \in [CAs -> -1..CAValidity]
BY PeriodAssumption DEF TypeOK, Generated

\* Time leaves every certificate a certificate.
LEMMA TickTypes ==
  ASSUME TypeOK, Tick
  PROVE  /\ life' \in [CAs -> -1..CAValidity]
         /\ server' \in Certificates \union {None, Empty}
<1>1. life' \in [CAs -> -1..CAValidity]
  BY AgeType, PeriodAssumption DEF TypeOK, Tick
<1>2. CASE HasCert
  <2>1. server \in Certificates
    BY <1>2 DEF TypeOK, HasCert
  <2>2. Age(server.left) \in -1..CertValidity
    BY <2>1, AgeType, PeriodAssumption DEF Certificates
  <2> QED BY <1>1, <1>2, <2>1, <2>2 DEF Tick, Certificates
<1>3. CASE ~HasCert
  BY <1>1, <1>3 DEF Tick, TypeOK
<1> QED BY <1>2, <1>3

LEMMA NewCertType ==
  ASSUME chosen \in CAs PROVE NewCert \in Certificates
BY PeriodAssumption DEF NewCert, Certificates

\* Whatever fails: the CA the manager has chosen is one of the two it stores, and
\* the old one it deletes is expired.
ChosenInv ==
  /\ pc \in {"getOld", "deleteOld", "createPrimary", "deleteNew"} => new # None /\ chosen = new
  /\ pc = "deleteOld" => ca # None /\ Expired(ca)
  /\ pc = "deleteNew" => ca = chosen
  /\ pc = "generateNew" => ca # None /\ chosen = ca
  /\ pc = "generateCA" => ca = None
  /\ pc \in {"getServer", "store", "patch"} => chosen # None /\ chosen \in {ca, new}

LEMMA StepKeepsChosen ==
  ASSUME TypeOK, ChosenInv, [Next]_certVars PROVE TypeOK' /\ ChosenInv'
<1> USE DEF At, Continue, ReturnError, Return, Succeeds, Fails, apiVars, CAOrNone, Calls
<1>0. faults < MaxFaults /\ faults' = faults + 1 => faults' \in 0..MaxFaults
  BY FaultAssumption DEF TypeOK
<1>1. CASE Start
  BY <1>1, PeriodAssumption DEF Start, TypeOK, ChosenInv
<1>2. CASE Check
  BY <1>2 DEF Check, TypeOK, ChosenInv
<1>3. CASE GetNewCA
  BY <1>0, <1>3 DEF GetNewCA, TypeOK, ChosenInv, Expired
<1>4. CASE GetOldCA
  BY <1>0, <1>4 DEF GetOldCA, TypeOK, ChosenInv, Expired
<1>5. CASE DeleteOldCA
  BY <1>0, <1>5 DEF DeleteOldCA, TypeOK, ChosenInv, Expired
<1>6. CASE CreatePrimaryCA
  BY <1>0, <1>6 DEF CreatePrimaryCA, TypeOK, ChosenInv, Expired
<1>7. CASE DeleteNewCA
  BY <1>0, <1>7 DEF DeleteNewCA, TypeOK, ChosenInv, Expired
<1>8. CASE GetCA
  BY <1>0, <1>8 DEF GetCA, TypeOK, ChosenInv, Expired
<1>9. CASE GenerateNewCA
  <2>1. life' \in [CAs -> -1..CAValidity]
    BY <1>9, GeneratedType DEF GenerateNewCA, TypeOK
  <2>2. new' \in CAOrNone /\ (chosen' = chosen \/ (chosen' = new' /\ new' \in CAs))
    BY <1>9 DEF GenerateNewCA, TypeOK
  <2> QED BY <1>0, <1>9, <2>1, <2>2, SentinelAssumption DEF GenerateNewCA, TypeOK, ChosenInv
<1>10. CASE GenerateCA
  <2>1. life' \in [CAs -> -1..CAValidity]
    BY <1>10, GeneratedType DEF GenerateCA, TypeOK
  <2>2. ca' \in CAOrNone /\ (pc' = "getServer" => chosen' = ca' /\ ca' \in CAs)
    BY <1>10 DEF GenerateCA, TypeOK
  <2> QED BY <1>0, <1>10, <2>1, <2>2, SentinelAssumption DEF GenerateCA, TypeOK, ChosenInv
<1>11. CASE NeedsServerCert
  <2>1. /\ faults' \in 0..MaxFaults /\ UNCHANGED <<apiVars, since>>
        /\ \/ Continue("store", chosen)
           \/ Return
           \/ ReturnError
    BY <1>0, <1>11 DEF NeedsServerCert, Judge, TypeOK
  <2> QED BY <1>11, <2>1 DEF NeedsServerCert, TypeOK, ChosenInv
<1>12. CASE StoreServerCert
  BY <1>0, <1>12, NewCertType DEF StoreServerCert, TypeOK, ChosenInv
<1>13. CASE PatchWebhookConfiguration
  BY <1>0, <1>13 DEF PatchWebhookConfiguration, TypeOK, ChosenInv
<1>14. CASE Tick
  BY <1>14, TickTypes, PeriodAssumption DEF Tick, TypeOK, ChosenInv
<1>15. CASE Crash
  BY <1>0, <1>15 DEF Crash, TypeOK, ChosenInv
<1>16. CASE Tamper
  BY <1>0, <1>16 DEF Tamper, managerVars, TypeOK, ChosenInv, Expired
<1>17. CASE UNCHANGED certVars
  BY <1>17 DEF certVars, TypeOK, ChosenInv, Expired
<1> QED
  BY <1>1, <1>2, <1>3, <1>4, <1>5, <1>6, <1>7, <1>8, <1>9, <1>10, <1>11, <1>12, <1>13,
     <1>14, <1>15, <1>16, <1>17 DEF Next, ensureCertificate, ensureCA

LEMMA InitManager ==
  ASSUME Init PROVE TypeOK /\ ChosenInv /\ CertInv /\ Rotation!Init
<1>1. life \in [CAs -> -1..CAValidity] /\ since \in 0..CheckInterval /\ faults \in 0..MaxFaults
  BY PeriodAssumption, FaultAssumption DEF Init
<1>2. starting \in BOOLEAN
  BY Zenon DEF Init
<1>3. TypeOK /\ ChosenInv
  BY <1>1, <1>2 DEF Init, TypeOK, ChosenInv, CAOrNone, Calls
<1>4. CertInv
  BY DEF Init, CertInv, CAInv, ServerInv, HasCert, Calls
<1>5. Rotation!Init
  BY DEF Init, Rotation!Init, HasCert
<1> QED BY <1>3, <1>4, <1>5

\* Every variable of the manager keeps its type, and the CA it goes on with is
\* stored, whatever calls fail (ensureCA, ensureCertificate).
THEOREM ManagerTypes == Spec => [](TypeOK /\ ChosenInv)
<1>1. Init => TypeOK /\ ChosenInv
  BY InitManager
<1>2. TypeOK /\ ChosenInv /\ [Next]_certVars => TypeOK' /\ ChosenInv'
  BY StepKeepsChosen
<1> QED BY <1>1, <1>2, PTL DEF Spec
-----------------------------------------------------------------------------
(* CertManager implements CARotation.                                      *)

\* A step that leaves the CAs, the certificate's issuer and the bundle alone.
LEMMA RotationStutters ==
  ASSUME UNCHANGED <<ca, new, server, bundle, life>> PROVE UNCHANGED Rotation!vars
BY DEF Rotation!vars, HasCert

\* Generating a CA for a free name is an Introduce.
LEMMA RotationIntroduces ==
  ASSUME TypeOK, NEW c \in CAs, NewCA(c), Generated(c),
         UNCHANGED <<server, bundle>>,
         \/ new = None /\ new' = c /\ UNCHANGED ca
         \/ ca = None /\ ca' = c /\ UNCHANGED new
  PROVE  Rotation!Introduce(c)
BY SentinelAssumption
DEF Rotation!Introduce, TypeOK, CAOrNone, NewCA, Generated, HasCert

LEMMA StepImplementsRotation ==
  ASSUME TypeOK, ChosenInv, [Next]_certVars
  PROVE  [Rotation!Next]_(Rotation!vars)
<1> USE DEF At, apiVars
<1>1. CASE Start \/ Check \/ GetNewCA \/ GetOldCA \/ GetCA \/ NeedsServerCert
           \/ Crash \/ UNCHANGED certVars
  <2>1. UNCHANGED <<ca, new, server, bundle, life>>
    BY <1>1 DEF Start, Check, GetNewCA, GetOldCA, GetCA, NeedsServerCert, Crash, certVars
  <2> QED BY <2>1, RotationStutters
<1>2. CASE DeleteOldCA
  <2>1. CASE ca' = ca
    BY <1>2, <2>1, RotationStutters DEF DeleteOldCA
  <2>2. CASE ca' = None /\ ca = new
    BY <1>2, <2>2 DEF DeleteOldCA, Rotation!vars, HasCert
  <2>3. CASE ca' = None /\ ca # new
    <3>1. ca \in CAs /\ Rotation!Retire(ca)
      BY <1>2, <2>3, SentinelAssumption
      DEF DeleteOldCA, TypeOK, ChosenInv, CAOrNone, Rotation!Retire, Rotation!Expired,
          Expired, HasCert
    <3> QED BY <3>1 DEF Rotation!Next
  <2> QED BY <1>2, <2>1, <2>2, <2>3 DEF DeleteOldCA
<1>3. CASE CreatePrimaryCA
  <2>1. {ca', new'} \ {None} = {ca, new} \ {None}
    BY <1>3 DEF CreatePrimaryCA, ChosenInv
  <2> QED BY <1>3, <2>1 DEF CreatePrimaryCA, Rotation!vars, HasCert
<1>4. CASE DeleteNewCA
  <2>1. {ca', new'} \ {None} = {ca, new} \ {None}
    BY <1>4 DEF DeleteNewCA, ChosenInv
  <2> QED BY <1>4, <2>1 DEF DeleteNewCA, Rotation!vars, HasCert
<1>5. CASE GenerateNewCA
  <2>1. \/ UNCHANGED <<ca, new, server, bundle, life>>
        \/ \E c \in CAs : Rotation!Introduce(c)
    BY <1>5, RotationIntroduces DEF GenerateNewCA
  <2> QED BY <2>1, RotationStutters DEF Rotation!Next
<1>6. CASE GenerateCA
  <2>1. \/ UNCHANGED <<ca, new, server, bundle, life>>
        \/ \E c \in CAs : Rotation!Introduce(c)
    BY <1>6, RotationIntroduces DEF GenerateCA, ChosenInv
  <2> QED BY <2>1, RotationStutters DEF Rotation!Next
<1>7. CASE StoreServerCert
  <2>1. CASE server' = server
    BY <1>7, <2>1, RotationStutters DEF StoreServerCert
  <2>2. CASE server' = NewCert
    <3>1. chosen \in CAs /\ chosen \in {ca, new} \ {None}
      BY <1>7, SentinelAssumption DEF StoreServerCert, TypeOK, ChosenInv, CAOrNone
    <3>2. HasCert' /\ server'.issuer = chosen
      BY <2>2, <3>1, NewCertType, SentinelAssumption DEF HasCert, NewCert
    <3>3. Rotation!Sign(chosen)
      BY <1>7, <3>1, <3>2 DEF StoreServerCert, Rotation!Sign
    <3> QED BY <3>1, <3>3 DEF Rotation!Next
  <2> QED BY <1>7, <2>1, <2>2 DEF StoreServerCert
<1>8. CASE PatchWebhookConfiguration
  <2>1. CASE bundle' = bundle
    BY <1>8, <2>1, RotationStutters DEF PatchWebhookConfiguration
  <2>2. CASE bundle' = chosen
    <3>1. chosen \in CAs /\ Rotation!Publish(chosen)
      BY <1>8, <2>2, SentinelAssumption
      DEF PatchWebhookConfiguration, TypeOK, ChosenInv, CAOrNone, Rotation!Publish, HasCert
    <3> QED BY <3>1 DEF Rotation!Next
  <2> QED BY <1>8, <2>1, <2>2 DEF PatchWebhookConfiguration
<1>9. CASE Tick
  <2>1. life' = [c \in CAs |-> Rotation!Age(life[c])]
    BY <1>9 DEF Tick, Age, Rotation!Age
  <2>2. (IF HasCert THEN server.issuer ELSE None)' = IF HasCert THEN server.issuer ELSE None
    <3>1. CASE HasCert
      <4>1. server \in Certificates /\ server' = [server EXCEPT !.left = Age(@)]
        BY <1>9, <3>1 DEF Tick, TypeOK, HasCert
      <4>2. server'.issuer = server.issuer
        BY <4>1 DEF Certificates
      <4>3. Age(server.left) \in -1..CertValidity
        BY <4>1, AgeType, PeriodAssumption DEF Certificates
      <4>4. server' \in Certificates
        BY <4>1, <4>3 DEF Certificates
      <4> QED BY <3>1, <4>2, <4>4, SentinelAssumption DEF HasCert
    <3>2. CASE ~HasCert
      BY <1>9, <3>2 DEF Tick, HasCert
    <3> QED BY <3>1, <3>2
  <2>3. Rotation!Pass
    BY <1>9, <2>1, <2>2 DEF Tick, Rotation!Pass
  <2> QED BY <2>3 DEF Rotation!Next
<1>10. CASE Tamper
  <2>1. Rotation!LoseCertificate
    BY <1>10 DEF Tamper, Rotation!LoseCertificate, HasCert
  <2> QED BY <2>1 DEF Rotation!Next
<1> QED
  BY <1>1, <1>2, <1>3, <1>4, <1>5, <1>6, <1>7, <1>8, <1>9, <1>10
  DEF Next, ensureCertificate, ensureCA

\* Whatever calls fail and wherever a pass is interrupted, the manager rotates its
\* CAs as CARotation says (ensureCA, generateServerCert, patchWebhookConfiguration).
THEOREM ManagerImplementsRotation == Spec => ImplementsRotation
<1>1. Init => Rotation!Init
  BY InitManager
<1>2. TypeOK /\ ChosenInv /\ [Next]_certVars => [Rotation!Next]_(Rotation!vars)
  BY StepImplementsRotation
<1> QED BY <1>1, <1>2, ManagerTypes, PTL DEF Spec, ImplementsRotation, Rotation!Spec

\* So a valid CA that signed the certificate or is trusted by the webhook
\* configuration is still stored, by the theorem about the abstract specification.
THEOREM ManagerKeepsSigner == Spec => []SignerKept
<1>1. CAValidity \in Nat
  BY PeriodAssumption
<1>2. Rotation!Spec => [](Rotation!TypeOK /\ Rotation!SignerKept)
  BY <1>1, Rotation!RotationKeepsSigner
<1> QED BY <1>2, ManagerImplementsRotation, PTL DEF ImplementsRotation, SignerKept
-----------------------------------------------------------------------------
(* An undisturbed manager leaves no gap in trust.                          *)

\* A new CA makes no difference to the CAs and certificates there are.
LEMMA GeneratedFresh ==
  ASSUME TypeOK, NEW c \in CAs, NewCA(c), Generated(c)
  PROVE  /\ life'[c] = CAValidity
         /\ \A d \in CAs : d \in {ca, new, bundle, chosen} => life'[d] = life[d]
         /\ HasCert => life'[server.issuer] = life[server.issuer]
BY DEF TypeOK, NewCA, Generated, HasCert, Certificates

\* What a tick does to what is left of a CA or of a certificate.
LEMMA TickAges ==
  ASSUME TypeOK, Tick
  PROVE  /\ \A c \in CAs : life'[c] = Age(life[c])
         /\ HasCert => /\ HasCert'
                       /\ server'.issuer = server.issuer
                       /\ server'.left = Age(server.left)
         /\ ~HasCert => ~HasCert'
<1>1. \A c \in CAs : life'[c] = Age(life[c])
  BY DEF Tick, TypeOK
<1>2. CASE HasCert
  <2>1. server \in Certificates /\ server' = [server EXCEPT !.left = Age(@)]
    BY <1>2 DEF Tick, TypeOK, HasCert
  <2>2. server'.issuer = server.issuer /\ server'.left = Age(server.left)
    BY <2>1 DEF Certificates
  <2>3. Age(server.left) \in -1..CertValidity
    BY <2>1, AgeType, PeriodAssumption DEF Certificates
  <2>4. server' \in Certificates
    BY <2>1, <2>3 DEF Certificates
  <2> QED BY <1>1, <1>2, <2>2, <2>4, SentinelAssumption DEF HasCert
<1>3. CASE ~HasCert
  BY <1>1, <1>3 DEF Tick, HasCert
<1> QED BY <1>2, <1>3

LEMMA CertTypes ==
  ASSUME TypeOK, HasCert
  PROVE  server.issuer \in CAs /\ server.left \in -1..CertValidity
BY DEF TypeOK, HasCert, Certificates

\* What is settled stays so while nothing happens to the CAs.
LEMMA SettledFrame ==
  ASSUME UNCHANGED <<ca, new, life>>
  PROVE  \A slack : Settled(slack)' <=> Settled(slack)
BY DEF Settled, Expired

\* Calls that write nothing.
LEMMA ReadsKeepCertInv ==
  ASSUME TypeOK, ChosenInv, CAInv, ServerInv, faults = 0, faults' = 0,
         Check \/ Start \/ GetNewCA \/ GetOldCA \/ GetCA \/ NeedsServerCert
  PROVE  CAInv' /\ ServerInv'
<1> USE DEF At, Continue, Return, Succeeds, Fails, apiVars
<1>1. CASE Start
  <2>1. CAInv'
    BY <1>1 DEF Start, CAInv
  <2>2. ServerInv'
    BY <1>1 DEF Start, ServerInv, HasCert
  <2> QED BY <2>1, <2>2
<1>2. CASE Check
  <2>1. CAInv'
    BY <1>2 DEF Check, CAInv, Settled, Expired
  <2>2. ServerInv'
    BY <1>2 DEF Check, ServerInv, HasCert
  <2> QED BY <2>1, <2>2
<1>3. CASE GetNewCA
  <2>1. CAInv'
    BY <1>3, SettledFrame DEF GetNewCA, CAInv
  <2>2. ServerInv'
    BY <1>3 DEF GetNewCA, ServerInv, HasCert, Calls
  <2> QED BY <2>1, <2>2
<1>4. CASE GetOldCA
  <2>1. CAInv'
    BY <1>4, PeriodAssumption, SMTT(30)
    DEF GetOldCA, CAInv, ChosenInv, Settled, Expired, Strong, TypeOK, CAOrNone
  <2>2. ServerInv'
    BY <1>4 DEF GetOldCA, ServerInv, HasCert, Calls
  <2> QED BY <2>1, <2>2
<1>5. CASE GetCA
  <2>1. CAInv'
    BY <1>5, PeriodAssumption, SMTT(30)
    DEF GetCA, CAInv, Settled, Expired, Strong, TypeOK, CAOrNone
  <2>2. ServerInv'
    BY <1>5 DEF GetCA, ServerInv, HasCert, Calls
  <2> QED BY <2>1, <2>2
<1>6. CASE NeedsServerCert
  <2>1. \/ Continue("store", chosen)
        \/ HasCert /\ ~Renews({chosen, ca}) /\ Return
    BY <1>6 DEF NeedsServerCert, Judge
  <2>2. CAInv'
    BY <1>6, <2>1 DEF NeedsServerCert, CAInv, ServerInv, Settled, Expired, Strong, Calls
  <2>3. ServerInv'
    BY <1>6, <2>1, CertTypes, PeriodAssumption
    DEF NeedsServerCert, Renews, ServerInv, HasCert, Calls
  <2> QED BY <2>2, <2>3
<1> QED BY <1>1, <1>2, <1>3, <1>4, <1>5, <1>6

\* Calls that write a CA secret.
LEMMA CAWritesKeepCertInv ==
  ASSUME TypeOK, ChosenInv, CAInv, ServerInv, faults = 0, faults' = 0,
         DeleteOldCA \/ CreatePrimaryCA \/ DeleteNewCA \/ GenerateNewCA \/ GenerateCA
  PROVE  CAInv' /\ ServerInv'
<1> USE DEF At, Continue, Succeeds, Fails
<1>1. CASE DeleteOldCA
  <2>1. CAInv'
    BY <1>1, PeriodAssumption, SMTT(30) DEF DeleteOldCA, CAInv, Settled, Expired, Strong, TypeOK, CAOrNone
  <2>2. ServerInv'
    BY <1>1 DEF DeleteOldCA, ServerInv, HasCert, Calls
  <2> QED BY <2>1, <2>2
<1>2. CASE CreatePrimaryCA
  <2>1. CAInv'
    BY <1>2 DEF CreatePrimaryCA, CAInv, Strong
  <2>2. ServerInv'
    BY <1>2 DEF CreatePrimaryCA, ServerInv, HasCert, CAInv, Calls
  <2> QED BY <2>1, <2>2
<1>3. CASE DeleteNewCA
  <2>1. CAInv'
    BY <1>3, PeriodAssumption, SMTT(30) DEF DeleteNewCA, CAInv, Settled, Strong
  <2>2. ServerInv'
    BY <1>3 DEF DeleteNewCA, ServerInv, HasCert, Calls
  <2> QED BY <2>1, <2>2
<1>4. CASE GenerateNewCA
  <2>1. PICK c \in CAs : NewCA(c) /\ Generated(c) /\ new' = c /\ Continue("getServer", c)
    BY <1>4 DEF GenerateNewCA, CAInv
  <2>2. /\ life'[c] = CAValidity /\ c # ca /\ c # None /\ ca \in CAs /\ life'[ca] = life[ca]
        /\ UNCHANGED <<ca, server, bundle>>
    BY <1>4, <2>1, GeneratedFresh, SentinelAssumption
    DEF GenerateNewCA, CAInv, Settled, NewCA, TypeOK, CAOrNone
  <2>3. life[ca] \in -1..CAValidity /\ life[ca] >= 0 /\ life[ca] < CARenewThreshold
    BY <1>4, <2>2, PeriodAssumption, SMTT(30) DEF GenerateNewCA, CAInv, Settled, TypeOK
  <2>4. CAInv'
    <3>1. life'[new'] >= life'[ca'] + CARenewThreshold + CheckInterval + 1
      BY <2>1, <2>2, <2>3, PeriodAssumption
    <3>2. ca' = ca /\ new' = c /\ chosen' = c /\ pc' = "getServer"
      BY <2>1, <2>2
    <3>3. Settled(0)'
      BY <2>2, <2>3, <3>1, <3>2, SentinelAssumption DEF Settled, Expired
    <3>4. Strong(chosen)'
      BY <2>2, <3>2, PeriodAssumption DEF Strong
    <3> QED BY <3>2, <3>3, <3>4 DEF CAInv
  <2>5. ServerInv'
    BY <1>4, <2>1, <2>2, GeneratedFresh DEF GenerateNewCA, ServerInv, HasCert, Calls
  <2> QED BY <2>4, <2>5
<1>5. CASE GenerateCA
  <2>1. PICK c \in CAs : NewCA(c) /\ Generated(c) /\ ca' = c /\ Continue("getServer", c)
    BY <1>5 DEF GenerateCA
  <2>2. /\ life'[c] = CAValidity /\ c # None
        /\ UNCHANGED <<new, server, bundle>> /\ new = None
    BY <1>5, <2>1, GeneratedFresh, SentinelAssumption DEF GenerateCA, CAInv
  <2>3. CAInv'
    BY <2>1, <2>2, PeriodAssumption, SMTT(30) DEF CAInv, Settled, Strong
  <2>4. ServerInv'
    BY <1>5, <2>1, <2>2, GeneratedFresh DEF GenerateCA, ServerInv, HasCert, Calls
  <2> QED BY <2>3, <2>4
<1> QED BY <1>1, <1>2, <1>3, <1>4, <1>5

\* Storing a certificate and publishing its CA.
LEMMA ServerWritesKeepCertInv ==
  ASSUME TypeOK, ChosenInv, CAInv, ServerInv, faults = 0, faults' = 0,
         StoreServerCert \/ PatchWebhookConfiguration
  PROVE  CAInv' /\ ServerInv'
<1> USE DEF At, Continue, Return, Succeeds, Fails
<1>1. CASE StoreServerCert
  <2>1. chosen \in CAs
    BY <1>1 DEF StoreServerCert, ChosenInv, TypeOK, CAOrNone
  <2>2. HasCert' /\ server'.issuer = chosen /\ server'.left = CertValidity
    <3>1. server' = NewCert
      BY <1>1 DEF StoreServerCert
    <3>2. HasCert'
      BY <2>1, <3>1, NewCertType, SentinelAssumption DEF HasCert
    <3> QED BY <3>1, <3>2 DEF NewCert
  <2>3. CAInv'
    BY <1>1, SettledFrame DEF StoreServerCert, CAInv, Strong
  <2>4. life[chosen] \in Int /\ life[chosen] >= CertValidity
    BY <1>1, <2>1, PeriodAssumption DEF StoreServerCert, CAInv, Strong, TypeOK
  <2>5. ServerInv'
    BY <1>1, <2>2, <2>4 DEF StoreServerCert, ServerInv, Calls
  <2> QED BY <2>3, <2>5
<1>2. CASE PatchWebhookConfiguration
  <2>1. CAInv'
    BY <1>2 DEF PatchWebhookConfiguration, CAInv, ServerInv, Settled, Expired, Strong, Calls
  <2>2. ServerInv'
    BY <1>2, PeriodAssumption DEF PatchWebhookConfiguration, ServerInv, HasCert, Calls
  <2> QED BY <2>1, <2>2
<1> QED BY <1>1, <1>2

LEMMA TickKeepsCertInv ==
  ASSUME TypeOK, CAInv, ServerInv, Tick PROVE CAInv' /\ ServerInv'
<1> USE DEF At
<1>1. /\ pc = "idle" /\ pc' = "idle" /\ since' = since + 1
      /\ UNCHANGED <<ca, new, bundle>>
      /\ since \in Nat /\ since + 1 <= CheckInterval /\ CheckInterval \in Nat
  BY PeriodAssumption DEF Tick, TypeOK
<1>2. Settled(since)'
  <2>0. ca \in CAs
    BY <1>1 DEF CAInv, Settled, TypeOK, CAOrNone
  <2>1. ca \in CAs /\ life'[ca] = Age(life[ca]) /\ life[ca] \in -1..CAValidity
    BY <2>0, TickAges DEF TypeOK
  <2>2. CASE new = None
    BY <1>1, <2>1, <2>2, PeriodAssumption, SMTT(30) DEF CAInv, Settled, Age
  <2>3. CASE new # None
    <3>1. new \in CAs /\ life'[new] = Age(life[new]) /\ life[new] \in -1..CAValidity
      BY <2>3, TickAges DEF TypeOK, CAOrNone
    <3> QED BY <1>1, <2>1, <2>3, <3>1, PeriodAssumption, SMTT(30) DEF CAInv, Settled, Expired, Age
  <2> QED BY <2>2, <2>3
<1>3. CAInv'
  BY <1>1, <1>2 DEF CAInv
<1>4. ServerInv'
  <2>1. /\ HasCert /\ HasCert' /\ server'.issuer = server.issuer
        /\ server'.left = Age(server.left)
        /\ server.issuer \in CAs /\ server.left \in -1..CertValidity
        /\ life'[server.issuer] = Age(life[server.issuer])
        /\ life[server.issuer] \in -1..CAValidity
    BY <1>1, TickAges, CertTypes DEF ServerInv, TypeOK
  <2>2. life'[server.issuer] >= server'.left
    BY <2>1, PeriodAssumption DEF ServerInv, Age
  <2>3. server'.left >= RenewThreshold - since'
    BY <1>1, <2>1, PeriodAssumption DEF ServerInv, Age
  <2> QED BY <1>1, <2>1, <2>2, <2>3 DEF ServerInv, Calls
<1> QED BY <1>3, <1>4

LEMMA StepKeepsCertInv ==
  ASSUME TypeOK, ChosenInv, CertInv, [Next]_certVars PROVE CertInv'
<1> SUFFICES ASSUME faults' = 0 PROVE CAInv' /\ ServerInv'
  BY DEF CertInv
<1>1. faults = 0 /\ ~Crash /\ ~Tamper
  <2>1. faults \in Nat /\ (faults' = faults \/ faults' = faults + 1)
    BY FaultAssumption, SMTT(30)
    DEF TypeOK, Next, ensureCertificate, ensureCA, certVars, Start, Check, GetNewCA, GetOldCA,
        DeleteOldCA, CreatePrimaryCA, DeleteNewCA, GetCA, GenerateNewCA, GenerateCA,
        NeedsServerCert, StoreServerCert, PatchWebhookConfiguration, Tick, Crash, Tamper,
        Succeeds, Fails
  <2> QED BY <2>1 DEF Crash, Tamper
<1>2. CAInv /\ ServerInv
  BY <1>1 DEF CertInv
<1>3. CASE UNCHANGED certVars
  <2>1. CAInv'
    BY <1>2, <1>3 DEF certVars, CAInv, Settled, Expired, Strong, HasCert
  <2>2. ServerInv'
    BY <1>2, <1>3 DEF certVars, ServerInv, Settled, Expired, Strong, HasCert
  <2> QED BY <2>1, <2>2
<1> QED
  BY <1>1, <1>2, <1>3, ReadsKeepCertInv, CAWritesKeepCertInv, ServerWritesKeepCertInv,
     TickKeepsCertInv
  DEF Next, ensureCertificate, ensureCA

\* The thresholds leave the certificate valid, and its CA trusted, until the next check.
LEMMA CertInvTrusted ==
  ASSUME TypeOK, CertInv PROVE TrustedUndisturbed
<1> SUFFICES ASSUME faults = 0, pc = "idle" PROVE Accepts(server)
  BY DEF TrustedUndisturbed, At
<1>1. HasCert /\ bundle = server.issuer /\ life[server.issuer] >= server.left
      /\ server.left >= RenewThreshold - since
  BY DEF CertInv, ServerInv
<1>2. server.left \in Int /\ since \in 0..CheckInterval /\ life[server.issuer] \in Int
  BY <1>1, CertTypes DEF TypeOK
<1> QED BY <1>1, <1>2, PeriodAssumption DEF Accepts, HasCert, Expired

\* For all validity periods and thresholds that satisfy PeriodAssumption: as long as
\* nothing fails, the stored certificate is accepted between any two checks.
THEOREM ManagerLeavesNoGap == Spec => []TrustedUndisturbed
<1>1. Init => CertInv
  BY InitManager
<1>2. TypeOK /\ ChosenInv /\ CertInv /\ [Next]_certVars => CertInv'
  BY StepKeepsCertInv
<1>3. TypeOK /\ CertInv => TrustedUndisturbed
  BY CertInvTrusted
<1> QED BY <1>1, <1>2, <1>3, ManagerTypes, PTL DEF Spec
-----------------------------------------------------------------------------
(* The manager among the secret watchers of WebhookCerts.                  *)

\* To the manager a step of the composition is one of its own, or the restart of a
\* pod that does not lead, which only counts as a fault.
LEMMA ServeStep ==
  ASSUME [ServeNext]_vars
  PROVE  \/ [Next]_certVars
         \/ /\ faults < MaxFaults /\ faults' = faults + 1
            /\ UNCHANGED <<ca, new, server, bundle, life, since, pc, starting, chosen>>
<1>1. CASE ManagerStep \/ Disturbance \/ TimePasses
  BY <1>1 DEF ManagerStep, Disturbance, TimePasses, Next
<1>2. ASSUME NEW p \in Pods, WatcherStep(p) \/ CloseWatch(p) PROVE UNCHANGED certVars
  BY <1>2
  DEF WatcherStep, InitialLoad, InitialLoadTimesOut, OpenWatch, Deliver, CloseWatch
<1>3. ASSUME NEW p \in Pods, FollowerRestarts(p)
      PROVE  /\ faults < MaxFaults /\ faults' = faults + 1
             /\ UNCHANGED <<ca, new, server, bundle, life, since, pc, starting, chosen>>
  BY <1>3 DEF FollowerRestarts, apiVars, managerVars
<1>4. CASE UNCHANGED vars
  BY <1>4 DEF vars
<1> QED BY <1>1, <1>2, <1>3, <1>4 DEF ServeNext

LEMMA ServeStepKeepsManager ==
  ASSUME TypeOK, ChosenInv, [ServeNext]_vars
  PROVE  /\ TypeOK' /\ ChosenInv'
         /\ CertInv => CertInv'
         /\ [Rotation!Next]_(Rotation!vars)
<1>1. CASE [Next]_certVars
  BY <1>1, StepKeepsChosen, StepKeepsCertInv, StepImplementsRotation
<1>2. CASE /\ faults < MaxFaults /\ faults' = faults + 1
           /\ UNCHANGED <<ca, new, server, bundle, life, since, pc, starting, chosen>>
  <2>1. faults' \in 0..MaxFaults /\ faults' # 0
    BY <1>2, FaultAssumption DEF TypeOK
  <2>2. TypeOK' /\ ChosenInv'
    BY <1>2, <2>1 DEF TypeOK, ChosenInv, Expired
  <2>3. UNCHANGED Rotation!vars
    BY <1>2, RotationStutters
  <2> QED BY <2>1, <2>2, <2>3 DEF CertInv
<1> QED BY <1>1, <1>2, ServeStep
-----------------------------------------------------------------------------
(* What the watchers hold.                                                 *)

Versions == Certificates \union {None, Empty}

\* What the manager and the others make of the secret: nothing new, nothing usable,
\* or a certificate with its whole life before it.
LEMMA SecretChanges ==
  ASSUME TypeOK, ChosenInv, Start \/ Check \/ ensureCertificate \/ Crash \/ Tamper
  PROVE  \/ server' = server
         \/ server' \in {None, Empty}
         \/ server' \in Certificates /\ server'.left = CertValidity
<1> USE DEF At, apiVars
<1>1. CASE StoreServerCert
  <2>1. chosen \in CAs
    BY <1>1 DEF StoreServerCert, ChosenInv, TypeOK, CAOrNone
  <2> QED BY <1>1, <2>1, NewCertType DEF StoreServerCert, NewCert
<1>2. CASE Tamper
  BY <1>2 DEF Tamper
<1>3. CASE Start \/ Check \/ Crash
  BY <1>3 DEF Start, Check, Crash
<1>4. CASE ensureCertificate /\ ~StoreServerCert
  BY <1>4
  DEF ensureCertificate, ensureCA, GetNewCA, GetOldCA, DeleteOldCA, CreatePrimaryCA,
      DeleteNewCA, GetCA, GenerateNewCA, GenerateCA, NeedsServerCert,
      PatchWebhookConfiguration
<1> QED BY <1>1, <1>2, <1>3, <1>4

LEMMA AgedType ==
  ASSUME NEW cert \in Certificates \union {None}
  PROVE  /\ Aged(cert) \in Certificates \union {None}
         /\ cert = None => Aged(cert) = None
         /\ cert # None => Aged(cert) \in Certificates /\ Aged(cert).left = Age(cert.left)
<1>1. CASE cert = None
  BY <1>1 DEF Aged
<1>2. CASE cert # None
  <2>1. cert \in Certificates /\ Age(cert.left) \in -1..CertValidity
    BY <1>2, AgeType, PeriodAssumption DEF Certificates
  <2>2. Aged(cert) = [cert EXCEPT !.left = Age(cert.left)]
    BY <1>2 DEF Aged
  <2>3. Aged(cert) \in Certificates /\ Aged(cert).left = Age(cert.left)
    BY <2>1, <2>2 DEF Certificates
  <2> QED BY <1>2, <2>3
<1> QED BY <1>1, <1>2

LEMMA LoadedType ==
  ASSUME NEW old \in Certificates \union {None}, NEW secret \in Versions
  PROVE  Loaded(old, secret) \in Certificates \union {None}
BY DEF Loaded, Versions

LEMMA NotifiedType ==
  ASSUME WatcherTypeOK, TypeOK' PROVE Notified \in [Pods -> Seq(Versions)]
<1>1. server' \in Versions
  BY DEF TypeOK, Versions
<1>2. ASSUME NEW p \in Pods
      PROVE  /\ events[p] \in Seq(Versions)
             /\ Append(events[p], server') \in Seq(Versions)
  BY <1>1 DEF WatcherTypeOK, Versions
<1> QED BY <1>2 DEF Notified

\* A pod that starts anew knows nothing.
LEMMA PodStartsTypes ==
  ASSUME WatcherTypeOK, TypeOK', NEW p \in Pods, PodStarts(p)
  PROVE  /\ phase' \in [Pods -> {"load", "connect", "watch"}]
         /\ events' \in [Pods -> Seq(Versions)]
         /\ served' \in [Pods -> Certificates \union {None}]
<1>1. <<>> \in Seq(Versions) /\ Notified \in [Pods -> Seq(Versions)]
  BY NotifiedType
<1> QED BY <1>1 DEF WatcherTypeOK, PodStarts

\* Loads, deliveries and watches that open and close.
LEMMA WatcherStepTypes ==
  ASSUME WatcherTypeOK, NEW p \in Pods, WatcherStep(p) \/ CloseWatch(p)
  PROVE  /\ leader' = leader
         /\ phase' \in [Pods -> {"load", "connect", "watch"}]
         /\ events' \in [Pods -> Seq(Versions)]
         /\ served' \in [Pods -> Certificates \union {None}]
<1>1. /\ leader \in Pods /\ phase \in [Pods -> {"load", "connect", "watch"}]
      /\ events \in [Pods -> Seq(Versions)] /\ served \in [Pods -> Certificates \union {None}]
      /\ server \in Versions
  BY DEF WatcherTypeOK, TypeOK, Versions
<1>2. CASE InitialLoad(p)
  <2>1. Loaded(served[p], server) \in Certificates \union {None}
    BY <1>1, LoadedType
  <2> QED BY <1>1, <1>2, <2>1 DEF InitialLoad
<1>3. CASE InitialLoadTimesOut(p)
  BY <1>1, <1>3 DEF InitialLoadTimesOut
<1>4. CASE OpenWatch(p)
  <2>1. <<>> \in Seq(Versions) /\ <<server>> \in Seq(Versions)
    BY <1>1
  <2> QED BY <1>1, <1>4, <2>1 DEF OpenWatch
<1>5. CASE Deliver(p)
  <2>1. Head(events[p]) \in Versions /\ Tail(events[p]) \in Seq(Versions)
    BY <1>1, <1>5 DEF Deliver
  <2>2. Loaded(served[p], Head(events[p])) \in Certificates \union {None}
    BY <1>1, <2>1, LoadedType
  <2> QED BY <1>1, <1>5, <2>1, <2>2 DEF Deliver
<1>6. CASE CloseWatch(p)
  <2>1. <<>> \in Seq(Versions)
    OBVIOUS
  <2> QED BY <1>1, <1>6, <2>1 DEF CloseWatch
<1> QED BY <1>2, <1>3, <1>4, <1>5, <1>6 DEF WatcherStep

LEMMA ServeStepTypes ==
  ASSUME WatcherTypeOK, ChosenInv, [ServeNext]_vars PROVE WatcherTypeOK'
<1>0. TypeOK'
  BY ServeStepKeepsManager DEF WatcherTypeOK
<1> SUFFICES /\ leader' \in Pods
             /\ phase' \in [Pods -> {"load", "connect", "watch"}]
             /\ events' \in [Pods -> Seq(Versions)]
             /\ served' \in [Pods -> Certificates \union {None}]
  BY <1>0 DEF WatcherTypeOK, Versions
<1>1. CASE PodsFollow
  <2>1. CASE PodStarts(leader) /\ leader' \in Pods
    BY <1>0, <2>1, PodStartsTypes DEF WatcherTypeOK
  <2>2. CASE events' = Notified /\ UNCHANGED <<leader, phase, served>>
    BY <1>0, <2>2, NotifiedType DEF WatcherTypeOK
  <2> QED BY <1>1, <2>1, <2>2 DEF PodsFollow
<1>2. CASE TimePasses
  <2>1. \A p \in Pods : Aged(served[p]) \in Certificates \union {None}
    BY AgedType DEF WatcherTypeOK
  <2> QED BY <1>2, <2>1 DEF TimePasses, WatcherTypeOK, Versions
<1>3. ASSUME NEW p \in Pods, WatcherStep(p) \/ CloseWatch(p) \/ FollowerRestarts(p)
      PROVE  /\ leader' \in Pods
             /\ phase' \in [Pods -> {"load", "connect", "watch"}]
             /\ events' \in [Pods -> Seq(Versions)]
             /\ served' \in [Pods -> Certificates \union {None}]
  BY <1>0, <1>3, WatcherStepTypes, PodStartsTypes DEF WatcherTypeOK, FollowerRestarts
<1>4. CASE UNCHANGED vars
  BY <1>4 DEF vars, podVars, WatcherTypeOK, Versions
<1> QED BY <1>1, <1>2, <1>3, <1>4 DEF ServeNext, ManagerStep, Disturbance

LEMMA InitWatchers ==
  ASSUME ServeInit PROVE WatcherTypeOK
<1>1. TypeOK
  BY InitManager DEF ServeInit
<1>2. <<>> \in Seq(Certificates \union {None, Empty})
  OBVIOUS
<1> QED BY <1>1, <1>2 DEF ServeInit, WatcherTypeOK

\* The certificates and CAs of the composition keep their types, a watch delivers
\* nothing but versions of the secret and a pod presents a certificate or none
\* (SecretWatcher's cert, runWatch, loadCertificate).
THEOREM WatcherTypes == ServeSpec => [](WatcherTypeOK /\ ChosenInv /\ CertInv)
<1>1. ServeInit => WatcherTypeOK /\ ChosenInv /\ CertInv
  BY InitManager, InitWatchers DEF ServeInit
<1>2. WatcherTypeOK /\ ChosenInv /\ CertInv /\ [ServeNext]_vars
        => WatcherTypeOK' /\ ChosenInv' /\ CertInv'
  BY ServeStepTypes, ServeStepKeepsManager DEF WatcherTypeOK
<1> QED BY <1>1, <1>2, PTL DEF ServeSpec

\* Among restarting pods, too, the manager rotates its CAs as CARotation says and
\* keeps the CAs in use, and while nothing fails it leaves no gap in trust: nothing
\* the watchers do disturbs ensureCA and ensureCertificate.
THEOREM WatchersLeaveManagerSound ==
  ServeSpec => ImplementsRotation /\ []SignerKept /\ []TrustedUndisturbed
<1>1. ServeInit => Rotation!Init
  BY InitManager DEF ServeInit
<1>2. WatcherTypeOK /\ ChosenInv /\ [ServeNext]_vars => [Rotation!Next]_(Rotation!vars)
  BY ServeStepKeepsManager DEF WatcherTypeOK
<1>3. ServeSpec => Rotation!Spec
  BY <1>1, <1>2, WatcherTypes, PTL DEF ServeSpec, Rotation!Spec
<1>4. CAValidity \in Nat
  BY PeriodAssumption
<1>5. Rotation!Spec => [](Rotation!TypeOK /\ Rotation!SignerKept)
  BY <1>4, Rotation!RotationKeepsSigner
<1>6. WatcherTypeOK /\ CertInv => TrustedUndisturbed
  BY CertInvTrusted DEF WatcherTypeOK
<1> QED BY <1>3, <1>5, <1>6, WatcherTypes, PTL DEF ImplementsRotation, SignerKept
-----------------------------------------------------------------------------
(* No watcher goes back to an older certificate.                           *)

Usable(version) == version \notin {None, Empty}

\* Of two versions that are certificates the second expires no earlier.
NotNewer(version, next) == Usable(version) /\ Usable(next) => version.left <= next.left

\* What a pod presents, what its watch has yet to deliver and what is stored follow
\* one another in time, versions without a certificate apart.
InOrder(p) ==
  /\ phase[p] # "watch" => events[p] = <<>>
  /\ NotNewer(served[p], server)
  /\ \A i \in 1..Len(events[p]) :
       /\ NotNewer(served[p], events[p][i])
       /\ NotNewer(events[p][i], server)
       /\ \A j \in i..Len(events[p]) : NotNewer(events[p][i], events[p][j])

OrderInv == \A p \in Pods : InOrder(p)

\* A version with a whole life before it is newer than any other.
LEMMA FreshNewest ==
  ASSUME NEW old \in Versions, NEW fresh \in Versions,
         Usable(fresh) => fresh.left = CertValidity
  PROVE  NotNewer(old, fresh)
<1> SUFFICES ASSUME Usable(old), Usable(fresh) PROVE old.left <= fresh.left
  BY DEF NotNewer
<1>1. old.left \in -1..CertValidity
  BY DEF Usable, Versions, Certificates
<1> QED BY <1>1, PeriodAssumption

LEMMA SameNotNewer ==
  ASSUME NEW version \in Versions PROVE NotNewer(version, version)
<1> SUFFICES ASSUME Usable(version) PROVE version.left <= version.left
  BY DEF NotNewer
<1>1. version.left \in -1..CertValidity
  BY DEF Usable, Versions, Certificates
<1> QED BY <1>1, PeriodAssumption

LEMMA LoadedUsable ==
  ASSUME NEW old, NEW secret
  PROVE  \/ Loaded(old, secret) = old /\ ~Usable(secret)
         \/ Loaded(old, secret) = secret /\ Usable(secret)
BY DEF Loaded, Usable

LEMMA NothingPending ==
  ASSUME NEW p, events'[p] = <<>>, NotNewer(served'[p], server') PROVE InOrder(p)'
<1>1. 1..Len(events'[p]) = {}
  OBVIOUS
<1> QED BY <1>1 DEF InOrder

\* What a watch that delivers an event is left with.
LEMMA TailFacts ==
  ASSUME NEW S, NEW e \in Seq(S), e # <<>>
  PROVE  /\ Len(e) \in Nat /\ Len(e) >= 1 /\ Head(e) = e[1]
         /\ Len(Tail(e)) = Len(e) - 1 /\ Tail(e) \in Seq(S)
         /\ \A i \in 1..Len(Tail(e)) : Tail(e)[i] = e[i + 1]
<1>1. Len(e) \in Nat /\ Len(e) # 0
  OBVIOUS
<1>2. Len(e) >= 1
  BY <1>1
<1>3. Head(e) = e[1]
  BY <1>1, <1>2
<1>4. Len(Tail(e)) = Len(e) - 1 /\ Tail(e) \in Seq(S)
  BY <1>1, <1>2
<1>5. ASSUME NEW i \in 1..Len(Tail(e)) PROVE Tail(e)[i] = e[i + 1]
  BY <1>1, <1>4
<1> QED BY <1>1, <1>2, <1>3, <1>4, <1>5

\* What a watch that is told of a change has to deliver.
LEMMA AppendFacts ==
  ASSUME NEW S, NEW e \in Seq(S), NEW x \in S
  PROVE  /\ Len(Append(e, x)) = Len(e) + 1 /\ Len(e) \in Nat
         /\ Append(e, x)[Len(e) + 1] = x
         /\ \A i \in 1..Len(e) : Append(e, x)[i] = e[i] /\ e[i] \in S
<1>1. Len(e) \in Nat /\ Len(Append(e, x)) = Len(e) + 1
  OBVIOUS
<1>2. Append(e, x)[Len(e) + 1] = x
  BY <1>1
<1>3. ASSUME NEW i \in 1..Len(e) PROVE Append(e, x)[i] = e[i] /\ e[i] \in S
  BY <1>1
<1> QED BY <1>1, <1>2, <1>3

\* The watch and the pod lag behind a secret that changed.
LEMMA SecretInOrder ==
  ASSUME WatcherTypeOK, OrderInv, NEW p \in Pods, events'[p] = Notified[p],
         phase'[p] = phase[p], served'[p] = served[p],
         \/ server' = server
         \/ server' \in {None, Empty}
         \/ server' \in Certificates /\ server'.left = CertValidity
  PROVE  InOrder(p)'
<1> DEFINE e == events[p]
<1>1. /\ e \in Seq(Versions) /\ served[p] \in Versions /\ server \in Versions
      /\ InOrder(p) /\ server' \in Versions
  BY DEF WatcherTypeOK, TypeOK, Versions, OrderInv
<1>2. CASE server' = server
  <2>1. events'[p] = e
    BY <1>2 DEF Notified
  <2> QED BY <1>1, <1>2, <2>1 DEF InOrder
<1>3. CASE server' # server
  <2>1. \A v \in Versions : NotNewer(v, server')
    <3>1. Usable(server') => server'.left = CertValidity
      BY <1>3 DEF Usable
    <3> QED BY <1>1, <3>1, FreshNewest
  <2>2. CASE phase[p] # "watch"
    <3>1. events'[p] = <<>>
      BY <1>1, <2>2 DEF Notified, InOrder
    <3> QED BY <1>1, <2>1, <3>1, NothingPending
  <2>3. CASE phase[p] = "watch"
    <3>1. events'[p] = Append(e, server')
      BY <1>3, <2>3 DEF Notified
    <3>2. /\ Len(events'[p]) = Len(e) + 1 /\ Len(e) \in Nat
          /\ events'[p][Len(e) + 1] = server'
          /\ \A i \in 1..Len(e) : events'[p][i] = e[i] /\ e[i] \in Versions
      <4> HIDE DEF e
      <4> QED BY <1>1, <3>1, AppendFacts
    <3>3. /\ \A i \in 1..Len(e) : NotNewer(served[p], e[i])
          /\ \A i \in 1..Len(e) : \A j \in i..Len(e) : NotNewer(e[i], e[j])
      BY <1>1 DEF InOrder
    <3> HIDE DEF e
    <3>4. ASSUME NEW i \in 1..Len(events'[p])
          PROVE  /\ events'[p][i] \in Versions
                 /\ NotNewer(served[p], events'[p][i])
                 /\ NotNewer(events'[p][i], server')
      <4>1. CASE i = Len(e) + 1
        BY <1>1, <2>1, <3>2, <4>1
      <4>2. CASE i # Len(e) + 1
        <5>1. i \in 1..Len(e)
          BY <3>2, <4>2
        <5>2. events'[p][i] = e[i] /\ e[i] \in Versions
          BY <3>2, <5>1
        <5> QED BY <2>1, <3>3, <5>1, <5>2
      <4> QED BY <4>1, <4>2
    <3>5. ASSUME NEW i \in 1..Len(events'[p]), NEW j \in i..Len(events'[p])
          PROVE  NotNewer(events'[p][i], events'[p][j])
      <4>1. CASE j = Len(e) + 1
        BY <3>2, <3>4, <4>1
      <4>2. CASE j # Len(e) + 1
        <5>1. i \in 1..Len(e) /\ j \in i..Len(e) /\ j \in 1..Len(e)
          BY <3>2, <4>2
        <5>2. events'[p][i] = e[i] /\ events'[p][j] = e[j]
          BY <3>2, <5>1
        <5> QED BY <3>3, <5>1, <5>2
      <4> QED BY <4>1, <4>2
    <3>6. NotNewer(served'[p], server') /\ phase'[p] = "watch" /\ served'[p] = served[p]
      BY <1>1, <2>1, <2>3
    <3> QED BY <3>4, <3>5, <3>6 DEF InOrder
  <2> QED BY <2>2, <2>3
<1> QED BY <1>2, <1>3

\* A pod that starts has nothing that could be out of order.
LEMMA StartInOrder ==
  ASSUME WatcherTypeOK, NEW q \in Pods, PodStarts(q) PROVE InOrder(q)'
<1>1. phase'[q] = "load" /\ events'[q] = <<>> /\ served'[q] = None
  BY DEF WatcherTypeOK, PodStarts, Notified
<1> QED BY <1>1 DEF InOrder, NotNewer, Usable

\* A step that changes nothing a pod knows of.
LEMMA UnchangedInOrder ==
  ASSUME OrderInv, NEW p \in Pods, server' = server,
         phase'[p] = phase[p], events'[p] = events[p], served'[p] = served[p]
  PROVE  InOrder(p)'
BY DEF OrderInv, InOrder

\* Loading, opening, delivering and closing keep the order, and what the pod then
\* presents is no older than what it presented.
LEMMA WatcherInOrder ==
  ASSUME WatcherTypeOK, OrderInv, NEW p \in Pods, WatcherStep(p) \/ CloseWatch(p)
  PROVE  InOrder(p)' /\ (served[p] # None => served'[p] # None) /\ NotNewer(served[p], served'[p])
<1> DEFINE e == events[p]
<1>1. /\ e \in Seq(Versions) /\ served[p] \in Certificates \union {None}
      /\ served[p] \in Versions /\ server \in Versions
      /\ phase \in [Pods -> {"load", "connect", "watch"}]
      /\ DOMAIN events = Pods /\ DOMAIN served = Pods /\ InOrder(p)
  BY DEF WatcherTypeOK, TypeOK, Versions, OrderInv
<1>2. NotNewer(served[p], served[p]) /\ NotNewer(server, server)
  BY <1>1, SameNotNewer
<1>3. CASE InitialLoad(p)
  <2>1. /\ phase'[p] = "connect" /\ events'[p] = <<>> /\ server' = server
        /\ served'[p] = Loaded(served[p], server)
    BY <1>1, <1>3 DEF InitialLoad, InOrder, certVars
  <2>2. served'[p] = served[p] \/ (served'[p] = server /\ Usable(server))
    BY <2>1, LoadedUsable
  <2> QED BY <1>1, <1>2, <2>1, <2>2, NothingPending DEF InOrder, Usable
<1>4. CASE InitialLoadTimesOut(p)
  <2>1. phase'[p] = "connect" /\ events'[p] = <<>> /\ server' = server /\ served'[p] = served[p]
    BY <1>1, <1>4 DEF InitialLoadTimesOut, InOrder, certVars
  <2> QED BY <1>1, <1>2, <2>1, NothingPending DEF InOrder
<1>5. CASE OpenWatch(p)
  <2>1. /\ phase'[p] = "watch" /\ server' = server /\ served'[p] = served[p]
        /\ events'[p] = <<>> \/ events'[p] = <<server>>
    BY <1>1, <1>5 DEF OpenWatch, certVars
  <2>2. CASE events'[p] = <<>>
    BY <1>1, <1>2, <2>1, <2>2, NothingPending DEF InOrder
  <2>3. CASE events'[p] = <<server>>
    <3>1. Len(events'[p]) = 1 /\ events'[p][1] = server
      BY <2>3
    <3>2. \A i \in 1..Len(events'[p]) : i = 1 /\ \A j \in i..Len(events'[p]) : j = 1
      BY <3>1
    <3> QED BY <1>1, <1>2, <2>1, <3>1, <3>2 DEF InOrder
  <2> QED BY <2>1, <2>2, <2>3
<1>6. CASE Deliver(p)
  <2>1. /\ phase'[p] = "watch" /\ server' = server /\ e # <<>>
        /\ served'[p] = Loaded(served[p], Head(e)) /\ events'[p] = Tail(e)
    BY <1>1, <1>6 DEF Deliver, certVars
  <2>2. /\ Head(e) = e[1] /\ Len(e) \in Nat /\ Len(e) >= 1 /\ Len(Tail(e)) = Len(e) - 1
        /\ \A i \in 1..Len(Tail(e)) : Tail(e)[i] = e[i + 1]
    <3> HIDE DEF e
    <3> QED BY <1>1, <2>1, TailFacts
  <2>3. /\ 1 \in 1..Len(e)
        /\ \A i \in 1..Len(Tail(e)) : i + 1 \in 1..Len(e)
        /\ \A i \in 1..Len(Tail(e)) : \A j \in i..Len(Tail(e)) : j + 1 \in (i + 1)..Len(e)
    BY <2>2
  <2>4. served'[p] = served[p] \/ (served'[p] = e[1] /\ Usable(e[1]))
    BY <2>1, <2>2, LoadedUsable
  <2>5. NotNewer(served'[p], server) /\ NotNewer(served[p], served'[p])
    BY <1>1, <1>2, <2>3, <2>4 DEF InOrder
  <2>6. \A i \in 1..Len(Tail(e)) : NotNewer(served'[p], Tail(e)[i]) /\ NotNewer(Tail(e)[i], server)
    BY <1>1, <2>2, <2>3, <2>4 DEF InOrder
  <2>7. \A i \in 1..Len(Tail(e)) : \A j \in i..Len(Tail(e)) : NotNewer(Tail(e)[i], Tail(e)[j])
    <3>1. \A i \in 1..Len(e) : \A j \in i..Len(e) : NotNewer(e[i], e[j])
      BY <1>1 DEF InOrder
    <3> HIDE DEF e
    <3> TAKE i \in 1..Len(Tail(e))
    <3> TAKE j \in i..Len(Tail(e))
    <3>2. i + 1 \in 1..Len(e) /\ j + 1 \in (i + 1)..Len(e) /\ j \in 1..Len(Tail(e))
      BY <2>2, <2>3
    <3>3. Tail(e)[i] = e[i + 1] /\ Tail(e)[j] = e[j + 1]
      BY <2>2, <3>2
    <3> QED BY <3>1, <3>2, <3>3
  <2>8. InOrder(p)'
    BY <2>1, <2>5, <2>6, <2>7 DEF InOrder
  <2> QED BY <2>4, <2>5, <2>8 DEF Usable
<1>7. CASE CloseWatch(p)
  <2>1. phase'[p] = "connect" /\ events'[p] = <<>> /\ server' = server /\ served'[p] = served[p]
    BY <1>1, <1>7 DEF CloseWatch, certVars
  <2> QED BY <1>1, <1>2, <2>1, NothingPending DEF InOrder
<1> QED BY <1>3, <1>4, <1>5, <1>6, <1>7 DEF WatcherStep

\* Time takes the same from every certificate.
LEMMA TickInOrder ==
  ASSUME WatcherTypeOK, OrderInv, TimePasses, NEW p \in Pods
  PROVE  InOrder(p)' /\ (served[p] # None => served'[p] # None)
<1>1. /\ phase'[p] = "watch" /\ events'[p] = <<>> /\ served'[p] = Aged(served[p])
      /\ served[p] \in Certificates \union {None} /\ TypeOK /\ Tick /\ InOrder(p)
  BY DEF TimePasses, WatcherTypeOK, OrderInv
<1>2. served[p] # None => served'[p] # None
  BY <1>1, AgedType, SentinelAssumption
<1>3. NotNewer(served'[p], server')
  <2> SUFFICES ASSUME Usable(served'[p]), Usable(server')
               PROVE  served'[p].left <= server'.left
    BY DEF NotNewer
  <2>1. served[p] # None /\ served[p] \in Certificates /\ served'[p].left = Age(served[p].left)
    BY <1>1, AgedType DEF Usable
  <2>2. HasCert /\ server'.left = Age(server.left)
    BY <1>1, TickAges DEF Usable, HasCert
  <2>3. Usable(served[p]) /\ Usable(server)
    BY <2>1, <2>2, SentinelAssumption DEF Usable, HasCert
  <2>4. served[p].left <= server.left
    BY <1>1, <2>3 DEF InOrder, NotNewer
  <2>5. served[p].left \in -1..CertValidity /\ server.left \in -1..CertValidity
    BY <1>1, <2>1, <2>2, CertTypes DEF Certificates
  <2> QED BY <2>1, <2>2, <2>4, <2>5, PeriodAssumption, SMTT(30) DEF Age
<1> QED BY <1>1, <1>2, <1>3, NothingPending

\* What a step may do to the certificate of a pod: the step of ServesOnlyNewer.
Keeps(p) ==
  served[p] # None /\ phase'[p] # "load" =>
    /\ served'[p] # None
    /\ served'[p] # served[p] /\ since' <= since => served'[p].left >= served[p].left

LEMMA ServeStepInOrder ==
  ASSUME WatcherTypeOK, ChosenInv, OrderInv, [ServeNext]_vars, NEW p \in Pods
  PROVE  InOrder(p)' /\ Keeps(p)
<1>0. /\ DOMAIN phase = Pods /\ DOMAIN events = Pods /\ DOMAIN served = Pods
      /\ leader \in Pods /\ TypeOK /\ served[p] \in Certificates \union {None}
  BY DEF WatcherTypeOK
<1>1. CASE (Start \/ Check \/ ensureCertificate \/ Crash \/ Tamper) /\ PodsFollow
  <2>1. \/ server' = server
        \/ server' \in {None, Empty}
        \/ server' \in Certificates /\ server'.left = CertValidity
    BY <1>0, <1>1, SecretChanges
  <2>2. CASE PodStarts(leader) /\ p = leader
    BY <1>0, <2>2, StartInOrder DEF PodStarts, Keeps
  <2>3. CASE PodStarts(leader) /\ p # leader
    <3>1. phase'[p] = phase[p] /\ served'[p] = served[p] /\ events'[p] = Notified[p]
      BY <1>0, <2>3 DEF PodStarts, Notified
    <3> QED BY <2>1, <3>1, SecretInOrder DEF Keeps
  <2>4. CASE events' = Notified /\ UNCHANGED <<phase, served>>
    BY <2>1, <2>4, SecretInOrder DEF Keeps
  <2> QED BY <1>1, <2>2, <2>3, <2>4 DEF PodsFollow
<1>2. CASE TimePasses
  <2>1. ~(since' <= since)
    BY <1>0, <1>2, PeriodAssumption DEF TimePasses, Tick, TypeOK
  <2> QED BY <1>2, <2>1, TickInOrder DEF Keeps
<1>3. ASSUME NEW q \in Pods, WatcherStep(q) \/ CloseWatch(q) PROVE InOrder(p)' /\ Keeps(p)
  <2>1. CASE q = p
    <3>1. /\ InOrder(p)' /\ (served[p] # None => served'[p] # None)
          /\ NotNewer(served[p], served'[p])
      BY <1>3, <2>1, WatcherInOrder
    <3>2. served'[p] \in Certificates \union {None}
      BY <1>3, <2>1, WatcherStepTypes
    <3>3. served[p] # None => Usable(served[p]) /\ Usable(served'[p])
      BY <1>0, <3>1, <3>2, SentinelAssumption DEF Usable
    <3>4. served[p] # None => served[p].left <= served'[p].left
      BY <3>1, <3>3 DEF NotNewer
    <3>5. served[p] # None => served[p].left \in Int /\ served'[p].left \in Int
      BY <1>0, <3>1, <3>2, PeriodAssumption DEF Certificates
    <3> QED BY <3>1, <3>4, <3>5 DEF Keeps
  <2>2. CASE q # p
    <3>1. /\ server' = server /\ phase'[p] = phase[p]
          /\ events'[p] = events[p] /\ served'[p] = served[p]
      BY <1>0, <1>3, <2>2
      DEF WatcherStep, InitialLoad, InitialLoadTimesOut, OpenWatch, Deliver, CloseWatch, certVars
    <3> QED BY <3>1, UnchangedInOrder DEF Keeps
  <2> QED BY <2>1, <2>2
<1>4. ASSUME NEW q \in Pods, FollowerRestarts(q) PROVE InOrder(p)' /\ Keeps(p)
  <2>1. PodStarts(q) /\ server' = server
    BY <1>4 DEF FollowerRestarts, apiVars
  <2>2. CASE q = p
    BY <1>0, <2>1, <2>2, StartInOrder DEF PodStarts, Keeps
  <2>3. CASE q # p
    <3>1. phase'[p] = phase[p] /\ served'[p] = served[p] /\ events'[p] = events[p]
      BY <1>0, <2>1, <2>3 DEF PodStarts, Notified
    <3> QED BY <2>1, <3>1, UnchangedInOrder DEF Keeps
  <2> QED BY <2>2, <2>3
<1>5. CASE UNCHANGED vars
  BY <1>5, UnchangedInOrder DEF vars, podVars, certVars, Keeps
<1> QED BY <1>1, <1>2, <1>3, <1>4, <1>5 DEF ServeNext, ManagerStep, Disturbance

\* A pod never loses its certificate before it restarts and never replaces it by an
\* older one, for any number of pods, watches cut anywhere and replayed, renewals that
\* fail half-way and secrets emptied or deleted (loadCertificate, runWatch).
THEOREM WatchersServeOnlyNewer == ServeSpec => []OrderInv /\ ServesOnlyNewer
<1>1. ServeInit => OrderInv
  <2> SUFFICES ASSUME ServeInit, NEW p \in Pods PROVE InOrder(p)
    BY DEF OrderInv
  <2> QED BY DEF ServeInit, InOrder, NotNewer, Usable
<1>2. WatcherTypeOK /\ ChosenInv /\ OrderInv /\ [ServeNext]_vars
        => OrderInv' /\ \A p \in Pods : Keeps(p)
  BY ServeStepInOrder DEF OrderInv
<1>3. (\A p \in Pods : Keeps(p)) =>
        [\A p \in Pods : served[p] # None /\ phase'[p] # "load" =>
           /\ served'[p] # None
           /\ served'[p] # served[p] /\ since' <= since
                => served'[p].left >= served[p].left]_vars
  BY DEF Keeps
<1> QED BY <1>1, <1>2, <1>3, WatcherTypes, PTL DEF ServeSpec, ServesOnlyNewer
-----------------------------------------------------------------------------
(* A watcher that has nothing left to deliver has caught up.               *)

\* The last version that an open watch has to deliver is what is stored; with nothing
\* to deliver, the pod has it.
CaughtUp(p) ==
  phase[p] = "watch" =>
    /\ events[p] = <<>> /\ Usable(server) => served[p] = server
    /\ events[p] # <<>> => events[p][Len(events[p])] = server

CatchInv == \A p \in Pods : CaughtUp(p)

LEMMA SecretCaughtUp ==
  ASSUME WatcherTypeOK, NEW p \in Pods, CaughtUp(p), events'[p] = Notified[p],
         phase'[p] = phase[p], served'[p] = served[p], server' \in Versions
  PROVE  CaughtUp(p)'
<1>1. CASE server' = server \/ phase[p] # "watch"
  <2>1. events'[p] = events[p]
    BY <1>1 DEF Notified
  <2> QED BY <1>1, <2>1 DEF CaughtUp
<1>2. CASE server' # server /\ phase[p] = "watch"
  <2> DEFINE e == events[p]
  <2>1. e \in Seq(Versions) /\ events'[p] = Append(e, server')
    BY <1>2 DEF Notified, WatcherTypeOK, Versions
  <2> HIDE DEF e
  <2>2. Len(events'[p]) = Len(e) + 1 /\ Len(e) \in Nat /\ events'[p][Len(e) + 1] = server'
    BY <2>1, AppendFacts
  <2>3. events'[p] # <<>> /\ events'[p][Len(events'[p])] = server'
    BY <2>2
  <2> QED BY <2>3 DEF CaughtUp
<1> QED BY <1>1, <1>2

LEMMA DeliverCaughtUp ==
  ASSUME WatcherTypeOK, NEW p \in Pods, CaughtUp(p), Deliver(p) PROVE CaughtUp(p)'
<1> DEFINE e == events[p]
<1>1. /\ e \in Seq(Versions) /\ e # <<>> /\ e[Len(e)] = server /\ server' = server
      /\ served'[p] = Loaded(served[p], Head(e)) /\ events'[p] = Tail(e)
  BY DEF Deliver, certVars, WatcherTypeOK, Versions, CaughtUp
<1> HIDE DEF e
<1>2. /\ Len(e) \in Nat /\ Len(e) >= 1 /\ Head(e) = e[1]
      /\ Len(Tail(e)) = Len(e) - 1 /\ Tail(e) \in Seq(Versions)
      /\ \A i \in 1..Len(Tail(e)) : Tail(e)[i] = e[i + 1]
  BY <1>1, TailFacts
<1> DEFINE t == Tail(e)
<1>3. /\ t \in Seq(Versions) /\ Len(t) = Len(e) - 1 /\ events'[p] = t
      /\ \A i \in 1..Len(t) : t[i] = e[i + 1]
  BY <1>1, <1>2
<1> HIDE DEF t
<1>4. CASE t = <<>>
  <2>1. Len(t) = 0
    BY <1>4
  <2>2. Len(e) = 1
    <3>1. Len(e) \in Nat /\ Len(t) = Len(e) - 1
      BY <1>2, <1>3, Zenon
    <3> QED BY <2>1, <3>1
  <2>3. Head(e) = server
    BY <1>1, <1>2, <2>2
  <2>4. Usable(server') => served'[p] = server'
    BY <1>1, <2>3 DEF Loaded, Usable
  <2> QED BY <1>3, <1>4, <2>4 DEF CaughtUp
<1>5. CASE t # <<>>
  <2>1. Len(t) \in Nat /\ Len(t) >= 1
    BY <1>3, <1>5, TailFacts
  <2>2. Len(t) \in 1..Len(t) /\ Len(t) + 1 = Len(e)
    BY <1>2, <1>3, <2>1
  <2>3. t[Len(t)] = e[Len(e)]
    BY <1>3, <2>2
  <2> QED BY <1>1, <1>3, <1>5, <2>3 DEF CaughtUp
<1> QED BY <1>4, <1>5

LEMMA WatcherCaughtUp ==
  ASSUME WatcherTypeOK, NEW p \in Pods, CaughtUp(p), WatcherStep(p) \/ CloseWatch(p)
  PROVE  CaughtUp(p)'
<1>1. CASE InitialLoad(p) \/ InitialLoadTimesOut(p) \/ CloseWatch(p)
  <2>1. phase'[p] = "connect"
    BY <1>1 DEF InitialLoad, InitialLoadTimesOut, CloseWatch, WatcherTypeOK
  <2> QED BY <2>1 DEF CaughtUp
<1>2. CASE OpenWatch(p)
  <2>1. server' = server /\ events'[p] = IF server = None THEN <<>> ELSE <<server>>
    BY <1>2 DEF OpenWatch, certVars, WatcherTypeOK
  <2>2. CASE server = None
    BY <2>1, <2>2 DEF CaughtUp, Usable
  <2>3. CASE server # None
    <3>1. events'[p] # <<>> /\ Len(events'[p]) = 1 /\ events'[p][1] = server'
      BY <2>1, <2>3
    <3> QED BY <3>1 DEF CaughtUp
  <2> QED BY <2>2, <2>3
<1>3. CASE Deliver(p)
  BY <1>3, DeliverCaughtUp
<1> QED BY <1>1, <1>2, <1>3 DEF WatcherStep

\* What is stored and what is presented age alike.
LEMMA TickCaughtUp ==
  ASSUME WatcherTypeOK, NEW p \in Pods, CaughtUp(p), TimePasses PROVE CaughtUp(p)'
<1>1. /\ phase[p] = "watch" /\ events[p] = <<>> /\ events'[p] = <<>>
      /\ served'[p] = Aged(served[p]) /\ TypeOK /\ Tick
  BY DEF TimePasses, WatcherTypeOK
<1> SUFFICES ASSUME Usable(server') PROVE served'[p] = server'
  BY <1>1 DEF CaughtUp
<1>2. HasCert
  BY <1>1, TickAges DEF Usable, HasCert
<1>3. server' = [server EXCEPT !.left = Age(@)] /\ server # None
  BY <1>1, <1>2 DEF Tick, HasCert
<1>4. served[p] = server
  BY <1>1, <1>2 DEF CaughtUp, Usable, HasCert
<1> QED BY <1>1, <1>3, <1>4 DEF Aged

LEMMA ServeStepCaughtUp ==
  ASSUME WatcherTypeOK, ChosenInv, CatchInv, [ServeNext]_vars, NEW p \in Pods
  PROVE  CaughtUp(p)'
<1>0. /\ DOMAIN phase = Pods /\ DOMAIN events = Pods /\ DOMAIN served = Pods
      /\ leader \in Pods /\ TypeOK /\ CaughtUp(p) /\ server \in Versions
  BY DEF WatcherTypeOK, CatchInv, TypeOK, Versions
<1>1. CASE (Start \/ Check \/ ensureCertificate \/ Crash \/ Tamper) /\ PodsFollow
  <2>1. server' \in Versions
    BY <1>0, <1>1, SecretChanges DEF Versions
  <2>2. CASE PodStarts(leader) /\ p = leader
    BY <1>0, <2>2 DEF PodStarts, CaughtUp
  <2>3. CASE PodStarts(leader) /\ p # leader
    <3>1. phase'[p] = phase[p] /\ served'[p] = served[p] /\ events'[p] = Notified[p]
      BY <1>0, <2>3 DEF PodStarts, Notified
    <3> QED BY <1>0, <2>1, <3>1, SecretCaughtUp
  <2>4. CASE events' = Notified /\ UNCHANGED <<phase, served>>
    BY <1>0, <2>1, <2>4, SecretCaughtUp
  <2> QED BY <1>1, <2>2, <2>3, <2>4 DEF PodsFollow
<1>2. CASE TimePasses
  BY <1>0, <1>2, TickCaughtUp
<1>3. ASSUME server' = server, phase'[p] = phase[p], events'[p] = events[p], served'[p] = served[p]
      PROVE  CaughtUp(p)'
  BY <1>0, <1>3 DEF CaughtUp
<1>4. ASSUME NEW q \in Pods, WatcherStep(q) \/ CloseWatch(q) PROVE CaughtUp(p)'
  <2>1. CASE q = p
    BY <1>0, <1>4, <2>1, WatcherCaughtUp
  <2>2. CASE q # p
    <3>1. /\ server' = server /\ phase'[p] = phase[p]
          /\ events'[p] = events[p] /\ served'[p] = served[p]
      BY <1>0, <1>4, <2>2
      DEF WatcherStep, InitialLoad, InitialLoadTimesOut, OpenWatch, Deliver, CloseWatch, certVars
    <3> QED BY <1>3, <3>1
  <2> QED BY <2>1, <2>2
<1>5. ASSUME NEW q \in Pods, FollowerRestarts(q) PROVE CaughtUp(p)'
  <2>1. PodStarts(q) /\ server' = server
    BY <1>5 DEF FollowerRestarts, apiVars
  <2>2. CASE q = p
    BY <1>0, <2>1, <2>2 DEF PodStarts, CaughtUp
  <2>3. CASE q # p
    <3>1. phase'[p] = phase[p] /\ served'[p] = served[p] /\ events'[p] = events[p]
      BY <1>0, <2>1, <2>3 DEF PodStarts, Notified
    <3> QED BY <1>3, <2>1, <3>1
  <2> QED BY <2>2, <2>3
<1>6. CASE UNCHANGED vars
  BY <1>3, <1>6 DEF vars, podVars, certVars
<1> QED BY <1>1, <1>2, <1>4, <1>5, <1>6 DEF ServeNext, ManagerStep, Disturbance

LEMMA CatchInvariant == ServeSpec => []CatchInv
<1>1. ServeInit => CatchInv
  BY DEF ServeInit, CatchInv, CaughtUp
<1>2. WatcherTypeOK /\ ChosenInv /\ CatchInv /\ [ServeNext]_vars => CatchInv'
  BY ServeStepCaughtUp DEF CatchInv
<1> QED BY <1>1, <1>2, WatcherTypes, PTL DEF ServeSpec

LEMMA CatchInvCaughtUp == CatchInv => PodsCaughtUp
BY DEF CatchInv, CaughtUp, PodsCaughtUp, Quiet, Usable

\* No change of the secret is lost on a pod, for any number of pods and of watches that
\* are cut, opened anew and restarted while the manager renews, fails half-way or finds
\* the secret deleted (performInitialLoad, runWatch).
THEOREM WatchersCatchUp == ServeSpec => []PodsCaughtUp
BY CatchInvariant, CatchInvCaughtUp, PTL

\* From the certificate authority to the handshake: while nothing fails, every pod that
\* has caught up presents a certificate that the API server accepts, for all validity
\* periods and thresholds that satisfy PeriodAssumption (ensureCertificate,
\* GetCertificate).
THEOREM HandshakesAccepted == ServeSpec => []HandshakesUndisturbed
<1>1. WatcherTypeOK /\ CertInv /\ CatchInv => HandshakesUndisturbed
  <2> SUFFICES ASSUME WatcherTypeOK, CertInv, CatchInv, faults = 0, pc = "idle",
                      NEW p \in Pods, Quiet(p)
               PROVE  Accepts(GetCertificate(p))
    BY DEF HandshakesUndisturbed
  <2>1. Accepts(server)
    BY CertInvTrusted DEF WatcherTypeOK, TrustedUndisturbed, At
  <2>2. served[p] = server
    BY <2>1, CatchInvCaughtUp DEF PodsCaughtUp, Accepts
  <2>3. GetCertificate(p) = server
    BY <2>2 DEF GetCertificate, IsReady, Quiet
  <2> QED BY <2>1, <2>3
<1> QED BY <1>1, WatcherTypes, CatchInvariant, PTL
=============================================================================
