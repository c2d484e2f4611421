---------------------------- MODULE CertManager -----------------------------
(***************************************************************************)
(* The certificate manager of internal/cert/manager.go, which runs in the  *)
(* leader: ensureCertificate at start and then once per CheckInterval.     *)
(* One action is one call to the API server.  A call named in FaultyCalls  *)
(* may return an error, having taken effect or not, and the process may    *)
(* die before it.                                                          *)
(*                                                                         *)
(* A CA is its identity; life says how long each is still valid, -1 once   *)
(* NotAfter has passed.  A server certificate is its issuer and the time   *)
(* it has left.  A pass takes no time on the scale of the validity         *)
(* periods, and a dead leader is replaced at once on that scale.           *)
(*                                                                         *)
(* Only the manager writes the two CA secrets, so they always parse.  Its  *)
(* reads go to an informer cache; the only read of something the same pass *)
(* wrote is that of the CA in needsServerCertGeneration, where the old     *)
(* value makes no difference: it is an expired CA or none.                 *)
(***************************************************************************)
EXTENDS Integers

CONSTANTS
  CAs, None,
  Empty,             \* the server secret without usable certificate data
  CAValidity,        \* CAValidityDuration
  CertValidity,      \* CertValidityDuration
  RenewThreshold, CARenewThreshold, CheckInterval,
  FaultyCalls,       \* the calls that can go wrong
  MaxFaults          \* bound on failing calls, crashes and interference by others

\* The relations between the constants of manager.go (3650, 365, 30, 365 and 1
\* days) that its scheme of renewal rests on.
ASSUME PeriodAssumption ==
  /\ CertValidity \in Nat /\ CAValidity \in Nat /\ CheckInterval \in Nat \ {0}
  /\ RenewThreshold \in CheckInterval..CertValidity
  /\ CARenewThreshold \in Nat /\ CARenewThreshold >= CertValidity
  /\ CAValidity > 2 * CARenewThreshold + CheckInterval

Calls == {"getNew", "getOld", "deleteOld", "createPrimary", "deleteNew", "getCA",
          "generateNew", "generateCA", "getServer", "verify", "store", "patch"}

ASSUME FaultAssumption ==
  FaultyCalls \subseteq Calls /\ MaxFaults \in Nat

VARIABLES
  ca, new,        \* secrets <name>-ca and <name>-ca-new
  server,         \* secret <name>: the server certificate
  bundle,         \* the CABundle of the ValidatingWebhookConfiguration
  life,           \* the time each CA has left
  since,          \* time since the renewal ticker last fired
  pc,             \* the call the manager makes next, "idle" or "down"
  starting,       \* this pass is the one of Start
  chosen,         \* caCert of ensureCertificate
  faults          \* how often a call failed, the leader died or others interfered

apiVars == <<ca, new, server, bundle, life>>
managerVars == <<since, pc, starting, chosen>>
certVars == <<ca, new, server, bundle, life, since, pc, starting, chosen, faults>>

CAOrNone == CAs \union {None}
Certificates == [issuer: CAs, left: -1..CertValidity]

ASSUME SentinelAssumption ==
  None \notin CAs \union Certificates /\ Empty \notin Certificates

TypeOK ==
  /\ ca \in CAOrNone /\ new \in CAOrNone /\ bundle \in CAOrNone /\ chosen \in CAOrNone
  /\ server \in Certificates \union {None, Empty}
  /\ life \in [CAs -> -1..CAValidity]
  /\ since \in 0..CheckInterval
  /\ pc \in Calls \union {"idle", "down"}
  /\ starting \in BOOLEAN
  /\ faults \in 0..MaxFaults

Init ==
  /\ ca = None /\ new = None /\ server = None /\ bundle = None
  /\ life = [c \in CAs |-> -1]
  /\ since = 0
  /\ pc = "down" /\ starting = FALSE /\ chosen = None
  /\ faults = 0

Expired(c) == life[c] < 0
HasCert == server \notin {None, Empty}
Age(x) == IF x < 0 THEN x ELSE x - 1
-----------------------------------------------------------------------------
(* How a call ends and what the manager does next.                         *)

At(call) == pc = call
Succeeds == UNCHANGED faults
Fails(call) ==
  /\ call \in FaultyCalls /\ faults < MaxFaults
  /\ faults' = faults + 1

Continue(call, c) == pc' = call /\ chosen' = c /\ UNCHANGED <<since, starting>>

\* ensureCertificate returns: an error in Start ends the process, one in the
\* renewal loop is logged.
ReturnError ==
  /\ pc' = IF starting THEN "down" ELSE "idle"
  /\ starting' = FALSE /\ chosen' = None
  /\ UNCHANGED since
Return ==
  /\ pc' = "idle" /\ starting' = FALSE /\ chosen' = None
  /\ UNCHANGED since

\* A CA that nothing refers to yet.
NewCA(c) == c \in CAs /\ c \notin {ca, new, bundle, chosen}
                      /\ (HasCert => c # server.issuer)
Generated(c) == life' = [life EXCEPT ![c] = CAValidity]
-----------------------------------------------------------------------------
Start ==
  /\ At("down")
  /\ pc' = "getNew" /\ starting' = TRUE /\ since' = 0
  /\ UNCHANGED <<apiVars, chosen, faults>>

\* renewalLoop: the ticker fires.
Check ==
  /\ At("idle") /\ since = CheckInterval
  /\ pc' = "getNew" /\ since' = 0
  /\ UNCHANGED <<apiVars, starting, chosen, faults>>

\* ensureCA looks for a CA in transition; no error but a missing secret is told apart.
GetNewCA ==
  /\ At("getNew") /\ UNCHANGED apiVars
  /\ \/ Succeeds /\ new # None /\ Continue("getOld", new)
     \/ Succeeds /\ new = None /\ Continue("getCA", None)
     \/ Fails("getNew") /\ Continue("getCA", None)

\* Mutant: the new CA is promoted as soon as the old one is due for renewal.
GetOldCAPromotesEarly ==
  /\ At("getOld") /\ UNCHANGED apiVars
  /\ Continue(IF ca # None /\ life[ca] < CARenewThreshold
              THEN "deleteOld" ELSE "getServer", chosen)
  /\ Succeeds \/ Fails("getOld")

GetOldCA ==
  /\ At("getOld") /\ UNCHANGED apiVars
  /\ \/ Succeeds /\ ca # None /\ Expired(ca) /\ Continue("deleteOld", chosen)
     \/ Succeeds /\ ~(ca # None /\ Expired(ca)) /\ Continue("getServer", chosen)
     \/ Fails("getOld") /\ Continue("getServer", chosen)

\* The promotion: delete the old CA, store the new one under its name, delete
\* the copy.  The error of a deletion is only logged.
DeleteOldCA ==
  /\ At("deleteOld") /\ Continue("createPrimary", chosen)
  /\ \/ Succeeds /\ ca' = None
     \/ Fails("deleteOld") /\ ca' \in {ca, None}
  /\ UNCHANGED <<new, server, bundle, life>>

CreatePrimaryCA ==
  /\ At("createPrimary")
  /\ \/ Succeeds /\ ca = None /\ ca' = chosen /\ Continue("deleteNew", chosen)
     \/ Succeeds /\ ca # None /\ ca' = ca /\ Continue("getServer", chosen)
     \/ /\ Fails("createPrimary")
        /\ ca' \in {ca, IF ca = None THEN chosen ELSE ca}
        /\ Continue("getServer", chosen)
  /\ UNCHANGED <<new, server, bundle, life>>

DeleteNewCA ==
  /\ At("deleteNew") /\ Continue("getServer", chosen)
  /\ \/ Succeeds /\ new' = None
     \/ Fails("deleteNew") /\ new' \in {new, None}
  /\ UNCHANGED <<ca, server, bundle, life>>

GetCA ==
  /\ At("getCA") /\ UNCHANGED apiVars
  /\ \/ Succeeds /\ ca = None /\ Continue("generateCA", None)
     \/ /\ Succeeds /\ ca # None
        /\ Continue(IF life[ca] < CARenewThreshold THEN "generateNew" ELSE "getServer", ca)
     \/ Fails("getCA") /\ ReturnError

\* generateCA for the coexistence period; on an error the current CA serves on.
GenerateNewCA ==
  /\ At("generateNew")
  /\ \/ /\ Succeeds /\ new = None
        /\ \E c \in CAs : NewCA(c) /\ Generated(c) /\ new' = c /\ Continue("getServer", c)
     \/ /\ Succeeds /\ new # None
        /\ Continue("getServer", chosen) /\ UNCHANGED <<new, life>>
     \/ /\ Fails("generateNew") /\ Continue("getServer", chosen)
        /\ \/ UNCHANGED <<new, life>>
           \/ new = None /\ \E c \in CAs : NewCA(c) /\ Generated(c) /\ new' = c
  /\ UNCHANGED <<ca, server, bundle>>

GenerateCA ==
  /\ At("generateCA")
  /\ \/ /\ Succeeds
        /\ \E c \in CAs : NewCA(c) /\ Generated(c) /\ ca' = c /\ Continue("getServer", c)
     \/ /\ Fails("generateCA") /\ ReturnError
        /\ \/ UNCHANGED <<ca, life>>
           \/ \E c \in CAs : NewCA(c) /\ Generated(c) /\ ca' = c
  /\ UNCHANGED <<new, server, bundle>>
-----------------------------------------------------------------------------
\* needsServerCertGeneration for a stored certificate: renew it when it expires
\* soon or when no CA in roots, still valid, signed it.
Renews(roots) ==
  \/ server.left < RenewThreshold
  \/ server.issuer \notin roots \/ Expired(server.issuer)

Judge(roots) == IF Renews(roots) THEN Continue("store", chosen) ELSE Return

\* Mutant: a secret without certificate data is left as it is.
NeedsServerCertUnlessPresent ==
  /\ At("getServer") /\ UNCHANGED apiVars /\ Succeeds
  /\ IF server = None THEN Continue("store", chosen)
     ELSE IF server = Empty THEN Return ELSE Judge({chosen, ca})

\* Two Gets: the certificate, then the CA secret, whose failure is ignored.  Only
\* this process writes the CA secret, so both are read at once here.
NeedsServerCert ==
  /\ At("getServer") /\ UNCHANGED apiVars
  /\ \/ Succeeds /\ ~HasCert /\ Continue("store", chosen)
     \/ Succeeds /\ HasCert /\ Judge({chosen, ca})
     \/ Fails("verify") /\ HasCert /\ Judge({chosen})
     \/ Fails("getServer") /\ ReturnError

\* Mutant: the certificate is given the validity of a CA.
NewCertLikeCA == [issuer |-> chosen, left |-> CAValidity]

NewCert == [issuer |-> chosen, left |-> CertValidity]

\* generateServerCert: create or update the secret of the server certificate.
StoreServerCert ==
  /\ At("store")
  /\ \/ Succeeds /\ server' = NewCert /\ Continue("patch", chosen)
     \/ Fails("store") /\ server' \in {server, NewCert} /\ ReturnError
  /\ UNCHANGED <<ca, new, bundle, life>>

\* Mutant: the webhook configuration is not patched when it already has a CA.
PatchOnlyOnce ==
  /\ At("patch") /\ Return /\ Succeeds
  /\ bundle' = IF bundle = None THEN chosen ELSE bundle
  /\ UNCHANGED <<ca, new, server, life>>

\* patchWebhookConfiguration; its error is only logged.
PatchWebhookConfiguration ==
  /\ At("patch") /\ Return
  /\ \/ Succeeds /\ bundle' = chosen
     \/ Fails("patch") /\ bundle' \in {bundle, chosen}
  /\ UNCHANGED <<ca, new, server, life>>
-----------------------------------------------------------------------------
\* Time passes while the manager waits for its ticker; a check that is due is
\* made before more time passes.
Tick ==
  /\ At("idle") /\ since < CheckInterval
  /\ since' = since + 1
  /\ life' = [c \in CAs |-> Age(life[c])]
  /\ server' = IF HasCert THEN [server EXCEPT !.left = Age(@)] ELSE server
  /\ UNCHANGED <<ca, new, bundle, pc, starting, chosen, faults>>

\* The leader dies, between two passes or before a call; its lease goes to a
\* process that calls Start.
Crash ==
  /\ pc \in FaultyCalls \union {"idle"}
  /\ faults < MaxFaults /\ faults' = faults + 1
  /\ pc' = "down" /\ starting' = FALSE /\ chosen' = None
  /\ UNCHANGED <<apiVars, since>>

\* Somebody deletes the server secret or its contents.
Tamper ==
  /\ faults < MaxFaults /\ faults' = faults + 1
  /\ HasCert /\ server' \in {None, Empty}
  /\ UNCHANGED <<ca, new, bundle, life, managerVars>>

ensureCA ==
  GetNewCA \/ GetOldCA \/ DeleteOldCA \/ CreatePrimaryCA \/ DeleteNewCA
  \/ GetCA \/ GenerateNewCA \/ GenerateCA

ensureCertificate ==
  ensureCA \/ NeedsServerCert \/ StoreServerCert \/ PatchWebhookConfiguration

Next == Start \/ Check \/ ensureCertificate \/ Tick \/ Crash \/ Tamper

Spec == Init /\ [][Next]_certVars
-----------------------------------------------------------------------------
\* The API server, told to trust the CA in the bundle, accepts a server that
\* presents this certificate.
Accepts(cert) ==
  /\ cert \notin {None, Empty}
  /\ cert.left >= 0 /\ cert.issuer = bundle /\ ~Expired(bundle)

(***************************************************************************)
(* As long as no call failed, nothing crashed and nobody touched the       *)
(* secret, the stored certificate is accepted by the API server between    *)
(* any two checks, through every renewal of certificates and CAs: the      *)
(* thresholds of manager.go leave no gap (ensureCA,                        *)
(* needsServerCertGeneration, CheckInterval).                              *)
(***************************************************************************)
TrustedUndisturbed ==
  faults = 0 /\ At("idle") => Accepts(server)

\* What the manager does to its CAs, seen as CARotation.
Rotation ==
  INSTANCE CARotation WITH
    stored <- {ca, new} \ {None},
    signer <- IF HasCert THEN server.issuer ELSE None

(***************************************************************************)
(* Whatever calls fail and wherever a pass is interrupted, the manager     *)
(* keeps the promises of CARotation: no CA is deleted before it expired,   *)
(* no certificate is signed by a CA whose key is not stored, and never are *)
(* more than two CAs around (ensureCA's promotion, generateServerCert).    *)
(***************************************************************************)
ImplementsRotation == Rotation!Spec

\* The same for the two CAs that matter, as an invariant.
SignerKept == Rotation!SignerKept
=============================================================================
