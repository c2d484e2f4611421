---------------------------- MODULE WebhookCerts -----------------------------
(***************************************************************************)
(* The certificate manager composed with the secret watcher of every pod   *)
(* (internal/cert/secret_watcher.go), which loads the server certificate   *)
(* that the manager of the leader stores and presents it to the API        *)
(* server.                                                                 *)
(*                                                                         *)
(* A watch is the queue of the versions of the secret that the pod has not *)
(* seen yet; one that is opened starts with the secret as it is.  Loading, *)
(* timeouts and the restart of a watch take seconds to a minute, so no     *)
(* time passes on the scale of CertManager until they are done.            *)
(***************************************************************************)
EXTENDS CertManager, Sequences

CONSTANT Pods

VARIABLES
  leader,    \* the pod whose manager runs
  phase,     \* "load": performInitialLoad; "connect": between watches; "watch"
  events,    \* the versions of the secret a watch has yet to deliver
  served     \* cert, which lastValidCert always equals; None before the first

podVars == <<leader, phase, events, served>>
vars == <<certVars, podVars>>

WatcherTypeOK ==
  /\ TypeOK
  /\ leader \in Pods
  /\ phase \in [Pods -> {"load", "connect", "watch"}]
  /\ events \in [Pods -> Seq(Certificates \union {None, Empty})]
  /\ served \in [Pods -> Certificates \union {None}]

ServeInit ==
  /\ Init
  /\ leader \in Pods
  /\ phase = [p \in Pods |-> "load"]
  /\ events = [p \in Pods |-> <<>>]
  /\ served = [p \in Pods |-> None]

\* isReady is closed when performInitialLoad returns, so a readyOnce that a load
\* finds still open is one of performInitialLoad.
IsReady(p) == phase[p] # "load"

\* What a handshake is given: it waits for isReady, and then fails without a certificate.
GetCertificate(p) == IF IsReady(p) THEN served[p] ELSE None
-----------------------------------------------------------------------------
\* Mutant of Loaded: a secret without certificate data clears the certificate.
LoadedOrCleared(old, secret) == IF secret = None THEN old
                                ELSE IF secret = Empty THEN None ELSE secret

\* Mutant of Loaded: the first certificate is kept.
LoadedOnce(old, secret) == IF secret \in {None, Empty} \/ old # None THEN old ELSE secret

\* loadCertificate and the events that never reach it: deleted or empty secrets
\* leave the certificate as it is.
Loaded(old, secret) == IF secret \in {None, Empty} THEN old ELSE secret

\* performInitialLoad finds the secret; isReady is closed whether it parses or not.
InitialLoad(p) ==
  /\ phase[p] = "load" /\ server # None
  /\ served' = [served EXCEPT ![p] = Loaded(@, server)]
  /\ phase' = [phase EXCEPT ![p] = "connect"]
  /\ UNCHANGED <<certVars, leader, events>>

\* It gives up after a minute in which the secret was missing or every Get failed.
InitialLoadTimesOut(p) ==
  /\ phase[p] = "load"
  /\ phase' = [phase EXCEPT ![p] = "connect"]
  /\ UNCHANGED <<certVars, leader, events, served>>

\* Mutant of OpenWatch: a watch that starts at the latest resource version.
OpenWatchAtLatest(p) ==
  /\ phase[p] = "connect"
  /\ phase' = [phase EXCEPT ![p] = "watch"]
  /\ UNCHANGED <<certVars, leader, events, served>>

\* runWatch: a watch without resource version first delivers what exists.
OpenWatch(p) ==
  /\ phase[p] = "connect"
  /\ phase' = [phase EXCEPT ![p] = "watch"]
  /\ events' = [events EXCEPT ![p] = IF server = None THEN <<>> ELSE <<server>>]
  /\ UNCHANGED <<certVars, leader, served>>

Deliver(p) ==
  /\ phase[p] = "watch" /\ events[p] # <<>>
  /\ served' = [served EXCEPT ![p] = Loaded(@, Head(events[p]))]
  /\ events' = [events EXCEPT ![p] = Tail(@)]
  /\ UNCHANGED <<certVars, leader, phase>>

\* The result channel is closed; what it had not delivered is lost.  (When there
\* was nothing, the next watch only delivers again what the pod already has.)
CloseWatch(p) ==
  /\ phase[p] = "watch" /\ events[p] # <<>>
  /\ phase' = [phase EXCEPT ![p] = "connect"]
  /\ events' = [events EXCEPT ![p] = <<>>]
  /\ UNCHANGED <<certVars, leader, served>>

\* Open watches are told of every change of the secret.
Notified ==
  [p \in Pods |-> IF phase[p] = "watch" /\ server' # server
                  THEN Append(events[p], server') ELSE events[p]]

\* One pod starts again, whatever happens to the secret meanwhile.
PodStarts(p) ==
  /\ phase' = [phase EXCEPT ![p] = "load"]
  /\ events' = [Notified EXCEPT ![p] = <<>>]
  /\ served' = [served EXCEPT ![p] = None]

\* A pod that does not lead is restarted.
FollowerRestarts(p) ==
  /\ p # leader /\ faults < MaxFaults /\ faults' = faults + 1
  /\ UNCHANGED <<apiVars, managerVars, leader>>
  /\ PodStarts(p)
-----------------------------------------------------------------------------
\* The CAs whose identity is in use, besides those NewCA names.
ServedIssuers == {served[p].issuer : p \in {q \in Pods : served[q] # None /\ served[q].left >= 0}}

\* What a step of the manager, or of whoever touches the secret, does to the pods.
\* The process that ends, by a crash or by an error in Start, takes its watcher with
\* it, and another pod may be the next leader.
PodsFollow ==
  /\ \A c \in ServedIssuers : life'[c] <= life[c]
  /\ IF pc # "down" /\ pc' = "down"
     THEN PodStarts(leader) /\ leader' \in Pods
     ELSE events' = Notified /\ UNCHANGED <<leader, phase, served>>

ManagerStep == (Start \/ Check \/ ensureCertificate) /\ PodsFollow
Disturbance == (Crash \/ Tamper) /\ PodsFollow

Aged(cert) == IF cert = None THEN None ELSE [cert EXCEPT !.left = Age(@)]

TimePasses ==
  /\ \A p \in Pods : phase[p] = "watch" /\ events[p] = <<>>
  /\ Tick
  /\ served' = [p \in Pods |-> Aged(served[p])]
  /\ UNCHANGED <<leader, phase, events>>

WatcherStep(p) ==
  InitialLoad(p) \/ InitialLoadTimesOut(p) \/ OpenWatch(p) \/ Deliver(p)

ServeNext ==
  \/ ManagerStep \/ Disturbance \/ TimePasses
  \/ \E p \in Pods : WatcherStep(p) \/ CloseWatch(p) \/ FollowerRestarts(p)

ServeSpec == ServeInit /\ [][ServeNext]_vars

\* Processes run and time passes.  A watch that is cut again and again lives long
\* enough, once in a while, to deliver an event.
ServeFairness ==
  /\ WF_vars(ManagerStep)
  /\ WF_vars(TimePasses)
  /\ \A p \in Pods : WF_vars(InitialLoad(p)) /\ WF_vars(InitialLoadTimesOut(p))
                     /\ WF_vars(OpenWatch(p)) /\ SF_vars(Deliver(p))

ServeFairSpec == ServeSpec /\ ServeFairness
-----------------------------------------------------------------------------
(***************************************************************************)
(* A pod that has a certificate keeps one until it restarts, and never     *)
(* replaces it by an older one, however its watch is cut and replayed      *)
(* (loadCertificate, runWatch's handling of deleted and empty secrets).    *)
(***************************************************************************)
ServesOnlyNewer ==
  [][\A p \in Pods : served[p] # None /\ phase'[p] # "load" =>
       /\ served'[p] # None
       /\ served'[p] # served[p] /\ since' <= since => served'[p].left >= served[p].left]_vars

\* The watch of p is open and has nothing left to deliver.
Quiet(p) == phase[p] = "watch" /\ events[p] = <<>>

(***************************************************************************)
(* A pod whose watch has nothing left to deliver presents what the secret  *)
(* holds, unless the secret is gone or empty: no change is lost between    *)
(* the initial load and the first watch, between two watches, or to a      *)
(* watch that was cut (performInitialLoad, runWatch without a resource     *)
(* version).                                                               *)
(***************************************************************************)
PodsCaughtUp ==
  \A p \in Pods : Quiet(p) /\ server \notin {None, Empty} => served[p] = server

(***************************************************************************)
(* As long as nothing failed, the API server accepts the certificate that  *)
(* any pod presents between two checks, once its watch has delivered what  *)
(* it has (manager.go's thresholds and order of writes, GetCertificate).   *)
(***************************************************************************)
HandshakesUndisturbed ==
  faults = 0 /\ pc = "idle" => \A p \in Pods : Quiet(p) => Accepts(GetCertificate(p))

\* A promotion was interrupted between the deletion of the old CA and the creation
\* of its successor under the old name; nothing renews a CA in this state.
PromotionLost == ca = None /\ new # None

AllAccepted == \A p \in Pods : Accepts(GetCertificate(p))

(***************************************************************************)
(* Once the faults end, there is again and again a time when the API       *)
(* server accepts the certificate of every pod: renewal repairs a bundle   *)
(* that was not patched and a secret that was deleted, and the watchers    *)
(* catch up (ensureCertificate, runWatch).  The one exception is an        *)
(* interrupted promotion.                                                  *)
(***************************************************************************)
HandshakesRecover == <>[]PromotionLost \/ []<>AllAccepted
=============================================================================
