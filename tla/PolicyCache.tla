----------------------------- MODULE PolicyCache -----------------------------
(***************************************************************************)
(* The policy cache (internal/cache/policy_cache.go): the policy of a      *)
(* source namespace, looked up by the webhook and the workers, refreshed   *)
(* on a miss and kept up to date by two controllers of the leader.         *)
(*                                                                         *)
(* The manager's client reads from an informer, store, that follows the    *)
(* API server.  Time only makes entries expire.                            *)
(***************************************************************************)
EXTENDS Naturals

CONSTANTS
  Policies,          \* names of KubeTemplatePolicies
  OperatorPolicies,  \* those that live in the operator's namespace
  Namespaces,        \* source namespaces
  NoNamespace,       \* the zero value of spec.sourceNamespace
  Readers,           \* concurrent callers of Get
  NoPolicy, NoEntry, Error, Idle,
  MaxChanges         \* bound: changes of policies by users

ASSUME PolicyAssumption ==
  /\ OperatorPolicies \subseteq Policies
  /\ NoNamespace \notin Namespaces
  /\ MaxChanges \in Nat

VARIABLES
  api,      \* policies at the API server
  store,    \* policies in the informer
  leading,  \* this process is the leader and runs the controllers
  todo,     \* keys queued for each controller
  read,     \* what the running Reconcile of each controller has read, or Idle
  entries,  \* the cache
  call,     \* the running Get of each reader, or Idle
  changes

apiVars == <<api, store, changes>>
controllerVars == <<leading, todo, read>>
vars == <<apiVars, controllerVars, entries, call>>

Controllers == {"policy-cache", "kubetemplatepolicy"}

\* rev stands for everything else a policy says.
Policy == [name : Policies, ns : Namespaces, rev : 1 .. MaxChanges]

\* refresh also stores "not found", as NoPolicy.  from is a history of who
\* stored the entry.
cacheEntry ==
  [policy : Policy, live : BOOLEAN, from : {"watch", "refresh"}]
    \union [policy : {NoPolicy}, live : BOOLEAN, from : {"refresh"}]

\* A controller's request and the policy its Get found.
Request == [name : Policies, policy : Policy \union {NoPolicy}]

\* Get of ns is about to list or to store what it got, or returns it.
Call ==
  [at : {"list"}, ns : Namespaces]
    \union [at : {"store"}, ns : Namespaces, got : Policy \union {NoPolicy}]
    \union [at : {"done"}, ns : Namespaces, got : Policy \union {NoPolicy, Error}]

ASSUME DistinctValues ==
  /\ NoPolicy \notin Policy /\ NoEntry \notin cacheEntry
  /\ Idle \notin Request /\ Idle \notin Call

TypeOK ==
  /\ api \in [Policies -> Policy \union {NoPolicy}]
  /\ store \in [Policies -> Policy \union {NoPolicy}]
  /\ leading \in BOOLEAN
  /\ todo \in [Controllers -> SUBSET Policies]
  /\ read \in [Controllers -> Request \union {Idle}]
  /\ entries \in [Namespaces \union {NoNamespace} -> cacheEntry \union {NoEntry}]
  /\ call \in [Readers -> Call \union {Idle}]
  /\ changes \in 0 .. MaxChanges

Init ==
  /\ api = [p \in Policies |-> NoPolicy]
  /\ store = api
  /\ leading = FALSE
  /\ todo = [c \in Controllers |-> {}]
  /\ read = [c \in Controllers |-> Idle]
  /\ entries = [ns \in Namespaces \union {NoNamespace} |-> NoEntry]
  /\ call = [r \in Readers |-> Idle]
  /\ changes = 0

-----------------------------------------------------------------------------
(* The operations of the cache, each under its lock.                       *)

\* Policies whose source namespace is ns in s: the field index.
Claims(s, ns) == {p \in Policies : s[p] # NoPolicy /\ s[p].ns = ns}

Live(ns) == entries[ns] # NoEntry /\ entries[ns].live

\* Mutant of Put: a live entry is left alone.
PutIfExpired(ns, policy, from) ==
  entries' = IF Live(ns) THEN entries
             ELSE [entries EXCEPT ![ns] = [policy |-> policy, live |-> TRUE, from |-> from]]

Put(ns, policy, from) ==
  entries' = [entries EXCEPT ![ns] = [policy |-> policy, live |-> TRUE, from |-> from]]

Set(ns, policy) == Put(ns, policy, "watch")

Update(policy) == Put(policy.ns, policy, "watch")

Delete(ns) == entries' = [entries EXCEPT ![ns] = NoEntry]

Clear == entries' = [ns \in DOMAIN entries |-> NoEntry]

-----------------------------------------------------------------------------
(* Get and refresh, by the webhook and the workers of any process.         *)

Return(r, ns, answer) ==
  call' = [call EXCEPT ![r] = [at |-> "done", ns |-> ns, got |-> answer]]

\* Mutant of GetHit: expiresAt is not looked at.
GetHitExpired(r, ns) ==
  /\ call[r] = Idle /\ entries[ns] # NoEntry
  /\ Return(r, ns, entries[ns].policy)
  /\ UNCHANGED <<apiVars, controllerVars, entries>>

\* A hit is answered at once, "not found" included.
GetHit(r, ns) ==
  /\ call[r] = Idle /\ Live(ns)
  /\ Return(r, ns, entries[ns].policy)
  /\ UNCHANGED <<apiVars, controllerVars, entries>>

GetMiss(r, ns) ==
  /\ call[r] = Idle /\ ~Live(ns)
  /\ call' = [call EXCEPT ![r] = [at |-> "list", ns |-> ns]]
  /\ UNCHANGED <<apiVars, controllerVars, entries>>

\* refresh lists in the operator's namespace, without the lock.  A List that
\* fails, as any may, and several policies for one namespace are errors, and
\* not stored.
RefreshList(r) ==
  LET ns == call[r].ns
      items == Claims(store, ns) \cap OperatorPolicies
      Got(policy) == call' = [call EXCEPT ![r] = [at |-> "store", ns |-> ns, got |-> policy]]
  IN
  /\ call[r] # Idle /\ call[r].at = "list"
  /\ \/ Return(r, ns, Error)
     \/ items = {} /\ Got(NoPolicy)
     \/ \E p \in items : items = {p} /\ Got(store[p])
  /\ UNCHANGED <<apiVars, controllerVars, entries>>

RefreshStore(r) ==
  /\ call[r] # Idle /\ call[r].at = "store"
  /\ Put(call[r].ns, call[r].got, "refresh")
  /\ Return(r, call[r].ns, call[r].got)
  /\ UNCHANGED <<apiVars, controllerVars>>

\* The caller goes on with the answer.
Finish(r) ==
  /\ call[r] # Idle /\ call[r].at = "done"
  /\ call' = [call EXCEPT ![r] = Idle]
  /\ UNCHANGED <<apiVars, controllerVars, entries>>

-----------------------------------------------------------------------------
(* The two controllers.  Each handles one key at a time; a key that changes *)
(* meanwhile is queued again.  A Get that fails leaves its key queued.      *)

Fetch(c) ==
  /\ read[c] = Idle
  /\ \E p \in todo[c] :
       /\ todo' = [todo EXCEPT ![c] = @ \ {p}]
       /\ read' = [read EXCEPT ![c] = [name |-> p, policy |-> store[p]]]
  /\ UNCHANGED <<apiVars, leading, entries, call>>

\* Mutant of PolicyCacheReconcile: no return after IsNotFound.
PolicyCacheReconcileFallsThrough ==
  LET c == "policy-cache" policy == read[c].policy IN
  /\ read[c] # Idle
  /\ read' = [read EXCEPT ![c] = Idle]
  /\ \/ policy = NoPolicy /\ Set(NoNamespace, policy)
     \/ policy # NoPolicy /\ Set(policy.ns, policy)
  /\ UNCHANGED <<apiVars, leading, todo, call>>

\* PolicyCacheReconciler.  When the policy is not found, Get has left the zero
\* value in it, so that the entry deleted is that of no namespace.
PolicyCacheReconcile ==
  LET c == "policy-cache" policy == read[c].policy IN
  /\ read[c] # Idle
  /\ read' = [read EXCEPT ![c] = Idle]
  /\ \/ policy = NoPolicy /\ Delete(NoNamespace)
     \/ policy # NoPolicy /\ Set(policy.ns, policy)
  /\ UNCHANGED <<apiVars, leading, todo, call>>

\* KubeTemplatePolicyReconciler.
KubeTemplatePolicyReconcile ==
  LET c == "kubetemplatepolicy" policy == read[c].policy IN
  /\ read[c] # Idle
  /\ read' = [read EXCEPT ![c] = Idle]
  /\ \/ policy = NoPolicy /\ Clear
     \/ policy # NoPolicy /\ Update(policy)
  /\ UNCHANGED <<apiVars, leading, todo, call>>

-----------------------------------------------------------------------------
(* The rest of the world.                                                  *)

\* A user creates, edits, moves or deletes a policy.
Change(p) ==
  /\ changes < MaxChanges
  /\ changes' = changes + 1
  /\ \/ \E ns \in Namespaces :
          api' = [api EXCEPT ![p] = [name |-> p, ns |-> ns, rev |-> changes + 1]]
     \/ api[p] # NoPolicy /\ api' = [api EXCEPT ![p] = NoPolicy]
  /\ UNCHANGED <<store, controllerVars, entries, call>>

Notify(ps) ==
  todo' = [c \in Controllers |-> IF leading THEN todo[c] \union ps ELSE todo[c]]

Deliver(p) ==
  /\ store[p] # api[p]
  /\ store' = [store EXCEPT ![p] = api[p]]
  /\ Notify({p})
  /\ UNCHANGED <<api, changes, leading, read, entries, call>>

\* The informer tells its handlers about every object again.
Resync ==
  /\ Notify({p \in Policies : store[p] # NoPolicy})
  /\ UNCHANGED <<apiVars, leading, read, entries, call>>

\* The process becomes the leader: its controllers start with every policy.
Elected ==
  /\ ~leading /\ leading' = TRUE
  /\ todo' = [c \in Controllers |-> {p \in Policies : store[p] # NoPolicy}]
  /\ UNCHANGED <<apiVars, read, entries, call>>

\* time.Now() reaches expiresAt.
Expire(ns) ==
  /\ Live(ns)
  /\ entries' = [entries EXCEPT ![ns].live = FALSE]
  /\ UNCHANGED <<apiVars, controllerVars, call>>

-----------------------------------------------------------------------------
Reader(r) ==
  \/ \E ns \in Namespaces : GetHit(r, ns) \/ GetMiss(r, ns)
  \/ RefreshList(r) \/ RefreshStore(r) \/ Finish(r)

Next ==
  \/ \E r \in Readers : Reader(r)
  \/ \E c \in Controllers : Fetch(c)
  \/ PolicyCacheReconcile \/ KubeTemplatePolicyReconcile
  \/ \E p \in Policies : Change(p) \/ Deliver(p)
  \/ Resync \/ Elected
  \/ \E ns \in Namespaces : Expire(ns)

Spec == Init /\ [][Next]_vars

\* Calls return, events are delivered, controllers run and time passes.
Fairness ==
  /\ \A r \in Readers : WF_vars(RefreshList(r) \/ RefreshStore(r) \/ Finish(r))
  /\ \A c \in Controllers : WF_vars(Fetch(c))
  /\ WF_vars(PolicyCacheReconcile) /\ WF_vars(KubeTemplatePolicyReconcile)
  /\ \A p \in Policies : WF_vars(Deliver(p))
  /\ \A ns \in Namespaces : WF_vars(Expire(ns))

FairSpec == Spec /\ Fairness

-----------------------------------------------------------------------------
(* Properties.                                                             *)

\* The current version of p has still to be delivered to or stored by a
\* controller.
Pending(p) ==
  \/ store[p] # api[p]
  \/ \E c \in Controllers : p \in todo[c] \/ (read[c] # Idle /\ read[c].name = p)

\* An edit of a policy reaches the cache: an entry that a controller stored and
\* that has not expired is the current version of its policy, or a controller
\* is still to store that version, although the two controllers store what they
\* read earlier in any order.  (A policy that has been deleted, or has gone to
\* another namespace, is excepted: its entry may stay until it expires.)
WatchedEntriesCurrent ==
  \A ns \in Namespaces : LET e == entries[ns] IN
    (Live(ns) /\ e.from = "watch") =>
      LET p == e.policy.name IN
      (api[p] # NoPolicy /\ api[p].ns = ns) => (api[p] = e.policy \/ Pending(p))

\* One policy, in the operator's namespace, claims ns, or none does.
Unambiguous(ns) ==
  /\ Claims(api, ns) \subseteq OperatorPolicies
  /\ \A p, q \in Claims(api, ns) : p = q

\* policy is what the API server has for ns.
Right(ns, policy) ==
  IF Claims(api, ns) = {} THEN policy = NoPolicy
                          ELSE \E p \in Claims(api, ns) : policy = api[p]

\* However refresh, Set, Update and Clear raced, once policies are left alone Get
\* ends up giving right answers only, or the error of a List that failed, in the
\* leader and in the other processes, for every namespace whose policy is
\* unambiguous.
EventuallyRight ==
  <>[](\A r \in Readers :
         (call[r] # Idle /\ call[r].at = "done" /\ Unambiguous(call[r].ns))
           => call[r].got = Error \/ Right(call[r].ns, call[r].got))
=============================================================================
