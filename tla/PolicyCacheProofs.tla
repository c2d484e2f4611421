-------------------------- MODULE PolicyCacheProofs --------------------------
(***************************************************************************)
(* Proofs about PolicyCache, for any sets of policies, namespaces and      *)
(* readers.                                                                *)
(***************************************************************************)
EXTENDS PolicyCache, TLAPS

\* Policies carry their name, and the revision of a change is new.
Versions ==
  \A p \in Policies :
    /\ api[p] # NoPolicy => api[p].name = p /\ api[p].rev <= changes
    /\ store[p] # NoPolicy => store[p].name = p /\ store[p].rev <= changes

\* A controller holds what the informer has, or has the key queued again.
ReadsCurrent ==
  \A c \in Controllers : read[c] # Idle =>
    /\ read[c].policy = store[read[c].name] \/ read[c].name \in todo[c]
    /\ read[c].policy # NoPolicy => read[c].policy.name = read[c].name

\* Without leadership the controllers do nothing and have stored nothing.
FollowerIdle ==
  ~leading =>
    /\ \A c \in Controllers : read[c] = Idle /\ todo[c] = {}
    /\ \A ns \in Namespaces : entries[ns] # NoEntry => entries[ns].from = "refresh"

IInv == TypeOK /\ Versions /\ ReadsCurrent /\ FollowerIdle /\ WatchedEntriesCurrent

\* The first states have their types.
LEMMA TypeInit == Init => TypeOK
<1> SUFFICES ASSUME Init PROVE TypeOK
  OBVIOUS
<1>1. leading \in BOOLEAN
  BY Zenon DEF Init
<1>2. changes \in 0 .. MaxChanges
  BY PolicyAssumption DEF Init
<1> QED
  BY <1>1, <1>2 DEF Init, TypeOK

\* Every step keeps the types.
LEMMA TypeStep == TypeOK /\ [Next]_vars => TypeOK'
<1> SUFFICES ASSUME TypeOK, [Next]_vars PROVE TypeOK'
  OBVIOUS
<1> USE PolicyAssumption, DistinctValues
<1>1. ASSUME NEW r \in Readers, NEW ns \in Namespaces, GetHit(r, ns)
      PROVE TypeOK'
  <2>1. entries[ns] \in cacheEntry
    BY <1>1 DEF GetHit, Live, TypeOK
  <2>2. [at |-> "done", ns |-> ns, got |-> entries[ns].policy] \in Call
    BY <2>1 DEF cacheEntry, Call
  <2> QED
    BY <1>1, <2>2 DEF GetHit, Return, TypeOK, apiVars, controllerVars
<1>2. ASSUME NEW r \in Readers, NEW ns \in Namespaces, GetMiss(r, ns)
      PROVE TypeOK'
  <2>1. [at |-> "list", ns |-> ns] \in Call
    BY DEF Call
  <2> QED
    BY <1>2, <2>1 DEF GetMiss, TypeOK, apiVars, controllerVars
<1>3. ASSUME NEW r \in Readers, RefreshList(r)
      PROVE TypeOK'
  <2>1. call[r] \in Call /\ call[r].ns \in Namespaces
    BY <1>3 DEF RefreshList, TypeOK, Call
  <2>2. \A policy \in Policy \union {NoPolicy} :
          [at |-> "store", ns |-> call[r].ns, got |-> policy] \in Call
    BY <2>1 DEF Call
  <2>3. [at |-> "done", ns |-> call[r].ns, got |-> Error] \in Call
    BY <2>1 DEF Call
  <2>4. \A p \in Claims(store, call[r].ns) : store[p] \in Policy
    BY DEF Claims, TypeOK
  <2>5. call' \in [Readers -> Call \union {Idle}]
    BY <1>3, <2>2, <2>3, <2>4 DEF RefreshList, Return, TypeOK
  <2> QED
    BY <1>3, <2>5 DEF RefreshList, TypeOK, apiVars, controllerVars
<1>4. ASSUME NEW r \in Readers, RefreshStore(r)
      PROVE TypeOK'
  <2>1. call[r].ns \in Namespaces /\ call[r].got \in Policy \union {NoPolicy}
    BY <1>4 DEF RefreshStore, TypeOK, Call
  <2>2. [at |-> "done", ns |-> call[r].ns, got |-> call[r].got] \in Call
    BY <2>1 DEF Call
  <2>3. [policy |-> call[r].got, live |-> TRUE, from |-> "refresh"] \in cacheEntry
    BY <2>1 DEF cacheEntry
  <2> QED
    BY <1>4, <2>1, <2>2, <2>3
    DEF RefreshStore, Put, Return, TypeOK, apiVars, controllerVars
<1>5. ASSUME NEW r \in Readers, Finish(r)
      PROVE TypeOK'
  BY <1>5 DEF Finish, TypeOK, apiVars, controllerVars
<1>6. ASSUME NEW c \in Controllers, Fetch(c)
      PROVE TypeOK'
  <2>1. PICK p \in todo[c] :
          /\ todo' = [todo EXCEPT ![c] = @ \ {p}]
          /\ read' = [read EXCEPT ![c] = [name |-> p, policy |-> store[p]]]
    BY <1>6 DEF Fetch
  <2>2. [name |-> p, policy |-> store[p]] \in Request
    BY DEF Request, TypeOK
  <2> QED
    BY <1>6, <2>1, <2>2 DEF Fetch, TypeOK, apiVars
<1>7. ASSUME NEW c \in Controllers, read[c] # Idle, read[c].policy # NoPolicy
      PROVE /\ read[c].policy.ns \in Namespaces
            /\ [policy |-> read[c].policy, live |-> TRUE, from |-> "watch"] \in cacheEntry
  BY <1>7 DEF TypeOK, Request, Policy, cacheEntry
<1>8. CASE PolicyCacheReconcile
  <2>1. entries' \in [Namespaces \union {NoNamespace} -> cacheEntry \union {NoEntry}]
    BY <1>7, <1>8 DEF PolicyCacheReconcile, Delete, Set, Put, Controllers, TypeOK
  <2> QED
    BY <1>8, <2>1 DEF PolicyCacheReconcile, TypeOK, apiVars
<1>9. CASE KubeTemplatePolicyReconcile
  <2>1. entries' \in [Namespaces \union {NoNamespace} -> cacheEntry \union {NoEntry}]
    BY <1>7, <1>9 DEF KubeTemplatePolicyReconcile, Clear, Update, Put, Controllers, TypeOK
  <2> QED
    BY <1>9, <2>1 DEF KubeTemplatePolicyReconcile, TypeOK, apiVars
<1>10. ASSUME NEW p \in Policies, Change(p)
       PROVE TypeOK'
  <2>1. changes' \in 0 .. MaxChanges
    BY <1>10 DEF Change, TypeOK
  <2>2. \A ns \in Namespaces : [name |-> p, ns |-> ns, rev |-> changes + 1] \in Policy
    BY <1>10 DEF Change, TypeOK, Policy
  <2>3. api' \in [Policies -> Policy \union {NoPolicy}]
    BY <1>10, <2>2 DEF Change, TypeOK
  <2> QED
    BY <1>10, <2>1, <2>3 DEF Change, TypeOK, controllerVars
<1>11. ASSUME NEW p \in Policies, Deliver(p)
       PROVE TypeOK'
  BY <1>11 DEF Deliver, Notify, TypeOK
<1>12. CASE Resync
  BY <1>12 DEF Resync, Notify, TypeOK, apiVars
<1>13. CASE Elected
  BY <1>13 DEF Elected, TypeOK, apiVars
<1>14. ASSUME NEW ns \in Namespaces, Expire(ns)
       PROVE TypeOK'
  <2>1. [entries[ns] EXCEPT !.live = FALSE] \in cacheEntry
    <3>1. entries[ns] \in cacheEntry
      BY <1>14 DEF Expire, Live, TypeOK
    <3> QED
      BY <3>1 DEF cacheEntry
  <2> QED
    BY <1>14, <2>1 DEF Expire, TypeOK, apiVars, controllerVars
<1>15. CASE UNCHANGED vars
  BY <1>15 DEF vars, apiVars, controllerVars, TypeOK
<1> QED
  BY <1>1, <1>2, <1>3, <1>4, <1>5, <1>6, <1>8, <1>9, <1>10, <1>11, <1>12,
     <1>13, <1>14, <1>15 DEF Next, Reader

\* What the program stores, queues and returns has its type; in particular the
\* controllers store policies only, never "not found".
THEOREM TypeCorrect == Spec => []TypeOK
BY TypeInit, TypeStep, PTL DEF Spec

\* The rest of the invariant holds at first: there are no policies and no entries.
LEMMA InitInvariant == Init => Versions /\ ReadsCurrent /\ FollowerIdle /\ WatchedEntriesCurrent
BY DEF Init, Versions, ReadsCurrent, FollowerIdle, WatchedEntriesCurrent, Live

\* A step that leaves the API server, the informer, the controllers and the
\* entries stored by controllers alone, except that it may drop or expire such
\* entries, keeps the invariant.
LEMMA EntriesOnly ==
  ASSUME IInv, TypeOK', UNCHANGED <<apiVars, controllerVars>>,
         \A ns \in Namespaces :
           \/ entries'[ns] = entries[ns]
           \/ entries'[ns] = NoEntry
           \/ entries'[ns].from = "refresh"
           \/ entries[ns] # NoEntry /\ ~entries'[ns].live /\ entries'[ns].from = entries[ns].from
  PROVE  IInv'
<1>1. Versions' /\ ReadsCurrent'
  BY DEF IInv, Versions, ReadsCurrent, apiVars, controllerVars
<1>2. FollowerIdle'
  BY DEF IInv, FollowerIdle, controllerVars
<1>3. WatchedEntriesCurrent'
  BY DEF IInv, WatchedEntriesCurrent, Live, Pending, apiVars, controllerVars
<1> QED
  BY <1>1, <1>2, <1>3 DEF IInv

\* Queueing more keys in the leader keeps the invariant.
LEMMA TodoGrows ==
  ASSUME IInv, TypeOK', UNCHANGED <<apiVars, read, leading, entries>>, leading,
         \A c \in Controllers : todo[c] \subseteq todo'[c]
  PROVE  IInv'
<1>1. Versions' /\ ReadsCurrent' /\ FollowerIdle'
  BY DEF IInv, Versions, ReadsCurrent, FollowerIdle, apiVars
<1>2. WatchedEntriesCurrent'
  BY DEF IInv, WatchedEntriesCurrent, Live, Pending, apiVars
<1> QED
  BY <1>1, <1>2 DEF IInv

\* A controller that stores the policy it read keeps the invariant: what it
\* stores is current unless it has the key queued again.
LEMMA ReconcileStores ==
  ASSUME IInv, TypeOK', NEW c \in Controllers, NEW q \in Policies, NEW policy \in Policy,
         read[c] = [name |-> q, policy |-> policy],
         read' = [read EXCEPT ![c] = Idle],
         Put(policy.ns, policy, "watch"),
         UNCHANGED <<apiVars, leading, todo>>
  PROVE  IInv'
<1> USE DistinctValues
<1>1. read[c] # Idle
  BY DEF Request
<1>2. policy.name = q /\ policy.ns \in Namespaces
  BY <1>1 DEF IInv, ReadsCurrent, Policy
<1>3. policy = store[q] \/ q \in todo[c]
  BY <1>1 DEF IInv, ReadsCurrent
<1>4. Versions' /\ ReadsCurrent'
  BY DEF IInv, TypeOK, Versions, ReadsCurrent, apiVars
<1>5. FollowerIdle'
  BY <1>1 DEF IInv, FollowerIdle
<1>6. \A p \in Policies : Pending(p) => Pending(p)' \/ (p = q /\ policy = api[p])
  BY <1>3 DEF IInv, TypeOK, Pending, apiVars
<1>7. policy = api[q] \/ Pending(q)'
  BY <1>3 DEF Pending, apiVars
<1>8. ASSUME NEW ns \in Namespaces, Live(ns)', entries'[ns].from = "watch",
             NEW p \in Policies, p = entries'[ns].policy.name,
             api[p] # NoPolicy, api[p].ns = ns
      PROVE  api[p] = entries'[ns].policy \/ Pending(p)'
  <2>1. CASE ns = policy.ns
    <3>1. entries'[ns].policy = policy
      BY <2>1, <1>2 DEF Put, IInv, TypeOK
    <3> QED
      BY <3>1, <1>2, <1>7, <1>8
  <2>2. CASE ns # policy.ns
    <3>1. entries'[ns] = entries[ns] /\ Live(ns)
      BY <1>8, <2>2 DEF Put, IInv, TypeOK, Live
    <3>2. api[p] = entries[ns].policy \/ Pending(p)
      BY <1>8, <3>1 DEF IInv, WatchedEntriesCurrent
    <3> QED
      BY <1>6, <1>8, <2>2, <3>1, <3>2
  <2> QED
    BY <2>1, <2>2
<1>9. \A ns \in Namespaces :
        Live(ns)' /\ entries'[ns].from = "watch" => entries'[ns].policy.name \in Policies
  BY DEF TypeOK, Live, cacheEntry, Policy
<1>10. WatchedEntriesCurrent'
  BY <1>8, <1>9 DEF WatchedEntriesCurrent, apiVars
<1> QED
  BY <1>4, <1>5, <1>10 DEF IInv

\* A controller that finds its policy gone keeps the invariant, whichever of the
\* entries it drops.
LEMMA ReconcileDrops ==
  ASSUME IInv, TypeOK', NEW c \in Controllers, NEW q \in Policies,
         read[c] = [name |-> q, policy |-> NoPolicy],
         read' = [read EXCEPT ![c] = Idle],
         \A ns \in Namespaces : entries'[ns] \in {entries[ns], NoEntry},
         UNCHANGED <<apiVars, leading, todo>>
  PROVE  IInv'
<1> USE DistinctValues
<1>1. read[c] # Idle
  BY DEF Request
<1>2. NoPolicy = store[q] \/ q \in todo[c]
  BY <1>1 DEF IInv, ReadsCurrent
<1>3. Versions' /\ ReadsCurrent'
  BY DEF IInv, TypeOK, Versions, ReadsCurrent, apiVars
<1>4. FollowerIdle'
  BY <1>1 DEF IInv, FollowerIdle
<1>5. \A p \in Policies : Pending(p) => Pending(p)' \/ (p = q /\ NoPolicy = api[p])
  BY <1>2 DEF IInv, TypeOK, Pending, apiVars
<1>6. \A ns \in Namespaces : Live(ns)' => Live(ns) /\ entries'[ns] = entries[ns]
  BY DEF Live
<1>7. \A ns \in Namespaces :
        Live(ns) /\ entries[ns].from = "watch" => entries[ns].policy.name \in Policies
  BY DEF IInv, TypeOK, Live, cacheEntry, Policy
<1>8. WatchedEntriesCurrent'
  BY <1>5, <1>6, <1>7 DEF IInv, WatchedEntriesCurrent, apiVars
<1> QED
  BY <1>3, <1>4, <1>8 DEF IInv

\* Every step keeps the invariant.
LEMMA InvariantStep == IInv /\ [Next]_vars => IInv'
<1> SUFFICES ASSUME IInv, [Next]_vars PROVE IInv'
  OBVIOUS
<1> USE DistinctValues
<1>1. TypeOK /\ TypeOK'
  BY TypeStep DEF IInv
<1>2. ASSUME NEW r \in Readers, Reader(r)
      PROVE  IInv'
  <2>1. UNCHANGED <<apiVars, controllerVars>>
    BY <1>2 DEF Reader, GetHit, GetMiss, RefreshList, RefreshStore, Finish
  <2>2. \A ns \in Namespaces : entries'[ns] = entries[ns] \/ entries'[ns].from = "refresh"
    BY <1>1, <1>2 DEF Reader, GetHit, GetMiss, RefreshList, RefreshStore, Finish, Put, TypeOK
  <2> QED
    BY <1>1, <2>1, <2>2, EntriesOnly
<1>3. ASSUME NEW c \in Controllers, Fetch(c)
      PROVE  IInv'
  <2>1. PICK p \in todo[c] :
          /\ todo' = [todo EXCEPT ![c] = @ \ {p}]
          /\ read' = [read EXCEPT ![c] = [name |-> p, policy |-> store[p]]]
    BY <1>3 DEF Fetch
  <2>2. p \in Policies /\ read[c] = Idle /\ UNCHANGED <<apiVars, leading, entries>>
    BY <1>1, <1>3 DEF Fetch, TypeOK
  <2>3. [name |-> p, policy |-> store[p]] # Idle
    BY <1>1, <2>2 DEF TypeOK, Request
  <2>4. Versions'
    BY <2>2 DEF IInv, Versions, apiVars
  <2>5. ReadsCurrent'
    BY <1>1, <2>1, <2>2, <2>3, SMTT(30) DEF IInv, TypeOK, ReadsCurrent, Versions, apiVars
  <2>6. FollowerIdle'
    BY <2>1, <2>2 DEF IInv, FollowerIdle
  <2>7. \A q \in Policies : Pending(q) => Pending(q)'
    BY <1>1, <2>1, <2>2, <2>3 DEF TypeOK, Pending, apiVars
  <2>8. \A ns \in Namespaces :
          Live(ns) /\ entries[ns].from = "watch" => entries[ns].policy.name \in Policies
    BY <1>1 DEF TypeOK, Live, cacheEntry, Policy
  <2>9. WatchedEntriesCurrent'
    BY <2>2, <2>7, <2>8 DEF IInv, WatchedEntriesCurrent, Live, apiVars
  <2> QED
    BY <1>1, <2>4, <2>5, <2>6, <2>9 DEF IInv
<1>4. ASSUME NEW c \in Controllers, read[c] # Idle
      PROVE  \E q \in Policies, policy \in Policy \union {NoPolicy} :
               read[c] = [name |-> q, policy |-> policy]
  BY <1>1, <1>4 DEF TypeOK, Request
<1>5. CASE PolicyCacheReconcile
  <2> DEFINE c == "policy-cache"
  <2>1. c \in Controllers
    BY DEF Controllers
  <2>2. PICK q \in Policies, policy \in Policy \union {NoPolicy} :
          read[c] = [name |-> q, policy |-> policy]
    BY <1>4, <1>5, <2>1 DEF PolicyCacheReconcile
  <2>3. read' = [read EXCEPT ![c] = Idle] /\ UNCHANGED <<apiVars, leading, todo>>
    BY <1>5 DEF PolicyCacheReconcile
  <2>4. CASE policy = NoPolicy
    <3>1. \A ns \in Namespaces : entries'[ns] \in {entries[ns], NoEntry}
      BY <1>1, <1>5, <2>2, <2>4, PolicyAssumption DEF PolicyCacheReconcile, Delete, TypeOK
    <3> QED
      BY <1>1, <2>1, <2>2, <2>3, <2>4, <3>1, ReconcileDrops
  <2>5. CASE policy # NoPolicy
    <3>1. Put(policy.ns, policy, "watch")
      BY <1>5, <2>2, <2>5 DEF PolicyCacheReconcile, Set
    <3> QED
      BY <1>1, <2>1, <2>2, <2>3, <2>5, <3>1, ReconcileStores
  <2> QED
    BY <2>4, <2>5
<1>6. CASE KubeTemplatePolicyReconcile
  <2> DEFINE c == "kubetemplatepolicy"
  <2>1. c \in Controllers
    BY DEF Controllers
  <2>2. PICK q \in Policies, policy \in Policy \union {NoPolicy} :
          read[c] = [name |-> q, policy |-> policy]
    BY <1>4, <1>6, <2>1 DEF KubeTemplatePolicyReconcile
  <2>3. read' = [read EXCEPT ![c] = Idle] /\ UNCHANGED <<apiVars, leading, todo>>
    BY <1>6 DEF KubeTemplatePolicyReconcile
  <2>4. CASE policy = NoPolicy
    <3>1. \A ns \in Namespaces : entries'[ns] \in {entries[ns], NoEntry}
      BY <1>1, <1>6, <2>2, <2>4 DEF KubeTemplatePolicyReconcile, Clear, TypeOK
    <3> QED
      BY <1>1, <2>1, <2>2, <2>3, <2>4, <3>1, ReconcileDrops
  <2>5. CASE policy # NoPolicy
    <3>1. Put(policy.ns, policy, "watch")
      BY <1>6, <2>2, <2>5 DEF KubeTemplatePolicyReconcile, Update
    <3> QED
      BY <1>1, <2>1, <2>2, <2>3, <2>5, <3>1, ReconcileStores
  <2> QED
    BY <2>4, <2>5
<1>7. ASSUME NEW p \in Policies, Change(p)
      PROVE  IInv'
  <2>1. changes \in Nat /\ changes' = changes + 1
    BY <1>1, <1>7, PolicyAssumption DEF Change, TypeOK
  <2>2. UNCHANGED <<store, controllerVars, entries>>
    BY <1>7 DEF Change
  <2>3. \A q \in Policies : q # p => api'[q] = api[q]
    BY <1>1, <1>7 DEF Change, TypeOK
  <2>4. \/ api'[p] = NoPolicy
        \/ /\ api'[p] # NoPolicy /\ api'[p].name = p
           /\ api'[p].rev = changes + 1
    BY <1>1, <1>7, PolicyAssumption DEF Change, TypeOK, Policy
  <2>5. \A q \in Policies : /\ api[q] # NoPolicy => api[q].rev \in Nat
                            /\ store[q] # NoPolicy => store[q].rev \in Nat
    BY <1>1, PolicyAssumption DEF TypeOK, Policy
  <2>6. Versions'
    BY <2>1, <2>2, <2>3, <2>4, <2>5 DEF IInv, Versions
  <2>7. api'[p] = NoPolicy \/ api'[p] # store[p]
    BY <2>1, <2>4, <2>5 DEF IInv, Versions
  <2>8. ReadsCurrent' /\ FollowerIdle'
    BY <2>2 DEF IInv, ReadsCurrent, FollowerIdle, controllerVars
  <2>9. \A ns \in Namespaces :
          Live(ns) /\ entries[ns].from = "watch" => entries[ns].policy.name \in Policies
    BY <1>1 DEF TypeOK, Live, cacheEntry, Policy
  <2>10. WatchedEntriesCurrent'
    BY <2>2, <2>3, <2>7, <2>9, SMTT(30) DEF IInv, WatchedEntriesCurrent, Live, Pending, controllerVars
  <2> QED
    BY <1>1, <2>6, <2>8, <2>10 DEF IInv
<1>8. ASSUME NEW p \in Policies, Deliver(p)
      PROVE  IInv'
  <2>1. UNCHANGED <<api, changes, leading, read, entries>>
    BY <1>8 DEF Deliver
  <2>2. store'[p] = api[p] /\ \A q \in Policies : q # p => store'[q] = store[q]
    BY <1>1, <1>8 DEF Deliver, TypeOK
  <2>3. Versions'
    BY <2>1, <2>2 DEF IInv, Versions
  <2>4. CASE leading
    <3>1. \A c \in Controllers : todo'[c] = todo[c] \union {p}
      BY <1>8, <2>4 DEF Deliver, Notify
    <3>2. \A c \in Controllers : read[c] # Idle => read[c].name \in Policies
      BY <1>1 DEF TypeOK, Request
    <3>3. ReadsCurrent'
      BY <2>1, <2>2, <3>1, <3>2 DEF IInv, ReadsCurrent
    <3>4. Pending(p)' /\ \A q \in Policies : Pending(q) => Pending(q)'
      BY <2>1, <2>2, <3>1 DEF Pending, Controllers
    <3>5. \A ns \in Namespaces :
            Live(ns) /\ entries[ns].from = "watch" => entries[ns].policy.name \in Policies
      BY <1>1 DEF TypeOK, Live, cacheEntry, Policy
    <3>6. WatchedEntriesCurrent'
      BY <2>1, <3>4, <3>5 DEF IInv, WatchedEntriesCurrent, Live
    <3> QED
      BY <1>1, <2>1, <2>3, <2>4, <3>3, <3>6 DEF IInv, FollowerIdle
  <2>5. CASE ~leading
    <3>1. \A c \in Controllers : todo'[c] = todo[c]
      BY <1>8, <2>5 DEF Deliver, Notify
    <3>2. ReadsCurrent' /\ FollowerIdle' /\ WatchedEntriesCurrent'
      BY <2>1, <2>5, <3>1 DEF IInv, ReadsCurrent, FollowerIdle, WatchedEntriesCurrent, Live
    <3> QED
      BY <1>1, <2>3, <3>2 DEF IInv
  <2> QED
    BY <2>4, <2>5
<1>9. CASE Resync
  <2>1. CASE leading
    BY <1>1, <1>9, <2>1, TodoGrows DEF Resync, Notify
  <2>2. CASE ~leading
    <3>1. todo' = todo
      BY <1>1, <1>9, <2>2 DEF Resync, Notify, TypeOK
    <3> QED
      BY <1>1, <1>9, <3>1, EntriesOnly DEF Resync, controllerVars
  <2> QED
    BY <2>1, <2>2
<1>10. CASE Elected
  <2>1. ~leading /\ leading' /\ UNCHANGED <<apiVars, read, entries>>
    BY <1>10 DEF Elected
  <2>2. Versions' /\ ReadsCurrent' /\ FollowerIdle' /\ WatchedEntriesCurrent'
    BY <2>1 DEF IInv, Versions, ReadsCurrent, FollowerIdle, WatchedEntriesCurrent, Live, apiVars
  <2> QED
    BY <1>1, <2>2 DEF IInv
<1>11. ASSUME NEW ns \in Namespaces, Expire(ns)
       PROVE  IInv'
  <2>1. \A m \in Namespaces :
          \/ entries'[m] = entries[m]
          \/ entries[m] # NoEntry /\ ~entries'[m].live /\ entries'[m].from = entries[m].from
    BY <1>1, <1>11 DEF Expire, Live, TypeOK, cacheEntry
  <2> QED
    BY <1>1, <1>11, <2>1, EntriesOnly DEF Expire
<1>12. CASE UNCHANGED vars
  BY <1>1, <1>12, EntriesOnly DEF vars
<1> QED
  BY <1>2, <1>3, <1>5, <1>6, <1>7, <1>8, <1>9, <1>10, <1>11, <1>12 DEF Next

\* An edit of a policy reaches the cache of the leader: for any numbers of
\* policies, namespaces and readers, an entry that a controller stored and that
\* is still live is current or about to be replaced.
THEOREM EditsReachCache == Spec => []WatchedEntriesCurrent
<1>1. Init => IInv
  BY TypeInit, InitInvariant DEF IInv
<1>2. IInv => WatchedEntriesCurrent
  BY DEF IInv
<1> QED
  BY <1>1, <1>2, InvariantStep, PTL DEF Spec
=============================================================================
