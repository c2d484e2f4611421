----------------------- MODULE TemplateLifecycleProofs -----------------------
(***************************************************************************)
(* The workers and the reconciler use the work queue as RetryQueue allows, *)
(* so what RetryQueueProofs proves of the queue holds of the whole system. *)
(* The system keeps its types, and never forgets an unfinished template,   *)
(* nor, until the process restarts, a Failed one.  It writes to an object  *)
(* as TemplateStatus allows, and hashes only what a worker went through.   *)
(***************************************************************************)
EXTENDS TemplateLifecycleSteps

\* How long, in seconds, the provers may try a leaf.
USE SMTT(15), ZenonT(20)

\* For any number of workers, templates and retries, the system calls the
\* queue as RetryQueue allows: exactly one Done or Fail follows a Dequeue, and
\* Requeue is called only with retries left (Start, Reconcile).
THEOREM QueueProtocol == Spec => UsesQueue
<1>1. Init => Q!Init /\ CtrlKey
  BY DEF Init, CtrlKey
<1> QED
  BY <1>1, NextCtrlKey, StepUsesQueue, PTL DEF Spec, UsesQueue

-----------------------------------------------------------------------------
(* Nobody is forgotten.                                                    *)
(*                                                                         *)
(* Owned is not inductive.  A key that waits with the controller is of use *)
(* only if Reconcile will enqueue it, and Reconcile decides by the cached  *)
(* object: it does nothing with one that is missing, Paused or Failed.  So *)
(* either somebody is certain to take the template up whatever the cache   *)
(* says (Scheduled), or a key waits and the cached phase is one Reconcile  *)
(* goes on with (Awaited).  A Failed template only ever waits for a retry, *)
(* which is an item in the queue or a worker (Assigned).                   *)

Unfinished == {"", "Queued", "Processing"}

\* In the work queue, or a worker is at work on it.
Assigned(n) ==
  \/ \E i \in items : item[i].name = n
  \/ \E w \in Workers : pc[w] \notin {"idle", "done"} /\ Name(w) = n

Scheduled(n) == Triggers(unseen[n]) \/ (cname = n /\ cpc = "enqueue") \/ Assigned(n)

Keys == pending \cup retryLater \cup periodic \cup {cname}

Awaited(n) == n \in Keys /\ cache[n] # NoObj /\ cache[n].phase \in Unfinished

OwnerOK(n) == Exists(n) /\ n \notin gaveUp =>
  /\ api[n].phase \in Unfinished => Scheduled(n) \/ Awaited(n)
  /\ used.crashes = 0 /\ api[n].phase = "Failed" => Assigned(n)

\* An object the cache does not have: its creation is still to be delivered,
\* and before a restart no worker has seen it.
CacheOK(n) == Exists(n) /\ cache[n] = NoObj =>
  /\ "create" \in unseen[n]
  /\ used.crashes = 0 => api[n].phase \in {"", "Completed"}

UsedInv ==
  /\ DOMAIN used = {"edits", "resumes", "deletes", "crashes", "faults", "tampers"}
  /\ used.crashes \in Nat

OwnerInv ==
  /\ UsedInv
  /\ \A n \in Names : CacheOK(n) /\ OwnerOK(n)

\* It implies what the runs check.
LEMMA OwnerInvOwned == OwnerInv => UnfinishedOwned /\ FailedOwnedUntilRestart
BY DEF OwnerInv, OwnerOK, Scheduled, Awaited, Keys, Assigned, Unfinished, UnfinishedOwned,
       FailedOwnedUntilRestart, FailedOwned, Owned

\* Nothing exists at first, or all is Completed and will be listed.
LEMMA InitOwnerInv == Init => OwnerInv
<1> SUFFICES ASSUME Init PROVE OwnerInv
  OBVIOUS
<1>1. UsedInv
  BY DEF Init, UsedInv
<1>2. ASSUME NEW n \in Names, Exists(n)
      PROVE  api[n].phase = "Completed" /\ "create" \in unseen[n]
  BY <1>2 DEF Init, Exists, NewObject
<1> QED
  BY <1>1, <1>2 DEF OwnerInv, CacheOK, OwnerOK, Unfinished

-----------------------------------------------------------------------------

\* A bound other than that of restarts is used up.
Spent == \E b \in {"edits", "resumes", "deletes", "faults", "tampers"} :
           \E u : used' = [used EXCEPT ![b] = u]

\* Restarts are counted by Crash alone.
LEMMA UsedKept ==
  ASSUME UsedInv, used' = used \/ Spent
  PROVE  UsedInv' /\ used'.crashes = used.crashes
BY DEF UsedInv, Spent

\* What keeps n's owner, whoever moves.
LEMMA OwnerFrame ==
  ASSUME NEW n \in Names, OwnerOK(n),
         Exists(n)' => Exists(n) /\ api'[n].phase = api[n].phase,
         n \in gaveUp => n \in gaveUp',
         used'.crashes = used.crashes,
         Assigned(n) => Assigned(n)',
         Triggers(unseen[n]) => Triggers(unseen'[n]),
         cache[n] # NoObj => cache'[n] # NoObj /\ cache'[n].phase = cache[n].phase,
         cname = n /\ cpc = "enqueue" => (cname' = n /\ cpc' = "enqueue") \/ Assigned(n)',
         n \in Keys => n \in Keys'
  PROVE  OwnerOK(n)'
BY DEF OwnerOK, Scheduled, Awaited

\* An object that is not touched, and whose cached copy is not, keeps its
\* creation event.
LEMMA CacheFrame ==
  ASSUME NEW n \in Names, CacheOK(n),
         Exists(n)' => Exists(n) /\ api'[n].phase = api[n].phase,
         used'.crashes = used.crashes,
         unseen[n] \subseteq unseen'[n],
         cache'[n] = NoObj => cache[n] = NoObj
  PROVE  CacheOK(n)'
BY DEF CacheOK

\* What a change of n leaves alone, and what it does to n.
LEMMA ChangeEffect ==
  ASSUME ObjectInv, NEW n \in Names, NEW o, NEW c, Change(n, o, c)
  PROVE  /\ api'[n] = o /\ unseen'[n] = unseen[n] \cup {c}
         /\ \A m \in Names \ {n} : api'[m] = api[m] /\ unseen'[m] = unseen[m]
         /\ \A m \in Names : Triggers(unseen[m]) => Triggers(unseen'[m])
         /\ \A m \in Names : unseen[m] \subseteq unseen'[m]
BY DEF ObjectInv, Change, Triggers

\* A worker that goes on with its item keeps every template assigned.
LEMMA GoOn ==
  ASSUME QInv, RegInv, NEW w \in Workers, NEW l, Goto(w, l), pc[w] # "idle", UNCHANGED queueVars
  PROVE  /\ l \notin {"idle", "done"} => Assigned(Name(w))' /\ \A n \in Names : Assigned(n) => Assigned(n)'
         /\ \A n \in Names \ {Name(w)} : Assigned(n) => Assigned(n)'
<1>1. /\ items' = items /\ item' = item /\ held' = held
      /\ \A v \in Workers : Name(v)' = Name(v)
  BY DEF queueVars, Name
<1>2. pc'[w] = l /\ \A v \in Workers \ {w} : pc'[v] = pc[v]
  BY DEF Goto, RegInv
<1> QED
  BY <1>1, <1>2 DEF Assigned

\* Dequeue moves an item to a worker.
LEMMA DequeueAssigned ==
  ASSUME QInv, RegInv, NEW w \in Workers, Dequeue(w)
  PROVE  \A n \in Names : Assigned(n) => Assigned(n)'
<1>1. PICK i \in items :
        items' = items \ {i} /\ held' = [held EXCEPT ![w] = i] /\ item' = item
  BY DEF Dequeue, Q!Dequeue
<1>2. held'[w] = i /\ \A v \in Workers \ {w} : held'[v] = held[v]
  BY <1>1 DEF QInv, Q!TypeOK
<1>3. pc[w] = "idle" /\ pc'[w] = "get" /\ \A v \in Workers \ {w} : pc'[v] = pc[v]
  BY DEF Dequeue, Goto, RegInv
<1> QED
  BY <1>1, <1>2, <1>3 DEF Assigned, Name

\* Done gives up an item its worker no longer answers for, or its template is
\* one nobody has to deal with any more.
LEMMA DoneAssigned ==
  ASSUME QInv, RegInv, NEW w \in Workers, Done(w)
  PROVE  \A n \in Names : Assigned(n) => Assigned(n)' \/ n \in gaveUp'
<1>1. held[w] # NoItem /\ items' = items /\ held' = [held EXCEPT ![w] = NoItem]
      /\ item' = [item EXCEPT ![held[w]] = NoItem]
  BY DEF Done, Q!Done
<1>2. held'[w] = NoItem /\ \A v \in Workers \ {w} : held'[v] = held[v]
  BY <1>1 DEF QInv, Q!TypeOK
<1>3. pc[w] \in {"done", "dropped"} /\ \A v \in Workers \ {w} : pc'[v] = pc[v]
  BY DEF Done, Goto, RegInv
<1>4. pc[w] = "dropped" => Name(w) \in gaveUp'
  BY DEF Done
<1>5. /\ \A i \in items : item'[i] = item[i]
      /\ \A v \in Workers \ {w} : held[v] # NoItem => item'[held[v]] = item[held[v]]
  BY <1>1 DEF QInv, Q!TypeOK, Q!SingleOwner, Q!Busy
<1>6. \A v \in Workers : pc[v] # "idle" => held[v] # NoItem
  BY DEF RegInv
<1> QED
  BY <1>1, <1>2, <1>3, <1>4, <1>5, <1>6 DEF Assigned, Name

\* Requeue puts the item back, with its name.
LEMMA RequeueAssigned ==
  ASSUME QInv, RegInv, NEW w \in Workers, Requeue(w)
  PROVE  \A n \in Names : Assigned(n) => Assigned(n)'
<1> DEFINE j == held[w]
<1>1. ~Q!GivesUp(item[j])
  BY DEF Requeue, CyclesExhausted, Q!GivesUp
<1>2. /\ j # NoItem /\ items' = items \cup {j} /\ held' = [held EXCEPT ![w] = NoItem]
      /\ item' = [item EXCEPT ![j] = Q!Retried(item[j])]
  BY <1>1 DEF Requeue, Q!Requeue
<1>3. j \in Ids /\ item[j] \in WorkItem
  BY <1>2, QueueItems
<1>4. Q!Retried(item[j]).name = item[j].name
  BY <1>3 DEF WorkItem, Q!Retried
<1>5. item'[j].name = item[j].name /\ \A i \in Ids \ {j} : item'[i] = item[i]
  BY <1>2, <1>3, <1>4 DEF QInv, Q!TypeOK
<1>6. \A v \in Workers \ {w} : held'[v] = held[v] /\ pc'[v] = pc[v]
  BY <1>2 DEF Requeue, Goto, RegInv, QInv, Q!TypeOK
<1>7. items \subseteq Ids /\ \A v \in Workers : pc[v] # "idle" => held[v] \in Ids
  BY QueueItems DEF RegInv
<1>8. \A i \in Ids : item'[i].name = item[i].name
  BY <1>5
<1>9. ASSUME NEW i \in items, NEW n, item[i].name = n PROVE Assigned(n)'
  BY <1>2, <1>7, <1>8, <1>9 DEF Assigned
<1>10. ASSUME NEW v \in Workers, NEW n, pc[v] \notin {"idle", "done"}, Name(v) = n
       PROVE  Assigned(n)'
  <2>1. CASE v = w
    BY <1>2, <1>3, <1>8, <1>10, <2>1 DEF Assigned, Name
  <2>2. CASE v # w
    <3>1. item'[held'[v]].name = n /\ pc'[v] = pc[v]
      BY <1>6, <1>7, <1>8, <1>10, <2>2 DEF Name
    <3> QED
      BY <1>10, <3>1 DEF Assigned, Name
  <2> QED
    BY <2>1, <2>2
<1> QED
  BY <1>9, <1>10 DEF Assigned

\* Enqueue leaves an item of the name in the queue, and the others as they are.
LEMMA EnqueueAssigned ==
  ASSUME QInv, RegInv, NEW n \in Names, Q!Enqueue(n, 0), UNCHANGED pc
  PROVE  Assigned(n)' /\ \A m \in Names : Assigned(m) => Assigned(m)'
<1>1. items \subseteq Ids /\ \A v \in Workers : pc[v] # "idle" => held[v] # NoItem /\ held[v] \in Ids
  BY QueueItems DEF RegInv
<1>2. CASE Q!Contains(n)
  <2> DEFINE j == itemsMap[n]
  <2>1. j \in items /\ j \in Ids /\ item[j] \in WorkItem /\ item[j].name = n
    BY <1>2, QueueItems DEF QInv, Q!MapPointsIntoHeap
  <2>2. /\ item' = [item EXCEPT ![j] = Q!Raised(item[j], 0)]
        /\ UNCHANGED <<items, held>>
    BY <1>2 DEF Q!Enqueue
  <2>3. Q!Raised(item[j], 0).name = n
    BY <2>1 DEF Q!Raised, WorkItem
  <2>4. item'[j].name = item[j].name /\ \A i \in Ids \ {j} : item'[i] = item[i]
    BY <2>1, <2>2, <2>3 DEF QInv, Q!TypeOK
  <2> QED
    BY <1>1, <2>1, <2>2, <2>4 DEF Assigned, Name
<1>3. CASE ~Q!Contains(n)
  <2>1. PICK j \in Ids : /\ item[j] = NoItem /\ item' = [item EXCEPT ![j] = Q!NewItem(n, 0)]
                         /\ items' = items \cup {j} /\ held' = held
    BY <1>3 DEF Q!Enqueue
  <2>2. item'[j].name = n /\ \A i \in Ids \ {j} : item'[i] = item[i]
    BY <2>1 DEF QInv, Q!TypeOK, Q!NewItem
  <2>3. j \notin items /\ \A v \in Workers : pc[v] # "idle" => held[v] # j
    BY <1>1, <2>1 DEF QInv, Q!SingleOwner, Q!Busy
  <2> QED
    BY <1>1, <2>1, <2>2, <2>3 DEF Assigned, Name
<1> QED
  BY <1>2, <1>3

-----------------------------------------------------------------------------

\* What a worker's step spends.
LEMMA WorkerSpends ==
  ASSUME NEW w \in Workers, Worker(w)
  PROVE  used' = used \/ Fault
<1>1. ASSUME NEW new, NEW ok, NEW err, UpdateStatus(w, new, ok, err) PROVE used' = used \/ Fault
  BY <1>1 DEF UpdateStatus, NoFault
<1>2. CASE SetProcessing(w) \/ SetRejected(w) \/ SetFailed(w) \/ SetCompleted(w) \/ SetPaused(w)
  BY <1>1, <1>2 DEF SetProcessing, SetRejected, SetFailed, SetCompleted, SetPaused, SetPhase
<1>3. CASE Dequeue(w) \/ GetTemplate(w) \/ GetPolicy(w) \/ ApplyTemplate(w) \/ LoopEnds(w)
  BY <1>3 DEF Dequeue, GetTemplate, GetPolicy, ApplyTemplate, LoopEnds, NoFault
<1>4. CASE \/ Continue(w) \/ DeleteForReplace(w) \/ ApplyAfterReplace(w) \/ Requeue(w)
           \/ OutOfRetries(w) \/ Done(w)
  BY <1>4 DEF Continue, DeleteForReplace, ApplyAfterReplace, Requeue, OutOfRetries, Done, NoFault
<1> QED
  BY <1>2, <1>3, <1>4 DEF Worker

\* A failed call is no restart.
LEMMA FaultSpends ==
  ASSUME UsedInv, used' = used \/ Fault
  PROVE  UsedInv' /\ used'.crashes = used.crashes
BY UsedKept DEF Fault, UsedInv

\* What a worker leaves alone.
LEMMA WorkerOutside ==
  ASSUME NEW w \in Workers, Worker(w)
  PROVE  /\ UNCHANGED <<cache, cpc, cname, pending, retryLater, periodic>>
         /\ gaveUp \subseteq gaveUp'
<1>1. CASE Dequeue(w) \/ GetTemplate(w) \/ SetProcessing(w) \/ GetPolicy(w)
  BY <1>1 DEF Dequeue, GetTemplate, SetProcessing, GetPolicy, Outside, ctrlVars, timerVars
<1>2. CASE ApplyTemplate(w) \/ LoopEnds(w) \/ SetRejected(w) \/ Continue(w)
  BY <1>2 DEF ApplyTemplate, LoopEnds, SetRejected, Continue, Outside, ctrlVars, timerVars
<1>3. CASE DeleteForReplace(w) \/ ApplyAfterReplace(w) \/ SetFailed(w) \/ SetCompleted(w)
  BY <1>3 DEF DeleteForReplace, ApplyAfterReplace, SetFailed, SetCompleted, Outside, ctrlVars, timerVars
<1>4. CASE Requeue(w) \/ OutOfRetries(w) \/ SetPaused(w) \/ Done(w)
  BY <1>4 DEF Requeue, OutOfRetries, SetPaused, Done, Outside, ctrlVars, timerVars
<1> QED
  BY <1>1, <1>2, <1>3, <1>4 DEF Worker

\* A worker that writes nothing keeps the owners of all templates if they stay
\* assigned.
LEMMA QuietWorker ==
  ASSUME OwnerInv, NEW w \in Workers, Worker(w), UNCHANGED objectVars,
         NEW n \in Names, Assigned(n) => Assigned(n)' \/ n \in gaveUp'
  PROVE  CacheOK(n)' /\ OwnerOK(n)'
<1>1. /\ UNCHANGED <<cache, cpc, cname, pending, retryLater, periodic>> /\ gaveUp \subseteq gaveUp'
      /\ used'.crashes = used.crashes /\ api' = api /\ unseen' = unseen
  BY WorkerOutside, WorkerSpends, FaultSpends DEF OwnerInv, objectVars
<1>2. CacheOK(n)'
  BY <1>1 DEF OwnerInv, CacheOK, Exists
<1>3. CASE n \in gaveUp'
  BY <1>2, <1>3 DEF OwnerOK
<1>4. CASE Assigned(n) => Assigned(n)'
  BY <1>1, <1>2, <1>4, OwnerFrame DEF OwnerInv, Exists, Keys
<1> QED
  BY <1>3, <1>4

\* A status update: the phase it writes has its worker as owner, or needs none.
LEMMA StatusOwner ==
  ASSUME QInv, Typed, OwnerInv, NEW w \in Workers, Worker(w), pc[w] # "idle", UNCHANGED queueVars,
         NEW new, NEW ok, NEW err, UpdateStatus(w, new, ok, err),
         ok # "idle", err \notin {"idle", "done"}, pc[w] # "done",
         cache[Name(w)] # NoObj => new.phase \in (IF ok = "done" THEN {"Completed", "Paused"}
                                                               ELSE {"Processing", "Failed"})
  PROVE  \A n \in Names : CacheOK(n)' /\ OwnerOK(n)'
<1>1. CASE UNCHANGED objectVars /\ \E l \in {err, pc[w]} : Goto(w, l)
  <2>1. \A n \in Names : Assigned(n) => Assigned(n)'
    BY <1>1, GoOn DEF Typed
  <2> QED
    BY <1>1, <2>1, QuietWorker
<1>2. CASE /\ Exists(Name(w)) /\ cache[Name(w)] # NoObj
           /\ Change(Name(w), new, "status") /\ Goto(w, ok)
  <2>1. PICK n \in Names : n = Name(w) /\ n = Name(w)'
    BY AtWork DEF Name, queueVars
  <2>2. /\ UNCHANGED <<cache, cpc, cname, pending, retryLater, periodic>> /\ gaveUp \subseteq gaveUp'
        /\ used'.crashes = used.crashes
    BY WorkerOutside, WorkerSpends, FaultSpends DEF OwnerInv
  <2>3. /\ api'[n] = new
        /\ \A m \in Names \ {n} : api'[m] = api[m] /\ unseen'[m] = unseen[m]
    <3>1. ObjectInv /\ Change(n, new, "status")
      BY <1>2, <2>1 DEF Typed
    <3> HIDE DEF ObjectInv, Change
    <3> QED
      BY <3>1, ChangeEffect
  <2>4. CacheOK(n)'
    <3>1. cache'[n] # NoObj
      BY <1>2, <2>1, <2>2
    <3> QED
      BY <3>1 DEF CacheOK
  <2>5. OwnerOK(n)'
    <3>1. CASE ok = "done"
      BY <1>2, <2>1, <2>3, <3>1 DEF OwnerOK, Unfinished
    <3>2. CASE ok # "done"
      <4>1. Assigned(n)'
        BY <1>2, <2>1, <3>2, GoOn DEF Typed
      <4> QED
        BY <4>1 DEF OwnerOK, Scheduled
    <3> QED
      BY <3>1, <3>2
  <2>6. ASSUME NEW m \in Names \ {n} PROVE CacheOK(m)' /\ OwnerOK(m)'
    <3>1. Assigned(m) => Assigned(m)'
      BY <1>2, <2>1, GoOn DEF Typed
    <3>2. CacheOK(m)'
      BY <2>2, <2>3 DEF OwnerInv, CacheOK, Exists
    <3> QED
      BY <2>2, <2>3, <3>1, <3>2, OwnerFrame DEF OwnerInv, Exists, Keys
  <2> QED
    BY <2>4, <2>5, <2>6
<1> QED
  BY <1>1, <1>2, StatusWrite

\* Every step of a worker keeps the owners.
LEMMA WorkerOwner ==
  ASSUME QInv, Typed, OwnerInv, NEW w \in Workers, Worker(w)
  PROVE  OwnerInv'
<1>1. UsedInv'
  BY WorkerSpends, FaultSpends DEF OwnerInv
<1> SUFFICES \A n \in Names : CacheOK(n)' /\ OwnerOK(n)'
  BY <1>1 DEF OwnerInv
<1>2. CASE Dequeue(w)
  BY <1>2, DequeueAssigned, QuietWorker DEF Dequeue, Typed
<1>3. CASE Requeue(w)
  BY <1>3, RequeueAssigned, QuietWorker DEF Requeue, Typed
<1>4. CASE Done(w)
  BY <1>4, DoneAssigned, QuietWorker DEF Done, Typed
<1>5. ASSUME NEW l, Goto(w, l), l \notin {"idle", "done"}, pc[w] # "idle",
             UNCHANGED <<queueVars, objectVars>>
      PROVE  \A n \in Names : CacheOK(n)' /\ OwnerOK(n)'
  BY <1>5, GoOn, QuietWorker DEF Typed
<1>6. CASE GetTemplate(w)
  <2>1. CASE Goto(w, "setProcessing") \/ Goto(w, "fail")
    BY <1>5, <1>6, <2>1 DEF GetTemplate
  <2>2. CASE cache[Name(w)] = NoObj /\ Goto(w, "done")
    <3>1. PICK n \in Names : n = Name(w)
      BY <1>6, AtWork DEF GetTemplate
    <3>2. \A m \in Names \ {n} : CacheOK(m)' /\ OwnerOK(m)'
      BY <1>6, <2>2, <3>1, GoOn, QuietWorker DEF GetTemplate, Typed
    <3>3. /\ cache' = cache /\ api' = api /\ unseen' = unseen
          /\ used'.crashes = used.crashes
      BY <1>6, WorkerOutside, WorkerSpends, FaultSpends DEF OwnerInv, GetTemplate, objectVars
    <3>4. CacheOK(n)'
      BY <3>3 DEF OwnerInv, CacheOK, Exists
    <3>5. OwnerOK(n)'
      <4>1. Exists(n)' => "create" \in unseen'[n] /\ (used'.crashes = 0 => api'[n].phase # "Failed")
        BY <2>2, <3>1, <3>3, <3>4 DEF CacheOK
      <4> QED
        BY <4>1 DEF OwnerOK, Scheduled, Triggers
    <3> QED
      BY <3>2, <3>4, <3>5
  <2> QED
    BY <1>6, <2>1, <2>2 DEF GetTemplate
<1>7. CASE GetPolicy(w)
  BY <1>5, <1>7 DEF GetPolicy
<1>8. CASE ApplyTemplate(w)
  <2>1. PICK l \in {"apply", "setRejected", "delete", "setFailed"} : Goto(w, l)
    BY <1>8 DEF ApplyTemplate, Goto, Typed, RegInv
  <2> QED
    BY <1>5, <1>8, <2>1 DEF ApplyTemplate
<1>9. CASE LoopEnds(w) \/ Continue(w) \/ OutOfRetries(w)
  BY <1>5, <1>9 DEF LoopEnds, Continue, OutOfRetries
<1>10. CASE DeleteForReplace(w) \/ ApplyAfterReplace(w)
  BY <1>5, <1>10 DEF DeleteForReplace, ApplyAfterReplace
<1>11. CASE SetProcessing(w) \/ SetRejected(w) \/ SetFailed(w) \/ SetCompleted(w) \/ SetPaused(w)
  <2>1. pc[w] \notin {"idle", "done"} /\ UNCHANGED queueVars
    BY <1>11 DEF SetProcessing, SetRejected, SetFailed, SetCompleted, SetPaused
  <2>2. /\ Name(w) \in Names /\ (cache[Name(w)] # NoObj => cache[Name(w)] \in Object)
        /\ pc[w] = "setCompleted" => reg[w].hash \in Specs
    BY <2>1, AtWork DEF Typed, WorldInv
  <2>3. ASSUME NEW p \in Phases, NEW ok, NEW err, SetPhase(w, p, ok, err),
               ok # "idle", err \notin {"idle", "done"},
               p \in (IF ok = "done" THEN {"Completed", "Paused"} ELSE {"Processing", "Failed"})
        PROVE  \A n \in Names : CacheOK(n)' /\ OwnerOK(n)'
    <3> DEFINE new == [cache[Name(w)] EXCEPT !.phase = p]
    <3>1. cache[Name(w)] # NoObj => new.phase = p
      BY <2>2, ObjectUpdates
    <3>2. UpdateStatus(w, new, ok, err)
      BY <2>3 DEF SetPhase
    <3> HIDE DEF new
    <3> QED
      BY <2>1, <2>3, <3>1, <3>2, StatusOwner
  <2>4. {"Processing", "Failed", "Completed", "Paused"} \subseteq Phases
    BY DEF Phases
  <2>5. CASE SetCompleted(w)
    <3> DEFINE new == [cache[Name(w)] EXCEPT !.phase = "Completed", !.hash = reg[w].hash]
    <3>1. UpdateStatus(w, new, "done", "fail") /\ pc[w] = "setCompleted"
      BY <2>5 DEF SetCompleted
    <3>2. ASSUME cache[Name(w)] # NoObj PROVE new.phase = "Completed"
      <4>1. cache[Name(w)] \in Object
        BY <2>2, <3>2
      <4> QED
        BY <4>1 DEF Object
    <3> HIDE DEF new
    <3> QED
      BY <2>1, <3>1, <3>2, StatusOwner
  <2>6. CASE SetProcessing(w)
    BY <2>3, <2>4, <2>6 DEF SetProcessing
  <2>7. CASE SetRejected(w)
    BY <2>3, <2>4, <2>7 DEF SetRejected
  <2>8. CASE SetFailed(w)
    BY <2>3, <2>4, <2>8 DEF SetFailed
  <2>9. CASE SetPaused(w)
    BY <2>3, <2>4, <2>9 DEF SetPaused
  <2> QED
    BY <1>11, <2>5, <2>6, <2>7, <2>8, <2>9
<1> QED
  BY <1>2, <1>3, <1>4, <1>6, <1>7, <1>8, <1>9, <1>10, <1>11 DEF Worker

-----------------------------------------------------------------------------

\* Templates stay assigned while the queue and the workers stand still.
LEMMA StillAssigned ==
  ASSUME UNCHANGED <<queueVars, pc>>
  PROVE  \A n \in Names : Assigned(n)' <=> Assigned(n)
BY DEF Assigned, Name, queueVars

\* The reconciler at work on n: the other templates keep their owners, and so
\* does n if its object and its key are kept.
LEMMA OtherKeys ==
  ASSUME OwnerInv, NEW n \in Names, cname \in {n, NoObj},
         UNCHANGED <<cache, gaveUp>>, used'.crashes = used.crashes,
         \A m \in Names : Assigned(m) => Assigned(m)',
         \A m \in Names \ {n} : api'[m] = api[m] /\ unseen'[m] = unseen[m],
         pending \ {n} \subseteq pending', retryLater \subseteq retryLater',
         periodic \subseteq periodic'
  PROVE  \A m \in Names \ {n} : CacheOK(m)' /\ OwnerOK(m)'
<1> TAKE m \in Names \ {n}
<1>1. cname # m /\ (m \in Keys => m \in Keys')
  BY NoObjAssumption DEF Keys
<1>2. CacheOK(m) /\ OwnerOK(m) /\ (Exists(m)' <=> Exists(m))
  BY DEF OwnerInv, Exists
<1>3. CacheOK(m)'
  BY <1>2 DEF CacheOK
<1> QED
  BY <1>1, <1>2, <1>3, OwnerFrame

\* n itself: its object is as it was, and its key is kept or not needed.
LEMMA SameKey ==
  ASSUME OwnerInv, NEW n \in Names, UNCHANGED <<api, unseen, cache, gaveUp>>,
         used'.crashes = used.crashes, Assigned(n) => Assigned(n)',
         \/ n \in Keys'
         \/ cache[n] = NoObj
         \/ cache[n].phase \notin Unfinished,
         cname = n /\ cpc = "enqueue" => (cname' = n /\ cpc' = "enqueue") \/ Assigned(n)'
  PROVE  CacheOK(n)' /\ OwnerOK(n)'
<1>1. CacheOK(n) /\ OwnerOK(n)
  BY DEF OwnerInv
<1>2. CacheOK(n)'
  BY <1>1 DEF CacheOK, Exists
<1>3. CASE Awaited(n) => n \in Keys'
  BY <1>1, <1>2, <1>3 DEF OwnerOK, Scheduled, Awaited, Exists
<1>4. CASE Awaited(n) /\ n \notin Keys'
  BY <1>4 DEF Awaited
<1> QED
  BY <1>3, <1>4

\* A write of the reconciler: Enqueue follows, or the phase is Completed.
LEMMA ReconcilerWrites ==
  ASSUME Typed, OwnerInv, NEW n \in Names, NEW o, Change(n, o, "status"), Exists(n),
         UNCHANGED cache, used'.crashes = used.crashes,
         CacheOK(n),
         \/ cache[n] # NoObj /\ o.phase = "Queued" /\ cname' = n /\ cpc' = "enqueue"
         \/ o.phase = "Completed"
  PROVE  CacheOK(n)' /\ OwnerOK(n)'
<1>1. api'[n] = o /\ unseen[n] \subseteq unseen'[n]
  BY ChangeEffect DEF Typed
<1>2. CacheOK(n)'
  BY <1>1 DEF CacheOK
<1>3. OwnerOK(n)'
  BY <1>1 DEF OwnerOK, Scheduled, Unfinished
<1> QED
  BY <1>2, <1>3

\* Whatever Reconcile finds in the cache, n keeps an owner.
LEMMA ReconcileOwner ==
  ASSUME QInv, Typed, OwnerInv, NEW n \in Names, Reconcile(n)
  PROVE  OwnerInv'
<1>1. /\ UNCHANGED <<queueVars, Inside>> /\ pending' = pending \ {n} /\ cpc = "idle"
  BY DEF Reconcile, ReconcileNothing, ReconcilePaused, ReconcileFailed, ReconcileCompleted,
         ReconcileNew, Take
<1>2. cname = NoObj /\ cname # n
  BY <1>1, NoObjAssumption DEF Typed, CtrlInv
<1>3. \A m \in Names : Assigned(m) => Assigned(m)'
  BY <1>1, StillAssigned DEF Inside
<1>4. UsedInv /\ CacheOK(n) /\ cache' = cache /\ gaveUp' = gaveUp
  BY <1>1 DEF OwnerInv, Inside
<1> DEFINE Fine == /\ used' = used \/ Fault
                   /\ \A m \in Names \ {n} : api'[m] = api[m] /\ unseen'[m] = unseen[m]
                   /\ retryLater \subseteq retryLater' /\ periodic \subseteq periodic'
<1>5. ASSUME Fine, CacheOK(n)', OwnerOK(n)'
      PROVE  OwnerInv'
  <2>1. UsedInv' /\ used'.crashes = used.crashes
    BY <1>4, <1>5, FaultSpends
  <2>2. \A m \in Names \ {n} : CacheOK(m)' /\ OwnerOK(m)'
    BY <1>1, <1>2, <1>3, <1>4, <1>5, <2>1, OtherKeys
  <2> QED
    BY <1>5, <2>1, <2>2 DEF OwnerInv
<1>6. ASSUME Fine, UNCHANGED <<api, unseen>>,
             n \in Keys' \/ cache[n] = NoObj \/ cache[n].phase \notin Unfinished
      PROVE  OwnerInv'
  <2>1. used'.crashes = used.crashes
    BY <1>4, <1>6, FaultSpends
  <2>2. CacheOK(n)' /\ OwnerOK(n)'
    BY <1>2, <1>3, <1>4, <1>6, <2>1, SameKey
  <2> QED
    BY <1>5, <1>6, <2>2
<1>7. ASSUME UNCHANGED <<api, unseen>>, used' = used \/ Fault,
             \/ ReturnError(n) \/ ReturnPeriodic(n)
             \/ ReturnNothing /\ (cache[n] = NoObj \/ cache[n].phase \notin Unfinished)
      PROVE  OwnerInv'
  BY <1>6, <1>7 DEF ReturnError, ReturnPeriodic, ReturnNothing, Keys
<1>8. ASSUME NEW o \in Object, UpdateThenEnqueue(n, o), cache[n] # NoObj, o.phase = "Queued"
      PROVE  OwnerInv'
  <2>1. CASE Exists(n) /\ Change(n, o, "status") /\ Proceed(n, o, "enqueue", 0) /\ NoFault
    <3>1. Fine
      BY <2>1, ChangeEffect DEF Typed, Proceed, NoFault
    <3>2. CacheOK(n)' /\ OwnerOK(n)'
      BY <1>4, <1>8, <2>1, ReconcilerWrites DEF Proceed, NoFault
    <3> QED
      BY <1>5, <3>1, <3>2
  <2>2. CASE UNCHANGED objectVars /\ Proceed(n, o, "enqueue", 0) /\ NoFault
    BY <1>6, <2>2 DEF Proceed, Keys, NoFault, objectVars
  <2>3. CASE UNCHANGED objectVars /\ ReturnError(n) /\ (NoFault \/ Fault)
    BY <1>7, <2>3 DEF NoFault, objectVars
  <2> QED
    BY <1>8, <2>1, <2>2, <2>3 DEF UpdateThenEnqueue
<1>9. \A o \in {cache[n]} \ {NoObj} : o \in Object /\ o = cache[n] /\ o # NoObj
  BY DEF Typed, WorldInv
<1>10. CASE ReconcileNothing(n)
  BY <1>7, <1>10 DEF ReconcileNothing, NoFault, objectVars
<1>11. CASE ReconcilePaused(n)
  <2>1. PICK o \in {cache[n]} \ {NoObj} :
          /\ o.phase = "Paused"
          /\ \/ UpdateThenEnqueue(n, [o EXCEPT !.phase = "Queued"])
             \/ ReturnNothing /\ NoFault /\ UNCHANGED objectVars
    BY <1>11 DEF ReconcilePaused
  <2>2. [o EXCEPT !.phase = "Queued"] \in Object /\ [o EXCEPT !.phase = "Queued"].phase = "Queued"
    BY <1>9, ObjectUpdates DEF Phases
  <2> QED
    BY <1>7, <1>8, <1>9, <2>1, <2>2 DEF Unfinished, NoFault, objectVars
<1>12. CASE ReconcileFailed(n)
  <2>1. PICK o \in {cache[n]} \ {NoObj} :
          /\ o.phase = "Failed"
          /\ \/ UpdateThenEnqueue(n, [o EXCEPT !.phase = "Queued", !.hash = o.spec])
             \/ ReturnNothing /\ NoFault /\ UNCHANGED objectVars
    BY <1>12 DEF ReconcileFailed, calculateSpecHash
  <2>2. /\ [o EXCEPT !.phase = "Queued", !.hash = o.spec] \in Object
        /\ [o EXCEPT !.phase = "Queued", !.hash = o.spec].phase = "Queued"
    BY <1>9, ObjectUpdates DEF Phases
  <2> QED
    BY <1>7, <1>8, <1>9, <2>1, <2>2 DEF Unfinished, NoFault, objectVars
<1>13. CASE ReconcileCompleted(n)
  <2>1. PICK o \in {cache[n]} \ {NoObj} :
          /\ o.phase = "Completed"
          /\ \/ PopulateHash(n, o)
             \/ UpdateThenEnqueue(n, [o EXCEPT !.phase = "Queued", !.hash = o.spec])
             \/ ReturnPeriodic(n) /\ NoFault /\ UNCHANGED objectVars
             \/ StartDrift(n, o)
    BY <1>13 DEF ReconcileCompleted, calculateSpecHash
  <2>2. /\ o.spec \in Specs
        /\ [o EXCEPT !.phase = "Queued", !.hash = o.spec] \in Object
        /\ [o EXCEPT !.phase = "Queued", !.hash = o.spec].phase = "Queued"
    BY <1>9, ObjectUpdates DEF Phases
  <2>3. CASE PopulateHash(n, o)
    <3> DEFINE new == [o EXCEPT !.hash = o.spec]
    <3>1. new.phase = "Completed"
      BY <1>9, <2>1, <2>2, ObjectUpdates
    <3>2. \/ Exists(n) /\ Change(n, new, "status") /\ NoFault /\ ReturnPeriodic(n)
          \/ UNCHANGED objectVars /\ (NoFault \/ Fault) /\ ReturnPeriodic(n)
      BY <2>3 DEF PopulateHash, calculateSpecHash
    <3> HIDE DEF new
    <3>3. CASE Exists(n) /\ Change(n, new, "status") /\ NoFault /\ ReturnPeriodic(n)
      <4>1. Fine
        BY <3>3, ChangeEffect DEF Typed, ReturnPeriodic, NoFault
      <4>2. CacheOK(n)' /\ OwnerOK(n)'
        BY <1>4, <3>1, <3>3, ReconcilerWrites DEF NoFault
      <4> QED
        BY <1>5, <4>1, <4>2
    <3>4. CASE UNCHANGED objectVars /\ (NoFault \/ Fault) /\ ReturnPeriodic(n)
      BY <1>7, <3>4 DEF NoFault, objectVars
    <3> QED
      BY <3>2, <3>3, <3>4
  <2>4. CASE StartDrift(n, o)
    BY <1>6, <2>4 DEF StartDrift, Proceed, Keys, NoFault
  <2> QED
    BY <1>7, <1>8, <1>9, <2>1, <2>2, <2>3, <2>4 DEF NoFault, objectVars
<1>14. CASE ReconcileNew(n)
  <2>1. PICK o \in {cache[n]}, l \in {"new", "enqueue"} :
          Proceed(n, o, l, 0) /\ UNCHANGED <<objectVars, used>>
    BY <1>14 DEF ReconcileNew
  <2> QED
    BY <1>6, <2>1 DEF Proceed, Keys, objectVars
<1> QED
  BY <1>10, <1>11, <1>12, <1>13, <1>14 DEF Reconcile

\* Nor do its later steps lose the key.
LEMMA ReconcilerOwner ==
  ASSUME QInv, Typed, OwnerInv, Reconciler
  PROVE  OwnerInv'
<1>1. PICK n \in Names : n = cname /\ cpc # "idle"
  BY DEF Reconciler, SetQueued, Enqueue, DriftTemplate, DriftEnds, Typed, CtrlInv
<1>2. UNCHANGED <<cache, gaveUp, pc, pending>>
  BY DEF Reconciler, SetQueued, Enqueue, DriftTemplate, DriftEnds, Inside, timerVars
<1>3. UsedInv /\ CacheOK(n)
  BY DEF OwnerInv
<1> DEFINE Fine == /\ used' = used \/ Fault
                   /\ \A m \in Names : Assigned(m) => Assigned(m)'
                   /\ \A m \in Names \ {n} : api'[m] = api[m] /\ unseen'[m] = unseen[m]
                   /\ retryLater \subseteq retryLater' /\ periodic \subseteq periodic'
<1>4. ASSUME Fine, CacheOK(n)', OwnerOK(n)'
      PROVE  OwnerInv'
  <2>1. UsedInv' /\ used'.crashes = used.crashes
    BY <1>3, <1>4, FaultSpends
  <2>2. \A m \in Names \ {n} : CacheOK(m)' /\ OwnerOK(m)'
    BY <1>1, <1>2, <1>4, <2>1, OtherKeys
  <2> QED
    BY <1>4, <2>1, <2>2 DEF OwnerInv
<1>5. ASSUME Fine, UNCHANGED <<api, unseen>>,
             cpc = "enqueue" => Assigned(n)',
             n \in Keys' \/ Assigned(n)'
      PROVE  OwnerInv'
  <2>1. used'.crashes = used.crashes
    BY <1>3, <1>5, FaultSpends
  <2>2. CacheOK(n)' /\ OwnerOK(n)'
    <3>1. CASE n \in Keys'
      BY <1>2, <1>5, <2>1, <3>1, SameKey
    <3>2. CASE Assigned(n)'
      <4>1. CacheOK(n)'
        BY <1>2, <1>3, <1>5, <2>1 DEF CacheOK, Exists
      <4> QED
        BY <3>2, <4>1 DEF OwnerOK, Scheduled
    <3> QED
      BY <1>5, <3>1, <3>2
  <2> QED
    BY <1>4, <1>5, <2>2
<1>6. ASSUME UNCHANGED queueVars PROVE \A m \in Names : Assigned(m) => Assigned(m)'
  BY <1>2, <1>6, StillAssigned
<1>7. CASE SetQueued
  <2>1. CASE /\ cache[n] # NoObj /\ Exists(n) /\ NoFault
             /\ Change(n, [cache[n] EXCEPT !.phase = "Queued"], "status")
             /\ cpc' = "enqueue" /\ UNCHANGED <<cname, creg, retryLater, periodic>>
    <3> DEFINE new == [cache[n] EXCEPT !.phase = "Queued"]
    <3>1. cache[n] \in Object
      BY <2>1 DEF Typed, WorldInv
    <3>2. new.phase = "Queued" /\ Change(n, new, "status")
      BY <2>1, <3>1 DEF Object
    <3> HIDE DEF new
    <3>3. Fine
      BY <1>6, <1>7, <2>1, <3>2, ChangeEffect DEF SetQueued, Typed, NoFault
    <3>4. CacheOK(n)' /\ OwnerOK(n)'
      BY <1>1, <1>2, <1>3, <2>1, <3>2, ReconcilerWrites DEF NoFault
    <3> QED
      BY <1>4, <3>3, <3>4
  <2>2. CASE NoFault /\ UNCHANGED <<objectVars, cpc, cname, retryLater, periodic>>
    BY <1>1, <1>5, <1>6, <1>7, <2>2 DEF SetQueued, NoFault, objectVars, Keys
  <2>3. CASE (NoFault \/ Fault) /\ ReturnError(n) /\ UNCHANGED objectVars
    BY <1>5, <1>6, <1>7, <2>3 DEF SetQueued, NoFault, objectVars, ReturnError, Keys
  <2> QED
    BY <1>1, <1>7, <2>1, <2>2, <2>3 DEF SetQueued
<1>8. CASE Enqueue
  <2>1. Assigned(n)' /\ \A m \in Names : Assigned(m) => Assigned(m)'
    BY <1>1, <1>2, <1>8, EnqueueAssigned DEF Enqueue, Typed
  <2> QED
    BY <1>5, <1>8, <2>1 DEF Enqueue, ReturnNothing, objectVars
<1>9. CASE DriftTemplate
  BY <1>1, <1>5, <1>6, <1>9 DEF DriftTemplate, NoFault, objectVars, timerVars, Keys
<1>10. CASE DriftEnds
  <2>1. CASE /\ Exists(n) /\ Change(n, [creg.obj EXCEPT !.reconciled = "recent"], "status")
             /\ NoFault /\ ReturnPeriodic(n)
    <3> DEFINE new == [creg.obj EXCEPT !.reconciled = "recent"]
    <3>1. creg.obj \in Object /\ creg.obj.phase = "Completed"
      BY <1>10 DEF DriftEnds, Typed, CtrlInv
    <3>2. new.phase = "Completed" /\ Change(n, new, "status")
      BY <2>1, <3>1, ObjectUpdates
    <3> HIDE DEF new
    <3>3. Fine
      BY <1>6, <1>10, <2>1, <3>2, ChangeEffect DEF DriftEnds, Typed, NoFault, ReturnPeriodic
    <3>4. CacheOK(n)' /\ OwnerOK(n)'
      BY <1>2, <1>3, <2>1, <3>2, ReconcilerWrites DEF NoFault
    <3> QED
      BY <1>4, <3>3, <3>4
  <2>2. CASE (NoFault \/ Fault) /\ UNCHANGED objectVars /\ ReturnPeriodic(n)
    BY <1>5, <1>6, <1>10, <2>2 DEF DriftEnds, NoFault, objectVars, ReturnPeriodic, Keys
  <2> QED
    BY <1>1, <1>10, <2>1, <2>2 DEF DriftEnds
<1> QED
  BY <1>7, <1>8, <1>9, <1>10 DEF Reconciler

\* An event of the informer that reaches the predicate becomes a key; timers
\* turn keys into keys.
LEMMA InformerOwner ==
  ASSUME QInv, Typed, OwnerInv, NEW n \in Names, CacheSync(n) \/ Timers(n)
  PROVE  OwnerInv'
<1>1. /\ UNCHANGED <<queueVars, pc, cpc, cname, gaveUp, used>>
  BY DEF CacheSync, Timers, RetryFires, PeriodicFires, Age, Components, ctrlVars
<1>2. UsedInv' /\ \A m \in Names : (Assigned(m)' <=> Assigned(m)) /\ CacheOK(m) /\ OwnerOK(m)
  BY <1>1, StillAssigned DEF OwnerInv, UsedInv
<1> SUFFICES ASSUME NEW m \in Names PROVE CacheOK(m)' /\ OwnerOK(m)'
  BY <1>2 DEF OwnerInv
<1>3. CASE CacheSync(n)
  <2>1. /\ api' = api /\ cache'[n] = api[n]
        /\ \A k \in Names \ {n} : cache'[k] = cache[k] /\ unseen'[k] = unseen[k]
        /\ Keys' = Keys \cup (IF Triggers(unseen[n]) THEN {n} ELSE {})
    BY <1>1, <1>3 DEF CacheSync, Typed, ObjectInv, WorldInv, Keys
  <2>2. CASE m # n
    <3>1. CacheOK(m)'
      BY <1>1, <1>2, <2>1, <2>2 DEF CacheOK, Exists
    <3> QED
      BY <1>1, <1>2, <2>1, <2>2, <3>1, OwnerFrame DEF Exists
  <2>3. CASE m = n
    <3>1. CacheOK(n)'
      BY <2>1 DEF CacheOK, Exists
    <3>2. OwnerOK(n)'
      BY <1>1, <1>2, <2>1, <2>3 DEF OwnerOK, Scheduled, Awaited, Exists
    <3> QED
      BY <2>3, <3>1, <3>2
  <2> QED
    BY <2>2, <2>3
<1>4. CASE RetryFires(n) \/ PeriodicFires(n)
  <2>1. /\ api' = api /\ cache' = cache /\ unseen' = unseen /\ Keys \subseteq Keys'
    BY <1>1, <1>4 DEF RetryFires, PeriodicFires, objectVars, Keys
  <2>2. CacheOK(m)'
    BY <1>1, <1>2, <2>1 DEF CacheOK, Exists
  <2> QED
    BY <1>1, <1>2, <2>1, <2>2, OwnerFrame DEF Exists
<1>5. CASE Age(n)
  <2>1. ASSUME NEW o \in Object PROVE Aged(o) \in Object /\ Aged(o).phase = o.phase
    BY ObjectUpdates DEF Aged
  <2>2. Aged(NoObj) = NoObj
    BY DEF Aged
  <2>3. unseen' = unseen /\ Keys' = Keys
    BY <1>1, <1>5 DEF Age, timerVars, Keys
  <2>4. /\ api'[m] = api[m] \/ api'[m] = Aged(api[m])
        /\ cache'[m] = cache[m] \/ cache'[m] = Aged(cache[m])
    BY <1>5 DEF Age, Typed, ObjectInv, WorldInv
  <2>5. api[m] \in Object \cup {NoObj} /\ cache[m] \in Object \cup {NoObj}
    BY DEF Typed, ObjectInv, WorldInv
  <2>6. /\ Exists(m)' => Exists(m) /\ api'[m].phase = api[m].phase
        /\ cache[m] # NoObj => cache'[m] # NoObj /\ cache'[m].phase = cache[m].phase
        /\ cache'[m] = NoObj => cache[m] = NoObj
    BY <2>1, <2>2, <2>4, <2>5, NoObjAssumption DEF Exists
  <2>7. CacheOK(m)'
    BY <1>1, <1>2, <2>3, <2>6, CacheFrame
  <2> QED
    BY <1>1, <1>2, <2>3, <2>6, <2>7, OwnerFrame
<1> QED
  BY <1>3, <1>4, <1>5 DEF Timers

\* What users do to a template that exists is an event that triggers Reconcile;
\* after a restart every object is listed.
LEMMA EnvironmentOwner ==
  ASSUME QInv, Typed, OwnerInv, Environment
  PROVE  OwnerInv'
<1>1. \A m \in Names : CacheOK(m) /\ OwnerOK(m)
  BY DEF OwnerInv
<1>2. ASSUME NEW n \in Names, NEW o, NEW c \in {"create", "delete", "spec", "annotation"},
             Change(n, o, c), Spent, gaveUp \ {n} \subseteq gaveUp',
             UNCHANGED <<Components, cache, timerVars>>,
             \/ o = NoObj
             \/ c = "create" /\ o.phase = ""
             \/ /\ c # "create" /\ Exists(n) /\ o.phase = api[n].phase /\ gaveUp' = gaveUp
      PROVE  OwnerInv'
  <2>1. UsedInv' /\ used'.crashes = used.crashes
    BY <1>2, UsedKept DEF OwnerInv
  <2>2. /\ UNCHANGED <<queueVars, pc, cpc, cname>> /\ Keys' = Keys
        /\ \A m \in Names : Assigned(m) => Assigned(m)'
    BY <1>2, StillAssigned DEF Components, ctrlVars, timerVars, Keys
  <2>3. /\ api'[n] = o /\ unseen'[n] = unseen[n] \cup {c}
        /\ \A m \in Names \ {n} : api'[m] = api[m] /\ unseen'[m] = unseen[m]
    BY <1>2, ChangeEffect DEF Typed
  <2>4. ASSUME NEW m \in Names \ {n} PROVE CacheOK(m)' /\ OwnerOK(m)'
    <3>1. CacheOK(m)'
      BY <1>1, <1>2, <2>1, <2>3 DEF CacheOK, Exists
    <3> QED
      BY <1>1, <1>2, <2>1, <2>2, <2>3, <3>1, OwnerFrame DEF Exists
  <2>5. CacheOK(n)'
    BY <1>1, <1>2, <2>1, <2>3 DEF CacheOK, Exists
  <2>6. Triggers(unseen'[n])
    BY <2>3 DEF Triggers
  <2>7. OwnerOK(n)'
    <3>1. CASE o = NoObj \/ (c = "create" /\ o.phase = "")
      BY <2>3, <2>6, <3>1 DEF OwnerOK, Scheduled, Exists
    <3>2. CASE /\ c # "create" /\ Exists(n) /\ o.phase = api[n].phase /\ gaveUp' = gaveUp
      BY <1>1, <2>1, <2>2, <2>3, <2>6, <3>2 DEF OwnerOK, Scheduled, Exists
    <3> QED
      BY <1>2, <3>1, <3>2
  <2> QED
    BY <2>1, <2>4, <2>5, <2>7 DEF OwnerInv
<1>3. ASSUME NEW n \in Names, Exists(n) PROVE api[n] \in Object
  BY <1>3 DEF Exists, Typed, ObjectInv
<1>4. ASSUME NEW n \in Names, NEW v \in Specs, Create(n, v) PROVE OwnerInv'
  <2>1. Spent
    BY <1>4 DEF Create, Spent
  <2>2. NewObject(v).phase = ""
    BY DEF NewObject
  <2> QED
    BY <1>2, <1>4, <2>1, <2>2 DEF Create
<1>5. ASSUME NEW n \in Names, NEW v \in Specs, Edit(n, v) PROVE OwnerInv'
  <2>1. Spent
    BY <1>5 DEF Edit, Spent
  <2>2. [api[n] EXCEPT !.spec = v].phase = api[n].phase
    BY <1>3, <1>5, ObjectUpdates DEF Edit
  <2> QED
    BY <1>2, <1>5, <2>1, <2>2 DEF Edit
<1>6. ASSUME NEW n \in Names, Annotate(n) PROVE OwnerInv'
  <2>1. Spent
    BY <1>6 DEF Annotate, Spent
  <2>2. [api[n] EXCEPT !.resume = ~@].phase = api[n].phase
    BY <1>3, <1>6, ObjectUpdates DEF Annotate
  <2> QED
    BY <1>2, <1>6, <2>1, <2>2 DEF Annotate
<1>7. ASSUME NEW n \in Names, Delete(n) PROVE OwnerInv'
  <2>1. Spent
    BY <1>7 DEF Delete, Spent
  <2> QED
    BY <1>2, <1>7, <2>1 DEF Delete
<1>8. ASSUME NEW n \in Names, NEW k \in Kinds, NEW r \in {Absent, Foreign}, Tamper(n, k, r)
      PROVE  OwnerInv'
  <2>1. Spent
    BY <1>8 DEF Tamper, Spent
  <2>2. UsedInv' /\ used'.crashes = used.crashes
    BY <2>1, UsedKept DEF OwnerInv
  <2>3. /\ UNCHANGED <<queueVars, pc, cpc, cname, api, unseen, cache, gaveUp>> /\ Keys' = Keys
    BY <1>8 DEF Tamper, Components, ctrlVars, timerVars, objectVars, Keys
  <2>4. \A m \in Names : Assigned(m) => Assigned(m)'
    BY <2>3, StillAssigned
  <2>5. ASSUME NEW m \in Names PROVE CacheOK(m)' /\ OwnerOK(m)'
    <3>1. CacheOK(m)'
      BY <1>1, <2>2, <2>3 DEF CacheOK, Exists
    <3> QED
      BY <1>1, <2>2, <2>3, <2>4, <3>1, OwnerFrame DEF Exists
  <2> QED
    BY <2>2, <2>5 DEF OwnerInv
<1>9. CASE Crash
  <2>1. PICK u \in Nat : u = used.crashes + 1
    BY DEF OwnerInv, UsedInv
  <2>2. used' = [used EXCEPT !.crashes = u]
    BY <1>9, <2>1 DEF Crash
  <2>3. UsedInv' /\ used'.crashes = u /\ u # 0
    BY <2>1, <2>2 DEF OwnerInv, UsedInv
  <2>4. \A n \in Names : Exists(n)' => "create" \in unseen'[n]
    BY <1>9 DEF Crash, Exists
  <2> QED
    BY <2>3, <2>4 DEF OwnerInv, CacheOK, OwnerOK, Scheduled, Triggers
<1> QED
  BY <1>4, <1>5, <1>6, <1>7, <1>8, <1>9 DEF Environment

\* Every step of the system keeps the owners.
LEMMA NextOwnerInv == QInv /\ Typed /\ OwnerInv /\ [Next]_vars => OwnerInv'
<1> SUFFICES ASSUME QInv, Typed, OwnerInv, [Next]_vars PROVE OwnerInv'
  OBVIOUS
<1>1. CASE UNCHANGED vars
  <2>1. /\ UNCHANGED <<queueVars, pc, cpc, cname, api, unseen, cache, gaveUp, used>> /\ Keys' = Keys
    BY <1>1 DEF vars, ctrlVars, timerVars, objectVars, Keys
  <2>2. \A n \in Names : Assigned(n) => Assigned(n)'
    BY <2>1, StillAssigned
  <2> QED
    BY <2>1, <2>2, OwnerFrame, CacheFrame DEF OwnerInv, UsedInv, Exists
<1>2. CASE Next
  BY <1>2, WorkerOwner, ReconcileOwner, ReconcilerOwner, InformerOwner, EnvironmentOwner DEF Next
<1> QED
  BY <1>1, <1>2

-----------------------------------------------------------------------------
(* What RetryQueueProofs proves carries over.                              *)

P == INSTANCE RetryQueueProofs

\* RetryQueue is instantiated twice, alone and with its proofs.
LEMMA SameNext == [Q!Next]_Q!vars => [P!Next]_P!vars
<1>1. ASSUME NEW n \in Names, NEW p \in Priorities, Q!Enqueue(n, p)
      PROVE  P!Enqueue(n, p)
  BY <1>1 DEF Q!Enqueue, P!Enqueue, Q!Contains, P!Contains, Q!Raised, P!Raised,
              Q!NewItem, P!NewItem
<1>2. ASSUME NEW w \in Workers, Q!Dequeue(w)
      PROVE  P!Dequeue(w)
  BY <1>2 DEF Q!Dequeue, P!Dequeue
<1>3. ASSUME NEW w \in Workers, Q!Done(w)
      PROVE  P!Done(w)
  BY <1>3 DEF Q!Done, P!Done
<1>4. ASSUME NEW w \in Workers, Q!Fail(w)
      PROVE  P!Fail(w)
  BY <1>4 DEF Q!Fail, P!Fail, Q!Done, P!Done, Q!Requeue, P!Requeue,
              Q!CyclesExhausted, P!CyclesExhausted, Q!GivesUp, P!GivesUp,
              Q!Retried, P!Retried, Q!NextCycle, P!NextCycle, Q!CycleBound, P!CycleBound
<1> QED
  BY <1>1, <1>2, <1>3, <1>4 DEF P!Next, Q!Next, P!vars, Q!vars

\* The queue's inductive invariant holds in the whole system, restarts included.
LEMMA SpecQInv == Spec => []QInv
<1>1. Q!Init => P!Init
  BY DEF Q!Init, P!Init
<1>2. P!Init => P!IInv
  BY P!InitIInv, PoolAssumption, RetryAssumption, PriorityAssumption
     DEF P!WorkItem, WorkItem, P!CycleBound, CycleBound, P!IsFiniteSet, IsFiniteSet
<1>3. P!IInv /\ [P!Next]_P!vars => P!IInv'
  BY P!NextIInv, PoolAssumption, RetryAssumption, PriorityAssumption
     DEF P!WorkItem, WorkItem, P!CycleBound, CycleBound, P!IsFiniteSet, IsFiniteSet
<1>4. P!IInv => QInv
  BY DEF QInv, P!IInv, P!SingleOwner, Q!SingleOwner, P!MapPointsIntoHeap, Q!MapPointsIntoHeap,
         P!TypeOK, Q!TypeOK, P!WorkItem, Q!WorkItem, P!CycleBound, Q!CycleBound,
         P!Busy, Q!Busy, P!Contains, Q!Contains
<1>5. UsesQueue => []P!IInv
  BY <1>1, <1>2, <1>3, SameNext, PTL DEF UsesQueue
<1> QED
  BY <1>4, <1>5, QueueProtocol, PTL

\* In the whole system, restarts included, an item is in the heap or with one
\* worker, never both or twice, and every entry of itemsMap points to a queued
\* item of that name.
THEOREM QueueSound == Spec => [](Q!SingleOwner /\ Q!MapPointsIntoHeap)
BY SpecQInv, PTL DEF QInv

-----------------------------------------------------------------------------
(* The system's invariants.                                                *)

\* Typing and ownership hold in every state.
LEMMA SpecInv == Spec => [](QInv /\ Typed /\ OwnerInv)
<1>1. Spec => []Typed
  BY InitTyped, NextTyped, SpecQInv, PTL DEF Spec
<1>2. Spec => []OwnerInv
  BY <1>1, InitOwnerInv, NextOwnerInv, SpecQInv, PTL DEF Spec
<1> QED
  BY <1>1, <1>2, SpecQInv, PTL

\* Type correctness of the composition: what workers and reconciler write to
\* the status and the cluster is always built from an object they have read,
\* though it may be gone or changed by then (processItem, Reconcile).
THEOREM TypeCorrect == Spec => []TypeOK
BY SpecInv, TypedTypeOK, PTL

\* No template that is new, Queued or Processing is ever forgotten, for any
\* number of templates, workers, versions, failed calls, conflicts, edits and
\* restarts (Reconcile, processItem, Start), unless a worker could not write
\* "Paused".
THEOREM NeverForgotten == Spec => []UnfinishedOwned
BY SpecInv, OwnerInvOwned, PTL

\* Until the process restarts, neither is a Failed one, whatever calls fail:
\* an item in the queue or a worker stands for its next attempt.
THEOREM FailedRetried == Spec => []FailedOwnedUntilRestart
BY SpecInv, OwnerInvOwned, PTL

-----------------------------------------------------------------------------
(* What is written to the objects.                                        *)

\* The copies are honest in every state.
LEMMA SpecCopyInv == Spec => []CopyInv
BY InitCopyInv, NextStatus, SpecInv, PTL DEF Spec

\* For any number of templates, workers, versions, conflicts, failed calls and restarts,
\* every change of a KubeTemplate is one step on the object as it is at that moment:
\* no status update made from an old copy undoes a user's edit or another's status
\* (updateStatusWithRetry; Reconcile's status updates).
THEOREM StatusRefinement == Spec => ImplementsStatus
<1>1. QInv /\ Typed /\ CopyInv /\ [Next]_vars => [S!Next]_api
  <2> SUFFICES ASSUME QInv, Typed, CopyInv, [Next]_vars PROVE S!Next \/ UNCHANGED api
    OBVIOUS
  <2>1. StatusStep
    BY NextStatus
  <2>2. ASSUME NEW w \in Workers, Completing(w) PROVE S!Next
    <3>1. Name(w) \in Names /\ reg[w].hash \in Specs /\ S!Complete(Name(w), reg[w].hash)
      BY <2>2 DEF Completing, Typed, RegInv
    <3>2. S!Operator(Name(w))
      BY <3>1 DEF S!Operator
    <3> QED
      BY <3>1, <3>2 DEF S!Next
  <2>3. ASSUME NEW n \in Names, Otherwise(n) PROVE S!Next
    BY <2>3 DEF Otherwise, S!Next, S!Operator
  <2> QED
    BY <2>1, <2>2, <2>3 DEF StatusStep
<1> QED
  BY <1>1, InitStatus, SpecInv, SpecCopyInv, PTL DEF Spec, ImplementsStatus, S!Spec

\* What the loop is about, in every state.
LEMMA SpecRunInv == Spec => []RunInv
<1>1. Init => RunInv
  BY DEF Init, RunInv, RunFor, Looping
<1> QED
  BY <1>1, NextRun, SpecInv, PTL DEF Spec

\* For any number of templates, workers and versions, and whatever edits race a worker, a
\* template is Completed with the hash of a spec only when a worker went through all the
\* templates of that spec, but for the two exceptions (processItem).
THEOREM HashOnlyOfRun == Spec => HashedIsRun
<1> DEFINE Hashes(n) == /\ Exists(n) /\ api'[n] # NoObj /\ api'[n].phase = "Completed"
                        /\ <<api'[n].phase, api'[n].hash>> # <<api[n].phase, api[n].hash>>
           Ran(n) == \E w \in Workers :
                       /\ held[w] # NoItem /\ Name(w) = n /\ reg[w].k = Size + 1
                       /\ \/ api'[n].hash = calculateSpecHash(reg[w].tmpl)
                          \/ \E k \in Kinds : Rejected(reg[w].tmpl, k)
<1>1. ASSUME QInv, Typed, CopyInv, RunInv, [Next]_vars, NEW n \in Names, Hashes(n)
      PROVE  (api[n].phase = "Completed" /\ api[n].hash = NoHash) \/ Ran(n)
  <2>1. CASE UNCHANGED api
    BY <1>1, <2>1
  <2>2. ASSUME NEW m \in Names, Otherwise(m)
        PROVE  api[n].phase = "Completed" /\ api[n].hash = NoHash
    BY <1>1, <2>2, OtherwiseKeepsHash DEF Typed
  <2>3. ASSUME NEW w \in Workers, Completing(w) PROVE Ran(n)
    <3> DEFINE m == Name(w)
               new == [api[m] EXCEPT !.phase = "Completed", !.hash = reg[w].hash]
    <3>1. pc[w] = "setCompleted" /\ m \in Names /\ Exists(m) /\ api' = [api EXCEPT ![m] = new]
      BY <2>3 DEF Completing, S!Complete, S!Exists, S!Becomes, Exists
    <3>2. api \in [Names -> Object \cup {NoObj}]
      BY <1>1 DEF Typed, ObjectInv
    <3>3. m = n
      BY <1>1, <3>1, <3>2
    <3>4. new.hash = reg[w].hash
      BY <3>1, <3>2 DEF Exists, Object
    <3>5. api'[n].hash = reg[w].hash
      BY <3>1, <3>2, <3>3, <3>4
    <3>6. held[w] # NoItem
      BY <1>1, <3>1, AtWork
    <3>7. reg[w].k = Size + 1 /\ (reg[w].hash = reg[w].tmpl \/ SomeRejected(reg[w].tmpl))
      BY <1>1, <3>1 DEF RunInv, RunFor
    <3> HIDE DEF new
    <3> QED
      BY <3>3, <3>5, <3>6, <3>7 DEF SomeRejected, calculateSpecHash
  <2> QED
    BY <1>1, <2>1, <2>2, <2>3, NextStatus DEF StatusStep
<1>2. QInv /\ Typed /\ CopyInv /\ RunInv /\ [Next]_vars =>
        [\A n \in Names : Hashes(n) =>
           \/ api[n].phase = "Completed" /\ api[n].hash = NoHash
           \/ Ran(n)]_vars
  <2> HIDE DEF Hashes, Ran
  <2> QED
    BY <1>1
<1> QED
  BY <1>2, SpecInv, SpecCopyInv, SpecRunInv, PTL DEF Spec, HashedIsRun
=============================================================================
