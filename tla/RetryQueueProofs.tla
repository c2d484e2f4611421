-------------------------- MODULE RetryQueueProofs --------------------------
(***************************************************************************)
(* Proofs about RetryQueue, for any names, priorities, workers and         *)
(* pointers and any retry configuration main.go accepts.                   *)
(*                                                                         *)
(* The safety invariants are proved from one inductive invariant, IInv:    *)
(* MapPointsIntoHeap and SingleOwner support each other (a map entry must  *)
(* point to an item that is in the heap and therefore not held by the      *)
(* worker that is about to change it), and GaugeExact needs in addition    *)
(* that Requeue's giving-up exit is never taken: an item that would take   *)
(* it is one the worker loop finishes with Done (GivingUpIsExhausted).     *)
(***************************************************************************)
EXTENDS RetryQueue, FiniteSetTheorems, TLAPS

\* What Requeue leaves on an item is a work item of the same name.
LEMMA RetriedType ==
  ASSUME NEW r \in WorkItem
  PROVE  Retried(r) \in WorkItem /\ Retried(r).name = r.name
<1>1. NextCycle(r.retryCycle) \in 0..CycleBound
  BY RetryAssumption DEF WorkItem, NextCycle, CycleBound
<1>2. CASE r.retryCount + 1 > MaxRetries
  BY <1>1, <1>2, RetryAssumption DEF Retried, WorkItem
<1>3. CASE ~(r.retryCount + 1 > MaxRetries)
  BY <1>3, RetryAssumption DEF Retried, WorkItem
<1> QED
  BY <1>2, <1>3

\* A priority raise leaves a work item of the same name.
LEMMA RaisedType ==
  ASSUME NEW r \in WorkItem, NEW p \in Priorities
  PROVE  Raised(r, p) \in WorkItem /\ Raised(r, p).name = r.name
BY DEF Raised, WorkItem

\* Enqueue creates a work item of the name it was called with.
LEMMA NewItemType ==
  ASSUME NEW n \in Names, NEW p \in Priorities
  PROVE  NewItem(n, p) \in WorkItem /\ NewItem(n, p).name = n
BY RetryAssumption DEF NewItem, WorkItem, CycleBound

\* A queued or held pointer points to a work item.
LEMMA OwnedIsItem ==
  ASSUME TypeOK, SingleOwner
  PROVE  /\ \A i \in items : item[i] \in WorkItem
         /\ \A w \in Busy : held[w] \in Ids /\ item[held[w]] \in WorkItem
BY DEF TypeOK, SingleOwner, Busy

IInv == TypeOK /\ MapPointsIntoHeap /\ SingleOwner

\* An empty queue (NewWorkQueueWithConfig) satisfies the inductive invariant.
LEMMA InitIInv == Init => IInv
BY NoItemAssumption DEF Init, IInv, TypeOK, MapPointsIntoHeap, SingleOwner, Busy, Contains

\* Enqueue keeps it: a new pointer is unused, and the map entry points to it.
LEMMA EnqueueIInv ==
  ASSUME IInv, NEW n \in Names, NEW p \in Priorities, Enqueue(n, p)
  PROVE  IInv'
<1> USE NoItemAssumption DEF IInv
<1>1. CASE Contains(n)
  <2> DEFINE j == itemsMap[n]
  <2>1. j \in items /\ item[j] \in WorkItem /\ item[j].name = n
    BY <1>1, OwnedIsItem DEF MapPointsIntoHeap
  <2>2. Raised(item[j], p) \in WorkItem /\ Raised(item[j], p).name = n
    BY <2>1, RaisedType
  <2>3. /\ item' = [item EXCEPT ![j] = Raised(item[j], p)]
        /\ UNCHANGED <<items, itemsMap, held, processingItems>>
    BY <1>1 DEF Enqueue
  <2>4. TypeOK'
    BY <2>1, <2>2, <2>3 DEF TypeOK
  <2>5. MapPointsIntoHeap'
    BY <2>1, <2>2, <2>3 DEF TypeOK, MapPointsIntoHeap, Contains
  <2>6. SingleOwner'
    BY <2>1, <2>2, <2>3 DEF TypeOK, SingleOwner, Busy
  <2> QED
    BY <2>4, <2>5, <2>6
<1>2. CASE ~Contains(n)
  <2>1. PICK i \in Ids :
          /\ item[i] = NoItem
          /\ item' = [item EXCEPT ![i] = NewItem(n, p)]
          /\ items' = items \cup {i}
          /\ itemsMap' = [itemsMap EXCEPT ![n] = i]
          /\ UNCHANGED <<held, processingItems>>
    BY <1>2 DEF Enqueue
  <2>2. NewItem(n, p) \in WorkItem /\ NewItem(n, p).name = n
    BY NewItemType
  <2>3. TypeOK'
    BY <2>1, <2>2 DEF TypeOK
  <2>4. MapPointsIntoHeap'
    BY <2>1, <2>2 DEF TypeOK, MapPointsIntoHeap, Contains, SingleOwner
  <2>5. SingleOwner'
    BY <2>1, <2>2 DEF TypeOK, SingleOwner, Busy
  <2> QED
    BY <2>3, <2>4, <2>5
<1> QED
  BY <1>1, <1>2

\* Dequeue keeps it: the pointer moves from the heap to one worker, and the map
\* entry of its name is gone.
LEMMA DequeueIInv ==
  ASSUME IInv, NEW w \in Workers, Dequeue(w)
  PROVE  IInv'
<1> USE NoItemAssumption DEF IInv
<1>1. PICK i \in items :
        /\ held[w] = NoItem
        /\ items' = items \ {i}
        /\ itemsMap' = [itemsMap EXCEPT ![item[i].name] = NoItem]
        /\ held' = [held EXCEPT ![w] = i]
        /\ processingItems' = processingItems + 1
        /\ item' = item
  BY DEF Dequeue
<1>2. i \in Ids /\ item[i] \in WorkItem /\ item[i].name \in Names
  BY OwnedIsItem DEF TypeOK, WorkItem
<1>3. TypeOK'
  BY <1>1, <1>2 DEF TypeOK
<1>4. MapPointsIntoHeap'
  BY <1>1, <1>2 DEF TypeOK, MapPointsIntoHeap, Contains
<1>5. SingleOwner'
  BY <1>1, <1>2 DEF TypeOK, SingleOwner, Busy
<1> QED
  BY <1>3, <1>4, <1>5

\* Shared by Done and by the exit of Requeue that drops the item.
LEMMA DropIInv ==
  ASSUME IInv, NEW w \in Workers, held[w] # NoItem,
         item' = [item EXCEPT ![held[w]] = NoItem],
         held' = [held EXCEPT ![w] = NoItem],
         UNCHANGED <<items, itemsMap>>,
         processingItems' \in Int
  PROVE  IInv'
<1> USE NoItemAssumption DEF IInv
<1>1. held[w] \in Ids /\ held[w] \notin items
  BY DEF TypeOK, SingleOwner, Busy
<1>2. TypeOK'
  BY <1>1 DEF TypeOK
<1>3. MapPointsIntoHeap'
  BY <1>1 DEF TypeOK, MapPointsIntoHeap, Contains
<1>4. SingleOwner'
  BY <1>1 DEF TypeOK, SingleOwner, Busy
<1> QED
  BY <1>2, <1>3, <1>4

\* Done keeps it: the pointer is dropped by its only owner.
LEMMA DoneIInv ==
  ASSUME IInv, NEW w \in Workers, Done(w)
  PROVE  IInv'
<1>1. processingItems' \in Int
  BY DEF Done, IInv, TypeOK
<1> QED
  BY <1>1, DropIInv DEF Done

\* Requeue keeps it, on the path that gives up and on the one that pushes back.
LEMMA RequeueIInv ==
  ASSUME IInv, NEW w \in Workers, Requeue(w)
  PROVE  IInv'
<1> USE NoItemAssumption DEF IInv
<1> DEFINE i == held[w]
<1>1. w \in Busy /\ i \in Ids /\ i \notin items /\ item[i] \in WorkItem
  BY OwnedIsItem DEF Requeue, Busy, TypeOK, SingleOwner
<1>2. CASE GivesUp(item[i])
  <2>1. processingItems' \in Int
    BY <1>2 DEF Requeue, TypeOK
  <2>2. /\ held[w] # NoItem
        /\ item' = [item EXCEPT ![held[w]] = NoItem]
        /\ held' = [held EXCEPT ![w] = NoItem]
        /\ UNCHANGED <<items, itemsMap>>
    BY <1>2 DEF Requeue
  <2> HIDE DEF IInv, i
  <2> QED
    BY <2>1, <2>2, DropIInv
<1>3. CASE ~GivesUp(item[i])
  <2>1. /\ held' = [held EXCEPT ![w] = NoItem]
        /\ processingItems' = processingItems - 1
        /\ item' = [item EXCEPT ![i] = Retried(item[i])]
        /\ items' = items \cup {i}
        /\ itemsMap' = [itemsMap EXCEPT ![item[i].name] = i]
    BY <1>3 DEF Requeue
  <2>2. Retried(item[i]) \in WorkItem /\ Retried(item[i]).name = item[i].name
    BY <1>1, RetriedType
  <2>3. item[i].name \in Names
    BY <1>1 DEF WorkItem
  <2>4. TypeOK'
    BY <1>1, <2>1, <2>2, <2>3 DEF TypeOK
  <2>5. MapPointsIntoHeap'
    BY <1>1, <2>1, <2>2, <2>3 DEF TypeOK, MapPointsIntoHeap, Contains
  <2>6. SingleOwner'
    BY <1>1, <2>1, <2>2 DEF TypeOK, SingleOwner, Busy
  <2> QED
    BY <2>4, <2>5, <2>6
<1> QED
  BY <1>2, <1>3

\* Every step of the queue and of the worker loop keeps it.
LEMMA NextIInv == IInv /\ [Next]_vars => IInv'
<1> SUFFICES ASSUME IInv, [Next]_vars PROVE IInv'
  OBVIOUS
<1>1. CASE UNCHANGED vars
  BY <1>1 DEF vars, IInv, TypeOK, MapPointsIntoHeap, SingleOwner, Busy, Contains
<1>2. ASSUME NEW n \in Names, NEW p \in Priorities, Enqueue(n, p) PROVE IInv'
  BY <1>2, EnqueueIInv
<1>3. ASSUME NEW w \in Workers, Dequeue(w) PROVE IInv'
  BY <1>3, DequeueIInv
<1>4. ASSUME NEW w \in Workers, Done(w) PROVE IInv'
  BY <1>4, DoneIInv
<1>5. ASSUME NEW w \in Workers, Fail(w) PROVE IInv'
  BY <1>5, DoneIInv, RequeueIInv DEF Fail
<1> QED
  BY <1>1, <1>2, <1>3, <1>4, <1>5 DEF Next

\* The inductive invariant holds in every reachable state.
LEMMA SpecIInv == Spec => []IInv
<1>1. Init => IInv
  BY InitIInv
<1>2. IInv /\ [Next]_vars => IInv'
  BY NextIInv
<1> QED
  BY <1>1, <1>2, PTL DEF Spec

\* Every queue operation keeps the types of work_queue.go's fields.
THEOREM TypeCorrect == Spec => []TypeOK
BY SpecIInv, PTL DEF IInv

\* itemsMap only ever points into the heap: Enqueue's heap.Fix is safe.
THEOREM MapSafe == Spec => []MapPointsIntoHeap
BY SpecIInv, PTL DEF IInv

\* An item is in the heap or held by one worker, never both or by two: the
\* worker's accesses to its item outside wq.mu are free of races.
THEOREM OwnershipSafe == Spec => []SingleOwner
BY SpecIInv, PTL DEF IInv

-----------------------------------------------------------------------------
\* An item Requeue would drop is one the worker loop never hands to Requeue.
LEMMA GivingUpIsExhausted ==
  ASSUME NEW r, GivesUp(r)
  PROVE  CyclesExhausted(r)
BY DEF GivesUp, CyclesExhausted

\* The pool StartWorkers launches is finite, so busy workers can be counted.
LEMMA BusyFinite == IsFiniteSet(Busy)
BY FS_Subset, WorkersAssumption DEF Busy

\* The gauge follows a worker that takes an item.
LEMMA BusyGrows ==
  ASSUME TypeOK, NEW w \in Workers, NEW i \in Ids,
         held[w] = NoItem, held' = [held EXCEPT ![w] = i]
  PROVE  Cardinality(Busy)' = Cardinality(Busy) + 1
<1>1. w \notin Busy /\ Busy' = Busy \cup {w}
  BY NoItemAssumption DEF TypeOK, Busy
<1> QED
  BY <1>1, BusyFinite, FS_AddElement

\* The gauge follows a worker that lets its item go.
LEMMA BusyShrinks ==
  ASSUME TypeOK, NEW w \in Workers,
         held[w] # NoItem, held' = [held EXCEPT ![w] = NoItem]
  PROVE  Cardinality(Busy)' = Cardinality(Busy) - 1
<1>1. w \in Busy /\ Busy' = Busy \ {w}
  BY NoItemAssumption DEF TypeOK, Busy
<1> QED
  BY <1>1, BusyFinite, FS_RemoveElement

\* The processingItems gauge is exact: the second decrement on Requeue's
\* giving-up exit is never reached from the worker loop.
THEOREM GaugeCorrect == Spec => []GaugeExact
<1>1. Init => GaugeExact
  <2> SUFFICES ASSUME Init PROVE GaugeExact
    OBVIOUS
  <2>1. Busy = {}
    BY DEF Init, Busy
  <2> QED
    BY <2>1, FS_EmptySet DEF Init, GaugeExact
<1>2. IInv /\ GaugeExact /\ [Next]_vars => GaugeExact'
  <2> SUFFICES ASSUME IInv, GaugeExact, [Next]_vars PROVE GaugeExact'
    OBVIOUS
  <2>0. TypeOK /\ Cardinality(Busy) \in Int
    BY BusyFinite, FS_CardinalityType DEF IInv
  <2>1. CASE UNCHANGED vars
    BY <2>1 DEF vars, GaugeExact, Busy
  <2>2. ASSUME NEW n \in Names, NEW p \in Priorities, Enqueue(n, p)
        PROVE  GaugeExact'
    BY <2>2 DEF Enqueue, GaugeExact, Busy
  <2>3. ASSUME NEW w \in Workers, Dequeue(w) PROVE GaugeExact'
    <3>1. PICK i \in Ids : held[w] = NoItem /\ held' = [held EXCEPT ![w] = i]
      BY <2>0, <2>3 DEF Dequeue, TypeOK
    <3>2. Cardinality(Busy)' = Cardinality(Busy) + 1
      BY <2>0, <3>1, BusyGrows
    <3> QED
      BY <2>3, <3>2 DEF Dequeue, GaugeExact
  <2>4. ASSUME NEW w \in Workers, Done(w) PROVE GaugeExact'
    <3>1. Cardinality(Busy)' = Cardinality(Busy) - 1
      BY <2>0, <2>4, BusyShrinks DEF Done
    <3> QED
      BY <2>4, <3>1 DEF Done, GaugeExact
  <2>5. ASSUME NEW w \in Workers, Fail(w) PROVE GaugeExact'
    <3>1. CASE CyclesExhausted(item[held[w]])
      BY <2>4, <2>5, <3>1 DEF Fail
    <3>2. CASE ~CyclesExhausted(item[held[w]])
      <4>1. Requeue(w) /\ ~GivesUp(item[held[w]])
        BY <2>5, <3>2, GivingUpIsExhausted DEF Fail
      <4>2. Cardinality(Busy)' = Cardinality(Busy) - 1
        BY <2>0, <4>1, BusyShrinks DEF Requeue
      <4> QED
        BY <4>1, <4>2 DEF Requeue, GaugeExact
    <3> QED
      BY <3>1, <3>2
  <2> QED
    BY <2>1, <2>2, <2>3, <2>4, <2>5 DEF Next
<1> QED
  BY <1>1, <1>2, SpecIInv, PTL DEF Spec

-----------------------------------------------------------------------------
\* The arithmetic of the budget when Requeue starts a new cycle.
LEMMA OneCycleLess ==
  ASSUME NEW d \in Nat \ {0}, NEW m \in Nat
  PROVE  (d - 1) * m = d * m - m /\ (d - 1) * m >= 0
OBVIOUS

\* Requeue spends at least one unit of the budget of an item it pushes back.
LEMMA RetriedSpends ==
  ASSUME NEW r \in WorkItem, MaxRetryCycles > 0, ~CyclesExhausted(r)
  PROVE  /\ RetriesLeft(Retried(r)) < RetriesLeft(r)
         /\ RetriesLeft(Retried(r)) >= 0
<1> DEFINE c == r.retryCycle
           k == r.retryCount
           m == MaxRetries + 1
           d == MaxRetryCycles - c
<1>1. /\ c \in Nat /\ c < MaxRetryCycles /\ k \in 0..MaxRetries
      /\ d \in Nat \ {0} /\ m \in Nat
  BY RetryAssumption DEF CyclesExhausted, WorkItem, CycleBound
<1>2. (d - 1) * m = d * m - m /\ (d - 1) * m >= 0
  BY <1>1, OneCycleLess
<1>3. RetriesLeft(r) = d * m - k
  BY DEF RetriesLeft
<1>4. d * m \in Int
  BY <1>1
<1>5. CASE k + 1 > MaxRetries
  <2>1. NextCycle(c) = c + 1
    BY <1>1, RetryAssumption DEF NextCycle, CycleBound
  <2>2. Retried(r).retryCycle = c + 1 /\ Retried(r).retryCount = 0
    BY <1>5, <2>1 DEF Retried
  <2>3. MaxRetryCycles - (c + 1) = d - 1
    BY <1>1, RetryAssumption
  <2>4. RetriesLeft(Retried(r)) = (d - 1) * m - 0
    BY <2>2, <2>3 DEF RetriesLeft
  <2>5. k = MaxRetries
    BY <1>1, <1>5, RetryAssumption
  <2> HIDE DEF d
  <2> QED
    BY <1>1, <1>2, <1>3, <1>4, <2>2, <2>4, <2>5, RetryAssumption
<1>6. CASE ~(k + 1 > MaxRetries)
  <2>1. Retried(r).retryCycle = c /\ Retried(r).retryCount = k + 1
    BY <1>6 DEF Retried, WorkItem
  <2>2. RetriesLeft(Retried(r)) = d * m - (k + 1)
    BY <2>1 DEF RetriesLeft
  <2> HIDE DEF d
  <2> QED
    BY <1>1, <1>2, <1>3, <1>4, <1>6, <2>1, <2>2, RetryAssumption
<1> QED
  BY <1>5, <1>6

\* With MaxRetryCycles > 0 every push back by Requeue decreases a number that
\* stays non-negative, so an item is retried finitely often: at most
\* MaxRetryCycles * (MaxRetries + 1) times.
THEOREM RetriesBounded == Spec => RetryBudget
<1> DEFINE Spends == MaxRetryCycles > 0 =>
       \A i \in Ids : i \in items' \ items /\ item[i] # NoItem =>
         /\ RetriesLeft(item[i])' < RetriesLeft(item[i])
         /\ RetriesLeft(item[i])' >= 0
<1>1. IInv /\ [Next]_vars => [Spends]_vars
  <2> SUFFICES ASSUME IInv, Next, MaxRetryCycles > 0,
                      NEW i \in Ids, i \in items' \ items, item[i] # NoItem
               PROVE  /\ RetriesLeft(item[i])' < RetriesLeft(item[i])
                      /\ RetriesLeft(item[i])' >= 0
    OBVIOUS
  <2>1. PICK w \in Workers : Fail(w)
    BY DEF Next, Enqueue, Dequeue, Done
  <2>2. ~CyclesExhausted(item[held[w]])
    BY <2>1 DEF Fail, Done
  <2>3. Requeue(w) /\ ~GivesUp(item[held[w]])
    BY <2>1, <2>2, GivingUpIsExhausted DEF Fail
  <2>4. i = held[w] /\ item[i] \in WorkItem
    BY <2>3, OwnedIsItem DEF Requeue, IInv, Busy
  <2>5. item'[i] = Retried(item[i])
    BY <2>3, <2>4 DEF Requeue, IInv, TypeOK
  <2>6. RetriesLeft(item[i])' = RetriesLeft(Retried(item[i]))
    BY <2>5 DEF RetriesLeft
  <2> QED
    BY <2>2, <2>4, <2>6, RetriedSpends
<1> QED
  BY <1>1, SpecIInv, PTL DEF Spec, RetryBudget
=============================================================================
