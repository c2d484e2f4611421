--------------------------- MODULE WorkQueueProofs ---------------------------
(***************************************************************************)
(* Proofs about WorkQueue: it implements RetryQueue, so RetryQueue's       *)
(* theorems hold of it; it is type-correct; no new item is stranded in the *)
(* heap while every worker sleeps; nobody waits once it is shut down; and  *)
(* the delays of retries keep to their bounds.                             *)
(*                                                                         *)
(* The order of the argument: Control (which worker holds what) is         *)
(* inductive by itself and suffices for the refinement; the refinement     *)
(* brings over RetryQueue's inductive invariant; with it TypeOK, then      *)
(* FreshNeverStranded and BackoffBounded follow.                           *)
(***************************************************************************)
EXTENDS WorkQueue, TLAPS

\* How long, in seconds, the provers may try a leaf.
USE SMTT(15), ZenonT(20)

PcValues == {"loop", "arm", "wait", "work", "exit"}

\* A worker holds an item exactly while it is in the worker loop with it.
Control ==
  /\ items \in SUBSET Ids
  /\ held \in [Workers -> Ids \cup {NoItem}]
  /\ pc \in [Workers -> PcValues]
  /\ \A w \in Workers : (pc[w] = "work") <=> (held[w] # NoItem)

\* Signal moves at most one worker, from "wait" to "loop".
LEMMA SignalMoves ==
  ASSUME NEW p \in [Workers -> PcValues], Signal(p)
  PROVE  /\ pc' \in [Workers -> PcValues]
         /\ \A w \in Workers : pc'[w] = p[w] \/ (p[w] = "wait" /\ pc'[w] = "loop")
BY DEF Signal, PcValues

\* Every step of the detailed queue keeps the control invariant.
LEMMA NextControl == Control /\ [Next]_vars => Control'
<1> SUFFICES ASSUME Control, [Next]_vars PROVE Control'
  OBVIOUS
<1> USE PointerAssumption DEF Control
<1>1. CASE UNCHANGED vars
  BY <1>1 DEF vars, queueVars
<1>2. ASSUME NEW n \in Names, NEW p \in Priorities, Enqueue(n, p) PROVE Control'
  <2>1. items' \in SUBSET Ids /\ held' = held
    BY <1>2 DEF Enqueue
  <2>2. pc' = pc \/ Signal(pc)
    BY <1>2 DEF Enqueue
  <2> QED
    BY <2>1, <2>2, SignalMoves
<1>3. ASSUME NEW w \in Workers, Dequeue(w) PROVE Control'
  <2>1. CASE DequeueShutdown(w)
    BY <2>1 DEF DequeueShutdown, LoopTop, queueVars, PcValues
  <2>2. CASE DequeueEmpty(w)
    BY <2>2 DEF DequeueEmpty, LoopTop, queueVars, PcValues
  <2>3. CASE DequeueArm(w)
    BY <2>3 DEF DequeueArm, LoopTop, queueVars, PcValues
  <2>4. CASE DequeueWait(w)
    BY <2>4 DEF DequeueWait, queueVars, PcValues
  <2>5. CASE DequeueTake(w)
    BY <2>5 DEF DequeueTake, LoopTop, Heads, PcValues
  <2> QED
    BY <1>3, <2>1, <2>2, <2>3, <2>4, <2>5 DEF Dequeue
<1>4. ASSUME NEW w \in Workers, TimerFires(w) PROVE Control'
  <2>1. Signal(pc) /\ UNCHANGED <<items, held>>
    BY <1>4 DEF TimerFires, queueVars
  <2> QED
    BY <2>1, SignalMoves
<1>5. ASSUME NEW w \in Workers, Done(w) PROVE Control'
  BY <1>5 DEF Done, PcValues
<1>6. ASSUME NEW w \in Workers, Requeue(w) PROVE Control'
  <2>1. /\ held[w] \in Ids
        /\ held' = [held EXCEPT ![w] = NoItem]
        /\ items' \in SUBSET Ids
    BY <1>6 DEF Requeue
  <2> DEFINE p == [pc EXCEPT ![w] = "loop"]
  <2>2. p \in [Workers -> PcValues] /\ (pc' = p \/ Signal(p))
    BY <1>6 DEF Requeue, PcValues
  <2>3. /\ pc' \in [Workers -> PcValues]
        /\ \A v \in Workers : pc'[v] = p[v] \/ (p[v] = "wait" /\ pc'[v] = "loop")
    BY <2>2, SignalMoves
  <2> QED
    BY <2>1, <2>3
<1>7. ASSUME NEW w \in Workers, Fail(w) PROVE Control'
  BY <1>5, <1>6, <1>7 DEF Fail
<1>8. CASE Shutdown
  BY <1>8 DEF Shutdown, queueVars, PcValues
<1>9. CASE Tick
  BY <1>9 DEF Tick, queueVars
<1> QED
  BY <1>1, <1>2, <1>3, <1>4, <1>5, <1>7, <1>8, <1>9 DEF Next

\* The control invariant holds in every reachable state.
LEMMA SpecControl == Spec => []Control
<1>1. Init => Control
  BY PointerAssumption DEF Init, Control, PcValues
<1> QED
  BY <1>1, NextControl, PTL DEF Spec
-----------------------------------------------------------------------------
(* Refinement.  Q!Op is RetryQueue's operation on the shared variables.    *)

\* Enqueue, signal or not, is an Enqueue of RetryQueue.
LEMMA EnqueueRefines ==
  ASSUME NEW n \in Names, NEW p \in Priorities, Enqueue(n, p)
  PROVE  Q!Enqueue(n, p)
<1>1. Q!Raised(item[itemsMap[n]], p) = Raised(item[itemsMap[n]], p)
  BY DEF Raised, Q!Raised
<1>2. Q!NewItem(n, p) = NewItem(n, p)
  BY DEF NewItem, Q!NewItem
<1>3. Q!Contains(n) <=> Contains(n)
  BY DEF Contains, Q!Contains
<1> QED
  BY <1>1, <1>2, <1>3 DEF Enqueue, Q!Enqueue

\* The pass of Dequeue that returns an item is a Dequeue of RetryQueue.
LEMMA TakeRefines ==
  ASSUME Control, NEW w \in Workers, DequeueTake(w)
  PROVE  Q!Dequeue(w)
BY DEF Control, DequeueTake, LoopTop, Heads, Q!Dequeue

\* Done is a Done of RetryQueue.
LEMMA DoneRefines ==
  ASSUME Control, NEW w \in Workers, Done(w)
  PROVE  Q!Done(w)
BY DEF Control, Done, Q!Done

\* The worker loop's answer to an error, Done or Requeue, is RetryQueue's Fail.
LEMMA FailRefines ==
  ASSUME Control, NEW w \in Workers, Fail(w)
  PROVE  Q!Fail(w)
<1> DEFINE r == item[held[w]]
<1>1. Q!CyclesExhausted(r) <=> CyclesExhausted(r)
  BY DEF CyclesExhausted, Q!CyclesExhausted
<1>2. Q!GivesUp(r) <=> GivesUp(r)
  BY DEF GivesUp, Q!GivesUp
<1>3. Q!Retried(r) = Retried(r)
  BY DEF Retried, Q!Retried, NextCycle, Q!NextCycle, CycleBound, Q!CycleBound
<1>4. held[w] # NoItem
  BY DEF Control, Fail
<1>5. CASE CyclesExhausted(r)
  BY <1>1, <1>4, <1>5, DoneRefines DEF Fail, Q!Fail
<1>6. CASE ~CyclesExhausted(r)
  <2>1. Requeue(w)
    BY <1>6 DEF Fail
  <2>2. Q!Requeue(w)
    BY <1>2, <1>3, <1>4, <2>1 DEF Requeue, Q!Requeue
  <2> QED
    BY <1>1, <1>4, <1>6, <2>2 DEF Q!Fail
<1> QED
  BY <1>5, <1>6

\* Every step of the detailed queue is a step of RetryQueue or invisible there.
LEMMA StepRefines == Control /\ [Next]_vars => [Q!Next]_Q!vars
<1> SUFFICES ASSUME Control, [Next]_vars PROVE [Q!Next]_Q!vars
  OBVIOUS
<1>1. CASE UNCHANGED queueVars
  BY <1>1 DEF queueVars, Q!vars
<1>2. ASSUME NEW n \in Names, NEW p \in Priorities, Enqueue(n, p)
      PROVE  Q!Next
  BY <1>2, EnqueueRefines DEF Q!Next
<1>3. ASSUME NEW w \in Workers, DequeueTake(w) PROVE Q!Next
  BY <1>3, TakeRefines DEF Q!Next
<1>4. ASSUME NEW w \in Workers, Done(w) PROVE Q!Next
  BY <1>4, DoneRefines DEF Q!Next
<1>5. ASSUME NEW w \in Workers, Fail(w) PROVE Q!Next
  BY <1>5, FailRefines DEF Q!Next
<1>6. ASSUME NEW w \in Workers, Dequeue(w), ~DequeueTake(w)
      PROVE  UNCHANGED queueVars
  BY <1>6 DEF Dequeue, DequeueShutdown, DequeueEmpty, DequeueArm, DequeueWait
<1>7. ASSUME NEW w \in Workers, TimerFires(w) PROVE UNCHANGED queueVars
  BY <1>7 DEF TimerFires
<1>8. CASE Shutdown \/ Tick
  BY <1>1, <1>8 DEF Shutdown, Tick
<1>9. CASE UNCHANGED vars
  BY <1>1, <1>9 DEF vars
<1> QED
  BY <1>1, <1>2, <1>3, <1>4, <1>5, <1>6, <1>7, <1>8, <1>9 DEF Next

\* The locked, timed queue implements the atomic one: whatever the goroutines'
\* interleaving, clients see only RetryQueue's operations.
THEOREM Refinement == Spec => ImplementsRetryQueue
<1>1. Init => Q!Init
  BY DEF Init, Q!Init
<1> QED
  BY <1>1, SpecControl, StepRefines, PTL DEF Spec, ImplementsRetryQueue, Q!Spec

-----------------------------------------------------------------------------
(* RetryQueue's theorems, brought over.  P is a second instance of the     *)
(* same module with its proofs; its operations are those of Q.             *)

P == INSTANCE RetryQueueProofs

\* The two instances of RetryQueue have the same steps.
LEMMA SameNext == [Q!Next]_Q!vars => [P!Next]_P!vars
<1>1. ASSUME NEW n \in Names, NEW p \in Priorities, Q!Enqueue(n, p)
      PROVE  P!Enqueue(n, p)
  BY <1>1 DEF Q!Enqueue, P!Enqueue, Q!Contains, P!Contains, Q!Raised, P!Raised,
              Q!NewItem, P!NewItem
<1>2. ASSUME NEW w \in Workers, Q!Dequeue(w)
      PROVE  P!Dequeue(w)
  BY <1>2 DEF Q!Dequeue, P!Dequeue
<1>3. ASSUME NEW w \in Workers, Q!Done(w)
      PROVE  P!Done(w)
  BY <1>3 DEF Q!Done, P!Done
<1>4. ASSUME NEW w \in Workers, Q!Fail(w)
      PROVE  P!Fail(w)
  BY <1>4 DEF Q!Fail, P!Fail, Q!Done, P!Done, Q!Requeue, P!Requeue,
              Q!CyclesExhausted, P!CyclesExhausted, Q!GivesUp, P!GivesUp,
              Q!Retried, P!Retried, Q!NextCycle, P!NextCycle, Q!CycleBound, P!CycleBound
<1> QED
  BY <1>1, <1>2, <1>3, <1>4 DEF P!Next, Q!Next, P!vars, Q!vars

\* The queue inside WorkQueue satisfies RetryQueue's inductive invariant.
LEMMA SpecQueue == Spec => []P!IInv
<1>1. Q!Init => P!Init
  BY DEF Q!Init, P!Init
<1>2. P!Spec => []P!IInv
  BY P!SpecIInv, PointerAssumption, PoolAssumption, RetryAssumption, PriorityAssumption
     DEF P!WorkItem, WorkItem, P!CycleBound, CycleBound, P!IsFiniteSet, IsFiniteSet
<1> QED
  BY <1>1, <1>2, SameNext, Refinement, PTL DEF P!Spec, Q!Spec, ImplementsRetryQueue

\* A pointer in the heap points to a work item, and so does one that a worker
\* holds, which is not in the heap.
LEMMA QueuedIsItem ==
  ASSUME P!IInv
  PROVE  /\ item \in [Ids -> WorkItem \cup {NoItem}]
         /\ \A i \in items : i \in Ids /\ item[i] \in WorkItem
         /\ \A w \in Workers : held[w] # NoItem =>
              /\ held[w] \in Ids
              /\ held[w] \notin items
              /\ item[held[w]] \in WorkItem
BY PointerAssumption
   DEF P!IInv, P!TypeOK, P!SingleOwner, P!Busy, P!WorkItem, WorkItem, P!CycleBound, CycleBound

\* What Requeue pushes back is a work item, and not a fresh one.
LEMMA RetriedIsItem ==
  ASSUME NEW r \in WorkItem
  PROVE  Retried(r) \in WorkItem /\ ~Fresh(Retried(r))
<1>1. NextCycle(r.retryCycle) \in 0..CycleBound /\ NextCycle(r.retryCycle) # 0
  BY RetryAssumption DEF WorkItem, NextCycle, CycleBound
<1>2. CASE r.retryCount + 1 > MaxRetries
  BY <1>1, <1>2, RetryAssumption DEF Retried, Fresh, WorkItem
<1>3. CASE ~(r.retryCount + 1 > MaxRetries)
  BY <1>3, RetryAssumption DEF Retried, Fresh, WorkItem
<1> QED
  BY <1>2, <1>3

-----------------------------------------------------------------------------
(* Types of the timed part.                                                *)

\* What a retry's delay is computed from: an exponent within the cap, and a product that
\* is a natural number of time units.
LEMMA ProductType ==
  ASSUME NEW c \in 1..MaxRetries
  PROVE  /\ Shift(c) \in 0..30
         /\ 2^Shift(c) \in Nat \ {0}
         /\ InitialRetryDelay * 2^Shift(c) \in Nat
<1>1. Shift(c) \in 0..30
  BY RetryAssumption DEF Shift
<1>2. 2^Shift(c) \in Nat \ {0}
  BY <1>1, PowerAssumption
<1>3. PICK k \in Nat : k = 2^Shift(c)
  BY <1>2
<1>4. InitialRetryDelay * k \in Nat
  BY DelayAssumption
<1> QED
  BY <1>1, <1>2, <1>3, <1>4

\* The delay Requeue computes is a number of time units, negative when it wrapped.
LEMMA DelayType ==
  ASSUME NEW r \in WorkItem
  PROVE  RetryDelay(r) \in Int
<1>1. ASSUME NEW d \in Nat PROVE Wrapped(d) \in Int
  <2>1. d + DurationLimit \in Int /\ 2 * DurationLimit \in Nat \ {0} /\ DurationLimit \in Int
    BY DelayAssumption
  <2>2. (d + DurationLimit) % (2 * DurationLimit) \in Int
    BY <2>1
  <2> QED
    BY <2>1, <2>2 DEF Wrapped
<1>2. CASE r.retryCount = 0
  BY <1>2, DelayAssumption DEF RetryDelay
<1>3. CASE r.retryCount # 0
  <2>1. r.retryCount \in 1..MaxRetries
    BY <1>3, RetryAssumption DEF WorkItem
  <2>2. Backoff(r.retryCount) \in Int
    BY <1>1, <2>1, ProductType DEF Backoff
  <2> QED
    BY <2>2, DelayAssumption DEF RetryDelay
<1> QED
  BY <1>2, <1>3

Timed ==
  /\ sched \in [Ids -> Int]
  /\ timer \in [Workers -> Nat \cup {NoTimer}]
  /\ shutdown \in BOOLEAN
  /\ now \in Nat

\* Every step keeps the clock, the schedule and the timers typed.
LEMMA NextTimed == P!IInv /\ Control /\ Timed /\ [Next]_vars => Timed'
<1> SUFFICES ASSUME P!IInv, Control, Timed, [Next]_vars PROVE Timed'
  OBVIOUS
<1> USE DEF Timed
<1>1. CASE UNCHANGED vars
  BY <1>1 DEF vars
<1>2. ASSUME NEW n \in Names, NEW p \in Priorities, Enqueue(n, p) PROVE Timed'
  BY <1>2 DEF Enqueue
<1>3. ASSUME NEW w \in Workers, Dequeue(w) PROVE Timed'
  <2>1. CASE DequeueArm(w)
    <3>1. PICK i \in Heads : now < sched[i] /\ timer' = [timer EXCEPT ![w] = sched[i]]
      BY <2>1 DEF DequeueArm
    <3>2. sched[i] \in Nat
      BY <3>1 DEF Heads, Control
    <3> QED
      BY <2>1, <3>1, <3>2 DEF DequeueArm
  <2> QED
    BY <1>3, <2>1 DEF Dequeue, DequeueShutdown, DequeueEmpty, DequeueWait, DequeueTake
<1>4. ASSUME NEW w \in Workers, TimerFires(w) PROVE Timed'
  BY <1>4 DEF TimerFires
<1>5. ASSUME NEW w \in Workers, Done(w) PROVE Timed'
  <2>1. sched' = [sched EXCEPT ![held[w]] = 0] /\ UNCHANGED <<timer, shutdown, now>>
    BY <1>5 DEF Done
  <2>2. ASSUME NEW f \in [Ids -> Int], NEW i, NEW z \in Int
        PROVE  [f EXCEPT ![i] = z] \in [Ids -> Int]
    OBVIOUS
  <2>3. [sched EXCEPT ![held[w]] = 0] \in [Ids -> Int]
    BY <2>2
  <2> QED
    BY <2>1, <2>3
<1>6. ASSUME NEW w \in Workers, Requeue(w) PROVE Timed'
  <2>1. item[held[w]] \in WorkItem
    BY <1>6, QueuedIsItem DEF Requeue, Control
  <2>2. RetryDelay(Retried(item[held[w]])) \in Int
    BY <2>1, RetriedIsItem, DelayType
  <2> QED
    BY <1>6, <2>2 DEF Requeue
<1>7. ASSUME NEW w \in Workers, Fail(w) PROVE Timed'
  BY <1>5, <1>6, <1>7 DEF Fail
<1>8. CASE Shutdown
  BY <1>8 DEF Shutdown
<1>9. CASE Tick
  BY <1>9 DEF Tick
<1> QED
  BY <1>1, <1>2, <1>3, <1>4, <1>5, <1>7, <1>8, <1>9 DEF Next

\* They are typed in every reachable state.
LEMMA SpecTimed == Spec => []Timed
<1>1. Init => Timed
  <2> SUFFICES ASSUME Init PROVE Timed
    OBVIOUS
  <2>1. sched \in [Ids -> Int] /\ now \in Nat
    BY DEF Init
  <2>2. timer \in [Workers -> Nat \cup {NoTimer}]
    BY DEF Init
  <2>3. shutdown \in BOOLEAN
    BY DEF Init
  <2> QED
    BY <2>1, <2>2, <2>3 DEF Timed
<1> QED
  BY <1>1, NextTimed, SpecQueue, SpecControl, PTL DEF Spec

\* Every step of the detailed queue keeps the types of its state.
THEOREM TypeCorrect == Spec => []TypeOK
<1>1. P!IInv /\ Control /\ Timed => TypeOK
  BY QueuedIsItem DEF P!IInv, P!TypeOK, Control, Timed, TypeOK, PcValues
<1> QED
  BY <1>1, SpecQueue, SpecControl, SpecTimed, PTL
-----------------------------------------------------------------------------
(* No lost wakeup for new work.                                            *)

\* A new item's ScheduledAt is the time of its Enqueue.
FreshIsDue == \A i \in items : Fresh(item[i]) => sched[i] <= now

\* The program calls Enqueue with priority 0 only.
SinglePriority == \A p, q \in Priorities : p = q

\* A worker that finds a delayed head under the lock knows that no new item is
\* queued: the heap order would have put it first.
LEMMA DelayedHeadHidesNothing ==
  ASSUME P!IInv, Timed, FreshIsDue, SinglePriority,
         NEW i \in Heads, now < sched[i]
  PROVE  \A j \in items : ~Fresh(item[j])
<1> SUFFICES ASSUME NEW j \in items, Fresh(item[j]) PROVE FALSE
  OBVIOUS
<1>1. i \in items /\ ~Less(j, i)
  BY DEF Heads
<1>2. item[i] \in WorkItem /\ item[j] \in WorkItem /\ i \in Ids /\ j \in Ids
  BY <1>1, QueuedIsItem
<1>3. item[i].priority = item[j].priority
  BY <1>2 DEF WorkItem, SinglePriority
<1>4. sched[j] <= now /\ sched[i] <= sched[j]
  BY <1>1, <1>2, <1>3 DEF FreshIsDue, Less, Timed
<1> QED
  BY <1>2, <1>4 DEF Timed

\* A priority raise of Enqueue does not touch the retry counters.
LEMMA RaisedFresh ==
  ASSUME NEW r \in WorkItem, NEW p \in Priorities
  PROVE  Fresh(Raised(r, p)) <=> Fresh(r)
BY DEF Raised, Fresh, WorkItem

\* Which items a push back adds to the heap, and that they are not new.
LEMMA RequeuePushes ==
  ASSUME P!IInv, Control, Timed, NEW w \in Workers, Requeue(w)
  PROVE  /\ held[w] \in Ids /\ held[w] \notin items /\ items' \subseteq items \cup {held[w]}
         /\ \A i \in Ids : i # held[w] => item'[i] = item[i] /\ sched'[i] = sched[i]
         /\ held[w] \in items' => ~Fresh(item'[held[w]])
<1>1. /\ held[w] \in Ids /\ held[w] \notin items /\ item[held[w]] \in WorkItem
      /\ item \in [Ids -> WorkItem \cup {NoItem}]
  BY QueuedIsItem DEF Requeue, Control
<1>2. ~Fresh(Retried(item[held[w]]))
  BY <1>1, RetriedIsItem
<1>3. CASE GivesUp(item[held[w]])
  BY <1>1, <1>3 DEF Requeue, Timed
<1>4. CASE ~GivesUp(item[held[w]])
  BY <1>1, <1>2, <1>4 DEF Requeue, Timed
<1> QED
  BY <1>3, <1>4

\* Every step keeps it: Enqueue schedules at once, Requeue makes an item unfresh.
LEMMA NextFreshIsDue ==
  P!IInv /\ Control /\ Timed /\ FreshIsDue /\ [Next]_vars => FreshIsDue'
<1> SUFFICES ASSUME P!IInv, Control, Timed, FreshIsDue, [Next]_vars PROVE FreshIsDue'
  OBVIOUS
<1>0. /\ item \in [Ids -> WorkItem \cup {NoItem}]
      /\ \A i \in items : i \in Ids /\ item[i] \in WorkItem
  BY QueuedIsItem
<1>1. CASE UNCHANGED <<items, item, sched, now>>
  BY <1>1 DEF FreshIsDue
<1>2. ASSUME NEW n \in Names, NEW p \in Priorities, Enqueue(n, p) PROVE FreshIsDue'
  <2>1. CASE Contains(n)
    <3>1. itemsMap[n] \in items
      BY <2>1 DEF Contains, P!IInv, P!MapPointsIntoHeap, P!Contains
    <3>2. Fresh(Raised(item[itemsMap[n]], p)) <=> Fresh(item[itemsMap[n]])
      BY <1>0, <3>1, RaisedFresh
    <3> QED
      BY <1>0, <1>2, <2>1, <3>1, <3>2 DEF Enqueue, FreshIsDue
  <2>2. CASE ~Contains(n)
    BY <1>0, <1>2, <2>2, PointerAssumption DEF Enqueue, FreshIsDue, Timed
  <2> QED
    BY <2>1, <2>2
<1>3. ASSUME NEW w \in Workers, DequeueTake(w) PROVE FreshIsDue'
  BY <1>3 DEF DequeueTake, FreshIsDue
<1>4. ASSUME NEW w \in Workers, Done(w) PROVE FreshIsDue'
  <2>1. held[w] \in Ids /\ held[w] \notin items
    BY <1>4, QueuedIsItem DEF Done, Control
  <2> QED
    BY <1>0, <1>4, <2>1 DEF Done, FreshIsDue, Timed
<1>5. ASSUME NEW w \in Workers, Requeue(w) PROVE FreshIsDue'
  <2>1. now' = now
    BY <1>5 DEF Requeue
  <2> QED
    BY <1>0, <1>5, <2>1, RequeuePushes DEF FreshIsDue
<1>6. ASSUME NEW w \in Workers, Fail(w) PROVE FreshIsDue'
  BY <1>4, <1>5, <1>6 DEF Fail
<1>7. CASE Tick
  BY <1>0, <1>7 DEF Tick, queueVars, FreshIsDue, Timed
<1>8. ASSUME NEW w \in Workers, Dequeue(w), ~DequeueTake(w)
      PROVE  UNCHANGED <<items, item, sched, now>>
  BY <1>8 DEF Dequeue, DequeueShutdown, DequeueEmpty, DequeueArm, DequeueWait, queueVars
<1>9. ASSUME NEW w \in Workers, TimerFires(w)
      PROVE  UNCHANGED <<items, item, sched, now>>
  BY <1>9 DEF TimerFires, queueVars
<1>10. CASE Shutdown \/ UNCHANGED vars
  BY <1>1, <1>10 DEF Shutdown, vars, queueVars
<1> QED
  BY <1>1, <1>2, <1>3, <1>4, <1>6, <1>7, <1>8, <1>9, <1>10 DEF Next
\* A worker leaves Dequeue for good only after Shutdown.
NoEarlyExit == \A w \in Workers : pc[w] = "exit" => shutdown

\* Every step keeps it.
LEMMA NextNoEarlyExit == Control /\ NoEarlyExit /\ [Next]_vars => NoEarlyExit'
<1> SUFFICES ASSUME Control, NoEarlyExit, [Next]_vars,
                    NEW v \in Workers, pc'[v] = "exit"
             PROVE  shutdown'
  BY DEF NoEarlyExit
<1> USE DEF Control, NoEarlyExit
<1>1. CASE UNCHANGED vars
  BY <1>1 DEF vars
<1>2. ASSUME NEW n \in Names, NEW p \in Priorities, Enqueue(n, p) PROVE shutdown'
  BY <1>2, SignalMoves DEF Enqueue
<1>3. ASSUME NEW w \in Workers, Dequeue(w) PROVE shutdown'
  BY <1>3 DEF Dequeue, DequeueShutdown, DequeueEmpty, DequeueArm, DequeueWait, DequeueTake
<1>4. ASSUME NEW w \in Workers, TimerFires(w) PROVE shutdown'
  BY <1>4, SignalMoves DEF TimerFires
<1>5. ASSUME NEW w \in Workers, Done(w) PROVE shutdown'
  BY <1>5 DEF Done
<1>6. ASSUME NEW w \in Workers, Requeue(w) PROVE shutdown'
  <2> DEFINE p == [pc EXCEPT ![w] = "loop"]
  <2>1. p \in [Workers -> PcValues] /\ (pc' = p \/ Signal(p)) /\ shutdown' = shutdown
    BY <1>6 DEF Requeue, PcValues
  <2>2. p[v] = "exit"
    BY <2>1, SignalMoves
  <2> QED
    BY <2>1, <2>2
<1>7. ASSUME NEW w \in Workers, Fail(w) PROVE shutdown'
  BY <1>5, <1>6, <1>7 DEF Fail
<1>8. CASE Shutdown
  BY <1>8 DEF Shutdown
<1>9. CASE Tick
  BY <1>9 DEF Tick
<1> QED
  BY <1>1, <1>2, <1>3, <1>4, <1>5, <1>7, <1>8, <1>9 DEF Next

Awake == \E w \in Workers : pc[w] \in {"loop", "work"}

\* With the lock free and the queue open, a Signal leaves someone awake: either
\* it wakes a waiter or nobody was waiting.
LEMMA SignalWakes ==
  ASSUME Control, NoEarlyExit, MutexFree, ~shutdown, Signal(pc)
  PROVE  Awake'
<1>1. CASE \E w \in Workers : pc[w] = "wait"
  BY <1>1 DEF Signal, Control, Awake
<1>2. CASE ~\E w \in Workers : pc[w] = "wait"
  <2>1. pc' = pc
    BY <1>2 DEF Signal
  <2>2. PICK w \in Workers : TRUE
    BY PoolAssumption
  <2>3. pc[w] \in {"loop", "work"}
    BY <1>2 DEF Control, PcValues, NoEarlyExit, MutexFree
  <2> QED
    BY <2>1, <2>3 DEF Awake
<1> QED
  BY <1>1, <1>2
SomeFresh == \E i \in items : Fresh(item[i])

\* Every step keeps fresh work from being stranded, given the facts above.
LEMMA NextNotStranded ==
  ASSUME SinglePriority, P!IInv, Control, Timed, FreshIsDue, NoEarlyExit,
         FreshNeverStranded, [Next]_vars
  PROVE  FreshNeverStranded'
<1> SUFFICES ASSUME ~shutdown', SomeFresh' PROVE Awake'
  BY DEF FreshNeverStranded, SomeFresh, Awake
<1>0. ~shutdown /\ SomeFresh => Awake
  BY DEF FreshNeverStranded, SomeFresh, Awake
<1>1. CASE UNCHANGED <<items, item, pc, shutdown>>
  BY <1>0, <1>1 DEF SomeFresh, Awake
<1>2. ASSUME NEW n \in Names, NEW p \in Priorities, Enqueue(n, p) PROVE Awake'
  <2>1. CASE Contains(n)
    <3>1. itemsMap[n] \in items
      BY <2>1 DEF Contains, P!IInv, P!MapPointsIntoHeap, P!Contains
    <3>2. Fresh(Raised(item[itemsMap[n]], p)) <=> Fresh(item[itemsMap[n]])
      BY <3>1, QueuedIsItem, RaisedFresh
    <3>3. /\ item' = [item EXCEPT ![itemsMap[n]] = Raised(item[itemsMap[n]], p)]
          /\ UNCHANGED <<items, pc, shutdown>>
      BY <1>2, <2>1 DEF Enqueue
    <3>4. SomeFresh
      BY <3>1, <3>2, <3>3, QueuedIsItem DEF SomeFresh
    <3> QED
      BY <1>0, <3>3, <3>4 DEF Awake
  <2>2. CASE ~Contains(n)
    BY <1>2, <2>2, SignalWakes DEF Enqueue
  <2> QED
    BY <2>1, <2>2
<1>3. ASSUME NEW w \in Workers, Dequeue(w) PROVE Awake'
  <2>1. CASE DequeueShutdown(w)
    BY <2>1 DEF DequeueShutdown
  <2>2. CASE DequeueEmpty(w)
    BY <2>2 DEF DequeueEmpty, queueVars, SomeFresh
  <2>3. CASE DequeueArm(w)
    BY <2>3, DelayedHeadHidesNothing DEF DequeueArm, queueVars, SomeFresh
  <2>4. CASE DequeueWait(w)
    <3>1. SomeFresh /\ ~shutdown
      BY <2>4 DEF DequeueWait, queueVars, SomeFresh
    <3> QED
      BY <1>0, <2>4, <3>1 DEF DequeueWait, Awake, Control
  <2>5. CASE DequeueTake(w)
    BY <2>5 DEF DequeueTake, Awake, Control
  <2> QED
    BY <1>3, <2>1, <2>2, <2>3, <2>4, <2>5 DEF Dequeue
<1>4. ASSUME NEW w \in Workers, TimerFires(w) PROVE Awake'
  <2>1. SomeFresh /\ ~shutdown /\ Signal(pc)
    BY <1>4 DEF TimerFires, queueVars, SomeFresh
  <2>2. PICK v \in Workers : pc[v] \in {"loop", "work"}
    BY <1>0, <2>1 DEF Awake
  <2>3. pc'[v] = pc[v]
    BY <2>1, <2>2, SignalMoves DEF Control
  <2> QED
    BY <2>2, <2>3 DEF Awake
<1>5. ASSUME NEW w \in Workers, Done(w) PROVE Awake'
  BY <1>5 DEF Done, Awake, Control
<1>6. ASSUME NEW w \in Workers, Requeue(w) PROVE Awake'
  <2> DEFINE p == [pc EXCEPT ![w] = "loop"]
  <2>1. p \in [Workers -> PcValues] /\ p[w] = "loop" /\ (pc' = p \/ Signal(p))
    BY <1>6 DEF Requeue, Control, PcValues
  <2>2. pc'[w] = "loop"
    BY <2>1, SignalMoves
  <2> QED
    BY <2>2 DEF Awake
<1>7. ASSUME NEW w \in Workers, Fail(w) PROVE Awake'
  BY <1>5, <1>6, <1>7 DEF Fail
<1>8. CASE Shutdown
  BY <1>8 DEF Shutdown
<1>9. CASE Tick \/ UNCHANGED vars
  BY <1>1, <1>9 DEF Tick, vars, queueVars
<1> QED
  BY <1>2, <1>3, <1>4, <1>5, <1>7, <1>8, <1>9 DEF Next

\* With equal priorities, as the program calls Enqueue, no new item is ever
\* queued while every worker sleeps, however many workers there are.
THEOREM NoStrandedWork == SinglePriority => (Spec => []FreshNeverStranded)
<1> SUFFICES ASSUME SinglePriority PROVE Spec => []FreshNeverStranded
  OBVIOUS
<1>1. Init => FreshIsDue /\ NoEarlyExit /\ FreshNeverStranded
  BY DEF Init, FreshIsDue, NoEarlyExit, FreshNeverStranded
<1>2. P!IInv /\ Control /\ Timed /\ FreshIsDue /\ NoEarlyExit /\ FreshNeverStranded
        /\ [Next]_vars => FreshIsDue' /\ NoEarlyExit' /\ FreshNeverStranded'
  BY NextFreshIsDue, NextNoEarlyExit, NextNotStranded
<1> QED
  BY <1>1, <1>2, SpecQueue, SpecControl, SpecTimed, PTL DEF Spec
-----------------------------------------------------------------------------
(* Shutdown.                                                               *)

\* Every step keeps the workers of a queue that is shut down from waiting.
LEMMA NextNoWait ==
  ASSUME Control, NoWaitAfterShutdown, [Next]_vars, shutdown', NEW v \in Workers
  PROVE  pc'[v] \notin {"arm", "wait"}
<1> USE DEF Control, NoWaitAfterShutdown
<1>1. CASE UNCHANGED vars
  BY <1>1 DEF vars
<1>2. ASSUME NEW n \in Names, NEW p \in Priorities, Enqueue(n, p)
      PROVE  pc'[v] \notin {"arm", "wait"}
  BY <1>2, SignalMoves DEF Enqueue
<1>3. ASSUME NEW w \in Workers, Dequeue(w) PROVE pc'[v] \notin {"arm", "wait"}
  BY <1>3 DEF Dequeue, DequeueShutdown, DequeueEmpty, DequeueArm, DequeueWait, DequeueTake
<1>4. ASSUME NEW w \in Workers, TimerFires(w) PROVE pc'[v] \notin {"arm", "wait"}
  BY <1>4, SignalMoves DEF TimerFires
<1>5. ASSUME NEW w \in Workers, Done(w) PROVE pc'[v] \notin {"arm", "wait"}
  BY <1>5 DEF Done
<1>6. ASSUME NEW w \in Workers, Requeue(w) PROVE pc'[v] \notin {"arm", "wait"}
  <2> DEFINE p == [pc EXCEPT ![w] = "loop"]
  <2>1. p \in [Workers -> PcValues] /\ (pc' = p \/ Signal(p)) /\ shutdown' = shutdown
    BY <1>6 DEF Requeue, PcValues
  <2>2. p[v] \notin {"arm", "wait"}
    BY <2>1
  <2> QED
    BY <2>1, <2>2, SignalMoves
<1>7. ASSUME NEW w \in Workers, Fail(w) PROVE pc'[v] \notin {"arm", "wait"}
  BY <1>5, <1>6, <1>7 DEF Fail
<1>8. CASE Shutdown
  BY <1>8 DEF Shutdown, MutexFree
<1>9. CASE Tick
  BY <1>9 DEF Tick
<1> QED
  BY <1>1, <1>2, <1>3, <1>4, <1>5, <1>7, <1>8, <1>9 DEF Next

\* After Shutdown no worker waits or is about to, however many there are and whatever
\* timers and enqueues race with it (Shutdown's Broadcast under wq.mu): what
\* ShutdownStopsWorkers rests on.
THEOREM ShutdownWakesAll == Spec => []NoWaitAfterShutdown
<1>1. Init => NoWaitAfterShutdown
  BY DEF Init, NoWaitAfterShutdown
<1>2. Control /\ NoWaitAfterShutdown /\ [Next]_vars => NoWaitAfterShutdown'
  BY NextNoWait DEF NoWaitAfterShutdown
<1> QED
  BY <1>1, <1>2, SpecControl, PTL DEF Spec
-----------------------------------------------------------------------------
(* The delays of retries.                                                  *)

\* As long as the longest product fits, no product wraps around, and the delay lies
\* between InitialRetryDelay and MaxRetryDelay.
LEMMA DelayBounds ==
  ASSUME NoOverflow, NEW r \in WorkItem
  PROVE  /\ RetryDelay(r) \in Int
         /\ RetryDelay(r) >= InitialRetryDelay \/ RetryDelay(r) >= MaxRetryDelay
         /\ RetryDelay(r) <= MaxRetryDelay
<1>1. CASE r.retryCount = 0
  BY <1>1, DelayAssumption DEF RetryDelay
<1>2. CASE r.retryCount # 0
  <2> DEFINE c == r.retryCount
  <2>1. c \in 1..MaxRetries /\ MaxRetries \in 1..MaxRetries
    BY <1>2, RetryAssumption DEF WorkItem
  <2>2. PICK k \in Nat, m \in Nat :
          k = 2^Shift(c) /\ m = 2^Shift(MaxRetries) /\ 1 <= k /\ k <= m
    <3>1. Shift(MaxRetries) \in 0..30 /\ Shift(c) \in 0..Shift(MaxRetries)
      BY <2>1, RetryAssumption DEF Shift
    <3>2. 2^Shift(c) <= 2^Shift(MaxRetries)
      BY <3>1, PowerAssumption
    <3> QED
      BY <2>1, <3>2, ProductType
  <2>3. InitialRetryDelay * m < DurationLimit
    BY <2>2 DEF NoOverflow
  <2>4. /\ InitialRetryDelay * k \in Nat /\ InitialRetryDelay * m \in Nat
        /\ InitialRetryDelay <= InitialRetryDelay * k
        /\ InitialRetryDelay * k <= InitialRetryDelay * m
    BY <2>2, DelayAssumption
  <2>5. Backoff(c) = InitialRetryDelay * k
    BY <2>2, <2>3, <2>4, DelayAssumption DEF Backoff, Wrapped
  <2> QED
    BY <1>2, <2>4, <2>5, DelayAssumption DEF RetryDelay
<1> QED
  BY <1>1, <1>2

\* An item that a worker holds gets into the heap by that worker's Requeue only.
LEMMA OnlyRequeuePushes ==
  ASSUME P!IInv, Control, [Next]_vars, NEW v \in Workers, held[v] # NoItem, held[v] \in items'
  PROVE  Requeue(v) /\ ~GivesUp(item[held[v]])
<1>0. /\ held[v] \in Ids /\ held[v] \notin items /\ item[held[v]] \in WorkItem
      /\ item[held[v]] # NoItem
  BY QueuedIsItem, PointerAssumption
<1>1. ~(items' \subseteq items)
  BY <1>0
<1>2. ASSUME NEW n \in Names, NEW p \in Priorities, Enqueue(n, p) PROVE FALSE
  BY <1>0, <1>2 DEF Enqueue
<1>3. ASSUME NEW w \in Workers, Dequeue(w) PROVE items' \subseteq items
  BY <1>3 DEF Dequeue, DequeueShutdown, DequeueEmpty, DequeueArm, DequeueWait, DequeueTake,
              queueVars
<1>4. ASSUME NEW w \in Workers, TimerFires(w) \/ Done(w) PROVE items' \subseteq items
  BY <1>4 DEF TimerFires, Done, queueVars
<1>5. ASSUME NEW w \in Workers, Fail(w) PROVE Requeue(v) /\ ~GivesUp(item[held[v]])
  <2>1. Requeue(w)
    BY <1>1, <1>4, <1>5 DEF Fail
  <2>2. held[w] # NoItem
    BY <1>5 DEF Fail, Control
  <2>3. ~GivesUp(item[held[w]]) /\ held[v] = held[w]
    BY <1>0, <2>1 DEF Requeue
  <2>4. v = w
    BY <2>2, <2>3 DEF P!IInv, P!SingleOwner, P!Busy
  <2> QED
    BY <2>1, <2>3, <2>4
<1>6. CASE Shutdown \/ Tick \/ UNCHANGED vars
  BY <1>1, <1>6 DEF Shutdown, Tick, vars, queueVars
<1> QED
  BY <1>1, <1>2, <1>3, <1>4, <1>5, <1>6 DEF Next

\* For every number of retries and every delay setting for which the longest product fits
\* into a time.Duration, each retry's delay is within its bounds: the exponent's cap, the
\* delay's cap and the cooldown of a new cycle (Requeue).
THEOREM DelaysBounded == Spec => BackoffBounded
<1>1. P!IInv /\ Control /\ Timed /\ [Next]_vars =>
        [\A w \in Workers : NoOverflow /\ held[w] # NoItem /\ held[w] \in items' =>
           LET delay == sched'[held[w]] - now IN
           /\ delay >= InitialRetryDelay \/ delay >= MaxRetryDelay
           /\ delay <= MaxRetryDelay]_vars
  <2> SUFFICES ASSUME P!IInv, Control, Timed, [Next]_vars,
                      NEW w \in Workers, NoOverflow, held[w] # NoItem, held[w] \in items'
               PROVE  LET delay == sched'[held[w]] - now IN
                      /\ delay >= InitialRetryDelay \/ delay >= MaxRetryDelay
                      /\ delay <= MaxRetryDelay
    OBVIOUS
  <2>1. Requeue(w) /\ ~GivesUp(item[held[w]])
    BY OnlyRequeuePushes
  <2>2. held[w] \in Ids /\ item[held[w]] \in WorkItem
    BY QueuedIsItem
  <2>3. PICK d \in Int : /\ d = RetryDelay(Retried(item[held[w]]))
                         /\ d >= InitialRetryDelay \/ d >= MaxRetryDelay
                         /\ d <= MaxRetryDelay
    BY <2>2, RetriedIsItem, DelayBounds
  <2>4. sched'[held[w]] = now + d
    BY <2>1, <2>2, <2>3 DEF Requeue, Timed
  <2>5. sched'[held[w]] - now = d
    BY <2>4 DEF Timed
  <2> QED
    BY <2>3, <2>5
<1> QED
  BY <1>1, SpecQueue, SpecControl, SpecTimed, PTL DEF Spec, BackoffBounded
=============================================================================
