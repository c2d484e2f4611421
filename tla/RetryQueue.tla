------------------------------ MODULE RetryQueue ------------------------------
(***************************************************************************)
(* What internal/queue.WorkQueue promises its clients, without time,       *)
(* ordering, locking or condition variables: a pool of work items, of      *)
(* which some are queued and some are held by workers, and the itemsMap    *)
(* index by name.  Every operation is atomic here; WorkQueue is the        *)
(* detailed specification and implements this one, and TemplateLifecycle   *)
(* uses this one as its queue.                                             *)
(*                                                                         *)
(* A *WorkItem pointer is an element of Ids; item[i] is what it points to, *)
(* NoItem when the pointer is not in use.                                  *)
(***************************************************************************)
EXTENDS WorkItems, FiniteSets

CONSTANTS
  Workers,   \* the goroutines StartWorkers launches
  Ids,       \* the pointers: bounds how many items exist at a time
  NoItem     \* nil

ASSUME NoItemAssumption == NoItem \notin Ids /\ NoItem \notin WorkItem
ASSUME WorkersAssumption == IsFiniteSet(Workers) /\ Workers # {}

VARIABLES
  items,            \* the pointers in the heap
  itemsMap,         \* name -> pointer or NoItem
  item,             \* what each pointer points to
  held,             \* the item each worker got from Dequeue and still owns
  processingItems   \* the gauge QueueMetrics.processingItems

vars == <<items, itemsMap, item, held, processingItems>>

Busy == {w \in Workers : held[w] # NoItem}

Contains(n) == itemsMap[n] # NoItem

Init ==
  /\ items = {}
  /\ itemsMap = [n \in Names |-> NoItem]
  /\ item = [i \in Ids |-> NoItem]
  /\ held = [w \in Workers |-> NoItem]
  /\ processingItems = 0

Enqueue(n, p) ==
  \/ /\ Contains(n)
     /\ item' = [item EXCEPT ![itemsMap[n]] = Raised(@, p)]
     /\ UNCHANGED <<items, itemsMap, held, processingItems>>
  \/ /\ ~Contains(n)
     /\ \E i \in Ids :
          /\ item[i] = NoItem
          /\ item' = [item EXCEPT ![i] = NewItem(n, p)]
          /\ items' = items \cup {i}
          /\ itemsMap' = [itemsMap EXCEPT ![n] = i]
     /\ UNCHANGED <<held, processingItems>>

\* Mutants of Dequeue: delete(wq.itemsMap, ...) is missing; heap.Pop is missing.
DequeueKeepsMapEntry(w) ==
  /\ held[w] = NoItem
  /\ \E i \in items : items' = items \ {i} /\ held' = [held EXCEPT ![w] = i]
  /\ processingItems' = processingItems + 1
  /\ UNCHANGED <<item, itemsMap>>
DequeueWithoutPop(w) ==
  /\ held[w] = NoItem
  /\ \E i \in items :
       /\ itemsMap' = [itemsMap EXCEPT ![item[i].name] = NoItem]
       /\ held' = [held EXCEPT ![w] = i]
  /\ processingItems' = processingItems + 1
  /\ UNCHANGED <<items, item>>

\* Which queued item is returned is left open: ordering and delays are
\* WorkQueue's.  The map entry is deleted by name, whatever it points to.
Dequeue(w) ==
  /\ held[w] = NoItem
  /\ \E i \in items :
       /\ items' = items \ {i}
       /\ itemsMap' = [itemsMap EXCEPT ![item[i].name] = NoItem]
       /\ held' = [held EXCEPT ![w] = i]
  /\ processingItems' = processingItems + 1
  /\ UNCHANGED item

\* The worker drops its pointer; nothing else refers to the item any more.
Done(w) ==
  /\ held[w] # NoItem
  /\ processingItems' = processingItems - 1
  /\ item' = [item EXCEPT ![held[w]] = NoItem]
  /\ held' = [held EXCEPT ![w] = NoItem]
  /\ UNCHANGED <<items, itemsMap>>

\* Pushed back without looking at itemsMap.  The giving-up exit decrements the
\* gauge a second time.
Requeue(w) ==
  LET i == held[w] IN
  /\ i # NoItem
  /\ held' = [held EXCEPT ![w] = NoItem]
  /\ IF GivesUp(item[i])
     THEN /\ processingItems' = processingItems - 2
          /\ item' = [item EXCEPT ![i] = NoItem]
          /\ UNCHANGED <<items, itemsMap>>
     ELSE /\ processingItems' = processingItems - 1
          /\ item' = [item EXCEPT ![i] = Retried(@)]
          /\ items' = items \cup {i}
          /\ itemsMap' = [itemsMap EXCEPT ![item[i].name] = i]

\* What the worker loop does with an error from processItem.
Fail(w) ==
  /\ held[w] # NoItem
  /\ IF CyclesExhausted(item[held[w]]) THEN Done(w) ELSE Requeue(w)

Next ==
  \/ \E n \in Names, p \in Priorities : Enqueue(n, p)
  \/ \E w \in Workers : Dequeue(w) \/ Done(w) \/ Fail(w)

Spec == Init /\ [][Next]_vars

\* A worker always comes back for the next item, and finishes the one it holds.
Fairness == \A w \in Workers : WF_vars(Dequeue(w)) /\ WF_vars(Done(w) \/ Fail(w))

-----------------------------------------------------------------------------
\* Type invariant of the queue.
TypeOK ==
  /\ items \in SUBSET Ids
  /\ itemsMap \in [Names -> Ids \cup {NoItem}]
  /\ item \in [Ids -> WorkItem \cup {NoItem}]
  /\ held \in [Workers -> Ids \cup {NoItem}]
  /\ processingItems \in Int

\* The pointer itemsMap keeps for a name is in the heap and is an item of that
\* name: Enqueue's heap.Fix(&wq.items, existingItem.index) never runs on an item
\* that left the heap (whose index Pop set to -1), although Dequeue deletes map
\* entries by name and Requeue overwrites them.
MapPointsIntoHeap ==
  \A n \in Names : Contains(n) => /\ itemsMap[n] \in items
                                  /\ item[itemsMap[n]].name = n

\* An item has one owner: the heap or one worker.  The worker loop reads
\* item.RetryCycle, and processItem the name, without wq.mu; that is free of
\* races only because no other goroutine can reach a held item.
SingleOwner ==
  /\ \A w \in Busy : held[w] \notin items
  /\ \A v, w \in Busy : held[v] = held[w] => v = w
  /\ \A i \in Ids : item[i] # NoItem <=> (i \in items \/ \E w \in Busy : held[w] = i)

\* The processingItems gauge counts the workers that hold an item.  Requeue's
\* giving-up exit would decrement it twice; the worker's own test of RetryCycle
\* must make that exit unreachable.
GaugeExact == processingItems = Cardinality(Busy)

\* With MaxRetryCycles > 0 a failing item cannot retry forever: every push back
\* by Requeue uses up part of a budget that never goes below zero, whatever
\* Enqueue and the other workers do in between.
RetryBudget ==
  [][MaxRetryCycles > 0 =>
       \A i \in Ids : i \in items' \ items /\ item[i] # NoItem =>
         /\ RetriesLeft(item[i])' < RetriesLeft(item[i])
         /\ RetriesLeft(item[i])' >= 0]_vars
=============================================================================
