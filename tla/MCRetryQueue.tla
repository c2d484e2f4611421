---------------------------- MODULE MCRetryQueue ----------------------------
(***************************************************************************)
(* RetryQueue for TLC.  Enqueue calls are an unbounded input; the liveness *)
(* run gives them a budget so that "after the last Enqueue" exists.        *)
(***************************************************************************)
EXTENDS RetryQueue

CONSTANT EnqueueBudget   \* bound: Enqueue calls in a behaviour of BudgetSpec

VARIABLE enqueues

budgetVars == <<vars, enqueues>>

BudgetInit == Init /\ enqueues = 0

BudgetNext ==
  \/ /\ enqueues < EnqueueBudget
     /\ enqueues' = enqueues + 1
     /\ \E n \in Names, p \in Priorities : Enqueue(n, p)
  \/ /\ \E w \in Workers : Dequeue(w) \/ Done(w) \/ Fail(w)
     /\ UNCHANGED enqueues

BudgetSpec == BudgetInit /\ [][BudgetNext]_budgetVars /\ Fairness

\* Once callers stop, the queue drains and every worker goes idle: with
\* MaxRetryCycles > 0 no template can keep the retry loop of the worker and
\* Requeue going forever.
Drains == <>[](items = {} /\ Busy = {})
=============================================================================
