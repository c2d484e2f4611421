----------------------------- MODULE MCWorkQueue -----------------------------
(***************************************************************************)
(* WorkQueue for TLC, with a budget of Enqueue calls.                      *)
(***************************************************************************)
EXTENDS WorkQueue

CONSTANTS
  EnqueueBudget,   \* bound: Enqueue calls in a behaviour
  MayShutDown      \* the program never calls Shutdown; its tests do

VARIABLE enqueues

budgetVars == <<vars, enqueues>>

BudgetInit == Init /\ enqueues = 0

BudgetNext ==
  \/ /\ enqueues < EnqueueBudget
     /\ enqueues' = enqueues + 1
     /\ \E n \in Names, p \in Priorities : Enqueue(n, p)
  \/ /\ \/ \E w \in Workers : Dequeue(w) \/ TimerFires(w) \/ Done(w) \/ Fail(w)
        \/ MayShutDown /\ Shutdown
        \/ Tick
     /\ UNCHANGED enqueues

SafeSpec == BudgetInit /\ [][BudgetNext]_budgetVars
LiveSpec == SafeSpec /\ Fairness
=============================================================================
