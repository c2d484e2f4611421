------------------------- MODULE MCTemplateLifecycle -------------------------
(* TemplateLifecycle for TLC. *)
EXTENDS TemplateLifecycle, TLC

Symmetry == Permutations(Workers)

\* Pointers are interchangeable: a new item may be taken to get the least free one.
LeastFree ==
  \A i \in Ids : item[i] = NoItem /\ item'[i] # NoItem =>
    \A j \in Ids : j < i => item[j] # NoItem

\* Three stories for safety: templates that may fail, with two workers that are not
\* disturbed; templates that do not fail, with one worker at a time, that are deleted and
\* created anew while calls fail and the process restarts; templates that fail, with
\* one worker at a time, while another call fails.
Undisturbed == used.deletes = 0 /\ used.crashes = 0 /\ used.faults = 0
OneBusy == \A u, w \in Workers : u # w => held[u] = NoItem \/ held[w] = NoItem
Disturbed == OneBusy /\ \A v \in Specs, k \in Kinds : verdict[v][k] = "replace"
Failing ==
  /\ OneBusy /\ used.deletes = 0 /\ used.crashes = 0
  /\ \A v \in Specs, k \in Kinds : verdict[v][k] = "error"

SafeStory == Undisturbed \/ Disturbed \/ Failing
SafeInit == Init /\ SafeStory
SafeSpec == SafeInit /\ [][Next /\ SafeStory' /\ LeastFree]_vars

\* Two stories for liveness: templates that are replaced are edited all the time; a
\* template that may fail is created once, fails, is paused and resumed.
Edited ==
  /\ used.resumes = 0
  /\ \A v \in Specs, k \in Kinds : verdict[v][k] = "replace"
Resumed ==
  /\ used.edits <= 1
  /\ \A k \in Kinds : verdict[1][k] # "replace" /\ verdict[2][k] = "replace"
  /\ \A n \in Names : Exists(n) => api[n].spec = 1

Story == Edited \/ Resumed
StoryInit == Init /\ Story
StorySpec == StoryInit /\ [][Next /\ Story' /\ LeastFree]_vars /\ Fairness

\* Three stories of templates that an older release completed: their resources are
\* changed by others while a call fails; the spec is edited, and the edit may fail; it is
\* edited, and put back before Reconcile has recorded that.  Edits come after the hash
\* (an edit before the first Reconcile is hashed as if it had been applied).
Drifting ==
  /\ used.edits = 0
  /\ verdict[1] = verdict[2] /\ \A k \in Kinds : verdict[1][k] # "error"
Edits(m) ==
  /\ used.tampers = 0 /\ used.faults = 0 /\ used.edits <= m
  /\ used.edits > 0 => \A n \in Names : api[n].hash # NoHash
  /\ \A k \in Kinds : verdict[1][k] = "ok" /\ verdict[2][k] = verdict[2][1]
Reworked == Edits(1)
Reverted == Edits(2) /\ verdict[2] = verdict[1]

DriftStory == Drifting \/ Reworked \/ Reverted
DriftInit == Init /\ DriftStory /\ \A n \in Names : api[n].spec = 1
PutBack == used.edits = 1 /\ used'.edits = 2 => \A n \in Names : api[n].hash # api[n].spec
DriftSpec ==
  DriftInit /\ [][Next /\ DriftStory' /\ PutBack /\ LeastFree]_vars /\ Fairness
=============================================================================
