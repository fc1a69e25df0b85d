------------------------------- MODULE LeasedJob -------------------------------
(***************************************************************************)
(* What the ledger of scheduled runs promises about each job, whatever the *)
(* requests in flight: one owner at a time, taken over only when its lease *)
(* has run out, a bounded number of tries, and one outcome.                *)
(***************************************************************************)
EXTENDS Integers

CONSTANTS Jobs, Owners, None,
          Budget   \* tries a job may have

VARIABLE job  \* job[j]: who owns it, whether the lease has run out, tries, outcome

Owned(w, late, n) == [owner |-> w, overdue |-> late, tries |-> n, outcome |-> "open"]

\* Nobody's, after n tries.
Unowned(n, outcome) == [owner |-> None, overdue |-> FALSE, tries |-> n, outcome |-> outcome]

Init == job = [j \in Jobs |-> Unowned(0, "open")]

\* Each relates a job s to what it is after the step.
Take(s, t) ==
  /\ s.outcome = "open"
  /\ s.tries < Budget
  /\ s.owner # None => s.overdue
  /\ \E w \in Owners : t = Owned(w, FALSE, s.tries + 1)

RunOut(s, t) == s.owner # None /\ t = Owned(s.owner, TRUE, s.tries)

\* The owner's try failed and another one is left.
Release(s, t) ==
  /\ s.owner # None
  /\ s.tries < Budget
  /\ t = Unowned(s.tries, "open")

Finish(s, t) ==
  /\ s.owner # None
  /\ t = Unowned(s.tries, "done")

GiveUp(s, t) ==
  /\ s.owner # None
  /\ s.tries = Budget
  /\ t = Unowned(s.tries, "failed")

Step(s, t) ==
  Take(s, t) \/ RunOut(s, t) \/ Release(s, t) \/ Finish(s, t) \/ GiveUp(s, t)

\* Jobs do not depend on each other, and several may move at once.
Next ==
  /\ DOMAIN job' = Jobs
  /\ \A j \in Jobs : job'[j] = job[j] \/ Step(job[j], job'[j])

Spec == Init /\ [][Next]_job
===============================================================================
