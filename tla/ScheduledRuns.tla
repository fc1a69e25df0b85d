----------------------------- MODULE ScheduledRuns -----------------------------
(***************************************************************************)
(* The durable ledger of scheduled job runs:                               *)
(* backend/app/services/scheduled_job_runs.py over the two tables          *)
(* scheduled_job_runs and scheduled_job_attempts of app/db/models.py.      *)
(*                                                                         *)
(* Every request has a database session of its own, and the database runs  *)
(* at READ COMMITTED: a statement sees what is committed when it starts,   *)
(* an UPDATE keeps the rows it changed locked until its transaction ends,  *)
(* and one that meets a locked row waits, then looks at the row again.     *)
(* One action is one statement of a request.  What a transaction has       *)
(* written shows only in its request until the action that commits it; an  *)
(* update followed by the commit, with nothing to wait for in between, is  *)
(* one action.                                                             *)
(*                                                                         *)
(* Time is the set of deadlines that have passed.  A request reads the     *)
(* clock once, when it starts, and compares with that reading to its end.  *)
(***************************************************************************)
EXTENDS Integers, FiniteSets

CONSTANTS Runs,         \* schedule keys; their order is the order of creation
          Tokens,       \* claim tokens, the secrets of the runners' claims
          None,         \* no token, no outcome
          MaxAttempts,  \* max_attempts of every run
          Slots         \* requests in flight

ASSUME RunsAssumption == Runs \subseteq Nat
ASSUME NoneAssumption == None \notin Tokens
ASSUME MaxAttemptsAssumption == MaxAttempts \in Nat \ {0}

VARIABLES
  runs,      \* committed rows of scheduled_job_runs
  attempts,  \* attempts[r][k]: committed row of attempt k, or NoAttempt
  passed,    \* the deadlines in the past
  tasks      \* tasks[q]: where request q is suspended

vars == <<runs, attempts, passed, tasks>>
--------------------------------------------------------------------------------
(***************************************************************************)
(* Rows.  current_attempt is attempt_count, NULL for 0: both are only ever *)
(* set together, to one more than the count.  claimed_by is the runner of  *)
(* the current attempt while the run is running, and not looked at         *)
(* otherwise.  lease_expires_at is set exactly while a run is running,     *)
(* next_attempt_at exactly while it waits for a retry, and both anew for   *)
(* every attempt: the deadline is named by the attempt's number.           *)
(***************************************************************************)
Numbers == 1..MaxAttempts

RunStatus == {"absent", "queued", "running", "retry_wait", "completed", "failed"}

Run == [status : RunStatus, count : 0..MaxAttempts]

Outcomes == {"succeeded", "failed"}

Attempt == [token : Tokens, outcome : Outcomes \cup {None},
            status : {"running", "lease_expired", "succeeded", "retry_scheduled", "failed"}]

NoAttempt == [token |-> None, outcome |-> None, status |-> "none"]

Started(t) == [token |-> t, outcome |-> None, status |-> "running"]

Lease(r, k)  == [run |-> r, kind |-> "lease", number |-> k]
Retry(r, k)  == [run |-> r, kind |-> "retry", number |-> k]
Deadline     == [run : Runs, kind : {"lease", "retry"}, number : Numbers]

Running(r) == runs[r].status = "running"

\* The lease of r had run out at the reading now of the clock.
Expired(r, now) == Running(r) /\ Lease(r, runs[r].count) \in now

\* Mutant: the lease is not looked at.
DueAnyway(r, now) ==
  \/ runs[r].status = "queued"
  \/ runs[r].status = "retry_wait" /\ Retry(r, runs[r].count) \in now
  \/ Running(r)

\* What claim_run and claim_next_run call due, ready.
Due(r, now) ==
  \/ runs[r].status = "queued"
  \/ runs[r].status = "retry_wait" /\ Retry(r, runs[r].count) \in now
  \/ Expired(r, now)

\* Mutant: attempt_count is not compared with max_attempts.
ClaimableForEver(r, now) == Due(r, now)

Claimable(r, now) == runs[r].count < MaxAttempts /\ Due(r, now)

Exhausted(r, now) == runs[r].count >= MaxAttempts /\ Expired(r, now)

Held(r, t) == Running(r) /\ attempts[r][runs[r].count] = Started(t)
--------------------------------------------------------------------------------
(***************************************************************************)
(* Requests in flight.  rest are the candidates claim_next_run has not     *)
(* tried yet.  "granted" is the end of a claim answered with claimed: True. *)
(***************************************************************************)
Idle == [pc |-> "idle"]

Task ==
  {Idle}
    \cup [pc : {"granted"}, run : Runs, token : Tokens, number : Numbers]
    \cup [pc : {"enqueue_insert"}, run : Runs]
    \cup [pc : {"active", "sweep", "candidates"}, token : Tokens, now : SUBSET Deadline]
    \cup [pc : {"sweep_attempts"}, token : Tokens, now : SUBSET Deadline, swept : SUBSET Runs]
    \cup [pc : {"claim", "reread"}, run : Runs, token : Tokens,
          now : SUBSET Deadline, rest : SUBSET Runs]
    \cup [pc : {"claim_attempts", "reread_attempt", "exhaust", "exhaust_attempts"},
          run : Runs, token : Tokens, now : SUBSET Deadline, rest : SUBSET Runs,
          number : Numbers]
    \cup [pc : {"finish_read", "finish_attempt", "finish_run"}, run : Runs,
          token : Tokens, outcome : Outcomes, number : Numbers]

\* Where a request still has its reading of the clock.
ClockReaders ==
  {"active", "sweep", "candidates", "sweep_attempts", "claim", "reread",
   "claim_attempts", "reread_attempt", "exhaust", "exhaust_attempts"}

Free(q) == tasks[q].pc \in {"idle", "granted"}

Goto(q, t) == tasks' = [tasks EXCEPT ![q] = t]

\* claim_run of r, with a new reading of the clock.
ClaimOf(r, t, rest) ==
  [pc |-> "claim", run |-> r, token |-> t, now |-> passed, rest |-> rest]

\* Move a claim on to pc, about attempt k.
ClaimAt(c, pc, k) ==
  [pc |-> pc, run |-> c.run, token |-> c.token, now |-> c.now, rest |-> c.rest, number |-> k]

Granted(c, k) == [pc |-> "granted", run |-> c.run, token |-> c.token, number |-> k]

\* claim_next_run turns to its oldest candidate, or answers that there is none.
TryNext(q, t, S) ==
  \/ S = {} /\ Goto(q, Idle)
  \/ \E r \in S : /\ \A s \in S : r <= s
                  /\ Goto(q, ClaimOf(r, t, S \ {r}))

\* The run rows that the transaction of request t has updated.
LocksOf(t) ==
  CASE t.pc \in {"claim_attempts", "exhaust_attempts"} -> {t.run}
    [] t.pc = "sweep_attempts" -> t.swept
    [] OTHER -> {}

RunsLocked(q) == LocksOf(tasks[q])

RunFree(r) == \A q \in Slots : r \notin RunsLocked(q)

\* No other transaction has updated attempt k of r.
AttemptFree(r, k) ==
  \A q \in Slots : tasks[q].pc = "finish_run" => tasks[q].run # r \/ tasks[q].number # k

\* UPDATE ... SET status = 'lease_expired' WHERE status = 'running' has to wait.
CanExpire(r, k) == attempts[r][k].status = "running" => AttemptFree(r, k)

AfterExpiry(a) == IF a.status = "running" THEN [a EXCEPT !.status = "lease_expired"] ELSE a
--------------------------------------------------------------------------------
(***************************************************************************)
(* enqueue_daily_service_health.                                           *)
(***************************************************************************)
\* The row is looked for; a duplicate delivery ends here.
Enqueue(q, r) ==
  /\ Free(q)
  /\ runs[r].status = "absent"
  /\ Goto(q, [pc |-> "enqueue_insert", run |-> r])
  /\ UNCHANGED <<runs, attempts, passed>>

\* Mutant: the insert replaces the row it meets.
UpsertRun(q) ==
  LET t == tasks[q]
  IN  /\ t.pc = "enqueue_insert"
      /\ runs' = [runs EXCEPT ![t.run] = [status |-> "queued", count |-> 0]]
      /\ Goto(q, Idle)
      /\ UNCHANGED <<attempts, passed>>

\* The insert: the unique key turns a second one into an IntegrityError.
InsertRun(q) ==
  LET t == tasks[q]
  IN  /\ t.pc = "enqueue_insert"
      /\ \/ /\ runs[t.run].status = "absent"
            /\ runs' = [runs EXCEPT ![t.run] = [status |-> "queued", count |-> 0]]
         \/ /\ runs[t.run].status # "absent"
            /\ UNCHANGED runs
      /\ Goto(q, Idle)
      /\ UNCHANGED <<attempts, passed>>
--------------------------------------------------------------------------------
(***************************************************************************)
(* claim_run.                                                              *)
(***************************************************************************)
Claim(q, r, t) ==
  /\ Free(q)
  /\ runs[r].status # "absent"
  /\ Goto(q, ClaimOf(r, t, {}))
  /\ UNCHANGED <<runs, attempts, passed>>

\* The atomic UPDATE of the run row.
ClaimRun(q) ==
  LET c == tasks[q]
  IN  /\ c.pc = "claim"
      /\ \/ /\ Claimable(c.run, c.now)
            /\ RunFree(c.run)
            /\ Goto(q, ClaimAt(c, "claim_attempts", runs[c.run].count + 1))
         \/ /\ ~Claimable(c.run, c.now)
            /\ Goto(q, [c EXCEPT !.pc = "reread"])
      /\ UNCHANGED <<runs, attempts, passed>>

\* Mutant: the attempt taken over from is left as it is.
ClaimAttemptsLeaving(q) ==
  LET c == tasks[q]
  IN  /\ c.pc = "claim_attempts"
      /\ runs' = [runs EXCEPT ![c.run] = [status |-> "running", count |-> c.number]]
      /\ attempts' = [attempts EXCEPT ![c.run][c.number] = Started(c.token)]
      /\ Goto(q, Granted(c, c.number))
      /\ UNCHANGED passed

\* The previous attempt expires, the new one is inserted, and the claim commits.
ClaimAttempts(q) ==
  LET c == tasks[q]
      k == c.number
      expired == IF k = 1 THEN attempts[c.run]
                 ELSE [attempts[c.run] EXCEPT ![k - 1] = AfterExpiry(@)]
  IN  /\ c.pc = "claim_attempts"
      /\ k > 1 => CanExpire(c.run, k - 1)
      /\ runs' = [runs EXCEPT ![c.run] = [status |-> "running", count |-> k]]
      /\ attempts' = [attempts EXCEPT ![c.run] = [expired EXCEPT ![k] = Started(c.token)]]
      /\ Goto(q, Granted(c, k))
      /\ UNCHANGED passed

\* Not claimed: the run is read again.  It may be this claim's own, answered
\* before and lost; or out of attempts.
Reread(q) ==
  LET c == tasks[q]
      row == runs[c.run]
      spent == row.status = "running" /\ row.count >= MaxAttempts
  IN  /\ c.pc = "reread"
      /\ \/ /\ Running(c.run) /\ ~Expired(c.run, c.now)
            /\ Goto(q, ClaimAt(c, "reread_attempt", row.count))
         \/ /\ ~(Running(c.run) /\ ~Expired(c.run, c.now))
            /\ spent
            /\ Goto(q, ClaimAt(c, "exhaust", row.count))
         \/ /\ ~(Running(c.run) /\ ~Expired(c.run, c.now))
            /\ ~spent
            /\ TryNext(q, c.token, c.rest)
      /\ UNCHANGED <<runs, attempts, passed>>

\* Mutant: the attempt's status is not part of the query.
RereadAnyAttempt(q) ==
  LET c == tasks[q]
  IN  /\ c.pc = "reread_attempt"
      /\ \/ /\ attempts[c.run][c.number].token = c.token
            /\ Goto(q, Granted(c, c.number))
         \/ /\ attempts[c.run][c.number].token # c.token
            /\ TryNext(q, c.token, c.rest)
      /\ UNCHANGED <<runs, attempts, passed>>

RereadAttempt(q) ==
  LET c == tasks[q]
      own == attempts[c.run][c.number] = Started(c.token)
  IN  /\ c.pc = "reread_attempt"
      /\ \/ /\ own
            /\ Goto(q, Granted(c, c.number))
         \/ /\ ~own /\ c.number >= MaxAttempts
            /\ Goto(q, [c EXCEPT !.pc = "exhaust"])
         \/ /\ ~own /\ c.number < MaxAttempts
            /\ TryNext(q, c.token, c.rest)
      /\ UNCHANGED <<runs, attempts, passed>>

\* Mutant: the lease is not part of the UPDATE's condition.
ExhaustAnyRun(q) ==
  LET c == tasks[q]
  IN  /\ c.pc = "exhaust"
      /\ \/ /\ Running(c.run)
            /\ RunFree(c.run)
            /\ Goto(q, [c EXCEPT !.pc = "exhaust_attempts"])
         \/ /\ ~Running(c.run)
            /\ TryNext(q, c.token, c.rest)
      /\ UNCHANGED <<runs, attempts, passed>>

\* UPDATE ... SET status = 'failed' of a run whose last lease has run out.
ExhaustRun(q) ==
  LET c == tasks[q]
  IN  /\ c.pc = "exhaust"
      /\ \/ /\ Expired(c.run, c.now)
            /\ RunFree(c.run)
            /\ Goto(q, [c EXCEPT !.pc = "exhaust_attempts"])
         \/ /\ ~Expired(c.run, c.now)
            /\ TryNext(q, c.token, c.rest)
      /\ UNCHANGED <<runs, attempts, passed>>

\* Its attempt expires, and both are committed.
ExhaustAttempts(q) ==
  LET c == tasks[q]
  IN  /\ c.pc = "exhaust_attempts"
      /\ CanExpire(c.run, c.number)
      /\ runs' = [runs EXCEPT ![c.run].status = "failed"]
      /\ attempts' = [attempts EXCEPT ![c.run][c.number] = AfterExpiry(@)]
      /\ TryNext(q, c.token, c.rest)
      /\ UNCHANGED passed
--------------------------------------------------------------------------------
(***************************************************************************)
(* claim_next_run.                                                         *)
(***************************************************************************)
ClaimNext(q, t) ==
  /\ Free(q)
  /\ Goto(q, [pc |-> "active", token |-> t, now |-> passed])
  /\ UNCHANGED <<runs, attempts, passed>>

\* A run this token holds is claimed again, as a lost answer's retry.
FindActive(q) ==
  LET c == tasks[q]
      active == {r \in Runs : /\ Running(r) /\ ~Expired(r, c.now)
                              /\ \E k \in Numbers : attempts[r][k] = Started(c.token)}
  IN  /\ c.pc = "active"
      /\ \/ /\ \E r \in active : Goto(q, ClaimOf(r, c.token, {}))
         \/ /\ active = {}
            /\ Goto(q, [c EXCEPT !.pc = "sweep"])
      /\ UNCHANGED <<runs, attempts, passed>>

\* Mutant: runs out of attempts are left to claim_run.
SweepNothing(q) ==
  /\ tasks[q].pc = "sweep"
  /\ Goto(q, [tasks[q] EXCEPT !.pc = "candidates"])
  /\ UNCHANGED <<runs, attempts, passed>>

\* One UPDATE fails every run whose last lease has run out.
SweepRuns(q) ==
  LET c == tasks[q]
      swept == {r \in Runs : Exhausted(r, c.now)}
  IN  /\ c.pc = "sweep"
      /\ \A r \in swept : RunFree(r)
      /\ Goto(q, [pc |-> "sweep_attempts", token |-> c.token, now |-> c.now, swept |-> swept])
      /\ UNCHANGED <<runs, attempts, passed>>

\* Their attempts expire, and the sweep is committed.
SweepAttempts(q) ==
  LET c == tasks[q]
  IN  /\ c.pc = "sweep_attempts"
      /\ \A r \in c.swept : CanExpire(r, runs[r].count)
      /\ runs' = [r \in Runs |-> IF r \in c.swept THEN [runs[r] EXCEPT !.status = "failed"]
                                 ELSE runs[r]]
      /\ attempts' = [r \in Runs |->
                        IF r \in c.swept
                        THEN [attempts[r] EXCEPT ![runs[r].count] = AfterExpiry(@)]
                        ELSE attempts[r]]
      /\ Goto(q, [pc |-> "candidates", token |-> c.token, now |-> c.now])
      /\ UNCHANGED passed

\* The due runs, oldest first; claim_run is called on each until one is claimed.
ListCandidates(q) ==
  LET c == tasks[q]
  IN  /\ c.pc = "candidates"
      /\ TryNext(q, c.token, {r \in Runs : Claimable(r, c.now)})
      /\ UNCHANGED <<runs, attempts, passed>>
--------------------------------------------------------------------------------
(***************************************************************************)
(* finish_run.                                                             *)
(***************************************************************************)
\* The run is read.  A runner reports on a run some attempt gave its token,
\* perhaps late and perhaps again.  Unless the run is running, what follows
\* answers a replay or a conflict and changes nothing.
Finish(q, r, t, outcome) ==
  /\ Free(q)
  /\ \E k \in Numbers : attempts[r][k].token = t
  /\ Running(r)
  /\ Goto(q, [pc |-> "finish_read", run |-> r, token |-> t, outcome |-> outcome,
              number |-> runs[r].count])
  /\ UNCHANGED <<runs, attempts, passed>>

\* The attempt that was current is read: is it this token's, and running?
ReadAttempt(q) ==
  LET f == tasks[q]
  IN  /\ f.pc = "finish_read"
      /\ Goto(q, IF attempts[f.run][f.number] = Started(f.token)
                 THEN [f EXCEPT !.pc = "finish_attempt"] ELSE Idle)
      /\ UNCHANGED <<runs, attempts, passed>>

\* The UPDATE of the attempt row.
FinishAttempt(q) ==
  LET f == tasks[q]
      matches == attempts[f.run][f.number] = Started(f.token)
  IN  /\ f.pc = "finish_attempt"
      /\ matches => AttemptFree(f.run, f.number)
      /\ Goto(q, IF matches THEN [f EXCEPT !.pc = "finish_run"] ELSE Idle)
      /\ UNCHANGED <<runs, attempts, passed>>

RunAfter(outcome, k) ==
  IF outcome = "succeeded" THEN "completed" ELSE IF k < MaxAttempts THEN "retry_wait" ELSE "failed"

AttemptAfter(outcome, k) ==
  IF outcome = "succeeded" THEN "succeeded"
  ELSE IF k < MaxAttempts THEN "retry_scheduled" ELSE "failed"

\* The UPDATE of the run row, and the commit; or the rollback of both updates.
FinishRun(q) ==
  LET f == tasks[q]
      matches == Running(f.run) /\ runs[f.run].count = f.number
  IN  /\ f.pc = "finish_run"
      /\ \/ /\ matches
            /\ RunFree(f.run)
            /\ runs' = [runs EXCEPT ![f.run].status = RunAfter(f.outcome, f.number)]
            /\ attempts' = [attempts EXCEPT ![f.run][f.number] =
                              [@ EXCEPT !.status = AttemptAfter(f.outcome, f.number),
                                        !.outcome = f.outcome]]
         \/ /\ ~matches
            /\ UNCHANGED <<runs, attempts>>
      /\ Goto(q, Idle)
      /\ UNCHANGED passed
--------------------------------------------------------------------------------
(***************************************************************************)
(* Time, failures and the database's deadlock detector.                    *)
(***************************************************************************)
Outstanding ==
  {Lease(r, runs[r].count) : r \in {x \in Runs : Running(x)}}
    \cup {Retry(r, runs[r].count) : r \in {x \in Runs : runs[x].status = "retry_wait"}}

Elapse(d) ==
  /\ d \in Outstanding \ passed
  /\ passed' = passed \cup {d}
  /\ UNCHANGED <<runs, attempts, tasks>>

\* The request dies, with its transaction: a crash, a lost connection.
Abort(q) ==
  /\ ~Free(q)
  /\ Goto(q, Idle)
  /\ UNCHANGED <<runs, attempts, passed>>

\* p has a run row and wants its attempt, q has the attempt and wants the run:
\* the claim locks the rows in one order and finish_run in the other.
Deadlocked(p, q) ==
  /\ tasks[q].pc = "finish_run"
  /\ tasks[q].run \in RunsLocked(p)
  /\ tasks[q].number = runs[tasks[q].run].count

\* The database picks the victim.
Victim(q) ==
  /\ \E p \in Slots : Deadlocked(p, q) \/ Deadlocked(q, p)
  /\ Abort(q)
--------------------------------------------------------------------------------
Init ==
  /\ runs = [r \in Runs |-> [status |-> "absent", count |-> 0]]
  /\ attempts = [r \in Runs |-> [k \in Numbers |-> NoAttempt]]
  /\ passed = {}
  /\ tasks = [q \in Slots |-> Idle]

\* What scripts/run_staging_scheduled_health.py requests; the API also takes
\* a claim of a given run.
Script(q) ==
  \/ \E r \in Runs : Enqueue(q, r)
  \/ \E t \in Tokens : ClaimNext(q, t)
  \/ \E r \in Runs, t \in Tokens, outcome \in Outcomes : Finish(q, r, t, outcome)

Arrive(q) == Script(q) \/ \E r \in Runs, t \in Tokens : Claim(q, r, t)

Statement(q) ==
  \/ InsertRun(q)
  \/ ClaimRun(q)
  \/ ClaimAttempts(q)
  \/ Reread(q)
  \/ RereadAttempt(q)
  \/ ExhaustRun(q)
  \/ ExhaustAttempts(q)
  \/ FindActive(q)
  \/ SweepRuns(q)
  \/ SweepAttempts(q)
  \/ ListCandidates(q)
  \/ ReadAttempt(q)
  \/ FinishAttempt(q)
  \/ FinishRun(q)

Next ==
  \/ \E q \in Slots : Arrive(q) \/ Statement(q) \/ Abort(q)
  \/ \E d \in Deadline : Elapse(d)

Spec == Init /\ [][Next]_vars

\* The same with the script as the only client.
ScriptNext ==
  \/ \E q \in Slots : Script(q) \/ Statement(q)
  \/ \E d \in Deadline : Elapse(d)

ScriptSpec == Init /\ [][ScriptNext]_vars
--------------------------------------------------------------------------------
(***************************************************************************)
(* Properties.                                                             *)
(***************************************************************************)
TypeOK ==
  /\ runs \in [Runs -> Run]
  /\ attempts \in [Runs -> [Numbers -> Attempt \cup {NoAttempt}]]
  /\ passed \subseteq Deadline
  /\ tasks \in [Slots -> Task]

\* An attempt exists for each number up to the count, only the current one can
\* be running, and its status is the one the run's status calls for.
RowAgrees(r) ==
  LET k == runs[r].count
  IN  /\ \A i \in Numbers : (attempts[r][i] # NoAttempt) <=> i <= k
      /\ \A i \in Numbers : i < k => attempts[r][i].status \in {"lease_expired", "retry_scheduled"}
      /\ k = 0 <=> runs[r].status \in {"absent", "queued"}
      /\ k > 0 =>
           \/ runs[r].status = "running"    /\ attempts[r][k].status = "running"
           \/ runs[r].status = "retry_wait" /\ attempts[r][k].status = "retry_scheduled"
           \/ runs[r].status = "completed"  /\ attempts[r][k].status = "succeeded"
           \/ /\ runs[r].status = "failed"
              /\ attempts[r][k].status \in {"failed", "lease_expired"}
              /\ k = MaxAttempts

\* The two tables tell one story after every commit, whichever requests raced.
RowsAgree == \A r \in Runs : RowAgrees(r)

\* The attempts are an append-only history (app/db/models.py, ScheduledJobAttempt):
\* one that has ended never changes, and none changes hands.
HistoryIsAppendOnly ==
  [][\A r \in Runs, k \in Numbers :
       /\ attempts[r][k] # NoAttempt => attempts'[r][k].token = attempts[r][k].token
       /\ attempts[r][k].status \notin {"none", "running"} =>
            attempts'[r][k] = attempts[r][k]]_vars

\* An answer "claimed" is true when the request gives it: the token holds the
\* run, by the attempt the answer names.
AnswerIsTrue ==
  [][\A q \in Slots :
       LET g == tasks'[q]
       IN  g.pc = "granted" /\ g # tasks[q] =>
             /\ runs'[g.run] = [status |-> "running", count |-> g.number]
             /\ attempts'[g.run][g.number] = Started(g.token)]_vars

\* What a suspended request t relies on still holds when it goes on: the reading
\* of the clock is in the past, a row it has locked is as its UPDATE found it,
\* and an attempt it read is at most the current one.
Fits(t) ==
  /\ t.pc \in ClockReaders => t.now \subseteq passed
  /\ t.pc = "claim_attempts" => Claimable(t.run, t.now) /\ t.number = runs[t.run].count + 1
  /\ t.pc \in {"reread_attempt", "exhaust"} => t.number <= runs[t.run].count
  /\ t.pc = "exhaust" => t.number = MaxAttempts
  /\ t.pc = "exhaust_attempts" => Exhausted(t.run, t.now) /\ t.number = runs[t.run].count
  /\ t.pc = "sweep_attempts" => \A r \in t.swept : Exhausted(r, t.now)
  /\ t.pc = "finish_run" => attempts[t.run][t.number] = Started(t.token)

\* No two transactions have updated the same row.
LocksExclude ==
  \A p, q \in Slots : p # q =>
    /\ RunsLocked(p) \cap RunsLocked(q) = {}
    /\ tasks[p].pc = "finish_run" /\ tasks[q].pc = "finish_run" =>
         tasks[p].run # tasks[q].run \/ tasks[p].number # tasks[q].number

\* A deadline in the past was set by an attempt that has been made.
PassedWereSet == \A d \in passed : d.number <= runs[d.run].count

\* The inductive invariant: the tables agree because of what every request in
\* flight may rely on, and it may rely on it because the locks exclude.
LedgerInv ==
  /\ TypeOK
  /\ RowsAgree
  /\ \A q \in Slots : Fits(tasks[q])
  /\ LocksExclude
  /\ PassedWereSet

\* A retry of claim-next after a lost answer gets the same live claim
\* (tests/test_scheduled_job_runs.py), so a token never holds two runs.
TokenHoldsOneRun ==
  \A t \in Tokens, r, s \in Runs : Held(r, t) /\ Held(s, t) => r = s

\* Each run is a job of module LeasedJob, its owner the token of the attempt
\* that is running.
JobOf(r) ==
  [owner   |-> IF Running(r) THEN attempts[r][runs[r].count].token ELSE None,
   overdue |-> Expired(r, passed),
   tries   |-> runs[r].count,
   outcome |-> CASE runs[r].status = "completed" -> "done"
                 [] runs[r].status = "failed"    -> "failed"
                 [] OTHER                        -> "open"]

Ledger == INSTANCE LeasedJob
            WITH Jobs <- Runs, Owners <- Tokens, Budget <- MaxAttempts,
                 job <- [r \in Runs |-> JobOf(r)]

ImplementsLeasedJob == Ledger!Spec

(***************************************************************************)
(* Fairness: no request dies except as a deadlock's victim; a request that *)
(* can go on does, also when others keep taking the row it waits for (the  *)
(* database queues the waiters); time passes; the scheduled workflow polls *)
(* claim-next again and again; and a runner, which need not report,        *)
(* reports finitely often (it retries a bounded number of times).          *)
(***************************************************************************)
HealthyNext ==
  \/ \E q \in Slots : Arrive(q) \/ Statement(q) \/ Victim(q)
  \/ \E d \in Deadline : Elapse(d)

Poll == \E q \in Slots, t \in Tokens : ClaimNext(q, t)

Reports ==
  \E q \in Slots, r \in Runs, t \in Tokens, outcome \in Outcomes : Finish(q, r, t, outcome)

HealthySpec ==
  /\ Init /\ [][HealthyNext]_vars
  /\ \A q \in Slots : SF_vars(Statement(q)) /\ WF_vars(Victim(q))
  /\ \A d \in Deadline : WF_vars(Elapse(d))
  /\ SF_vars(Poll)
  /\ <>[][~Reports]_vars

\* A run once enqueued is completed or failed in the end, even if no runner
\* ever reports: leases run out, are taken over, and the last one is swept.
RunEnds ==
  \A r \in Runs : runs[r].status # "absent" ~> runs[r].status \in {"completed", "failed"}
================================================================================
