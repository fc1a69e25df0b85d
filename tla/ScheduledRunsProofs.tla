-------------------------- MODULE ScheduledRunsProofs --------------------------
(***************************************************************************)
(* Theorems about ScheduledRuns, for every set of runs, tokens and         *)
(* requests in flight, and every number of attempts.                       *)
(***************************************************************************)
EXTENDS ScheduledRuns, TLAPS

--------------------------------------------------------------------------------
(***************************************************************************)
(* Requests in flight, and the rows they may find.                         *)
(***************************************************************************)
\* What the record of a suspended request holds, by the statement it is at.
LEMMA TaskFields ==
  ASSUME NEW t \in Task
  PROVE  /\ t.pc \in {"active", "sweep", "candidates"} =>
              t.token \in Tokens /\ t.now \in SUBSET Deadline
         /\ t.pc = "sweep_attempts" =>
              t.token \in Tokens /\ t.now \in SUBSET Deadline /\ t.swept \in SUBSET Runs
         /\ t.pc \in {"claim", "reread"} =>
              /\ t.run \in Runs /\ t.token \in Tokens
              /\ t.now \in SUBSET Deadline /\ t.rest \in SUBSET Runs
         /\ t.pc \in {"claim_attempts", "reread_attempt", "exhaust", "exhaust_attempts"} =>
              /\ t.run \in Runs /\ t.token \in Tokens /\ t.number \in Numbers
              /\ t.now \in SUBSET Deadline /\ t.rest \in SUBSET Runs
         /\ t.pc \in {"finish_read", "finish_attempt", "finish_run"} =>
              /\ t.run \in Runs /\ t.token \in Tokens /\ t.number \in Numbers
              /\ t.outcome \in Outcomes
         /\ t.pc = "enqueue_insert" => t.run \in Runs
  BY DEF Task, Idle

\* A request that goes on to its next statement keeps the rest of its record.
LEMMA TaskMoves ==
  ASSUME NEW t \in Task
  PROVE  /\ t.pc = "active" =>
              LET x == [t EXCEPT !.pc = "sweep"]
              IN  x \in Task /\ x.pc = "sweep" /\ x.now = t.now
         /\ t.pc = "claim" =>
              LET x == [t EXCEPT !.pc = "reread"]
              IN  x \in Task /\ x.pc = "reread" /\ x.now = t.now
         /\ t.pc \in {"reread_attempt", "exhaust"} =>
              \A pc \in {"exhaust", "exhaust_attempts"} :
                LET x == [t EXCEPT !.pc = pc]
                IN  /\ x \in Task
                    /\ x.pc = pc /\ x.now = t.now
                    /\ x.run = t.run /\ x.number = t.number
         /\ t.pc \in {"finish_read", "finish_attempt"} =>
              \A pc \in {"finish_attempt", "finish_run"} :
                LET x == [t EXCEPT !.pc = pc]
                IN  /\ x \in Task
                    /\ x.pc = pc /\ x.run = t.run
                    /\ x.number = t.number /\ x.token = t.token
<1>1. CASE t.pc = "active"
  <2>1. t \in [pc : {"active", "sweep", "candidates"}, token : Tokens, now : SUBSET Deadline]
    BY <1>1 DEF Task, Idle
  <2>2. QED
    BY <1>1, <2>1 DEF Task
<1>2. CASE t.pc = "claim"
  <2>1. t \in [pc : {"claim", "reread"}, run : Runs, token : Tokens,
               now : SUBSET Deadline, rest : SUBSET Runs]
    BY <1>2 DEF Task, Idle
  <2>2. QED
    BY <1>2, <2>1 DEF Task
<1>3. CASE t.pc \in {"reread_attempt", "exhaust"}
  <2>1. t \in [pc : {"claim_attempts", "reread_attempt", "exhaust", "exhaust_attempts"},
               run : Runs, token : Tokens, now : SUBSET Deadline, rest : SUBSET Runs,
               number : Numbers]
    BY <1>3 DEF Task, Idle
  <2>2. QED
    BY <1>3, <2>1 DEF Task
<1>4. CASE t.pc \in {"finish_read", "finish_attempt"}
  <2>1. t \in [pc : {"finish_read", "finish_attempt", "finish_run"}, run : Runs,
               token : Tokens, outcome : Outcomes, number : Numbers]
    BY <1>4 DEF Task, Idle
  <2>2. QED
    BY <1>4, <2>1 DEF Task
<1>5. QED
  BY <1>1, <1>2, <1>3, <1>4

\* Every record a statement leaves behind is a task.
LEMMA TaskForms ==
  ASSUME NEW r \in Runs, NEW t \in Tokens, NEW k \in Numbers,
         NEW now \in SUBSET Deadline, NEW S \in SUBSET Runs, NEW outcome \in Outcomes
  PROVE  /\ Idle \in Task
         /\ [pc |-> "granted", run |-> r, token |-> t, number |-> k] \in Task
         /\ [pc |-> "enqueue_insert", run |-> r] \in Task
         /\ \A pc \in {"active", "sweep", "candidates"} :
              [pc |-> pc, token |-> t, now |-> now] \in Task
         /\ [pc |-> "sweep_attempts", token |-> t, now |-> now, swept |-> S] \in Task
         /\ [pc |-> "claim", run |-> r, token |-> t, now |-> now, rest |-> S] \in Task
         /\ \A pc \in {"claim_attempts", "reread_attempt", "exhaust", "exhaust_attempts"} :
              [pc |-> pc, run |-> r, token |-> t, now |-> now, rest |-> S,
               number |-> k] \in Task
         /\ [pc |-> "finish_read", run |-> r, token |-> t, outcome |-> outcome,
             number |-> k] \in Task
  BY DEF Task

LEMMA GotoTask ==
  ASSUME TypeOK, NEW q \in Slots, NEW x, Goto(q, x)
  PROVE  /\ x \in Task => tasks' \in [Slots -> Task]
         /\ tasks'[q] = x
         /\ \A p \in Slots \ {q} : tasks'[p] = tasks[p]
  BY DEF TypeOK, Goto

\* The rows a request may find.
LEMMA RowFields ==
  ASSUME TypeOK, NEW r \in Runs
  PROVE  /\ runs[r] \in Run
         /\ runs[r].count \in 0..MaxAttempts
         /\ runs[r].status \in RunStatus
         /\ runs[r] = [status |-> runs[r].status, count |-> runs[r].count]
         /\ \A k \in Numbers : attempts[r][k] \in Attempt \cup {NoAttempt}
  BY DEF TypeOK, Run

LEMMA CountBounds ==
  ASSUME NEW k \in 0..MaxAttempts
  PROVE  /\ k \in Nat
         /\ k > 0 => k \in Numbers
         /\ k < MaxAttempts => k + 1 \in Numbers
         /\ k >= MaxAttempts => k = MaxAttempts /\ k \in Numbers
  BY MaxAttemptsAssumption DEF Numbers

LEMMA NumberBounds ==
  ASSUME NEW k \in Numbers
  PROVE  /\ k \in Nat /\ k >= 1 /\ k <= MaxAttempts /\ k - 1 \in Nat
         /\ k > 1 => k - 1 \in Numbers
         /\ k \in 0..MaxAttempts
  BY MaxAttemptsAssumption DEF Numbers

LEMMA AttemptForms ==
  ASSUME NEW t \in Tokens
  PROVE  /\ Started(t) \in Attempt
         /\ Started(t).token = t
         /\ Started(t).status = "running"
         /\ Started(t) # NoAttempt
         /\ \A a \in Attempt : a # NoAttempt
         /\ \A a \in Attempt :
              /\ AfterExpiry(a) \in Attempt
              /\ AfterExpiry(a).status # "running"
              /\ AfterExpiry(a).token = a.token
              /\ a.status = "running" => AfterExpiry(a).status = "lease_expired"
              /\ a.status # "running" => AfterExpiry(a) = a
  BY DEF Started, Attempt, NoAttempt, AfterExpiry

\* A running attempt is the current one of a running run.
LEMMA RunningAttempt ==
  ASSUME TypeOK, RowsAgree, NEW r \in Runs, NEW k \in Numbers,
         attempts[r][k].status = "running"
  PROVE  k = runs[r].count /\ Running(r)
<1>1. runs[r].count \in Nat /\ k \in Nat /\ k >= 1
  BY RowFields, CountBounds, NumberBounds
<1>2. RowAgrees(r)
  BY DEF RowsAgree
<1>3. k <= runs[r].count
  BY <1>2 DEF RowAgrees, NoAttempt
<1>4. ~(k < runs[r].count)
  BY <1>2 DEF RowAgrees
<1>5. k = runs[r].count
  BY <1>1, <1>3, <1>4
<1>6. QED
  BY <1>1, <1>2, <1>5 DEF RowAgrees, Running

\* A run that is running has a running attempt, its last.
LEMMA RunningRun ==
  ASSUME TypeOK, RowsAgree, NEW r \in Runs, Running(r)
  PROVE  /\ runs[r].count \in Numbers
         /\ attempts[r][runs[r].count] \in Attempt
         /\ attempts[r][runs[r].count].status = "running"
<1>1. runs[r].count \in 0..MaxAttempts /\ runs[r].count \in Nat
  BY RowFields, CountBounds
<1>2. RowAgrees(r)
  BY DEF RowsAgree
<1>3. runs[r].count > 0
  BY <1>1, <1>2 DEF RowAgrees, Running
<1>4. runs[r].count \in Numbers
  BY <1>1, <1>3, CountBounds
<1>5. attempts[r][runs[r].count].status = "running"
  BY <1>2, <1>3 DEF RowAgrees, Running
<1>6. attempts[r][runs[r].count] # NoAttempt
  BY <1>5 DEF NoAttempt
<1>7. attempts[r][runs[r].count] \in Attempt \cup {NoAttempt}
  BY <1>4, RowFields
<1>8. QED
  BY <1>4, <1>5, <1>6, <1>7
--------------------------------------------------------------------------------
(***************************************************************************)
(* Steps that commit nothing.                                              *)
(***************************************************************************)
\* A request that has no row locked and has read no row relies on nothing.
Loose(t) ==
  /\ t \in Task
  /\ t.pc \in {"idle", "granted", "enqueue_insert", "active", "sweep", "candidates", "claim",
               "reread", "finish_read", "finish_attempt"}
  /\ t.pc \in ClockReaders => t.now \subseteq passed

LEMMA LooseFits ==
  ASSUME NEW t, Loose(t)
  PROVE  Fits(t) /\ LocksOf(t) = {} /\ t.pc # "finish_run"
  BY DEF Loose, Fits, LocksOf

\* What one request relies on is not disturbed by another that only moves on, as
\* long as that one relies on what is the case and locks nothing that is locked.
LEMMA QuietStep ==
  ASSUME LedgerInv, NEW q \in Slots, NEW x \in Task, Goto(q, x),
         UNCHANGED <<runs, attempts, passed>>,
         Fits(x),
         \A p \in Slots : RunsLocked(p) \cap LocksOf(x) = {},
         x.pc = "finish_run" =>
           \A p \in Slots : tasks[p].pc = "finish_run" =>
             tasks[p].run # x.run \/ tasks[p].number # x.number
  PROVE  LedgerInv'
<1>1. /\ tasks' \in [Slots -> Task]
      /\ tasks'[q] = x
      /\ \A p \in Slots \ {q} : tasks'[p] = tasks[p]
  BY GotoTask DEF LedgerInv
<1>2. TypeOK'
  BY <1>1 DEF LedgerInv, TypeOK
<1>3. RowsAgree'
  BY DEF LedgerInv, RowsAgree, RowAgrees
<1>4. ASSUME NEW p \in Slots PROVE Fits(tasks[p])'
  <2>1. \A t : Fits(t) => Fits(t)'
    BY DEF Fits, Claimable, Exhausted, Due, Expired, Running
  <2>2. Fits(tasks'[p]) => Fits(tasks[p])'
    BY DEF Fits, Claimable, Exhausted, Due, Expired, Running
  <2>3. CASE p = q
    BY <1>1, <2>2, <2>3
  <2>4. CASE p # q
    BY <1>1, <2>2, <2>4 DEF LedgerInv
  <2>5. QED
    BY <2>3, <2>4
<1>5. LocksExclude'
  <2>1. \A p \in Slots \ {q} : RunsLocked(p)' = RunsLocked(p)
    BY <1>1 DEF RunsLocked, LocksOf
  <2>2. RunsLocked(q)' = LocksOf(x)
    BY <1>1 DEF RunsLocked, LocksOf
  <2>3. SUFFICES ASSUME NEW p \in Slots, NEW s \in Slots, p # s
                 PROVE  /\ RunsLocked(p)' \cap RunsLocked(s)' = {}
                        /\ tasks'[p].pc = "finish_run" /\ tasks'[s].pc = "finish_run" =>
                             tasks'[p].run # tasks'[s].run \/ tasks'[p].number # tasks'[s].number
    BY DEF LocksExclude
  <2>4. CASE p = q
    BY <1>1, <2>1, <2>2, <2>3, <2>4
  <2>5. CASE s = q
    BY <1>1, <2>1, <2>2, <2>3, <2>5
  <2>6. CASE p # q /\ s # q
    BY <1>1, <2>1, <2>3, <2>6 DEF LedgerInv, LocksExclude
  <2>7. QED
    BY <2>4, <2>5, <2>6
<1>6. PassedWereSet'
  BY DEF LedgerInv, PassedWereSet
<1>7. QED
  BY <1>2, <1>3, <1>4, <1>5, <1>6 DEF LedgerInv

LEMMA LooseStep ==
  ASSUME LedgerInv, NEW q \in Slots, NEW x, Loose(x), Goto(q, x),
         UNCHANGED <<runs, attempts, passed>>
  PROVE  LedgerInv'
<1>1. Fits(x) /\ LocksOf(x) = {} /\ x.pc # "finish_run"
  BY LooseFits
<1>2. x \in Task
  BY DEF Loose
<1>3. QED
  BY <1>1, <1>2, QuietStep

\* claim_run begins with nothing to rely on; so does the next candidate.
LEMMA ClaimOfLoose ==
  ASSUME TypeOK, NEW r \in Runs, NEW t \in Tokens, NEW S \in SUBSET Runs
  PROVE  Loose(ClaimOf(r, t, S))
  BY DEF ClaimOf, Loose, TypeOK, Task

LEMMA TryNextLoose ==
  ASSUME TypeOK, NEW q \in Slots, NEW t \in Tokens, NEW S \in SUBSET Runs, TryNext(q, t, S)
  PROVE  \E x : Loose(x) /\ Goto(q, x)
<1>1. CASE S = {} /\ Goto(q, Idle)
  BY <1>1 DEF Idle, Loose, Task, ClockReaders
<1>2. CASE \E r \in S : Goto(q, ClaimOf(r, t, S \ {r}))
  BY <1>2, ClaimOfLoose
<1>3. QED
  BY <1>1, <1>2 DEF TryNext

\* The statements of a request that lock nothing new.
LEMMA LooseStatements ==
  ASSUME LedgerInv, NEW q \in Slots,
         \/ \E r \in Runs : Enqueue(q, r)
         \/ \E r \in Runs, t \in Tokens : Claim(q, r, t)
         \/ \E t \in Tokens : ClaimNext(q, t)
         \/ \E r \in Runs, t \in Tokens, outcome \in Outcomes : Finish(q, r, t, outcome)
         \/ FindActive(q)
         \/ ListCandidates(q)
         \/ ReadAttempt(q)
         \/ Abort(q)
  PROVE  LedgerInv'
<1> DEFINE c == tasks[q]
<1>0. c \in Task /\ TypeOK /\ passed \in SUBSET Deadline /\ Loose(Idle)
  BY DEF LedgerInv, TypeOK, Loose, Task, Idle, ClockReaders
<1>f. c.pc \in ClockReaders => c.now \subseteq passed
  BY DEF LedgerInv, Fits
<1>1. ASSUME NEW r \in Runs, Enqueue(q, r) PROVE LedgerInv'
  <2>1. Loose([pc |-> "enqueue_insert", run |-> r])
    BY DEF Loose, Task, ClockReaders
  <2>2. QED
    BY <1>1, <2>1, LooseStep DEF Enqueue
<1>2. ASSUME NEW r \in Runs, NEW t \in Tokens, Claim(q, r, t) PROVE LedgerInv'
  BY <1>0, <1>2, ClaimOfLoose, LooseStep DEF Claim
<1>3. ASSUME NEW t \in Tokens, ClaimNext(q, t) PROVE LedgerInv'
  <2>1. Loose([pc |-> "active", token |-> t, now |-> passed])
    BY <1>0 DEF Loose, Task
  <2>2. QED
    BY <1>3, <2>1, LooseStep DEF ClaimNext
<1>4. ASSUME NEW r \in Runs, NEW t \in Tokens, NEW outcome \in Outcomes,
             Finish(q, r, t, outcome)
      PROVE  LedgerInv'
  <2> DEFINE x == [pc |-> "finish_read", run |-> r, token |-> t, outcome |-> outcome,
                   number |-> runs[r].count]
  <2>1. runs[r].count \in Numbers
    BY <1>0, <1>4, RunningRun DEF LedgerInv, Finish
  <2>2. x \in Task
    BY <2>1 DEF Task
  <2>3. x.pc = "finish_read"
    OBVIOUS
  <2>4. Loose(x)
    BY <2>2, <2>3 DEF Loose, ClockReaders
  <2>5. QED
    BY <1>4, <2>4, LooseStep DEF Finish
<1>5. CASE FindActive(q)
  <2>1. c.token \in Tokens /\ c.now \subseteq passed
    BY <1>0, <1>5, <1>f, TaskFields DEF FindActive, ClockReaders
  <2>2. CASE \E r \in Runs : Goto(q, ClaimOf(r, c.token, {}))
    BY <1>0, <1>5, <2>1, <2>2, ClaimOfLoose, LooseStep DEF FindActive
  <2>3. CASE Goto(q, [c EXCEPT !.pc = "sweep"])
    <3>1. Loose([c EXCEPT !.pc = "sweep"])
      BY <1>0, <1>5, <2>1, TaskMoves DEF FindActive, Loose
    <3>2. QED
      BY <1>5, <2>3, <3>1, LooseStep DEF FindActive
  <2>4. QED
    BY <1>5, <2>2, <2>3 DEF FindActive
<1>6. CASE ListCandidates(q)
  <2> DEFINE S == {r \in Runs : Claimable(r, c.now)}
  <2>1. c.token \in Tokens /\ S \in SUBSET Runs
    BY <1>0, <1>6, TaskFields DEF ListCandidates
  <2>2. TryNext(q, c.token, S)
    BY <1>6 DEF ListCandidates
  <2>3. PICK x : Loose(x) /\ Goto(q, x)
    BY <1>0, <2>1, <2>2, TryNextLoose
  <2>4. QED
    BY <1>6, <2>3, LooseStep DEF ListCandidates
<1>7. CASE ReadAttempt(q)
  <2>1. CASE Goto(q, [c EXCEPT !.pc = "finish_attempt"])
    <3> DEFINE x == [c EXCEPT !.pc = "finish_attempt"]
    <3>1. x \in Task /\ x.pc = "finish_attempt"
      BY <1>0, <1>7, TaskMoves DEF ReadAttempt
    <3>2. Loose(x)
      BY <3>1 DEF Loose, ClockReaders
    <3>3. QED
      BY <1>7, <2>1, <3>2, LooseStep DEF ReadAttempt
  <2>2. CASE Goto(q, Idle)
    BY <1>0, <1>7, <2>2, LooseStep DEF ReadAttempt
  <2>3. QED
    BY <1>7, <2>1, <2>2 DEF ReadAttempt
<1>8. CASE Abort(q)
  BY <1>0, <1>8, LooseStep DEF Abort
<1>9. QED
  BY <1>1, <1>2, <1>3, <1>4, <1>5, <1>6, <1>7, <1>8

\* A request that only reads a row relies on no more than that counts grow.
LEMMA ReadingStep ==
  ASSUME LedgerInv, NEW q \in Slots, NEW x \in Task, Goto(q, x),
         UNCHANGED <<runs, attempts, passed>>,
         x.pc \in {"reread_attempt", "exhaust"},
         x.now \subseteq passed,
         x.number <= runs[x.run].count,
         x.pc = "exhaust" => x.number = MaxAttempts
  PROVE  LedgerInv'
<1>1. Fits(x)
  BY DEF Fits
<1>2. LocksOf(x) = {} /\ x.pc # "finish_run"
  BY DEF LocksOf
<1>3. QED
  BY <1>1, <1>2, QuietStep

LEMMA RereadStep ==
  ASSUME LedgerInv, NEW q \in Slots, Reread(q)
  PROVE  LedgerInv'
<1> DEFINE c == tasks[q]
           r == c.run
           k == runs[r].count
<1>1. c \in Task /\ TypeOK /\ c.pc = "reread"
  BY DEF LedgerInv, TypeOK, Reread
<1>2. /\ r \in Runs /\ c.token \in Tokens /\ c.now \in SUBSET Deadline /\ c.rest \in SUBSET Runs
      /\ c.now \subseteq passed
  BY <1>1, TaskFields DEF LedgerInv, Fits, ClockReaders
<1>3. k \in 0..MaxAttempts
  BY <1>1, <1>2, RowFields
<1>4. ASSUME NEW pc \in {"reread_attempt", "exhaust"}, Running(r),
             Goto(q, ClaimAt(c, pc, k)), pc = "exhaust" => k >= MaxAttempts
      PROVE  LedgerInv'
  <2>1. k \in Numbers
    BY <1>1, <1>2, <1>4, RunningRun DEF LedgerInv
  <2>2. ClaimAt(c, pc, k) \in Task
    BY <1>2, <2>1 DEF ClaimAt, Task
  <2>3. /\ ClaimAt(c, pc, k).pc = pc /\ ClaimAt(c, pc, k).run = r
        /\ ClaimAt(c, pc, k).number = k /\ ClaimAt(c, pc, k).now = c.now
    BY DEF ClaimAt
  <2>4. k <= k /\ (pc = "exhaust" => k = MaxAttempts)
    BY <1>3, <1>4, CountBounds
  <2>5. UNCHANGED <<runs, attempts, passed>>
    BY DEF Reread
  <2>6. QED
    BY <1>2, <1>4, <2>2, <2>3, <2>4, <2>5, ReadingStep
<1>5. CASE TryNext(q, c.token, c.rest)
  <2>1. PICK x : Loose(x) /\ Goto(q, x)
    BY <1>1, <1>2, <1>5, TryNextLoose
  <2>2. QED
    BY <2>1, LooseStep DEF Reread
<1>6. QED
  BY <1>4, <1>5 DEF Reread, Running

LEMMA RereadAttemptStep ==
  ASSUME LedgerInv, NEW q \in Slots, RereadAttempt(q)
  PROVE  LedgerInv'
<1> DEFINE c == tasks[q]
           own == attempts[c.run][c.number] = Started(c.token)
<1>1. c \in Task /\ TypeOK /\ c.pc = "reread_attempt"
  BY DEF LedgerInv, TypeOK, RereadAttempt
<1>2. /\ c.run \in Runs /\ c.token \in Tokens /\ c.number \in Numbers
      /\ c.rest \in SUBSET Runs /\ c.now \subseteq passed
      /\ c.number <= runs[c.run].count
  BY <1>1, TaskFields DEF LedgerInv, Fits, ClockReaders
<1>3. CASE Goto(q, Granted(c, c.number))
  <2>1. Granted(c, c.number) \in Task /\ Granted(c, c.number).pc = "granted"
    BY <1>2 DEF Granted, Task
  <2>2. Loose(Granted(c, c.number))
    BY <2>1 DEF Loose, ClockReaders
  <2>3. QED
    BY <1>3, <2>2, LooseStep DEF RereadAttempt
<1>4. CASE c.number >= MaxAttempts /\ Goto(q, [c EXCEPT !.pc = "exhaust"])
  <2> DEFINE x == [c EXCEPT !.pc = "exhaust"]
  <2>1. x \in Task /\ x.pc = "exhaust" /\ x.now = c.now /\ x.run = c.run /\ x.number = c.number
    BY <1>1, TaskMoves
  <2>2. c.number = MaxAttempts
    <3>1. c.number \in 0..MaxAttempts
      BY <1>2, NumberBounds
    <3>2. QED
      BY <1>4, <3>1, CountBounds
  <2>3. UNCHANGED <<runs, attempts, passed>>
    BY DEF RereadAttempt
  <2> HIDE DEF x
  <2>4. Goto(q, x)
    BY <1>4 DEF x
  <2>5. QED
    BY <1>2, <2>1, <2>2, <2>3, <2>4, ReadingStep
<1>5. CASE TryNext(q, c.token, c.rest)
  <2>1. PICK x : Loose(x) /\ Goto(q, x)
    BY <1>1, <1>2, <1>5, TryNextLoose
  <2>2. QED
    BY <2>1, LooseStep DEF RereadAttempt
<1>6. QED
  BY <1>3, <1>4, <1>5 DEF RereadAttempt
--------------------------------------------------------------------------------
(***************************************************************************)
(* Statements that lock a row.                                             *)
(***************************************************************************)
LEMMA ClaimRunStep ==
  ASSUME LedgerInv, NEW q \in Slots, ClaimRun(q)
  PROVE  LedgerInv'
<1> DEFINE c == tasks[q]
           k == runs[c.run].count
<1>1. c \in Task /\ TypeOK /\ c.pc = "claim"
  BY DEF LedgerInv, TypeOK, ClaimRun
<1>2. /\ c.run \in Runs /\ c.token \in Tokens /\ c.rest \in SUBSET Runs
      /\ c.now \in SUBSET Deadline /\ c.now \subseteq passed
  BY <1>1, TaskFields DEF LedgerInv, Fits, ClockReaders
<1>3. CASE /\ Claimable(c.run, c.now)
           /\ RunFree(c.run)
           /\ Goto(q, ClaimAt(c, "claim_attempts", k + 1))
  <2> DEFINE x == ClaimAt(c, "claim_attempts", k + 1)
  <2>1. k + 1 \in Numbers
    <3>1. k \in 0..MaxAttempts
      BY <1>1, <1>2, RowFields
    <3>2. k < MaxAttempts
      BY <1>3 DEF Claimable
    <3>3. QED
      BY <3>1, <3>2, CountBounds
  <2>2. x \in Task
    BY <1>2, <2>1 DEF ClaimAt, Task
  <2>3. x.pc = "claim_attempts" /\ x.run = c.run /\ x.now = c.now /\ x.number = k + 1
    BY DEF ClaimAt
  <2>4. Goto(q, x) /\ UNCHANGED <<runs, attempts, passed>>
    BY <1>3 DEF ClaimRun
  <2> HIDE DEF x
  <2>5. Fits(x)
    BY <1>2, <1>3, <2>3 DEF Fits
  <2>6. \A p \in Slots : RunsLocked(p) \cap LocksOf(x) = {}
    BY <1>3, <2>3 DEF RunFree, LocksOf
  <2>7. x.pc # "finish_run"
    BY <2>3
  <2>8. QED
    BY <2>2, <2>4, <2>5, <2>6, <2>7, QuietStep
<1>4. CASE Goto(q, [c EXCEPT !.pc = "reread"])
  <2>1. Loose([c EXCEPT !.pc = "reread"])
    BY <1>1, <1>2, TaskMoves DEF Loose
  <2>2. QED
    BY <1>4, <2>1, LooseStep DEF ClaimRun
<1>5. QED
  BY <1>3, <1>4 DEF ClaimRun

LEMMA ExhaustRunStep ==
  ASSUME LedgerInv, NEW q \in Slots, ExhaustRun(q)
  PROVE  LedgerInv'
<1> DEFINE c == tasks[q]
           k == runs[c.run].count
<1>1. c \in Task /\ TypeOK /\ c.pc = "exhaust"
  BY DEF LedgerInv, TypeOK, ExhaustRun
<1>2. /\ c.run \in Runs /\ c.token \in Tokens /\ c.rest \in SUBSET Runs
      /\ c.now \subseteq passed
      /\ c.number = MaxAttempts /\ c.number <= k
  BY <1>1, TaskFields DEF LedgerInv, Fits, ClockReaders
<1>3. CASE /\ Expired(c.run, c.now)
           /\ RunFree(c.run)
           /\ Goto(q, [c EXCEPT !.pc = "exhaust_attempts"])
  <2> DEFINE x == [c EXCEPT !.pc = "exhaust_attempts"]
  <2>1. k = MaxAttempts /\ k >= MaxAttempts
    <3>1. k \in 0..MaxAttempts
      BY <1>1, <1>2, RowFields
    <3>2. QED
      BY <1>2, <3>1, MaxAttemptsAssumption
  <2>2. /\ x \in Task /\ x.pc = "exhaust_attempts" /\ x.now = c.now /\ x.run = c.run
        /\ x.number = c.number
    BY <1>1, TaskMoves
  <2>3. Goto(q, x) /\ UNCHANGED <<runs, attempts, passed>>
    BY <1>3 DEF ExhaustRun
  <2> HIDE DEF x
  <2>4. Fits(x)
    BY <1>2, <1>3, <2>1, <2>2 DEF Fits, Exhausted
  <2>5. \A p \in Slots : RunsLocked(p) \cap LocksOf(x) = {}
    BY <1>3, <2>2 DEF RunFree, LocksOf
  <2>6. x.pc # "finish_run"
    BY <2>2
  <2>7. QED
    BY <2>2, <2>3, <2>4, <2>5, <2>6, QuietStep
<1>4. CASE TryNext(q, c.token, c.rest)
  <2>1. PICK x : Loose(x) /\ Goto(q, x)
    BY <1>1, <1>2, <1>4, TryNextLoose
  <2>2. QED
    BY <2>1, LooseStep DEF ExhaustRun
<1>5. QED
  BY <1>3, <1>4 DEF ExhaustRun

LEMMA SweepRunsStep ==
  ASSUME LedgerInv, NEW q \in Slots, SweepRuns(q)
  PROVE  LedgerInv'
<1> DEFINE c == tasks[q]
           S == {r \in Runs : Exhausted(r, c.now)}
           x == [pc |-> "sweep_attempts", token |-> c.token, now |-> c.now, swept |-> S]
<1>1. c \in Task /\ TypeOK /\ c.pc = "sweep"
  BY DEF LedgerInv, TypeOK, SweepRuns
<1>2. c.token \in Tokens /\ c.now \in SUBSET Deadline /\ c.now \subseteq passed
  BY <1>1, TaskFields DEF LedgerInv, Fits, ClockReaders
<1>3. x \in Task
  BY <1>2 DEF Task
<1>4. x.pc = "sweep_attempts" /\ x.swept = S /\ x.now = c.now
  OBVIOUS
<1>5. /\ Goto(q, x) /\ UNCHANGED <<runs, attempts, passed>>
      /\ \A r \in S : RunFree(r)
  BY DEF SweepRuns
<1>6. \A r \in S : Exhausted(r, c.now)
  OBVIOUS
<1> HIDE DEF x, S
<1>7. Fits(x)
  BY <1>2, <1>4, <1>6 DEF Fits
<1>8. \A p \in Slots : RunsLocked(p) \cap LocksOf(x) = {}
  BY <1>4, <1>5 DEF RunFree, LocksOf
<1>9. QED
  BY <1>3, <1>4, <1>5, <1>7, <1>8, QuietStep

LEMMA FinishAttemptStep ==
  ASSUME LedgerInv, NEW q \in Slots, FinishAttempt(q)
  PROVE  LedgerInv'
<1> DEFINE f == tasks[q]
           matches == attempts[f.run][f.number] = Started(f.token)
           x == [f EXCEPT !.pc = "finish_run"]
<1>1. f \in Task /\ TypeOK /\ f.pc = "finish_attempt"
  BY DEF LedgerInv, TypeOK, FinishAttempt
<1>2. CASE matches
  <2>1. /\ x \in Task /\ x.pc = "finish_run" /\ x.run = f.run /\ x.number = f.number
        /\ x.token = f.token
    BY <1>1, TaskMoves
  <2>2. /\ Goto(q, x) /\ UNCHANGED <<runs, attempts, passed>>
        /\ AttemptFree(f.run, f.number)
    BY <1>2 DEF FinishAttempt
  <2> HIDE DEF x
  <2>3. Fits(x) /\ LocksOf(x) = {}
    BY <1>2, <2>1 DEF Fits, LocksOf, ClockReaders
  <2>4. \A p \in Slots : tasks[p].pc = "finish_run" =>
          tasks[p].run # x.run \/ tasks[p].number # x.number
    BY <2>1, <2>2 DEF AttemptFree
  <2>5. QED
    BY <2>1, <2>2, <2>3, <2>4, QuietStep
<1>3. CASE ~matches
  <2>1. Loose(Idle)
    BY DEF Loose, Task, Idle, ClockReaders
  <2>2. QED
    BY <1>3, <2>1, LooseStep DEF FinishAttempt
<1>4. QED
  BY <1>2, <1>3
--------------------------------------------------------------------------------
(***************************************************************************)
(* Statements that commit.                                                 *)
(***************************************************************************)
\* A commit that changes the rows of runs nobody else has locked, brings no
\* count down and touches no attempt another request has updated, disturbs
\* nobody.
LEMMA CommitStep ==
  ASSUME LedgerInv, NEW q \in Slots, NEW x, Loose(x), Goto(q, x), UNCHANGED passed,
         runs' \in [Runs -> Run],
         attempts' \in [Runs -> [Numbers -> Attempt \cup {NoAttempt}]],
         NEW S \in SUBSET Runs,
         \A r \in Runs \ S : runs'[r] = runs[r] /\ attempts'[r] = attempts[r],
         \A r \in S : RowAgrees(r)',
         \A r \in S : runs[r].count <= runs'[r].count,
         \A p \in Slots \ {q} : RunsLocked(p) \cap S = {},
         \A p \in Slots \ {q} : tasks[p].pc = "finish_run" =>
           attempts'[tasks[p].run][tasks[p].number] = attempts[tasks[p].run][tasks[p].number]
  PROVE  LedgerInv'
<1>1. /\ tasks' \in [Slots -> Task]
      /\ tasks'[q] = x
      /\ \A p \in Slots \ {q} : tasks'[p] = tasks[p]
  BY GotoTask DEF LedgerInv, Loose
<1>2. TypeOK'
  BY <1>1 DEF LedgerInv, TypeOK
<1>3. RowsAgree'
  <2>1. ASSUME NEW r \in Runs \ S PROVE RowAgrees(r)'
    <3>1. RowAgrees(r) /\ runs'[r] = runs[r] /\ attempts'[r] = attempts[r]
      BY <2>1 DEF LedgerInv, RowsAgree
    <3>2. QED
      BY <3>1 DEF RowAgrees
  <2>2. QED
    BY <2>1 DEF RowsAgree
<1>4. ASSUME NEW p \in Slots PROVE Fits(tasks[p])'
  <2>1. CASE p = q
    BY <1>1, <2>1 DEF Loose, Fits
  <2>2. CASE p # q
    <3> DEFINE t == tasks[p]
    <3>1. tasks'[p] = t /\ t \in Task /\ Fits(t)
      BY <1>1, <2>2 DEF LedgerInv, TypeOK
    <3>2. t.pc \in {"claim_attempts", "exhaust_attempts"} => runs'[t.run] = runs[t.run]
      <4>1. t.pc \in {"claim_attempts", "exhaust_attempts"} => t.run \in Runs /\ t.run \notin S
        BY <2>2, <3>1, TaskFields DEF RunsLocked, LocksOf
      <4>2. QED
        BY <4>1
    <3>3. t.pc = "sweep_attempts" => \A r \in t.swept : runs'[r] = runs[r]
      <4>1. t.pc = "sweep_attempts" => \A r \in t.swept : r \in Runs /\ r \notin S
        BY <2>2, <3>1, TaskFields DEF RunsLocked, LocksOf
      <4>2. QED
        BY <4>1
    <3>4. t.pc \in {"reread_attempt", "exhaust"} => t.number <= runs'[t.run].count
      <4>1. SUFFICES ASSUME t.pc \in {"reread_attempt", "exhaust"}
                     PROVE  t.number <= runs'[t.run].count
        OBVIOUS
      <4>2. t.run \in Runs /\ t.number \in Nat /\ t.number <= runs[t.run].count
        <5>1. t.run \in Runs /\ t.number \in Numbers
          BY <3>1, <4>1, TaskFields
        <5>2. t.number <= runs[t.run].count
          BY <3>1, <4>1 DEF Fits
        <5>3. QED
          BY <5>1, <5>2, NumberBounds
      <4>3. runs[t.run].count \in Nat /\ runs'[t.run].count \in Nat
        <5>1. runs[t.run] \in Run /\ runs'[t.run] \in Run
          BY <4>2 DEF LedgerInv, TypeOK
        <5>2. QED
          BY <5>1, CountBounds DEF Run
      <4>4. runs[t.run].count <= runs'[t.run].count
        BY <4>2, <4>3
      <4>5. QED
        BY <4>2, <4>3, <4>4
    <3>5. t.pc = "finish_run" => attempts'[t.run][t.number] = attempts[t.run][t.number]
      BY <2>2
    <3> HIDE DEF t
    <3>6. Fits(t)'
      <4>1. t' = t
        BY <3>1 DEF t
      <4>2. t.pc \in ClockReaders => t.now \subseteq passed'
        BY <3>1 DEF Fits
      <4>3. t.pc = "claim_attempts" =>
              /\ Claimable(t.run, t.now)'
              /\ t.number = runs'[t.run].count + 1
        BY <3>1, <3>2, <4>1 DEF Fits, Claimable, Due, Expired, Running
      <4>4. t.pc = "exhaust" => t.number = MaxAttempts
        BY <3>1 DEF Fits
      <4>5. t.pc = "exhaust_attempts" =>
              Exhausted(t.run, t.now)' /\ t.number = runs'[t.run].count
        BY <3>1, <3>2, <4>1 DEF Fits, Exhausted, Expired, Running
      <4>6. t.pc = "sweep_attempts" => \A r \in t.swept : Exhausted(r, t.now)'
        BY <3>1, <3>3, <4>1 DEF Fits, Exhausted, Expired, Running
      <4>7. t.pc = "finish_run" => attempts'[t.run][t.number] = Started(t.token)
        BY <3>1, <3>5 DEF Fits
      <4>8. QED
        BY <3>4, <4>1, <4>2, <4>3, <4>4, <4>5, <4>6, <4>7 DEF Fits
    <3>7. QED
      BY <3>1, <3>6 DEF t
  <2>3. QED
    BY <2>1, <2>2
<1>5. LocksExclude'
  <2>1. \A p \in Slots \ {q} : RunsLocked(p)' = RunsLocked(p)
    BY <1>1 DEF RunsLocked, LocksOf
  <2>2. RunsLocked(q)' = {} /\ tasks'[q].pc # "finish_run"
    BY <1>1, LooseFits DEF RunsLocked, LocksOf
  <2>3. SUFFICES ASSUME NEW p \in Slots, NEW s \in Slots, p # s
                 PROVE  /\ RunsLocked(p)' \cap RunsLocked(s)' = {}
                        /\ tasks'[p].pc = "finish_run" /\ tasks'[s].pc = "finish_run" =>
                             tasks'[p].run # tasks'[s].run \/ tasks'[p].number # tasks'[s].number
    BY DEF LocksExclude
  <2>4. CASE p = q \/ s = q
    BY <2>2, <2>4
  <2>5. CASE p # q /\ s # q
    BY <1>1, <2>1, <2>3, <2>5 DEF LedgerInv, LocksExclude
  <2>6. QED
    BY <2>4, <2>5
<1>6. PassedWereSet'
  <2>1. SUFFICES ASSUME NEW d \in passed PROVE d.number <= runs'[d.run].count
    BY DEF PassedWereSet
  <2>2. d.run \in Runs /\ d.number \in Numbers /\ d.number <= runs[d.run].count
    BY DEF LedgerInv, TypeOK, PassedWereSet, Deadline
  <2>3. d.number \in Nat
    BY <2>2, NumberBounds
  <2>4. runs[d.run].count \in Nat /\ runs'[d.run].count \in Nat
    <3>1. runs[d.run] \in Run /\ runs'[d.run] \in Run
      BY <2>2 DEF LedgerInv, TypeOK
    <3>2. QED
      BY <3>1, CountBounds DEF Run
  <2>5. runs[d.run].count <= runs'[d.run].count
    BY <2>2, <2>4
  <2>6. QED
    BY <2>2, <2>3, <2>4, <2>5
<1>7. QED
  BY <1>2, <1>3, <1>4, <1>5, <1>6 DEF LedgerInv

\* Time only makes what a request read more certain.
LEMMA ElapseStep ==
  ASSUME LedgerInv, NEW d \in Deadline, Elapse(d)
  PROVE  LedgerInv'
<1>1. UNCHANGED <<runs, attempts, tasks>> /\ passed \subseteq passed' /\ passed' \subseteq Deadline
  BY DEF Elapse, LedgerInv, TypeOK
<1>2. TypeOK'
  BY <1>1 DEF LedgerInv, TypeOK
<1>3. RowsAgree'
  BY <1>1 DEF LedgerInv, RowsAgree, RowAgrees
<1>4. \A q \in Slots : Fits(tasks[q])'
  BY <1>1 DEF LedgerInv, Fits, Claimable, Exhausted, Due, Expired, Running
<1>5. LocksExclude'
  BY <1>1 DEF LedgerInv, LocksExclude, RunsLocked, LocksOf
<1>6. PassedWereSet'
  <2>1. d.number = runs[d.run].count
    BY DEF Elapse, Outstanding, Lease, Retry
  <2>2. d.run \in Runs /\ d.number \in Numbers
    BY DEF Deadline
  <2>3. d.number <= d.number
    BY <2>2, NumberBounds
  <2>4. passed' = passed \cup {d}
    BY DEF Elapse
  <2>5. QED
    BY <1>1, <2>1, <2>3, <2>4 DEF LedgerInv, PassedWereSet
<1>7. QED
  BY <1>2, <1>3, <1>4, <1>5, <1>6 DEF LedgerInv

LEMMA InsertRunStep ==
  ASSUME LedgerInv, NEW q \in Slots, InsertRun(q)
  PROVE  LedgerInv'
<1>1. tasks[q] \in Task /\ TypeOK /\ tasks[q].pc = "enqueue_insert"
  BY DEF LedgerInv, TypeOK, InsertRun
<1>2. PICK r \in Runs : r = tasks[q].run
  BY <1>1, TaskFields
<1>l. Loose(Idle)
  BY DEF Loose, Task, Idle, ClockReaders
<1>3. Goto(q, Idle) /\ UNCHANGED <<attempts, passed>>
  BY DEF InsertRun
<1>4. CASE /\ runs[r].status = "absent"
           /\ runs' = [runs EXCEPT ![r] = [status |-> "queued", count |-> 0]]
  <2>1. runs[r].count = 0
    <3>1. RowAgrees(r)
      BY <1>2 DEF LedgerInv, RowsAgree
    <3>2. QED
      BY <1>4, <3>1 DEF RowAgrees
  <2>2. [status |-> "queued", count |-> 0] \in Run
    BY MaxAttemptsAssumption DEF Run, RunStatus
  <2>3. /\ runs' \in [Runs -> Run]
        /\ runs'[r] = [status |-> "queued", count |-> 0]
        /\ \A s \in Runs \ {r} : runs'[s] = runs[s]
    BY <1>1, <1>2, <1>4, <2>2 DEF TypeOK
  <2>4. RowAgrees(r)'
    <3>1. RowAgrees(r) /\ attempts' = attempts
      BY <1>2, <1>3 DEF LedgerInv, RowsAgree
    <3>2. QED
      BY <1>4, <2>1, <2>3, <3>1 DEF RowAgrees
  <2>5. \A p \in Slots : r \notin RunsLocked(p)
    BY <1>2, <1>4 DEF LedgerInv, Fits, RunsLocked, LocksOf, Claimable, Exhausted, Due,
                      Expired, Running
  <2>6. attempts' \in [Runs -> [Numbers -> Attempt \cup {NoAttempt}]]
    BY <1>1, <1>3 DEF TypeOK
  <2>7. runs[r].count <= runs'[r].count
    BY <2>1, <2>3
  <2>8. \A s \in Runs \ {r} : runs'[s] = runs[s] /\ attempts'[s] = attempts[s]
    BY <1>3, <2>3
  <2> DEFINE S == {r}
  <2>9. /\ S \in SUBSET Runs
        /\ \A s \in Runs \ S : runs'[s] = runs[s] /\ attempts'[s] = attempts[s]
        /\ \A s \in S : RowAgrees(s)'
        /\ \A s \in S : runs[s].count <= runs'[s].count
        /\ \A p \in Slots \ {q} : RunsLocked(p) \cap S = {}
        /\ \A p \in Slots \ {q} : tasks[p].pc = "finish_run" =>
             attempts'[tasks[p].run][tasks[p].number] = attempts[tasks[p].run][tasks[p].number]
    BY <1>2, <1>3, <2>4, <2>5, <2>7, <2>8
  <2> HIDE DEF S
  <2>10. QED
    BY <1>l, <1>3, <2>3, <2>6, <2>9, CommitStep
<1>5. CASE UNCHANGED runs
  BY <1>l, <1>3, <1>5, LooseStep
<1>6. QED
  BY <1>2, <1>4, <1>5 DEF InsertRun

\* What the commit of a claim leaves in the tables.
LEMMA ClaimedRows ==
  ASSUME LedgerInv, NEW q \in Slots, ClaimAttempts(q)
  PROVE  LET c == tasks[q]
             r == c.run
             k == c.number
         IN  /\ c \in Task /\ c.pc = "claim_attempts"
             /\ r \in Runs /\ c.token \in Tokens /\ k \in Numbers
             /\ Claimable(r, c.now) /\ c.now \subseteq passed
             /\ k = runs[r].count + 1 /\ runs[r].count \in 0..MaxAttempts
             /\ runs' \in [Runs -> Run]
             /\ runs'[r] = [status |-> "running", count |-> k]
             /\ \A s \in Runs \ {r} : runs'[s] = runs[s] /\ attempts'[s] = attempts[s]
             /\ attempts' \in [Runs -> [Numbers -> Attempt \cup {NoAttempt}]]
             /\ attempts'[r][k] = Started(c.token)
             /\ \A i \in Numbers \ {k} :
                  attempts'[r][i] = IF i = k - 1 THEN AfterExpiry(attempts[r][i])
                                    ELSE attempts[r][i]
<1> DEFINE c == tasks[q]
           r == c.run
           k == c.number
<1>1. c \in Task /\ TypeOK /\ c.pc = "claim_attempts"
  BY DEF LedgerInv, TypeOK, ClaimAttempts
<1>2. /\ r \in Runs /\ c.token \in Tokens /\ k \in Numbers
      /\ Claimable(r, c.now) /\ c.now \subseteq passed /\ k = runs[r].count + 1
  BY <1>1, TaskFields DEF LedgerInv, Fits, ClockReaders
<1>3. runs[r].count \in 0..MaxAttempts
  BY <1>1, <1>2, RowFields
<1>4. [status |-> "running", count |-> k] \in Run
  <2>1. k \in 0..MaxAttempts
    BY <1>2, NumberBounds
  <2>2. QED
    BY <2>1 DEF Run, RunStatus
<1>5. runs' = [runs EXCEPT ![r] = [status |-> "running", count |-> k]]
  BY DEF ClaimAttempts
<1>6. /\ runs' \in [Runs -> Run]
      /\ runs'[r] = [status |-> "running", count |-> k]
      /\ \A s \in Runs \ {r} : runs'[s] = runs[s]
  BY <1>1, <1>2, <1>4, <1>5 DEF TypeOK
<1> DEFINE expired == IF k = 1 THEN attempts[r]
                      ELSE [attempts[r] EXCEPT ![k - 1] = AfterExpiry(@)]
           row == [expired EXCEPT ![k] = Started(c.token)]
<1>7. attempts' = [attempts EXCEPT ![r] = row]
  BY DEF ClaimAttempts
<1>8. attempts[r] \in [Numbers -> Attempt \cup {NoAttempt}]
  BY <1>1, <1>2 DEF TypeOK
<1>9. k # 1 => k - 1 \in Numbers /\ attempts[r][k - 1] \in Attempt
  <2>1. SUFFICES ASSUME k # 1 PROVE k - 1 \in Numbers /\ attempts[r][k - 1] \in Attempt
    OBVIOUS
  <2>2. k - 1 \in Numbers /\ k - 1 <= runs[r].count
    BY <1>2, <1>3, <2>1, NumberBounds
  <2>3. attempts[r][k - 1] # NoAttempt
    BY <1>2, <2>2 DEF LedgerInv, RowsAgree, RowAgrees
  <2>4. QED
    BY <1>8, <2>2, <2>3
<1>10. k # 1 => AfterExpiry(attempts[r][k - 1]) \in Attempt
  BY <1>2, <1>9, AttemptForms
<1>11. Started(c.token) \in Attempt
  BY <1>2, AttemptForms
<1>12. /\ expired \in [Numbers -> Attempt \cup {NoAttempt}]
       /\ \A i \in Numbers :
            expired[i] = IF i = k - 1 THEN AfterExpiry(attempts[r][i]) ELSE attempts[r][i]
  <2>1. CASE k = 1
    <3>1. \A i \in Numbers : i # k - 1
      BY <2>1, NumberBounds
    <3>2. QED
      BY <1>8, <2>1, <3>1
  <2>2. CASE k # 1
    BY <1>8, <1>9, <1>10, <2>2
  <2>3. QED
    BY <2>1, <2>2
<1> HIDE DEF expired
<1>13. /\ row \in [Numbers -> Attempt \cup {NoAttempt}]
       /\ row[k] = Started(c.token)
       /\ \A i \in Numbers \ {k} :
            row[i] = IF i = k - 1 THEN AfterExpiry(attempts[r][i]) ELSE attempts[r][i]
  BY <1>2, <1>11, <1>12
<1> HIDE DEF row
<1>14. /\ attempts' \in [Runs -> [Numbers -> Attempt \cup {NoAttempt}]]
       /\ attempts'[r] = row
       /\ \A s \in Runs \ {r} : attempts'[s] = attempts[s]
  BY <1>1, <1>2, <1>7, <1>13 DEF TypeOK
<1>15. QED
  BY <1>1, <1>2, <1>3, <1>6, <1>13, <1>14

\* An attempt that may expire is not one that a report has updated.
LEMMA ExpiryMeetsNoReport ==
  ASSUME LedgerInv, NEW p \in Slots, tasks[p].pc = "finish_run",
         NEW r \in Runs, NEW k \in Numbers, CanExpire(r, k)
  PROVE  ~(tasks[p].run = r /\ tasks[p].number = k)
<1>1. SUFFICES ASSUME tasks[p].run = r, tasks[p].number = k
               PROVE  FALSE
  OBVIOUS
<1>2. attempts[r][k] = Started(tasks[p].token)
  BY <1>1 DEF LedgerInv, Fits
<1>3. attempts[r][k].status = "running"
  BY <1>2 DEF Started
<1>4. AttemptFree(r, k)
  BY <1>3 DEF CanExpire
<1>5. QED
  BY <1>1, <1>4 DEF AttemptFree

LEMMA ClaimAttemptsStep ==
  ASSUME LedgerInv, NEW q \in Slots, ClaimAttempts(q)
  PROVE  LedgerInv'
<1>1. PICK r \in Runs : r = tasks[q].run
  BY ClaimedRows
<1>2. PICK k \in Numbers : k = tasks[q].number
  BY ClaimedRows
<1> DEFINE c == tasks[q]
<1>3. /\ c.pc = "claim_attempts" /\ c.token \in Tokens
      /\ Claimable(r, c.now)
      /\ k = runs[r].count + 1 /\ runs[r].count \in 0..MaxAttempts
      /\ runs' \in [Runs -> Run]
      /\ runs'[r] = [status |-> "running", count |-> k]
      /\ \A s \in Runs \ {r} : runs'[s] = runs[s] /\ attempts'[s] = attempts[s]
      /\ attempts' \in [Runs -> [Numbers -> Attempt \cup {NoAttempt}]]
      /\ attempts'[r][k] = Started(c.token)
      /\ \A i \in Numbers \ {k} :
           attempts'[r][i] = IF i = k - 1 THEN AfterExpiry(attempts[r][i])
                             ELSE attempts[r][i]
  BY <1>1, <1>2, ClaimedRows
<1>4. k > 1 => CanExpire(r, k - 1)
  BY <1>1, <1>2 DEF ClaimAttempts
<1>5. RowAgrees(r) /\ k \in Nat /\ runs[r].count \in Nat
  BY <1>3, CountBounds, NumberBounds DEF LedgerInv, RowsAgree
<1>6. RowAgrees(r)'
  <2>1. runs'[r].count = k /\ runs'[r].status = "running"
    BY <1>3
  <2>2. attempts'[r][k] # NoAttempt /\ attempts'[r][k].status = "running"
    BY <1>3 DEF Started, NoAttempt
  <2>3. ASSUME NEW i \in Numbers PROVE (attempts'[r][i] # NoAttempt) <=> i <= k
    <3>1. CASE i = k
      BY <2>2, <3>1, <1>5
    <3>2. CASE i > k
      <4>1. i \in Nat /\ i # k - 1 /\ i # k /\ ~(i <= k) /\ ~(i <= runs[r].count)
        BY <1>3, <1>5, <3>2, NumberBounds
      <4>2. attempts[r][i] = NoAttempt
        BY <1>5, <4>1 DEF RowAgrees
      <4>3. QED
        BY <1>3, <4>1, <4>2
    <3>3. CASE i < k
      <4>1. i \in Nat /\ i # k /\ i <= k /\ i <= runs[r].count
        BY <1>3, <1>5, <3>3, NumberBounds
      <4>2. attempts[r][i] # NoAttempt
        BY <1>5, <4>1 DEF RowAgrees
      <4>3. attempts[r][i] \in Attempt
        BY <4>2, RowFields DEF LedgerInv
      <4>4. attempts'[r][i] \in Attempt
        BY <1>3, <4>1, <4>3, AttemptForms
      <4>5. QED
        BY <1>3, <4>1, <4>4, AttemptForms
    <3>4. i \in Nat
      BY NumberBounds
    <3>5. QED
      BY <1>5, <3>1, <3>2, <3>3, <3>4
  <2>4. ASSUME NEW i \in Numbers, i < k
        PROVE  attempts'[r][i].status \in {"lease_expired", "retry_scheduled"}
    <3>1. i \in Nat /\ i # k
      <4>1. i \in Nat
        BY NumberBounds
      <4>2. QED
        BY <1>5, <2>4, <4>1
    <3>2. CASE i = runs[r].count
      <4>1. i = k - 1 /\ runs[r].count > 0 /\ ~(runs[r].count = 0)
        BY <1>3, <1>5, <3>1, <3>2, NumberBounds
      <4>2. runs[r].status \in {"running", "retry_wait"}
        BY <1>3, <1>5, <4>1 DEF Claimable, Due, Expired, Running, RowAgrees
      <4>3. attempts[r][i].status \in {"running", "retry_scheduled"}
        BY <1>5, <3>2, <4>1, <4>2 DEF RowAgrees
      <4>4. attempts'[r][i] = AfterExpiry(attempts[r][i])
        BY <1>3, <3>1, <4>1
      <4>5. attempts[r][i] \in Attempt
        <5>1. attempts[r][i] # NoAttempt
          BY <4>3 DEF NoAttempt
        <5>2. QED
          BY <5>1, RowFields DEF LedgerInv
      <4>6. QED
        BY <1>3, <4>3, <4>4, <4>5, AttemptForms
    <3>3. CASE i # runs[r].count
      <4>1. i # k - 1 /\ i < runs[r].count
        BY <1>3, <1>5, <2>4, <3>1, <3>3
      <4>2. attempts'[r][i] = attempts[r][i]
        BY <1>3, <3>1, <4>1
      <4>3. QED
        BY <1>5, <4>1, <4>2 DEF RowAgrees
    <3>4. QED
      BY <3>2, <3>3
  <2>5. ~(k = 0)
    BY NumberBounds
  <2>6. QED
    BY <2>1, <2>2, <2>3, <2>4, <2>5 DEF RowAgrees
<1>7. Loose(Granted(c, k))
  <2>1. Granted(c, k) \in Task /\ Granted(c, k).pc = "granted"
    BY <1>1, <1>3 DEF Granted, Task
  <2>2. QED
    BY <2>1 DEF Loose, ClockReaders
<1>8. Goto(q, Granted(c, k)) /\ UNCHANGED passed
  BY <1>2 DEF ClaimAttempts
<1>9. ASSUME NEW p \in Slots \ {q}, tasks[p].pc = "finish_run"
      PROVE  attempts'[tasks[p].run][tasks[p].number] = attempts[tasks[p].run][tasks[p].number]
  <2> DEFINE i == tasks[p].number
  <2>1. tasks[p].run \in Runs /\ i \in Numbers
    BY <1>9, TaskFields DEF LedgerInv, TypeOK
  <2>2. CASE tasks[p].run = r
    <3>1. attempts[r][i] = Started(tasks[p].token)
      BY <1>9, <2>2 DEF LedgerInv, Fits
    <3>2. attempts[r][i] # NoAttempt
      BY <3>1 DEF Started, NoAttempt
    <3>3. i <= runs[r].count
      BY <1>5, <2>1, <3>2 DEF RowAgrees
    <3>4. i \in Nat /\ i >= 1 /\ i # k
      <4>1. i \in Nat /\ i >= 1
        BY <2>1, NumberBounds
      <4>2. QED
        BY <1>3, <1>5, <3>3, <4>1
    <3>5. i # k - 1
      <4>1. SUFFICES ASSUME i = k - 1 PROVE FALSE
        OBVIOUS
      <4>2. k > 1
        BY <1>5, <3>4, <4>1
      <4>3. QED
        BY <1>4, <1>9, <2>1, <2>2, <4>1, <4>2, ExpiryMeetsNoReport
    <3>6. QED
      BY <1>3, <2>1, <2>2, <3>4, <3>5
  <2>3. CASE tasks[p].run # r
    BY <1>3, <2>1, <2>3
  <2>4. QED
    BY <2>2, <2>3
<1>10. \A p \in Slots \ {q} : r \notin RunsLocked(p)
  <2>1. r \in RunsLocked(q)
    BY <1>1, <1>3 DEF RunsLocked, LocksOf
  <2>2. QED
    BY <2>1 DEF LedgerInv, LocksExclude
<1>11. runs[r].count <= runs'[r].count
  BY <1>3, <1>5
<1> DEFINE S == {r}
<1>12. /\ S \in SUBSET Runs
       /\ \A s \in Runs \ S : runs'[s] = runs[s] /\ attempts'[s] = attempts[s]
       /\ \A s \in S : RowAgrees(s)'
       /\ \A s \in S : runs[s].count <= runs'[s].count
       /\ \A p \in Slots \ {q} : RunsLocked(p) \cap S = {}
  BY <1>3, <1>6, <1>10, <1>11
<1> HIDE DEF S, c
<1>13. QED
  BY <1>3, <1>7, <1>8, <1>9, <1>12, CommitStep

\* What the end of a run that is out of attempts leaves in its rows.
LEMMA ExhaustedRow ==
  ASSUME LedgerInv, NEW r \in Runs, NEW now, Exhausted(r, now),
         runs'[r] = [runs[r] EXCEPT !.status = "failed"],
         attempts'[r] = [attempts[r] EXCEPT ![runs[r].count] = AfterExpiry(@)]
  PROVE  /\ runs'[r] \in Run
         /\ runs'[r].count = runs[r].count /\ runs'[r].status = "failed"
         /\ runs[r].count = MaxAttempts /\ runs[r].count \in Numbers
         /\ runs[r].count <= runs'[r].count
         /\ attempts'[r] \in [Numbers -> Attempt \cup {NoAttempt}]
         /\ attempts[r][runs[r].count] \in Attempt
         /\ attempts'[r][runs[r].count] = AfterExpiry(attempts[r][runs[r].count])
         /\ \A k \in Numbers \ {runs[r].count} : attempts'[r][k] = attempts[r][k]
         /\ RowAgrees(r)'
<1> DEFINE k == runs[r].count
<1>1. TypeOK /\ RowsAgree /\ RowAgrees(r) /\ Running(r)
  BY DEF LedgerInv, RowsAgree, Exhausted, Expired
<1>2. /\ k \in Numbers
      /\ attempts[r][k] \in Attempt
      /\ attempts[r][k].status = "running"
  BY <1>1, RunningRun
<1>3. runs[r] \in Run /\ k \in 0..MaxAttempts
  BY <1>1, RowFields
<1>4. k = MaxAttempts /\ k \in Nat /\ k > 0
  BY <1>2, <1>3, CountBounds, NumberBounds DEF Exhausted
<1>5. runs'[r] \in Run /\ runs'[r].count = k /\ runs'[r].status = "failed"
  BY <1>3 DEF Run, RunStatus
<1>6. /\ AfterExpiry(attempts[r][k]) \in Attempt
      /\ AfterExpiry(attempts[r][k]).status = "lease_expired"
      /\ AfterExpiry(attempts[r][k]) # NoAttempt
  BY <1>2 DEF AfterExpiry, Attempt, NoAttempt
<1>7. attempts[r] \in [Numbers -> Attempt \cup {NoAttempt}]
  BY <1>1 DEF TypeOK
<1>8. /\ attempts'[r] \in [Numbers -> Attempt \cup {NoAttempt}]
      /\ attempts'[r][k] = AfterExpiry(attempts[r][k])
      /\ \A i \in Numbers \ {k} : attempts'[r][i] = attempts[r][i]
  BY <1>2, <1>6, <1>7
<1>9. RowAgrees(r)'
  <2>1. ASSUME NEW i \in Numbers
        PROVE  /\ (attempts'[r][i] # NoAttempt) <=> i <= k
               /\ i < k => attempts'[r][i].status \in {"lease_expired", "retry_scheduled"}
    <3>1. i \in Nat
      BY NumberBounds
    <3>2. CASE i = k
      BY <1>4, <1>6, <1>8, <3>1, <3>2
    <3>3. CASE i # k
      BY <1>1, <1>8, <3>3 DEF RowAgrees
    <3>4. QED
      BY <3>2, <3>3
  <2>2. ~(k = 0)
    BY <1>4
  <2>3. QED
    BY <1>4, <1>5, <1>6, <1>8, <2>1, <2>2 DEF RowAgrees
<1>10. k <= runs'[r].count
  BY <1>4, <1>5
<1>11. QED
  BY <1>2, <1>4, <1>5, <1>8, <1>9, <1>10

LEMMA ExhaustAttemptsStep ==
  ASSUME LedgerInv, NEW q \in Slots, ExhaustAttempts(q)
  PROVE  LedgerInv'
<1> DEFINE c == tasks[q]
<1>1. c \in Task /\ TypeOK /\ c.pc = "exhaust_attempts" /\ Fits(c)
  BY DEF LedgerInv, TypeOK, ExhaustAttempts
<1>2. PICK r \in Runs : r = c.run
  BY <1>1, TaskFields
<1>3. c.token \in Tokens /\ c.rest \in SUBSET Runs
  BY <1>1, TaskFields
<1>4. Exhausted(r, c.now) /\ c.number = runs[r].count
  BY <1>1, <1>2 DEF Fits
<1>5. /\ runs' = [runs EXCEPT ![r].status = "failed"]
      /\ attempts' = [attempts EXCEPT ![r][runs[r].count] = AfterExpiry(@)]
      /\ CanExpire(r, runs[r].count)
      /\ TryNext(q, c.token, c.rest)
      /\ UNCHANGED passed
  BY <1>2, <1>4 DEF ExhaustAttempts
<1>6. /\ runs'[r] = [runs[r] EXCEPT !.status = "failed"]
      /\ attempts'[r] = [attempts[r] EXCEPT ![runs[r].count] = AfterExpiry(@)]
      /\ \A s \in Runs \ {r} : runs'[s] = runs[s] /\ attempts'[s] = attempts[s]
      /\ runs' = [s \in Runs |-> runs'[s]]
      /\ attempts' = [s \in Runs |-> attempts'[s]]
  BY <1>1, <1>5 DEF TypeOK
<1>7. /\ runs'[r] \in Run /\ runs'[r].count = runs[r].count
      /\ runs[r].count \in Numbers
      /\ runs[r].count <= runs'[r].count
      /\ attempts'[r] \in [Numbers -> Attempt \cup {NoAttempt}]
      /\ \A k \in Numbers \ {runs[r].count} : attempts'[r][k] = attempts[r][k]
      /\ RowAgrees(r)'
  BY <1>4, <1>6, ExhaustedRow
<1>8. /\ runs' \in [Runs -> Run]
      /\ attempts' \in [Runs -> [Numbers -> Attempt \cup {NoAttempt}]]
  BY <1>1, <1>6, <1>7 DEF TypeOK
<1>9. PICK x : Loose(x) /\ Goto(q, x)
  BY <1>1, <1>3, <1>5, TryNextLoose
<1>10. ASSUME NEW p \in Slots \ {q}, tasks[p].pc = "finish_run"
       PROVE  attempts'[tasks[p].run][tasks[p].number] = attempts[tasks[p].run][tasks[p].number]
  <2>1. tasks[p].run \in Runs /\ tasks[p].number \in Numbers
    BY <1>10, TaskFields DEF LedgerInv, TypeOK
  <2>2. ~(tasks[p].run = r /\ tasks[p].number = runs[r].count)
    BY <1>5, <1>7, <1>10, ExpiryMeetsNoReport
  <2>3. QED
    BY <1>6, <1>7, <2>1, <2>2
<1>11. \A p \in Slots \ {q} : r \notin RunsLocked(p)
  <2>1. r \in RunsLocked(q)
    BY <1>1, <1>2 DEF RunsLocked, LocksOf
  <2>2. QED
    BY <2>1 DEF LedgerInv, LocksExclude
<1> DEFINE S == {r}
<1>12. /\ S \in SUBSET Runs
       /\ \A s \in Runs \ S : runs'[s] = runs[s] /\ attempts'[s] = attempts[s]
       /\ \A s \in S : RowAgrees(s)'
       /\ \A s \in S : runs[s].count <= runs'[s].count
       /\ \A p \in Slots \ {q} : RunsLocked(p) \cap S = {}
  BY <1>6, <1>7, <1>11
<1> HIDE DEF S, c
<1>13. QED
  BY <1>5, <1>8, <1>9, <1>10, <1>12, CommitStep

LEMMA SweepAttemptsStep ==
  ASSUME LedgerInv, NEW q \in Slots, SweepAttempts(q)
  PROVE  LedgerInv'
<1> DEFINE c == tasks[q]
           x == [pc |-> "candidates", token |-> c.token, now |-> c.now]
<1>1. c \in Task /\ TypeOK /\ c.pc = "sweep_attempts" /\ Fits(c)
  BY DEF LedgerInv, TypeOK, SweepAttempts
<1>2. PICK S \in SUBSET Runs : S = c.swept
  BY <1>1, TaskFields
<1>3. c.token \in Tokens /\ c.now \in SUBSET Deadline /\ c.now \subseteq passed
  BY <1>1, TaskFields DEF Fits, ClockReaders
<1>4. \A r \in S : Exhausted(r, c.now)
  BY <1>1, <1>2 DEF Fits
<1>5. /\ runs' = [r \in Runs |-> IF r \in S THEN [runs[r] EXCEPT !.status = "failed"]
                                 ELSE runs[r]]
      /\ attempts' = [r \in Runs |->
                        IF r \in S
                        THEN [attempts[r] EXCEPT ![runs[r].count] = AfterExpiry(@)]
                        ELSE attempts[r]]
      /\ \A r \in S : CanExpire(r, runs[r].count)
      /\ UNCHANGED passed
      /\ Goto(q, x)
  BY <1>2 DEF SweepAttempts
<1>6. \A r \in S : /\ runs'[r] = [runs[r] EXCEPT !.status = "failed"]
                  /\ attempts'[r] = [attempts[r] EXCEPT ![runs[r].count] = AfterExpiry(@)]
  BY <1>5
<1>7. \A s \in Runs \ S : runs'[s] = runs[s] /\ attempts'[s] = attempts[s]
  BY <1>5
<1>8. ASSUME NEW r \in S
      PROVE  /\ runs'[r] \in Run /\ runs'[r].count = runs[r].count
             /\ runs[r].count \in Numbers
             /\ attempts'[r] \in [Numbers -> Attempt \cup {NoAttempt}]
             /\ \A k \in Numbers \ {runs[r].count} : attempts'[r][k] = attempts[r][k]
             /\ RowAgrees(r)'
             /\ runs[r].count <= runs'[r].count
  <2>1. r \in Runs /\ Exhausted(r, c.now)
    BY <1>4
  <2>2. QED
    BY <1>6, <2>1, ExhaustedRow
<1>9. /\ runs' \in [Runs -> Run]
      /\ attempts' \in [Runs -> [Numbers -> Attempt \cup {NoAttempt}]]
  <2>1. ASSUME NEW r \in Runs
        PROVE  runs'[r] \in Run /\ attempts'[r] \in [Numbers -> Attempt \cup {NoAttempt}]
    <3>1. CASE r \in S
      BY <1>8, <3>1
    <3>2. CASE r \notin S
      BY <1>1, <1>7, <3>2 DEF TypeOK
    <3>3. QED
      BY <3>1, <3>2
  <2>2. runs' = [r \in Runs |-> runs'[r]] /\ attempts' = [r \in Runs |-> attempts'[r]]
    BY <1>5
  <2>3. QED
    BY <2>1, <2>2
<1>10. Loose(x)
  <2>1. x \in Task
    BY <1>3 DEF Task
  <2>2. QED
    BY <1>3, <2>1 DEF Loose
<1>11. ASSUME NEW p \in Slots \ {q}, tasks[p].pc = "finish_run"
       PROVE  attempts'[tasks[p].run][tasks[p].number] = attempts[tasks[p].run][tasks[p].number]
  <2>1. tasks[p].run \in Runs /\ tasks[p].number \in Numbers
    BY <1>11, TaskFields DEF LedgerInv, TypeOK
  <2>2. CASE tasks[p].run \in S
    <3> DEFINE r == tasks[p].run
    <3>1. runs[r].count \in Numbers /\ CanExpire(r, runs[r].count)
      BY <1>5, <1>8, <2>2
    <3>2. tasks[p].number # runs[r].count
      BY <1>11, <2>1, <3>1, ExpiryMeetsNoReport
    <3>3. QED
      BY <1>8, <2>1, <2>2, <3>2
  <2>3. CASE tasks[p].run \notin S
    BY <1>7, <2>1, <2>3
  <2>4. QED
    BY <2>2, <2>3
<1>12. \A p \in Slots \ {q} : RunsLocked(p) \cap S = {}
  <2>1. RunsLocked(q) = S
    BY <1>1, <1>2 DEF RunsLocked, LocksOf
  <2>2. QED
    BY <2>1 DEF LedgerInv, LocksExclude
<1> HIDE DEF c, x
<1>13. QED
  BY <1>5, <1>7, <1>8, <1>9, <1>10, <1>11, <1>12, CommitStep

\* A report that is accepted: both updates of finish_run.
Accepted(r, k, outcome) ==
  /\ Running(r) /\ runs[r].count = k
  /\ runs' = [runs EXCEPT ![r].status = RunAfter(outcome, k)]
  /\ attempts' = [attempts EXCEPT ![r][k] =
                    [@ EXCEPT !.status = AttemptAfter(outcome, k), !.outcome = outcome]]

\* What it leaves in the rows.
LEMMA FinishedRow ==
  ASSUME LedgerInv, NEW r \in Runs, NEW k \in Numbers, NEW outcome \in Outcomes,
         Accepted(r, k, outcome)
  PROVE  /\ runs' \in [Runs -> Run]
         /\ attempts' \in [Runs -> [Numbers -> Attempt \cup {NoAttempt}]]
         /\ runs'[r].count = k /\ runs'[r].status = RunAfter(outcome, k)
         /\ attempts[r][k] \in Attempt /\ attempts[r][k].status = "running"
         /\ attempts'[r][k].token = attempts[r][k].token
         /\ \A i \in Numbers \ {k} : attempts'[r][i] = attempts[r][i]
         /\ \A s \in Runs \ {r} : runs'[s] = runs[s] /\ attempts'[s] = attempts[s]
         /\ RowAgrees(r)'
<1> DEFINE a == [attempts[r][k] EXCEPT !.status = AttemptAfter(outcome, k), !.outcome = outcome]
<1>1. TypeOK /\ RowsAgree /\ RowAgrees(r)
  BY DEF LedgerInv, RowsAgree
<1>a. /\ Running(r) /\ runs[r].count = k
      /\ runs' = [runs EXCEPT ![r].status = RunAfter(outcome, k)]
      /\ attempts' = [attempts EXCEPT ![r][k] = a]
  BY DEF Accepted
<1>2. attempts[r][k] \in Attempt /\ attempts[r][k].status = "running"
  BY <1>1, <1>a, RunningRun
<1>3. runs[r] \in Run /\ k \in Nat /\ k >= 1 /\ k <= MaxAttempts
  BY <1>1, RowFields, NumberBounds
<1>4. a \in Attempt /\ a.status = AttemptAfter(outcome, k) /\ a.token = attempts[r][k].token
  BY <1>2 DEF Attempt, AttemptAfter
<1>5. a # NoAttempt
  BY <1>4, AttemptForms DEF Attempt, NoAttempt
<1>6. /\ runs' \in [Runs -> Run]
      /\ runs'[r].count = k /\ runs'[r].status = RunAfter(outcome, k)
      /\ \A s \in Runs \ {r} : runs'[s] = runs[s]
  <2>1. [runs[r] EXCEPT !.status = RunAfter(outcome, k)] \in Run
    BY <1>3 DEF Run, RunAfter, RunStatus
  <2>2. QED
    BY <1>1, <1>3, <1>a, <2>1 DEF TypeOK, Run
<1> HIDE DEF a
<1>7. /\ attempts' \in [Runs -> [Numbers -> Attempt \cup {NoAttempt}]]
      /\ attempts'[r][k] = a
      /\ \A i \in Numbers \ {k} : attempts'[r][i] = attempts[r][i]
      /\ \A s \in Runs \ {r} : attempts'[s] = attempts[s]
  BY <1>1, <1>4, <1>a DEF TypeOK
<1>8. RowAgrees(r)'
  <2>1. ASSUME NEW i \in Numbers
        PROVE  /\ (attempts'[r][i] # NoAttempt) <=> i <= k
               /\ i < k => attempts'[r][i].status \in {"lease_expired", "retry_scheduled"}
    <3>1. i \in Nat
      BY NumberBounds
    <3>2. CASE i = k
      BY <1>3, <1>5, <1>7, <3>1, <3>2
    <3>3. CASE i # k
      BY <1>1, <1>a, <1>7, <3>3 DEF RowAgrees
    <3>4. QED
      BY <3>2, <3>3
  <2>2. ~(k = 0) /\ k > 0 /\ (~(k < MaxAttempts) => k = MaxAttempts)
    BY <1>3, MaxAttemptsAssumption
  <2>3. attempts'[r][k].status = AttemptAfter(outcome, k)
    BY <1>4, <1>7
  <2>4. \/ runs'[r].status = "retry_wait" /\ attempts'[r][k].status = "retry_scheduled"
        \/ runs'[r].status = "completed" /\ attempts'[r][k].status = "succeeded"
        \/ /\ runs'[r].status = "failed" /\ attempts'[r][k].status = "failed"
           /\ k = MaxAttempts
    BY <1>6, <2>2, <2>3 DEF RunAfter, AttemptAfter
  <2>5. QED
    BY <1>6, <2>1, <2>2, <2>4 DEF RowAgrees
<1>9. QED
  BY <1>2, <1>4, <1>6, <1>7, <1>8

LEMMA FinishRunStep ==
  ASSUME LedgerInv, NEW q \in Slots, FinishRun(q)
  PROVE  LedgerInv'
<1> DEFINE f == tasks[q]
<1>1. f \in Task /\ TypeOK /\ f.pc = "finish_run"
  BY DEF LedgerInv, TypeOK, FinishRun
<1>2. PICK r \in Runs : r = f.run
  BY <1>1, TaskFields
<1>3. PICK k \in Numbers : k = f.number
  BY <1>1, TaskFields
<1>4. f.outcome \in Outcomes /\ Loose(Idle)
  BY <1>1, TaskFields DEF Loose, Task, Idle, ClockReaders
<1>5. Goto(q, Idle) /\ UNCHANGED passed
  BY DEF FinishRun
<1>6. CASE Accepted(r, k, f.outcome) /\ RunFree(r)
  <2>1. /\ runs' \in [Runs -> Run]
        /\ attempts' \in [Runs -> [Numbers -> Attempt \cup {NoAttempt}]]
        /\ runs'[r].count = k
        /\ \A i \in Numbers \ {k} : attempts'[r][i] = attempts[r][i]
        /\ \A s \in Runs \ {r} : runs'[s] = runs[s] /\ attempts'[s] = attempts[s]
        /\ RowAgrees(r)'
    BY <1>4, <1>6, FinishedRow
  <2>2. ASSUME NEW p \in Slots \ {q}, tasks[p].pc = "finish_run"
        PROVE  attempts'[tasks[p].run][tasks[p].number]
                 = attempts[tasks[p].run][tasks[p].number]
    <3>1. tasks[p].run \in Runs /\ tasks[p].number \in Numbers
      BY <2>2, TaskFields DEF LedgerInv, TypeOK
    <3>2. ~(tasks[p].run = r /\ tasks[p].number = k)
      BY <1>1, <1>2, <1>3, <2>2 DEF LedgerInv, LocksExclude
    <3>3. QED
      BY <2>1, <3>1, <3>2
  <2>3. runs[r].count <= runs'[r].count
    <3>1. k <= k
      BY NumberBounds
    <3>2. QED
      BY <1>6, <2>1, <3>1 DEF Accepted
  <2> DEFINE S == {r}
  <2>4. /\ S \in SUBSET Runs
        /\ \A s \in Runs \ S : runs'[s] = runs[s] /\ attempts'[s] = attempts[s]
        /\ \A s \in S : RowAgrees(s)'
        /\ \A s \in S : runs[s].count <= runs'[s].count
        /\ \A p \in Slots \ {q} : RunsLocked(p) \cap S = {}
    BY <1>6, <2>1, <2>3 DEF RunFree
  <2> HIDE DEF S, f
  <2>5. QED
    BY <1>4, <1>5, <2>1, <2>2, <2>4, CommitStep
<1>7. CASE UNCHANGED <<runs, attempts>>
  BY <1>4, <1>5, <1>7, LooseStep
<1>8. QED
  BY <1>2, <1>3, <1>6, <1>7 DEF FinishRun, Accepted
--------------------------------------------------------------------------------
(***************************************************************************)
(* The invariant.                                                          *)
(***************************************************************************)
LEMMA LedgerInit == Init => LedgerInv
<1> SUFFICES ASSUME Init PROVE LedgerInv
  OBVIOUS
<1>1. TypeOK
  <2>1. [status |-> "absent", count |-> 0] \in Run /\ Idle \in Task
    BY MaxAttemptsAssumption DEF Run, RunStatus, Task
  <2>2. QED
    BY <2>1 DEF Init, TypeOK
<1>2. RowsAgree
  <2>1. \A i \in Numbers : ~(i <= 0) /\ ~(i < 0)
    BY NumberBounds
  <2>2. QED
    BY <2>1 DEF Init, RowsAgree, RowAgrees
<1>3. \A q \in Slots : Fits(tasks[q]) /\ RunsLocked(q) = {} /\ tasks[q].pc = "idle"
  BY DEF Init, Fits, Idle, ClockReaders, RunsLocked, LocksOf
<1>4. LocksExclude
  BY <1>3 DEF LocksExclude
<1>5. PassedWereSet
  BY DEF Init, PassedWereSet
<1>6. QED
  BY <1>1, <1>2, <1>3, <1>4, <1>5 DEF LedgerInv

LEMMA LedgerStep == LedgerInv /\ [Next]_vars => LedgerInv'
<1> SUFFICES ASSUME LedgerInv, [Next]_vars PROVE LedgerInv'
  OBVIOUS
<1>1. CASE UNCHANGED vars
  BY <1>1 DEF vars, LedgerInv, TypeOK, RowsAgree, RowAgrees, Fits, LocksExclude, RunsLocked,
              LocksOf, Claimable, Exhausted, Due, Expired, Running, PassedWereSet
<1>2. ASSUME NEW q \in Slots, Arrive(q) PROVE LedgerInv'
  BY <1>2, LooseStatements DEF Arrive, Script
<1>3. ASSUME NEW q \in Slots, Statement(q) PROVE LedgerInv'
  <2>1. CASE FindActive(q) \/ ListCandidates(q) \/ ReadAttempt(q)
    BY <2>1, LooseStatements
  <2>2. CASE InsertRun(q)
    BY <2>2, InsertRunStep
  <2>3. CASE ClaimRun(q)
    BY <2>3, ClaimRunStep
  <2>4. CASE ClaimAttempts(q)
    BY <2>4, ClaimAttemptsStep
  <2>5. CASE Reread(q)
    BY <2>5, RereadStep
  <2>6. CASE RereadAttempt(q)
    BY <2>6, RereadAttemptStep
  <2>7. CASE ExhaustRun(q)
    BY <2>7, ExhaustRunStep
  <2>8. CASE ExhaustAttempts(q)
    BY <2>8, ExhaustAttemptsStep
  <2>9. CASE SweepRuns(q)
    BY <2>9, SweepRunsStep
  <2>10. CASE SweepAttempts(q)
    BY <2>10, SweepAttemptsStep
  <2>11. CASE FinishAttempt(q)
    BY <2>11, FinishAttemptStep
  <2>12. CASE FinishRun(q)
    BY <2>12, FinishRunStep
  <2>13. QED
    BY <1>3, <2>1, <2>2, <2>3, <2>4, <2>5, <2>6, <2>7, <2>8, <2>9, <2>10, <2>11, <2>12
       DEF Statement
<1>4. ASSUME NEW q \in Slots, Abort(q) PROVE LedgerInv'
  BY <1>4, LooseStatements
<1>5. ASSUME NEW d \in Deadline, Elapse(d) PROVE LedgerInv'
  BY <1>5, ElapseStep
<1>6. QED
  BY <1>1, <1>2, <1>3, <1>4, <1>5 DEF Next

\* Whatever requests race, abort or are late, in every state each may rely on
\* what it has read and locked, and the two tables agree.
THEOREM LedgerInvariant == Spec => []LedgerInv
<1>1. QED
  BY LedgerInit, LedgerStep, PTL DEF Spec

\* Every reachable state is well typed: no run gets more attempts than it may.
THEOREM TypeCorrect == Spec => []TypeOK
<1>1. LedgerInv => TypeOK
  BY DEF LedgerInv
<1>2. QED
  BY <1>1, LedgerInvariant, PTL

\* After every commit scheduled_job_runs and scheduled_job_attempts tell one
\* story: one attempt per count, at most the last one running, and its status
\* the one the run's status calls for.
THEOREM TablesAgree == Spec => []RowsAgree
<1>1. LedgerInv => RowsAgree
  BY DEF LedgerInv
<1>2. QED
  BY <1>1, LedgerInvariant, PTL
--------------------------------------------------------------------------------
(***************************************************************************)
(* What a step may do to one run.                                          *)
(***************************************************************************)
Unchanged(r) == runs'[r] = runs[r] /\ attempts'[r] = attempts[r]

Inserted(r) ==
  /\ runs[r].status = "absent"
  /\ runs'[r] = [status |-> "queued", count |-> 0]
  /\ attempts'[r] = attempts[r]

TakenBy(r, t) ==
  LET k == runs[r].count + 1
  IN  /\ Claimable(r, passed)
      /\ k \in Numbers
      /\ runs'[r] = [status |-> "running", count |-> k]
      /\ attempts'[r][k] = Started(t)
      /\ \A i \in Numbers \ {k} :
           attempts'[r][i] = IF i = k - 1 THEN AfterExpiry(attempts[r][i])
                             ELSE attempts[r][i]

GivenUp(r) ==
  /\ Exhausted(r, passed)
  /\ runs'[r] = [runs[r] EXCEPT !.status = "failed"]
  /\ attempts'[r] = [attempts[r] EXCEPT ![runs[r].count] = AfterExpiry(@)]

Reported(r, outcome) ==
  LET k == runs[r].count
  IN  /\ Running(r)
      /\ k \in Numbers
      /\ runs'[r].count = k
      /\ runs'[r].status = RunAfter(outcome, k)
      /\ attempts'[r][k].token = attempts[r][k].token
      /\ \A i \in Numbers \ {k} : attempts'[r][i] = attempts[r][i]

RowStep(r) ==
  \/ Unchanged(r)
  \/ Inserted(r)
  \/ \E t \in Tokens : TakenBy(r, t)
  \/ GivenUp(r)
  \/ \E outcome \in Outcomes : Reported(r, outcome)

\* A reading of the clock that is in the past is right about what has run out.
LEMMA PastReading ==
  ASSUME NEW r, NEW now, now \subseteq passed
  PROVE  /\ Claimable(r, now) => Claimable(r, passed)
         /\ Exhausted(r, now) => Exhausted(r, passed)
  BY DEF Claimable, Exhausted, Due, Expired

\* Every step changes each run by one of these, and the clock by none but Elapse.
LEMMA StepChangesRow ==
  ASSUME LedgerInv, [Next]_vars, NEW r \in Runs
  PROVE  \/ Unchanged(r) /\ passed \subseteq passed'
         \/ RowStep(r) /\ passed' = passed
<1>0. TypeOK
  BY DEF LedgerInv
<1>1. CASE UNCHANGED <<runs, attempts>> /\ passed \subseteq passed'
  BY <1>1 DEF Unchanged
<1>2. ASSUME NEW q \in Slots, InsertRun(q) PROVE RowStep(r) /\ passed' = passed
  BY <1>0, <1>2 DEF InsertRun, TypeOK, RowStep, Inserted, Unchanged
<1>3. ASSUME NEW q \in Slots, ClaimAttempts(q) PROVE RowStep(r) /\ passed' = passed
  <2>1. passed' = passed
    BY <1>3 DEF ClaimAttempts
  <2>2. CASE r = tasks[q].run
    <3>1. /\ tasks[q].token \in Tokens /\ tasks[q].number \in Numbers
          /\ Claimable(r, tasks[q].now) /\ tasks[q].now \subseteq passed
          /\ tasks[q].number = runs[r].count + 1
          /\ runs'[r] = [status |-> "running", count |-> tasks[q].number]
          /\ attempts'[r][tasks[q].number] = Started(tasks[q].token)
          /\ \A i \in Numbers \ {tasks[q].number} :
               attempts'[r][i] = IF i = tasks[q].number - 1 THEN AfterExpiry(attempts[r][i])
                                 ELSE attempts[r][i]
      BY <1>3, <2>2, ClaimedRows
    <3>2. Claimable(r, passed)
      BY <3>1, PastReading
    <3>3. TakenBy(r, tasks[q].token)
      BY <3>1, <3>2 DEF TakenBy
    <3>4. QED
      BY <2>1, <3>1, <3>3 DEF RowStep
  <2>3. CASE r # tasks[q].run
    <3>1. runs'[r] = runs[r] /\ attempts'[r] = attempts[r]
      BY <1>3, <2>3, ClaimedRows
    <3>2. QED
      BY <2>1, <3>1 DEF RowStep, Unchanged
  <2>4. QED
    BY <2>2, <2>3
<1>4. ASSUME NEW q \in Slots, ExhaustAttempts(q) PROVE RowStep(r) /\ passed' = passed
  <2>1. passed' = passed
    BY <1>4 DEF ExhaustAttempts
  <2>2. CASE r = tasks[q].run
    <3>1. /\ Exhausted(r, tasks[q].now) /\ tasks[q].number = runs[r].count
          /\ tasks[q].now \subseteq passed
      BY <1>4, <2>2 DEF LedgerInv, Fits, ClockReaders, ExhaustAttempts
    <3>2. Exhausted(r, passed)
      BY <3>1, PastReading
    <3>3. /\ runs'[r] = [runs[r] EXCEPT !.status = "failed"]
          /\ attempts'[r] = [attempts[r] EXCEPT ![runs[r].count] = AfterExpiry(@)]
      BY <1>0, <1>4, <2>2, <3>1 DEF ExhaustAttempts, TypeOK
    <3>4. QED
      BY <2>1, <3>2, <3>3 DEF RowStep, GivenUp
  <2>3. CASE r # tasks[q].run
    BY <1>0, <1>4, <2>1, <2>3 DEF ExhaustAttempts, TypeOK, RowStep, Unchanged
  <2>4. QED
    BY <2>2, <2>3
<1>5. ASSUME NEW q \in Slots, SweepAttempts(q) PROVE RowStep(r) /\ passed' = passed
  <2>1. passed' = passed
    BY <1>5 DEF SweepAttempts
  <2>2. CASE r \in tasks[q].swept
    <3>1. Exhausted(r, tasks[q].now) /\ tasks[q].now \subseteq passed
      BY <1>5, <2>2 DEF LedgerInv, Fits, ClockReaders, SweepAttempts
    <3>2. Exhausted(r, passed)
      BY <3>1, PastReading
    <3>3. QED
      BY <1>5, <2>1, <2>2, <3>2 DEF SweepAttempts, RowStep, GivenUp
  <2>3. CASE r \notin tasks[q].swept
    BY <1>5, <2>1, <2>3 DEF SweepAttempts, RowStep, Unchanged
  <2>4. QED
    BY <2>2, <2>3
<1>6. ASSUME NEW q \in Slots, FinishRun(q) PROVE RowStep(r) /\ passed' = passed
  <2> DEFINE f == tasks[q]
  <2>1. f \in Task /\ f.pc = "finish_run" /\ passed' = passed
    BY <1>6 DEF LedgerInv, TypeOK, FinishRun
  <2>2. f.run \in Runs /\ f.number \in Numbers /\ f.outcome \in Outcomes
    BY <2>1, TaskFields
  <2>p. PICK s \in Runs, k \in Numbers, o \in Outcomes :
            s = f.run /\ k = f.number /\ o = f.outcome
    BY <2>2
  <2>3. CASE UNCHANGED <<runs, attempts>>
    BY <2>1, <2>3 DEF RowStep, Unchanged
  <2>4. CASE Accepted(s, k, o)
    <3>1. /\ runs'[s].count = k
          /\ runs'[s].status = RunAfter(o, k)
          /\ attempts'[s][k].token = attempts[s][k].token
          /\ \A i \in Numbers \ {k} : attempts'[s][i] = attempts[s][i]
          /\ \A z \in Runs \ {s} : runs'[z] = runs[z] /\ attempts'[z] = attempts[z]
      BY <2>4, FinishedRow
    <3>2. CASE r = s
      BY <2>1, <2>4, <3>1, <3>2 DEF RowStep, Reported, Accepted
    <3>3. CASE r # s
      BY <2>1, <3>1, <3>3 DEF RowStep, Unchanged
    <3>4. QED
      BY <3>2, <3>3
  <2>5. QED
    BY <1>6, <2>p, <2>3, <2>4 DEF FinishRun, Accepted
<1>7. ASSUME NEW q \in Slots, Statement(q)
      PROVE  \/ RowStep(r) /\ passed' = passed
             \/ UNCHANGED <<runs, attempts>> /\ passed \subseteq passed'
  BY <1>2, <1>3, <1>4, <1>5, <1>6, <1>7
     DEF Statement, ClaimRun, Reread, RereadAttempt, ExhaustRun, FindActive, SweepRuns,
         ListCandidates, ReadAttempt, FinishAttempt
<1>8. ASSUME NEW q \in Slots, Arrive(q) \/ Abort(q)
      PROVE  UNCHANGED <<runs, attempts>> /\ passed \subseteq passed'
  BY <1>8 DEF Arrive, Script, Enqueue, Claim, ClaimNext, Finish, Abort
<1>9. ASSUME NEW d \in Deadline, Elapse(d)
      PROVE  UNCHANGED <<runs, attempts>> /\ passed \subseteq passed'
  BY <1>9 DEF Elapse
<1>10. QED
  BY <1>1, <1>7, <1>8, <1>9 DEF Next, vars
--------------------------------------------------------------------------------
(***************************************************************************)
(* History and answers.                                                    *)
(***************************************************************************)
\* No attempt changes hands, and one that has ended does not change.
LEMMA HistoryStep ==
  ASSUME LedgerInv, [Next]_vars, NEW r \in Runs, NEW k \in Numbers
  PROVE  /\ attempts[r][k] # NoAttempt => attempts'[r][k].token = attempts[r][k].token
         /\ attempts[r][k].status \notin {"none", "running"} =>
              attempts'[r][k] = attempts[r][k]
<1>0. /\ TypeOK /\ RowsAgree /\ RowAgrees(r)
      /\ attempts[r][k] \in Attempt \cup {NoAttempt}
      /\ k \in Nat /\ runs[r].count \in Nat
  BY RowFields, CountBounds, NumberBounds DEF LedgerInv, RowsAgree
<1>1. CASE attempts'[r][k] = attempts[r][k]
  BY <1>1
<1>2. CASE attempts'[r][k] = AfterExpiry(attempts[r][k])
  BY <1>0, <1>2, AttemptForms DEF AfterExpiry, Attempt, NoAttempt
<1>3. CASE Unchanged(r) \/ Inserted(r)
  BY <1>1, <1>3 DEF Unchanged, Inserted
<1>4. ASSUME NEW t \in Tokens, TakenBy(r, t)
      PROVE  \/ attempts'[r][k] = attempts[r][k]
             \/ attempts'[r][k] = AfterExpiry(attempts[r][k])
             \/ attempts[r][k] = NoAttempt
  <2>1. CASE k = runs[r].count + 1
    <3>1. ~(k <= runs[r].count)
      BY <1>0, <2>1
    <3>2. QED
      BY <1>0, <3>1 DEF RowAgrees
  <2>2. CASE k # runs[r].count + 1
    BY <1>4, <2>2 DEF TakenBy
  <2>3. QED
    BY <2>1, <2>2
<1>5. CASE GivenUp(r)
  <2>1. Running(r)
    BY <1>5 DEF GivenUp, Exhausted, Expired
  <2>2. runs[r].count \in Numbers
    BY <1>0, <2>1, RunningRun
  <2>3. \/ attempts'[r][k] = attempts[r][k]
        \/ attempts'[r][k] = AfterExpiry(attempts[r][k])
    BY <1>0, <1>5, <2>2 DEF GivenUp, TypeOK
  <2>4. QED
    BY <1>1, <1>2, <2>3
<1>6. ASSUME NEW outcome \in Outcomes, Reported(r, outcome)
      PROVE  \/ attempts'[r][k] = attempts[r][k]
             \/ /\ attempts[r][k].status = "running"
                /\ attempts'[r][k].token = attempts[r][k].token
  <2>1. attempts[r][runs[r].count].status = "running"
    BY <1>0, <1>6, RunningRun DEF Reported
  <2>2. QED
    BY <1>6, <2>1 DEF Reported
<1>7. CASE attempts[r][k] = NoAttempt
  BY <1>7 DEF NoAttempt
<1>8. QED
  BY <1>1, <1>2, <1>3, <1>4, <1>5, <1>6, <1>7, StepChangesRow DEF RowStep

\* The attempts are an append-only history, whichever claims, sweeps and late or
\* repeated reports race: one that has ended never changes, none changes hands.
THEOREM HistoryKept == Spec => HistoryIsAppendOnly
<1> DEFINE Kept ==
      \A r \in Runs, k \in Numbers :
        /\ attempts[r][k] # NoAttempt => attempts'[r][k].token = attempts[r][k].token
        /\ attempts[r][k].status \notin {"none", "running"} =>
             attempts'[r][k] = attempts[r][k]
<1>1. LedgerInv /\ [Next]_vars => [Kept]_vars
  BY HistoryStep
<1> HIDE DEF Kept
<1>2. HistoryIsAppendOnly <=> [][Kept]_vars
  BY DEF HistoryIsAppendOnly, Kept
<1>3. QED
  BY <1>1, <1>2, LedgerInvariant, PTL DEF Spec

\* A claim is answered by the commit that makes it, or after its attempt has
\* been read again.
LEMMA AnswerStep ==
  ASSUME LedgerInv, [Next]_vars, NEW q \in Slots,
         tasks'[q].pc = "granted", tasks'[q] # tasks[q]
  PROVE  /\ runs'[tasks'[q].run] = [status |-> "running", count |-> tasks'[q].number]
         /\ attempts'[tasks'[q].run][tasks'[q].number] = Started(tasks'[q].token)
<1> DEFINE c == tasks[q]
<1>0. TypeOK /\ RowsAgree /\ c \in Task
  BY DEF LedgerInv, TypeOK
<1>1. CASE ClaimAttempts(q)
  <2>1. Goto(q, Granted(c, c.number))
    BY <1>1 DEF ClaimAttempts
  <2>2. tasks'[q] = Granted(c, c.number)
    BY <1>0, <2>1, GotoTask
  <2>3. /\ tasks'[q].run = c.run /\ tasks'[q].number = c.number
        /\ tasks'[q].token = c.token
    BY <2>2 DEF Granted
  <2>4. /\ runs'[c.run] = [status |-> "running", count |-> c.number]
        /\ attempts'[c.run][c.number] = Started(c.token)
    BY <1>1, ClaimedRows
  <2>5. QED
    BY <2>3, <2>4
<1>2. CASE RereadAttempt(q) /\ Goto(q, Granted(c, c.number))
                           /\ attempts[c.run][c.number] = Started(c.token)
  <2>1. tasks'[q] = Granted(c, c.number)
    BY <1>0, <1>2, GotoTask
  <2>2. /\ tasks'[q].run = c.run /\ tasks'[q].number = c.number
        /\ tasks'[q].token = c.token
    BY <2>1 DEF Granted
  <2>3. c.run \in Runs /\ c.number \in Numbers
    BY <1>0, <1>2, TaskFields DEF RereadAttempt
  <2>4. attempts[c.run][c.number].status = "running"
    BY <1>2 DEF Started
  <2>5. c.number = runs[c.run].count /\ runs[c.run].status = "running"
    BY <1>0, <2>3, <2>4, RunningAttempt DEF Running
  <2>6. runs[c.run] = [status |-> "running", count |-> c.number]
    <3>1. runs[c.run] = [status |-> runs[c.run].status, count |-> runs[c.run].count]
      BY <1>0, <2>3, RowFields
    <3>2. QED
      BY <2>5, <3>1
  <2>7. UNCHANGED <<runs, attempts>>
    BY <1>2 DEF RereadAttempt
  <2>8. QED
    BY <1>2, <2>2, <2>6, <2>7
<1>3. ASSUME NEW x, Goto(q, x), x.pc # "granted"
      PROVE  FALSE
  BY <1>0, <1>3, GotoTask
<1>4. ASSUME NEW p \in Slots \ {q}, NEW x, Goto(p, x)
      PROVE  FALSE
  BY <1>0, <1>4, GotoTask
<1>5. ASSUME NEW t, NEW S, TryNext(q, t, S)
      PROVE  FALSE
  BY <1>3, <1>5 DEF TryNext, Idle, ClaimOf
<1>6. ASSUME NEW p \in Slots, Arrive(p) \/ Statement(p) \/ Abort(p)
      PROVE  p = q
  <2>1. \E x : Goto(p, x)
    BY <1>6 DEF Arrive, Script, Statement, Enqueue, Claim, ClaimNext, Finish, Abort, InsertRun,
                ClaimRun, ClaimAttempts, Reread, RereadAttempt, ExhaustRun, ExhaustAttempts,
                FindActive, SweepRuns, SweepAttempts, ListCandidates, ReadAttempt,
                FinishAttempt, FinishRun, TryNext
  <2>2. QED
    BY <1>4, <2>1
<1>7. ASSUME Arrive(q) \/ Abort(q) \/ InsertRun(q) \/ SweepRuns(q) \/ SweepAttempts(q)
               \/ FinishRun(q)
      PROVE  FALSE
  BY <1>3, <1>7 DEF Arrive, Script, Enqueue, Claim, ClaimNext, Finish, Abort, InsertRun,
                    SweepRuns, SweepAttempts, FinishRun, Idle, ClaimOf
<1>8. ASSUME Reread(q) \/ ExhaustAttempts(q) \/ ListCandidates(q)
      PROVE  FALSE
  BY <1>3, <1>5, <1>8 DEF Reread, ExhaustAttempts, ListCandidates, ClaimAt
<1>9. CASE ClaimRun(q)
  <2>1. [c EXCEPT !.pc = "reread"].pc = "reread"
    BY <1>0, <1>9, TaskMoves DEF ClaimRun
  <2>2. QED
    BY <1>3, <1>9, <2>1 DEF ClaimRun, ClaimAt
<1>10. CASE ExhaustRun(q)
  <2>1. [c EXCEPT !.pc = "exhaust_attempts"].pc = "exhaust_attempts"
    BY <1>0, <1>10, TaskMoves DEF ExhaustRun
  <2>2. QED
    BY <1>3, <1>5, <1>10, <2>1 DEF ExhaustRun
<1>11. CASE RereadAttempt(q)
  <2>1. [c EXCEPT !.pc = "exhaust"].pc = "exhaust"
    BY <1>0, <1>11, TaskMoves DEF RereadAttempt
  <2>2. QED
    BY <1>2, <1>3, <1>5, <1>11, <2>1 DEF RereadAttempt
<1>12. CASE FindActive(q)
  <2>1. [c EXCEPT !.pc = "sweep"].pc = "sweep"
    BY <1>0, <1>12, TaskMoves DEF FindActive
  <2>2. QED
    BY <1>3, <1>12, <2>1 DEF FindActive, ClaimOf
<1>13. CASE ReadAttempt(q)
  <2>1. [c EXCEPT !.pc = "finish_attempt"].pc = "finish_attempt"
    BY <1>0, <1>13, TaskMoves DEF ReadAttempt
  <2>2. QED
    BY <1>3, <1>13, <2>1 DEF ReadAttempt, Idle
<1>14. CASE FinishAttempt(q)
  <2>1. [c EXCEPT !.pc = "finish_run"].pc = "finish_run"
    BY <1>0, <1>14, TaskMoves DEF FinishAttempt
  <2>2. QED
    BY <1>3, <1>14, <2>1 DEF FinishAttempt, Idle
<1>15. \/ \E p \in Slots : Arrive(p) \/ Statement(p) \/ Abort(p)
       \/ \E d \in Deadline : Elapse(d)
       \/ UNCHANGED tasks
  BY DEF Next, vars
<1>16. ~UNCHANGED tasks
  OBVIOUS
<1>17. ASSUME NEW d \in Deadline, Elapse(d) PROVE FALSE
  BY <1>16, <1>17 DEF Elapse
<1>18. Arrive(q) \/ Statement(q) \/ Abort(q)
  BY <1>6, <1>15, <1>16, <1>17
<1>19. QED
  BY <1>1, <1>7, <1>8, <1>9, <1>10, <1>11, <1>12, <1>13, <1>14, <1>18 DEF Statement

\* An answer "claimed" is true when it is given, though it may rest on rows read
\* one after the other with an old reading of the clock.
THEOREM AnswersTrue == Spec => AnswerIsTrue
<1> DEFINE True ==
      \A q \in Slots :
        LET g == tasks'[q]
        IN  g.pc = "granted" /\ g # tasks[q] =>
              /\ runs'[g.run] = [status |-> "running", count |-> g.number]
              /\ attempts'[g.run][g.number] = Started(g.token)
<1>1. LedgerInv /\ [Next]_vars => [True]_vars
  BY AnswerStep
<1> HIDE DEF True
<1>2. AnswerIsTrue <=> [][True]_vars
  BY DEF AnswerIsTrue, True
<1>3. QED
  BY <1>1, <1>2, LedgerInvariant, PTL DEF Spec
--------------------------------------------------------------------------------
(***************************************************************************)
(* The ledger implements LeasedJob.                                        *)
(***************************************************************************)
\* Of a run that is not running nobody is the owner.
LEMMA JobFields ==
  ASSUME LedgerInv, NEW r \in Runs
  PROVE  /\ Running(r) => JobOf(r).owner \in Tokens /\ JobOf(r).owner # None
         /\ ~Running(r) => JobOf(r).owner = None /\ JobOf(r).overdue = FALSE
         /\ JobOf(r).overdue = Expired(r, passed)
         /\ JobOf(r).tries = runs[r].count
         /\ JobOf(r) = [owner |-> JobOf(r).owner, overdue |-> JobOf(r).overdue,
                        tries |-> JobOf(r).tries, outcome |-> JobOf(r).outcome]
         /\ runs[r].status = "completed" => JobOf(r).outcome = "done"
         /\ runs[r].status = "failed" => JobOf(r).outcome = "failed"
         /\ runs[r].status \notin {"completed", "failed"} => JobOf(r).outcome = "open"
<1>1. Running(r) => attempts[r][runs[r].count].token \in Tokens
  <2>1. Running(r) => attempts[r][runs[r].count] \in Attempt
    BY RunningRun DEF LedgerInv
  <2>2. QED
    BY <2>1 DEF Attempt
<1>2. QED
  BY <1>1, NoneAssumption DEF JobOf, Expired, Running

\* A run that is not running, in the next state.
LEMMA NextJob ==
  ASSUME NEW r \in Runs, runs'[r].status # "running"
  PROVE  JobOf(r)' = [owner |-> None, overdue |-> FALSE, tries |-> runs'[r].count,
                      outcome |-> CASE runs'[r].status = "completed" -> "done"
                                    [] runs'[r].status = "failed"    -> "failed"
                                    [] OTHER                        -> "open"]
  BY DEF JobOf, Expired, Running

JobStep(r) == JobOf(r)' = JobOf(r) \/ Ledger!Step(JobOf(r), JobOf(r)')

LEMMA UnchangedJob ==
  ASSUME LedgerInv, NEW r \in Runs, Unchanged(r), passed \subseteq passed'
  PROVE  JobStep(r)
<1> DEFINE s == JobOf(r)
<1>1. JobOf(r)' = [owner |-> s.owner, overdue |-> Expired(r, passed)', tries |-> s.tries,
                   outcome |-> s.outcome]
  BY DEF JobOf, Unchanged, Running
<1>2. Expired(r, passed)' \in BOOLEAN /\ (Expired(r, passed) => Expired(r, passed)')
  BY DEF Expired, Running, Unchanged
<1>3. CASE Expired(r, passed)' = Expired(r, passed)
  BY <1>1, <1>3, JobFields DEF JobStep
<1>4. CASE Expired(r, passed)' # Expired(r, passed)
  <2>1. Expired(r, passed)' = TRUE /\ Running(r)
    BY <1>2, <1>4 DEF Expired, Running, Unchanged
  <2>2. s.owner # None /\ s.outcome = "open"
    BY <2>1, JobFields DEF Running
  <2>3. JobOf(r)' = Ledger!Owned(s.owner, TRUE, s.tries)
    BY <1>1, <2>1, <2>2 DEF Ledger!Owned
  <2>4. QED
    BY <2>2, <2>3 DEF JobStep, Ledger!Step, Ledger!RunOut
<1>5. QED
  BY <1>3, <1>4

LEMMA InsertedJob ==
  ASSUME LedgerInv, NEW r \in Runs, Inserted(r)
  PROVE  JobStep(r)
<1>1. RowAgrees(r) /\ runs[r].status = "absent"
  BY DEF LedgerInv, RowsAgree, Inserted
<1>2. runs[r].count = 0
  BY <1>1 DEF RowAgrees
<1>3. JobOf(r) = [owner |-> None, overdue |-> FALSE, tries |-> 0, outcome |-> "open"]
  BY <1>1, <1>2 DEF JobOf, Expired, Running
<1>4. runs'[r].status = "queued" /\ runs'[r].count = 0
  BY DEF Inserted
<1>5. JobOf(r)' = [owner |-> None, overdue |-> FALSE, tries |-> 0, outcome |-> "open"]
  BY <1>4, NextJob
<1>6. QED
  BY <1>3, <1>5 DEF JobStep

LEMMA TakenJob ==
  ASSUME LedgerInv, NEW r \in Runs, NEW t \in Tokens, TakenBy(r, t), passed' = passed
  PROVE  JobStep(r)
<1> DEFINE s == JobOf(r)
           k == runs[r].count + 1
<1>1. /\ Claimable(r, passed) /\ k \in Numbers
      /\ runs'[r] = [status |-> "running", count |-> k]
      /\ attempts'[r][k] = Started(t)
  BY DEF TakenBy
<1>2. runs[r].count \in Nat
  BY RowFields, CountBounds DEF LedgerInv
<1>3. Lease(r, k) \notin passed
  <2>1. Lease(r, k).number = k /\ Lease(r, k).run = r
    BY DEF Lease
  <2>2. ~(k <= runs[r].count)
    BY <1>2
  <2>3. QED
    BY <2>1, <2>2 DEF LedgerInv, PassedWereSet
<1>4. runs'[r].status = "running" /\ runs'[r].count = k
  BY <1>1
<1>5. attempts'[r][runs'[r].count].token = t
  BY <1>1, <1>4 DEF Started
<1>6. Running(r)' /\ ~Expired(r, passed)'
  BY <1>3, <1>4 DEF Running, Expired
<1>7. JobOf(r)' = [owner |-> t, overdue |-> FALSE, tries |-> k, outcome |-> "open"]
  BY <1>4, <1>5, <1>6 DEF JobOf, Expired
<1>8. s.outcome = "open" /\ s.tries = runs[r].count /\ s.tries < MaxAttempts
  BY <1>1, JobFields DEF Claimable, Due, Expired, Running
<1>9. s.owner # None => s.overdue
  BY <1>1, JobFields DEF Claimable, Due, Running
<1>10. JobOf(r)' = Ledger!Owned(t, FALSE, s.tries + 1)
  BY <1>7, <1>8 DEF Ledger!Owned
<1>11. Ledger!Take(s, JobOf(r)')
  BY <1>8, <1>9, <1>10 DEF Ledger!Take
<1>12. QED
  BY <1>11 DEF JobStep, Ledger!Step

LEMMA GivenUpJob ==
  ASSUME LedgerInv, NEW r \in Runs, GivenUp(r)
  PROVE  JobStep(r)
<1> DEFINE s == JobOf(r)
<1>1. Exhausted(r, passed) /\ Running(r)
  BY DEF GivenUp, Exhausted, Expired
<1>2. /\ runs'[r].status = "failed" /\ runs'[r].count = runs[r].count
      /\ runs[r].count = MaxAttempts
  BY <1>1, ExhaustedRow DEF GivenUp
<1>3. JobOf(r)' = [owner |-> None, overdue |-> FALSE, tries |-> runs[r].count,
                   outcome |-> "failed"]
  BY <1>2, NextJob
<1>4. s.owner # None /\ s.tries = MaxAttempts /\ s.tries = runs[r].count
  BY <1>1, <1>2, JobFields
<1>5. JobOf(r)' = Ledger!Unowned(s.tries, "failed")
  BY <1>3, <1>4 DEF Ledger!Unowned
<1>6. QED
  BY <1>4, <1>5 DEF JobStep, Ledger!Step, Ledger!GiveUp

LEMMA ReportedJob ==
  ASSUME LedgerInv, NEW r \in Runs, NEW outcome \in Outcomes, Reported(r, outcome)
  PROVE  JobStep(r)
<1> DEFINE s == JobOf(r)
           k == runs[r].count
<1>1. /\ Running(r) /\ k \in Numbers /\ runs'[r].count = k
      /\ runs'[r].status = RunAfter(outcome, k)
  BY DEF Reported
<1>2. s.owner # None /\ s.tries = k
  BY <1>1, JobFields
<1>3. k \in Nat /\ k <= MaxAttempts /\ MaxAttempts \in Nat
  BY <1>1, NumberBounds, MaxAttemptsAssumption
<1>4. CASE outcome = "succeeded"
  <2>1. runs'[r].status = "completed"
    BY <1>1, <1>4 DEF RunAfter
  <2>2. JobOf(r)' = [owner |-> None, overdue |-> FALSE, tries |-> k, outcome |-> "done"]
    BY <1>1, <2>1, NextJob
  <2>3. JobOf(r)' = Ledger!Unowned(s.tries, "done")
    BY <1>2, <2>2 DEF Ledger!Unowned
  <2>4. QED
    BY <1>2, <2>3 DEF JobStep, Ledger!Step, Ledger!Finish
<1>5. CASE outcome # "succeeded" /\ k < MaxAttempts
  <2>1. runs'[r].status = "retry_wait"
    BY <1>1, <1>5 DEF RunAfter
  <2>2. JobOf(r)' = [owner |-> None, overdue |-> FALSE, tries |-> k, outcome |-> "open"]
    BY <1>1, <2>1, NextJob
  <2>3. JobOf(r)' = Ledger!Unowned(s.tries, "open")
    BY <1>2, <2>2 DEF Ledger!Unowned
  <2>4. QED
    BY <1>2, <1>5, <2>3 DEF JobStep, Ledger!Step, Ledger!Release
<1>6. CASE outcome # "succeeded" /\ ~(k < MaxAttempts)
  <2>1. runs'[r].status = "failed"
    BY <1>1, <1>6 DEF RunAfter
  <2>2. k = MaxAttempts
    BY <1>3, <1>6
  <2>3. JobOf(r)' = [owner |-> None, overdue |-> FALSE, tries |-> k, outcome |-> "failed"]
    BY <1>1, <2>1, NextJob
  <2>4. JobOf(r)' = Ledger!Unowned(s.tries, "failed")
    BY <1>2, <2>3 DEF Ledger!Unowned
  <2>5. QED
    BY <1>2, <2>2, <2>4 DEF JobStep, Ledger!Step, Ledger!GiveUp
<1>7. QED
  BY <1>4, <1>5, <1>6

\* The ledger implements the leased job, for all runs at once: one owner at a
\* time, taken over only after its lease, at most MaxAttempts tries, one outcome.
THEOREM RefinesLeasedJob == Spec => ImplementsLeasedJob
<1> DEFINE jobs == [r \in Runs |-> JobOf(r)]
<1>1. Init => Ledger!Init
  <2>1. ASSUME Init, NEW r \in Runs PROVE JobOf(r) = Ledger!Unowned(0, "open")
    <3>1. runs[r].status = "absent" /\ runs[r].count = 0
      BY <2>1 DEF Init
    <3>2. QED
      BY <3>1 DEF JobOf, Running, Expired, Ledger!Unowned
  <2>2. QED
    BY <2>1 DEF Ledger!Init
<1>2. LedgerInv /\ [Next]_vars => [Ledger!Next]_jobs
  <2> SUFFICES ASSUME LedgerInv, [Next]_vars PROVE Ledger!Next
    OBVIOUS
  <2>1. ASSUME NEW r \in Runs PROVE JobStep(r)
    BY StepChangesRow, UnchangedJob, InsertedJob, TakenJob, GivenUpJob, ReportedJob
       DEF RowStep
  <2>2. QED
    BY <2>1 DEF Ledger!Next, JobStep
<1>3. QED
  BY <1>1, <1>2, LedgerInvariant, PTL DEF Spec, ImplementsLeasedJob, Ledger!Spec
================================================================================
