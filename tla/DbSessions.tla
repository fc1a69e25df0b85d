----------------------------- MODULE DbSessions -----------------------------
(***************************************************************************)
(* The database sessions of the application, one per request: what a       *)
(* request handler sees and changes between two awaits.                    *)
(*                                                                         *)
(* A session loads a row once and keeps that copy (the identity map) until *)
(* it ends.  Its changes are made to the copy and are sent to the database *)
(* before the next statement or at the commit (autoflush); a row that was  *)
(* sent is locked until the session ends.  An UPDATE sets the columns that *)
(* were changed, to values computed from the copy, whatever the row holds  *)
(* by then: the isolation is READ COMMITTED and no table of the modules    *)
(* below has a version column.                                             *)
(***************************************************************************)
EXTENDS Integers, FiniteSets

CONSTANTS
    Sessions,       \* the requests under way
    Rows,           \* the rows of the instance, <<table, key>>
    MaxFaults       \* bound: sessions that lose their connection

ASSUME FaultsBounded == MaxFaults \in Nat

VARIABLES
    table,          \* the committed rows
    session,        \* the sessions
    lost,           \* history: <<operation, row, column>> written over a change
                    \* committed after the session had loaded the row
    paid,           \* history: how often each cause was paid out
    faults

store == <<table, lost, paid>>

(* f, and what it leaves open as in g; the function of x alone.            *)
Over(f, g) == [x \in DOMAIN f \cup DOMAIN g |-> IF x \in DOMAIN f THEN f[x] ELSE g[x]]
Only(x, y) == [z \in {x} |-> y]

(* A row is a record of columns.  One that does not exist has no column.   *)
Absent == <<>>

Request(op, args) == Over(args, [op |-> op])

(* read: the copies loaded, wrote: the columns changed, gone: the rows     *)
(* deleted, held: the rows locked, old: the columns of its copies that     *)
(* have been changed since, pays: the causes it pays.                      *)
Opened(req) == [req |-> req, pc |-> "start", read |-> <<>>, wrote |-> <<>>,
                gone |-> {}, held |-> {}, old |-> {}, pays |-> {}]

Closed(k, pc) == [Opened(k.req) EXCEPT !.pc = pc]

At(s, op, pc) == session[s].req.op = op /\ session[s].pc = pc
Args(s) == session[s].req

Written(k, r) == IF r \in DOMAIN k.wrote THEN k.wrote[r] ELSE <<>>

(* The copy of r with the changes made to it.                              *)
Copy(k, r) ==
    IF r \in DOMAIN k.wrote THEN Over(k.wrote[r], k.read[r]) ELSE k.read[r]
Exists(k, r) == r \in DOMAIN k.wrote \/ k.read[r] # Absent

(* op(k), where k is evaluated once.                                       *)
With(op(_), k) == CHOOSE x \in {op(y) : y \in {k}} : TRUE

(* A row found before is not loaded again.                                 *)
Known(k) == {r \in DOMAIN k.read : Exists(k, r)}
LoadAll(k, S) ==
    With(LAMBDA x : [x EXCEPT !.read = Over([r \in S \ Known(x) |-> table[r]], @)], k)
Load(k, r) == LoadAll(k, {r})

(* Giving a column the value it has is no change.                          *)
Changes(copy, columns) ==
    [c \in {x \in DOMAIN columns :
              x \notin DOMAIN copy \/ copy[x] # columns[x]} |-> columns[c]]

(* The rows that f, a function of rows to columns, changes in a session.    *)
ChangedBy(k, f) == {r \in DOMAIN f : DOMAIN Changes(Copy(k, r), f[r]) # {}}

Merged(k, f) == [k EXCEPT !.wrote =
    Over([r \in ChangedBy(k, f) |-> Over(Changes(Copy(k, r), f[r]), Written(k, r))], @)]

SetEach(k, columnsOf) ==
    With(LAMBDA x : With(LAMBDA f : Merged(x, f), columnsOf), k)

Set(k, r, columns) == SetEach(k, Only(r, columns))

(* An INSERT: the row is new to the session.                               *)
Insert(k, r, columns) == Set([k EXCEPT !.read = Over(Only(r, Absent), @)], r, columns)
Delete(k, S) == [LoadAll(k, S) EXCEPT !.gone = @ \cup S]

Pay(k, cause) == [k EXCEPT !.pays = @ \cup {cause}]

----------------------------------------------------------------------------

Touched(k) == DOMAIN k.wrote \cup k.gone

(* No other session holds a row that k has to write.                       *)
Unlocked(s, k) ==
    \A u \in Sessions \ {s} : Touched(k) \cap session[u].held = {}

(* The statements fail on a row to insert whose key has been taken, and on *)
(* a row to update that has been deleted.  Deleting it again does not.     *)
Fails(k) ==
    \E r \in DOMAIN k.wrote : (k.read[r] = Absent) # (table[r] = Absent)

Flushed(k) == [k EXCEPT !.held = @ \cup Touched(k)]

Keep(s, k) == session' = [session EXCEPT ![s] = k]

(* The handler raises or returns: the session is rolled back and closed.   *)
End(s, how) ==
    /\ Keep(s, Closed(session[s], how))
    /\ UNCHANGED <<store, faults>>

Refuse(s) == End(s, "refused")

(* A statement: the pending changes are flushed, then it goes on at pc.    *)
Query(s, pending, pc) ==
  \E k \in {pending} :
    /\ Unlocked(s, k)
    /\ IF Fails(k)
       THEN End(s, "refused")
       ELSE /\ Keep(s, [Flushed(k) EXCEPT !.pc = pc])
            /\ UNCHANGED <<store, faults>>

\* Mutant: it does not wait.
QueryForUpdateNow(s, k, r, pc) ==
    Query(s, [Load(k, r) EXCEPT !.held = @ \cup {r}], pc)

(* SELECT ... FOR UPDATE waits for the row and then holds it.              *)
QueryForUpdate(s, k, r, pc) ==
    /\ \A u \in Sessions \ {s} : r \notin session[u].held
    /\ Query(s, [Load(k, r) EXCEPT !.held = @ \cup {r}], pc)

Cells(k) ==
    (UNION {{<<r, c>> : c \in DOMAIN Written(k, r)} : r \in DOMAIN k.wrote})
      \cup (UNION {{<<r, c>> : c \in DOMAIN k.read[r]} : r \in k.gone})

(* What is left of the session after a commit that more code follows: the  *)
(* copies are not expired.                                                 *)
Continued(k) ==
    [Opened(k.req) EXCEPT !.read = [r \in DOMAIN k.read |-> Copy(k, r)],
                          !.old = k.old \ Cells(k)]

CommitThen(s, pending, pc) ==
  \E k \in {pending} :
    /\ Unlocked(s, k)
    /\ IF Fails(k)
       THEN End(s, "refused")
       ELSE /\ table' = [r \in Rows |->
                 IF r \in k.gone THEN Absent
                 ELSE IF r \in DOMAIN k.wrote THEN Over(k.wrote[r], table[r])
                 ELSE table[r]]
            /\ lost' = lost \cup {<<k.req.op, x[1], x[2]>> : x \in Cells(k) \cap k.old}
            /\ paid' = [c \in k.pays \cup DOMAIN paid |->
                          (IF c \in DOMAIN paid THEN paid[c] ELSE 0)
                          + (IF c \in k.pays THEN 1 ELSE 0)]
            /\ session' = [u \in Sessions |->
                 IF u = s
                 THEN IF pc = "done" THEN Closed(k, pc)
                      ELSE [Continued(k) EXCEPT !.pc = pc]
                 ELSE [session[u] EXCEPT !.old = @ \cup
                         {x \in Cells(k) : x[1] \in DOMAIN session[u].read}]]
            /\ UNCHANGED faults

Commit(s, k) == CommitThen(s, k, "done")

(* A session that nobody has opened, in behaviours with fewer requests.    *)
Nobody == [op |-> "none"]

Ended(s) == session[s].pc \in {"done", "refused", "lost"} \/ session[s].req = Nobody

(* The connection of a request is lost, after its first statement.         *)
SessionLost(s) ==
    /\ ~Ended(s) /\ session[s].pc # "start" /\ faults < MaxFaults
    /\ faults' = faults + 1
    /\ Keep(s, Closed(session[s], "lost"))
    /\ UNCHANGED store

Start(script) == session = [s \in Sessions |-> Opened(script[s])]
=============================================================================
