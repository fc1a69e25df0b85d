-------------------------- MODULE ChainNodeProofs --------------------------
(***************************************************************************)
(* Theorems about the sessions of one node, for any certified chain and    *)
(* any number of sessions: the rows of its chain and the index, what       *)
(* leaves its mempool, and when no wallet is overdrawn; then what the      *)
(* sessions compute, and the type of every variable.                       *)
(***************************************************************************)
EXTENDS ChainNode, SequenceTheorems, FiniteSetTheorems, TLAPS

(* What a session has added: consecutive blocks from height b on.          *)
Continues(m, b) == \A i \in 1 .. Len(m.rows) : m.rows[i] = b + i - 1
Indexed(m, b) == m.index = b .. b + Len(m.rows) - 1

(* Records, whatever their fields hold.                                    *)
IsSession(m) ==
    m = [wallet |-> m.wallet, own |-> m.own, dirty |-> m.dirty,
         rows |-> m.rows, index |-> m.index, account |-> m.account]

IsTask(k) ==
    k = [pc |-> k.pc, kind |-> k.kind, todo |-> k.todo, tx |-> k.tx,
         sender |-> k.sender, base |-> k.base, mine |-> k.mine, save |-> k.save]

SessionOK(m) ==
    /\ IsSession(m)
    /\ m.rows \in Seq(Nat)
    /\ m.rows = <<>> => m.index = {}

(* A coroutine in a node with n rows.                                      *)
TaskOK(k, n) ==
    /\ IsTask(k)
    /\ k.pc \in {"idle", "tip", "tx", "apply", "check", "insert", "commit"}
    /\ k.base \in 0 .. n
    /\ k.todo \in Seq(Nat)
    /\ k.pc \notin {"idle", "commit"} => k.todo # <<>>
    /\ SessionOK(k.mine) /\ SessionOK(k.save)
    /\ k.pc = "tip" => k.mine = k.save
    /\ k.pc = "insert" => k.mine.rows # <<>>
    /\ k.kind = "gossip" /\ k.pc = "commit" => k.mine.rows # <<>>

(* What it has added to a table nobody else has changed since.             *)
InOrder(k) ==
    /\ Continues(k.mine, k.base)
    /\ Continues(k.save, k.base) /\ Indexed(k.save, k.base)
    /\ k.pc # "insert" => Indexed(k.mine, k.base)
    /\ k.pc \in {"tx", "apply", "check"} => Head(k.todo) = k.base + Len(k.mine.rows)
    /\ k.pc = "insert" =>
         /\ Head(k.todo) = k.base + Len(k.mine.rows) - 1
         /\ k.mine.index = k.base .. Head(k.todo) - 1

(* The invariant: until a block is committed on a tip that was replaced,   *)
(* the rows count up, the index follows them, and a session whose base is  *)
(* still the end of the table continues it.                                *)
ChainInv ==
    /\ Len(chain) \in Nat /\ rows \in Seq(Nat) /\ raced \in BOOLEAN
    /\ task = [t \in Tasks |-> task[t]]
    /\ \A t \in Tasks :
         /\ TaskOK(task[t], Len(rows))
         /\ ~raced /\ task[t].base = Len(rows) => InOrder(task[t])
    /\ ~raced =>
         /\ \A i \in 1 .. Len(rows) : rows[i] = i - 1
         /\ index = 0 .. Len(rows) - 1

----------------------------------------------------------------------------
(* Updates of the records                                                  *)

LEMMA WriteKeeps ==
  ASSUME NEW m, IsSession(m), NEW a, NEW w
  PROVE  /\ IsSession(Write(m, a, w))
         /\ Write(m, a, w).rows = m.rows
         /\ Write(m, a, w).index = m.index
<1>. DEFINE v == [m.wallet EXCEPT ![a] = w]
            p == [m EXCEPT !.wallet = v]
            q == [p EXCEPT !.own = @ \cup {a}]
            r == [q EXCEPT !.dirty = @ \cup {a}]
<1>1. /\ IsSession(p) /\ p.rows = m.rows /\ p.index = m.index
      /\ p.own = m.own /\ p.dirty = m.dirty
  BY DEF IsSession
<1>2. IsSession(q) /\ q.rows = p.rows /\ q.index = p.index /\ q.dirty = p.dirty
  <2>. HIDE DEF p
  <2>. QED
    BY <1>1 DEF IsSession
<1>3. IsSession(r) /\ r.rows = q.rows /\ r.index = q.index
  <2>. HIDE DEF q
  <2>. QED
    BY <1>2 DEF IsSession
<1>4. Write(m, a, w) = r
  BY <1>1, <1>2 DEF Write
<1>. HIDE DEF p, q, r
<1>. QED
  BY <1>1, <1>2, <1>3, <1>4

LEMMA MovedKeeps ==
  ASSUME NEW m, IsSession(m), NEW w
  PROVE  LET n == [m EXCEPT !.wallet = w] IN
         IsSession(n) /\ n.rows = m.rows /\ n.index = m.index
BY DEF IsSession

LEMMA FlushedKeeps ==
  ASSUME NEW t, IsSession(task[t].mine)
  PROVE  /\ IsSession(Flushed(t))
         /\ Flushed(t).rows = task[t].mine.rows
         /\ Flushed(t).index = task[t].mine.index
BY DEF IsSession, Flushed

LEMMA RowsKeeps ==
  ASSUME NEW m, IsSession(m), NEW rs
  PROVE  LET n == [m EXCEPT !.rows = rs] IN
         IsSession(n) /\ n.rows = rs /\ n.index = m.index
BY DEF IsSession

LEMMA IndexKeeps ==
  ASSUME NEW m, IsSession(m), NEW h, NEW acc
  PROVE  LET n == [m EXCEPT !.index = @ \cup {h}, !.account = acc] IN
         IsSession(n) /\ n.rows = m.rows /\ n.index = m.index \cup {h}
<1>. DEFINE p == [m EXCEPT !.index = @ \cup {h}]
            n == [m EXCEPT !.index = @ \cup {h}, !.account = acc]
<1>1. n = [p EXCEPT !.account = acc]
  OBVIOUS
<1>2. IsSession(p)
  BY DEF IsSession
<1>3. n.rows = m.rows
  BY DEF IsSession
<1>4. n.index = m.index \cup {h}
  BY DEF IsSession
<1>5. IsSession([p EXCEPT !.account = acc])
  <2>. HIDE DEF p
  <2>. QED
    BY <1>2 DEF IsSession
<1>. QED
  BY <1>1, <1>3, <1>4, <1>5

LEMMA IdleIs ==
  /\ IsTask(Idle) /\ IsSession(Nothing)
  /\ Idle.pc = "idle" /\ Idle.base = 0 /\ Idle.todo = <<>>
  /\ Idle.mine = Nothing /\ Idle.save = Nothing
  /\ Nothing.rows = <<>> /\ Nothing.index = {}
BY DEF Idle, Nothing, IsTask, IsSession

LEMMA IdleOK ==
  ASSUME NEW n \in Nat
  PROVE  TaskOK(Idle, n) /\ InOrder(Idle)
BY IdleIs DEF TaskOK, SessionOK, InOrder, Continues, Indexed

LEMMA ReturnedIs ==
  ASSUME NEW t, IsTask(task[t]), NEW m, NEW added, Returned(t, m, added) # Idle
  PROVE  LET k == task[t] n == Returned(t, m, added) IN
         /\ IsTask(n) /\ n.kind = k.kind /\ n.base = k.base
         /\ n.todo = Tail(k.todo) /\ n.mine = m /\ n.save = m
         /\ n.pc = IF Len(k.todo) > 1 THEN "tip" ELSE "commit"
         /\ n.pc = "commit" => k.kind = "batch" \/ added
BY DEF IsTask, Returned

(* The updates that messages and add_block make of a coroutine.            *)
Based(k, p, b) ==
    [k EXCEPT !.pc = p, !.base = b]
Minted(k, x, m) ==
    [k EXCEPT !.tx = x, !.mine = m]
Loaded(k, p, s, m) ==
    [k EXCEPT !.pc = p, !.sender = s, !.mine = m]
Applied(k, p, x, s, m) ==
    [k EXCEPT !.pc = p, !.tx = x, !.sender = s, !.mine = m]
Wrote(k, p, m) ==
    [k EXCEPT !.pc = p, !.mine = m]
Begun(k, p, kind, todo) ==
    [k EXCEPT !.pc = p, !.kind = kind, !.todo = todo]

LEMMA BasedIs ==
  ASSUME NEW k, IsTask(k), NEW p, NEW b
  PROVE  LET n == Based(k, p, b) IN
         /\ IsTask(n)
         /\ n.pc = p /\ n.kind = k.kind /\ n.todo = k.todo /\ n.base = b
         /\ n.mine = k.mine /\ n.save = k.save
<1>. DEFINE n == Based(k, p, b)
            k1 == [k EXCEPT !.pc = p]
            k2 == [k1 EXCEPT !.base = b]
<1>1. IsTask(k1)
  BY DEF IsTask
<1>2. IsTask(k2)
  <2>. HIDE DEF k1
  <2>. QED
    BY <1>1 DEF IsTask
<1>3. n = k2
  BY DEF IsTask, Based
<1>4. /\ n.pc = p /\ n.kind = k.kind /\ n.todo = k.todo /\ n.base = b
      /\ n.mine = k.mine /\ n.save = k.save
  BY DEF IsTask, Based
<1>. HIDE DEF k2
<1>. QED
  BY <1>2, <1>3, <1>4

LEMMA MintedIs ==
  ASSUME NEW k, IsTask(k), NEW x, NEW m
  PROVE  LET n == Minted(k, x, m) IN
         /\ IsTask(n)
         /\ n.pc = k.pc /\ n.kind = k.kind /\ n.todo = k.todo /\ n.base = k.base
         /\ n.mine = m /\ n.save = k.save
<1>. DEFINE n == Minted(k, x, m)
            k1 == [k EXCEPT !.tx = x]
            k2 == [k1 EXCEPT !.mine = m]
<1>1. IsTask(k1)
  BY DEF IsTask
<1>2. IsTask(k2)
  <2>. HIDE DEF k1
  <2>. QED
    BY <1>1 DEF IsTask
<1>3. n = k2
  BY DEF IsTask, Minted
<1>4. /\ n.pc = k.pc /\ n.kind = k.kind /\ n.todo = k.todo /\ n.base = k.base
      /\ n.mine = m /\ n.save = k.save
  BY DEF IsTask, Minted
<1>. HIDE DEF k2
<1>. QED
  BY <1>2, <1>3, <1>4

LEMMA LoadedIs ==
  ASSUME NEW k, IsTask(k), NEW p, NEW s, NEW m
  PROVE  LET n == Loaded(k, p, s, m) IN
         /\ IsTask(n)
         /\ n.pc = p /\ n.kind = k.kind /\ n.todo = k.todo /\ n.base = k.base
         /\ n.mine = m /\ n.save = k.save
<1>. DEFINE n == Loaded(k, p, s, m)
            k1 == [k EXCEPT !.pc = p]
            k2 == [k1 EXCEPT !.sender = s]
            k3 == [k2 EXCEPT !.mine = m]
<1>1. IsTask(k1)
  BY DEF IsTask
<1>2. IsTask(k2)
  <2>. HIDE DEF k1
  <2>. QED
    BY <1>1 DEF IsTask
<1>3. IsTask(k3)
  <2>. HIDE DEF k2
  <2>. QED
    BY <1>2 DEF IsTask
<1>4. n = k3
  BY DEF IsTask, Loaded
<1>5. /\ n.pc = p /\ n.kind = k.kind /\ n.todo = k.todo /\ n.base = k.base
      /\ n.mine = m /\ n.save = k.save
  BY DEF IsTask, Loaded
<1>. HIDE DEF k3
<1>. QED
  BY <1>3, <1>4, <1>5

LEMMA AppliedIs ==
  ASSUME NEW k, IsTask(k), NEW p, NEW x, NEW s, NEW m
  PROVE  LET n == Applied(k, p, x, s, m) IN
         /\ IsTask(n)
         /\ n.pc = p /\ n.kind = k.kind /\ n.todo = k.todo /\ n.base = k.base
         /\ n.mine = m /\ n.save = k.save
<1>. DEFINE n == Applied(k, p, x, s, m)
            k1 == [k EXCEPT !.pc = p]
            k2 == [k1 EXCEPT !.tx = x]
            k3 == [k2 EXCEPT !.sender = s]
            k4 == [k3 EXCEPT !.mine = m]
<1>1. IsTask(k1)
  BY DEF IsTask
<1>2. IsTask(k2)
  <2>. HIDE DEF k1
  <2>. QED
    BY <1>1 DEF IsTask
<1>3. IsTask(k3)
  <2>. HIDE DEF k2
  <2>. QED
    BY <1>2 DEF IsTask
<1>4. IsTask(k4)
  <2>. HIDE DEF k3
  <2>. QED
    BY <1>3 DEF IsTask
<1>5. n = k4
  BY DEF IsTask, Applied
<1>6. /\ n.pc = p /\ n.kind = k.kind /\ n.todo = k.todo /\ n.base = k.base
      /\ n.mine = m /\ n.save = k.save
  BY DEF IsTask, Applied
<1>. HIDE DEF k4
<1>. QED
  BY <1>4, <1>5, <1>6

LEMMA WroteIs ==
  ASSUME NEW k, IsTask(k), NEW p, NEW m
  PROVE  LET n == Wrote(k, p, m) IN
         /\ IsTask(n)
         /\ n.pc = p /\ n.kind = k.kind /\ n.todo = k.todo /\ n.base = k.base
         /\ n.mine = m /\ n.save = k.save
<1>. DEFINE n == Wrote(k, p, m)
            k1 == [k EXCEPT !.pc = p]
            k2 == [k1 EXCEPT !.mine = m]
<1>1. IsTask(k1)
  BY DEF IsTask
<1>2. IsTask(k2)
  <2>. HIDE DEF k1
  <2>. QED
    BY <1>1 DEF IsTask
<1>3. n = k2
  BY DEF IsTask, Wrote
<1>4. /\ n.pc = p /\ n.kind = k.kind /\ n.todo = k.todo /\ n.base = k.base
      /\ n.mine = m /\ n.save = k.save
  BY DEF IsTask, Wrote
<1>. HIDE DEF k2
<1>. QED
  BY <1>2, <1>3, <1>4

LEMMA BegunIs ==
  ASSUME NEW k, IsTask(k), NEW p, NEW kind, NEW todo
  PROVE  LET n == Begun(k, p, kind, todo) IN
         /\ IsTask(n)
         /\ n.pc = p /\ n.kind = kind /\ n.todo = todo /\ n.base = k.base
         /\ n.mine = k.mine /\ n.save = k.save
<1>. DEFINE n == Begun(k, p, kind, todo)
            k1 == [k EXCEPT !.pc = p]
            k2 == [k1 EXCEPT !.kind = kind]
            k3 == [k2 EXCEPT !.todo = todo]
<1>1. IsTask(k1)
  BY DEF IsTask
<1>2. IsTask(k2)
  <2>. HIDE DEF k1
  <2>. QED
    BY <1>1 DEF IsTask
<1>3. IsTask(k3)
  <2>. HIDE DEF k2
  <2>. QED
    BY <1>2 DEF IsTask
<1>4. n = k3
  BY DEF IsTask, Begun
<1>5. /\ n.pc = p /\ n.kind = kind /\ n.todo = todo /\ n.base = k.base
      /\ n.mine = k.mine /\ n.save = k.save
  BY DEF IsTask, Begun
<1>. HIDE DEF k3
<1>. QED
  BY <1>3, <1>4, <1>5

(* The session m after the flush of a row for height h.                    *)
Grown(m, h) == [m EXCEPT !.rows = Append(@, h)]

LEMMA GrownIs ==
  ASSUME NEW m, IsSession(m), NEW h
  PROVE  /\ IsSession(Grown(m, h))
         /\ Grown(m, h).rows = Append(m.rows, h)
         /\ Grown(m, h).index = m.index
<1>. DEFINE rs == Append(m.rows, h)
            n == [m EXCEPT !.rows = rs]
<1>1. Grown(m, h) = n
  BY DEF Grown
<1>2. IsSession(n) /\ n.rows = rs /\ n.index = m.index
  <2>. HIDE DEF rs
  <2>. QED
    BY RowsKeeps
<1>. HIDE DEF n
<1>. QED
  BY <1>1, <1>2

----------------------------------------------------------------------------
(* Steps of one coroutine                                                  *)

Others == <<chain, rows, index, raced>>

LEMMA UpdateOne ==
  ASSUME NEW S, NEW f, f = [u \in S |-> f[u]], NEW t \in S, NEW k
  PROVE  [f EXCEPT ![t] = k] = [u \in S |-> IF u = t THEN k ELSE f[u]]
OBVIOUS

LEMMA TailIs ==
  ASSUME NEW s \in Seq(Nat), s # <<>>
  PROVE  Tail(s) \in Seq(Nat) /\ (Len(s) > 1 => Tail(s) # <<>>)
<1>. DEFINE r == Tail(s)
<1>1. r \in Seq(Nat) /\ Len(r) = Len(s) - 1
  BY HeadTailProperties
<1>2. Len(s) \in Nat
  BY LenProperties
<1>3. r = <<>> => Len(r) = 0
  BY EmptySeq
<1>. HIDE DEF r
<1>4. r \in Seq(Nat) /\ (Len(s) > 1 => r # <<>>)
  BY <1>1, <1>2, <1>3
<1>. QED
  BY <1>4 DEF r

LEMMA OneTask ==
  ASSUME ChainInv, NEW t \in Tasks, UNCHANGED Others,
         task' = [u \in Tasks |-> IF u = t THEN task'[t] ELSE task[u]],
         TaskOK(task'[t], Len(rows)),
         ~raced /\ task'[t].base = Len(rows) => InOrder(task'[t])
  PROVE  ChainInv'
<1>1. /\ chain' = chain /\ rows' = rows /\ index' = index /\ raced' = raced
  BY DEF Others
<1>2. ASSUME NEW u \in Tasks
      PROVE  /\ TaskOK(task'[u], Len(rows))
             /\ ~raced /\ task'[u].base = Len(rows) => InOrder(task'[u])
  BY DEF ChainInv
<1>3. task' = [u \in Tasks |-> task'[u]]
  OBVIOUS
<1>. QED
  BY <1>1, <1>2, <1>3 DEF ChainInv

(* add_block has returned.                                                 *)
LEMMA ReturnedOK ==
  ASSUME ChainInv, NEW t \in Tasks, NEW m, NEW added \in BOOLEAN, UNCHANGED Others,
         task' = [task EXCEPT ![t] = Returned(t, m, added)],
         task[t].pc \notin {"idle", "commit"},
         SessionOK(m), added => m.rows # <<>>,
         ~raced /\ task[t].base = Len(rows) =>
             Continues(m, task[t].base) /\ Indexed(m, task[t].base)
  PROVE  ChainInv'
<1>. DEFINE k == task[t]
            n == Returned(t, m, added)
<1>1. task' = [u \in Tasks |-> IF u = t THEN n ELSE task[u]]
  <2>1. task = [u \in Tasks |-> task[u]]
    BY DEF ChainInv
  <2>. QED
    BY <2>1, UpdateOne
<1>2. task'[t] = n
  BY <1>1
<1>3. Len(rows) \in Nat
  BY LenProperties DEF ChainInv
<1>4. CASE n = Idle
  BY <1>1, <1>2, <1>3, <1>4, IdleOK, OneTask
<1>5. CASE n # Idle
  <2>1. TaskOK(k, Len(rows))
    BY DEF ChainInv
  <2>2. /\ IsTask(n) /\ n.kind = k.kind /\ n.base = k.base
        /\ n.todo = Tail(k.todo) /\ n.mine = m /\ n.save = m
        /\ n.pc = IF Len(k.todo) > 1 THEN "tip" ELSE "commit"
        /\ n.pc = "commit" => k.kind = "batch" \/ added
    BY <1>5, <2>1, ReturnedIs DEF TaskOK
  <2>3. k.todo \in Seq(Nat) /\ k.todo # <<>>
    BY <2>1 DEF TaskOK
  <2>4. Tail(k.todo) \in Seq(Nat) /\ (Len(k.todo) > 1 => Tail(k.todo) # <<>>)
    BY <2>3, TailIs
  <2>5. TaskOK(n, Len(rows))
    BY <2>1, <2>2, <2>4 DEF TaskOK
  <2>6. ~raced /\ n.base = Len(rows) => InOrder(n)
    BY <2>2 DEF InOrder
  <2>. QED
    BY <1>1, <1>2, <2>5, <2>6, OneTask
<1>. QED
  BY <1>4, <1>5

LEMMA RefuseOK ==
  ASSUME ChainInv, NEW t \in Tasks, task[t].pc \notin {"idle", "commit"},
         Refuse(t), UNCHANGED Others
  PROVE  ChainInv'
<1>1. SessionOK(task[t].save)
  BY DEF ChainInv, TaskOK
<1>2. ~raced /\ task[t].base = Len(rows) =>
         Continues(task[t].save, task[t].base) /\ Indexed(task[t].save, task[t].base)
  BY DEF ChainInv, InOrder
<1>3. task' = [task EXCEPT ![t] = Returned(t, task[t].save, FALSE)]
  BY DEF Refuse
<1>. QED
  BY <1>1, <1>2, <1>3, ReturnedOK

(* What a session writes to the wallets changes neither rows nor index.    *)
LEMMA Goes ==
  ASSUME ChainInv, NEW t \in Tasks, UNCHANGED Others,
         task' = [u \in Tasks |-> IF u = t THEN task'[t] ELSE task[u]],
         IsTask(task'[t]), IsSession(task'[t].mine),
         task'[t].mine.rows = task[t].mine.rows,
         task'[t].mine.index = task[t].mine.index,
         task'[t].save = task[t].save, task'[t].todo = task[t].todo,
         task'[t].base = task[t].base,
         task[t].pc \in {"tx", "apply"}, task'[t].pc \in {"tx", "apply", "check"}
  PROVE  ChainInv'
<1>. DEFINE k == task[t]
            n == task'[t]
<1>1. TaskOK(k, Len(rows))
  BY DEF ChainInv
<1>2. TaskOK(n, Len(rows))
  BY <1>1 DEF TaskOK, SessionOK
<1>3. ~raced /\ k.base = Len(rows) => InOrder(k)
  BY DEF ChainInv
<1>4. ~raced /\ n.base = Len(rows) => InOrder(n)
  BY <1>3 DEF InOrder, Continues, Indexed
<1>. QED
  BY <1>2, <1>4, OneTask

----------------------------------------------------------------------------
(* The actions                                                             *)

LEMMA BeginOK ==
  ASSUME ChainInv, NEW t \in Tasks, UNCHANGED Others, NEW kind, NEW todo \in Seq(Nat),
         todo # <<>>, Begin(t, kind, todo)
  PROVE  ChainInv'
<1>. DEFINE n == Begun(Idle, "tip", kind, todo)
<1>1. /\ IsTask(n) /\ n.pc = "tip" /\ n.kind = kind /\ n.todo = todo
      /\ n.base = 0 /\ n.mine = Nothing /\ n.save = Nothing
  <2>1. IsTask(Idle)
    BY IdleIs
  <2>2. /\ IsTask(n) /\ n.pc = "tip" /\ n.kind = kind /\ n.todo = todo
        /\ n.base = Idle.base /\ n.mine = Idle.mine /\ n.save = Idle.save
    BY <2>1, BegunIs
  <2>. HIDE DEF n
  <2>. QED
    BY <2>2, IdleIs
<1>2. task = [u \in Tasks |-> task[u]] /\ Len(rows) \in Nat
  BY LenProperties DEF ChainInv
<1>3. task' = [u \in Tasks |-> IF u = t THEN n ELSE task[u]]
  <2>1. task' = [task EXCEPT ![t] = n]
    BY DEF Begin, Begun
  <2>. HIDE DEF n
  <2>. QED
    BY <1>2, <2>1, UpdateOne
<1>. HIDE DEF n
<1>4. TaskOK(n, Len(rows)) /\ InOrder(n)
  BY <1>1, <1>2, IdleIs DEF TaskOK, SessionOK, InOrder, Continues, Indexed
<1>5. task'[t] = n
  BY <1>3
<1>. QED
  BY <1>3, <1>4, <1>5, OneTask

LEMMA ReadTipOK ==
  ASSUME ChainInv, NEW t \in Tasks, ReadTip(t)
  PROVE  ChainInv'
<1>. DEFINE k == task[t]
            b == IF k.mine.rows = <<>> THEN Len(rows) ELSE k.base
            n == Based(k, "tx", b)
<1>0. UNCHANGED Others
  BY DEF ReadTip, Others, store, memory
<1>1. /\ k.pc = "tip"
      /\ \/ Refuse(t)
         \/ /\ Head(k.todo) = Tip(t) + 1
            /\ task' = [task EXCEPT ![t].pc = "tx", ![t].base = b]
  BY DEF ReadTip
<1>2. CASE Refuse(t)
  BY <1>0, <1>1, <1>2, RefuseOK
<1>3. CASE /\ Head(k.todo) = Tip(t) + 1
           /\ task' = [task EXCEPT ![t].pc = "tx", ![t].base = b]
  <2>1. task = [u \in Tasks |-> task[u]] /\ Len(rows) \in Nat /\ TaskOK(k, Len(rows))
    BY LenProperties DEF ChainInv
  <2>2. task' = [u \in Tasks |-> IF u = t THEN n ELSE task[u]]
    BY <1>3, <2>1 DEF Based
  <2>3. /\ IsTask(n) /\ n.pc = "tx" /\ n.base = b /\ n.todo = k.todo /\ n.kind = k.kind
        /\ n.mine = k.mine /\ n.save = k.save
    <3>1. IsTask(k)
      BY <2>1 DEF TaskOK
    <3>. HIDE DEF k, b
    <3>. QED
      BY <3>1, BasedIs
  <2>4. task'[t] = n
    BY <2>2
  <2>. HIDE DEF n
  <2>5. TaskOK(n, Len(rows))
    BY <1>1, <2>1, <2>3 DEF TaskOK
  <2>6. ASSUME ~raced, b = Len(rows)
        PROVE  InOrder(n)
    <3>1. k.mine = k.save /\ k.mine.rows \in Seq(Nat) /\ (k.mine.rows = <<>> => k.mine.index = {})
      BY <1>1, <2>1 DEF TaskOK, SessionOK
    <3>2. CASE k.mine.rows = <<>>
      <4>1. Len(k.mine.rows) = 0
        BY <3>2, EmptySeq
      <4>2. Head(k.todo) = Len(rows)
        <5>1. CASE rows = <<>>
          BY <1>3, <3>2, <5>1, EmptySeq DEF Tip
        <5>2. CASE rows # <<>>
          <6>1. Len(rows) \in 1 .. Len(rows) /\ rows[Len(rows)] = Len(rows) - 1
            BY <2>1, <2>6, <5>2, EmptySeq DEF ChainInv
          <6>2. Tip(t) = rows[Len(rows)]
            BY <3>2, <5>2 DEF Tip, Last
          <6>. QED
            BY <1>3, <2>1, <6>1, <6>2
        <5>. QED
          BY <5>1, <5>2
      <4>3. Len(k.save.rows) = 0 /\ k.save.index = {}
        BY <3>1, <3>2, <4>1
      <4>. HIDE DEF k, b
      <4>4. Continues(k.mine, b) /\ Continues(k.save, b)
        BY <4>1, <4>3 DEF Continues
      <4>5. Indexed(k.mine, b) /\ Indexed(k.save, b)
        BY <2>1, <2>6, <3>1, <3>2, <4>1, <4>3 DEF Indexed
      <4>6. Head(n.todo) = b + Len(n.mine.rows)
        BY <2>1, <2>3, <2>6, <4>1, <4>2
      <4>. QED
        BY <2>3, <4>4, <4>5, <4>6 DEF InOrder
    <3>3. CASE k.mine.rows # <<>>
      <4>1. InOrder(k) /\ b = k.base
        BY <2>6, <3>3 DEF ChainInv
      <4>2. Len(k.mine.rows) \in 1 .. Len(k.mine.rows)
        BY <3>1, <3>3, LenProperties, EmptySeq
      <4>3. Tip(t) = k.base + Len(k.mine.rows) - 1
        BY <3>3, <4>1, <4>2 DEF Tip, Last, InOrder, Continues
      <4>4. Head(k.todo) = k.base + Len(k.mine.rows)
        BY <1>3, <2>1, <4>2, <4>3 DEF TaskOK
      <4>. QED
        BY <1>1, <2>3, <4>1, <4>4 DEF InOrder
    <3>. QED
      BY <3>2, <3>3
  <2>. QED
    BY <1>0, <2>2, <2>3, <2>4, <2>5, <2>6, OneTask
<1>. QED
  BY <1>1, <1>2, <1>3

LEMMA ApplyMintOK ==
  ASSUME ChainInv, NEW t \in Tasks, ApplyMint(t)
  PROVE  ChainInv'
<1>. DEFINE k == task[t]
            tx == CurrentTx(t)
            w == Read(t, tx.to)
            was == IF w = NoWallet THEN Empty ELSE w
            m == Write(Flushed(t), tx.to, [was EXCEPT !.bal = @ + tx.amount])
            n == Minted(k, k.tx + 1, m)
<1>0. UNCHANGED Others
  BY DEF ApplyMint, Step, Others, store, memory
<1>1. /\ k.pc = "tx"
      /\ \/ Refuse(t)
         \/ task' = [task EXCEPT ![t].tx = @ + 1, ![t].mine = m]
  BY DEF ApplyMint
<1>2. CASE Refuse(t)
  BY <1>0, <1>1, <1>2, RefuseOK
<1>3. CASE task' = [task EXCEPT ![t].tx = @ + 1, ![t].mine = m]
  <2>1. task = [u \in Tasks |-> task[u]] /\ TaskOK(k, Len(rows))
    BY DEF ChainInv
  <2>2. IsTask(k) /\ IsSession(k.mine)
    BY <2>1 DEF TaskOK, SessionOK
  <2>3. IsSession(m) /\ m.rows = k.mine.rows /\ m.index = k.mine.index
    BY <2>2, FlushedKeeps, WriteKeeps
  <2>. HIDE DEF m
  <2>4. task' = [u \in Tasks |-> IF u = t THEN n ELSE task[u]]
    BY <1>3, <2>1 DEF Minted
  <2>5. task'[t] = n
    BY <2>4
  <2>6. /\ IsTask(n) /\ n.pc = "tx" /\ n.todo = k.todo /\ n.base = k.base
        /\ n.mine = m /\ n.save = k.save
    BY <1>1, <2>2, MintedIs
  <2>. HIDE DEF n
  <2>. QED
    BY <1>0, <1>1, <2>3, <2>4, <2>5, <2>6, Goes
<1>. QED
  BY <1>1, <1>2, <1>3

LEMMA ReadSenderOK ==
  ASSUME ChainInv, NEW t \in Tasks, ReadSender(t)
  PROVE  ChainInv'
<1>. DEFINE k == task[t]
            s == Read(t, CurrentTx(t).from)
            m == Flushed(t)
            n == Loaded(k, "apply", s, m)
<1>0. UNCHANGED Others
  BY DEF ReadSender, Step, Others, store, memory
<1>1. /\ k.pc = "tx"
      /\ task' = [task EXCEPT ![t].pc = "apply", ![t].sender = s, ![t].mine = m]
  BY DEF ReadSender
<1>2. task = [u \in Tasks |-> task[u]] /\ TaskOK(k, Len(rows))
  BY DEF ChainInv
<1>3. IsTask(k) /\ IsSession(k.mine)
  BY <1>2 DEF TaskOK, SessionOK
<1>4. IsSession(m) /\ m.rows = k.mine.rows /\ m.index = k.mine.index
  BY <1>3, FlushedKeeps
<1>. HIDE DEF m, s
<1>5. task' = [u \in Tasks |-> IF u = t THEN n ELSE task[u]]
  BY <1>1, <1>2 DEF Loaded
<1>6. task'[t] = n
  BY <1>5
<1>7. /\ IsTask(n) /\ n.pc = "apply" /\ n.todo = k.todo /\ n.base = k.base
      /\ n.mine = m /\ n.save = k.save
  BY <1>3, LoadedIs
<1>. HIDE DEF n
<1>. QED
  BY <1>0, <1>1, <1>4, <1>5, <1>6, <1>7, Goes

LEMMA ApplyTransferOK ==
  ASSUME ChainInv, NEW t \in Tasks, ApplyTransfer(t)
  PROVE  ChainInv'
<1>. DEFINE k == task[t]
            tx == CurrentTx(t)
            s == k.sender
            r == IF tx.to = tx.from THEN s ELSE Read(t, tx.to)
            p == Write(k.mine, tx.from, s)
            q == Write(p, tx.to, r)
            m == [q EXCEPT !.wallet = Move(@, tx)]
            n == Applied(k, "tx", k.tx + 1, NoWallet, m)
<1>0. UNCHANGED Others
  BY DEF ApplyTransfer, Step, Others, store, memory
<1>1. /\ k.pc = "apply"
      /\ \/ Refuse(t)
         \/ task' = [task EXCEPT ![t].pc = "tx", ![t].tx = @ + 1,
                         ![t].sender = NoWallet, ![t].mine = m]
  BY DEF ApplyTransfer
<1>2. CASE Refuse(t)
  BY <1>0, <1>1, <1>2, RefuseOK
<1>3. CASE task' = [task EXCEPT ![t].pc = "tx", ![t].tx = @ + 1,
                        ![t].sender = NoWallet, ![t].mine = m]
  <2>1. task = [u \in Tasks |-> task[u]] /\ TaskOK(k, Len(rows))
    BY DEF ChainInv
  <2>2. IsTask(k) /\ IsSession(k.mine)
    BY <2>1 DEF TaskOK, SessionOK
  <2>3. IsSession(q) /\ q.rows = k.mine.rows /\ q.index = k.mine.index
    BY <2>2, WriteKeeps
  <2>4. IsSession(m) /\ m.rows = k.mine.rows /\ m.index = k.mine.index
    <3>. HIDE DEF q
    <3>. QED
      BY <2>3, MovedKeeps
  <2>. HIDE DEF m
  <2>5. task' = [u \in Tasks |-> IF u = t THEN n ELSE task[u]]
    BY <1>3, <2>1 DEF Applied
  <2>6. task'[t] = n
    BY <2>5
  <2>7. /\ IsTask(n) /\ n.pc = "tx" /\ n.todo = k.todo /\ n.base = k.base
        /\ n.mine = m /\ n.save = k.save
    BY <2>2, AppliedIs
  <2>. HIDE DEF n
  <2>. QED
    BY <1>0, <1>1, <2>4, <2>5, <2>6, <2>7, Goes
<1>. QED
  BY <1>1, <1>2, <1>3

LEMMA ApplyRewardOK ==
  ASSUME ChainInv, NEW t \in Tasks, ApplyReward(t)
  PROVE  ChainInv'
<1>. DEFINE k == task[t]
            v == Current(t).validator
            w == Read(t, v)
            paid == [w EXCEPT !.bal = @ + Reward(Current(t))]
            m == IF w = NoWallet THEN Flushed(t) ELSE Write(Flushed(t), v, paid)
            n == Wrote(k, "check", m)
<1>0. UNCHANGED Others
  BY DEF ApplyReward, Step, Others, store, memory
<1>1. /\ k.pc = "tx"
      /\ task' = [task EXCEPT ![t].pc = "check", ![t].mine = m]
  BY DEF ApplyReward
<1>2. task = [u \in Tasks |-> task[u]] /\ TaskOK(k, Len(rows))
  BY DEF ChainInv
<1>3. IsTask(k) /\ IsSession(k.mine)
  BY <1>2 DEF TaskOK, SessionOK
<1>4. IsSession(m) /\ m.rows = k.mine.rows /\ m.index = k.mine.index
  <2>. HIDE DEF w, paid, v
  <2>. QED
    BY <1>3, FlushedKeeps, WriteKeeps
<1>. HIDE DEF m
<1>5. task' = [u \in Tasks |-> IF u = t THEN n ELSE task[u]]
  BY <1>1, <1>2 DEF Wrote
<1>6. task'[t] = n
  BY <1>5
<1>7. /\ IsTask(n) /\ n.pc = "check" /\ n.todo = k.todo /\ n.base = k.base
      /\ n.mine = m /\ n.save = k.save
  BY <1>3, WroteIs
<1>. HIDE DEF n
<1>. QED
  BY <1>0, <1>1, <1>4, <1>5, <1>6, <1>7, Goes

LEMMA CheckIndexOK ==
  ASSUME ChainInv, NEW t \in Tasks, CheckIndex(t)
  PROVE  ChainInv'
<1>. DEFINE k == task[t]
            h == Head(k.todo)
            m == [Flushed(t) EXCEPT !.rows = Append(@, h)]
            n == Wrote(k, "insert", m)
<1>1. /\ k.pc = "check"
      /\ IF h \in index
         THEN Added(t, m)
         ELSE task' = [task EXCEPT ![t].pc = "insert", ![t].mine = m] /\ Step(t)
  BY DEF CheckIndex
<1>2. task = [u \in Tasks |-> task[u]] /\ TaskOK(k, Len(rows)) /\ Len(rows) \in Nat
  BY LenProperties DEF ChainInv
<1>3. /\ IsTask(k) /\ IsSession(k.mine) /\ k.mine.rows \in Seq(Nat)
      /\ k.todo \in Seq(Nat) /\ k.todo # <<>> /\ k.base \in Nat
  BY <1>1, <1>2 DEF TaskOK, SessionOK
<1>4. h \in Nat
  BY <1>3, HeadTailProperties
<1>5. IsSession(m) /\ m.rows = Append(k.mine.rows, h) /\ m.index = k.mine.index
  <2>. DEFINE f == Flushed(t)
  <2>1. IsSession(f) /\ f.rows = k.mine.rows /\ f.index = k.mine.index
    BY <1>3, FlushedKeeps
  <2>2. m = Grown(f, h)
    BY DEF Grown
  <2>. HIDE DEF f, h, m
  <2>. QED
    BY <2>1, <2>2, GrownIs
<1>. HIDE DEF m, h
<1>6. /\ m.rows \in Seq(Nat) /\ m.rows # <<>>
      /\ Len(m.rows) = Len(k.mine.rows) + 1 /\ Len(k.mine.rows) \in Nat
      /\ \A i \in 1 .. Len(k.mine.rows) : m.rows[i] = k.mine.rows[i]
      /\ m.rows[Len(k.mine.rows) + 1] = h
  <2>. DEFINE s == k.mine.rows
  <2>. HIDE DEF s
  <2>0. s \in Seq(Nat) /\ m.rows = Append(s, h)
    BY <1>3, <1>5 DEF s
  <2>1. /\ Append(s, h) \in Seq(Nat) /\ Append(s, h) # <<>>
        /\ Len(Append(s, h)) = Len(s) + 1 /\ Len(s) \in Nat
    BY <1>4, <2>0, AppendProperties, LenProperties
  <2>2. /\ \A i \in 1 .. Len(s) : Append(s, h)[i] = s[i]
        /\ Append(s, h)[Len(s) + 1] = h
    BY <1>4, <2>0, AppendProperties
  <2>. QED
    BY <2>0, <2>1, <2>2 DEF s
<1>7. SessionOK(m)
  BY <1>5, <1>6 DEF SessionOK
<1>8. ~raced /\ k.base = Len(rows) =>
        /\ h = Len(rows) + Len(k.mine.rows)
        /\ index = 0 .. Len(rows) - 1
        /\ InOrder(k)
  BY <1>1 DEF ChainInv, InOrder, h
<1>9. CASE h \in index
  <2>1. ~(~raced /\ k.base = Len(rows))
    BY <1>2, <1>6, <1>8, <1>9
  <2>2. Added(t, m)
    BY <1>1, <1>9
  <2>3. UNCHANGED Others /\ task' = [task EXCEPT ![t] = Returned(t, m, TRUE)]
    BY <2>2 DEF Added, Others, store
  <2>. QED
    BY <1>1, <1>6, <1>7, <2>1, <2>3, ReturnedOK
<1>10. CASE h \notin index
  <2>1. /\ task' = [task EXCEPT ![t].pc = "insert", ![t].mine = m]
        /\ UNCHANGED Others
    BY <1>1, <1>10 DEF Step, Others, store, memory
  <2>2. task' = [u \in Tasks |-> IF u = t THEN n ELSE task[u]]
    BY <1>2, <2>1 DEF Wrote
  <2>3. task'[t] = n
    BY <2>2
  <2>4. /\ IsTask(n) /\ n.pc = "insert" /\ n.todo = k.todo /\ n.base = k.base
        /\ n.kind = k.kind /\ n.mine = m /\ n.save = k.save
    BY <1>3, WroteIs
  <2>. HIDE DEF n
  <2>5. TaskOK(n, Len(rows))
    BY <1>1, <1>2, <1>6, <1>7, <2>4 DEF TaskOK
  <2>6. ASSUME ~raced, n.base = Len(rows)
        PROVE  InOrder(n)
    <3>1. InOrder(k) /\ h = k.base + Len(k.mine.rows)
      BY <1>8, <2>4, <2>6
    <3>2. Continues(m, k.base)
      <4>1. \A i \in 1 .. Len(k.mine.rows) : k.mine.rows[i] = k.base + i - 1
        BY <3>1 DEF InOrder, Continues
      <4>2. \A i \in 1 .. Len(m.rows) : i \in 1 .. Len(k.mine.rows) \/ i = Len(k.mine.rows) + 1
        BY <1>6
      <4>3. m.rows[Len(k.mine.rows) + 1] = k.base + (Len(k.mine.rows) + 1) - 1
        BY <1>3, <1>6, <3>1
      <4>. QED
        BY <1>6, <4>1, <4>2, <4>3 DEF Continues
    <3>3. m.index = k.base .. h - 1
      <4>1. k.mine.index = k.base .. k.base + Len(k.mine.rows) - 1
        BY <1>1, <3>1 DEF InOrder, Indexed
      <4>2. k.base + Len(k.mine.rows) - 1 = h - 1
        <5>1. h = k.base + Len(k.mine.rows)
          BY <3>1
        <5>2. k.base \in Nat /\ Len(k.mine.rows) \in Nat
          BY <1>3, <1>6
        <5>. HIDE DEF k
        <5>. QED
          BY <5>1, <5>2
      <4>. QED
        BY <1>5, <4>1, <4>2
    <3>4. h = k.base + Len(m.rows) - 1
      BY <1>3, <1>6, <3>1
    <3>. QED
      BY <2>4, <3>1, <3>2, <3>3, <3>4 DEF InOrder, h
  <2>. QED
    BY <2>1, <2>2, <2>3, <2>5, <2>6, OneTask
<1>. QED
  BY <1>9, <1>10

LEMMA InsertIndexOK ==
  ASSUME ChainInv, NEW t \in Tasks, InsertIndex(t)
  PROVE  ChainInv'
<1>. DEFINE k == task[t]
            h == Head(k.todo)
            acc == IF k.mine.index = {} THEN account ELSE k.mine.account
            new == IndexBlock(acc, Current(t))
            m == [k.mine EXCEPT !.index = @ \cup {h}, !.account = new]
<1>1. /\ k.pc = "insert"
      /\ IF h \in index THEN Refuse(t) /\ Step(t) ELSE Added(t, m)
  BY DEF InsertIndex
<1>2. task = [u \in Tasks |-> task[u]] /\ TaskOK(k, Len(rows)) /\ Len(rows) \in Nat
  BY LenProperties DEF ChainInv
<1>3. /\ IsSession(k.mine) /\ k.mine.rows \in Seq(Nat) /\ k.mine.rows # <<>>
      /\ k.base \in Nat /\ Len(k.mine.rows) \in Nat
  BY <1>1, <1>2, LenProperties DEF TaskOK, SessionOK
<1>4. IsSession(m) /\ m.rows = k.mine.rows /\ m.index = k.mine.index \cup {h}
  <2>. HIDE DEF h, new
  <2>. QED
    BY <1>3, IndexKeeps
<1>. HIDE DEF m
<1>5. SessionOK(m)
  BY <1>3, <1>4 DEF SessionOK
<1>6. CASE h \in index
  <2>1. Refuse(t) /\ UNCHANGED Others
    BY <1>1, <1>6 DEF Step, Others, store, memory
  <2>. QED
    BY <1>1, <2>1, RefuseOK
<1>7. CASE h \notin index
  <2>1. UNCHANGED Others /\ task' = [task EXCEPT ![t] = Returned(t, m, TRUE)]
    BY <1>1, <1>7 DEF Added, Others, store
  <2>2. ASSUME ~raced, k.base = Len(rows)
        PROVE  Continues(m, k.base) /\ Indexed(m, k.base)
    <3>1. InOrder(k)
      BY <2>2 DEF ChainInv
    <3>2. h = k.base + Len(m.rows) - 1 /\ k.mine.index = k.base .. h - 1
      BY <1>1, <1>4, <3>1 DEF InOrder
    <3>3. Len(m.rows) \in Nat \ {0}
      BY <1>3, <1>4, EmptySeq
    <3>4. (k.base .. h - 1) \cup {h} = k.base .. h
      <4>. HIDE DEF h
      <4>. QED
        BY <1>3, <3>2, <3>3
    <3>5. m.index = k.base .. k.base + Len(m.rows) - 1
      BY <1>4, <3>2, <3>4
    <3>. QED
      BY <1>4, <3>1, <3>5 DEF InOrder, Continues, Indexed
  <2>. QED
    BY <1>1, <1>3, <1>4, <1>5, <2>1, <2>2, ReturnedOK
<1>. QED
  BY <1>6, <1>7

LEMMA SplicedIs ==
  ASSUME NEW s \in Seq(Nat), NEW m \in Seq(Nat), NEW p \in 0 .. Len(s)
  PROVE  LET r == SubSeq(s, 1, p) \o m \o SubSeq(s, p + 1, Len(s)) IN
         r \in Seq(Nat) /\ Len(r) = Len(s) + Len(m)
<1>. DEFINE f == SubSeq(s, 1, p)
            g == SubSeq(s, p + 1, Len(s))
<1>1. /\ Len(s) \in Nat /\ Len(m) \in Nat /\ p \in Nat /\ p <= Len(s)
      /\ \A i \in 1 .. Len(s) : s[i] \in Nat
  BY LenProperties
<1>2. f \in Seq(Nat) /\ Len(f) = IF 1 <= p THEN p - 1 + 1 ELSE 0
  <2>1. \A i \in 1 .. p : s[i] \in Nat
    BY <1>1
  <2>. QED
    BY <1>1, <2>1, SubSeqProperties
<1>3. g \in Seq(Nat) /\ Len(g) = IF p + 1 <= Len(s) THEN Len(s) - (p + 1) + 1 ELSE 0
  <2>1. \A i \in p + 1 .. Len(s) : s[i] \in Nat
    BY <1>1
  <2>. QED
    BY <1>1, <2>1, SubSeqProperties
<1>. HIDE DEF f, g
<1>4. f \o m \in Seq(Nat) /\ Len(f \o m) = Len(f) + Len(m)
  BY <1>2, ConcatProperties
<1>. DEFINE fm == f \o m
<1>. HIDE DEF fm
<1>5. fm \o g \in Seq(Nat) /\ Len(fm \o g) = Len(fm) + Len(g)
  BY <1>3, <1>4, ConcatProperties DEF fm
<1>6. Len(fm) + Len(g) = Len(s) + Len(m)
  <2>1. Len(f) = p
    BY <1>1, <1>2
  <2>2. Len(g) = Len(s) - p
    BY <1>1, <1>3
  <2>3. Len(fm) = p + Len(m)
    BY <1>4, <2>1 DEF fm
  <2>. QED
    BY <1>1, <2>2, <2>3
<1>. QED
  BY <1>5, <1>6 DEF f, g, fm

LEMMA SplicedAtTheEnd ==
  ASSUME NEW s \in Seq(Nat), NEW m \in Seq(Nat)
  PROVE  SubSeq(s, 1, Len(s)) \o m \o SubSeq(s, Len(s) + 1, Len(s)) = s \o m
<1>1. Len(s) \in Nat
  BY LenProperties
<1>2. SubSeq(s, 1, Len(s)) = s
  BY SubSeqFull
<1>3. SubSeq(s, Len(s) + 1, Len(s)) = <<>>
  BY <1>1, SubSeqEmpty
<1>4. s \o m \in Seq(Nat)
  BY ConcatProperties
<1>5. (s \o m) \o <<>> = s \o m
  BY <1>4, ConcatEmptySeq
<1>. QED
  BY <1>2, <1>3, <1>5

LEMMA CommitOK ==
  ASSUME ChainInv, NEW t \in Tasks, Commit(t)
  PROVE  ChainInv'
<1>. DEFINE k == task[t]
            m == k.mine
            L == Len(rows)
            M == Len(m.rows)
<1>1. /\ k.pc = "commit"
      /\ IF m.rows = <<>> THEN rows' = rows ELSE rows' \in RowsWith(m.rows, k.base)
      /\ raced' = (raced \/ (m.rows # <<>> /\ k.base # L))
      /\ index' = index \cup m.index
      /\ task' = [task EXCEPT ![t] = Idle]
      /\ chain' = chain
  BY DEF Commit
<1>2. task = [u \in Tasks |-> task[u]] /\ TaskOK(k, L) /\ L \in Nat /\ rows \in Seq(Nat)
  BY LenProperties DEF ChainInv
<1>3. /\ m.rows \in Seq(Nat) /\ M \in Nat /\ k.base \in 0 .. L
      /\ m.rows = <<>> => m.index = {} /\ k.kind # "gossip"
  BY <1>1, <1>2, LenProperties DEF TaskOK, SessionOK
<1>4. task' = [u \in Tasks |-> IF u = t THEN Idle ELSE task[u]] /\ task'[t] = Idle
  BY <1>1, <1>2
<1>5. CASE m.rows = <<>>
  <2>1. UNCHANGED Others
    <3>1. rows' = rows /\ raced' = raced /\ chain' = chain
      BY <1>1, <1>3, <1>5 DEF ChainInv
    <3>2. index' = index
      BY <1>1, <1>3, <1>5
    <3>. QED
      BY <3>1, <3>2 DEF Others
  <2>. QED
    BY <1>2, <1>4, <2>1, IdleOK, OneTask
<1>6. CASE m.rows # <<>>
  <2>1. M > 0
    BY <1>3, <1>6, EmptySeq
  <2>2. PICK p \in k.base .. L :
          rows' = SubSeq(rows, 1, p) \o m.rows \o SubSeq(rows, p + 1, L)
    BY <1>1, <1>6 DEF RowsWith
  <2>3. rows' \in Seq(Nat) /\ Len(rows') = L + M
    <3>1. p \in 0 .. L
      BY <1>2, <1>3
    <3>. QED
      BY <1>2, <1>3, <2>2, <3>1, SplicedIs
  <2>4. raced \in BOOLEAN /\ Len(chain) \in Nat
    BY <1>3, <2>1, LenProperties DEF ChainInv
  <2>6. Len(chain') \in Nat /\ raced' \in BOOLEAN
    BY <1>1, <2>4
  <2>7. ASSUME NEW u \in Tasks
        PROVE  TaskOK(task'[u], Len(rows')) /\ task'[u].base # Len(rows')
    <3>1. CASE u = t
      <4>1. TaskOK(Idle, L + M) /\ Idle.base = 0
        <5>1. L + M \in Nat
          BY <1>2, <1>3
        <5>. HIDE DEF L, M
        <5>2. TaskOK(Idle, L + M)
          BY <5>1, IdleOK
        <5>. QED
          BY <5>2, IdleIs
      <4>. QED
        BY <1>2, <1>3, <1>4, <2>1, <2>3, <3>1, <4>1
    <3>2. CASE u # t
      <4>1. TaskOK(task[u], L) /\ task'[u] = task[u]
        BY <1>4, <3>2 DEF ChainInv
      <4>2. task[u].base \in 0 .. L
        BY <4>1 DEF TaskOK
      <4>3. task[u].base \in 0 .. L + M /\ task[u].base # L + M
        BY <1>2, <1>3, <2>1, <4>2
      <4>. QED
        BY <2>3, <4>1, <4>3 DEF TaskOK
    <3>. QED
      BY <3>1, <3>2
  <2>8. ASSUME ~raced'
        PROVE  /\ \A i \in 1 .. Len(rows') : rows'[i] = i - 1
               /\ index' = 0 .. Len(rows') - 1
    <3>1. ~raced /\ k.base = L
      BY <1>1, <1>6, <2>4, <2>8
    <3>2. /\ InOrder(k)
          /\ \A i \in 1 .. L : rows[i] = i - 1
          /\ index = 0 .. L - 1
      BY <3>1 DEF ChainInv
    <3>3. /\ \A i \in 1 .. M : m.rows[i] = L + i - 1
          /\ m.index = L .. L + M - 1
      BY <1>1, <3>1, <3>2 DEF InOrder, Continues, Indexed
    <3>4. rows' = rows \o m.rows
      <4>1. p = L
        BY <1>2, <3>1
      <4>. QED
        BY <1>2, <1>3, <2>2, <4>1, SplicedAtTheEnd
    <3>5. \A i \in 1 .. L + M : rows'[i] = IF i <= L THEN rows[i] ELSE m.rows[i - L]
      BY <1>2, <1>3, <3>4, ConcatProperties
    <3>6. ASSUME NEW i \in 1 .. L + M
          PROVE  rows'[i] = i - 1
      <4>1. CASE i <= L
        <5>1. i \in 1 .. L
          BY <1>2, <1>3, <4>1
        <5>. QED
          BY <3>2, <3>5, <4>1, <5>1
      <4>2. CASE ~(i <= L)
        <5>1. i - L \in 1 .. M
          BY <1>2, <1>3, <4>2
        <5>2. rows'[i] = m.rows[i - L]
          BY <3>5, <4>2
        <5>3. m.rows[i - L] = L + (i - L) - 1
          BY <3>3, <5>1
        <5>. QED
          BY <1>2, <1>3, <5>2, <5>3
      <4>. QED
        BY <4>1, <4>2
    <3>7. index' = 0 .. L + M - 1
      <4>1. (0 .. L - 1) \cup (L .. L + M - 1) = 0 .. L + M - 1
        BY <1>2, <1>3
      <4>. QED
        BY <1>1, <3>2, <3>3, <4>1
    <3>. QED
      BY <2>3, <3>6, <3>7
  <2>9. task' = [u \in Tasks |-> task'[u]]
    BY <1>4
  <2>. QED
    BY <2>3, <2>6, <2>7, <2>8, <2>9 DEF ChainInv
<1>. QED
  BY <1>5, <1>6

LEMMA StatementFailsOK ==
  ASSUME ChainInv, NEW t \in Tasks, StatementFails(t) \/ Deadlock(t)
  PROVE  ChainInv'
<1>1. task[t].pc \notin {"idle", "commit"} /\ Refuse(t)
  BY DEF StatementFails, Deadlock, InAddBlock
<1>2. UNCHANGED Others
  BY DEF StatementFails, Deadlock, Others, store, memory
<1>. QED
  BY <1>1, <1>2, RefuseOK

LEMMA SessionLostOK ==
  ASSUME ChainInv, NEW t \in Tasks, SessionLost(t)
  PROVE  ChainInv'
<1>1. task' = [task EXCEPT ![t] = Idle] /\ UNCHANGED Others
  BY DEF SessionLost, Others, store, memory
<1>2. task = [u \in Tasks |-> task[u]] /\ Len(rows) \in Nat
  BY LenProperties DEF ChainInv
<1>3. task' = [u \in Tasks |-> IF u = t THEN Idle ELSE task[u]] /\ task'[t] = Idle
  BY <1>1, <1>2
<1>. QED
  BY <1>1, <1>2, <1>3, IdleOK, OneTask

LEMMA RestartOK ==
  ASSUME ChainInv, Restart
  PROVE  ChainInv'
<1>1. /\ task' = [t \in Tasks |-> Idle] /\ UNCHANGED <<chain, rows, index, raced>>
  BY DEF Restart, store
<1>2. Len(rows) \in Nat
  BY LenProperties DEF ChainInv
<1>3. \A t \in Tasks : TaskOK(task'[t], Len(rows)) /\ InOrder(task'[t])
  BY <1>1, <1>2, IdleOK
<1>. QED
  BY <1>1, <1>3 DEF ChainInv

(* The messages start a coroutine, or leave the sessions alone.            *)
LEMMA ArrivalOK ==
  ASSUME ChainInv, NEW t \in Tasks, NEW from \in Heights, NEW to \in Heights,
         NewBlock(t, from) \/ ProcessNewBlock(t, from) \/ BlocksResponse(t, from, to)
  PROVE  ChainInv'
<1>1. from \in Nat /\ to \in Nat
  BY DEF ChainInv, Heights
<1>2. <<from>> \in Seq(Nat) /\ <<from>> # <<>>
  BY <1>1
<1>3. CASE NewBlock(t, from)
  <2>1. Begin(t, "gossip", <<from>>) /\ UNCHANGED Others
    BY <1>3 DEF NewBlock, Others, store
  <2>. QED
    BY <1>2, <2>1, BeginOK
<1>4. CASE ProcessNewBlock(t, from)
  <2>1. Begin(t, "local", <<from>>) /\ UNCHANGED Others
    BY <1>4 DEF ProcessNewBlock, Others, store, memory
  <2>. QED
    BY <1>2, <2>1, BeginOK
<1>5. CASE BlocksResponse(t, from, to)
  <2>. DEFINE todo == [i \in 1 .. to - from + 1 |-> from + i - 1]
  <2>1. from <= to /\ Begin(t, "batch", todo) /\ UNCHANGED Others
    BY <1>5 DEF BlocksResponse, Others, store, memory
  <2>2. to - from + 1 \in Nat \ {0} /\ \A i \in 1 .. to - from + 1 : from + i - 1 \in Nat
    BY <1>1, <2>1
  <2>3. todo \in Seq(Nat) /\ Len(todo) = to - from + 1
    BY <2>2
  <2>. HIDE DEF todo
  <2>4. todo # <<>>
    BY <2>2, <2>3, EmptySeq
  <2>. QED
    BY <2>1, <2>3, <2>4, BeginOK
<1>. QED
  BY <1>3, <1>4, <1>5

LEMMA ChainInvInit == Init => ChainInv
<1>. SUFFICES ASSUME Init PROVE ChainInv
  OBVIOUS
<1>1. Len(chain) \in Nat
  <2>1. PICK load \in Workloads : chain = load.chain
    BY DEF Init
  <2>2. load.chain \in Seq(Block)
    BY Certified
  <2>. QED
    BY <2>1, <2>2, LenProperties
<1>2. /\ rows = <<>> /\ index = {} /\ raced = FALSE
      /\ task = [t \in Tasks |-> Idle]
  BY DEF Init
<1>3. rows \in Seq(Nat) /\ Len(rows) = 0
  BY <1>2, EmptySeq
<1>4. \A t \in Tasks : TaskOK(task[t], Len(rows)) /\ InOrder(task[t])
  BY <1>2, <1>3, IdleOK
<1>5. index = 0 .. Len(rows) - 1
  BY <1>2, <1>3
<1>6. \A i \in 1 .. Len(rows) : rows[i] = i - 1
  BY <1>3
<1>7. task = [t \in Tasks |-> task[t]]
  BY <1>2
<1>8. raced \in BOOLEAN
  BY <1>2
<1>. QED
  BY <1>1, <1>3, <1>4, <1>5, <1>6, <1>7, <1>8 DEF ChainInv

LEMMA ChainInvStep == ChainInv /\ [Next]_vars => ChainInv'
<1>. SUFFICES ASSUME ChainInv, [Next]_vars PROVE ChainInv'
  OBVIOUS
<1>1. ASSUME NEW t \in Tasks, AddBlock(t)
      PROVE  ChainInv'
  BY <1>1, ReadTipOK, ApplyMintOK, ReadSenderOK, ApplyTransferOK, ApplyRewardOK,
     CheckIndexOK, InsertIndexOK, CommitOK DEF AddBlock
<1>2. ASSUME NEW x \in Transactions, NewTransaction(x) \/ Expire(x)
      PROVE  ChainInv'
  BY <1>2 DEF NewTransaction, Expire, store, memory, ChainInv
<1>3. CASE UNCHANGED vars
  BY <1>3 DEF vars, store, memory, ChainInv
<1>5. ASSUME NEW a \in Addresses, NEW n \in Amounts, ApplicationMoves(a, n)
      PROVE  ChainInv'
  BY <1>5 DEF ApplicationMoves, memory, ChainInv
<1>4. ASSUME NEW t \in Tasks,
             \/ \E h \in Heights : NewBlock(t, h) \/ ProcessNewBlock(t, h)
             \/ \E from, to \in Heights : BlocksResponse(t, from, to)
      PROVE  ChainInv'
  BY <1>4, ArrivalOK
<1>. QED
  BY <1>1, <1>2, <1>3, <1>4, <1>5, StatementFailsOK, SessionLostOK, RestartOK DEF Next

THEOREM ChainInvAlways == Spec => []ChainInv
BY ChainInvInit, ChainInvStep, PTL DEF Spec

----------------------------------------------------------------------------
(* The properties                                                          *)

(* Whatever sessions overlap and fail in indexer.py and blockchain.py, as  *)
(* long as none has committed on a tip that was replaced, the IoTEvent     *)
(* rows are the certified chain without gap or double and each is indexed. *)
THEOREM RowsFollow == Spec => []RowsAreTheChain
<1>1. ChainInv => RowsAreTheChain
  <2>. SUFFICES ASSUME ChainInv, ~raced
                PROVE  /\ \A i \in DOMAIN rows : rows[i] = i - 1
                       /\ index = {rows[i] : i \in DOMAIN rows}
    BY DEF RowsAreTheChain
  <2>1. DOMAIN rows = 1 .. Len(rows) /\ Len(rows) \in Nat
    BY LenProperties DEF ChainInv
  <2>2. \A i \in 1 .. Len(rows) : rows[i] = i - 1
    BY DEF ChainInv
  <2>3. index = 0 .. Len(rows) - 1
    BY DEF ChainInv
  <2>4. {rows[i] : i \in 1 .. Len(rows)} = 0 .. Len(rows) - 1
    <3>1. ASSUME NEW h \in 0 .. Len(rows) - 1
          PROVE  h \in {rows[i] : i \in 1 .. Len(rows)}
      <4>1. h + 1 \in 1 .. Len(rows) /\ h + 1 - 1 = h
        BY <2>1
      <4>. QED
        BY <2>2, <4>1
    <3>2. ASSUME NEW i \in 1 .. Len(rows)
          PROVE  rows[i] \in 0 .. Len(rows) - 1
      BY <2>1, <2>2
    <3>. QED
      BY <3>1, <3>2
  <2>. QED
    BY <2>1, <2>2, <2>3, <2>4
<1>. QED
  BY <1>1, ChainInvAlways, PTL

LEMMA LeavesForAReason ==
  ASSUME Next, NEW x \in mempool \ mempool'
  PROVE  \/ x \in expired
         \/ \E t \in Tasks : /\ task[t].kind = "local" /\ InAddBlock(t)
                             /\ Head(task[t].todo) = x.block
         \/ faults' = faults + 1
<1>1. ASSUME NEW t \in Tasks, CheckIndex(t) \/ InsertIndex(t)
      PROVE  task[t].kind = "local" /\ InAddBlock(t) /\ Head(task[t].todo) = x.block
  <2>1. InAddBlock(t)
    BY <1>1 DEF CheckIndex, InsertIndex, InAddBlock
  <2>2. \A m : Added(t, m) => mempool' = IF task[t].kind = "local"
                  THEN {y \in mempool : y.block # Head(task[t].todo)}
                  ELSE mempool
    BY DEF Added
  <2>3. CheckIndex(t) => mempool' = mempool \/ \E m : Added(t, m)
    <3>. SUFFICES ASSUME CheckIndex(t) PROVE mempool' = mempool \/ \E m : Added(t, m)
      OBVIOUS
    <3>. DEFINE h == Head(task[t].todo)
                m == [Flushed(t) EXCEPT !.rows = Append(@, h)]
    <3>1. Step(t) \/ Added(t, m)
      BY DEF CheckIndex
    <3>. QED
      BY <3>1 DEF Step, memory
  <2>4. InsertIndex(t) => mempool' = mempool \/ \E m : Added(t, m)
    <3>. SUFFICES ASSUME InsertIndex(t) PROVE mempool' = mempool \/ \E m : Added(t, m)
      OBVIOUS
    <3>. DEFINE h == Head(task[t].todo)
                m == task[t].mine
                acc == IF m.index = {} THEN account ELSE m.account
                n == [m EXCEPT !.index = @ \cup {h},
                               !.account = IndexBlock(acc, Current(t))]
    <3>1. Step(t) \/ Added(t, n)
      BY DEF InsertIndex
    <3>. QED
      BY <3>1 DEF Step, memory
  <2>. QED
    BY <1>1, <2>1, <2>2, <2>3, <2>4
<1>2. ASSUME NEW y \in Transactions, NewTransaction(y)
      PROVE  x \in expired
  BY <1>2 DEF NewTransaction, Room
<1>3. CASE Restart
  BY <1>3 DEF Restart, Fault
<1>4. ASSUME mempool' = mempool
      PROVE  FALSE
  BY <1>4
<1>. QED
  BY <1>1, <1>2, <1>3, <1>4
  DEF Next, AddBlock, ReadTip, ApplyMint, ReadSender, ApplyTransfer, ApplyReward, Commit,
      StatementFails, Deadlock, SessionLost, NewBlock, ProcessNewBlock, BlocksResponse,
      Expire, ApplicationMoves, memory, Step

(* What mempool.py holds goes only expired, with the block process_new_    *)
(* block is adding, or when the process stops.                             *)
THEOREM PendingKept == Spec => PendingLeavesForAReason
<1>1. [Next]_vars =>
        [\A x \in mempool \ mempool' :
           \/ x \in expired
           \/ \E t \in Tasks : /\ task[t].kind = "local" /\ InAddBlock(t)
                               /\ Head(task[t].todo) = x.block
           \/ faults' = faults + 1]_vars
  BY LeavesForAReason
<1>. QED
  BY <1>1, PTL DEF Spec, PendingLeavesForAReason

----------------------------------------------------------------------------
(* No wallet is overdrawn by blocks that give, however the sessions of a   *)
(* node overlap with each other and with the application: every balance a  *)
(* session holds is a balance it checked or added to.                      *)

Solvent(w, c) == w = NoWallet \/ (w \in Wallet /\ (Gives(c) => w.bal >= 0))

AllSolvent(f, c) ==
    /\ f = [a \in Addresses |-> f[a]]
    /\ \A a \in Addresses : Solvent(f[a], c)

(* A coroutine at work on the chain c: what it has read and written, and   *)
(* the place in the block it has reached.                                  *)
TaskSolvent(k, c) ==
    /\ k.todo \in Seq(0 .. Len(c) - 1)
    /\ k.tx \in Nat \ {0}
    /\ Solvent(k.sender, c)
    /\ AllSolvent(k.mine.wallet, c) /\ AllSolvent(k.save.wallet, c)
    /\ k.pc = "apply" => k.tx <= Len(c[Head(k.todo) + 1].txs)

SolvencyInv ==
    /\ chain \in Seq(Block)
    /\ AllSolvent(wallet, chain)
    /\ \A t \in Tasks : TaskSolvent(task[t], chain)

----------------------------------------------------------------------------
(* Reading, writing and moving                                             *)

LEMMA EmptySolvent ==
  \A c : Solvent(Empty, c) /\ Empty \in Wallet /\ Solvent(NoWallet, c)
BY DEF Solvent, Empty, Wallet

LEMMA CreditSolvent ==
  ASSUME NEW w, Solvent(w, chain), w # NoWallet, NEW n \in Int,
         Gives(chain) => n >= 0
  PROVE  Solvent([w EXCEPT !.bal = @ + n], chain)
BY DEF Solvent, Wallet

Put(f, a, w) == [f EXCEPT ![a] = w]

LEMMA WriteIs ==
  ASSUME NEW m, IsSession(m), NEW a, NEW w
  PROVE  Write(m, a, w).wallet = Put(m.wallet, a, w)
<1>. DEFINE v == [m.wallet EXCEPT ![a] = w]
            p == [m EXCEPT !.wallet = v]
            q == [p EXCEPT !.own = @ \cup {a}]
            r == [q EXCEPT !.dirty = @ \cup {a}]
<1>. HIDE DEF v
<1>1. IsSession(p) /\ p.wallet = v /\ p.own = m.own /\ p.dirty = m.dirty
  BY DEF IsSession
<1>2. IsSession(q) /\ q.wallet = p.wallet /\ q.dirty = p.dirty
  <2>. HIDE DEF p
  <2>. QED
    BY <1>1 DEF IsSession
<1>3. r.wallet = q.wallet
  <2>. HIDE DEF q
  <2>. QED
    BY <1>2 DEF IsSession
<1>4. Write(m, a, w) = r
  BY <1>1, <1>2 DEF Write, v
<1>. HIDE DEF p, q, r
<1>5. Write(m, a, w).wallet = v
  BY <1>1, <1>2, <1>3, <1>4
<1>. QED
  BY <1>5 DEF v, Put

LEMMA PutSolvent ==
  ASSUME NEW f, AllSolvent(f, chain), NEW a \in Addresses, NEW w, Solvent(w, chain)
  PROVE  /\ AllSolvent(Put(f, a, w), chain)
         /\ Put(f, a, w)[a] = w
         /\ \A b \in Addresses \ {a} : Put(f, a, w)[b] = f[b]
<1>1. Put(f, a, w) = [b \in Addresses |-> IF b = a THEN w ELSE f[b]]
  BY DEF AllSolvent, Put
<1>. QED
  BY <1>1 DEF AllSolvent

LEMMA WriteSolvent ==
  ASSUME NEW m, IsSession(m), AllSolvent(m.wallet, chain), NEW a \in Addresses,
         NEW w, Solvent(w, chain)
  PROVE  /\ AllSolvent(Write(m, a, w).wallet, chain)
         /\ Write(m, a, w).wallet[a] = w
         /\ \A b \in Addresses \ {a} : Write(m, a, w).wallet[b] = m.wallet[b]
BY WriteIs, PutSolvent

LEMMA FlushedIs ==
  ASSUME NEW t, IsSession(task[t].mine)
  PROVE  Flushed(t).wallet = task[t].mine.wallet
BY DEF IsSession, Flushed

LEMMA ReadSolvent ==
  ASSUME SolvencyInv, NEW t \in Tasks, NEW a \in Addresses
  PROVE  Solvent(Read(t, a), chain)
BY DEF SolvencyInv, TaskSolvent, AllSolvent, Read

(* The check of apply_transaction is enough, also for a transfer to the    *)
(* sender itself.                                                          *)
LEMMA MoveSolvent ==
  ASSUME NEW f, AllSolvent(f, chain), NEW tx \in Tx,
         Acceptable(f[tx.from], tx), f[tx.to] # NoWallet,
         Gives(chain) => tx.amount >= 0
  PROVE  AllSolvent(Move(f, tx), chain)
<1>. DEFINE s == f[tx.from]
            paid == [bal |-> s.bal - tx.amount - tx.fee, nonce |-> tx.nonce + 1]
            g == Put(f, tx.from, paid)
            r == g[tx.to]
            got == [r EXCEPT !.bal = @ + tx.amount]
<1>1. /\ tx.from \in Addresses /\ tx.to \in Addresses
      /\ tx.amount \in Int /\ tx.fee \in Int /\ tx.nonce \in Nat
  BY DEF Tx
<1>2. s \in Wallet /\ s.bal >= tx.amount + tx.fee
  BY <1>1 DEF Acceptable, AllSolvent, Solvent
<1>3. paid \in Wallet /\ paid.bal >= 0
  <2>1. s.bal \in Int
    BY <1>2 DEF Wallet
  <2>. HIDE DEF s
  <2>. QED
    BY <1>1, <1>2, <2>1 DEF Wallet
<1>4. Move(f, tx) = Put(g, tx.to, got)
  <2>1. g = [f EXCEPT ![tx.from] = [bal |-> @.bal - tx.amount - tx.fee,
                                    nonce |-> tx.nonce + 1]]
    BY DEF Put
  <2>2. Move(f, tx) = Credit(g, tx.to, tx.amount)
    BY <2>1 DEF Move
  <2>. HIDE DEF g
  <2>. QED
    BY <2>2 DEF Credit, Put
<1>. HIDE DEF paid
<1>5. AllSolvent(g, chain) /\ g[tx.from] = paid /\ \A b \in Addresses \ {tx.from} : g[b] = f[b]
  BY <1>1, <1>3, PutSolvent DEF Solvent
<1>. HIDE DEF g
<1>6. Solvent(r, chain) /\ r # NoWallet
  BY <1>1, <1>3, <1>5, Certified DEF AllSolvent
<1>. HIDE DEF r
<1>7. Solvent(got, chain)
  BY <1>1, <1>6, CreditSolvent
<1>. HIDE DEF got
<1>. QED
  BY <1>1, <1>4, <1>5, <1>7, PutSolvent

----------------------------------------------------------------------------
(* Steps of one coroutine                                                  *)

LEMMA IdleSolvent == \A c : TaskSolvent(Idle, c)
<1>1. \A c : AllSolvent(Nothing.wallet, c)
  BY DEF Nothing, AllSolvent, Solvent
<1>2. /\ Idle.todo = <<>> /\ Idle.tx = 1 /\ Idle.sender = NoWallet /\ Idle.pc = "idle"
      /\ Idle.mine = Nothing /\ Idle.save = Nothing
  BY DEF Idle
<1>. QED
  BY <1>1, <1>2, EmptySolvent DEF TaskSolvent

LEMMA OneSolvent ==
  ASSUME SolvencyInv, NEW t \in Tasks, chain' = chain, wallet' = wallet,
         task' = [u \in Tasks |-> IF u = t THEN task'[t] ELSE task[u]],
         TaskSolvent(task'[t], chain)
  PROVE  SolvencyInv'
<1>1. \A u \in Tasks : TaskSolvent(task'[u], chain)
  BY DEF SolvencyInv
<1>. QED
  BY <1>1 DEF SolvencyInv

(* The block a coroutine is at, which is a certified one.                  *)
LEMMA CurrentIs ==
  ASSUME ChainInv, SolvencyInv, NEW t \in Tasks, task[t].pc \notin {"idle", "commit"}
  PROVE  /\ Head(task[t].todo) \in Heights
         /\ Tail(task[t].todo) \in Seq(Heights)
         /\ Current(t) \in Block
         /\ HasTx(t) => CurrentTx(t) \in Tx
<1>. DEFINE k == task[t]
            h == Head(k.todo)
<1>1. k.todo \in Seq(Heights) /\ k.todo # <<>> /\ k.tx \in Nat \ {0}
  BY DEF ChainInv, TaskOK, SolvencyInv, TaskSolvent, Heights
<1>2. h \in Heights /\ Tail(k.todo) \in Seq(Heights)
  <2>. HIDE DEF k
  <2>. QED
    BY <1>1, HeadTailProperties
<1>3. Current(t) \in Block
  <2>1. chain \in Seq(Block) /\ Len(chain) \in Nat /\ h + 1 \in 1 .. Len(chain)
    <3>1. chain \in Seq(Block) /\ Len(chain) \in Nat
      BY LenProperties DEF SolvencyInv
    <3>. HIDE DEF h
    <3>. QED
      BY <1>2, <3>1 DEF Heights
  <2>2. chain[h + 1] \in Block
    <3>. HIDE DEF h
    <3>. QED
      BY <2>1, ElementOfSeq
  <2>. QED
    BY <2>2 DEF Current, BlockAt
<1>4. ASSUME HasTx(t)
      PROVE  CurrentTx(t) \in Tx
  <2>. DEFINE s == Current(t).txs
  <2>1. s \in Seq(Tx)
    BY <1>3 DEF Block
  <2>2. k.tx <= Len(s)
    BY <1>4 DEF HasTx
  <2>. HIDE DEF s, k
  <2>3. s[k.tx] \in Tx
    BY <1>1, <2>1, <2>2, LenProperties, ElementOfSeq
  <2>. QED
    BY <2>3 DEF CurrentTx, s, k
<1>. QED
  BY <1>2, <1>3, <1>4

(* What a block that gives adds to balances.                               *)
LEMMA GivesIs ==
  ASSUME ChainInv, SolvencyInv, NEW t \in Tasks, task[t].pc \notin {"idle", "commit"},
         Gives(chain)
  PROVE  /\ Reward(Current(t)) >= 0
         /\ HasTx(t) => CurrentTx(t).amount >= 0
<1>. DEFINE h == Head(task[t].todo) + 1
<1>1. chain \in Seq(Block) /\ h \in 1 .. Len(chain)
  <2>1. Head(task[t].todo) \in 0 .. Len(chain) - 1 /\ Len(chain) \in Nat
    BY CurrentIs DEF Heights, ChainInv
  <2>. QED
    BY <2>1 DEF SolvencyInv
<1>2. h \in DOMAIN chain /\ Current(t) = chain[h]
  BY <1>1, LenProperties DEF Current, BlockAt
<1>. HIDE DEF h
<1>3. Reward(chain[h]) >= 0 /\ \A i \in DOMAIN chain[h].txs : chain[h].txs[i].amount >= 0
  BY <1>2 DEF Gives
<1>4. ASSUME HasTx(t)
      PROVE  CurrentTx(t).amount >= 0
  <2>1. Current(t).txs \in Seq(Tx)
    <3>. DEFINE b == Current(t)
    <3>1. b \in Block
      BY CurrentIs
    <3>. HIDE DEF b
    <3>2. b.txs \in Seq(Tx)
      BY <3>1 DEF Block
    <3>. QED
      BY <3>2 DEF b
  <2>2. task[t].tx \in Nat \ {0} /\ task[t].tx <= Len(Current(t).txs)
    BY <1>4 DEF SolvencyInv, TaskSolvent, HasTx
  <2>3. task[t].tx \in DOMAIN Current(t).txs
    BY <2>1, <2>2, LenProperties
  <2>. QED
    BY <1>2, <1>3, <2>3 DEF CurrentTx
<1>. QED
  BY <1>2, <1>3, <1>4

LEMMA ReturnedAt ==
  ASSUME NEW t, IsTask(task[t]), NEW m, NEW added, Returned(t, m, added) # Idle
  PROVE  Returned(t, m, added).tx = 1 /\ Returned(t, m, added).sender = NoWallet
BY DEF IsTask, Returned

LEMMA ReturnedSolvent ==
  ASSUME ChainInv, SolvencyInv, NEW t \in Tasks, task[t].pc \notin {"idle", "commit"},
         NEW m, AllSolvent(m.wallet, chain), NEW added \in BOOLEAN,
         chain' = chain, wallet' = wallet,
         task' = [task EXCEPT ![t] = Returned(t, m, added)]
  PROVE  SolvencyInv'
<1>. DEFINE k == task[t]
            n == Returned(t, m, added)
<1>1. IsTask(k) /\ task = [u \in Tasks |-> task[u]]
  BY DEF ChainInv, TaskOK
<1>2. CASE n = Idle
  BY <1>1, <1>2, IdleSolvent, OneSolvent
<1>3. CASE n # Idle
  <2>1. /\ IsTask(n) /\ n.kind = k.kind /\ n.base = k.base
        /\ n.todo = Tail(k.todo) /\ n.mine = m /\ n.save = m
        /\ n.pc = IF Len(k.todo) > 1 THEN "tip" ELSE "commit"
        /\ n.pc = "commit" => k.kind = "batch" \/ added
    BY <1>1, <1>3, ReturnedIs
  <2>2. n.tx = 1 /\ n.sender = NoWallet
    BY <1>1, <1>3, ReturnedAt
  <2>3. Tail(k.todo) \in Seq(Heights)
    BY CurrentIs
  <2>4. task' = [u \in Tasks |-> IF u = t THEN n ELSE task[u]] /\ task'[t] = n
    BY <1>1
  <2>. HIDE DEF n
  <2>5. TaskSolvent(n, chain)
    BY <2>1, <2>2, <2>3, EmptySolvent DEF TaskSolvent, Heights
  <2>. QED
    BY <2>4, <2>5, OneSolvent
<1>. QED
  BY <1>2, <1>3

LEMMA RefuseSolvent ==
  ASSUME ChainInv, SolvencyInv, NEW t \in Tasks, task[t].pc \notin {"idle", "commit"},
         chain' = chain, wallet' = wallet, Refuse(t)
  PROVE  SolvencyInv'
<1>1. AllSolvent(task[t].save.wallet, chain)
  BY DEF SolvencyInv, TaskSolvent
<1>2. task' = [task EXCEPT ![t] = Returned(t, task[t].save, FALSE)]
  BY DEF Refuse
<1>. QED
  BY <1>1, <1>2, ReturnedSolvent

(* The place in the block and the sender, after each update of a coroutine. *)
LEMMA BasedAt ==
  ASSUME NEW k, IsTask(k), NEW p, NEW b
  PROVE  Based(k, p, b).tx = k.tx /\ Based(k, p, b).sender = k.sender
BY DEF IsTask, Based

LEMMA MintedAt ==
  ASSUME NEW k, IsTask(k), NEW x, NEW m
  PROVE  Minted(k, x, m).tx = x /\ Minted(k, x, m).sender = k.sender
BY DEF IsTask, Minted

LEMMA LoadedAt ==
  ASSUME NEW k, IsTask(k), NEW p, NEW s, NEW m
  PROVE  Loaded(k, p, s, m).tx = k.tx /\ Loaded(k, p, s, m).sender = s
BY DEF IsTask, Loaded

LEMMA AppliedAt ==
  ASSUME NEW k, IsTask(k), NEW p, NEW x, NEW s, NEW m
  PROVE  Applied(k, p, x, s, m).tx = x /\ Applied(k, p, x, s, m).sender = s
BY DEF IsTask, Applied

LEMMA WroteAt ==
  ASSUME NEW k, IsTask(k), NEW p, NEW m
  PROVE  Wrote(k, p, m).tx = k.tx /\ Wrote(k, p, m).sender = k.sender
BY DEF IsTask, Wrote

LEMMA BegunAt ==
  ASSUME NEW k, IsTask(k), NEW p, NEW kind, NEW todo
  PROVE  Begun(k, p, kind, todo).tx = k.tx /\ Begun(k, p, kind, todo).sender = k.sender
BY DEF IsTask, Begun

(* What both invariants say of a coroutine.                                *)
LEMMA TaskIs ==
  ASSUME ChainInv, SolvencyInv, NEW t \in Tasks
  PROVE  /\ task = [u \in Tasks |-> task[u]]
         /\ IsTask(task[t]) /\ IsSession(task[t].mine) /\ IsSession(task[t].save)
         /\ TaskSolvent(task[t], chain)
BY DEF ChainInv, TaskOK, SessionOK, SolvencyInv

----------------------------------------------------------------------------
(* The actions                                                             *)

LEMMA ReadTipSolvent ==
  ASSUME ChainInv, SolvencyInv, NEW t \in Tasks, ReadTip(t)
  PROVE  SolvencyInv'
<1>. DEFINE k == task[t]
            b == IF k.mine.rows = <<>> THEN Len(rows) ELSE k.base
            n == Based(k, "tx", b)
<1>1. chain' = chain /\ wallet' = wallet
  BY DEF ReadTip, store
<1>2. /\ k.pc = "tip"
      /\ Refuse(t) \/ task' = [task EXCEPT ![t].pc = "tx", ![t].base = b]
  BY DEF ReadTip
<1>3. CASE Refuse(t)
  BY <1>1, <1>2, <1>3, RefuseSolvent
<1>4. CASE task' = [task EXCEPT ![t].pc = "tx", ![t].base = b]
  <2>1. /\ task = [u \in Tasks |-> task[u]] /\ IsTask(k)
        /\ TaskSolvent(k, chain)
    BY TaskIs
  <2>. HIDE DEF b
  <2>2. task' = [u \in Tasks |-> IF u = t THEN n ELSE task[u]]
    BY <1>4, <2>1 DEF Based
  <2>3. task'[t] = n
    BY <2>2
  <2>4. /\ n.pc = "tx" /\ n.todo = k.todo /\ n.mine = k.mine /\ n.save = k.save
        /\ n.tx = k.tx /\ n.sender = k.sender
    <3>. HIDE DEF k
    <3>. QED
      BY <2>1, BasedIs, BasedAt
  <2>. HIDE DEF n
  <2>5. TaskSolvent(n, chain)
    BY <2>1, <2>4 DEF TaskSolvent
  <2>. QED
    BY <1>1, <2>2, <2>3, <2>5, OneSolvent
<1>. QED
  BY <1>2, <1>3, <1>4

LEMMA ApplyMintSolvent ==
  ASSUME ChainInv, SolvencyInv, NEW t \in Tasks, ApplyMint(t)
  PROVE  SolvencyInv'
<1>. DEFINE k == task[t]
            tx == CurrentTx(t)
            w == Read(t, tx.to)
            was == IF w = NoWallet THEN Empty ELSE w
            paid == [was EXCEPT !.bal = @ + tx.amount]
            m == Write(Flushed(t), tx.to, paid)
            n == Minted(k, k.tx + 1, m)
<1>1. chain' = chain /\ wallet' = wallet
  BY DEF ApplyMint, Step, store
<1>2. /\ k.pc = "tx" /\ HasTx(t)
      /\ Refuse(t) \/ task' = [task EXCEPT ![t].tx = @ + 1, ![t].mine = m]
  BY DEF ApplyMint
<1>3. CASE Refuse(t)
  BY <1>1, <1>2, <1>3, RefuseSolvent
<1>4. CASE task' = [task EXCEPT ![t].tx = @ + 1, ![t].mine = m]
  <2>1. /\ task = [u \in Tasks |-> task[u]] /\ IsTask(k) /\ IsSession(k.mine)
        /\ TaskSolvent(k, chain)
    BY TaskIs
  <2>2. tx.to \in Addresses /\ tx.amount \in Int
    <3>1. tx \in Tx
      BY <1>2, CurrentIs
    <3>. HIDE DEF tx
    <3>. QED
      BY <3>1 DEF Tx
  <2>3. Solvent(paid, chain)
    <3>3. Gives(chain) => tx.amount >= 0
      BY <1>2, GivesIs
    <3>. HIDE DEF tx
    <3>1. Solvent(w, chain)
      BY <2>2, ReadSolvent
    <3>. HIDE DEF w
    <3>2. Solvent(was, chain) /\ was # NoWallet
      BY <3>1, EmptySolvent, Certified
    <3>. HIDE DEF was
    <3>. QED
      BY <2>2, <3>2, <3>3, CreditSolvent
  <2>4. IsSession(Flushed(t)) /\ AllSolvent(Flushed(t).wallet, chain)
    BY <2>1, FlushedKeeps, FlushedIs DEF TaskSolvent
  <2>5. AllSolvent(m.wallet, chain)
    <3>. HIDE DEF tx, paid
    <3>. QED
      BY <2>2, <2>3, <2>4, WriteSolvent
  <2>. HIDE DEF m
  <2>6. task' = [u \in Tasks |-> IF u = t THEN n ELSE task[u]]
    BY <1>4, <2>1 DEF Minted
  <2>7. task'[t] = n
    BY <2>6
  <2>8. /\ n.pc = "tx" /\ n.todo = k.todo /\ n.mine = m /\ n.save = k.save
        /\ n.tx = k.tx + 1 /\ n.sender = k.sender
    <3>. HIDE DEF k
    <3>. QED
      BY <1>2, <2>1, MintedIs, MintedAt
  <2>. HIDE DEF n
  <2>9. TaskSolvent(n, chain)
    BY <2>1, <2>5, <2>8 DEF TaskSolvent
  <2>. QED
    BY <1>1, <2>6, <2>7, <2>9, OneSolvent
<1>. QED
  BY <1>2, <1>3, <1>4

LEMMA ReadSenderSolvent ==
  ASSUME ChainInv, SolvencyInv, NEW t \in Tasks, ReadSender(t)
  PROVE  SolvencyInv'
<1>. DEFINE k == task[t]
            tx == CurrentTx(t)
            s == Read(t, tx.from)
            m == Flushed(t)
            n == Loaded(k, "apply", s, m)
<1>1. chain' = chain /\ wallet' = wallet
  BY DEF ReadSender, Step, store
<1>2. /\ k.pc = "tx" /\ HasTx(t)
      /\ task' = [task EXCEPT ![t].pc = "apply", ![t].sender = s, ![t].mine = m]
  BY DEF ReadSender
<1>3. /\ task = [u \in Tasks |-> task[u]] /\ IsTask(k) /\ IsSession(k.mine)
      /\ TaskSolvent(k, chain)
  BY TaskIs
<1>4. k.tx <= Len(chain[Head(k.todo) + 1].txs)
  BY <1>2 DEF HasTx, Current, BlockAt
<1>5. Solvent(s, chain)
  <2>1. tx \in Tx
    BY <1>2, CurrentIs
  <2>. HIDE DEF tx
  <2>. QED
    BY <2>1, ReadSolvent DEF Tx
<1>6. AllSolvent(m.wallet, chain)
  BY <1>3, FlushedIs DEF TaskSolvent
<1>. HIDE DEF s, m
<1>7. task' = [u \in Tasks |-> IF u = t THEN n ELSE task[u]]
  BY <1>2, <1>3 DEF Loaded
<1>8. task'[t] = n
  BY <1>7
<1>9. /\ n.pc = "apply" /\ n.todo = k.todo /\ n.mine = m /\ n.save = k.save
      /\ n.tx = k.tx /\ n.sender = s
  <2>. HIDE DEF k
  <2>. QED
    BY <1>3, LoadedIs, LoadedAt
<1>. HIDE DEF n
<1>10. TaskSolvent(n, chain)
  BY <1>3, <1>4, <1>5, <1>6, <1>9 DEF TaskSolvent
<1>. QED
  BY <1>1, <1>7, <1>8, <1>10, OneSolvent

LEMMA MovedIs ==
  ASSUME NEW m, IsSession(m), NEW tx
  PROVE  [m EXCEPT !.wallet = Move(@, tx)].wallet = Move(m.wallet, tx)
BY DEF IsSession

LEMMA ApplyTransferSolvent ==
  ASSUME ChainInv, SolvencyInv, NEW t \in Tasks, ApplyTransfer(t)
  PROVE  SolvencyInv'
<1>. DEFINE k == task[t]
            tx == CurrentTx(t)
            s == k.sender
            r == IF tx.to = tx.from THEN s ELSE Read(t, tx.to)
            p == Write(k.mine, tx.from, s)
            q == Write(p, tx.to, r)
            m == [q EXCEPT !.wallet = Move(@, tx)]
            n == Applied(k, "tx", k.tx + 1, NoWallet, m)
<1>1. chain' = chain /\ wallet' = wallet
  BY DEF ApplyTransfer, Step, store
<1>2. /\ k.pc = "apply"
      /\ \/ Refuse(t)
         \/ /\ Acceptable(s, tx) /\ r # NoWallet
            /\ task' = [task EXCEPT ![t].pc = "tx", ![t].tx = @ + 1,
                            ![t].sender = NoWallet, ![t].mine = m]
  BY DEF ApplyTransfer
<1>3. CASE Refuse(t)
  BY <1>1, <1>2, <1>3, RefuseSolvent
<1>4. CASE /\ Acceptable(s, tx) /\ r # NoWallet
           /\ task' = [task EXCEPT ![t].pc = "tx", ![t].tx = @ + 1,
                           ![t].sender = NoWallet, ![t].mine = m]
  <2>1. /\ task = [u \in Tasks |-> task[u]] /\ IsTask(k) /\ IsSession(k.mine)
        /\ TaskSolvent(k, chain)
    BY TaskIs
  <2>2. tx \in Tx
    <3>1. HasTx(t)
      BY <1>2, <2>1 DEF TaskSolvent, HasTx, Current, BlockAt
    <3>. QED
      BY <1>2, <3>1, CurrentIs
  <2>14. Gives(chain) => tx.amount >= 0
    <3>1. HasTx(t)
      BY <1>2, <2>1 DEF TaskSolvent, HasTx, Current, BlockAt
    <3>. QED
      BY <1>2, <3>1, GivesIs
  <2>. HIDE DEF tx
  <2>3. tx.from \in Addresses /\ tx.to \in Addresses
    BY <2>2 DEF Tx
  <2>4. Solvent(s, chain) /\ Solvent(r, chain)
    <3>1. Solvent(Read(t, tx.to), chain)
      BY <2>3, ReadSolvent
    <3>. QED
      BY <2>1, <3>1 DEF TaskSolvent
  <2>5. AllSolvent(k.mine.wallet, chain)
    BY <2>1 DEF TaskSolvent
  <2>. HIDE DEF r, s
  <2>6. IsSession(p) /\ AllSolvent(p.wallet, chain) /\ p.wallet[tx.from] = s
    BY <2>1, <2>3, <2>4, <2>5, WriteKeeps, WriteSolvent
  <2>. HIDE DEF p
  <2>7. /\ IsSession(q) /\ AllSolvent(q.wallet, chain) /\ q.wallet[tx.to] = r
        /\ \A b \in Addresses \ {tx.to} : q.wallet[b] = p.wallet[b]
    BY <2>3, <2>4, <2>6, WriteKeeps, WriteSolvent
  <2>8. q.wallet[tx.from] = s
    BY <2>3, <2>6, <2>7 DEF r
  <2>. HIDE DEF q
  <2>9. AllSolvent(m.wallet, chain)
    <3>1. AllSolvent(Move(q.wallet, tx), chain)
      BY <1>4, <2>2, <2>7, <2>8, <2>14, MoveSolvent
    <3>. QED
      BY <2>7, <3>1, MovedIs
  <2>. HIDE DEF m
  <2>10. task' = [u \in Tasks |-> IF u = t THEN n ELSE task[u]]
    BY <1>4, <2>1 DEF Applied
  <2>11. task'[t] = n
    BY <2>10
  <2>12. /\ n.pc = "tx" /\ n.todo = k.todo /\ n.mine = m /\ n.save = k.save
         /\ n.tx = k.tx + 1 /\ n.sender = NoWallet
    <3>. HIDE DEF k
    <3>. QED
      BY <2>1, AppliedIs, AppliedAt
  <2>. HIDE DEF n
  <2>13. TaskSolvent(n, chain)
    BY <2>1, <2>9, <2>12, EmptySolvent DEF TaskSolvent
  <2>. QED
    BY <1>1, <2>10, <2>11, <2>13, OneSolvent
<1>. QED
  BY <1>2, <1>3, <1>4

LEMMA ApplyRewardSolvent ==
  ASSUME ChainInv, SolvencyInv, NEW t \in Tasks, ApplyReward(t)
  PROVE  SolvencyInv'
<1>. DEFINE k == task[t]
            v == Current(t).validator
            w == Read(t, v)
            paid == [w EXCEPT !.bal = @ + Reward(Current(t))]
            m == IF w = NoWallet THEN Flushed(t) ELSE Write(Flushed(t), v, paid)
            n == Wrote(k, "check", m)
<1>1. chain' = chain /\ wallet' = wallet
  BY DEF ApplyReward, Step, store
<1>2. /\ k.pc = "tx"
      /\ task' = [task EXCEPT ![t].pc = "check", ![t].mine = m]
  BY DEF ApplyReward
<1>3. /\ task = [u \in Tasks |-> task[u]] /\ IsTask(k) /\ IsSession(k.mine)
      /\ TaskSolvent(k, chain)
  BY TaskIs
<1>4. /\ v \in Addresses /\ Reward(Current(t)) \in Int
      /\ Gives(chain) => Reward(Current(t)) >= 0
  <2>. DEFINE b == Current(t)
  <2>1. b \in Block
    BY <1>2, CurrentIs
  <2>. HIDE DEF b
  <2>2. b.validator \in Addresses /\ b.reward \in Int /\ b.fees \in Int
    BY <2>1 DEF Block
  <2>3. Reward(b) \in Int
    BY <2>2 DEF Reward
  <2>. QED
    BY <1>2, <2>2, <2>3, GivesIs DEF b
<1>5. IsSession(Flushed(t)) /\ AllSolvent(Flushed(t).wallet, chain)
  BY <1>3, FlushedKeeps, FlushedIs DEF TaskSolvent
<1>6. AllSolvent(m.wallet, chain)
  <2>. DEFINE g == Reward(Current(t))
  <2>3. g \in Int /\ (Gives(chain) => g >= 0)
    BY <1>4
  <2>. HIDE DEF v, g
  <2>1. Solvent(w, chain)
    BY <1>4, ReadSolvent
  <2>. HIDE DEF w
  <2>2. w # NoWallet => Solvent(paid, chain)
    BY <2>1, <2>3, CreditSolvent DEF g
  <2>. HIDE DEF paid
  <2>. QED
    BY <1>4, <1>5, <2>2, WriteSolvent
<1>. HIDE DEF m
<1>7. task' = [u \in Tasks |-> IF u = t THEN n ELSE task[u]]
  BY <1>2, <1>3 DEF Wrote
<1>8. task'[t] = n
  BY <1>7
<1>9. /\ n.pc = "check" /\ n.todo = k.todo /\ n.mine = m /\ n.save = k.save
      /\ n.tx = k.tx /\ n.sender = k.sender
  <2>. HIDE DEF k
  <2>. QED
    BY <1>3, WroteIs, WroteAt
<1>. HIDE DEF n
<1>10. TaskSolvent(n, chain)
  BY <1>3, <1>6, <1>9 DEF TaskSolvent
<1>. QED
  BY <1>1, <1>7, <1>8, <1>10, OneSolvent

LEMMA RowsIs ==
  ASSUME NEW m, IsSession(m), NEW h
  PROVE  Grown(m, h).wallet = m.wallet
BY DEF IsSession, Grown

LEMMA IndexIs ==
  ASSUME NEW m, IsSession(m), NEW h, NEW acc
  PROVE  [m EXCEPT !.index = @ \cup {h}, !.account = acc].wallet = m.wallet
BY DEF IsSession

LEMMA CheckIndexSolvent ==
  ASSUME ChainInv, SolvencyInv, NEW t \in Tasks, CheckIndex(t)
  PROVE  SolvencyInv'
<1>. DEFINE k == task[t]
            h == Head(k.todo)
            m == Grown(Flushed(t), h)
            n == Wrote(k, "insert", m)
<1>1. chain' = chain /\ wallet' = wallet
  BY DEF CheckIndex, Added, Step, store
<1>2. /\ k.pc = "check"
      /\ \/ task' = [task EXCEPT ![t] = Returned(t, m, TRUE)]
         \/ task' = [task EXCEPT ![t].pc = "insert", ![t].mine = m]
  BY DEF CheckIndex, Added, Grown
<1>3. /\ task = [u \in Tasks |-> task[u]] /\ IsTask(k) /\ IsSession(k.mine)
      /\ TaskSolvent(k, chain)
  BY TaskIs
<1>4. AllSolvent(m.wallet, chain)
  <2>1. IsSession(Flushed(t)) /\ AllSolvent(Flushed(t).wallet, chain)
    BY <1>3, FlushedKeeps, FlushedIs DEF TaskSolvent
  <2>. HIDE DEF h
  <2>. QED
    BY <2>1, RowsIs
<1>. HIDE DEF m
<1>5. CASE task' = [task EXCEPT ![t] = Returned(t, m, TRUE)]
  BY <1>1, <1>2, <1>4, <1>5, ReturnedSolvent
<1>6. CASE task' = [task EXCEPT ![t].pc = "insert", ![t].mine = m]
  <2>1. task' = [u \in Tasks |-> IF u = t THEN n ELSE task[u]]
    BY <1>3, <1>6 DEF Wrote
  <2>2. task'[t] = n
    BY <2>1
  <2>3. /\ n.pc = "insert" /\ n.todo = k.todo /\ n.mine = m /\ n.save = k.save
        /\ n.tx = k.tx /\ n.sender = k.sender
    <3>. HIDE DEF k
    <3>. QED
      BY <1>3, WroteIs, WroteAt
  <2>. HIDE DEF n
  <2>4. TaskSolvent(n, chain)
    BY <1>3, <1>4, <2>3 DEF TaskSolvent
  <2>. QED
    BY <1>1, <2>1, <2>2, <2>4, OneSolvent
<1>. QED
  BY <1>2, <1>5, <1>6

LEMMA InsertIndexSolvent ==
  ASSUME ChainInv, SolvencyInv, NEW t \in Tasks, InsertIndex(t)
  PROVE  SolvencyInv'
<1>. DEFINE k == task[t]
            h == Head(k.todo)
            acc == IF k.mine.index = {} THEN account ELSE k.mine.account
            new == IndexBlock(acc, Current(t))
            m == [k.mine EXCEPT !.index = @ \cup {h}, !.account = new]
<1>1. chain' = chain /\ wallet' = wallet
  BY DEF InsertIndex, Added, Step, store
<1>2. /\ k.pc = "insert"
      /\ Refuse(t) \/ task' = [task EXCEPT ![t] = Returned(t, m, TRUE)]
  BY DEF InsertIndex, Added
<1>3. IsSession(k.mine) /\ AllSolvent(k.mine.wallet, chain)
  BY TaskIs DEF TaskSolvent
<1>4. AllSolvent(m.wallet, chain)
  <2>. HIDE DEF h, new
  <2>. QED
    BY <1>3, IndexIs
<1>. HIDE DEF m
<1>5. CASE Refuse(t)
  BY <1>1, <1>2, <1>5, RefuseSolvent
<1>6. CASE task' = [task EXCEPT ![t] = Returned(t, m, TRUE)]
  BY <1>1, <1>2, <1>4, <1>6, ReturnedSolvent
<1>. QED
  BY <1>2, <1>5, <1>6

(* The commit writes back the balances of the session.                     *)
LEMMA CommitSolvent ==
  ASSUME SolvencyInv, ChainInv, NEW t \in Tasks, Commit(t)
  PROVE  SolvencyInv'
<1>. DEFINE m == task[t].mine
<1>1. /\ chain' = chain /\ task' = [task EXCEPT ![t] = Idle]
      /\ wallet' = [a \in Addresses |-> IF a \in m.own THEN m.wallet[a] ELSE wallet[a]]
  BY DEF Commit
<1>2. AllSolvent(wallet', chain)
  BY <1>1 DEF SolvencyInv, TaskSolvent, AllSolvent
<1>3. \A u \in Tasks : TaskSolvent(task'[u], chain)
  BY <1>1, IdleSolvent, TaskIs DEF SolvencyInv
<1>. QED
  BY <1>1, <1>2, <1>3 DEF SolvencyInv

LEMMA FailureSolvent ==
  ASSUME ChainInv, SolvencyInv, NEW t \in Tasks,
         StatementFails(t) \/ Deadlock(t) \/ SessionLost(t)
  PROVE  SolvencyInv'
<1>1. chain' = chain /\ wallet' = wallet
  BY DEF StatementFails, Deadlock, SessionLost, store
<1>2. CASE StatementFails(t) \/ Deadlock(t)
  <2>1. task[t].pc \notin {"idle", "commit"} /\ Refuse(t)
    BY <1>2 DEF StatementFails, Deadlock, InAddBlock
  <2>. QED
    BY <1>1, <2>1, RefuseSolvent
<1>3. CASE SessionLost(t)
  <2>1. \A u \in Tasks : TaskSolvent(task'[u], chain)
    BY <1>3, IdleSolvent, TaskIs DEF SessionLost, SolvencyInv
  <2>. QED
    BY <1>1, <2>1 DEF SolvencyInv
<1>. QED
  BY <1>2, <1>3

LEMMA BeginSolvent ==
  ASSUME ChainInv, SolvencyInv, NEW t \in Tasks, NEW kind, NEW todo \in Seq(Heights),
         Begin(t, kind, todo), chain' = chain, wallet' = wallet
  PROVE  SolvencyInv'
<1>. DEFINE n == Begun(Idle, "tip", kind, todo)
<1>1. /\ n.pc = "tip" /\ n.todo = todo /\ n.mine = Idle.mine /\ n.save = Idle.save
      /\ n.tx = Idle.tx /\ n.sender = Idle.sender
  BY IdleIs, BegunIs, BegunAt
<1>2. task' = [u \in Tasks |-> IF u = t THEN n ELSE task[u]]
  <2>1. task' = [task EXCEPT ![t] = n]
    BY DEF Begin, Begun
  <2>. HIDE DEF n
  <2>. QED
    BY <2>1, TaskIs
<1>. HIDE DEF n
<1>3. TaskSolvent(n, chain)
  BY <1>1, IdleSolvent DEF TaskSolvent, Heights
<1>4. task'[t] = n
  BY <1>2
<1>. QED
  BY <1>2, <1>3, <1>4, OneSolvent

LEMMA ArrivalSolvent ==
  ASSUME ChainInv, SolvencyInv, NEW t \in Tasks, NEW from \in Heights, NEW to \in Heights,
         NewBlock(t, from) \/ ProcessNewBlock(t, from) \/ BlocksResponse(t, from, to)
  PROVE  SolvencyInv'
<1>1. chain' = chain /\ wallet' = wallet
  BY DEF NewBlock, ProcessNewBlock, BlocksResponse, store
<1>2. CASE NewBlock(t, from) \/ ProcessNewBlock(t, from)
  <2>1. <<from>> \in Seq(Heights)
    OBVIOUS
  <2>2. \E kind : Begin(t, kind, <<from>>)
    BY <1>2 DEF NewBlock, ProcessNewBlock
  <2>. QED
    BY <1>1, <2>1, <2>2, BeginSolvent
<1>3. CASE BlocksResponse(t, from, to)
  <2>. DEFINE todo == [i \in 1 .. to - from + 1 |-> from + i - 1]
  <2>1. from <= to /\ Begin(t, "batch", todo)
    BY <1>3 DEF BlocksResponse
  <2>2. Len(chain) \in Nat /\ from \in 0 .. Len(chain) - 1 /\ to \in 0 .. Len(chain) - 1
    BY DEF ChainInv, Heights
  <2>3. \A i \in 1 .. to - from + 1 : from + i - 1 \in 0 .. Len(chain) - 1
    BY <2>1, <2>2
  <2>4. to - from + 1 \in Nat
    BY <2>1, <2>2
  <2>5. todo \in Seq(Heights)
    BY <2>3, <2>4 DEF Heights
  <2>. HIDE DEF todo
  <2>. QED
    BY <1>1, <2>1, <2>5, BeginSolvent
<1>. QED
  BY <1>2, <1>3

(* A handler of the application leaves no less than nothing.               *)
LEMMA ApplicationSolvent ==
  ASSUME SolvencyInv, NEW a \in Addresses, NEW n \in Amounts, ApplicationMoves(a, n)
  PROVE  SolvencyInv'
<1>. DEFINE w == wallet[a]
            v == [w EXCEPT !.bal = @ + n]
<1>1. /\ chain' = chain /\ task' = task
      /\ w # NoWallet /\ (n >= 0 \/ w.bal + n >= 0) /\ n \in Int
      /\ wallet' = Put(wallet, a, v)
  BY Bounds DEF ApplicationMoves, Credit, Put
<1>2. AllSolvent(wallet, chain) /\ Solvent(w, chain)
  BY DEF SolvencyInv, AllSolvent
<1>. HIDE DEF w
<1>3. Solvent(v, chain)
  BY <1>1, <1>2 DEF Solvent, Wallet
<1>. HIDE DEF v
<1>4. AllSolvent(wallet', chain)
  BY <1>1, <1>2, <1>3, PutSolvent
<1>. QED
  BY <1>1, <1>4 DEF SolvencyInv

LEMMA SolvencyInit == Init => SolvencyInv
<1>. SUFFICES ASSUME Init PROVE SolvencyInv
  OBVIOUS
<1>1. chain \in Seq(Block)
  <2>1. PICK load \in Workloads : chain = load.chain
    BY DEF Init
  <2>. QED
    BY <2>1, Certified
<1>2. AllSolvent(wallet, chain)
  <2>1. \A a \in Registered : Opening[a] \in Nat
    BY Bounds
  <2>2. wallet = [a \in Addresses |->
                    IF a \in Registered THEN [bal |-> Opening[a], nonce |-> 0]
                    ELSE NoWallet]
    BY DEF Init
  <2>3. \A a \in Registered : Solvent([bal |-> Opening[a], nonce |-> 0], chain)
    BY <2>1 DEF Solvent, Wallet
  <2>. QED
    BY <2>2, <2>3, EmptySolvent DEF AllSolvent
<1>3. \A t \in Tasks : TaskSolvent(task[t], chain)
  BY IdleSolvent DEF Init
<1>. QED
  BY <1>1, <1>2, <1>3 DEF SolvencyInv

LEMMA SolvencyStep == ChainInv /\ SolvencyInv /\ [Next]_vars => SolvencyInv'
<1>. SUFFICES ASSUME ChainInv, SolvencyInv, [Next]_vars PROVE SolvencyInv'
  OBVIOUS
<1>1. ASSUME NEW t \in Tasks, AddBlock(t)
      PROVE  SolvencyInv'
  BY <1>1, ReadTipSolvent, ApplyMintSolvent, ReadSenderSolvent, ApplyTransferSolvent,
     ApplyRewardSolvent, CheckIndexSolvent, InsertIndexSolvent, CommitSolvent DEF AddBlock
<1>2. ASSUME UNCHANGED <<chain, wallet, task>>
      PROVE  SolvencyInv'
  BY <1>2 DEF SolvencyInv
<1>3. ASSUME NEW x \in Transactions, NewTransaction(x) \/ Expire(x)
      PROVE  SolvencyInv'
  BY <1>2, <1>3 DEF NewTransaction, Expire, store
<1>4. CASE UNCHANGED vars
  BY <1>2, <1>4 DEF vars, store
<1>5. ASSUME NEW t \in Tasks,
             \/ \E h \in Heights : NewBlock(t, h) \/ ProcessNewBlock(t, h)
             \/ \E from, to \in Heights : BlocksResponse(t, from, to)
      PROVE  SolvencyInv'
  BY <1>5, ArrivalSolvent
<1>6. CASE Restart
  <2>1. \A u \in Tasks : TaskSolvent(task'[u], chain)
    BY <1>6, IdleSolvent DEF Restart
  <2>. QED
    BY <1>6, <2>1 DEF SolvencyInv, Restart, store
<1>. QED
  BY <1>1, <1>3, <1>4, <1>5, <1>6, FailureSolvent, ApplicationSolvent DEF Next

THEOREM SolvencyAlways == Spec => []SolvencyInv
BY ChainInvAlways, SolvencyInit, SolvencyStep, PTL DEF Spec

(* apply_transaction checks a balance that another session or the          *)
(* application may replace before this one writes it back: still no wallet *)
(* goes below zero, because each session commits the balance it checked,   *)
(* less what it took.  This is so of chains whose amounts and rewards are  *)
(* not negative, which nothing in add_block makes sure of.                 *)
THEOREM NeverOverdrawn == Spec => []NoWalletOverdrawn
<1>1. SolvencyInv => NoWalletOverdrawn
  BY DEF SolvencyInv, AllSolvent, Solvent, NoWalletOverdrawn
<1>. QED
  BY <1>1, SolvencyAlways, PTL
----------------------------------------------------------------------------
(***************************************************************************)
(* What the sessions compute.  The accounts of the index are the replay of *)
(* the blocks it has indexed, and the wallets hold the same, until a block *)
(* is committed on a tip another session had replaced.  The last part      *)
(* gives every variable its type.                                          *)
(***************************************************************************)

Moves == INSTANCE Folding WITH Op <- Move
Blocks == INSTANCE Folding WITH Op <- IndexBlock

----------------------------------------------------------------------------
(* The chain replayed                                                      *)

Fresh == [a \in Addresses |-> Empty]

(* The accounts after the first n blocks of c, and those of a block after  *)
(* its first n transactions.                                               *)
Replay(c, n) == FoldLeft(IndexBlock, Fresh, SubSeq(c, 1, n))
Upto(acc, txs, n) == FoldLeft(Move, acc, SubSeq(txs, 1, n))

LEMMA MovesFold ==
  \A base, s : FoldLeft(Move, base, s) = Moves!Fold(base, s)
BY Zenon DEF Moves!Fold, FoldLeft, Moves!FoldLeft, MapThenFoldSet,
   Moves!MapThenFoldSet, Max, Moves!Max

LEMMA BlocksFold ==
  \A base, s : FoldLeft(IndexBlock, base, s) = Blocks!Fold(base, s)
BY Zenon DEF Blocks!Fold, FoldLeft, Blocks!FoldLeft, MapThenFoldSet,
   Blocks!MapThenFoldSet, Max, Blocks!Max

LEMMA ReplayNone ==
  ASSUME NEW c \in Seq(Block)
  PROVE  Replay(c, 0) = Fresh
<1>1. SubSeq(c, 1, 0) = <<>>
  OBVIOUS
<1>2. Replay(c, 0) = Blocks!Fold(Fresh, <<>>)
  BY Zenon, <1>1, BlocksFold DEF Replay
<1>. QED
  BY <1>2, Blocks!FoldEmpty

LEMMA ReplayNext ==
  ASSUME NEW c \in Seq(Block), NEW n \in 0 .. Len(c) - 1
  PROVE  Replay(c, n + 1) = IndexBlock(Replay(c, n), c[n + 1])
<1>1. /\ Replay(c, n + 1) = Blocks!Fold(Fresh, SubSeq(c, 1, n + 1))
      /\ Replay(c, n) = Blocks!Fold(Fresh, SubSeq(c, 1, n))
  BY Zenon, BlocksFold DEF Replay
<1>2. Blocks!Fold(Fresh, SubSeq(c, 1, n + 1)) =
        IndexBlock(Blocks!Fold(Fresh, SubSeq(c, 1, n)), c[n + 1])
  BY Blocks!FoldPrefix
<1>. QED
  BY Zenon, <1>1, <1>2

LEMMA UptoNone ==
  ASSUME NEW acc, NEW s \in Seq(Tx)
  PROVE  Upto(acc, s, 0) = acc
<1>1. SubSeq(s, 1, 0) = <<>>
  OBVIOUS
<1>2. Upto(acc, s, 0) = Moves!Fold(acc, <<>>)
  BY Zenon, <1>1, MovesFold DEF Upto
<1>. QED
  BY <1>2, Moves!FoldEmpty

LEMMA UptoNext ==
  ASSUME NEW acc, NEW s \in Seq(Tx), NEW n \in 0 .. Len(s) - 1
  PROVE  Upto(acc, s, n + 1) = Move(Upto(acc, s, n), s[n + 1])
<1>1. /\ Upto(acc, s, n + 1) = Moves!Fold(acc, SubSeq(s, 1, n + 1))
      /\ Upto(acc, s, n) = Moves!Fold(acc, SubSeq(s, 1, n))
  BY Zenon, MovesFold DEF Upto
<1>2. Moves!Fold(acc, SubSeq(s, 1, n + 1)) =
        Move(Moves!Fold(acc, SubSeq(s, 1, n)), s[n + 1])
  BY Moves!FoldPrefix
<1>. QED
  BY Zenon, <1>1, <1>2

LEMMA UptoAll ==
  ASSUME NEW acc, NEW b \in Block
  PROVE  IndexBlock(acc, b) = Credit(Upto(acc, b.txs, Len(b.txs)), b.validator, Reward(b))
<1>. DEFINE s == b.txs
<1>1. s \in Seq(Tx)
  BY DEF Block
<1>2. SubSeq(s, 1, Len(s)) = s
  <2>. HIDE DEF s
  <2>. QED
    BY <1>1
<1>. QED
  BY Zenon, <1>2 DEF IndexBlock, Upto

(* Blocks move the accounts of a node to accounts.                         *)
Accounts == [Addresses -> Wallet]

LEMMA CreditTyped ==
  ASSUME NEW f \in Accounts, NEW a \in Addresses, NEW n \in Int
  PROVE  /\ Credit(f, a, n) \in Accounts
         /\ \A b \in Addresses :
              Credit(f, a, n)[b] = IF b = a THEN [bal |-> f[a].bal + n, nonce |-> f[a].nonce]
                                   ELSE f[b]
<1>. DEFINE r == f[a]
            got == [r EXCEPT !.bal = @ + n]
<1>1. r \in Wallet
  BY DEF Accounts
<1>2. got = [bal |-> r.bal + n, nonce |-> r.nonce] /\ got \in Wallet
  <2>. HIDE DEF r
  <2>. QED
    BY <1>1 DEF Wallet
<1>3. Credit(f, a, n) = [f EXCEPT ![a] = got]
  BY DEF Credit
<1>. HIDE DEF got
<1>. QED
  BY <1>2, <1>3 DEF Accounts

Debited(w, tx) == [bal |-> w.bal - tx.amount - tx.fee, nonce |-> tx.nonce + 1]

LEMMA MoveIs ==
  ASSUME NEW f, NEW tx
  PROVE  Move(f, tx) = Credit(Put(f, tx.from, Debited(f[tx.from], tx)), tx.to, tx.amount)
BY DEF Move, Put, Debited

LEMMA MoveTyped ==
  ASSUME NEW f \in Accounts, NEW tx \in Tx
  PROVE  Move(f, tx) \in Accounts
<1>. DEFINE g == Put(f, tx.from, Debited(f[tx.from], tx))
<1>1. /\ tx.from \in Addresses /\ tx.to \in Addresses
      /\ tx.amount \in Int /\ tx.fee \in Int /\ tx.nonce \in Nat
  BY DEF Tx
<1>2. f[tx.from] \in Wallet
  BY <1>1 DEF Accounts
<1>3. Debited(f[tx.from], tx) \in Wallet
  <2>. DEFINE w == f[tx.from]
  <2>1. w.bal \in Int
    BY <1>2 DEF Wallet
  <2>. HIDE DEF w
  <2>2. Debited(w, tx) \in Wallet
    BY <1>1, <2>1 DEF Wallet, Debited
  <2>. QED
    BY <2>2 DEF w
<1>4. g \in Accounts
  BY <1>1, <1>3 DEF Accounts, Put
<1>. HIDE DEF g
<1>5. Credit(g, tx.to, tx.amount) \in Accounts
  BY <1>1, <1>4, CreditTyped
<1>. QED
  BY <1>5, MoveIs DEF g

LEMMA FreshTyped == Fresh \in Accounts
BY EmptySolvent DEF Fresh, Accounts

(* Folding transactions and blocks over accounts gives accounts.           *)
LEMMA UptoTyped ==
  ASSUME NEW f \in Accounts, NEW s \in Seq(Tx), NEW n \in 0 .. Len(s)
  PROVE  Upto(f, s, n) \in Accounts
<1>. DEFINE c == SubSeq(s, 1, n)
<1>1. c \in Seq(Tx)
  OBVIOUS
<1>2. \A a \in Accounts : \A e \in Tx : Move(a, e) \in Accounts
  BY MoveTyped
<1>3. Upto(f, s, n) = Moves!Fold(f, c)
  BY Zenon, MovesFold DEF Upto
<1>. HIDE DEF c
<1>. QED
  BY <1>1, <1>2, <1>3, Moves!FoldInvariant

LEMMA IndexBlockTyped ==
  ASSUME NEW f \in Accounts, NEW b \in Block
  PROVE  IndexBlock(f, b) \in Accounts
<1>1. b.txs \in Seq(Tx) /\ b.validator \in Addresses /\ Reward(b) \in Int
  BY DEF Block, Reward
<1>2. Upto(f, b.txs, Len(b.txs)) \in Accounts
  <2>. DEFINE s == b.txs
  <2>1. s \in Seq(Tx)
    BY <1>1
  <2>. HIDE DEF s
  <2>2. Len(s) \in 0 .. Len(s)
    BY <2>1
  <2>3. Upto(f, s, Len(s)) \in Accounts
    BY <2>1, <2>2, UptoTyped
  <2>. QED
    BY <2>3 DEF s
<1>. DEFINE g == Upto(f, b.txs, Len(b.txs))
            v == b.validator
            r == Reward(b)
<1>3. IndexBlock(f, b) = Credit(g, v, r)
  BY UptoAll
<1>. HIDE DEF g, v, r
<1>4. g \in Accounts /\ v \in Addresses /\ r \in Int
  BY <1>1, <1>2 DEF g, v, r
<1>. QED
  BY <1>3, <1>4, CreditTyped

LEMMA ReplayTyped ==
  ASSUME NEW c \in Seq(Block), NEW n \in 0 .. Len(c)
  PROVE  Replay(c, n) \in Accounts
<1>. DEFINE s == SubSeq(c, 1, n)
<1>1. s \in Seq(Block)
  OBVIOUS
<1>2. \A a \in Accounts : \A e \in Block : IndexBlock(a, e) \in Accounts
  BY IndexBlockTyped
<1>3. Replay(c, n) = Blocks!Fold(Fresh, s)
  BY Zenon, BlocksFold DEF Replay
<1>. HIDE DEF s
<1>. QED
  BY <1>1, <1>2, <1>3, FreshTyped, Blocks!FoldInvariant

----------------------------------------------------------------------------
(* What the steps of add_block do to a session                             *)

Becomes(t, n) == task' = [u \in Tasks |-> IF u = t THEN n ELSE task[u]]

(* The rows, the index and the accounts of a session.                      *)
SameLedger(m, o) == m.rows = o.rows /\ m.index = o.index /\ m.account = o.account

(* The wallets as a session sees them when w are the committed ones.       *)
View(m, w) == [a \in Addresses |-> IF a \in m.own THEN m.wallet[a] ELSE w[a]]

(* A session has wallets of the chain's addresses only.                    *)
Owns(m) == m.own \subseteq Addresses /\ m.dirty \subseteq Addresses

(* k goes on to n within its block.                                        *)
GoesOn(k, n) ==
    /\ IsTask(n) /\ IsSession(n.mine) /\ (Owns(k.mine) => Owns(n.mine))
    /\ n.todo = k.todo /\ n.base = k.base /\ n.kind = k.kind /\ n.save = k.save

(* k has left its block with m written.                                    *)
LeavesBlock(k, n, m) ==
    /\ n.mine = m /\ n.save = m /\ n.base = k.base /\ n.tx = 1
    /\ n.kind = k.kind /\ n.pc \in {"tip", "commit"}

(* add_block has returned: the coroutine is idle, or it left its block.    *)
Returns(t, m) ==
    \/ Becomes(t, Idle)
    \/ \E n : Becomes(t, n) /\ LeavesBlock(task[t], n, m)

LEMMA WriteRecord ==
  ASSUME NEW m, IsSession(m), NEW a, NEW w
  PROVE  /\ IsSession(Write(m, a, w)) /\ SameLedger(Write(m, a, w), m)
         /\ Write(m, a, w).own = m.own \cup {a}
         /\ a \in Addresses /\ Owns(m) => Owns(Write(m, a, w))
<1>. DEFINE v == [m.wallet EXCEPT ![a] = w]
            p == [m EXCEPT !.wallet = v]
            q == [p EXCEPT !.own = @ \cup {a}]
            r == [q EXCEPT !.dirty = @ \cup {a}]
<1>1. /\ IsSession(p) /\ p.rows = m.rows /\ p.index = m.index /\ p.account = m.account
      /\ p.own = m.own /\ p.dirty = m.dirty
  BY DEF IsSession
<1>2. /\ IsSession(q) /\ q.rows = p.rows /\ q.index = p.index /\ q.account = p.account
      /\ q.own = p.own \cup {a} /\ q.dirty = p.dirty
  <2>. HIDE DEF p
  <2>. QED
    BY <1>1 DEF IsSession
<1>3. /\ IsSession(r) /\ r.rows = q.rows /\ r.index = q.index /\ r.account = q.account
      /\ r.own = q.own /\ r.dirty = q.dirty \cup {a}
  <2>. HIDE DEF q
  <2>. QED
    BY <1>2 DEF IsSession
<1>4. Write(m, a, w) = r
  BY <1>1, <1>2 DEF Write
<1>. HIDE DEF p, q, r
<1>. QED
  BY <1>1, <1>2, <1>3, <1>4 DEF SameLedger, Owns

LEMMA FlushedRecord ==
  ASSUME NEW t, IsSession(task[t].mine)
  PROVE  /\ IsSession(Flushed(t)) /\ SameLedger(Flushed(t), task[t].mine)
         /\ Flushed(t).own = task[t].mine.own /\ Flushed(t).wallet = task[t].mine.wallet
         /\ Owns(task[t].mine) => Owns(Flushed(t))
BY DEF IsSession, Flushed, SameLedger, Owns

LEMMA MovedRecord ==
  ASSUME NEW m, IsSession(m), NEW w
  PROVE  LET n == [m EXCEPT !.wallet = w] IN
         /\ IsSession(n) /\ SameLedger(n, m) /\ n.own = m.own /\ n.wallet = w
         /\ Owns(m) => Owns(n)
BY DEF IsSession, SameLedger, Owns

LEMMA GrownRecord ==
  ASSUME NEW m, IsSession(m), NEW h
  PROVE  /\ Grown(m, h).account = m.account /\ Grown(m, h).own = m.own
         /\ Owns(m) => Owns(Grown(m, h))
BY DEF IsSession, Grown, Owns

(* The session m after the insert of height h, which leaves acc.           *)
Inserted(m, h, acc) == [m EXCEPT !.index = @ \cup {h}, !.account = acc]

LEMMA InsertedRecord ==
  ASSUME NEW m, IsSession(m), NEW h, NEW acc
  PROVE  LET n == Inserted(m, h, acc) IN
         /\ IsSession(n) /\ n.rows = m.rows /\ n.index = m.index \cup {h}
         /\ n.account = acc /\ n.own = m.own /\ n.wallet = m.wallet
         /\ Owns(m) => Owns(n)
<1>. DEFINE p == [m EXCEPT !.index = @ \cup {h}]
            q == [p EXCEPT !.account = acc]
<1>1. /\ IsSession(p) /\ p.rows = m.rows /\ p.index = m.index \cup {h}
      /\ p.own = m.own /\ p.wallet = m.wallet /\ p.dirty = m.dirty
  <2>. DEFINE x == m.index \cup {h}
  <2>. HIDE DEF x
  <2>1. LET o == [m EXCEPT !.index = x] IN
        /\ IsSession(o) /\ o.rows = m.rows /\ o.index = x
        /\ o.own = m.own /\ o.wallet = m.wallet /\ o.dirty = m.dirty
    BY DEF IsSession
  <2>. QED
    BY Zenon, <2>1 DEF x
<1>2. IsSession(q) /\ q.rows = p.rows /\ q.index = p.index
      /\ q.account = acc /\ q.own = p.own /\ q.wallet = p.wallet /\ q.dirty = p.dirty
  <2>. HIDE DEF p
  <2>. QED
    BY <1>1 DEF IsSession
<1>3. Inserted(m, h, acc) = q
  BY DEF Inserted
<1>. HIDE DEF p, q
<1>. QED
  BY <1>1, <1>2, <1>3 DEF Owns

(* What a session that writes the wallet of a sees.                        *)
LEMMA WriteView ==
  ASSUME NEW m, IsSession(m), m.wallet = [b \in Addresses |-> m.wallet[b]],
         NEW a \in Addresses, NEW w, NEW f
  PROVE  View(Write(m, a, w), f) = Put(View(m, f), a, w)
<1>. DEFINE r == Write(m, a, w)
<1>1. r.own = m.own \cup {a} /\ r.wallet = Put(m.wallet, a, w)
  BY WriteRecord, WriteIs
<1>2. \A b \in Addresses : r.wallet[b] = IF b = a THEN w ELSE m.wallet[b]
  BY <1>1 DEF Put
<1>. HIDE DEF r
<1>3. View(r, f) = [b \in Addresses |-> IF b = a THEN w ELSE View(m, f)[b]]
  BY <1>1, <1>2 DEF View
<1>4. Put(View(m, f), a, w) = [b \in Addresses |-> IF b = a THEN w ELSE View(m, f)[b]]
  BY DEF View, Put
<1>. QED
  BY <1>3, <1>4 DEF r

LEMMA ReadIs ==
  ASSUME NEW t, NEW a \in Addresses
  PROVE  Read(t, a) = View(task[t].mine, wallet)[a]
BY DEF Read, View

LEMMA ReturnedGoes ==
  ASSUME ChainInv, NEW t \in Tasks, task[t].pc \notin {"idle", "commit"},
         NEW m, NEW added \in BOOLEAN,
         task' = [task EXCEPT ![t] = Returned(t, m, added)]
  PROVE  Returns(t, m)
<1>. DEFINE n == Returned(t, m, added)
<1>1. IsTask(task[t]) /\ task = [u \in Tasks |-> task[u]]
  BY DEF ChainInv, TaskOK
<1>2. Becomes(t, n)
  BY <1>1 DEF Becomes
<1>3. ASSUME n # Idle
      PROVE  LeavesBlock(task[t], n, m)
  <2>. DEFINE k == task[t]
  <2>1. /\ IsTask(n) /\ n.kind = k.kind /\ n.base = k.base
        /\ n.todo = Tail(k.todo) /\ n.mine = m /\ n.save = m
        /\ n.pc = IF Len(k.todo) > 1 THEN "tip" ELSE "commit"
        /\ n.pc = "commit" => k.kind = "batch" \/ added
    BY <1>1, <1>3, ReturnedIs
  <2>2. n.tx = 1 /\ n.sender = NoWallet
    BY <1>1, <1>3, ReturnedAt
  <2>. HIDE DEF n
  <2>. QED
    BY <2>1, <2>2 DEF LeavesBlock
<1>. HIDE DEF n
<1>. QED
  BY <1>2, <1>3 DEF Returns

LEMMA RefuseGoes ==
  ASSUME ChainInv, NEW t \in Tasks, task[t].pc \notin {"idle", "commit"}, Refuse(t)
  PROVE  Returns(t, task[t].save)
<1>1. task' = [task EXCEPT ![t] = Returned(t, task[t].save, FALSE)]
  BY DEF Refuse
<1>. QED
  BY <1>1, ReturnedGoes

LEMMA TipGoes ==
  ASSUME ChainInv, SolvencyInv, NEW t \in Tasks, ReadTip(t)
  PROVE  \/ Refuse(t)
         \/ /\ Head(task[t].todo) = Tip(t) + 1
            /\ \E n : /\ Becomes(t, n) /\ IsTask(n) /\ n.pc = "tx" /\ n.tx = task[t].tx
                      /\ n.todo = task[t].todo
                      /\ n.mine = task[t].mine /\ n.save = task[t].save
                      /\ n.kind = task[t].kind
                      /\ n.base = IF task[t].mine.rows = <<>> THEN Len(rows)
                                  ELSE task[t].base
<1>. DEFINE k == task[t]
            b == IF k.mine.rows = <<>> THEN Len(rows) ELSE k.base
            n == Based(k, "tx", b)
<1>1. \/ Refuse(t)
      \/ /\ Head(k.todo) = Tip(t) + 1
         /\ task' = [task EXCEPT ![t].pc = "tx", ![t].base = b]
  BY DEF ReadTip
<1>2. ASSUME task' = [task EXCEPT ![t].pc = "tx", ![t].base = b]
      PROVE  /\ Becomes(t, n) /\ IsTask(n) /\ n.pc = "tx" /\ n.tx = k.tx
             /\ n.todo = k.todo /\ n.mine = k.mine /\ n.save = k.save /\ n.base = b
             /\ n.kind = k.kind
  <2>1. task = [u \in Tasks |-> task[u]] /\ IsTask(k)
    BY TaskIs
  <2>. HIDE DEF b
  <2>2. Becomes(t, n)
    BY <1>2, <2>1 DEF Based, Becomes
  <2>. HIDE DEF k
  <2>. QED
    BY <2>1, <2>2, BasedIs, BasedAt
<1>. HIDE DEF n
<1>. QED
  BY <1>1, <1>2

LEMMA MintGoes ==
  ASSUME ChainInv, SolvencyInv, NEW t \in Tasks, ApplyMint(t)
  PROVE  \/ Refuse(t)
         \/ \E n, was :
              /\ Becomes(t, n) /\ GoesOn(task[t], n)
              /\ n.pc = "tx" /\ n.tx = task[t].tx + 1
              /\ SameLedger(n.mine, task[t].mine)
              /\ n.mine.own = task[t].mine.own \cup {CurrentTx(t).to}
              /\ was = IF Read(t, CurrentTx(t).to) = NoWallet THEN Empty
                       ELSE Read(t, CurrentTx(t).to)
              /\ CurrentTx(t).nonce = 0 /\ CurrentTx(t).fee = 0
              /\ View(n.mine, wallet) =
                   Put(View(task[t].mine, wallet), CurrentTx(t).to,
                       [was EXCEPT !.bal = @ + CurrentTx(t).amount])
<1>. DEFINE k == task[t]
            tx == CurrentTx(t)
            w == Read(t, tx.to)
            was == IF w = NoWallet THEN Empty ELSE w
            paid == [was EXCEPT !.bal = @ + tx.amount]
            f == Flushed(t)
            m == Write(f, tx.to, paid)
            n == Minted(k, k.tx + 1, m)
<1>1. /\ k.pc = "tx" /\ HasTx(t)
      /\ \/ Refuse(t)
         \/ /\ task' = [task EXCEPT ![t].tx = @ + 1, ![t].mine = m]
            /\ tx.nonce = 0 /\ tx.fee = 0
  BY DEF ApplyMint
<1>2. ASSUME task' = [task EXCEPT ![t].tx = @ + 1, ![t].mine = m]
      PROVE  /\ Becomes(t, n) /\ GoesOn(k, n) /\ n.pc = "tx" /\ n.tx = k.tx + 1
             /\ SameLedger(n.mine, k.mine) /\ n.mine.own = k.mine.own \cup {tx.to}
             /\ View(n.mine, wallet) = Put(View(k.mine, wallet), tx.to, paid)
  <2>1. /\ task = [u \in Tasks |-> task[u]] /\ IsTask(k) /\ IsSession(k.mine)
        /\ k.mine.wallet = [b \in Addresses |-> k.mine.wallet[b]]
    BY TaskIs DEF TaskSolvent, AllSolvent
  <2>2. tx.to \in Addresses
    <3>1. tx \in Tx
      BY <1>1, CurrentIs
    <3>. HIDE DEF tx
    <3>. QED
      BY <3>1 DEF Tx
  <2>3. /\ IsSession(f) /\ SameLedger(f, k.mine)
        /\ f.own = k.mine.own /\ f.wallet = k.mine.wallet
        /\ Owns(k.mine) => Owns(f)
    BY <2>1, FlushedRecord
  <2>4. View(f, wallet) = View(k.mine, wallet)
    <3>. HIDE DEF f
    <3>. QED
      BY <2>3 DEF View
  <2>. HIDE DEF f, tx, paid, was, w
  <2>5. /\ IsSession(m) /\ SameLedger(m, f) /\ m.own = f.own \cup {tx.to}
        /\ View(m, wallet) = Put(View(f, wallet), tx.to, paid)
        /\ Owns(f) => Owns(m)
    BY <2>1, <2>2, <2>3, WriteRecord, WriteView
  <2>. HIDE DEF m
  <2>6. Becomes(t, n)
    BY <1>2, <2>1 DEF Minted, Becomes
  <2>7. /\ IsTask(n) /\ n.pc = k.pc /\ n.kind = k.kind /\ n.todo = k.todo /\ n.base = k.base
        /\ n.mine = m /\ n.save = k.save /\ n.tx = k.tx + 1
    <3>. HIDE DEF k
    <3>. QED
      BY <2>1, MintedIs, MintedAt
  <2>. HIDE DEF n
  <2>. QED
    BY <1>1, <2>3, <2>4, <2>5, <2>6, <2>7 DEF GoesOn, SameLedger
<1>. HIDE DEF n
<1>. QED
  BY <1>1, <1>2

LEMMA SenderGoes ==
  ASSUME ChainInv, SolvencyInv, NEW t \in Tasks, ReadSender(t)
  PROVE  \E n : /\ Becomes(t, n) /\ GoesOn(task[t], n)
                /\ n.pc = "apply" /\ n.tx = task[t].tx
                /\ n.sender = Read(t, CurrentTx(t).from)
                /\ SameLedger(n.mine, task[t].mine)
                /\ n.mine.own = task[t].mine.own
                /\ View(n.mine, wallet) = View(task[t].mine, wallet)
<1>. DEFINE k == task[t]
            s == Read(t, CurrentTx(t).from)
            m == Flushed(t)
            n == Loaded(k, "apply", s, m)
<1>1. task' = [task EXCEPT ![t].pc = "apply", ![t].sender = s, ![t].mine = m]
  BY DEF ReadSender
<1>2. task = [u \in Tasks |-> task[u]] /\ IsTask(k) /\ IsSession(k.mine)
  BY TaskIs
<1>3. /\ IsSession(m) /\ SameLedger(m, k.mine)
      /\ m.own = k.mine.own /\ m.wallet = k.mine.wallet
      /\ Owns(k.mine) => Owns(m)
  BY <1>2, FlushedRecord
<1>. HIDE DEF s, m
<1>4. View(m, wallet) = View(k.mine, wallet)
  BY <1>3 DEF View
<1>5. Becomes(t, n)
  BY <1>1, <1>2 DEF Loaded, Becomes
<1>6. /\ IsTask(n) /\ n.pc = "apply" /\ n.kind = k.kind /\ n.todo = k.todo
      /\ n.base = k.base /\ n.mine = m /\ n.save = k.save /\ n.tx = k.tx /\ n.sender = s
  <2>. HIDE DEF k
  <2>. QED
    BY <1>2, LoadedIs, LoadedAt
<1>. HIDE DEF n
<1>7. /\ Becomes(t, n) /\ GoesOn(k, n) /\ n.pc = "apply" /\ n.tx = k.tx /\ n.sender = s
      /\ SameLedger(n.mine, k.mine) /\ n.mine.own = k.mine.own
      /\ View(n.mine, wallet) = View(k.mine, wallet)
  BY <1>3, <1>4, <1>5, <1>6 DEF GoesOn, SameLedger
<1>. QED
  BY <1>7 DEF s

LEMMA TransferGoes ==
  ASSUME ChainInv, SolvencyInv, NEW t \in Tasks, ApplyTransfer(t)
  PROVE  \/ Refuse(t)
         \/ \E n, r :
              /\ Becomes(t, n) /\ GoesOn(task[t], n)
              /\ n.pc = "tx" /\ n.tx = task[t].tx + 1
              /\ SameLedger(n.mine, task[t].mine)
              /\ n.mine.own = task[t].mine.own \cup {CurrentTx(t).from, CurrentTx(t).to}
              /\ Acceptable(task[t].sender, CurrentTx(t))
              /\ r = IF CurrentTx(t).to = CurrentTx(t).from THEN task[t].sender
                     ELSE Read(t, CurrentTx(t).to)
              /\ r # NoWallet
              /\ View(n.mine, wallet) =
                   Move(Put(View(task[t].mine, wallet), CurrentTx(t).from, task[t].sender),
                        CurrentTx(t))
<1>. DEFINE k == task[t]
            tx == CurrentTx(t)
            s == k.sender
            r == IF tx.to = tx.from THEN s ELSE Read(t, tx.to)
            f == View(k.mine, wallet)
            v == Put(f, tx.from, s)
            p == Write(k.mine, tx.from, s)
            q == Write(p, tx.to, r)
            x == Move(q.wallet, tx)
            m == [q EXCEPT !.wallet = x]
            n == Applied(k, "tx", k.tx + 1, NoWallet, m)
<1>1. /\ k.pc = "apply"
      /\ \/ Refuse(t)
         \/ /\ Acceptable(s, tx) /\ r # NoWallet
            /\ task' = [task EXCEPT ![t].pc = "tx", ![t].tx = @ + 1,
                            ![t].sender = NoWallet,
                            ![t].mine = [q EXCEPT !.wallet = Move(@, tx)]]
  BY DEF ApplyTransfer
<1>2. ASSUME /\ Acceptable(s, tx) /\ r # NoWallet
             /\ task' = [task EXCEPT ![t].pc = "tx", ![t].tx = @ + 1,
                            ![t].sender = NoWallet,
                            ![t].mine = [q EXCEPT !.wallet = Move(@, tx)]]
      PROVE  /\ Becomes(t, n) /\ GoesOn(k, n) /\ n.pc = "tx" /\ n.tx = k.tx + 1
             /\ SameLedger(n.mine, k.mine)
             /\ n.mine.own = k.mine.own \cup {tx.from, tx.to}
             /\ View(n.mine, wallet) = Move(v, tx)
  <2>1. /\ task = [u \in Tasks |-> task[u]] /\ IsTask(k) /\ IsSession(k.mine)
        /\ k.mine.wallet = [b \in Addresses |-> k.mine.wallet[b]]
        /\ TaskSolvent(k, chain)
    BY TaskIs DEF TaskSolvent, AllSolvent
  <2>2. tx.from \in Addresses /\ tx.to \in Addresses
    <3>1. HasTx(t)
      BY <1>1, <2>1 DEF TaskSolvent, HasTx, Current, BlockAt
    <3>2. tx \in Tx
      BY <1>1, <3>1, CurrentIs
    <3>. HIDE DEF tx
    <3>. QED
      BY <3>2 DEF Tx
  <2>3. v = [b \in Addresses |-> IF b = tx.from THEN s ELSE f[b]]
    <3>. HIDE DEF s, tx, k
    <3>. QED
      BY DEF Put, View
  <2>14. f[tx.to] = Read(t, tx.to)
    BY <2>2, ReadIs
  <2>. HIDE DEF v
  <2>15. v[tx.from] = s /\ v[tx.to] = r
    <3>. HIDE DEF s, tx, f
    <3>. QED
      BY <2>2, <2>3, <2>14
  <2>4. [q EXCEPT !.wallet = Move(@, tx)] = m
    OBVIOUS
  <2>. HIDE DEF tx
  <2>5. /\ IsSession(p) /\ SameLedger(p, k.mine) /\ p.own = k.mine.own \cup {tx.from}
        /\ p.wallet = Put(k.mine.wallet, tx.from, s)
        /\ Owns(k.mine) => Owns(p)
    <3>. HIDE DEF s
    <3>. QED
      BY <2>1, <2>2, WriteRecord, WriteIs
  <2>6. p.wallet = [b \in Addresses |-> IF b = tx.from THEN s ELSE k.mine.wallet[b]]
    <3>. HIDE DEF p, s, k
    <3>. QED
      BY <2>1, <2>5 DEF Put
  <2>. HIDE DEF p
  <2>7. /\ IsSession(q) /\ SameLedger(q, p) /\ q.own = p.own \cup {tx.to}
        /\ q.wallet = Put(p.wallet, tx.to, r)
        /\ Owns(p) => Owns(q)
    <3>. HIDE DEF r
    <3>. QED
      BY <2>2, <2>5, WriteRecord, WriteIs
  <2>8. q.wallet = [b \in Addresses |-> IF b = tx.to THEN r
                                        ELSE IF b = tx.from THEN s ELSE k.mine.wallet[b]]
    <3>. HIDE DEF q, r, s, k
    <3>. QED
      BY <2>6, <2>7 DEF Put
  <2>. HIDE DEF q
  <2>9. /\ IsSession(m) /\ SameLedger(m, q) /\ m.own = q.own /\ m.wallet = x
        /\ Owns(q) => Owns(m)
    <3>. HIDE DEF x
    <3>. QED
      BY <2>7, MovedRecord
  <2>10. View(m, wallet) = Move(v, tx)
    <3>. HIDE DEF s, r
    <3>1. /\ q.wallet[tx.from] = v[tx.from] /\ q.wallet[tx.to] = v[tx.to]
          /\ DOMAIN q.wallet = Addresses
      BY <2>2, <2>8, <2>15
    <3>2. \A b \in Addresses \ {tx.from, tx.to} : x[b] = q.wallet[b]
      BY <2>2, <2>8 DEF Move, Credit
    <3>3. /\ x[tx.from] = Move(v, tx)[tx.from] /\ x[tx.to] = Move(v, tx)[tx.to]
      <4>1. /\ v = [b \in Addresses |-> v[b]]
            /\ q.wallet = [b \in Addresses |-> q.wallet[b]]
        BY <2>3, <2>8
      <4>. QED
        BY <2>2, <3>1, <4>1 DEF Move, Credit
    <3>4. \A b \in Addresses \ {tx.from, tx.to} : Move(v, tx)[b] = f[b]
      BY <2>2, <2>3 DEF Move, Credit
    <3>5. \A b \in Addresses : View(m, wallet)[b] = Move(v, tx)[b]
      <4>1. m.own = k.mine.own \cup {tx.from, tx.to} /\ m.wallet = x
        BY <2>5, <2>7, <2>9
      <4>2. \A b \in Addresses : b \notin {tx.from, tx.to} /\ b \in k.mine.own =>
              x[b] = k.mine.wallet[b]
        BY <2>8, <3>2
      <4>. HIDE DEF m, x, k
      <4>. QED
        BY <3>3, <3>4, <4>1, <4>2 DEF View
    <3>6. Move(v, tx) = [b \in Addresses |-> Move(v, tx)[b]]
      BY <2>3 DEF Move, Credit
    <3>7. View(m, wallet) = [b \in Addresses |-> View(m, wallet)[b]]
      BY DEF View
    <3>. HIDE DEF m, v
    <3>. QED
      BY <3>5, <3>6, <3>7
  <2>. HIDE DEF m
  <2>11. task' = [task EXCEPT ![t].pc = "tx", ![t].tx = @ + 1,
                              ![t].sender = NoWallet, ![t].mine = m]
    BY <1>2, <2>4
  <2>12. Becomes(t, n)
    BY <2>1, <2>11 DEF Applied, Becomes
  <2>13. /\ IsTask(n) /\ n.pc = "tx" /\ n.kind = k.kind /\ n.todo = k.todo
         /\ n.base = k.base /\ n.mine = m /\ n.save = k.save /\ n.tx = k.tx + 1
    <3>. HIDE DEF k
    <3>. QED
      BY <2>1, AppliedIs, AppliedAt
  <2>. HIDE DEF n
  <2>. QED
    BY <2>5, <2>7, <2>9, <2>10, <2>12, <2>13 DEF GoesOn, SameLedger
<1>. HIDE DEF n
<1>3. \/ Refuse(t)
      \/ \E y, z : /\ Becomes(t, y) /\ GoesOn(k, y) /\ y.pc = "tx" /\ y.tx = k.tx + 1
                   /\ SameLedger(y.mine, k.mine)
                   /\ y.mine.own = k.mine.own \cup {tx.from, tx.to}
                   /\ Acceptable(s, tx) /\ z = r /\ z # NoWallet
                   /\ View(y.mine, wallet) = Move(v, tx)
  <2>. HIDE DEF v, r, s, tx, k
  <2>. QED
    BY <1>1, <1>2
<1>. QED
  BY <1>3

LEMMA RewardGoes ==
  ASSUME ChainInv, SolvencyInv, NEW t \in Tasks, ApplyReward(t)
  PROVE  \E n, paid, v :
           /\ Becomes(t, n) /\ GoesOn(task[t], n)
           /\ n.pc = "check" /\ n.tx = task[t].tx
           /\ SameLedger(n.mine, task[t].mine)
           /\ v = Current(t).validator /\ v \in Addresses
           /\ paid = [Read(t, v) EXCEPT !.bal = @ + Reward(Current(t))]
           /\ IF Read(t, v) = NoWallet
              THEN /\ n.mine.own = task[t].mine.own
                   /\ View(n.mine, wallet) = View(task[t].mine, wallet)
              ELSE /\ n.mine.own = task[t].mine.own \cup {v}
                   /\ View(n.mine, wallet) = Put(View(task[t].mine, wallet), v, paid)
<1>. DEFINE k == task[t]
            v == Current(t).validator
            w == Read(t, v)
            paid == [w EXCEPT !.bal = @ + Reward(Current(t))]
            f == Flushed(t)
            g == Write(f, v, paid)
            m == IF w = NoWallet THEN f ELSE g
            n == Wrote(k, "check", m)
<1>1. k.pc = "tx" /\ task' = [task EXCEPT ![t].pc = "check", ![t].mine = m]
  BY DEF ApplyReward
<1>2. /\ task = [u \in Tasks |-> task[u]] /\ IsTask(k) /\ IsSession(k.mine)
      /\ k.mine.wallet = [b \in Addresses |-> k.mine.wallet[b]]
  BY TaskIs DEF TaskSolvent, AllSolvent
<1>3. v \in Addresses
  <2>. DEFINE b == Current(t)
  <2>1. b \in Block
    BY <1>1, CurrentIs
  <2>. HIDE DEF b
  <2>2. b.validator \in Addresses
    BY <2>1 DEF Block
  <2>. QED
    BY <2>2 DEF b
<1>4. /\ IsSession(f) /\ SameLedger(f, k.mine)
      /\ f.own = k.mine.own /\ f.wallet = k.mine.wallet
      /\ Owns(k.mine) => Owns(f)
  BY <1>2, FlushedRecord
<1>5. View(f, wallet) = View(k.mine, wallet)
  <2>. HIDE DEF f
  <2>. QED
    BY <1>4 DEF View
<1>. HIDE DEF f, v, paid, w
<1>6. /\ IsSession(g) /\ SameLedger(g, f) /\ g.own = f.own \cup {v}
      /\ View(g, wallet) = Put(View(f, wallet), v, paid)
      /\ Owns(f) => Owns(g)
  BY <1>2, <1>3, <1>4, WriteRecord, WriteView
<1>. HIDE DEF g
<1>7. /\ IsSession(m) /\ SameLedger(m, k.mine) /\ (Owns(k.mine) => Owns(m))
      /\ IF w = NoWallet
         THEN m.own = k.mine.own /\ View(m, wallet) = View(k.mine, wallet)
         ELSE /\ m.own = k.mine.own \cup {v}
              /\ View(m, wallet) = Put(View(k.mine, wallet), v, paid)
  <2>1. CASE w = NoWallet
    BY <1>4, <1>5, <2>1
  <2>2. CASE w # NoWallet
    BY <1>4, <1>5, <1>6, <2>2 DEF SameLedger
  <2>. QED
    BY <2>1, <2>2
<1>. HIDE DEF m
<1>8. Becomes(t, n)
  BY <1>1, <1>2 DEF Wrote, Becomes
<1>9. /\ IsTask(n) /\ n.pc = "check" /\ n.kind = k.kind /\ n.todo = k.todo
      /\ n.base = k.base /\ n.mine = m /\ n.save = k.save /\ n.tx = k.tx
  <2>. HIDE DEF k
  <2>. QED
    BY <1>2, WroteIs, WroteAt
<1>. HIDE DEF n
<1>10. Becomes(t, n) /\ GoesOn(k, n)
  BY <1>7, <1>8, <1>9 DEF GoesOn
<1>11. paid = [Read(t, v) EXCEPT !.bal = @ + Reward(Current(t))] /\ w = Read(t, v)
  BY DEF paid, w
<1>12. v = Current(t).validator
  BY DEF v
<1>. HIDE DEF k
<1>13. /\ n.pc = "check" /\ n.tx = k.tx /\ SameLedger(n.mine, k.mine)
       /\ IF Read(t, v) = NoWallet
          THEN n.mine.own = k.mine.own /\ View(n.mine, wallet) = View(k.mine, wallet)
          ELSE /\ n.mine.own = k.mine.own \cup {v}
               /\ View(n.mine, wallet) = Put(View(k.mine, wallet), v, paid)
  BY <1>7, <1>9, <1>11
<1>. QED
  BY Zenon, <1>3, <1>10, <1>11, <1>12, <1>13 DEF k

LEMMA CheckGoes ==
  ASSUME ChainInv, SolvencyInv, NEW t \in Tasks, CheckIndex(t)
  PROVE  \E m :
           /\ IsSession(m) /\ m.rows = Append(task[t].mine.rows, Head(task[t].todo))
           /\ m.index = task[t].mine.index /\ m.account = task[t].mine.account
           /\ m.own = task[t].mine.own /\ View(m, wallet) = View(task[t].mine, wallet)
           /\ Owns(task[t].mine) => Owns(m)
           /\ IF Head(task[t].todo) \in index
              THEN Returns(t, m)
              ELSE \E n : /\ Becomes(t, n) /\ GoesOn(task[t], n)
                          /\ n.pc = "insert" /\ n.tx = task[t].tx /\ n.mine = m
<1>. DEFINE k == task[t]
            h == Head(k.todo)
            f == Flushed(t)
            m == Grown(f, h)
            n == Wrote(k, "insert", m)
<1>1. /\ k.pc = "check"
      /\ IF h \in index
         THEN task' = [task EXCEPT ![t] = Returned(t, m, TRUE)]
         ELSE task' = [task EXCEPT ![t].pc = "insert", ![t].mine = m]
  BY DEF CheckIndex, Added, Grown
<1>2. task = [u \in Tasks |-> task[u]] /\ IsTask(k) /\ IsSession(k.mine)
  BY TaskIs
<1>3. /\ IsSession(f) /\ SameLedger(f, k.mine)
      /\ f.own = k.mine.own /\ f.wallet = k.mine.wallet
      /\ Owns(k.mine) => Owns(f)
  BY <1>2, FlushedRecord
<1>. HIDE DEF f
<1>4. /\ IsSession(m) /\ m.rows = Append(f.rows, h) /\ m.index = f.index
      /\ m.account = f.account /\ m.own = f.own /\ m.wallet = f.wallet
      /\ Owns(f) => Owns(m)
  <2>. HIDE DEF h
  <2>. QED
    BY <1>3, GrownIs, GrownRecord, RowsIs
<1>. HIDE DEF m
<1>5. /\ m.rows = Append(k.mine.rows, h) /\ m.index = k.mine.index
      /\ m.account = k.mine.account /\ m.own = k.mine.own
      /\ View(m, wallet) = View(k.mine, wallet)
      /\ Owns(k.mine) => Owns(m)
  BY <1>3, <1>4 DEF SameLedger, View
<1>6. CASE h \in index
  <2>1. Returns(t, m)
    BY <1>1, <1>6, ReturnedGoes
  <2>. QED
    BY <1>4, <1>5, <1>6, <2>1
<1>7. CASE h \notin index
  <2>1. Becomes(t, n)
    BY <1>1, <1>2, <1>7 DEF Wrote, Becomes
  <2>2. /\ IsTask(n) /\ n.pc = "insert" /\ n.kind = k.kind /\ n.todo = k.todo
        /\ n.base = k.base /\ n.mine = m /\ n.save = k.save /\ n.tx = k.tx
    <3>. HIDE DEF k
    <3>. QED
      BY <1>2, WroteIs, WroteAt
  <2>. HIDE DEF n
  <2>3. GoesOn(k, n)
    BY <1>4, <1>5, <2>2 DEF GoesOn
  <2>. QED
    BY <1>4, <1>5, <1>7, <2>1, <2>2, <2>3
<1>. QED
  BY <1>6, <1>7

LEMMA InsertGoes ==
  ASSUME ChainInv, SolvencyInv, NEW t \in Tasks, InsertIndex(t)
  PROVE  \/ Refuse(t)
         \/ \E m :
              /\ Head(task[t].todo) \notin index
              /\ \A u \in Tasks \ {t} : Head(task[t].todo) \notin task[u].mine.index
              /\ Returns(t, m)
              /\ IsSession(m) /\ m.rows = task[t].mine.rows
              /\ m.index = task[t].mine.index \cup {Head(task[t].todo)}
              /\ m.account = IndexBlock(IF task[t].mine.index = {} THEN account
                                        ELSE task[t].mine.account, Current(t))
              /\ m.own = task[t].mine.own
              /\ View(m, wallet) = View(task[t].mine, wallet)
              /\ Owns(task[t].mine) => Owns(m)
<1>. DEFINE k == task[t]
            h == Head(k.todo)
            acc == IF k.mine.index = {} THEN account ELSE k.mine.account
            new == IndexBlock(acc, Current(t))
            m == Inserted(k.mine, h, new)
<1>1. /\ k.pc = "insert"
      /\ \A u \in Tasks \ {t} : h \notin task[u].mine.index
      /\ \/ Refuse(t)
         \/ h \notin index /\ task' = [task EXCEPT ![t] = Returned(t, m, TRUE)]
  BY DEF InsertIndex, Added, Inserted
<1>2. IsSession(k.mine)
  BY TaskIs
<1>3. /\ IsSession(m) /\ m.rows = k.mine.rows /\ m.index = k.mine.index \cup {h}
      /\ m.account = new /\ m.own = k.mine.own /\ m.wallet = k.mine.wallet
      /\ Owns(k.mine) => Owns(m)
  <2>. HIDE DEF h, new
  <2>. QED
    BY <1>2, InsertedRecord
<1>. HIDE DEF m
<1>4. View(m, wallet) = View(k.mine, wallet)
  BY <1>3 DEF View
<1>5. task' = [task EXCEPT ![t] = Returned(t, m, TRUE)] => Returns(t, m)
  BY <1>1, ReturnedGoes
<1>. QED
  BY <1>1, <1>3, <1>4, <1>5

----------------------------------------------------------------------------
(* The index is a replay of the chain                                      *)

(* On top of n indexed blocks a session has none, or the next ones.        *)
Stands(m, n, c) ==
    \/ m.index = {}
    \/ \E j \in n + 1 .. Len(c) : m.index = n .. j - 1 /\ m.account = Replay(c, j)

(* Row i of a session is a block it sees in the index.                     *)
Covered(m, i, n) == m.rows[i] \in 0 .. n - 1 \/ m.rows[i] \in m.index

AllCovered(m, n) == \A i \in 1 .. Len(m.rows) : Covered(m, i, n)

(* The last row is the highest block a session has indexed.                *)
Topped(m) == \A i \in m.index : i <= m.rows[Len(m.rows)]

AtWork == {"tx", "apply", "check", "insert"}

(* A coroutine at work on the chain c, of which n blocks are indexed.      *)
TaskReplay(k, n, c) ==
    /\ Stands(k.mine, n, c) /\ Stands(k.save, n, c)
    /\ k.save.index \subseteq k.mine.index
    /\ AllCovered(k.save, n) /\ Topped(k.save)
    /\ k.pc # "insert" => AllCovered(k.mine, n) /\ Topped(k.mine)
    /\ k.pc \in AtWork =>
         /\ \/ Head(k.todo) = 0
            \/ Head(k.todo) - 1 \in 0 .. n - 1
            \/ Head(k.todo) - 1 \in k.mine.index
         /\ \A i \in k.mine.index : i < Head(k.todo)
    /\ k.pc = "insert" =>
         /\ k.mine.rows[Len(k.mine.rows)] = Head(k.todo)
         /\ \A i \in 1 .. Len(k.mine.rows) - 1 : Covered(k.mine, i, n)

(* n blocks are indexed, and every coroutine stands on them.               *)
ReplayedTo(n) ==
    /\ n \in 0 .. Len(chain)
    /\ index = 0 .. n - 1 /\ account = Replay(chain, n)
    /\ \A t \in Tasks : TaskReplay(task[t], n, chain)

(* Every row is indexed, and at most one session has blocks to add.        *)
ReplayInv ==
    /\ \A i \in 1 .. Len(rows) : rows[i] \in index
    /\ \E n : ReplayedTo(n)
    /\ \A t, u \in Tasks : t # u =>
         task[t].mine.index = {} \/ task[u].mine.index = {}

LEMMA IdleReplay == \A n, c : TaskReplay(Idle, n, c)
BY IdleIs DEF TaskReplay, Stands, AllCovered, Covered, Topped, AtWork

LEMMA OneReplay ==
  ASSUME ReplayInv, NEW n, ReplayedTo(n), NEW t \in Tasks, NEW k, Becomes(t, k),
         UNCHANGED <<chain, rows, index, account>>,
         TaskReplay(k, n, chain),
         \/ k.mine.index \subseteq task[t].mine.index
         \/ \A u \in Tasks \ {t} : task[u].mine.index = {}
  PROVE  ReplayInv'
<1>1. /\ task'[t] = k
      /\ \A u \in Tasks \ {t} : task'[u] = task[u]
  BY DEF Becomes
<1>2. \A u \in Tasks : TaskReplay(task'[u], n, chain)
  BY <1>1 DEF ReplayedTo
<1>3. ReplayedTo(n)'
  BY <1>2 DEF ReplayedTo
<1>4. \A u, v \in Tasks : u # v => task'[u].mine.index = {} \/ task'[v].mine.index = {}
  <2>1. \A u \in Tasks \ {t} : k.mine.index = {} \/ task[u].mine.index = {}
    BY DEF ReplayInv
  <2>. QED
    BY <1>1, <2>1 DEF ReplayInv
<1>. QED
  BY <1>3, <1>4 DEF ReplayInv

(* add_block has returned with m written.                                  *)
LEMMA ReturnsReplay ==
  ASSUME ReplayInv, NEW n, ReplayedTo(n), NEW t \in Tasks, NEW m, Returns(t, m),
         UNCHANGED <<chain, rows, index, account>>,
         Stands(m, n, chain), AllCovered(m, n), Topped(m),
         \/ m.index \subseteq task[t].mine.index
         \/ \A u \in Tasks \ {t} : task[u].mine.index = {}
  PROVE  ReplayInv'
<1>1. CASE Becomes(t, Idle)
  <2>1. Idle.mine.index \subseteq task[t].mine.index
    BY IdleIs
  <2>. QED
    BY <1>1, <2>1, IdleReplay, OneReplay
<1>2. CASE \E k : Becomes(t, k) /\ LeavesBlock(task[t], k, m)
  <2>1. PICK k : Becomes(t, k) /\ LeavesBlock(task[t], k, m)
    BY <1>2
  <2>2. TaskReplay(k, n, chain) /\ k.mine = m
    BY <2>1 DEF LeavesBlock, TaskReplay, AtWork
  <2>. QED
    BY <2>1, <2>2, OneReplay
<1>. QED
  BY <1>1, <1>2 DEF Returns

LEMMA RefuseReplay ==
  ASSUME ChainInv, ReplayInv, NEW t \in Tasks, task[t].pc \notin {"idle", "commit"},
         Refuse(t), UNCHANGED <<chain, rows, index, account>>
  PROVE  ReplayInv'
<1>1. PICK n : ReplayedTo(n)
  BY DEF ReplayInv
<1>2. TaskReplay(task[t], n, chain)
  BY <1>1 DEF ReplayedTo
<1>3. Returns(t, task[t].save)
  BY RefuseGoes
<1>. QED
  BY <1>1, <1>2, <1>3, ReturnsReplay DEF TaskReplay

(* A step within the block leaves rows, index and accounts alone.          *)
LEMMA WithinReplay ==
  ASSUME ReplayInv, NEW t \in Tasks, NEW k, Becomes(t, k),
         UNCHANGED <<chain, rows, index, account>>,
         task[t].pc \in {"tx", "apply"}, k.pc \in {"tx", "apply", "check"},
         GoesOn(task[t], k), SameLedger(k.mine, task[t].mine)
  PROVE  ReplayInv'
<1>1. PICK n : ReplayedTo(n)
  BY DEF ReplayInv
<1>2. TaskReplay(task[t], n, chain)
  BY <1>1 DEF ReplayedTo
<1>3. TaskReplay(k, n, chain)
  BY <1>2 DEF TaskReplay, GoesOn, SameLedger, AtWork, Stands, AllCovered, Covered, Topped
<1>. QED
  BY <1>1, <1>3, OneReplay DEF SameLedger

LEMMA TipReplay ==
  ASSUME ChainInv, SolvencyInv, ReplayInv, NEW t \in Tasks, ReadTip(t)
  PROVE  ReplayInv'
<1>1. UNCHANGED <<chain, rows, index, account>> /\ task[t].pc = "tip"
  BY DEF ReadTip, store
<1>2. CASE Refuse(t)
  BY <1>1, <1>2, RefuseReplay
<1>3. CASE /\ Head(task[t].todo) = Tip(t) + 1
           /\ \E n : /\ Becomes(t, n) /\ IsTask(n) /\ n.pc = "tx" /\ n.tx = task[t].tx
                     /\ n.todo = task[t].todo
                     /\ n.mine = task[t].mine /\ n.save = task[t].save
                     /\ n.base = IF task[t].mine.rows = <<>> THEN Len(rows)
                                 ELSE task[t].base
  <2>1. PICK k : /\ Becomes(t, k) /\ k.pc = "tx" /\ k.todo = task[t].todo
                 /\ k.mine = task[t].mine /\ k.save = task[t].save
    BY <1>3
  <2>2. PICK n : ReplayedTo(n)
    BY DEF ReplayInv
  <2>3. TaskReplay(task[t], n, chain) /\ n \in Nat /\ index = 0 .. n - 1
    BY <2>2 DEF ReplayedTo, ChainInv
  <2>. DEFINE m == task[t].mine
              h == Head(task[t].todo)
  <2>4. /\ h \in Nat /\ rows \in Seq(Nat) /\ m.rows \in Seq(Nat)
        /\ m.rows = <<>> => m.index = {}
    <3>1. h \in Heights
      BY <1>1, CurrentIs
    <3>. QED
      BY <3>1 DEF Heights, ChainInv, TaskOK, SessionOK
  <2>5. /\ h = 0 \/ h - 1 \in 0 .. n - 1 \/ h - 1 \in m.index
        /\ \A i \in m.index : i < h
    <3>1. CASE m.rows # <<>>
      <4>1. Tip(t) = m.rows[Len(m.rows)] /\ Len(m.rows) \in 1 .. Len(m.rows)
        BY <3>1, <2>4 DEF Tip, Last
      <4>2. h = Tip(t) + 1
        BY <1>3
      <4>3. m.rows[Len(m.rows)] \in Nat
        <5>. DEFINE r == m.rows
        <5>. HIDE DEF m
        <5>1. r \in Seq(Nat) /\ Len(r) \in 1 .. Len(r)
          BY <2>4, <4>1
        <5>. HIDE DEF r
        <5>2. r[Len(r)] \in Nat
          BY <5>1
        <5>. QED
          BY <5>2 DEF r
      <4>4. h - 1 = m.rows[Len(m.rows)] /\ m.rows[Len(m.rows)] \in Nat
        <5>. HIDE DEF h, m
        <5>. QED
          BY <4>1, <4>2, <4>3, <2>4
      <4>5. AllCovered(m, n) /\ Topped(m)
        BY <1>1, <2>3 DEF TaskReplay
      <4>6. \A i \in m.index : i \in Nat
        BY <2>3 DEF TaskReplay, Stands
      <4>. HIDE DEF m, h
      <4>7. \A i \in m.index : i <= m.rows[Len(m.rows)]
        BY <4>5 DEF Topped
      <4>8. h - 1 \in 0 .. n - 1 \/ h - 1 \in m.index
        BY <4>1, <4>4, <4>5 DEF AllCovered, Covered
      <4>. QED
        BY <2>4, <4>4, <4>6, <4>7, <4>8
    <3>2. CASE m.rows = <<>> /\ rows # <<>>
      <4>1. Tip(t) = rows[Len(rows)] /\ Len(rows) \in 1 .. Len(rows)
        BY <3>2, <2>4 DEF Tip, Last
      <4>2. rows[Len(rows)] \in 0 .. n - 1
        BY <2>3, <4>1 DEF ReplayInv
      <4>3. h - 1 \in 0 .. n - 1
        BY <1>3, <2>3, <2>4, <4>1, <4>2
      <4>. QED
        BY <2>4, <3>2, <4>3
    <3>3. CASE m.rows = <<>> /\ rows = <<>>
      BY <1>3, <2>4, <3>3 DEF Tip
    <3>. QED
      BY <3>1, <3>2, <3>3
  <2>6. TaskReplay(k, n, chain)
    BY <1>1, <2>1, <2>3, <2>5 DEF TaskReplay, AtWork
  <2>. QED
    BY <1>1, <2>1, <2>2, <2>6, OneReplay
<1>. QED
  BY <1>2, <1>3, TipGoes

LEMMA CheckReplay ==
  ASSUME ChainInv, SolvencyInv, ReplayInv, NEW t \in Tasks, CheckIndex(t)
  PROVE  ReplayInv'
<1>. DEFINE k == task[t]
            h == Head(k.todo)
<1>1. UNCHANGED <<chain, rows, index, account>> /\ k.pc = "check"
  BY DEF CheckIndex, Added, Step, store
<1>2. PICK n : ReplayedTo(n)
  BY DEF ReplayInv
<1>3. TaskReplay(k, n, chain) /\ n \in Nat /\ index = 0 .. n - 1
  BY <1>2 DEF ReplayedTo, ChainInv
<1>4. PICK m :
        /\ IsSession(m) /\ m.rows = Append(k.mine.rows, h)
        /\ m.index = k.mine.index /\ m.account = k.mine.account
        /\ IF h \in index
           THEN Returns(t, m)
           ELSE \E q : /\ Becomes(t, q) /\ GoesOn(k, q)
                       /\ q.pc = "insert" /\ q.tx = k.tx /\ q.mine = m
  BY CheckGoes
<1>5. /\ Stands(m, n, chain) /\ AllCovered(k.mine, n)
      /\ \A i \in m.index : i < h /\ i \in Nat
      /\ k.mine.rows \in Seq(Nat) /\ h \in Nat
  <2>1. h \in Nat
    BY <1>1, CurrentIs DEF Heights
  <2>2. k.mine.rows \in Seq(Nat)
    BY DEF ChainInv, TaskOK, SessionOK
  <2>3. Stands(k.mine, n, chain) /\ AllCovered(k.mine, n) /\ \A i \in k.mine.index : i < h
    BY <1>1, <1>3 DEF TaskReplay, AtWork
  <2>. HIDE DEF k, h
  <2>4. Stands(m, n, chain) /\ \A i \in m.index : i < h
    BY <1>4, <2>3 DEF Stands
  <2>5. \A i \in m.index : i \in Nat
    BY <1>3, <2>4 DEF Stands
  <2>. QED
    BY <2>1, <2>2, <2>3, <2>4, <2>5
<1>6. /\ Len(m.rows) = Len(k.mine.rows) + 1 /\ Len(m.rows) \in Nat
      /\ m.rows[Len(m.rows)] = h
      /\ \A i \in 1 .. Len(m.rows) - 1 : Covered(m, i, n)
      /\ Topped(m)
  <2>. HIDE DEF k, h
  <2>1. /\ Len(m.rows) = Len(k.mine.rows) + 1 /\ Len(m.rows) \in Nat
        /\ m.rows[Len(m.rows)] = h
        /\ \A i \in 1 .. Len(m.rows) - 1 :
             m.rows[i] = k.mine.rows[i] /\ i \in 1 .. Len(k.mine.rows)
    <3>. DEFINE r == k.mine.rows
    <3>1. r \in Seq(Nat)
      BY <1>5
    <3>. HIDE DEF r
    <3>2. LET s == Append(r, h) IN
          /\ Len(s) = Len(r) + 1 /\ Len(s) \in Nat /\ s[Len(s)] = h
          /\ \A i \in 1 .. Len(s) - 1 : s[i] = r[i] /\ i \in 1 .. Len(r)
      BY <1>5, <3>1
    <3>. QED
      BY <1>4, <3>2 DEF r
  <2>. QED
    BY <1>4, <1>5, <2>1 DEF AllCovered, Covered, Topped
<1>7. CASE h \in index
  <2>1. Returns(t, m)
    BY <1>4, <1>7
  <2>2. AllCovered(m, n)
    <3>. HIDE DEF h, k
    <3>1. \A i \in 1 .. Len(m.rows) : i = Len(m.rows) \/ i \in 1 .. Len(m.rows) - 1
      BY <1>6
    <3>2. m.rows[Len(m.rows)] \in 0 .. n - 1
      BY <1>3, <1>6, <1>7
    <3>. QED
      BY <1>6, <3>1, <3>2 DEF AllCovered, Covered
  <2>. QED
    BY <1>1, <1>2, <1>4, <1>5, <1>6, <2>1, <2>2, ReturnsReplay
<1>8. CASE h \notin index
  <2>1. PICK q : /\ Becomes(t, q) /\ GoesOn(k, q)
                 /\ q.pc = "insert" /\ q.tx = k.tx /\ q.mine = m
    BY <1>4, <1>8
  <2>2. q.todo = k.todo /\ q.save = k.save
    BY <2>1 DEF GoesOn
  <2>3. /\ Stands(k.save, n, chain) /\ k.save.index \subseteq k.mine.index
        /\ AllCovered(k.save, n) /\ Topped(k.save)
        /\ \/ h = 0 \/ h - 1 \in 0 .. n - 1 \/ h - 1 \in k.mine.index
        /\ \A i \in k.mine.index : i < h
    BY <1>1, <1>3 DEF TaskReplay, AtWork
  <2>4. TaskReplay(q, n, chain)
    BY <1>4, <1>5, <1>6, <2>1, <2>2, <2>3 DEF TaskReplay
  <2>. QED
    BY <1>1, <1>2, <1>4, <2>1, <2>4, OneReplay
<1>. QED
  BY <1>7, <1>8

(* Only the session that stands on every block before h can insert h: the  *)
(* others would have to hold h, or to see it indexed.                      *)
LEMMA InsertReplay ==
  ASSUME ChainInv, SolvencyInv, ReplayInv, NEW t \in Tasks, InsertIndex(t)
  PROVE  ReplayInv'
<1>. DEFINE k == task[t]
            h == Head(k.todo)
            acc == IF k.mine.index = {} THEN account ELSE k.mine.account
<1>1. UNCHANGED <<chain, rows, index, account>> /\ k.pc = "insert"
  BY DEF InsertIndex, Added, Step, store
<1>2. CASE Refuse(t)
  BY <1>1, <1>2, RefuseReplay
<1>3. ASSUME NEW m,
             /\ h \notin index
             /\ \A u \in Tasks \ {t} : h \notin task[u].mine.index
             /\ Returns(t, m)
             /\ IsSession(m) /\ m.rows = k.mine.rows
             /\ m.index = k.mine.index \cup {h}
             /\ m.account = IndexBlock(acc, Current(t))
      PROVE  ReplayInv'
  <2>1. PICK n : ReplayedTo(n)
    BY DEF ReplayInv
  <2>2. /\ TaskReplay(k, n, chain) /\ n \in 0 .. Len(chain) /\ Len(chain) \in Nat
        /\ index = 0 .. n - 1 /\ account = Replay(chain, n)
    BY <2>1 DEF ReplayedTo, ChainInv
  <2>3. /\ h \in 0 .. Len(chain) - 1
        /\ k.mine.rows \in Seq(Nat)
        /\ k.mine.rows # <<>> /\ chain \in Seq(Block)
    <3>1. h \in Heights
      BY <1>1, CurrentIs
    <3>. QED
      BY <1>1, <3>1 DEF Heights, ChainInv, TaskOK, SessionOK, SolvencyInv
  <2>4. /\ Stands(k.mine, n, chain)
        /\ \/ h = 0 \/ h - 1 \in 0 .. n - 1 \/ h - 1 \in k.mine.index
        /\ \A i \in k.mine.index : i < h
        /\ k.mine.rows[Len(k.mine.rows)] = h
        /\ \A i \in 1 .. Len(k.mine.rows) - 1 : Covered(k.mine, i, n)
    BY <1>1, <2>2 DEF TaskReplay, AtWork
  <2>5. Current(t) = chain[h + 1]
    BY DEF Current, BlockAt
  <2>6. Replay(chain, h + 1) = IndexBlock(Replay(chain, h), chain[h + 1])
    <3>. HIDE DEF h
    <3>. QED
      BY <2>3, ReplayNext
  <2>7. /\ acc = Replay(chain, h)
        /\ IF k.mine.index = {} THEN h = n ELSE k.mine.index = n .. h - 1 /\ h > n
    <3>1. CASE k.mine.index = {}
      <4>1. h = n
        <5>. HIDE DEF h, k
        <5>. QED
          BY <1>3, <2>2, <2>3, <2>4, <3>1
      <4>. QED
        BY <2>2, <3>1, <4>1
    <3>2. CASE k.mine.index # {}
      <4>1. PICK j \in n + 1 .. Len(chain) :
              k.mine.index = n .. j - 1 /\ k.mine.account = Replay(chain, j)
        BY <2>4, <3>2 DEF Stands
      <4>2. h = j
        <5>. HIDE DEF h, k
        <5>1. j - 1 \in k.mine.index
          BY <2>2, <4>1
        <5>2. j - 1 < h
          BY <2>4, <5>1
        <5>. QED
          BY <2>2, <2>3, <2>4, <4>1, <5>2
      <4>3. acc = k.mine.account
        BY <3>2
      <4>. HIDE DEF h, k, acc
      <4>. QED
        BY <2>2, <3>2, <4>1, <4>2, <4>3
    <3>. QED
      BY <3>1, <3>2
  <2>. HIDE DEF acc
  <2>8. m.account = Replay(chain, h + 1)
    BY <1>3, <2>5, <2>6, <2>7
  <2>9. m.index = n .. (h + 1) - 1 /\ h + 1 \in n + 1 .. Len(chain)
    <3>. HIDE DEF h, k
    <3>. QED
      BY <1>3, <2>2, <2>3, <2>7
  <2>10. Stands(m, n, chain)
    <3>. HIDE DEF h, k
    <3>. QED
      BY <2>8, <2>9 DEF Stands
  <2>11. AllCovered(m, n) /\ Topped(m)
    <3>. HIDE DEF h, k
    <3>1. Len(m.rows) \in Nat /\ m.rows[Len(m.rows)] = h
      BY <1>3, <2>3, <2>4
    <3>2. \A i \in 1 .. Len(m.rows) : i = Len(m.rows) \/ i \in 1 .. Len(k.mine.rows) - 1
      BY <1>3, <3>1
    <3>3. AllCovered(m, n)
      BY <1>3, <2>4, <3>1, <3>2 DEF AllCovered, Covered
    <3>4. Topped(m)
      BY <2>2, <2>3, <2>9, <3>1 DEF Topped
    <3>. QED
      BY <3>3, <3>4
  <2>12. \/ m.index \subseteq k.mine.index
         \/ \A u \in Tasks \ {t} : task[u].mine.index = {}
    <3>1. CASE k.mine.index # {}
      BY <3>1 DEF ReplayInv
    <3>2. CASE k.mine.index = {}
      <4>1. h = n
        BY <2>7, <3>2
      <4>2. ASSUME NEW u \in Tasks \ {t}
            PROVE  task[u].mine.index = {}
        <5>1. n \notin task[u].mine.index
          BY <1>3, <4>1
        <5>2. Stands(task[u].mine, n, chain)
          BY <2>1 DEF ReplayedTo, TaskReplay
        <5>3. \A j \in n + 1 .. Len(chain) : n \in n .. j - 1
          BY <2>2
        <5>. QED
          BY <5>1, <5>2, <5>3 DEF Stands
      <4>. QED
        BY <4>2
    <3>. QED
      BY <3>1, <3>2
  <2>. HIDE DEF h
  <2>. QED
    BY <1>1, <1>3, <2>1, <2>10, <2>11, <2>12, ReturnsReplay
<1>4. \/ Refuse(t)
      \/ \E m :
           /\ h \notin index
           /\ \A u \in Tasks \ {t} : h \notin task[u].mine.index
           /\ Returns(t, m)
           /\ IsSession(m) /\ m.rows = k.mine.rows
           /\ m.index = k.mine.index \cup {h}
           /\ m.account = IndexBlock(acc, Current(t))
  <2>1. acc = IF k.mine.index = {} THEN account ELSE k.mine.account
    OBVIOUS
  <2>. HIDE DEF acc
  <2>. QED
    BY <2>1, InsertGoes
<1>. HIDE DEF k, h, acc
<1>. QED
  BY <1>2, <1>3, <1>4

LEMMA SplicedIn ==
  ASSUME NEW s \in Seq(Nat), NEW m \in Seq(Nat), NEW S, NEW p \in 0 .. Len(s),
         \A i \in 1 .. Len(s) : s[i] \in S, \A i \in 1 .. Len(m) : m[i] \in S
  PROVE  SubSeq(s, 1, p) \o m \o SubSeq(s, p + 1, Len(s)) \in Seq(S)
<1>. DEFINE f == SubSeq(s, 1, p)
            g == SubSeq(s, p + 1, Len(s))
<1>1. Len(s) \in Nat /\ p \in Nat /\ p <= Len(s)
  BY LenProperties
<1>0. m \in Seq(S)
  <2>1. Len(m) \in Nat /\ SubSeq(m, 1, Len(m)) = m
    BY LenProperties, SubSeqFull
  <2>2. SubSeq(m, 1, Len(m)) \in Seq(S)
    BY <2>1, SubSeqProperties
  <2>. QED
    BY <2>1, <2>2
<1>2. f \in Seq(S)
  <2>1. \A i \in 1 .. p : s[i] \in S
    BY <1>1
  <2>. QED
    BY <1>1, <2>1, SubSeqProperties
<1>3. g \in Seq(S)
  <2>1. \A i \in p + 1 .. Len(s) : s[i] \in S
    BY <1>1
  <2>. QED
    BY <1>1, <2>1, SubSeqProperties
<1>. HIDE DEF f, g
<1>4. f \o m \o g \in Seq(S)
  BY <1>0, <1>2, <1>3
<1>. QED
  BY <1>4 DEF f, g

(* The commit: what the session stood on is what it leaves.                *)
LEMMA CommitReplay ==
  ASSUME ChainInv, ReplayInv, NEW t \in Tasks, Commit(t)
  PROVE  ReplayInv'
<1>. DEFINE k == task[t]
            m == k.mine
<1>1. /\ k.pc = "commit" /\ chain' = chain
      /\ IF m.rows = <<>> THEN rows' = rows ELSE rows' \in RowsWith(m.rows, k.base)
      /\ index' = index \cup m.index
      /\ account' = IF m.index = {} THEN account ELSE m.account
      /\ task' = [task EXCEPT ![t] = Idle]
  BY DEF Commit
<1>2. PICK n : ReplayedTo(n)
  BY DEF ReplayInv
<1>3. /\ n \in 0 .. Len(chain) /\ Len(chain) \in Nat
      /\ index = 0 .. n - 1 /\ account = Replay(chain, n)
      /\ \A u \in Tasks : TaskReplay(task[u], n, chain)
  BY <1>2 DEF ReplayedTo, ChainInv
<1>4. Becomes(t, Idle) /\ task'[t] = Idle /\ \A u \in Tasks \ {t} : task'[u] = task[u]
  BY <1>1 DEF ChainInv, Becomes
<1>5. Stands(m, n, chain) /\ AllCovered(m, n)
  BY <1>1, <1>3 DEF TaskReplay
<1>6. \A i \in 1 .. Len(rows') : rows'[i] \in index'
  <2>1. \A j \in 1 .. Len(rows) : rows[j] \in index'
    BY <1>1 DEF ReplayInv
  <2>2. \A j \in 1 .. Len(m.rows) : m.rows[j] \in index'
    BY <1>1, <1>3, <1>5 DEF AllCovered, Covered
  <2>3. ASSUME m.rows # <<>>
        PROVE  \A i \in 1 .. Len(rows') : rows'[i] \in index'
    <3>. DEFINE r == m.rows
    <3>1. rows \in Seq(Nat) /\ r \in Seq(Nat) /\ k.base \in 0 .. Len(rows)
      BY DEF ChainInv, TaskOK, SessionOK
    <3>2. PICK p \in k.base .. Len(rows) :
            rows' = SubSeq(rows, 1, p) \o r \o SubSeq(rows, p + 1, Len(rows))
      BY <1>1, <2>3 DEF RowsWith
    <3>3. p \in 0 .. Len(rows)
      <4>. HIDE DEF k, r
      <4>. QED
        BY <3>1, <3>2
    <3>4. \A i \in 1 .. Len(r) : r[i] \in index'
      BY <2>2
    <3>. HIDE DEF r, m, k
    <3>5. rows' \in Seq(index')
      BY <2>1, <3>1, <3>2, <3>3, <3>4, SplicedIn
    <3>. QED
      BY <3>5
  <2>4. CASE m.rows = <<>>
    BY <1>1, <2>1, <2>4
  <2>5. CASE m.rows # <<>>
    BY <2>3, <2>5
  <2>. QED
    BY <2>4, <2>5
<1>7. \E j : ReplayedTo(j)'
  <2>1. CASE m.index = {}
    <3>1. \A u \in Tasks : TaskReplay(task'[u], n, chain)
      BY <1>3, <1>4, IdleReplay
    <3>. HIDE DEF m, k
    <3>2. ReplayedTo(n)'
      BY <1>1, <1>3, <2>1, <3>1 DEF ReplayedTo
    <3>. QED
      BY <3>2
  <2>2. CASE m.index # {}
    <3>1. PICK j \in n + 1 .. Len(chain) :
            m.index = n .. j - 1 /\ m.account = Replay(chain, j)
      BY <1>5, <2>2 DEF Stands
    <3>2. \A u \in Tasks \ {t} : task[u].mine.index = {}
      BY <2>2 DEF ReplayInv
    <3>3. ASSUME NEW u \in Tasks \ {t}
          PROVE  TaskReplay(task[u], j, chain)
      <4>. DEFINE q == task[u]
      <4>1. TaskReplay(q, n, chain) /\ q.mine.index = {} /\ q.save.index = {}
        BY <1>3, <3>2 DEF TaskReplay
      <4>2. \A i : i \in 0 .. n - 1 => i \in 0 .. j - 1
        BY <1>3, <3>1
      <4>. HIDE DEF q
      <4>3. /\ Stands(q.mine, j, chain) /\ Stands(q.save, j, chain)
            /\ AllCovered(q.save, n) => AllCovered(q.save, j)
            /\ AllCovered(q.mine, n) => AllCovered(q.mine, j)
            /\ \A i : Covered(q.mine, i, n) => Covered(q.mine, i, j)
        BY <4>1, <4>2 DEF Stands, AllCovered, Covered
      <4>4. TaskReplay(q, j, chain)
        BY <4>1, <4>2, <4>3 DEF TaskReplay
      <4>. QED
        BY <4>4 DEF q
    <3>4. \A u \in Tasks : TaskReplay(task'[u], j, chain)
      BY <1>4, <3>3, IdleReplay
    <3>. HIDE DEF m, k
    <3>5. index' = 0 .. j - 1 /\ account' = Replay(chain, j) /\ j \in 0 .. Len(chain)
      BY <1>1, <1>3, <2>2, <3>1
    <3>6. ReplayedTo(j)'
      BY <1>1, <3>4, <3>5 DEF ReplayedTo
    <3>. QED
      BY <3>6
  <2>. QED
    BY <2>1, <2>2
<1>8. \A u, v \in Tasks : u # v => task'[u].mine.index = {} \/ task'[v].mine.index = {}
  BY <1>4, IdleIs DEF ReplayInv
<1>. QED
  BY <1>6, <1>7, <1>8 DEF ReplayInv

(* A step outside add_block leaves a coroutine alone, ends or begins it.   *)
Rests(t) ==
    \/ task'[t] = task[t]
    \/ task'[t] = Idle
    \/ /\ task'[t].pc = "tip" /\ task'[t].tx = 1
       /\ task'[t].mine = Nothing /\ task'[t].save = Nothing

LEMMA RestReplay ==
  ASSUME ReplayInv, UNCHANGED <<chain, rows, index, account>>,
         \A t \in Tasks : Rests(t)
  PROVE  ReplayInv'
<1>1. PICK n : ReplayedTo(n)
  BY DEF ReplayInv
<1>2. ASSUME NEW t \in Tasks
      PROVE  /\ TaskReplay(task'[t], n, chain)
             /\ task'[t].mine.index = {} \/ task'[t].mine.index = task[t].mine.index
  <2>1. TaskReplay(task[t], n, chain) /\ TaskReplay(Idle, n, chain)
    BY <1>1, IdleReplay DEF ReplayedTo
  <2>2. CASE task'[t] = task[t] \/ task'[t] = Idle
    BY <2>1, <2>2, IdleIs
  <2>3. CASE /\ task'[t].mine = Nothing /\ task'[t].save = Nothing
             /\ task'[t].pc = "tip"
    BY <2>1, <2>3, IdleIs DEF TaskReplay, AtWork
  <2>. QED
    BY <2>2, <2>3 DEF Rests
<1>3. ReplayedTo(n)'
  BY <1>1, <1>2 DEF ReplayedTo
<1>. QED
  BY <1>2, <1>3 DEF ReplayInv

LEMMA BegunRest ==
  ASSUME ChainInv, NEW t \in Tasks, NEW kind, NEW todo, Begin(t, kind, todo)
  PROVE  \A u \in Tasks : Rests(u)
<1>. DEFINE n == Begun(Idle, "tip", kind, todo)
<1>1. n.pc = "tip" /\ n.mine = Nothing /\ n.save = Nothing /\ n.tx = 1
  <2>1. Idle.tx = 1
    BY DEF Idle
  <2>. QED
    BY <2>1, IdleIs, BegunIs, BegunAt
<1>2. Becomes(t, n)
  <2>1. task' = [task EXCEPT ![t] = n] /\ task = [u \in Tasks |-> task[u]]
    BY DEF Begin, Begun, ChainInv
  <2>. HIDE DEF n
  <2>. QED
    BY <2>1 DEF Becomes
<1>. HIDE DEF n
<1>. QED
  BY <1>1, <1>2 DEF Becomes, Rests

LEMMA ReplayInit == Init => ReplayInv
<1>. SUFFICES ASSUME Init PROVE ReplayInv
  OBVIOUS
<1>1. chain \in Seq(Block)
  BY SolvencyInit DEF SolvencyInv
<1>2. /\ rows = <<>> /\ index = {} /\ account = Fresh
      /\ \A t \in Tasks : task[t] = Idle
  BY DEF Init, Fresh
<1>3. ReplayedTo(0)
  <2>1. account = Replay(chain, 0)
    BY <1>1, <1>2, ReplayNone
  <2>2. Len(chain) \in Nat
    BY <1>1, LenProperties
  <2>. QED
    BY <1>2, <2>1, <2>2, IdleReplay DEF ReplayedTo
<1>4. \A t \in Tasks : task[t].mine.index = {}
  BY <1>2, IdleIs
<1>. QED
  BY <1>2, <1>3, <1>4 DEF ReplayInv

LEMMA ReplayStep ==
  ChainInv /\ SolvencyInv /\ ReplayInv /\ [Next]_vars => ReplayInv'
<1>. SUFFICES ASSUME ChainInv, SolvencyInv, ReplayInv, [Next]_vars
              PROVE  ReplayInv'
  OBVIOUS
<1>1. ASSUME NEW t \in Tasks, AddBlock(t)
      PROVE  ReplayInv'
  <2>1. CASE ReadTip(t)
    BY <2>1, TipReplay
  <2>2. CASE ApplyMint(t)
    <3>1. UNCHANGED <<chain, rows, index, account>> /\ task[t].pc = "tx"
      BY <2>2 DEF ApplyMint, Step, store
    <3>. QED
      BY <2>2, <3>1, MintGoes, WithinReplay, RefuseReplay
  <2>3. CASE ReadSender(t)
    <3>1. UNCHANGED <<chain, rows, index, account>> /\ task[t].pc = "tx"
      BY <2>3 DEF ReadSender, Step, store
    <3>. QED
      BY <2>3, <3>1, SenderGoes, WithinReplay
  <2>4. CASE ApplyTransfer(t)
    <3>1. UNCHANGED <<chain, rows, index, account>> /\ task[t].pc = "apply"
      BY <2>4 DEF ApplyTransfer, Step, store
    <3>. QED
      BY <2>4, <3>1, TransferGoes, WithinReplay, RefuseReplay
  <2>5. CASE ApplyReward(t)
    <3>1. UNCHANGED <<chain, rows, index, account>> /\ task[t].pc = "tx"
      BY <2>5 DEF ApplyReward, Step, store
    <3>. QED
      BY <2>5, <3>1, RewardGoes, WithinReplay
  <2>6. CASE CheckIndex(t)
    BY <2>6, CheckReplay
  <2>7. CASE InsertIndex(t)
    BY <2>7, InsertReplay
  <2>8. CASE Commit(t)
    BY <2>8, CommitReplay
  <2>. QED
    BY <1>1, <2>1, <2>2, <2>3, <2>4, <2>5, <2>6, <2>7, <2>8 DEF AddBlock
<1>2. ASSUME NEW t \in Tasks, StatementFails(t) \/ Deadlock(t)
      PROVE  ReplayInv'
  <2>1. /\ UNCHANGED <<chain, rows, index, account>> /\ Refuse(t)
        /\ task[t].pc \notin {"idle", "commit"}
    BY <1>2 DEF StatementFails, Deadlock, InAddBlock, store
  <2>. QED
    BY <2>1, RefuseReplay
<1>3. ASSUME NEW t \in Tasks, SessionLost(t)
      PROVE  ReplayInv'
  <2>1. /\ UNCHANGED <<chain, rows, index, account>>
        /\ \A u \in Tasks : task'[u] = task[u] \/ task'[u] = Idle
    BY <1>3 DEF SessionLost, store, ChainInv
  <2>. QED
    BY <2>1, RestReplay DEF Rests
<1>4. ASSUME NEW t \in Tasks,
             \/ \E h \in Heights : NewBlock(t, h) \/ ProcessNewBlock(t, h)
             \/ \E from, to \in Heights : BlocksResponse(t, from, to)
      PROVE  ReplayInv'
  <2>1. UNCHANGED <<chain, rows, index, account>>
    BY <1>4 DEF NewBlock, ProcessNewBlock, BlocksResponse, store
  <2>2. \E kind, todo : Begin(t, kind, todo)
    BY <1>4 DEF NewBlock, ProcessNewBlock, BlocksResponse
  <2>. QED
    BY <2>1, <2>2, BegunRest, RestReplay
<1>5. ASSUME NEW x \in Transactions, NewTransaction(x) \/ Expire(x)
      PROVE  ReplayInv'
  <2>1. UNCHANGED <<chain, rows, index, account, task>>
    BY <1>5 DEF NewTransaction, Expire, store
  <2>. QED
    BY <2>1, RestReplay DEF Rests
<1>6. CASE Restart
  <2>1. /\ UNCHANGED <<chain, rows, index, account>>
        /\ \A u \in Tasks : task'[u] = Idle
    BY <1>6 DEF Restart, store
  <2>. QED
    BY <2>1, RestReplay DEF Rests
<1>7. CASE UNCHANGED vars
  <2>1. UNCHANGED <<chain, rows, index, account, task>>
    BY <1>7 DEF vars, store
  <2>. QED
    BY <2>1, RestReplay DEF Rests
<1>8. ASSUME NEW a \in Addresses, NEW n \in Amounts, ApplicationMoves(a, n)
      PROVE  ReplayInv'
  <2>1. UNCHANGED <<chain, rows, index, account, task>>
    BY <1>8 DEF ApplicationMoves
  <2>. QED
    BY <2>1, RestReplay DEF Rests
<1>. QED
  BY <1>1, <1>2, <1>3, <1>4, <1>5, <1>6, <1>7, <1>8 DEF Next

(* What the replay stands on: a session which indexes a block holds the    *)
(* accounts of the chain up to it, and nobody else adds to the index.      *)
THEOREM ReplayAlways == Spec => []ReplayInv
BY ChainInvAlways, SolvencyAlways, ReplayInit, ReplayStep, PTL DEF Spec

(* Whatever sessions overlap, whichever of them are refused, lost or late: *)
(* the index is a gapless prefix of the chain and the accounts are its     *)
(* replay.  The key of ChainBlock lets one session at a time build on the  *)
(* indexed blocks, and that session holds the accounts it computed.        *)
THEOREM IndexAlwaysReplays == Spec => []IndexIsReplay
<1>1. ChainInv /\ ReplayInv => IndexIsReplay
  <2>. SUFFICES ASSUME ChainInv, ReplayInv PROVE IndexIsReplay
    OBVIOUS
  <2>1. PICK n \in Nat : index = 0 .. n - 1 /\ account = Replay(chain, n)
    BY DEF ReplayInv, ReplayedTo, ChainInv
  <2>2. Cardinality(0 .. n - 1) = n
    <3>1. Cardinality(0 .. n - 1) = IF 0 > n - 1 THEN 0 ELSE (n - 1) - 0 + 1
      BY FS_Interval
    <3>. QED
      BY <3>1
  <2>3. Cardinality(index) = n
    BY <2>1, <2>2
  <2>. QED
    BY Zenon, <2>1, <2>3 DEF IndexIsReplay, Replay, Fresh
<1>. QED
  BY <1>1, ChainInvAlways, ReplayAlways, PTL

----------------------------------------------------------------------------
(* Wallets and accounts                                                    *)

(* The address z gives a mint of the chain c.                              *)
Minter(c, z) ==
    \E h \in 1 .. Len(c) : \E i \in 1 .. Len(c[h].txs) :
        c[h].txs[i].mint /\ c[h].txs[i].from = z

Plus(w, n) == [w EXCEPT !.bal = @ + n]

LEMMA PlusPlus ==
  ASSUME NEW w \in Wallet, NEW m \in Int, NEW n \in Int
  PROVE  Plus(Plus(w, m), n) = Plus(w, m + n)
<1>1. w.bal \in Int /\ m + n \in Int
  BY DEF Wallet
<1>2. w = [bal |-> w.bal, nonce |-> w.nonce]
  BY DEF Wallet
<1>3. ASSUME NEW v, NEW i, v = [bal |-> v.bal, nonce |-> v.nonce]
      PROVE  Plus(v, i) = [bal |-> v.bal + i, nonce |-> v.nonce]
  BY <1>3 DEF Plus
<1>4. Plus(w, m) = [bal |-> w.bal + m, nonce |-> w.nonce]
  BY <1>2, <1>3
<1>5. Plus(Plus(w, m), n) = [bal |-> (w.bal + m) + n, nonce |-> w.nonce]
  <2> DEFINE v == Plus(w, m)
  <2>1. v.bal = w.bal + m /\ v.nonce = w.nonce /\ v = [bal |-> v.bal, nonce |-> v.nonce]
    BY <1>4
  <2>. HIDE DEF v
  <2>. QED
    BY <1>3, <2>1 DEF v
<1>6. Plus(w, m + n) = [bal |-> w.bal + (m + n), nonce |-> w.nonce]
  BY <1>2, <1>3
<1>7. (w.bal + m) + n = w.bal + (m + n)
  BY <1>1
<1>. QED
  BY <1>5, <1>6, <1>7

(* Whoever has a wallet in v has in it what the accounts acc hold and what *)
(* the application o has put in, unless a change of its has been crossed.  *)
Agree(v, acc, o) ==
    \A a \in Addresses \ o.crossed :
        v[a] # NoWallet => v[a] = Plus(acc[a], o.given[a])

(* Whoever has none, but for a minter, has no account either.              *)
Bare(c, v, acc, o) ==
    \A a \in Addresses \ o.crossed :
        v[a] = NoWallet /\ ~Minter(c, a) => acc[a] = Empty /\ o.given[a] = 0

App == [given : [Addresses -> Int], moves : Nat, crossed : SUBSET Addresses]

(* The accounts as a session sees them, acc being the committed ones, and  *)
(* what they are once the first transactions of b are indexed, and all.    *)
AccountsOf(m, acc) == IF m.index = {} THEN acc ELSE m.account

BlockOf(k, c) == c[Head(k.todo) + 1]

Partial(k, c, acc) ==
    Upto(AccountsOf(k.mine, acc), BlockOf(k, c).txs, k.tx - 1)

(* A coroutine, whatever the others do: no minter ever has a wallet.       *)
TaskClean(k, c) ==
    /\ k.save.rows = <<>> => k.save.own = {}
    /\ k.pc \in {"tip", "commit", "idle"} => k.mine = k.save
    /\ k.pc = "tip" => k.tx = 1
    /\ k.pc = "tx" => k.tx <= Len(BlockOf(k, c).txs) + 1
    /\ \A z \in Addresses : Minter(c, z) => z \notin k.mine.own /\ z \notin k.save.own
    /\ k.pc = "apply" =>
         /\ ~BlockOf(k, c).txs[k.tx].mint
         /\ Minter(c, BlockOf(k, c).txs[k.tx].from) => k.sender = NoWallet

(* One whose tip nobody has replaced, with the committed w and acc: the    *)
(* wallets it has written are the accounts it is going to index.           *)
TaskAgrees(k, c, w, acc, o) ==
    /\ Agree(View(k.save, w), AccountsOf(k.save, acc), o)
    /\ k.pc \in {"tx", "apply"} =>
         /\ Agree(View(k.mine, w), Partial(k, c, acc), o)
         /\ Head(k.todo) = 0 => Bare(c, View(k.mine, w), Partial(k, c, acc), o)
    /\ k.pc = "apply" =>
         LET from == BlockOf(k, c).txs[k.tx].from
         IN from \notin o.crossed => k.sender = View(k.mine, w)[from]
    /\ k.pc \in {"check", "insert"} =>
         Agree(View(k.mine, w), IndexBlock(AccountsOf(k.mine, acc), BlockOf(k, c)), o)

AgreeInv ==
    /\ MintsAtGenesis(chain)
    /\ app \in App
    /\ rows = <<>> => \A a \in Addresses : wallet[a] = NoWallet => app.given[a] = 0
    /\ ~raced => Agree(wallet, account, app)
    /\ \A z \in Addresses : Minter(chain, z) => wallet[z] = NoWallet
    /\ \A t \in Tasks :
         /\ TaskClean(task[t], chain)
         /\ ~raced /\ task[t].base = Len(rows) =>
              TaskAgrees(task[t], chain, wallet, account, app)

LEMMA NothingSeen ==
  ASSUME NEW m, m.own = {}, m.index = {}, NEW w, w = [a \in Addresses |-> w[a]], NEW acc
  PROVE  View(m, w) = w /\ AccountsOf(m, acc) = acc
BY DEF View, AccountsOf

LEMMA NothingOwned == Nothing.own = {} /\ Nothing.index = {}
BY DEF Nothing

LEMMA RestsClean ==
  ASSUME NEW k, NEW c, k.mine = Nothing, k.save = Nothing, k.tx = 1,
         k.pc \in {"tip", "idle"}
  PROVE  /\ TaskClean(k, c)
         /\ \A w, acc, o : w = [a \in Addresses |-> w[a]] /\ Agree(w, acc, o) =>
              TaskAgrees(k, c, w, acc, o)
BY NothingOwned, NothingSeen DEF TaskClean, TaskAgrees

LEMMA IdleClean ==
  \A c : /\ TaskClean(Idle, c)
         /\ \A w, acc, o : w = [a \in Addresses |-> w[a]] /\ Agree(w, acc, o) =>
              TaskAgrees(Idle, c, w, acc, o)
<1>1. Idle.tx = 1
  BY DEF Idle
<1>. QED
  BY <1>1, IdleIs, RestsClean

LEMMA AccountsTyped ==
  ASSUME ChainInv, SolvencyInv, ReplayInv, NEW t \in Tasks
  PROVE  /\ account \in Accounts
         /\ AccountsOf(task[t].mine, account) \in Accounts
         /\ AccountsOf(task[t].save, account) \in Accounts
<1>1. PICK n \in 0 .. Len(chain) :
        /\ account = Replay(chain, n)
        /\ Stands(task[t].mine, n, chain) /\ Stands(task[t].save, n, chain)
  BY DEF ReplayInv, ReplayedTo, TaskReplay
<1>2. chain \in Seq(Block) /\ Len(chain) \in Nat
  BY DEF SolvencyInv, ChainInv
<1>3. account \in Accounts
  BY <1>1, <1>2, ReplayTyped
<1>4. ASSUME NEW m, Stands(m, n, chain)
      PROVE  AccountsOf(m, account) \in Accounts
  <2>1. CASE m.index = {}
    BY <1>3, <2>1 DEF AccountsOf
  <2>2. CASE m.index # {}
    <3>1. PICK j \in n + 1 .. Len(chain) : m.account = Replay(chain, j)
      BY <1>4, <2>2 DEF Stands
    <3>2. j \in 0 .. Len(chain)
      BY <1>2
    <3>. QED
      BY <1>2, <2>2, <3>1, <3>2, ReplayTyped DEF AccountsOf
  <2>. QED
    BY <2>1, <2>2
<1>. QED
  BY <1>1, <1>3, <1>4

LEMMA PlusIs ==
  ASSUME NEW w \in Wallet, NEW m \in Int, NEW n \in Int
  PROVE  /\ Plus(w, m) \in Wallet /\ Plus(w, m) # NoWallet
         /\ Plus(Plus(w, m), n) = Plus(Plus(w, n), m)
         /\ Plus(w, 0) = w
<1>1. ASSUME NEW v \in Wallet, NEW i \in Int
      PROVE  Plus(v, i) = [bal |-> v.bal + i, nonce |-> v.nonce] /\ Plus(v, i) \in Wallet
  BY DEF Plus, Wallet
<1>2. Plus(w, m) \in Wallet /\ Plus(w, n) \in Wallet
  BY <1>1
<1>3. Plus(Plus(w, m), n) = [bal |-> (w.bal + m) + n, nonce |-> w.nonce]
  BY <1>1, <1>2
<1>4. Plus(Plus(w, n), m) = [bal |-> (w.bal + n) + m, nonce |-> w.nonce]
  BY <1>1, <1>2
<1>5. w.bal \in Int /\ w = [bal |-> w.bal, nonce |-> w.nonce]
  BY DEF Wallet
<1>6. Plus(w, 0) = w
  BY <1>1, <1>5
<1>7. (w.bal + m) + n = (w.bal + n) + m
  BY <1>5
<1>. QED
  BY <1>2, <1>3, <1>4, <1>6, <1>7, Certified

(* A transfer does the same to a wallet and to an account that agree, on   *)
(* either side of it, and nothing to the others.                           *)
LEMMA MoveAgrees ==
  ASSUME NEW v, v = [a \in Addresses |-> v[a]], NEW p \in Accounts, NEW tx \in Tx,
         NEW a \in Addresses, NEW g \in Int
  PROVE  IF a \in {tx.from, tx.to}
         THEN v[a] = Plus(p[a], g) => /\ Move(v, tx)[a] = Plus(Move(p, tx)[a], g)
                                      /\ Move(v, tx)[a] # NoWallet
         ELSE Move(v, tx)[a] = v[a] /\ Move(p, tx)[a] = p[a]
<1>1. /\ tx.from \in Addresses /\ tx.to \in Addresses /\ tx.nonce \in Nat
      /\ tx.amount \in Int /\ tx.fee \in Int
  BY DEF Tx
<1>2. p = [b \in Addresses |-> p[b]] /\ p[a] \in Wallet
  BY DEF Accounts
<1>3. CASE a \notin {tx.from, tx.to}
  BY <1>1, <1>2, <1>3 DEF Move, Credit
<1>4. ASSUME a \in {tx.from, tx.to}, v[a] = Plus(p[a], g)
      PROVE  Move(v, tx)[a] = Plus(Move(p, tx)[a], g) /\ Move(v, tx)[a] # NoWallet
  <2>1. v[a] \in Wallet
    BY <1>2, <1>4, PlusIs
  <2>2. CASE a = tx.from
    <3>1. \A f : f = [b \in Addresses |-> f[b]] =>
            Move(f, tx)[a] = IF tx.to = a THEN Plus(Debited(f[a], tx), tx.amount)
                             ELSE Debited(f[a], tx)
      BY <1>1, <2>2 DEF Move, Credit, Debited, Plus
    <3>2. Debited(p[a], tx) \in Wallet
      BY <1>1, <1>2 DEF Debited, Wallet
    <3>3. Debited(v[a], tx) = Plus(Debited(p[a], tx), g)
      BY <1>1, <1>2, <1>4 DEF Debited, Plus, Wallet
    <3>4. Move(p, tx)[a] \in Wallet
      BY <1>1, <1>2, <3>1, <3>2, PlusIs
    <3>5. Plus(Plus(Debited(p[a], tx), g), tx.amount)
            = Plus(Plus(Debited(p[a], tx), tx.amount), g)
      BY <1>1, <3>2, PlusIs
    <3>6. /\ Move(v, tx)[a] = IF tx.to = a THEN Plus(Debited(v[a], tx), tx.amount)
                              ELSE Debited(v[a], tx)
          /\ Move(p, tx)[a] = IF tx.to = a THEN Plus(Debited(p[a], tx), tx.amount)
                              ELSE Debited(p[a], tx)
      BY <1>2, <3>1
    <3>7. Move(v, tx)[a] = Plus(Move(p, tx)[a], g)
      BY <3>3, <3>5, <3>6
    <3>. QED
      BY <3>4, <3>7, PlusIs
  <2>3. CASE a # tx.from
    <3>1. a = tx.to
      BY <1>4, <2>3
    <3>2. \A f : f = [b \in Addresses |-> f[b]] => Move(f, tx)[a] = Plus(f[a], tx.amount)
      BY <1>1, <2>3, <3>1 DEF Move, Credit, Plus
    <3>3. /\ Move(v, tx)[a] = Plus(v[a], tx.amount)
          /\ Move(p, tx)[a] = Plus(p[a], tx.amount)
      BY <1>2, <3>2
    <3>4. Plus(p[a], tx.amount) \in Wallet
      BY <1>1, <1>2, PlusIs
    <3>5. Move(v, tx)[a] = Plus(Move(p, tx)[a], g)
      BY <1>1, <1>2, <1>4, <3>3, PlusIs
    <3>. QED
      BY <3>3, <3>4, <3>5, PlusIs
  <2>. QED
    BY <2>2, <2>3
<1>. QED
  BY <1>3, <1>4

LEMMA TransferAgrees ==
  ASSUME NEW v, v = [a \in Addresses |-> v[a]], NEW p \in Accounts, NEW tx \in Tx,
         v[tx.from] # NoWallet, v[tx.to] # NoWallet, NEW o \in App, Agree(v, p, o), NEW c
  PROVE  /\ Agree(Move(v, tx), Move(p, tx), o)
         /\ Bare(c, v, p, o) => Bare(c, Move(v, tx), Move(p, tx), o)
<1>1. tx.from \in Addresses /\ tx.to \in Addresses
  BY DEF Tx
<1>2. \A a \in Addresses : o.given[a] \in Int
  BY DEF App
<1>. DEFINE w == Move(v, tx)
            q == Move(p, tx)
<1>3. ASSUME NEW a \in Addresses \ o.crossed
      PROVE  IF a \in {tx.from, tx.to}
             THEN w[a] = Plus(q[a], o.given[a]) /\ w[a] # NoWallet
             ELSE w[a] = v[a] /\ q[a] = p[a]
  <2>1. v[a] # NoWallet => v[a] = Plus(p[a], o.given[a])
    BY DEF Agree
  <2>2. a \in {tx.from, tx.to} => v[a] # NoWallet
    OBVIOUS
  <2>3. o.given[a] \in Int
    BY <1>2
  <2>. QED
    BY <2>1, <2>2, <2>3, MoveAgrees
<1>. HIDE DEF w, q
<1>4. Agree(w, q, o) /\ (Bare(c, v, p, o) => Bare(c, w, q, o))
  BY <1>3 DEF Agree, Bare
<1>. QED
  BY <1>4 DEF w, q

(* A mint to an address without a wallet finds it without an account.      *)
LEMMA MintAgrees ==
  ASSUME NEW v, v = [a \in Addresses |-> v[a]], NEW p \in Accounts, NEW tx \in Tx,
         v[tx.from] = NoWallet, tx.from # tx.to, NEW c, NEW o \in App,
         Agree(v, p, o), Bare(c, v, p, o), Minter(c, tx.from), ~Minter(c, tx.to),
         NEW was, was = IF v[tx.to] = NoWallet THEN Empty ELSE v[tx.to]
  PROVE  LET paid == [was EXCEPT !.bal = @ + tx.amount] IN
         /\ Agree(Put(v, tx.to, paid), Move(p, tx), o)
         /\ Bare(c, Put(v, tx.to, paid), Move(p, tx), o)
<1>. DEFINE paid == Plus(was, tx.amount)
            w == Put(v, tx.to, paid)
            q == Move(p, tx)
<1>1. tx.from \in Addresses /\ tx.to \in Addresses /\ tx.amount \in Int
  BY DEF Tx
<1>3. p = [a \in Addresses |-> p[a]] /\ p[tx.to] \in Wallet /\ o.given[tx.to] \in Int
  BY <1>1 DEF Accounts, App
<1>2. tx.to \notin o.crossed => was = Plus(p[tx.to], o.given[tx.to])
  <2>. SUFFICES ASSUME tx.to \notin o.crossed
                PROVE  was = Plus(p[tx.to], o.given[tx.to])
    OBVIOUS
  <2>1. CASE v[tx.to] = NoWallet
    <3>1. p[tx.to] = Empty /\ o.given[tx.to] = 0
      BY <1>1, <2>1 DEF Bare
    <3>. QED
      BY <1>3, <2>1, <3>1, PlusIs
  <2>2. CASE v[tx.to] # NoWallet
    BY <1>1, <2>2 DEF Agree
  <2>. QED
    BY <2>1, <2>2
<1>4. \A a \in Addresses \ {tx.from, tx.to} : q[a] = p[a]
  BY <1>1, <1>3 DEF Move, Credit
<1>5. q[tx.to] = Plus(p[tx.to], tx.amount)
  BY <1>1, <1>3 DEF Move, Credit, Plus
<1>6. tx.to \notin o.crossed => paid = Plus(q[tx.to], o.given[tx.to]) /\ paid # NoWallet
  <2>. SUFFICES ASSUME tx.to \notin o.crossed
                PROVE  paid = Plus(q[tx.to], o.given[tx.to]) /\ paid # NoWallet
    OBVIOUS
  <2>. HIDE DEF q
  <2>1. Plus(p[tx.to], tx.amount) \in Wallet
    BY <1>1, <1>3, PlusIs
  <2>2. paid = Plus(Plus(p[tx.to], tx.amount), o.given[tx.to])
    BY <1>1, <1>2, <1>3, PlusIs
  <2>. HIDE DEF paid
  <2>. QED
    BY <1>3, <1>5, <2>1, <2>2, PlusIs
<1>. HIDE DEF q, paid
<1>7. \A a \in Addresses : w[a] = IF a = tx.to THEN paid ELSE v[a]
  BY DEF Put
<1>. HIDE DEF w
<1>8. Agree(w, q, o) /\ Bare(c, w, q, o)
  BY <1>1, <1>4, <1>6, <1>7 DEF Agree, Bare
<1>9. paid = [was EXCEPT !.bal = @ + tx.amount]
  BY DEF paid, Plus
<1>. QED
  BY <1>8, <1>9 DEF w, q

(* The reward is paid to an account in any case, and to a wallet if there  *)
(* is one.                                                                 *)
LEMMA RewardAgrees ==
  ASSUME NEW v, v = [a \in Addresses |-> v[a]], NEW p \in Accounts, NEW o \in App,
         Agree(v, p, o), NEW z \in Addresses, NEW n \in Int
  PROVE  /\ v[z] = NoWallet => Agree(v, Credit(p, z, n), o)
         /\ v[z] # NoWallet =>
              Agree(Put(v, z, [v[z] EXCEPT !.bal = @ + n]), Credit(p, z, n), o)
<1>. DEFINE q == Credit(p, z, n)
            paid == Plus(v[z], n)
            w == Put(v, z, paid)
<1>1. p = [a \in Addresses |-> p[a]] /\ p[z] \in Wallet /\ o.given[z] \in Int
  BY DEF Accounts, App
<1>2. \A a \in Addresses \ {z} : q[a] = p[a]
  BY <1>1 DEF Credit
<1>3. q[z] = Plus(p[z], n)
  BY <1>1 DEF Credit, Plus
<1>4. z \notin o.crossed /\ v[z] # NoWallet => v[z] = Plus(p[z], o.given[z])
  BY DEF Agree
<1>5. z \notin o.crossed /\ v[z] # NoWallet => paid = Plus(q[z], o.given[z])
  BY <1>1, <1>3, <1>4, PlusIs
<1>. HIDE DEF q, paid
<1>6. \A a \in Addresses : w[a] = IF a = z THEN paid ELSE v[a]
  BY DEF Put
<1>. HIDE DEF w
<1>7. /\ v[z] = NoWallet => Agree(v, q, o)
      /\ v[z] # NoWallet => Agree(w, q, o)
  BY <1>2, <1>5, <1>6 DEF Agree
<1>8. paid = [v[z] EXCEPT !.bal = @ + n]
  BY DEF paid, Plus
<1>. QED
  BY <1>7, <1>8 DEF w, q

LEMMA OneAgree ==
  ASSUME AgreeInv, NEW t \in Tasks, NEW k, Becomes(t, k),
         UNCHANGED <<chain, rows, wallet, account, app, raced>>,
         TaskClean(k, chain),
         ~raced /\ k.base = Len(rows) => TaskAgrees(k, chain, wallet, account, app)
  PROVE  AgreeInv'
<1>1. task'[t] = k /\ \A u \in Tasks \ {t} : task'[u] = task[u]
  BY DEF Becomes
<1>2. \A u \in Tasks :
        /\ TaskClean(task'[u], chain)
        /\ ~raced /\ task'[u].base = Len(rows) => TaskAgrees(task'[u], chain, wallet, account, app)
  BY <1>1 DEF AgreeInv
<1>. QED
  BY <1>2 DEF AgreeInv

LEMMA WalletIs == ASSUME SolvencyInv PROVE wallet = [a \in Addresses |-> wallet[a]]
BY DEF SolvencyInv, AllSolvent

(* add_block has returned: what it has left agrees, if anything.           *)
LEMMA ReturnsAgree ==
  ASSUME SolvencyInv, AgreeInv, NEW t \in Tasks, NEW m, Returns(t, m),
         UNCHANGED <<chain, rows, wallet, account, app, raced>>,
         m.rows = <<>> => m.own = {},
         \A z \in Addresses : Minter(chain, z) => z \notin m.own,
         ~raced /\ task[t].base = Len(rows) =>
           Agree(View(m, wallet), AccountsOf(m, account), app)
  PROVE  AgreeInv'
<1>1. CASE Becomes(t, Idle)
  <2>1. ~raced => TaskAgrees(Idle, chain, wallet, account, app)
    BY IdleClean, WalletIs DEF AgreeInv
  <2>. QED
    BY <1>1, <2>1, IdleClean, OneAgree
<1>2. ASSUME NEW n, Becomes(t, n), LeavesBlock(task[t], n, m)
      PROVE  AgreeInv'
  <2>1. TaskClean(n, chain)
    BY <1>2 DEF TaskClean, LeavesBlock
  <2>2. ~raced /\ n.base = Len(rows) => TaskAgrees(n, chain, wallet, account, app)
    BY <1>2 DEF TaskAgrees, LeavesBlock
  <2>. QED
    BY <1>2, <2>1, <2>2, OneAgree
<1>. QED
  BY <1>1, <1>2 DEF Returns

LEMMA RefuseAgree ==
  ASSUME ChainInv, SolvencyInv, AgreeInv, NEW t \in Tasks,
         UNCHANGED <<chain, rows, wallet, account, app, raced>>,
         task[t].pc \notin {"idle", "commit"}, Refuse(t)
  PROVE  AgreeInv'
<1>1. Returns(t, task[t].save)
  BY RefuseGoes
<1>2. TaskClean(task[t], chain)
  BY DEF AgreeInv
<1>3. ~raced /\ task[t].base = Len(rows) =>
        Agree(View(task[t].save, wallet), AccountsOf(task[t].save, account), app)
  BY DEF AgreeInv, TaskAgrees
<1>. QED
  BY <1>1, <1>2, <1>3, ReturnsAgree DEF TaskClean

LEMMA TipAgree ==
  ASSUME ChainInv, SolvencyInv, ReplayInv, AgreeInv, NEW t \in Tasks, ReadTip(t)
  PROVE  AgreeInv'
<1>. DEFINE k == task[t]
            h == Head(k.todo)
<1>1. UNCHANGED <<chain, rows, wallet, account, app, raced>> /\ k.pc = "tip"
  BY DEF ReadTip, store
<1>2. CASE Refuse(t)
  BY <1>1, <1>2, RefuseAgree
<1>3. ASSUME h = Tip(t) + 1, NEW n, Becomes(t, n), n.pc = "tx", n.tx = k.tx,
             n.todo = k.todo, n.mine = k.mine, n.save = k.save,
             n.base = IF k.mine.rows = <<>> THEN Len(rows) ELSE k.base
      PROVE  AgreeInv'
  <2>. DEFINE b == BlockOf(n, chain)
              v == View(n.mine, wallet)
              p == AccountsOf(n.mine, account)
  <2>1. /\ TaskClean(k, chain) /\ n.mine = n.save /\ n.tx = 1
        /\ k.save.rows = <<>> => k.save.own = {}
        /\ k.mine = k.save
    BY <1>1, <1>3 DEF AgreeInv, TaskClean
  <2>2. b \in Block /\ b.txs \in Seq(Tx) /\ Len(b.txs) \in Nat
    <3>1. b = Current(t)
      BY <1>3 DEF Current, BlockAt, BlockOf
    <3>2. b \in Block
      BY <1>1, <3>1, CurrentIs
    <3>. HIDE DEF b
    <3>3. b.txs \in Seq(Tx)
      BY <3>2 DEF Block
    <3>. QED
      BY <3>2, <3>3, LenProperties
  <2>3. TaskClean(n, chain)
    BY <1>3, <2>1, <2>2 DEF TaskClean
  <2>4. ASSUME ~raced, n.base = Len(rows)
        PROVE  TaskAgrees(n, chain, wallet, account, app)
    <3>1. Agree(v, p, app)
      <4>1. CASE k.mine.rows = <<>>
        <5>1. k.mine.own = {} /\ k.mine.index = {}
          BY <2>1, <4>1 DEF ChainInv, TaskOK, SessionOK
        <5>2. v = wallet /\ p = account
          BY <1>3, <5>1, NothingSeen, WalletIs
        <5>. QED
          BY <2>4, <5>2 DEF AgreeInv
      <4>2. CASE k.mine.rows # <<>>
        <5>1. TaskAgrees(k, chain, wallet, account, app)
          BY <1>3, <2>4, <4>2 DEF AgreeInv
        <5>. QED
          BY <1>3, <2>1, <5>1 DEF TaskAgrees
      <4>. QED
        BY <4>1, <4>2
    <3>2. Partial(n, chain, account) = p
      <4>1. n.tx - 1 = 0
        BY <2>1
      <4>2. Partial(n, chain, account) = Upto(p, b.txs, 0)
        BY Zenon, <4>1 DEF Partial
      <4>. HIDE DEF b, p
      <4>. QED
        BY <2>2, <4>2, UptoNone
    <3>3. ASSUME h = 0
          PROVE  Bare(chain, v, p, app)
      <4>1. k.mine.rows \in Seq(Nat) /\ rows \in Seq(Nat)
        BY DEF ChainInv, TaskOK, SessionOK
      <4>2. k.mine.rows = <<>> /\ rows = <<>>
        <5>1. \A s \in Seq(Nat) : s # <<>> => Last(s) \in Nat
          BY DEF Last
        <5>2. Tip(t) = -1
          <6>1. Tip(t) \in Int
            BY <4>1, <5>1 DEF Tip
          <6>. QED
            BY <1>3, <3>3, <6>1
        <5>. HIDE DEF k
        <5>. QED
          BY <4>1, <5>1, <5>2 DEF Tip, k
      <4>3. k.mine.index = {} /\ index = {}
        BY <2>4, <4>2 DEF ChainInv, TaskOK, SessionOK
      <4>4. account = Fresh
        <5>1. PICK n0 : ReplayedTo(n0)
          BY DEF ReplayInv
        <5>2. n0 = 0
          <6>1. n0 \in Nat /\ 0 \notin 0 .. n0 - 1
            BY <4>3, <5>1 DEF ReplayedTo, ChainInv
          <6>. QED
            BY <6>1
        <5>3. account = Replay(chain, 0)
          BY <5>1, <5>2 DEF ReplayedTo
        <5>. QED
          BY <5>3, ReplayNone DEF SolvencyInv
      <4>5. p = account
        BY <1>3, <4>3 DEF AccountsOf
      <4>6. v = wallet
        <5>1. k.mine.own = {}
          BY <2>1, <4>2
        <5>. QED
          BY <1>3, <4>3, <5>1, NothingSeen, WalletIs
      <4>7. \A a \in Addresses : wallet[a] = NoWallet => app.given[a] = 0
        BY <4>2 DEF AgreeInv
      <4>. HIDE DEF p, v
      <4>. QED
        BY <4>4, <4>5, <4>6, <4>7 DEF Bare, Fresh
    <3>. HIDE DEF v, p, b
    <3>4. /\ Agree(View(n.save, wallet), AccountsOf(n.save, account), app)
          /\ Agree(View(n.mine, wallet), Partial(n, chain, account), app)
      BY <2>1, <3>1, <3>2 DEF v, p
    <3>5. Head(n.todo) = 0 => Bare(chain, View(n.mine, wallet), Partial(n, chain, account), app)
      BY <1>3, <3>2, <3>3 DEF v
    <3>. QED
      BY <1>3, <3>4, <3>5 DEF TaskAgrees
  <2>. QED
    BY <1>1, <1>3, <2>3, <2>4, OneAgree
<1>. QED
  BY <1>2, <1>3, TipGoes

(* Within a block: the next step keeps todo, base and save, and the        *)
(* accounts the session sees.                                              *)
LEMMA WithinAgree ==
  ASSUME ChainInv, SolvencyInv, AgreeInv, NEW t \in Tasks, NEW n, Becomes(t, n),
         UNCHANGED <<chain, rows, wallet, account, app, raced>>,
         GoesOn(task[t], n), SameLedger(n.mine, task[t].mine),
         n.pc \in {"tx", "apply", "check"},
         n.pc = "tx" => n.tx <= Len(Current(t).txs) + 1,
         \A z \in Addresses : Minter(chain, z) => z \notin n.mine.own,
         n.pc = "apply" => /\ ~Current(t).txs[n.tx].mint
                           /\ Minter(chain, Current(t).txs[n.tx].from) => n.sender = NoWallet
                           /\ \/ n.sender = View(n.mine, wallet)[Current(t).txs[n.tx].from]
                              \/ Current(t).txs[n.tx].from \in app.crossed,
         LET p == AccountsOf(task[t].mine, account)
             q == Upto(p, Current(t).txs, n.tx - 1)
         IN ~raced /\ task[t].base = Len(rows) =>
              IF n.pc = "check"
              THEN Agree(View(n.mine, wallet), IndexBlock(p, Current(t)), app)
              ELSE /\ Agree(View(n.mine, wallet), q, app)
                   /\ Head(n.todo) = 0 => Bare(chain, View(n.mine, wallet), q, app)
  PROVE  AgreeInv'
<1>. DEFINE k == task[t]
            p == AccountsOf(k.mine, account)
            b == Current(t)
<1>1. /\ BlockOf(n, chain) = b
      /\ AccountsOf(n.mine, account) = p
  BY DEF GoesOn, SameLedger, BlockOf, Current, BlockAt, AccountsOf
<1>2. Partial(n, chain, account) = Upto(p, b.txs, n.tx - 1)
  BY Zenon, <1>1 DEF Partial
<1>3. TaskClean(k, chain)
  BY DEF AgreeInv
<1>4. TaskClean(n, chain)
  <2>1. /\ n.save.rows = <<>> => n.save.own = {}
        /\ \A z \in Addresses : Minter(chain, z) => z \notin n.mine.own /\ z \notin n.save.own
    BY <1>3 DEF TaskClean, GoesOn
  <2>. HIDE DEF b
  <2>. QED
    BY <1>1, <2>1 DEF TaskClean, b
<1>5. ASSUME ~raced, n.base = Len(rows)
      PROVE  TaskAgrees(n, chain, wallet, account, app)
  <2>1. k.base = Len(rows) /\ n.save = k.save
    BY <1>5 DEF GoesOn
  <2>2. TaskAgrees(k, chain, wallet, account, app)
    BY <1>5, <2>1 DEF AgreeInv
  <2>3. Agree(View(n.save, wallet), AccountsOf(n.save, account), app)
    BY <2>1, <2>2 DEF TaskAgrees
  <2>4. n.pc = "check" => Agree(View(n.mine, wallet), IndexBlock(p, b), app)
    BY <1>5, <2>1
  <2>5. n.pc # "check" =>
          /\ Agree(View(n.mine, wallet), Upto(p, b.txs, n.tx - 1), app)
          /\ Head(n.todo) = 0 => Bare(chain, View(n.mine, wallet), Upto(p, b.txs, n.tx - 1), app)
    BY <1>5, <2>1
  <2>. HIDE DEF p, b, k
  <2>. QED
    BY <1>1, <1>2, <2>3, <2>4, <2>5 DEF TaskAgrees, b
<1>. QED
  BY <1>4, <1>5, OneAgree

(* The transaction a coroutine has come to, and what indexing it means.    *)
LEMMA PlaceIs ==
  ASSUME ChainInv, SolvencyInv, NEW t \in Tasks, task[t].pc \in {"tx", "apply"},
         HasTx(t), NEW p \in Accounts
  PROVE  /\ CurrentTx(t) \in Tx
         /\ CurrentTx(t).from \in Addresses /\ CurrentTx(t).to \in Addresses
         /\ task[t].tx \in 1 .. Len(Current(t).txs)
         /\ Head(task[t].todo) \in 0 .. Len(chain) - 1 /\ Len(chain) \in Nat
         /\ Upto(p, Current(t).txs, task[t].tx - 1) \in Accounts
         /\ Upto(p, Current(t).txs, (task[t].tx + 1) - 1) =
              Move(Upto(p, Current(t).txs, task[t].tx - 1), CurrentTx(t))
<1>. DEFINE s == Current(t).txs
            i == task[t].tx
            x == CurrentTx(t)
<1>1. x \in Tx /\ x = s[i] /\ Head(task[t].todo) \in 0 .. Len(chain) - 1
  BY CurrentIs DEF Heights, CurrentTx
<1>2. s \in Seq(Tx)
  <2>. DEFINE b == Current(t)
  <2>1. b \in Block
    BY CurrentIs
  <2>. HIDE DEF b
  <2>2. b.txs \in Seq(Tx)
    BY <2>1 DEF Block
  <2>. QED
    BY <2>2 DEF b
<1>3. i \in Nat \ {0} /\ i <= Len(s) /\ Len(chain) \in Nat
  BY DEF SolvencyInv, TaskSolvent, HasTx, ChainInv
<1>. HIDE DEF s, i, x
<1>4. i - 1 \in 0 .. Len(s) - 1 /\ i - 1 \in 0 .. Len(s) /\ i \in 1 .. Len(s)
      /\ (i - 1) + 1 = i /\ (i + 1) - 1 = i
  BY <1>2, <1>3
<1>5. Upto(p, s, i - 1) \in Accounts
  BY <1>2, <1>4, UptoTyped
<1>6. Upto(p, s, (i - 1) + 1) = Move(Upto(p, s, i - 1), s[(i - 1) + 1])
  <2>. DEFINE j == i - 1
  <2>1. j \in 0 .. Len(s) - 1
    BY <1>4
  <2>. HIDE DEF j
  <2>2. Upto(p, s, j + 1) = Move(Upto(p, s, j), s[j + 1])
    BY <1>2, <2>1, UptoNext
  <2>. QED
    BY <2>2 DEF j
<1>7. Upto(p, s, (i + 1) - 1) = Move(Upto(p, s, i - 1), x)
  BY <1>1, <1>4, <1>6
<1>8. x.from \in Addresses /\ x.to \in Addresses
  BY <1>1 DEF Tx
<1>. QED
  BY <1>1, <1>3, <1>4, <1>5, <1>7, <1>8 DEF s, i, x

LEMMA ViewIs == \A m, w : View(m, w) = [a \in Addresses |-> View(m, w)[a]]
BY DEF View

(* A minter has no wallet, in no session either.                           *)
LEMMA MinterUnseen ==
  ASSUME AgreeInv, NEW t \in Tasks, NEW z \in Addresses, Minter(chain, z)
  PROVE  View(task[t].mine, wallet)[z] = NoWallet /\ z \notin task[t].mine.own
BY DEF AgreeInv, TaskClean, View

LEMMA MintAgree ==
  ASSUME ChainInv, SolvencyInv, ReplayInv, AgreeInv, NEW t \in Tasks, ApplyMint(t)
  PROVE  AgreeInv'
<1>. DEFINE k == task[t]
            tx == CurrentTx(t)
            p == AccountsOf(k.mine, account)
            v == View(k.mine, wallet)
            q == Upto(p, Current(t).txs, k.tx - 1)
            r == Upto(p, Current(t).txs, (k.tx + 1) - 1)
            w == Read(t, tx.to)
<1>1. /\ UNCHANGED <<chain, rows, wallet, account, app, raced>>
      /\ k.pc = "tx" /\ HasTx(t) /\ tx.mint
  BY DEF ApplyMint, Step, store
<1>2. CASE Refuse(t)
  BY <1>1, <1>2, RefuseAgree
<1>3. ASSUME NEW n, NEW was,
             Becomes(t, n), GoesOn(k, n), n.pc = "tx", n.tx = k.tx + 1,
             SameLedger(n.mine, k.mine), n.mine.own = k.mine.own \cup {tx.to},
             was = IF w = NoWallet THEN Empty ELSE w,
             View(n.mine, wallet) = Put(v, tx.to, [was EXCEPT !.bal = @ + tx.amount])
      PROVE  AgreeInv'
  <2>1. /\ tx \in Tx /\ tx.from \in Addresses /\ tx.to \in Addresses
        /\ k.tx \in 1 .. Len(Current(t).txs)
        /\ Head(k.todo) \in 0 .. Len(chain) - 1 /\ Len(chain) \in Nat
        /\ q \in Accounts /\ r = Move(q, tx)
    BY <1>1, AccountsTyped, PlaceIs
  <2>2. /\ Head(k.todo) = 0
        /\ Minter(chain, tx.from) /\ ~Minter(chain, tx.to)
    <3>. DEFINE h == Head(k.todo) + 1
    <3>1. /\ h \in 1 .. Len(chain) /\ k.tx \in 1 .. Len(chain[h].txs)
          /\ tx = chain[h].txs[k.tx]
      BY <2>1 DEF CurrentTx, Current, BlockAt
    <3>2. MintsAtGenesis(chain)
      BY DEF AgreeInv
    <3>3. h = 1
      BY <1>1, <3>1, <3>2 DEF MintsAtGenesis
    <3>4. Minter(chain, tx.from)
      BY <1>1, <3>1 DEF Minter
    <3>5. ~Minter(chain, tx.to)
      BY <1>1, <3>1, <3>2, <3>3 DEF Minter, MintsAtGenesis
    <3>. QED
      BY <2>1, <3>3, <3>4, <3>5
  <2>3. v[tx.to] = w
    BY <2>1, ReadIs
  <2>4. v[tx.from] = NoWallet /\ tx.from # tx.to
    BY <2>1, <2>2, MinterUnseen
  <2>5. \A z \in Addresses : Minter(chain, z) => z \notin n.mine.own
    BY <1>3, <2>2, MinterUnseen
  <2>6. n.tx <= Len(Current(t).txs) + 1
    BY <1>3, <2>1
  <2>7. ASSUME ~raced, k.base = Len(rows)
        PROVE  /\ Agree(View(n.mine, wallet), r, app)
               /\ Bare(chain, View(n.mine, wallet), r, app)
    <3>1. TaskAgrees(k, chain, wallet, account, app)
      BY <2>7 DEF AgreeInv
    <3>2. Partial(k, chain, account) = q
      BY Zenon DEF Partial, BlockOf, Current, BlockAt
    <3>3. Agree(v, q, app) /\ Bare(chain, v, q, app)
      BY <1>1, <2>2, <3>1, <3>2 DEF TaskAgrees
    <3>4. v = [a \in Addresses |-> v[a]] /\ app \in App
      BY ViewIs DEF AgreeInv
    <3>. HIDE DEF v, q, r, w, tx
    <3>. QED
      BY <1>3, <2>1, <2>2, <2>3, <2>4, <3>3, <3>4, MintAgrees
  <2>8. n.tx - 1 = (k.tx + 1) - 1
    BY <1>3
  <2>. HIDE DEF v, q, w, tx
  <2>9. LET y == Upto(p, Current(t).txs, n.tx - 1)
        IN ~raced /\ k.base = Len(rows) =>
             IF n.pc = "check"
             THEN Agree(View(n.mine, wallet), IndexBlock(p, Current(t)), app)
             ELSE /\ Agree(View(n.mine, wallet), y, app)
                  /\ Head(n.todo) = 0 => Bare(chain, View(n.mine, wallet), y, app)
    BY <1>3, <2>7, <2>8
  <2>. QED
    BY <1>1, <1>3, <2>5, <2>6, <2>9, WithinAgree
<1>. HIDE DEF v, q, r, w, tx, p
<1>4. \/ Refuse(t)
      \/ \E n, was :
              /\ Becomes(t, n) /\ GoesOn(k, n)
              /\ n.pc = "tx" /\ n.tx = k.tx + 1
              /\ SameLedger(n.mine, k.mine)
              /\ n.mine.own = k.mine.own \cup {tx.to}
              /\ was = IF w = NoWallet THEN Empty ELSE w
              /\ View(n.mine, wallet) = Put(v, tx.to, [was EXCEPT !.bal = @ + tx.amount])
  BY MintGoes DEF v, w, tx
<1>. QED
  BY <1>2, <1>3, <1>4

LEMMA SenderAgree ==
  ASSUME ChainInv, SolvencyInv, ReplayInv, AgreeInv, NEW t \in Tasks, ReadSender(t)
  PROVE  AgreeInv'
<1>. DEFINE k == task[t]
            tx == CurrentTx(t)
            p == AccountsOf(k.mine, account)
            v == View(k.mine, wallet)
            q == Upto(p, Current(t).txs, k.tx - 1)
<1>1. /\ UNCHANGED <<chain, rows, wallet, account, app, raced>>
      /\ k.pc = "tx" /\ HasTx(t) /\ ~tx.mint
  BY DEF ReadSender, Step, store
<1>2. PICK n : /\ Becomes(t, n) /\ GoesOn(k, n)
               /\ n.pc = "apply" /\ n.tx = k.tx
               /\ n.sender = Read(t, tx.from)
               /\ SameLedger(n.mine, k.mine)
               /\ n.mine.own = k.mine.own
               /\ View(n.mine, wallet) = v
  BY SenderGoes
<1>3. tx \in Tx /\ tx.from \in Addresses
  BY <1>1, AccountsTyped, PlaceIs
<1>4. /\ ~Current(t).txs[n.tx].mint
      /\ Minter(chain, Current(t).txs[n.tx].from) => n.sender = NoWallet
      /\ \/ n.sender = View(n.mine, wallet)[Current(t).txs[n.tx].from]
         \/ Current(t).txs[n.tx].from \in app.crossed
  <2>1. Current(t).txs[n.tx] = tx
    BY <1>2 DEF CurrentTx
  <2>2. n.sender = v[tx.from]
    BY <1>2, <1>3, ReadIs
  <2>3. Minter(chain, tx.from) => v[tx.from] = NoWallet
    BY <1>3, MinterUnseen
  <2>. HIDE DEF tx, v
  <2>. QED
    BY <1>1, <1>2, <2>1, <2>2, <2>3
<1>5. \A z \in Addresses : Minter(chain, z) => z \notin n.mine.own
  BY <1>2, MinterUnseen
<1>6. LET y == Upto(p, Current(t).txs, n.tx - 1)
      IN ~raced /\ k.base = Len(rows) =>
             IF n.pc = "check"
             THEN Agree(View(n.mine, wallet), IndexBlock(p, Current(t)), app)
             ELSE /\ Agree(View(n.mine, wallet), y, app)
                  /\ Head(n.todo) = 0 => Bare(chain, View(n.mine, wallet), y, app)
  <2>. SUFFICES ASSUME ~raced, k.base = Len(rows)
                PROVE  /\ Agree(v, q, app)
                       /\ Head(n.todo) = 0 => Bare(chain, v, q, app)
    BY <1>2
  <2>1. TaskAgrees(k, chain, wallet, account, app)
    BY DEF AgreeInv
  <2>2. Partial(k, chain, account) = q
    BY Zenon DEF Partial, BlockOf, Current, BlockAt
  <2>. QED
    BY <1>1, <1>2, <2>1, <2>2 DEF TaskAgrees, GoesOn
<1>. HIDE DEF v, q, tx, p
<1>7. n.pc \in {"tx", "apply", "check"} /\ n.pc # "tx"
  BY <1>2
<1>. QED
  BY <1>1, <1>2, <1>4, <1>5, <1>6, <1>7, WithinAgree DEF p

LEMMA TransferAgree ==
  ASSUME ChainInv, SolvencyInv, ReplayInv, AgreeInv, NEW t \in Tasks, ApplyTransfer(t)
  PROVE  AgreeInv'
<1>. DEFINE k == task[t]
            tx == CurrentTx(t)
            p == AccountsOf(k.mine, account)
            v == View(k.mine, wallet)
            q == Upto(p, Current(t).txs, k.tx - 1)
            r == Upto(p, Current(t).txs, (k.tx + 1) - 1)
            s == k.sender
            w == Read(t, tx.to)
<1>1. UNCHANGED <<chain, rows, wallet, account, app, raced>> /\ k.pc = "apply"
  BY DEF ApplyTransfer, Step, store
<1>2. CASE Refuse(t)
  BY <1>1, <1>2, RefuseAgree
<1>3. ASSUME NEW n, NEW got,
             Becomes(t, n), GoesOn(k, n), n.pc = "tx", n.tx = k.tx + 1,
             SameLedger(n.mine, k.mine),
             n.mine.own = k.mine.own \cup {tx.from, tx.to},
             s # NoWallet, got = (IF tx.to = tx.from THEN s ELSE w), got # NoWallet,
             View(n.mine, wallet) = Move(Put(v, tx.from, s), tx)
      PROVE  AgreeInv'
  <2>1. HasTx(t)
    BY <1>1 DEF SolvencyInv, TaskSolvent, HasTx, Current, BlockAt
  <2>2. /\ tx \in Tx /\ tx.from \in Addresses /\ tx.to \in Addresses
        /\ k.tx \in 1 .. Len(Current(t).txs)
        /\ q \in Accounts /\ r = Move(q, tx)
    BY <1>1, <2>1, AccountsTyped, PlaceIs
  <2>3. v[tx.to] = w
    BY <2>2, ReadIs
  <2>4. ~Minter(chain, tx.from)
    <3>1. TaskClean(k, chain)
      BY DEF AgreeInv
    <3>2. BlockOf(k, chain).txs[k.tx] = tx
      BY DEF BlockOf, CurrentTx, Current, BlockAt
    <3>. HIDE DEF tx
    <3>. QED
      BY <1>1, <1>3, <3>1, <3>2 DEF TaskClean
  <2>5. ~Minter(chain, tx.to)
    <3>1. tx.to # tx.from => w # NoWallet
      BY <1>3
    <3>2. Minter(chain, tx.to) => v[tx.to] = NoWallet
      BY <2>2, MinterUnseen
    <3>. HIDE DEF tx, v, w
    <3>. QED
      BY <2>3, <2>4, <3>1, <3>2
  <2>6. \A z \in Addresses : Minter(chain, z) => z \notin n.mine.own
    BY <1>3, <2>4, <2>5, MinterUnseen
  <2>7. n.tx <= Len(Current(t).txs) + 1
    BY <1>3, <2>2
  <2>8. ASSUME ~raced, k.base = Len(rows)
        PROVE  /\ Agree(View(n.mine, wallet), r, app)
               /\ Head(k.todo) = 0 => Bare(chain, View(n.mine, wallet), r, app)
    <3>1. TaskAgrees(k, chain, wallet, account, app)
      BY <2>8 DEF AgreeInv
    <3>2. Partial(k, chain, account) = q
      BY Zenon DEF Partial, BlockOf, Current, BlockAt
    <3>3. BlockOf(k, chain).txs[k.tx] = tx
      BY DEF BlockOf, CurrentTx, Current, BlockAt
    <3>4. tx.from \notin app.crossed => s = v[tx.from]
      <4>. HIDE DEF tx
      <4>. QED
        BY <1>1, <3>1, <3>3 DEF TaskAgrees
    <3>5. /\ Agree(v, q, app)
          /\ Head(k.todo) = 0 => Bare(chain, v, q, app)
      BY <1>1, <3>1, <3>2 DEF TaskAgrees
    <3>6. v = [a \in Addresses |-> v[a]] /\ app \in App
      BY ViewIs DEF AgreeInv
    <3>. DEFINE u == Put(v, tx.from, s)
    <3>. HIDE DEF v, q, r, w, tx, s
    <3>7. /\ u = [a \in Addresses |-> u[a]]
          /\ \A a \in Addresses : u[a] = IF a = tx.from THEN s ELSE v[a]
      BY <3>6 DEF Put
    <3>. HIDE DEF u
    <3>8. u[tx.from] # NoWallet /\ u[tx.to] # NoWallet
      BY <1>3, <2>2, <2>3, <3>7
    <3>9. /\ Agree(u, q, app)
          /\ Bare(chain, v, q, app) => Bare(chain, u, q, app)
      BY <3>4, <3>5, <3>7 DEF Agree, Bare
    <3>10. /\ Agree(Move(u, tx), Move(q, tx), app)
           /\ Bare(chain, u, q, app) => Bare(chain, Move(u, tx), Move(q, tx), app)
      BY <2>2, <3>6, <3>7, <3>8, <3>9, TransferAgrees
    <3>11. View(n.mine, wallet) = Move(u, tx)
      BY <1>3 DEF u
    <3>. QED
      BY <2>2, <3>5, <3>9, <3>10, <3>11
  <2>9. n.tx - 1 = (k.tx + 1) - 1
    BY <1>3
  <2>. HIDE DEF v, q, w, tx, s
  <2>10. LET y == Upto(p, Current(t).txs, n.tx - 1)
         IN ~raced /\ k.base = Len(rows) =>
              IF n.pc = "check"
              THEN Agree(View(n.mine, wallet), IndexBlock(p, Current(t)), app)
              ELSE /\ Agree(View(n.mine, wallet), y, app)
                   /\ Head(n.todo) = 0 => Bare(chain, View(n.mine, wallet), y, app)
    BY <1>3, <2>8, <2>9 DEF GoesOn
  <2>. QED
    BY <1>1, <1>3, <2>6, <2>7, <2>10, WithinAgree
<1>. HIDE DEF v, q, r, w, tx, p, s
<1>4. \/ Refuse(t)
      \/ \E n, got :
           /\ Becomes(t, n) /\ GoesOn(k, n)
           /\ n.pc = "tx" /\ n.tx = k.tx + 1
           /\ SameLedger(n.mine, k.mine)
           /\ n.mine.own = k.mine.own \cup {tx.from, tx.to}
           /\ Acceptable(s, tx)
           /\ got = IF tx.to = tx.from THEN s ELSE w
           /\ got # NoWallet
           /\ View(n.mine, wallet) = Move(Put(v, tx.from, s), tx)
  BY TransferGoes DEF v, w, tx, s
<1>. QED
  BY <1>2, <1>3, <1>4 DEF Acceptable

LEMMA RewardAgree ==
  ASSUME ChainInv, SolvencyInv, ReplayInv, AgreeInv, NEW t \in Tasks, ApplyReward(t)
  PROVE  AgreeInv'
<1>. DEFINE k == task[t]
            b == Current(t)
            p == AccountsOf(k.mine, account)
            v == View(k.mine, wallet)
            q == Upto(p, b.txs, Len(b.txs))
            z == b.validator
<1>1. /\ UNCHANGED <<chain, rows, wallet, account, app, raced>>
      /\ k.pc = "tx" /\ ~HasTx(t)
  BY DEF ApplyReward, Step, store
<1>2. PICK n, paid :
        /\ Becomes(t, n) /\ GoesOn(k, n)
        /\ n.pc = "check" /\ n.tx = k.tx
        /\ SameLedger(n.mine, k.mine)
        /\ z \in Addresses
        /\ paid = [Read(t, z) EXCEPT !.bal = @ + Reward(b)]
        /\ IF Read(t, z) = NoWallet
           THEN n.mine.own = k.mine.own /\ View(n.mine, wallet) = v
           ELSE /\ n.mine.own = k.mine.own \cup {z}
                /\ View(n.mine, wallet) = Put(v, z, paid)
  BY RewardGoes
<1>3. v[z] = Read(t, z)
  BY <1>2, ReadIs
<1>4. \A a \in Addresses : Minter(chain, a) => a \notin n.mine.own
  <2>1. Minter(chain, z) => v[z] = NoWallet
    BY <1>2, MinterUnseen
  <2>2. \A a \in Addresses : Minter(chain, a) => a \notin k.mine.own
    BY MinterUnseen
  <2>. HIDE DEF v, z
  <2>. QED
    BY <1>2, <1>3, <2>1, <2>2
<1>5. /\ b \in Block /\ b.txs \in Seq(Tx) /\ Len(b.txs) \in Nat /\ Reward(b) \in Int
  <2>1. b \in Block
    BY <1>1, CurrentIs
  <2>. HIDE DEF b
  <2>2. b.txs \in Seq(Tx) /\ Reward(b) \in Int
    BY <2>1 DEF Block, Reward
  <2>. QED
    BY <2>1, <2>2, LenProperties
<1>6. k.tx - 1 = Len(b.txs)
  <2>1. k.tx \in Nat /\ ~(k.tx <= Len(b.txs))
    BY <1>1 DEF SolvencyInv, TaskSolvent, HasTx
  <2>2. k.tx <= Len(b.txs) + 1
    BY <1>1 DEF AgreeInv, TaskClean, BlockOf, Current, BlockAt
  <2>. QED
    BY <1>5, <2>1, <2>2
<1>7. p \in Accounts /\ q \in Accounts
  <2>1. p \in Accounts
    BY AccountsTyped
  <2>. DEFINE c == b.txs
  <2>2. c \in Seq(Tx) /\ Len(c) \in 0 .. Len(c)
    BY <1>5
  <2>. HIDE DEF c, p
  <2>3. Upto(p, c, Len(c)) \in Accounts
    BY <2>1, <2>2, UptoTyped
  <2>. QED
    BY <2>1, <2>3 DEF c
<1>8. ASSUME ~raced, k.base = Len(rows)
      PROVE  Agree(View(n.mine, wallet), IndexBlock(p, b), app)
  <2>1. TaskAgrees(k, chain, wallet, account, app)
    BY <1>8 DEF AgreeInv
  <2>2. Partial(k, chain, account) = q
    BY Zenon, <1>6 DEF Partial, BlockOf, Current, BlockAt
  <2>3. Agree(v, q, app)
    BY <1>1, <2>1, <2>2 DEF TaskAgrees
  <2>4. v = [a \in Addresses |-> v[a]] /\ app \in App
    BY ViewIs DEF AgreeInv
  <2>5. IndexBlock(p, b) = Credit(q, z, Reward(b))
    <3>. HIDE DEF b
    <3>. QED
      BY <1>5, UptoAll
  <2>. DEFINE g == Reward(b)
  <2>6. g \in Int /\ paid = [v[z] EXCEPT !.bal = @ + g]
    BY <1>2, <1>3, <1>5
  <2>7. v[z] = NoWallet => View(n.mine, wallet) = v
    BY <1>2, <1>3
  <2>8. v[z] # NoWallet => View(n.mine, wallet) = Put(v, z, paid)
    BY <1>2, <1>3
  <2>. HIDE DEF v, q, z, g
  <2>9. /\ v[z] = NoWallet => Agree(v, Credit(q, z, g), app)
        /\ v[z] # NoWallet => Agree(Put(v, z, [v[z] EXCEPT !.bal = @ + g]), Credit(q, z, g), app)
    BY <1>2, <1>7, <2>3, <2>4, <2>6, RewardAgrees
  <2>10. Agree(View(n.mine, wallet), Credit(q, z, g), app)
    BY <2>6, <2>7, <2>8, <2>9
  <2>. QED
    BY <2>5, <2>10 DEF g
<1>9. LET y == Upto(p, b.txs, n.tx - 1)
      IN ~raced /\ k.base = Len(rows) =>
             IF n.pc = "check"
             THEN Agree(View(n.mine, wallet), IndexBlock(p, b), app)
             ELSE /\ Agree(View(n.mine, wallet), y, app)
                  /\ Head(n.todo) = 0 => Bare(chain, View(n.mine, wallet), y, app)
  BY <1>2, <1>8
<1>. HIDE DEF v, q, z
<1>10. n.pc \in {"tx", "apply", "check"} /\ n.pc # "tx" /\ n.pc # "apply"
  BY <1>2
<1>. QED
  BY <1>1, <1>2, <1>4, <1>9, <1>10, WithinAgree

LEMMA CheckAgree ==
  ASSUME ChainInv, SolvencyInv, AgreeInv, NEW t \in Tasks, CheckIndex(t)
  PROVE  AgreeInv'
<1>. DEFINE k == task[t]
            h == Head(k.todo)
<1>1. UNCHANGED <<chain, rows, wallet, account, app, raced>> /\ k.pc = "check"
  BY DEF CheckIndex, Added, Step, store
<1>2. PICK m :
        /\ m.rows = Append(k.mine.rows, h)
        /\ m.index = k.mine.index /\ m.account = k.mine.account
        /\ m.own = k.mine.own /\ View(m, wallet) = View(k.mine, wallet)
        /\ IF h \in index
           THEN Returns(t, m)
           ELSE \E q : /\ Becomes(t, q) /\ GoesOn(k, q)
                       /\ q.pc = "insert" /\ q.tx = k.tx /\ q.mine = m
  BY CheckGoes
<1>3. \A z \in Addresses : Minter(chain, z) => z \notin m.own
  BY <1>2, MinterUnseen
<1>4. CASE h \in index
  <2>1. k.mine.rows \in Seq(Nat) /\ Len(k.mine.rows) \in Nat
    BY DEF ChainInv, TaskOK, SessionOK
  <2>2. m.rows # <<>>
    <3>1. \A s \in Seq(Nat) : Append(s, h) # <<>>
      OBVIOUS
    <3>. HIDE DEF k, h
    <3>. QED
      BY <1>2, <2>1, <3>1
  <2>3. ~(~raced /\ k.base = Len(rows))
    <3>. SUFFICES ASSUME ~raced, k.base = Len(rows) PROVE FALSE
      OBVIOUS
    <3>1. h = k.base + Len(k.mine.rows)
      BY <1>1 DEF ChainInv, InOrder
    <3>2. h \in 0 .. Len(rows) - 1 /\ Len(rows) \in Nat
      BY <1>4 DEF ChainInv
    <3>. HIDE DEF k, h
    <3>. QED
      BY <2>1, <3>1, <3>2
  <2>. QED
    BY <1>1, <1>2, <1>3, <1>4, <2>2, <2>3, ReturnsAgree
<1>5. CASE h \notin index
  <2>1. PICK n : /\ Becomes(t, n) /\ GoesOn(k, n)
                 /\ n.pc = "insert" /\ n.tx = k.tx /\ n.mine = m
    BY <1>2, <1>5
  <2>2. TaskClean(k, chain)
    BY DEF AgreeInv
  <2>3. TaskClean(n, chain)
    BY <1>3, <2>1, <2>2 DEF TaskClean, GoesOn
  <2>4. ASSUME ~raced, n.base = Len(rows)
        PROVE  TaskAgrees(n, chain, wallet, account, app)
    <3>1. TaskAgrees(k, chain, wallet, account, app)
      BY <2>1, <2>4 DEF AgreeInv, GoesOn
    <3>2. BlockOf(n, chain) = BlockOf(k, chain)
      BY <2>1 DEF BlockOf, GoesOn
    <3>3. AccountsOf(m, account) = AccountsOf(k.mine, account)
      BY <1>2 DEF AccountsOf
    <3>4. Agree(View(n.mine, wallet), IndexBlock(AccountsOf(n.mine, account), BlockOf(n, chain)), app)
      BY <1>1, <1>2, <2>1, <3>1, <3>2, <3>3 DEF TaskAgrees
    <3>5. Agree(View(n.save, wallet), AccountsOf(n.save, account), app)
      BY <2>1, <3>1 DEF TaskAgrees, GoesOn
    <3>. QED
      BY <2>1, <3>4, <3>5 DEF TaskAgrees
  <2>. QED
    BY <1>1, <2>1, <2>3, <2>4, OneAgree
<1>. QED
  BY <1>4, <1>5

LEMMA InsertAgree ==
  ASSUME ChainInv, SolvencyInv, AgreeInv, NEW t \in Tasks, InsertIndex(t)
  PROVE  AgreeInv'
<1>. DEFINE k == task[t]
            h == Head(k.todo)
<1>1. UNCHANGED <<chain, rows, wallet, account, app, raced>> /\ k.pc = "insert"
  BY DEF InsertIndex, Added, Step, Refuse, store
<1>2. CASE Refuse(t)
  BY <1>1, <1>2, RefuseAgree
<1>3. ASSUME NEW m, Returns(t, m), m.rows = k.mine.rows,
             m.index = k.mine.index \cup {h},
             m.account = IndexBlock(AccountsOf(k.mine, account), Current(t)),
             m.own = k.mine.own,
             View(m, wallet) = View(k.mine, wallet)
      PROVE  AgreeInv'
  <2>1. m.rows # <<>>
    BY <1>1, <1>3 DEF ChainInv, TaskOK
  <2>2. \A z \in Addresses : Minter(chain, z) => z \notin m.own
    BY <1>3, MinterUnseen
  <2>3. ASSUME ~raced, k.base = Len(rows)
        PROVE  Agree(View(m, wallet), AccountsOf(m, account), app)
    <3>1. TaskAgrees(k, chain, wallet, account, app)
      BY <2>3 DEF AgreeInv
    <3>2. BlockOf(k, chain) = Current(t)
      BY DEF BlockOf, Current, BlockAt
    <3>3. AccountsOf(m, account) = m.account
      BY <1>3 DEF AccountsOf
    <3>. QED
      BY <1>1, <1>3, <3>1, <3>2, <3>3 DEF TaskAgrees
  <2>. QED
    BY <1>1, <1>3, <2>1, <2>2, <2>3, ReturnsAgree
<1>4. \/ Refuse(t)
      \/ \E m : /\ Returns(t, m) /\ m.rows = k.mine.rows
                /\ m.index = k.mine.index \cup {h}
                /\ m.account = IndexBlock(AccountsOf(k.mine, account), Current(t))
                /\ m.own = k.mine.own
                /\ View(m, wallet) = View(k.mine, wallet)
  BY InsertGoes DEF AccountsOf
<1>. HIDE DEF k, h
<1>. QED
  BY <1>2, <1>3, <1>4

(* The commit of a session whose tip is still the latest row makes what it *)
(* saw the committed state; any other one that adds a row is a race.       *)
LEMMA CommitAgree ==
  ASSUME ChainInv, SolvencyInv, AgreeInv, NEW t \in Tasks, Commit(t)
  PROVE  AgreeInv'
<1>. DEFINE k == task[t]
            m == k.mine
<1>1. /\ k.pc = "commit" /\ chain' = chain
      /\ IF m.rows = <<>> THEN rows' = rows ELSE rows' \in RowsWith(m.rows, k.base)
      /\ raced' = (raced \/ (m.rows # <<>> /\ k.base # Len(rows)))
      /\ wallet' = View(m, wallet) /\ account' = AccountsOf(m, account)
      /\ task' = [task EXCEPT ![t] = Idle]
  BY DEF Commit, View, AccountsOf
<1>2. task'[t] = Idle /\ \A u \in Tasks \ {t} : task'[u] = task[u]
  BY <1>1 DEF ChainInv
<1>3. m = k.save /\ (m.rows = <<>> => m.own = {} /\ m.index = {})
  BY <1>1 DEF AgreeInv, TaskClean, ChainInv, TaskOK, SessionOK
<1>4. m.rows = <<>> => wallet' = wallet /\ account' = account
  <2>. HIDE DEF m
  <2>. QED
    BY <1>1, <1>3, NothingSeen, WalletIs
<1>5. ~raced' => Agree(wallet', account', app)
  <2>. SUFFICES ASSUME ~raced' PROVE Agree(wallet', account', app)
    OBVIOUS
  <2>1. ~raced /\ (m.rows # <<>> => k.base = Len(rows))
    BY <1>1
  <2>2. CASE m.rows = <<>>
    BY <1>4, <2>1, <2>2 DEF AgreeInv
  <2>3. CASE m.rows # <<>>
    <3>1. TaskAgrees(k, chain, wallet, account, app)
      BY <2>1, <2>3 DEF AgreeInv
    <3>. QED
      BY <1>1, <1>3, <3>1 DEF TaskAgrees
  <2>. QED
    BY <2>2, <2>3
<1>6. \A z \in Addresses : Minter(chain, z) => wallet'[z] = NoWallet
  BY <1>1, MinterUnseen
<1>7. \A u \in Tasks : TaskClean(task'[u], chain)
  BY <1>2, IdleClean DEF AgreeInv
<1>8. wallet' = [a \in Addresses |-> wallet'[a]]
  BY <1>1, ViewIs
<1>9. ASSUME NEW u \in Tasks, ~raced', task'[u].base = Len(rows')
      PROVE  TaskAgrees(task'[u], chain, wallet', account', app)
  <2>1. CASE u = t
    BY <1>2, <1>5, <1>8, <1>9, <2>1, IdleClean
  <2>2. CASE u # t /\ m.rows = <<>>
    BY <1>1, <1>2, <1>4, <1>9, <2>2 DEF AgreeInv
  <2>3. CASE u # t /\ m.rows # <<>>
    <3>1. /\ rows \in Seq(Nat) /\ m.rows \in Seq(Nat) /\ Len(rows) \in Nat
          /\ k.base \in 0 .. Len(rows) /\ task[u].base \in 0 .. Len(rows)
      BY DEF ChainInv, TaskOK, SessionOK
    <3>. DEFINE r == m.rows
    <3>2. PICK i \in k.base .. Len(rows) :
            rows' = SubSeq(rows, 1, i) \o r \o SubSeq(rows, i + 1, Len(rows))
      BY <1>1, <2>3 DEF RowsWith
    <3>3. i \in 0 .. Len(rows) /\ r \in Seq(Nat) /\ r # <<>>
      <4>. HIDE DEF k
      <4>. QED
        BY <2>3, <3>1, <3>2
    <3>. HIDE DEF r
    <3>4. Len(rows') = Len(rows) + Len(r)
      BY <3>1, <3>2, <3>3, SplicedIs
    <3>5. Len(r) \in Nat \ {0}
      BY <3>3
    <3>. QED
      BY <1>2, <1>9, <2>3, <3>1, <3>4, <3>5
  <2>. QED
    BY <2>1, <2>2, <2>3
<1>10. ASSUME rows' = <<>>
       PROVE  wallet' = wallet /\ rows' = rows
  <2>1. CASE m.rows = <<>>
    BY <1>1, <1>4, <2>1
  <2>2. CASE m.rows # <<>>
    <3>1. /\ rows \in Seq(Nat) /\ m.rows \in Seq(Nat) /\ Len(rows) \in Nat
          /\ k.base \in 0 .. Len(rows)
      BY DEF ChainInv, TaskOK, SessionOK
    <3>. DEFINE r == m.rows
    <3>2. PICK i \in k.base .. Len(rows) :
            rows' = SubSeq(rows, 1, i) \o r \o SubSeq(rows, i + 1, Len(rows))
      BY <1>1, <2>2 DEF RowsWith
    <3>3. i \in 0 .. Len(rows) /\ r \in Seq(Nat) /\ r # <<>>
      <4>. HIDE DEF k
      <4>. QED
        BY <2>2, <3>1, <3>2
    <3>. HIDE DEF r
    <3>4. Len(rows') = Len(rows) + Len(r)
      BY <3>1, <3>2, <3>3, SplicedIs
    <3>5. Len(r) \in Nat \ {0}
      BY <3>3
    <3>6. Len(rows') # 0
      BY <3>1, <3>4, <3>5
    <3>. QED
      BY <1>10, <3>6
  <2>. QED
    BY <2>1, <2>2
<1>11. app' = app
  BY DEF Commit
<1>. HIDE DEF m, k
<1>. QED
  BY <1>1, <1>5, <1>6, <1>7, <1>9, <1>10, <1>11 DEF AgreeInv

LEMMA RestAgree ==
  ASSUME SolvencyInv, AgreeInv, UNCHANGED <<chain, rows, wallet, account, app, raced>>,
         \A t \in Tasks : Rests(t)
  PROVE  AgreeInv'
<1>1. ~raced => Agree(wallet, account, app)
  BY DEF AgreeInv
<1>2. ASSUME NEW t \in Tasks
      PROVE  /\ TaskClean(task'[t], chain)
             /\ ~raced /\ task'[t].base = Len(rows) =>
                  TaskAgrees(task'[t], chain, wallet, account, app)
  <2>1. CASE task'[t] = task[t]
    BY <2>1 DEF AgreeInv
  <2>2. CASE task'[t] = Idle
    BY <1>1, <2>2, IdleClean, WalletIs
  <2>3. CASE /\ task'[t].pc = "tip" /\ task'[t].tx = 1
             /\ task'[t].mine = Nothing /\ task'[t].save = Nothing
    <3>. DEFINE k == task'[t]
    <3>1. k.pc = "tip" /\ k.tx = 1 /\ k.mine = Nothing /\ k.save = Nothing
      BY <2>3
    <3>. HIDE DEF k
    <3>2. TaskClean(k, chain) /\ (~raced => TaskAgrees(k, chain, wallet, account, app))
      BY <1>1, <3>1, RestsClean, WalletIs
    <3>. QED
      BY <3>2 DEF k
  <2>. QED
    BY <2>1, <2>2, <2>3 DEF Rests
<1>. QED
  BY <1>2 DEF AgreeInv

LEMMA AgreeInit == Init => AgreeInv
<1>. SUFFICES ASSUME Init PROVE AgreeInv
  OBVIOUS
<1>1. PICK load \in Workloads : chain = load.chain
  BY DEF Init
<1>2. MintsAtGenesis(chain)
  BY <1>1, Genesis
<1>3. /\ \A a \in Addresses : account[a] = Empty
      /\ \A a \in Addresses : wallet[a] = IF a \in Registered
                                          THEN [bal |-> Opening[a], nonce |-> 0]
                                          ELSE NoWallet
      /\ wallet = [a \in Addresses |-> wallet[a]]
      /\ \A t \in Tasks : task[t] = Idle
  BY DEF Init
<1>7. /\ app \in App
      /\ \A a \in Addresses : app.given[a] = IF a \in Registered THEN Opening[a] ELSE 0
  <2>. DEFINE g == [a \in Addresses |-> IF a \in Registered THEN Opening[a] ELSE 0]
  <2>1. \A a \in Registered : Opening[a] \in Nat
    BY Bounds
  <2>2. g \in [Addresses -> Int]
    BY <2>1
  <2>3. \A a \in Addresses : g[a] = IF a \in Registered THEN Opening[a] ELSE 0
    OBVIOUS
  <2>4. app = [given |-> g, moves |-> 0, crossed |-> {}]
    BY DEF Init
  <2>. HIDE DEF g
  <2>. QED
    BY <2>2, <2>3, <2>4 DEF App
<1>4. Agree(wallet, account, app)
  <2>. SUFFICES ASSUME NEW a \in Addresses, wallet[a] # NoWallet
                PROVE  wallet[a] = Plus(account[a], app.given[a])
    BY DEF Agree
  <2>1. /\ wallet[a] = [bal |-> Opening[a], nonce |-> 0] /\ account[a] = Empty
        /\ app.given[a] = Opening[a] /\ Opening[a] \in Nat
    BY <1>3, <1>7, Bounds
  <2>. QED
    BY <2>1 DEF Plus, Empty
<1>5. \A z \in Addresses : Minter(chain, z) => wallet[z] = NoWallet
  BY <1>2, <1>3 DEF Minter, MintsAtGenesis
<1>6. \A t \in Tasks :
        TaskClean(task[t], chain) /\ TaskAgrees(task[t], chain, wallet, account, app)
  BY <1>3, <1>4, IdleClean
<1>8. \A a \in Addresses : wallet[a] = NoWallet => app.given[a] = 0
  <2>1. \A a \in Registered : [bal |-> Opening[a], nonce |-> 0] # NoWallet
    <3>. SUFFICES ASSUME NEW a \in Registered
                  PROVE  [bal |-> Opening[a], nonce |-> 0] # NoWallet
      OBVIOUS
    <3>1. Opening[a] \in Nat
      BY Bounds
    <3>2. [bal |-> Opening[a], nonce |-> 0] \in Wallet
      BY <3>1 DEF Wallet
    <3>. QED
      BY <3>2, Certified
  <2>. QED
    BY <1>3, <1>7, <2>1
<1>. QED
  BY <1>2, <1>4, <1>5, <1>6, <1>7, <1>8 DEF AgreeInv

(* The application changes a balance no session has locked.  A session     *)
(* that has written it and not flushed it, or has read it, carries it; all *)
(* others see the change.                                                  *)
LEMMA SeenMove ==
  ASSUME NEW m, NEW w, w = [b \in Addresses |-> w[b]], NEW p, NEW o \in App, NEW q \in App,
         NEW a \in Addresses, NEW n \in Int, w[a] # NoWallet, NEW x, x # NoWallet,
         p[a] \in Wallet, x = Plus(w[a], n),
         q.given = [o.given EXCEPT ![a] = @ + n],
         o.crossed \subseteq q.crossed, a \in m.own => a \in q.crossed,
         Agree(View(m, w), p, o), NEW c
  PROVE  /\ Agree(View(m, Put(w, a, x)), p, q)
         /\ Bare(c, View(m, w), p, o) => Bare(c, View(m, Put(w, a, x)), p, q)
<1>. DEFINE f == View(m, w)
            g == View(m, Put(w, a, x))
<1>1. \A b \in Addresses : o.given[b] \in Int /\ q.given[b] = IF b = a THEN o.given[b] + n ELSE o.given[b]
  BY DEF App
<1>2. \A b \in Addresses : g[b] = IF b \notin m.own /\ b = a THEN x ELSE f[b]
  BY DEF View, Put
<1>3. a \notin m.own => f[a] = w[a]
  BY DEF View
<1>. HIDE DEF f, g
<1>4. ASSUME NEW b \in Addresses \ q.crossed
      PROVE  /\ g[b] # NoWallet => g[b] = Plus(p[b], q.given[b])
             /\ b = a => g[b] # NoWallet
             /\ b # a => g[b] = f[b] /\ q.given[b] = o.given[b]
  <2>1. f[b] # NoWallet => f[b] = Plus(p[b], o.given[b])
    BY DEF Agree, f
  <2>2. CASE b # a
    BY <1>1, <1>2, <2>1, <2>2
  <2>3. CASE b = a
    <3>1. f[a] = w[a] /\ g[a] = x
      BY <1>2, <1>3, <2>3
    <3>2. x = Plus(Plus(p[a], o.given[a]), n)
      BY <2>1, <2>3, <3>1
    <3>3. x = Plus(p[a], o.given[a] + n)
      <4>1. o.given[a] \in Int
        BY <1>1
      <4>. QED
        BY <3>2, <4>1, PlusPlus
    <3>. QED
      BY <1>1, <2>3, <3>1, <3>3
  <2>. QED
    BY <2>2, <2>3
<1>5. Agree(g, p, q)
  BY <1>4 DEF Agree
<1>6. Bare(c, f, p, o) => Bare(c, g, p, q)
  BY <1>4 DEF Bare
<1>. QED
  BY <1>5, <1>6 DEF f, g

LEMMA ApplicationAgree ==
  ASSUME ChainInv, SolvencyInv, ReplayInv, AgreeInv,
         NEW a \in Addresses, NEW n \in Amounts, ApplicationMoves(a, n)
  PROVE  AgreeInv'
<1>. DEFINE w == wallet[a]
            x == Plus(w, n)
            o == app
            q == app'
<1>1. /\ UNCHANGED <<chain, rows, account, raced, task>>
      /\ w # NoWallet /\ n \in Int
      /\ wallet' = Put(wallet, a, x)
      /\ \A t \in Tasks : a \notin Locked(t)
      /\ q = [given |-> [o.given EXCEPT ![a] = @ + n], moves |-> o.moves + 1,
              crossed |-> IF \E t \in Tasks : Carries(t, a)
                          THEN o.crossed \cup {a} ELSE o.crossed]
  BY Bounds DEF ApplicationMoves, Credit, Put, Plus
<1>2. o \in App /\ q \in App
  <2>1. o \in App
    BY DEF AgreeInv
  <2>2. [o.given EXCEPT ![a] = @ + n] \in [Addresses -> Int] /\ o.moves + 1 \in Nat
    BY <1>1, <2>1 DEF App
  <2>. QED
    BY <1>1, <2>1, <2>2 DEF App
<1>3. /\ q.given = [o.given EXCEPT ![a] = @ + n]
      /\ o.crossed \subseteq q.crossed
      /\ \A t \in Tasks : Carries(t, a) => a \in q.crossed
  BY <1>1
<1>4. wallet = [b \in Addresses |-> wallet[b]] /\ w \in Wallet
  BY <1>1 DEF SolvencyInv, AllSolvent, Solvent
<1>. HIDE DEF w
<1>5. x \in Wallet /\ x # NoWallet
  <2>1. w \in Wallet /\ n \in Int
    BY <1>1, <1>4
  <2>2. Plus(w, n) \in Wallet
    BY <2>1 DEF Plus, Wallet
  <2>. QED
    BY <2>2, Certified DEF x
<1>6. \A b \in Addresses : wallet'[b] = IF b = a THEN x ELSE wallet[b]
  <2>1. wallet' = Put(wallet, a, x) /\ wallet = [b \in Addresses |-> wallet[b]]
    BY <1>1, <1>4
  <2>. HIDE DEF x
  <2>. QED
    BY <2>1 DEF Put
<1>7. \A b \in Addresses : q.given[b] = IF b = a THEN o.given[b] + n ELSE o.given[b]
  BY <1>2, <1>3 DEF App
<1>. HIDE DEF x, q, o
<1>8. \A z \in Addresses : Minter(chain, z) => wallet'[z] = NoWallet
  BY <1>1, <1>6 DEF AgreeInv, w
<1>9. rows = <<>> => \A b \in Addresses : wallet'[b] = NoWallet => q.given[b] = 0
  BY <1>5, <1>6, <1>7 DEF AgreeInv, o
<1>10. ASSUME NEW m, NEW p \in Accounts, a \in m.own => a \in q.crossed,
              Agree(View(m, wallet), p, o)
       PROVE  /\ Agree(View(m, wallet'), p, q)
              /\ Bare(chain, View(m, wallet), p, o) => Bare(chain, View(m, wallet'), p, q)
  <2>1. p[a] \in Wallet
    BY DEF Accounts
  <2>2. x = Plus(wallet[a], n) /\ wallet[a] # NoWallet
    BY <1>1 DEF x, w
  <2>. QED
    <3> DEFINE z == wallet[a]
    <3>1. /\ wallet = [b \in Addresses |-> wallet[b]] /\ o \in App /\ q \in App
          /\ n \in Int /\ x # NoWallet /\ q.given = [o.given EXCEPT ![a] = @ + n]
          /\ o.crossed \subseteq q.crossed /\ wallet' = Put(wallet, a, x)
      BY <1>1, <1>2, <1>3, <1>4, <1>5
    <3>. HIDE DEF x, o, q
    <3>2. /\ Agree(View(m, Put(wallet, a, x)), p, q)
          /\ Bare(chain, View(m, wallet), p, o) =>
               Bare(chain, View(m, Put(wallet, a, x)), p, q)
      BY <1>10, <2>1, <2>2, <3>1, SeenMove
    <3>. QED
      BY <3>1, <3>2
<1>11. ~raced => Agree(wallet', account, q)
  <2>. SUFFICES ASSUME ~raced PROVE Agree(wallet', account, q)
    OBVIOUS
  <2>1. wallet' = [b \in Addresses |-> wallet'[b]]
    <3>1. wallet' = Put(wallet, a, x) /\ wallet = [b \in Addresses |-> wallet[b]]
      BY <1>1, <1>4
    <3>. HIDE DEF x
    <3>. QED
      BY <3>1 DEF Put
  <2>2. View(Nothing, wallet) = wallet /\ View(Nothing, wallet') = wallet'
    BY <1>4, <2>1, NothingOwned, NothingSeen
  <2>3. Agree(wallet, account, o) /\ account \in Accounts
    <3>1. Agree(wallet, account, o)
      BY DEF AgreeInv, o
    <3>2. PICK j \in 0 .. Len(chain) : account = Replay(chain, j)
      BY DEF ReplayInv, ReplayedTo
    <3>. QED
      BY <3>1, <3>2, ReplayTyped DEF SolvencyInv
  <2>. QED
    BY <1>10, <2>2, <2>3, NothingOwned
<1>12. ASSUME NEW t \in Tasks, ~raced, task[t].base = Len(rows)
       PROVE  TaskAgrees(task[t], chain, wallet', account, q)
  <2>. DEFINE k == task[t]
              b == BlockOf(k, chain)
              p == AccountsOf(k.mine, account)
  <2>1. TaskAgrees(k, chain, wallet, account, o)
    BY <1>12 DEF AgreeInv, o
  <2>2. p \in Accounts /\ AccountsOf(k.save, account) \in Accounts
    BY AccountsTyped
  <2>3. a \notin k.save.own /\ (a \in k.mine.own => a \in q.crossed)
    BY <1>1, <1>3 DEF Locked, Carries
  <2>4. ASSUME k.pc = "apply", b.txs[k.tx].from = a
        PROVE  a \in q.crossed
    BY <1>3, <2>4 DEF Carries, CurrentTx, Current, BlockAt, BlockOf
  <2>5. ASSUME k.pc \in AtWork
        PROVE  b \in Block /\ b.txs \in Seq(Tx)
    <3>1. b = Current(t)
      BY DEF Current, BlockAt, BlockOf
    <3>2. b \in Block
      BY <2>5, <3>1, CurrentIs DEF AtWork
    <3>. HIDE DEF b
    <3>. QED
      BY <3>2 DEF Block
  <2>6. ASSUME k.pc \in {"tx", "apply"}
        PROVE  Partial(k, chain, account) \in Accounts
    <3>1. b.txs \in Seq(Tx) /\ Len(b.txs) \in Nat
      BY <2>5, <2>6, LenProperties DEF AtWork
    <3>2. k.tx \in Nat \ {0} /\ k.tx <= Len(b.txs) + 1
      <4>1. k.pc = "apply" => k.tx <= Len(b.txs)
        BY DEF SolvencyInv, TaskSolvent, BlockOf
      <4>2. k.pc = "tx" => k.tx <= Len(b.txs) + 1
        BY DEF AgreeInv, TaskClean
      <4>3. k.tx \in Nat \ {0}
        BY DEF SolvencyInv, TaskSolvent
      <4>. HIDE DEF k, b
      <4>. QED
        BY <2>6, <3>1, <4>1, <4>2, <4>3
    <3>3. k.tx - 1 \in 0 .. Len(b.txs)
      <4>. HIDE DEF k, b
      <4>. QED
        BY <3>1, <3>2
    <3>4. Partial(k, chain, account) = Upto(p, b.txs, k.tx - 1)
      BY Zenon DEF Partial
    <3>. DEFINE s == b.txs
                i == k.tx - 1
    <3>5. s \in Seq(Tx) /\ i \in 0 .. Len(s)
      BY <3>1, <3>3
    <3>. HIDE DEF s, i, p
    <3>6. Upto(p, s, i) \in Accounts
      BY <2>2, <3>5, UptoTyped
    <3>. QED
      BY <3>4, <3>6 DEF s, i
  <2>7. Agree(View(k.save, wallet'), AccountsOf(k.save, account), q)
    <3>. DEFINE m == k.save
                y == AccountsOf(k.save, account)
    <3>1. Agree(View(m, wallet), y, o) /\ y \in Accounts /\ a \notin m.own
      BY <2>1, <2>2, <2>3 DEF TaskAgrees
    <3>. HIDE DEF m, y
    <3>2. Agree(View(m, wallet'), y, q)
      BY <1>10, <3>1
    <3>. QED
      BY <3>2 DEF m, y
  <2>8. ASSUME k.pc \in {"tx", "apply"}
        PROVE  /\ Agree(View(k.mine, wallet'), Partial(k, chain, account), q)
               /\ Head(k.todo) = 0 =>
                    Bare(chain, View(k.mine, wallet'), Partial(k, chain, account), q)
    <3>. DEFINE m == k.mine
                y == Partial(k, chain, account)
    <3>1. /\ Agree(View(m, wallet), y, o) /\ y \in Accounts
          /\ Head(k.todo) = 0 => Bare(chain, View(m, wallet), y, o)
          /\ a \in m.own => a \in q.crossed
      BY <2>1, <2>3, <2>6, <2>8 DEF TaskAgrees
    <3>. HIDE DEF m, y
    <3>2. /\ Agree(View(m, wallet'), y, q)
          /\ Head(k.todo) = 0 => Bare(chain, View(m, wallet'), y, q)
      BY <1>10, <3>1
    <3>. QED
      BY <3>2 DEF m, y
  <2>9. ASSUME k.pc \in {"check", "insert"}
        PROVE  Agree(View(k.mine, wallet'), IndexBlock(p, b), q)
    <3>. DEFINE m == k.mine
                y == IndexBlock(p, b)
    <3>1. /\ Agree(View(m, wallet), y, o)
          /\ a \in m.own => a \in q.crossed
      BY <2>1, <2>3, <2>9 DEF TaskAgrees
    <3>2. y \in Accounts
      <4>1. b \in Block
        BY <2>5, <2>9 DEF AtWork
      <4>. HIDE DEF b, p
      <4>. QED
        BY <2>2, <4>1, IndexBlockTyped
    <3>. HIDE DEF m, y
    <3>3. Agree(View(m, wallet'), y, q)
      BY <1>10, <3>1, <3>2
    <3>. QED
      BY <3>3 DEF m, y
  <2>10. ASSUME k.pc = "apply", b.txs[k.tx].from \notin q.crossed
         PROVE  k.sender = View(k.mine, wallet')[b.txs[k.tx].from]
    <3>. DEFINE z == b.txs[k.tx].from
    <3>1. k.sender = View(k.mine, wallet)[z]
      BY <1>3, <2>1, <2>10 DEF TaskAgrees
    <3>2. z # a
      BY <2>4, <2>10
    <3>3. z \in Addresses
      <4>1. k.tx <= Len(b.txs) /\ k.tx \in Nat \ {0}
        BY <2>10 DEF SolvencyInv, TaskSolvent, BlockOf
      <4>2. HasTx(t) /\ CurrentTx(t) = b.txs[k.tx]
        BY <4>1 DEF HasTx, CurrentTx, Current, BlockAt, BlockOf
      <4>3. b.txs[k.tx] \in Tx
        BY <2>10, <4>2, CurrentIs
      <4>. DEFINE e == b.txs[k.tx]
      <4>. HIDE DEF e
      <4>4. e.from \in Addresses
        BY <4>3 DEF e, Tx
      <4>. QED
        BY <4>4 DEF e
    <3>. HIDE DEF z
    <3>4. View(k.mine, wallet')[z] = View(k.mine, wallet)[z]
      BY <1>6, <3>2, <3>3 DEF View
    <3>. QED
      BY <3>1, <3>4 DEF z
  <2>. HIDE DEF k, b, p
  <2>11. TaskAgrees(k, chain, wallet', account, q)
    BY <2>7, <2>8, <2>9, <2>10 DEF TaskAgrees, b, p
  <2>. QED
    BY <2>11 DEF k
<1>13. \A t \in Tasks : TaskClean(task[t], chain)
  BY DEF AgreeInv
<1>14. MintsAtGenesis(chain)
  BY DEF AgreeInv
<1>. QED
  BY <1>1, <1>2, <1>8, <1>9, <1>11, <1>12, <1>13, <1>14 DEF AgreeInv, q

LEMMA AgreeStep ==
  ChainInv /\ SolvencyInv /\ ReplayInv /\ AgreeInv /\ [Next]_vars => AgreeInv'
<1>. SUFFICES ASSUME ChainInv, SolvencyInv, ReplayInv, AgreeInv, [Next]_vars
              PROVE  AgreeInv'
  OBVIOUS
<1>1. ASSUME NEW t \in Tasks, AddBlock(t)
      PROVE  AgreeInv'
  BY <1>1, TipAgree, MintAgree, SenderAgree, TransferAgree, RewardAgree,
     CheckAgree, InsertAgree, CommitAgree DEF AddBlock
<1>2. ASSUME NEW t \in Tasks, StatementFails(t) \/ Deadlock(t)
      PROVE  AgreeInv'
  <2>1. /\ UNCHANGED <<chain, rows, wallet, account, app, raced>> /\ Refuse(t)
        /\ task[t].pc \notin {"idle", "commit"}
    BY <1>2 DEF StatementFails, Deadlock, InAddBlock, store
  <2>. QED
    BY <2>1, RefuseAgree
<1>3. ASSUME NEW t \in Tasks, SessionLost(t)
      PROVE  AgreeInv'
  <2>1. /\ UNCHANGED <<chain, rows, wallet, account, app, raced>>
        /\ \A u \in Tasks : task'[u] = task[u] \/ task'[u] = Idle
    BY <1>3 DEF SessionLost, store, ChainInv
  <2>. QED
    BY <2>1, RestAgree DEF Rests
<1>4. ASSUME NEW t \in Tasks,
             \/ \E h \in Heights : NewBlock(t, h) \/ ProcessNewBlock(t, h)
             \/ \E from, to \in Heights : BlocksResponse(t, from, to)
      PROVE  AgreeInv'
  <2>1. UNCHANGED <<chain, rows, wallet, account, app, raced>>
    BY <1>4 DEF NewBlock, ProcessNewBlock, BlocksResponse, store
  <2>2. \E kind, todo : Begin(t, kind, todo)
    BY <1>4 DEF NewBlock, ProcessNewBlock, BlocksResponse
  <2>. QED
    BY <2>1, <2>2, BegunRest, RestAgree
<1>5. ASSUME NEW x \in Transactions, NewTransaction(x) \/ Expire(x)
      PROVE  AgreeInv'
  <2>1. UNCHANGED <<chain, rows, wallet, account, app, raced, task>>
    BY <1>5 DEF NewTransaction, Expire, store
  <2>. QED
    BY <2>1, RestAgree DEF Rests
<1>6. CASE Restart
  <2>1. /\ UNCHANGED <<chain, rows, wallet, account, app, raced>>
        /\ \A u \in Tasks : task'[u] = Idle
    BY <1>6 DEF Restart, store
  <2>. QED
    BY <2>1, RestAgree DEF Rests
<1>7. CASE UNCHANGED vars
  <2>1. UNCHANGED <<chain, rows, wallet, account, app, raced, task>>
    BY <1>7 DEF vars, store
  <2>. QED
    BY <2>1, RestAgree DEF Rests
<1>. QED
  BY <1>1, <1>2, <1>3, <1>4, <1>5, <1>6, <1>7, ApplicationAgree DEF Next

(* What the agreement stands on: a session that is about to save a block   *)
(* holds, in its wallets, the effects of the transactions it has applied.  *)
THEOREM AgreeAlways == Spec => []AgreeInv
BY ChainInvAlways, SolvencyAlways, ReplayAlways, AgreeInit, AgreeStep, PTL DEF Spec

(* Until a block is committed on a tip another session had replaced, every *)
(* wallet holds what the chain says and what the application has put in:   *)
(* whichever transfers, mints and rewards were refused, lost, retried or   *)
(* rolled back on the way, in a session of one block or in one of many.    *)
(* The wallets left out are those the application changed between the read *)
(* of a balance in state.py and the flush of the balance computed from it. *)
THEOREM WalletsMatch == Spec => []WalletMatchesIndex
<1>1. AgreeInv => WalletMatchesIndex
  BY DEF AgreeInv, Agree, WalletMatchesIndex, Plus
<1>. QED
  BY <1>1, AgreeAlways, PTL

----------------------------------------------------------------------------
(* Types                                                                   *)

TaskTyped(k) ==
    /\ k.kind \in {"none", "gossip", "batch", "local"}
    /\ Owns(k.mine) /\ Owns(k.save)
    /\ k.mine.account \in Accounts /\ k.save.account \in Accounts

TasksTyped == \A t \in Tasks : TaskTyped(task[t])

(* The ids the gossip handler remembers.                                   *)
Ids == ({"block"} \X Heights) \cup ({"tx"} \X Transactions)

MemoryInv ==
    /\ [chain |-> chain, arrives |-> arrives] \in Workloads
    /\ seen \in Seq(Ids) /\ Len(seen) <= SeenSize
    /\ mempool \subseteq Transactions /\ IsFiniteSet(mempool)
    /\ Cardinality(mempool) <= MempoolSize
    /\ expired \subseteq Transactions /\ faults \in 0 .. MaxFaults

LEMMA IdleTyped == TaskTyped(Idle) /\ Owns(Nothing) /\ Nothing.account \in Accounts
<1>1. /\ Nothing.own = {} /\ Nothing.dirty = {}
      /\ Nothing.account = Fresh /\ Idle.kind = "none"
  BY DEF Nothing, Idle, Fresh
<1>. QED
  BY <1>1, FreshTyped, IdleIs DEF TaskTyped, Owns

LEMMA OneTyped ==
  ASSUME TasksTyped, NEW t \in Tasks, NEW k, Becomes(t, k), TaskTyped(k)
  PROVE  TasksTyped'
BY DEF TasksTyped, Becomes

LEMMA ReturnsTyped ==
  ASSUME TasksTyped, NEW t \in Tasks, NEW m, Returns(t, m),
         Owns(m), m.account \in Accounts
  PROVE  TasksTyped'
<1>1. CASE Becomes(t, Idle)
  BY <1>1, IdleTyped, OneTyped
<1>2. ASSUME NEW n, Becomes(t, n), LeavesBlock(task[t], n, m)
      PROVE  TasksTyped'
  <2>1. TaskTyped(n)
    BY <1>2 DEF TasksTyped, TaskTyped, LeavesBlock
  <2>. QED
    BY <1>2, <2>1, OneTyped
<1>. QED
  BY <1>1, <1>2 DEF Returns

LEMMA RefuseTyped ==
  ASSUME ChainInv, TasksTyped, NEW t \in Tasks, task[t].pc \notin {"idle", "commit"},
         Refuse(t)
  PROVE  TasksTyped'
<1>1. Returns(t, task[t].save)
  BY RefuseGoes
<1>2. Owns(task[t].save) /\ task[t].save.account \in Accounts
  BY DEF TasksTyped, TaskTyped
<1>. QED
  BY <1>1, <1>2, ReturnsTyped

LEMMA WithinTyped ==
  ASSUME TasksTyped, NEW t \in Tasks, NEW n, Becomes(t, n),
         GoesOn(task[t], n), SameLedger(n.mine, task[t].mine)
  PROVE  TasksTyped'
<1>1. TaskTyped(task[t])
  BY DEF TasksTyped
<1>2. TaskTyped(n)
  BY <1>1 DEF TaskTyped, GoesOn, SameLedger
<1>. QED
  BY <1>2, OneTyped

LEMMA BegunTyped ==
  ASSUME ChainInv, TasksTyped, NEW t \in Tasks,
         NEW kind \in {"gossip", "batch", "local"}, NEW todo, Begin(t, kind, todo)
  PROVE  TasksTyped'
<1>. DEFINE n == Begun(Idle, "tip", kind, todo)
<1>1. n.kind = kind /\ n.mine = Nothing /\ n.save = Nothing
  BY IdleIs, BegunIs
<1>2. Becomes(t, n)
  <2>1. task' = [task EXCEPT ![t] = n] /\ task = [u \in Tasks |-> task[u]]
    BY DEF Begin, Begun, ChainInv
  <2>. HIDE DEF n
  <2>. QED
    BY <2>1 DEF Becomes
<1>. HIDE DEF n
<1>3. TaskTyped(n)
  BY <1>1, IdleTyped DEF TaskTyped
<1>. QED
  BY <1>2, <1>3, OneTyped

LEMMA AddBlockTyped ==
  ASSUME ChainInv, SolvencyInv, ReplayInv, TasksTyped, NEW t \in Tasks, AddBlock(t)
  PROVE  TasksTyped'
<1>0. TaskTyped(task[t])
  BY DEF TasksTyped
<1>1. CASE ReadTip(t)
  <2>1. task[t].pc = "tip"
    BY <1>1 DEF ReadTip
  <2>2. CASE Refuse(t)
    BY <2>1, <2>2, RefuseTyped
  <2>3. ASSUME NEW n, Becomes(t, n), n.kind = task[t].kind,
               n.mine = task[t].mine, n.save = task[t].save
        PROVE  TasksTyped'
    <3>1. TaskTyped(n)
      BY <1>0, <2>3 DEF TaskTyped
    <3>. QED
      BY <2>3, <3>1, OneTyped
  <2>. QED
    BY <1>1, <2>2, <2>3, TipGoes
<1>2. CASE ApplyMint(t)
  <2>1. task[t].pc = "tx"
    BY <1>2 DEF ApplyMint
  <2>. QED
    BY <1>2, <2>1, MintGoes, WithinTyped, RefuseTyped
<1>3. CASE ReadSender(t)
  BY <1>3, SenderGoes, WithinTyped
<1>4. CASE ApplyTransfer(t)
  <2>1. task[t].pc = "apply"
    BY <1>4 DEF ApplyTransfer
  <2>. QED
    BY <1>4, <2>1, TransferGoes, WithinTyped, RefuseTyped
<1>5. CASE ApplyReward(t)
  BY <1>5, RewardGoes, WithinTyped
<1>6. CASE CheckIndex(t)
  <2>1. PICK m :
          /\ m.account = task[t].mine.account
          /\ Owns(task[t].mine) => Owns(m)
          /\ \/ Returns(t, m)
             \/ \E n : Becomes(t, n) /\ GoesOn(task[t], n) /\ n.mine = m
    BY <1>6, CheckGoes
  <2>2. Owns(m) /\ m.account \in Accounts
    BY <1>0, <2>1 DEF TaskTyped
  <2>3. ASSUME NEW n, Becomes(t, n), GoesOn(task[t], n), n.mine = m
        PROVE  TasksTyped'
    <3>1. TaskTyped(n)
      BY <1>0, <2>2, <2>3 DEF TaskTyped, GoesOn
    <3>. QED
      BY <2>3, <3>1, OneTyped
  <2>. QED
    BY <2>1, <2>2, <2>3, ReturnsTyped
<1>7. CASE InsertIndex(t)
  <2>1. task[t].pc = "insert"
    BY <1>7 DEF InsertIndex
  <2>2. CASE Refuse(t)
    BY <2>1, <2>2, RefuseTyped
  <2>3. ASSUME NEW m, Returns(t, m), Owns(task[t].mine) => Owns(m),
               m.account = IndexBlock(IF task[t].mine.index = {} THEN account
                                      ELSE task[t].mine.account, Current(t))
        PROVE  TasksTyped'
    <3>1. account \in Accounts /\ Current(t) \in Block
      BY <2>1, AccountsTyped, CurrentIs
    <3>2. m.account \in Accounts
      BY <1>0, <2>3, <3>1, IndexBlockTyped DEF TaskTyped
    <3>. QED
      BY <1>0, <2>3, <3>2, ReturnsTyped DEF TaskTyped
  <2>. QED
    BY <1>7, <2>2, <2>3, InsertGoes
<1>8. CASE Commit(t)
  <2>1. Becomes(t, Idle)
    BY <1>8 DEF Commit, Becomes, ChainInv
  <2>. QED
    BY <2>1, IdleTyped, OneTyped
<1>. QED
  BY <1>1, <1>2, <1>3, <1>4, <1>5, <1>6, <1>7, <1>8 DEF AddBlock

LEMMA TasksTypedStep ==
  ChainInv /\ SolvencyInv /\ ReplayInv /\ TasksTyped /\ [Next]_vars => TasksTyped'
<1>. SUFFICES ASSUME ChainInv, SolvencyInv, ReplayInv, TasksTyped, [Next]_vars
              PROVE  TasksTyped'
  OBVIOUS
<1>1. ASSUME NEW t \in Tasks, AddBlock(t)
      PROVE  TasksTyped'
  BY <1>1, AddBlockTyped
<1>2. ASSUME NEW t \in Tasks, StatementFails(t) \/ Deadlock(t)
      PROVE  TasksTyped'
  <2>1. Refuse(t) /\ task[t].pc \notin {"idle", "commit"}
    BY <1>2 DEF StatementFails, Deadlock, InAddBlock
  <2>. QED
    BY <2>1, RefuseTyped
<1>3. ASSUME NEW t \in Tasks, SessionLost(t)
      PROVE  TasksTyped'
  <2>1. Becomes(t, Idle)
    BY <1>3 DEF SessionLost, Becomes, ChainInv
  <2>. QED
    BY <2>1, IdleTyped, OneTyped
<1>4. ASSUME NEW t \in Tasks,
             \/ \E h \in Heights : NewBlock(t, h) \/ ProcessNewBlock(t, h)
             \/ \E from, to \in Heights : BlocksResponse(t, from, to)
      PROVE  TasksTyped'
  <2>1. \E kind \in {"gossip", "batch", "local"} : \E todo : Begin(t, kind, todo)
    BY <1>4 DEF NewBlock, ProcessNewBlock, BlocksResponse
  <2>. QED
    BY <2>1, BegunTyped
<1>5. ASSUME NEW x \in Transactions, NewTransaction(x) \/ Expire(x)
      PROVE  TasksTyped'
  BY <1>5 DEF NewTransaction, Expire, TasksTyped
<1>6. CASE Restart
  BY <1>6, IdleTyped DEF Restart, TasksTyped
<1>7. CASE UNCHANGED vars
  BY <1>7 DEF vars, TasksTyped
<1>8. ASSUME NEW a \in Addresses, NEW n \in Amounts, ApplicationMoves(a, n)
      PROVE  TasksTyped'
  BY <1>8 DEF ApplicationMoves, TasksTyped
<1>. QED
  BY <1>1, <1>2, <1>3, <1>4, <1>5, <1>6, <1>7, <1>8 DEF Next

(* The memory of the gossip handler and the mempool.                       *)
LEMMA RememberTyped ==
  ASSUME MemoryInv, NEW id \in Ids, Remember(id)
  PROVE  seen' \in Seq(Ids) /\ Len(seen') <= SeenSize
<1>1. SeenSize \in Nat \ {0}
  BY Bounds
<1>2. CASE Len(seen) >= SeenSize
  <2>1. seen # <<>> /\ seen \in Seq(Ids) /\ Len(seen) <= SeenSize
    BY <1>1, <1>2 DEF MemoryInv
  <2>2. Tail(seen) \in Seq(Ids) /\ Len(Tail(seen)) = Len(seen) - 1
    BY <2>1
  <2>3. seen' = Append(Tail(seen), id)
    BY <1>2 DEF Remember
  <2>. QED
    BY <1>1, <2>1, <2>2, <2>3
<1>3. CASE ~(Len(seen) >= SeenSize)
  <2>1. seen' = Append(seen, id) /\ seen \in Seq(Ids)
    BY <1>3 DEF Remember, MemoryInv
  <2>. QED
    BY <1>1, <1>3, <2>1
<1>. QED
  BY <1>2, <1>3

LEMMA LessTyped ==
  ASSUME MemoryInv, NEW s, s \subseteq mempool
  PROVE  s \subseteq Transactions /\ IsFiniteSet(s) /\ Cardinality(s) <= MempoolSize
<1>1. IsFiniteSet(s) /\ Cardinality(s) <= Cardinality(mempool)
  BY FS_Subset DEF MemoryInv
<1>2. Cardinality(s) \in Nat /\ Cardinality(mempool) \in Nat /\ MempoolSize \in Nat
  BY <1>1, FS_CardinalityType, Bounds DEF MemoryInv
<1>. QED
  BY <1>1, <1>2 DEF MemoryInv

LEMMA NewTransactionTyped ==
  ASSUME MemoryInv, NEW x \in Transactions, NewTransaction(x)
  PROVE  MemoryInv'
<1>1. /\ UNCHANGED <<chain, arrives, expired, faults>>
      /\ Remember(<<"tx", x>>)
      /\ mempool' = IF x \in mempool THEN mempool
                    ELSE IF Cardinality(Room) >= MempoolSize \/ x \in expired
                         THEN Room ELSE Room \cup {x}
  BY DEF NewTransaction
<1>2. seen' \in Seq(Ids) /\ Len(seen') <= SeenSize
  BY <1>1, RememberTyped DEF Ids
<1>3. Room \subseteq mempool
  BY DEF Room
<1>4. Room \subseteq Transactions /\ IsFiniteSet(Room) /\ Cardinality(Room) <= MempoolSize
  BY <1>3, LessTyped
<1>5. mempool' \subseteq Transactions /\ IsFiniteSet(mempool')
      /\ Cardinality(mempool') <= MempoolSize
  <2>1. CASE mempool' \in {mempool, Room}
    BY <1>4, <2>1 DEF MemoryInv
  <2>2. CASE mempool' = Room \cup {x} /\ ~(Cardinality(Room) >= MempoolSize)
    <3>1. IsFiniteSet(Room \cup {x}) /\ Cardinality(Room) \in Nat /\ MempoolSize \in Nat
      BY <1>4, FS_AddElement, FS_CardinalityType, Bounds
    <3>2. Cardinality(Room \cup {x}) <= Cardinality(Room) + 1
      <4>1. Cardinality(Room \cup {x}) =
              IF x \in Room THEN Cardinality(Room) ELSE Cardinality(Room) + 1
        BY <1>4, FS_AddElement
      <4>. QED
        BY <3>1, <4>1
    <3>3. Cardinality(Room \cup {x}) \in Nat
      BY <3>1, FS_CardinalityType
    <3>. QED
      BY <1>4, <2>2, <3>1, <3>2, <3>3
  <2>. QED
    BY <1>1, <2>1, <2>2
<1>6. Ids' = Ids
  BY <1>1 DEF Ids, Heights
<1>. QED
  BY <1>1, <1>2, <1>5, <1>6 DEF MemoryInv

(* A step that takes nothing in.                                           *)
LEMMA MemoryKept ==
  ASSUME MemoryInv, UNCHANGED <<chain, arrives, expired>>,
         seen' = seen \/ seen' = <<>> \/ \E id \in Ids : Remember(id),
         mempool' \subseteq mempool, faults' = faults \/ Fault
  PROVE  MemoryInv'
<1>1. seen' \in Seq(Ids) /\ Len(seen') <= SeenSize
  <2>1. <<>> \in Seq(Ids) /\ Len(<<>>) = 0 /\ SeenSize \in Nat
    BY Bounds
  <2>2. CASE seen' = seen
    BY <2>2 DEF MemoryInv
  <2>3. CASE seen' = <<>>
    BY <2>1, <2>3
  <2>4. CASE \E id \in Ids : Remember(id)
    BY <2>4, RememberTyped
  <2>. QED
    BY <2>2, <2>3, <2>4
<1>2. /\ mempool' \subseteq Transactions /\ IsFiniteSet(mempool')
      /\ Cardinality(mempool') <= MempoolSize
  BY LessTyped
<1>3. faults' \in 0 .. MaxFaults
  BY Bounds DEF MemoryInv, Fault
<1>4. Ids' = Ids
  BY DEF Ids, Heights
<1>. QED
  BY <1>1, <1>2, <1>3, <1>4 DEF MemoryInv

LEMMA MemoryStep == MemoryInv /\ [Next]_vars => MemoryInv'
<1>. SUFFICES ASSUME MemoryInv, [Next]_vars PROVE MemoryInv'
  OBVIOUS
<1>1. ASSUME NEW t \in Tasks, AddBlock(t)
      PROVE  MemoryInv'
  <2>1. /\ UNCHANGED <<chain, arrives, seen, expired, faults>>
        /\ mempool' \subseteq mempool
    <3>1. CASE CheckIndex(t) \/ InsertIndex(t)
      <4>1. (\E m : Added(t, m)) \/ Step(t)
        BY <3>1 DEF CheckIndex, InsertIndex
      <4>2. ASSUME NEW m, Added(t, m)
            PROVE  UNCHANGED <<chain, arrives, seen, expired, faults>>
        BY <4>2 DEF Added
      <4>3. ASSUME NEW m, Added(t, m) PROVE mempool' \subseteq mempool
        <5>1. \/ mempool' = {x \in mempool : x.block # Head(task[t].todo)}
              \/ mempool' = mempool
          BY <4>3 DEF Added
        <5>. QED
          BY <5>1
      <4>4. CASE Step(t)
        BY <4>4 DEF Step, memory
      <4>. QED
        BY <4>1, <4>2, <4>3, <4>4
    <3>2. CASE Commit(t)
      BY <3>2 DEF Commit, memory
    <3>3. CASE ~(CheckIndex(t) \/ InsertIndex(t) \/ Commit(t))
      BY <1>1, <3>3 DEF AddBlock, ReadTip, ApplyMint, ReadSender, ApplyTransfer,
         ApplyReward, Step, memory
    <3>. QED
      BY <3>1, <3>2, <3>3
  <2>. QED
    BY <2>1, MemoryKept
<1>2. ASSUME NEW t \in Tasks, StatementFails(t) \/ Deadlock(t) \/ SessionLost(t)
      PROVE  MemoryInv'
  <2>1. /\ UNCHANGED <<chain, arrives, seen, expired, mempool>>
        /\ faults' = faults \/ Fault
    BY <1>2 DEF StatementFails, Deadlock, SessionLost, memory
  <2>. QED
    BY <2>1, MemoryKept
<1>3. ASSUME NEW t \in Tasks, NEW h \in Heights, NewBlock(t, h)
      PROVE  MemoryInv'
  <2>1. /\ UNCHANGED <<chain, arrives, mempool, expired, faults>>
        /\ Remember(<<"block", h>>) /\ <<"block", h>> \in Ids
    BY <1>3 DEF NewBlock, Ids
  <2>. QED
    BY <2>1, MemoryKept
<1>4. ASSUME NEW t \in Tasks,
             \/ \E h \in Heights : ProcessNewBlock(t, h)
             \/ \E from, to \in Heights : BlocksResponse(t, from, to)
      PROVE  MemoryInv'
  <2>1. UNCHANGED <<chain, arrives, seen, mempool, expired, faults>>
    BY <1>4 DEF ProcessNewBlock, BlocksResponse, memory
  <2>. QED
    BY <2>1, MemoryKept
<1>5. ASSUME NEW x \in Transactions, NewTransaction(x)
      PROVE  MemoryInv'
  BY <1>5, NewTransactionTyped
<1>6. ASSUME NEW x \in Transactions, Expire(x)
      PROVE  MemoryInv'
  <2>1. UNCHANGED <<chain, arrives, seen, mempool, faults>> /\ expired' \subseteq Transactions
    BY <1>6 DEF Expire, memory, MemoryInv
  <2>2. Ids' = Ids
    BY <2>1 DEF Ids, Heights
  <2>. QED
    BY <2>1, <2>2 DEF MemoryInv
<1>7. CASE Restart
  <2>1. /\ UNCHANGED <<chain, arrives, expired>>
        /\ seen' = <<>> /\ mempool' \subseteq mempool /\ Fault
    BY <1>7 DEF Restart
  <2>. QED
    BY <2>1, MemoryKept
<1>8. CASE UNCHANGED vars
  <2>1. UNCHANGED <<chain, arrives, seen, mempool, expired, faults>>
    BY <1>8 DEF vars, memory
  <2>. QED
    BY <2>1, MemoryKept
<1>9. ASSUME NEW a \in Addresses, NEW n \in Amounts, ApplicationMoves(a, n)
      PROVE  MemoryInv'
  <2>1. UNCHANGED <<chain, arrives, seen, mempool, expired, faults>>
    BY <1>9 DEF ApplicationMoves, memory
  <2>. QED
    BY <2>1, MemoryKept
<1>. QED
  BY <1>1, <1>2, <1>3, <1>4, <1>5, <1>6, <1>7, <1>8, <1>9 DEF Next

(* What the application has done.                                          *)
AppInv == app \in [given : [Addresses -> Int], moves : 0 .. MaxMoves,
                   crossed : SUBSET Addresses]

LEMMA AppInit == Init => AppInv
<1>. SUFFICES ASSUME Init PROVE AppInv
  OBVIOUS
<1>. DEFINE g == [a \in Addresses |-> IF a \in Registered THEN Opening[a] ELSE 0]
<1>1. \A a \in Registered : Opening[a] \in Nat
  BY Bounds
<1>2. g \in [Addresses -> Int]
  BY <1>1
<1>3. app = [given |-> g, moves |-> 0, crossed |-> {}]
  BY DEF Init
<1>4. 0 \in 0 .. MaxMoves
  BY Bounds
<1>. HIDE DEF g
<1>. QED
  BY <1>2, <1>3, <1>4 DEF AppInv

LEMMA AppStep == AppInv /\ [Next]_vars => AppInv'
<1>. SUFFICES ASSUME AppInv, [Next]_vars PROVE AppInv'
  OBVIOUS
<1>1. ASSUME NEW a \in Addresses, NEW n \in Amounts, ApplicationMoves(a, n)
      PROVE  AppInv'
  <2>1. n \in Int /\ MaxMoves \in Nat
    BY Bounds
  <2>2. [app.given EXCEPT ![a] = @ + n] \in [Addresses -> Int]
    BY <2>1 DEF AppInv
  <2>3. app.moves + 1 \in 0 .. MaxMoves
    BY <1>1, <2>1 DEF AppInv, ApplicationMoves
  <2>. DEFINE g == [app.given EXCEPT ![a] = @ + n]
              c == IF \E t \in Tasks : Carries(t, a)
                   THEN app.crossed \cup {a} ELSE app.crossed
  <2>4. app' = [given |-> g, moves |-> app.moves + 1, crossed |-> c]
    BY <1>1 DEF ApplicationMoves
  <2>5. c \in SUBSET Addresses
    BY DEF AppInv
  <2>. HIDE DEF g, c
  <2>. QED
    BY <2>2, <2>3, <2>4, <2>5 DEF AppInv, g
<1>2. ASSUME app' = app
      PROVE  AppInv'
  BY <1>2 DEF AppInv
<1>3. ASSUME NEW t \in Tasks, AddBlock(t)
      PROVE  app' = app
  <2>1. CASE CheckIndex(t) \/ InsertIndex(t)
    BY <2>1 DEF CheckIndex, InsertIndex, Added, Step
  <2>2. CASE Commit(t)
    BY <2>2 DEF Commit
  <2>3. CASE ~(CheckIndex(t) \/ InsertIndex(t) \/ Commit(t))
    BY <1>3, <2>3 DEF AddBlock, ReadTip, ApplyMint, ReadSender, ApplyTransfer,
       ApplyReward, Step
  <2>. QED
    BY <2>1, <2>2, <2>3
<1>4. ASSUME NEW t \in Tasks,
             \/ StatementFails(t) \/ Deadlock(t) \/ SessionLost(t)
             \/ \E h \in Heights : NewBlock(t, h) \/ ProcessNewBlock(t, h)
             \/ \E from, to \in Heights : BlocksResponse(t, from, to)
      PROVE  app' = app
  BY <1>4 DEF StatementFails, Deadlock, SessionLost, NewBlock, ProcessNewBlock,
     BlocksResponse
<1>5. ASSUME NEW x \in Transactions, NewTransaction(x) \/ Expire(x)
      PROVE  app' = app
  BY <1>5 DEF NewTransaction, Expire
<1>6. Restart \/ UNCHANGED vars => app' = app
  BY DEF Restart, vars
<1>. QED
  BY <1>1, <1>2, <1>3, <1>4, <1>5, <1>6 DEF Next

THEOREM AppAlways == Spec => []AppInv
BY AppInit, AppStep, PTL DEF Spec

LEMMA TypedInit == Init => TasksTyped /\ MemoryInv
<1>. SUFFICES ASSUME Init PROVE TasksTyped /\ MemoryInv
  OBVIOUS
<1>1. TasksTyped
  BY IdleTyped DEF Init, TasksTyped
<1>2. PICK load \in Workloads : chain = load.chain /\ arrives = load.arrives
  BY DEF Init
<1>3. [chain |-> chain, arrives |-> arrives] \in Workloads
  <2>1. load = [chain |-> load.chain, arrives |-> load.arrives]
    BY Certified
  <2>. QED
    BY <1>2, <2>1
<1>4. /\ seen = <<>> /\ mempool = {} /\ expired = {} /\ faults = 0
  BY DEF Init
<1>5. IsFiniteSet({}) /\ Cardinality({}) = 0
  BY FS_EmptySet
<1>6. <<>> \in Seq(Ids) /\ Len(<<>>) = 0
  OBVIOUS
<1>. QED
  BY <1>1, <1>3, <1>4, <1>5, <1>6, Bounds DEF MemoryInv

(* What each coroutine and session holds, between two awaits, and the      *)
(* memory of the node they share.                                          *)
THEOREM TypedAlways == Spec => [](TasksTyped /\ MemoryInv)
<1>1. ChainInv /\ SolvencyInv /\ ReplayInv /\ (TasksTyped /\ MemoryInv) /\ [Next]_vars
        => (TasksTyped /\ MemoryInv)'
  BY TasksTypedStep, MemoryStep
<1>. QED
  BY <1>1, ChainInvAlways, SolvencyAlways, ReplayAlways, TypedInit, PTL DEF Spec

(* Every variable stays in its type, with the cache of ids and the mempool *)
(* within their sizes.                                                     *)
THEOREM TypesKept == Spec => []TypeOK
<1>1. ASSUME ChainInv, SolvencyInv, ReplayInv, TasksTyped, MemoryInv, AppInv
      PROVE  TypeOK
  <2>1. PICK n \in 0 .. Len(chain) :
          /\ index = 0 .. n - 1
          /\ \A t \in Tasks : Stands(task[t].mine, n, chain) /\ Stands(task[t].save, n, chain)
    BY <1>1 DEF ReplayInv, ReplayedTo, TaskReplay
  <2>2. Len(chain) \in Nat
    BY <1>1 DEF ChainInv
  <2>3. index \subseteq Heights
    BY <2>1, <2>2 DEF Heights
  <2>4. rows \in Seq(Heights)
    <3>1. rows \in Seq(Nat) /\ \A i \in 1 .. Len(rows) : rows[i] \in Heights
      BY <1>1, <2>3 DEF ChainInv, ReplayInv
    <3>2. Len(rows) \in Nat /\ SubSeq(rows, 1, Len(rows)) = rows
      BY <3>1, LenProperties, SubSeqFull
    <3>3. SubSeq(rows, 1, Len(rows)) \in Seq(Heights)
      BY <3>1, <3>2, SubSeqProperties
    <3>. QED
      BY <3>2, <3>3
  <2>5. wallet \in [Addresses -> Wallet \cup {NoWallet}]
    BY <1>1 DEF SolvencyInv, AllSolvent, Solvent
  <2>6. account \in [Addresses -> Wallet]
    <3>1. CASE Tasks = {}
      <4>1. PICK j \in 0 .. Len(chain) : account = Replay(chain, j)
        BY <1>1 DEF ReplayInv, ReplayedTo
      <4>. QED
        BY <1>1, <4>1, ReplayTyped DEF SolvencyInv, Accounts
    <3>2. CASE Tasks # {}
      BY <1>1, <3>2, AccountsTyped DEF Accounts
    <3>. QED
      BY <3>1, <3>2
  <2>7. ASSUME NEW m, SessionOK(m), AllSolvent(m.wallet, chain), Owns(m), m.account \in Accounts,
               Stands(m, n, chain)
        PROVE  m \in Session
    <3>1. m.wallet \in [Addresses -> Wallet \cup {NoWallet}]
      BY <2>7 DEF AllSolvent, Solvent
    <3>2. m.index \subseteq Nat
      BY <2>1, <2>2, <2>7 DEF Stands
    <3>3. m.own \in SUBSET Addresses /\ m.dirty \in SUBSET Addresses /\ m.rows \in Seq(Nat)
      BY <2>7 DEF Owns, SessionOK
    <3>. QED
      BY <2>7, <3>1, <3>2, <3>3 DEF SessionOK, IsSession, Session, Accounts
  <2>8. ASSUME NEW t \in Tasks
        PROVE  task[t] \in
                 [pc : {"idle", "tip", "tx", "apply", "check", "insert", "commit"},
                  kind : {"none", "gossip", "batch", "local"}, todo : Seq(Heights),
                  tx : Nat, sender : Wallet \cup {NoWallet}, base : Nat,
                  mine : Session, save : Session]
    <3>. DEFINE k == task[t]
    <3>1. TaskOK(k, Len(rows)) /\ TaskSolvent(k, chain) /\ TaskTyped(k)
      BY <1>1 DEF ChainInv, SolvencyInv, TasksTyped
    <3>2. k.mine \in Session /\ k.save \in Session
      BY <2>1, <2>7, <3>1 DEF TaskOK, TaskSolvent, TaskTyped
    <3>3. k.todo \in Seq(Heights) /\ k.tx \in Nat /\ k.sender \in Wallet \cup {NoWallet}
      BY <3>1 DEF TaskSolvent, Solvent, Heights
    <3>4. k.base \in Nat
      BY <3>1 DEF TaskOK
    <3>. HIDE DEF k
    <3>. QED
      BY <3>1, <3>2, <3>3, <3>4 DEF TaskOK, IsTask, TaskTyped, k
  <2>9. raced \in BOOLEAN /\ task = [t \in Tasks |-> task[t]]
    BY <1>1 DEF ChainInv
  <2>10. task \in [Tasks ->
                 [pc : {"idle", "tip", "tx", "apply", "check", "insert", "commit"},
                  kind : {"none", "gossip", "batch", "local"}, todo : Seq(Heights),
                  tx : Nat, sender : Wallet \cup {NoWallet}, base : Nat,
                  mine : Session, save : Session]]
    BY <2>8, <2>9
  <2>. QED
    BY <1>1, <2>3, <2>4, <2>5, <2>6, <2>9, <2>10 DEF TypeOK, MemoryInv, AppInv
<1>. QED
  BY <1>1, ChainInvAlways, SolvencyAlways, ReplayAlways, TypedAlways, AppAlways, PTL
============================================================================
