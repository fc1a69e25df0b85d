---------------------------- MODULE MoneyProofs ----------------------------
(***************************************************************************)
(* Theorems about the requests of MoneyFlows, for any requests and any     *)
(* rows: what a handler may do to its session, and what follows for the    *)
(* rows other sessions lock, for the payments under a key, for the reads   *)
(* under a lock and for the transfers handed to the chain.                 *)
(***************************************************************************)
EXTENDS MoneyFlows, TLAPS

IsSession(m) ==
    m = [req |-> m.req, pc |-> m.pc, read |-> m.read, wrote |-> m.wrote,
         gone |-> m.gone, held |-> m.held, old |-> m.old, pays |-> m.pays]

(* A row that the session inserts.                                         *)
Inserted(k, r) ==
    r \in DOMAIN k.wrote \cap DOMAIN k.read /\ k.read[r] = Absent

(* No empty set of changes is kept, what is paid under a key has its row   *)
(* inserted by the same session, and only profiles and forecasts go.       *)
Recorded(k) ==
    /\ IsSession(k)
    /\ \A r \in DOMAIN k.wrote : DOMAIN k.wrote[r] # {}
    /\ \A c \in k.pays : c[1] \in Keyed => Inserted(k, KeyOf(c))
    /\ \A r \in k.gone : r[1] \in {"validator", "forecast"}

(* The requests that settle a match count down what is left of it.         *)
SameRequest(q, p) ==
    \/ p = q
    \/ /\ q.op \in {"settle_results", "settle_pending"}
       /\ p.op = q.op /\ IsRow(p) /\ "op" \in DOMAIN p

(* What the handler of s may make of its session before a statement.  A    *)
(* row is locked for it only if no other session holds the row.            *)
Kept(s, k) ==
    /\ Recorded(k)
    /\ SameRequest(session[s].req, k.req)
    /\ \A r \in k.held \ session[s].held :
         \A u \in Sessions \ {s} : r \notin session[u].held

----------------------------------------------------------------------------
(* The operations on a session                                             *)

LEMMA OverIs ==
  ASSUME NEW f, NEW g
  PROVE  /\ IsRow(Over(f, g))
         /\ DOMAIN Over(f, g) = DOMAIN f \cup DOMAIN g
         /\ \A x \in DOMAIN f : Over(f, g)[x] = f[x]
         /\ \A x \in DOMAIN g : x \notin DOMAIN f => Over(f, g)[x] = g[x]
BY DEF Over, IsRow

LEMMA OnlyIs ==
  ASSUME NEW x, NEW y
  PROVE  DOMAIN Only(x, y) = {x} /\ Only(x, y)[x] = y
BY DEF Only

LEMMA LoadAllIs ==
  ASSUME NEW k, NEW S
  PROVE  LoadAll(k, S) = [k EXCEPT !.read = Over([r \in S \ Known(k) |-> table[r]], @)]
<1> DEFINE y == [k EXCEPT !.read = Over([r \in S \ Known(k) |-> table[r]], @)]
<1>1. LoadAll(k, S) = CHOOSE x \in {y} : TRUE
  BY DEF LoadAll, With
<1>. QED
  BY <1>1

LEMMA SetEachIs ==
  ASSUME NEW k, NEW f
  PROVE  SetEach(k, f) = Merged(k, f)
<1> DEFINE y == Merged(k, f)
<1>1. SetEach(k, f) = CHOOSE x \in {CHOOSE z \in {y} : TRUE} : TRUE
  BY DEF SetEach, With
<1>. HIDE DEF y
<1>2. (CHOOSE z \in {y} : TRUE) = y
  OBVIOUS
<1>. QED
  BY <1>1, <1>2 DEF y

LEMMA AddIs ==
  ASSUME NEW k, NEW r, NEW column, NEW n
  PROVE  Add(k, r, column, n) = Set(k, r, Only(column, Copy(k, r)[column] + n))
<1> DEFINE y == Set(k, r, Only(column, Copy(k, r)[column] + n))
<1>1. Add(k, r, column, n) = CHOOSE x \in {y} : TRUE
  BY DEF Add, With
<1>. QED
  BY <1>1

(* Only read changes in k with a load, only wrote with a change.           *)
LEMMA LoadedFields ==
  ASSUME NEW k, IsSession(k), NEW S
  PROVE  LET m == LoadAll(k, S) IN
         /\ IsSession(m)
         /\ m.req = k.req /\ m.pc = k.pc /\ m.wrote = k.wrote /\ m.gone = k.gone
         /\ m.held = k.held /\ m.old = k.old /\ m.pays = k.pays
         /\ DOMAIN m.read = (S \ Known(k)) \cup DOMAIN k.read
         /\ \A r \in S \ Known(k) : m.read[r] = table[r]
         /\ \A r \in DOMAIN k.read : r \notin S \ Known(k) => m.read[r] = k.read[r]
<1> DEFINE g == [r \in S \ Known(k) |-> table[r]]
           m == LoadAll(k, S)
<1>1. m = [k EXCEPT !.read = Over(g, @)]
  BY LoadAllIs
<1>2. DOMAIN g = S \ Known(k) /\ \A r \in S \ Known(k) : g[r] = table[r]
  OBVIOUS
<1>3. m.read = Over(g, k.read)
  <2>. HIDE DEF g
  <2>. QED
    BY <1>1 DEF IsSession
<1>4. /\ IsSession(m)
      /\ m.req = k.req /\ m.pc = k.pc /\ m.wrote = k.wrote /\ m.gone = k.gone
      /\ m.held = k.held /\ m.old = k.old /\ m.pays = k.pays
  <2>. HIDE DEF g
  <2>. QED
    BY <1>1 DEF IsSession
<1>. HIDE DEF g, m
<1>5. /\ DOMAIN m.read = DOMAIN g \cup DOMAIN k.read
      /\ \A x \in DOMAIN g : m.read[x] = g[x]
      /\ \A x \in DOMAIN k.read : x \notin DOMAIN g => m.read[x] = k.read[x]
  <2> DEFINE h == k.read
  <2>. HIDE DEF h
  <2>1. /\ DOMAIN Over(g, h) = DOMAIN g \cup DOMAIN h
        /\ \A x \in DOMAIN g : Over(g, h)[x] = g[x]
        /\ \A x \in DOMAIN h : x \notin DOMAIN g => Over(g, h)[x] = h[x]
    BY OverIs
  <2>. QED
    BY <1>3, <2>1 DEF h
<1>6. /\ DOMAIN m.read = (S \ Known(k)) \cup DOMAIN k.read
      /\ \A r \in S \ Known(k) : m.read[r] = table[r]
      /\ \A r \in DOMAIN k.read : r \notin S \ Known(k) => m.read[r] = k.read[r]
  BY <1>2, <1>5
<1>. QED
  BY <1>4, <1>6 DEF m

LEMMA SetFields ==
  ASSUME NEW k, IsSession(k), NEW f
  PROVE  LET m == SetEach(k, f) IN
         /\ IsSession(m)
         /\ m.req = k.req /\ m.pc = k.pc /\ m.read = k.read /\ m.gone = k.gone
         /\ m.held = k.held /\ m.old = k.old /\ m.pays = k.pays
         /\ DOMAIN m.wrote = ChangedBy(k, f) \cup DOMAIN k.wrote
         /\ \A r \in ChangedBy(k, f) :
              m.wrote[r] = Over(Changes(Copy(k, r), f[r]), Written(k, r))
         /\ \A r \in DOMAIN k.wrote :
              r \notin ChangedBy(k, f) => m.wrote[r] = k.wrote[r]
<1> DEFINE g == [r \in ChangedBy(k, f) |->
                   Over(Changes(Copy(k, r), f[r]), Written(k, r))]
           m == SetEach(k, f)
<1>1. m = [k EXCEPT !.wrote = Over(g, @)]
  BY SetEachIs DEF Merged
<1>2. /\ DOMAIN g = ChangedBy(k, f)
      /\ \A r \in ChangedBy(k, f) :
           g[r] = Over(Changes(Copy(k, r), f[r]), Written(k, r))
  OBVIOUS
<1>. HIDE DEF g, m
<1>3. m.wrote = Over(g, k.wrote)
  BY <1>1 DEF IsSession
<1>4. /\ IsSession(m)
      /\ m.req = k.req /\ m.pc = k.pc /\ m.read = k.read /\ m.gone = k.gone
      /\ m.held = k.held /\ m.old = k.old /\ m.pays = k.pays
  BY <1>1 DEF IsSession
<1>5. /\ DOMAIN m.wrote = DOMAIN g \cup DOMAIN k.wrote
      /\ \A x \in DOMAIN g : m.wrote[x] = g[x]
      /\ \A x \in DOMAIN k.wrote : x \notin DOMAIN g => m.wrote[x] = k.wrote[x]
  <2> DEFINE h == k.wrote
  <2>. HIDE DEF h
  <2>1. /\ DOMAIN Over(g, h) = DOMAIN g \cup DOMAIN h
        /\ \A x \in DOMAIN g : Over(g, h)[x] = g[x]
        /\ \A x \in DOMAIN h : x \notin DOMAIN g => Over(g, h)[x] = h[x]
    BY OverIs
  <2>. QED
    BY <1>3, <2>1 DEF h
<1>6. /\ DOMAIN m.wrote = ChangedBy(k, f) \cup DOMAIN k.wrote
      /\ \A r \in ChangedBy(k, f) :
           m.wrote[r] = Over(Changes(Copy(k, r), f[r]), Written(k, r))
      /\ \A r \in DOMAIN k.wrote :
           r \notin ChangedBy(k, f) => m.wrote[r] = k.wrote[r]
  BY <1>2, <1>5
<1>. QED
  BY <1>4, <1>6 DEF m

LEMMA ChangesIs ==
  ASSUME NEW copy, NEW columns
  PROVE  /\ DOMAIN Changes(copy, columns) =
              {x \in DOMAIN columns : x \notin DOMAIN copy \/ copy[x] # columns[x]}
         /\ \A x \in DOMAIN Changes(copy, columns) : Changes(copy, columns)[x] = columns[x]
BY DEF Changes

----------------------------------------------------------------------------
(* What they keep                                                          *)

LEMMA KeyIsReference ==
  ASSUME NEW c, c[1] \in Keyed
  PROVE  KeyOf(c)[1] \in {"reference", "referral"}
BY DEF Keyed, KeyOf, Ref

LEMMA KeptAtFirst ==
  ASSUME NEW s, Recorded(session[s])
  PROVE  Kept(s, session[s])
BY DEF Kept, SameRequest

LEMMA KeptByLoadAll ==
  ASSUME NEW s, NEW k, Kept(s, k), NEW S
  PROVE  Kept(s, LoadAll(k, S))
<1> DEFINE m == LoadAll(k, S)
<1>0. IsSession(k)
  BY DEF Kept, Recorded
<1>1. /\ IsSession(m)
      /\ m.req = k.req /\ m.wrote = k.wrote /\ m.gone = k.gone
      /\ m.held = k.held /\ m.pays = k.pays
      /\ DOMAIN m.read = (S \ Known(k)) \cup DOMAIN k.read
      /\ \A r \in DOMAIN k.read : r \notin S \ Known(k) => m.read[r] = k.read[r]
  BY <1>0, LoadedFields
<1>. HIDE DEF m
<1>2. ASSUME NEW r, Inserted(k, r) PROVE Inserted(m, r)
  <2>1. r \in Known(k)
    BY <1>2 DEF Inserted, Known, Exists
  <2>. QED
    BY <1>1, <1>2, <2>1 DEF Inserted
<1>. QED
  BY <1>1, <1>2 DEF Kept, Recorded, m

LEMMA KeptByLoad ==
  ASSUME NEW s, NEW k, Kept(s, k), NEW r
  PROVE  Kept(s, Load(k, r))
BY KeptByLoadAll DEF Load

LEMMA KeptBySetEach ==
  ASSUME NEW s, NEW k, Kept(s, k), NEW f
  PROVE  Kept(s, SetEach(k, f))
<1> DEFINE m == SetEach(k, f)
<1>0. IsSession(k)
  BY DEF Kept, Recorded
<1>1. /\ IsSession(m)
      /\ m.req = k.req /\ m.read = k.read /\ m.gone = k.gone
      /\ m.held = k.held /\ m.pays = k.pays
      /\ DOMAIN m.wrote = ChangedBy(k, f) \cup DOMAIN k.wrote
      /\ \A r \in ChangedBy(k, f) :
           m.wrote[r] = Over(Changes(Copy(k, r), f[r]), Written(k, r))
      /\ \A r \in DOMAIN k.wrote :
           r \notin ChangedBy(k, f) => m.wrote[r] = k.wrote[r]
  BY <1>0, SetFields
<1>. HIDE DEF m
<1>2. ASSUME NEW r \in DOMAIN m.wrote PROVE DOMAIN m.wrote[r] # {}
  <2>1. CASE r \in ChangedBy(k, f)
    <3> DEFINE d == Changes(Copy(k, r), f[r])
               w == Written(k, r)
    <3>1. DOMAIN d # {}
      BY <2>1 DEF ChangedBy
    <3>2. m.wrote[r] = Over(d, w)
      BY <1>1, <2>1
    <3>. HIDE DEF d, w
    <3>3. DOMAIN Over(d, w) = DOMAIN d \cup DOMAIN w
      BY OverIs
    <3>. QED
      BY <3>1, <3>2, <3>3
  <2>2. CASE r \notin ChangedBy(k, f)
    BY <1>1, <1>2, <2>2 DEF Kept, Recorded
  <2>. QED
    BY <2>1, <2>2
<1>3. ASSUME NEW r, Inserted(k, r) PROVE Inserted(m, r)
  BY <1>1, <1>3 DEF Inserted
<1>. QED
  BY <1>1, <1>2, <1>3 DEF Kept, Recorded, m

LEMMA KeptBySet ==
  ASSUME NEW s, NEW k, Kept(s, k), NEW r, NEW columns
  PROVE  Kept(s, Set(k, r, columns))
BY KeptBySetEach DEF Set

LEMMA KeptByAdd ==
  ASSUME NEW s, NEW k, Kept(s, k), NEW r, NEW column, NEW n
  PROVE  Kept(s, Add(k, r, column, n))
BY KeptBySet, AddIs

LEMMA KeptByInsert ==
  ASSUME NEW s, NEW k, Kept(s, k), NEW r, NEW columns
  PROVE  Kept(s, Insert(k, r, columns))
<1> DEFINE x == Only(r, Absent)
           y == k.read
           m == [k EXCEPT !.read = Over(x, @)]
<1>1. DOMAIN x = {r} /\ x[r] = Absent
  BY OnlyIs
<1>a. m = [k EXCEPT !.read = Over(x, @)]
  OBVIOUS
<1>. HIDE DEF x, m
<1>2. /\ IsSession(m)
      /\ m.req = k.req /\ m.wrote = k.wrote /\ m.gone = k.gone
      /\ m.held = k.held /\ m.pays = k.pays /\ m.read = Over(x, y)
  BY <1>a DEF Kept, Recorded, IsSession
<1>. HIDE DEF y
<1>3. /\ DOMAIN Over(x, y) = {r} \cup DOMAIN y
      /\ Over(x, y)[r] = Absent
      /\ \A z \in DOMAIN y : z # r => Over(x, y)[z] = y[z]
  <2>1. /\ DOMAIN Over(x, y) = DOMAIN x \cup DOMAIN y
        /\ \A z \in DOMAIN x : Over(x, y)[z] = x[z]
        /\ \A z \in DOMAIN y : z \notin DOMAIN x => Over(x, y)[z] = y[z]
    BY OverIs
  <2>. QED
    BY <1>1, <2>1
<1>4. ASSUME NEW z, Inserted(k, z) PROVE Inserted(m, z)
  BY <1>2, <1>3, <1>4 DEF Inserted, y
<1>5. Kept(s, m)
  BY <1>2, <1>4 DEF Kept, Recorded
<1>. QED
  BY <1>5, KeptBySet DEF Insert, m, x

LEMMA Inserts ==
  ASSUME NEW s, NEW k, Kept(s, k), NEW r, NEW columns, DOMAIN columns # {}
  PROVE  Inserted(Insert(k, r, columns), r)
<1> DEFINE x == Only(r, Absent)
           y == k.read
           m == [k EXCEPT !.read = Over(x, @)]
           f == Only(r, columns)
<1>1. DOMAIN x = {r} /\ x[r] = Absent /\ DOMAIN f = {r} /\ f[r] = columns
  BY OnlyIs
<1>2. m = [k EXCEPT !.read = Over(x, @)]
  OBVIOUS
<1>. HIDE DEF x, m, f
<1>3. IsSession(m) /\ m.wrote = k.wrote /\ m.read = Over(x, y)
  BY <1>2 DEF Kept, Recorded, IsSession
<1>. HIDE DEF y
<1>4. r \in DOMAIN m.read /\ m.read[r] = Absent
  <2>1. /\ DOMAIN Over(x, y) = DOMAIN x \cup DOMAIN y
        /\ \A z \in DOMAIN x : Over(x, y)[z] = x[z]
    BY OverIs
  <2>. QED
    BY <1>1, <1>3, <2>1
<1>5. /\ SetEach(m, f).read = m.read
      /\ DOMAIN SetEach(m, f).wrote = ChangedBy(m, f) \cup DOMAIN m.wrote
  BY <1>3, SetFields
<1>6. CASE r \in DOMAIN m.wrote
  BY <1>4, <1>5, <1>6 DEF Inserted, Insert, Set, x, m, f
<1>7. CASE r \notin DOMAIN m.wrote
  <2>1. DOMAIN Changes(Copy(m, r), columns) = DOMAIN columns
    BY <1>4, <1>7 DEF Copy, Absent, Changes
  <2>2. r \in ChangedBy(m, f)
    BY <1>1, <2>1 DEF ChangedBy
  <2>. QED
    BY <1>4, <1>5, <2>2 DEF Inserted, Insert, Set, x, m, f
<1>. QED
  BY <1>6, <1>7

LEMMA KeptByReference ==
  ASSUME NEW s, NEW k, Kept(s, k), NEW name, NEW amount
  PROVE  Kept(s, Reference(k, name, amount)) /\ Inserted(Reference(k, name, amount), Ref(name))
BY KeptByInsert, Inserts DEF Reference

LEMMA KeptByPay ==
  ASSUME NEW s, NEW k, Kept(s, k), NEW cause,
         cause[1] \in Keyed => Inserted(k, KeyOf(cause))
  PROVE  Kept(s, Pay(k, cause))
<1> DEFINE m == Pay(k, cause)
<1>1. m = [k EXCEPT !.pays = @ \cup {cause}]
  BY DEF Pay
<1>. HIDE DEF m
<1>2. /\ IsSession(m)
      /\ m.req = k.req /\ m.wrote = k.wrote /\ m.gone = k.gone /\ m.read = k.read
      /\ m.held = k.held /\ m.pays = k.pays \cup {cause}
  BY <1>1 DEF Kept, Recorded, IsSession
<1>3. \A c \in m.pays : c[1] \in Keyed => Inserted(m, KeyOf(c))
  BY <1>2 DEF Kept, Recorded, Inserted
<1>. QED
  BY <1>2, <1>3 DEF Kept, Recorded, m

LEMMA KeptByDelete ==
  ASSUME NEW s, NEW k, Kept(s, k), NEW S, \A r \in S : r[1] \in {"validator", "forecast"}
  PROVE  Kept(s, Delete(k, S))
<1> DEFINE l == LoadAll(k, S)
           m == Delete(k, S)
<1>1. Kept(s, l)
  BY KeptByLoadAll
<1>. HIDE DEF l
<1>2. m = [l EXCEPT !.gone = @ \cup S]
  BY DEF Delete, l
<1>. HIDE DEF m
<1>3. /\ IsSession(m)
      /\ m.req = l.req /\ m.wrote = l.wrote /\ m.gone = l.gone \cup S
      /\ m.read = l.read /\ m.held = l.held /\ m.pays = l.pays
  BY <1>1, <1>2 DEF Kept, Recorded, IsSession
<1>. QED
  BY <1>1, <1>3 DEF Kept, Recorded, Inserted, m

(* A row that is read again is not one that is paid under.                 *)
LEMMA KeptByRefreshed ==
  ASSUME NEW s, NEW k, Kept(s, k), NEW r, r[1] \notin {"reference", "referral"}
  PROVE  Kept(s, Refreshed(k, r))
<1> DEFINE x == Only(r, table[r])
           y == k.read
           m == Refreshed(k, r)
<1>1. DOMAIN x = {r}
  BY OnlyIs
<1>2. m = [k EXCEPT !.read = Over(x, @), !.old = {z \in @ : z[1] # r}]
  BY DEF Refreshed
<1>. HIDE DEF x, m
<1>3. /\ IsSession(m)
      /\ m.req = k.req /\ m.wrote = k.wrote /\ m.gone = k.gone
      /\ m.held = k.held /\ m.pays = k.pays /\ m.read = Over(x, y)
  BY <1>2 DEF Kept, Recorded, IsSession
<1>. HIDE DEF y
<1>4. /\ DOMAIN Over(x, y) = DOMAIN x \cup DOMAIN y
      /\ \A z \in DOMAIN y : z \notin DOMAIN x => Over(x, y)[z] = y[z]
  BY OverIs
<1>5. ASSUME NEW z, z[1] \in {"reference", "referral"}, Inserted(k, z) PROVE Inserted(m, z)
  BY <1>1, <1>3, <1>4, <1>5 DEF Inserted, y
<1>6. \A c \in m.pays : c[1] \in Keyed => Inserted(m, KeyOf(c))
  BY <1>3, <1>5, KeyIsReference DEF Kept, Recorded
<1>. QED
  BY <1>3, <1>6 DEF Kept, Recorded, m

LEMMA KeptByLeft ==
  ASSUME NEW s, NEW k, Kept(s, k), NEW S, "op" \in DOMAIN session[s].req,
         session[s].req.op = "settle_results" \/ session[s].req.op = "settle_pending"
  PROVE  Kept(s, Left(k, S))
<1> DEFINE m == Left(k, S)
           q == k.req
           p == [q EXCEPT !.left = S]
<1>1. m = [k EXCEPT !.req = p]
  BY DEF Left, Kept, Recorded, IsSession
<1>2. IsRow(p) /\ "op" \in DOMAIN p /\ p.op = q.op
  BY DEF Kept, SameRequest, IsRow
<1>. HIDE DEF m, p
<1>3. /\ IsSession(m)
      /\ m.req = p /\ m.wrote = k.wrote /\ m.gone = k.gone
      /\ m.read = k.read /\ m.held = k.held /\ m.pays = k.pays
  BY <1>1 DEF Kept, Recorded, IsSession
<1>. QED
  BY <1>2, <1>3 DEF Kept, Recorded, Inserted, SameRequest, m

LEMMA KeptByTurn ==
  ASSUME NEW s, NEW k, Kept(s, k), NEW S, NEW b, "op" \in DOMAIN session[s].req,
         session[s].req.op = "settle_results" \/ session[s].req.op = "settle_pending"
  PROVE  Kept(s, Turn(k, S, b))
<1> DEFINE m == Turn(k, S, b)
           q == k.req
           p == [q EXCEPT !.left = S, !.bet = b]
<1>1. m = [k EXCEPT !.req = p]
  BY DEF Turn, Kept, Recorded, IsSession
<1>2. IsRow(p) /\ "op" \in DOMAIN p /\ p.op = q.op
  BY DEF Kept, SameRequest, IsRow
<1>. HIDE DEF m, p
<1>3. /\ IsSession(m)
      /\ m.req = p /\ m.wrote = k.wrote /\ m.gone = k.gone
      /\ m.read = k.read /\ m.held = k.held /\ m.pays = k.pays
  BY <1>1 DEF Kept, Recorded, IsSession
<1>. QED
  BY <1>2, <1>3 DEF Kept, Recorded, Inserted, SameRequest, m

LEMMA KeptByHold ==
  ASSUME NEW s, NEW k, Kept(s, k), NEW r, \A u \in Sessions \ {s} : r \notin session[u].held
  PROVE  Kept(s, [k EXCEPT !.held = @ \cup {r}])
<1> DEFINE m == [k EXCEPT !.held = @ \cup {r}]
<1>1. m = [k EXCEPT !.held = @ \cup {r}]
  OBVIOUS
<1>. HIDE DEF m
<1>3. /\ IsSession(m)
      /\ m.req = k.req /\ m.wrote = k.wrote /\ m.gone = k.gone
      /\ m.read = k.read /\ m.held = k.held \cup {r} /\ m.pays = k.pays
  BY <1>1 DEF Kept, Recorded, IsSession
<1>. QED
  BY <1>3 DEF Kept, Recorded, Inserted, m

----------------------------------------------------------------------------
(* The steps of the handlers                                               *)

(* What a step of s does: its session becomes one it may make of it, or    *)
(* that session is committed.                                              *)
Goes(s) ==
    \E k : Kept(s, k) /\ Keep(s, k) /\ UNCHANGED <<store, faults>>

Commits(s) == \E k, pc : Kept(s, k) /\ CommitThen(s, k, pc)

Effect(s) == Goes(s) \/ Commits(s)

LEMMA ClosedIs ==
  ASSUME NEW k, NEW how
  PROVE  /\ IsSession(Closed(k, how))
         /\ Closed(k, how).req = k.req /\ Closed(k, how).pc = how
         /\ Closed(k, how).wrote = <<>> /\ Closed(k, how).read = <<>>
         /\ Closed(k, how).gone = {} /\ Closed(k, how).held = {}
         /\ Closed(k, how).old = {} /\ Closed(k, how).pays = {}
<1> DEFINE m == Closed(k, how)
<1>1. m = [[req |-> k.req, pc |-> "start", read |-> <<>>, wrote |-> <<>>,
            gone |-> {}, held |-> {}, old |-> {}, pays |-> {}] EXCEPT !.pc = how]
  BY DEF Closed, Opened
<1>. HIDE DEF m
<1>2. /\ IsSession(m) /\ m.req = k.req /\ m.pc = how /\ m.wrote = <<>> /\ m.read = <<>>
      /\ m.gone = {} /\ m.held = {} /\ m.old = {} /\ m.pays = {}
  BY <1>1 DEF IsSession
<1>. QED
  BY <1>2 DEF m

LEMMA KeptByClosing ==
  ASSUME NEW s, NEW k, Kept(s, k), NEW how
  PROVE  Kept(s, Closed(k, how))
<1> DEFINE m == Closed(k, how)
<1>1. /\ IsSession(m) /\ m.req = k.req /\ m.wrote = <<>>
      /\ m.gone = {} /\ m.held = {} /\ m.pays = {}
  BY ClosedIs
<1>. HIDE DEF m
<1>2. DOMAIN m.wrote = {}
  BY <1>1
<1>. QED
  BY <1>1, <1>2 DEF Kept, Recorded, m

LEMMA EndEffect ==
  ASSUME NEW s, Recorded(session[s]), NEW how, End(s, how)
  PROVE  Effect(s)
BY KeptAtFirst, KeptByClosing DEF End, Effect, Goes

LEMMA RefuseEffect ==
  ASSUME NEW s, Recorded(session[s]), Refuse(s)
  PROVE  Effect(s)
BY EndEffect DEF Refuse

LEMMA QueryEffect ==
  ASSUME NEW s, NEW k, NEW pc, Recorded(session[s]), Kept(s, k), Query(s, k, pc)
  PROVE  Effect(s)
<1>1. CASE End(s, "refused")
  BY <1>1, EndEffect
<1>2. CASE ~End(s, "refused")
  <2> DEFINE m == [Flushed(k) EXCEPT !.pc = pc]
  <2>1. m = [[k EXCEPT !.held = @ \cup Touched(k)] EXCEPT !.pc = pc]
    BY DEF Flushed
  <2>2. Unlocked(s, k) /\ Keep(s, m) /\ UNCHANGED <<store, faults>>
    BY <1>2 DEF Query
  <2>. HIDE DEF m
  <2>3. /\ IsSession(m)
        /\ m.req = k.req /\ m.wrote = k.wrote /\ m.gone = k.gone
        /\ m.read = k.read /\ m.held = k.held \cup Touched(k) /\ m.pays = k.pays
    BY <2>1 DEF Kept, Recorded, IsSession
  <2>4. Kept(s, m)
    BY <2>2, <2>3 DEF Kept, Recorded, Inserted, Unlocked
  <2>. QED
    BY <2>2, <2>4 DEF Effect, Goes
<1>. QED
  BY <1>1, <1>2

LEMMA QueryForUpdateEffect ==
  ASSUME NEW s, NEW k, NEW r, NEW pc, Recorded(session[s]), Kept(s, k),
         QueryForUpdate(s, k, r, pc)
  PROVE  Effect(s)
<1>1. Kept(s, [Load(k, r) EXCEPT !.held = @ \cup {r}])
  BY KeptByLoad, KeptByHold DEF QueryForUpdate
<1>. QED
  BY <1>1, QueryEffect DEF QueryForUpdate

LEMMA CommitThenEffect ==
  ASSUME NEW s, NEW k, NEW pc, Kept(s, k), CommitThen(s, k, pc)
  PROVE  Effect(s)
BY DEF Effect, Commits

LEMMA CommitEffect ==
  ASSUME NEW s, NEW k, Kept(s, k), Commit(s, k)
  PROVE  Effect(s)
BY CommitThenEffect DEF Commit

(* What a referral pays is paid after its row has been inserted.           *)
Referring(k) ==
    k.req.op = "refer" /\ k.pc \in {"first", "second"} =>
      Inserted(k, <<"referral", k.req.user>>)

Prepared(s) ==
    /\ Recorded(session[s]) /\ Proper(session[s].req) /\ Referring(session[s])

(* What is paid on its own account, on the row of the request or under a   *)
(* reference that is inserted with it.                                     *)
LEMMA KeptByPayUnkeyed ==
  ASSUME NEW s, NEW k, Kept(s, k), NEW cause, cause[1] \notin Keyed
  PROVE  Kept(s, Pay(k, cause))
BY KeptByPay

PaysRow == {"withdraw_vault", "reject", "verify", "webhook", "cancel_offer", "release",
            "relay", "execute_grant", "execute_upgrade"}

LEMMA PaidRows ==
  ASSUME NEW op \in PaysRow
  PROVE  op \in DOMAIN TableOf /\ TableOf[op] \notin Keyed
BY DEF PaysRow, TableOf, Keyed

LEMMA KeptByPayRow ==
  ASSUME NEW s, NEW k, Kept(s, k), Proper(session[s].req),
         session[s].req.op \in PaysRow
  PROVE  Kept(s, Pay(k, Row(s)))
<1>1. Row(s)[1] \notin Keyed
  BY PaidRows DEF Proper, Row, Args
<1>. QED
  BY <1>1, KeptByPay

LEMMA KeptByPayReference ==
  ASSUME NEW s, NEW k, Kept(s, k), NEW name, NEW amount
  PROVE  Kept(s, Pay(Reference(k, name, amount), Ref(name)))
<1>1. KeyOf(Ref(name)) = Ref(name)
  BY DEF KeyOf, Ref
<1>. QED
  BY <1>1, KeptByReference, KeptByPay

LEMMA KeptByDeposit ==
  ASSUME NEW s, NEW k, Kept(s, k), NEW a
  PROVE  Kept(s, Deposit(k, a))
BY KeptBySet, KeptByInsert DEF Deposit

LEMMA KeptByOpening ==
  ASSUME NEW s, Recorded(session[s]), NEW w
  PROVE  Kept(s, [Closed(session[s], "bonus") EXCEPT !.read = Only(w, table[w])])
<1> DEFINE l == Closed(session[s], "bonus")
           m == [l EXCEPT !.read = Only(w, table[w])]
<1>1. Kept(s, l)
  BY KeptAtFirst, KeptByClosing
<1>2. l.wrote = <<>> /\ l.pays = {} /\ IsSession(l)
  BY ClosedIs
<1>. HIDE DEF l
<1>3. m = [l EXCEPT !.read = Only(w, table[w])]
  OBVIOUS
<1>. HIDE DEF m
<1>4. /\ IsSession(m) /\ m.req = l.req /\ m.wrote = l.wrote
      /\ m.gone = l.gone /\ m.held = l.held /\ m.pays = {}
  BY <1>2, <1>3 DEF IsSession
<1>. QED
  BY <1>1, <1>4 DEF Kept, Recorded, m, l

LEMMA OpenWalletEffect ==
  ASSUME NEW s, Prepared(s), OpenWallet(s)
  PROVE  Effect(s)
<1> DEFINE w == W(Args(s).user)
           k == Insert(session[s], w, NewWallet)
<1>1. CASE /\ Keep(s, [Closed(session[s], "bonus") EXCEPT !.read = Only(w, table[w])])
           /\ UNCHANGED <<store, faults>>
  BY <1>1, KeptByOpening DEF Prepared, Effect, Goes
<1>2. CASE \E pc : Query(s, k, pc)
  BY <1>2, KeptAtFirst, KeptByInsert, QueryEffect DEF Prepared
<1>3. CASE \E pc : Query(s, Load(session[s], w), pc)
  BY <1>3, KeptAtFirst, KeptByLoad, QueryEffect DEF Prepared
<1>4. CASE End(s, "done")
  BY <1>4, EndEffect DEF Prepared
<1>. QED
  BY <1>1, <1>2, <1>3, <1>4 DEF OpenWallet

LEMMA TransferLoadEffect ==
  ASSUME NEW s, Prepared(s), TransferLoad(s)
  PROVE  Effect(s)
BY KeptAtFirst, KeptByLoad, QueryEffect DEF TransferLoad, Prepared

LEMMA DebitEffect ==
  ASSUME NEW s, Prepared(s), Debit(s)
  PROVE  Effect(s)
BY KeptAtFirst, KeptByAdd, RefuseEffect, QueryEffect DEF Debit, Prepared

LEMMA CreditEffect ==
  ASSUME NEW s, Prepared(s), Credit(s)
  PROVE  Effect(s)
BY KeptAtFirst, KeptByAdd, CommitEffect DEF Credit, Prepared

LEMMA LoadOwnEffect ==
  ASSUME NEW s, Prepared(s), LoadOwn(s)
  PROVE  Effect(s)
BY KeptAtFirst, KeptByLoad, QueryEffect DEF LoadOwn, Prepared

LEMMA StakeEffect ==
  ASSUME NEW s, Prepared(s), Stake(s)
  PROVE  Effect(s)
BY KeptAtFirst, KeptByAdd, RefuseEffect, CommitEffect DEF Stake, Prepared

LEMMA UnstakeEffect ==
  ASSUME NEW s, Prepared(s), Unstake(s)
  PROVE  Effect(s)
BY KeptAtFirst, KeptByAdd, RefuseEffect, CommitEffect DEF Unstake, Prepared

LEMMA BuyOrSellEffect ==
  ASSUME NEW s, Prepared(s), BuyOrSell(s)
  PROVE  Effect(s)
BY KeptAtFirst, KeptByAdd, KeptByInsert, RefuseEffect, CommitEffect
   DEF BuyOrSell, Prepared

LEMMA SubscribeEffect ==
  ASSUME NEW s, Prepared(s), Subscribe(s)
  PROVE  Effect(s)
BY KeptAtFirst, KeptByAdd, KeptByInsert, RefuseEffect, CommitEffect
   DEF Subscribe, Prepared

LEMMA CreateVaultEffect ==
  ASSUME NEW s, Prepared(s), CreateVault(s)
  PROVE  Effect(s)
BY KeptAtFirst, KeptByAdd, KeptByInsert, RefuseEffect, CommitEffect
   DEF CreateVault, Prepared

LEMMA WithdrawVaultLoadEffect ==
  ASSUME NEW s, Prepared(s), WithdrawVaultLoad(s)
  PROVE  Effect(s)
BY KeptAtFirst, KeptByLoad, RefuseEffect, QueryEffect DEF WithdrawVaultLoad, Prepared

LEMMA WithdrawVaultEffect ==
  ASSUME NEW s, Prepared(s), WithdrawVault(s)
  PROVE  Effect(s)
BY KeptAtFirst, KeptBySet, KeptByAdd, KeptByPayRow, CommitEffect
   DEF WithdrawVault, Prepared, At, Args, PaysRow

LEMMA WithdrawRequestEffect ==
  ASSUME NEW s, Prepared(s), WithdrawRequest(s)
  PROVE  Effect(s)
BY KeptAtFirst, KeptByAdd, KeptByInsert, RefuseEffect, CommitEffect
   DEF WithdrawRequest, Prepared

LEMMA ApproveEffect ==
  ASSUME NEW s, Prepared(s), Approve(s)
  PROVE  Effect(s)
BY KeptAtFirst, KeptByLoad, KeptBySet, RefuseEffect, QueryEffect, CommitEffect
   DEF Approve, Prepared

LEMMA RejectEffect ==
  ASSUME NEW s, Prepared(s), Reject(s)
  PROVE  Effect(s)
BY KeptAtFirst, KeptByLoad, KeptBySet, RefuseEffect, QueryEffect DEF Reject, Prepared

LEMMA RefundEffect ==
  ASSUME NEW s, Prepared(s), Refund(s)
  PROVE  Effect(s)
BY KeptAtFirst, KeptByAdd, KeptByPayRow, CommitEffect
   DEF Refund, Prepared, At, Args, PaysRow

LEMMA GatekeepEffect ==
  ASSUME NEW s, Prepared(s), Gatekeep(s)
  PROVE  Effect(s)
BY KeptAtFirst, KeptByLoadAll, KeptBySetEach, QueryEffect, CommitEffect
   DEF Gatekeep, Prepared

LEMMA InitiateDepositEffect ==
  ASSUME NEW s, Prepared(s), InitiateDeposit(s)
  PROVE  Effect(s)
BY KeptAtFirst, KeptByInsert, CommitEffect DEF InitiateDeposit, Prepared

LEMMA VerifyLoadEffect ==
  ASSUME NEW s, Prepared(s), VerifyLoad(s)
  PROVE  Effect(s)
BY KeptAtFirst, KeptByLoad, QueryEffect DEF VerifyLoad, Prepared

LEMMA SettleEffect ==
  ASSUME NEW s, Prepared(s), Settle(s)
  PROVE  Effect(s)
BY KeptAtFirst, KeptByAdd, KeptByPayRow, KeptByReference, KeptByDeposit, EndEffect,
   CommitEffect
   DEF Settle, Prepared, At, Args, PaysRow, Row

LEMMA WebhookLoadEffect ==
  ASSUME NEW s, Prepared(s), WebhookLoad(s)
  PROVE  Effect(s)
BY KeptAtFirst, KeptByLoad, RefuseEffect, QueryEffect DEF WebhookLoad, Prepared

LEMMA WebhookCreditEffect ==
  ASSUME NEW s, Prepared(s), WebhookCredit(s)
  PROVE  Effect(s)
BY KeptAtFirst, KeptBySet, KeptByAdd, KeptByPayRow, CommitEffect
   DEF WebhookCredit, Prepared, At, Args, PaysRow

LEMMA FailPendingEffect ==
  ASSUME NEW s, Prepared(s), FailPending(s)
  PROVE  Effect(s)
BY KeptAtFirst, KeptByLoad, KeptBySet, RefuseEffect, QueryEffect, CommitEffect
   DEF FailPending, Prepared

LEMMA RewardLoadEffect ==
  ASSUME NEW s, Prepared(s), RewardLoad(s)
  PROVE  Effect(s)
BY KeptAtFirst, KeptByLoad, EndEffect, QueryEffect DEF RewardLoad, Prepared

LEMMA RewardEffect ==
  ASSUME NEW s, Prepared(s), Reward(s)
  PROVE  Effect(s)
BY KeptAtFirst, KeptByAdd, KeptByPayReference, CommitEffect DEF Reward, Prepared

LEMMA WelcomeBonusEffect ==
  ASSUME NEW s, Prepared(s), WelcomeBonus(s)
  PROVE  Effect(s)
BY KeptAtFirst, KeptByAdd, KeptByPayReference, EndEffect, CommitEffect
   DEF WelcomeBonus, Prepared

LEMMA KeptByPools ==
  ASSUME NEW s, NEW k, Kept(s, k), NEW r, NEW n
  PROVE  Kept(s, Deposited(k, r, n)) /\ Kept(s, Spent(k, r, n))
BY KeptBySet DEF Deposited, Spent

LEMMA KeptByOpenConsensus ==
  ASSUME NEW s, NEW k, Kept(s, k), NEW r
  PROVE  Kept(s, OpenConsensus(k, r))
BY KeptByLoad, KeptByInsert DEF OpenConsensus

LEMMA KeptByCompleted ==
  ASSUME NEW s, Recorded(session[s])
  PROVE  Kept(s, Completed(s))
BY KeptAtFirst, KeptBySet DEF Completed

LEMMA KeptByClaimed ==
  ASSUME NEW s, NEW k, Kept(s, k), NEW r
  PROVE  Kept(s, Claimed(k, r))
BY KeptBySet DEF Claimed

LEMMA KeptByChapter ==
  ASSUME NEW s, NEW k, Kept(s, k), NEW n
  PROVE  /\ Kept(s, Experienced(k, s)) /\ Kept(s, Advanced(k, s, n))
         /\ Kept(s, Evaluated(k, s)) /\ Kept(s, Granted(k, s))
BY KeptBySet DEF Experienced, Advanced, Evaluated, Granted

LEMMA KeptByResult ==
  ASSUME NEW s, NEW k, Kept(s, k), NEW S, NEW column, NEW outcome
  PROVE  Kept(s, WithResult(k, s, outcome)) /\ Kept(s, Graded(k, S, column, outcome))
BY KeptBySet, KeptBySetEach DEF WithResult, Graded

LEMMA KeptByCompared ==
  ASSUME NEW s, Recorded(session[s]), NEW latest
  PROVE  Kept(s, Compared(s, latest))
BY KeptAtFirst, KeptBySet, KeptByInsert DEF Compared

LEMMA LoadRowEffect ==
  ASSUME NEW s, Prepared(s), LoadRow(s)
  PROVE  Effect(s)
BY KeptAtFirst, KeptByLoad, RefuseEffect, QueryEffect DEF LoadRow, Prepared

LEMMA CreateOfferEffect ==
  ASSUME NEW s, Prepared(s), CreateOffer(s)
  PROVE  Effect(s)
BY KeptAtFirst, KeptByAdd, KeptByInsert, RefuseEffect, CommitEffect
   DEF CreateOffer, Prepared

LEMMA CancelOfferEffect ==
  ASSUME NEW s, Prepared(s), CancelOffer(s)
  PROVE  Effect(s)
BY KeptAtFirst, KeptByLoad, KeptBySet, RefuseEffect, QueryEffect, CommitEffect
   DEF CancelOffer, Prepared

LEMMA RefundEscrowEffect ==
  ASSUME NEW s, Prepared(s), RefundEscrow(s)
  PROVE  Effect(s)
BY KeptAtFirst, KeptBySet, KeptByAdd, KeptByPayRow, CommitEffect
   DEF RefundEscrow, Prepared, At, Args, PaysRow

LEMMA CreateOrderEffect ==
  ASSUME NEW s, Prepared(s), CreateOrder(s)
  PROVE  Effect(s)
BY KeptAtFirst, KeptByLoad, KeptByAdd, KeptByInsert, RefuseEffect, QueryEffect,
   CommitEffect
   DEF CreateOrder, Prepared, Ordered

LEMMA ConfirmPaymentEffect ==
  ASSUME NEW s, Prepared(s), ConfirmPayment(s)
  PROVE  Effect(s)
BY KeptAtFirst, KeptBySet, RefuseEffect, CommitEffect DEF ConfirmPayment, Prepared

LEMMA ReleaseLoadEffect ==
  ASSUME NEW s, Prepared(s), ReleaseLoad(s)
  PROVE  Effect(s)
BY KeptAtFirst, KeptByLoad, RefuseEffect, QueryEffect DEF ReleaseLoad, Prepared

LEMMA ReleaseEffect ==
  ASSUME NEW s, Prepared(s), Release(s)
  PROVE  Effect(s)
BY KeptAtFirst, KeptBySet, KeptByAdd, KeptByPayRow, CommitEffect
   DEF Release, Prepared, At, Args, PaysRow

LEMMA DisputeEffect ==
  ASSUME NEW s, Prepared(s), Dispute(s)
  PROVE  Effect(s)
BY KeptAtFirst, KeptBySet, RefuseEffect, CommitEffect DEF Dispute, Prepared

LEMMA BridgeOutCheckEffect ==
  ASSUME NEW s, Prepared(s), BridgeOutCheck(s)
  PROVE  Effect(s)
BY KeptAtFirst, EndEffect, QueryEffect DEF BridgeOutCheck, Prepared

LEMMA BridgeInCheckEffect ==
  ASSUME NEW s, Prepared(s), BridgeInCheck(s)
  PROVE  Effect(s)
BY KeptAtFirst, EndEffect, QueryEffect DEF BridgeInCheck, Prepared

LEMMA BridgeLockEffect ==
  ASSUME NEW s, Prepared(s), BridgeLock(s)
  PROVE  Effect(s)
BY KeptAtFirst, QueryForUpdateEffect DEF BridgeLock, Prepared

LEMMA BridgeDebitEffect ==
  ASSUME NEW s, Prepared(s), BridgeDebit(s)
  PROVE  Effect(s)
BY KeptAtFirst, KeptByAdd, RefuseEffect, QueryEffect DEF BridgeDebit, Prepared

LEMMA BridgeRecordEffect ==
  ASSUME NEW s, Prepared(s), BridgeRecord(s)
  PROVE  Effect(s)
BY KeptAtFirst, KeptByInsert, CommitEffect DEF BridgeRecord, Prepared

LEMMA BridgeCreditEffect ==
  ASSUME NEW s, Prepared(s), BridgeCredit(s)
  PROVE  Effect(s)
BY KeptAtFirst, KeptByAdd, KeptByPayReference, CommitEffect
   DEF BridgeCredit, Prepared, InRef

LEMMA InitiateLoadEffect ==
  ASSUME NEW s, Prepared(s), InitiateLoad(s)
  PROVE  Effect(s)
BY KeptAtFirst, KeptByLoad, KeptByAdd, RefuseEffect, QueryEffect
   DEF InitiateLoad, Prepared

LEMMA InitiateEffect ==
  ASSUME NEW s, Prepared(s), Initiate(s)
  PROVE  Effect(s)
BY KeptAtFirst, KeptByAdd, KeptByInsert, CommitEffect DEF Initiate, Prepared

LEMMA ConfirmBridgeEffect ==
  ASSUME NEW s, Prepared(s), ConfirmBridge(s)
  PROVE  Effect(s)
BY KeptAtFirst, KeptByLoad, KeptBySet, RefuseEffect, QueryEffect
   DEF ConfirmBridge, Prepared

LEMMA RelayedEffect ==
  ASSUME NEW s, Prepared(s), Relayed(s)
  PROVE  Effect(s)
BY KeptAtFirst, KeptByLoad, KeptByAdd, KeptByPayRow, QueryEffect, CommitEffect
   DEF Relayed, Prepared, At, Args, PaysRow

LEMMA LoadTargetEffect ==
  ASSUME NEW s, Prepared(s), LoadTarget(s)
  PROVE  Effect(s)
BY KeptAtFirst, KeptByLoad, QueryEffect DEF LoadTarget, Prepared

LEMMA PoolDepositEffect ==
  ASSUME NEW s, Prepared(s), PoolDeposit(s)
  PROVE  Effect(s)
BY KeptAtFirst, KeptByPools, CommitEffect DEF PoolDeposit, Prepared

LEMMA PoolSpendEffect ==
  ASSUME NEW s, Prepared(s), PoolSpend(s)
  PROVE  Effect(s)
BY KeptAtFirst, KeptByPools, RefuseEffect, CommitEffect DEF PoolSpend, Prepared

LEMMA ReviewGrantEffect ==
  ASSUME NEW s, Prepared(s), ReviewGrant(s)
  PROVE  Effect(s)
BY KeptAtFirst, KeptBySet, CommitEffect DEF ReviewGrant, Prepared

LEMMA ExecuteGrantEffect ==
  ASSUME NEW s, Prepared(s), ExecuteGrant(s)
  PROVE  Effect(s)
BY KeptAtFirst, KeptByLoad, KeptBySet, KeptByPools, KeptByPayRow, RefuseEffect,
   QueryEffect, CommitEffect, CommitThenEffect
   DEF ExecuteGrant, Prepared, At, Args, PaysRow, Row, Target

LEMMA RevenueEffect ==
  ASSUME NEW s, Prepared(s), Revenue(s)
  PROVE  Effect(s)
BY KeptAtFirst, KeptByLoad, KeptByPools, RefuseEffect, QueryEffect, CommitEffect,
   CommitThenEffect
   DEF Revenue, Prepared

LEMMA EpochRewardsEffect ==
  ASSUME NEW s, Prepared(s), EpochRewards(s)
  PROVE  Effect(s)
BY KeptAtFirst, KeptByLoadAll, KeptBySetEach, QueryEffect, CommitEffect
   DEF EpochRewards, Prepared

LEMMA CastVoteEffect ==
  ASSUME NEW s, Prepared(s), CastVote(s)
  PROVE  Effect(s)
BY KeptAtFirst, KeptBySet, KeptByInsert, EndEffect, RefuseEffect, QueryEffect,
   CommitEffect, CommitThenEffect
   DEF CastVote, Prepared

LEMMA CloseProposalEffect ==
  ASSUME NEW s, Prepared(s), CloseProposal(s)
  PROVE  Effect(s)
BY KeptAtFirst, KeptBySet, RefuseEffect, CommitEffect DEF CloseProposal, Prepared

LEMMA ExecuteProposalEffect ==
  ASSUME NEW s, Prepared(s), ExecuteProposal(s)
  PROVE  Effect(s)
BY KeptAtFirst, KeptByLoad, KeptBySet, RefuseEffect, QueryEffect, CommitEffect
   DEF ExecuteProposal, Prepared

LEMMA StakeLoadEffect ==
  ASSUME NEW s, Prepared(s), StakeLoad(s)
  PROVE  Effect(s)
BY KeptAtFirst, KeptByLoad, KeptByOpenConsensus, QueryForUpdateEffect, RefuseEffect,
   QueryEffect
   DEF StakeLoad, Prepared

LEMMA StakeOnEffect ==
  ASSUME NEW s, Prepared(s), StakeOn(s)
  PROVE  Effect(s)
BY KeptAtFirst, KeptByAdd, KeptByInsert, RefuseEffect, CommitEffect
   DEF StakeOn, Prepared

LEMMA SubmitResultEffect ==
  ASSUME NEW s, Prepared(s), SubmitResult(s)
  PROVE  Effect(s)
BY KeptAtFirst, KeptByLoadAll, KeptByInsert, RefuseEffect, QueryEffect
   DEF SubmitResult, Prepared

LEMMA CheckResultsEffect ==
  ASSUME NEW s, Prepared(s), CheckResults(s)
  PROVE  Effect(s)
BY KeptAtFirst, KeptByLoad, KeptBySetEach, RefuseEffect, QueryEffect, CommitEffect
   DEF CheckResults, Prepared, Accept

LEMMA LoadStakesEffect ==
  ASSUME NEW s, Prepared(s), LoadStakes(s)
  PROVE  Effect(s)
BY KeptAtFirst, KeptByLoadAll, KeptByOpenConsensus, RefuseEffect, QueryEffect,
   CommitEffect
   DEF LoadStakes, Prepared

LEMMA LoadWalletsEffect ==
  ASSUME NEW s, Prepared(s), LoadWallets(s)
  PROVE  Effect(s)
BY KeptAtFirst, KeptByLoadAll, QueryEffect DEF LoadWallets, Prepared

LEMMA RecordSettlementEffect ==
  ASSUME NEW s, Prepared(s), RecordSettlement(s)
  PROVE  Effect(s)
BY KeptAtFirst, KeptByLoadAll, KeptBySet, KeptBySetEach, KeptByInsert, QueryEffect
   DEF RecordSettlement, Prepared, LosersMarked

LEMMA GradeForecastsEffect ==
  ASSUME NEW s, Prepared(s), GradeForecasts(s)
  PROVE  Effect(s)
BY KeptAtFirst, KeptBySetEach, CommitEffect DEF GradeForecasts, Prepared

LEMMA LoadProfileEffect ==
  ASSUME NEW s, Prepared(s), LoadProfile(s)
  PROVE  Effect(s)
BY KeptAtFirst, KeptByLoad, QueryForUpdateEffect, RefuseEffect, QueryEffect
   DEF LoadProfile, Prepared

LEMMA ApplyEffect ==
  ASSUME NEW s, Prepared(s), Apply(s)
  PROVE  Effect(s)
BY KeptAtFirst, KeptByAdd, KeptByInsert, QueryForUpdateEffect, RefuseEffect,
   CommitEffect
   DEF Apply, Prepared

LEMMA DecideEffect ==
  ASSUME NEW s, Prepared(s), Decide(s)
  PROVE  Effect(s)
BY KeptAtFirst, KeptBySet, QueryForUpdateEffect, RefuseEffect, QueryEffect,
   CommitEffect
   DEF Decide, Prepared

LEMMA ForbiddenEffect ==
  ASSUME NEW s, Prepared(s), Forbidden(s)
  PROVE  Effect(s)
BY KeptAtFirst, RefuseEffect DEF Forbidden, Prepared

LEMMA SubmitForecastEffect ==
  ASSUME NEW s, Prepared(s), SubmitForecast(s)
  PROVE  Effect(s)
BY KeptAtFirst, KeptByInsert, KeptByOpenConsensus, RefuseEffect, CommitEffect
   DEF SubmitForecast, Prepared

LEMMA SubmitAppealEffect ==
  ASSUME NEW s, Prepared(s), SubmitAppeal(s)
  PROVE  Effect(s)
BY KeptAtFirst, KeptByInsert, CommitEffect DEF SubmitAppeal, Prepared

LEMMA ProgressLoadEffect ==
  ASSUME NEW s, Prepared(s), ProgressLoad(s)
  PROVE  Effect(s)
BY KeptAtFirst, KeptByLoad, KeptByLoadAll, KeptByInsert, RefuseEffect, QueryEffect
   DEF ProgressLoad, Prepared

LEMMA AddProgressEffect ==
  ASSUME NEW s, Prepared(s), AddProgress(s)
  PROVE  Effect(s)
BY KeptAtFirst, KeptBySet, QueryEffect, CommitEffect DEF AddProgress, Prepared

LEMMA CompleteTaskEffect ==
  ASSUME NEW s, Prepared(s), CompleteTask(s)
  PROVE  Effect(s)
BY KeptAtFirst, KeptByLoad, KeptByAdd, KeptByCompleted, KeptByPayReference,
   QueryEffect, CommitEffect
   DEF CompleteTask, Prepared

LEMMA LoadFirstEffect ==
  ASSUME NEW s, Prepared(s), LoadFirst(s)
  PROVE  Effect(s)
BY KeptAtFirst, KeptByLoad, RefuseEffect, QueryEffect DEF LoadFirst, Prepared

LEMMA VerifyNodeEffect ==
  ASSUME NEW s, Prepared(s), VerifyNode(s)
  PROVE  Effect(s)
BY KeptAtFirst, KeptBySet, RefuseEffect, CommitEffect DEF VerifyNode, Prepared

LEMMA ClaimEarningsEffect ==
  ASSUME NEW s, Prepared(s), ClaimEarnings(s)
  PROVE  Effect(s)
BY KeptAtFirst, KeptByLoad, KeptByAdd, KeptByClaimed, KeptByPayReference,
   RefuseEffect, QueryEffect, CommitEffect
   DEF ClaimEarnings, Prepared

LEMMA IssueChallengeEffect ==
  ASSUME NEW s, Prepared(s), IssueChallenge(s)
  PROVE  Effect(s)
BY KeptAtFirst, KeptBySet, KeptByInsert, EndEffect, RefuseEffect, CommitEffect
   DEF IssueChallenge, Prepared

LEMMA AnswerEffect ==
  ASSUME NEW s, Prepared(s), Answer(s)
  PROVE  Effect(s)
BY KeptAtFirst, KeptByLoad, KeptBySet, RefuseEffect, QueryEffect, CommitEffect
   DEF Answer, Prepared

LEMMA ResolveEffect ==
  ASSUME NEW s, Prepared(s), Resolve(s)
  PROVE  Effect(s)
BY KeptAtFirst, KeptByLoad, KeptByLoadAll, KeptBySet, KeptBySetEach, KeptByAdd,
   KeptByPayReference, QueryEffect, CommitEffect
   DEF Resolve, Prepared

LEMMA ProphecyLoadEffect ==
  ASSUME NEW s, Prepared(s), ProphecyLoad(s)
  PROVE  Effect(s)
BY KeptAtFirst, KeptByLoadAll, QueryEffect DEF ProphecyLoad, Prepared

LEMMA CompleteChapterEffect ==
  ASSUME NEW s, Prepared(s), CompleteChapter(s)
  PROVE  Effect(s)
BY KeptAtFirst, KeptByLoad, KeptByChapter, EndEffect, RefuseEffect, QueryEffect,
   CommitEffect
   DEF CompleteChapter, Prepared, Grant

LEMMA ClaimRewardsEffect ==
  ASSUME NEW s, Prepared(s), ClaimRewards(s)
  PROVE  Effect(s)
BY KeptAtFirst, KeptByLoad, KeptByChapter, EndEffect, RefuseEffect, QueryEffect,
   CommitEffect
   DEF ClaimRewards, Prepared, Grant

LEMMA GrantChapterEffect ==
  ASSUME NEW s, Prepared(s), GrantChapter(s)
  PROVE  Effect(s)
BY KeptAtFirst, KeptByAdd, KeptByChapter, KeptByPayReference, CommitEffect
   DEF GrantChapter, Prepared

LEMMA LoadWalletEffect ==
  ASSUME NEW s, Prepared(s), LoadWallet(s)
  PROVE  Effect(s)
BY KeptAtFirst, KeptByLoad, QueryEffect DEF LoadWallet, Prepared

LEMMA CorrectEffect ==
  ASSUME NEW s, Prepared(s), Correct(s)
  PROVE  Effect(s)
BY KeptAtFirst, KeptByAdd, KeptByInsert, EndEffect, RefuseEffect, CommitEffect
   DEF Correct, Prepared, Adjust

LEMMA StarsEffect ==
  ASSUME NEW s, Prepared(s), Stars(s)
  PROVE  Effect(s)
BY KeptAtFirst, KeptByAdd, KeptByPayReference, CommitEffect DEF Stars, Prepared

LEMMA RemitEffect ==
  ASSUME NEW s, Prepared(s), Remit(s)
  PROVE  Effect(s)
BY KeptAtFirst, KeptByAdd, KeptByReference, RefuseEffect, CommitEffect
   DEF Remit, Prepared

LEMMA ListModelEffect ==
  ASSUME NEW s, Prepared(s), ListModel(s)
  PROVE  Effect(s)
BY KeptAtFirst, KeptByAdd, KeptByInsert, RefuseEffect, QueryEffect, CommitEffect
   DEF ListModel, Prepared

LEMMA StakeInVaultEffect ==
  ASSUME NEW s, Prepared(s), StakeInVault(s)
  PROVE  Effect(s)
BY KeptAtFirst, KeptByLoad, KeptByAdd, KeptByInsert, KeptByReference, RefuseEffect,
   QueryEffect, CommitEffect
   DEF StakeInVault, Prepared

LEMMA RecordObservationEffect ==
  ASSUME NEW s, Prepared(s), RecordObservation(s)
  PROVE  Effect(s)
BY KeptAtFirst, KeptByLoad, KeptByLoadAll, KeptByInsert, KeptByResult, QueryEffect
   DEF RecordObservation, Prepared

LEMMA VerifyResultEffect ==
  ASSUME NEW s, Prepared(s), VerifyResult(s)
  PROVE  Effect(s)
BY KeptAtFirst, KeptByLoadAll, KeptByResult, KeptByCompared, QueryEffect, CommitEffect
   DEF VerifyResult, Prepared

LEMMA UpdateResultEffect ==
  ASSUME NEW s, Prepared(s), UpdateResult(s)
  PROVE  Effect(s)
BY KeptAtFirst, KeptByLoad, KeptByLoadAll, KeptByResult, QueryEffect, CommitThenEffect
   DEF UpdateResult, Prepared

LEMMA DecayEffect ==
  ASSUME NEW s, Prepared(s), Decay(s)
  PROVE  Effect(s)
BY KeptAtFirst, KeptByLoad, EndEffect, RefuseEffect, QueryEffect DEF Decay, Prepared

LEMMA LookupEffect ==
  ASSUME NEW s, Prepared(s), Lookup(s)
  PROVE  Effect(s)
BY KeptAtFirst, KeptByLoad, RefuseEffect, QueryEffect DEF Lookup, Prepared

LEMMA ProduceEffect ==
  ASSUME NEW s, Prepared(s), Produce(s)
  PROVE  Effect(s)
BY KeptAtFirst, KeptBySet, KeptByInsert, CommitEffect DEF Produce, Prepared, Produced

LEMMA RelayEffect ==
  ASSUME NEW s, Prepared(s), Relay(s)
  PROVE  Effect(s)
BY KeptAtFirst, KeptBySet, RefuseEffect, CommitEffect DEF Relay, Prepared

LEMMA CallEffect ==
  ASSUME NEW s, Prepared(s), Call(s)
  PROVE  Effect(s)
BY KeptAtFirst, KeptBySet, KeptByInsert, RefuseEffect, QueryEffect, CommitEffect
   DEF Call, Prepared, Called

LEMMA UpgradeEffect ==
  ASSUME NEW s, Prepared(s), Upgrade(s)
  PROVE  Effect(s)
BY KeptAtFirst, KeptByLoad, KeptBySet, KeptByInsert, KeptByPayRow, RefuseEffect,
   QueryEffect, CommitEffect
   DEF Upgrade, Prepared, At, Args, PaysRow

LEMMA RecordTaskEffect ==
  ASSUME NEW s, Prepared(s), RecordTask(s)
  PROVE  Effect(s)
BY KeptAtFirst, KeptBySet, KeptByInsert, CommitEffect DEF RecordTask, Prepared

(* A payment in the second half of a referral is of the one that the first *)
(* half has inserted.                                                      *)
LEMMA AddKeepsInserted ==
  ASSUME NEW k, IsSession(k), NEW r, Inserted(k, r), NEW row, NEW column, NEW n, NEW q
  PROVE  /\ Inserted(Add(k, row, column, n), r)
         /\ Inserted(Load(k, q), r)
<1> DEFINE f == Only(row, Only(column, Copy(k, row)[column] + n))
<1>1. Add(k, row, column, n) = SetEach(k, f)
  BY AddIs DEF Set
<1>. HIDE DEF f
<1>2. Inserted(SetEach(k, f), r)
  BY SetFields DEF Inserted
<1>3. r \in Known(k)
  BY DEF Inserted, Known, Exists
<1>4. Inserted(LoadAll(k, {q}), r)
  BY <1>3, LoadedFields DEF Inserted
<1>. QED
  BY <1>1, <1>2, <1>4 DEF Load

LEMMA ReferEffect ==
  ASSUME NEW s, Prepared(s), Refer(s)
  PROVE  Effect(s)
<1> DEFINE referral == <<"referral", Args(s).user>>
           k == Add(session[s], W(Args(s).user), "vit", ReferralBonus)
<1>1. CASE At(s, "refer", "second") /\ Commit(s, Pay(k, referral))
  <2>1. Kept(s, k)
    BY KeptAtFirst, KeptByAdd DEF Prepared
  <2>2. KeyOf(referral) = referral
    BY DEF KeyOf
  <2>3. Inserted(k, referral)
    BY <1>1, AddKeepsInserted
       DEF Prepared, Referring, Recorded, At, Args
  <2>. HIDE DEF k
  <2>4. Kept(s, Pay(k, referral))
    BY <2>1, <2>2, <2>3, KeptByPay
  <2>. QED
    BY <1>1, <2>4, CommitEffect
<1>2. CASE ~(At(s, "refer", "second") /\ Commit(s, Pay(k, referral)))
  BY <1>2, KeptAtFirst, KeptByLoad, KeptByAdd, KeptByInsert,
     RefuseEffect, QueryEffect DEF Refer, Prepared
<1>. QED
  BY <1>1, <1>2

LEMMA BridgeSubmitEffect ==
  ASSUME NEW s, Prepared(s), BridgeSubmit(s)
  PROVE  Effect(s)
<1> DEFINE k == session[s]
           m == [k EXCEPT !.pc = "record"]
<1>0. m = [k EXCEPT !.pc = "record"]
  OBVIOUS
<1>. HIDE DEF m
<1>1. /\ IsSession(m) /\ m.req = k.req /\ m.wrote = k.wrote /\ m.gone = k.gone
      /\ m.read = k.read /\ m.held = k.held /\ m.pays = k.pays
  BY <1>0 DEF Prepared, Recorded, IsSession
<1>2. Kept(s, m)
  BY <1>1 DEF Prepared, Kept, Recorded, Inserted, SameRequest
<1>. QED
  BY <1>2, RefuseEffect DEF BridgeSubmit, Prepared, Effect, Goes, m

LEMMA KeptByRefunded ==
  ASSUME NEW s, Recorded(session[s]), NEW n
  PROVE  Kept(s, Refunded(s, n))
<1>1. Profile(s)[1] \notin Keyed
  BY DEF Profile, Validator, Keyed
<1>. QED
  BY <1>1, KeptAtFirst, KeptByAdd, KeptByReference, KeptByPayUnkeyed DEF Refunded

LEMMA EndProfileEffect ==
  ASSUME NEW s, Prepared(s), EndProfile(s)
  PROVE  Effect(s)
<1> DEFINE S == {Profile(s)} \cup Found({r \in Rows : r[1] = "forecast"
                                                      /\ r[2][2] = Args(s).user})
<1>1. \A r \in S : r[1] \in {"validator", "forecast"}
  BY DEF Profile, Validator, Found
<1>. HIDE DEF S
<1>2. Kept(s, Delete(Refunded(s, Copy(session[s], Profile(s)).stake), S))
  BY <1>1, KeptByRefunded, KeptByDelete DEF Prepared
<1>. QED
  BY <1>2, CommitEffect DEF EndProfile, S

LEMMA SlashEffect ==
  ASSUME NEW s, Prepared(s), Slash(s)
  PROVE  Effect(s)
BY KeptAtFirst, KeptBySet, KeptByRefunded, KeptByReference, CommitEffect
   DEF Slash, Prepared

LEMMA KeptByLosersMarked ==
  ASSUME NEW s, Recorded(session[s])
  PROVE  Kept(s, LosersMarked(s))
BY KeptAtFirst, KeptBySetEach DEF LosersMarked

LEMMA KeptByPayKey ==
  ASSUME NEW s, NEW k, Kept(s, k), NEW name, NEW amount, NEW cause,
         KeyOf(cause) = Ref(name)
  PROVE  Kept(s, Pay(Reference(k, name, amount), cause))
BY KeptByReference, KeptByPay

LEMMA KeyOfStake ==
  ASSUME NEW x
  PROVE  KeyOf(<<"stake", x>>) = Ref(<<"stake", x>>)
BY DEF KeyOf

LEMMA PayNextEffect ==
  ASSUME NEW s, Prepared(s), PayNext(s)
  PROVE  Effect(s)
BY KeptByLosersMarked, KeptBySet, KeptByAdd, KeptByPayKey, KeyOfStake, QueryEffect
   DEF PayNext, Prepared

(* The rows of the requests that pay under a key made from them.           *)
LEMMA RowKeys ==
  ASSUME NEW s, Proper(session[s].req)
  PROVE  /\ session[s].req.op = "review_appeal" =>
              KeyOf(Row(s)) = Ref(<<"restake", Row(s)>>)
         /\ session[s].req.op = "postback" =>
              KeyOf(Row(s)) = Ref(<<"offer", Row(s)>>)
<1>1. /\ "review_appeal" \in DOMAIN TableOf /\ TableOf["review_appeal"] = "appeal"
      /\ "postback" \in DOMAIN TableOf /\ TableOf["postback"] = "offer_completion"
  BY DEF TableOf
<1>2. /\ session[s].req.op = "review_appeal" => Row(s)[1] = "appeal"
      /\ session[s].req.op = "postback" => Row(s)[1] = "offer_completion"
  BY <1>1 DEF Proper, Row, Args
<1>. QED
  BY <1>2 DEF KeyOf

LEMMA ReviewAppealEffect ==
  ASSUME NEW s, Prepared(s), ReviewAppeal(s)
  PROVE  Effect(s)
BY KeptAtFirst, KeptByLoad, KeptBySet, KeptByAdd, KeptByPayKey, RowKeys, RefuseEffect,
   QueryEffect, CommitEffect
   DEF ReviewAppeal, Prepared, At

LEMMA PostbackEffect ==
  ASSUME NEW s, Prepared(s), Postback(s)
  PROVE  Effect(s)
BY KeptAtFirst, KeptByLoad, KeptBySet, KeptByAdd, KeptByInsert, KeptByPayKey, RowKeys,
   EndEffect, QueryEffect, CommitEffect
   DEF Postback, Prepared, At, Args, Row

LEMMA ChapterUnkeyed ==
  ASSUME NEW x, NEW kind \in {"chapter", "user", "merit", "decay", "prediction"}
  PROVE  <<kind, x>>[1] \notin Keyed
BY DEF Keyed

LEMMA EvaluateEffect ==
  ASSUME NEW s, Prepared(s), Evaluate(s)
  PROVE  Effect(s)
BY KeptAtFirst, KeptByLoad, KeptByLoadAll, KeptByAdd, KeptByChapter, KeptByPayUnkeyed,
   ChapterUnkeyed, QueryEffect, CommitEffect
   DEF Evaluate, Prepared

LEMMA ActivateEffect ==
  ASSUME NEW s, Prepared(s), Activate(s)
  PROVE  Effect(s)
BY KeptAtFirst, KeptByLoad, KeptBySet, KeptByAdd, KeptByPayUnkeyed, ChapterUnkeyed,
   EndEffect, QueryEffect, CommitEffect, CommitThenEffect
   DEF Activate, Prepared, User

LEMMA KeptByCaused ==
  ASSUME NEW s, Recorded(session[s])
  PROVE  Kept(s, Caused(s))
<1>1. Kept(s, Awarded(s))
  BY KeptAtFirst, KeptByInsert, KeptBySet DEF Awarded
<1>. QED
  BY <1>1, KeptByPayUnkeyed, ChapterUnkeyed DEF Caused

LEMMA KeptByMerit ==
  ASSUME NEW s, NEW k, Kept(s, k), NEW user
  PROVE  Kept(s, Refreshed(k, Merit(user)))
<1>1. Merit(user)[1] \notin {"reference", "referral"}
  BY DEF Merit
<1>. QED
  BY <1>1, KeptByRefreshed

LEMMA RecordMeritEffect ==
  ASSUME NEW s, Prepared(s), RecordMerit(s)
  PROVE  Effect(s)
BY KeptAtFirst, KeptByLoad, KeptByInsert, KeptByCaused, KeptByMerit, QueryEffect,
   CommitThenEffect
   DEF RecordMerit, Prepared

LEMMA Settling ==
  ASSUME NEW s, Prepared(s), NEW pc,
         At(s, "settle_results", pc) \/ At(s, "settle_pending", pc)
  PROVE  /\ "op" \in DOMAIN session[s].req
         /\ \/ session[s].req.op = "settle_results"
            \/ session[s].req.op = "settle_pending"
BY DEF At, Prepared, Proper

LEMMA KeptWhileSettling ==
  ASSUME NEW s, Prepared(s), NEW pc,
         At(s, "settle_results", pc) \/ At(s, "settle_pending", pc),
         NEW k, Kept(s, k), NEW S, NEW b
  PROVE  Kept(s, Left(k, S)) /\ Kept(s, Turn(k, S, b))
BY Settling, KeptByLeft, KeptByTurn

LEMMA SettleLoadEffect ==
  ASSUME NEW s, Prepared(s), SettleLoad(s)
  PROVE  Effect(s)
BY KeptAtFirst, KeptByLoad, KeptByLoadAll, KeptByResult, KeptWhileSettling, EndEffect,
   QueryEffect, CommitEffect
   DEF SettleLoad, Prepared

LEMMA SettleNextEffect ==
  ASSUME NEW s, Prepared(s), SettleNext(s)
  PROVE  Effect(s)
BY KeptAtFirst, KeptByLoad, KeptBySet, KeptByResult, KeptWhileSettling,
   KeptByPayUnkeyed, ChapterUnkeyed, QueryEffect, CommitEffect, CommitThenEffect
   DEF SettleNext, Prepared

LEMMA PendingMatchEffect ==
  ASSUME NEW s, Prepared(s), PendingMatch(s)
  PROVE  Effect(s)
BY KeptAtFirst, KeptByLoad, KeptByLoadAll, KeptByResult, KeptWhileSettling, EndEffect,
   QueryEffect
   DEF PendingMatch, Prepared

LEMMA PendingNextEffect ==
  ASSUME NEW s, Prepared(s), PendingNext(s)
  PROVE  Effect(s)
BY KeptAtFirst, KeptByLoad, KeptByResult, KeptWhileSettling, RefuseEffect,
   QueryEffect, CommitEffect
   DEF PendingNext, Prepared

LEMMA WalletStepEffect ==
  ASSUME NEW s, Prepared(s), WalletStep(s)
  PROVE  Effect(s)
BY TransferLoadEffect, DebitEffect, CreditEffect, LoadOwnEffect, StakeEffect,
   UnstakeEffect, BuyOrSellEffect, SubscribeEffect, CreateVaultEffect,
   WithdrawVaultLoadEffect, WithdrawVaultEffect, WithdrawRequestEffect, ApproveEffect,
   RejectEffect, RefundEffect, GatekeepEffect, InitiateDepositEffect,
   VerifyLoadEffect, SettleEffect, WebhookLoadEffect, WebhookCreditEffect,
   FailPendingEffect, RewardLoadEffect, RewardEffect, OpenWalletEffect,
   WelcomeBonusEffect, ReferEffect
   DEF WalletStep

LEMMA ExchangeStepEffect ==
  ASSUME NEW s, Prepared(s), ExchangeStep(s)
  PROVE  Effect(s)
BY LoadRowEffect, CreateOfferEffect, CancelOfferEffect, RefundEscrowEffect,
   CreateOrderEffect, ConfirmPaymentEffect, ReleaseLoadEffect, ReleaseEffect,
   DisputeEffect
   DEF ExchangeStep

LEMMA BridgeStepEffect ==
  ASSUME NEW s, Prepared(s), BridgeStep(s)
  PROVE  Effect(s)
BY BridgeSubmitEffect, BridgeOutCheckEffect, BridgeInCheckEffect, BridgeLockEffect,
   BridgeDebitEffect, BridgeRecordEffect, BridgeCreditEffect, InitiateLoadEffect,
   InitiateEffect, ConfirmBridgeEffect, RelayedEffect
   DEF BridgeStep

LEMMA TreasuryStepEffect ==
  ASSUME NEW s, Prepared(s), TreasuryStep(s)
  PROVE  Effect(s)
BY LoadTargetEffect, PoolDepositEffect, PoolSpendEffect, ReviewGrantEffect,
   ExecuteGrantEffect, RevenueEffect, EpochRewardsEffect, CastVoteEffect,
   CloseProposalEffect, ExecuteProposalEffect
   DEF TreasuryStep

LEMMA PredictionStepEffect ==
  ASSUME NEW s, Prepared(s), PredictionStep(s)
  PROVE  Effect(s)
BY StakeLoadEffect, StakeOnEffect, SubmitResultEffect, CheckResultsEffect,
   LoadStakesEffect, LoadWalletsEffect, PayNextEffect, RecordSettlementEffect,
   GradeForecastsEffect, LoadProfileEffect, ApplyEffect, DecideEffect,
   ForbiddenEffect, EndProfileEffect, SlashEffect, SubmitForecastEffect,
   SubmitAppealEffect, ReviewAppealEffect
   DEF PredictionStep

LEMMA RewardStepEffect ==
  ASSUME NEW s, Prepared(s), RewardStep(s)
  PROVE  Effect(s)
BY ProgressLoadEffect, AddProgressEffect, CompleteTaskEffect, PostbackEffect
   DEF RewardStep

LEMMA EarningStepEffect ==
  ASSUME NEW s, Prepared(s), EarningStep(s)
  PROVE  Effect(s)
BY LoadFirstEffect, VerifyNodeEffect, ClaimEarningsEffect, IssueChallengeEffect,
   AnswerEffect, ResolveEffect, ProphecyLoadEffect, CompleteChapterEffect,
   ClaimRewardsEffect, GrantChapterEffect, ActivateEffect, LoadWalletEffect,
   CorrectEffect, StarsEffect, RemitEffect, ListModelEffect, StakeInVaultEffect
   DEF EarningStep

LEMMA ResultStepEffect ==
  ASSUME NEW s, Prepared(s), ResultStep(s)
  PROVE  Effect(s)
BY RecordObservationEffect, VerifyResultEffect, UpdateResultEffect, SettleLoadEffect,
   SettleNextEffect, EvaluateEffect
   DEF ResultStep

LEMMA MeritStepEffect ==
  ASSUME NEW s, Prepared(s), MeritStep(s)
  PROVE  Effect(s)
BY RecordMeritEffect, DecayEffect, PendingMatchEffect, PendingNextEffect DEF MeritStep

LEMMA RegistryStepEffect ==
  ASSUME NEW s, Prepared(s), RegistryStep(s)
  PROVE  Effect(s)
BY LookupEffect, ProduceEffect, RelayEffect, CallEffect, UpgradeEffect,
   RecordTaskEffect
   DEF RegistryStep

(* Every step of a request is one that its handler may make.               *)
LEMMA StepEffect ==
  ASSUME NEW s, Prepared(s), Step(s)
  PROVE  Effect(s)
BY WalletStepEffect, ExchangeStepEffect, BridgeStepEffect, TreasuryStepEffect,
   PredictionStepEffect, RewardStepEffect, EarningStepEffect, ResultStepEffect,
   MeritStepEffect, RegistryStepEffect, RefuseEffect
   DEF Step, Deadlock, Prepared

----------------------------------------------------------------------------
(* The steps, seen from the sessions                                       *)

(* What a session is after a statement.                                    *)
LEMMA AfterQuery ==
  ASSUME NEW s \in Sessions, DOMAIN session = Sessions, NEW k, Kept(s, k), NEW pc,
         Query(s, k, pc)
  PROVE  LET m == session'[s] IN
         \/ m = Closed(session[s], "refused")
         \/ /\ IsSession(m) /\ m.pc = pc
            /\ m.req = k.req /\ m.read = k.read /\ m.wrote = k.wrote /\ m.gone = k.gone
            /\ m.held = k.held \cup Touched(k) /\ m.old = k.old /\ m.pays = k.pays
<1>1. CASE End(s, "refused")
  BY <1>1 DEF End, Keep
<1>2. CASE ~End(s, "refused")
  <2> DEFINE m == [Flushed(k) EXCEPT !.pc = pc]
  <2>1. m = [[k EXCEPT !.held = @ \cup Touched(k)] EXCEPT !.pc = pc]
    BY DEF Flushed
  <2>2. Keep(s, m)
    BY <1>2 DEF Query
  <2>. HIDE DEF m
  <2>3. session'[s] = m
    BY <2>2 DEF Keep
  <2>4. /\ IsSession(m) /\ m.pc = pc
        /\ m.req = k.req /\ m.read = k.read /\ m.wrote = k.wrote /\ m.gone = k.gone
        /\ m.held = k.held \cup Touched(k) /\ m.old = k.old /\ m.pays = k.pays
    BY <2>1 DEF Kept, Recorded, IsSession
  <2>. QED
    BY <2>3, <2>4
<1>. QED
  BY <1>1, <1>2

(* What a commit makes of the rows, the payments and the sessions.         *)
Committed(s, k, pc) ==
    /\ ~Fails(k) /\ Unlocked(s, k)
    /\ table' = [r \in Rows |->
         IF r \in k.gone THEN Absent
         ELSE IF r \in DOMAIN k.wrote THEN Over(k.wrote[r], table[r])
         ELSE table[r]]
    /\ lost' = lost \cup {<<k.req.op, x[1], x[2]>> : x \in Cells(k) \cap k.old}
    /\ paid' = [c \in k.pays \cup DOMAIN paid |->
                  (IF c \in DOMAIN paid THEN paid[c] ELSE 0)
                  + (IF c \in k.pays THEN 1 ELSE 0)]
    /\ session' = [u \in Sessions |->
         IF u = s
         THEN IF pc = "done" THEN Closed(k, pc)
              ELSE [Continued(k) EXCEPT !.pc = pc]
         ELSE [session[u] EXCEPT !.old = @ \cup
                 {x \in Cells(k) : x[1] \in DOMAIN session[u].read}]]
    /\ UNCHANGED faults

LEMMA CommitIs ==
  ASSUME NEW s, NEW k, NEW pc, CommitThen(s, k, pc)
  PROVE  End(s, "refused") \/ Committed(s, k, pc)
BY DEF CommitThen, Committed

LEMMA ContinuedIs ==
  ASSUME NEW k, NEW pc
  PROVE  LET m == [Continued(k) EXCEPT !.pc = pc] IN
         /\ IsSession(m) /\ m.req = k.req /\ m.pc = pc /\ m.wrote = <<>>
         /\ m.read = [r \in DOMAIN k.read |-> Copy(k, r)]
         /\ m.gone = {} /\ m.held = {} /\ m.old = k.old \ Cells(k) /\ m.pays = {}
<1> DEFINE copies == [r \in DOMAIN k.read |-> Copy(k, r)]
           rest == k.old \ Cells(k)
           l == Opened(k.req)
           m == [Continued(k) EXCEPT !.pc = pc]
<1>1. m = [[[l EXCEPT !.read = copies] EXCEPT !.old = rest] EXCEPT !.pc = pc]
  BY DEF Continued, Opened
<1>2. /\ IsSession(l) /\ l.req = k.req /\ l.wrote = <<>>
      /\ l.gone = {} /\ l.held = {} /\ l.pays = {}
  BY DEF Opened, IsSession
<1>. HIDE DEF copies, rest, l, m
<1>3. /\ IsSession(m) /\ m.req = l.req /\ m.pc = pc /\ m.wrote = l.wrote
      /\ m.read = copies
      /\ m.gone = l.gone /\ m.held = l.held /\ m.old = rest /\ m.pays = l.pays
  BY <1>1, <1>2 DEF IsSession
<1>. QED
  BY <1>2, <1>3 DEF copies, rest, m

(* The session that commits, and the others.                               *)
LEMMA AfterCommit ==
  ASSUME NEW s \in Sessions, NEW k, NEW pc, Committed(s, k, pc)
  PROVE  LET m == session'[s] IN
         /\ DOMAIN session' = Sessions
         /\ IsSession(m) /\ m.req = k.req /\ m.pc = pc
         /\ m.wrote = <<>> /\ m.gone = {} /\ m.held = {} /\ m.pays = {}
         /\ m.old \subseteq k.old
         /\ DOMAIN m.read \subseteq DOMAIN k.read
<1> DEFINE m == session'[s]
<1>0. DOMAIN session' = Sessions
  BY DEF Committed
<1>1. CASE pc = "done"
  <2>1. m = Closed(k, pc)
    BY <1>1 DEF Committed
  <2>. QED
    BY <1>0, <2>1, ClosedIs
<1>2. CASE pc # "done"
  <2> DEFINE n == [Continued(k) EXCEPT !.pc = pc]
  <2>1. m = n
    BY <1>2 DEF Committed
  <2>2. /\ IsSession(n) /\ n.req = k.req /\ n.pc = pc /\ n.wrote = <<>>
        /\ n.read = [r \in DOMAIN k.read |-> Copy(k, r)]
        /\ n.gone = {} /\ n.held = {} /\ n.old = k.old \ Cells(k) /\ n.pays = {}
    BY ContinuedIs
  <2>. HIDE DEF n
  <2>. QED
    BY <1>0, <2>1, <2>2
<1>. QED
  BY <1>1, <1>2

LEMMA OtherCommit ==
  ASSUME NEW s \in Sessions, NEW k, NEW pc, Committed(s, k, pc),
         NEW u \in Sessions \ {s}, IsSession(session[u])
  PROVE  LET m == session'[u] IN
         /\ IsSession(m) /\ m.req = session[u].req /\ m.pc = session[u].pc
         /\ m.wrote = session[u].wrote /\ m.read = session[u].read
         /\ m.gone = session[u].gone /\ m.held = session[u].held
         /\ m.pays = session[u].pays
         /\ m.old = session[u].old \cup
              {x \in Cells(k) : x[1] \in DOMAIN session[u].read}
<1> DEFINE l == session[u]
           x == {z \in Cells(k) : z[1] \in DOMAIN session[u].read}
           m == session'[u]
<1>1. m = [l EXCEPT !.old = @ \cup x]
  BY DEF Committed
<1>. HIDE DEF l, m, x
<1>2. /\ IsSession(m) /\ m.req = l.req /\ m.pc = l.pc /\ m.wrote = l.wrote
      /\ m.read = l.read /\ m.gone = l.gone /\ m.held = l.held /\ m.pays = l.pays
      /\ m.old = l.old \cup x
  BY <1>1 DEF IsSession, l
<1>. QED
  BY <1>2 DEF l, x, m

----------------------------------------------------------------------------
(* A referral has its row while it pays                                    *)

LEMMA OnlyRefers ==
  ASSUME NEW s, session[s].req.op = "refer", Step(s)
  PROVE  Refer(s) \/ Refuse(s)
BY DEF Step, WalletStep, ExchangeStep, BridgeStep, TreasuryStep, PredictionStep,
       RewardStep, EarningStep, ResultStep, MeritStep, RegistryStep, Deadlock,
       Args, At, ExchangeRequests, BridgeRequests, TreasuryRequests,
       PredictionRequests, RewardRequests, EarningRequests,
       TransferLoad, Debit, Credit, LoadOwn, Stake, Unstake, BuyOrSell, Subscribe,
       CreateVault, WithdrawVaultLoad, WithdrawVault, WithdrawRequest, Approve,
       Reject, Refund, Gatekeep, InitiateDeposit, VerifyLoad, Settle, WebhookLoad,
       WebhookCredit, FailPending, RewardLoad, Reward, OpenWallet, WelcomeBonus,
       Lookup, Produce, Relay, Call, Upgrade, RecordTask

LEMMA ReferSteps ==
  ASSUME NEW s \in Sessions, DOMAIN session = Sessions, Prepared(s), Refer(s)
  PROVE  Referring(session'[s])
<1> DEFINE a == Args(s)
           referral == <<"referral", a.user>>
           m == session'[s]
<1>0. IsSession(session[s]) /\ Kept(s, session[s]) /\ session[s].req = a
  BY KeptAtFirst DEF Prepared, Recorded, Args
<1>1. CASE End(s, "refused")
  <2>1. m.pc = "refused"
    BY <1>1, ClosedIs DEF End, Keep
  <2>. QED
    BY <2>1 DEF Referring
<1>2. CASE At(s, "refer", "start") /\ Query(s, session[s], "code")
  <2>1. m.pc \in {"refused", "code"}
    BY <1>0, <1>2, AfterQuery, ClosedIs
  <2>. QED
    BY <2>1 DEF Referring
<1>3. CASE /\ At(s, "refer", "code")
           /\ Query(s, Load(Insert(session[s], referral, [referrer |-> a.to]),
                            W(a.to)), "first")
  <2> DEFINE i == Insert(session[s], referral, [referrer |-> a.to])
             k == Load(i, W(a.to))
  <2>1. Kept(s, i) /\ Inserted(i, referral)
    BY <1>0, KeptByInsert, Inserts
  <2>. HIDE DEF i
  <2>2. IsSession(i) /\ i.req.op = "refer"
    BY <1>0, <1>3, <2>1 DEF Kept, Recorded, SameRequest, At, Args
  <2>3. Kept(s, k) /\ Inserted(k, referral)
    BY <2>1, <2>2, KeptByLoad, AddKeepsInserted
  <2>. HIDE DEF k
  <2>4. k.req = a
    BY <1>3, <2>3 DEF Kept, SameRequest, At, Args
  <2>5. \/ m.pc = "refused"
        \/ m.req = a /\ m.read = k.read /\ m.wrote = k.wrote
    BY <1>3, <2>3, <2>4, AfterQuery, ClosedIs DEF i, k
  <2>. QED
    BY <2>3, <2>5 DEF Referring, Inserted
<1>4. CASE /\ At(s, "refer", "first")
           /\ Query(s, Load(Add(session[s], W(a.to), "vit", ReferralBonus), W(a.user)),
                    "second")
  <2> DEFINE i == Add(session[s], W(a.to), "vit", ReferralBonus)
             k == Load(i, W(a.user))
  <2>0. Inserted(session[s], referral)
    BY <1>0, <1>4 DEF Prepared, Referring, At, Args
  <2>1. Kept(s, i) /\ Inserted(i, referral)
    BY <1>0, <2>0, KeptByAdd, AddKeepsInserted
  <2>. HIDE DEF i
  <2>2. IsSession(i)
    BY <2>1 DEF Kept, Recorded
  <2>3. Kept(s, k) /\ Inserted(k, referral)
    BY <2>1, <2>2, KeptByLoad, AddKeepsInserted
  <2>. HIDE DEF k
  <2>4. k.req = a
    BY <1>4, <2>3 DEF Kept, SameRequest, At, Args
  <2>5. \/ m.pc = "refused"
        \/ m.req = a /\ m.read = k.read /\ m.wrote = k.wrote
    BY <1>4, <2>3, <2>4, AfterQuery, ClosedIs DEF i, k
  <2>. QED
    BY <2>3, <2>5 DEF Referring, Inserted
<1>5. CASE \E k : Commit(s, k)
  <2>1. PICK k : CommitThen(s, k, "done")
    BY <1>5 DEF Commit
  <2>2. CASE End(s, "refused")
    BY <1>1, <2>2
  <2>3. CASE Committed(s, k, "done")
    <3>1. m.pc = "done"
      BY <2>3, AfterCommit
    <3>. QED
      BY <3>1 DEF Referring
  <2>. QED
    BY <2>1, <2>2, <2>3, CommitIs
<1>. QED
  BY <1>1, <1>2, <1>3, <1>4, <1>5 DEF Refer, Refuse

LEMMA ReferringKept ==
  ASSUME NEW s \in Sessions, DOMAIN session = Sessions, Prepared(s), Step(s),
         session'[s].req.op = session[s].req.op
  PROVE  Referring(session'[s])
<1>1. CASE session[s].req.op # "refer"
  BY <1>1 DEF Referring
<1>2. CASE Refer(s)
  BY <1>2, ReferSteps
<1>3. CASE Refuse(s)
  <2>1. session'[s].pc = "refused"
    BY <1>3, ClosedIs DEF Refuse, End, Keep
  <2>. QED
    BY <2>1 DEF Referring
<1>. QED
  BY <1>1, <1>2, <1>3, OnlyRefers

----------------------------------------------------------------------------
(* The locks, and what is paid under a key                                 *)

(* What has been paid under a key has left its row.                        *)
KeyedKept ==
    \A c \in DOMAIN paid : c[1] \in Keyed /\ KeyOf(c) \in Rows =>
      paid[c] = 1 /\ table[KeyOf(c)] # Absent

SessionsInv ==
    /\ DOMAIN session = Sessions
    /\ \A s \in Sessions : Prepared(s)
    /\ LocksExclude
    /\ KeyedKept

LEMMA OpenedIs ==
  ASSUME NEW q
  PROVE  /\ IsSession(Opened(q)) /\ Opened(q).req = q /\ Opened(q).pc = "start"
         /\ Opened(q).wrote = <<>> /\ Opened(q).read = <<>> /\ Opened(q).gone = {}
         /\ Opened(q).held = {} /\ Opened(q).old = {} /\ Opened(q).pays = {}
BY DEF Opened, IsSession

LEMMA SessionsInvInit ==
  ASSUME Init
  PROVE  SessionsInv
<1>1. PICK script \in Scripts : session = [s \in Sessions |-> Opened(script[s])]
  BY DEF Init, Start
<1>2. ASSUME NEW s \in Sessions PROVE Prepared(s) /\ session[s].held = {}
  <2>1. session[s] = Opened(script[s]) /\ Proper(script[s])
    BY <1>1, Requests
  <2>2. /\ IsSession(session[s]) /\ session[s].req = script[s]
        /\ session[s].pc = "start" /\ session[s].wrote = <<>>
        /\ session[s].gone = {} /\ session[s].held = {} /\ session[s].pays = {}
    BY <2>1, OpenedIs
  <2>. QED
    BY <2>1, <2>2 DEF Prepared, Recorded, Referring
<1>3. KeyedKept
  BY DEF Init, KeyedKept
<1>. QED
  BY <1>1, <1>2, <1>3 DEF SessionsInv, LocksExclude

LEMMA ProperKept ==
  ASSUME NEW s, Prepared(s), NEW k, Kept(s, k)
  PROVE  Recorded(k) /\ Proper(k.req) /\ k.req.op = session[s].req.op
<1>1. \A op \in {"settle_results", "settle_pending"} :
        op \notin DOMAIN TableOf /\ op # "wallet_to_chain"
  BY DEF TableOf
<1>. QED
  BY <1>1 DEF Prepared, Kept, SameRequest, Proper

LEMMA LocksKeptByGoing ==
  ASSUME NEW s \in Sessions, DOMAIN session = Sessions, LocksExclude,
         NEW k, Kept(s, k), Keep(s, k)
  PROVE  LocksExclude'
<1>1. \A u \in Sessions : session'[u].held = IF u = s THEN k.held ELSE session[u].held
  BY DEF Keep
<1>2. \A u \in Sessions \ {s} : k.held \cap session[u].held = {}
  BY DEF Kept, LocksExclude
<1>. QED
  BY <1>1, <1>2 DEF LocksExclude

LEMMA LocksKeptByCommit ==
  ASSUME NEW s \in Sessions, LocksExclude, \A u \in Sessions : Prepared(u),
         NEW k, NEW pc, Committed(s, k, pc)
  PROVE  LocksExclude'
<1>1. session'[s].held = {}
  BY AfterCommit
<1>2. ASSUME NEW u \in Sessions \ {s} PROVE session'[u].held = session[u].held
  BY <1>2, OtherCommit DEF Prepared, Recorded
<1>. QED
  BY <1>1, <1>2 DEF LocksExclude

LEMMA KeyedKeptByCommit ==
  ASSUME KeyedKept, NEW s, NEW k, NEW pc, Recorded(k), Committed(s, k, pc)
  PROVE  KeyedKept'
<1>1. SUFFICES ASSUME NEW c \in DOMAIN paid', c[1] \in Keyed, KeyOf(c) \in Rows
               PROVE  paid'[c] = 1 /\ table'[KeyOf(c)] # Absent
  BY DEF KeyedKept
<1> DEFINE r == KeyOf(c)
<1>2. r[1] \in {"reference", "referral"}
  BY <1>1, KeyIsReference
<1>3. r \notin k.gone
  BY <1>2 DEF Recorded
<1>4. r \in DOMAIN k.wrote => table'[r] # Absent
  <2> DEFINE f == k.wrote[r]
             g == table[r]
  <2>. SUFFICES ASSUME r \in DOMAIN k.wrote PROVE table'[r] # Absent
    OBVIOUS
  <2>1. DOMAIN f # {}
    BY DEF Recorded
  <2>2. table'[r] = Over(f, g)
    BY <1>1, <1>3 DEF Committed
  <2>. HIDE DEF f, g
  <2>3. DOMAIN Over(f, g) = DOMAIN f \cup DOMAIN g
    BY OverIs
  <2>. QED
    BY <2>1, <2>2, <2>3 DEF Absent
<1>5. CASE c \in k.pays
  <2>1. r \in DOMAIN k.wrote /\ k.read[r] = Absent
    BY <1>1, <1>5 DEF Recorded, Inserted
  <2>2. table[r] = Absent
    BY <2>1 DEF Committed, Fails
  <2>3. c \notin DOMAIN paid
    BY <1>1, <2>2 DEF KeyedKept
  <2>. QED
    BY <1>4, <1>5, <2>1, <2>3 DEF Committed
<1>6. CASE c \notin k.pays
  <2>1. c \in DOMAIN paid
    BY <1>1, <1>6 DEF Committed
  <2>2. paid[c] = 1 /\ table[r] # Absent
    BY <1>1, <2>1 DEF KeyedKept
  <2>3. paid'[c] = 1
    BY <1>6, <2>1, <2>2 DEF Committed
  <2>4. r \notin DOMAIN k.wrote => table'[r] = table[r]
    BY <1>1, <1>3 DEF Committed
  <2>. QED
    BY <1>4, <2>2, <2>3, <2>4
<1>. QED
  BY <1>5, <1>6

LEMMA SessionsInvNext ==
  ASSUME SessionsInv, [Next]_vars
  PROVE  SessionsInv'
<1>1. ASSUME NEW s \in Sessions, NEW k, Kept(s, k), Keep(s, k), UNCHANGED store,
             Referring(k)
      PROVE  SessionsInv'
  <2>1. LocksExclude'
    BY <1>1, LocksKeptByGoing DEF SessionsInv
  <2>2. KeyedKept'
    BY <1>1 DEF SessionsInv, KeyedKept, store
  <2>3. DOMAIN session' = Sessions
    BY <1>1 DEF Keep, SessionsInv
  <2>4. ASSUME NEW u \in Sessions PROVE Prepared(u)'
    <3>1. CASE u = s
      <4>1. session'[u] = k
        BY <1>1, <3>1 DEF Keep, SessionsInv
      <4>2. Recorded(k) /\ Proper(k.req)
        BY <1>1, ProperKept DEF SessionsInv
      <4>. QED
        BY <1>1, <4>1, <4>2 DEF Prepared
    <3>2. CASE u # s
      <4>1. session'[u] = session[u]
        BY <1>1, <3>2 DEF Keep, SessionsInv
      <4>. QED
        BY <4>1 DEF Prepared, SessionsInv
    <3>. QED
      BY <3>1, <3>2
  <2>. QED
    BY <2>1, <2>2, <2>3, <2>4 DEF SessionsInv
<1>2. ASSUME NEW s \in Sessions, NEW how, Keep(s, Closed(session[s], how)),
             UNCHANGED store, how \in {"refused", "lost"}
      PROVE  SessionsInv'
  <2> DEFINE k == Closed(session[s], how)
  <2>1. Kept(s, k) /\ k.pc = how
    BY <1>2, KeptAtFirst, KeptByClosing, ClosedIs DEF SessionsInv, Prepared
  <2>2. Referring(k)
    BY <1>2, <2>1 DEF Referring
  <2>. HIDE DEF k
  <2>. QED
    BY <1>1, <1>2, <2>1, <2>2 DEF k
<1>3. ASSUME NEW s \in Sessions, Step(s) PROVE SessionsInv'
  <2>0. Prepared(s) /\ DOMAIN session = Sessions
    BY <1>3 DEF SessionsInv
  <2>1. CASE Goes(s)
    <3>1. PICK k : Kept(s, k) /\ Keep(s, k) /\ UNCHANGED <<store, faults>>
      BY <2>1 DEF Goes
    <3>2. session'[s] = k
      BY <2>0, <3>1 DEF Keep
    <3>3. k.req.op = session[s].req.op
      BY <2>0, <3>1, ProperKept
    <3>4. Referring(k)
      BY <1>3, <2>0, <3>2, <3>3, ReferringKept
    <3>. QED
      BY <1>1, <1>3, <3>1, <3>4
  <2>2. CASE Commits(s)
    <3>1. PICK k, pc : Kept(s, k) /\ CommitThen(s, k, pc)
      BY <2>2 DEF Commits
    <3>2. CASE End(s, "refused")
      BY <1>2, <1>3, <3>2 DEF End
    <3>3. CASE Committed(s, k, pc)
      <4> DEFINE m == session'[s]
      <4>1. Recorded(k) /\ Proper(k.req) /\ k.req.op = session[s].req.op
        BY <2>0, <3>1, ProperKept
      <4>2. /\ DOMAIN session' = Sessions
            /\ IsSession(m) /\ m.req = k.req /\ m.wrote = <<>>
            /\ m.gone = {} /\ m.pays = {}
        BY <3>3, AfterCommit
      <4>3. Referring(m)
        BY <1>3, <2>0, <4>1, <4>2, ReferringKept
      <4>. HIDE DEF m
      <4>4. Recorded(m) /\ Proper(m.req)
        BY <4>1, <4>2 DEF Recorded
      <4>5. ASSUME NEW u \in Sessions PROVE Prepared(u)'
        <5>1. CASE u = s
          BY <4>3, <4>4, <5>1 DEF Prepared, m
        <5>2. CASE u # s
          <6>1. LET n == session'[u] IN
                /\ IsSession(n) /\ n.req = session[u].req /\ n.pc = session[u].pc
                /\ n.wrote = session[u].wrote /\ n.read = session[u].read
                /\ n.gone = session[u].gone /\ n.pays = session[u].pays
            BY <1>3, <3>3, <5>2, OtherCommit DEF SessionsInv, Prepared, Recorded
          <6>. QED
            BY <6>1 DEF Prepared, Recorded, Referring, Inserted, SessionsInv
        <5>. QED
          BY <5>1, <5>2
      <4>6. LocksExclude'
        BY <1>3, <3>3, LocksKeptByCommit DEF SessionsInv
      <4>7. KeyedKept'
        BY <3>3, <4>1, KeyedKeptByCommit DEF SessionsInv
      <4>. QED
        BY <4>2, <4>5, <4>6, <4>7 DEF SessionsInv
    <3>. QED
      BY <3>1, <3>2, <3>3, CommitIs
  <2>. QED
    BY <1>3, <2>0, <2>1, <2>2, StepEffect DEF Effect
<1>4. ASSUME NEW s \in Sessions, SessionLost(s) PROVE SessionsInv'
  BY <1>2, <1>4 DEF SessionLost
<1>5. CASE UNCHANGED vars
  BY <1>5 DEF vars, SessionsInv, Prepared, LocksExclude, KeyedKept
<1>. QED
  BY <1>3, <1>4, <1>5 DEF Next

(* Whatever requests overlap, each session is what its handler has made of *)
(* it: rows are locked by one session, and a payment under a key goes with *)
(* the insertion of its row (the unique keys of references and votes).     *)
THEOREM SessionsInvAlways == Spec => []SessionsInv
BY SessionsInvInit, SessionsInvNext, PTL DEF Spec

(* Two requests never hold one row, whatever requests there are.           *)
THEOREM LocksExcludeAlways == Spec => []LocksExclude
<1>1. SessionsInv => LocksExclude
  BY DEF SessionsInv
<1>. QED
  BY <1>1, SessionsInvAlways, PTL

(* What is paid with a row inserted under a key is paid once.              *)
THEOREM KeyedOnceAlways == Spec => []KeyedOnce
<1>1. SessionsInv => KeyedOnce
  BY DEF SessionsInv, KeyedKept, KeyedOnce
<1>. QED
  BY <1>1, SessionsInvAlways, PTL

----------------------------------------------------------------------------
(* The handlers that lock a wallet before they read it                     *)

LockingOps == {"wallet_to_chain", "chain_to_wallet", "stake_on", "apply", "slash",
               "reject_validator", "leave"}

LockingPcs == {"start", "lock", "locked", "submit", "record", "consensus", "open",
               "wallet", "apply", "profile", "refund", "done", "refused", "lost"}

(* The wallets read are held.                                              *)
Guarded(k) ==
    /\ IsSession(k)
    /\ \A r \in DOMAIN k.read : r[1] = "wallet" => r \in k.held

(* What such a handler makes of its session before a statement.            *)
Safe(s, k) ==
    Guarded(k) /\ k.req = session[s].req /\ k.old \subseteq session[s].old

LEMMA SafeAtFirst ==
  ASSUME NEW s, Guarded(session[s])
  PROVE  Safe(s, session[s])
BY DEF Safe

LEMMA SafeByLoadAll ==
  ASSUME NEW s, NEW k, Safe(s, k), NEW S, \A r \in S : r[1] # "wallet"
  PROVE  Safe(s, LoadAll(k, S))
BY LoadedFields DEF Safe, Guarded

LEMMA SafeByLoad ==
  ASSUME NEW s, NEW k, Safe(s, k), NEW r, r[1] # "wallet"
  PROVE  Safe(s, Load(k, r))
BY SafeByLoadAll DEF Load

LEMMA SafeBySet ==
  ASSUME NEW s, NEW k, Safe(s, k), NEW r, NEW columns
  PROVE  Safe(s, Set(k, r, columns))
BY SetFields DEF Safe, Guarded, Set

LEMMA SafeByAdd ==
  ASSUME NEW s, NEW k, Safe(s, k), NEW r, NEW column, NEW n
  PROVE  Safe(s, Add(k, r, column, n))
BY SafeBySet, AddIs

LEMMA SafeByInsert ==
  ASSUME NEW s, NEW k, Safe(s, k), NEW r, r[1] # "wallet", NEW columns
  PROVE  Safe(s, Insert(k, r, columns))
<1> DEFINE x == Only(r, Absent)
           y == k.read
           m == [k EXCEPT !.read = Over(x, @)]
<1>1. DOMAIN x = {r}
  BY OnlyIs
<1>2. m = [k EXCEPT !.read = Over(x, @)]
  OBVIOUS
<1>. HIDE DEF x, m
<1>3. /\ IsSession(m) /\ m.req = k.req /\ m.held = k.held /\ m.old = k.old
      /\ m.read = Over(x, y)
  BY <1>2 DEF Safe, Guarded, IsSession
<1>. HIDE DEF y
<1>a. DOMAIN Over(x, y) = DOMAIN x \cup DOMAIN y
  BY OverIs
<1>4. DOMAIN Over(x, y) = {r} \cup DOMAIN y
  BY <1>1, <1>a
<1>5. Safe(s, m)
  BY <1>3, <1>4 DEF Safe, Guarded, y
<1>. QED
  BY <1>5, SafeBySet DEF Insert, m, x

LEMMA SafeByReference ==
  ASSUME NEW s, NEW k, Safe(s, k), NEW name, NEW amount
  PROVE  Safe(s, Reference(k, name, amount))
BY SafeByInsert DEF Reference, Ref

LEMMA SafeByPay ==
  ASSUME NEW s, NEW k, Safe(s, k), NEW cause
  PROVE  Safe(s, Pay(k, cause))
<1> DEFINE m == Pay(k, cause)
<1>1. m = [k EXCEPT !.pays = @ \cup {cause}]
  BY DEF Pay
<1>. HIDE DEF m
<1>2. /\ IsSession(m) /\ m.req = k.req /\ m.held = k.held /\ m.old = k.old
      /\ m.read = k.read
  BY <1>1 DEF Safe, Guarded, IsSession
<1>. QED
  BY <1>2 DEF Safe, Guarded, m

LEMMA SafeByDelete ==
  ASSUME NEW s, NEW k, Safe(s, k), NEW S, \A r \in S : r[1] # "wallet"
  PROVE  Safe(s, Delete(k, S))
<1> DEFINE l == LoadAll(k, S)
           m == Delete(k, S)
<1>1. Safe(s, l)
  BY SafeByLoadAll
<1>. HIDE DEF l
<1>2. m = [l EXCEPT !.gone = @ \cup S]
  BY DEF Delete, l
<1>. HIDE DEF m
<1>3. /\ IsSession(m) /\ m.req = l.req /\ m.held = l.held /\ m.old = l.old
      /\ m.read = l.read
  BY <1>1, <1>2 DEF Safe, Guarded, IsSession
<1>. QED
  BY <1>1, <1>3 DEF Safe, Guarded, m

(* A wallet that is read with a lock.                                      *)
LEMMA SafeByHold ==
  ASSUME NEW s, NEW k, Safe(s, k), NEW r
  PROVE  Safe(s, [Load(k, r) EXCEPT !.held = @ \cup {r}])
<1> DEFINE l == Load(k, r)
           m == [l EXCEPT !.held = @ \cup {r}]
<1>1. /\ IsSession(l) /\ l.req = k.req /\ l.held = k.held /\ l.old = k.old
      /\ DOMAIN l.read \subseteq {r} \cup DOMAIN k.read
  BY LoadedFields DEF Load, Safe, Guarded
<1>2. m = [l EXCEPT !.held = @ \cup {r}]
  OBVIOUS
<1>. HIDE DEF l, m
<1>3. /\ IsSession(m) /\ m.req = l.req /\ m.held = l.held \cup {r} /\ m.old = l.old
      /\ m.read = l.read
  BY <1>1, <1>2 DEF IsSession
<1>4. Safe(s, m)
  BY <1>1, <1>3 DEF Safe, Guarded
<1>. QED
  BY <1>4 DEF m, l

(* A step of such a handler: the commit is its last.                       *)
SafeStep(s) ==
    \/ \E k : Safe(s, k) /\ k.pc \in LockingPcs /\ Keep(s, k) /\ UNCHANGED <<store, faults>>
    \/ \E k : Safe(s, k) /\ Commit(s, k)

LEMMA SafeEnd ==
  ASSUME NEW s, NEW how \in {"done", "refused"}, End(s, how)
  PROVE  SafeStep(s)
<1> DEFINE k == Closed(session[s], how)
<1>1. /\ IsSession(k) /\ k.req = session[s].req /\ k.pc = how
      /\ k.read = <<>> /\ k.held = {} /\ k.old = {}
  BY ClosedIs
<1>2. Keep(s, k) /\ UNCHANGED <<store, faults>>
  BY DEF End
<1>. HIDE DEF k
<1>3. Safe(s, k) /\ k.pc \in LockingPcs
  BY <1>1 DEF Safe, Guarded, LockingPcs
<1>. QED
  BY <1>2, <1>3 DEF SafeStep

LEMMA SafeRefuse ==
  ASSUME NEW s, Refuse(s)
  PROVE  SafeStep(s)
BY SafeEnd DEF Refuse

LEMMA SafeQuery ==
  ASSUME NEW s, NEW k, Safe(s, k), NEW pc \in LockingPcs, Query(s, k, pc)
  PROVE  SafeStep(s)
<1>1. CASE End(s, "refused")
  BY <1>1, SafeEnd
<1>2. CASE ~End(s, "refused")
  <2> DEFINE m == [Flushed(k) EXCEPT !.pc = pc]
  <2>1. m = [[k EXCEPT !.held = @ \cup Touched(k)] EXCEPT !.pc = pc]
    BY DEF Flushed
  <2>2. Keep(s, m) /\ UNCHANGED <<store, faults>>
    BY <1>2 DEF Query
  <2>. HIDE DEF m
  <2>3. /\ IsSession(m) /\ m.pc = pc /\ m.req = k.req
        /\ m.read = k.read /\ m.held = k.held \cup Touched(k) /\ m.old = k.old
    BY <2>1 DEF Safe, Guarded, IsSession
  <2>4. Safe(s, m)
    BY <2>3 DEF Safe, Guarded
  <2>. QED
    BY <2>2, <2>3, <2>4 DEF SafeStep
<1>. QED
  BY <1>1, <1>2

LEMMA SafeQueryForUpdate ==
  ASSUME NEW s, NEW k, Safe(s, k), NEW r, NEW pc \in LockingPcs,
         QueryForUpdate(s, k, r, pc)
  PROVE  SafeStep(s)
BY SafeByHold, SafeQuery DEF QueryForUpdate

LEMMA SafeCommit ==
  ASSUME NEW s, NEW k, Safe(s, k), Commit(s, k)
  PROVE  SafeStep(s)
BY DEF SafeStep

(* What these handlers do, one statement at a time.                        *)
LEMMA OnlyLocking ==
  ASSUME NEW s, session[s].req.op \in LockingOps, session[s].pc \in LockingPcs, Step(s)
  PROVE  \/ BridgeOutCheck(s) \/ BridgeInCheck(s) \/ BridgeLock(s) \/ BridgeDebit(s)
         \/ BridgeSubmit(s) \/ BridgeRecord(s) \/ BridgeCredit(s)
         \/ StakeLoad(s) \/ StakeOn(s) \/ LoadProfile(s) \/ Apply(s) \/ Decide(s)
         \/ EndProfile(s) \/ Slash(s) \/ Refuse(s)
BY DEF LockingOps, LockingPcs, Step, WalletStep, ExchangeStep, BridgeStep, TreasuryStep,
       PredictionStep, RewardStep, EarningStep, ResultStep, MeritStep, RegistryStep,
       Deadlock, Args, At, WalletRequests, ExchangeRequests, TreasuryRequests,
       RewardRequests, EarningRequests, InitiateLoad, Initiate, ConfirmBridge, Relayed,
       SubmitResult, CheckResults, LoadStakes, LoadWallets, PayNext, RecordSettlement,
       GradeForecasts, Forbidden, SubmitForecast, SubmitAppeal, ReviewAppeal,
       Lookup, Produce, Relay, Call, Upgrade, RecordTask

LEMMA BridgeOutCheckSafe ==
  ASSUME NEW s, Guarded(session[s]), BridgeOutCheck(s)
  PROVE  SafeStep(s)
BY SafeAtFirst, SafeByLoad, SafeBySet, SafeByAdd, SafeByInsert, SafeByReference,
   SafeByPay,
   SafeEnd, SafeRefuse, SafeQuery, SafeQueryForUpdate, SafeCommit DEF BridgeOutCheck, LockingPcs

LEMMA BridgeInCheckSafe ==
  ASSUME NEW s, Guarded(session[s]), BridgeInCheck(s)
  PROVE  SafeStep(s)
BY SafeAtFirst, SafeByLoad, SafeBySet, SafeByAdd, SafeByInsert, SafeByReference,
   SafeByPay,
   SafeEnd, SafeRefuse, SafeQuery, SafeQueryForUpdate, SafeCommit DEF BridgeInCheck, LockingPcs

LEMMA BridgeLockSafe ==
  ASSUME NEW s, Guarded(session[s]), BridgeLock(s)
  PROVE  SafeStep(s)
BY SafeAtFirst, SafeByLoad, SafeBySet, SafeByAdd, SafeByInsert, SafeByReference,
   SafeByPay,
   SafeEnd, SafeRefuse, SafeQuery, SafeQueryForUpdate, SafeCommit DEF BridgeLock, LockingPcs

LEMMA BridgeDebitSafe ==
  ASSUME NEW s, Guarded(session[s]), BridgeDebit(s)
  PROVE  SafeStep(s)
BY SafeAtFirst, SafeByLoad, SafeBySet, SafeByAdd, SafeByInsert, SafeByReference,
   SafeByPay,
   SafeEnd, SafeRefuse, SafeQuery, SafeQueryForUpdate, SafeCommit DEF BridgeDebit, LockingPcs

LEMMA BridgeRecordSafe ==
  ASSUME NEW s, Guarded(session[s]), BridgeRecord(s)
  PROVE  SafeStep(s)
BY SafeAtFirst, SafeByInsert, SafeCommit DEF BridgeRecord, LockingPcs, OutRef, Ref

LEMMA BridgeCreditSafe ==
  ASSUME NEW s, Guarded(session[s]), BridgeCredit(s)
  PROVE  SafeStep(s)
BY SafeAtFirst, SafeByLoad, SafeBySet, SafeByAdd, SafeByInsert, SafeByReference,
   SafeByPay,
   SafeEnd, SafeRefuse, SafeQuery, SafeQueryForUpdate, SafeCommit DEF BridgeCredit, LockingPcs

LEMMA BridgeSubmitSafe ==
  ASSUME NEW s, Guarded(session[s]), BridgeSubmit(s)
  PROVE  SafeStep(s)
<1> DEFINE k == session[s]
           m == [k EXCEPT !.pc = "record"]
<1>0. m = [k EXCEPT !.pc = "record"]
  OBVIOUS
<1>. HIDE DEF m
<1>1. /\ IsSession(m) /\ m.req = k.req /\ m.read = k.read /\ m.held = k.held
      /\ m.old = k.old /\ m.pc = "record"
  BY <1>0 DEF Guarded, IsSession
<1>2. Safe(s, m) /\ m.pc \in LockingPcs
  BY <1>1 DEF Guarded, Safe, LockingPcs
<1>. QED
  BY <1>2, SafeRefuse DEF BridgeSubmit, SafeStep, m

LEMMA SafeByOpenConsensus ==
  ASSUME NEW s, NEW k, Safe(s, k)
  PROVE  Safe(s, OpenConsensus(k, Cp(s)))
<1>1. Cp(s)[1] # "wallet"
  BY DEF Cp
<1>. QED
  BY <1>1, SafeByLoad, SafeByInsert DEF OpenConsensus

LEMMA KindsOfRows ==
  ASSUME NEW s, Proper(session[s].req)
  PROVE  /\ Cp(s)[1] # "wallet" /\ Profile(s)[1] # "wallet"
         /\ session[s].req.op = "stake_on" => Row(s)[1] # "wallet"
<1>1. "stake_on" \in DOMAIN TableOf /\ TableOf["stake_on"] = "stake"
  BY DEF TableOf
<1>. QED
  BY <1>1 DEF Proper, Row, Args, Cp, Profile, Validator

LEMMA StakeLoadSafe ==
  ASSUME NEW s, Guarded(session[s]), Proper(session[s].req), StakeLoad(s)
  PROVE  SafeStep(s)
BY SafeAtFirst, SafeByLoad, SafeByOpenConsensus, KindsOfRows,
   SafeRefuse, SafeQuery, SafeQueryForUpdate DEF StakeLoad, LockingPcs

LEMMA StakeOnSafe ==
  ASSUME NEW s, Guarded(session[s]), Proper(session[s].req), StakeOn(s)
  PROVE  SafeStep(s)
BY SafeAtFirst, SafeByAdd, SafeByInsert, KindsOfRows, SafeRefuse, SafeCommit
   DEF StakeOn, At, Row, Args

LEMMA LoadProfileSafe ==
  ASSUME NEW s, Guarded(session[s]), Proper(session[s].req), LoadProfile(s)
  PROVE  SafeStep(s)
BY SafeAtFirst, SafeByLoad, KindsOfRows, SafeRefuse, SafeQuery, SafeQueryForUpdate
   DEF LoadProfile, LockingPcs

LEMMA ApplySafe ==
  ASSUME NEW s, Guarded(session[s]), Proper(session[s].req), Apply(s)
  PROVE  SafeStep(s)
BY SafeAtFirst, SafeByAdd, SafeByInsert, KindsOfRows, SafeRefuse, SafeCommit DEF Apply

LEMMA DecideSafe ==
  ASSUME NEW s, Guarded(session[s]), session[s].req.op \in LockingOps, Decide(s)
  PROVE  SafeStep(s)
BY SafeAtFirst, SafeQueryForUpdate DEF Decide, LockingPcs, LockingOps, Args

LEMMA SafeByRefunded ==
  ASSUME NEW s, Guarded(session[s]), NEW n
  PROVE  Safe(s, Refunded(s, n))
BY SafeAtFirst, SafeByAdd, SafeByReference, SafeByPay DEF Refunded

LEMMA EndProfileSafe ==
  ASSUME NEW s, Guarded(session[s]), EndProfile(s)
  PROVE  SafeStep(s)
<1> DEFINE S == {Profile(s)} \cup Found({r \in Rows : r[1] = "forecast"
                                                      /\ r[2][2] = Args(s).user})
<1>1. \A r \in S : r[1] # "wallet"
  BY DEF Profile, Validator, Found
<1>. HIDE DEF S
<1>2. Safe(s, Delete(Refunded(s, Copy(session[s], Profile(s)).stake), S))
  BY <1>1, SafeByRefunded, SafeByDelete
<1>. QED
  BY <1>2, SafeCommit DEF EndProfile, S

LEMMA SlashSafe ==
  ASSUME NEW s, Guarded(session[s]), Slash(s)
  PROVE  SafeStep(s)
BY SafeByRefunded, SafeBySet, SafeByReference, SafeCommit DEF Slash

LEMMA LockingSafe ==
  ASSUME NEW s, Guarded(session[s]), Proper(session[s].req),
         session[s].req.op \in LockingOps, session[s].pc \in LockingPcs, Step(s)
  PROVE  SafeStep(s)
BY OnlyLocking, BridgeOutCheckSafe, BridgeInCheckSafe, BridgeLockSafe, BridgeDebitSafe,
   BridgeSubmitSafe, BridgeRecordSafe, BridgeCreditSafe, StakeLoadSafe, StakeOnSafe,
   LoadProfileSafe, ApplySafe, DecideSafe, EndProfileSafe, SlashSafe, SafeRefuse

----------------------------------------------------------------------------
(* What is read under a lock stays what it is                              *)

(* No wallet that a locking handler has read was changed since.            *)
Fresh(k) ==
    k.req.op \in LockingOps =>
      /\ Guarded(k) /\ k.pc \in LockingPcs
      /\ \A x \in k.old : x[1][1] # "wallet"

FreshInv ==
    /\ \A s \in Sessions : Fresh(session[s])
    /\ LockedReadsAreFresh

LEMMA FreshInvInit ==
  ASSUME Init
  PROVE  FreshInv
<1>1. PICK script \in Scripts : session = [s \in Sessions |-> Opened(script[s])]
  BY DEF Init, Start
<1>2. ASSUME NEW s \in Sessions PROVE Fresh(session[s])
  <2>1. session[s] = Opened(script[s])
    BY <1>1
  <2>2. /\ IsSession(session[s]) /\ session[s].pc = "start"
        /\ session[s].read = <<>> /\ session[s].old = {}
    BY <2>1, OpenedIs
  <2>. QED
    BY <2>2 DEF Fresh, Guarded, LockingPcs
<1>3. LockedReadsAreFresh
  BY DEF Init, LockedReadsAreFresh
<1>. QED
  BY <1>2, <1>3 DEF FreshInv

LEMMA CellsAreTouched ==
  ASSUME NEW k, NEW x \in Cells(k)
  PROVE  x[1] \in Touched(k)
<1> DEFINE A == UNION {{<<r, c>> : c \in DOMAIN Written(k, r)} : r \in DOMAIN k.wrote}
           B == UNION {{<<r, c>> : c \in DOMAIN k.read[r]} : r \in k.gone}
<1>0. Cells(k) = A \cup B
  BY DEF Cells
<1>1. CASE x \in A
  <2>1. PICK r \in DOMAIN k.wrote : x \in {<<r, c>> : c \in DOMAIN Written(k, r)}
    BY <1>1
  <2>2. x[1] = r
    BY <2>1
  <2>. QED
    BY <2>2 DEF Touched
<1>2. CASE x \in B
  <2>1. PICK r \in k.gone : x \in {<<r, c>> : c \in DOMAIN k.read[r]}
    BY <1>2
  <2>2. x[1] = r
    BY <2>1
  <2>. QED
    BY <2>2 DEF Touched
<1>. HIDE DEF A, B
<1>. QED
  BY <1>0, <1>1, <1>2

LEMMA ClosedIsFresh ==
  ASSUME NEW k, NEW pc \in LockingPcs
  PROVE  Fresh(Closed(k, pc))
BY ClosedIs DEF Fresh, Guarded

(* A commit touches no row that another session holds, and with it no      *)
(* wallet that a locking handler has read.                                 *)
LEMMA FreshForOthers ==
  ASSUME NEW s \in Sessions, NEW k, NEW pc, Committed(s, k, pc),
         NEW u \in Sessions \ {s}, IsSession(session[u]), Fresh(session[u])
  PROVE  Fresh(session'[u])
<1> DEFINE l == session[u]
           m == session'[u]
           x == {z \in Cells(k) : z[1] \in DOMAIN l.read}
<1>1. /\ IsSession(m) /\ m.req = l.req /\ m.pc = l.pc /\ m.read = l.read
      /\ m.held = l.held /\ m.old = l.old \cup x
  BY OtherCommit
<1>2. ASSUME l.req.op \in LockingOps PROVE \A z \in x : z[1][1] # "wallet"
  <2>1. Touched(k) \cap l.held = {}
    BY DEF Committed, Unlocked
  <2>2. \A r \in DOMAIN l.read : r[1] = "wallet" => r \in l.held
    BY <1>2 DEF Fresh, Guarded
  <2>. QED
    BY <2>1, <2>2, CellsAreTouched
<1>. HIDE DEF m, x, l
<1>3. Fresh(m)
  BY <1>1, <1>2 DEF Fresh, Guarded, l
<1>. QED
  BY <1>3 DEF m

LEMMA FreshInvNext ==
  ASSUME SessionsInv, FreshInv, [Next]_vars
  PROVE  FreshInv'
<1>1. ASSUME NEW s \in Sessions, NEW k, Keep(s, k), UNCHANGED store, Fresh(k)
      PROVE  FreshInv'
  BY <1>1 DEF Keep, SessionsInv, FreshInv, LockedReadsAreFresh, store
<1>2. ASSUME NEW s \in Sessions, NEW how \in LockingPcs, Keep(s, Closed(session[s], how)),
             UNCHANGED store
      PROVE  FreshInv'
  BY <1>1, <1>2, ClosedIsFresh
<1>3. ASSUME NEW s \in Sessions, NEW k, NEW pc, Committed(s, k, pc),
             k.req.op = session[s].req.op,
             session[s].req.op \in LockingOps =>
               pc = "done" /\ k.old \subseteq session[s].old
      PROVE  FreshInv'
  <2>2. Fresh(session'[s])
    <3>1. CASE session[s].req.op \in LockingOps
      <4>1. session'[s] = Closed(k, "done")
        BY <1>3, <3>1 DEF Committed
      <4>. QED
        BY <4>1, ClosedIsFresh DEF LockingPcs
    <3>2. CASE session[s].req.op \notin LockingOps
      <4>1. session'[s].req = k.req
        BY <1>3, AfterCommit
      <4>. QED
        BY <1>3, <3>2, <4>1 DEF Fresh
    <3>. QED
      BY <3>1, <3>2
  <2>3. \A u \in Sessions \ {s} : Fresh(session'[u])
    BY <1>3, FreshForOthers DEF FreshInv, SessionsInv, Prepared, Recorded
  <2>4. LockedReadsAreFresh'
    <3>1. SUFFICES ASSUME NEW x \in lost', x[1] \in LockingOps, x \notin lost
                   PROVE  x[2][1] # "wallet"
      BY DEF LockedReadsAreFresh, FreshInv, LockingOps
    <3>2. PICK z \in Cells(k) \cap k.old : x = <<k.req.op, z[1], z[2]>>
      BY <1>3, <3>1 DEF Committed
    <3>3. session[s].req.op \in LockingOps /\ z \in session[s].old
      BY <1>3, <3>1, <3>2
    <3>4. z[1][1] # "wallet"
      BY <3>3 DEF FreshInv, Fresh
    <3>. QED
      BY <3>2, <3>4
  <2>5. DOMAIN session' = Sessions
    BY <1>3 DEF Committed
  <2>. QED
    BY <2>2, <2>3, <2>4 DEF FreshInv
<1>4. ASSUME NEW s \in Sessions, Step(s) PROVE FreshInv'
  <2>0. Prepared(s) /\ DOMAIN session = Sessions /\ Fresh(session[s])
    BY <1>4 DEF SessionsInv, FreshInv
  <2>1. CASE session[s].req.op \in LockingOps
    <3>1. SafeStep(s)
      BY <1>4, <2>0, <2>1, LockingSafe DEF Fresh, Prepared
    <3>2. ASSUME NEW k, Safe(s, k), k.pc \in LockingPcs, Keep(s, k), UNCHANGED store
          PROVE  FreshInv'
      <4>1. Fresh(k)
        BY <2>0, <2>1, <3>2 DEF Safe, Fresh
      <4>. QED
        BY <1>1, <3>2, <4>1
    <3>3. ASSUME NEW k, Safe(s, k), Commit(s, k) PROVE FreshInv'
      <4>1. CASE End(s, "refused")
        BY <1>2, <4>1 DEF End, LockingPcs
      <4>2. CASE Committed(s, k, "done")
        BY <1>3, <3>3, <4>2 DEF Safe
      <4>. QED
        BY <3>3, <4>1, <4>2, CommitIs DEF Commit
    <3>. QED
      BY <3>1, <3>2, <3>3 DEF SafeStep
  <2>2. CASE session[s].req.op \notin LockingOps
    <3>1. CASE Goes(s)
      <4>1. PICK k : Kept(s, k) /\ Keep(s, k) /\ UNCHANGED <<store, faults>>
        BY <3>1 DEF Goes
      <4>2. Fresh(k)
        BY <2>0, <2>2, <4>1, ProperKept DEF Fresh
      <4>. QED
        BY <1>1, <4>1, <4>2
    <3>2. CASE Commits(s)
      <4>1. PICK k, pc : Kept(s, k) /\ CommitThen(s, k, pc)
        BY <3>2 DEF Commits
      <4>2. CASE End(s, "refused")
        BY <1>2, <4>2 DEF End, LockingPcs
      <4>3. CASE Committed(s, k, pc)
        BY <1>3, <2>0, <2>2, <4>1, <4>3, ProperKept
      <4>. QED
        BY <4>1, <4>2, <4>3, CommitIs
    <3>. QED
      BY <1>4, <2>0, <3>1, <3>2, StepEffect DEF Effect
  <2>. QED
    BY <2>1, <2>2
<1>5. ASSUME NEW s \in Sessions, SessionLost(s) PROVE FreshInv'
  BY <1>2, <1>5 DEF SessionLost, LockingPcs
<1>6. CASE UNCHANGED vars
  BY <1>6 DEF vars, FreshInv, LockedReadsAreFresh
<1>. QED
  BY <1>4, <1>5, <1>6 DEF Next

(* A handler that locks a wallet has read it at or after the lock, and     *)
(* every balance it writes is one of a row it holds (SELECT FOR UPDATE).   *)
THEOREM FreshInvAlways == Spec => []FreshInv
BY FreshInvInit, FreshInvNext, SessionsInvAlways, PTL DEF Spec

(* The chain bridge, the stakes on a match and the validators' handlers    *)
(* never write a balance over a change they have not seen.                 *)
THEOREM LockedReadsAreFreshAlways == Spec => []LockedReadsAreFresh
<1>1. FreshInv => LockedReadsAreFresh
  BY DEF FreshInv
<1>. QED
  BY <1>1, FreshInvAlways, PTL

----------------------------------------------------------------------------
(* The transfers handed to the chain                                       *)

Outgoing(k) == k.req.op = "wallet_to_chain"

(* Until the wallet is locked nothing has been read; then its copy is the  *)
(* row that is there, and nothing but it is changed.                       *)
Debiting(s) ==
    LET k == session[s] w == W(k.req.user) IN
    Outgoing(k) =>
      /\ k.gone = {} /\ DOMAIN k.wrote \subseteq {w}
      /\ k.pc \in {"start", "lock"} => DOMAIN k.read = {} /\ DOMAIN k.wrote = {}
      /\ k.pc \in {"locked", "submit", "record"} =>
           w \in k.held \cap DOMAIN k.read /\ k.read[w] = table[w]

(* A transfer that was submitted is recorded next, or its session was lost *)
(* or has ended and its key is taken.                                      *)
Handed(s) ==
    \/ session[s].pc \in {"record", "lost"}
    \/ session[s].pc \in {"done", "refused"} /\ table[OutRef(s)] # Absent

BridgeInv ==
    /\ \A s \in Sessions : Debiting(s)
    /\ \A s \in submitted : s \in Sessions /\ Outgoing(session[s]) /\ Handed(s)

LEMMA BridgeInvInit ==
  ASSUME Init
  PROVE  BridgeInv
<1>1. PICK script \in Scripts : session = [s \in Sessions |-> Opened(script[s])]
  BY DEF Init, Start
<1>2. ASSUME NEW s \in Sessions PROVE Debiting(s)
  <2>1. session[s] = Opened(script[s])
    BY <1>1
  <2>2. /\ session[s].pc = "start" /\ session[s].gone = {}
        /\ session[s].read = <<>> /\ session[s].wrote = <<>>
    BY <2>1, OpenedIs
  <2>. QED
    BY <2>2 DEF Debiting
<1>. QED
  BY <1>2 DEF Init, BridgeInv

(* What is written is there afterwards, and a reference is not deleted.    *)
LEMMA WrittenIsThere ==
  ASSUME NEW s, NEW k, NEW pc, Recorded(k), Committed(s, k, pc),
         NEW r \in Rows, r \in DOMAIN k.wrote, r \notin k.gone
  PROVE  table'[r] # Absent
<1> DEFINE f == k.wrote[r]
           g == table[r]
<1>1. DOMAIN f # {}
  BY DEF Recorded
<1>2. table'[r] = Over(f, g)
  BY DEF Committed
<1>. HIDE DEF f, g
<1>3. DOMAIN Over(f, g) = DOMAIN f \cup DOMAIN g
  BY OverIs
<1>. QED
  BY <1>1, <1>2, <1>3 DEF Absent

LEMMA ReferencesStay ==
  ASSUME NEW s, NEW k, NEW pc, Recorded(k), Committed(s, k, pc),
         NEW r \in Rows, r[1] = "reference", table[r] # Absent
  PROVE  table'[r] # Absent
<1>1. r \notin k.gone
  BY DEF Recorded
<1>2. CASE r \in DOMAIN k.wrote
  BY <1>1, <1>2, WrittenIsThere
<1>3. CASE r \notin DOMAIN k.wrote
  BY <1>1, <1>3 DEF Committed
<1>. QED
  BY <1>2, <1>3

(* The steps of a transfer to the chain.                                   *)
LEMMA OnlyBridging ==
  ASSUME NEW s, Outgoing(session[s]), session[s].pc \in LockingPcs, Step(s)
  PROVE  /\ \/ BridgeOutCheck(s) \/ BridgeLock(s) \/ BridgeDebit(s) \/ BridgeSubmit(s)
            \/ BridgeRecord(s) \/ Refuse(s)
         /\ submitted' = submitted \/ BridgeSubmit(s)
         /\ session[s].pc = "record" => BridgeRecord(s)
<1>1. session[s].req.op \in LockingOps
  BY DEF Outgoing, LockingOps
<1>2. \/ BridgeOutCheck(s) \/ BridgeLock(s) \/ BridgeDebit(s) \/ BridgeSubmit(s)
      \/ BridgeRecord(s) \/ Refuse(s)
  BY <1>1, OnlyLocking DEF Outgoing, BridgeInCheck, BridgeCredit, StakeLoad, StakeOn,
     LoadProfile, Apply, Decide, EndProfile, Slash, At, Args
<1>3. submitted' = submitted \/ BridgeSubmit(s)
  BY DEF Step, BridgeStep, Deadlock
<1>4. ASSUME session[s].pc = "record" PROVE BridgeRecord(s)
  <2>1. Wants(s) = {}
    BY <1>4 DEF Wants, WalletWants, PredictionWants, At, Outgoing
  <2>2. ~Deadlock(s)
    BY <2>1 DEF Deadlock, Waits
  <2>3. BridgeStep(s)
    BY <1>1, <2>2 DEF Outgoing, Step, WalletStep, ExchangeStep, TreasuryStep,
       PredictionStep, RewardStep, EarningStep, ResultStep, MeritStep, RegistryStep,
       Args, At, WalletRequests, ExchangeRequests, TreasuryRequests,
       PredictionRequests, RewardRequests, EarningRequests,
       Lookup, Produce, Relay, Call, Upgrade, RecordTask
  <2>. QED
    BY <1>4, <2>3 DEF Outgoing, BridgeStep, BridgeSubmit, BridgeOutCheck, BridgeInCheck,
       BridgeLock, BridgeDebit, BridgeCredit, InitiateLoad, Initiate, ConfirmBridge,
       Relayed, At, Args
<1>. QED
  BY <1>2, <1>3, <1>4

(* One handler's step keeps its own order.                                 *)
LEMMA ClosedIsDebiting ==
  ASSUME NEW s \in Sessions, DOMAIN session = Sessions, NEW how \in {"done", "refused", "lost"},
         Keep(s, Closed(session[s], how))
  PROVE  Debiting(s)'
<1>1. session'[s] = Closed(session[s], how)
  BY DEF Keep
<1>2. LET m == session'[s] IN m.gone = {} /\ m.wrote = <<>> /\ m.read = <<>> /\ m.pc = how
  BY <1>1, ClosedIs
<1>. QED
  BY <1>2 DEF Debiting

LEMMA DebitingKept ==
  ASSUME NEW s \in Sessions, SessionsInv, Debiting(s), Outgoing(session[s]),
         \/ BridgeOutCheck(s) \/ BridgeLock(s) \/ BridgeDebit(s) \/ BridgeSubmit(s)
         \/ Refuse(s)
  PROVE  Debiting(s)' /\ table' = table /\ session'[s].req = session[s].req
<1> DEFINE l == session[s]
           m == session'[s]
           w == W(l.req.user)
<1>0. /\ DOMAIN session = Sessions /\ Recorded(l) /\ Kept(s, l) /\ IsSession(l)
      /\ Wallet(s) = w
  BY KeptAtFirst DEF SessionsInv, Prepared, Recorded, Wallet, Args
<1>1. ASSUME NEW how \in {"done", "refused"}, End(s, how)
      PROVE  Debiting(s)' /\ table' = table /\ m.req = l.req
  BY <1>0, <1>1, ClosedIsDebiting, ClosedIs DEF End, Keep, store
<1>2. ASSUME NEW k, NEW pc, Query(s, k, pc) PROVE table' = table
  BY <1>2 DEF Query, End, store
<1>3. CASE BridgeOutCheck(s)
  <2>1. CASE End(s, "done")
    BY <1>1, <2>1
  <2>2. CASE At(s, "wallet_to_chain", "start") /\ Query(s, l, "lock")
    <3>1. \/ m = Closed(l, "refused")
          \/ /\ m.pc = "lock" /\ m.req = l.req /\ m.read = l.read
             /\ m.wrote = l.wrote /\ m.gone = l.gone
      BY <1>0, <2>2, AfterQuery
    <3>. QED
      BY <1>2, <2>2, <3>1, ClosedIs DEF Debiting, At
  <2>. QED
    BY <1>3, <2>1, <2>2 DEF BridgeOutCheck
<1>4. CASE BridgeLock(s)
  <2> DEFINE i == Load(l, w)
             k == [i EXCEPT !.held = @ \cup {w}]
  <2>0. /\ l.pc = "lock" /\ Query(s, k, "locked")
        /\ \A u \in Sessions \ {s} : w \notin session[u].held
    BY <1>0, <1>4 DEF BridgeLock, QueryForUpdate
  <2>1. l.gone = {} /\ DOMAIN l.read = {} /\ DOMAIN l.wrote = {}
    BY <2>0 DEF Debiting
  <2>2. /\ IsSession(i) /\ i.req = l.req /\ i.wrote = l.wrote /\ i.gone = l.gone
        /\ w \in DOMAIN i.read /\ i.read[w] = table[w]
    <3>1. Known(l) = {}
      BY <2>1 DEF Known
    <3>. QED
      BY <1>0, <3>1, LoadedFields DEF Load
  <2>3. Kept(s, k)
    BY <1>0, <2>0, KeptByLoad, KeptByHold
  <2>4. k = [i EXCEPT !.held = @ \cup {w}]
    OBVIOUS
  <2>. HIDE DEF i, k
  <2>5. /\ k.req = i.req /\ k.wrote = i.wrote /\ k.gone = i.gone /\ k.read = i.read
        /\ w \in k.held
    BY <2>2, <2>4 DEF IsSession
  <2>6. \/ m = Closed(l, "refused")
        \/ /\ m.pc = "locked" /\ m.req = k.req /\ m.read = k.read
           /\ m.wrote = k.wrote /\ m.gone = k.gone /\ m.held = k.held \cup Touched(k)
    BY <1>0, <2>0, <2>3, AfterQuery
  <2>7. table' = table
    BY <1>2, <2>0
  <2>. QED
    BY <2>1, <2>2, <2>5, <2>6, <2>7, ClosedIs DEF Debiting
<1>5. CASE BridgeDebit(s)
  <2> DEFINE f == Only(w, Only("vit", Copy(l, w)["vit"] + (-Args(s).amount)))
             k == SetEach(l, f)
  <2>0. Add(l, w, "vit", -Args(s).amount) = k
    BY AddIs DEF Set
  <2>a. DOMAIN f = {w}
    BY OnlyIs
  <2>. HIDE DEF f
  <2>1. CASE Refuse(s)
    BY <1>1, <2>1 DEF Refuse
  <2>2. CASE l.pc = "locked" /\ Query(s, k, "submit")
    <3>1. Kept(s, k)
      BY <1>0, KeptBySetEach
    <3>2. /\ k.req = l.req /\ k.read = l.read /\ k.gone = l.gone /\ k.held = l.held
          /\ DOMAIN k.wrote = ChangedBy(l, f) \cup DOMAIN l.wrote
      BY <1>0, SetFields
    <3>. HIDE DEF k
    <3>3. ChangedBy(l, f) \subseteq {w}
      BY <2>a DEF ChangedBy
    <3>4. \/ m = Closed(l, "refused")
          \/ /\ m.pc = "submit" /\ m.req = k.req /\ m.read = k.read
             /\ m.wrote = k.wrote /\ m.gone = k.gone /\ m.held = k.held \cup Touched(k)
      BY <1>0, <2>2, <3>1, AfterQuery
    <3>5. table' = table
      BY <1>2, <2>2
    <3>. QED
      BY <2>2, <3>2, <3>3, <3>4, <3>5, ClosedIs DEF Debiting
  <2>. QED
    BY <1>0, <1>5, <2>0, <2>1, <2>2 DEF BridgeDebit, At
<1>6. CASE BridgeSubmit(s)
  <2>1. CASE Refuse(s)
    BY <1>1, <2>1 DEF Refuse
  <2>2. CASE l.pc = "submit" /\ Keep(s, [l EXCEPT !.pc = "record"]) /\ UNCHANGED store
    <3>1. m = [l EXCEPT !.pc = "record"]
      BY <1>0, <2>2 DEF Keep
    <3>. HIDE DEF m
    <3>2. /\ m.pc = "record" /\ m.req = l.req /\ m.read = l.read /\ m.wrote = l.wrote
          /\ m.gone = l.gone /\ m.held = l.held
      BY <1>0, <3>1 DEF IsSession
    <3>. QED
      BY <2>2, <3>2 DEF Debiting, store, m
  <2>. QED
    BY <1>6, <2>1, <2>2 DEF BridgeSubmit, At
<1>7. CASE Refuse(s)
  BY <1>1, <1>7 DEF Refuse
<1>. QED
  BY <1>3, <1>4, <1>5, <1>6, <1>7

(* A row that is new gets all the columns.                                 *)
LEMMA NewColumns ==
  ASSUME NEW copy, DOMAIN copy = {}, NEW d, NEW v
  PROVE  \A u \in DOMAIN d : /\ u \in DOMAIN Over(Changes(copy, d), v)
                              /\ Over(Changes(copy, d), v)[u] = d[u]
<1> DEFINE y == Changes(copy, d)
<1>1. DOMAIN y = DOMAIN d /\ \A u \in DOMAIN y : y[u] = d[u]
  BY ChangesIs
<1>. HIDE DEF y
<1>2. DOMAIN Over(y, v) = DOMAIN y \cup DOMAIN v
  BY OverIs
<1>3. \A u \in DOMAIN y : Over(y, v)[u] = y[u]
  BY DEF Over
<1>. QED
  BY <1>1, <1>2, <1>3 DEF y

(* The debit is recorded, or its key is taken.                             *)
LEMMA Recording ==
  ASSUME NEW s \in Sessions, SessionsInv, Debiting(s), Outgoing(session[s]),
         session[s].pc = "record", BridgeRecord(s)
  PROVE  /\ Debiting(s)' /\ session'[s].req = session[s].req
         /\ table'[OutRef(s)] # Absent
         /\ \/ session'[s].pc = "refused"
            \/ session'[s].pc = "done" /\ table'[OutRef(s)].hash = s
<1> DEFINE l == session[s]
           w == W(l.req.user)
           ref == OutRef(s)
           x == Only(ref, Absent)
           i == [l EXCEPT !.read = Over(x, @)]
           d == [amount |-> -Args(s).amount, user |-> Args(s).user, hash |-> s]
           f == Only(ref, d)
           k == SetEach(i, f)
<1>0. /\ DOMAIN session = Sessions /\ Recorded(l) /\ Kept(s, l) /\ IsSession(l)
      /\ Proper(l.req) /\ Args(s) = l.req
  BY KeptAtFirst DEF SessionsInv, Prepared, Recorded, Args
<1>1. w \in Rows /\ ref \in Rows /\ ref[1] = "reference" /\ ref # w
  BY <1>0 DEF Proper, OutRef, Ref, W, Outgoing
<1>2. k = Insert(l, ref, d)
  BY DEF Insert, Set
<1>a. DOMAIN d # {} /\ "hash" \in DOMAIN d /\ d["hash"] = s
  OBVIOUS
<1>b. BridgeRecord(s) => Commit(s, Insert(l, ref, d))
  BY DEF BridgeRecord
<1>4. DOMAIN x = {ref} /\ x[ref] = Absent /\ DOMAIN f = {ref} /\ f[ref] = d
  BY OnlyIs
<1>. HIDE DEF d
<1>3. Kept(s, k) /\ Inserted(k, ref)
  BY <1>0, <1>2, <1>a, KeptByInsert, Inserts
<1>5. i = [l EXCEPT !.read = Over(x, @)]
  OBVIOUS
<1>6. CommitThen(s, k, "done")
  BY <1>2, <1>b DEF Commit
<1>. HIDE DEF x, f, i, k, ref
<1>7. /\ IsSession(i) /\ i.wrote = l.wrote /\ i.gone = l.gone /\ i.read = Over(x, l.read)
  BY <1>0, <1>5 DEF IsSession
<1>8. w \in DOMAIN l.read /\ l.read[w] = table[w] /\ l.gone = {} /\ DOMAIN l.wrote \subseteq {w}
  BY DEF Debiting
<1>9. i.read[w] = table[w]
  <2> DEFINE y == l.read
  <2>. HIDE DEF y
  <2>1. \A z \in DOMAIN y : z \notin DOMAIN x => Over(x, y)[z] = y[z]
    BY OverIs
  <2>. QED
    BY <1>1, <1>4, <1>7, <1>8, <2>1 DEF y
<1>10. /\ k.read = i.read /\ k.gone = i.gone
       /\ DOMAIN k.wrote = ChangedBy(i, f) \cup DOMAIN i.wrote
  BY <1>7, SetFields DEF k
<1>11. DOMAIN k.wrote \subseteq {w, ref} /\ k.gone = {} /\ k.read[w] = table[w]
  BY <1>4, <1>7, <1>8, <1>9, <1>10 DEF ChangedBy
<1>12. k.req = l.req
  BY <1>3 DEF Kept, SameRequest, Outgoing
<1>c. ref \in DOMAIN k.wrote /\ "hash" \in DOMAIN k.wrote[ref] /\ k.wrote[ref]["hash"] = s
  <2> DEFINE c == Copy(i, ref)
             y == Changes(c, f[ref])
             v == Written(i, ref)
             z == l.read
  <2>1. ref \notin DOMAIN i.wrote
    BY <1>1, <1>7, <1>8
  <2>2. ref \in DOMAIN k.wrote /\ ref \in ChangedBy(i, f)
    BY <1>3, <1>10, <2>1 DEF Inserted
  <2>3. k.wrote[ref] = Over(y, v)
    BY <1>7, <2>2, SetFields DEF k
  <2>4. c = Absent
    <3>1. c = i.read[ref]
      BY <2>1 DEF Copy
    <3>. HIDE DEF z, c
    <3>2. \A q \in DOMAIN x : Over(x, z)[q] = x[q]
      BY OverIs
    <3>. QED
      BY <1>4, <1>7, <3>1, <3>2 DEF z
  <2>. HIDE DEF c, v
  <2>5. DOMAIN c = {} /\ f[ref] = d
    BY <1>4, <2>4 DEF Absent
  <2>6. \A u \in DOMAIN d : u \in DOMAIN Over(y, v) /\ Over(y, v)[u] = d[u]
    BY <2>5, NewColumns DEF y
  <2>. HIDE DEF y
  <2>. QED
    BY <1>a, <2>2, <2>3, <2>6
<1>13. CASE End(s, "refused")
  <2>1. CASE Fails(k)
    <3>1. table[ref] # Absent
      BY <1>3, <1>11, <2>1 DEF Fails, Inserted
    <3>2. Debiting(s)'
      BY <1>0, <1>13, ClosedIsDebiting DEF End
    <3>3. session'[s] = Closed(l, "refused")
      BY <1>0, <1>13 DEF End, Keep
    <3>4. session'[s].req = l.req /\ session'[s].pc = "refused"
      BY <3>3, ClosedIs
    <3>5. table' = table
      BY <1>13 DEF End, store
    <3>. QED
      BY <3>1, <3>2, <3>4, <3>5 DEF ref
  <2>2. CASE ~Fails(k)
    <3>1. Committed(s, k, "done")
      BY <1>6, <2>2 DEF CommitThen, Committed
    <3>2. session'[s].pc = "done"
      BY <3>1, AfterCommit
    <3>3. session'[s].pc = "refused"
      BY <1>0, <1>13, ClosedIs DEF End, Keep
    <3>. QED
      BY <3>2, <3>3
  <2>. QED
    BY <2>1, <2>2
<1>14. CASE Committed(s, k, "done")
  <2>1. table'[ref] # Absent
    BY <1>1, <1>3, <1>11, <1>14, WrittenIsThere DEF Kept, Inserted
  <2>2. /\ session'[s].req = k.req /\ session'[s].pc = "done"
        /\ session'[s].wrote = <<>> /\ session'[s].gone = {}
    BY <1>14, AfterCommit
  <2>3. table'[ref].hash = s
    <3> DEFINE y == k.wrote[ref]
               v == table[ref]
    <3>1. table'[ref] = Over(y, v)
      BY <1>1, <1>11, <1>14, <1>c DEF Committed
    <3>2. "hash" \in DOMAIN y /\ y["hash"] = s
      BY <1>c
    <3>. HIDE DEF y, v
    <3>3. \A u \in DOMAIN y : Over(y, v)[u] = y[u]
      BY OverIs
    <3>. QED
      BY <3>1, <3>2, <3>3
  <2>. QED
    BY <1>12, <2>1, <2>2, <2>3 DEF Debiting, ref
<1>. QED
  BY <1>6, <1>13, <1>14, CommitIs

(* Another handler's step leaves a transfer as it is: it cannot change the *)
(* wallet that is held.                                                    *)
LEMMA DebitingOfOthers ==
  ASSUME NEW s \in Sessions, SessionsInv, NEW u \in Sessions \ {s}, Debiting(u),
         NEW k, Kept(s, k),
         \/ Keep(s, k) /\ UNCHANGED store
         \/ \E pc : Committed(s, k, pc)
  PROVE  /\ Debiting(u)' /\ session'[u].req = session[u].req
         /\ session'[u].pc = session[u].pc
<1>1. CASE Keep(s, k) /\ UNCHANGED store
  BY <1>1 DEF Keep, SessionsInv, Debiting, store
<1>2. ASSUME NEW pc, Committed(s, k, pc)
      PROVE  /\ Debiting(u)' /\ session'[u].req = session[u].req
             /\ session'[u].pc = session[u].pc
  <2> DEFINE l == session[u]
             m == session'[u]
             w == W(l.req.user)
  <2>1. /\ m.req = l.req /\ m.pc = l.pc /\ m.wrote = l.wrote /\ m.read = l.read
        /\ m.gone = l.gone /\ m.held = l.held
    BY <1>2, OtherCommit DEF SessionsInv, Prepared, Recorded
  <2>2. ASSUME Outgoing(l), w \in l.held PROVE table'[w] = table[w]
    <3>1. w \in Rows
      BY <2>2 DEF SessionsInv, Prepared, Proper, Outgoing
    <3>2. w \notin Touched(k)
      BY <1>2, <2>2 DEF Committed, Unlocked
    <3>. QED
      BY <1>2, <3>1, <3>2 DEF Committed, Touched
  <2>. HIDE DEF m
  <2>. QED
    BY <2>1, <2>2 DEF Debiting, Outgoing, m
<1>. QED
  BY <1>1, <1>2

(* Every step of a request keeps its session or commits it.                *)
LEMMA StepShape ==
  ASSUME SessionsInv, NEW s \in Sessions, Step(s)
  PROVE  \E k : /\ Kept(s, k)
                /\ \/ Keep(s, k) /\ UNCHANGED store
                   \/ \E pc : Committed(s, k, pc)
                /\ UNCHANGED faults
                /\ session'[s].req = k.req
<1>0. DOMAIN session = Sessions /\ Prepared(s)
  BY DEF SessionsInv
<1>1. ASSUME Goes(s)
      PROVE  \E k : /\ Kept(s, k)
                    /\ Keep(s, k) /\ UNCHANGED store
                    /\ UNCHANGED faults
                    /\ session'[s].req = k.req
  <2>1. PICK k : Kept(s, k) /\ Keep(s, k) /\ UNCHANGED <<store, faults>>
    BY <1>1 DEF Goes
  <2>2. session'[s] = k
    BY <1>0, <2>1 DEF Keep
  <2>3. UNCHANGED store /\ UNCHANGED faults
    BY <2>1
  <2>. QED
    BY <2>1, <2>2, <2>3
<1>2. ASSUME NEW k, NEW pc, Kept(s, k), Committed(s, k, pc)
      PROVE  session'[s].req = k.req /\ UNCHANGED faults
  <2>1. session'[s].req = k.req
    BY <1>2, AfterCommit
  <2>2. UNCHANGED faults
    BY <1>2 DEF Committed
  <2>. QED
    BY <2>1, <2>2
<1>3. CASE End(s, "refused")
  <2> DEFINE k == Closed(session[s], "refused")
  <2>1. Kept(s, k)
    BY <1>0, KeptAtFirst, KeptByClosing DEF Prepared
  <2>2. Keep(s, k) /\ UNCHANGED <<store, faults>>
    BY <1>3 DEF End
  <2>. HIDE DEF k
  <2>. QED
    BY <1>0, <2>1, <2>2 DEF Keep
<1>4. CASE Commits(s)
  BY <1>2, <1>3, <1>4, CommitIs DEF Commits
<1>. QED
  BY <1>0, <1>1, <1>4, StepEffect DEF Effect

LEMMA BridgeInvNext ==
  ASSUME SessionsInv, FreshInv, BridgeInv, [Next]_vars
  PROVE  BridgeInv'
<1>0. /\ DOMAIN session = Sessions
      /\ \A s \in Sessions : Prepared(s) /\ Debiting(s)
      /\ \A s \in Sessions : Outgoing(session[s]) => session[s].pc \in LockingPcs
  BY DEF SessionsInv, BridgeInv, FreshInv, Fresh, Outgoing, LockingOps
(* What is common to all steps.                                            *)
<1>1. ASSUME NEW s \in Sessions, NEW k, Kept(s, k),
             \/ Keep(s, k) /\ UNCHANGED store
             \/ \E pc : Committed(s, k, pc),
             Debiting(s)', session'[s].req.op = session[s].req.op,
             submitted' \subseteq submitted \cup {s},
             s \in submitted' => Outgoing(session[s]) /\ Handed(s)'
      PROVE  BridgeInv'
  <2>1. \A u \in Sessions \ {s} : /\ Debiting(u)' /\ session'[u].req = session[u].req
                                  /\ session'[u].pc = session[u].pc
    BY <1>1, DebitingOfOthers DEF BridgeInv
  <2>2. \A u \in Sessions : Debiting(u)'
    BY <1>1, <2>1
  <2>3. \A u \in submitted' : u \in Sessions /\ Outgoing(session'[u])
    BY <1>1, <2>1 DEF BridgeInv, Outgoing
  <2>4. ASSUME NEW u \in submitted' PROVE Handed(u)'
    <3>1. SUFFICES ASSUME u # s PROVE Handed(u)'
      BY <1>1
    <3>2. u \in Sessions /\ Outgoing(session[u]) /\ Handed(u)
      BY <1>1, <3>1 DEF BridgeInv
    <3>3. OutRef(u)' = OutRef(u) /\ session'[u].pc = session[u].pc
      BY <2>1, <3>1, <3>2 DEF OutRef, Args
    <3>5. OutRef(u) \in Rows /\ OutRef(u)[1] = "reference"
      BY <1>0, <3>2 DEF Prepared, Proper, Outgoing, OutRef, Ref, Args
    <3>6. table[OutRef(u)] # Absent => table'[OutRef(u)] # Absent
      BY <1>1, <3>5, ReferencesStay DEF store, Kept
    <3>. QED
      BY <3>2, <3>3, <3>6 DEF Handed
  <2>. QED
    BY <1>1, <2>2, <2>3, <2>4 DEF BridgeInv
<1>2. ASSUME NEW s \in Sessions, Step(s), Outgoing(session[s]) PROVE BridgeInv'
  <2>1. PICK k : /\ Kept(s, k)
                 /\ \/ Keep(s, k) /\ UNCHANGED store
                    \/ \E pc : Committed(s, k, pc)
    BY <1>2, StepShape
  <2>2. /\ \/ BridgeOutCheck(s) \/ BridgeLock(s) \/ BridgeDebit(s) \/ BridgeSubmit(s)
           \/ BridgeRecord(s) \/ Refuse(s)
        /\ submitted' = submitted \/ BridgeSubmit(s)
        /\ session[s].pc = "record" => BridgeRecord(s)
    BY <1>0, <1>2, OnlyBridging
  <2>3. submitted' = submitted \/ submitted' = submitted \cup {s}
    BY <2>2 DEF BridgeSubmit
  <2>4. s \in submitted => session[s].pc = "record"
    BY <1>2 DEF BridgeInv, Handed, Step, Ended
  <2>5. CASE session[s].pc = "record"
    <3>1. /\ Debiting(s)' /\ session'[s].req = session[s].req
          /\ table'[OutRef(s)] # Absent /\ session'[s].pc \in {"refused", "done"}
      BY <1>0, <1>2, <2>2, <2>5, Recording
    <3>2. OutRef(s)' = OutRef(s)
      BY <3>1 DEF OutRef, Args
    <3>3. Handed(s)'
      BY <3>1, <3>2 DEF Handed
    <3>. QED
      BY <1>1, <1>2, <2>1, <2>3, <3>1, <3>3
  <2>6. CASE session[s].pc # "record"
    <3>0. ~BridgeRecord(s)
      BY <2>6 DEF BridgeRecord, At
    <3>1. Debiting(s)' /\ table' = table /\ session'[s].req = session[s].req
      BY <1>0, <1>2, <2>2, <3>0, DebitingKept
    <3>3. s \in submitted' => session'[s].pc = "record"
      <4>1. CASE Keep(s, [session[s] EXCEPT !.pc = "record"])
        <5>1. session'[s] = [session[s] EXCEPT !.pc = "record"] /\ IsSession(session[s])
          BY <1>0, <4>1 DEF Keep, Prepared, Recorded
        <5>. QED
          BY <5>1 DEF IsSession
      <4>2. CASE submitted' = submitted
        BY <2>4, <2>6, <4>2
      <4>. QED
        BY <2>2, <4>1, <4>2 DEF BridgeSubmit
    <3>4. s \in submitted' => Handed(s)'
      BY <3>3 DEF Handed
    <3>. QED
      BY <1>1, <1>2, <2>1, <2>3, <3>1, <3>4
  <2>. QED
    BY <2>5, <2>6
<1>3. ASSUME NEW s \in Sessions, Step(s), ~Outgoing(session[s]) PROVE BridgeInv'
  <2>1. PICK k : /\ Kept(s, k)
                 /\ \/ Keep(s, k) /\ UNCHANGED store
                    \/ \E pc : Committed(s, k, pc)
                 /\ session'[s].req = k.req
    BY <1>3, StepShape
  <2>2. session'[s].req.op = session[s].req.op
    BY <1>0, <2>1, ProperKept
  <2>3. Debiting(s)'
    BY <1>3, <2>2 DEF Debiting, Outgoing
  <2>4. submitted' = submitted
    BY <1>3 DEF Step, BridgeStep, Deadlock, BridgeSubmit, At, Outgoing
  <2>5. s \notin submitted
    BY <1>3 DEF BridgeInv
  <2>. QED
    BY <1>1, <1>3, <2>1, <2>2, <2>3, <2>4, <2>5
<1>4. ASSUME NEW s \in Sessions, SessionLost(s), UNCHANGED submitted PROVE BridgeInv'
  <2> DEFINE k == Closed(session[s], "lost")
  <2>1. Kept(s, k) /\ k.req = session[s].req
    BY <1>0, KeptAtFirst, KeptByClosing, ClosedIs DEF Prepared
  <2>2. Keep(s, k) /\ UNCHANGED store
    BY <1>4 DEF SessionLost
  <2>3. Debiting(s)'
    BY <1>0, <2>2, ClosedIsDebiting
  <2>5. k.pc = "lost"
    BY ClosedIs
  <2>. HIDE DEF k
  <2>4. session'[s].req.op = session[s].req.op /\ Handed(s)'
    BY <1>0, <2>1, <2>2, <2>5 DEF Keep, Handed
  <2>6. s \in submitted => Outgoing(session[s])
    BY DEF BridgeInv
  <2>. QED
    BY <1>1, <1>4, <2>1, <2>2, <2>3, <2>4, <2>5, <2>6
<1>5. CASE UNCHANGED vars
  BY <1>5 DEF vars, BridgeInv, Debiting, Handed, OutRef, Args
<1>. QED
  BY <1>2, <1>3, <1>4, <1>5 DEF Next

(* From the debit to the reference, what wallet_to_chain has taken is held *)
(* or committed, and the key of what it submitted is taken in the end      *)
(* (chain_bridge.py).                                                      *)
THEOREM BridgeInvAlways == Spec => []BridgeInv
BY BridgeInvInit, BridgeInvNext, SessionsInvAlways, FreshInvAlways, PTL DEF Spec
====
