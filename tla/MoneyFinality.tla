--------------------------- MODULE MoneyFinality ---------------------------
(***************************************************************************)
(* A status that ends a row is final: what the handlers that give a status *)
(* have read before, and what they know of it when they commit.            *)
(***************************************************************************)
EXTENDS MoneyProofs, WellFoundedInduction

(* The rows that have a last status.                                       *)
Ends(r) == r[1] \in DOMAIN TerminalStates

(* The session has read the row, and not in a status that is final.        *)
Open(k, r) ==
    /\ r \in DOMAIN k.read
    /\ "status" \in DOMAIN k.read[r] => k.read[r].status \notin TerminalStates[r[1]]

SameStatus(x, y) ==
    /\ "status" \in DOMAIN x <=> "status" \in DOMAIN y
    /\ "status" \in DOMAIN x => x.status = y.status

(* Only an open row is given a status.                                     *)
Honest(k) ==
    \A r \in DOMAIN k.wrote : Ends(r) /\ "status" \in DOMAIN k.wrote[r] => Open(k, r)

(* What a session has read is so in t, or it has been changed since.       *)
Coherent(k, t) ==
    \A r \in Rows \cap DOMAIN k.read :
        Ends(r) /\ k.read[r] # Absent /\ <<r, "status">> \notin k.old =>
          SameStatus(k.read[r], t[r])

(* Profiles and forecasts have no last status.                             *)
Sparing(k) == \A r \in k.gone : ~Ends(r)

Sound(s, k) ==
    /\ IsSession(k) /\ SameRequest(session[s].req, k.req)
    /\ k.old \subseteq session[s].old
    /\ Sparing(k) /\ Honest(k) /\ Coherent(k, table)

(* No copy is given up before the session ends.                            *)
Grew(s, k) == DOMAIN session[s].read \subseteq DOMAIN k.read

(* The session has given the row one of its last statuses.                 *)
Given(k, r) ==
    /\ r \in DOMAIN k.wrote /\ "status" \in DOMAIN k.wrote[r]
    /\ k.wrote[r].status \in TerminalStates[r[1]]

(* What is paid with a last status is paid by the commit that saves it.    *)
Clean(k) == \A c \in k.pays : c[1] \notin Concluded
Earned(k) == \A c \in k.pays : c[1] \in Concluded => Given(k, c)

Civil(s, k) == Sound(s, k) /\ Grew(s, k) /\ Clean(k)
Lawful(s, k) == Sound(s, k) /\ Grew(s, k) /\ Earned(k)

----------------------------------------------------------------------------
(* The operations on a session                                             *)

LEMMA CivilByLoadAll ==
  ASSUME NEW s, NEW k, Civil(s, k), NEW S
  PROVE  Civil(s, LoadAll(k, S))
<1> DEFINE m == LoadAll(k, S)
<1>0. IsSession(k)
  BY DEF Civil, Sound, Grew
<1>1. /\ IsSession(m)
      /\ m.req = k.req /\ m.wrote = k.wrote /\ m.gone = k.gone /\ m.old = k.old
      /\ m.pays = k.pays
      /\ DOMAIN m.read = (S \ Known(k)) \cup DOMAIN k.read
      /\ \A r \in S \ Known(k) : m.read[r] = table[r]
      /\ \A r \in DOMAIN k.read : r \notin S \ Known(k) => m.read[r] = k.read[r]
  BY <1>0, LoadedFields
<1>. HIDE DEF m
<1>2. Honest(m)
  <2>1. SUFFICES ASSUME NEW r \in DOMAIN k.wrote, Ends(r), "status" \in DOMAIN k.wrote[r]
                 PROVE  Open(m, r)
    BY <1>1 DEF Honest
  <2>2. Open(k, r)
    BY <2>1 DEF Civil, Sound, Grew, Honest
  <2>3. r \in Known(k)
    BY <2>2 DEF Open, Known, Exists
  <2>. QED
    BY <1>1, <2>2, <2>3 DEF Open
<1>3. Coherent(m, table)
  BY <1>1 DEF Civil, Sound, Grew, Coherent, SameStatus
<1>. QED
  BY <1>1, <1>2, <1>3 DEF Civil, Sound, Grew, Clean, Sparing, m

LEMMA CivilByLoad ==
  ASSUME NEW s, NEW k, Civil(s, k), NEW r
  PROVE  Civil(s, Load(k, r))
BY CivilByLoadAll DEF Load

(* What a session may change of the rows that f changes.                   *)
Fair(k, f) ==
    \A r \in DOMAIN f :
        Ends(r) /\ "status" \in DOMAIN Changes(Copy(k, r), f[r]) => Open(k, r)

LEMMA CivilByFair ==
  ASSUME NEW s, NEW k, Civil(s, k), NEW f, Fair(k, f)
  PROVE  Civil(s, SetEach(k, f))
<1> DEFINE m == SetEach(k, f)
<1>0. IsSession(k)
  BY DEF Civil, Sound, Grew
<1>1. /\ IsSession(m)
      /\ m.req = k.req /\ m.read = k.read /\ m.gone = k.gone /\ m.old = k.old
      /\ m.pays = k.pays
      /\ DOMAIN m.wrote = ChangedBy(k, f) \cup DOMAIN k.wrote
      /\ \A r \in ChangedBy(k, f) :
           m.wrote[r] = Over(Changes(Copy(k, r), f[r]), Written(k, r))
      /\ \A r \in DOMAIN k.wrote :
           r \notin ChangedBy(k, f) => m.wrote[r] = k.wrote[r]
  BY <1>0, SetFields
<1>. HIDE DEF m
<1>2. ASSUME NEW r \in DOMAIN m.wrote, Ends(r), "status" \in DOMAIN m.wrote[r]
      PROVE  Open(k, r)
  <2>1. CASE r \in ChangedBy(k, f)
    <3> DEFINE d == Changes(Copy(k, r), f[r])
               w == Written(k, r)
    <3>1. r \in DOMAIN f
      BY <2>1 DEF ChangedBy
    <3>2. m.wrote[r] = Over(d, w)
      BY <1>1, <2>1
    <3>3. "status" \in DOMAIN d => Open(k, r)
      BY <1>2, <3>1 DEF Fair
    <3>4. "status" \in DOMAIN w => Open(k, r)
      BY <1>2 DEF Written, Civil, Sound, Grew, Honest
    <3>. HIDE DEF d, w
    <3>5. DOMAIN Over(d, w) = DOMAIN d \cup DOMAIN w
      BY OverIs
    <3>. QED
      BY <1>2, <3>2, <3>3, <3>4, <3>5
  <2>2. CASE r \notin ChangedBy(k, f)
    BY <1>1, <1>2, <2>2 DEF Civil, Sound, Grew, Honest
  <2>. QED
    BY <2>1, <2>2
<1>3. Honest(m)
  BY <1>1, <1>2 DEF Honest, Open
<1>4. Coherent(m, table)
  BY <1>1 DEF Civil, Sound, Grew, Coherent
<1>. QED
  BY <1>1, <1>3, <1>4 DEF Civil, Sound, Grew, Clean, Sparing, m

(* Columns other than the status, and rows that have no last one.          *)
LEMMA CivilBySetEach ==
  ASSUME NEW s, NEW k, Civil(s, k), NEW f,
         \A r \in DOMAIN f : Ends(r) => "status" \notin DOMAIN f[r]
  PROVE  Civil(s, SetEach(k, f))
<1>1. ASSUME NEW r \in DOMAIN f
      PROVE  DOMAIN Changes(Copy(k, r), f[r]) \subseteq DOMAIN f[r]
  <2> DEFINE x == Copy(k, r)
             y == f[r]
  <2>. HIDE DEF x, y
  <2>1. DOMAIN Changes(x, y) \subseteq DOMAIN y
    BY ChangesIs
  <2>. QED
    BY <2>1 DEF x, y
<1>2. Fair(k, f)
  BY <1>1 DEF Fair
<1>. QED
  BY <1>2, CivilByFair

LEMMA CivilBySet ==
  ASSUME NEW s, NEW k, Civil(s, k), NEW r, NEW columns,
         "status" \notin DOMAIN columns
  PROVE  Civil(s, Set(k, r, columns))
<1>1. DOMAIN Only(r, columns) = {r} /\ Only(r, columns)[r] = columns
  BY OnlyIs
<1>. QED
  BY <1>1, CivilBySetEach DEF Set

LEMMA CivilByStatusless ==
  ASSUME NEW s, NEW k, Civil(s, k), NEW r, NEW columns, ~Ends(r)
  PROVE  Civil(s, Set(k, r, columns))
<1>1. DOMAIN Only(r, columns) = {r}
  BY OnlyIs
<1>. QED
  BY <1>1, CivilBySetEach DEF Set

LEMMA CivilByOpen ==
  ASSUME NEW s, NEW k, Civil(s, k), NEW r, NEW columns, Open(k, r)
  PROVE  Civil(s, Set(k, r, columns))
<1>1. DOMAIN Only(r, columns) = {r}
  BY OnlyIs
<1>2. Fair(k, Only(r, columns))
  BY <1>1 DEF Fair
<1>. QED
  BY <1>2, CivilByFair DEF Set

(* A status that the session sees is the one it has read or one it has     *)
(* given, to an open row.                                                  *)
LEMMA OpenByCopy ==
  ASSUME NEW s, NEW k, Civil(s, k), NEW r \in DOMAIN k.read, Ends(r),
         "status" \in DOMAIN Copy(k, r) => Copy(k, r).status \notin TerminalStates[r[1]]
  PROVE  Open(k, r)
<1>1. CASE r \notin DOMAIN k.wrote
  BY <1>1 DEF Open, Copy
<1>2. CASE r \in DOMAIN k.wrote
  <2> DEFINE f == k.wrote[r]
             g == k.read[r]
  <2>1. Copy(k, r) = Over(f, g)
    BY <1>2 DEF Copy
  <2>2. "status" \in DOMAIN f => Open(k, r)
    BY <1>2 DEF Civil, Sound, Grew, Honest
  <2>. HIDE DEF f, g
  <2>3. /\ DOMAIN Over(f, g) = DOMAIN f \cup DOMAIN g
        /\ \A x \in DOMAIN g : x \notin DOMAIN f => Over(f, g)[x] = g[x]
    BY OverIs
  <2>4. CASE "status" \notin DOMAIN f
    <3>1. "status" \in DOMAIN g => g.status \notin TerminalStates[r[1]]
      BY <2>1, <2>3, <2>4
    <3>. QED
      BY <3>1 DEF Open, g
  <2>. QED
    BY <2>2, <2>4
<1>. QED
  BY <1>1, <1>2

(* The only last status of a row is given to it, perhaps once more.        *)
LEMMA CivilByLast ==
  ASSUME NEW s, NEW k, Civil(s, k), NEW r \in DOMAIN k.read, Ends(r), NEW columns,
         TerminalStates[r[1]] = {columns.status}
  PROVE  Civil(s, Set(k, r, columns))
<1> DEFINE f == Only(r, columns)
<1>1. DOMAIN f = {r} /\ f[r] = columns
  BY OnlyIs
<1>. HIDE DEF f
<1>2. ASSUME "status" \in DOMAIN Changes(Copy(k, r), columns) PROVE Open(k, r)
  <2>1. "status" \notin DOMAIN Copy(k, r) \/ Copy(k, r).status # columns.status
    <3> DEFINE x == Copy(k, r)
    <3>1. "status" \in DOMAIN Changes(x, columns)
      BY <1>2
    <3>. HIDE DEF x
    <3>2. DOMAIN Changes(x, columns) =
            {c \in DOMAIN columns : c \notin DOMAIN x \/ x[c] # columns[c]}
      BY ChangesIs
    <3>3. "status" \notin DOMAIN x \/ x["status"] # columns["status"]
      BY <3>1, <3>2
    <3>. QED
      BY <3>3 DEF x
  <2>. QED
    BY <2>1, OpenByCopy
<1>3. Fair(k, f)
  BY <1>1, <1>2 DEF Fair
<1>. QED
  BY <1>3, CivilByFair DEF Set, f

LEMMA CivilByAdd ==
  ASSUME NEW s, NEW k, Civil(s, k), NEW r, NEW column, NEW n, column # "status"
  PROVE  Civil(s, Add(k, r, column, n))
<1>1. DOMAIN Only(column, Copy(k, r)[column] + n) = {column}
  BY OnlyIs
<1>. QED
  BY <1>1, CivilBySet, AddIs

LEMMA CivilByAddTo ==
  ASSUME NEW s, NEW k, Civil(s, k), NEW r, NEW column, NEW n, ~Ends(r)
  PROVE  Civil(s, Add(k, r, column, n))
BY CivilByStatusless, AddIs

LEMMA CivilByInsert ==
  ASSUME NEW s, NEW k, Civil(s, k), NEW r, NEW columns
  PROVE  Civil(s, Insert(k, r, columns))
<1> DEFINE x == Only(r, Absent)
           y == k.read
           m == [k EXCEPT !.read = Over(x, @)]
<1>1. DOMAIN x = {r} /\ x[r] = Absent
  BY OnlyIs
<1>a. m = [k EXCEPT !.read = Over(x, @)]
  OBVIOUS
<1>. HIDE DEF x, m
<1>2. /\ IsSession(m)
      /\ m.req = k.req /\ m.wrote = k.wrote /\ m.gone = k.gone
      /\ m.old = k.old /\ m.pays = k.pays /\ m.read = Over(x, y)
  BY <1>a DEF Civil, Sound, Grew, IsSession
<1>. HIDE DEF y
<1>3. /\ DOMAIN Over(x, y) = {r} \cup DOMAIN y
      /\ Over(x, y)[r] = Absent
      /\ \A z \in DOMAIN y : z # r => Over(x, y)[z] = y[z]
  <2>1. /\ DOMAIN Over(x, y) = DOMAIN x \cup DOMAIN y
        /\ \A z \in DOMAIN x : Over(x, y)[z] = x[z]
        /\ \A z \in DOMAIN y : z \notin DOMAIN x => Over(x, y)[z] = y[z]
    BY OverIs
  <2>. QED
    BY <1>1, <2>1
<1>4. Open(m, r)
  BY <1>2, <1>3 DEF Open, Absent
<1>5. Honest(m)
  <2>1. SUFFICES ASSUME NEW z \in DOMAIN k.wrote, Ends(z), "status" \in DOMAIN k.wrote[z]
                 PROVE  Open(m, z)
    BY <1>2 DEF Honest
  <2>2. Open(k, z)
    BY <2>1 DEF Civil, Sound, Grew, Honest
  <2>. QED
    BY <1>2, <1>3, <1>4, <2>2 DEF Open, y
<1>6. Coherent(m, table)
  BY <1>2, <1>3 DEF Civil, Sound, Grew, Coherent, y
<1>8. Grew(s, m)
  BY <1>2, <1>3 DEF Civil, Grew, y
<1>7. Civil(s, m)
  BY <1>2, <1>5, <1>6, <1>8 DEF Civil, Clean, Sound, Sparing
<1>. QED
  BY <1>4, <1>7, CivilByOpen DEF Insert, m, x

LEMMA CivilByReference ==
  ASSUME NEW s, NEW k, Civil(s, k), NEW name, NEW amount
  PROVE  Civil(s, Reference(k, name, amount))
BY CivilByInsert DEF Reference

(* Changes of a session that leave its rows alone.                         *)
LEMMA CivilByRest ==
  ASSUME NEW s, NEW k, Civil(s, k), NEW m, IsSession(m), m.wrote = k.wrote,
         m.read = k.read, m.old = k.old, m.gone = k.gone, m.pays = k.pays,
         SameRequest(session[s].req, m.req)
  PROVE  Civil(s, m)
BY DEF Civil, Sound, Grew, Clean, Sparing, Honest, Open, Coherent

LEMMA PayIs ==
  ASSUME NEW k, IsSession(k), NEW cause
  PROVE  LET m == Pay(k, cause) IN
         /\ IsSession(m)
         /\ m.req = k.req /\ m.wrote = k.wrote /\ m.gone = k.gone /\ m.read = k.read
         /\ m.old = k.old /\ m.pays = k.pays \cup {cause}
<1> DEFINE m == Pay(k, cause)
<1>1. m = [k EXCEPT !.pays = @ \cup {cause}]
  BY DEF Pay
<1>. HIDE DEF m
<1>. QED
  BY <1>1 DEF IsSession, m

LEMMA SoundByPay ==
  ASSUME NEW s, NEW k, Civil(s, k), NEW cause
  PROVE  LET m == Pay(k, cause) IN
         Sound(s, m) /\ Grew(s, m) /\ m.wrote = k.wrote /\ m.pays = k.pays \cup {cause}
<1> DEFINE m == Pay(k, cause)
<1>1. /\ IsSession(m)
      /\ m.req = k.req /\ m.wrote = k.wrote /\ m.gone = k.gone /\ m.read = k.read
      /\ m.old = k.old /\ m.pays = k.pays \cup {cause}
  BY PayIs DEF Civil, Sound
<1>. HIDE DEF m
<1>. QED
  BY <1>1 DEF Civil, Sound, Grew, Sparing, Honest, Open, Coherent, m

LEMMA CivilByPay ==
  ASSUME NEW s, NEW k, Civil(s, k), NEW cause, cause[1] \notin Concluded
  PROVE  Civil(s, Pay(k, cause))
BY SoundByPay DEF Civil, Clean

(* What is paid under a reference or on an account of its own.             *)
Others == {"reference", "referral", "stake", "validator", "user", "chapter", "merit",
           "decay", "prediction"}

LEMMA CivilByPayOf ==
  ASSUME NEW s, NEW k, Civil(s, k), NEW kind \in Others, NEW x
  PROVE  Civil(s, Pay(k, <<kind, x>>))
<1>1. <<kind, x>>[1] \notin Concluded
  BY DEF Others, Concluded
<1>. QED
  BY <1>1, CivilByPay

LEMMA CivilByPayReference ==
  ASSUME NEW s, NEW k, Civil(s, k), NEW name, NEW amount
  PROVE  Civil(s, Pay(Reference(k, name, amount), Ref(name)))
<1>1. Ref(name)[1] \notin Concluded
  BY DEF Ref, Concluded
<1>. QED
  BY <1>1, CivilByReference, CivilByPay

(* What is paid on the row of the request, and ends it or does not.        *)
LEMMA CivilByPayRow ==
  ASSUME NEW s, NEW k, Civil(s, k), Proper(session[s].req),
         session[s].req.op \in {"withdraw_vault", "execute_grant", "review_appeal",
                                "postback"}
  PROVE  Civil(s, Pay(k, Row(s)))
<1>1. /\ session[s].req.op \in DOMAIN TableOf
      /\ TableOf[session[s].req.op] \notin Concluded
  BY DEF TableOf, Concluded
<1>2. Row(s)[1] \notin Concluded
  BY <1>1 DEF Proper, Row, Args
<1>. QED
  BY <1>2, CivilByPay

LEMMA LawfulByPay ==
  ASSUME NEW s, NEW k, Civil(s, k), NEW r, Given(k, r)
  PROVE  Lawful(s, Pay(k, r))
BY SoundByPay DEF Civil, Clean, Lawful, Earned, Given

LEMMA CivilByDelete ==
  ASSUME NEW s, NEW k, Civil(s, k), NEW S, \A r \in S : ~Ends(r)
  PROVE  Civil(s, Delete(k, S))
<1> DEFINE l == LoadAll(k, S)
           m == Delete(k, S)
<1>1. Civil(s, l)
  BY CivilByLoadAll
<1>. HIDE DEF l
<1>2. m = [l EXCEPT !.gone = @ \cup S]
  BY DEF Delete, l
<1>. HIDE DEF m
<1>3. /\ IsSession(m)
      /\ m.req = l.req /\ m.wrote = l.wrote /\ m.gone = l.gone \cup S
      /\ m.read = l.read /\ m.old = l.old /\ m.pays = l.pays
  BY <1>1, <1>2 DEF Civil, Sound, Grew, IsSession
<1>. QED
  BY <1>1, <1>3 DEF Civil, Sound, Grew, Clean, Sparing, Honest, Open, Coherent, m

LEMMA CivilByRefreshed ==
  ASSUME NEW s, NEW k, Civil(s, k), NEW user
  PROVE  Civil(s, Refreshed(k, Merit(user)))
<1> DEFINE r == Merit(user)
           x == Only(r, table[r])
           y == k.read
           m == Refreshed(k, r)
<1>0. ~Ends(r)
  BY DEF Ends, TerminalStates, Merit
<1>1. DOMAIN x = {r}
  BY OnlyIs
<1>2. m = [k EXCEPT !.read = Over(x, @), !.old = {z \in @ : z[1] # r}]
  BY DEF Refreshed
<1>. HIDE DEF r, x, m
<1>3. /\ IsSession(m)
      /\ m.req = k.req /\ m.wrote = k.wrote /\ m.gone = k.gone
      /\ m.old = {z \in k.old : z[1] # r} /\ m.pays = k.pays /\ m.read = Over(x, y)
  BY <1>2 DEF Civil, Sound, Grew, IsSession
<1>. HIDE DEF y
<1>4. /\ DOMAIN Over(x, y) = DOMAIN x \cup DOMAIN y
      /\ \A z \in DOMAIN y : z \notin DOMAIN x => Over(x, y)[z] = y[z]
  BY OverIs
<1>5. ASSUME NEW z, Open(k, z), Ends(z) PROVE Open(m, z)
  BY <1>0, <1>1, <1>3, <1>4, <1>5 DEF Open, y
<1>6. Honest(m)
  BY <1>3, <1>5 DEF Civil, Sound, Grew, Honest
<1>7. Coherent(m, table)
  <2>1. SUFFICES ASSUME NEW z \in Rows \cap DOMAIN m.read, Ends(z), m.read[z] # Absent,
                        <<z, "status">> \notin m.old
                 PROVE  SameStatus(m.read[z], table[z])
    BY DEF Coherent
  <2>2. z # r /\ z \in DOMAIN y /\ m.read[z] = y[z] /\ <<z, "status">> \notin k.old
    BY <1>0, <1>1, <1>3, <1>4, <2>1
  <2>. QED
    BY <2>1, <2>2 DEF Civil, Sound, Grew, Coherent, y
<1>8. Grew(s, m)
  BY <1>3, <1>4 DEF Civil, Grew, y
<1>. QED
  BY <1>3, <1>6, <1>7, <1>8 DEF Civil, Clean, Sound, Sparing, m, r

LEMMA CivilByLeft ==
  ASSUME NEW s, NEW k, Civil(s, k), NEW S, "op" \in DOMAIN session[s].req,
         session[s].req.op = "settle_results" \/ session[s].req.op = "settle_pending"
  PROVE  Civil(s, Left(k, S))
<1> DEFINE m == Left(k, S)
           q == k.req
           p == [q EXCEPT !.left = S]
<1>1. m = [k EXCEPT !.req = p]
  BY DEF Left, Civil, Sound, Grew, IsSession
<1>2. IsRow(p) /\ "op" \in DOMAIN p /\ p.op = q.op
  BY DEF Civil, Sound, Grew, SameRequest, IsRow
<1>. HIDE DEF m, p
<1>3. /\ IsSession(m) /\ m.req = p /\ m.wrote = k.wrote /\ m.gone = k.gone
      /\ m.read = k.read /\ m.old = k.old /\ m.pays = k.pays
  BY <1>1 DEF Civil, Sound, Grew, IsSession
<1>4. SameRequest(session[s].req, m.req)
  BY <1>2, <1>3 DEF Civil, Sound, Grew, SameRequest
<1>. QED
  BY <1>3, <1>4, CivilByRest DEF m

LEMMA CivilByTurn ==
  ASSUME NEW s, NEW k, Civil(s, k), NEW S, NEW b, "op" \in DOMAIN session[s].req,
         session[s].req.op = "settle_results" \/ session[s].req.op = "settle_pending"
  PROVE  Civil(s, Turn(k, S, b))
<1> DEFINE m == Turn(k, S, b)
           q == k.req
           p == [q EXCEPT !.left = S, !.bet = b]
<1>1. m = [k EXCEPT !.req = p]
  BY DEF Turn, Civil, Sound, Grew, IsSession
<1>2. IsRow(p) /\ "op" \in DOMAIN p /\ p.op = q.op
  BY DEF Civil, Sound, Grew, SameRequest, IsRow
<1>. HIDE DEF m, p
<1>3. /\ IsSession(m) /\ m.req = p /\ m.wrote = k.wrote /\ m.gone = k.gone
      /\ m.read = k.read /\ m.old = k.old /\ m.pays = k.pays
  BY <1>1 DEF Civil, Sound, Grew, IsSession
<1>4. SameRequest(session[s].req, m.req)
  BY <1>2, <1>3 DEF Civil, Sound, Grew, SameRequest
<1>. QED
  BY <1>3, <1>4, CivilByRest DEF m

LEMMA CivilByHold ==
  ASSUME NEW s, NEW k, Civil(s, k), NEW r
  PROVE  Civil(s, [k EXCEPT !.held = @ \cup {r}])
<1> DEFINE m == [k EXCEPT !.held = @ \cup {r}]
<1>1. m = [k EXCEPT !.held = @ \cup {r}]
  OBVIOUS
<1>. HIDE DEF m
<1>2. /\ IsSession(m)
      /\ m.req = k.req /\ m.wrote = k.wrote /\ m.gone = k.gone /\ m.read = k.read
      /\ m.old = k.old /\ m.pays = k.pays
  BY <1>1 DEF Civil, Sound, Grew, IsSession
<1>. QED
  BY <1>2, CivilByRest DEF Civil, Sound, Grew, m

LEMMA SoundWhenClosed ==
  ASSUME NEW s, NEW how
  PROVE  LET m == Closed(session[s], how) IN Sound(s, m) /\ Clean(m) /\ m.pc = how
<1> DEFINE m == Closed(session[s], how)
<1>1. /\ IsSession(m) /\ m.req = session[s].req /\ m.wrote = <<>> /\ m.read = <<>>
      /\ m.gone = {} /\ m.old = {} /\ m.pays = {} /\ m.pc = how
  BY ClosedIs
<1>. HIDE DEF m
<1>2. DOMAIN m.wrote = {} /\ DOMAIN m.read = {}
  BY <1>1
<1>. QED
  BY <1>1, <1>2 DEF Sound, SameRequest, Sparing, Honest, Coherent, Clean, m

----------------------------------------------------------------------------
(* A last status that has been given stays with the session                *)

LEMMA GivenStays ==
  ASSUME NEW k, IsSession(k), NEW r, Given(k, r), NEW f,
         r \in DOMAIN f => "status" \notin DOMAIN Changes(Copy(k, r), f[r])
  PROVE  Given(SetEach(k, f), r)
<1> DEFINE m == SetEach(k, f)
           d == Changes(Copy(k, r), f[r])
           w == k.wrote[r]
<1>1. /\ DOMAIN m.wrote = ChangedBy(k, f) \cup DOMAIN k.wrote
      /\ \A x \in ChangedBy(k, f) :
           m.wrote[x] = Over(Changes(Copy(k, x), f[x]), Written(k, x))
      /\ \A x \in DOMAIN k.wrote : x \notin ChangedBy(k, f) => m.wrote[x] = k.wrote[x]
  BY SetFields
<1>2. /\ r \in DOMAIN k.wrote /\ "status" \in DOMAIN w
      /\ w.status \in TerminalStates[r[1]]
  BY DEF Given
<1>3. CASE r \in ChangedBy(k, f)
  <2>1. m.wrote[r] = Over(d, w) /\ r \in DOMAIN f
    BY <1>1, <1>2, <1>3 DEF Written, ChangedBy
  <2>2. "status" \notin DOMAIN d
    BY <2>1
  <2>. HIDE DEF m, d, w
  <2>3. /\ DOMAIN Over(d, w) = DOMAIN d \cup DOMAIN w
        /\ \A x \in DOMAIN w : x \notin DOMAIN d => Over(d, w)[x] = w[x]
    BY OverIs
  <2>4. "status" \in DOMAIN Over(d, w) /\ Over(d, w)["status"] = w["status"]
    BY <1>2, <2>2, <2>3
  <2>. QED
    BY <1>1, <1>2, <2>1, <2>4 DEF Given, m
<1>4. CASE r \notin ChangedBy(k, f)
  BY <1>1, <1>2, <1>4 DEF Given
<1>. QED
  BY <1>3, <1>4

LEMMA GivenBySet ==
  ASSUME NEW k, IsSession(k), NEW r, Open(k, r), NEW columns,
         "status" \in DOMAIN columns, columns.status \in TerminalStates[r[1]]
  PROVE  Given(Set(k, r, columns), r)
<1> DEFINE f == Only(r, columns)
           m == SetEach(k, f)
           x == Copy(k, r)
           d == Changes(x, columns)
<1>1. DOMAIN f = {r} /\ f[r] = columns
  BY OnlyIs
<1>2. Set(k, r, columns) = m
  BY DEF Set
<1>. HIDE DEF f
<1>3. CASE "status" \in DOMAIN d
  <2> DEFINE w == Written(k, r)
  <2>1. r \in ChangedBy(k, f)
    BY <1>1, <1>3 DEF ChangedBy
  <2>2. r \in DOMAIN m.wrote /\ m.wrote[r] = Over(d, w)
    BY <1>1, <2>1, SetFields
  <2>3. d["status"] = columns["status"]
    <3>. HIDE DEF x
    <3>. QED
      BY <1>3 DEF Changes
  <2>. HIDE DEF m, d, w
  <2>4. /\ DOMAIN Over(d, w) = DOMAIN d \cup DOMAIN w
        /\ \A z \in DOMAIN d : Over(d, w)[z] = d[z]
    BY OverIs
  <2>5. "status" \in DOMAIN Over(d, w) /\ Over(d, w)["status"] = columns["status"]
    BY <1>3, <2>3, <2>4
  <2>. QED
    BY <1>2, <2>2, <2>5 DEF Given
<1>4. CASE "status" \notin DOMAIN d
  <2>1. "status" \in DOMAIN x /\ x["status"] = columns["status"]
    <3>. HIDE DEF x
    <3>1. DOMAIN d = {z \in DOMAIN columns : z \notin DOMAIN x \/ x[z] # columns[z]}
      BY ChangesIs
    <3>. HIDE DEF d
    <3>2. "status" \in DOMAIN x /\ x["status"] = columns["status"]
      BY <1>4, <3>1
    <3>. QED
      BY <3>2
  <2>2. r \in DOMAIN k.wrote
    BY <2>1 DEF Copy, Open
  <2>3. "status" \in DOMAIN k.wrote[r] /\ k.wrote[r]["status"] = columns["status"]
    <3> DEFINE w == k.wrote[r]
               g == k.read[r]
    <3>1. x = Over(w, g)
      BY <2>2 DEF Copy
    <3>2. "status" \in DOMAIN g => g["status"] # columns["status"]
      BY DEF Open
    <3>. HIDE DEF x, w, g
    <3>3. /\ DOMAIN Over(w, g) = DOMAIN w \cup DOMAIN g
          /\ \A z \in DOMAIN w : Over(w, g)[z] = w[z]
          /\ \A z \in DOMAIN g : z \notin DOMAIN w => Over(w, g)[z] = g[z]
      BY OverIs
    <3>. QED
      BY <2>1, <3>1, <3>2, <3>3 DEF w
  <2>4. Given(k, r)
    BY <2>2, <2>3 DEF Given
  <2>. HIDE DEF m
  <2>. QED
    BY <1>1, <1>2, <1>4, <2>4, GivenStays DEF m
<1>. QED
  BY <1>3, <1>4

LEMMA GivenKept ==
  ASSUME NEW k, IsSession(k), NEW r, Given(k, r)
  PROVE  /\ \A x : Given(Load(k, x), r)
         /\ \A x, columns : "status" \notin DOMAIN columns => Given(Set(k, x, columns), r)
         /\ \A x, column, n : column # "status" => Given(Add(k, x, column, n), r)
<1>1. ASSUME NEW x PROVE Given(Load(k, x), r)
  BY LoadedFields DEF Load, Given
<1>2. ASSUME NEW x, NEW columns, "status" \notin DOMAIN columns
      PROVE  Given(Set(k, x, columns), r)
  <2> DEFINE f == Only(x, columns)
             y == Copy(k, r)
  <2>1. DOMAIN f = {x} /\ f[x] = columns
    BY OnlyIs
  <2>. HIDE DEF f, y
  <2>2. DOMAIN Changes(y, columns) \subseteq DOMAIN columns
    BY ChangesIs
  <2>. QED
    BY <1>2, <2>1, <2>2, GivenStays DEF Set, f, y
<1>3. ASSUME NEW x, NEW column, NEW n, column # "status"
      PROVE  Given(Add(k, x, column, n), r)
  <2>1. DOMAIN Only(column, Copy(k, x)[column] + n) = {column}
    BY OnlyIs
  <2>. QED
    BY <1>2, <1>3, <2>1, AddIs
<1>. QED
  BY <1>1, <1>2, <1>3

LEMMA GivenByWallet ==
  ASSUME NEW k, IsSession(k), NEW r, Given(k, r), NEW user, r # W(user), NEW column, NEW n
  PROVE  Given(Add(k, W(user), column, n), r)
<1> DEFINE f == Only(W(user), Only(column, Copy(k, W(user))[column] + n))
<1>1. DOMAIN f = {W(user)}
  BY OnlyIs
<1>2. Add(k, W(user), column, n) = SetEach(k, f)
  BY AddIs DEF Set
<1>. HIDE DEF f
<1>. QED
  BY <1>1, <1>2, GivenStays

(* To insert a row is to have read it as absent.                           *)
LEMMA AbsentRead ==
  ASSUME NEW k, IsSession(k), NEW r
  PROVE  LET m == [k EXCEPT !.read = Over(Only(r, Absent), @)] IN
         IsSession(m) /\ m.wrote = k.wrote /\ Open(m, r)
<1> DEFINE x == Only(r, Absent)
           y == k.read
           m == [k EXCEPT !.read = Over(x, @)]
<1>1. DOMAIN x = {r} /\ x[r] = Absent
  BY OnlyIs
<1>2. m = [k EXCEPT !.read = Over(x, @)]
  OBVIOUS
<1>. HIDE DEF x, m
<1>3. IsSession(m) /\ m.wrote = k.wrote /\ m.read = Over(x, y)
  BY <1>2 DEF IsSession
<1>. HIDE DEF y
<1>4. DOMAIN Over(x, y) = DOMAIN x \cup DOMAIN y /\ \A z \in DOMAIN x : Over(x, y)[z] = x[z]
  BY OverIs
<1>5. r \in DOMAIN m.read /\ m.read[r] = Absent
  BY <1>1, <1>3, <1>4
<1>. QED
  BY <1>3, <1>5 DEF Open, Absent, m, x

LEMMA GivenByInsert ==
  ASSUME NEW k, IsSession(k), NEW r, NEW columns
  PROVE  /\ "status" \in DOMAIN columns /\ columns.status \in TerminalStates[r[1]] =>
              Given(Insert(k, r, columns), r)
         /\ \A x : x # r /\ Given(k, x) => Given(Insert(k, r, columns), x)
<1> DEFINE m == [k EXCEPT !.read = Over(Only(r, Absent), @)]
           f == Only(r, columns)
<1>1. IsSession(m) /\ m.wrote = k.wrote /\ Open(m, r)
  BY AbsentRead
<1>2. Insert(k, r, columns) = Set(m, r, columns)
  BY DEF Insert
<1>3. DOMAIN f = {r}
  BY OnlyIs
<1>. HIDE DEF m, f
<1>4. ASSUME NEW x, x # r, Given(k, x) PROVE Given(Set(m, r, columns), x)
  BY <1>1, <1>3, <1>4, GivenStays DEF Given, Set, f
<1>. QED
  BY <1>1, <1>2, <1>4, GivenBySet

----------------------------------------------------------------------------
(* The steps of the handlers                                               *)

Closings == {"done", "refused", "lost"}

(* A session that fails to insert a wallet begins again with its copy.     *)
Turns(s) ==
    \E k : /\ Sound(s, k) /\ Clean(k)
           /\ Grew(s, k) \/ k.pc \in Closings \/ session[s].req.op = "open"
           /\ Keep(s, k) /\ UNCHANGED <<store, faults>>

Saves(s) == \E k, pc : Lawful(s, k) /\ CommitThen(s, k, pc)

Fairly(s) == Turns(s) \/ Saves(s)

LEMMA FairEnd ==
  ASSUME NEW s, NEW how \in Closings, End(s, how)
  PROVE  Fairly(s)
BY SoundWhenClosed DEF Closings, End, Fairly, Turns

LEMMA FairRefuse ==
  ASSUME NEW s, Refuse(s)
  PROVE  Fairly(s)
BY FairEnd DEF Closings, Refuse

LEMMA FairQuery ==
  ASSUME NEW s, NEW k, NEW pc, Civil(s, k), Query(s, k, pc)
  PROVE  Fairly(s)
<1>1. CASE End(s, "refused")
  BY <1>1, FairRefuse DEF Refuse
<1>2. CASE ~End(s, "refused")
  <2> DEFINE m == [Flushed(k) EXCEPT !.pc = pc]
  <2>1. m = [[k EXCEPT !.held = @ \cup Touched(k)] EXCEPT !.pc = pc]
    BY DEF Flushed
  <2>2. Keep(s, m) /\ UNCHANGED <<store, faults>>
    BY <1>2 DEF Query
  <2>. HIDE DEF m
  <2>3. /\ IsSession(m)
        /\ m.req = k.req /\ m.wrote = k.wrote /\ m.gone = k.gone
        /\ m.read = k.read /\ m.old = k.old /\ m.pays = k.pays
    BY <2>1 DEF Civil, Sound, Grew, IsSession
  <2>4. Civil(s, m)
    BY <2>3, CivilByRest DEF Civil, Sound, Grew
  <2>. QED
    BY <2>2, <2>4 DEF Fairly, Turns, Civil
<1>. QED
  BY <1>1, <1>2

LEMMA FairQueryForUpdate ==
  ASSUME NEW s, NEW k, NEW r, NEW pc, Civil(s, k), QueryForUpdate(s, k, r, pc)
  PROVE  Fairly(s)
<1>1. Civil(s, [Load(k, r) EXCEPT !.held = @ \cup {r}])
  BY CivilByLoad, CivilByHold
<1>. QED
  BY <1>1, FairQuery DEF QueryForUpdate

LEMMA LawfulWhenCivil ==
  ASSUME NEW s, NEW k, Civil(s, k)
  PROVE  Lawful(s, k)
BY DEF Civil, Lawful, Clean, Earned

LEMMA FairCommitThen ==
  ASSUME NEW s, NEW k, NEW pc, Civil(s, k), CommitThen(s, k, pc)
  PROVE  Fairly(s)
BY LawfulWhenCivil DEF Fairly, Saves

LEMMA FairPayment ==
  ASSUME NEW s, NEW k, Civil(s, k), NEW r, Given(k, r), Commit(s, Pay(k, r))
  PROVE  Fairly(s)
BY LawfulByPay DEF Commit, Fairly, Saves

LEMMA FairCommit ==
  ASSUME NEW s, NEW k, Civil(s, k), Commit(s, k)
  PROVE  Fairly(s)
BY FairCommitThen DEF Commit

(* What a handler knows of the rows it is about to give a status to.       *)
RowOps == {"approve", "reject", "webhook", "fail", "cancel_offer", "confirm", "release",
           "dispute", "relay", "vote", "close", "agent_close", "execute", "review_appeal",
           "respond", "relay_message", "confirm_message", "execute_upgrade"}

Rests == {"start", "done", "refused", "lost"}

(* The row of the request has been loaded,                                 *)
RowRead(k) ==
    \/ k.req.op \in RowOps /\ k.pc \notin Rests
    \/ k.req.op = "verify" /\ k.pc = "settle"
    => k.req.row \in DOMAIN k.read

(* its status was looked at by an earlier statement,                       *)
RowOpen(k) ==
    /\ <<k.req.op, k.pc>> \in {<<"release", "wallet">>, <<"vote", "power">>,
            <<"vote", "voted">>, <<"execute", "config">>, <<"fail", "tx">>}
         => Open(k, k.req.row)
    /\ k.req.op = "vote" /\ k.pc \in {"start", "target", "power"} =>
         k.req.row \notin DOMAIN k.wrote

(* or it was given its last one, to be paid for,                           *)
RowPaid(k) ==
    /\ <<k.req.op, k.pc>> = <<"execute_upgrade", "found">> => k.req.row \in Known(k)
    /\ <<k.req.op, k.pc>> \in {<<"webhook", "wallet">>, <<"execute_upgrade", "contract">>}
         => Open(k, k.req.row)
    /\ <<k.req.op, k.pc>> \in {<<"reject", "wallet">>, <<"cancel_offer", "wallet">>,
            <<"relay", "pool">>, <<"relay", "wallet">>}
         => Given(k, k.req.row)

(* the pending withdrawals were selected, by the first statement,          *)
RequestsOpen(k) ==
    /\ k.req.op = "gatekeeper" /\ k.pc = "requests" =>
         \A r \in DOMAIN k.read : r[1] = "withdrawal" => Open(k, r)
    /\ k.req.op \in {"gatekeeper", "fail"} /\ k.pc = "start" => k.read = <<>>

Settlers == {"oracle", "agent", "resolve"}

(* or the active stakes, none of which had been loaded before.  The        *)
(* handlers that settle no match pay no stakes.                            *)
StakesOpen(k) ==
    /\ k.req.op \in Settlers =>
         /\ k.pc \in {"start", "insert", "results", "consensus"} =>
              \A r \in DOMAIN k.read : r[1] # "stake"
         /\ k.pc \in {"stakes", "pay"} =>
              \A r \in DOMAIN k.read : r[1] = "stake" => r \in Rows /\ Open(k, r)
         /\ k.pc \in {"consensus", "stakes", "pay"} =>
              <<"consensus", k.req.match>> \in DOMAIN k.read
    /\ k.req.op \in PredictionRequests /\ k.pc \in {"stakes", "pay"} =>
         k.req.op \in Settlers

Ready(k) == RowRead(k) /\ RowOpen(k) /\ RowPaid(k) /\ RequestsOpen(k) /\ StakesOpen(k)

Tame(s) == Civil(s, session[s]) /\ Proper(session[s].req) /\ Ready(session[s])

LEMMA KindsThatStay ==
  ASSUME NEW x
  PROVE  /\ ~Ends(W(x)) /\ ~Ends(Validator(x))
         /\ \A kind \in {"match", "verification", "proof", "grant", "node",
                         "offer_completion", "validator", "user", "progress"} :
              ~Ends(<<kind, x>>)
BY DEF Ends, TerminalStates, W, Validator

LEMMA CivilByWallet ==
  ASSUME NEW s, NEW k, Civil(s, k), NEW user, NEW column, NEW n
  PROVE  Civil(s, Add(k, W(user), column, n))
BY CivilByAddTo, KindsThatStay

(* The tables of the rows that are given a status.                         *)
LEMMA Kinds ==
  ASSUME NEW s, Proper(session[s].req), session[s].req.op \in DOMAIN TableOf
  PROVE  Row(s)[1] = TableOf[session[s].req.op] /\ Target(s) = Row(s)
BY DEF Proper, Row, Args, Target

LEMMA TransferLoadFair ==
  ASSUME NEW s, Tame(s), TransferLoad(s)
  PROVE  Fairly(s)
BY CivilByLoad, FairQuery DEF TransferLoad, Tame

LEMMA DebitFair ==
  ASSUME NEW s, Tame(s), Debit(s)
  PROVE  Fairly(s)
BY CivilByWallet, FairRefuse, FairQuery DEF Debit, Tame

LEMMA CreditFair ==
  ASSUME NEW s, Tame(s), Credit(s)
  PROVE  Fairly(s)
BY CivilByWallet, FairCommit DEF Credit, Tame

LEMMA LoadOwnFair ==
  ASSUME NEW s, Tame(s), LoadOwn(s)
  PROVE  Fairly(s)
BY CivilByLoad, FairQuery DEF LoadOwn, Tame

LEMMA StakeFair ==
  ASSUME NEW s, Tame(s), Stake(s)
  PROVE  Fairly(s)
BY CivilByWallet, FairRefuse, FairCommit DEF Stake, Tame

LEMMA UnstakeFair ==
  ASSUME NEW s, Tame(s), Unstake(s)
  PROVE  Fairly(s)
BY CivilByWallet, FairRefuse, FairCommit DEF Unstake, Tame

LEMMA BuyOrSellFair ==
  ASSUME NEW s, Tame(s), BuyOrSell(s)
  PROVE  Fairly(s)
BY CivilByInsert, CivilByWallet, FairRefuse, FairCommit DEF BuyOrSell, Tame

LEMMA SubscribeFair ==
  ASSUME NEW s, Tame(s), Subscribe(s)
  PROVE  Fairly(s)
BY CivilByInsert, CivilByWallet, FairRefuse, FairCommit DEF Subscribe, Tame

LEMMA CreateVaultFair ==
  ASSUME NEW s, Tame(s), CreateVault(s)
  PROVE  Fairly(s)
BY CivilByInsert, CivilByWallet, FairRefuse, FairCommit DEF CreateVault, Tame

LEMMA WithdrawVaultLoadFair ==
  ASSUME NEW s, Tame(s), WithdrawVaultLoad(s)
  PROVE  Fairly(s)
BY CivilByLoad, FairRefuse, FairQuery DEF WithdrawVaultLoad, Tame

LEMMA WithdrawVaultFair ==
  ASSUME NEW s, Tame(s), WithdrawVault(s)
  PROVE  Fairly(s)
BY CivilBySet, CivilByPayRow, CivilByWallet, FairCommit DEF WithdrawVault, Tame, At

LEMMA WithdrawRequestFair ==
  ASSUME NEW s, Tame(s), WithdrawRequest(s)
  PROVE  Fairly(s)
BY CivilByInsert, CivilByWallet, FairRefuse, FairCommit DEF WithdrawRequest, Tame

LEMMA RefundFair ==
  ASSUME NEW s, Tame(s), Refund(s)
  PROVE  Fairly(s)
<1>1. Given(session[s], Row(s))
  BY DEF Refund, Tame, Ready, RowPaid, At, Row, Args
<1>. QED
  BY <1>1, GivenKept, CivilByWallet, FairPayment DEF Refund, Tame, Civil, Sound

LEMMA InitiateDepositFair ==
  ASSUME NEW s, Tame(s), InitiateDeposit(s)
  PROVE  Fairly(s)
BY CivilByInsert, FairCommit DEF InitiateDeposit, Tame

LEMMA VerifyLoadFair ==
  ASSUME NEW s, Tame(s), VerifyLoad(s)
  PROVE  Fairly(s)
BY CivilByLoad, FairQuery DEF VerifyLoad, Tame

LEMMA WebhookLoadFair ==
  ASSUME NEW s, Tame(s), WebhookLoad(s)
  PROVE  Fairly(s)
BY CivilByLoad, FairRefuse, FairQuery DEF WebhookLoad, Tame

LEMMA RewardLoadFair ==
  ASSUME NEW s, Tame(s), RewardLoad(s)
  PROVE  Fairly(s)
BY CivilByLoad, FairEnd, FairQuery DEF Closings, RewardLoad, Tame

LEMMA RewardFair ==
  ASSUME NEW s, Tame(s), Reward(s)
  PROVE  Fairly(s)
BY CivilByPayReference, CivilByWallet, FairCommit DEF Reward, Tame

LEMMA WelcomeBonusFair ==
  ASSUME NEW s, Tame(s), WelcomeBonus(s)
  PROVE  Fairly(s)
BY CivilByPayReference, CivilByWallet, FairEnd, FairCommit
   DEF Closings, WelcomeBonus, Tame

LEMMA ReferFair ==
  ASSUME NEW s, Tame(s), Refer(s)
  PROVE  Fairly(s)
BY CivilByLoad, CivilByInsert, CivilByPayOf, CivilByWallet, FairRefuse, FairQuery,
   FairCommit
   DEF Refer, Tame, Others

LEMMA OpenWalletFair ==
  ASSUME NEW s, Tame(s), OpenWallet(s)
  PROVE  Fairly(s)
<1> DEFINE w == W(Args(s).user)
           k == Insert(session[s], w, NewWallet)
           l == Closed(session[s], "bonus")
           x == Only(w, table[w])
           m == [l EXCEPT !.read = x]
<1>0. session[s].req.op = "open"
  BY DEF OpenWallet, At
<1>1. CASE Keep(s, m) /\ UNCHANGED <<store, faults>>
  <2>1. /\ IsSession(l) /\ l.req = session[s].req /\ l.wrote = <<>> /\ l.old = {}
        /\ l.gone = {} /\ l.pays = {}
    BY ClosedIs
  <2>2. DOMAIN x = {w} /\ x[w] = table[w]
    BY OnlyIs
  <2>3. m = [l EXCEPT !.read = x]
    OBVIOUS
  <2>. HIDE DEF l, x, m, w
  <2>4. /\ IsSession(m) /\ m.req = session[s].req /\ m.wrote = <<>> /\ m.old = {}
        /\ m.gone = {} /\ m.pays = {} /\ m.read = x
    BY <2>1, <2>3 DEF IsSession
  <2>5. DOMAIN m.wrote = {}
    BY <2>4
  <2>6. Sound(s, m) /\ Clean(m)
    BY <2>2, <2>4, <2>5
       DEF Civil, Sound, Grew, Clean, SameRequest, Sparing, Honest, Coherent, SameStatus
  <2>. QED
    BY <1>0, <1>1, <2>6 DEF Fairly, Turns
<1>2. CASE \E pc : Query(s, k, pc)
  BY <1>2, CivilByInsert, FairQuery DEF Tame
<1>3. CASE \E pc : Query(s, Load(session[s], w), pc)
  BY <1>3, CivilByLoad, FairQuery DEF Tame
<1>4. CASE End(s, "done")
  BY <1>4, FairEnd DEF Closings
<1>. QED
  BY <1>1, <1>2, <1>3, <1>4 DEF OpenWallet

(* The statuses that end the row of a request.                             *)
Lasts(s, S) == Ends(Row(s)) /\ TerminalStates[Row(s)[1]] = S

LEMMA LastStates ==
  ASSUME NEW s, Proper(session[s].req)
  PROVE  LET op == session[s].req.op IN
         /\ op \in {"approve", "reject"} => Lasts(s, {"approved", "rejected", "processed"})
         /\ op \in {"verify", "webhook", "fail"} => Lasts(s, {"confirmed"})
         /\ op = "cancel_offer" => Lasts(s, {"cancelled"})
         /\ op \in {"confirm", "release", "dispute"} => Lasts(s, {"completed", "cancelled"})
         /\ op = "relay" => Lasts(s, {"completed"})
         /\ op \in {"vote", "close", "agent_close", "execute"} =>
              Lasts(s, {"rejected", "failed", "executed"}) /\ Target(s) = Row(s)
         /\ op = "review_appeal" => Lasts(s, {"approved", "rejected"})
         /\ op = "respond" => Lasts(s, {"valid", "invalid", "expired"})
         /\ op \in {"relay_message", "confirm_message"} => Lasts(s, {"confirmed"})
         /\ op = "execute_upgrade" => Lasts(s, {"executed"})
<1>1. ASSUME session[s].req.op \in DOMAIN TableOf
      PROVE  Row(s)[1] = TableOf[session[s].req.op] /\ Target(s) = Row(s)
  BY <1>1, Kinds
<1>. QED
  BY <1>1 DEF TableOf, Lasts, Ends, TerminalStates

(* One is given once the row was seen in another.                          *)
LEMMA CivilByJudging ==
  ASSUME NEW s, Tame(s), session[s].req.op \in RowOps, session[s].pc \notin Rests,
         NEW S, Lasts(s, S), Copy(session[s], Row(s)).status \notin S, NEW columns
  PROVE  Civil(s, Set(session[s], Row(s), columns))
BY OpenByCopy, CivilByOpen DEF Tame, Ready, RowRead, Row, Args, Lasts

(* The last one may be given again.                                        *)
LEMMA CivilByEnding ==
  ASSUME NEW s, Tame(s), NEW k, Civil(s, k), Row(s) \in DOMAIN k.read,
         NEW columns, Lasts(s, {columns.status})
  PROVE  Civil(s, Set(k, Row(s), columns))
BY CivilByLast DEF Lasts

LEMMA ApproveFair ==
  ASSUME NEW s, Tame(s), Approve(s)
  PROVE  Fairly(s)
<1>1. Proper(session[s].req) /\ Civil(s, session[s])
  BY DEF Tame
<1>. QED
  BY <1>1, LastStates, CivilByJudging, CivilByLoad, FairQuery, FairCommit, FairRefuse
     DEF Approve, At, Row, Args, RowOps, Rests

LEMMA RejectFair ==
  ASSUME NEW s, Tame(s), Reject(s)
  PROVE  Fairly(s)
<1>1. Proper(session[s].req) /\ Civil(s, session[s])
  BY DEF Tame
<1>. QED
  BY <1>1, LastStates, CivilByJudging, CivilByLoad, FairQuery, FairCommit, FairRefuse
     DEF Reject, At, Row, Args, RowOps, Rests

LEMMA ConfirmPaymentFair ==
  ASSUME NEW s, Tame(s), ConfirmPayment(s)
  PROVE  Fairly(s)
<1>1. Proper(session[s].req) /\ Civil(s, session[s])
  BY DEF Tame
<1>. QED
  BY <1>1, LastStates, CivilByJudging, CivilByLoad, FairQuery, FairCommit, FairRefuse
     DEF ConfirmPayment, At, RowOps, Rests, Own

LEMMA DisputeFair ==
  ASSUME NEW s, Tame(s), Dispute(s)
  PROVE  Fairly(s)
<1>1. Proper(session[s].req) /\ Civil(s, session[s])
  BY DEF Tame
<1>. QED
  BY <1>1, LastStates, CivilByJudging, CivilByLoad, FairQuery, FairCommit, FairRefuse
     DEF Dispute, At, RowOps, Rests, Own

LEMMA CancelOfferFair ==
  ASSUME NEW s, Tame(s), CancelOffer(s)
  PROVE  Fairly(s)
<1>1. Proper(session[s].req) /\ Civil(s, session[s])
  BY DEF Tame
<1>. QED
  BY <1>1, LastStates, CivilByJudging, CivilByLoad, FairQuery, FairCommit, FairRefuse
     DEF CancelOffer, At, RowOps, Rests, Own

LEMMA AnswerFair ==
  ASSUME NEW s, Tame(s), Answer(s)
  PROVE  Fairly(s)
<1>1. Proper(session[s].req) /\ Civil(s, session[s])
  BY DEF Tame
<1>. QED
  BY <1>1, LastStates, CivilByJudging, CivilByLoad, FairQuery, FairCommit, FairRefuse
     DEF Answer, At, RowOps, Rests, Loaded, Args

LEMMA RelayFair ==
  ASSUME NEW s, Tame(s), Relay(s)
  PROVE  Fairly(s)
<1>1. Proper(session[s].req) /\ Civil(s, session[s])
  BY DEF Tame
<1>2. CASE At(s, "relay_message", "found") /\ Registered(s).status = "queued"
  BY <1>1, <1>2, LastStates, CivilByJudging, FairCommit
     DEF Relay, At, RowOps, Rests, Registered
<1>3. CASE At(s, "confirm_message", "found")
  <2>1. Row(s) \in DOMAIN session[s].read
    BY <1>3 DEF Tame, Ready, RowRead, RowOps, Rests, At, Row, Args
  <2>2. Civil(s, Set(session[s], Row(s), [status |-> "confirmed"]))
    BY <1>1, <1>3, <2>1, LastStates, CivilByEnding DEF At
  <2>. QED
    BY <1>3, <2>2, FairCommit DEF Relay, At
<1>. QED
  BY <1>2, <1>3, FairRefuse DEF Relay

LEMMA ConfirmBridgeFair ==
  ASSUME NEW s, Tame(s), ConfirmBridge(s)
  PROVE  Fairly(s)
<1>1. Proper(session[s].req) /\ Civil(s, session[s])
  BY DEF Tame
<1>. QED
  BY <1>1, LastStates, CivilByJudging, CivilByLoad, FairQuery, FairCommit, FairRefuse
     DEF ConfirmBridge, At, RowOps, Rests

LEMMA CloseProposalFair ==
  ASSUME NEW s, Tame(s), CloseProposal(s)
  PROVE  Fairly(s)
<1>1. Proper(session[s].req) /\ Civil(s, session[s])
  BY DEF Tame
<1>. QED
  BY <1>1, LastStates, CivilByJudging, FairCommit, FairRefuse
     DEF CloseProposal, Args, RowOps, Rests

(* Changes leave the rows that were read as they are.                      *)
LEMMA ReadsKept ==
  ASSUME NEW k, IsSession(k), NEW r
  PROVE  /\ \A columns : Set(k, r, columns).read = k.read
         /\ \A column, n : Add(k, r, column, n).read = k.read
<1>1. ASSUME NEW columns PROVE Set(k, r, columns).read = k.read
  BY SetFields DEF Set
<1>. QED
  BY <1>1, AddIs

LEMMA SettleFair ==
  ASSUME NEW s, Tame(s), Settle(s)
  PROVE  Fairly(s)
<1> DEFINE k == session[s]
<1>1. Proper(k.req) /\ Civil(s, k) /\ k.req.op = "verify" /\ k.pc = "settle"
  BY DEF Tame, Settle, At
<1>2. Row(s) = Args(s).row /\ Row(s) \in DOMAIN k.read
  BY <1>1 DEF Tame, Ready, RowRead, Row, Args
<1>3. Civil(s, Set(k, Row(s), [status |-> "confirmed", amount |-> Args(s).amount]))
  BY <1>1, <1>2, LastStates, CivilByEnding
<1>4. Civil(s, Deposit(k, Args(s)))
  BY <1>1, <1>2, <1>3, CivilByInsert DEF Deposit
<1>5. CASE End(s, "done")
  BY <1>5, FairEnd DEF Closings
<1>6. CASE ~End(s, "done")
  <2> DEFINE a == Args(s)
             d == Deposit(k, a)
             m == Add(d, W(a.user), a.column, a.amount)
             n == Reference(m, <<"CREDIT", a.row>>, 0)
  <2>1. /\ Commit(s, Pay(n, Row(s)))
        /\ Copy(k, Row(s)) = Absent \/ Copy(k, Row(s)).status # "confirmed"
    BY <1>2, <1>6 DEF Settle
  <2>2. Lasts(s, {"confirmed"}) /\ Row(s)[1] = "deposit"
    BY <1>1, LastStates, Kinds DEF TableOf
  <2>3. IsSession(k)
    BY <1>1 DEF Civil, Sound
  <2>4. Given(d, Row(s))
    <3>1. CASE Exists(k, Row(s))
      <4>1. "status" \in DOMAIN Copy(k, Row(s)) => Copy(k, Row(s)).status # "confirmed"
        BY <2>1 DEF Absent
      <4>2. Open(k, Row(s))
        BY <1>1, <1>2, <2>2, <4>1, OpenByCopy DEF Lasts
      <4>. QED
        BY <1>2, <2>2, <2>3, <3>1, <4>2, GivenBySet DEF Deposit, Lasts
    <3>2. CASE ~Exists(k, Row(s))
      BY <1>2, <2>2, <2>3, <3>2, GivenByInsert DEF Deposit, Lasts
    <3>. QED
      BY <3>1, <3>2
  <2>. HIDE DEF d
  <2>5. Civil(s, m) /\ Given(m, Row(s))
    <3>1. Civil(s, d) /\ IsSession(d)
      BY <1>4 DEF Civil, Sound, d
    <3>2. Civil(s, m)
      BY <3>1, CivilByWallet
    <3>3. Row(s) # W(a.user)
      BY <2>2 DEF W
    <3>. QED
      BY <2>4, <3>1, <3>2, <3>3, GivenByWallet
  <2>. HIDE DEF m
  <2>6. Civil(s, n) /\ Given(n, Row(s))
    <3>1. Ref(<<"CREDIT", a.row>>) # Row(s)
      BY <2>2 DEF Ref
    <3>. QED
      BY <2>5, <3>1, CivilByReference, GivenByInsert DEF Reference, Civil, Sound
  <2>. HIDE DEF n
  <2>. QED
    BY <2>1, <2>6, FairPayment
<1>. QED
  BY <1>5, <1>6

LEMMA WebhookCreditFair ==
  ASSUME NEW s, Tame(s), WebhookCredit(s)
  PROVE  Fairly(s)
<1> DEFINE tx == Copy(session[s], Row(s))
           k == Add(session[s], W(tx.user), tx.column, tx.amount)
<1>1. Proper(session[s].req) /\ Civil(s, session[s])
      /\ session[s].req.op = "webhook" /\ session[s].pc = "wallet"
  BY DEF Tame, WebhookCredit, At
<1>2. Row(s) \in DOMAIN session[s].read
  BY <1>1 DEF Tame, Ready, RowRead, RowOps, Rests, Row, Args
<1>3. Civil(s, k) /\ k.read = session[s].read
  BY <1>1, CivilByWallet, ReadsKept DEF Civil, Sound, Grew
<1>4. Commit(s, Pay(Set(k, Row(s), [status |-> "confirmed"]), Row(s)))
  BY DEF WebhookCredit
<1>. HIDE DEF k
<1>5. Civil(s, Set(k, Row(s), [status |-> "confirmed"]))
  BY <1>1, <1>2, <1>3, LastStates, CivilByEnding
<1>6. Given(Set(k, Row(s), [status |-> "confirmed"]), Row(s))
  <2>1. Open(k, Row(s))
    BY <1>1, <1>3 DEF Tame, Ready, RowPaid, Row, Args, Open
  <2>. QED
    BY <1>1, <1>3, <2>1, LastStates, GivenBySet DEF Lasts, Civil, Sound
<1>. QED
  BY <1>4, <1>5, <1>6, FairPayment

LEMMA FailPendingFair ==
  ASSUME NEW s, Tame(s), FailPending(s)
  PROVE  Fairly(s)
<1>1. At(s, "fail", "tx") => Open(session[s], Row(s))
  BY DEF Tame, Ready, RowOpen, At, Row, Args
<1>. QED
  BY <1>1, CivilByOpen, CivilByLoad, FairQuery, FairCommit, FairRefuse DEF FailPending, Tame

LEMMA ReleaseFair ==
  ASSUME NEW s, Tame(s), Release(s)
  PROVE  Fairly(s)
<1> DEFINE k == Add(session[s], W(Own(s).buyer), "vit", Own(s).amount)
<1>1. Open(session[s], Row(s))
  BY DEF Release, Tame, Ready, RowOpen, At, Row, Args
<1>2. Civil(s, k) /\ k.read = session[s].read
  BY CivilByWallet, ReadsKept DEF Tame, Civil, Sound, Grew
<1>3. Commit(s, Pay(Set(k, Row(s), [status |-> "completed"]), Row(s)))
  BY DEF Release
<1>. HIDE DEF k
<1>4. Open(k, Row(s))
  BY <1>1, <1>2 DEF Open
<1>5. Civil(s, Set(k, Row(s), [status |-> "completed"]))
  BY <1>2, <1>4, CivilByOpen
<1>6. Given(Set(k, Row(s), [status |-> "completed"]), Row(s))
  <2>1. Lasts(s, {"completed", "cancelled"})
    BY LastStates DEF Release, Tame, At
  <2>. QED
    BY <1>2, <1>4, <2>1, GivenBySet DEF Lasts, Civil, Sound
<1>. QED
  BY <1>3, <1>5, <1>6, FairPayment

LEMMA ExecuteProposalFair ==
  ASSUME NEW s, Tame(s), ExecuteProposal(s)
  PROVE  Fairly(s)
<1> DEFINE k == Set(session[s], Args(s).config, [value |-> Args(s).value])
<1>1. CASE At(s, "execute", "target")
  BY <1>1, CivilByLoad, FairQuery, FairRefuse DEF ExecuteProposal, Tame, At
<1>2. CASE At(s, "execute", "config")
  <2>1. Open(session[s], Target(s))
    BY <1>2 DEF Tame, Ready, RowOpen, At, Target, Args
  <2>2. Civil(s, k) /\ k.read = session[s].read
    BY CivilBySet, ReadsKept DEF Tame, Civil, Sound, Grew
  <2>3. Commit(s, Set(k, Target(s), [status |-> "executed"]))
    BY <1>2 DEF ExecuteProposal, At
  <2>. HIDE DEF k
  <2>4. Civil(s, Set(k, Target(s), [status |-> "executed"]))
    BY <2>1, <2>2, CivilByOpen DEF Open
  <2>. QED
    BY <2>3, <2>4, FairCommit
<1>. QED
  BY <1>1, <1>2 DEF ExecuteProposal

LEMMA CastVoteFair ==
  ASSUME NEW s, Tame(s), CastVote(s)
  PROVE  Fairly(s)
<1>1. CASE At(s, "vote", "target")
  BY <1>1, FairQuery, FairRefuse DEF CastVote, Tame, At
<1>2. CASE At(s, "vote", "power")
  <2> DEFINE a == Args(s)
             k == Insert(session[s], VoteKey(s), [choice |-> a.choice, power |-> a.power])
             n == Copy(session[s], a.row)[a.choice] + a.power
  <2>1. CommitThen(s, Set(k, a.row, Only(a.choice, n)), "voted")
    BY <1>2 DEF CastVote, At
  <2>2. Civil(s, k)
    BY CivilByInsert DEF Tame
  <2>3. a.choice # "status"
    BY <1>2 DEF At, Tame, Proper, Args
  <2>. HIDE DEF k, n, a
  <2>4. DOMAIN Only(a.choice, n) = {a.choice}
    BY OnlyIs
  <2>. QED
    BY <2>1, <2>2, <2>3, <2>4, CivilBySet, FairCommitThen
<1>3. CASE At(s, "vote", "voted")
  <2>1. Open(session[s], Target(s))
    BY <1>3 DEF Tame, Ready, RowOpen, At, Target, Args
  <2>. QED
    BY <1>3, <2>1, CivilByOpen, FairCommit, FairEnd DEF Closings, CastVote, At, Tame
<1>. QED
  BY <1>1, <1>2, <1>3 DEF CastVote

LEMMA ReviewAppealFair ==
  ASSUME NEW s, Tame(s), ReviewAppeal(s)
  PROVE  Fairly(s)
<1>1. Proper(session[s].req) /\ Civil(s, session[s])
  BY DEF Tame
<1>2. CASE At(s, "review_appeal", "start")
  BY <1>1, <1>2, CivilByLoad, FairQuery DEF ReviewAppeal, At
<1>3. CASE At(s, "review_appeal", "review") /\ Copy(session[s], Row(s)).status = "pending"
  <2>1. \A columns : Civil(s, Set(session[s], Row(s), columns))
    BY <1>1, <1>3, LastStates, CivilByJudging DEF At, RowOps, Rests
  <2>. QED
    BY <1>3, <2>1, CivilByLoad, FairQuery, FairCommit, FairRefuse DEF ReviewAppeal, At
<1>4. CASE At(s, "review_appeal", "restore")
  BY <1>1, <1>4, CivilByStatusless, KindsThatStay, CivilByLoad, FairQuery, FairCommit, FairRefuse
     DEF ReviewAppeal, At
<1>5. CASE At(s, "review_appeal", "restake")
  BY <1>1, <1>5, CivilByWallet, CivilByReference, CivilByPayRow, FairCommit
     DEF ReviewAppeal, At
<1>. QED
  BY <1>2, <1>3, <1>4, <1>5, FairRefuse DEF ReviewAppeal

LEMMA UpgradeFair ==
  ASSUME NEW s, Tame(s), Upgrade(s)
  PROVE  Fairly(s)
<1>1. Proper(session[s].req) /\ Civil(s, session[s])
  BY DEF Tame
<1>2. CASE At(s, "upgrade", "found")
  BY <1>1, <1>2, CivilByInsert, FairCommit DEF Upgrade, At
<1>3. CASE At(s, "execute_upgrade", "found")
  BY <1>1, <1>3, CivilByLoad, FairQuery, FairRefuse DEF Upgrade, At
<1>4. CASE At(s, "execute_upgrade", "contract")
  <2> DEFINE u == Registered(s)
             k == Set(session[s], u.contract,
                      [max |-> u.max, numeric |-> u.numeric, version |-> u.version])
  <2>1. Row(s) \in DOMAIN session[s].read
    BY <1>4 DEF Tame, Ready, RowRead, RowOps, Rests, At, Row, Args
  <2>2. Civil(s, k) /\ k.read = session[s].read
    BY <1>1, CivilBySet, ReadsKept DEF Civil, Sound, Grew
  <2>3. Commit(s, Pay(Set(k, Row(s), [status |-> "executed"]), Row(s)))
    BY <1>4 DEF Upgrade, At
  <2>. HIDE DEF k
  <2>4. Civil(s, Set(k, Row(s), [status |-> "executed"]))
    BY <1>1, <1>4, <2>1, <2>2, LastStates, CivilByEnding DEF At
  <2>5. Given(Set(k, Row(s), [status |-> "executed"]), Row(s))
    <3>1. Open(k, Row(s))
      BY <1>4, <2>2 DEF Tame, Ready, RowPaid, At, Row, Args, Open
    <3>2. Lasts(s, {"executed"})
      BY <1>1, <1>4, LastStates DEF At
    <3>. QED
      BY <2>2, <3>1, <3>2, GivenBySet DEF Lasts, Civil, Sound
  <2>. QED
    BY <2>3, <2>4, <2>5, FairPayment
<1>. QED
  BY <1>2, <1>3, <1>4 DEF Upgrade

LEMMA GatekeepFair ==
  ASSUME NEW s, Tame(s), Gatekeep(s)
  PROVE  Fairly(s)
<1> DEFINE k == session[s]
           requests == {r \in Known(k) : r[1] = "withdrawal"}
<1>1. CASE At(s, "gatekeeper", "start")
  BY <1>1, CivilByLoadAll, FairQuery DEF Gatekeep, Tame, At
<1>2. CASE At(s, "gatekeeper", "requests")
  <2>1. PICK verdict \in [requests -> {"processed", "manual_review"}] :
          Commit(s, SetEach(k, [r \in requests |-> [status |-> verdict[r]]]))
    BY <1>2 DEF Gatekeep, At
  <2> DEFINE f == [r \in requests |-> [status |-> verdict[r]]]
  <2>2. ASSUME NEW r \in requests PROVE Open(k, r)
    BY <1>2 DEF Tame, Ready, RequestsOpen, Known, At
  <2>3. Fair(k, f)
    BY <2>2 DEF Fair
  <2>. HIDE DEF f
  <2>. QED
    BY <2>1, <2>3, CivilByFair, FairCommit DEF Tame, f
<1>. QED
  BY <1>1, <1>2 DEF Gatekeep

LEMMA CivilByPools ==
  ASSUME NEW s, NEW k, Civil(s, k), NEW r, NEW n
  PROVE  Civil(s, Deposited(k, r, n)) /\ Civil(s, Spent(k, r, n))
BY CivilBySet DEF Deposited, Spent

LEMMA CivilByGrant ==
  ASSUME NEW s, Proper(session[s].req), session[s].req.op \in {"review_grant", "execute_grant"},
         NEW k, Civil(s, k), NEW columns
  PROVE  Civil(s, Set(k, Target(s), columns))
<1>1. ~Ends(Target(s))
  BY Kinds DEF TableOf, Ends, TerminalStates
<1>. QED
  BY <1>1, CivilByStatusless

LEMMA CivilByOpenConsensus ==
  ASSUME NEW s, NEW k, Civil(s, k), NEW r
  PROVE  Civil(s, OpenConsensus(k, r))
BY CivilByLoad, CivilByInsert DEF OpenConsensus

LEMMA CivilByProfile ==
  ASSUME NEW s, NEW k, Civil(s, k), NEW columns
  PROVE  Civil(s, Set(k, Profile(s), columns))
BY CivilByStatusless, KindsThatStay DEF Profile

LEMMA CivilByCompleted ==
  ASSUME NEW s, Civil(s, session[s])
  PROVE  Civil(s, Completed(s))
BY CivilBySet DEF Completed

LEMMA CivilByNode ==
  ASSUME NEW s, Proper(session[s].req), session[s].req.op = "verify_node",
         NEW k, Civil(s, k), NEW columns
  PROVE  Civil(s, Set(k, Row(s), columns))
<1>1. ~Ends(Row(s))
  BY Kinds DEF TableOf, Ends, TerminalStates
<1>. QED
  BY <1>1, CivilByStatusless

LEMMA CivilByOffer ==
  ASSUME NEW s, Proper(session[s].req), session[s].req.op = "postback",
         NEW k, Civil(s, k), NEW columns
  PROVE  Civil(s, Set(k, Row(s), columns))
<1>1. ~Ends(Row(s))
  BY Kinds DEF TableOf, Ends, TerminalStates
<1>. QED
  BY <1>1, CivilByStatusless

LEMMA CivilByProof ==
  ASSUME NEW s, Proper(session[s].req), NEW k, Civil(s, k), NEW columns
  PROVE  /\ session[s].req.op = "issue_challenge" => Civil(s, Set(k, Row(s), columns))
         /\ session[s].req.op = "respond" => Civil(s, Set(k, Proof(s), columns))
<1>1. session[s].req.op = "issue_challenge" => ~Ends(Row(s))
  BY Kinds DEF TableOf, Ends, TerminalStates
<1>2. session[s].req.op = "respond" => ~Ends(Proof(s))
  BY DEF Proper, Proof, Row, Args, Ends, TerminalStates
<1>. QED
  BY <1>1, <1>2, CivilByStatusless

LEMMA CivilByClaimed ==
  ASSUME NEW s, NEW k, Civil(s, k), NEW r
  PROVE  Civil(s, Claimed(k, r))
BY CivilBySet DEF Claimed

LEMMA CivilByChapter ==
  ASSUME NEW s, NEW k, Civil(s, k), NEW n
  PROVE  /\ Civil(s, Experienced(k, s)) /\ Civil(s, Advanced(k, s, n))
         /\ Civil(s, Evaluated(k, s)) /\ Civil(s, Granted(k, s))
BY CivilBySet DEF Experienced, Advanced, Evaluated, Granted

LEMMA CivilByResult ==
  ASSUME NEW s, NEW k, Civil(s, k), NEW S, NEW column, NEW outcome
  PROVE  Civil(s, WithResult(k, s, outcome)) /\ Civil(s, Graded(k, S, column, outcome))
<1>1. Civil(s, WithResult(k, s, outcome))
  BY CivilByStatusless, KindsThatStay DEF WithResult, MatchOf
<1> DEFINE f == [r \in S |-> [grade |-> IF Copy(k, r)[column] = outcome
                                        THEN "correct" ELSE "wrong"]]
<1>2. \A r \in DOMAIN f : "status" \notin DOMAIN f[r]
  OBVIOUS
<1>3. Graded(k, S, column, outcome) = SetEach(k, f)
  BY DEF Graded
<1>. HIDE DEF f
<1>. QED
  BY <1>1, <1>2, <1>3, CivilBySetEach

LEMMA CivilByCompared ==
  ASSUME NEW s, Civil(s, session[s]), NEW latest
  PROVE  Civil(s, Compared(s, latest))
<1>1. ~Ends(Verification(s))
  BY KindsThatStay DEF Verification
<1>. QED
  BY <1>1, CivilByStatusless, CivilByInsert DEF Compared

LEMMA EpochRewardsFair ==
  ASSUME NEW s, Tame(s), EpochRewards(s)
  PROVE  Fairly(s)
<1> DEFINE k == session[s]
           n == Args(s).amount
           f == [r \in Known(k) |-> [balance |-> Copy(k, r).balance + n,
                                     deposited |-> Copy(k, r).deposited + n]]
<1>1. CASE At(s, "epoch", "start")
  BY <1>1, CivilByLoadAll, FairQuery DEF EpochRewards, Tame, At
<1>2. CASE At(s, "epoch", "pools")
  <2>1. Commit(s, SetEach(k, f))
    BY <1>2 DEF EpochRewards, At
  <2>2. \A r \in DOMAIN f : "status" \notin DOMAIN f[r]
    OBVIOUS
  <2>. HIDE DEF f
  <2>. QED
    BY <2>1, <2>2, CivilBySetEach, FairCommit DEF Tame
<1>. QED
  BY <1>1, <1>2 DEF EpochRewards

LEMMA CivilByAccept ==
  ASSUME NEW s, Civil(s, session[s]), NEW outcome
  PROVE  Civil(s, Accept(s, outcome)) /\ Accept(s, outcome).read = session[s].read
<1> DEFINE k == session[s]
           f == [r \in Results(s) |->
                   LET accepted == Copy(k, r).result = outcome IN
                   IF Args(s).op = "agent" THEN [accepted |-> accepted]
                   ELSE [accepted |-> accepted, disputed |-> FALSE]]
<1>1. \A r \in DOMAIN f : "status" \notin DOMAIN f[r]
  OBVIOUS
<1>2. Accept(s, outcome) = SetEach(k, f)
  BY DEF Accept
<1>. HIDE DEF f
<1>3. Civil(s, SetEach(k, f))
  BY <1>1, CivilBySetEach
<1>4. SetEach(k, f).read = k.read
  BY SetFields DEF Civil, Sound
<1>. QED
  BY <1>2, <1>3, <1>4

LEMMA CheckResultsFair ==
  ASSUME NEW s, Tame(s), CheckResults(s)
  PROVE  Fairly(s)
<1> DEFINE k == session[s]
           g == [r \in Results(s) |-> [disputed |-> TRUE]]
<1>1. \A outcome : Civil(s, Accept(s, outcome))
  BY CivilByAccept DEF Tame
<1>2. \A r \in DOMAIN g : "status" \notin DOMAIN g[r]
  OBVIOUS
<1>3. \/ Refuse(s) \/ Commit(s, k) \/ Commit(s, SetEach(k, g))
      \/ \E outcome : Query(s, Load(Accept(s, outcome), Cp(s)), "consensus")
  BY DEF CheckResults
<1>. HIDE DEF g
<1>4. Civil(s, SetEach(k, g))
  BY <1>2, CivilBySetEach DEF Tame
<1>. QED
  BY <1>1, <1>3, <1>4, CivilByLoad, FairQuery, FairCommit, FairRefuse DEF Tame

LEMMA GradeForecastsFair ==
  ASSUME NEW s, Tame(s), GradeForecasts(s)
  PROVE  Fairly(s)
<1> DEFINE k == session[s]
           forecasts == Known(k) \cap ForecastsOf(Args(s).match)
           f == [r \in forecasts |->
                   [grade |-> IF k.read[r].pick = Outcome(s) THEN "accurate"
                              ELSE "inaccurate"]]
           g == [v \in {Validator(r[2][2]) : r \in forecasts} |->
                   [graded |-> k.read[v].graded + 1]]
<1>1. Commit(s, SetEach(SetEach(k, f), g))
  BY DEF GradeForecasts
<1>2. /\ \A r \in DOMAIN f : "status" \notin DOMAIN f[r]
      /\ \A r \in DOMAIN g : "status" \notin DOMAIN g[r]
  OBVIOUS
<1>. HIDE DEF f, g
<1>3. Civil(s, SetEach(k, f))
  BY <1>2, CivilBySetEach DEF Tame
<1>4. Civil(s, SetEach(SetEach(k, f), g))
  BY <1>2, <1>3, CivilBySetEach
<1>. QED
  BY <1>1, <1>4, FairCommit

LEMMA ResolveFair ==
  ASSUME NEW s, Tame(s), Resolve(s)
  PROVE  Fairly(s)
<1> DEFINE k == session[s]
           nodes == {r \in Known(k) : r[1] = "node"}
           f == [r \in nodes |-> [earned |-> Copy(k, r).earned + Prize,
                                  passes |-> Copy(k, r).passes + 1]]
<1>1. CASE At(s, "respond", "node")
  <2>1. Commit(s, SetEach(k, f)) \/ Commit(s, k)
    BY <1>1 DEF Resolve, At
  <2>2. \A r \in DOMAIN f : "status" \notin DOMAIN f[r]
    OBVIOUS
  <2>. HIDE DEF f
  <2>. QED
    BY <2>1, <2>2, CivilBySetEach, FairCommit DEF Tame
<1>2. CASE At(s, "respond", "proof")
  BY <1>2, CivilByProof, CivilByLoad, CivilByLoadAll, FairQuery DEF Resolve, Tame, At
<1>3. CASE At(s, "respond", "reward")
  BY <1>3, CivilByWallet, CivilByPayReference, CivilByLoadAll, FairQuery
     DEF Resolve, Tame, At
<1>. QED
  BY <1>1, <1>2, <1>3 DEF Resolve

LEMMA LoadRowFair ==
  ASSUME NEW s, Tame(s), LoadRow(s)
  PROVE  Fairly(s)
BY CivilByLoad, FairRefuse, FairQuery DEF LoadRow, Tame

LEMMA CreateOfferFair ==
  ASSUME NEW s, Tame(s), CreateOffer(s)
  PROVE  Fairly(s)
BY CivilByInsert, CivilByWallet, FairRefuse, FairCommit DEF CreateOffer, Tame

LEMMA RefundEscrowFair ==
  ASSUME NEW s, Tame(s), RefundEscrow(s)
  PROVE  Fairly(s)
<1> DEFINE k == Add(session[s], W(Own(s).user), "vit", Own(s).escrowed)
           m == Set(k, Row(s), [escrowed |-> 0])
<1>1. Civil(s, session[s]) /\ Given(session[s], Row(s))
  BY DEF RefundEscrow, Tame, Ready, RowPaid, At, Row, Args
<1>2. Civil(s, k) /\ Given(k, Row(s))
  BY <1>1, GivenKept, CivilByWallet DEF Civil, Sound
<1>3. Commit(s, Pay(m, Row(s)))
  BY DEF RefundEscrow
<1>. HIDE DEF k
<1>4. Civil(s, m) /\ Given(m, Row(s))
  BY <1>2, GivenKept, CivilBySet DEF Civil, Sound
<1>. QED
  BY <1>3, <1>4, FairPayment

LEMMA CreateOrderFair ==
  ASSUME NEW s, Tame(s), CreateOrder(s)
  PROVE  Fairly(s)
BY CivilByLoad, CivilByInsert, CivilByWallet, CivilByAdd, FairRefuse, FairQuery,
   FairCommit
   DEF CreateOrder, Tame, Ordered, Wallet

LEMMA ReleaseLoadFair ==
  ASSUME NEW s, Tame(s), ReleaseLoad(s)
  PROVE  Fairly(s)
BY CivilByLoad, FairRefuse, FairQuery DEF ReleaseLoad, Tame

LEMMA BridgeOutCheckFair ==
  ASSUME NEW s, Tame(s), BridgeOutCheck(s)
  PROVE  Fairly(s)
BY FairEnd, FairQuery DEF Closings, BridgeOutCheck, Tame

LEMMA BridgeInCheckFair ==
  ASSUME NEW s, Tame(s), BridgeInCheck(s)
  PROVE  Fairly(s)
BY FairEnd, FairQuery DEF Closings, BridgeInCheck, Tame

LEMMA BridgeLockFair ==
  ASSUME NEW s, Tame(s), BridgeLock(s)
  PROVE  Fairly(s)
BY FairQueryForUpdate DEF BridgeLock, Tame

LEMMA BridgeDebitFair ==
  ASSUME NEW s, Tame(s), BridgeDebit(s)
  PROVE  Fairly(s)
BY CivilByWallet, FairRefuse, FairQuery DEF BridgeDebit, Tame, Wallet

LEMMA BridgeRecordFair ==
  ASSUME NEW s, Tame(s), BridgeRecord(s)
  PROVE  Fairly(s)
BY CivilByInsert, FairCommit DEF BridgeRecord, Tame

LEMMA BridgeCreditFair ==
  ASSUME NEW s, Tame(s), BridgeCredit(s)
  PROVE  Fairly(s)
BY CivilByPayReference, CivilByWallet, FairCommit DEF BridgeCredit, InRef, Tame, Wallet

LEMMA InitiateLoadFair ==
  ASSUME NEW s, Tame(s), InitiateLoad(s)
  PROVE  Fairly(s)
BY CivilByLoad, CivilByWallet, FairRefuse, FairQuery DEF InitiateLoad, Tame, Wallet

LEMMA InitiateFair ==
  ASSUME NEW s, Tame(s), Initiate(s)
  PROVE  Fairly(s)
BY CivilByInsert, CivilByWallet, CivilByAdd, FairCommit DEF Initiate, Tame

LEMMA RelayedFair ==
  ASSUME NEW s, Tame(s), Relayed(s)
  PROVE  Fairly(s)
<1>1. CASE At(s, "relay", "pool")
  BY <1>1, CivilByLoad, FairQuery, FairCommit DEF Relayed, Tame, At
<1>2. CASE At(s, "relay", "wallet")
  <2>1. Given(session[s], Row(s))
    BY <1>2 DEF Tame, Ready, RowPaid, At, Row, Args
  <2>. QED
    BY <1>2, <2>1, GivenKept, CivilByWallet, FairPayment
       DEF Relayed, Tame, Civil, Sound, At
<1>. QED
  BY <1>1, <1>2 DEF Relayed

LEMMA LoadTargetFair ==
  ASSUME NEW s, Tame(s), LoadTarget(s)
  PROVE  Fairly(s)
BY CivilByLoad, FairQuery DEF LoadTarget, Tame

LEMMA PoolDepositFair ==
  ASSUME NEW s, Tame(s), PoolDeposit(s)
  PROVE  Fairly(s)
BY CivilByPools, FairCommit DEF PoolDeposit, Tame

LEMMA PoolSpendFair ==
  ASSUME NEW s, Tame(s), PoolSpend(s)
  PROVE  Fairly(s)
BY CivilByPools, FairRefuse, FairCommit DEF PoolSpend, Tame

LEMMA ReviewGrantFair ==
  ASSUME NEW s, Tame(s), ReviewGrant(s)
  PROVE  Fairly(s)
BY CivilBySet, CivilByGrant, FairCommit DEF ReviewGrant, Tame, At

LEMMA ExecuteGrantFair ==
  ASSUME NEW s, Tame(s), ExecuteGrant(s)
  PROVE  Fairly(s)
BY CivilByLoad, CivilBySet, CivilByPayRow, CivilByPools, CivilByGrant, FairRefuse,
   FairQuery, FairCommit, FairCommitThen
   DEF ExecuteGrant, Tame, At, Target, Row

LEMMA RevenueFair ==
  ASSUME NEW s, Tame(s), Revenue(s)
  PROVE  Fairly(s)
BY CivilByLoad, CivilByPools, FairRefuse, FairQuery, FairCommit, FairCommitThen
   DEF Revenue, Tame

LEMMA StakeLoadFair ==
  ASSUME NEW s, Tame(s), StakeLoad(s)
  PROVE  Fairly(s)
BY CivilByLoad, CivilByOpenConsensus, FairQueryForUpdate, FairRefuse, FairQuery
   DEF StakeLoad, Tame

LEMMA StakeOnFair ==
  ASSUME NEW s, Tame(s), StakeOn(s)
  PROVE  Fairly(s)
BY CivilByInsert, CivilByWallet, FairRefuse, FairCommit DEF StakeOn, Tame

LEMMA SubmitResultFair ==
  ASSUME NEW s, Tame(s), SubmitResult(s)
  PROVE  Fairly(s)
BY CivilByLoadAll, CivilByInsert, FairRefuse, FairQuery DEF SubmitResult, Tame

LEMMA LoadStakesFair ==
  ASSUME NEW s, Tame(s), LoadStakes(s)
  PROVE  Fairly(s)
BY CivilByLoadAll, CivilByOpenConsensus, FairRefuse, FairQuery, FairCommit
   DEF LoadStakes, Tame

LEMMA LoadWalletsFair ==
  ASSUME NEW s, Tame(s), LoadWallets(s)
  PROVE  Fairly(s)
BY CivilByLoadAll, FairQuery DEF LoadWallets, Tame

LEMMA LoadProfileFair ==
  ASSUME NEW s, Tame(s), LoadProfile(s)
  PROVE  Fairly(s)
BY CivilByLoad, FairQueryForUpdate, FairRefuse, FairQuery DEF LoadProfile, Tame

LEMMA ApplyFair ==
  ASSUME NEW s, Tame(s), Apply(s)
  PROVE  Fairly(s)
BY CivilByInsert, CivilByWallet, FairQueryForUpdate, FairRefuse, FairCommit
   DEF Apply, Tame

LEMMA DecideFair ==
  ASSUME NEW s, Tame(s), Decide(s)
  PROVE  Fairly(s)
BY CivilBySet, FairQueryForUpdate, CivilByProfile, FairRefuse, FairQuery, FairCommit
   DEF Decide, Tame

LEMMA ForbiddenFair ==
  ASSUME NEW s, Tame(s), Forbidden(s)
  PROVE  Fairly(s)
BY FairRefuse DEF Forbidden, Tame

LEMMA SubmitForecastFair ==
  ASSUME NEW s, Tame(s), SubmitForecast(s)
  PROVE  Fairly(s)
BY CivilByInsert, CivilByOpenConsensus, FairRefuse, FairCommit
   DEF SubmitForecast, Tame

LEMMA SubmitAppealFair ==
  ASSUME NEW s, Tame(s), SubmitAppeal(s)
  PROVE  Fairly(s)
BY CivilByInsert, FairCommit DEF SubmitAppeal, Tame

LEMMA ProgressLoadFair ==
  ASSUME NEW s, Tame(s), ProgressLoad(s)
  PROVE  Fairly(s)
BY CivilByLoad, CivilByLoadAll, CivilByInsert, FairRefuse, FairQuery
   DEF ProgressLoad, Tame

LEMMA AddProgressFair ==
  ASSUME NEW s, Tame(s), AddProgress(s)
  PROVE  Fairly(s)
BY CivilBySet, FairQuery, FairCommit DEF AddProgress, Tame

LEMMA CompleteTaskFair ==
  ASSUME NEW s, Tame(s), CompleteTask(s)
  PROVE  Fairly(s)
BY CivilByLoad, CivilByPayReference, CivilByWallet, CivilByCompleted,
   FairQuery, FairCommit
   DEF CompleteTask, Tame

LEMMA PostbackFair ==
  ASSUME NEW s, Tame(s), Postback(s)
  PROVE  Fairly(s)
BY CivilByLoad, CivilBySet, CivilByInsert, CivilByReference, CivilByPayRow,
   CivilByWallet, CivilByOffer, FairEnd, FairQuery, FairCommit
   DEF Closings, Postback, Tame, At, Args, Row

LEMMA LoadFirstFair ==
  ASSUME NEW s, Tame(s), LoadFirst(s)
  PROVE  Fairly(s)
BY CivilByLoad, FairRefuse, FairQuery DEF LoadFirst, Tame

LEMMA VerifyNodeFair ==
  ASSUME NEW s, Tame(s), VerifyNode(s)
  PROVE  Fairly(s)
BY CivilBySet, CivilByNode, FairRefuse, FairCommit DEF VerifyNode, Tame, At

LEMMA ClaimEarningsFair ==
  ASSUME NEW s, Tame(s), ClaimEarnings(s)
  PROVE  Fairly(s)
BY CivilByLoad, CivilByPayReference, CivilByWallet, CivilByClaimed,
   FairRefuse, FairQuery, FairCommit
   DEF ClaimEarnings, Tame, Wallet

LEMMA IssueChallengeFair ==
  ASSUME NEW s, Tame(s), IssueChallenge(s)
  PROVE  Fairly(s)
BY CivilBySet, CivilByInsert, CivilByProof, FairEnd, FairRefuse, FairCommit
   DEF Closings, IssueChallenge, Tame, At

LEMMA ProphecyLoadFair ==
  ASSUME NEW s, Tame(s), ProphecyLoad(s)
  PROVE  Fairly(s)
BY CivilByLoadAll, FairQuery DEF ProphecyLoad, Tame

LEMMA CompleteChapterFair ==
  ASSUME NEW s, Tame(s), CompleteChapter(s)
  PROVE  Fairly(s)
BY CivilByLoad, CivilByChapter, FairEnd, FairRefuse, FairQuery, FairCommit
   DEF Closings, CompleteChapter, Tame, Grant, Wallet

LEMMA ClaimRewardsFair ==
  ASSUME NEW s, Tame(s), ClaimRewards(s)
  PROVE  Fairly(s)
BY CivilByLoad, CivilByChapter, FairEnd, FairRefuse, FairQuery, FairCommit
   DEF Closings, ClaimRewards, Tame, Grant, Wallet

LEMMA GrantChapterFair ==
  ASSUME NEW s, Tame(s), GrantChapter(s)
  PROVE  Fairly(s)
BY CivilByPayReference, CivilByWallet, CivilByChapter, FairCommit
   DEF GrantChapter, Tame, Wallet

LEMMA EvaluateFair ==
  ASSUME NEW s, Tame(s), Evaluate(s)
  PROVE  Fairly(s)
BY CivilByLoad, CivilByLoadAll, CivilByPayOf, CivilByWallet, CivilByChapter, FairQuery,
   FairCommit
   DEF Evaluate, Tame, Wallet, Others

LEMMA ActivateFair ==
  ASSUME NEW s, Tame(s), Activate(s)
  PROVE  Fairly(s)
BY CivilByLoad, CivilBySet, CivilByPayOf, CivilByWallet, FairEnd, FairQuery, FairCommit,
   FairCommitThen
   DEF Closings, Activate, Tame, User, Others

LEMMA LoadWalletFair ==
  ASSUME NEW s, Tame(s), LoadWallet(s)
  PROVE  Fairly(s)
BY CivilByLoad, FairQuery DEF LoadWallet, Tame

LEMMA CorrectFair ==
  ASSUME NEW s, Tame(s), Correct(s)
  PROVE  Fairly(s)
BY CivilByInsert, CivilByWallet, FairEnd, FairRefuse, FairCommit
   DEF Closings, Correct, Tame, Adjust, Wallet

LEMMA StarsFair ==
  ASSUME NEW s, Tame(s), Stars(s)
  PROVE  Fairly(s)
BY CivilByPayReference, CivilByWallet, FairCommit DEF Stars, Tame, Wallet

LEMMA RemitFair ==
  ASSUME NEW s, Tame(s), Remit(s)
  PROVE  Fairly(s)
BY CivilByReference, CivilByWallet, FairRefuse, FairCommit DEF Remit, Tame, Wallet

LEMMA ListModelFair ==
  ASSUME NEW s, Tame(s), ListModel(s)
  PROVE  Fairly(s)
BY CivilByInsert, CivilByWallet, FairRefuse, FairQuery, FairCommit
   DEF ListModel, Tame, Wallet

LEMMA StakeInVaultFair ==
  ASSUME NEW s, Tame(s), StakeInVault(s)
  PROVE  Fairly(s)
BY CivilByLoad, CivilByInsert, CivilByReference, CivilByWallet, CivilByAdd,
   FairRefuse, FairQuery, FairCommit
   DEF StakeInVault, Tame, Wallet

LEMMA RecordObservationFair ==
  ASSUME NEW s, Tame(s), RecordObservation(s)
  PROVE  Fairly(s)
BY CivilByLoad, CivilByLoadAll, CivilByInsert, CivilByResult, FairQuery
   DEF RecordObservation, Tame

LEMMA VerifyResultFair ==
  ASSUME NEW s, Tame(s), VerifyResult(s)
  PROVE  Fairly(s)
BY CivilByLoadAll, CivilByResult, CivilByCompared, FairQuery, FairCommit
   DEF VerifyResult, Tame

LEMMA UpdateResultFair ==
  ASSUME NEW s, Tame(s), UpdateResult(s)
  PROVE  Fairly(s)
BY CivilByLoad, CivilByLoadAll, CivilByResult, FairQuery, FairCommitThen
   DEF UpdateResult, Tame

LEMMA DecayFair ==
  ASSUME NEW s, Tame(s), Decay(s)
  PROVE  Fairly(s)
BY CivilByLoad, FairEnd, FairRefuse, FairQuery DEF Closings, Decay, Tame

LEMMA LookupFair ==
  ASSUME NEW s, Tame(s), Lookup(s)
  PROVE  Fairly(s)
BY CivilByLoad, FairRefuse, FairQuery DEF Lookup, Tame

LEMMA ProduceFair ==
  ASSUME NEW s, Tame(s), Produce(s)
  PROVE  Fairly(s)
BY CivilBySet, CivilByInsert, FairCommit DEF Produce, Tame, Produced

LEMMA CallFair ==
  ASSUME NEW s, Tame(s), Call(s)
  PROVE  Fairly(s)
BY CivilBySet, CivilByInsert, FairRefuse, FairQuery, FairCommit DEF Call, Tame, Called

LEMMA RecordTaskFair ==
  ASSUME NEW s, Tame(s), RecordTask(s)
  PROVE  Fairly(s)
BY CivilBySet, CivilByInsert, FairCommit DEF RecordTask, Tame

LEMMA BridgeSubmitFair ==
  ASSUME NEW s, Tame(s), BridgeSubmit(s)
  PROVE  Fairly(s)
<1> DEFINE k == session[s]
           m == [k EXCEPT !.pc = "record"]
<1>0. m = [k EXCEPT !.pc = "record"]
  OBVIOUS
<1>. HIDE DEF m
<1>1. /\ IsSession(m) /\ m.req = k.req /\ m.wrote = k.wrote /\ m.gone = k.gone
      /\ m.read = k.read /\ m.old = k.old /\ m.pays = k.pays
  BY <1>0 DEF Tame, Civil, Sound, Grew, IsSession
<1>2. Civil(s, m)
  BY <1>1, CivilByRest DEF Tame, Civil, Sound, Grew
<1>. QED
  BY <1>2, FairRefuse DEF BridgeSubmit, Fairly, Turns, Civil, m

LEMMA CivilByRefunded ==
  ASSUME NEW s, Civil(s, session[s]), NEW n
  PROVE  Civil(s, Refunded(s, n))
BY CivilByWallet, CivilByReference, CivilByPayOf DEF Refunded, Profile, Validator, Others

LEMMA EndProfileFair ==
  ASSUME NEW s, Tame(s), EndProfile(s)
  PROVE  Fairly(s)
<1> DEFINE S == {Profile(s)} \cup Found({r \in Rows : r[1] = "forecast"
                                                      /\ r[2][2] = Args(s).user})
<1>1. \A r \in S : ~Ends(r)
  BY DEF Profile, Validator, Found, Ends, TerminalStates
<1>. HIDE DEF S
<1>2. Civil(s, Delete(Refunded(s, Copy(session[s], Profile(s)).stake), S))
  BY <1>1, CivilByRefunded, CivilByDelete DEF Tame
<1>. QED
  BY <1>2, FairCommit DEF EndProfile, S

LEMMA SlashFair ==
  ASSUME NEW s, Tame(s), Slash(s)
  PROVE  Fairly(s)
BY CivilByRefunded, CivilByReference, CivilByProfile, FairCommit DEF Slash, Tame

(* Every nonempty set of naturals has a least element.                     *)
LEMMA Least ==
  ASSUME NEW T \in SUBSET Nat, T # {}
  PROVE  \E x \in T : \A y \in T : x <= y
<1> DEFINE less == OpToRel(<, Nat)
<1>1. PICK x \in T : \A y \in T : ~(<<y, x>> \in less)
  <2>1. IsWellFoundedOn(less, Nat)
    BY NatLessThanWellFounded
  <2>. HIDE DEF less
  <2>. QED
    BY <2>1, WFMin
<1>2. \A y \in T : ~(y < x)
  BY <1>1 DEF OpToRel
<1>. QED
  BY <1>2

(* The stakes that a settlement pays are open.                             *)
LEMMA StakesRead ==
  ASSUME NEW s, Tame(s), session[s].req.op \in Settlers, session[s].pc \in {"stakes", "pay"},
         NEW r \in Stakes(s)
  PROVE  r \in Rows /\ r[1] = "stake" /\ Open(session[s], r)
BY DEF Stakes, Known, Tame, Ready, StakesOpen

LEMMA NextIsDue ==
  ASSUME NEW s, Tame(s), session[s].req.op \in Settlers, session[s].pc = "pay",
         Due(s) # {}
  PROVE  NextDue(s) \in Due(s)
<1> DEFINE T == {r[2] : r \in Due(s)}
<1>1. \A r \in Due(s) : r[2] \in Nat
  BY StakesRead, StakeIds DEF Due
<1>2. T \in SUBSET Nat /\ T # {}
  BY <1>1
<1>3. PICK n \in T : \A y \in T : n <= y
  <2>. HIDE DEF T
  <2>. QED
    BY <1>2, Least
<1>4. \E r \in Due(s) : \A x \in Due(s) : r[2] <= x[2]
  BY <1>3
<1>. QED
  BY <1>4 DEF NextDue

LEMMA CivilByLosersMarked ==
  ASSUME NEW s, Tame(s), session[s].req.op \in Settlers, session[s].pc = "pay"
  PROVE  Civil(s, LosersMarked(s)) /\ LosersMarked(s).read = session[s].read
<1> DEFINE k == session[s]
           f == [r \in {x \in Stakes(s) : k.read[x].pick \in Outcomes \ {Outcome(s)}}
                   |-> [status |-> "lost"]]
<1>1. LosersMarked(s) = SetEach(k, f)
  BY DEF LosersMarked
<1>2. \A r \in DOMAIN f : r \in Stakes(s)
  OBVIOUS
<1>. HIDE DEF f
<1>3. Fair(k, f)
  BY <1>2, StakesRead DEF Fair
<1>4. Civil(s, SetEach(k, f))
  BY <1>3, CivilByFair DEF Tame
<1>5. SetEach(k, f).read = k.read
  BY SetFields DEF Tame, Civil, Sound, Grew
<1>. QED
  BY <1>1, <1>4, <1>5

LEMMA PayNextFair ==
  ASSUME NEW s, Tame(s), session[s].req.op \in Settlers, PayNext(s)
  PROVE  Fairly(s)
<1> DEFINE r == NextDue(s)
           x == session[s].read[r]
           status == IF x.pick \in Outcomes THEN "won" ELSE "refunded"
           m == LosersMarked(s)
           k == Set(m, r, [status |-> status, payout |-> Payout(s, r)])
           l == Pay(Reference(Add(k, W(x.user), "vit", Payout(s, r)),
                              <<"stake", r[2]>>, 0), <<"stake", r[2]>>)
<1>1. session[s].pc = "pay" /\ Due(s) # {} /\ Query(s, l, "pay")
  BY DEF PayNext
<1>2. Open(session[s], r)
  BY <1>1, NextIsDue, StakesRead DEF Due
<1>3. Civil(s, m) /\ m.read = session[s].read
  BY <1>1, CivilByLosersMarked
<1>. HIDE DEF m, r
<1>4. Civil(s, k)
  <2>1. Open(m, r)
    BY <1>2, <1>3 DEF Open
  <2>. QED
    BY <1>3, <2>1, CivilByOpen
<1>. HIDE DEF k
<1>5. Civil(s, l)
  BY <1>4, CivilByWallet, CivilByReference, CivilByPayOf DEF Others
<1>. HIDE DEF l
<1>. QED
  BY <1>1, <1>5, FairQuery

LEMMA SettlementRecorded ==
  ASSUME NEW s, Tame(s), session[s].req.op \in Settlers, RecordSettlement(s)
  PROVE  \E k : Civil(s, k) /\ Query(s, k, "grade")
<1> DEFINE c == Cp(s)
           m == LosersMarked(s)
           columns == [status |-> "settled"]
           settlement == [pool |-> Amounts(s, Outcomes), winning |-> Amounts(s, {Outcome(s)})]
<1>1. /\ session[s].pc = "pay"
      /\ \E S : Query(s, LoadAll(Insert(Set(m, c, columns),
                   <<"settlement", Args(s).match>>, settlement), S), "grade")
  BY DEF RecordSettlement
<1>2. c \in DOMAIN session[s].read
  BY <1>1 DEF Tame, Ready, StakesOpen, Cp, Args
<1>3. Civil(s, m) /\ m.read = session[s].read
  BY <1>1, CivilByLosersMarked
<1>4. Ends(c) /\ TerminalStates[c[1]] = {columns.status}
  BY DEF Ends, TerminalStates, Cp
<1>. HIDE DEF c, m, columns, settlement
<1>5. Civil(s, Set(m, c, columns))
  BY <1>2, <1>3, <1>4, CivilByLast
<1>6. \A S : Civil(s, LoadAll(Insert(Set(m, c, columns),
                  <<"settlement", Args(s).match>>, settlement), S))
  BY <1>5, CivilByInsert, CivilByLoadAll
<1>. QED
  BY <1>1, <1>6

LEMMA RecordSettlementFair ==
  ASSUME NEW s, Tame(s), session[s].req.op \in Settlers, RecordSettlement(s)
  PROVE  Fairly(s)
BY SettlementRecorded, FairQuery

LEMMA CivilByCaused ==
  ASSUME NEW s, Civil(s, session[s])
  PROVE  Civil(s, Caused(s))
<1>1. Civil(s, Awarded(s))
  BY CivilByInsert, CivilBySet DEF Awarded
<1>. QED
  BY <1>1, CivilByPayOf DEF Caused, Others

LEMMA RecordMeritFair ==
  ASSUME NEW s, Tame(s), RecordMerit(s)
  PROVE  Fairly(s)
BY CivilByLoad, CivilByInsert, CivilByCaused, CivilByRefreshed, FairQuery,
   FairCommitThen
   DEF RecordMerit, Tame

LEMMA CivilWhileSettling ==
  ASSUME NEW s, Proper(session[s].req), NEW pc,
         At(s, "settle_results", pc) \/ At(s, "settle_pending", pc),
         NEW k, Civil(s, k), NEW S, NEW b
  PROVE  Civil(s, Left(k, S)) /\ Civil(s, Turn(k, S, b))
BY CivilByLeft, CivilByTurn DEF Proper, At

LEMMA SettleLoadFair ==
  ASSUME NEW s, Tame(s), SettleLoad(s)
  PROVE  Fairly(s)
BY CivilByLoad, CivilByLoadAll, CivilByResult, CivilWhileSettling, FairEnd, FairQuery,
   FairCommit
   DEF Closings, SettleLoad, Tame

LEMMA SettleNextFair ==
  ASSUME NEW s, Tame(s), SettleNext(s)
  PROVE  Fairly(s)
BY CivilByLoad, CivilBySet, CivilByPayOf, CivilByResult, CivilWhileSettling, FairQuery,
   FairCommit, FairCommitThen
   DEF SettleNext, Tame, Others

LEMMA PendingMatchFair ==
  ASSUME NEW s, Tame(s), PendingMatch(s)
  PROVE  Fairly(s)
BY CivilByLoad, CivilByLoadAll, CivilByResult, CivilWhileSettling, FairEnd, FairQuery
   DEF Closings, PendingMatch, Tame

LEMMA PendingNextFair ==
  ASSUME NEW s, Tame(s), PendingNext(s)
  PROVE  Fairly(s)
BY CivilByLoad, CivilByResult, CivilWhileSettling, FairQuery, FairCommit, FairRefuse
   DEF PendingNext, Tame

LEMMA WalletStepFair ==
  ASSUME NEW s, Tame(s), WalletStep(s)
  PROVE  Fairly(s)
BY TransferLoadFair, DebitFair, CreditFair, LoadOwnFair, StakeFair, UnstakeFair,
   BuyOrSellFair, SubscribeFair, CreateVaultFair, WithdrawVaultLoadFair,
   WithdrawVaultFair, WithdrawRequestFair, ApproveFair, RejectFair, RefundFair,
   GatekeepFair, InitiateDepositFair, VerifyLoadFair, SettleFair, WebhookLoadFair,
   WebhookCreditFair, FailPendingFair, RewardLoadFair, RewardFair, OpenWalletFair,
   WelcomeBonusFair, ReferFair
   DEF WalletStep

LEMMA ExchangeStepFair ==
  ASSUME NEW s, Tame(s), ExchangeStep(s)
  PROVE  Fairly(s)
BY LoadRowFair, CreateOfferFair, CancelOfferFair, RefundEscrowFair, CreateOrderFair,
   ConfirmPaymentFair, ReleaseLoadFair, ReleaseFair, DisputeFair
   DEF ExchangeStep

LEMMA BridgeStepFair ==
  ASSUME NEW s, Tame(s), BridgeStep(s)
  PROVE  Fairly(s)
BY BridgeSubmitFair, BridgeOutCheckFair, BridgeInCheckFair, BridgeLockFair,
   BridgeDebitFair, BridgeRecordFair, BridgeCreditFair, InitiateLoadFair,
   InitiateFair, ConfirmBridgeFair, RelayedFair
   DEF BridgeStep

LEMMA TreasuryStepFair ==
  ASSUME NEW s, Tame(s), TreasuryStep(s)
  PROVE  Fairly(s)
BY LoadTargetFair, PoolDepositFair, PoolSpendFair, ReviewGrantFair, ExecuteGrantFair,
   RevenueFair, EpochRewardsFair, CastVoteFair, CloseProposalFair, ExecuteProposalFair
   DEF TreasuryStep

LEMMA PredictionStepFair ==
  ASSUME NEW s, Tame(s), PredictionStep(s)
  PROVE  Fairly(s)
<1>1. session[s].pc = "pay" => session[s].req.op \in Settlers
  BY DEF PredictionStep, Tame, Ready, StakesOpen, Args
<1>2. PayNext(s) \/ RecordSettlement(s) => session[s].pc = "pay"
  BY DEF PayNext, RecordSettlement
<1>. QED
  BY <1>1, <1>2, StakeLoadFair, StakeOnFair, SubmitResultFair, CheckResultsFair,
     LoadStakesFair, LoadWalletsFair, PayNextFair, RecordSettlementFair,
     GradeForecastsFair, LoadProfileFair, ApplyFair, DecideFair, ForbiddenFair,
     EndProfileFair, SlashFair, SubmitForecastFair, SubmitAppealFair,
     ReviewAppealFair
     DEF PredictionStep

LEMMA RewardStepFair ==
  ASSUME NEW s, Tame(s), RewardStep(s)
  PROVE  Fairly(s)
BY ProgressLoadFair, AddProgressFair, CompleteTaskFair, PostbackFair DEF RewardStep

LEMMA EarningStepFair ==
  ASSUME NEW s, Tame(s), EarningStep(s)
  PROVE  Fairly(s)
BY LoadFirstFair, VerifyNodeFair, ClaimEarningsFair, IssueChallengeFair, AnswerFair,
   ResolveFair, ProphecyLoadFair, CompleteChapterFair, ClaimRewardsFair,
   GrantChapterFair, ActivateFair, LoadWalletFair, CorrectFair, StarsFair, RemitFair,
   ListModelFair, StakeInVaultFair
   DEF EarningStep

LEMMA ResultStepFair ==
  ASSUME NEW s, Tame(s), ResultStep(s)
  PROVE  Fairly(s)
BY RecordObservationFair, VerifyResultFair, UpdateResultFair, SettleLoadFair,
   SettleNextFair, EvaluateFair
   DEF ResultStep

LEMMA MeritStepFair ==
  ASSUME NEW s, Tame(s), MeritStep(s)
  PROVE  Fairly(s)
BY RecordMeritFair, DecayFair, PendingMatchFair, PendingNextFair DEF MeritStep

LEMMA RegistryStepFair ==
  ASSUME NEW s, Tame(s), RegistryStep(s)
  PROVE  Fairly(s)
BY LookupFair, ProduceFair, RelayFair, CallFair, UpgradeFair, RecordTaskFair
   DEF RegistryStep

(* Every step of a request gives no status to a row that has its last one  *)
(* as far as the request knows.                                            *)
LEMMA StepFair ==
  ASSUME NEW s, Tame(s), Step(s)
  PROVE  Fairly(s)
BY WalletStepFair, ExchangeStepFair, BridgeStepFair, TreasuryStepFair,
   PredictionStepFair, RewardStepFair, EarningStepFair, ResultStepFair, MeritStepFair,
   RegistryStepFair, FairRefuse
   DEF Step, Deadlock

----------------------------------------------------------------------------
(* What a handler knows is known at its next step                          *)

WalletJudges == {"approve", "reject", "webhook", "fail"}
ExchangeJudges == {"cancel_offer", "confirm", "release", "dispute"}
TreasuryJudges == {"vote", "close", "agent_close", "execute"}
RegistryJudges == {"relay_message", "confirm_message", "execute_upgrade"}

LEMMA JudgesAre ==
  ASSUME NEW op \in RowOps
  PROVE  \/ op \in WalletJudges \cup ExchangeJudges \cup TreasuryJudges \cup RegistryJudges
         \/ op \in {"relay", "review_appeal", "respond"}
BY DEF RowOps, WalletJudges, ExchangeJudges, TreasuryJudges, RegistryJudges

LEMMA StepOf ==
  ASSUME NEW s, Step(s), ~Refuse(s)
  PROVE  LET op == session[s].req.op IN
         /\ op \in WalletJudges \cup {"verify", "gatekeeper"} => WalletStep(s)
         /\ op \in ExchangeJudges => ExchangeStep(s)
         /\ op = "relay" => BridgeStep(s)
         /\ op \in TreasuryJudges => TreasuryStep(s)
         /\ op \in PredictionRequests => PredictionStep(s)
         /\ op = "respond" => EarningStep(s)
         /\ op \in RegistryJudges => RegistryStep(s)
<1>1. ~Deadlock(s)
  BY DEF Deadlock
<1> DEFINE op == session[s].req.op
<1>2. /\ WalletStep(s) => op \in WalletRequests
      /\ ExchangeStep(s) => op \in ExchangeRequests
      /\ BridgeStep(s) => op \in BridgeRequests
      /\ TreasuryStep(s) => op \in TreasuryRequests
      /\ PredictionStep(s) => op \in PredictionRequests
      /\ RewardStep(s) => op \in RewardRequests
      /\ EarningStep(s) => op \in EarningRequests
      /\ ResultStep(s) => op \in {"ingest", "update_result", "settle_results"}
      /\ MeritStep(s) => op \in {"merit", "decay", "settle_pending"}
  BY DEF WalletStep, ExchangeStep, BridgeStep, TreasuryStep, PredictionStep, RewardStep,
         EarningStep, ResultStep, MeritStep, Args
<1>3. RegistryStep(s) => op \in {"produce", "relay_message", "confirm_message", "call",
                                 "upgrade", "execute_upgrade", "record_task"}
  BY DEF RegistryStep, Lookup, Produce, Relay, Call, Upgrade, RecordTask, At, Args
<1>4. \/ WalletStep(s) \/ ExchangeStep(s) \/ BridgeStep(s) \/ TreasuryStep(s)
      \/ PredictionStep(s) \/ RewardStep(s) \/ EarningStep(s) \/ ResultStep(s)
      \/ MeritStep(s) \/ RegistryStep(s)
  BY <1>1 DEF Step
<1>. HIDE DEF op
<1>. QED
  BY <1>2, <1>3, <1>4
     DEF WalletJudges, ExchangeJudges, TreasuryJudges, RegistryJudges, op,
         WalletRequests, ExchangeRequests, BridgeRequests, TreasuryRequests,
         PredictionRequests, RewardRequests, EarningRequests

(* The first statement of a handler that is about a row loads it.          *)
Loads(s) == \E pc : Query(s, Load(session[s], Row(s)), pc)

LEMMA FirstLoads ==
  ASSUME NEW s, Step(s), ~Refuse(s), session[s].req.op \in RowOps, session[s].pc = "start"
  PROVE  Loads(s)
<1> DEFINE op == session[s].req.op
<1>1. CASE op \in WalletJudges
  <2>1. WalletStep(s)
    BY <1>1, StepOf
  <2>. QED
    BY <1>1, <2>1
       DEF WalletJudges, WalletStep, Loads, At, Args,
           TransferLoad, Debit, Credit, LoadOwn, Stake, Unstake, BuyOrSell, Subscribe,
           CreateVault, WithdrawVaultLoad, WithdrawVault, WithdrawRequest, Approve,
           Reject, Refund, Gatekeep, InitiateDeposit, VerifyLoad, Settle, WebhookLoad,
           WebhookCredit, FailPending, RewardLoad, Reward, OpenWallet, WelcomeBonus, Refer
<1>2. CASE op \in ExchangeJudges
  <2>1. ExchangeStep(s)
    BY <1>2, StepOf
  <2>. QED
    BY <1>2, <2>1
       DEF ExchangeJudges, ExchangeStep, Loads, At, Args, LoadRow, CreateOffer, CancelOffer,
           RefundEscrow, CreateOrder, ConfirmPayment, ReleaseLoad, Release, Dispute
<1>3. CASE op = "relay"
  <2>1. BridgeStep(s)
    BY <1>3, StepOf
  <2>. QED
    BY <1>3, <2>1
       DEF BridgeStep, Loads, At, Args, BridgeSubmit, BridgeOutCheck, BridgeInCheck,
           BridgeLock, BridgeDebit, BridgeRecord, BridgeCredit, InitiateLoad, Initiate,
           ConfirmBridge, Relayed
<1>4. CASE op \in TreasuryJudges
  <2>1. TreasuryStep(s)
    BY <1>4, StepOf
  <2>. QED
    BY <1>4, <2>1
       DEF TreasuryJudges, TreasuryStep, Loads, At, Args, Target, Row, LoadTarget,
           PoolDeposit, PoolSpend, ReviewGrant, ExecuteGrant, Revenue, EpochRewards,
           CastVote, CloseProposal, ExecuteProposal
<1>5. CASE op = "review_appeal"
  <2>1. PredictionStep(s)
    BY <1>5, StepOf DEF PredictionRequests
  <2>. QED
    BY <1>5, <2>1
       DEF PredictionStep, Loads, At, Args, StakeLoad, StakeOn, SubmitResult, CheckResults,
           LoadStakes, LoadWallets, PayNext, RecordSettlement, GradeForecasts, LoadProfile,
           Apply, Decide, Forbidden, EndProfile, Slash, SubmitForecast, SubmitAppeal,
           ReviewAppeal
<1>6. CASE op = "respond"
  <2>1. EarningStep(s)
    BY <1>6, StepOf
  <2>. QED
    BY <1>6, <2>1
       DEF EarningStep, Loads, At, Args, LoadFirst, VerifyNode, ClaimEarnings,
           IssueChallenge, Answer, Resolve, ProphecyLoad, CompleteChapter, ClaimRewards,
           GrantChapter, Activate, LoadWallet, Correct, Stars, Remit, ListModel,
           StakeInVault
<1>7. CASE op \in RegistryJudges
  <2>1. RegistryStep(s)
    BY <1>7, StepOf
  <2>. QED
    BY <1>7, <2>1
       DEF RegistryJudges, RegistryStep, Loads, At, Args, Lookup, Produce, Relay, Call,
           Upgrade, RecordTask
<1>. QED
  BY <1>1, <1>2, <1>3, <1>4, <1>5, <1>6, <1>7, JudgesAre

(* What a session is after a statement, and after a commit in between.     *)
LEMMA QueryLeaves ==
  ASSUME NEW s \in Sessions, DOMAIN session = Sessions, NEW k, IsSession(k), NEW pc,
         Query(s, k, pc)
  PROVE  LET m == session'[s] IN
         \/ m.pc \in Closings
         \/ m.pc = pc /\ m.req = k.req /\ m.read = k.read /\ m.wrote = k.wrote
<1>1. CASE End(s, "refused")
  BY <1>1, ClosedIs DEF End, Keep, Closings
<1>2. CASE ~End(s, "refused")
  <2> DEFINE m == [Flushed(k) EXCEPT !.pc = pc]
  <2>1. m = [[k EXCEPT !.held = @ \cup Touched(k)] EXCEPT !.pc = pc]
    BY DEF Flushed
  <2>2. Keep(s, m)
    BY <1>2 DEF Query
  <2>. HIDE DEF m
  <2>3. session'[s] = m
    BY <2>2 DEF Keep
  <2>4. m.pc = pc /\ m.req = k.req /\ m.read = k.read /\ m.wrote = k.wrote
    BY <2>1 DEF IsSession
  <2>. QED
    BY <2>3, <2>4
<1>. QED
  BY <1>1, <1>2

LEMMA RefuseLeaves ==
  ASSUME NEW s \in Sessions, DOMAIN session = Sessions, NEW how \in Closings, End(s, how)
  PROVE  session'[s].pc \in Closings
BY ClosedIs DEF End, Keep

LEMMA CommitLeaves ==
  ASSUME NEW s \in Sessions, DOMAIN session = Sessions, NEW k, NEW pc,
         CommitThen(s, k, pc)
  PROVE  LET m == session'[s] IN
         \/ m.pc \in Closings
         \/ /\ m.pc = pc /\ m.req = k.req /\ m.wrote = <<>>
            /\ m.read = [r \in DOMAIN k.read |-> Copy(k, r)]
            /\ m.old = k.old \ Cells(k)
<1>1. CASE End(s, "refused")
  BY <1>1, RefuseLeaves DEF Closings
<1>2. CASE Committed(s, k, pc)
  <2>1. CASE pc = "done"
    <3>1. session'[s] = Closed(k, pc)
      BY <1>2, <2>1 DEF Committed
    <3>. QED
      BY <2>1, <3>1, ClosedIs DEF Closings
  <2>2. CASE pc # "done"
    <3> DEFINE m == [Continued(k) EXCEPT !.pc = pc]
    <3>1. session'[s] = m
      BY <1>2, <2>2 DEF Committed
    <3>2. /\ IsSession(m) /\ m.req = k.req /\ m.pc = pc /\ m.wrote = <<>>
          /\ m.read = [r \in DOMAIN k.read |-> Copy(k, r)]
          /\ m.gone = {} /\ m.held = {} /\ m.old = k.old \ Cells(k) /\ m.pays = {}
      BY ContinuedIs
    <3>. HIDE DEF m
    <3>. QED
      BY <3>1, <3>2
  <2>. QED
    BY <2>1, <2>2
<1>. QED
  BY <1>1, <1>2, CommitIs

LEMMA CommitCloses ==
  ASSUME NEW s \in Sessions, DOMAIN session = Sessions, NEW k, Commit(s, k)
  PROVE  session'[s].pc \in Closings
BY CommitLeaves DEF Commit, Closings

(* The request of a session stays what it is about.                        *)
Abides(s) ==
    /\ session'[s].req.op = session[s].req.op
    /\ session[s].req.op \notin {"settle_results", "settle_pending"} =>
         session'[s].req = session[s].req

LEMMA RequestStays ==
  ASSUME NEW s \in Sessions, DOMAIN session = Sessions, Fairly(s)
  PROVE  Abides(s)
<1>1. ASSUME NEW k, Sound(s, k), session'[s].req = k.req PROVE Abides(s)
  BY <1>1 DEF Sound, SameRequest, Abides
<1>2. CASE Turns(s)
  BY <1>1, <1>2 DEF Turns, Keep
<1>3. CASE Saves(s)
  <2>1. PICK k, pc : Lawful(s, k) /\ CommitThen(s, k, pc)
    BY <1>3 DEF Saves
  <2>2. CASE End(s, "refused")
    BY <2>2, ClosedIs DEF End, Keep, Abides
  <2>3. CASE Committed(s, k, pc)
    BY <1>1, <2>1, <2>3, AfterCommit DEF Lawful
  <2>. QED
    BY <2>1, <2>2, <2>3, CommitIs
<1>. QED
  BY <1>2, <1>3 DEF Fairly

LEMMA ReadsStay ==
  ASSUME NEW s \in Sessions, DOMAIN session = Sessions, Fairly(s),
         session[s].req.op # "open"
  PROVE  \/ session'[s].pc \in Closings
         \/ DOMAIN session[s].read \subseteq DOMAIN session'[s].read
<1>1. CASE Turns(s)
  BY <1>1 DEF Turns, Keep, Grew
<1>2. CASE Saves(s)
  <2>1. PICK k, pc : Lawful(s, k) /\ CommitThen(s, k, pc)
    BY <1>2 DEF Saves
  <2>. QED
    BY <2>1, CommitLeaves DEF Lawful, Grew
<1>. QED
  BY <1>1, <1>2 DEF Fairly

LEMMA ReadyWhenClosed ==
  ASSUME NEW m, m.pc \in Closings
  PROVE  Ready(m)
BY DEF Closings, Ready, RowRead, RowOpen, RowPaid, RequestsOpen, StakesOpen, Rests

LEMMA RowLoaded ==
  ASSUME NEW s, IsSession(session[s]), NEW r
  PROVE  LET m == Load(session[s], r) IN
         /\ IsSession(m) /\ m.req = session[s].req /\ m.wrote = session[s].wrote
         /\ DOMAIN m.read = {r} \cup DOMAIN session[s].read
         /\ r \notin Known(session[s]) => m.read[r] = table[r]
         /\ \A x \in DOMAIN session[s].read :
              x # r \/ x \in Known(session[s]) => m.read[x] = session[s].read[x]
BY LoadedFields DEF Load, Known

LEMMA RowReadKept ==
  ASSUME NEW s \in Sessions, DOMAIN session = Sessions, Tame(s), Step(s)
  PROVE  session'[s].pc \in Closings \/ RowRead(session'[s])
<1> DEFINE m == session'[s]
           op == session[s].req.op
<1>0. IsSession(session[s])
  BY DEF Tame, Civil, Sound
<1>1. Fairly(s) /\ Abides(s)
  BY StepFair, RequestStays
<1>2. CASE op \in RowOps
  <2>1. op \notin {"open", "settle_results", "settle_pending"}
    BY <1>2 DEF RowOps
  <2>2. m.req = session[s].req
    BY <1>1, <2>1 DEF Abides
  <2>3. CASE Refuse(s)
    BY <2>3, RefuseLeaves DEF Refuse, Closings
  <2>4. CASE session[s].pc = "start" /\ ~Refuse(s)
    <3>1. PICK pc : Query(s, Load(session[s], Row(s)), pc)
      BY <1>2, <2>4, FirstLoads DEF Loads
    <3> DEFINE k == Load(session[s], Row(s))
    <3>2. IsSession(k) /\ Row(s) \in DOMAIN k.read
      BY <1>0, RowLoaded
    <3>. HIDE DEF k
    <3>3. m.pc \in Closings \/ m.read = k.read
      BY <3>1, <3>2, QueryLeaves DEF k
    <3>. QED
      BY <2>2, <3>2, <3>3 DEF RowRead, Row, Args
  <2>5. CASE session[s].pc # "start"
    <3>1. session[s].pc \notin Rests
      BY <2>5 DEF Step, Ended, Rests
    <3>2. session[s].req.row \in DOMAIN session[s].read
      BY <1>2, <3>1 DEF Tame, Ready, RowRead
    <3>. QED
      BY <1>1, <2>1, <2>2, <3>2, ReadsStay DEF RowRead
  <2>. QED
    BY <2>3, <2>4, <2>5
<1>3. CASE op = "verify"
  <2>1. m.req = session[s].req
    BY <1>1, <1>3 DEF Abides
  <2>2. CASE Refuse(s)
    BY <2>2, RefuseLeaves DEF Refuse, Closings
  <2>3. CASE ~Refuse(s)
    <3>1. WalletStep(s)
      BY <1>3, <2>3, StepOf
    <3>2. VerifyLoad(s) \/ Settle(s)
      BY <1>3, <3>1
         DEF WalletStep, At, Args,
             TransferLoad, Debit, Credit, LoadOwn, Stake, Unstake, BuyOrSell, Subscribe,
             CreateVault, WithdrawVaultLoad, WithdrawVault, WithdrawRequest, Approve,
             Reject, Refund, Gatekeep, InitiateDeposit, WebhookLoad,
             WebhookCredit, FailPending, RewardLoad, Reward, OpenWallet, WelcomeBonus, Refer
    <3>3. CASE Settle(s)
      BY <3>3, RefuseLeaves, CommitCloses DEF Settle, Closings
    <3>4. CASE Query(s, Load(session[s], W(Args(s).user)), "tx")
      <4> DEFINE k == Load(session[s], W(Args(s).user))
      <4>1. IsSession(k)
        BY <1>0, RowLoaded
      <4>. HIDE DEF k
      <4>2. m.pc \in Closings \/ m.pc = "tx"
        BY <3>4, <4>1, QueryLeaves DEF k
      <4>. QED
        BY <1>3, <2>1, <4>2 DEF RowRead, RowOps
    <3>5. CASE Query(s, Load(session[s], Row(s)), "settle")
      <4> DEFINE k == Load(session[s], Row(s))
      <4>1. IsSession(k) /\ Row(s) \in DOMAIN k.read
        BY <1>0, RowLoaded
      <4>. HIDE DEF k
      <4>2. m.pc \in Closings \/ m.read = k.read
        BY <3>5, <4>1, QueryLeaves DEF k
      <4>. QED
        BY <2>1, <4>1, <4>2 DEF RowRead, Row, Args
    <3>. QED
      BY <3>2, <3>3, <3>4, <3>5 DEF VerifyLoad
  <2>. QED
    BY <2>2, <2>3
<1>4. CASE op \notin RowOps \cup {"verify"}
  BY <1>1, <1>4 DEF RowRead, Abides
<1>. QED
  BY <1>2, <1>3, <1>4

LEMMA OnlyExchange ==
  ASSUME NEW s, Step(s), ~Refuse(s), session[s].req.op = "release"
  PROVE  LoadRow(s) \/ ReleaseLoad(s) \/ Release(s)
<1>1. ExchangeStep(s)
  BY StepOf DEF ExchangeJudges
<1>. QED
  BY <1>1 DEF ExchangeStep, At, CreateOffer, CancelOffer, RefundEscrow, CreateOrder,
              ConfirmPayment, Dispute

LEMMA OnlyTreasury ==
  ASSUME NEW s, Step(s), ~Refuse(s), session[s].req.op \in {"vote", "execute"}
  PROVE  \/ LoadTarget(s)
         \/ session[s].req.op = "vote" /\ CastVote(s)
         \/ session[s].req.op = "execute" /\ ExecuteProposal(s)
<1>1. TreasuryStep(s)
  BY StepOf DEF TreasuryJudges
<1>. QED
  BY <1>1 DEF TreasuryStep, At, Args, PoolDeposit, PoolSpend, ReviewGrant, ExecuteGrant,
              Revenue, EpochRewards, CastVote, CloseProposal, ExecuteProposal

LEMMA OnlySelecting ==
  ASSUME NEW s, Step(s), ~Refuse(s), session[s].req.op \in {"fail", "gatekeeper"}
  PROVE  \/ session[s].req.op = "fail" /\ FailPending(s)
         \/ session[s].req.op = "gatekeeper" /\ Gatekeep(s)
<1>1. WalletStep(s)
  BY StepOf DEF WalletJudges
<1>. QED
  BY <1>1
     DEF WalletStep, At, Args,
         TransferLoad, Debit, Credit, LoadOwn, Stake, Unstake, BuyOrSell, Subscribe,
         CreateVault, WithdrawVaultLoad, WithdrawVault, WithdrawRequest, Approve,
         Reject, Refund, Gatekeep, InitiateDeposit, VerifyLoad, Settle, WebhookLoad,
         WebhookCredit, FailPending, RewardLoad, Reward, OpenWallet, WelcomeBonus, Refer

(* A row seen in another status than the last ones is open.                *)
LEMMA SeenOpen ==
  ASSUME NEW s, Tame(s), session[s].req.op \in RowOps, session[s].pc \notin Rests,
         NEW S, Lasts(s, S), Copy(session[s], Row(s)).status \notin S
  PROVE  Open(session[s], Row(s))
BY OpenByCopy DEF Tame, Ready, RowRead, Row, Args, Lasts

LEMMA StillOpen ==
  ASSUME NEW s, IsSession(session[s]), NEW x, Open(session[s], x), NEW r, r # x
  PROVE  Open(Load(session[s], r), x)
<1> DEFINE m == Load(session[s], r)
<1>1. /\ DOMAIN m.read = {r} \cup DOMAIN session[s].read
      /\ \A z \in DOMAIN session[s].read :
           z # r \/ z \in Known(session[s]) => m.read[z] = session[s].read[z]
  BY RowLoaded
<1>. HIDE DEF m
<1>2. m.read[x] = session[s].read[x]
  BY <1>1 DEF Open
<1>. QED
  BY <1>1, <1>2 DEF Open, m

LEMMA ReleaseOpenKept ==
  ASSUME NEW s \in Sessions, DOMAIN session = Sessions, Tame(s), Step(s), ~Refuse(s),
         session[s].req.op = "release"
  PROVE  session'[s].pc \in Closings \/ RowOpen(session'[s])
<1> DEFINE m == session'[s]
<1>0. /\ IsSession(session[s]) /\ Proper(session[s].req)
      /\ m.req = session[s].req
  <2>1. Abides(s)
    BY StepFair, RequestStays
  <2>. QED
    BY <2>1 DEF Abides, Tame, Civil, Sound
<1>1. CASE LoadRow(s)
  <2> DEFINE k == Load(session[s], Row(s))
  <2>1. IsSession(k)
    BY <1>0, RowLoaded
  <2>2. \/ End(s, "refused") \/ Query(s, k, "row")
    BY <1>1 DEF LoadRow, Refuse
  <2>. HIDE DEF k
  <2>3. m.pc \in Closings \/ m.pc = "row"
    BY <2>1, <2>2, RefuseLeaves, QueryLeaves DEF Closings
  <2>. QED
    BY <1>0, <2>3 DEF RowOpen
<1>2. CASE Release(s)
  BY <1>2, CommitCloses DEF Release
<1>3. CASE ReleaseLoad(s) /\ ~End(s, "refused")
  <2> DEFINE r == W(Own(s).buyer)
             k == Load(session[s], r)
  <2>1. /\ Query(s, k, "wallet") /\ session[s].pc = "row"
        /\ Copy(session[s], Row(s)).status = "payment_sent"
    BY <1>3 DEF ReleaseLoad, Refuse, At, Own
  <2>2. IsSession(k)
    BY <1>0, RowLoaded
  <2>3. Open(session[s], Row(s))
    BY <1>0, <2>1, LastStates, SeenOpen DEF RowOps, Rests
  <2>4. Row(s)[1] = "order"
    BY <1>0, Kinds DEF TableOf
  <2>5. r # Row(s)
    BY <2>4 DEF W
  <2>6. Open(k, Row(s))
    BY <1>0, <2>3, <2>5, StillOpen
  <2>. HIDE DEF k, r
  <2>7. m.pc \in Closings \/ (m.pc = "wallet" /\ m.read = k.read)
    BY <2>1, <2>2, QueryLeaves
  <2>. QED
    BY <1>0, <2>6, <2>7 DEF RowOpen, Open, Row, Args
<1>4. CASE End(s, "refused")
  BY <1>4, RefuseLeaves DEF Closings
<1>. QED
  BY <1>1, <1>2, <1>3, <1>4, OnlyExchange

LEMMA ExecuteOpenKept ==
  ASSUME NEW s \in Sessions, DOMAIN session = Sessions, Tame(s), Step(s), ~Refuse(s),
         session[s].req.op = "execute"
  PROVE  session'[s].pc \in Closings \/ RowOpen(session'[s])
<1> DEFINE m == session'[s]
<1>0. /\ IsSession(session[s]) /\ Proper(session[s].req)
      /\ m.req = session[s].req
  <2>1. Abides(s)
    BY StepFair, RequestStays
  <2>. QED
    BY <2>1 DEF Abides, Tame, Civil, Sound
<1>1. CASE LoadTarget(s)
  <2> DEFINE k == Load(session[s], Target(s))
  <2>1. IsSession(k)
    BY <1>0, RowLoaded
  <2>2. Query(s, k, "target")
    BY <1>1 DEF LoadTarget
  <2>. HIDE DEF k
  <2>3. m.pc \in Closings \/ m.pc = "target"
    BY <2>1, <2>2, QueryLeaves
  <2>. QED
    BY <1>0, <2>3 DEF RowOpen
<1>2. CASE At(s, "execute", "config") /\ ExecuteProposal(s)
  BY <1>2, CommitCloses DEF ExecuteProposal, At
<1>3. CASE At(s, "execute", "target") /\ ExecuteProposal(s) /\ ~End(s, "refused")
  <2> DEFINE r == Args(s).config
             k == Load(session[s], r)
  <2>0. Target(s) = Row(s) /\ Row(s)[1] = "proposal"
    BY <1>0, Kinds DEF TableOf
  <2>1. /\ Query(s, k, "config") /\ session[s].pc = "target"
        /\ Copy(session[s], Row(s)).status = "passed"
    BY <1>3, <2>0 DEF ExecuteProposal, Refuse, At
  <2>2. IsSession(k)
    BY <1>0, RowLoaded
  <2>3. Open(session[s], Row(s))
    BY <1>0, <2>1, LastStates, SeenOpen DEF RowOps, Rests
  <2>5. r # Row(s)
    BY <1>0, <2>0 DEF Proper, Args
  <2>6. Open(k, Row(s))
    BY <1>0, <2>3, <2>5, StillOpen
  <2>. HIDE DEF k, r
  <2>7. m.pc \in Closings \/ (m.pc = "config" /\ m.read = k.read)
    BY <2>1, <2>2, QueryLeaves
  <2>. QED
    BY <1>0, <2>6, <2>7 DEF RowOpen, Open, Row, Args
<1>4. CASE End(s, "refused")
  BY <1>4, RefuseLeaves DEF Closings
<1>. QED
  BY <1>1, <1>2, <1>3, <1>4, OnlyTreasury DEF ExecuteProposal

LEMMA FailOpenKept ==
  ASSUME NEW s \in Sessions, DOMAIN session = Sessions, Tame(s), Step(s), ~Refuse(s),
         session[s].req.op = "fail"
  PROVE  \/ session'[s].pc \in Closings
         \/ RowOpen(session'[s]) /\ session'[s].pc # "start"
<1> DEFINE m == session'[s]
           r == Row(s)
           k == Load(session[s], r)
<1>0. /\ IsSession(session[s]) /\ Proper(session[s].req)
      /\ m.req = session[s].req
  <2>1. Abides(s)
    BY StepFair, RequestStays
  <2>. QED
    BY <2>1 DEF Abides, Tame, Civil, Sound
<1>1. FailPending(s)
  BY OnlySelecting
<1>2. CASE At(s, "fail", "tx")
  BY <1>1, <1>2, CommitCloses DEF FailPending, At
<1>3. CASE At(s, "fail", "start")
  <2>1. Query(s, k, "tx") /\ table[r].status = "pending"
    BY <1>1, <1>3 DEF FailPending, At
  <2>2. IsSession(k) /\ r \in DOMAIN k.read /\ (r \notin Known(session[s]) => k.read[r] = table[r])
    BY <1>0, RowLoaded
  <2>3. session[s].read = <<>>
    BY <1>3 DEF Tame, Ready, RequestsOpen, At
  <2>4. r \notin Known(session[s])
    BY <2>3 DEF Known
  <2>5. r[1] = "deposit"
    BY <1>0, Kinds, <1>3 DEF TableOf, At
  <2>6. Open(k, r)
    BY <2>1, <2>2, <2>4, <2>5 DEF Open, TerminalStates
  <2>. HIDE DEF k, r
  <2>7. m.pc \in Closings \/ (m.pc = "tx" /\ m.read = k.read)
    BY <2>1, <2>2, QueryLeaves
  <2>. QED
    BY <1>0, <2>6, <2>7 DEF RowOpen, Open, Row, Args, r
<1>. QED
  BY <1>1, <1>2, <1>3 DEF FailPending

(* The vote is inserted and the tally counted in columns of their own.     *)
LEMMA VoteCounted ==
  ASSUME NEW k, IsSession(k), NEW v, NEW columns, NEW r, r # v, Open(k, r),
         r \notin DOMAIN k.wrote, NEW c, c # "status", NEW n
  PROVE  LET l == Set(Insert(k, v, columns), r, Only(c, n)) IN
         /\ IsSession(l) /\ l.req = k.req /\ r \in DOMAIN l.read
         /\ "status" \in DOMAIN Copy(l, r) => Copy(l, r).status \notin TerminalStates[r[1]]
<1> DEFINE x == Only(v, Absent)
           y == k.read
           h == [k EXCEPT !.read = Over(x, @)]
           f == Only(v, columns)
           i == SetEach(h, f)
           d == Only(c, n)
           g == Only(r, d)
           l == SetEach(i, g)
<1>1. /\ DOMAIN x = {v} /\ DOMAIN f = {v} /\ DOMAIN d = {c}
      /\ DOMAIN g = {r} /\ g[r] = d
  BY OnlyIs
<1>2. h = [k EXCEPT !.read = Over(x, @)] /\ i = SetEach(h, f) /\ l = SetEach(i, g)
  OBVIOUS
<1>3. l = Set(Insert(k, v, columns), r, Only(c, n))
  BY DEF Set, Insert
<1>. HIDE DEF x, h, f, i, d, g, l
<1>4. IsSession(h) /\ h.req = k.req /\ h.wrote = k.wrote /\ h.read = Over(x, y)
  BY <1>2 DEF IsSession
<1>. HIDE DEF y
<1>5. r \in DOMAIN h.read /\ h.read[r] = k.read[r]
  <2>1. /\ DOMAIN Over(x, y) = DOMAIN x \cup DOMAIN y
        /\ \A z \in DOMAIN y : z \notin DOMAIN x => Over(x, y)[z] = y[z]
    BY OverIs
  <2>2. r \in DOMAIN y
    BY DEF Open, y
  <2>. QED
    BY <1>1, <1>4, <2>1, <2>2 DEF y
<1>6. /\ IsSession(i) /\ i.req = k.req /\ i.read = h.read /\ r \notin DOMAIN i.wrote
  <2>1. DOMAIN SetEach(h, f).wrote = ChangedBy(h, f) \cup DOMAIN h.wrote
    BY <1>4, SetFields
  <2>2. r \notin ChangedBy(h, f)
    BY <1>1 DEF ChangedBy
  <2>3. r \notin DOMAIN SetEach(h, f).wrote
    BY <1>4, <2>1, <2>2
  <2>. QED
    BY <1>2, <1>4, <2>3, SetFields
<1>7. /\ IsSession(l) /\ l.req = k.req /\ l.read = h.read
      /\ DOMAIN l.wrote = ChangedBy(i, g) \cup DOMAIN i.wrote
      /\ \A z \in ChangedBy(i, g) :
           l.wrote[z] = Over(Changes(Copy(i, z), g[z]), Written(i, z))
  BY <1>2, <1>6, SetFields
<1>8. r \in DOMAIN l.read /\ l.read[r] = k.read[r]
  BY <1>5, <1>7
<1>9. CASE r \notin DOMAIN l.wrote
  BY <1>8, <1>9, <1>3, <1>7 DEF Copy, Open
<1>10. CASE r \in DOMAIN l.wrote
  <2> DEFINE p == Copy(i, r)
             e == Changes(p, d)
             w == Written(i, r)
             q == l.wrote[r]
             a == k.read[r]
  <2>1. q = Over(e, w) /\ DOMAIN w = {}
    BY <1>1, <1>6, <1>7, <1>10 DEF Written
  <2>2. Copy(l, r) = Over(q, a)
    BY <1>8, <1>10 DEF Copy
  <2>3. "status" \in DOMAIN a => a.status \notin TerminalStates[r[1]]
    BY DEF Open
  <2>. HIDE DEF p, w, q, a
  <2>4. DOMAIN Changes(p, d) \subseteq DOMAIN d
    BY DEF Changes
  <2>. HIDE DEF e
  <2>5. DOMAIN Over(e, w) = DOMAIN e \cup DOMAIN w
    BY OverIs
  <2>6. "status" \notin DOMAIN q
    BY <1>1, <2>1, <2>4, <2>5 DEF e
  <2>7. /\ DOMAIN Over(q, a) = DOMAIN q \cup DOMAIN a
        /\ \A z \in DOMAIN a : z \notin DOMAIN q => Over(q, a)[z] = a[z]
    BY OverIs
  <2>8. "status" \in DOMAIN Over(q, a) => Over(q, a).status \notin TerminalStates[r[1]]
    BY <2>3, <2>6, <2>7
  <2>. QED
    BY <1>3, <1>7, <1>8, <2>2, <2>8
<1>. QED
  BY <1>9, <1>10

LEMMA VoteOpenKept ==
  ASSUME NEW s \in Sessions, DOMAIN session = Sessions, Tame(s), Step(s), ~Refuse(s),
         session[s].req.op = "vote"
  PROVE  session'[s].pc \in Closings \/ RowOpen(session'[s])
<1> DEFINE m == session'[s]
           r == Row(s)
<1>0. /\ IsSession(session[s]) /\ Proper(session[s].req)
      /\ m.req = session[s].req
  <2>1. Abides(s)
    BY StepFair, RequestStays
  <2>. QED
    BY <2>1 DEF Abides, Tame, Civil, Sound
<1>1. Target(s) = r /\ r[1] = "proposal" /\ r = session[s].req.row
  BY <1>0, Kinds DEF TableOf, Row, Args
<1>. HIDE DEF r
<1>2. session[s].pc \in {"start", "target", "power"} => r \notin DOMAIN session[s].wrote
  BY <1>1 DEF Tame, Ready, RowOpen
<1>3. CASE LoadTarget(s)
  <2> DEFINE k == Load(session[s], r)
  <2>1. IsSession(k) /\ k.wrote = session[s].wrote
    BY <1>0, RowLoaded
  <2>2. Query(s, k, "target") /\ session[s].pc = "start"
    BY <1>1, <1>3 DEF LoadTarget
  <2>. HIDE DEF k
  <2>3. m.pc \in Closings \/ (m.pc = "target" /\ m.wrote = k.wrote)
    BY <2>1, <2>2, QueryLeaves
  <2>. QED
    BY <1>0, <1>1, <1>2, <2>1, <2>2, <2>3 DEF RowOpen
<1>4. CASE At(s, "vote", "target") /\ CastVote(s) /\ ~End(s, "refused")
  <2>1. /\ Query(s, session[s], "power") /\ session[s].pc = "target"
        /\ Copy(session[s], r).status = "active"
    BY <1>1, <1>4 DEF CastVote, Refuse, At
  <2>2. Open(session[s], r)
    BY <1>0, <2>1, LastStates, SeenOpen DEF RowOps, Rests, r
  <2>3. \/ m.pc \in Closings
        \/ m.pc = "power" /\ m.read = session[s].read /\ m.wrote = session[s].wrote
    BY <1>0, <2>1, QueryLeaves
  <2>. QED
    BY <1>0, <1>1, <1>2, <2>1, <2>2, <2>3 DEF RowOpen, Open
<1>5. CASE At(s, "vote", "power") /\ CastVote(s)
  <2> DEFINE v == VoteKey(s)
             columns == [choice |-> Args(s).choice, power |-> Args(s).power]
             c == Args(s).choice
             n == Copy(session[s], Args(s).row)[c] + Args(s).power
             k == Set(Insert(session[s], v, columns), r, Only(c, n))
  <2>1. CommitThen(s, k, "voted")
    BY <1>1, <1>5 DEF CastVote, At, Args
  <2>2. r # v /\ c # "status" /\ session[s].pc = "power"
    BY <1>0, <1>1, <1>5 DEF VoteKey, Proper, Args, At
  <2>3. Open(session[s], r) /\ r \notin DOMAIN session[s].wrote
    BY <1>1, <1>2, <1>5 DEF Tame, Ready, RowOpen, At
  <2>. HIDE DEF v, columns, c, n
  <2>4. /\ IsSession(k) /\ r \in DOMAIN k.read
        /\ "status" \in DOMAIN Copy(k, r) => Copy(k, r).status \notin TerminalStates[r[1]]
    BY <1>0, <2>2, <2>3, VoteCounted
  <2>. HIDE DEF k
  <2>5. \/ m.pc \in Closings
        \/ m.pc = "voted" /\ m.read = [x \in DOMAIN k.read |-> Copy(k, x)]
    BY <2>1, CommitLeaves
  <2>6. m.pc \in Closings \/ (m.pc = "voted" /\ Open(m, r))
    BY <2>4, <2>5 DEF Open
  <2>. QED
    BY <1>0, <1>1, <2>6 DEF RowOpen
<1>6. CASE At(s, "vote", "voted") /\ CastVote(s)
  BY <1>6, CommitCloses, RefuseLeaves DEF CastVote, At, Closings
<1>7. CASE End(s, "refused")
  BY <1>7, RefuseLeaves DEF Closings
<1>. QED
  BY <1>3, <1>4, <1>5, <1>6, <1>7, OnlyTreasury DEF CastVote

LEMMA RowOpenKept ==
  ASSUME NEW s \in Sessions, DOMAIN session = Sessions, Tame(s), Step(s)
  PROVE  session'[s].pc \in Closings \/ RowOpen(session'[s])
<1>1. CASE Refuse(s)
  BY <1>1, RefuseLeaves DEF Refuse, Closings
<1>2. CASE session[s].req.op \in {"release", "vote", "execute", "fail"} /\ ~Refuse(s)
  BY <1>2, ReleaseOpenKept, VoteOpenKept, ExecuteOpenKept, FailOpenKept
<1>3. CASE session[s].req.op \notin {"release", "vote", "execute", "fail"}
  <2>1. session'[s].req.op = session[s].req.op
    BY StepFair, RequestStays DEF Abides
  <2>. QED
    BY <1>3, <2>1 DEF RowOpen
<1>. QED
  BY <1>1, <1>2, <1>3

(* A row that is about to be paid for.                                     *)
LEMMA OnlyRefunds ==
  ASSUME NEW s, Step(s), ~Refuse(s), session[s].req.op \in {"reject", "webhook"}
  PROVE  \/ session[s].req.op = "reject" /\ (Reject(s) \/ Refund(s))
         \/ session[s].req.op = "webhook" /\ (WebhookLoad(s) \/ WebhookCredit(s))
<1>1. WalletStep(s)
  BY StepOf DEF WalletJudges
<1>. QED
  BY <1>1
     DEF WalletStep, At, Args,
         TransferLoad, Debit, Credit, LoadOwn, Stake, Unstake, BuyOrSell, Subscribe,
         CreateVault, WithdrawVaultLoad, WithdrawVault, WithdrawRequest, Approve,
         Reject, Refund, Gatekeep, InitiateDeposit, VerifyLoad, Settle, WebhookLoad,
         WebhookCredit, FailPending, RewardLoad, Reward, OpenWallet, WelcomeBonus, Refer

LEMMA OnlyCancelling ==
  ASSUME NEW s, Step(s), ~Refuse(s), session[s].req.op = "cancel_offer"
  PROVE  LoadRow(s) \/ CancelOffer(s) \/ RefundEscrow(s)
<1>1. ExchangeStep(s)
  BY StepOf DEF ExchangeJudges
<1>. QED
  BY <1>1 DEF ExchangeStep, At, CreateOffer, CreateOrder, ConfirmPayment, ReleaseLoad,
              Release, Dispute

LEMMA OnlyRelaying ==
  ASSUME NEW s, Step(s), ~Refuse(s), session[s].req.op = "relay"
  PROVE  ConfirmBridge(s) \/ Relayed(s) \/ BridgeLock(s)
<1>1. BridgeStep(s)
  BY StepOf
<1>. QED
  BY <1>1 DEF BridgeStep, At, Args, BridgeSubmit, BridgeOutCheck, BridgeInCheck,
              BridgeDebit, BridgeRecord, BridgeCredit, InitiateLoad, Initiate

LEMMA OnlyUpgrading ==
  ASSUME NEW s, Step(s), ~Refuse(s), session[s].req.op = "execute_upgrade"
  PROVE  Lookup(s) \/ Upgrade(s)
<1>1. RegistryStep(s)
  BY StepOf DEF RegistryJudges
<1>. QED
  BY <1>1 DEF RegistryStep, At, Produce, Relay, Call, RecordTask

(* The status is flushed by the query for another row.                     *)
LEMMA FlushedGiven ==
  ASSUME NEW s \in Sessions, DOMAIN session = Sessions, NEW k, IsSession(k),
         NEW r, Given(k, r), NEW x, NEW pc, Query(s, Load(k, x), pc)
  PROVE  session'[s].pc \in Closings \/ (session'[s].pc = pc /\ Given(session'[s], r))
<1> DEFINE m == Load(k, x)
<1>1. IsSession(m) /\ Given(m, r)
  BY GivenKept, LoadedFields DEF Load
<1>. HIDE DEF m
<1>2. Query(s, m, pc)
  BY DEF m
<1>. QED
  BY <1>1, <1>2, QueryLeaves DEF Given

LEMMA RejectPaidKept ==
  ASSUME NEW s \in Sessions, DOMAIN session = Sessions, Tame(s), Step(s), ~Refuse(s),
         session[s].req.op = "reject"
  PROVE  session'[s].pc \in Closings \/ RowPaid(session'[s])
<1> DEFINE m == session'[s]
<1>0. /\ IsSession(session[s]) /\ Proper(session[s].req) /\ m.req = session[s].req
  <2>1. Abides(s)
    BY StepFair, RequestStays
  <2>. QED
    BY <2>1 DEF Abides, Tame, Civil, Sound
<1>1. CASE Refund(s)
  BY <1>1, CommitCloses DEF Refund
<1>2. CASE At(s, "reject", "start") /\ Reject(s)
  <2> DEFINE k == Load(session[s], Row(s))
  <2>1. IsSession(k)
    BY <1>0, RowLoaded
  <2>2. Query(s, k, "request")
    BY <1>2 DEF Reject, At
  <2>. HIDE DEF k
  <2>3. m.pc \in Closings \/ m.pc = "request"
    BY <2>1, <2>2, QueryLeaves
  <2>. QED
    BY <1>0, <2>3 DEF RowPaid
<1>3. CASE At(s, "reject", "request") /\ Reject(s)
  <2> DEFINE x == Copy(session[s], Row(s))
             k == Set(session[s], Row(s), [status |-> "rejected"])
  <2>1. Query(s, Load(k, W(x.user)), "wallet") /\ x.status = "pending"
    BY <1>3 DEF Reject, Refuse, At
  <2>2. Lasts(s, {"approved", "rejected", "processed"})
    BY <1>0, LastStates
  <2>3. Open(session[s], Row(s))
    BY <1>3, <2>1, <2>2, SeenOpen DEF RowOps, Rests, At
  <2>4. Given(k, Row(s))
    BY <1>0, <2>2, <2>3, GivenBySet DEF Lasts
  <2>5. IsSession(k)
    BY <1>0, SetFields DEF Set
  <2>. HIDE DEF k
  <2>6. m.pc \in Closings \/ (m.pc = "wallet" /\ Given(m, Row(s)))
    BY <2>1, <2>4, <2>5, FlushedGiven
  <2>. QED
    BY <1>0, <2>6 DEF RowPaid, Row, Args
<1>. QED
  BY <1>1, <1>2, <1>3, OnlyRefunds DEF Reject

LEMMA CancelPaidKept ==
  ASSUME NEW s \in Sessions, DOMAIN session = Sessions, Tame(s), Step(s), ~Refuse(s),
         session[s].req.op = "cancel_offer"
  PROVE  session'[s].pc \in Closings \/ RowPaid(session'[s])
<1> DEFINE m == session'[s]
<1>0. /\ IsSession(session[s]) /\ Proper(session[s].req) /\ m.req = session[s].req
  <2>1. Abides(s)
    BY StepFair, RequestStays
  <2>. QED
    BY <2>1 DEF Abides, Tame, Civil, Sound
<1>1. CASE RefundEscrow(s)
  BY <1>1, CommitCloses DEF RefundEscrow
<1>2. CASE LoadRow(s)
  <2> DEFINE k == Load(session[s], Row(s))
  <2>1. IsSession(k)
    BY <1>0, RowLoaded
  <2>2. End(s, "refused") \/ Query(s, k, "row")
    BY <1>2 DEF LoadRow, Refuse
  <2>. HIDE DEF k
  <2>3. m.pc \in Closings \/ m.pc = "row"
    BY <2>1, <2>2, RefuseLeaves, QueryLeaves DEF Closings
  <2>. QED
    BY <1>0, <2>3 DEF RowPaid
<1>3. CASE CancelOffer(s)
  <2> DEFINE k == Set(session[s], Row(s), [status |-> "cancelled"])
  <2>1. /\ At(s, "cancel_offer", "row") /\ Own(s).status \in {"active", "paused"}
        /\ Query(s, Load(k, W(Own(s).user)), "wallet") \/ Commit(s, k)
    BY <1>3 DEF CancelOffer, Refuse
  <2>2. Lasts(s, {"cancelled"})
    BY <1>0, LastStates
  <2>3. Open(session[s], Row(s))
    BY <2>1, <2>2, SeenOpen DEF RowOps, Rests, At, Own
  <2>4. Given(k, Row(s))
    BY <1>0, <2>2, <2>3, GivenBySet DEF Lasts
  <2>5. IsSession(k)
    BY <1>0, SetFields DEF Set
  <2>. HIDE DEF k
  <2>6. m.pc \in Closings \/ (m.pc = "wallet" /\ Given(m, Row(s)))
    BY <2>1, <2>4, <2>5, FlushedGiven, CommitCloses
  <2>. QED
    BY <1>0, <2>6 DEF RowPaid, Row, Args
<1>. QED
  BY <1>1, <1>2, <1>3, OnlyCancelling

LEMMA RelayPaidKept ==
  ASSUME NEW s \in Sessions, DOMAIN session = Sessions, Tame(s), Step(s), ~Refuse(s),
         session[s].req.op = "relay"
  PROVE  session'[s].pc \in Closings \/ RowPaid(session'[s])
<1> DEFINE m == session'[s]
           tx == Copy(session[s], Row(s))
<1>0. /\ IsSession(session[s]) /\ Proper(session[s].req) /\ m.req = session[s].req
  <2>1. Abides(s)
    BY StepFair, RequestStays
  <2>. QED
    BY <2>1 DEF Abides, Tame, Civil, Sound
<1>1. CASE At(s, "relay", "start") /\ ConfirmBridge(s)
  <2> DEFINE k == Load(session[s], Row(s))
  <2>1. IsSession(k)
    BY <1>0, RowLoaded
  <2>2. Query(s, k, "tx")
    BY <1>1 DEF ConfirmBridge, At
  <2>. HIDE DEF k
  <2>3. m.pc \in Closings \/ m.pc = "tx"
    BY <2>1, <2>2, QueryLeaves
  <2>. QED
    BY <1>0, <2>3 DEF RowPaid
<1>2. CASE At(s, "relay", "tx") /\ ConfirmBridge(s)
  <2> DEFINE k == Set(session[s], Row(s), [status |-> "completed"])
  <2>1. Query(s, Load(k, tx.pool), "pool") /\ tx.status \in {"locked", "pending"}
    BY <1>2 DEF ConfirmBridge, Refuse, At
  <2>2. Lasts(s, {"completed"})
    BY <1>0, LastStates
  <2>3. Open(session[s], Row(s))
    BY <1>2, <2>1, <2>2, SeenOpen DEF RowOps, Rests, At
  <2>4. Given(k, Row(s))
    BY <1>0, <2>2, <2>3, GivenBySet DEF Lasts
  <2>5. IsSession(k)
    BY <1>0, SetFields DEF Set
  <2>. HIDE DEF k, tx
  <2>6. m.pc \in Closings \/ (m.pc = "pool" /\ Given(m, Row(s)))
    BY <2>1, <2>4, <2>5, FlushedGiven
  <2>. QED
    BY <1>0, <2>6 DEF RowPaid, Row, Args
<1>3. CASE At(s, "relay", "pool") /\ Relayed(s)
  <2>1. Commit(s, session[s]) \/ Query(s, Load(session[s], W(tx.user)), "wallet")
    BY <1>3 DEF Relayed, At
  <2>2. Given(session[s], Row(s))
    BY <1>3 DEF Tame, Ready, RowPaid, At, Row, Args
  <2>. HIDE DEF tx
  <2>3. m.pc \in Closings \/ (m.pc = "wallet" /\ Given(m, Row(s)))
    BY <1>0, <2>1, <2>2, FlushedGiven, CommitCloses
  <2>. QED
    BY <1>0, <2>3 DEF RowPaid, Row, Args
<1>4. CASE At(s, "relay", "wallet") /\ Relayed(s)
  BY <1>4, CommitCloses DEF Relayed, At
<1>5. CASE BridgeLock(s)
  <2> DEFINE k == [Load(session[s], Wallet(s)) EXCEPT !.held = @ \cup {Wallet(s)}]
  <2>1. Query(s, k, "locked")
    BY <1>5 DEF BridgeLock, QueryForUpdate
  <2>2. IsSession(k)
    <3>. DEFINE l == Load(session[s], Wallet(s))
    <3>1. IsSession(l)
      BY <1>0, RowLoaded
    <3>. HIDE DEF l
    <3>2. IsSession([l EXCEPT !.held = @ \cup {Wallet(s)}])
      BY <3>1 DEF IsSession
    <3>. QED
      BY <3>2 DEF l
  <2>. HIDE DEF k
  <2>3. m.pc \in Closings \/ m.pc = "locked"
    BY <2>1, <2>2, QueryLeaves
  <2>. QED
    BY <1>0, <2>3 DEF RowPaid
<1>. QED
  BY <1>1, <1>2, <1>3, <1>4, <1>5, OnlyRelaying DEF ConfirmBridge, Relayed

LEMMA WebhookPaidKept ==
  ASSUME NEW s \in Sessions, DOMAIN session = Sessions, Tame(s), Step(s), ~Refuse(s),
         session[s].req.op = "webhook"
  PROVE  session'[s].pc \in Closings \/ RowPaid(session'[s])
<1> DEFINE m == session'[s]
<1>0. /\ IsSession(session[s]) /\ Proper(session[s].req) /\ m.req = session[s].req
  <2>1. Abides(s)
    BY StepFair, RequestStays
  <2>. QED
    BY <2>1 DEF Abides, Tame, Civil, Sound
<1>1. CASE WebhookCredit(s)
  BY <1>1, CommitCloses DEF WebhookCredit
<1>2. CASE At(s, "webhook", "start") /\ WebhookLoad(s)
  <2> DEFINE k == Load(session[s], Row(s))
  <2>1. IsSession(k)
    BY <1>0, RowLoaded
  <2>2. Query(s, k, "tx")
    BY <1>2 DEF WebhookLoad, At
  <2>. HIDE DEF k
  <2>3. m.pc \in Closings \/ m.pc = "tx"
    BY <2>1, <2>2, QueryLeaves
  <2>. QED
    BY <1>0, <2>3 DEF RowPaid
<1>3. CASE At(s, "webhook", "tx") /\ WebhookLoad(s)
  <2> DEFINE x == Copy(session[s], Row(s))
             r == W(x.user)
             k == Load(session[s], r)
  <2>1. Query(s, k, "wallet") /\ x.status # "confirmed"
    BY <1>3 DEF WebhookLoad, Refuse, At
  <2>2. IsSession(k)
    BY <1>0, RowLoaded
  <2>3. Open(session[s], Row(s))
    BY <1>0, <1>3, <2>1, LastStates, SeenOpen DEF RowOps, Rests, At
  <2>4. Row(s)[1] = "deposit"
    BY <1>0, Kinds DEF TableOf
  <2>5. r # Row(s)
    BY <2>4 DEF W
  <2>6. Open(k, Row(s))
    BY <1>0, <2>3, <2>5, StillOpen
  <2>. HIDE DEF k, r, x
  <2>7. m.pc \in Closings \/ (m.pc = "wallet" /\ m.read = k.read)
    BY <2>1, <2>2, QueryLeaves
  <2>. QED
    BY <1>0, <2>6, <2>7 DEF RowPaid, Open, Row, Args
<1>. QED
  BY <1>1, <1>2, <1>3, OnlyRefunds DEF WebhookLoad

(* A row that has been found is not read again, whatever the contract.     *)
LEMMA UpgradePaidKept ==
  ASSUME NEW s \in Sessions, DOMAIN session = Sessions, Tame(s), Step(s), ~Refuse(s),
         session[s].req.op = "execute_upgrade"
  PROVE  session'[s].pc \in Closings \/ RowPaid(session'[s])
<1> DEFINE m == session'[s]
<1>0. /\ IsSession(session[s]) /\ Proper(session[s].req) /\ m.req = session[s].req
  <2>1. Abides(s)
    BY StepFair, RequestStays
  <2>. QED
    BY <2>1 DEF Abides, Tame, Civil, Sound
<1>1. CASE Lookup(s)
  <2> DEFINE k == Load(session[s], Row(s))
  <2>1. /\ IsSession(k) /\ k.wrote = session[s].wrote
        /\ DOMAIN k.read = {Row(s)} \cup DOMAIN session[s].read
        /\ Row(s) \notin Known(session[s]) => k.read[Row(s)] = table[Row(s)]
        /\ Row(s) \in Known(session[s]) => k.read[Row(s)] = session[s].read[Row(s)]
    BY <1>0, RowLoaded DEF Known
  <2>2. table[Row(s)] # Absent /\ Query(s, k, "found")
    BY <1>1 DEF Lookup
  <2>3. Row(s) \in Known(k)
    <3>. HIDE DEF k
    <3>. QED
      BY <2>1, <2>2 DEF Known, Exists
  <2>. HIDE DEF k
  <2>4. m.pc \in Closings \/ (m.pc = "found" /\ m.read = k.read /\ m.wrote = k.wrote)
    BY <2>1, <2>2, QueryLeaves
  <2>. QED
    BY <1>0, <2>3, <2>4 DEF RowPaid, Known, Exists, Row, Args
<1>2. CASE At(s, "execute_upgrade", "found") /\ Upgrade(s)
  <2> DEFINE r == Registered(s).contract
             k == Load(session[s], r)
  <2>1. /\ Query(s, k, "contract")
        /\ Copy(session[s], Row(s)).status # "executed"
    BY <1>2 DEF Upgrade, Refuse, At, Registered
  <2>2. /\ IsSession(k) /\ DOMAIN k.read = {r} \cup DOMAIN session[s].read
        /\ \A x \in DOMAIN session[s].read :
             x # r \/ x \in Known(session[s]) => k.read[x] = session[s].read[x]
    BY <1>0, RowLoaded
  <2>3. Open(session[s], Row(s))
    BY <1>0, <1>2, <2>1, LastStates, SeenOpen DEF RowOps, Rests, At
  <2>4. Row(s) \in Known(session[s])
    BY <1>2 DEF Tame, Ready, RowPaid, At, Row, Args
  <2>. HIDE DEF k, r
  <2>5. Open(k, Row(s))
    BY <2>2, <2>3, <2>4 DEF Open
  <2>6. m.pc \in Closings \/ (m.pc = "contract" /\ m.read = k.read)
    BY <2>1, <2>2, QueryLeaves
  <2>. QED
    BY <1>0, <2>5, <2>6 DEF RowPaid, Open, Row, Args
<1>3. CASE At(s, "execute_upgrade", "contract") /\ Upgrade(s)
  BY <1>3, CommitCloses DEF Upgrade, At
<1>. QED
  BY <1>1, <1>2, <1>3, OnlyUpgrading DEF Upgrade, At

LEMMA RowPaidKept ==
  ASSUME NEW s \in Sessions, DOMAIN session = Sessions, Tame(s), Step(s)
  PROVE  session'[s].pc \in Closings \/ RowPaid(session'[s])
<1> DEFINE ops == {"reject", "webhook", "cancel_offer", "relay", "execute_upgrade"}
<1>1. CASE Refuse(s)
  BY <1>1, RefuseLeaves DEF Refuse, Closings
<1>2. CASE session[s].req.op \in ops /\ ~Refuse(s)
  BY <1>2, RejectPaidKept, WebhookPaidKept, CancelPaidKept, RelayPaidKept, UpgradePaidKept
<1>3. CASE session[s].req.op \notin ops
  <2>1. session'[s].req.op = session[s].req.op
    BY StepFair, RequestStays DEF Abides
  <2>. QED
    BY <1>3, <2>1 DEF RowPaid
<1>. QED
  BY <1>1, <1>2, <1>3

LEMMA RequestsOpenKept ==
  ASSUME NEW s \in Sessions, DOMAIN session = Sessions, Tame(s), Step(s)
  PROVE  session'[s].pc \in Closings \/ RequestsOpen(session'[s])
<1> DEFINE m == session'[s]
<1>0. IsSession(session[s]) /\ m.req.op = session[s].req.op
  <2>1. Abides(s)
    BY StepFair, RequestStays
  <2>. QED
    BY <2>1 DEF Abides, Tame, Civil, Sound
<1>1. CASE Refuse(s)
  BY <1>1, RefuseLeaves DEF Refuse, Closings
<1>2. CASE session[s].req.op \notin {"gatekeeper", "fail"}
  BY <1>0, <1>2 DEF RequestsOpen
<1>3. CASE session[s].req.op = "fail" /\ ~Refuse(s)
  BY <1>0, <1>3, FailOpenKept DEF RequestsOpen
<1>4. CASE session[s].req.op = "gatekeeper" /\ ~Refuse(s)
  <2> DEFINE S == {r \in Rows : /\ r[1] = "withdrawal"
                                /\ table[r] # Absent /\ table[r].status = "pending"}
             k == LoadAll(session[s], S)
  <2>1. Gatekeep(s)
    BY <1>4, OnlySelecting
  <2>2. CASE At(s, "gatekeeper", "requests")
    BY <2>1, <2>2, CommitCloses DEF Gatekeep, At
  <2>3. CASE At(s, "gatekeeper", "start")
    <3>1. Query(s, k, "requests")
      BY <2>1, <2>3 DEF Gatekeep, At
    <3>2. /\ IsSession(k)
          /\ DOMAIN k.read = (S \ Known(session[s])) \cup DOMAIN session[s].read
          /\ \A r \in S \ Known(session[s]) : k.read[r] = table[r]
      <4>. HIDE DEF S
      <4>. QED
        BY <1>0, LoadedFields
    <3>3. session[s].read = <<>>
      BY <2>3 DEF Tame, Ready, RequestsOpen, At
    <3>4. \A r \in DOMAIN k.read :
             r[1] = "withdrawal" /\ k.read[r].status = "pending"
      BY <3>2, <3>3
    <3>5. \A r \in DOMAIN k.read : Open(k, r)
      BY <3>4 DEF Open, TerminalStates
    <3>. HIDE DEF k
    <3>6. m.pc \in Closings \/ (m.pc = "requests" /\ m.read = k.read)
      BY <3>1, <3>2, QueryLeaves
    <3>. QED
      BY <1>0, <1>4, <3>5, <3>6 DEF RequestsOpen, Open
  <2>. QED
    BY <2>1, <2>2, <2>3 DEF Gatekeep
<1>. QED
  BY <1>1, <1>2, <1>3, <1>4

(* The handlers that settle no match pay no stakes.                        *)
Live(s) == s \in Sessions /\ DOMAIN session = Sessions

Away(s) == session'[s].pc \notin {"stakes", "pay"}

LEMMA AwayByEnd ==
  ASSUME NEW s, Live(s), Refuse(s)
  PROVE  Away(s)
BY RefuseLeaves DEF Live, Refuse, Away, Closings

LEMMA AwayByQuery ==
  ASSUME NEW s, NEW k, NEW pc, Live(s), Civil(s, k), Query(s, k, pc),
         pc # "stakes", pc # "pay"
  PROVE  Away(s)
BY QueryLeaves DEF Live, Civil, Sound, Away, Closings

LEMMA AwayByQueryForUpdate ==
  ASSUME NEW s, NEW k, NEW r, NEW pc, Live(s), Civil(s, k), QueryForUpdate(s, k, r, pc),
         pc # "stakes", pc # "pay"
  PROVE  Away(s)
<1>1. Civil(s, [Load(k, r) EXCEPT !.held = @ \cup {r}])
  BY CivilByLoad, CivilByHold
<1>. QED
  BY <1>1, AwayByQuery DEF QueryForUpdate

LEMMA AwayByCommit ==
  ASSUME NEW s, NEW k, Live(s), Commit(s, k)
  PROVE  Away(s)
BY CommitCloses DEF Live, Away, Closings

LEMMA StakeLoadAway ==
  ASSUME NEW s, Live(s), Tame(s), StakeLoad(s)
  PROVE  Away(s)
BY CivilByLoad, CivilByOpenConsensus, AwayByEnd, AwayByQuery, AwayByQueryForUpdate
   DEF StakeLoad, Tame

LEMMA StakeOnAway ==
  ASSUME NEW s, Live(s), StakeOn(s)
  PROVE  Away(s)
BY AwayByEnd, AwayByCommit DEF StakeOn

LEMMA SubmitResultAway ==
  ASSUME NEW s, Live(s), Tame(s), SubmitResult(s)
  PROVE  Away(s)
BY CivilByLoadAll, CivilByInsert, AwayByEnd, AwayByQuery DEF SubmitResult, Tame

LEMMA CheckResultsAway ==
  ASSUME NEW s, Live(s), Tame(s), CheckResults(s)
  PROVE  Away(s)
BY CivilByAccept, CivilByLoad, AwayByEnd, AwayByQuery, AwayByCommit DEF CheckResults, Tame

LEMMA LoadProfileAway ==
  ASSUME NEW s, Live(s), Tame(s), LoadProfile(s)
  PROVE  Away(s)
BY CivilByLoad, AwayByEnd, AwayByQuery, AwayByQueryForUpdate DEF LoadProfile, Tame

LEMMA DecideAway ==
  ASSUME NEW s, Live(s), Tame(s), Decide(s)
  PROVE  Away(s)
BY AwayByEnd, AwayByQuery, AwayByQueryForUpdate, AwayByCommit DEF Decide, Tame

LEMMA SubmitForecastAway ==
  ASSUME NEW s, Live(s), SubmitForecast(s)
  PROVE  Away(s)
BY AwayByEnd, AwayByCommit DEF SubmitForecast

LEMMA ReviewAppealAway ==
  ASSUME NEW s, Live(s), Tame(s), ReviewAppeal(s)
  PROVE  Away(s)
<1>1. CASE At(s, "review_appeal", "start")
  BY <1>1, CivilByLoad, AwayByQuery DEF ReviewAppeal, At, Tame
<1>2. CASE At(s, "review_appeal", "review") /\ Copy(session[s], Row(s)).status = "pending"
  <2>1. \A columns : Civil(s, Set(session[s], Row(s), columns))
    BY <1>2, LastStates, CivilByJudging DEF At, RowOps, Rests, Tame
  <2>. QED
    BY <1>2, <2>1, CivilByLoad, AwayByQuery, AwayByCommit, AwayByEnd DEF ReviewAppeal, At
<1>3. CASE At(s, "review_appeal", "restore")
  BY <1>3, CivilByStatusless, KindsThatStay, CivilByLoad, AwayByQuery, AwayByCommit, AwayByEnd
     DEF ReviewAppeal, At, Tame
<1>4. CASE At(s, "review_appeal", "restake")
  BY <1>4, AwayByCommit DEF ReviewAppeal, At
<1>. QED
  BY <1>1, <1>2, <1>3, <1>4, AwayByEnd DEF ReviewAppeal

LEMMA OthersAway ==
  ASSUME NEW s, Live(s), Tame(s), Step(s), ~Refuse(s),
         session[s].req.op \in PredictionRequests \ Settlers
  PROVE  Away(s)
<1>1. PredictionStep(s)
  BY StepOf
<1>2. session[s].pc \notin {"stakes", "pay"}
  BY DEF Tame, Ready, StakesOpen
<1>3. ~LoadStakes(s) /\ ~LoadWallets(s) /\ ~PayNext(s) /\ ~RecordSettlement(s)
  BY <1>2 DEF LoadStakes, LoadWallets, PayNext, RecordSettlement, Settlers, Args
<1>4. GradeForecasts(s) \/ Apply(s) \/ EndProfile(s) \/ Slash(s) \/ SubmitAppeal(s) => Away(s)
  BY AwayByEnd, AwayByCommit DEF GradeForecasts, Apply, EndProfile, Slash, SubmitAppeal
<1>5. ~Forbidden(s)
  BY DEF Forbidden
<1>. QED
  BY <1>1, <1>3, <1>4, <1>5, StakeLoadAway, StakeOnAway, SubmitResultAway, CheckResultsAway,
     LoadProfileAway, DecideAway, SubmitForecastAway, ReviewAppealAway DEF PredictionStep

(* A settlement reads the stakes once, when they are active.               *)
NoStake(k) == \A r \in DOMAIN k.read : r[1] # "stake"
StillActive(k) == \A r \in DOMAIN k.read : r[1] = "stake" => r \in Rows /\ Open(k, r)

LEMMA ReadsByLoad ==
  ASSUME NEW k, IsSession(k), NEW S, \A r \in S : r[1] # "stake"
  PROVE  /\ NoStake(k) => NoStake(LoadAll(k, S))
         /\ StillActive(k) => StillActive(LoadAll(k, S))
<1> DEFINE m == LoadAll(k, S)
<1>1. /\ DOMAIN m.read = (S \ Known(k)) \cup DOMAIN k.read
      /\ \A r \in DOMAIN k.read : r \notin S \ Known(k) => m.read[r] = k.read[r]
  BY LoadedFields
<1>. HIDE DEF m
<1>2. NoStake(k) => NoStake(m)
  BY <1>1 DEF NoStake
<1>3. StillActive(k) => StillActive(m)
  BY <1>1 DEF StillActive, Open
<1>. QED
  BY <1>2, <1>3 DEF m

LEMMA ReadsByStakes ==
  ASSUME NEW k, IsSession(k), NoStake(k), NEW match
  PROVE  StillActive(LoadAll(k, StakesOf(match)))
<1> DEFINE S == StakesOf(match)
           m == LoadAll(k, S)
<1>1. /\ DOMAIN m.read = (S \ Known(k)) \cup DOMAIN k.read
      /\ \A r \in S \ Known(k) : m.read[r] = table[r]
  <2>. HIDE DEF S
  <2>. QED
    BY LoadedFields
<1>. HIDE DEF m
<1>2. \A r \in S : r \in Rows /\ r[1] = "stake" /\ table[r].status = "active"
  BY DEF StakesOf
<1>3. ASSUME NEW r \in DOMAIN m.read, r[1] = "stake" PROVE r \in Rows /\ Open(m, r)
  <2>1. r \in S /\ m.read[r] = table[r]
    BY <1>1, <1>3 DEF NoStake
  <2>. QED
    BY <1>2, <1>3, <2>1 DEF Open, TerminalStates
<1>. QED
  BY <1>3 DEF StillActive, m

LEMMA ReadsByInsert ==
  ASSUME NEW k, IsSession(k), NEW v, v[1] # "stake", NEW columns
  PROVE  /\ IsSession(Insert(k, v, columns))
         /\ NoStake(k) => NoStake(Insert(k, v, columns))
         /\ StillActive(k) => StillActive(Insert(k, v, columns))
<1> DEFINE x == Only(v, Absent)
           y == k.read
           h == [k EXCEPT !.read = Over(x, @)]
           f == Only(v, columns)
           m == SetEach(h, f)
<1>1. DOMAIN x = {v}
  BY OnlyIs
<1>2. h = [k EXCEPT !.read = Over(x, @)]
  OBVIOUS
<1>3. m = Insert(k, v, columns)
  BY DEF Insert, Set
<1>. HIDE DEF x, h, f
<1>4. IsSession(h) /\ h.read = Over(x, y)
  BY <1>2 DEF IsSession
<1>5. IsSession(m) /\ m.read = h.read
  BY <1>4, SetFields
<1>. HIDE DEF y, m
<1>6. /\ DOMAIN Over(x, y) = DOMAIN x \cup DOMAIN y
      /\ \A z \in DOMAIN y : z \notin DOMAIN x => Over(x, y)[z] = y[z]
  BY OverIs
<1>7. DOMAIN m.read = {v} \cup DOMAIN y
  BY <1>1, <1>4, <1>5, <1>6
<1>8. \A z \in DOMAIN y : z # v => m.read[z] = y[z]
  BY <1>1, <1>4, <1>5, <1>6
<1>9. NoStake(k) => NoStake(m)
  BY <1>7 DEF NoStake, y
<1>10. StillActive(k) => StillActive(m)
  BY <1>7, <1>8 DEF StillActive, Open, y
<1>. QED
  BY <1>3, <1>5, <1>9, <1>10

LEMMA ReadsAlike ==
  ASSUME NEW k, NEW m, m.read = k.read
  PROVE  /\ NoStake(k) => NoStake(m)
         /\ StillActive(k) => StillActive(m)
BY DEF NoStake, StillActive, Open

(* The next statement of a settlement, and what it has read by then.       *)
Proceeds(s) ==
    LET m == session'[s] IN
    \/ m.pc \in Closings \cup {"grade"}
    \/ m.pc \in {"insert", "results"} /\ NoStake(m)
    \/ m.pc = "consensus" /\ NoStake(m) /\ Cp(s) \in DOMAIN m.read
    \/ m.pc \in {"stakes", "pay"} /\ StillActive(m) /\ session[s].pc \in {"consensus", "stakes", "pay"}

LEMMA SettlingByQuery ==
  ASSUME NEW s, Live(s), NEW k, IsSession(k), NEW pc, Query(s, k, pc),
         \/ pc = "grade"
         \/ pc \in {"insert", "results"} /\ NoStake(k)
         \/ pc = "consensus" /\ NoStake(k) /\ Cp(s) \in DOMAIN k.read
         \/ pc \in {"stakes", "pay"} /\ StillActive(k) /\ session[s].pc \in {"consensus", "stakes", "pay"}
  PROVE  Proceeds(s)
<1>1. \/ session'[s].pc \in Closings
      \/ session'[s].pc = pc /\ session'[s].read = k.read
  BY QueryLeaves DEF Live
<1>. QED
  BY <1>1, ReadsAlike DEF Proceeds

LEMMA SettlingByCommit ==
  ASSUME NEW s, Live(s), NEW k, Commit(s, k)
  PROVE  Proceeds(s)
BY CommitCloses DEF Live, Proceeds

LEMMA SubmitResultSettling ==
  ASSUME NEW s, Live(s), Tame(s), session[s].req.op \in Settlers, ~Refuse(s),
         SubmitResult(s)
  PROVE  Proceeds(s)
<1> DEFINE k == session[s]
           v == OracleKey(s)
           columns == [result |-> Args(s).result, accepted |-> FALSE, disputed |-> FALSE]
           S == Found(ResultsOf(Args(s).match))
<1>1. \/ session[s].pc = "start" /\ Query(s, k, "insert")
      \/ session[s].pc = "start" /\ Query(s, LoadAll(k, S), "results")
      \/ session[s].pc = "insert" /\ Query(s, LoadAll(Insert(k, v, columns), S), "results")
  BY DEF SubmitResult, At
<1>2. IsSession(k) /\ NoStake(k)
  BY <1>1 DEF Tame, Civil, Sound, Ready, StakesOpen, NoStake
<1>3. v[1] # "stake" /\ \A r \in S : r[1] # "stake"
  BY DEF OracleKey, Found, ResultsOf
<1>. HIDE DEF k, v, columns, S
<1>4. IsSession(Insert(k, v, columns)) /\ NoStake(Insert(k, v, columns))
  BY <1>2, <1>3, ReadsByInsert
<1> DEFINE l == Insert(k, v, columns)
<1>. HIDE DEF l
<1>5. /\ IsSession(LoadAll(k, S)) /\ NoStake(LoadAll(k, S))
      /\ IsSession(LoadAll(l, S)) /\ NoStake(LoadAll(l, S))
  BY <1>2, <1>3, <1>4, ReadsByLoad, LoadedFields DEF l
<1>. QED
  BY <1>1, <1>2, <1>5, SettlingByQuery DEF l

LEMMA CheckResultsSettling ==
  ASSUME NEW s, Live(s), Tame(s), session[s].req.op \in Settlers, ~Refuse(s),
         CheckResults(s)
  PROVE  Proceeds(s)
<1>1. \/ \E k : Commit(s, k)
      \/ \E outcome : Query(s, Load(Accept(s, outcome), Cp(s)), "consensus")
  BY DEF CheckResults
<1>2. ASSUME NEW outcome, Query(s, Load(Accept(s, outcome), Cp(s)), "consensus")
      PROVE  Proceeds(s)
  <2> DEFINE k == Accept(s, outcome)
             S == {Cp(s)}
             m == LoadAll(k, S)
  <2>1. IsSession(k) /\ k.read = session[s].read
    BY CivilByAccept DEF Tame, Civil, Sound
  <2>2. session[s].pc = "results"
    BY DEF CheckResults
  <2>3. NoStake(session[s])
    BY <2>2 DEF Tame, Ready, StakesOpen, NoStake
  <2>4. \A r \in S : r[1] # "stake"
    BY DEF Cp
  <2>5. Query(s, m, "consensus") /\ Cp(s) \in S
    BY <1>2 DEF Load
  <2>. HIDE DEF k, S
  <2>6. NoStake(k)
    BY <2>1, <2>3, ReadsAlike
  <2>7. NoStake(m) /\ IsSession(m)
    BY <2>1, <2>4, <2>6, ReadsByLoad, LoadedFields
  <2>8. DOMAIN m.read = (S \ Known(k)) \cup DOMAIN k.read
    BY <2>1, LoadedFields
  <2>. HIDE DEF m
  <2>9. Cp(s) \in DOMAIN m.read
    BY <2>5, <2>8 DEF Known
  <2>. QED
    BY <2>5, <2>7, <2>9, SettlingByQuery
<1>. QED
  BY <1>1, <1>2, SettlingByCommit

LEMMA LoadStakesSettling ==
  ASSUME NEW s, Live(s), Tame(s), session[s].req.op \in Settlers, ~Refuse(s),
         LoadStakes(s)
  PROVE  Proceeds(s)
<1> DEFINE k == session[s]
           l == OpenConsensus(k, Cp(s))
           match == Args(s).match
<1>1. /\ session[s].pc = "consensus"
      /\ \/ Commit(s, k)
         \/ Query(s, LoadAll(k, StakesOf(match)), "stakes")
         \/ Query(s, LoadAll(l, StakesOf(match)), "stakes")
  BY DEF LoadStakes
<1>2. IsSession(k) /\ NoStake(k)
  BY <1>1 DEF Tame, Civil, Sound, Ready, StakesOpen, NoStake
<1>3. IsSession(l) /\ NoStake(l)
  <2> DEFINE v == Cp(s)
             columns == [status |-> "open"]
  <2>1. l = Load(k, v) \/ l = Insert(k, v, columns)
    BY DEF OpenConsensus
  <2>2. v[1] # "stake" /\ \A r \in {v} : r[1] # "stake"
    BY DEF Cp
  <2>. HIDE DEF k, v, columns
  <2>3. NoStake(Insert(k, v, columns)) /\ IsSession(Insert(k, v, columns))
    BY <1>2, <2>2, ReadsByInsert
  <2>4. NoStake(LoadAll(k, {v})) /\ IsSession(LoadAll(k, {v}))
    BY <1>2, <2>2, ReadsByLoad, LoadedFields
  <2>. QED
    BY <2>1, <2>3, <2>4 DEF Load
<1>. HIDE DEF k, l, match
<1>4. /\ IsSession(LoadAll(k, StakesOf(match))) /\ StillActive(LoadAll(k, StakesOf(match)))
      /\ IsSession(LoadAll(l, StakesOf(match))) /\ StillActive(LoadAll(l, StakesOf(match)))
  BY <1>2, <1>3, ReadsByStakes, LoadedFields
<1>. QED
  BY <1>1, <1>4, SettlingByQuery, SettlingByCommit

LEMMA LoadWalletsSettling ==
  ASSUME NEW s, Live(s), Tame(s), session[s].req.op \in Settlers, LoadWallets(s)
  PROVE  Proceeds(s)
<1> DEFINE k == session[s]
           S == {W(k.read[r].user) : r \in Stakes(s)}
<1>1. session[s].pc = "stakes" /\ Query(s, LoadAll(k, S), "pay")
  BY DEF LoadWallets
<1>2. IsSession(k) /\ StillActive(k)
  BY <1>1 DEF Tame, Civil, Sound, Ready, StakesOpen, StillActive
<1>3. \A r \in S : r[1] # "stake"
  BY DEF W
<1>. HIDE DEF k, S
<1>4. IsSession(LoadAll(k, S)) /\ StillActive(LoadAll(k, S))
  BY <1>2, <1>3, ReadsByLoad, LoadedFields
<1>. QED
  BY <1>1, <1>4, SettlingByQuery

LEMMA PayNextSettling ==
  ASSUME NEW s, Live(s), Tame(s), session[s].req.op \in Settlers, PayNext(s)
  PROVE  Proceeds(s)
<1> DEFINE r == NextDue(s)
           x == session[s].read[r]
           status == IF x.pick \in Outcomes THEN "won" ELSE "refunded"
           columns == [status |-> status, payout |-> Payout(s, r)]
           n == Payout(s, r)
           name == <<"stake", r[2]>>
           m == LosersMarked(s)
           k == Set(m, r, columns)
           w == W(x.user)
           a == Add(k, w, "vit", n)
           v == Ref(name)
           i == Insert(a, v, [amount |-> 0])
           l == Pay(i, name)
<1>1. session[s].pc = "pay" /\ Query(s, l, "pay")
  BY DEF PayNext, Reference
<1>2. IsSession(m) /\ m.read = session[s].read
  BY <1>1, CivilByLosersMarked DEF Civil, Sound
<1>3. StillActive(session[s])
  BY <1>1 DEF Tame, Ready, StakesOpen, StillActive
<1>4. v[1] # "stake"
  BY DEF Ref
<1>. HIDE DEF m, r, columns, n, name, w, v
<1>5. IsSession(k) /\ k.read = session[s].read
  BY <1>2, ReadsKept, SetFields DEF Set
<1>. HIDE DEF k
<1>6. IsSession(a) /\ a.read = session[s].read
  BY <1>5, ReadsKept, SetFields, AddIs DEF Set
<1>. HIDE DEF a
<1>7. IsSession(i) /\ StillActive(i)
  BY <1>3, <1>4, <1>6, ReadsAlike, ReadsByInsert
<1>. HIDE DEF i
<1>8. l = [i EXCEPT !.pays = @ \cup {name}]
  BY DEF Pay
<1>. HIDE DEF l
<1>9. IsSession(l) /\ l.read = i.read
  BY <1>7, <1>8 DEF IsSession
<1>10. StillActive(l)
  BY <1>7, <1>9, ReadsAlike
<1>. QED
  BY <1>1, <1>9, <1>10, SettlingByQuery

LEMMA StakesOpenKept ==
  ASSUME NEW s \in Sessions, DOMAIN session = Sessions, Tame(s), Step(s)
  PROVE  session'[s].pc \in Closings \/ StakesOpen(session'[s])
<1> DEFINE m == session'[s]
           op == session[s].req.op
<1>0. Live(s) /\ m.req.op = op /\ (op \in Settlers => m.req = session[s].req)
  BY StepFair, RequestStays DEF Abides, Live, Settlers
<1>1. CASE Refuse(s)
  BY <1>1, RefuseLeaves DEF Refuse, Closings
<1>2. CASE op \notin PredictionRequests
  BY <1>0, <1>2 DEF StakesOpen, Settlers, PredictionRequests
<1>3. CASE op \in PredictionRequests \ Settlers /\ ~Refuse(s)
  BY <1>0, <1>3, OthersAway DEF StakesOpen, Away
<1>4. CASE op \in Settlers /\ ~Refuse(s)
  <2>1. PredictionStep(s)
    BY <1>4, StepOf DEF Settlers, PredictionRequests
  <2>2. ~Forbidden(s)
    BY <1>4 DEF Forbidden
  <2>3. \/ SubmitResult(s) \/ CheckResults(s) \/ LoadStakes(s) \/ LoadWallets(s)
        \/ PayNext(s) \/ RecordSettlement(s) \/ GradeForecasts(s)
    BY <1>4, <2>1, <2>2
       DEF PredictionStep, Settlers, At, Args, StakeLoad, StakeOn, LoadProfile, Apply,
           Decide, EndProfile, Slash, SubmitForecast, SubmitAppeal, ReviewAppeal
  <2>4. Proceeds(s)
    <3>1. ASSUME RecordSettlement(s) PROVE Proceeds(s)
      <4>1. \E k : Civil(s, k) /\ Query(s, k, "grade")
        BY <1>4, <3>1, SettlementRecorded
      <4>. QED
        BY <1>0, <4>1, SettlingByQuery DEF Civil, Sound
    <3>. QED
      BY <1>0, <1>4, <2>3, <3>1, SubmitResultSettling, CheckResultsSettling,
         LoadStakesSettling, LoadWalletsSettling, PayNextSettling, SettlingByCommit
         DEF GradeForecasts
  <2>5. session[s].pc \in {"consensus", "stakes", "pay"} => Cp(s) \in DOMAIN session[s].read
    BY <1>4 DEF Tame, Ready, StakesOpen, Cp, Args
  <2>6. \/ m.pc \in Closings
        \/ DOMAIN session[s].read \subseteq DOMAIN m.read
    BY <1>4, StepFair, ReadsStay DEF Settlers
  <2>7. Cp(s) = <<"consensus", m.req.match>>
    BY <1>0, <1>4 DEF Cp, Args
  <2>8. CASE m.pc \in Closings \cup {"grade"}
    BY <1>0, <1>4, <2>8 DEF StakesOpen, Closings
  <2>9. CASE m.pc \in {"insert", "results"} /\ NoStake(m)
    BY <1>0, <1>4, <2>9 DEF StakesOpen, NoStake
  <2>10. CASE m.pc = "consensus" /\ NoStake(m) /\ Cp(s) \in DOMAIN m.read
    BY <1>0, <1>4, <2>7, <2>10 DEF StakesOpen, NoStake
  <2>11. CASE /\ m.pc \in {"stakes", "pay"} /\ StillActive(m)
              /\ session[s].pc \in {"consensus", "stakes", "pay"}
    <3>1. Cp(s) \in DOMAIN m.read
      BY <2>5, <2>6, <2>11 DEF Closings
    <3>. QED
      BY <1>0, <1>4, <2>7, <2>11, <3>1 DEF StakesOpen, StillActive
  <2>. QED
    BY <2>4, <2>8, <2>9, <2>10, <2>11 DEF Proceeds
<1>. QED
  BY <1>1, <1>2, <1>3, <1>4

LEMMA ReadyKept ==
  ASSUME NEW s \in Sessions, DOMAIN session = Sessions, Tame(s), Step(s)
  PROVE  Ready(session'[s])
BY RowReadKept, RowOpenKept, RowPaidKept, RequestsOpenKept, StakesOpenKept, ReadyWhenClosed DEF Ready

----------------------------------------------------------------------------
(* What has been read stays as it was read, or is noted as changed         *)

LEMMA CellsAre ==
  ASSUME NEW k, NEW r, r \notin k.gone, NEW c
  PROVE  <<r, c>> \in Cells(k) <=> r \in DOMAIN k.wrote /\ c \in DOMAIN k.wrote[r]
BY DEF Cells, Written

LEMMA SameStatusOver ==
  ASSUME NEW x, NEW y, NEW f, SameStatus(x, y) \/ "status" \in DOMAIN f
  PROVE  SameStatus(Over(f, x), Over(f, y))
<1>1. /\ DOMAIN Over(f, x) = DOMAIN f \cup DOMAIN x
      /\ \A z \in DOMAIN f : Over(f, x)[z] = f[z]
      /\ \A z \in DOMAIN x : z \notin DOMAIN f => Over(f, x)[z] = x[z]
  BY OverIs
<1>2. /\ DOMAIN Over(f, y) = DOMAIN f \cup DOMAIN y
      /\ \A z \in DOMAIN f : Over(f, y)[z] = f[z]
      /\ \A z \in DOMAIN y : z \notin DOMAIN f => Over(f, y)[z] = y[z]
  BY OverIs
<1>. QED
  BY <1>1, <1>2 DEF SameStatus

LEMMA StatusKept ==
  ASSUME NEW x, NEW f, "status" \notin DOMAIN f
  PROVE  SameStatus(x, Over(f, x))
<1>1. /\ DOMAIN Over(f, x) = DOMAIN f \cup DOMAIN x
      /\ \A z \in DOMAIN x : z \notin DOMAIN f => Over(f, x)[z] = x[z]
  BY OverIs
<1>. QED
  BY <1>1 DEF SameStatus

(* A status is changed by a session that has written it.                   *)
LEMMA StatusCommitted ==
  ASSUME NEW s, NEW k, NEW pc, Committed(s, k, pc), Sparing(k),
         NEW r \in Rows, Ends(r), <<r, "status">> \notin Cells(k)
  PROVE  SameStatus(table[r], table'[r])
<1>1. r \notin k.gone
  BY DEF Sparing
<1>2. CASE r \in DOMAIN k.wrote
  <2>1. "status" \notin DOMAIN k.wrote[r]
    BY <1>1, <1>2, CellsAre
  <2>2. table'[r] = Over(k.wrote[r], table[r])
    BY <1>1, <1>2 DEF Committed
  <2>. QED
    BY <2>1, <2>2, StatusKept
<1>3. CASE r \notin DOMAIN k.wrote
  BY <1>1, <1>3 DEF Committed, SameStatus
<1>. QED
  BY <1>2, <1>3

LEMMA CoherentForOthers ==
  ASSUME NEW s \in Sessions, NEW k, NEW pc, Committed(s, k, pc), Sparing(k),
         NEW u \in Sessions \ {s}, IsSession(session[u]), Coherent(session[u], table)
  PROVE  Coherent(session'[u], table')
<1> DEFINE m == session'[u]
<1>1. /\ m.read = session[u].read
      /\ m.old = session[u].old \cup {x \in Cells(k) : x[1] \in DOMAIN session[u].read}
  BY OtherCommit
<1>. HIDE DEF m
<1>2. SUFFICES ASSUME NEW r \in Rows \cap DOMAIN m.read, Ends(r), m.read[r] # Absent,
                      <<r, "status">> \notin m.old
               PROVE  SameStatus(m.read[r], table'[r])
  BY DEF Coherent, m
<1>3. <<r, "status">> \notin Cells(k) /\ <<r, "status">> \notin session[u].old
  BY <1>1, <1>2
<1>4. SameStatus(table[r], table'[r])
  BY <1>2, <1>3, StatusCommitted
<1>5. SameStatus(m.read[r], table[r])
  BY <1>1, <1>2, <1>3 DEF Coherent
<1>. QED
  BY <1>4, <1>5 DEF SameStatus

LEMMA CoherentForSelf ==
  ASSUME NEW s \in Sessions, NEW k, NEW pc, Committed(s, k, pc), Sparing(k),
         Coherent(k, table), pc # "done"
  PROVE  Coherent(session'[s], table')
<1> DEFINE m == session'[s]
           n == [Continued(k) EXCEPT !.pc = pc]
<1>1. m = n
  BY DEF Committed
<1>2. /\ IsSession(n) /\ n.req = k.req /\ n.pc = pc /\ n.wrote = <<>>
      /\ n.read = [r \in DOMAIN k.read |-> Copy(k, r)]
      /\ n.gone = {} /\ n.held = {} /\ n.old = k.old \ Cells(k) /\ n.pays = {}
  BY ContinuedIs
<1>. HIDE DEF m, n
<1>3. SUFFICES ASSUME NEW r \in Rows \cap DOMAIN k.read, Ends(r), Copy(k, r) # Absent,
                      <<r, "status">> \notin k.old \/ <<r, "status">> \in Cells(k)
               PROVE  SameStatus(Copy(k, r), table'[r])
  BY <1>1, <1>2 DEF Coherent, m
<1>4. r \notin k.gone
  BY <1>3 DEF Sparing
<1>5. CASE r \in DOMAIN k.wrote
  <2> DEFINE f == k.wrote[r]
             x == k.read[r]
             y == table[r]
  <2>1. Copy(k, r) = Over(f, x) /\ table'[r] = Over(f, y)
    BY <1>4, <1>5 DEF Committed, Copy
  <2>2. CASE x = Absent
    <3>1. y = Absent
      BY <1>5, <2>2 DEF Committed, Fails
    <3>. QED
      BY <2>1, <2>2, <3>1 DEF SameStatus
  <2>3. CASE x # Absent /\ "status" \notin DOMAIN f
    <3>1. <<r, "status">> \notin k.old
      BY <1>3, <1>4, <2>3, CellsAre
    <3>2. SameStatus(x, y)
      BY <1>3, <2>3, <3>1 DEF Coherent
    <3>. HIDE DEF f, x, y
    <3>. QED
      BY <2>1, <3>2, SameStatusOver
  <2>4. CASE "status" \in DOMAIN f
    <3>. HIDE DEF f, x, y
    <3>. QED
      BY <2>1, <2>4, SameStatusOver
  <2>. QED
    BY <2>2, <2>3, <2>4
<1>6. CASE r \notin DOMAIN k.wrote
  <2>1. Copy(k, r) = k.read[r] /\ table'[r] = table[r]
    BY <1>4, <1>6 DEF Committed, Copy
  <2>2. <<r, "status">> \notin k.old
    BY <1>3, <1>4, <1>6, CellsAre
  <2>. QED
    BY <1>3, <2>1, <2>2 DEF Coherent
<1>. QED
  BY <1>5, <1>6

----------------------------------------------------------------------------
(* Every session knows what it has to know                                 *)

FinalityInv == \A s \in Sessions : Tame(s)

LEMMA FinalityInvInit ==
  ASSUME Init
  PROVE  FinalityInv
<1>1. PICK script \in Scripts : session = [s \in Sessions |-> Opened(script[s])]
  BY DEF Init, Start
<1>2. ASSUME NEW s \in Sessions PROVE Tame(s)
  <2> DEFINE k == session[s]
  <2>1. k = Opened(script[s]) /\ Proper(script[s])
    BY <1>1, Requests
  <2>2. /\ IsSession(k) /\ k.req = script[s] /\ k.pc = "start" /\ k.read = <<>>
        /\ k.wrote = <<>> /\ k.gone = {} /\ k.old = {} /\ k.pays = {}
    BY <2>1, OpenedIs
  <2>3. DOMAIN k.read = {} /\ DOMAIN k.wrote = {}
    BY <2>2
  <2>4. Civil(s, k)
    BY <2>2, <2>3 DEF Civil, Sound, Grew, Clean, SameRequest, Sparing, Honest, Coherent
  <2>5. Ready(k)
    BY <2>2, <2>3
       DEF Ready, RowRead, RowOpen, RowPaid, RequestsOpen, StakesOpen, Rests, RowOps
  <2>. QED
    BY <2>1, <2>2, <2>4, <2>5 DEF Tame
<1>. QED
  BY <1>2 DEF FinalityInv

LEMMA ReadyAlike ==
  ASSUME NEW k, Ready(k), NEW m, m.req = k.req, m.pc = k.pc, m.read = k.read,
         m.wrote = k.wrote
  PROVE  Ready(m)
BY DEF Ready, RowRead, RowOpen, RowPaid, RequestsOpen, StakesOpen, Open, Given, Known, Exists

LEMMA TameByTurn ==
  ASSUME SessionsInv, SessionsInv', FinalityInv, NEW s \in Sessions, NEW k, Sound(s, k),
         Clean(k), Keep(s, k), UNCHANGED store, Ready(session'[s])
  PROVE  FinalityInv'
<1>1. ASSUME NEW u \in Sessions PROVE Tame(u)'
  <2>0. Proper(session'[u].req)
    BY DEF SessionsInv, Prepared
  <2>1. CASE u = s
    <3>1. session'[s] = k
      BY DEF Keep, SessionsInv
    <3>2. IsSession(k) /\ Sparing(k) /\ Honest(k) /\ Coherent(k, table')
      BY DEF Sound, store
    <3>. QED
      BY <2>0, <2>1, <3>1, <3>2 DEF Tame, Civil, Sound, Grew, Clean, SameRequest
  <2>2. CASE u # s
    <3>1. session'[u] = session[u] /\ table' = table
      BY <2>2 DEF Keep, SessionsInv, store
    <3>. QED
      BY <3>1 DEF FinalityInv, Tame, Civil, Sound, Grew, Clean
  <2>. QED
    BY <2>1, <2>2
<1>. QED
  BY <1>1 DEF FinalityInv

LEMMA TameByClosing ==
  ASSUME SessionsInv, SessionsInv', FinalityInv, NEW s \in Sessions,
         NEW how \in Closings, Keep(s, Closed(session[s], how)), UNCHANGED store
  PROVE  FinalityInv'
<1> DEFINE k == Closed(session[s], how)
<1>1. Sound(s, k) /\ Clean(k) /\ k.pc = how
  BY SoundWhenClosed
<1>2. Keep(s, k)
  OBVIOUS
<1>. HIDE DEF k
<1>3. session'[s] = k
  BY <1>2 DEF Keep, SessionsInv
<1>4. Ready(k)
  BY <1>1, ReadyWhenClosed
<1>. QED
  BY <1>1, <1>2, <1>3, <1>4, TameByTurn

LEMMA TameByCommit ==
  ASSUME SessionsInv, SessionsInv', FinalityInv, NEW s \in Sessions, NEW k, NEW pc,
         Lawful(s, k), Committed(s, k, pc), Ready(session'[s])
  PROVE  FinalityInv'
<1>0. Sparing(k) /\ Coherent(k, table)
  BY DEF Lawful, Sound
<1>1. ASSUME NEW u \in Sessions PROVE Tame(u)'
  <2> DEFINE m == session'[u]
  <2>0. Proper(m.req)
    BY DEF SessionsInv, Prepared
  <2>1. CASE u = s
    <3>1. IsSession(m) /\ m.wrote = <<>> /\ m.gone = {} /\ m.pays = {}
      BY <2>1, AfterCommit
    <3>2. Coherent(m, table')
      <4>1. CASE pc = "done"
        <5>1. m = Closed(k, pc)
          BY <2>1, <4>1 DEF Committed
        <5>2. DOMAIN m.read = {}
          BY <5>1, ClosedIs
        <5>. QED
          BY <5>2 DEF Coherent
      <4>2. CASE pc # "done"
        BY <1>0, <2>1, <4>2, CoherentForSelf
      <4>. QED
        BY <4>1, <4>2
    <3>3. DOMAIN m.wrote = {}
      BY <3>1
    <3>. QED
      BY <2>0, <2>1, <3>1, <3>2, <3>3
         DEF Tame, Civil, Sound, Grew, Clean, SameRequest, Sparing, Honest
  <2>2. CASE u # s
    <3>1. /\ IsSession(session[u]) /\ Coherent(session[u], table)
          /\ Sparing(session[u]) /\ Honest(session[u]) /\ Ready(session[u])
          /\ Clean(session[u])
      BY DEF FinalityInv, Tame, Civil, Sound
    <3>2. /\ IsSession(m) /\ m.req = session[u].req /\ m.pc = session[u].pc
          /\ m.wrote = session[u].wrote /\ m.read = session[u].read
          /\ m.gone = session[u].gone /\ m.held = session[u].held
          /\ m.pays = session[u].pays
          /\ m.old = session[u].old \cup
               {x \in Cells(k) : x[1] \in DOMAIN session[u].read}
      BY <2>2, <3>1, OtherCommit
    <3>3. Coherent(m, table')
      BY <1>0, <2>2, <3>1, CoherentForOthers
    <3>. HIDE DEF m
    <3>4. Ready(m)
      BY <3>1, <3>2, ReadyAlike
    <3>5. Sparing(m) /\ Honest(m) /\ Clean(m)
      BY <3>1, <3>2 DEF Sparing, Honest, Open, Clean
    <3>. QED
      BY <2>0, <3>2, <3>3, <3>4, <3>5 DEF Tame, Civil, Sound, Grew, SameRequest, m
  <2>. QED
    BY <2>1, <2>2
<1>. QED
  BY <1>1 DEF FinalityInv

LEMMA FinalityInvNext ==
  ASSUME SessionsInv, FinalityInv, [Next]_vars
  PROVE  FinalityInv'
<1>0. SessionsInv' /\ DOMAIN session = Sessions
  BY SessionsInvNext DEF SessionsInv
<1>1. ASSUME NEW s \in Sessions, Step(s) PROVE FinalityInv'
  <2>0. Tame(s)
    BY DEF FinalityInv
  <2>1. Ready(session'[s])
    BY <1>0, <1>1, <2>0, ReadyKept
  <2>2. CASE Turns(s)
    BY <1>0, <1>1, <2>1, <2>2, TameByTurn DEF Turns
  <2>3. CASE Saves(s)
    <3>1. PICK k, pc : Lawful(s, k) /\ CommitThen(s, k, pc)
      BY <2>3 DEF Saves
    <3>2. CASE End(s, "refused")
      BY <1>0, <1>1, <3>2, TameByClosing DEF End, Closings
    <3>3. CASE Committed(s, k, pc)
      BY <1>0, <1>1, <2>1, <3>1, <3>3, TameByCommit
    <3>. QED
      BY <3>1, <3>2, <3>3, CommitIs
  <2>. QED
    BY <1>1, <2>0, <2>2, <2>3, StepFair DEF Fairly
<1>2. ASSUME NEW s \in Sessions, SessionLost(s) PROVE FinalityInv'
  BY <1>0, <1>2, TameByClosing DEF SessionLost, Closings
<1>3. CASE UNCHANGED vars
  BY <1>3 DEF vars, FinalityInv, Tame, Civil, Sound, Grew, Clean
<1>. QED
  BY <1>1, <1>2, <1>3 DEF Next

(* A status is changed by a commit that has written it.                    *)
StatusChanges(r) ==
    Final(r) /\ (table'[r] = Absent \/ table'[r].status # table[r].status)

LEMMA FinalWritten ==
  ASSUME NEW s, NEW k, NEW pc, Lawful(s, k), Committed(s, k, pc), NEW r \in Rows,
         Final(r), <<r, "status">> \in Cells(k)
  PROVE  <<r, "status">> \in k.old
<1>1. /\ Ends(r) /\ "status" \in DOMAIN table[r]
      /\ table[r].status \in TerminalStates[r[1]]
  BY DEF Final, Ends
<1>2. r \in DOMAIN k.wrote /\ "status" \in DOMAIN k.wrote[r]
  BY <1>1, CellsAre DEF Lawful, Sound, Sparing
<1>3. Open(k, r)
  BY <1>1, <1>2 DEF Lawful, Sound, Honest
<1>4. k.read[r] # Absent
  BY <1>1, <1>2 DEF Committed, Fails, Absent
<1>5. ~SameStatus(k.read[r], table[r])
  BY <1>1, <1>3 DEF Open, SameStatus
<1>. QED
  BY <1>1, <1>3, <1>4, <1>5 DEF Lawful, Sound, Coherent, Open

LEMMA ChangedByLate ==
  ASSUME NEW s \in Sessions, NEW k, NEW pc, Lawful(s, k), Committed(s, k, pc),
         NEW r \in Rows, StatusChanges(r)
  PROVE  <<r, "status">> \in session[s].old
<1>1. Final(r) /\ Ends(r)
  BY DEF StatusChanges, Final, Ends
<1>2. ~SameStatus(table[r], table'[r])
  BY <1>1 DEF StatusChanges, Final, SameStatus, Absent
<1>3. <<r, "status">> \in Cells(k)
  BY <1>1, <1>2, StatusCommitted DEF Lawful, Sound
<1>. QED
  BY <1>1, <1>3, FinalWritten DEF Lawful, Sound

LEMMA FinalStays ==
  ASSUME SessionsInv, FinalityInv, [Next]_vars, NEW r \in Rows, StatusChanges(r)
  PROVE  \E s \in Sessions : <<r, "status">> \in session[s].old
<1>1. table' # table
  <2>1. SUFFICES ASSUME table' = table PROVE FALSE
    OBVIOUS
  <2>2. "status" \in DOMAIN table[r]
    BY DEF StatusChanges, Final
  <2>. QED
    BY <2>1, <2>2 DEF StatusChanges, Absent
<1>2. ~UNCHANGED vars /\ ~UNCHANGED store
  BY <1>1 DEF vars, store
<1>3. ASSUME NEW s \in Sessions, Step(s) PROVE <<r, "status">> \in session[s].old
  <2>1. Tame(s)
    BY DEF FinalityInv
  <2>2. ~Turns(s)
    BY <1>2 DEF Turns
  <2>3. PICK k, pc : Lawful(s, k) /\ CommitThen(s, k, pc)
    BY <1>3, <2>1, <2>2, StepFair DEF Fairly, Saves
  <2>4. Committed(s, k, pc)
    BY <1>2, <2>3, CommitIs DEF End
  <2>. QED
    BY <1>3, <2>3, <2>4, ChangedByLate
<1>4. ASSUME NEW s \in Sessions, SessionLost(s) PROVE FALSE
  BY <1>2, <1>4 DEF SessionLost
<1>. QED
  BY <1>2, <1>3, <1>4 DEF Next

----------------------------------------------------------------------------
(* What is paid as its row reaches its last status                         *)

Overwritten(c) == \E x \in lost : x[2] = c /\ x[3] = "status"

ConcludedInv ==
    \A c \in DOMAIN paid : c[1] \in Concluded /\ c \in Rows =>
        Overwritten(c) \/ (paid[c] = 1 /\ Final(c))

(* The commit of a session that has given r its last status.               *)
LEMMA GivenIsFinal ==
  ASSUME NEW s, NEW k, NEW pc, Lawful(s, k), Committed(s, k, pc), NEW r \in Rows,
         Ends(r), Given(k, r)
  PROVE  Final(r)'
<1> DEFINE w == k.wrote[r]
           x == table[r]
<1>1. /\ r \in DOMAIN k.wrote /\ "status" \in DOMAIN w
      /\ w.status \in TerminalStates[r[1]]
  BY DEF Given
<1>2. r \notin k.gone
  BY DEF Lawful, Sound, Sparing
<1>3. table'[r] = Over(w, x)
  BY <1>1, <1>2 DEF Committed
<1>. HIDE DEF w, x
<1>4. /\ DOMAIN Over(w, x) = DOMAIN w \cup DOMAIN x
      /\ \A c \in DOMAIN w : Over(w, x)[c] = w[c]
  BY OverIs
<1>5. "status" \in DOMAIN table'[r] /\ table'[r]["status"] = w["status"]
  BY <1>1, <1>3, <1>4
<1>. QED
  BY <1>1, <1>5 DEF Final, Ends

LEMMA ConcludedByCommit ==
  ASSUME ConcludedInv, NEW s \in Sessions, NEW k, NEW pc, Lawful(s, k),
         Committed(s, k, pc)
  PROVE  ConcludedInv'
<1>1. /\ lost' = lost \cup {<<k.req.op, x[1], x[2]>> : x \in Cells(k) \cap k.old}
      /\ DOMAIN paid' = k.pays \cup DOMAIN paid
      /\ \A c \in DOMAIN paid' :
           paid'[c] = (IF c \in DOMAIN paid THEN paid[c] ELSE 0)
                        + (IF c \in k.pays THEN 1 ELSE 0)
  BY DEF Committed
<1>2. SUFFICES ASSUME NEW c \in DOMAIN paid', c[1] \in Concluded, c \in Rows
               PROVE  Overwritten(c)' \/ (paid'[c] = 1 /\ Final(c)')
  BY DEF ConcludedInv
<1>3. Ends(c)
  BY <1>2 DEF Concluded, Ends, TerminalStates
<1>4. ASSUME <<c, "status">> \in Cells(k) \cap k.old PROVE Overwritten(c)'
  <2>1. <<k.req.op, c, "status">> \in lost'
    BY <1>1, <1>4
  <2>. QED
    BY <2>1 DEF Overwritten
<1>5. CASE c \in DOMAIN paid /\ Overwritten(c)
  BY <1>1, <1>5 DEF Overwritten
<1>6. CASE c \in DOMAIN paid /\ ~Overwritten(c) /\ <<c, "status">> \in Cells(k)
  <2>1. Final(c)
    BY <1>2, <1>6 DEF ConcludedInv
  <2>. QED
    BY <1>2, <1>4, <1>6, <2>1, FinalWritten
<1>7. CASE c \in DOMAIN paid /\ ~Overwritten(c) /\ <<c, "status">> \notin Cells(k)
  <2>1. paid[c] = 1 /\ Final(c)
    BY <1>2, <1>7 DEF ConcludedInv
  <2>2. c \notin k.pays
    <3>1. c \notin k.gone
      BY <1>3 DEF Lawful, Sound, Sparing
    <3>. QED
      BY <1>2, <1>7, <3>1, CellsAre DEF Lawful, Earned, Given
  <2>3. paid'[c] = 1
    BY <1>1, <1>7, <2>1, <2>2
  <2>4. SameStatus(table[c], table'[c])
    BY <1>2, <1>3, <1>7, StatusCommitted DEF Lawful, Sound
  <2>. QED
    BY <2>1, <2>3, <2>4 DEF Final, SameStatus
<1>8. CASE c \notin DOMAIN paid
  <2>1. c \in k.pays
    BY <1>1, <1>2, <1>8
  <2>2. Given(k, c)
    BY <1>2, <2>1 DEF Lawful, Earned
  <2>3. paid'[c] = 1
    BY <1>1, <1>2, <1>8, <2>1
  <2>. QED
    BY <1>2, <1>3, <2>2, <2>3, GivenIsFinal
<1>. QED
  BY <1>5, <1>6, <1>7, <1>8

LEMMA ConcludedInvNext ==
  ASSUME FinalityInv, ConcludedInv, [Next]_vars
  PROVE  ConcludedInv'
<1>1. CASE UNCHANGED store
  BY <1>1 DEF store, ConcludedInv, Overwritten, Final
<1>2. CASE ~UNCHANGED store
  <2>1. PICK s \in Sessions : Step(s)
    BY <1>2 DEF Next, vars, store, SessionLost
  <2>2. Saves(s)
    BY <1>2, <2>1, StepFair DEF FinalityInv, Fairly, Turns
  <2>3. PICK k, pc : Lawful(s, k) /\ CommitThen(s, k, pc)
    BY <2>2 DEF Saves
  <2>4. Committed(s, k, pc)
    BY <1>2, <2>3, CommitIs DEF End
  <2>. QED
    BY <2>3, <2>4, ConcludedByCommit
<1>. QED
  BY <1>1, <1>2

(* A handler gives a row a status only after it has read the row in one    *)
(* that is not final, or inserts it, and what it has read is so still,     *)
(* unless another handler has changed it since.                            *)
THEOREM FinalityInvAlways == Spec => []FinalityInv
BY FinalityInvInit, FinalityInvNext, SessionsInvAlways, PTL DEF Spec

(* TerminalIsFinal, for any requests: late approvals, disputes, webhooks,  *)
(* results, closings and reviews undo a final status only by writing over  *)
(* one that was given after they had loaded the row.                       *)
THEOREM TerminalIsFinalAlways == Spec => TerminalIsFinal
<1>1. SessionsInv /\ FinalityInv /\ [Next]_vars =>
        [\A r \in Rows :
           /\ Final(r)
           /\ table'[r] = Absent \/ table'[r].status # table[r].status
           => \E s \in Sessions : <<r, "status">> \in session[s].old]_vars
  BY FinalStays DEF StatusChanges
<1>. QED
  BY <1>1, SessionsInvAlways, FinalityInvAlways, PTL DEF Spec, TerminalIsFinal

(* The second part of PaidOnce, for any requests: an escrow is released or *)
(* given back, a withdrawal refunded, a deposit or a transfer credited and *)
(* an upgrade carried out once, by the commit that gives the row its last  *)
(* status, and once more only by one that writes over that status.         *)
THEOREM ConcludedOnceAlways == Spec => []ConcludedOnce
<1>1. Init => ConcludedInv
  BY DEF Init, ConcludedInv
<1>2. ConcludedInv => ConcludedOnce
  BY DEF ConcludedInv, ConcludedOnce, Overwritten
<1>. QED
  BY <1>1, <1>2, ConcludedInvNext, FinalityInvAlways, PTL DEF Spec
=============================================================================
