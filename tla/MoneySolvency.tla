--------------------------- MODULE MoneySolvency ---------------------------
(***************************************************************************)
(* No balance ever goes below zero, every row that money depends on keeps  *)
(* its type, a settlement closes every stake of its match, sub-chains stay *)
(* linked, and a verified result has two reports: the remaining steps, the *)
(* invariant that all steps keep, and what follows from it.                *)
(***************************************************************************)
EXTENDS MoneySteps

----------------------------------------------------------------------------
(* Results, merit and registries                                           *)

RecordRequests == ResultRequests \cup MeritRequests \cup RegistryRequests
SettleRequests == {"settle_results", "settle_pending"}

LEMMA InRecords ==
  ASSUME NEW s, Sure(s), session[s].req.op \in RecordRequests
  PROVE  /\ Good(s, session[s]) /\ WellFormed(session[s].req)
         /\ RecordsCarried(session[s], session[s].pc)
BY CarriedByGroup DEF Sure, RecordRequests

LEMMA ToRecords ==
  ASSUME NEW k, k.req.op \in RecordRequests, NEW pc, RecordsCarried(k, pc)
  PROVE  Carried(k, pc)
BY CarriedByGroup DEF RecordRequests

(* Statements at which nothing has to have been loaded.                    *)
LEMMA RecordQuery ==
  ASSUME NEW s, session[s].req.op \in RecordRequests, NEW k, Good(s, k), NEW pc,
         session[s].req.op \notin SettleRequests \cup {"execute_upgrade"}
           \/ (session[s].req.op \in SettleRequests /\ pc = "match"),
         pc # "advance", Query(s, k, pc)
  PROVE  Moves(s)
<1>1. k.req.op = session[s].req.op
  BY Stays
<1>2. RecordsCarried(k, pc)
  BY <1>1 DEF RecordsCarried, SettleRequests
<1>. QED
  BY <1>1, <1>2, ToRecords, MoveQuery

(* The predictions that are left to settle.                                *)
ArePredictions(S) == \A r \in S : r \in Rows /\ r[1] = "prediction"

LEMMA SettlingQuery ==
  ASSUME NEW s, session[s].req.op \in SettleRequests, NEW k, Good(s, k),
         ArePredictions(k.req.left), NEW pc, pc # "advance", Query(s, k, pc)
  PROVE  Moves(s)
<1>1. k.req.op = session[s].req.op /\ session[s].req.op \in RecordRequests
  BY Stays DEF RecordRequests, SettleRequests, ResultRequests, MeritRequests
<1>2. RecordsCarried(k, pc)
  BY <1>1 DEF RecordsCarried, SettleRequests, ArePredictions
<1>. QED
  BY <1>1, <1>2, ToRecords, MoveQuery

LEMMA SettlingCommitThen ==
  ASSUME NEW s, session[s].req.op \in SettleRequests, NEW k, Good(s, k),
         ArePredictions(k.req.left), NEW pc, pc # "advance", CommitThen(s, k, pc)
  PROVE  Moves(s)
<1> DEFINE c == Continued(k)
<1>1. k.req.op = session[s].req.op /\ session[s].req.op \in RecordRequests
  BY Stays DEF RecordRequests, SettleRequests, ResultRequests, MeritRequests
<1>2. c.req = k.req
  BY ContinuedHas
<1>. HIDE DEF c
<1>3. RecordsCarried(c, pc)
  BY <1>1, <1>2 DEF RecordsCarried, SettleRequests, ArePredictions
<1>4. Carried(Continued(k), pc)
  BY <1>1, <1>2, <1>3, ToRecords DEF c
<1>. QED
  BY <1>4, MoveCommitThen

LEMMA SettlingIs ==
  ASSUME NEW s, Sure(s), session[s].req.op \in SettleRequests
  PROVE  LET k == session[s] IN
         /\ k.req.op \in RecordRequests /\ Good(s, k) /\ "left" \in DOMAIN k.req
         /\ k.pc \in {"next", "award", "score", "created", "clv"} => ArePredictions(k.req.left)
<1>1. session[s].req.op \in RecordRequests
  BY DEF RecordRequests, SettleRequests, ResultRequests, MeritRequests
<1>. QED
  BY <1>1, InRecords DEF WellFormed, RecordsCarried, SettleRequests, ArePredictions

(* The work that is left changes.                                          *)
LEMMA GoodByRequest ==
  ASSUME NEW s, session[s].req.op \in SettleRequests, NEW k, Good(s, k), NEW p,
         IsRow(p), p.op = k.req.op, "op" \in DOMAIN p, DOMAIN k.req \subseteq DOMAIN p,
         NEW m, IsSession(m), m.req = p,
         m.read = k.read, m.wrote = k.wrote, m.gone = k.gone
  PROVE  Good(s, m)
<1>1. \A r, x : Entitled(k.req, r, x) => Entitled(p, r, x)
  BY Stays DEF Entitled, SettleRequests
<1>2. \A r : MustBeNew(k.req, r) <=> MustBeNew(p, r)
  BY DEF MustBeNew
<1>3. Framed(m)
  BY <1>1, <1>2 DEF Good, Firm, Solid, Framed
<1>4. Reads(m) /\ Writes(m) /\ Stands(m)
  BY DEF Good, Firm, Solid, Reads, Writes, Stands, Exists
<1>5. SameRequest(session[s].req, p) /\ DOMAIN session[s].req \subseteq DOMAIN p
  BY Stays DEF Good, Firm, SameRequest, SettleRequests
<1>6. Firm(s, m)
  BY <1>3, <1>4, <1>5 DEF Good, Firm, Solid
<1>7. Grows(s, m)
  BY DEF Good, Grows, Known, Exists
<1>. QED
  BY <1>6, <1>7 DEF Good

LEMMA GoodByLeft ==
  ASSUME NEW s, Sure(s), session[s].req.op \in SettleRequests, NEW k, Good(s, k), NEW S
  PROVE  Good(s, Left(k, S)) /\ Left(k, S).req.left = S /\ Left(k, S).read = k.read
<1> DEFINE m == Left(k, S)
           q == k.req
           p == [q EXCEPT !.left = S]
<1>1. m = [k EXCEPT !.req = p]
  BY DEF Left, Good, Firm, IsSession
<1>2. IsRow(q) /\ "op" \in DOMAIN q /\ "left" \in DOMAIN q
  <2>1. IsRow(session[s].req) /\ "op" \in DOMAIN session[s].req
    BY DEF Sure, Proper
  <2>2. "left" \in DOMAIN session[s].req
    BY SettlingIs
  <2>. QED
    BY <2>1, <2>2 DEF Good, Firm, SameRequest
<1>3. IsRow(p) /\ "op" \in DOMAIN p /\ p.op = q.op /\ p.left = S /\ DOMAIN q = DOMAIN p
  BY <1>2 DEF IsRow
<1>. HIDE DEF m, p
<1>4. /\ IsSession(m) /\ m.req = p /\ m.wrote = k.wrote /\ m.gone = k.gone
      /\ m.read = k.read
  BY <1>1 DEF Good, Firm, IsSession
<1>5. Good(s, m)
  BY <1>3, <1>4, GoodByRequest
<1>. QED
  BY <1>3, <1>4, <1>5 DEF m

LEMMA GoodByTurn ==
  ASSUME NEW s, Sure(s), session[s].req.op \in SettleRequests, NEW k, Good(s, k), NEW S, NEW b
  PROVE  /\ Good(s, Turn(k, S, b)) /\ Turn(k, S, b).req.left = S
         /\ Turn(k, S, b).read = k.read
<1> DEFINE m == Turn(k, S, b)
           q == k.req
           p == [q EXCEPT !.left = S, !.bet = b]
<1>1. m = [k EXCEPT !.req = p]
  BY DEF Turn, Good, Firm, IsSession
<1>2. IsRow(q) /\ "op" \in DOMAIN q /\ "left" \in DOMAIN q
  <2>1. IsRow(session[s].req) /\ "op" \in DOMAIN session[s].req
    BY DEF Sure, Proper
  <2>2. "left" \in DOMAIN session[s].req
    BY SettlingIs
  <2>. QED
    BY <2>1, <2>2 DEF Good, Firm, SameRequest
<1>3. IsRow(p) /\ "op" \in DOMAIN p /\ p.op = q.op /\ p.left = S /\ DOMAIN q = DOMAIN p
  BY <1>2 DEF IsRow
<1>. HIDE DEF m, p
<1>4. /\ IsSession(m) /\ m.req = p /\ m.wrote = k.wrote /\ m.gone = k.gone
      /\ m.read = k.read
  BY <1>1 DEF Good, Firm, IsSession
<1>5. Good(s, m)
  BY <1>3, <1>4, GoodByRequest
<1>. QED
  BY <1>3, <1>4, <1>5 DEF m

(* A result is written to the match, and what the predictions are worth.   *)
LEMMA GoodByResult ==
  ASSUME NEW s, NEW k, Good(s, k), NEW outcome
  PROVE  Good(s, WithResult(k, s, outcome)) /\ WithResult(k, s, outcome).req = k.req
<1> DEFINE x == [status |-> "completed", outcome |-> outcome]
           r == MatchOf(s)
<1>1. Free(r)
  BY TrackedIs DEF Free, Reserved, MatchOf
<1>. HIDE DEF x, r
<1>2. Good(s, Set(k, r, x)) /\ Set(k, r, x).req = k.req
  BY <1>1, GoodByFree, SetSees
<1>. QED
  BY <1>2 DEF WithResult, x, r

LEMMA GoodByGraded ==
  ASSUME NEW s, NEW k, Good(s, k), NEW S, \A r \in S : r[1] = "prediction",
         NEW c, NEW outcome
  PROVE  Good(s, Graded(k, S, c, outcome)) /\ Graded(k, S, c, outcome).req = k.req
<1> DEFINE x(r) == [grade |-> IF Copy(k, r)[c] = outcome THEN "correct" ELSE "wrong"]
           f == [r \in S |-> x(r)]
<1>1. Graded(k, S, c, outcome) = SetEach(k, f)
  BY DEF Graded
<1>. HIDE DEF x
<1>2. \A r \in DOMAIN f : May(k, r, f[r])
  BY TrackedIs, Unguarded DEF May, Reserved
<1>. HIDE DEF f
<1>3. Good(s, SetEach(k, f)) /\ SetEach(k, f).req = k.req
  BY <1>2, GoodByEach, EachSees
<1>. QED
  BY <1>1, <1>3

LEMMA GoodByRefreshed ==
  ASSUME NEW s, NEW k, Good(s, k), NEW user
  PROVE  Good(s, Refreshed(k, Merit(user))) /\ Refreshed(k, Merit(user)).req = k.req
<1> DEFINE r == Merit(user)
           x == Only(r, table[r])
           y == k.read
           m == Refreshed(k, r)
<1>0. r[1] = "merit" /\ r[1] \notin Tracked /\ r[1] \notin Reserved
  BY TrackedIs DEF Merit, Reserved
<1>1. DOMAIN x = {r}
  BY OnlyIs
<1>2. m = [k EXCEPT !.read = Over(x, @), !.old = {z \in @ : z[1] # r}]
  BY DEF Refreshed
<1>. HIDE DEF r, x, m
<1>3. /\ IsSession(m)
      /\ m.req = k.req /\ m.wrote = k.wrote /\ m.gone = k.gone
      /\ m.read = Over(x, y)
  BY <1>2 DEF Good, Firm, IsSession
<1>. HIDE DEF y
<1>4. /\ DOMAIN Over(x, y) = DOMAIN x \cup DOMAIN y
      /\ \A z \in DOMAIN y : z \notin DOMAIN x => Over(x, y)[z] = y[z]
  BY OverIs
<1>5. DOMAIN m.read = {r} \cup DOMAIN k.read /\ \A z \in DOMAIN k.read : z # r => m.read[z] = k.read[z]
  BY <1>1, <1>3, <1>4 DEF y
<1>6. Reads(m) /\ Writes(m)
  BY <1>0, <1>3, <1>5 DEF Good, Firm, Solid, Reads, Writes
<1>7. Stands(m)
  BY <1>0, <1>3, <1>5 DEF Good, Firm, Solid, Stands, Lasting, Exists
<1>8. Framed(m)
  BY <1>0, <1>3, <1>5, Unguarded DEF Good, Firm, Solid, Framed
<1>9. Grows(s, m)
  BY <1>0, <1>3, <1>5 DEF Good, Grows, Known, Exists
<1>. QED
  BY <1>3, <1>6, <1>7, <1>8, <1>9 DEF Good, Firm, Solid, m, r

(* What the providers report.                                              *)
LEMMA GoodByObservation ==
  ASSUME NEW s, Sure(s), session[s].req.op = "ingest", NEW k, Good(s, k),
         NEW x, DOMAIN x # {}
  PROVE  Good(s, Insert(k, Row(s), x))
<1> DEFINE r == session[s].req.row
<1>1. r[1] = "observation" /\ Row(s) = r
  BY RowIs DEF TableOf, Row, Args
<1>. HIDE DEF r
<1>2. k.req.op = "ingest"
  BY Stays
<1>3. MayInsert(k, r, x)
  BY <1>1, <1>2, TrackedIs DEF MayInsert, Entitled
<1>. QED
  BY <1>1, <1>3, GoodByInsert

LEMMA RecordObservationMoves ==
  ASSUME NEW s, Sure(s), RecordObservation(s)
  PROVE  Moves(s)
<1> DEFINE k == session[s]
           a == k.req
           m == MatchOf(s)
           v == Verification(s)
           x(version) == [score |-> a.result, version |-> version]
           S == {r \in OfMatch("observation", a.match) : r[2][2] = a.provider}
           T == OfMatch("observation", a.match)
<1>1. k.req.op = "ingest" /\ k.req.op \in RecordRequests
  BY DEF RecordObservation, At, RecordRequests, ResultRequests
<1>2. Good(s, k)
  BY <1>1, InRecords
<1>3. ASSUME NEW pc \in {"versions", "match", "observations", "compare"},
             NEW U, NEW l, Good(s, l), Query(s, LoadAll(l, U), pc)
      PROVE  Moves(s)
  BY <1>1, <1>3, GoodByLoadAll, RecordQuery DEF SettleRequests
<1>4. ASSUME NEW version, Query(s, Load(Insert(k, Row(s), x(version)), m), "match")
      PROVE  Moves(s)
  <2> DEFINE y == x(version)
             l == Insert(k, Row(s), y)
  <2>1. DOMAIN y # {} /\ Query(s, LoadAll(l, {m}), "match")
    BY <1>4 DEF Load
  <2>. HIDE DEF y
  <2>2. Good(s, l)
    BY <1>1, <1>2, <2>1, GoodByObservation
  <2>. HIDE DEF l
  <2>. QED
    BY <1>3, <2>1, <2>2
<1>5. \/ Query(s, LoadAll(k, S), "versions")
      \/ Query(s, LoadAll(k, {m}), "match")
      \/ \E version : Query(s, Load(Insert(k, Row(s), x(version)), m), "match")
      \/ Query(s, LoadAll(k, T), "observations")
      \/ Query(s, LoadAll(k, {v}), "compare")
  BY DEF RecordObservation, Args, Load
<1>. HIDE DEF S, T, m, v, x
<1>. QED
  BY <1>2, <1>3, <1>4, <1>5

LEMMA GoodByCompared ==
  ASSUME NEW s, Sure(s), session[s].req.op = "ingest", NEW latest
  PROVE  Good(s, Compared(s, latest))
<1> DEFINE k == session[s]
           r == Verification(s)
           verdict == VerdictOn(k, latest)
           before == IF Exists(k, Verification(s)) THEN Copy(k, Verification(s))
                     ELSE [status |-> "pending", score |-> "none", at |-> "never"]
           score == IF verdict \in {"unverified", "verified"}
                    THEN CHOOSE x \in Scores(k, latest) : TRUE ELSE before.score
           corrected == before.status = "verified" /\ score # before.score
           status == IF corrected THEN "corrected" ELSE verdict
           at == IF verdict \in {"pending", "unavailable"} THEN before.at ELSE s
           x == [status |-> status, score |-> score, at |-> at]
<1>1. Compared(s, latest) = IF Exists(k, r) THEN Set(k, r, x) ELSE Insert(k, r, x)
  BY DEF Compared
<1>. HIDE DEF status, score, at
<1>2. DOMAIN x # {}
  OBVIOUS
<1>. HIDE DEF x
<1>3. r[1] = "verification" /\ r[1] \notin Tracked
  BY TrackedIs DEF Verification
<1>. HIDE DEF r
<1>4. Good(s, k)
  BY DEF Sure
<1>5. May(k, r, x)
  BY <1>3 DEF May, Entitled, MustBeNew
<1>6. MayInsert(k, r, x)
  BY <1>2, <1>3 DEF MayInsert, Entitled
<1>. QED
  BY <1>1, <1>4, <1>5, <1>6, GoodBySet, GoodByInsert

LEMMA VerifyResultMoves ==
  ASSUME NEW s, Sure(s), VerifyResult(s)
  PROVE  Moves(s)
<1> DEFINE k == session[s]
           a == k.req
           P == KnownOf(k, "prediction")
           o == Copy(k, Verification(s)).score
           g == Graded(k, P, "likely", o)
           S == OfMatch("prediction", a.match)
<1>1. k.req.op = "ingest" /\ k.req.op \in RecordRequests
  BY DEF VerifyResult, At, RecordRequests, ResultRequests
<1>2. Good(s, k)
  BY <1>1, InRecords
<1>3. ASSUME NEW latest, Commit(s, Compared(s, latest)) PROVE Moves(s)
  BY <1>1, <1>3, GoodByCompared, MoveCommit
<1>4. ASSUME NEW latest, NEW score, Commit(s, WithResult(Compared(s, latest), s, score))
      PROVE  Moves(s)
  BY <1>1, <1>4, GoodByCompared, GoodByResult, MoveCommit
<1>5. ASSUME NEW latest, NEW score,
             Query(s, LoadAll(WithResult(Compared(s, latest), s, score), S), "evaluate")
      PROVE  Moves(s)
  <2> DEFINE c == Compared(s, latest)
             w == WithResult(c, s, score)
             l == LoadAll(w, S)
  <2>1. Good(s, c)
    BY <1>1, GoodByCompared
  <2>. HIDE DEF c, S
  <2>2. Good(s, w)
    BY <2>1, GoodByResult
  <2>. HIDE DEF w
  <2>3. Good(s, l)
    BY <2>2, GoodByLoadAll
  <2>4. Query(s, l, "evaluate")
    BY <1>5 DEF w, c, S
  <2>. HIDE DEF l
  <2>. QED
    BY <1>1, <2>3, <2>4, RecordQuery DEF SettleRequests
<1>6. CASE Commit(s, g)
  <2>1. \A r \in P : r[1] = "prediction"
    BY DEF KnownOf
  <2>. HIDE DEF P, o
  <2>2. Good(s, g)
    BY <1>2, <2>1, GoodByGraded
  <2>. HIDE DEF g
  <2>. QED
    BY <1>6, <2>2, MoveCommit
<1>. QED
  BY <1>3, <1>4, <1>5, <1>6 DEF VerifyResult, Args

LEMMA UpdateResultMoves ==
  ASSUME NEW s, Sure(s), UpdateResult(s)
  PROVE  Moves(s)
<1> DEFINE k == session[s]
           a == k.req
           m == MatchOf(s)
           w == WithResult(k, s, a.result)
           S == OfMatch("prediction", a.match)
           P == KnownOf(k, "prediction")
           g == Graded(k, P, "pick", a.result)
<1>1. k.req.op = "update_result" /\ k.req.op \in RecordRequests
  BY DEF UpdateResult, At, RecordRequests, ResultRequests
<1>2. Good(s, k)
  BY <1>1, InRecords
<1>3. CASE Query(s, Load(k, m), "match")
  <2>1. Good(s, Load(k, m))
    BY <1>2, GoodByLoad
  <2>. QED
    BY <1>1, <1>3, <2>1, RecordQuery DEF SettleRequests
<1>4. CASE Query(s, LoadAll(w, S), "predictions")
  <2>1. Good(s, w)
    BY <1>2, GoodByResult
  <2>. HIDE DEF w, S
  <2>2. Good(s, LoadAll(w, S))
    BY <2>1, GoodByLoadAll
  <2>. QED
    BY <1>1, <1>4, <2>2, RecordQuery DEF SettleRequests
<1>5. CASE CommitThen(s, g, "graded")
  <2>1. \A r \in P : r[1] = "prediction"
    BY DEF KnownOf
  <2>. HIDE DEF P
  <2>2. Good(s, g) /\ g.req = k.req
    BY <1>2, <2>1, GoodByGraded
  <2>. HIDE DEF g
  <2> DEFINE c == Continued(g)
  <2>3. c.req = k.req
    BY <2>2, ContinuedHas
  <2>. HIDE DEF c
  <2>4. RecordsCarried(c, "graded") /\ c.req.op \in RecordRequests
    BY <1>1, <2>3 DEF RecordsCarried
  <2>5. Carried(Continued(g), "graded")
    BY <2>4, ToRecords DEF c
  <2>. QED
    BY <1>5, <2>2, <2>5, MoveCommitThen
<1>. QED
  BY <1>3, <1>4, <1>5 DEF UpdateResult, Args

(* The progress of the user after a result is entered.                     *)
LEMMA EvaluateMoves ==
  ASSUME NEW s, Sure(s), Evaluate(s)
  PROVE  Moves(s)
<1> DEFINE k == session[s]
           u == k.req.user
           S == {User(s), W(u)}
           l == LoadAll(k, S)
           p == Load(k, Prophecy(s))
           n == Copy(k, Prophecy(s)).current
           e == Experienced(k, s)
           d == Add(e, W(u), "vit", Prize)
           v == Advanced(d, s, n)
<1>1. k.req.op = "update_result" /\ k.req.op \in RecordRequests
  BY DEF Evaluate, At, RecordRequests, ResultRequests
<1>2. Good(s, k) /\ WellFormed(k.req) /\ RecordsCarried(k, k.pc)
  BY <1>1, InRecords
<1>3. CASE Query(s, p, "chain")
  <2>1. Good(s, p)
    BY <1>2, GoodByLoad
  <2>. QED
    BY <1>1, <1>3, <2>1, RecordQuery DEF SettleRequests
<1>4. CASE Query(s, Evaluated(k, s), "evaluated")
  <2>1. Good(s, Evaluated(k, s))
    BY <1>2, GoodByEvaluated
  <2>. QED
    BY <1>1, <1>4, <2>1, RecordQuery DEF SettleRequests
<1>5. CASE Commit(s, k)
  BY <1>2, <1>5, MoveCommit
<1>6. CASE Query(s, l, "advance")
  <2>1. W(u) \in S
    OBVIOUS
  <2>. HIDE DEF S
  <2>2. Good(s, l) /\ l.req = k.req /\ DOMAIN l.read = S \cup DOMAIN k.read
    BY <1>2, GoodByLoadAll, LoadAllSees DEF Good, Firm
  <2>. HIDE DEF l
  <2>3. RecordsCarried(l, "advance")
    BY <1>1, <2>1, <2>2 DEF RecordsCarried
  <2>. QED
    BY <1>1, <1>6, <2>2, <2>3, ToRecords, MoveQuery
<1>7. CASE k.pc = "advance" /\ \E cause : Commit(s, Pay(v, cause))
  <2>1. W(u) \in DOMAIN k.read /\ HasWallet(u)
    BY <1>1, <1>2, <1>7 DEF RecordsCarried, WellFormed, UserRequests
  <2>. HIDE DEF n
  <2>2. Good(s, e)
    BY <1>2, GoodByExperienced
  <2>3. W(u) \in DOMAIN e.read
    BY <2>1, <2>2, Stays
  <2>. HIDE DEF e
  <2>4. Good(s, d)
    BY <2>1, <2>2, <2>3, PrizeAmount, GoodByCredit DEF WalletColumns
  <2>. HIDE DEF d
  <2>5. Good(s, v)
    BY <2>4, GoodByAdvanced
  <2>. HIDE DEF v
  <2>. QED
    BY <1>7, <2>5, GoodByPay, MoveCommit
<1>. QED
  BY <1>3, <1>4, <1>5, <1>6, <1>7 DEF Evaluate, At, Args, Wallet

(* A finished match is loaded with the predictions on it.                  *)
LEMMA MatchLoadMoves ==
  ASSUME NEW s, Sure(s), session[s].req.op \in SettleRequests,
         Query(s, Load(session[s], MatchOf(s)), "match")
  PROVE  Moves(s)
<1>1. Good(s, session[s]) /\ session[s].req.op \in RecordRequests
  BY SettlingIs
<1>2. Good(s, Load(session[s], MatchOf(s)))
  BY <1>1, GoodByLoad
<1>. QED
  BY <1>1, <1>2, RecordQuery

LEMMA BetsLoadMoves ==
  ASSUME NEW s, Sure(s), session[s].req.op \in SettleRequests, NEW result,
         LET bets == OfMatch("prediction", Args(s).match) IN
         Query(s, Left(LoadAll(WithResult(session[s], s, result), bets), bets), "next")
  PROVE  Moves(s)
<1> DEFINE k == session[s]
           S == OfMatch("prediction", Args(s).match)
           w == WithResult(k, s, result)
           l == LoadAll(w, S)
           m == Left(l, S)
<1>1. Good(s, k)
  BY SettlingIs
<1>2. ArePredictions(S)
  BY DEF ArePredictions, OfMatch, Found
<1>3. Query(s, m, "next")
  OBVIOUS
<1>. HIDE DEF S
<1>4. Good(s, w)
  BY <1>1, GoodByResult
<1>. HIDE DEF w
<1>5. Good(s, l)
  BY <1>4, GoodByLoadAll
<1>. HIDE DEF l
<1>6. Good(s, m) /\ m.req.left = S
  BY <1>5, GoodByLeft
<1>. HIDE DEF m
<1>. QED
  BY <1>2, <1>3, <1>6, SettlingQuery

LEMMA SettleLoadMoves ==
  ASSUME NEW s, Sure(s), SettleLoad(s)
  PROVE  Moves(s)
<1>1. session[s].req.op \in SettleRequests
  BY DEF SettleLoad, At, SettleRequests
<1>2. CASE Commit(s, WithResult(session[s], s, Args(s).result))
  BY <1>1, <1>2, SettlingIs, GoodByResult, MoveCommit
<1>. QED
  BY <1>1, <1>2, MatchLoadMoves, BetsLoadMoves, MoveEnd DEF SettleLoad, Closings

(* The prediction that comes next is one of those that are left.           *)
LEMMA NextIsLeft ==
  ASSUME NEW s, ArePredictions(Args(s).left), Args(s).left # {}
  PROVE  NextBet(s) \in Args(s).left
<1> DEFINE S == Args(s).left
           T == {r[2][2] : r \in S}
<1>1. \A r \in S : r[2][2] \in Nat
  BY BetIds DEF ArePredictions
<1>. HIDE DEF S
<1>2. T \in SUBSET Nat /\ T # {}
  BY <1>1 DEF S
<1>3. PICK n \in T : \A y \in T : n <= y
  <2>. HIDE DEF T
  <2>. QED
    BY <1>2, Least
<1>4. \E r \in S : \A x \in S : r[2][2] <= x[2][2]
  BY <1>3
<1>. QED
  BY <1>4 DEF NextBet, S

LEMMA SettleNextMoves ==
  ASSUME NEW s, Sure(s), SettleNext(s)
  PROVE  Moves(s)
<1> DEFINE k == session[s]
           a == k.req
           S == a.left
           b == NextBet(s)
           R == S \ {b}
           B == {b}
           u == Bettor(s)
           g == Graded(k, B, "pick", a.result)
           x == [xp |-> Copy(k, u).xp + Experience]
           d == Set(k, u, x)
           p == Pay(d, <<"prediction", b[2]>>)
<1>1. a.op = "settle_results" /\ a.op \in SettleRequests /\ k.pc \in {"next", "award"}
  BY DEF SettleNext, At, SettleRequests
<1>2. Good(s, k) /\ ArePredictions(S)
  BY <1>1, SettlingIs
<1>3. ArePredictions(R)
  BY <1>2 DEF ArePredictions
<1>4. CASE Commit(s, k)
  BY <1>2, <1>4, MoveCommit
<1>5. S # {} => Good(s, g) /\ g.req = a
  <2>1. S # {} => b \in S
    BY <1>2, NextIsLeft DEF Args
  <2>2. S # {} => \A r \in B : r[1] = "prediction"
    BY <1>2, <2>1 DEF ArePredictions
  <2>. HIDE DEF B
  <2>. QED
    BY <1>2, <2>2, GoodByGraded
<1>6. CASE S # {} /\ CommitThen(s, Left(g, R), "next")
  <2>. HIDE DEF g, R
  <2> DEFINE m == Left(g, R)
  <2>1. Good(s, m) /\ m.req.left = R
    BY <1>1, <1>5, <1>6, GoodByLeft
  <2>. HIDE DEF m
  <2>. QED
    BY <1>1, <1>3, <1>6, <2>1, SettlingCommitThen DEF m
<1>7. CASE S # {} /\ Query(s, Load(g, u), "award")
  <2>. HIDE DEF g, u
  <2> DEFINE m == Load(g, u)
  <2>1. Good(s, m) /\ m.req = a
    BY <1>5, <1>7, RowIsLoaded DEF HasLoaded
  <2>. HIDE DEF m
  <2>. QED
    BY <1>1, <1>2, <1>7, <2>1, SettlingQuery DEF m
<1>8. CASE CommitThen(s, Left(p, R), "next")
  <2>1. Free(u)
    BY TrackedIs DEF Free, Reserved, Bettor
  <2>. HIDE DEF u, x
  <2>2. Good(s, d)
    BY <1>2, <2>1, GoodByFree
  <2>. HIDE DEF d
  <2>3. Good(s, p)
    BY <2>2, GoodByPay
  <2>. HIDE DEF p, R
  <2> DEFINE m == Left(p, R)
  <2>4. Good(s, m) /\ m.req.left = R
    BY <1>1, <2>3, GoodByLeft
  <2>. HIDE DEF m
  <2>. QED
    BY <1>1, <1>3, <1>8, <2>4, SettlingCommitThen DEF m
<1>. QED
  BY <1>4, <1>6, <1>7, <1>8 DEF SettleNext, At, Args

LEMMA ResultStepMoves ==
  ASSUME NEW s, Sure(s), ResultStep(s)
  PROVE  Moves(s)
BY RecordObservationMoves, VerifyResultMoves, UpdateResultMoves, SettleLoadMoves,
   SettleNextMoves, EvaluateMoves
   DEF ResultStep

----------------------------------------------------------------------------
(* Merit                                                                   *)

LEMMA MeritIs ==
  ASSUME NEW s, Sure(s), session[s].req.op \in MeritRequests
  PROVE  session[s].req.op \in RecordRequests /\ Good(s, session[s])
BY InRecords DEF RecordRequests

(* A statement of a handler of merit.                                      *)
LEMMA MeritQuery ==
  ASSUME NEW s, Sure(s), session[s].req.op \in MeritRequests, NEW k, Good(s, k),
         session[s].req.op \in SettleRequests => ArePredictions(k.req.left),
         NEW pc, pc # "advance", Query(s, k, pc)
  PROVE  Moves(s)
BY MeritIs, RecordQuery, SettlingQuery DEF MeritRequests, SettleRequests

LEMMA MeritCommitThen ==
  ASSUME NEW s, Sure(s), session[s].req.op \in MeritRequests, NEW k, Good(s, k),
         session[s].req.op \in SettleRequests => ArePredictions(k.req.left),
         NEW pc, pc # "advance", CommitThen(s, k, pc)
  PROVE  Moves(s)
<1>1. CASE session[s].req.op \in SettleRequests
  BY <1>1, SettlingCommitThen
<1>2. CASE session[s].req.op \notin SettleRequests
  <2> DEFINE c == Continued(k)
  <2>1. /\ k.req.op = session[s].req.op /\ session[s].req.op \in RecordRequests
        /\ session[s].req.op \notin {"settle_results", "settle_pending", "execute_upgrade"}
    BY <1>2, Stays, MeritIs DEF SettleRequests, MeritRequests
  <2>2. c.req = k.req
    BY ContinuedHas
  <2>. HIDE DEF c
  <2>3. RecordsCarried(c, pc)
    BY <2>1, <2>2 DEF RecordsCarried
  <2>4. Carried(Continued(k), pc)
    BY <2>1, <2>2, <2>3, ToRecords DEF c
  <2>. QED
    BY <2>4, MoveCommitThen
<1>. QED
  BY <1>1, <1>2

LEMMA GoodByAwarded ==
  ASSUME NEW s, Good(s, session[s])
  PROVE  Good(s, Awarded(s)) /\ Awarded(s).req = session[s].req
<1> DEFINE k == session[s]
           r == Merit(Subject(s))
           e == Event(s)
           y == [user |-> Subject(s), points |-> Points(s)]
           score == Larger(0, Copy(k, r).score + Points(s))
           x == [score |-> score, peak |-> Larger(Copy(k, r).peak, score), recent |-> TRUE,
                 earned |-> Copy(k, r).earned + Larger(0, Points(s)),
                 taken |-> Copy(k, r).taken + Larger(0, -Points(s))]
           l == Insert(k, e, y)
           m == Set(l, r, x)
<1>1. Awarded(s) = m
  BY DEF Awarded
<1>2. Free(r) /\ Free(e) /\ DOMAIN y # {}
  BY TrackedIs DEF Free, Reserved, Merit, Event
<1>. HIDE DEF x, y, r, e
<1>3. Good(s, l) /\ l.req = k.req
  BY <1>2, GoodByFreeInsert, InsertSees
<1>. HIDE DEF l
<1>4. Good(s, m) /\ m.req = l.req
  BY <1>2, <1>3, GoodByFree, SetSees
<1>. QED
  BY <1>1, <1>3, <1>4

LEMMA GoodByCaused ==
  ASSUME NEW s, Good(s, session[s])
  PROVE  Good(s, Caused(s)) /\ Caused(s).req = session[s].req
<1> DEFINE d == Awarded(s)
<1>1. Good(s, d) /\ d.req = session[s].req
  BY GoodByAwarded
<1>2. Caused(s) = d \/ \E cause : Caused(s) = Pay(d, cause)
  BY DEF Caused
<1>. HIDE DEF d
<1>3. \A cause : Pay(d, cause).req = d.req
  BY <1>1 DEF Pay, Good, Firm, IsSession
<1>. QED
  BY <1>1, <1>2, <1>3, GoodByPay

LEMMA RecordMeritMoves ==
  ASSUME NEW s, Sure(s), session[s].req.op \in MeritRequests, RecordMerit(s)
  PROVE  Moves(s)
<1> DEFINE k == session[s]
           u == Subject(s)
           r == Merit(u)
           c == Caused(s)
           f == Refreshed(k, Merit(u))
           l == Insert(k, r, NewMerit)
           e == IF Args(s).op = "settle_pending" THEN "clv" ELSE "done"
<1>1. Good(s, k)
  BY MeritIs
<1>2. /\ e # "advance"
      /\ \/ k.req.op = "merit" /\ Query(s, Load(k, r), "score")
         \/ k.pc = "score" /\ CommitThen(s, l, "created")
         \/ k.pc = "created" /\ Query(s, f, "score")
         \/ k.pc = "score" /\ CommitThen(s, c, e)
  BY DEF RecordMerit, At
<1>. HIDE DEF e
<1>3. k.req.op \in SettleRequests /\ k.pc \in {"score", "created"} => ArePredictions(k.req.left)
  BY SettlingIs
<1>4. CASE k.req.op = "merit" /\ Query(s, Load(k, r), "score")
  <2>1. Good(s, Load(k, r))
    BY <1>1, GoodByLoad
  <2>. QED
    BY <1>4, <2>1, MeritQuery DEF SettleRequests
<1>5. CASE k.pc = "score" /\ CommitThen(s, l, "created")
  <2>1. Free(r) /\ DOMAIN NewMerit # {}
    BY TrackedIs DEF Free, Reserved, Merit, NewMerit
  <2>2. Good(s, l) /\ l.req = k.req
    BY <1>1, <2>1, GoodByFreeInsert, InsertSees
  <2>. HIDE DEF l
  <2>. QED
    BY <1>3, <1>5, <2>2, MeritCommitThen
<1>6. CASE k.pc = "created" /\ Query(s, f, "score")
  <2>1. Good(s, f) /\ f.req = k.req
    BY <1>1, GoodByRefreshed
  <2>. HIDE DEF f
  <2>. QED
    BY <1>3, <1>6, <2>1, MeritQuery
<1>7. CASE k.pc = "score" /\ CommitThen(s, c, e)
  <2>1. Good(s, c) /\ c.req = k.req
    BY <1>1, GoodByCaused
  <2>. HIDE DEF c
  <2>. QED
    BY <1>2, <1>3, <1>7, <2>1, MeritCommitThen
<1>. QED
  BY <1>2, <1>4, <1>5, <1>6, <1>7

LEMMA DecayMoves ==
  ASSUME NEW s, Sure(s), Decay(s)
  PROVE  Moves(s)
<1> DEFINE k == session[s]
           r == Merit(Args(s).user)
<1>1. k.req.op = "decay" /\ k.req.op \in MeritRequests /\ k.req.op \notin SettleRequests
  BY DEF Decay, At, MeritRequests, SettleRequests
<1>2. Good(s, k) /\ Good(s, Load(k, r))
  BY <1>1, MeritIs, GoodByLoad
<1>3. CASE Query(s, Load(k, r), "inactive")
  BY <1>1, <1>2, <1>3, MeritQuery
<1>4. CASE Query(s, k, "score")
  BY <1>1, <1>2, <1>4, MeritQuery
<1>. QED
  BY <1>3, <1>4, MoveRefuse, MoveEnd DEF Decay, Closings

LEMMA PendingMatchMoves ==
  ASSUME NEW s, Sure(s), PendingMatch(s)
  PROVE  Moves(s)
<1>1. session[s].req.op \in SettleRequests
  BY DEF PendingMatch, At, SettleRequests
<1>. QED
  BY <1>1, MatchLoadMoves, BetsLoadMoves, MoveEnd DEF PendingMatch, Closings

LEMMA PendingNextMoves ==
  ASSUME NEW s, Sure(s), PendingNext(s)
  PROVE  Moves(s)
<1> DEFINE k == session[s]
           a == k.req
           S == a.left
           t(bet) == Turn(Graded(k, {bet}, "pick", a.result), S \ {bet}, bet)
<1>1. a.op = "settle_pending" /\ a.op \in SettleRequests /\ k.pc \in {"next", "clv"}
  BY DEF PendingNext, At, SettleRequests
<1>2. Good(s, k) /\ ArePredictions(S)
  BY <1>1, SettlingIs
<1>3. ASSUME NEW bet \in S
      PROVE  Good(s, t(bet)) /\ ArePredictions(t(bet).req.left)
  <2> DEFINE R == S \ {bet}
             B == {bet}
             g == Graded(k, B, "pick", a.result)
             m == Turn(g, R, bet)
  <2>1. ArePredictions(R) /\ \A r \in B : r[1] = "prediction"
    BY <1>2 DEF ArePredictions
  <2>2. t(bet) = m
    OBVIOUS
  <2>. HIDE DEF B, R, t
  <2>3. Good(s, g)
    BY <1>2, <2>1, GoodByGraded
  <2>. HIDE DEF g
  <2>4. Good(s, m) /\ m.req.left = R
    BY <1>1, <2>3, GoodByTurn
  <2>. HIDE DEF m
  <2>. QED
    BY <2>1, <2>2, <2>4
<1>4. ASSUME NEW bet \in S, Query(s, t(bet), "clv") PROVE Moves(s)
  <2>1. Good(s, t(bet)) /\ ArePredictions(t(bet).req.left)
    BY <1>3
  <2>. HIDE DEF t
  <2>. QED
    BY <1>1, <1>4, <2>1, SettlingQuery
<1>5. ASSUME NEW bet \in S, NEW r, Query(s, Load(t(bet), r), "score") PROVE Moves(s)
  <2> DEFINE m == t(bet)
             l == Load(m, r)
  <2>1. Good(s, m) /\ ArePredictions(m.req.left) /\ Query(s, l, "score")
    BY <1>3, <1>5
  <2>. HIDE DEF m
  <2>2. Good(s, l) /\ l.req = m.req
    BY <2>1, RowIsLoaded DEF HasLoaded
  <2>. HIDE DEF l
  <2>. QED
    BY <1>1, <2>1, <2>2, SettlingQuery
<1>6. CASE Query(s, k, "next")
  BY <1>1, <1>2, <1>6, SettlingQuery
<1>7. CASE Commit(s, k)
  BY <1>2, <1>7, MoveCommit
<1>8. \/ Commit(s, k) \/ Refuse(s) \/ Query(s, k, "next")
      \/ \E bet \in S : Query(s, t(bet), "clv")
                        \/ \E r : Query(s, Load(t(bet), r), "score")
  BY DEF PendingNext, Args
<1>. HIDE DEF t
<1>. QED
  BY <1>4, <1>5, <1>6, <1>7, <1>8, MoveRefuse

LEMMA MeritStepMoves ==
  ASSUME NEW s, Sure(s), MeritStep(s)
  PROVE  Moves(s)
<1>1. session[s].req.op \in MeritRequests
  BY DEF MeritStep, Args, MeritRequests
<1>. QED
  BY <1>1, RecordMeritMoves, DecayMoves, PendingMatchMoves, PendingNextMoves DEF MeritStep

----------------------------------------------------------------------------
(* The registries                                                          *)

LEMMA RegistryIs ==
  ASSUME NEW s, Sure(s), session[s].req.op \in RegistryRequests
  PROVE  LET k == session[s] IN
         /\ k.req.op \in RecordRequests /\ Good(s, k) /\ WellFormed(k.req)
         /\ RecordsCarried(k, k.pc)
         /\ Row(s) = k.req.row /\ k.req.row \in Rows /\ k.req.row[1] = TableOf[k.req.op]
         /\ k.req.op \notin {"produce", "execute_upgrade"} => Free(k.req.row)
<1>1. session[s].req.op \in RecordRequests
  BY DEF RecordRequests
<1>2. session[s].req.op \in DOMAIN TableOf
  BY DEF RegistryRequests, TableOf
<1>3. session[s].req.row \in Rows /\ session[s].req.row[1] = TableOf[session[s].req.op]
  BY <1>2, RowIs
<1>4. session[s].req.op \notin {"produce", "execute_upgrade"} => Free(session[s].req.row)
  BY <1>3, TrackedIs DEF Free, Reserved, TableOf, RegistryRequests
<1>. QED
  BY <1>1, <1>3, <1>4, InRecords DEF Row, Args

LEMMA LookupMoves ==
  ASSUME NEW s, Sure(s), Lookup(s)
  PROVE  Moves(s)
<1> DEFINE k == session[s]
           r == k.req.row
           l == Load(k, r)
<1>1. k.req.op \in RegistryRequests
  BY DEF Lookup, Args, RegistryRequests
<1>2. Good(s, k) /\ k.req.op \in RecordRequests /\ Row(s) = r
  BY <1>1, RegistryIs
<1>3. CASE table[r] # Absent /\ Query(s, l, "found")
  <2>1. Good(s, l) /\ HasLoaded(l, k, r)
    BY <1>2, RowIsLoaded
  <2>. HIDE DEF l
  <2>2. l.req = k.req /\ r \in Known(l)
    BY <1>3, <2>1 DEF HasLoaded
  <2>3. RecordsCarried(l, "found")
    BY <2>2 DEF RecordsCarried
  <2>. QED
    BY <1>2, <1>3, <2>1, <2>2, <2>3, ToRecords, MoveQuery
<1>. QED
  BY <1>2, <1>3, MoveRefuse DEF Lookup

LEMMA ProduceMoves ==
  ASSUME NEW s, Sure(s), Produce(s)
  PROVE  Moves(s)
<1> DEFINE k == session[s]
           r == k.req.row
           c == Copy(k, r)
           n == c.height + 1
           b == Block(r, n)
           x == [parent |-> c.latest, hash |-> s, txns |-> k.req.amount]
           y == [height |-> n, latest |-> s, txns |-> c.txns + k.req.amount]
           l == Insert(k, b, x)
           m == Set(l, r, y)
<1>1. k.req.op = "produce" /\ k.req.op \in RegistryRequests
  BY DEF Produce, At, RegistryRequests
<1>2. Good(s, k) /\ Row(s) = r /\ r[1] = "subchain"
  BY <1>1, RegistryIs DEF TableOf
<1>3. Commit(s, m)
  BY <1>2 DEF Produce, Produced, Registered, Args
<1>4. b[1] = "subblock" /\ DOMAIN x # {} /\ r[1] \notin Tracked /\ b[1] \notin Tracked
  BY <1>2, TrackedIs DEF Block
<1>. HIDE DEF b, x, y, r
<1>5. MayInsert(k, b, x)
  BY <1>1, <1>4 DEF MayInsert, Entitled
<1>6. Good(s, l) /\ l.req = k.req
  BY <1>2, <1>4, <1>5, GoodByInsert, InsertSees
<1>. HIDE DEF l
<1>7. May(l, r, y)
  BY <1>1, <1>2, <1>4, <1>6 DEF May, Entitled, MustBeNew
<1>8. Good(s, m)
  BY <1>6, <1>7, GoodBySet
<1>. HIDE DEF m
<1>. QED
  BY <1>3, <1>8, MoveCommit

LEMMA RelayMoves ==
  ASSUME NEW s, Sure(s), Relay(s)
  PROVE  Moves(s)
<1>1. /\ session[s].req.op \in RegistryRequests
      /\ session[s].req.op \notin {"produce", "execute_upgrade"}
  BY DEF Relay, At, RegistryRequests
<1>2. Good(s, session[s]) /\ Free(Row(s))
  BY <1>1, RegistryIs
<1>3. \A x : Good(s, Set(session[s], Row(s), x))
  BY <1>2, GoodByFree
<1>. QED
  BY <1>3, MoveCommit, MoveRefuse DEF Relay

LEMMA CallMoves ==
  ASSUME NEW s, Sure(s), Call(s)
  PROVE  Moves(s)
<1> DEFINE k == session[s]
           r == Row(s)
           c == <<"contract_call", s>>
           x(status) == [contract |-> r, status |-> status, method |-> Args(s).method,
                         user |-> Args(s).user, amount |-> Args(s).amount]
           l(status) == Insert(k, c, x(status))
           d == Called(s)
<1>1. /\ k.req.op \in RegistryRequests
      /\ k.req.op \notin {"produce", "execute_upgrade"} \cup SettleRequests
  BY DEF Call, At, RegistryRequests, SettleRequests
<1>2. Good(s, k) /\ Free(r) /\ k.req.op \in RecordRequests
  BY <1>1, RegistryIs
<1>3. ASSUME NEW status PROVE Good(s, l(status))
  <2> DEFINE y == x(status)
  <2>1. DOMAIN y # {} /\ Free(c)
    BY TrackedIs DEF Free, Reserved
  <2>. HIDE DEF y, c
  <2>2. Good(s, Insert(k, c, y))
    BY <1>2, <2>1, GoodByFreeInsert
  <2>. QED
    BY <2>2 DEF y
<1>4. d = l("reverted") \/ \E y : d = Set(l("success"), r, y)
  BY DEF Called
<1>. HIDE DEF d, l
<1>5. Good(s, d)
  BY <1>2, <1>3, <1>4, GoodByFree
<1>6. CASE Query(s, d, "events")
  BY <1>1, <1>2, <1>5, <1>6, RecordQuery
<1>7. CASE Commit(s, k)
  BY <1>2, <1>7, MoveCommit
<1>8. CASE Refuse(s)
  BY <1>8, MoveRefuse
<1>. QED
  BY <1>6, <1>7, <1>8 DEF Call, d

LEMMA RecordTaskMoves ==
  ASSUME NEW s, Sure(s), RecordTask(s)
  PROVE  Moves(s)
<1> DEFINE k == session[s]
           r == Row(s)
           a == <<"agent_record", s>>
           x == [agent |-> r, success |-> Args(s).success]
           l == Insert(k, a, x)
<1>1. /\ k.req.op \in RegistryRequests
      /\ k.req.op \notin {"produce", "execute_upgrade"}
  BY DEF RecordTask, At, RegistryRequests
<1>2. Good(s, k) /\ Free(r)
  BY <1>1, RegistryIs
<1>3. Free(a) /\ DOMAIN x # {}
  BY TrackedIs DEF Free, Reserved
<1>4. \E y : Commit(s, Set(l, r, y))
  BY DEF RecordTask
<1>. HIDE DEF a, x, r
<1>5. Good(s, l)
  BY <1>2, <1>3, GoodByFreeInsert
<1>. HIDE DEF l
<1>. QED
  BY <1>2, <1>4, <1>5, GoodByFree, MoveCommit

LEMMA UpgradeMoves ==
  ASSUME NEW s, Sure(s), Upgrade(s)
  PROVE  Moves(s)
<1> DEFINE k == session[s]
           a == k.req
           r == a.row
           u == Copy(k, r)
           x == [contract |-> r, max |-> a.amount, numeric |-> a.numeric,
                 version |-> a.version, status |-> "proposed"]
           l == Insert(k, a.upgrade, x)
           c == u.contract
           y == [max |-> u.max, numeric |-> u.numeric, version |-> u.version]
           z == [status |-> "executed"]
           m == Load(k, c)
           d == Set(k, c, y)
           e == Set(d, r, z)
           p == Pay(e, r)
<1>1. k.req.op \in RegistryRequests /\ k.req.op \in {"upgrade", "execute_upgrade"}
  BY DEF Upgrade, At, RegistryRequests
<1>2. /\ Good(s, k) /\ Row(s) = r /\ k.req.op \in RecordRequests /\ WellFormed(k.req)
      /\ RecordsCarried(k, k.pc) /\ r \in Rows /\ r[1] = TableOf[a.op]
  BY <1>1, RegistryIs
<1>3. Registered(s) = u
  BY <1>2 DEF Registered
<1>4. CASE a.op = "upgrade" /\ Commit(s, l)
  <2>1. r[1] = "contract" /\ a.upgrade[1] = "upgrade"
    BY <1>2, <1>4 DEF TableOf, WellFormed
  <2> DEFINE q == a.upgrade
  <2>2. RowFits(q, x) /\ RowFull(q, x)
    BY <2>1 DEF RowFits, RowFull, Fits, Typed, Counted, Personal, Priced, Linked
  <2>3. Entitled(a, q, x) /\ DOMAIN x # {}
    BY <2>1, Unguarded DEF Reserved
  <2>. HIDE DEF x, q
  <2>4. MayInsert(k, q, x)
    BY <2>2, <2>3 DEF MayInsert
  <2>5. Good(s, l)
    BY <1>2, <2>4, GoodByInsert DEF q
  <2>. HIDE DEF l
  <2>. QED
    BY <1>4, <2>5, MoveCommit
<1>5. a.op = "execute_upgrade" /\ k.pc \in {"found", "contract"}
        => r \in Known(k) /\ r[1] = "upgrade" /\ Free(c)
  <2>1. SUFFICES ASSUME a.op = "execute_upgrade", k.pc \in {"found", "contract"}
                 PROVE  r \in Known(k) /\ r[1] = "upgrade" /\ Free(c)
    OBVIOUS
  <2>2. r \in Known(k) /\ r[1] = "upgrade"
    BY <1>2, <2>1 DEF RecordsCarried, TableOf
  <2>3. <<r[1], "contract">> \in Typed
    BY <2>2 DEF Typed, Linked
  <2>4. Fits(r[1], "contract", c)
    BY <1>2, <2>2, <2>3, CopyColumn
  <2>5. c[1] = "contract"
    BY <2>2, <2>4 DEF Fits
  <2>. HIDE DEF c
  <2>. QED
    BY <2>2, <2>5, TrackedIs DEF Free, Reserved
<1>6. CASE a.op = "execute_upgrade" /\ k.pc = "found" /\ Query(s, m, "contract")
  <2>. HIDE DEF c
  <2>1. Good(s, m) /\ HasLoaded(m, k, c)
    BY <1>2, RowIsLoaded
  <2>. HIDE DEF m
  <2>2. m.req = k.req /\ r \in Known(m)
    BY <1>5, <1>6, <2>1 DEF HasLoaded
  <2>3. RecordsCarried(m, "contract")
    BY <1>6, <2>2 DEF RecordsCarried
  <2>. QED
    BY <1>2, <1>6, <2>1, <2>2, <2>3, ToRecords, MoveQuery
<1>7. CASE a.op = "execute_upgrade" /\ k.pc = "contract" /\ Commit(s, p)
  <2>1. r \in Known(k) /\ r[1] = "upgrade" /\ Free(c)
    BY <1>5, <1>7
  <2>. HIDE DEF c, y
  <2>2. Good(s, d)
    BY <1>2, <2>1, GoodByFree
  <2>3. r \in Known(d)
    BY <1>2, <2>1, SetSees
  <2>. HIDE DEF d
  <2>4. Untyped(r, z) /\ r[1] \notin Reserved
    BY <2>1 DEF Untyped, Typed, Counted, Personal, Priced, Linked, Reserved
  <2>. HIDE DEF z
  <2>5. Good(s, e)
    BY <2>2, <2>3, <2>4, GoodByMark
  <2>. HIDE DEF e
  <2>. QED
    BY <1>7, <2>5, GoodByPay, MoveCommit
<1>. QED
  BY <1>2, <1>3, <1>4, <1>6, <1>7, MoveRefuse DEF Upgrade, At, Args

LEMMA RegistryStepMoves ==
  ASSUME NEW s, Sure(s), RegistryStep(s)
  PROVE  Moves(s)
BY LookupMoves, ProduceMoves, RelayMoves, CallMoves, UpgradeMoves, RecordTaskMoves
   DEF RegistryStep

----------------------------------------------------------------------------
(* Every step                                                              *)

LEMMA StepMoves ==
  ASSUME NEW s, Sure(s), Step(s)
  PROVE  Moves(s)
BY WalletStepMoves, ExchangeStepMoves, BridgeStepMoves, TreasuryStepMoves,
   PredictionStepMoves, RewardStepMoves, EarningStepMoves, ResultStepMoves,
   MeritStepMoves, RegistryStepMoves, MoveRefuse
   DEF Step, Deadlock

LEMMA WellFormedKept ==
  ASSUME NEW q, WellFormed(q), NEW p, SameRequest(q, p), DOMAIN q \subseteq DOMAIN p
  PROVE  WellFormed(p)
<1>1. CASE p = q
  BY <1>1
<1>2. CASE /\ q.op \in {"settle_results", "settle_pending"} /\ p.op = q.op
  BY <1>2 DEF WellFormed, TableOf, UserRequests, AmountRequests, ProfileRequests
<1>. QED
  BY <1>1, <1>2 DEF SameRequest

(* A session with nothing loaded, at the beginning or at an end.           *)
LEMMA EmptyIsSolid ==
  ASSUME NEW k, k.read = <<>>, k.wrote = <<>>, k.pc \in Closings \cup {"start"}, NEW t
  PROVE  Solid(k) /\ CarriedIn(t, k, k.pc) /\ Covered(k)
<1>1. DOMAIN k.read = {} /\ DOMAIN k.wrote = {}
  OBVIOUS
<1>2. Solid(k) /\ Covered(k)
  BY <1>1 DEF Solid, Reads, Writes, Stands, Framed, Covered
<1>3. /\ WalletCarried(k, k.pc) /\ ExchangeCarried(k, k.pc) /\ BridgeCarried(k, k.pc)
      /\ TreasuryCarried(k, k.pc)
  BY <1>1 DEF Closings, WalletCarried, ExchangeCarried, BridgeCarried, TreasuryCarried
<1>4. /\ PredictionCarried(k, k.pc) /\ RewardCarried(k, k.pc)
      /\ EarningCarriedIn(t, k, k.pc) /\ RecordsCarried(k, k.pc)
  BY <1>1 DEF Closings, PredictionCarried, RewardCarried, EarningCarriedIn, RecordsCarried
<1>. QED
  BY <1>2, <1>3, <1>4 DEF CarriedIn

----------------------------------------------------------------------------
(* A commit                                                                *)

(* The rows stay of their kinds, and those that stand stay.                *)
LEMMA FoundedKept ==
  ASSUME NEW s, NEW k, Firm(s, k), NEW pc, Committed(s, k, pc)
  PROVE  Founded(table')
<1>1. ASSUME NEW r \in Rows, r[1] \in Tracked, table'[r] # Absent
      PROVE  IsRow(table'[r]) /\ RowFits(r, table'[r]) /\ RowFull(r, table'[r])
  <2> DEFINE f == k.wrote[r]
             x == table[r]
  <2>1. r \notin k.gone
    BY <1>1 DEF Committed
  <2>2. CASE r \notin DOMAIN k.wrote
    BY <1>1, <2>1, <2>2 DEF Committed, Firm, Founded
  <2>3. CASE r \in DOMAIN k.wrote
    <3>1. table'[r] = Over(f, x)
      BY <2>1, <2>3 DEF Committed
    <3>2. RowFits(r, f) /\ (k.read[r] = Absent => RowFull(r, f))
      BY <1>1, <2>3 DEF Firm, Solid, Writes
    <3>3. k.read[r] = Absent <=> x = Absent
      BY <2>3 DEF Committed, Fails
    <3>4. x = Absent => RowFull(r, f) /\ DOMAIN x = {}
      BY <3>2, <3>3 DEF Absent
    <3>5. x # Absent => RowFits(r, x) /\ RowFull(r, x)
      BY <1>1 DEF Firm, Founded
    <3>. HIDE DEF f, x
    <3>6. /\ DOMAIN Over(f, x) = DOMAIN f \cup DOMAIN x
          /\ \A c \in DOMAIN f : Over(f, x)[c] = f[c]
          /\ \A c \in DOMAIN x : c \notin DOMAIN f => Over(f, x)[c] = x[c]
      BY OverIs
    <3>7. IsRow(Over(f, x))
      BY DEF IsRow, Over
    <3>8. RowFits(r, Over(f, x))
      BY <3>2, <3>4, <3>5, <3>6 DEF RowFits
    <3>9. RowFull(r, Over(f, x))
      BY <3>4, <3>5, <3>6 DEF RowFull
    <3>. QED
      BY <3>1, <3>7, <3>8, <3>9
  <2>. QED
    BY <2>2, <2>3
<1>2. ASSUME NEW r \in Rows, Lasting(r) PROVE table'[r] # Absent
  <2>1. r[1] \in Tracked /\ r[1] # "validator" /\ r[1] # "forecast" /\ table[r] # Absent
    BY <1>2, TrackedIs DEF Lasting, Firm, Founded
  <2>2. r \notin k.gone
    BY <2>1 DEF Firm
  <2>3. PICK p \in Typed : p[1] = r[1]
    BY <2>1 DEF Tracked
  <2>4. p[2] \in DOMAIN table[r]
    BY <2>1, <2>3 DEF Firm, Founded, RowFull
  <2>5. p[2] \in DOMAIN Over(k.wrote[r], table[r])
    <3> DEFINE f == k.wrote[r]
               x == table[r]
    <3>. HIDE DEF f, x
    <3>1. DOMAIN Over(f, x) = DOMAIN f \cup DOMAIN x
      BY OverIs
    <3>. QED
      BY <2>4, <3>1 DEF f, x
  <2>6. table'[r] = Over(k.wrote[r], table[r]) \/ table'[r] = table[r]
    BY <2>2 DEF Committed
  <2>7. p[2] \in DOMAIN table'[r]
    BY <2>4, <2>5, <2>6
  <2>8. DOMAIN Absent = {}
    BY DEF Absent
  <2>. QED
    BY <2>7, <2>8
<1>. QED
  BY <1>1, <1>2 DEF Founded

(* A referral and a reference stay what they are.                          *)
LEMMA ReferralKept ==
  ASSUME NEW s, NEW k, Firm(s, k), NEW pc, Committed(s, k, pc),
         NEW r \in Rows, r[1] \in {"referral", "reference"}, table[r] # Absent
  PROVE  table'[r] = table[r]
<1>1. r \notin k.gone
  BY DEF Firm
<1>2. r \notin DOMAIN k.wrote
  BY DEF Committed, Fails, Firm, Solid, Framed, MustBeNew
<1>. QED
  BY <1>1, <1>2 DEF Committed

LEMMA CarriedLater ==
  ASSUME NEW s, NEW k, Firm(s, k), NEW pc, Committed(s, k, pc),
         NEW m, WellFormed(m.req), NEW c, Carried(m, c)
  PROVE  CarriedIn(table', m, c)
<1> DEFINE r == <<"referral", m.req.user>>
<1>1. m.req.op = "activate" => r \in Rows /\ r[1] = "referral"
  BY DEF WellFormed
<1>2. m.req.op = "activate" /\ table[r] # Absent => table'[r] = table[r]
  BY <1>1, ReferralKept
<1>3. EarningCarriedIn(table, m, c) => EarningCarriedIn(table', m, c)
  BY <1>2 DEF EarningCarriedIn
<1>. QED
  BY <1>3 DEF Carried, CarriedIn

(* What goes on after a commit has copies of the same kinds.               *)
LEMMA ContinuedSolid ==
  ASSUME NEW s, NEW k, Good(s, k), NEW m, DOMAIN m.wrote = {},
         m.read = [r \in DOMAIN k.read |-> Copy(k, r)]
  PROVE  Solid(m)
<1>1. DOMAIN m.read = DOMAIN k.read /\ \A r \in DOMAIN k.read : m.read[r] = Copy(k, r)
  OBVIOUS
<1>2. ASSUME NEW r \in Rows \cap DOMAIN k.read, r[1] \in Tracked, Copy(k, r) # Absent
      PROVE  RowFits(r, Copy(k, r)) /\ RowFull(r, Copy(k, r))
  <2>1. r \in Known(k)
    BY <1>2 DEF Known, Exists, Copy
  <2>. QED
    BY <1>2, <2>1, TypedCopy
<1>3. ASSUME NEW r \in DOMAIN k.read, Lasting(r) PROVE Copy(k, r) # Absent
  <2>1. r \in Known(k) /\ r \in Rows /\ r[1] \in Tracked
    BY <1>3 DEF Good, Firm, Solid, Stands, Known, Lasting, Standing
  <2>2. RowFull(r, Copy(k, r))
    BY <2>1, TypedCopy
  <2>3. PICK p \in Typed : p[1] = r[1]
    BY <2>1 DEF Tracked
  <2>4. p[2] \in DOMAIN Copy(k, r)
    BY <2>2, <2>3 DEF RowFull
  <2>5. DOMAIN Absent = {}
    BY DEF Absent
  <2>. QED
    BY <2>4, <2>5
<1>. QED
  BY <1>1, <1>2, <1>3 DEF Solid, Reads, Writes, Stands, Framed, Exists

----------------------------------------------------------------------------
(* The inductive invariant                                                 *)

CoveredInv == \A s \in Sessions : Covered(session[s])
SolvencyInv == SolidInv /\ CarriedInv /\ CoveredInv

LEMMA SureIs ==
  ASSUME SessionsInv, SolidInv, CarriedInv, NEW s \in Sessions
  PROVE  Sure(s)
BY DEF SessionsInv, Prepared, Recorded, SolidInv, CarriedInv, Sure, Good, Firm, Grows,
       SameRequest, Known

LEMMA SolvencyInvInit ==
  ASSUME Init
  PROVE  SolvencyInv
<1>1. PICK script \in Scripts : session = [s \in Sessions |-> Opened(script[s])]
  BY DEF Init, Start
<1>2. Founded(table)
  BY OpeningRows DEF Init, Founded, Lasting, Standing
<1>3. ASSUME NEW s \in Sessions
      PROVE  /\ WellFormed(session[s].req) /\ Solid(session[s]) /\ Covered(session[s])
             /\ CarriedIn(table, session[s], session[s].pc)
  <2> DEFINE k == session[s]
  <2>1. k = Opened(script[s]) /\ WellFormed(script[s])
    BY <1>1, WellFormedRequests
  <2>2. k.req = script[s] /\ k.pc = "start" /\ k.read = <<>> /\ k.wrote = <<>>
    BY <2>1, OpenedIs
  <2>. HIDE DEF k
  <2>3. Solid(k) /\ CarriedIn(table, k, k.pc) /\ Covered(k)
    BY <2>2, EmptyIsSolid
  <2>. QED
    BY <2>1, <2>2, <2>3 DEF k
<1>. QED
  BY <1>2, <1>3 DEF SolvencyInv, SolidInv, CarriedInv, CoveredInv, Carried

LEMMA SolvencyByTurn ==
  ASSUME SessionsInv, SolvencyInv, NEW s \in Sessions, NEW k, Firm(s, k),
         Carried(k, k.pc), Covered(session[s]) => Covered(k), Keep(s, k), UNCHANGED store
  PROVE  SolvencyInv'
<1>0. table' = table /\ Founded(table)
  BY DEF store, Firm
<1>1. WellFormed(k.req) /\ Solid(k) /\ Covered(k) /\ CarriedIn(table, k, k.pc)
  BY WellFormedKept DEF SolvencyInv, SolidInv, CoveredInv, Firm, Carried
<1>2. ASSUME NEW u \in Sessions
      PROVE  /\ WellFormed(session'[u].req) /\ Solid(session'[u]) /\ Covered(session'[u])
             /\ CarriedIn(table, session'[u], session'[u].pc)
  <2>1. session'[u] = IF u = s THEN k ELSE session[u]
    BY DEF Keep, SessionsInv
  <2>2. CASE u = s
    BY <1>1, <2>1, <2>2
  <2>3. CASE u # s
    BY <2>1, <2>3 DEF SolvencyInv, SolidInv, CarriedInv, CoveredInv, Carried
  <2>. QED
    BY <2>2, <2>3
<1>. QED
  BY <1>0, <1>2 DEF SolvencyInv, SolidInv, CarriedInv, CoveredInv, Carried

LEMMA SolvencyByClosing ==
  ASSUME SessionsInv, SolvencyInv, NEW s \in Sessions, NEW how \in Closings,
         Keep(s, Closed(session[s], how)), UNCHANGED store
  PROVE  SolvencyInv'
<1> DEFINE k == Closed(session[s], how)
<1>1. /\ IsSession(k) /\ k.req = session[s].req /\ k.pc = how
      /\ k.wrote = <<>> /\ k.read = <<>> /\ k.gone = {}
  BY ClosedIs
<1>2. Keep(s, k)
  OBVIOUS
<1>. HIDE DEF k
<1>3. Solid(k) /\ CarriedIn(table, k, k.pc) /\ Covered(k)
  BY <1>1, EmptyIsSolid
<1>4. Firm(s, k)
  BY <1>1, <1>3 DEF Firm, SolvencyInv, SolidInv, SameRequest
<1>. QED
  BY <1>2, <1>3, <1>4, SolvencyByTurn DEF Carried

LEMMA SolvencyByCommit ==
  ASSUME SessionsInv, SolvencyInv, NEW s \in Sessions, NEW k, NEW pc, Good(s, k),
         Committed(s, k, pc), pc = "done" \/ Carried(Continued(k), pc)
  PROVE  SolvencyInv'
<1>0. Firm(s, k) /\ WellFormed(k.req) /\ Founded(table')
  <2>1. Firm(s, k)
    BY DEF Good
  <2>2. WellFormed(k.req)
    BY <2>1, WellFormedKept DEF Firm, SolvencyInv, SolidInv
  <2>. QED
    BY <2>1, <2>2, FoundedKept
<1>1. ASSUME NEW u \in Sessions
      PROVE  /\ WellFormed(session'[u].req) /\ Solid(session'[u]) /\ Covered(session'[u])
             /\ CarriedIn(table', session'[u], session'[u].pc)
  <2> DEFINE m == session'[u]
             l == session[u]
  <2>1. CASE u = s /\ pc = "done"
    <3>1. m = Closed(k, pc)
      BY <2>1 DEF Committed
    <3>2. m.req = k.req /\ m.pc = "done" /\ m.wrote = <<>> /\ m.read = <<>>
      BY <2>1, <3>1, ClosedIs
    <3>. HIDE DEF m
    <3>3. Solid(m) /\ CarriedIn(table', m, m.pc) /\ Covered(m)
      BY <3>2, EmptyIsSolid DEF Closings
    <3>. QED
      BY <1>0, <3>2, <3>3 DEF m
  <2>2. CASE u = s /\ pc # "done"
    <3> DEFINE n == [Continued(k) EXCEPT !.pc = pc]
    <3>1. m = n
      BY <2>2 DEF Committed
    <3>0. /\ IsSession(n) /\ n.req = k.req /\ n.pc = pc /\ n.wrote = <<>>
          /\ n.read = [r \in DOMAIN k.read |-> Copy(k, r)]
          /\ n.gone = {} /\ n.held = {} /\ n.old = k.old \ Cells(k) /\ n.pays = {}
      BY ContinuedIs
    <3>. HIDE DEF n
    <3>2. /\ m.req = k.req /\ m.pc = pc /\ m.wrote = <<>>
          /\ m.read = [r \in DOMAIN k.read |-> Copy(k, r)]
      BY <3>0, <3>1
    <3>. HIDE DEF m
    <3>3. DOMAIN m.wrote = {}
      BY <3>2
    <3>4. Solid(m) /\ Covered(m)
      BY <3>2, <3>3, ContinuedSolid DEF Covered
    <3> DEFINE c == Continued(k)
    <3>5. c.req = k.req /\ c.read = [r \in DOMAIN k.read |-> Copy(k, r)] /\ c.wrote = <<>>
      BY DEF Continued, Opened
    <3>6. Carried(c, pc)
      BY <2>2
    <3>. HIDE DEF c
    <3>7. Carried(m, pc)
      BY <3>2, <3>5, <3>6, CarriedAlike
    <3>8. CarriedIn(table', m, pc)
      BY <1>0, <3>2, <3>7, CarriedLater
    <3>. QED
      BY <1>0, <3>2, <3>4, <3>8 DEF m
  <2>3. CASE u # s
    <3>1. IsSession(l) /\ WellFormed(l.req) /\ Solid(l) /\ Covered(l) /\ Carried(l, l.pc)
      BY DEF SessionsInv, Prepared, Recorded, SolvencyInv, SolidInv, CarriedInv, CoveredInv
    <3>2. /\ m.req = l.req /\ m.pc = l.pc /\ m.wrote = l.wrote /\ m.read = l.read
          /\ m.held = l.held
      BY <2>3, <3>1, OtherCommit
    <3>. HIDE DEF m, l
    <3>3. Carried(m, l.pc)
      BY <3>1, <3>2, CarriedAlike
    <3>4. CarriedIn(table', m, m.pc)
      BY <1>0, <3>1, <3>2, <3>3, CarriedLater
    <3>5. Solid(m) /\ Covered(m)
      BY <3>1, <3>2 DEF Solid, Reads, Writes, Stands, Framed, Exists, Covered
    <3>. QED
      BY <3>1, <3>2, <3>4, <3>5 DEF m
  <2>. QED
    BY <2>1, <2>2, <2>3
<1>. QED
  BY <1>0, <1>1 DEF SolvencyInv, SolidInv, CarriedInv, CoveredInv, Carried

LEMMA SolvencyInvNext ==
  ASSUME SessionsInv, SolvencyInv, [Next]_vars
  PROVE  SolvencyInv'
<1>1. ASSUME NEW s \in Sessions, Step(s) PROVE SolvencyInv'
  <2>1. Moves(s)
    BY <1>1, SureIs, StepMoves DEF SolvencyInv
  <2>2. ASSUME NEW k, Firm(s, k), Carried(k, k.pc), Covered(session[s]) => Covered(k),
               Keep(s, k), UNCHANGED <<store, faults>>
        PROVE  SolvencyInv'
    BY <2>2, SolvencyByTurn
  <2>3. ASSUME NEW how \in Closings, End(s, how) PROVE SolvencyInv'
    BY <2>3, SolvencyByClosing DEF End
  <2>4. ASSUME NEW k, NEW pc, Good(s, k), CommitThen(s, k, pc),
               pc = "done" \/ Carried(Continued(k), pc)
        PROVE  SolvencyInv'
    <3>1. CASE End(s, "refused")
      BY <2>3, <3>1 DEF Closings
    <3>2. CASE Committed(s, k, pc)
      BY <2>4, <3>2, SolvencyByCommit
    <3>. QED
      BY <2>4, <3>1, <3>2, CommitIs
  <2>. QED
    BY <2>1, <2>2, <2>3, <2>4 DEF Moves
<1>2. ASSUME NEW s \in Sessions, SessionLost(s) PROVE SolvencyInv'
  BY <1>2, SolvencyByClosing DEF SessionLost, Closings
<1>3. CASE UNCHANGED vars
  <2>1. table' = table /\ session' = session
    BY <1>3 DEF vars
  <2>. QED
    BY <2>1 DEF SolvencyInv, SolidInv, CarriedInv, CoveredInv, Carried
<1>. QED
  BY <1>1, <1>2, <1>3 DEF Next

(* Every session has copies of the right kinds, has loaded what its next   *)
(* statement takes money from, and writes no balance below zero.           *)
THEOREM SolvencyInvAlways == Spec => []SolvencyInv
BY SolvencyInvInit, SolvencyInvNext, SessionsInvAlways, PTL DEF Spec

----------------------------------------------------------------------------
(* What is submitted to the chain is debited                               *)

(* References are inserted and never written again: what is recorded under *)
(* one stays.                                                              *)
LEMMA ReferencesFixed ==
  ASSUME SessionsInv, SolvencyInv, [Next]_vars,
         NEW r \in Rows, r[1] = "reference", table[r] # Absent
  PROVE  table'[r] = table[r]
<1>1. ASSUME NEW s \in Sessions, Step(s) PROVE table'[r] = table[r]
  <2>1. Moves(s)
    BY <1>1, SureIs, StepMoves DEF SolvencyInv
  <2>2. ASSUME NEW k, NEW pc, Good(s, k), CommitThen(s, k, pc) PROVE table'[r] = table[r]
    <3>1. CASE End(s, "refused")
      BY <3>1 DEF End, store
    <3>2. CASE Committed(s, k, pc)
      BY <2>2, <3>2, ReferralKept DEF Good
    <3>. QED
      BY <2>2, <3>1, <3>2, CommitIs
  <2>3. ASSUME NEW how, End(s, how) PROVE table'[r] = table[r]
    BY <2>3 DEF End, store
  <2>. QED
    BY <2>1, <2>2, <2>3 DEF Moves, store
<1>2. ASSUME NEW s \in Sessions, SessionLost(s) PROVE table'[r] = table[r]
  BY <1>2 DEF SessionLost, store
<1>3. CASE UNCHANGED vars
  BY <1>3 DEF vars
<1>. QED
  BY <1>1, <1>2, <1>3 DEF Next

(* A transfer whose request is done is recorded as its own.                *)
OwnDebit(s) == session[s].pc = "done" => table[OutRef(s)].hash = s
OwnInv == \A s \in submitted : OwnDebit(s)

(* A request that has ended stays as it is.                                *)
LEMMA EndedStays ==
  ASSUME SessionsInv, [Next]_vars, NEW u \in Sessions, Ended(u)
  PROVE  session'[u].pc = session[u].pc /\ session'[u].req = session[u].req
<1>1. ASSUME NEW s \in Sessions, s # u, NEW k,
             \/ Keep(s, k) /\ UNCHANGED store
             \/ \E pc : Committed(s, k, pc)
      PROVE  session'[u].pc = session[u].pc /\ session'[u].req = session[u].req
  <2>1. CASE Keep(s, k)
    BY <1>1, <2>1 DEF Keep, SessionsInv
  <2>2. ASSUME NEW pc, Committed(s, k, pc)
        PROVE  session'[u].pc = session[u].pc /\ session'[u].req = session[u].req
    BY <1>1, <2>2, OtherCommit DEF SessionsInv, Prepared, Recorded
  <2>. QED
    BY <1>1, <2>1, <2>2
<1>2. ASSUME NEW s \in Sessions, Step(s)
      PROVE  session'[u].pc = session[u].pc /\ session'[u].req = session[u].req
  <2>1. s # u
    BY <1>2 DEF Step
  <2>2. PICK k : \/ Keep(s, k) /\ UNCHANGED store
                 \/ \E pc : Committed(s, k, pc)
    BY <1>2, StepShape
  <2>. QED
    BY <1>1, <2>1, <2>2
<1>3. ASSUME NEW s \in Sessions, SessionLost(s)
      PROVE  session'[u].pc = session[u].pc /\ session'[u].req = session[u].req
  <2>1. s # u
    BY <1>3 DEF SessionLost
  <2>2. Keep(s, Closed(session[s], "lost")) /\ UNCHANGED store
    BY <1>3 DEF SessionLost
  <2>. QED
    BY <1>1, <2>1, <2>2
<1>4. CASE UNCHANGED vars
  BY <1>4 DEF vars
<1>. QED
  BY <1>2, <1>3, <1>4 DEF Next

LEMMA OwnInvNext ==
  ASSUME SessionsInv, FreshInv, SolvencyInv, BridgeInv, OwnInv, [Next]_vars
  PROVE  OwnInv'
<1>1. SUFFICES ASSUME NEW u \in submitted', session'[u].pc = "done"
               PROVE  table'[OutRef(u)'].hash = u
  BY DEF OwnInv, OwnDebit
<1>2. CASE u \in submitted /\ Ended(u)
  <2>1. u \in Sessions /\ Outgoing(session[u]) /\ Handed(u) /\ OwnDebit(u)
    BY <1>2 DEF BridgeInv, OwnInv
  <2>2. session[u].pc = "done" /\ session'[u].req = session[u].req
    BY <1>1, <1>2, <2>1, EndedStays
  <2>3. /\ OutRef(u) \in Rows /\ OutRef(u)[1] = "reference"
        /\ OutRef(u)' = OutRef(u) /\ table[OutRef(u)] # Absent
    BY <2>1, <2>2 DEF SessionsInv, Prepared, Proper, Outgoing, OutRef, Ref, Args, Handed
  <2>4. table'[OutRef(u)] = table[OutRef(u)]
    BY <2>3, ReferencesFixed
  <2>. QED
    BY <2>1, <2>2, <2>3, <2>4 DEF OwnDebit
(* Another one's step leaves the request where it is, which is not its end;*)
(* so the step is its own.                                                 *)
<1>3. CASE u \in submitted /\ ~Ended(u)
  <2>1. /\ u \in Sessions /\ Outgoing(session[u]) /\ session[u].pc = "record"
        /\ Debiting(u)
    BY <1>3 DEF BridgeInv, Handed, Ended
  <2>2. ASSUME NEW s \in Sessions, s # u, NEW k, Kept(s, k),
               \/ Keep(s, k) /\ UNCHANGED store
               \/ \E pc : Committed(s, k, pc)
        PROVE  FALSE
    BY <1>1, <2>1, <2>2, DebitingOfOthers
  <2>3. ASSUME NEW s \in Sessions, s # u, Step(s) PROVE FALSE
    BY <2>2, <2>3, StepShape
  <2>4. ASSUME NEW s \in Sessions, SessionLost(s) PROVE FALSE
    <3>1. Kept(s, Closed(session[s], "lost"))
      BY KeptAtFirst, KeptByClosing DEF SessionsInv, Prepared
    <3>2. Keep(s, Closed(session[s], "lost")) /\ UNCHANGED store
      BY <2>4 DEF SessionLost
    <3>3. s = u
      BY <2>2, <3>1, <3>2
    <3>4. session'[u].pc = "lost"
      BY <2>1, <3>2, <3>3, ClosedIs DEF Keep, SessionsInv
    <3>. QED
      BY <1>1, <3>4
  <2>5. CASE Step(u)
    <3>1. BridgeRecord(u)
      BY <2>1, <2>5, OnlyBridging DEF LockingPcs
    <3>2. session'[u].req = session[u].req /\ table'[OutRef(u)].hash = u
      BY <1>1, <2>1, <3>1, Recording
    <3>. QED
      BY <3>2 DEF OutRef, Args
  <2>6. ~UNCHANGED vars
    BY <1>1, <2>1 DEF vars
  <2>. QED
    BY <2>3, <2>4, <2>5, <2>6 DEF Next
(* What is submitted by this step is recorded by a later one.              *)
<1>4. CASE u \notin submitted
  <2>1. PICK s \in Sessions : Step(s) /\ submitted' # submitted
    BY <1>1, <1>4 DEF Next, vars
  <2>2. BridgeSubmit(s)
    BY <2>1 DEF Step, BridgeStep, Deadlock
  <2>3. u = s /\ Keep(s, [session[s] EXCEPT !.pc = "record"])
    BY <1>1, <1>4, <2>1, <2>2 DEF BridgeSubmit
  <2>4. session'[s].pc = "record"
    BY <2>3 DEF Keep, SessionsInv, Prepared, Recorded, IsSession
  <2>. QED
    BY <1>1, <2>3, <2>4
<1>. QED
  BY <1>2, <1>3, <1>4

(* SubmittedIsDebited, for any users, keys and requests: wallet_to_chain   *)
(* holds the wallet from its lock to its commit, so that it ends only with *)
(* its own debit or because its key is taken, and what is recorded under a *)
(* reference is never written again.                                       *)
THEOREM SubmittedIsDebitedAlways == Spec => []SubmittedIsDebited
<1>1. Init => OwnInv
  BY DEF Init, OwnInv
<1>2. SessionsInv /\ FreshInv /\ SolvencyInv /\ BridgeInv /\ OwnInv /\ [Next]_vars => OwnInv'
  BY OwnInvNext
<1>3. Spec => []OwnInv
  BY <1>1, <1>2, SessionsInvAlways, FreshInvAlways, SolvencyInvAlways, BridgeInvAlways, PTL
     DEF Spec
<1>4. BridgeInv /\ OwnInv => SubmittedIsDebited
  BY DEF BridgeInv, Handed, OwnInv, OwnDebit, SubmittedIsDebited
<1>. QED
  BY <1>3, <1>4, BridgeInvAlways, PTL

----------------------------------------------------------------------------
(* What follows from it                                                    *)

LEMMA OfKindIs ==
  ASSUME NEW kind, NEW r \in OfKind(kind)
  PROVE  r \in Rows /\ r[1] = kind /\ table[r] # Absent
BY DEF OfKind, KindIn, RowsOfKind

(* A column that is counted has a number in each row of the table.         *)
LEMMA CountedIs ==
  ASSUME SolvencyInv, NEW r \in Rows, table[r] # Absent, NEW c, <<r[1], c>> \in Counted
  PROVE  c \in DOMAIN table[r] /\ table[r][c] \in Nat
<1>1. <<r[1], c>> \in Typed
  BY DEF Typed
<1>2. RowFits(r, table[r]) /\ RowFull(r, table[r])
  BY <1>1, Kind DEF SolvencyInv, SolidInv, Founded
<1>3. c \in DOMAIN table[r]
  BY <1>1, <1>2 DEF RowFull
<1>. QED
  BY <1>2, <1>3 DEF RowFits, Fits

LEMMA WalletIs ==
  ASSUME SolvencyInv, NEW r \in Rows, r[1] = "wallet", table[r] # Absent
  PROVE  table[r] \in [vit : Nat, staked : Nat, ngn : Nat]
<1> DEFINE x == table[r]
<1>1. IsRow(x) /\ RowFits(r, x)
  BY TrackedIs DEF SolvencyInv, SolidInv, Founded
<1>2. \A c \in DOMAIN x : c \in WalletColumns
  BY <1>1 DEF RowFits, Fits
<1>3. \A c \in WalletColumns : c \in DOMAIN x /\ x[c] \in Nat
  <2>1. \A c \in WalletColumns : <<"wallet", c>> \in Counted
    BY DEF WalletColumns, Counted
  <2>. QED
    BY <2>1, CountedIs
<1>. HIDE DEF x
<1>4. DOMAIN x = {"vit", "staked", "ngn"}
  BY <1>2, <1>3 DEF WalletColumns
<1>5. x = [vit |-> x.vit, staked |-> x.staked, ngn |-> x.ngn]
  BY <1>1, <1>4 DEF IsRow
<1>6. x.vit \in Nat /\ x.staked \in Nat /\ x.ngn \in Nat
  BY <1>3 DEF WalletColumns
<1>. QED
  BY <1>5, <1>6 DEF x

LEMMA BalancesStayPositive ==
  ASSUME SolvencyInv
  PROVE  NoNegativeBalance
<1>1. ASSUME NEW r \in OfKind("wallet"), NEW c \in DOMAIN table[r] PROVE table[r][c] >= 0
  <2>1. r \in Rows /\ r[1] = "wallet" /\ table[r] # Absent
    BY OfKindIs
  <2>2. table[r] \in [vit : Nat, staked : Nat, ngn : Nat]
    BY <2>1, WalletIs
  <2>. QED
    BY <1>1, <2>2
<1>2. ASSUME NEW r \in OfKind("offer")
      PROVE  table[r].available >= 0 /\ table[r].escrowed >= 0
  <2>1. r \in Rows /\ r[1] = "offer" /\ table[r] # Absent
    BY OfKindIs
  <2>2. <<r[1], "available">> \in Counted /\ <<r[1], "escrowed">> \in Counted
    BY <2>1 DEF Counted
  <2>3. table[r].available \in Nat /\ table[r].escrowed \in Nat
    BY <2>1, <2>2, CountedIs
  <2>. QED
    BY <2>3
<1>3. ASSUME NEW r \in OfKind("bridge_pool") PROVE table[r].liquidity >= 0
  <2>1. r \in Rows /\ r[1] = "bridge_pool" /\ table[r] # Absent
    BY OfKindIs
  <2>2. <<r[1], "liquidity">> \in Counted
    BY <2>1 DEF Counted
  <2>3. table[r].liquidity \in Nat
    BY <2>1, <2>2, CountedIs
  <2>. QED
    BY <2>3
<1>4. ASSUME NEW r \in OfKind("pool") PROVE table[r].balance >= 0
  <2>1. r \in Rows /\ r[1] = "pool" /\ table[r] # Absent
    BY OfKindIs
  <2>2. <<r[1], "balance">> \in Counted
    BY <2>1 DEF Counted
  <2>3. table[r].balance \in Nat
    BY <2>1, <2>2, CountedIs
  <2>. QED
    BY <2>3
<1>. QED
  BY <1>1, <1>2, <1>3, <1>4 DEF NoNegativeBalance

(* NoNegativeBalance, for any requests that the routes let in: however the *)
(* handlers overlap, and whatever they write over, no wallet, escrow,      *)
(* offer, bridge pool or treasury pool goes below zero.                    *)
THEOREM NoNegativeBalanceAlways == Spec => []NoNegativeBalance
BY BalancesStayPositive, SolvencyInvAlways, PTL

FaultsInv == faults \in 0 .. MaxFaults

LEMMA FaultsInvNext ==
  ASSUME SessionsInv, FaultsInv, [Next]_vars
  PROVE  FaultsInv'
<1>1. ASSUME NEW s \in Sessions, Step(s) PROVE faults' = faults
  BY <1>1, StepShape
<1>2. ASSUME NEW s \in Sessions, SessionLost(s) PROVE FaultsInv'
  BY <1>2, FaultsBounded DEF SessionLost, FaultsInv
<1>. QED
  BY <1>1, <1>2 DEF Next, vars, FaultsInv

LEMMA TypesAre ==
  ASSUME SolvencyInv, SessionsInv, BridgeInv, FaultsInv
  PROVE  TypeOK
<1>1. ASSUME NEW r \in OfKind("wallet")
      PROVE  table[r] \in [vit : Int, staked : Int, ngn : Int]
  <2>1. r \in Rows /\ r[1] = "wallet" /\ table[r] # Absent
    BY OfKindIs
  <2>2. table[r] \in [vit : Nat, staked : Nat, ngn : Nat]
    BY <2>1, WalletIs
  <2>. QED
    BY <2>2
<1>2. ASSUME NEW r \in OfKind("offer")
      PROVE  table[r].available \in Int /\ table[r].escrowed \in Int
  <2>1. r \in Rows /\ r[1] = "offer" /\ table[r] # Absent
    BY OfKindIs
  <2>2. <<r[1], "available">> \in Counted /\ <<r[1], "escrowed">> \in Counted
    BY <2>1 DEF Counted
  <2>3. table[r].available \in Nat /\ table[r].escrowed \in Nat
    BY <2>1, <2>2, CountedIs
  <2>. QED
    BY <2>3
<1>3. \A s \in Sessions : DOMAIN session[s].wrote \subseteq session[s].held
  BY DEF SolvencyInv, CoveredInv, Covered
<1>4. LocksExclude /\ faults \in 0 .. MaxFaults
  BY DEF SessionsInv, FaultsInv
<1>5. submitted \subseteq Sessions
  BY DEF BridgeInv
<1>. QED
  BY <1>1, <1>2, <1>3, <1>4, <1>5 DEF TypeOK

(* The table, the sessions and the counters have their types, for any      *)
(* requests.                                                               *)
THEOREM TypeOKAlways == Spec => []TypeOK
<1>1. Init => FaultsInv
  BY FaultsBounded DEF Init, FaultsInv
<1>2. Spec => []FaultsInv
  BY <1>1, FaultsInvNext, SessionsInvAlways, PTL DEF Spec
<1>. QED
  BY <1>2, TypesAre, SolvencyInvAlways, SessionsInvAlways, BridgeInvAlways, PTL

----------------------------------------------------------------------------
(* A settlement closes every stake of its match                            *)

(* It writes to no other pool, and closes it with the last statement,      *)
ClosesOwn(k, pc) ==
    \A r \in DOMAIN k.wrote : r[1] = "consensus" =>
        /\ r = <<"consensus", k.req.match>>
        /\ pc # "grade" /\ "status" \in DOMAIN k.wrote[r] => k.wrote[r].status # "settled"

(* the stakes it has loaded were active, and those on a match that has     *)
(* begun are all there are,                                                *)
HasStakes(k) ==
    /\ \A r \in DOMAIN k.read : r[1] = "stake" =>
         r \in Rows /\ k.read[r] # Absent /\ k.read[r].status = "active"
    /\ k.req.match \in KickedOff => StakesOf(k.req.match) \subseteq DOMAIN k.read

(* and it has ended each of them by then.                                  *)
StakesEnded(k) ==
    \A r \in DOMAIN k.read : r[1] = "stake" => Copy(k, r).status # "active"

Thorough(k, pc) ==
    /\ ClosesOwn(k, pc)
    /\ pc \in {"stakes", "pay", "grade"} => HasStakes(k)
    /\ pc = "grade" => StakesEnded(k)

SettlingInv ==
    \A s \in Sessions :
      session[s].req.op \in Settlers => Thorough(session[s], session[s].pc)

(* m has the stakes of k, and has changed the rows of the kinds K alike.   *)
Alike(K, m, k) ==
    /\ m.req = k.req
    /\ \A r : r[1] = "stake" =>
         /\ r \in DOMAIN m.read <=> r \in DOMAIN k.read
         /\ r \in DOMAIN k.read => m.read[r] = k.read[r]
    /\ \A r : r[1] \in K =>
         /\ r \in DOMAIN m.wrote <=> r \in DOMAIN k.wrote
         /\ r \in DOMAIN k.wrote => m.wrote[r] = k.wrote[r]

LEMMA ThoroughAlike ==
  ASSUME NEW K, NEW m, NEW k, Alike(K, m, k)
  PROVE  /\ HasStakes(k) => HasStakes(m)
         /\ "consensus" \in K => \A pc : ClosesOwn(k, pc) => ClosesOwn(m, pc)
         /\ "stake" \in K => (StakesEnded(k) => StakesEnded(m))
<1>1. HasStakes(k) => HasStakes(m)
  <2>1. \A r \in StakesOf(k.req.match) : r[1] = "stake"
    BY DEF StakesOf
  <2>. QED
    BY <2>1 DEF Alike, HasStakes
<1>2. "consensus" \in K => \A pc : ClosesOwn(k, pc) => ClosesOwn(m, pc)
  BY DEF Alike, ClosesOwn
<1>3. "stake" \in K => (StakesEnded(k) => StakesEnded(m))
  BY DEF Alike, StakesEnded, Copy
<1>. QED
  BY <1>1, <1>2, <1>3

LEMMA AlikeTwice ==
  ASSUME NEW K, NEW m, NEW l, NEW k, Alike(K, m, l), Alike(K, l, k)
  PROVE  Alike(K, m, k)
BY DEF Alike

LEMMA AlikeByLoadAll ==
  ASSUME NEW K, NEW k, IsSession(k), NEW S, \A r \in S : r[1] # "stake"
  PROVE  IsSession(LoadAll(k, S)) /\ Alike(K, LoadAll(k, S), k)
<1> DEFINE m == LoadAll(k, S)
<1>1. /\ IsSession(m) /\ m.req = k.req /\ m.wrote = k.wrote
      /\ DOMAIN m.read = (S \ Known(k)) \cup DOMAIN k.read
      /\ \A r \in DOMAIN k.read : r \notin S \ Known(k) => m.read[r] = k.read[r]
  BY LoadedFields
<1>. HIDE DEF m
<1>2. \A r : r[1] = "stake" => r \notin S \ Known(k)
  OBVIOUS
<1>3. Alike(K, m, k)
  BY <1>1, <1>2 DEF Alike
<1>4. IsSession(m)
  BY <1>1
<1>. QED
  BY <1>3, <1>4 DEF m

LEMMA AlikeByEach ==
  ASSUME NEW K, NEW k, IsSession(k), NEW f, \A r \in DOMAIN f : r[1] \notin K
  PROVE  IsSession(SetEach(k, f)) /\ Alike(K, SetEach(k, f), k)
<1> DEFINE m == SetEach(k, f)
<1>1. /\ IsSession(m) /\ m.req = k.req /\ m.read = k.read
      /\ DOMAIN m.wrote = ChangedBy(k, f) \cup DOMAIN k.wrote
      /\ \A r \in DOMAIN k.wrote : r \notin ChangedBy(k, f) => m.wrote[r] = k.wrote[r]
  BY SetFields
<1>2. \A r \in ChangedBy(k, f) : r[1] \notin K
  BY DEF ChangedBy
<1>. HIDE DEF m
<1>. QED
  BY <1>1, <1>2 DEF Alike, m

LEMMA AlikeBySet ==
  ASSUME NEW K, NEW k, IsSession(k), NEW r, r[1] \notin K, NEW x
  PROVE  IsSession(Set(k, r, x)) /\ Alike(K, Set(k, r, x), k)
<1> DEFINE f == Only(r, x)
<1>1. DOMAIN f = {r}
  BY OnlyIs
<1>. HIDE DEF f
<1>2. IsSession(SetEach(k, f)) /\ Alike(K, SetEach(k, f), k)
  BY <1>1, AlikeByEach
<1>. QED
  BY <1>2 DEF Set, f

LEMMA AlikeByInsert ==
  ASSUME NEW K, NEW k, IsSession(k), NEW r, r[1] \notin K, r[1] # "stake",
         NEW x, DOMAIN x # {}
  PROVE  IsSession(Insert(k, r, x)) /\ Alike(K, Insert(k, r, x), k)
<1> DEFINE m == Insert(k, r, x)
<1>1. /\ IsSession(m)
      /\ m.req = k.req /\ m.pc = k.pc /\ m.gone = k.gone
      /\ m.held = k.held /\ m.old = k.old /\ m.pays = k.pays
      /\ DOMAIN m.read = {r} \cup DOMAIN k.read /\ m.read[r] = Absent
      /\ \A z \in DOMAIN k.read : z # r => m.read[z] = k.read[z]
      /\ DOMAIN m.wrote = {r} \cup DOMAIN k.wrote
      /\ \A z \in DOMAIN k.wrote : z # r => m.wrote[z] = k.wrote[z]
      /\ Part(x, m.wrote[r]) /\ Mix(m.wrote[r], x, Written(k, r))
  BY InsertFields
<1>. HIDE DEF m
<1>. QED
  BY <1>1 DEF Alike, m

(* A change of several rows gives them the columns, and no other row.      *)
LEMMA EachCopies ==
  ASSUME NEW k, IsSession(k), NEW f, NEW r
  PROVE  /\ r \notin DOMAIN f => Copy(SetEach(k, f), r) = Copy(k, r)
         /\ r \in DOMAIN f => \A c \in DOMAIN f[r] : Copy(SetEach(k, f), r)[c] = f[r][c]
<1> DEFINE m == SetEach(k, f)
           e == Copy(k, r)
           w == Written(k, r)
           d == Changes(e, f[r])
           y == k.read[r]
<1>1. /\ IsSession(m) /\ m.read = k.read
      /\ DOMAIN m.wrote = ChangedBy(k, f) \cup DOMAIN k.wrote
      /\ \A z \in ChangedBy(k, f) :
           m.wrote[z] = Over(Changes(Copy(k, z), f[z]), Written(k, z))
      /\ \A z \in DOMAIN k.wrote : z \notin ChangedBy(k, f) => m.wrote[z] = k.wrote[z]
  BY SetFields
<1>. HIDE DEF m
<1>2. r \notin ChangedBy(k, f) => Copy(m, r) = e
  BY <1>1 DEF Copy
<1>3. ChangedBy(k, f) \subseteq DOMAIN f
  BY DEF ChangedBy
<1>4. /\ DOMAIN d = {c \in DOMAIN f[r] : c \notin DOMAIN e \/ e[c] # f[r][c]}
      /\ \A c \in DOMAIN d : d[c] = f[r][c]
  BY DEF Changes
<1>5. ASSUME r \in DOMAIN f, NEW c \in DOMAIN f[r] PROVE Copy(m, r)[c] = f[r][c]
  <2>1. CASE r \notin ChangedBy(k, f)
    <3>1. DOMAIN d = {}
      BY <1>5, <2>1 DEF ChangedBy
    <3>2. e[c] = f[r][c]
      BY <1>4, <1>5, <3>1
    <3>. QED
      BY <1>2, <2>1, <3>2
  <2>2. CASE r \in ChangedBy(k, f)
    <3>1. Copy(m, r) = Over(Over(d, w), y)
      BY <1>1, <2>2 DEF Copy
    <3>2. e = Over(w, y) \/ (DOMAIN w = {} /\ e = y)
      BY DEF Copy, Written
    <3>. HIDE DEF d, w, y, e
    <3>3. /\ DOMAIN Over(d, w) = DOMAIN d \cup DOMAIN w
          /\ \A z \in DOMAIN d : Over(d, w)[z] = d[z]
          /\ \A z \in DOMAIN w : z \notin DOMAIN d => Over(d, w)[z] = w[z]
      BY OverIs
    <3> DEFINE v == Over(d, w)
    <3>. HIDE DEF v
    <3>4. /\ DOMAIN Over(v, y) = DOMAIN v \cup DOMAIN y
          /\ \A z \in DOMAIN v : Over(v, y)[z] = v[z]
          /\ \A z \in DOMAIN y : z \notin DOMAIN v => Over(v, y)[z] = y[z]
      BY OverIs
    <3>5. /\ DOMAIN Over(w, y) = DOMAIN w \cup DOMAIN y
          /\ \A z \in DOMAIN w : Over(w, y)[z] = w[z]
          /\ \A z \in DOMAIN y : z \notin DOMAIN w => Over(w, y)[z] = y[z]
      BY OverIs
    <3>6. CASE c \in DOMAIN d
      BY <1>4, <3>1, <3>3, <3>4, <3>6 DEF v
    <3>7. CASE c \notin DOMAIN d
      <4>1. c \in DOMAIN e /\ e[c] = f[r][c]
        BY <1>4, <1>5, <3>7
      <4>2. CASE c \in DOMAIN w
        <5>1. v[c] = w[c] /\ c \in DOMAIN v
          BY <3>3, <3>7, <4>2 DEF v
        <5>2. e[c] = w[c]
          BY <3>2, <3>5, <4>2
        <5>. QED
          BY <3>1, <3>4, <4>1, <5>1, <5>2 DEF v
      <4>3. CASE c \notin DOMAIN w
        <5>1. c \notin DOMAIN v
          BY <3>3, <3>7, <4>3 DEF v
        <5>2. c \in DOMAIN y /\ e[c] = y[c]
          BY <3>2, <3>5, <4>1, <4>3
        <5>. QED
          BY <3>1, <3>4, <4>1, <5>1, <5>2 DEF v
      <4>. QED
        BY <4>2, <4>3
    <3>. QED
      BY <3>6, <3>7
  <2>. QED
    BY <2>1, <2>2
<1>. QED
  BY <1>2, <1>3, <1>5 DEF m

(* What the step of a settlement makes of its session.                     *)
Settles(s) ==
    \/ \E k, pc : IsSession(k) /\ Query(s, k, pc) /\ Thorough(k, pc)
    \/ \E k : Good(s, k) /\ Commit(s, k) /\ Thorough(k, session[s].pc)
    \/ Refuse(s)

LEMMA SettlingFields ==
  ASSUME NEW s, Sure(s)
  PROVE  IsSession(session[s]) /\ Good(s, session[s])
BY DEF Sure, Good, Firm

(* Nothing of the stakes and the pools is touched.                         *)
LEMMA SettlesByQuery ==
  ASSUME NEW s, NEW k, IsSession(k), Alike({"consensus"}, k, session[s]),
         Thorough(session[s], session[s].pc),
         NEW pc, pc # "grade",
         pc \in {"stakes", "pay"} => HasStakes(session[s]),
         session[s].pc # "grade", Query(s, k, pc)
  PROVE  Settles(s)
<1>1. ClosesOwn(session[s], pc)
  BY DEF Thorough, ClosesOwn
<1>2. Thorough(k, pc)
  BY <1>1, ThoroughAlike DEF Thorough
<1>. QED
  BY <1>2 DEF Settles

LEMMA SettlesByCommit ==
  ASSUME NEW s, NEW k, Good(s, k), Alike({"stake", "consensus"}, k, session[s]),
         Thorough(session[s], session[s].pc), Commit(s, k)
  PROVE  Settles(s)
<1>1. Thorough(k, session[s].pc)
  BY ThoroughAlike DEF Thorough
<1>. QED
  BY <1>1 DEF Settles

LEMMA AlikeItself ==
  ASSUME NEW K, NEW k
  PROVE  Alike(K, k, k)
BY DEF Alike

LEMMA SubmitResultSettles ==
  ASSUME NEW s, Sure(s), Thorough(session[s], session[s].pc), SubmitResult(s)
  PROVE  Settles(s)
<1> DEFINE k == session[s]
           v == OracleKey(s)
           x == [result |-> Args(s).result, accepted |-> FALSE, disputed |-> FALSE]
           S == Found(ResultsOf(Args(s).match))
           l == Insert(k, v, x)
           K == {"consensus"}
<1>1. \/ Refuse(s)
      \/ k.pc = "start" /\ Query(s, k, "insert")
      \/ k.pc = "start" /\ Query(s, LoadAll(k, S), "results")
      \/ k.pc = "insert" /\ Query(s, LoadAll(l, S), "results")
  BY DEF SubmitResult, At
<1>2. IsSession(k)
  BY SettlingFields
<1>3. /\ v[1] \notin K /\ v[1] # "stake" /\ DOMAIN x # {}
      /\ \A r \in S : r[1] # "stake"
  BY DEF OracleKey, Found, ResultsOf
<1>. HIDE DEF v, x, S, K
<1>4. IsSession(l) /\ Alike(K, l, k)
  BY <1>2, <1>3, AlikeByInsert
<1>. HIDE DEF l
<1>5. IsSession(LoadAll(l, S)) /\ Alike(K, LoadAll(l, S), l)
  BY <1>3, <1>4, AlikeByLoadAll
<1>6. IsSession(LoadAll(k, S)) /\ Alike(K, LoadAll(k, S), k)
  BY <1>2, <1>3, AlikeByLoadAll
<1>7. Alike(K, LoadAll(l, S), k) /\ Alike(K, k, k)
  BY <1>4, <1>5, AlikeTwice, AlikeItself
<1>8. K = {"consensus"}
  BY DEF K
<1>9. CASE k.pc = "start" /\ Query(s, k, "insert")
  BY <1>2, <1>7, <1>8, <1>9, SettlesByQuery
<1>10. CASE k.pc = "start" /\ Query(s, LoadAll(k, S), "results")
  BY <1>6, <1>8, <1>10, SettlesByQuery
<1>11. CASE k.pc = "insert" /\ Query(s, LoadAll(l, S), "results")
  BY <1>5, <1>7, <1>8, <1>11, SettlesByQuery
<1>. QED
  BY <1>1, <1>9, <1>10, <1>11 DEF Settles

LEMMA CheckResultsSettles ==
  ASSUME NEW s, Sure(s), session[s].req.op \in PredictionRequests,
         Thorough(session[s], session[s].pc), CheckResults(s)
  PROVE  Settles(s)
<1> DEFINE k == session[s]
           g == [r \in Results(s) |-> [disputed |-> TRUE]]
           K == {"consensus"}
           J == {"stake", "consensus"}
<1>1. k.pc = "results" /\ k.req.op \in Settlers
  BY InSettling DEF CheckResults
<1>2. IsSession(k) /\ Good(s, k)
  BY SettlingFields
<1>3. \A r \in Results(s) : r[1] = "oracle" /\ \A x : May(k, r, x)
  <2>1. \A r \in Results(s) : r[1] = "oracle" /\ Free(r)
    BY TrackedIs DEF Results, ResultsOf, Free, Reserved
  <2>. QED
    BY <2>1, Unguarded DEF May, Free
<1>4. ASSUME NEW outcome, Query(s, Load(Accept(s, outcome), Cp(s)), "consensus")
      PROVE  Settles(s)
  <2> DEFINE f == [r \in Results(s) |->
                   LET accepted == Copy(k, r).result = outcome IN
                   IF Args(s).op = "agent" THEN [accepted |-> accepted]
                   ELSE [accepted |-> accepted, disputed |-> FALSE]]
             l == SetEach(k, f)
             S == {Cp(s)}
  <2>1. DOMAIN f = Results(s) /\ l = Accept(s, outcome)
    BY DEF Accept
  <2>2. \A r \in DOMAIN f : r[1] \notin K
    BY <1>3, <2>1
  <2>3. \A r \in S : r[1] # "stake"
    BY DEF Cp
  <2>. HIDE DEF f, K
  <2>4. IsSession(l) /\ Alike(K, l, k)
    BY <1>2, <2>2, AlikeByEach
  <2>5. Query(s, LoadAll(l, S), "consensus")
    BY <1>4, <2>1 DEF Load
  <2>. HIDE DEF l, S
  <2>6. IsSession(LoadAll(l, S)) /\ Alike(K, LoadAll(l, S), l)
    BY <2>3, <2>4, AlikeByLoadAll
  <2>7. Alike(K, LoadAll(l, S), k)
    BY <2>4, <2>6, AlikeTwice
  <2>. QED
    BY <1>1, <2>5, <2>6, <2>7, SettlesByQuery DEF K
<1>5. CASE Commit(s, k)
  BY <1>2, <1>5, AlikeItself, SettlesByCommit
<1>6. CASE Commit(s, SetEach(k, g))
  <2>1. DOMAIN g = Results(s)
    OBVIOUS
  <2>. HIDE DEF g
  <2>2. Good(s, SetEach(k, g))
    BY <1>2, <1>3, <2>1, GoodByEach
  <2>3. \A r \in DOMAIN g : r[1] \notin J
    BY <1>3, <2>1
  <2>. HIDE DEF J
  <2>4. Alike(J, SetEach(k, g), k)
    BY <1>2, <2>3, AlikeByEach
  <2>. QED
    BY <1>6, <2>2, <2>4, SettlesByCommit DEF J
<1>. QED
  BY <1>4, <1>5, <1>6 DEF CheckResults, Settles

LEMMA LoadStakesSettles ==
  ASSUME NEW s, Sure(s), Thorough(session[s], session[s].pc), LoadStakes(s)
  PROVE  Settles(s)
<1> DEFINE k == session[s]
           c == Cp(s)
           x == [status |-> "open"]
           l == OpenConsensus(k, c)
           S == StakesOf(k.req.match)
<1>1. /\ k.pc = "consensus" /\ k.req.op \in Settlers
      /\ \/ Commit(s, k) \/ Refuse(s)
         \/ Query(s, LoadAll(k, S), "stakes")
         \/ Query(s, LoadAll(l, S), "stakes")
  BY DEF LoadStakes, Args, Settlers
<1>2. IsSession(k) /\ Good(s, k) /\ Blank(DOMAIN k.read)
  BY <1>1, IsBlank, SettlingFields
<1>3. c = <<"consensus", k.req.match>> /\ c[1] = "consensus" /\ ClosesOwn(k, "stakes")
  BY <1>1 DEF Cp, Args, Thorough, ClosesOwn
<1>4. /\ IsSession(l) /\ l.req = k.req /\ ClosesOwn(l, "stakes")
      /\ \A r \in DOMAIN l.read : r[1] # "stake"
  <2>1. l = LoadAll(k, {c}) \/ l = Insert(k, c, x)
    BY DEF OpenConsensus, Load
  <2>2. CASE l = LoadAll(k, {c})
    <3> DEFINE T == {c}
               m == LoadAll(k, T)
    <3>1. \A r \in T : r[1] # "stake"
      BY <1>3
    <3>2. l = m
      BY <2>2
    <3>. HIDE DEF T, c, l
    <3>3. /\ IsSession(m) /\ m.req = k.req /\ m.wrote = k.wrote
          /\ DOMAIN m.read = (T \ Known(k)) \cup DOMAIN k.read
      BY <1>2, LoadedFields
    <3>. HIDE DEF m
    <3>. QED
      BY <1>2, <1>3, <3>1, <3>2, <3>3 DEF ClosesOwn, Blank
  <2>3. CASE l = Insert(k, c, x)
    <3> DEFINE m == Insert(k, c, x)
    <3>1. DOMAIN x = {"status"} /\ x.status = "open"
      OBVIOUS
    <3>2. l = m
      BY <2>3
    <3>. HIDE DEF x, c, l
    <3>3. /\ IsSession(m)
          /\ m.req = k.req /\ m.pc = k.pc /\ m.gone = k.gone
          /\ m.held = k.held /\ m.old = k.old /\ m.pays = k.pays
          /\ DOMAIN m.read = {c} \cup DOMAIN k.read /\ m.read[c] = Absent
          /\ \A z \in DOMAIN k.read : z # c => m.read[z] = k.read[z]
          /\ DOMAIN m.wrote = {c} \cup DOMAIN k.wrote
          /\ \A z \in DOMAIN k.wrote : z # c => m.wrote[z] = k.wrote[z]
          /\ Part(x, m.wrote[c]) /\ Mix(m.wrote[c], x, Written(k, c))
      BY <1>2, <3>1, InsertFields
    <3>. HIDE DEF m
    <3>4. m.wrote[c].status # "settled"
      <4>1. "status" \in DOMAIN m.wrote[c] /\ m.wrote[c].status = x.status
        BY <3>1, <3>3 DEF Part
      <4>. QED
        BY <3>1, <4>1
    <3>5. ClosesOwn(m, "stakes")
      BY <1>3, <3>3, <3>4 DEF ClosesOwn
    <3>. QED
      BY <1>2, <1>3, <3>2, <3>3, <3>5 DEF Blank
  <2>. QED
    BY <2>1, <2>2, <2>3
<1>5. \A r \in S : r \in Rows /\ r[1] = "stake" /\ table[r] # Absent /\ table[r].status = "active"
  BY DEF StakesOf
<1>6. ASSUME NEW n, IsSession(n), n.req = k.req, ClosesOwn(n, "stakes"),
             \A r \in DOMAIN n.read : r[1] # "stake"
      PROVE  IsSession(LoadAll(n, S)) /\ Thorough(LoadAll(n, S), "stakes")
  <2> DEFINE m == LoadAll(n, S)
  <2>1. S = StakesOf(k.req.match)
    OBVIOUS
  <2>. HIDE DEF S, l
  <2>2. /\ IsSession(m) /\ m.req = n.req /\ m.wrote = n.wrote
        /\ DOMAIN m.read = (S \ Known(n)) \cup DOMAIN n.read
        /\ \A r \in S \ Known(n) : m.read[r] = table[r]
    BY <1>6, LoadedFields
  <2>. HIDE DEF m
  <2>3. ClosesOwn(m, "stakes")
    BY <1>6, <2>2 DEF ClosesOwn
  <2>4. \A r \in DOMAIN m.read : r[1] = "stake" =>
          r \in Rows /\ m.read[r] # Absent /\ m.read[r].status = "active"
    BY <1>5, <1>6, <2>2
  <2>5. StakesOf(m.req.match) \subseteq DOMAIN m.read
    BY <1>6, <2>1, <2>2 DEF Known
  <2>. QED
    BY <2>2, <2>3, <2>4, <2>5 DEF Thorough, HasStakes, m
<1>7. \A r \in DOMAIN k.read : r[1] # "stake"
  BY <1>2 DEF Blank
<1>. HIDE DEF l, S
<1>8. CASE Query(s, LoadAll(k, S), "stakes")
  BY <1>2, <1>3, <1>6, <1>7, <1>8 DEF Settles
<1>9. CASE Query(s, LoadAll(l, S), "stakes")
  BY <1>4, <1>6, <1>9 DEF Settles
<1>10. CASE Commit(s, k)
  BY <1>2, <1>10, AlikeItself, SettlesByCommit
<1>. QED
  BY <1>1, <1>8, <1>9, <1>10 DEF Settles

LEMMA LoadWalletsSettles ==
  ASSUME NEW s, Sure(s), Thorough(session[s], session[s].pc), LoadWallets(s)
  PROVE  Settles(s)
<1> DEFINE k == session[s]
           S == {W(k.read[r].user) : r \in Stakes(s)}
           K == {"consensus"}
<1>1. k.pc = "stakes" /\ Query(s, LoadAll(k, S), "pay")
  BY DEF LoadWallets
<1>2. IsSession(k) /\ HasStakes(k)
  BY <1>1, SettlingFields DEF Thorough
<1>3. \A r \in S : r[1] # "stake"
  BY DEF W
<1>. HIDE DEF S, K
<1>4. IsSession(LoadAll(k, S)) /\ Alike(K, LoadAll(k, S), k)
  BY <1>2, <1>3, AlikeByLoadAll
<1>. QED
  BY <1>1, <1>2, <1>4, SettlesByQuery DEF K

LEMMA PayNextSettles ==
  ASSUME NEW s, Sure(s), session[s].req.op \in PredictionRequests,
         Thorough(session[s], session[s].pc), PayNext(s)
  PROVE  Settles(s)
<1> DEFINE k == session[s]
           r == NextDue(s)
           x == k.read[r]
           status == IF x.pick \in Outcomes THEN "won" ELSE "refunded"
           n == Payout(s, r)
           y == [status |-> status, payout |-> n]
           f == [z \in {z \in Stakes(s) : k.read[z].pick \in Outcomes \ {Outcome(s)}}
                   |-> [status |-> "lost"]]
           l == SetEach(k, f)
           m == Set(l, r, y)
           o == Add(m, W(x.user), "vit", n)
           name == <<"stake", r[2]>>
           u == Ref(name)
           p == Insert(o, u, [amount |-> 0])
           q == Pay(p, name)
           K == {"consensus"}
<1>1. k.pc = "pay" /\ Due(s) # {} /\ Query(s, q, "pay")
  BY DEF PayNext, LosersMarked, Reference
<1>2. IsSession(k) /\ HasStakes(k)
  BY <1>1, SettlingFields DEF Thorough
<1>3. r[1] = "stake"
  BY <1>1, DueIs, StakeIs DEF Due
<1>4. \A z \in DOMAIN f : z[1] \notin K
  BY DEF Stakes
<1>5. W(x.user)[1] \notin K /\ u[1] \notin K /\ u[1] # "stake" /\ r[1] \notin K
  BY <1>3 DEF W, Ref
<1>. HIDE DEF f, y, n, r, K, u, name
<1>6. IsSession(l) /\ Alike(K, l, k)
  BY <1>2, <1>4, AlikeByEach
<1>. HIDE DEF l
<1>7. IsSession(m) /\ Alike(K, m, l)
  BY <1>5, <1>6, AlikeBySet
<1>. HIDE DEF m
<1>8. IsSession(o) /\ Alike(K, o, m)
  BY <1>5, <1>7, AddIs, AlikeBySet
<1>. HIDE DEF o
<1>9. IsSession(p) /\ Alike(K, p, o)
  BY <1>5, <1>8, AlikeByInsert
<1>. HIDE DEF p
<1>10. IsSession(q) /\ Alike(K, q, p)
  <2>1. IsSession(q) /\ q.req = p.req /\ q.read = p.read /\ q.wrote = p.wrote
    BY <1>9 DEF Pay, IsSession
  <2>. HIDE DEF q
  <2>. QED
    BY <2>1 DEF Alike
<1>. HIDE DEF q
<1>11. Alike(K, q, k)
  BY <1>6, <1>7, <1>8, <1>9, <1>10, AlikeTwice
<1>12. Alike({"consensus"}, q, k)
  BY <1>11 DEF K
<1>13. Query(s, q, "pay") /\ k.pc # "grade"
  BY <1>1
<1>. HIDE DEF K
<1>. QED
  BY <1>2, <1>10, <1>12, <1>13, SettlesByQuery

(* The losers are marked when the others have been paid: none is active.   *)
LEMMA NoneLeft ==
  ASSUME NEW s, IsSession(session[s]), HasStakes(session[s]), Due(s) = {}
  PROVE  StakesEnded(LosersMarked(s))
<1> DEFINE k == session[s]
           f == [z \in {z \in Stakes(s) : k.read[z].pick \in Outcomes \ {Outcome(s)}}
                   |-> [status |-> "lost"]]
           l == SetEach(k, f)
<1>1. LosersMarked(s) = l
  BY DEF LosersMarked
<1>2. l.read = k.read
  BY SetFields
<1>3. ASSUME NEW r \in DOMAIN k.read, r[1] = "stake" PROVE Copy(l, r).status # "active"
  <2>1. r \in Stakes(s)
    BY <1>3 DEF HasStakes, Stakes, Known, Exists
  <2>2. CASE r \in DOMAIN f
    <3>1. DOMAIN f[r] = {"status"} /\ f[r].status = "lost"
      BY <2>2
    <3>. HIDE DEF f
    <3>2. Copy(SetEach(k, f), r)["status"] = f[r]["status"]
      BY <2>2, <3>1, EachCopies
    <3>. QED
      BY <3>1, <3>2
  <2>3. CASE r \notin DOMAIN f
    <3>1. k.read[r].pick \notin Outcomes \ {Outcome(s)}
      BY <2>1, <2>3
    <3>2. Copy(k, r).status # "active"
      BY <2>1, <3>1 DEF Due
    <3>. HIDE DEF f
    <3>3. Copy(SetEach(k, f), r) = Copy(k, r)
      BY <2>3, EachCopies
    <3>. QED
      BY <3>2, <3>3
  <2>. QED
    BY <2>2, <2>3
<1>. HIDE DEF l
<1>. QED
  BY <1>1, <1>2, <1>3 DEF StakesEnded

LEMMA RecordSettlementSettles ==
  ASSUME NEW s, Sure(s), session[s].req.op \in PredictionRequests,
         Thorough(session[s], session[s].pc), RecordSettlement(s)
  PROVE  Settles(s)
<1> DEFINE k == session[s]
           F == {r \in Found(ForecastsOf(k.req.match)) : table[Validator(r[2][2])] # Absent}
           S == F \cup {Validator(r[2][2]) : r \in F}
           c == Cp(s)
           x == [status |-> "settled"]
           e == <<"settlement", k.req.match>>
           y == [pool |-> Amounts(s, Outcomes), winning |-> Amounts(s, {Outcome(s)})]
           g == [z \in {z \in Stakes(s) : k.read[z].pick \in Outcomes \ {Outcome(s)}}
                   |-> [status |-> "lost"]]
           l == LosersMarked(s)
           f == Only(c, x)
           m == SetEach(l, f)
           n == Insert(m, e, y)
           o == LoadAll(n, S)
           J == {"consensus"}
           K == {"stake"}
           L == {"stake", "consensus"}
<1>1. k.pc = "pay" /\ Due(s) = {} /\ Query(s, o, "grade")
  BY DEF RecordSettlement, Args, Set
<1>2. IsSession(k) /\ HasStakes(k) /\ ClosesOwn(k, "grade")
  BY <1>1, SettlingFields DEF Thorough, ClosesOwn
<1>3. c = <<"consensus", k.req.match>> /\ DOMAIN f = {c}
  BY OnlyIs DEF Cp, Args
<1>4. StakesEnded(l)
  BY <1>1, <1>2, NoneLeft
<1>5. e[1] \notin L /\ DOMAIN y # {} /\ \A r \in S : r[1] # "stake"
  BY DEF Found, ForecastsOf, Validator
<1>6. IsSession(l) /\ Alike(J, l, k)
  <2>1. l = SetEach(k, g) /\ \A r \in DOMAIN g : r[1] \notin J
    BY DEF LosersMarked, Stakes
  <2>. HIDE DEF g, l, J
  <2>. QED
    BY <1>2, <2>1, AlikeByEach
<1>. HIDE DEF l, f, S, y, e, x
<1>7. ClosesOwn(l, "grade") /\ HasStakes(l)
  BY <1>2, <1>6, ThoroughAlike
<1>8. IsSession(m) /\ Alike(K, m, l)
  <2>1. \A r \in DOMAIN f : r[1] \notin K
    BY <1>3
  <2>. HIDE DEF K
  <2>. QED
    BY <1>6, <2>1, AlikeByEach
<1>9. ClosesOwn(m, "grade")
  <2>1. DOMAIN m.wrote = ChangedBy(l, f) \cup DOMAIN l.wrote
    BY <1>6, SetFields
  <2>2. ChangedBy(l, f) \subseteq {c}
    BY <1>3 DEF ChangedBy
  <2>3. m.req = l.req /\ l.req = k.req
    BY <1>6, <1>8 DEF Alike
  <2>. HIDE DEF m
  <2>. QED
    BY <1>3, <1>7, <2>1, <2>2, <2>3 DEF ClosesOwn
<1>10. HasStakes(m) /\ StakesEnded(m)
  BY <1>4, <1>7, <1>8, ThoroughAlike
<1>. HIDE DEF m
<1>11. IsSession(n) /\ Alike(L, n, m)
  <2>1. e[1] # "stake"
    BY <1>5
  <2>. HIDE DEF L
  <2>. QED
    BY <1>5, <1>8, <2>1, AlikeByInsert
<1>. HIDE DEF n
<1>12. IsSession(o) /\ Alike(L, o, n)
  <2>. HIDE DEF L
  <2>. QED
    BY <1>5, <1>11, AlikeByLoadAll
<1>. HIDE DEF o
<1>13. Alike(L, o, m)
  BY <1>11, <1>12, AlikeTwice
<1>14. Thorough(o, "grade")
  BY <1>9, <1>10, <1>13, ThoroughAlike DEF Thorough
<1>. QED
  BY <1>1, <1>12, <1>14 DEF Settles

LEMMA GradeForecastsSettles ==
  ASSUME NEW s, Sure(s), session[s].req.op \in PredictionRequests,
         Thorough(session[s], session[s].pc), GradeForecasts(s)
  PROVE  Settles(s)
<1> DEFINE k == session[s]
           K == {"stake", "consensus"}
<1>1. PICK f, h : /\ Good(s, SetEach(SetEach(k, f), h))
                  /\ Commit(s, SetEach(SetEach(k, f), h))
                  /\ \A r \in DOMAIN f : r[1] = "forecast"
                  /\ \A r \in DOMAIN h : r[1] = "validator"
  BY ForecastsGraded
<1>2. IsSession(k)
  BY SettlingFields
<1>3. /\ \A r \in DOMAIN f : r[1] \notin K
      /\ \A r \in DOMAIN h : r[1] \notin K
  BY <1>1
<1>4. K = {"stake", "consensus"}
  OBVIOUS
<1>. HIDE DEF K
<1> DEFINE l == SetEach(k, f)
           m == SetEach(l, h)
<1>5. IsSession(l) /\ Alike(K, l, k)
  BY <1>2, <1>3, AlikeByEach
<1>6. Good(s, m) /\ Commit(s, m)
  BY <1>1
<1>. HIDE DEF l
<1>7. Alike(K, m, l)
  BY <1>3, <1>5, AlikeByEach
<1>. HIDE DEF m
<1>8. Alike(K, m, k)
  BY <1>5, <1>7, AlikeTwice
<1>. QED
  BY <1>4, <1>6, <1>8, SettlesByCommit

(* A step of a settlement is one of these.                                 *)
LEMMA SettlerStep ==
  ASSUME NEW s, Sure(s), Thorough(session[s], session[s].pc), Step(s),
         session[s].req.op \in Settlers
  PROVE  Settles(s)
<1>1. CASE Refuse(s)
  BY <1>1 DEF Settles
<1>2. CASE ~Refuse(s)
  <2>1. session[s].req.op \in PredictionRequests
    BY DEF Settlers, PredictionRequests
  <2>2. PredictionStep(s)
    BY <1>2, <2>1, StepOf
  <2>3. ~Forbidden(s)
    BY <1>2 DEF Forbidden
  <2>4. \/ SubmitResult(s) \/ CheckResults(s) \/ LoadStakes(s) \/ LoadWallets(s)
        \/ PayNext(s) \/ RecordSettlement(s) \/ GradeForecasts(s)
    BY <2>2, <2>3
       DEF PredictionStep, Settlers, At, Args, StakeLoad, StakeOn, LoadProfile, Apply,
           Decide, EndProfile, Slash, SubmitForecast, SubmitAppeal, ReviewAppeal
  <2>. QED
    BY <2>1, <2>4, SubmitResultSettles, CheckResultsSettles, LoadStakesSettles,
       LoadWalletsSettles, PayNextSettles, RecordSettlementSettles, GradeForecastsSettles
<1>. QED
  BY <1>1, <1>2

----------------------------------------------------------------------------
(* A closed pool has no stake left                                         *)

IsClosed(t, c) ==
    /\ c[1] = "consensus" /\ c[2] \in KickedOff /\ t[c] # Absent
    /\ "status" \in DOMAIN t[c] /\ t[c].status = "settled"

Pending(t, r, m) ==
    r[1] = "stake" /\ t[r] # Absent /\ t[r].match = m /\ t[r].status = "active"

PoolsClosed == \A c, r \in Rows : IsClosed(table, c) => ~Pending(table, r, c[2])

SettlementInv == SettlingInv /\ PoolsClosed

(* A stake on a match that has begun was there before the commit, and the  *)
(* commit has not written its status.                                      *)
LEMMA PendingBefore ==
  ASSUME NEW s, NEW k, Good(s, k), NEW pc, Committed(s, k, pc),
         NEW r \in Rows, NEW m \in KickedOff, Pending(table', r, m)
  PROVE  /\ Pending(table, r, m)
         /\ r \in DOMAIN k.wrote => "status" \notin DOMAIN k.wrote[r]
<1> DEFINE f == k.wrote[r]
           x == table[r]
<1>1. r[1] = "stake" /\ r[1] \in Tracked /\ r \notin k.gone
  BY TrackedIs DEF Pending, Good, Firm
<1>2. CASE r \notin DOMAIN k.wrote
  BY <1>1, <1>2 DEF Pending, Committed
<1>3. CASE r \in DOMAIN k.wrote
  <2>1. table'[r] = Over(f, x)
    BY <1>1, <1>3 DEF Committed
  <2>2. <<"stake", "match">> \in Typed /\ <<"stake", "status">> \in Typed
    BY DEF Typed, Linked
  <2>3. k.read[r] = Absent <=> x = Absent
    BY <1>3 DEF Committed, Fails
  <2>4. x = Absent => {"match", "status"} \subseteq DOMAIN f
    BY <1>1, <1>3, <2>2, <2>3 DEF Good, Firm, Solid, Writes, RowFull
  <2>5. x # Absent => {"match", "status"} \subseteq DOMAIN x
    BY <1>1, <2>2 DEF Good, Firm, Founded, RowFull
  <2>6. Entitled(k.req, r, f) /\ (MustBeNew(k.req, r) => x = Absent)
    BY <1>3, <2>3 DEF Good, Firm, Solid, Framed
  <2>. HIDE DEF f, x
  <2>7. /\ \A c \in DOMAIN f : Over(f, x)[c] = f[c]
        /\ \A c \in DOMAIN x : c \notin DOMAIN f => Over(f, x)[c] = x[c]
    BY OverIs
  <2>8. Over(f, x).match = m /\ Over(f, x).status = "active"
    BY <2>1 DEF Pending
  <2>9. ~(k.req.op = "stake_on" /\ k.req.match \notin KickedOff
            /\ ("match" \in DOMAIN f => f.match = k.req.match))
    BY <1>1, <2>4, <2>6, <2>7, <2>8 DEF MustBeNew
  <2>10. /\ DOMAIN f \subseteq {"status", "payout"}
         /\ "status" \in DOMAIN f => f.status # "active"
    BY <1>1, <2>6, <2>9 DEF Entitled
  <2>11. "status" \notin DOMAIN f /\ "match" \notin DOMAIN f
    BY <2>7, <2>8, <2>10
  <2>12. x # Absent /\ x.match = m /\ x.status = "active"
    BY <2>4, <2>5, <2>7, <2>8, <2>11
  <2>. QED
    BY <1>1, <2>11, <2>12 DEF f, x, Pending
<1>. QED
  BY <1>2, <1>3

(* Only a settlement closes a pool, when no stake is left.                 *)
LEMMA PoolsClosedKept ==
  ASSUME NEW s, NEW k, Good(s, k), NEW pc, Committed(s, k, pc), PoolsClosed,
         NEW at, k.req.op \in Settlers => Thorough(k, at)
  PROVE  PoolsClosed'
<1>1. SUFFICES ASSUME NEW c \in Rows, NEW r \in Rows,
                      IsClosed(table', c), Pending(table', r, c[2])
               PROVE  FALSE
  BY DEF PoolsClosed
<1>2. /\ Pending(table, r, c[2])
      /\ r \in DOMAIN k.wrote => "status" \notin DOMAIN k.wrote[r]
  BY <1>1, PendingBefore DEF IsClosed
<1>3. ~IsClosed(table, c) /\ c[1] = "consensus" /\ c[2] \in KickedOff
  BY <1>1, <1>2 DEF PoolsClosed, IsClosed
<1>4. c \in DOMAIN k.wrote /\ "status" \in DOMAIN k.wrote[c] /\ k.wrote[c].status = "settled"
  <2> DEFINE f == k.wrote[c]
             x == table[c]
  <2>1. c \notin k.gone
    BY <1>3 DEF Good, Firm
  <2>2. c \in DOMAIN k.wrote /\ table'[c] = Over(f, x)
    BY <1>1, <1>3, <2>1 DEF Committed, IsClosed
  <2>3. "status" \in DOMAIN Over(f, x) /\ Over(f, x).status = "settled"
    BY <1>1, <2>2 DEF IsClosed
  <2>4. ~("status" \in DOMAIN x /\ x.status = "settled")
    <3>1. x = Absent => DOMAIN x = {}
      BY DEF Absent
    <3>. QED
      BY <1>3, <3>1 DEF IsClosed
  <2>. HIDE DEF f, x
  <2>5. /\ DOMAIN Over(f, x) = DOMAIN f \cup DOMAIN x
        /\ \A z \in DOMAIN f : Over(f, x)[z] = f[z]
        /\ \A z \in DOMAIN x : z \notin DOMAIN f => Over(f, x)[z] = x[z]
    BY OverIs
  <2>6. "status" \in DOMAIN f /\ f.status = "settled"
    BY <2>3, <2>4, <2>5
  <2>. QED
    BY <2>2, <2>6 DEF f
<1>5. Thorough(k, at)
  BY <1>3, <1>4 DEF Good, Firm, Solid, Framed, Entitled
<1>6. c = <<"consensus", k.req.match>> /\ at = "grade"
  BY <1>3, <1>4, <1>5 DEF Thorough, ClosesOwn
<1>7. c[2] = k.req.match
  BY <1>6
<1>8. r[1] = "stake" /\ r \in DOMAIN k.read /\ k.read[r] # Absent /\ k.read[r].status = "active"
  BY <1>2, <1>3, <1>5, <1>6, <1>7 DEF Pending, Thorough, HasStakes, StakesOf
<1>9. Copy(k, r).status # "active"
  BY <1>5, <1>6, <1>8 DEF Thorough, StakesEnded
<1>10. "status" \in DOMAIN k.read[r]
  <2>1. <<"stake", "status">> \in Typed /\ r[1] \in Tracked
    BY <1>8, TrackedIs DEF Typed, Linked
  <2>. QED
    BY <1>8, <2>1 DEF Good, Firm, Solid, Reads, RowFull
<1>11. CASE r \in DOMAIN k.wrote
  <2>1. Copy(k, r) = Over(k.wrote[r], k.read[r])
    BY <1>11 DEF Copy
  <2>2. Over(k.wrote[r], k.read[r])["status"] = k.read[r]["status"]
    <3> DEFINE f == k.wrote[r]
               x == k.read[r]
    <3>1. "status" \in DOMAIN x /\ "status" \notin DOMAIN f
      BY <1>2, <1>10, <1>11
    <3>. HIDE DEF f, x
    <3>2. \A z \in DOMAIN x : z \notin DOMAIN f => Over(f, x)[z] = x[z]
      BY OverIs
    <3>3. Over(f, x)["status"] = x["status"]
      BY <3>1, <3>2
    <3>. QED
      BY <3>3 DEF f, x
  <2>. QED
    BY <1>8, <1>9, <2>1, <2>2
<1>12. CASE r \notin DOMAIN k.wrote
  BY <1>8, <1>9, <1>12 DEF Copy
<1>. QED
  BY <1>11, <1>12

LEMMA SettlementByTurn ==
  ASSUME SessionsInv, SettlementInv, NEW s \in Sessions, NEW m, Keep(s, m), UNCHANGED store,
         m.req.op \in Settlers => Thorough(m, m.pc)
  PROVE  SettlementInv'
<1>1. table' = table
  BY DEF store
<1>2. PoolsClosed'
  BY <1>1 DEF SettlementInv, PoolsClosed
<1>3. ASSUME NEW u \in Sessions, session'[u].req.op \in Settlers
      PROVE  Thorough(session[u], session[u].pc)'
  <2>1. session'[u] = IF u = s THEN m ELSE session[u]
    BY DEF Keep, SessionsInv
  <2>2. CASE u = s
    <3>1. session'[u] = m /\ Thorough(m, m.pc)
      BY <1>3, <2>1, <2>2
    <3>. QED
      BY <1>1, <3>1 DEF Thorough, ClosesOwn, HasStakes, StakesEnded, StakesOf, Copy
  <2>3. CASE u # s
    <3>1. session'[u] = session[u] /\ Thorough(session[u], session[u].pc)
      BY <1>3, <2>1, <2>3 DEF SettlementInv, SettlingInv
    <3>. QED
      BY <1>1, <3>1 DEF Thorough, ClosesOwn, HasStakes, StakesEnded, StakesOf, Copy
  <2>. QED
    BY <2>2, <2>3
<1>. QED
  BY <1>2, <1>3 DEF SettlementInv, SettlingInv

LEMMA ThoroughWhenClosed ==
  ASSUME NEW m, m.wrote = <<>>, m.pc \in Closings \cup {"start"}
  PROVE  Thorough(m, m.pc)
<1>1. DOMAIN m.wrote = {}
  OBVIOUS
<1>. QED
  BY <1>1 DEF Thorough, ClosesOwn, Closings

LEMMA SettlementByClosing ==
  ASSUME SessionsInv, SettlementInv, NEW s \in Sessions, NEW how \in Closings,
         Keep(s, Closed(session[s], how)), UNCHANGED store
  PROVE  SettlementInv'
<1> DEFINE m == Closed(session[s], how)
<1>1. m.wrote = <<>> /\ m.pc = how
  BY ClosedIs
<1>2. Keep(s, m)
  OBVIOUS
<1>. HIDE DEF m
<1>3. Thorough(m, m.pc)
  BY <1>1, ThoroughWhenClosed
<1>. QED
  BY <1>2, <1>3, SettlementByTurn

LEMMA SettlementByCommit ==
  ASSUME SessionsInv, SettlementInv, NEW s \in Sessions, NEW k, NEW pc, Good(s, k),
         Committed(s, k, pc), k.req.op \in Settlers => Thorough(k, session[s].pc) /\ pc = "done"
  PROVE  SettlementInv'
<1>1. PoolsClosed'
  BY PoolsClosedKept DEF SettlementInv
<1>2. ASSUME NEW u \in Sessions, session'[u].req.op \in Settlers
      PROVE  Thorough(session[u], session[u].pc)'
  <2> DEFINE m == session'[u]
             l == session[u]
  <2>1. CASE u = s
    <3>1. m.wrote = <<>> /\ m.pc = "done"
      <4>1. CASE pc = "done"
        BY <2>1, <4>1, ClosedIs DEF Committed
      <4>2. CASE pc # "done"
        <5> DEFINE n == [Continued(k) EXCEPT !.pc = pc]
        <5>1. m = n
          BY <2>1, <4>2 DEF Committed
        <5>2. n.req = k.req
          BY ContinuedIs
        <5>. HIDE DEF n
        <5>. QED
          BY <1>2, <4>2, <5>1, <5>2
      <4>. QED
        BY <4>1, <4>2
    <3>2. DOMAIN m.wrote = {}
      BY <3>1
    <3>. QED
      BY <3>1, <3>2 DEF Thorough, ClosesOwn
  <2>2. CASE u # s
    <3>1. IsSession(l)
      BY DEF SessionsInv, Prepared, Recorded
    <3>2. m.req = l.req /\ m.pc = l.pc /\ m.wrote = l.wrote /\ m.read = l.read
      BY <2>2, <3>1, OtherCommit
    <3>3. Thorough(l, l.pc)
      BY <1>2, <3>2 DEF SettlementInv, SettlingInv
    <3>4. l.req.match \in KickedOff =>
            \A r \in Rows : Pending(table', r, l.req.match) => Pending(table, r, l.req.match)
      BY PendingBefore
    <3>. HIDE DEF m, l
    <3>5. \A z : ClosesOwn(l, z) => ClosesOwn(m, z)
      BY <3>2 DEF ClosesOwn
    <3>6. StakesEnded(l) => StakesEnded(m)
      BY <3>2 DEF StakesEnded, Copy
    <3>7. HasStakes(l) =>
            /\ \A r \in DOMAIN m.read : r[1] = "stake" =>
                 r \in Rows /\ m.read[r] # Absent /\ m.read[r].status = "active"
            /\ m.req.match \in KickedOff =>
                 \A r \in Rows : Pending(table', r, m.req.match) => r \in DOMAIN m.read
      BY <3>2, <3>4 DEF HasStakes, StakesOf, Pending
    <3>8. HasStakes(l) => HasStakes(session[u])'
      BY <3>7 DEF HasStakes, StakesOf, Pending, m
    <3>. QED
      BY <3>2, <3>3, <3>5, <3>6, <3>8 DEF Thorough, m, ClosesOwn, StakesEnded, Copy
  <2>. QED
    BY <2>1, <2>2
<1>. QED
  BY <1>1, <1>2 DEF SettlementInv, SettlingInv

LEMMA SettlementInvInit ==
  ASSUME Init
  PROVE  SettlementInv
<1>1. PICK script \in Scripts : session = [s \in Sessions |-> Opened(script[s])]
  BY DEF Init, Start
<1>2. PoolsClosed
  BY OpeningMatches DEF Init, PoolsClosed, IsClosed, Pending
<1>3. ASSUME NEW s \in Sessions PROVE Thorough(session[s], session[s].pc)
  <2>1. session[s].wrote = <<>> /\ session[s].pc = "start"
    BY <1>1, OpenedIs
  <2>. QED
    BY <2>1, ThoroughWhenClosed
<1>. QED
  BY <1>2, <1>3 DEF SettlementInv, SettlingInv

LEMMA SettlementInvNext ==
  ASSUME SessionsInv, SolvencyInv, SettlementInv, [Next]_vars
  PROVE  SettlementInv'
<1>1. ASSUME NEW s \in Sessions, NEW how \in Closings, End(s, how) PROVE SettlementInv'
  BY <1>1, SettlementByClosing DEF End
<1>2. ASSUME NEW s \in Sessions, NEW k, NEW pc, Good(s, k), CommitThen(s, k, pc),
             k.req.op \in Settlers => Thorough(k, session[s].pc) /\ pc = "done"
      PROVE  SettlementInv'
  <2>1. CASE End(s, "refused")
    BY <1>1, <2>1 DEF Closings
  <2>2. CASE Committed(s, k, pc)
    BY <1>2, <2>2, SettlementByCommit
  <2>. QED
    BY <1>2, <2>1, <2>2, CommitIs
<1>3. ASSUME NEW s \in Sessions, Step(s) PROVE SettlementInv'
  <2>1. Sure(s)
    BY <1>3, SureIs DEF SolvencyInv
  <2>2. CASE session[s].req.op \in Settlers
    <3>1. Settles(s)
      BY <1>3, <2>1, <2>2, SettlerStep DEF SettlementInv, SettlingInv
    <3>2. ASSUME NEW k, NEW pc, IsSession(k), Query(s, k, pc), Thorough(k, pc)
          PROVE  SettlementInv'
      <4> DEFINE m == [Flushed(k) EXCEPT !.pc = pc]
      <4>1. End(s, "refused") \/ (Keep(s, m) /\ UNCHANGED store)
        BY <3>2 DEF Query
      <4>2. m = [[k EXCEPT !.held = @ \cup Touched(k)] EXCEPT !.pc = pc]
        BY DEF Flushed
      <4>3. m.pc = pc /\ m.req = k.req /\ m.read = k.read /\ m.wrote = k.wrote
        BY <3>2, <4>2 DEF IsSession
      <4>. HIDE DEF m
      <4>4. Thorough(m, m.pc)
        BY <3>2, <4>3 DEF Thorough, ClosesOwn, HasStakes, StakesEnded, Copy
      <4>. QED
        BY <1>1, <4>1, <4>4, SettlementByTurn DEF Closings
    <3>. QED
      BY <1>1, <1>2, <3>1, <3>2 DEF Settles, Refuse, Commit, Closings
  <2>3. CASE session[s].req.op \notin Settlers
    <3>1. \A k : Firm(s, k) => k.req.op \notin Settlers
      BY <2>3 DEF Firm, SameRequest
    <3>. QED
      BY <1>1, <1>2, <1>3, <2>1, <3>1, StepMoves, SettlementByTurn DEF Moves, Good
  <2>. QED
    BY <2>2, <2>3
<1>4. ASSUME NEW s \in Sessions, SessionLost(s) PROVE SettlementInv'
  BY <1>4, SettlementByClosing DEF SessionLost, Closings
<1>5. CASE UNCHANGED vars
  <2>1. table' = table /\ session' = session
    BY <1>5 DEF vars
  <2>. QED
    BY <2>1 DEF SettlementInv, SettlingInv, PoolsClosed, Thorough, ClosesOwn, HasStakes,
                StakesEnded, StakesOf, Copy
<1>. QED
  BY <1>3, <1>4, <1>5 DEF Next

LEMMA ClosedAreSettled ==
  ASSUME PoolsClosed
  PROVE  StakesAreSettled
<1>1. ASSUME NEW c \in OfKind("consensus"), c[2] \in KickedOff, Final(c),
             NEW r \in OfKind("stake"), table[r].match = c[2]
      PROVE  table[r].status # "active"
  <2>1. /\ c \in Rows /\ c[1] = "consensus" /\ table[c] # Absent
        /\ r \in Rows /\ r[1] = "stake" /\ table[r] # Absent
    BY OfKindIs
  <2>2. IsClosed(table, c)
    BY <1>1, <2>1 DEF IsClosed, Final, TerminalStates
  <2>. QED
    BY <1>1, <2>1, <2>2 DEF PoolsClosed, Pending
<1>. QED
  BY <1>1 DEF StakesAreSettled

(* StakesAreSettled, for any matches, stakes and requests: a pool of a     *)
(* match that has begun is closed by a settlement alone, and what that had *)
(* loaded and ended by then is every stake there is.                       *)
THEOREM StakesAreSettledAlways == Spec => []StakesAreSettled
<1>1. Spec => []SettlementInv
  BY SettlementInvInit, SettlementInvNext, SessionsInvAlways, SolvencyInvAlways, PTL DEF Spec
<1>2. SettlementInv => StakesAreSettled
  BY ClosedAreSettled DEF SettlementInv
<1>. QED
  BY <1>1, <1>2, PTL

----------------------------------------------------------------------------
(* Sums that differ by one row                                             *)

(* A sum may be taken with any of its rows first.                          *)
LEMMA SumsTake ==
  ASSUME NEW S, IsFiniteSet(S), NEW g, NEW c, \A x \in S : g[x][c] \in Int,
         NEW f, Sums(f, g, c, SUBSET S)
  PROVE  f[S] \in Int /\ \A x \in S : f[S] = g[x][c] + f[S \ {x}]
<1> DEFINE Fine(T) == f[T] \in Int /\ \A x \in T : f[T] = g[x][c] + f[T \ {x}]
           Bad == {Cardinality(T) : T \in {T \in SUBSET S : ~Fine(T)}}
<1>0. \A T \in SUBSET S : f[T] = SumStep(f, g, c, T)
  <2>1. f = [T \in SUBSET S |-> SumStep(f, g, c, T)]
    BY Zenon DEF Sums
  <2>. QED
    BY Zenon, <2>1
<1>1. ASSUME Bad # {} PROVE FALSE
  <2>1. Bad \in SUBSET Nat
    <3>1. \A T \in SUBSET S : Cardinality(T) \in Nat
      BY FS_Subset, FS_CardinalityType
    <3>. HIDE DEF Fine
    <3>. QED
      BY <3>1
  <2>2. PICK n \in Bad : \A j \in Bad : n <= j
    <3>. HIDE DEF Bad
    <3>. QED
      BY <1>1, <2>1, Least
  <2>3. PICK T \in SUBSET S : ~Fine(T) /\ n = Cardinality(T)
    BY <2>2
  <2>4. CASE T = {}
    <3>1. f[T] = 0
      BY <1>0, <2>4 DEF SumStep
    <3>. QED
      BY <2>3, <2>4, <3>1
  <2>5. CASE T # {}
    <3>1. PICK y \in T : f[T] = g[y][c] + f[T \ {y}]
      <4>1. \E y \in T : SumStep(f, g, c, T) = g[y][c] + f[T \ {y}]
        BY <2>5, SumStepIs
      <4>. QED
        BY <1>0, <4>1
    <3>2. ASSUME NEW x \in T PROVE T \ {x} \in SUBSET S /\ Fine(T \ {x})
      <4>1. /\ T \ {x} \in SUBSET S /\ Cardinality(T) \in Nat \ {0}
            /\ Cardinality(T \ {x}) = Cardinality(T) - 1
        BY Smaller
      <4>2. SUFFICES ASSUME ~Fine(T \ {x}) PROVE FALSE
        BY <4>1
      <4>3. Cardinality(T \ {x}) \in Bad
        BY <4>1, <4>2
      <4>4. n <= Cardinality(T \ {x})
        BY <2>2, <4>3
      <4>. QED
        BY <2>3, <4>1, <4>4
    <3>3. f[T \ {y}] \in Int /\ g[y][c] \in Int /\ f[T] \in Int
      <4>1. Fine(T \ {y})
        BY <3>2
      <4>2. f[T \ {y}] \in Int
        BY <4>1
      <4>3. g[y][c] \in Int
        OBVIOUS
      <4>. HIDE DEF Fine
      <4>. QED
        BY <3>1, <4>2, <4>3
    <3>4. ASSUME NEW x \in T, x # y PROVE f[T] = g[x][c] + f[T \ {x}]
      <4>1. f[T \ {y}] = g[x][c] + f[(T \ {y}) \ {x}]
        BY <3>2, <3>4
      <4>2. f[T \ {x}] = g[y][c] + f[(T \ {x}) \ {y}]
        BY <3>2, <3>4
      <4>3. (T \ {y}) \ {x} = (T \ {x}) \ {y}
        OBVIOUS
      <4>4. g[x][c] \in Int /\ f[(T \ {x}) \ {y}] \in Int
        <5>1. (T \ {x}) \ {y} \in SUBSET S /\ y \in T \ {x}
          BY <3>4
        <5>2. Fine((T \ {x}) \ {y})
          <6>1. /\ T \ {x} \in SUBSET S /\ Cardinality(T) \in Nat \ {0}
                /\ Cardinality(T \ {x}) = Cardinality(T) - 1
            BY Smaller
          <6> DEFINE U == T \ {x}
          <6>2. /\ U \ {y} \in SUBSET S /\ Cardinality(U) \in Nat \ {0}
                /\ Cardinality(U \ {y}) = Cardinality(U) - 1
            BY <5>1, <6>1, Smaller
          <6>3. SUFFICES ASSUME ~Fine(U \ {y}) PROVE FALSE
            OBVIOUS
          <6>4. Cardinality(U \ {y}) \in Bad
            BY <6>2, <6>3
          <6>5. n <= Cardinality(U \ {y})
            BY <2>2, <6>4
          <6>. QED
            BY <2>3, <6>1, <6>2, <6>5
        <5>. QED
          BY <5>2
      <4> DEFINE v == f[(T \ {x}) \ {y}]
      <4>5. f[T] = g[y][c] + (g[x][c] + v) /\ f[T \ {x}] = g[y][c] + v
        BY <3>1, <4>1, <4>2, <4>3
      <4>6. v \in Int
        BY <4>4
      <4>. HIDE DEF v
      <4>. QED
        BY <3>3, <4>4, <4>5, <4>6
    <3>5. Fine(T)
      BY <3>1, <3>3, <3>4
    <3>. QED
      BY <2>3, <3>5
  <2>. QED
    BY <2>4, <2>5
<1>. QED
  <2>1. \A T \in SUBSET S : Fine(T)
    <3>. HIDE DEF Fine
    <3>. QED
      BY <1>1
  <2>2. Fine(S)
    <3>. HIDE DEF Fine
    <3>. QED
      BY <2>1
  <2>. QED
    BY <2>2

(* A sum depends on nothing but what is summed.                            *)
LEMMA SumsAgree ==
  ASSUME NEW S, NEW R, NEW f, NEW g, NEW e, NEW h, NEW c,
         Sums(f, g, c, SUBSET S), Sums(h, e, c, SUBSET R),
         NEW U, IsFiniteSet(U), U \subseteq S, U \subseteq R, \A x \in U : g[x][c] = e[x][c]
  PROVE  f[U] = h[U]
<1> DEFINE Fine(T) == f[T] = h[T]
           Bad == {Cardinality(T) : T \in {T \in SUBSET U : ~Fine(T)}}
<1>0. /\ \A T \in SUBSET S : f[T] = SumStep(f, g, c, T)
      /\ \A T \in SUBSET R : h[T] = SumStep(h, e, c, T)
  <2>1. f = [T \in SUBSET S |-> SumStep(f, g, c, T)]
    BY Zenon DEF Sums
  <2>2. h = [T \in SUBSET R |-> SumStep(h, e, c, T)]
    BY Zenon DEF Sums
  <2>3. \A T \in SUBSET S : f[T] = SumStep(f, g, c, T)
    BY Zenon, <2>1
  <2>4. \A T \in SUBSET R : h[T] = SumStep(h, e, c, T)
    BY Zenon, <2>2
  <2>. QED
    BY <2>3, <2>4
<1>1. ASSUME Bad # {} PROVE FALSE
  <2>1. Bad \in SUBSET Nat
    <3>1. \A T \in SUBSET U : Cardinality(T) \in Nat
      BY FS_Subset, FS_CardinalityType
    <3>. HIDE DEF Fine
    <3>. QED
      BY <3>1
  <2>2. PICK n \in Bad : \A j \in Bad : n <= j
    <3>. HIDE DEF Bad
    <3>. QED
      BY <1>1, <2>1, Least
  <2>3. PICK T \in SUBSET U : ~Fine(T) /\ n = Cardinality(T)
    BY <2>2
  <2>4. T \in SUBSET S /\ T \in SUBSET R
    OBVIOUS
  <2>5. CASE T = {}
    <3>1. f[T] = 0 /\ h[T] = 0
      BY <1>0, <2>4, <2>5 DEF SumStep
    <3>. QED
      BY <2>3, <3>1
  <2>6. CASE T # {}
    <3> DEFINE x == CHOOSE x \in T : TRUE
    <3>1. x \in T
      BY <2>6
    <3>2. /\ SumStep(f, g, c, T) = g[x][c] + f[T \ {x}]
          /\ SumStep(h, e, c, T) = e[x][c] + h[T \ {x}]
      BY <2>6, Zenon DEF SumStep
    <3>. HIDE DEF x
    <3>3. /\ T \ {x} \in SUBSET U /\ Cardinality(T) \in Nat \ {0}
          /\ Cardinality(T \ {x}) = Cardinality(T) - 1
      BY <2>4, <3>1, Smaller
    <3>4. Fine(T \ {x})
      <4>1. SUFFICES ASSUME ~Fine(T \ {x}) PROVE FALSE
        OBVIOUS
      <4>2. Cardinality(T \ {x}) \in Bad
        BY <3>3, <4>1
      <4>3. n <= Cardinality(T \ {x})
        BY <2>2, <4>2
      <4>. QED
        BY <2>3, <3>3, <4>3
    <3>5. g[x][c] = e[x][c]
      BY <2>4, <3>1
    <3>6. Fine(T)
      BY <1>0, <2>4, <3>2, <3>4, <3>5
    <3>. QED
      BY <2>3, <3>6
  <2>. QED
    BY <2>5, <2>6
<1>. QED
  <2>1. \A T \in SUBSET U : Fine(T)
    <3>. HIDE DEF Fine
    <3>. QED
      BY <1>1
  <2>. QED
    BY <2>1 DEF Fine

LEMMA SumOfSame ==
  ASSUME NEW S, IsFiniteSet(S), NEW g, NEW e, NEW c, \A x \in S : g[x][c] = e[x][c]
  PROVE  SumOf(g, c, S) = SumOf(e, c, S)
<1> DEFINE f == CHOOSE f : Sums(f, g, c, SUBSET S)
           h == CHOOSE h : Sums(h, e, c, SUBSET S)
<1>1. Sums(f, g, c, SUBSET S) /\ Sums(h, e, c, SUBSET S)
  BY SumsExist
<1>2. SumOf(g, c, S) = f[S] /\ SumOf(e, c, S) = h[S]
  BY Zenon DEF SumOf
<1>. HIDE DEF f, h
<1>3. f[S] = h[S]
  BY <1>1, SumsAgree
<1>. QED
  BY <1>2, <1>3

LEMMA SumOfInt ==
  ASSUME NEW S, IsFiniteSet(S), NEW g, NEW c, \A x \in S : g[x][c] \in Int
  PROVE  SumOf(g, c, S) \in Int
<1>1. ASSUME NEW f, Sums(f, g, c, SUBSET S) PROVE f[S] \in Int
  BY <1>1, SumsTake
<1>2. Sums(CHOOSE f : Sums(f, g, c, SUBSET S), g, c, SUBSET S)
  BY SumsExist
<1>. QED
  BY <1>1, <1>2, Zenon DEF SumOf

LEMMA SumOfTake ==
  ASSUME NEW R, IsFiniteSet(R), NEW e, NEW c, \A x \in R : e[x][c] \in Int, NEW y \in R
  PROVE  SumOf(e, c, R) = e[y][c] + SumOf(e, c, R \ {y})
<1> DEFINE S == R \ {y}
           f == CHOOSE f : Sums(f, e, c, SUBSET S)
           h == CHOOSE h : Sums(h, e, c, SUBSET R)
<1>0. IsFiniteSet(S) /\ S \subseteq R
  BY FS_Subset
<1>1. Sums(f, e, c, SUBSET S) /\ Sums(h, e, c, SUBSET R)
  BY <1>0, SumsExist
<1>2. SumOf(e, c, S) = f[S] /\ SumOf(e, c, R) = h[R]
  BY Zenon DEF SumOf
<1>. HIDE DEF f, h
<1>3. h[R] = e[y][c] + h[S]
  BY <1>1, SumsTake
<1>. HIDE DEF S
<1>4. f[S] = h[S]
  BY <1>0, <1>1, SumsAgree
<1>. QED
  BY <1>2, <1>3, <1>4 DEF S

LEMMA SumOfOneMore ==
  ASSUME NEW S, IsFiniteSet(S), NEW y, y \notin S, NEW g, NEW e, NEW c,
         \A x \in S : g[x][c] = e[x][c] /\ g[x][c] \in Int, e[y][c] \in Int
  PROVE  SumOf(e, c, S \cup {y}) = e[y][c] + SumOf(g, c, S)
<1> DEFINE R == S \cup {y}
<1>1. IsFiniteSet(R) /\ y \in R /\ R \ {y} = S
  BY FS_AddElement
<1>2. SumOf(g, c, S) = SumOf(e, c, S)
  BY SumOfSame
<1>3. \A x \in R : e[x][c] \in Int
  OBVIOUS
<1>. HIDE DEF R
<1>4. SumOf(e, c, R) = e[y][c] + SumOf(e, c, R \ {y})
  BY <1>1, <1>3, SumOfTake
<1>. QED
  BY <1>1, <1>2, <1>4 DEF R

(* What the blocks of a sub-chain amount to.                               *)
LEMMA ChainSum ==
  ASSUME NEW t, NEW S
  PROVE  MapThenSumSet(LAMBDA b : t[b].txns, S) = SumOf(t, "txns", S)
BY Zenon DEF MapThenSumSet, MapThenFoldSet, SumOf, Sums, SumStep

----------------------------------------------------------------------------
(* The rows of a sub-chain                                                 *)

LEMMA KindInIs ==
  ASSUME NEW t, NEW kind
  PROVE  KindIn(t, kind) = {r \in Rows : r[1] = kind /\ t[r] # Absent}
BY DEF KindIn, RowsOfKind

IsBlock(t, c, r) == r \in Rows /\ r[1] = "subblock" /\ t[r] # Absent /\ r[2][1] = c[2]

LEMMA BlocksInIs ==
  ASSUME NEW t, NEW c
  PROVE  \A r : r \in BlocksIn(t, c) <=> IsBlock(t, c, r)
BY KindInIs DEF BlocksIn, IsBlock

LEMMA BlocksAreFinite ==
  ASSUME NEW t, NEW c
  PROVE  IsFiniteSet(BlocksIn(t, c))
<1>1. BlocksIn(t, c) \subseteq Rows
  BY BlocksInIs DEF IsBlock
<1>. QED
  BY <1>1, FiniteRows, FS_Subset

LEMMA BlockIs ==
  ASSUME NEW c, NEW n
  PROVE  Block(c, n)[1] = "subblock" /\ Block(c, n)[2][1] = c[2] /\ Block(c, n)[2][2] = n
BY DEF Block

(* A sub-chain whose blocks are in order and have numbers.                 *)
Whole(t, c) ==
    /\ ChainColumns \subseteq DOMAIN t[c] /\ Chained(t, c)
    /\ \A b \in BlocksIn(t, c) : t[b].txns \in Int

(* The blocks of another sub-chain make no difference.                     *)
LEMMA WholeSame ==
  ASSUME NEW t, NEW u, NEW c, Whole(t, c), u[c] = t[c],
         \A r \in Rows : r[1] = "subblock" /\ r[2][1] = c[2] => u[r] = t[r]
  PROVE  Whole(u, c)
<1>1. BlocksIn(u, c) = BlocksIn(t, c)
  <2>1. \A r : IsBlock(u, c, r) <=> IsBlock(t, c, r)
    BY DEF IsBlock
  <2>2. \A r : r \in BlocksIn(u, c) <=> r \in BlocksIn(t, c)
    BY <2>1, BlocksInIs
  <2>. QED
    BY <2>2
<1> DEFINE B == BlocksIn(t, c)
<1>2. \A b \in B : u[b] = t[b]
  BY BlocksInIs DEF IsBlock
<1>3. IsFiniteSet(B)
  BY BlocksAreFinite
<1>4. B = {Block(c, n) : n \in 1 .. t[c].height} /\ t[c].height \in Nat
  BY DEF Whole, Chained
<1>5. \A n \in 1 .. t[c].height : u[Block(c, n)] = t[Block(c, n)]
  <2>. HIDE DEF B
  <2>. QED
    BY <1>2, <1>4
<1>6. \A n \in 0 .. t[c].height : HashIn(u, c, n) = HashIn(t, c, n)
  <2>1. SUFFICES ASSUME NEW n \in 0 .. t[c].height PROVE HashIn(u, c, n) = HashIn(t, c, n)
    OBVIOUS
  <2>2. n = 0 \/ n \in 1 .. t[c].height
    BY <1>4
  <2>. QED
    BY <1>5, <2>2 DEF HashIn
<1>7. SumOf(u, "txns", B) = SumOf(t, "txns", B)
  <2>1. \A b \in B : u[b]["txns"] = t[b]["txns"]
    BY <1>2
  <2>. HIDE DEF B
  <2>. QED
    BY <1>3, <2>1, SumOfSame
<1>8. /\ MapThenSumSet(LAMBDA b : t[b].txns, B) = SumOf(t, "txns", B)
      /\ MapThenSumSet(LAMBDA b : u[b].txns, B) = SumOf(u, "txns", B)
  BY ChainSum
<1>9. \A n \in 1 .. t[c].height : n - 1 \in 0 .. t[c].height
  BY <1>4
<1>10. /\ u[c].height \in Nat
       /\ BlocksIn(u, c) = {Block(c, n) : n \in 1 .. u[c].height}
       /\ \A n \in 1 .. u[c].height : u[Block(c, n)].parent = HashIn(u, c, n - 1)
       /\ u[c].latest = HashIn(u, c, u[c].height)
  <2>1. t[c].height \in 0 .. t[c].height
    BY <1>4
  <2>. QED
    BY <1>1, <1>4, <1>5, <1>6, <1>9, <2>1 DEF Whole, Chained
<1>11. t[c].txns = MapThenSumSet(LAMBDA b : t[b].txns, B)
  BY Zenon DEF Whole, Chained
<1>12. u[c].txns = MapThenSumSet(LAMBDA b : u[b].txns, B)
  BY <1>7, <1>8, <1>11
<1>13. u[c].txns = MapThenSumSet(LAMBDA b : u[b].txns, BlocksIn(u, c))
  BY <1>1, <1>12
<1>14. Chained(u, c)
  BY <1>10, <1>13, Zenon DEF Chained
<1>. QED
  BY <1>1, <1>2, <1>14 DEF Whole

(* A block more, at the next height and on top of the latest.              *)
Grown(t, u, c, b, h, a) ==
    LET n == t[c].height + 1 IN
    /\ b = Block(c, n) /\ b \in Rows
    /\ u[b] # Absent /\ u[b].parent = t[c].latest /\ u[b].hash = h /\ u[b].txns = a
    /\ ChainColumns \subseteq DOMAIN u[c]
    /\ u[c].height = n /\ u[c].latest = h /\ u[c].txns = t[c].txns + a
    /\ \A r \in Rows : r[1] = "subblock" /\ r # b => u[r] = t[r]

LEMMA WholeGrown ==
  ASSUME NEW t, NEW u, NEW c, Whole(t, c), NEW b, NEW h, NEW a \in Int, Grown(t, u, c, b, h, a)
  PROVE  Whole(u, c)
<1> DEFINE m == t[c].height
           n == m + 1
           B == BlocksIn(t, c)
           D == BlocksIn(u, c)
<1>1. /\ m \in Nat /\ B = {Block(c, i) : i \in 1 .. m}
      /\ \A i \in 1 .. m : t[Block(c, i)].parent = HashIn(t, c, i - 1)
      /\ t[c].latest = HashIn(t, c, m)
  BY DEF Whole, Chained
<1>2. t[c].txns = MapThenSumSet(LAMBDA r : t[r].txns, B)
  BY Zenon DEF Whole, Chained
<1>3. /\ b = Block(c, n) /\ b \in Rows /\ b[1] = "subblock" /\ b[2][1] = c[2] /\ b[2][2] = n
      /\ u[b] # Absent /\ u[b].parent = t[c].latest /\ u[b].hash = h /\ u[b].txns = a
      /\ ChainColumns \subseteq DOMAIN u[c]
      /\ u[c].height = n /\ u[c].latest = h /\ u[c].txns = t[c].txns + a
      /\ \A r \in Rows : r[1] = "subblock" /\ r # b => u[r] = t[r]
  BY BlockIs DEF Grown
<1>4. b \notin B
  <2>1. \A i \in 1 .. m : Block(c, i)[2][2] = i /\ i # n
    BY <1>1, BlockIs
  <2>. HIDE DEF B, m, n
  <2>. QED
    BY <1>1, <1>3, <2>1
<1>5. \A r : IsBlock(t, c, r) => IsBlock(u, c, r) /\ r # b /\ u[r] = t[r]
  BY <1>3, <1>4, BlocksInIs DEF IsBlock
<1>6. D = B \cup {b}
  <2>1. \A r : r # b /\ IsBlock(u, c, r) => IsBlock(t, c, r)
    BY <1>3 DEF IsBlock
  <2>2. IsBlock(u, c, b)
    BY <1>3 DEF IsBlock
  <2>3. \A r : r \in D <=> r \in B \/ r = b
    BY <1>5, <2>1, <2>2, BlocksInIs
  <2>. HIDE DEF D, B
  <2>. QED
    BY <2>3
<1>7. \A r \in B : u[r] = t[r]
  BY <1>5, BlocksInIs
<1>8. \A i \in 1 .. m : u[Block(c, i)] = t[Block(c, i)]
  <2>. HIDE DEF B, m
  <2>. QED
    BY <1>1, <1>7
<1>9. \A i \in 0 .. m : HashIn(u, c, i) = HashIn(t, c, i)
  <2>1. SUFFICES ASSUME NEW i \in 0 .. m PROVE HashIn(u, c, i) = HashIn(t, c, i)
    OBVIOUS
  <2>2. i = 0 \/ i \in 1 .. m
    BY <1>1
  <2>. QED
    BY <1>8, <2>2 DEF HashIn
<1>10. \A i \in 1 .. n : i = n \/ i \in 1 .. m
  BY <1>1
<1>11. D = {Block(c, i) : i \in 1 .. n}
  <2>1. n \in 1 .. n /\ \A i \in 1 .. m : i \in 1 .. n
    BY <1>1
  <2>. HIDE DEF B, D, m, n
  <2>. QED
    BY <1>1, <1>3, <1>6, <1>10, <2>1
<1>12. \A i \in 1 .. n : u[Block(c, i)].parent = HashIn(u, c, i - 1)
  <2>1. SUFFICES ASSUME NEW i \in 1 .. n PROVE u[Block(c, i)].parent = HashIn(u, c, i - 1)
    OBVIOUS
  <2>2. CASE i = n
    <3>1. i - 1 = m /\ m \in 0 .. m
      BY <1>1, <2>2
    <3>2. HashIn(u, c, i - 1) = HashIn(t, c, m)
      BY <1>9, <3>1
    <3>. QED
      BY <1>1, <1>3, <2>2, <3>2
  <2>3. CASE i \in 1 .. m
    <3>1. i - 1 \in 0 .. m
      BY <1>1, <2>3
    <3>. HIDE DEF m
    <3>. QED
      BY <1>1, <1>8, <1>9, <2>3, <3>1
  <2>. QED
    BY <1>10, <2>2, <2>3
<1>13. u[c].latest = HashIn(u, c, n)
  BY <1>1, <1>3 DEF HashIn
<1>14. \A r \in B \cup {b} : u[r]["txns"] \in Int
  BY <1>3, <1>7 DEF Whole
<1>15. SumOf(u, "txns", B \cup {b}) = u[b]["txns"] + SumOf(t, "txns", B)
  <2>1. IsFiniteSet(B) /\ u[b]["txns"] \in Int
    BY <1>14, BlocksAreFinite
  <2>2. \A r \in B : t[r]["txns"] = u[r]["txns"] /\ t[r]["txns"] \in Int
    BY <1>7, <1>14
  <2>. HIDE DEF B
  <2>. QED
    BY <1>4, <2>1, <2>2, SumOfOneMore
<1>16. u[c].txns = MapThenSumSet(LAMBDA r : u[r].txns, D)
  <2>1. /\ MapThenSumSet(LAMBDA r : t[r].txns, B) = SumOf(t, "txns", B)
        /\ MapThenSumSet(LAMBDA r : u[r].txns, D) = SumOf(u, "txns", D)
    BY ChainSum
  <2>2. SumOf(t, "txns", B) \in Int
    <3>1. IsFiniteSet(B) /\ \A r \in B : t[r]["txns"] \in Int
      BY BlocksAreFinite DEF Whole
    <3>. HIDE DEF B
    <3>. QED
      BY <3>1, SumOfInt
  <2>3. u[c].txns = SumOf(t, "txns", B) + a
    BY <1>2, <1>3, <2>1
  <2>4. SumOf(u, "txns", D) = a + SumOf(t, "txns", B)
    BY <1>3, <1>6, <1>15
  <2>5. u[c].txns = SumOf(u, "txns", D)
    BY <2>2, <2>3, <2>4
  <2>. QED
    BY <2>1, <2>5
<1>17. Chained(u, c)
  <2>1. /\ u[c].height \in Nat
        /\ BlocksIn(u, c) = {Block(c, i) : i \in 1 .. u[c].height}
        /\ \A i \in 1 .. u[c].height : u[Block(c, i)].parent = HashIn(u, c, i - 1)
        /\ u[c].latest = HashIn(u, c, u[c].height)
    BY <1>1, <1>3, <1>11, <1>12, <1>13
  <2>. QED
    BY <1>16, <2>1, Zenon DEF Chained
<1>. QED
  BY <1>3, <1>6, <1>14, <1>17 DEF Whole

----------------------------------------------------------------------------
(* A producer and the sub-chain it extends                                 *)

(* The copy x was taken when the row was as high as it or less high than   *)
(* now; if the heights are the same nothing has been produced since.       *)
Behind(x, y) ==
    /\ ChainColumns \subseteq DOMAIN x
    /\ x.height \in Nat /\ y.height \in Nat /\ x.height <= y.height
    /\ x.height = y.height => x.latest = y.latest /\ x.txns = y.txns

(* A producer changes nothing before it commits.                           *)
Producing(t, k, pc) == LET r == k.req.row IN
    /\ DOMAIN k.wrote = {}
    /\ pc = "start" => DOMAIN k.read = {}
    /\ pc = "found" => r \in DOMAIN k.read /\ t[r] # Absent /\ Behind(k.read[r], t[r])

IsChain(t, c) == c \in Rows /\ c[1] = "subchain" /\ t[c] # Absent

ChainsWhole == \A c \in Rows : IsChain(table, c) => Whole(table, c)
ProducersInv ==
    \A s \in Sessions : session[s].req.op = "produce" =>
        Producing(table, session[s], session[s].pc)

ChainInv == ChainsWhole /\ ProducersInv

LEMMA OnlyProduces ==
  ASSUME NEW s, session[s].req.op = "produce", Step(s)
  PROVE  Lookup(s) \/ Produce(s) \/ Refuse(s)
BY DEF Step, WalletStep, ExchangeStep, BridgeStep, TreasuryStep, PredictionStep,
       RewardStep, EarningStep, ResultStep, MeritStep, RegistryStep, Deadlock,
       Args, At, ExchangeRequests, BridgeRequests, TreasuryRequests,
       PredictionRequests, RewardRequests, EarningRequests,
       TransferLoad, Debit, Credit, LoadOwn, Stake, Unstake, BuyOrSell, Subscribe,
       CreateVault, WithdrawVaultLoad, WithdrawVault, WithdrawRequest, Approve,
       Reject, Refund, Gatekeep, InitiateDeposit, VerifyLoad, Settle, WebhookLoad,
       WebhookCredit, FailPending, RewardLoad, Reward, OpenWallet, WelcomeBonus, Refer,
       Relay, Call, Upgrade, RecordTask

(* What a producer has loaded is the row as it is now.                     *)
LEMMA LookupProduces ==
  ASSUME NEW s, Sure(s), ChainsWhole, session[s].req.op = "produce",
         Producing(table, session[s], session[s].pc), Lookup(s)
  PROVE  \/ Refuse(s)
         \/ \E l : /\ Query(s, l, "found") /\ IsSession(l) /\ l.req = session[s].req
                   /\ Producing(table, l, "found")
<1> DEFINE k == session[s]
           r == k.req.row
           S == {r}
           l == LoadAll(k, S)
<1>1. IsSession(k) /\ Row(s) = r /\ r \in Rows /\ r[1] = "subchain"
  BY RegistryIs DEF RegistryRequests, TableOf, Good, Firm
<1>2. CASE table[r] # Absent /\ Query(s, Load(k, r), "found")
  <2>1. DOMAIN k.read = {} /\ DOMAIN k.wrote = {}
    BY DEF Producing, Lookup
  <2>2. /\ IsSession(l) /\ l.req = k.req /\ l.wrote = k.wrote
        /\ DOMAIN l.read = (S \ Known(k)) \cup DOMAIN k.read
        /\ \A q \in S \ Known(k) : l.read[q] = table[q]
    BY <1>1, LoadedFields
  <2>3. r \in S \ Known(k)
    BY <2>1 DEF Known
  <2>4. l = Load(k, r)
    BY DEF Load
  <2>. HIDE DEF l, S
  <2>5. r \in DOMAIN l.read /\ l.read[r] = table[r]
    BY <2>2, <2>3
  <2>6. Behind(table[r], table[r])
    <3>1. Whole(table, r)
      BY <1>1, <1>2 DEF ChainsWhole, IsChain
    <3>2. ChainColumns \subseteq DOMAIN table[r] /\ table[r].height \in Nat
      BY <3>1, Zenon DEF Whole, Chained
    <3>. QED
      BY <3>2 DEF Behind
  <2>7. Producing(table, l, "found")
    BY <1>2, <2>1, <2>2, <2>5, <2>6 DEF Producing
  <2>. QED
    BY <1>2, <2>2, <2>4, <2>7
<1>. QED
  BY <1>1, <1>2 DEF Lookup

(* What a producer commits: its block, and its row if that has changed.    *)
Forged(k, m) ==
    LET r == k.req.row
        n == k.read[r].height + 1
        b == Block(r, n)
    IN /\ b \in Rows /\ b \in DOMAIN m.wrote /\ b \in DOMAIN m.read /\ m.read[b] = Absent
       /\ DOMAIN m.wrote \subseteq {b, r}
       /\ {"parent", "hash", "txns"} \subseteq DOMAIN m.wrote[b]
       /\ m.wrote[b].parent = k.read[r].latest /\ m.wrote[b].txns = k.req.amount
       /\ m.read[r] = k.read[r]
       /\ Copy(m, r).height = n /\ Copy(m, r).latest = m.wrote[b].hash
       /\ Copy(m, r).txns = k.read[r].txns + k.req.amount

LEMMA ProduceForges ==
  ASSUME NEW s, Sure(s), Producing(table, session[s], session[s].pc), Produce(s)
  PROVE  \E m : /\ Commit(s, m) /\ Good(s, m) /\ m.req = session[s].req
                /\ Forged(session[s], m)
<1> DEFINE k == session[s]
           r == k.req.row
           c == Copy(k, r)
           n == c.height + 1
           b == Block(r, n)
           x == [parent |-> c.latest, hash |-> s, txns |-> k.req.amount]
           y == [height |-> n, latest |-> s, txns |-> c.txns + k.req.amount]
           l == Insert(k, b, x)
           f == Only(r, y)
           m == SetEach(l, f)
<1>1. k.req.op = "produce" /\ k.req.op \in RegistryRequests /\ k.pc = "found"
  BY DEF Produce, At, RegistryRequests
<1>2. Good(s, k) /\ IsSession(k) /\ Row(s) = r /\ r[1] = "subchain"
  BY <1>1, RegistryIs DEF TableOf, Good, Firm
<1>3. Commit(s, m) /\ b \in Rows /\ m = Set(l, r, y)
  BY <1>2 DEF Produce, Produced, Registered, Args, Set
<1>4. r \in DOMAIN k.read /\ DOMAIN k.wrote = {} /\ c = k.read[r]
  BY <1>1 DEF Producing, Copy
<1>5. b[1] = "subblock" /\ DOMAIN x # {} /\ r[1] \notin Tracked /\ b[1] \notin Tracked
  BY <1>2, TrackedIs DEF Block
<1>6. /\ DOMAIN x = {"parent", "hash", "txns"} /\ x["parent"] = c.latest /\ x["hash"] = s
      /\ x["txns"] = k.req.amount
  OBVIOUS
<1>7. /\ DOMAIN y = {"height", "latest", "txns"} /\ y["height"] = n /\ y["latest"] = s
      /\ y["txns"] = c.txns + k.req.amount
  OBVIOUS
<1>8. DOMAIN f = {r}
  BY OnlyIs
<1>9. n = k.read[r].height + 1 /\ b = Block(r, n)
  BY <1>4
<1>. HIDE DEF b, x, y, r, n, c, f
<1>10. MayInsert(k, b, x)
  BY <1>1, <1>5 DEF MayInsert, Entitled
<1>11. Good(s, l) /\ l.req = k.req
  BY <1>2, <1>5, <1>10, GoodByInsert, InsertSees
<1>12. /\ IsSession(l)
       /\ DOMAIN l.read = {b} \cup DOMAIN k.read /\ l.read[b] = Absent
       /\ \A z \in DOMAIN k.read : z # b => l.read[z] = k.read[z]
       /\ DOMAIN l.wrote = {b} \cup DOMAIN k.wrote
       /\ Part(x, l.wrote[b])
  BY <1>2, <1>5, InsertFields
<1>. HIDE DEF l
<1>13. May(l, r, y)
  BY <1>1, <1>2, <1>5, <1>11 DEF May, Entitled, MustBeNew
<1>14. Good(s, m)
  BY <1>3, <1>11, <1>13, GoodBySet
<1>15. IsSet(m, l, r, y)
  BY <1>3, <1>11, SetIs
<1>16. /\ DOMAIN m.wrote = ChangedBy(l, f) \cup DOMAIN l.wrote
       /\ \A z \in DOMAIN l.wrote : z \notin ChangedBy(l, f) => m.wrote[z] = l.wrote[z]
  BY <1>12, SetFields
<1>17. ChangedBy(l, f) \subseteq {r} /\ b # r
  BY <1>2, <1>5, <1>8 DEF ChangedBy
<1>. HIDE DEF m
<1>18. m.wrote[b] = l.wrote[b]
  BY <1>12, <1>16, <1>17
<1>19. /\ {"parent", "hash", "txns"} \subseteq DOMAIN m.wrote[b]
       /\ m.wrote[b].parent = c.latest /\ m.wrote[b].hash = s /\ m.wrote[b].txns = k.req.amount
  BY <1>6, <1>12, <1>18 DEF Part
<1>20. /\ m.req = k.req /\ m.read = l.read
       /\ Copy(m, r).height = n /\ Copy(m, r).latest = s
       /\ Copy(m, r).txns = c.txns + k.req.amount
  BY <1>7, <1>11, <1>15 DEF IsSet
<1>21. /\ b \in DOMAIN m.wrote /\ b \in DOMAIN m.read /\ m.read[b] = Absent
       /\ DOMAIN m.wrote \subseteq {b, r} /\ m.read[r] = k.read[r]
  BY <1>4, <1>12, <1>16, <1>17, <1>20
<1>. HIDE DEF k
<1>22. Forged(k, m)
  BY <1>3, <1>4, <1>9, <1>19, <1>20, <1>21 DEF Forged, r
<1>. QED
  BY <1>3, <1>14, <1>20, <1>22 DEF k

(* A commit of anybody else leaves the sub-chains alone.                   *)
LEMMA ChainsUntouched ==
  ASSUME NEW s, NEW k, Good(s, k), NEW pc, Committed(s, k, pc), k.req.op # "produce",
         NEW r \in Rows, r[1] \in {"subchain", "subblock"}
  PROVE  table'[r] = table[r]
<1>1. r \notin k.gone /\ r \notin DOMAIN k.wrote
  BY DEF Good, Firm, Solid, Framed, Entitled
<1>. QED
  BY <1>1 DEF Committed

(* A producer's commit puts one block on top of its sub-chain.             *)
LEMMA ChainGrows ==
  ASSUME NEW s, NEW k, WellFormed(k.req), k.req.op = "produce", NEW l,
         l.req = k.req, Producing(table, l, "found"), ChainsWhole,
         IsChain(table, k.req.row),
         Good(s, k), NEW pc, Committed(s, k, pc), Forged(l, k)
  PROVE  LET r == k.req.row n == table[r].height + 1 IN
         /\ Grown(table, table', r, Block(r, n), k.wrote[Block(r, n)].hash, k.req.amount)
         /\ table'[r] # Absent
         /\ \A q \in Rows : q[1] \in {"subchain", "subblock"} /\ q # r /\ q # Block(r, n) =>
              table'[q] = table[q]
<1> DEFINE r == k.req.row
           y == table[r]
           n == y.height + 1
           b == Block(r, n)
           x == l.read[r]
           w == k.wrote[b]
           f == k.wrote[r]
<1>1. /\ r \in DOMAIN l.read /\ ChainColumns \subseteq DOMAIN x
      /\ x.height \in Nat /\ y.height \in Nat /\ x.height <= y.height
      /\ x.height = y.height => x.latest = y.latest /\ x.txns = y.txns
  BY DEF Producing, Behind
<1>2. Whole(table, r) /\ ChainColumns \subseteq DOMAIN y
  <2>1. Whole(table, r)
    BY DEF ChainsWhole, IsChain
  <2>. QED
    BY <2>1 DEF Whole
<1>3. BlocksIn(table, r) = {Block(r, i) : i \in 1 .. y.height}
  BY <1>2, Zenon DEF Whole, Chained
<1> DEFINE o == Block(r, x.height + 1)
<1>4. /\ o \in Rows /\ o \in DOMAIN k.wrote /\ o \in DOMAIN k.read /\ k.read[o] = Absent
      /\ DOMAIN k.wrote \subseteq {o, r}
      /\ {"parent", "hash", "txns"} \subseteq DOMAIN k.wrote[o]
      /\ k.wrote[o].parent = x.latest /\ k.wrote[o].txns = k.req.amount
      /\ k.read[r] = x
      /\ Copy(k, r).height = x.height + 1 /\ Copy(k, r).latest = k.wrote[o].hash
      /\ Copy(k, r).txns = x.txns + k.req.amount
  BY DEF Forged
<1>5. table[o] = Absent
  BY <1>4 DEF Committed, Fails
<1>6. x.height = y.height
  <2>1. SUFFICES ASSUME x.height < y.height PROVE FALSE
    BY <1>1
  <2>2. x.height + 1 \in 1 .. y.height
    BY <1>1, <2>1
  <2>. HIDE DEF x, y
  <2>3. o \in BlocksIn(table, r)
    BY <1>3, <2>2
  <2>4. table[o] # Absent
    BY <2>3, BlocksInIs DEF IsBlock
  <2>. QED
    BY <1>5, <2>4
<1>7. o = b
  BY <1>6
<1>8. r[1] = "subchain" /\ r \in Rows /\ y # Absent /\ b[1] = "subblock" /\ b # r
  BY BlockIs DEF IsChain
<1>9. b \notin k.gone /\ r \notin k.gone
  BY <1>8 DEF Good, Firm
<1>10. /\ b \in Rows /\ b \in DOMAIN k.wrote /\ DOMAIN k.wrote \subseteq {b, r}
       /\ {"parent", "hash", "txns"} \subseteq DOMAIN w
       /\ w.parent = y.latest /\ w.txns = k.req.amount
       /\ Copy(k, r).height = n /\ Copy(k, r).latest = w.hash
       /\ Copy(k, r).txns = y.txns + k.req.amount /\ table[b] = Absent
  BY <1>1, <1>4, <1>5, <1>6, <1>7
<1>. HIDE DEF o
<1>11. table'[b] = Over(w, table[b])
  BY <1>9, <1>10 DEF Committed
<1>12. /\ table'[b] # Absent /\ table'[b].parent = y.latest /\ table'[b].hash = w.hash
       /\ table'[b].txns = k.req.amount
  <2> DEFINE z == table[b]
  <2>. HIDE DEF w, z, b, y
  <2>1. DOMAIN Over(w, z) = DOMAIN w \cup DOMAIN z /\ \A c \in DOMAIN w : Over(w, z)[c] = w[c]
    BY OverIs
  <2>2. "parent" \in DOMAIN Over(w, z) /\ DOMAIN Absent = {}
    BY <1>10, <2>1 DEF Absent
  <2>. QED
    BY <1>10, <1>11, <2>1, <2>2 DEF z
<1>13. /\ ChainColumns \subseteq DOMAIN table'[r]
       /\ \A c \in ChainColumns : table'[r][c] = Copy(k, r)[c]
  <2>1. \A c \in ChainColumns : x[c] = y[c]
    BY <1>1, <1>6 DEF ChainColumns
  <2>2. CASE r \notin DOMAIN k.wrote
    <3>1. table'[r] = y /\ Copy(k, r) = x
      BY <1>4, <1>8, <1>9, <2>2 DEF Committed, Copy
    <3>. QED
      BY <1>2, <2>1, <3>1
  <2>3. CASE r \in DOMAIN k.wrote
    <3>1. table'[r] = Over(f, y) /\ Copy(k, r) = Over(f, x)
      BY <1>4, <1>8, <1>9, <2>3 DEF Committed, Copy
    <3>. HIDE DEF f, x, y, r
    <3>2. /\ DOMAIN Over(f, y) = DOMAIN f \cup DOMAIN y
          /\ \A c \in DOMAIN f : Over(f, y)[c] = f[c]
          /\ \A c \in DOMAIN y : c \notin DOMAIN f => Over(f, y)[c] = y[c]
      BY OverIs
    <3>3. /\ \A c \in DOMAIN f : Over(f, x)[c] = f[c]
          /\ \A c \in DOMAIN x : c \notin DOMAIN f => Over(f, x)[c] = x[c]
      BY OverIs
    <3>4. ASSUME NEW c \in ChainColumns PROVE Over(f, y)[c] = Over(f, x)[c]
      <4>1. c \in DOMAIN x /\ c \in DOMAIN y /\ x[c] = y[c]
        BY <1>1, <1>2, <2>1
      <4>. QED
        BY <3>2, <3>3, <4>1
    <3>5. ChainColumns \subseteq DOMAIN Over(f, y)
      BY <1>2, <3>2
    <3>. QED
      BY <3>1, <3>4, <3>5
  <2>. QED
    BY <2>2, <2>3
<1>14. table'[r].height = n /\ table'[r].latest = w.hash /\ table'[r].txns = y.txns + k.req.amount
  BY <1>10, <1>13 DEF ChainColumns
<1>15. table'[r] # Absent
  <2>1. DOMAIN Absent = {} /\ "height" \in ChainColumns
    BY DEF Absent, ChainColumns
  <2>. QED
    BY <1>13, <2>1
<1>16. \A q \in Rows : q[1] \in {"subchain", "subblock"} /\ q # r /\ q # b =>
         table'[q] = table[q]
  <2>1. SUFFICES ASSUME NEW q \in Rows, q[1] \in {"subchain", "subblock"}, q # r, q # b
                 PROVE  table'[q] = table[q]
    OBVIOUS
  <2>2. q \notin DOMAIN k.wrote
    BY <1>10, <2>1
  <2>3. q \notin k.gone
    BY <2>1 DEF Good, Firm
  <2>. QED
    BY <2>2, <2>3 DEF Committed
<1>17. Grown(table, table', r, b, w.hash, k.req.amount)
  <2>1. \A q \in Rows : q[1] = "subblock" /\ q # b => table'[q] = table[q]
    BY <1>8, <1>16
  <2>. QED
    BY <1>10, <1>12, <1>13, <1>14, <2>1 DEF Grown
<1>. QED
  BY <1>15, <1>16, <1>17

----------------------------------------------------------------------------
(* The chains stay whole                                                   *)

(* What a producer has read stays behind a chain that is as it was.        *)
LEMMA ProducingKept ==
  ASSUME NEW k, NEW m, NEW pc, m.req = k.req, m.read = k.read, m.wrote = k.wrote,
         NEW t, NEW u, Producing(t, k, pc), u[k.req.row] = t[k.req.row]
  PROVE  Producing(u, m, pc)
BY DEF Producing

(* A producer that is overtaken is behind.                                 *)
LEMMA ProducingBehind ==
  ASSUME NEW k, NEW m, NEW pc, m.req = k.req, m.read = k.read, m.wrote = k.wrote,
         NEW t, NEW u, Producing(t, k, pc), NEW b, NEW h, NEW a,
         LET r == k.req.row IN
         t[r].height \in Nat /\ u[r] # Absent /\ Grown(t, u, r, b, h, a)
  PROVE  Producing(u, m, pc)
<1> DEFINE r == k.req.row
           x == k.read[r]
           y == t[r]
           z == u[r]
<1>1. y.height \in Nat /\ z.height = y.height + 1 /\ z # Absent
  BY DEF Grown
<1>2. ASSUME pc = "found" PROVE Behind(x, z)
  <2>1. Behind(x, y)
    BY <1>2 DEF Producing
  <2>2. /\ ChainColumns \subseteq DOMAIN x /\ x.height \in Nat /\ x.height <= y.height
    BY <2>1 DEF Behind
  <2>3. x.height <= z.height /\ x.height # z.height /\ z.height \in Nat
    BY <1>1, <2>2
  <2>. QED
    BY <2>2, <2>3 DEF Behind
<1>. QED
  BY <1>1, <1>2 DEF Producing

(* A producer that is done or has failed has nothing left.                 *)
LEMMA ProducingEnded ==
  ASSUME NEW t, NEW m, m.wrote = <<>>, m.read = <<>>, m.pc \in Closings \cup {"start"}
  PROVE  Producing(t, m, m.pc)
BY DEF Producing, Closings

LEMMA ChainsByTurn ==
  ASSUME SessionsInv, ChainInv, NEW s \in Sessions, NEW m, Keep(s, m), UNCHANGED store,
         m.req.op = "produce" => Producing(table, m, m.pc)
  PROVE  ChainInv'
<1>1. table' = table
  BY DEF store
<1>2. ChainsWhole'
  <2>1. ASSUME NEW c \in Rows, IsChain(table, c)' PROVE Whole(table, c)'
    <3>1. IsChain(table', c)
      BY <2>1 DEF IsChain
    <3>2. Whole(table, c)
      BY <1>1, <3>1 DEF ChainInv, ChainsWhole
    <3>3. Whole(table', c)
      BY <1>1, <3>2
    <3>. QED
      BY <3>3
  <2>. QED
    BY <2>1 DEF ChainsWhole
<1>3. ASSUME NEW u \in Sessions, session'[u].req.op = "produce"
      PROVE  Producing(table', session'[u], session'[u].pc)
  <2>1. session'[u] = IF u = s THEN m ELSE session[u]
    BY DEF Keep, SessionsInv
  <2>. QED
    BY <1>1, <1>3, <2>1 DEF ChainInv, ProducersInv
<1>4. ProducersInv'
  BY <1>3 DEF ProducersInv, Producing, Behind
<1>. QED
  BY <1>2, <1>4 DEF ChainInv

LEMMA ChainsByClosing ==
  ASSUME SessionsInv, ChainInv, NEW s \in Sessions, NEW how \in Closings,
         Keep(s, Closed(session[s], how)), UNCHANGED store
  PROVE  ChainInv'
<1> DEFINE m == Closed(session[s], how)
<1>1. m.wrote = <<>> /\ m.read = <<>> /\ m.pc = how
  BY ClosedIs
<1>2. Keep(s, m)
  OBVIOUS
<1>. HIDE DEF m
<1>3. Producing(table, m, m.pc)
  BY <1>1, ProducingEnded
<1>. QED
  BY <1>2, <1>3, ChainsByTurn

LEMMA ProducerRow ==
  ASSUME NEW s, Sure(s), session[s].req.op = "produce"
  PROVE  LET q == session[s].req IN
         q.row \in Rows /\ q.row[1] = "subchain" /\ q.amount \in Int
<1>1. session[s].req.op \in RegistryRequests /\ TableOf[session[s].req.op] = "subchain"
  BY DEF RegistryRequests, TableOf
<1>2. session[s].req.row \in Rows /\ session[s].req.row[1] = "subchain"
  BY <1>1, RegistryIs
<1>. QED
  BY <1>2 DEF Sure, WellFormed

LEMMA ChainsByOthers ==
  ASSUME SessionsInv, SolvencyInv, ChainInv, NEW s \in Sessions, NEW k, NEW pc, Good(s, k),
         Committed(s, k, pc), k.req.op # "produce"
  PROVE  ChainInv'
<1>1. \A r \in Rows : r[1] \in {"subchain", "subblock"} => table'[r] = table[r]
  BY ChainsUntouched
<1>2. ASSUME NEW c \in Rows, IsChain(table', c) PROVE Whole(table', c)
  <2>1. c[1] = "subchain" /\ table'[c] = table[c]
    BY <1>1, <1>2 DEF IsChain
  <2>2. Whole(table, c)
    BY <1>2, <2>1 DEF ChainInv, ChainsWhole, IsChain
  <2> DEFINE t == table u == table'
  <2>3. \A r \in Rows : r[1] = "subblock" /\ r[2][1] = c[2] => u[r] = t[r]
    BY <1>1
  <2>4. Whole(t, c) /\ u[c] = t[c]
    BY <2>1, <2>2
  <2>. HIDE DEF t, u
  <2>5. Whole(u, c)
    BY <2>3, <2>4, WholeSame
  <2>. QED
    BY <2>5 DEF u
<1>3. ASSUME NEW u \in Sessions, session'[u].req.op = "produce"
      PROVE  Producing(table', session'[u], session'[u].pc)
  <2> DEFINE m == session'[u]
             l == session[u]
  <2>1. u # s
    <3>1. CASE pc = "done"
      BY <1>3, <3>1, ClosedIs DEF Committed
    <3>2. CASE pc # "done"
      <4> DEFINE n == [Continued(k) EXCEPT !.pc = pc]
      <4>1. u = s => m = n
        BY <3>2 DEF Committed
      <4>2. n.req = k.req
        BY ContinuedIs
      <4>. HIDE DEF n
      <4>. QED
        BY <1>3, <4>1, <4>2
    <3>. QED
      BY <3>1, <3>2
  <2>2. IsSession(l)
    BY DEF SessionsInv, Prepared, Recorded
  <2>3. m.req = l.req /\ m.pc = l.pc /\ m.wrote = l.wrote /\ m.read = l.read
    BY <2>1, <2>2, OtherCommit
  <2>4. Producing(table, l, l.pc)
    BY <1>3, <2>3 DEF ChainInv, ProducersInv
  <2>5. Sure(u)
    BY SureIs DEF SolvencyInv
  <2>6. l.req.row \in Rows /\ l.req.row[1] = "subchain"
    BY <1>3, <2>3, <2>5, ProducerRow
  <2>7. table'[l.req.row] = table[l.req.row]
    BY <1>1, <2>6
  <2>. HIDE DEF m, l
  <2>8. Producing(table', m, l.pc)
    BY <2>3, <2>4, <2>7, ProducingKept
  <2>. QED
    BY <2>3, <2>8 DEF m
<1>4. ChainsWhole' /\ ProducersInv'
  BY <1>2, <1>3 DEF ChainsWhole, ProducersInv
<1>. QED
  BY <1>4 DEF ChainInv

LEMMA ChainsByProduce ==
  ASSUME SessionsInv, SolvencyInv, ChainInv, NEW s \in Sessions, NEW k, Good(s, k),
         Committed(s, k, "done"), k.req = session[s].req, k.req.op = "produce",
         session[s].pc = "found", Forged(session[s], k)
  PROVE  ChainInv'
<1> DEFINE l == session[s]
           r == k.req.row
           y == table[r]
           b == Block(r, y.height + 1)
           h == k.wrote[b].hash
           a == k.req.amount
<1>1. r \in Rows /\ r[1] = "subchain" /\ a \in Int /\ WellFormed(k.req)
  <2>1. Sure(s)
    BY SureIs DEF SolvencyInv
  <2>. QED
    BY <2>1, ProducerRow DEF Sure
<1>2. Producing(table, l, "found")
  BY DEF ChainInv, ProducersInv
<1>3. IsChain(table, r) /\ y.height \in Nat
  BY <1>1, <1>2 DEF Producing, IsChain, Behind
<1>4. /\ Grown(table, table', r, b, h, a) /\ table'[r] # Absent
      /\ \A q \in Rows : q[1] \in {"subchain", "subblock"} /\ q # r /\ q # b =>
           table'[q] = table[q]
  BY <1>1, <1>2, <1>3, ChainGrows DEF ChainInv
<1>5. b[1] = "subblock" /\ b[2][1] = r[2]
  BY BlockIs
<1>. HIDE DEF y, b, h, a, r
<1>6. ASSUME NEW c \in Rows, IsChain(table', c) PROVE Whole(table', c)
  <2>1. c[1] = "subchain"
    BY <1>6 DEF IsChain
  <2>2. CASE c = r
    <3>1. Whole(table, r)
      BY <1>1, <1>3 DEF ChainInv, ChainsWhole
    <3> DEFINE t == table u == table'
    <3>2. Whole(t, r) /\ Grown(t, u, r, b, h, a)
      BY <1>4, <3>1
    <3>. HIDE DEF t, u
    <3>3. Whole(u, r)
      BY <1>1, <3>2, WholeGrown
    <3>. QED
      BY <2>2, <3>3 DEF u
  <2>3. CASE c # r
    <3>1. c[2] # r[2]
      BY <1>1, <2>1, <2>3, RowsAreKeyed
    <3>2. table'[c] = table[c]
      BY <1>4, <1>5, <2>1, <2>3
    <3>3. Whole(table, c)
      BY <1>6, <2>1, <3>2 DEF ChainInv, ChainsWhole, IsChain
    <3> DEFINE t == table u == table'
    <3>4. \A q \in Rows : q[1] = "subblock" /\ q[2][1] = c[2] => u[q] = t[q]
      <4>1. SUFFICES ASSUME NEW q \in Rows, q[1] = "subblock", q[2][1] = c[2]
                     PROVE  table'[q] = table[q]
        OBVIOUS
      <4>2. q # r /\ q # b
        BY <1>1, <1>5, <3>1, <4>1
      <4>. QED
        BY <1>4, <4>1, <4>2
    <3>5. Whole(t, c) /\ u[c] = t[c]
      BY <3>2, <3>3
    <3>. HIDE DEF t, u
    <3>6. Whole(u, c)
      BY <3>4, <3>5, WholeSame
    <3>. QED
      BY <3>6 DEF u
  <2>. QED
    BY <2>2, <2>3
<1>7. ASSUME NEW u \in Sessions, session'[u].req.op = "produce"
      PROVE  Producing(table', session'[u], session'[u].pc)
  <2> DEFINE m == session'[u]
             o == session[u]
  <2>1. CASE u = s
    <3>1. m.wrote = <<>> /\ m.read = <<>> /\ m.pc = "done"
      BY <2>1, ClosedIs DEF Committed
    <3>. HIDE DEF m
    <3>2. Producing(table', m, m.pc)
      BY <3>1, ProducingEnded DEF Closings
    <3>. QED
      BY <3>2 DEF m
  <2>2. CASE u # s
    <3>1. IsSession(o)
      BY DEF SessionsInv, Prepared, Recorded
    <3>2. m.req = o.req /\ m.pc = o.pc /\ m.wrote = o.wrote /\ m.read = o.read
      BY <2>2, <3>1, OtherCommit
    <3>3. Producing(table, o, o.pc)
      BY <1>7, <3>2 DEF ChainInv, ProducersInv
    <3>4. Sure(u)
      BY SureIs DEF SolvencyInv
    <3>5. o.req.row \in Rows /\ o.req.row[1] = "subchain"
      BY <1>7, <3>2, <3>4, ProducerRow
    <3>. HIDE DEF m, o
    <3>6. CASE o.req.row = r
      <4> DEFINE t == table v == table'
      <4>1. /\ Producing(t, o, o.pc) /\ t[r].height \in Nat /\ v[r] # Absent
            /\ Grown(t, v, r, b, h, a)
        BY <1>3, <1>4, <3>3 DEF y
      <4>. HIDE DEF t, v
      <4>2. Producing(v, m, o.pc)
        BY <3>2, <3>6, <4>1, ProducingBehind
      <4>. QED
        BY <3>2, <4>2 DEF v, m
    <3>7. CASE o.req.row # r
      <4>1. table'[o.req.row] = table[o.req.row]
        BY <1>4, <1>5, <3>5, <3>7
      <4>2. Producing(table', m, o.pc)
        BY <3>2, <3>3, <4>1, ProducingKept
      <4>. QED
        BY <3>2, <4>2 DEF m
    <3>. QED
      BY <3>6, <3>7
  <2>. QED
    BY <2>1, <2>2
<1>8. ChainsWhole' /\ ProducersInv'
  BY <1>6, <1>7 DEF ChainsWhole, ProducersInv
<1>. QED
  BY <1>8 DEF ChainInv

LEMMA ChainInvInit ==
  ASSUME Init
  PROVE  ChainInv
<1>1. PICK script \in Scripts : session = [s \in Sessions |-> Opened(script[s])]
  BY DEF Init, Start
<1>2. ASSUME NEW c \in Rows, IsChain(table, c) PROVE Whole(table, c)
  <2>1. table = OpeningTable
    BY DEF Init
  <2>2. c[1] = "subchain" /\ OpeningTable[c] # Absent
    BY <1>2, <2>1 DEF IsChain
  <2>. HIDE DEF OpeningTable
  <2>3. /\ ChainColumns \subseteq DOMAIN OpeningTable[c]
        /\ Chained(OpeningTable, c)
        /\ \A b \in BlocksIn(OpeningTable, c) : OpeningTable[b].txns \in Int
    BY <2>2, OpeningChains
  <2>. QED
    BY <2>1, <2>3 DEF Whole
<1>3. ASSUME NEW s \in Sessions PROVE Producing(table, session[s], session[s].pc)
  <2>1. session[s].wrote = <<>> /\ session[s].read = <<>> /\ session[s].pc = "start"
    BY <1>1, OpenedIs
  <2>. QED
    BY <2>1, ProducingEnded
<1>. QED
  BY <1>2, <1>3 DEF ChainInv, ChainsWhole, ProducersInv

LEMMA ChainInvNext ==
  ASSUME SessionsInv, SolvencyInv, ChainInv, [Next]_vars
  PROVE  ChainInv'
<1>1. ASSUME NEW s \in Sessions, NEW how \in Closings, End(s, how) PROVE ChainInv'
  BY <1>1, ChainsByClosing DEF End
<1>2. ASSUME NEW s \in Sessions, Refuse(s) PROVE ChainInv'
  BY <1>1, <1>2 DEF Refuse, Closings
<1>3. ASSUME NEW s \in Sessions, Step(s) PROVE ChainInv'
  <2>1. Sure(s)
    BY <1>3, SureIs DEF SolvencyInv
  <2>2. CASE session[s].req.op = "produce"
    <3>1. Producing(table, session[s], session[s].pc)
      BY <2>2 DEF ChainInv, ProducersInv
    <3>2. CASE Lookup(s)
      <4>1. ASSUME NEW l, Query(s, l, "found"), IsSession(l), Producing(table, l, "found")
            PROVE  ChainInv'
        <5> DEFINE m == [Flushed(l) EXCEPT !.pc = "found"]
        <5>1. End(s, "refused") \/ (Keep(s, m) /\ UNCHANGED store)
          BY <4>1 DEF Query
        <5>2. m = [[l EXCEPT !.held = @ \cup Touched(l)] EXCEPT !.pc = "found"]
          BY DEF Flushed
        <5>3. m.pc = "found" /\ m.req = l.req /\ m.read = l.read /\ m.wrote = l.wrote
          BY <4>1, <5>2 DEF IsSession
        <5>. HIDE DEF m
        <5>4. Producing(table, m, m.pc)
          BY <4>1, <5>3, ProducingKept
        <5>. QED
          BY <1>1, <5>1, <5>4, ChainsByTurn DEF Closings
      <4>2. ChainsWhole
        BY DEF ChainInv
      <4>. QED
        BY <1>2, <2>1, <2>2, <3>1, <3>2, <4>1, <4>2, LookupProduces
    <3>3. CASE Produce(s)
      <4>1. session[s].pc = "found"
        BY <3>3 DEF Produce, At
      <4>2. PICK m : Commit(s, m) /\ Good(s, m) /\ m.req = session[s].req /\ Forged(session[s], m)
        BY <2>1, <3>1, <3>3, ProduceForges
      <4>3. End(s, "refused") \/ Committed(s, m, "done")
        BY <4>2, CommitIs DEF Commit
      <4>. QED
        BY <1>1, <2>2, <4>1, <4>2, <4>3, ChainsByProduce DEF Closings
    <3>. QED
      BY <1>2, <1>3, <2>2, <3>2, <3>3, OnlyProduces
  <2>3. CASE session[s].req.op # "produce"
    <3>1. \A k : Firm(s, k) => k.req.op # "produce"
      BY <2>3 DEF Firm, SameRequest
    <3>2. ASSUME NEW k, NEW pc, Good(s, k), CommitThen(s, k, pc) PROVE ChainInv'
      <4>1. k.req.op # "produce"
        BY <3>1, <3>2 DEF Good
      <4>2. End(s, "refused") \/ Committed(s, k, pc)
        BY <3>2, CommitIs
      <4>. QED
        BY <1>1, <3>2, <4>1, <4>2, ChainsByOthers DEF Closings
    <3>3. ASSUME NEW k, Firm(s, k), Keep(s, k), UNCHANGED store PROVE ChainInv'
      BY <3>1, <3>3, ChainsByTurn
    <3>4. Moves(s)
      BY <1>3, <2>1, StepMoves
    <3>. QED
      BY <1>1, <3>2, <3>3, <3>4 DEF Moves
  <2>. QED
    BY <2>2, <2>3
<1>4. ASSUME NEW s \in Sessions, SessionLost(s) PROVE ChainInv'
  BY <1>4, ChainsByClosing DEF SessionLost, Closings
<1>5. CASE UNCHANGED vars
  <2>1. table' = table /\ session' = session
    BY <1>5 DEF vars
  <2>. QED
    BY <2>1 DEF ChainInv, ChainsWhole, ProducersInv, IsChain, Producing, Behind
<1>. QED
  BY <1>3, <1>4, <1>5 DEF Next

LEMMA WholeAreLinked ==
  ASSUME ChainsWhole
  PROVE  SubchainIsLinked
<1>1. ASSUME NEW c \in OfKind("subchain") PROVE Chained(table, c)
  <2>1. c \in Rows /\ c[1] = "subchain" /\ table[c] # Absent
    BY OfKindIs
  <2>2. Whole(table, c)
    BY <2>1 DEF ChainsWhole, IsChain
  <2>. QED
    BY <2>2, Zenon DEF Whole
<1>. QED
  BY <1>1 DEF SubchainIsLinked

(* SubchainIsLinked, for any sub-chains and requests: what a producer has  *)
(* read is the sub-chain as it is, or a shorter one, and then the block it *)
(* would add is there already.                                             *)
THEOREM SubchainIsLinkedAlways == Spec => []SubchainIsLinked
<1>1. Spec => []ChainInv
  BY ChainInvInit, ChainInvNext, SessionsInvAlways, SolvencyInvAlways, PTL DEF Spec
<1>2. ChainInv => SubchainIsLinked
  BY WholeAreLinked DEF ChainInv
<1>. QED
  BY <1>1, <1>2, PTL

----------------------------------------------------------------------------
(* A result is verified by two providers                                   *)

IsVerdict(t, v) == v \in Rows /\ v[1] = "verification" /\ t[v] # Absent
IsReport(r, m) == r \in Rows /\ r[1] = "observation" /\ r[2][1] = m

(* The comparisons under way.                                                *)
Runners == {u \in Sessions : session[u].req.op = "ingest" /\ session[u].pc \notin Closings}

VerdictOf(k) == <<"verification", k.req.match>>

(* The reports a session has are of its match, and they are in the table   *)
(* or about to be.                                                         *)
HasReports(t, k) ==
    /\ \A r \in DOMAIN k.read : r[1] = "observation" =>
         IsReport(r, k.req.match) /\ (k.read[r] # Absent => t[r] = k.read[r])
    /\ \A r \in DOMAIN k.wrote : r[1] = "observation" =>
         /\ r \in DOMAIN k.read /\ k.read[r] = Absent /\ "score" \in DOMAIN k.wrote[r]

(* A verdict that was made by the same comparison as the one that was read *)
(* has its score, and is called verified only if that was; one that was    *)
(* made by another has changed the time.                                   *)
Dated(b, x) ==
    /\ Verdicts \subseteq DOMAIN b
    /\ x.at = b.at => x.score = b.score /\ (x.status = "verified" => b.status = "verified")

Tells(t, R, k) ==
    LET v == VerdictOf(k) b == k.read[v] IN
    /\ v \in DOMAIN k.read
    /\ b # Absent =>
         /\ t[v] # Absent /\ Dated(b, t[v])
         /\ <<v, "at">> \notin k.old => t[v].at = b.at
         /\ b.at \notin R

(* Two of the reports it has are of the score x.                           *)
TwoCopies(k, x) == \E a, b \in Known(k) :
    /\ \A r \in {a, b} : r[1] = "observation" /\ Copy(k, r).score = x
    /\ a[2][2] # b[2][2]

(* What a comparison makes of the verdict.                                 *)
Weighed(s, k) ==
    LET v == VerdictOf(k) b == k.read[v] w == k.wrote[v] IN
    /\ v \in DOMAIN k.wrote =>
         \/ /\ b = Absent /\ Verdicts \subseteq DOMAIN w /\ w.at \in {s, "never"}
         \/ /\ b # Absent
            /\ "at" \in DOMAIN w => w.at = s
            /\ "at" \notin DOMAIN w =>
                 /\ "score" \notin DOMAIN w
                 /\ "status" \in DOMAIN w => w.status # "verified"
    /\ Copy(k, v).status = "verified" => TwoCopies(k, Copy(k, v).score)

(* What a comparison knows at a statement.                                 *)
Informed(t, R, s, k, pc) ==
    /\ HasReports(t, k)
    /\ \A r \in DOMAIN k.wrote : r[1] = "verification" => r = VerdictOf(k) /\ pc = "evaluate"
    /\ pc \in {"compare", "evaluate"} => Tells(t, R, k)
    /\ pc = "evaluate" => Weighed(s, k)
    /\ pc \in {"start", "versions", "match", "observations"} =>
         \A r \in DOMAIN k.read : r[1] # "verification"

VerdictsStand ==
    \A v : IsVerdict(table, v) =>
      /\ Verdicts \subseteq DOMAIN table[v]
      /\ table[v].at \notin Runners
      /\ lost = {} /\ table[v].status = "verified" => TwoReport(table, v, table[v].score)

ComparisonsInv ==
    \A s \in Sessions :
      session[s].req.op = "ingest" => Informed(table, Runners, s, session[s], session[s].pc)

VerdictInv == VerdictsStand /\ ComparisonsInv

(* m has the rows of the kinds K like k.                                   *)
SameOn(K, m, k) ==
    /\ m.req = k.req /\ m.old = k.old
    /\ \A r : r[1] \in K =>
         /\ r \in DOMAIN m.read <=> r \in DOMAIN k.read
         /\ r \in DOMAIN k.read => m.read[r] = k.read[r]
         /\ r \in DOMAIN m.wrote <=> r \in DOMAIN k.wrote
         /\ r \in DOMAIN k.wrote => m.wrote[r] = k.wrote[r]

LEMMA SameTwice ==
  ASSUME NEW K, NEW m, NEW l, NEW k, SameOn(K, m, l), SameOn(K, l, k)
  PROVE  SameOn(K, m, k)
BY DEF SameOn

LEMMA SameByLoadAll ==
  ASSUME NEW K, NEW k, IsSession(k), NEW S, \A r \in S : r[1] \notin K
  PROVE  IsSession(LoadAll(k, S)) /\ SameOn(K, LoadAll(k, S), k)
<1> DEFINE m == LoadAll(k, S)
<1>1. /\ IsSession(m) /\ m.req = k.req /\ m.wrote = k.wrote /\ m.old = k.old
      /\ DOMAIN m.read = (S \ Known(k)) \cup DOMAIN k.read
      /\ \A r \in DOMAIN k.read : r \notin S \ Known(k) => m.read[r] = k.read[r]
  BY LoadedFields
<1>. HIDE DEF m
<1>2. SameOn(K, m, k)
  BY <1>1 DEF SameOn
<1>. QED
  BY <1>1, <1>2 DEF m

LEMMA SameByEach ==
  ASSUME NEW K, NEW k, IsSession(k), NEW f, \A r \in DOMAIN f : r[1] \notin K
  PROVE  IsSession(SetEach(k, f)) /\ SameOn(K, SetEach(k, f), k)
<1> DEFINE m == SetEach(k, f)
<1>1. /\ IsSession(m) /\ m.req = k.req /\ m.read = k.read /\ m.old = k.old
      /\ DOMAIN m.wrote = ChangedBy(k, f) \cup DOMAIN k.wrote
      /\ \A r \in DOMAIN k.wrote : r \notin ChangedBy(k, f) => m.wrote[r] = k.wrote[r]
  BY SetFields
<1>2. \A r \in ChangedBy(k, f) : r[1] \notin K
  BY DEF ChangedBy
<1>. HIDE DEF m
<1>3. SameOn(K, m, k)
  BY <1>1, <1>2 DEF SameOn
<1>. QED
  BY <1>1, <1>3 DEF m

LEMMA SameBySet ==
  ASSUME NEW K, NEW k, IsSession(k), NEW r, r[1] \notin K, NEW x
  PROVE  IsSession(Set(k, r, x)) /\ SameOn(K, Set(k, r, x), k)
<1> DEFINE f == Only(r, x)
<1>1. DOMAIN f = {r}
  BY OnlyIs
<1>. HIDE DEF f
<1>2. IsSession(SetEach(k, f)) /\ SameOn(K, SetEach(k, f), k)
  BY <1>1, SameByEach
<1>. QED
  BY <1>2 DEF Set, f

(* What a comparison knows is in the reports and the verdict.              *)
LEMMA TwoCopiesSame ==
  ASSUME NEW m, NEW k, SameOn({"observation"}, m, k), NEW x, TwoCopies(k, x)
  PROVE  TwoCopies(m, x)
<1>1. PICK a \in Known(k), b \in Known(k) :
        /\ \A r \in {a, b} : r[1] = "observation" /\ Copy(k, r).score = x
        /\ a[2][2] # b[2][2]
  BY DEF TwoCopies
<1>2. ASSUME NEW r \in {a, b} PROVE r \in Known(m) /\ Copy(m, r) = Copy(k, r)
  BY <1>1 DEF SameOn, Known, Exists, Copy
<1>3. /\ a \in Known(m) /\ b \in Known(m)
      /\ \A r \in {a, b} : r[1] = "observation" /\ Copy(m, r).score = x
  BY <1>1, <1>2
<1>. HIDE DEF Known, Copy
<1>. QED
  BY <1>1, <1>3 DEF TwoCopies

LEMMA ReportsSame ==
  ASSUME NEW m, NEW k, SameOn({"observation"}, m, k), HasReports(table, k)
  PROVE  HasReports(table, m)
BY DEF SameOn, HasReports

LEMMA TellsSame ==
  ASSUME NEW m, NEW k, SameOn({"verification"}, m, k), Tells(table, Runners, k)
  PROVE  Tells(table, Runners, m)
<1>1. VerdictOf(k)[1] = "verification" /\ VerdictOf(m) = VerdictOf(k)
  BY DEF VerdictOf, SameOn
<1>2. m.read[VerdictOf(k)] = k.read[VerdictOf(k)] /\ VerdictOf(k) \in DOMAIN m.read
      /\ m.old = k.old
  BY <1>1 DEF SameOn, Tells
<1>. QED
  BY <1>1, <1>2 DEF Tells

LEMMA WeighedSame ==
  ASSUME NEW m, NEW k, SameOn({"observation", "verification"}, m, k),
         VerdictOf(k) \in DOMAIN k.read, NEW s, Weighed(s, k)
  PROVE  Weighed(s, m)
<1> DEFINE v == VerdictOf(k)
<1>1. v[1] = "verification" /\ VerdictOf(m) = v
  BY DEF VerdictOf, SameOn
<1>. HIDE DEF v
<1>2. /\ m.read[v] = k.read[v]
      /\ v \in DOMAIN m.wrote <=> v \in DOMAIN k.wrote
      /\ v \in DOMAIN k.wrote => m.wrote[v] = k.wrote[v]
  BY <1>1 DEF SameOn, v
<1>3. Copy(m, v) = Copy(k, v)
  BY <1>2 DEF Copy
<1>4. \A x : TwoCopies(k, x) => TwoCopies(m, x)
  <2>1. SameOn({"observation"}, m, k)
    BY DEF SameOn
  <2>. QED
    BY <2>1, TwoCopiesSame
<1>. QED
  BY <1>1, <1>2, <1>3, <1>4 DEF Weighed, v

(* A set that has more than one element has two.                           *)
LEMMA TwoOf ==
  ASSUME NEW S, IsFiniteSet(S), Cardinality(S) > 1
  PROVE  \E a, b \in S : a # b
<1>1. S # {}
  BY FS_EmptySet
<1>2. PICK a \in S : TRUE
  BY <1>1
<1>3. S # {a}
  BY FS_Singleton
<1>. QED
  BY <1>2, <1>3

(* A verdict that is called verified has two reports of one score.         *)
LEMMA VerifiedHasTwo ==
  ASSUME NEW k, HasReports(table, k), NEW latest \in Latest(k), VerdictOn(k, latest) = "verified"
  PROVE  TwoCopies(k, CHOOSE x \in Scores(k, latest) : TRUE)
<1> DEFINE scored == {r \in latest : Report(k, r) \in Outcomes}
           scores == Scores(k, latest)
           x == CHOOSE x \in scores : TRUE
           P == {r[2][2] : r \in KnownOf(k, "observation")}
<1>1. Cardinality(scored) > 1 /\ Cardinality(scores) = 1
  BY DEF VerdictOn
<1>2. /\ latest \subseteq KnownOf(k, "observation")
      /\ \A p \in P : Cardinality({r \in latest : r[2][2] = p}) = 1
  BY DEF Latest, Newest
<1>3. \A r \in latest : r \in Known(k) /\ r[1] = "observation" /\ r \in Rows
  BY <1>2 DEF KnownOf, Known, HasReports, IsReport
<1>4. IsFiniteSet(latest) /\ IsFiniteSet(scored)
  <2>1. latest \subseteq Rows /\ scored \subseteq Rows
    BY <1>3
  <2>. QED
    BY <2>1, FiniteRows, FS_Subset
<1>5. \A r \in scored : Report(k, r) = x
  <2>1. scores = {Report(k, r) : r \in scored}
    BY DEF Scores
  <2>2. IsFiniteSet(scores)
    <3>1. IsFiniteSet(Outcomes)
      <4>1. IsFiniteSet({"home"})
        BY FS_Singleton
      <4>2. IsFiniteSet({"home"} \cup {"draw"})
        BY <4>1, FS_AddElement
      <4>3. IsFiniteSet(({"home"} \cup {"draw"}) \cup {"away"})
        BY <4>2, FS_AddElement
      <4>4. Outcomes = ({"home"} \cup {"draw"}) \cup {"away"}
        BY DEF Outcomes
      <4>. QED
        BY <4>3, <4>4
    <3>2. scores \subseteq Outcomes
      BY DEF Scores
    <3>. HIDE DEF scores
    <3>. QED
      BY <3>1, <3>2, FS_Subset
  <2>3. PICK z : scores = {z}
    <3>. HIDE DEF scores
    <3>. QED
      BY <1>1, <2>2, FS_Singleton
  <2>. QED
    BY <2>1, <2>3
<1>6. PICK a \in scored, b \in scored : a # b
  <2>. HIDE DEF scored
  <2>. QED
    BY <1>1, <1>4, TwoOf
<1>7. a[2][2] # b[2][2]
  <2>1. SUFFICES ASSUME a[2][2] = b[2][2] PROVE FALSE
    OBVIOUS
  <2> DEFINE T == {r \in latest : r[2][2] = a[2][2]}
  <2>2. a[2][2] \in P
    BY <1>2, <1>6
  <2>3. Cardinality(T) = 1
    BY <1>2, <2>2
  <2>4. IsFiniteSet(T)
    BY <1>4, FS_Subset
  <2>5. a \in T /\ b \in T
    BY <2>1
  <2>. HIDE DEF T
  <2>6. PICK z : T = {z}
    BY <2>3, <2>4, FS_Singleton
  <2>. QED
    BY <1>6, <2>5, <2>6
<1>8. \A r \in {a, b} : r \in Known(k) /\ r[1] = "observation" /\ Copy(k, r).score = x
  BY <1>3, <1>5 DEF Report
<1>. QED
  BY <1>7, <1>8 DEF TwoCopies

(* What a comparison knows when it has read the verdict.                   *)
Comparing(k) ==
    /\ IsSession(k) /\ HasReports(table, k) /\ Tells(table, Runners, k)
    /\ \A r \in DOMAIN k.wrote : r[1] # "verification"

(* What it knows when it has made its own.                                 *)
Decided(s, k) ==
    /\ HasReports(table, k) /\ Tells(table, Runners, k) /\ Weighed(s, k)
    /\ \A r \in DOMAIN k.wrote : r[1] = "verification" => r = VerdictOf(k)

LEMMA DecidedSame ==
  ASSUME NEW m, NEW k, SameOn({"observation", "verification"}, m, k), NEW s, Decided(s, k)
  PROVE  Decided(s, m)
<1>1. SameOn({"observation"}, m, k) /\ SameOn({"verification"}, m, k)
  BY DEF SameOn
<1>2. HasReports(table, m) /\ Tells(table, Runners, m)
  BY <1>1, ReportsSame, TellsSame DEF Decided
<1>3. VerdictOf(k) \in DOMAIN k.read
  BY DEF Decided, Tells
<1>4. Weighed(s, m)
  BY <1>3, WeighedSame DEF Decided
<1>5. \A r \in DOMAIN m.wrote : r[1] = "verification" => r = VerdictOf(m)
  BY DEF Decided, SameOn, VerdictOf
<1>. QED
  BY <1>2, <1>4, <1>5 DEF Decided

LEMMA ComparedIs ==
  ASSUME NEW s, s \in Runners, Comparing(session[s]), NEW latest \in Latest(session[s])
  PROVE  LET m == Compared(s, latest) IN IsSession(m) /\ m.req = session[s].req /\ Decided(s, m)
<1> DEFINE k == session[s]
           v == VerdictOf(k)
           b == k.read[v]
           verdict == VerdictOn(k, latest)
           before == IF Exists(k, v) THEN Copy(k, v)
                     ELSE [status |-> "pending", score |-> "none", at |-> "never"]
           x == CHOOSE x \in Scores(k, latest) : TRUE
           score == IF verdict \in {"unverified", "verified"} THEN x ELSE before.score
           corrected == before.status = "verified" /\ score # before.score
           status == IF corrected THEN "corrected" ELSE verdict
           at == IF verdict \in {"pending", "unavailable"} THEN before.at ELSE s
           y == [status |-> status, score |-> score, at |-> at]
           m == Compared(s, latest)
<1>1. v = Verification(s)
  BY DEF VerdictOf, Verification, Args
<1>2. m = IF Exists(k, v) THEN Set(k, v, y) ELSE Insert(k, v, y)
  BY <1>1 DEF Compared
<1>3. /\ IsSession(k) /\ HasReports(table, k) /\ v \in DOMAIN k.read /\ v \notin DOMAIN k.wrote
      /\ v[1] = "verification"
  BY DEF Comparing, Tells, VerdictOf
<1>4. before = IF b # Absent THEN b ELSE [status |-> "pending", score |-> "none", at |-> "never"]
  BY <1>3 DEF Exists, Copy
<1>5. /\ status = "verified" => TwoCopies(k, score)
      /\ at \in {s, before.at}
      /\ at # s => score = before.score /\ status # "verified"
  BY <1>3, VerifiedHasTwo
<1>. HIDE DEF verdict, before, x, corrected
<1>6. /\ DOMAIN y = Verdicts /\ y["status"] = status /\ y["score"] = score /\ y["at"] = at
  BY DEF Verdicts
<1>. HIDE DEF y, status, score, at
<1>. HIDE DEF m
<1>7. ASSUME b = Absent
      PROVE  /\ IsSession(m) /\ m.req = k.req /\ m.old = k.old
             /\ DOMAIN m.read = DOMAIN k.read /\ \A r \in DOMAIN k.read : m.read[r] = k.read[r]
             /\ DOMAIN m.wrote = {v} \cup DOMAIN k.wrote
             /\ \A r \in DOMAIN k.wrote : m.wrote[r] = k.wrote[r]
             /\ Part(y, m.wrote[v])
  <2>1. m = Insert(k, v, y) /\ DOMAIN y # {}
    BY <1>2, <1>3, <1>6, <1>7 DEF Exists, Verdicts
  <2>. HIDE DEF v
  <2>2. /\ IsSession(m)
        /\ m.req = k.req /\ m.old = k.old
        /\ DOMAIN m.read = {v} \cup DOMAIN k.read /\ m.read[v] = Absent
        /\ \A z \in DOMAIN k.read : z # v => m.read[z] = k.read[z]
        /\ DOMAIN m.wrote = {v} \cup DOMAIN k.wrote
        /\ \A z \in DOMAIN k.wrote : z # v => m.wrote[z] = k.wrote[z]
        /\ Part(y, m.wrote[v])
    BY <1>3, <2>1, InsertFields
  <2>. QED
    BY <1>3, <1>7, <2>2
<1>8. ASSUME b # Absent
      PROVE  /\ IsSession(m) /\ m.req = k.req /\ m.old = k.old /\ m.read = k.read
             /\ DOMAIN m.wrote \subseteq {v} \cup DOMAIN k.wrote
             /\ DOMAIN k.wrote \subseteq DOMAIN m.wrote
             /\ \A r \in DOMAIN k.wrote : m.wrote[r] = k.wrote[r]
             /\ v \in DOMAIN m.wrote =>
                  /\ DOMAIN m.wrote[v] = {c \in Verdicts : b[c] # y[c]}
                  /\ \A c \in DOMAIN m.wrote[v] : m.wrote[v][c] = y[c]
             /\ \A c \in Verdicts : Copy(m, v)[c] = y[c]
  <2> DEFINE f == Only(v, y)
             d == Changes(b, y)
  <2>1. m = SetEach(k, f)
    BY <1>2, <1>8, <1>3 DEF Exists, Set
  <2>2. DOMAIN f = {v} /\ f[v] = y
    BY OnlyIs
  <2>3. Copy(k, v) = b /\ Written(k, v) = <<>>
    BY <1>3 DEF Copy, Written
  <2>4. /\ DOMAIN d = {c \in Verdicts : b[c] # y[c]}
        /\ \A c \in DOMAIN d : d[c] = y[c]
    <3>1. Verdicts \subseteq DOMAIN b
      BY <1>8 DEF Comparing, Tells, Dated
    <3>. HIDE DEF b
    <3>. QED
      BY <1>6, <3>1 DEF Changes
  <2>. HIDE DEF f, v
  <2>5. /\ IsSession(m) /\ m.req = k.req /\ m.read = k.read /\ m.old = k.old
        /\ DOMAIN m.wrote = ChangedBy(k, f) \cup DOMAIN k.wrote
        /\ \A r \in ChangedBy(k, f) : m.wrote[r] = Over(Changes(Copy(k, r), f[r]), Written(k, r))
        /\ \A r \in DOMAIN k.wrote : r \notin ChangedBy(k, f) => m.wrote[r] = k.wrote[r]
    BY <1>3, <2>1, SetFields
  <2>6. ChangedBy(k, f) \subseteq {v}
    BY <2>2 DEF ChangedBy
  <2>7. v \in DOMAIN m.wrote => m.wrote[v] = Over(d, <<>>)
    BY <1>3, <2>2, <2>3, <2>5, <2>6
  <2>8. DOMAIN Over(d, <<>>) = DOMAIN d /\ \A c \in DOMAIN d : Over(d, <<>>)[c] = d[c]
    <3> DEFINE e == <<>>
    <3>1. DOMAIN e = {}
      OBVIOUS
    <3>. HIDE DEF d, e
    <3>2. /\ DOMAIN Over(d, e) = DOMAIN d \cup DOMAIN e
          /\ \A c \in DOMAIN d : Over(d, e)[c] = d[c]
      BY OverIs
    <3>. QED
      BY <3>1, <3>2 DEF e
  <2>9. \A c \in Verdicts : Copy(m, v)[c] = y[c]
    BY <1>3, <1>6, <2>1, <2>2, EachCopies
  <2>. HIDE DEF d
  <2>. QED
    BY <1>3, <2>4, <2>5, <2>6, <2>7, <2>8, <2>9
<1>9. b # Absent => b["at"] # s
  BY <1>3 DEF Comparing, Tells
<1>10. ASSUME NEW c \in Verdicts PROVE Copy(m, v)[c] = y[c]
  <2>1. CASE b = Absent
    <3> DEFINE w == m.wrote[v]
    <3>1. Copy(m, v) = Over(w, b) /\ c \in DOMAIN w /\ w[c] = y[c]
      BY <1>3, <1>6, <1>7, <2>1 DEF Copy, Part
    <3>. HIDE DEF w, b
    <3>2. \A z \in DOMAIN w : Over(w, b)[z] = w[z]
      BY OverIs
    <3>. QED
      BY <3>1, <3>2
  <2>. QED
    BY <1>8, <2>1
<1>11. /\ IsSession(m) /\ m.req = k.req /\ m.old = k.old /\ VerdictOf(m) = v
       /\ DOMAIN m.read = DOMAIN k.read /\ \A r \in DOMAIN k.read : m.read[r] = k.read[r]
       /\ \A r \in DOMAIN k.wrote : r \in DOMAIN m.wrote /\ m.wrote[r] = k.wrote[r]
       /\ \A r \in DOMAIN m.wrote : r = v \/ r \in DOMAIN k.wrote
  BY <1>7, <1>8 DEF VerdictOf
<1>. HIDE DEF v, b
<1>12. SameOn({"observation"}, m, k)
  BY <1>3, <1>11 DEF SameOn
<1>13. HasReports(table, m)
  BY <1>3, <1>12, ReportsSame
<1>14. Tells(table, Runners, m)
  <2>1. Tells(table, Runners, k)
    BY DEF Comparing
  <2>2. m.read[v] = k.read[v] /\ v \in DOMAIN m.read
    BY <1>3, <1>11
  <2>. HIDE DEF k
  <2>. QED
    BY <1>11, <2>1, <2>2 DEF Tells, v
<1>15. \A r \in DOMAIN m.wrote : r[1] = "verification" => r = v
  BY <1>11 DEF Comparing
<1>16. Copy(m, v).status = "verified" => TwoCopies(m, Copy(m, v).score)
  <2>1. Copy(m, v).status = status /\ Copy(m, v).score = score
    BY <1>6, <1>10 DEF Verdicts
  <2>. QED
    BY <1>5, <1>12, <2>1, TwoCopiesSame
<1> DEFINE w == m.wrote[v]
<1>17. ASSUME v \in DOMAIN m.wrote
       PROVE  \/ /\ b = Absent /\ Verdicts \subseteq DOMAIN w /\ w.at \in {s, "never"}
              \/ /\ b # Absent
                 /\ "at" \in DOMAIN w => w.at = s
                 /\ "at" \notin DOMAIN w =>
                      /\ "score" \notin DOMAIN w
                      /\ "status" \in DOMAIN w => w.status # "verified"
  <2>1. CASE b = Absent
    <3>1. Verdicts \subseteq DOMAIN w /\ w["at"] = at
      BY <1>6, <1>7, <2>1 DEF Part, Verdicts
    <3>2. before.at = "never"
      BY <1>4, <2>1
    <3>. QED
      BY <1>5, <2>1, <3>1, <3>2
  <2>2. CASE b # Absent
    <3>1. /\ DOMAIN w = {c \in Verdicts : b[c] # y[c]}
          /\ \A c \in DOMAIN w : w[c] = y[c]
      BY <1>8, <1>17, <2>2
    <3>. HIDE DEF w
    <3>2. before.at = b["at"] /\ before.score = b["score"]
      BY <1>4, <2>2
    <3>3. ASSUME "at" \in DOMAIN w PROVE w["at"] = s
      BY <1>5, <1>6, <3>1, <3>2, <3>3
    <3>4. ASSUME "at" \notin DOMAIN w
          PROVE  "score" \notin DOMAIN w /\ ("status" \in DOMAIN w => w["status"] # "verified")
      <4>1. b["at"] = at /\ at # s
        BY <1>6, <1>9, <2>2, <3>1, <3>4 DEF Verdicts
      <4>2. score = b["score"] /\ status # "verified"
        BY <1>5, <3>2, <4>1
      <4>. QED
        BY <1>6, <3>1, <4>2
    <3>. QED
      BY <2>2, <3>3, <3>4
  <2>. QED
    BY <2>1, <2>2
<1>18. m.read[v] = b
  BY <1>3, <1>11 DEF b
<1>19. Weighed(s, m)
  BY <1>11, <1>16, <1>17, <1>18 DEF Weighed
<1>. QED
  BY <1>11, <1>13, <1>14, <1>15, <1>19 DEF Decided, m

(* What the step of a comparison makes of its session.                     *)
Compares(s) ==
    \/ \E k, pc : /\ pc \notin Closings /\ IsSession(k) /\ Query(s, k, pc)
                  /\ k.req = session[s].req /\ Informed(table, Runners, s, k, pc)
    \/ \E k : Good(s, k) /\ Commit(s, k) /\ k.req = session[s].req /\ Decided(s, k)
    \/ Refuse(s)

LEMMA ReportsLoaded ==
  ASSUME NEW k, IsSession(k), HasReports(table, k), NEW S, \A r \in S : IsReport(r, k.req.match)
  PROVE  LET m == LoadAll(k, S) IN
         IsSession(m) /\ HasReports(table, m) /\ SameOn({"verification"}, m, k)
<1> DEFINE m == LoadAll(k, S)
<1>1. /\ IsSession(m) /\ m.req = k.req /\ m.wrote = k.wrote
      /\ DOMAIN m.read = (S \ Known(k)) \cup DOMAIN k.read
      /\ \A r \in S \ Known(k) : m.read[r] = table[r]
      /\ \A r \in DOMAIN k.read : r \notin S \ Known(k) => m.read[r] = k.read[r]
  BY LoadedFields
<1>2. \A r \in S : r[1] \notin {"verification"}
  BY DEF IsReport
<1>3. SameOn({"verification"}, m, k)
  BY <1>2, SameByLoadAll
<1>. HIDE DEF m
<1>4. ASSUME NEW r \in DOMAIN m.read, r[1] = "observation"
      PROVE  IsReport(r, m.req.match) /\ (m.read[r] # Absent => table[r] = m.read[r])
  <2>1. CASE r \in S \ Known(k)
    BY <1>1, <2>1
  <2>2. CASE r \notin S \ Known(k)
    BY <1>1, <1>4, <2>2 DEF HasReports
  <2>. QED
    BY <2>1, <2>2
<1>5. ASSUME NEW r \in DOMAIN m.wrote, r[1] = "observation"
      PROVE  r \in DOMAIN m.read /\ m.read[r] = Absent /\ "score" \in DOMAIN m.wrote[r]
  <2>1. r \in DOMAIN k.read /\ k.read[r] = Absent /\ "score" \in DOMAIN k.wrote[r]
    BY <1>1, <1>5 DEF HasReports
  <2>2. r \in Known(k)
    BY <1>1, <1>5, <2>1 DEF Known, Exists
  <2>. QED
    BY <1>1, <2>1, <2>2
<1>. QED
  BY <1>1, <1>3, <1>4, <1>5 DEF HasReports, m

LEMMA ReportInserted ==
  ASSUME NEW k, IsSession(k), HasReports(table, k), NEW r, IsReport(r, k.req.match),
         NEW x, "score" \in DOMAIN x
  PROVE  LET m == Insert(k, r, x) IN
         IsSession(m) /\ HasReports(table, m) /\ SameOn({"verification"}, m, k)
<1> DEFINE m == Insert(k, r, x)
<1>1. DOMAIN x # {}
  OBVIOUS
<1>2. /\ IsSession(m) /\ m.req = k.req /\ m.old = k.old
      /\ DOMAIN m.read = {r} \cup DOMAIN k.read /\ m.read[r] = Absent
      /\ \A z \in DOMAIN k.read : z # r => m.read[z] = k.read[z]
      /\ DOMAIN m.wrote = {r} \cup DOMAIN k.wrote
      /\ \A z \in DOMAIN k.wrote : z # r => m.wrote[z] = k.wrote[z]
      /\ Part(x, m.wrote[r])
  BY <1>1, InsertFields
<1>. HIDE DEF m
<1>3. SameOn({"verification"}, m, k)
  BY <1>2 DEF SameOn, IsReport
<1>4. ASSUME NEW z \in DOMAIN m.read, z[1] = "observation"
      PROVE  IsReport(z, m.req.match) /\ (m.read[z] # Absent => table[z] = m.read[z])
  BY <1>2, <1>4 DEF HasReports
<1>5. ASSUME NEW z \in DOMAIN m.wrote, z[1] = "observation"
      PROVE  z \in DOMAIN m.read /\ m.read[z] = Absent /\ "score" \in DOMAIN m.wrote[z]
  <2>1. CASE z = r
    BY <1>2, <2>1 DEF Part
  <2>2. CASE z # r
    BY <1>2, <1>5, <2>2 DEF HasReports
  <2>. QED
    BY <2>1, <2>2
<1>. QED
  BY <1>2, <1>3, <1>4, <1>5 DEF HasReports, m

Early == {"start", "versions", "match", "observations"}

(* Before it has read the verdict it knows of none.                        *)
Unaware(k) ==
    /\ \A r \in DOMAIN k.read : r[1] # "verification"
    /\ \A r \in DOMAIN k.wrote : r[1] # "verification"

LEMMA EarlyIs ==
  ASSUME NEW s, NEW k, NEW pc \in Early
  PROVE  Informed(table, Runners, s, k, pc) <=> HasReports(table, k) /\ Unaware(k)
BY DEF Informed, Early, Unaware

LEMMA UnawareSame ==
  ASSUME NEW m, NEW k, SameOn({"verification"}, m, k), Unaware(k)
  PROVE  Unaware(m)
BY DEF SameOn, Unaware

(* Nothing but reports is loaded or inserted at first.                     *)
LEMMA ComparesEarly ==
  ASSUME NEW s, NEW k, IsSession(k), k.req = session[s].req, HasReports(table, k), Unaware(k),
         NEW pc \in Early, Query(s, k, pc)
  PROVE  Compares(s)
<1>1. pc \notin Closings
  BY DEF Early, Closings
<1>2. Informed(table, Runners, s, k, pc)
  BY EarlyIs
<1>. QED
  BY <1>1, <1>2 DEF Compares

LEMMA IngestIs ==
  ASSUME NEW s, Sure(s), session[s].req.op = "ingest"
  PROVE  LET k == session[s] IN
         /\ IsSession(k) /\ Good(s, k) /\ Row(s) = k.req.row
         /\ IsReport(k.req.row, k.req.match) /\ VerdictOf(k) \in Rows
<1> DEFINE k == session[s]
<1>1. k.req.op \in DOMAIN TableOf /\ TableOf[k.req.op] = "observation"
  BY DEF TableOf
<1>2. Row(s) = k.req.row /\ k.req.row \in Rows /\ k.req.row[1] = "observation"
  BY <1>1, RowIs DEF Row, Args
<1>3. IsSession(k) /\ Good(s, k)
  BY DEF Sure, Good, Firm
<1>4. VerdictOf(k) \in Rows /\ k.req.row[2][1] = k.req.match
  BY DEF Sure, WellFormed, VerdictOf
<1>. QED
  BY <1>2, <1>3, <1>4 DEF IsReport

LEMMA RecordObservationCompares ==
  ASSUME NEW s \in Sessions, Sure(s), VerdictsStand,
         Informed(table, Runners, s, session[s], session[s].pc), RecordObservation(s)
  PROVE  Compares(s)
<1> DEFINE k == session[s]
           a == k.req
           m == MatchOf(s)
           v == VerdictOf(k)
           x(version) == [score |-> a.result, version |-> version]
           S == {r \in OfMatch("observation", a.match) : r[2][2] = a.provider}
           T == OfMatch("observation", a.match)
<1>1. k.req.op = "ingest" /\ k.pc \in Early
  BY DEF RecordObservation, At, Early
<1>2. /\ IsSession(k) /\ Good(s, k) /\ Row(s) = k.req.row
      /\ IsReport(k.req.row, a.match) /\ v \in Rows
  BY <1>1, IngestIs
<1>3. HasReports(table, k) /\ Unaware(k)
  BY <1>1, EarlyIs
<1>4. \A r \in T : IsReport(r, a.match)
  BY DEF OfMatch, Found, IsReport
<1>5. ASSUME NEW U, U \subseteq T, NEW pc \in Early, Query(s, LoadAll(k, U), pc)
      PROVE  Compares(s)
  <2> DEFINE l == LoadAll(k, U)
  <2>1. IsSession(l) /\ HasReports(table, l) /\ SameOn({"verification"}, l, k)
    BY <1>2, <1>3, <1>4, <1>5, ReportsLoaded
  <2>2. Query(s, l, pc)
    BY <1>5
  <2>. HIDE DEF l
  <2>3. l.req = k.req /\ Unaware(l)
    BY <1>3, <2>1, UnawareSame DEF SameOn
  <2>. QED
    BY <2>1, <2>2, <2>3, ComparesEarly
<1>6. ASSUME NEW l, IsSession(l), HasReports(table, l), Unaware(l), l.req = k.req,
             Query(s, Load(l, m), "match")
      PROVE  Compares(s)
  <2> DEFINE n == LoadAll(l, {m})
  <2>1. m[1] = "match"
    BY DEF MatchOf
  <2>2. \A r \in {m} : r[1] \notin {"observation", "verification"}
    BY <2>1
  <2>. HIDE DEF m
  <2>3. IsSession(n) /\ SameOn({"observation", "verification"}, n, l)
    BY <1>6, <2>2, SameByLoadAll
  <2>4. Query(s, n, "match") /\ "match" \in Early
    BY <1>6 DEF Load, Early
  <2>. HIDE DEF n
  <2>5. SameOn({"observation"}, n, l) /\ SameOn({"verification"}, n, l) /\ n.req = k.req
    BY <1>6, <2>3 DEF SameOn
  <2>6. HasReports(table, n) /\ Unaware(n)
    BY <1>6, <2>5, ReportsSame, UnawareSame
  <2>. QED
    BY <2>3, <2>4, <2>5, <2>6, ComparesEarly
<1>7. ASSUME NEW version, Query(s, Load(Insert(k, Row(s), x(version)), m), "match")
      PROVE  Compares(s)
  <2> DEFINE y == x(version)
             l == Insert(k, k.req.row, y)
  <2>1. "score" \in DOMAIN y /\ Query(s, Load(l, m), "match")
    BY <1>2, <1>7
  <2>. HIDE DEF y, m
  <2>2. IsSession(l) /\ HasReports(table, l) /\ SameOn({"verification"}, l, k)
    BY <1>2, <1>3, <2>1, ReportInserted
  <2>. HIDE DEF l
  <2>3. l.req = k.req /\ Unaware(l)
    BY <1>3, <2>2, UnawareSame DEF SameOn
  <2>. QED
    BY <1>6, <2>1, <2>2, <2>3
<1>8. ASSUME Query(s, Load(k, v), "compare") PROVE Compares(s)
  <2> DEFINE l == LoadAll(k, {v})
  <2>1. /\ IsSession(l) /\ l.req = k.req /\ l.wrote = k.wrote /\ l.old = k.old
        /\ DOMAIN l.read = ({v} \ Known(k)) \cup DOMAIN k.read
        /\ \A r \in {v} \ Known(k) : l.read[r] = table[r]
    BY <1>2, LoadedFields
  <2>2. v[1] = "verification"
    BY DEF VerdictOf
  <2>3. v \notin Known(k)
    BY <1>3, <2>2 DEF Known, Unaware
  <2>4. SameOn({"observation"}, l, k)
    <3>1. \A r \in {v} : r[1] \notin {"observation"}
      BY <2>2
    <3>. HIDE DEF v
    <3>. QED
      BY <1>2, <3>1, SameByLoadAll
  <2>5. Query(s, l, "compare")
    BY <1>8 DEF Load
  <2>. HIDE DEF l
  <2>6. HasReports(table, l)
    BY <1>3, <2>4, ReportsSame
  <2>7. v \in DOMAIN l.read /\ l.read[v] = table[v] /\ VerdictOf(l) = v
    BY <2>1, <2>3 DEF VerdictOf
  <2>8. table[v] # Absent =>
          /\ Verdicts \subseteq DOMAIN table[v]
          /\ table[v].at \notin Runners
    BY <1>2, <2>2 DEF VerdictsStand, IsVerdict
  <2>. HIDE DEF v
  <2>9. Tells(table, Runners, l)
    BY <2>7, <2>8 DEF Tells, Dated
  <2>10. \A r \in DOMAIN l.wrote : r[1] # "verification"
    BY <1>3, <2>1 DEF Unaware
  <2>11. Informed(table, Runners, s, l, "compare") /\ "compare" \notin Closings
    BY <2>6, <2>9, <2>10 DEF Informed, Closings
  <2>. QED
    BY <2>1, <2>5, <2>11 DEF Compares
<1>9. v = Verification(s)
  BY DEF VerdictOf, Verification, Args
<1>10. /\ S \subseteq T /\ T \subseteq T
       /\ {"versions", "observations"} \subseteq Early
  BY DEF Early
<1>11. \/ Query(s, LoadAll(k, S), "versions")
       \/ Query(s, Load(k, m), "match")
       \/ \E version : Query(s, Load(Insert(k, Row(s), x(version)), m), "match")
       \/ Query(s, LoadAll(k, T), "observations")
       \/ Query(s, Load(k, v), "compare")
  BY <1>9 DEF RecordObservation, Args
<1>. HIDE DEF S, T, m, v, x
<1>. QED
  BY <1>2, <1>3, <1>5, <1>6, <1>7, <1>8, <1>10, <1>11

LEMMA DecidedIs ==
  ASSUME NEW s, NEW k
  PROVE  Informed(table, Runners, s, k, "evaluate") <=> Decided(s, k)
BY DEF Informed, Decided

LEMMA DecidedByResult ==
  ASSUME NEW s, NEW k, IsSession(k), Decided(s, k), NEW outcome
  PROVE  LET m == WithResult(k, s, outcome) IN IsSession(m) /\ Decided(s, m)
<1> DEFINE x == [status |-> "completed", outcome |-> outcome]
           r == MatchOf(s)
           K == {"observation", "verification"}
<1>1. r[1] \notin K
  BY DEF MatchOf
<1>2. WithResult(k, s, outcome) = Set(k, r, x)
  BY DEF WithResult
<1>. HIDE DEF x, r
<1>3. IsSession(Set(k, r, x)) /\ SameOn(K, Set(k, r, x), k)
  BY <1>1, SameBySet
<1>. QED
  BY <1>2, <1>3, DecidedSame

LEMMA DecidedByGraded ==
  ASSUME NEW s, NEW k, IsSession(k), Decided(s, k), NEW S, \A r \in S : r[1] = "prediction",
         NEW c, NEW outcome
  PROVE  Decided(s, Graded(k, S, c, outcome))
<1> DEFINE x(r) == [grade |-> IF Copy(k, r)[c] = outcome THEN "correct" ELSE "wrong"]
           f == [r \in S |-> x(r)]
           K == {"observation", "verification"}
<1>1. Graded(k, S, c, outcome) = SetEach(k, f)
  BY DEF Graded
<1>. HIDE DEF x
<1>2. \A r \in DOMAIN f : r[1] \notin K
  OBVIOUS
<1>. HIDE DEF f
<1>3. SameOn(K, SetEach(k, f), k)
  BY <1>2, SameByEach
<1>. QED
  BY <1>1, <1>3, DecidedSame

LEMMA VerifyResultCompares ==
  ASSUME NEW s \in Sessions, Sure(s), Informed(table, Runners, s, session[s], session[s].pc), VerifyResult(s)
  PROVE  Compares(s)
<1> DEFINE k == session[s]
           v == Verification(s)
           P == KnownOf(k, "prediction")
           T == OfMatch("prediction", Args(s).match)
           m(latest) == Compared(s, latest)
           score(latest) == Copy(m(latest), v).score
<1>1. k.req.op = "ingest" /\ k.pc \in {"compare", "evaluate"}
  BY DEF VerifyResult, At
<1>2. IsSession(k) /\ Good(s, k) /\ s \in Runners
  BY <1>1, IngestIs DEF Runners, Closings
<1>3. ASSUME NEW l, Good(s, l), l.req = k.req, Decided(s, l), Commit(s, l)
      PROVE  Compares(s)
  BY <1>3 DEF Compares
<1>4. ASSUME NEW l, IsSession(l), l.req = k.req, Decided(s, l), Query(s, LoadAll(l, T), "evaluate")
      PROVE  Compares(s)
  <2> DEFINE n == LoadAll(l, T)
             K == {"observation", "verification"}
  <2>1. \A r \in T : r[1] \notin K
    BY DEF OfMatch, Found
  <2>. HIDE DEF T
  <2>2. IsSession(n) /\ SameOn(K, n, l)
    BY <1>4, <2>1, SameByLoadAll
  <2>3. Query(s, n, "evaluate")
    BY <1>4
  <2>. HIDE DEF n, k
  <2>4. Informed(table, Runners, s, n, "evaluate") /\ n.req = k.req
    BY <1>4, <2>2, DecidedSame, DecidedIs DEF SameOn
  <2>. QED
    BY <2>2, <2>3, <2>4 DEF Compares, Closings, k
<1>5. ASSUME k.pc = "compare", NEW latest \in Latest(k)
      PROVE  Good(s, m(latest)) /\ IsSession(m(latest)) /\ m(latest).req = k.req /\ Decided(s, m(latest))
  <2>1. Comparing(k)
    BY <1>2, <1>5 DEF Informed, Comparing
  <2>. QED
    BY <1>1, <1>2, <1>5, <2>1, GoodByCompared, ComparedIs
<1>6. ASSUME k.pc = "compare", NEW latest \in Latest(k), NEW o
      PROVE  LET l == WithResult(m(latest), s, o) IN
             Good(s, l) /\ IsSession(l) /\ l.req = k.req /\ Decided(s, l)
  <2> DEFINE n == m(latest)
  <2>1. Good(s, n) /\ IsSession(n) /\ n.req = k.req /\ Decided(s, n)
    BY <1>5, <1>6
  <2>. HIDE DEF n, m, k
  <2>2. /\ Good(s, WithResult(n, s, o)) /\ WithResult(n, s, o).req = n.req
        /\ IsSession(WithResult(n, s, o)) /\ Decided(s, WithResult(n, s, o))
    BY <2>1, GoodByResult, DecidedByResult
  <2>. QED
    BY <2>1, <2>2 DEF n
<1>7. CASE k.pc = "compare"
  <2>1. PICK latest \in Latest(k) :
          \/ Commit(s, m(latest))
          \/ Commit(s, WithResult(m(latest), s, score(latest)))
          \/ Query(s, LoadAll(WithResult(m(latest), s, score(latest)), T), "evaluate")
    BY <1>7 DEF VerifyResult, At
  <2> DEFINE n == m(latest)
             l == WithResult(m(latest), s, score(latest))
  <2>2. Good(s, n) /\ n.req = k.req /\ Decided(s, n)
    BY <1>5, <1>7
  <2>3. Good(s, l) /\ IsSession(l) /\ l.req = k.req /\ Decided(s, l)
    BY <1>6, <1>7
  <2>4. Commit(s, n) \/ Commit(s, l) \/ Query(s, LoadAll(l, T), "evaluate")
    BY <2>1
  <2>. HIDE DEF n, l, m, k, T
  <2>. QED
    BY <1>3, <1>4, <2>2, <2>3, <2>4
<1>8. CASE k.pc = "evaluate"
  <2> DEFINE o == Copy(k, v).score
             g == Graded(k, P, "likely", o)
  <2>1. Commit(s, g)
    BY <1>8 DEF VerifyResult, At
  <2>2. \A r \in P : r[1] = "prediction"
    BY DEF KnownOf
  <2>3. Decided(s, k)
    BY <1>8, DecidedIs
  <2>. HIDE DEF P, o
  <2>4. Good(s, g) /\ g.req = k.req
    BY <1>2, <2>2, GoodByGraded
  <2>5. Decided(s, g)
    BY <1>2, <2>2, <2>3, DecidedByGraded
  <2>. HIDE DEF g, k
  <2>. QED
    BY <1>3, <2>1, <2>4, <2>5
<1>. QED
  BY <1>1, <1>7, <1>8

(* A comparison takes no other steps.                                      *)
LEMMA OnlyIngests ==
  ASSUME NEW s, session[s].req.op = "ingest", Step(s)
  PROVE  RecordObservation(s) \/ VerifyResult(s) \/ Refuse(s)
BY DEF Step, WalletStep, ExchangeStep, BridgeStep, TreasuryStep, PredictionStep,
       RewardStep, EarningStep, ResultStep, MeritStep, RegistryStep, Deadlock,
       Args, At, ExchangeRequests, BridgeRequests, TreasuryRequests,
       PredictionRequests, RewardRequests, EarningRequests,
       TransferLoad, Debit, Credit, LoadOwn, Stake, Unstake, BuyOrSell, Subscribe,
       CreateVault, WithdrawVaultLoad, WithdrawVault, WithdrawRequest, Approve,
       Reject, Refund, Gatekeep, InitiateDeposit, VerifyLoad, Settle, WebhookLoad,
       WebhookCredit, FailPending, RewardLoad, Reward, OpenWallet, WelcomeBonus, Refer,
       Lookup, Produce, Relay, Call, Upgrade, RecordTask, UpdateResult, SettleLoad, SettleNext,
       Evaluate

LEMMA IngestCompares ==
  ASSUME NEW s \in Sessions, Sure(s), VerdictInv, session[s].req.op = "ingest", Step(s)
  PROVE  Compares(s)
<1>1. VerdictsStand /\ Informed(table, Runners, s, session[s], session[s].pc)
  BY DEF VerdictInv, ComparisonsInv
<1>2. RecordObservation(s) \/ VerifyResult(s) \/ Refuse(s)
  BY OnlyIngests
<1>. QED
  BY <1>1, <1>2, RecordObservationCompares, VerifyResultCompares DEF Compares

----------------------------------------------------------------------------
(* The verdicts stand                                                      *)

(* A comparison that is done or has failed knows nothing.                  *)
LEMMA InformedEnded ==
  ASSUME NEW t, NEW R, NEW s, NEW m, m.wrote = <<>>, m.read = <<>>,
         m.pc \in Closings \cup {"start"}
  PROVE  Informed(t, R, s, m, m.pc)
<1>1. DOMAIN m.wrote = {} /\ DOMAIN m.read = {}
  OBVIOUS
<1>. QED
  BY <1>1 DEF Informed, HasReports, Closings

(* The reports there are stay as they are.                                 *)
ReportsStay(t, u) == \A r \in Rows : r[1] = "observation" /\ t[r] # Absent => u[r] = t[r]

LEMMA ReportsKept ==
  ASSUME NEW k, NEW m, m.req = k.req, m.read = k.read, m.wrote = k.wrote,
         NEW t, NEW u, ReportsStay(t, u), HasReports(t, k)
  PROVE  HasReports(u, m)
<1>1. ASSUME NEW r \in DOMAIN m.read, r[1] = "observation"
      PROVE  IsReport(r, m.req.match) /\ (m.read[r] # Absent => u[r] = m.read[r])
  BY <1>1 DEF HasReports, IsReport, ReportsStay
<1>. QED
  BY <1>1 DEF HasReports

LEMMA TwoReportKept ==
  ASSUME NEW t, NEW u, ReportsStay(t, u), NEW v, NEW x, TwoReport(t, v, x)
  PROVE  TwoReport(u, v, x)
<1>1. PICK a \in Rows, b \in Rows :
        /\ \A r \in {a, b} : r[1] = "observation" /\ r[2][1] = v[2] /\ t[r] # Absent /\ t[r].score = x
        /\ a[2][2] # b[2][2]
  BY DEF TwoReport
<1>2. \A r \in {a, b} : u[r] = t[r]
  BY <1>1 DEF ReportsStay
<1>. QED
  BY <1>1, <1>2 DEF TwoReport

LEMMA InformedKept ==
  ASSUME NEW k, NEW m, m.req = k.req, m.read = k.read, m.wrote = k.wrote,
         NEW t, NEW u, ReportsStay(t, u), NEW R, NEW Q,
         NEW s, NEW pc, Informed(t, R, s, k, pc),
         Tells(t, R, k) => Tells(u, Q, m)
  PROVE  Informed(u, Q, s, m, pc)
<1>1. HasReports(u, m)
  BY ReportsKept DEF Informed
<1>2. \A r : Copy(m, r) = Copy(k, r)
  BY DEF Copy
<1>3. Known(m) = Known(k) /\ VerdictOf(m) = VerdictOf(k)
  BY <1>2 DEF Known, Exists, VerdictOf
<1>4. \A x : TwoCopies(k, x) => TwoCopies(m, x)
  BY <1>2, <1>3 DEF TwoCopies
<1>5. Weighed(s, k) => Weighed(s, m)
  BY <1>2, <1>3, <1>4 DEF Weighed
<1>. QED
  BY <1>1, <1>3, <1>5 DEF Informed

(* What was told stays true while the verdict is not changed.              *)
LEMMA TellsKept ==
  ASSUME NEW k, NEW m, m.req = k.req, m.read = k.read, k.old \subseteq m.old,
         NEW t, NEW u, u[VerdictOf(k)] = t[VerdictOf(k)], NEW R, NEW Q, Q \subseteq R,
         Tells(t, R, k)
  PROVE  Tells(u, Q, m)
BY DEF Tells, VerdictOf

LEMMA VerdictByTurn ==
  ASSUME SessionsInv, VerdictInv, NEW s \in Sessions, NEW m, Keep(s, m), UNCHANGED store,
         m.req.op = "ingest" =>
           /\ Informed(table, Runners, s, m, m.pc)
           /\ m.pc \notin Closings => s \in Runners
  PROVE  VerdictInv'
<1>1. table' = table /\ lost' = lost
  BY DEF store
<1>2. \A u \in Sessions : session'[u] = IF u = s THEN m ELSE session[u]
  BY DEF Keep, SessionsInv
<1>3. Runners' \subseteq Runners
  BY <1>2 DEF Runners
<1>4. ReportsStay(table, table)
  BY DEF ReportsStay
<1>5. ASSUME NEW u \in Sessions, session'[u].req.op = "ingest"
      PROVE  Informed(table', Runners', u, session'[u], session'[u].pc)
  <2> DEFINE l == session'[u]
             Q == Runners'
             R == Runners
             t == table
  <2>1. Informed(t, R, u, l, l.pc)
    BY <1>2, <1>5 DEF VerdictInv, ComparisonsInv
  <2>2. table' = t /\ Q \subseteq R
    BY <1>1, <1>3
  <2>3. ReportsStay(t, t)
    BY <1>4
  <2>. HIDE DEF l, Q, R, t
  <2>4. Tells(t, R, l) => Tells(t, Q, l)
    BY <2>2, TellsKept
  <2>5. Informed(t, Q, u, l, l.pc)
    BY <2>1, <2>3, <2>4, InformedKept
  <2>. QED
    BY <2>2, <2>5 DEF l, Q
<1>6. ComparisonsInv'
  BY <1>5 DEF ComparisonsInv
<1>7. VerdictsStand'
  <2>1. VerdictsStand
    BY DEF VerdictInv
  <2>2. ASSUME NEW v, IsVerdict(table', v)
        PROVE  /\ Verdicts \subseteq DOMAIN table'[v]
               /\ table'[v].at \notin Runners'
               /\ lost' = {} /\ table'[v].status = "verified" => TwoReport(table', v, table'[v].score)
    BY <1>1, <1>3, <2>1, <2>2 DEF VerdictsStand
  <2>. QED
    BY <2>2 DEF VerdictsStand
<1>. QED
  BY <1>6, <1>7 DEF VerdictInv

LEMMA VerdictByClosing ==
  ASSUME SessionsInv, VerdictInv, NEW s \in Sessions, NEW how \in Closings,
         Keep(s, Closed(session[s], how)), UNCHANGED store
  PROVE  VerdictInv'
<1> DEFINE m == Closed(session[s], how)
<1>1. m.wrote = <<>> /\ m.read = <<>> /\ m.pc = how
  BY ClosedIs
<1>2. Keep(s, m)
  OBVIOUS
<1>. HIDE DEF m
<1>3. Informed(table, Runners, s, m, m.pc)
  BY <1>1, InformedEnded
<1>. QED
  BY <1>1, <1>2, <1>3, VerdictByTurn

LEMMA ReportsStayAfter ==
  ASSUME NEW s, NEW k, Good(s, k), NEW pc, Committed(s, k, pc)
  PROVE  ReportsStay(table, table')
<1>1. ASSUME NEW r \in Rows, r[1] = "observation", table[r] # Absent
      PROVE  r \notin k.gone /\ r \notin DOMAIN k.wrote
  <2>1. r \in DOMAIN k.wrote => k.read[r] = Absent
    BY <1>1 DEF Good, Firm, Solid, Framed, MustBeNew
  <2>2. r \in DOMAIN k.wrote => (k.read[r] = Absent <=> table[r] = Absent)
    BY DEF Committed, Fails
  <2>. QED
    BY <1>1, <2>1, <2>2 DEF Good, Firm
<1>2. ASSUME NEW r \in Rows, r[1] = "observation", table[r] # Absent
      PROVE  table'[r] = table[r]
  BY <1>1, <1>2 DEF Committed
<1>. QED
  BY <1>2 DEF ReportsStay

LEMMA ComparisonDone ==
  ASSUME NEW s \in Sessions, NEW k, NEW pc, Committed(s, k, pc), session'[s].req.op = "ingest",
         k.req.op = "ingest" => pc = "done"
  PROVE  LET m == session'[s] IN m.wrote = <<>> /\ m.read = <<>> /\ m.pc = "done"
<1>1. CASE pc = "done"
  BY <1>1, ClosedIs DEF Committed
<1>2. CASE pc # "done"
  <2> DEFINE n == [Continued(k) EXCEPT !.pc = pc]
  <2>1. session'[s] = n
    BY <1>2 DEF Committed
  <2>2. n.req = k.req
    BY ContinuedIs
  <2>. HIDE DEF n
  <2>. QED
    BY <1>2, <2>1, <2>2
<1>. QED
  BY <1>1, <1>2

(* Nobody begins a comparison by a commit, and the one that commits ends.  *)
LEMMA RunnersLater ==
  ASSUME SessionsInv, NEW s \in Sessions, NEW k, NEW pc, Committed(s, k, pc),
         k.req.op = "ingest" => pc = "done"
  PROVE  Runners' \subseteq Runners \ {s}
<1>1. ASSUME NEW u \in Sessions, session'[u].req.op = "ingest", session'[u].pc \notin Closings
      PROVE  u \in Runners \ {s}
  <2>1. u # s
    BY <1>1, ComparisonDone DEF Closings
  <2>2. IsSession(session[u])
    BY DEF SessionsInv, Prepared, Recorded
  <2>3. session'[u].req = session[u].req /\ session'[u].pc = session[u].pc
    BY <2>1, <2>2, OtherCommit
  <2>. QED
    BY <1>1, <2>1, <2>3 DEF Runners
<1>. QED
  BY <1>1 DEF Runners

LEMMA ComparisonsLater ==
  ASSUME SessionsInv, ComparisonsInv, NEW s \in Sessions, NEW k, NEW pc, Committed(s, k, pc),
         Good(s, k), k.req.op = "ingest" => pc = "done",
         \A u \in Sessions \ {s} :
           session[u].req.op = "ingest" /\ Tells(table, Runners, session[u])
             => Tells(table', Runners', session'[u])
  PROVE  ComparisonsInv'
<1>1. ReportsStay(table, table')
  BY ReportsStayAfter
<1>2. ASSUME NEW u \in Sessions, session'[u].req.op = "ingest"
      PROVE  Informed(table', Runners', u, session'[u], session'[u].pc)
  <2> DEFINE m == session'[u]
             l == session[u]
             Q == Runners'
             R == Runners
             t == table
             tt == table'
  <2>1. CASE u = s
    <3>1. m.wrote = <<>> /\ m.read = <<>> /\ m.pc = "done"
      BY <1>2, <2>1, ComparisonDone
    <3>. HIDE DEF m, Q
    <3>2. Informed(table', Q, u, m, m.pc)
      BY <3>1, InformedEnded DEF Closings
    <3>. QED
      BY <3>2 DEF m, Q
  <2>2. CASE u # s
    <3>1. IsSession(l)
      BY DEF SessionsInv, Prepared, Recorded
    <3>2. m.req = l.req /\ m.pc = l.pc /\ m.wrote = l.wrote /\ m.read = l.read
      BY <2>2, <3>1, OtherCommit
    <3>3. Informed(t, R, u, l, l.pc)
      BY <1>2, <3>2 DEF ComparisonsInv
    <3>4. Tells(t, R, l) => Tells(tt, Q, m)
      BY <1>2, <2>2, <3>2
    <3>5. ReportsStay(t, tt)
      BY <1>1
    <3>. HIDE DEF m, l, Q, R, t, tt
    <3>6. Informed(tt, Q, u, m, l.pc)
      BY <3>2, <3>3, <3>4, <3>5, InformedKept
    <3>. QED
      BY <3>2, <3>6 DEF m, Q, tt
  <2>. QED
    BY <2>1, <2>2
<1>. QED
  BY <1>2 DEF ComparisonsInv

LEMMA VerdictRow ==
  ASSUME SessionsInv, SolvencyInv, NEW u \in Sessions, session[u].req.op = "ingest"
  PROVE  VerdictOf(session[u]) \in Rows
BY SureIs, IngestIs DEF SolvencyInv

LEMMA VerdictByOthers ==
  ASSUME SessionsInv, SolvencyInv, VerdictInv, NEW s \in Sessions, NEW k, NEW pc, Good(s, k),
         Committed(s, k, pc), k.req.op # "ingest"
  PROVE  VerdictInv'
<1>1. ASSUME NEW r \in Rows, r[1] = "verification" PROVE table'[r] = table[r]
  <2>1. r \notin k.gone /\ r \notin DOMAIN k.wrote
    BY <1>1 DEF Good, Firm, Solid, Framed, Entitled
  <2>. QED
    BY <2>1 DEF Committed
<1>2. Runners' \subseteq Runners
  BY RunnersLater
<1>3. ReportsStay(table, table')
  BY ReportsStayAfter
<1>4. ASSUME NEW u \in Sessions \ {s}, session[u].req.op = "ingest",
             Tells(table, Runners, session[u])
      PROVE  Tells(table', Runners', session'[u])
  <2> DEFINE m == session'[u]
             l == session[u]
             Q == Runners'
             R == Runners
             t == table
             tt == table'
             v == VerdictOf(l)
  <2>1. IsSession(l)
    BY DEF SessionsInv, Prepared, Recorded
  <2>2. m.req = l.req /\ m.read = l.read /\ l.old \subseteq m.old
    BY <2>1, OtherCommit
  <2>3. v \in Rows /\ v[1] = "verification"
    BY <1>4, VerdictRow DEF VerdictOf
  <2>4. tt[v] = t[v]
    BY <1>1, <2>3
  <2>5. Tells(t, R, l) /\ Q \subseteq R
    BY <1>2, <1>4
  <2>. HIDE DEF m, l, Q, R, t, tt
  <2>6. Tells(tt, Q, m)
    BY <2>2, <2>4, <2>5, TellsKept
  <2>. QED
    BY <2>6 DEF m, Q, tt
<1>5. ComparisonsInv'
  BY <1>4, ComparisonsLater DEF VerdictInv
<1>6. VerdictsStand'
  <2>1. VerdictsStand
    BY DEF VerdictInv
  <2>2. lost' = {} => lost = {}
    BY DEF Committed
  <2>3. ASSUME NEW v, IsVerdict(table', v)
        PROVE  /\ Verdicts \subseteq DOMAIN table'[v]
               /\ table'[v].at \notin Runners'
               /\ lost' = {} /\ table'[v].status = "verified" => TwoReport(table', v, table'[v].score)
    <3>1. table'[v] = table[v] /\ IsVerdict(table, v)
      BY <1>1, <2>3 DEF IsVerdict
    <3>2. /\ Verdicts \subseteq DOMAIN table[v]
          /\ table[v].at \notin Runners
          /\ lost = {} /\ table[v].status = "verified" => TwoReport(table, v, table[v].score)
      BY <2>1, <3>1 DEF VerdictsStand
    <3> DEFINE x == table[v].score
               tt == table'
    <3>3. TwoReport(table, v, x) => TwoReport(tt, v, x)
      <4>1. ReportsStay(table, tt)
        BY <1>3
      <4>. HIDE DEF x, tt
      <4>. QED
        BY <4>1, TwoReportKept
    <3>. QED
      BY <1>2, <2>2, <3>1, <3>2, <3>3
  <2>. QED
    BY <2>3 DEF VerdictsStand
<1>. QED
  BY <1>5, <1>6 DEF VerdictInv

(* The reports a verdict was made of are in the table after the commit.    *)
LEMMA CopiesAreReported ==
  ASSUME NEW s, NEW k, Good(s, k), NEW pc, Committed(s, k, pc), HasReports(table, k),
         NEW x, TwoCopies(k, x)
  PROVE  TwoReport(table', VerdictOf(k), x)
<1> DEFINE v == VerdictOf(k)
<1>1. v[2] = k.req.match
  BY DEF VerdictOf
<1>. HIDE DEF v
<1>2. PICK a \in Known(k), b \in Known(k) :
        /\ \A r \in {a, b} : r[1] = "observation" /\ Copy(k, r).score = x
        /\ a[2][2] # b[2][2]
  BY DEF TwoCopies
<1>3. ASSUME NEW r \in Known(k), r[1] = "observation", Copy(k, r).score = x
      PROVE  r \in Rows /\ r[2][1] = v[2] /\ table'[r] # Absent /\ table'[r].score = x
  <2>1. r \in DOMAIN k.read /\ IsReport(r, k.req.match) /\ r \notin k.gone
    BY <1>3 DEF Known, HasReports, Good, Firm
  <2>2. CASE r \in DOMAIN k.wrote
    <3> DEFINE w == k.wrote[r]
    <3>1. k.read[r] = Absent /\ "score" \in DOMAIN w
      BY <1>3, <2>2 DEF HasReports
    <3>2. table[r] = Absent
      BY <2>2, <3>1 DEF Committed, Fails
    <3>3. table'[r] = Over(w, Absent) /\ Copy(k, r) = Over(w, Absent)
      BY <2>1, <2>2, <3>1, <3>2 DEF Committed, Copy, IsReport
    <3>4. "score" \in DOMAIN Over(w, Absent)
      <4>. HIDE DEF w
      <4>1. DOMAIN Over(w, Absent) = DOMAIN w \cup DOMAIN Absent
        BY OverIs
      <4>. QED
        BY <3>1, <4>1
    <3>5. Over(w, Absent) # Absent
      <4> DEFINE e == Over(w, Absent)
      <4>1. "score" \in DOMAIN e /\ DOMAIN Absent = {}
        BY <3>4 DEF Absent
      <4>. HIDE DEF e, w
      <4>2. e # Absent
        BY <4>1
      <4>. QED
        BY <4>2 DEF e
    <3>. QED
      BY <1>1, <1>3, <2>1, <3>3, <3>5 DEF IsReport
  <2>3. CASE r \notin DOMAIN k.wrote
    <3>1. k.read[r] # Absent /\ Copy(k, r) = k.read[r]
      BY <1>3, <2>3 DEF Known, Exists, Copy
    <3>2. table[r] = k.read[r]
      BY <1>3, <2>1, <3>1 DEF HasReports
    <3>3. table'[r] = table[r]
      BY <2>1, <2>3 DEF Committed, IsReport
    <3>. QED
      BY <1>1, <1>3, <2>1, <3>1, <3>2, <3>3 DEF IsReport
  <2>. QED
    BY <2>2, <2>3
<1>4. \A r \in {a, b} : r[1] = "observation" /\ r \in Rows /\ r[2][1] = v[2]
                        /\ table'[r] # Absent /\ table'[r].score = x
  BY <1>2, <1>3
<1>. QED
  BY <1>2, <1>4 DEF TwoReport, v

(* What becomes of the verdict x when a comparison that has read b writes. *)
LEMMA WeighedLands ==
  ASSUME NEW s, NEW k, Weighed(s, k), VerdictOf(k) \in DOMAIN k.wrote,
         k.read[VerdictOf(k)] # Absent,
         NEW x, Verdicts \subseteq DOMAIN x, Dated(k.read[VerdictOf(k)], x)
  PROVE  LET v == VerdictOf(k) b == k.read[v] w == k.wrote[v] y == Over(w, x) IN
         /\ Verdicts \subseteq DOMAIN y
         /\ "at" \notin DOMAIN w =>
              y.at = x.at /\ y.score = x.score /\ (y.status = "verified" => x.status = "verified")
         /\ "at" \in DOMAIN w =>
              /\ y.at = s
              /\ x.at = b.at /\ y.status = "verified" =>
                   Copy(k, v).status = "verified" /\ Copy(k, v).score = y.score
<1> DEFINE v == VerdictOf(k)
           b == k.read[v]
           w == k.wrote[v]
           y == Over(w, x)
           z == Over(w, b)
<1>1. Copy(k, v) = z
  BY DEF Copy
<1>2. /\ "at" \in DOMAIN w => w.at = s
      /\ "at" \notin DOMAIN w => "score" \notin DOMAIN w /\ ("status" \in DOMAIN w => w.status # "verified")
  BY DEF Weighed
<1>3. /\ {"status", "score", "at"} \subseteq DOMAIN b
      /\ x.at = b.at => x.score = b.score /\ (x.status = "verified" => b.status = "verified")
      /\ {"status", "score", "at"} \subseteq DOMAIN x
  BY DEF Dated, Verdicts
<1>. HIDE DEF w, b
<1>4. /\ DOMAIN y = DOMAIN w \cup DOMAIN x
      /\ \A c \in DOMAIN w : y[c] = w[c]
      /\ \A c \in DOMAIN x : c \notin DOMAIN w => y[c] = x[c]
  BY OverIs
<1>. HIDE DEF y
<1>5. /\ \A c \in DOMAIN w : z[c] = w[c]
      /\ \A c \in DOMAIN b : c \notin DOMAIN w => z[c] = b[c]
  BY DEF Over
<1>. HIDE DEF z
<1>6. Verdicts \subseteq DOMAIN y
  BY <1>4
<1>7. ASSUME "at" \notin DOMAIN w
      PROVE  y.at = x.at /\ y.score = x.score /\ (y.status = "verified" => x.status = "verified")
  BY <1>2, <1>3, <1>4, <1>7
<1>8. ASSUME "at" \in DOMAIN w PROVE y.at = s
  BY <1>2, <1>4, <1>8
<1>9. ASSUME x.at = b.at, y.status = "verified"
      PROVE  z.status = "verified" /\ z.score = y.score
  <2>1. z.score = y.score
    BY <1>3, <1>4, <1>5, <1>9
  <2>2. z.status = "verified"
    BY <1>3, <1>4, <1>5, <1>9
  <2>. QED
    BY <2>1, <2>2
<1>10. "at" \in DOMAIN w =>
         /\ y.at = s
         /\ x.at = b.at /\ y.status = "verified" =>
              Copy(k, v).status = "verified" /\ Copy(k, v).score = y.score
  BY <1>1, <1>8, <1>9
<1>. QED
  BY <1>6, <1>7, <1>10 DEF b, w, y

LEMMA VerdictByIngest ==
  ASSUME SessionsInv, SolvencyInv, VerdictInv, NEW s \in Runners, NEW k, Good(s, k),
         Committed(s, k, "done"), k.req.op = "ingest", Decided(s, k)
  PROVE  VerdictInv'
<1> DEFINE v == VerdictOf(k)
           b == k.read[v]
           w == k.wrote[v]
           x == table[v]
           y == Over(w, x)
<1>1. s \in Sessions /\ Runners' \subseteq Runners \ {s}
  BY RunnersLater DEF Runners
<1>2. ReportsStay(table, table')
  BY ReportsStayAfter
<1>3. /\ HasReports(table, k) /\ Tells(table, Runners, k) /\ Weighed(s, k)
      /\ \A r \in DOMAIN k.wrote : r[1] = "verification" => r = v
  BY DEF Decided
<1>4. VerdictsStand
  BY DEF VerdictInv
<1>5. v \in DOMAIN k.read /\ v[1] = "verification"
  BY <1>3 DEF Tells, VerdictOf
<1>6. \A r \in Rows : r[1] = "verification" => r \notin k.gone
  BY DEF Good, Firm
<1>7. ASSUME NEW r \in Rows, r[1] = "verification", r # v \/ v \notin DOMAIN k.wrote
      PROVE  table'[r] = table[r]
  BY <1>3, <1>6, <1>7 DEF Committed
<1>8. v \in Rows /\ v \in DOMAIN k.wrote => table'[v] = y
  BY <1>5, <1>6 DEF Committed
<1>9. v \in DOMAIN k.wrote => (b = Absent <=> x = Absent)
  BY DEF Committed, Fails
<1>10. ASSUME v \in Rows, v \in DOMAIN k.wrote, b # Absent
       PROVE  /\ Verdicts \subseteq DOMAIN x /\ Dated(b, x) /\ x.at \notin Runners
              /\ lost = {} /\ x.status = "verified" => TwoReport(table, v, x.score)
              /\ <<v, "at">> \notin k.old => x.at = b.at
              /\ Verdicts \subseteq DOMAIN y
              /\ "at" \notin DOMAIN w =>
                   y.at = x.at /\ y.score = x.score /\ (y.status = "verified" => x.status = "verified")
              /\ "at" \in DOMAIN w =>
                   /\ y.at = s
                   /\ x.at = b.at /\ y.status = "verified" =>
                        Copy(k, v).status = "verified" /\ Copy(k, v).score = y.score
  <2>1. Dated(b, x) /\ (<<v, "at">> \notin k.old => x.at = b.at)
    BY <1>3, <1>10 DEF Tells
  <2>2. /\ Verdicts \subseteq DOMAIN x /\ x.at \notin Runners
        /\ lost = {} /\ x.status = "verified" => TwoReport(table, v, x.score)
    BY <1>4, <1>5, <1>9, <1>10 DEF VerdictsStand, IsVerdict
  <2>. QED
    BY <1>3, <1>10, <2>1, <2>2, WeighedLands
<1>11. ASSUME v \in DOMAIN k.wrote, "at" \in DOMAIN w PROVE <<v, "at">> \in Cells(k)
  BY <1>11 DEF Cells, Written
<1>. HIDE DEF b, w, x, y
<1>12. ASSUME NEW u \in Sessions \ {s}, session[u].req.op = "ingest",
              Tells(table, Runners, session[u])
       PROVE  Tells(table', Runners', session'[u])
  <2> DEFINE m == session'[u]
             l == session[u]
             Q == Runners'
             R == Runners
             t == table
             tt == table'
             q == VerdictOf(l)
             c == l.read[q]
  <2>1. IsSession(l)
    BY DEF SessionsInv, Prepared, Recorded
  <2>2. /\ m.req = l.req /\ m.read = l.read /\ l.old \subseteq m.old
        /\ \A z \in Cells(k) : z[1] \in DOMAIN l.read => z \in m.old
    BY <1>1, <2>1, OtherCommit
  <2>3. q \in Rows /\ q[1] = "verification"
    BY <1>12, VerdictRow DEF VerdictOf
  <2>4. Tells(t, R, l) /\ Q \subseteq R
    BY <1>1, <1>12
  <2>5. q \in DOMAIN l.read
    BY <2>4 DEF Tells
  <2>6. CASE q # v \/ v \notin DOMAIN k.wrote
    <3>1. tt[q] = t[q]
      BY <1>7, <2>3, <2>6
    <3>. HIDE DEF m, l, Q, R, t, tt
    <3>2. Tells(tt, Q, m)
      BY <2>2, <2>4, <3>1, TellsKept
    <3>. QED
      BY <3>2 DEF m, Q, tt
  <2>7. CASE q = v /\ v \in DOMAIN k.wrote
    <3>1. ASSUME c # Absent
          PROVE  /\ y # Absent /\ Dated(c, y) /\ c.at \notin Q
                 /\ <<q, "at">> \notin m.old => y.at = c.at
      <4>1. /\ x # Absent /\ Dated(c, x) /\ c.at \notin R
            /\ <<q, "at">> \notin l.old => x.at = c.at
        BY <2>4, <2>7, <3>1 DEF Tells, x
      <4>2. b # Absent
        BY <1>9, <2>7, <4>1
      <4>3. y # Absent
        <5>1. "at" \in DOMAIN y /\ DOMAIN Absent = {}
          BY <1>10, <2>3, <2>7, <4>2 DEF Absent, Verdicts
        <5>. QED
          BY <5>1
      <4>4. CASE "at" \in DOMAIN w
        <5>1. y.at = s
          BY <1>10, <2>3, <2>7, <4>2, <4>4
        <5>2. c.at # s
          BY <4>1
        <5>3. <<q, "at">> \in m.old
          BY <1>11, <2>2, <2>5, <2>7, <4>4
        <5>. QED
          BY <2>4, <4>1, <4>3, <5>1, <5>2, <5>3 DEF Dated
      <4>5. CASE "at" \notin DOMAIN w
        <5>1. y.at = x.at /\ y.score = x.score /\ (y.status = "verified" => x.status = "verified")
          BY <1>10, <2>3, <2>7, <4>2, <4>5
        <5>. QED
          BY <2>2, <2>4, <4>1, <4>3, <5>1 DEF Dated
      <4>. QED
        BY <4>4, <4>5
    <3>2. VerdictOf(m) = q /\ tt[q] = y
      BY <1>8, <2>2, <2>3, <2>7 DEF VerdictOf
    <3>. HIDE DEF m, l, Q, tt, q
    <3>3. Tells(tt, Q, m)
      BY <2>2, <2>5, <3>1, <3>2 DEF Tells
    <3>. QED
      BY <3>3 DEF m, Q, tt
  <2>. QED
    BY <2>6, <2>7
<1>13. ComparisonsInv'
  BY <1>1, <1>12, ComparisonsLater DEF VerdictInv
<1> DEFINE tt == table'
           Q == Runners'
<1>14. ASSUME NEW z PROVE /\ TwoReport(table, v, z) => TwoReport(tt, v, z)
                          /\ TwoCopies(k, z) => TwoReport(tt, v, z)
  <2>1. TwoCopies(k, z) => TwoReport(table', v, z)
    BY <1>1, <1>3, CopiesAreReported
  <2>2. ReportsStay(table, tt)
    BY <1>2
  <2>. HIDE DEF tt
  <2>3. TwoReport(table, v, z) => TwoReport(tt, v, z)
    BY <2>2, TwoReportKept
  <2>. QED
    BY <2>1, <2>3 DEF tt
<1>15. /\ s \notin Q /\ Q \subseteq Runners /\ "never" \notin Q
       /\ lost' = {} => lost = {} /\ Cells(k) \cap k.old = {}
  <2>1. "never" \notin Q
    BY <1>1, OpeningVerifications DEF Runners
  <2>2. lost' = lost \cup {<<k.req.op, z[1], z[2]>> : z \in Cells(k) \cap k.old}
    BY DEF Committed
  <2>3. lost' = {} => lost = {} /\ Cells(k) \cap k.old = {}
    BY <2>2
  <2>. QED
    BY <1>1, <2>1, <2>3
<1>16. Copy(k, v).status = "verified" => TwoCopies(k, Copy(k, v).score)
  BY <1>3 DEF Weighed
<1>17. ASSUME v \in Rows, v \in DOMAIN k.wrote
       PROVE  /\ Verdicts \subseteq DOMAIN y
              /\ y.at \notin Q
              /\ lost' = {} /\ y.status = "verified" => TwoReport(tt, v, y.score)
  <2>. HIDE DEF v, tt, Q
  <2>1. CASE b = Absent
    <3>1. x = Absent /\ y = Copy(k, v)
      BY <1>9, <1>17, <2>1 DEF y, b, w, Copy
    <3>2. Verdicts \subseteq DOMAIN w /\ w.at \in {s, "never"}
      BY <1>3, <1>17, <2>1 DEF Weighed, v, b, w
    <3>3. /\ DOMAIN y = DOMAIN w \cup DOMAIN x
          /\ \A c \in DOMAIN w : y[c] = w[c]
          /\ \A c \in DOMAIN x : c \notin DOMAIN w => y[c] = x[c]
      BY OverIs DEF y
    <3>4. y.at \in {s, "never"}
      BY <3>2, <3>3 DEF Verdicts
    <3>. QED
      BY <1>14, <1>15, <1>16, <3>1, <3>2, <3>3, <3>4
  <2>2. CASE b # Absent /\ "at" \in DOMAIN w
    <3>1. y.at = s /\ Verdicts \subseteq DOMAIN y
      BY <1>10, <1>17, <2>2
    <3>2. ASSUME lost' = {}, y.status = "verified" PROVE TwoReport(tt, v, y.score)
      <4>1. x.at = b.at
        BY <1>10, <1>11, <1>15, <1>17, <2>2, <3>2
      <4>2. Copy(k, v).status = "verified" /\ Copy(k, v).score = y.score
        BY <1>10, <1>17, <2>2, <3>2, <4>1
      <4>. QED
        BY <1>14, <1>16, <4>2
    <3>. QED
      BY <1>15, <3>1, <3>2
  <2>3. CASE b # Absent /\ "at" \notin DOMAIN w
    <3>1. /\ Verdicts \subseteq DOMAIN y /\ y.at = x.at /\ y.score = x.score
          /\ y.status = "verified" => x.status = "verified"
          /\ x.at \notin Runners
          /\ lost = {} /\ x.status = "verified" => TwoReport(table, v, x.score)
      BY <1>10, <1>17, <2>3
    <3>. QED
      BY <1>14, <1>15, <3>1
  <2>. QED
    BY <2>1, <2>2, <2>3
<1>18. ASSUME NEW r, IsVerdict(table', r)
       PROVE  /\ Verdicts \subseteq DOMAIN table'[r]
              /\ table'[r].at \notin Runners'
              /\ lost' = {} /\ table'[r].status = "verified" => TwoReport(table', r, table'[r].score)
  <2>1. r \in Rows /\ r[1] = "verification"
    BY <1>18 DEF IsVerdict
  <2>2. CASE r = v /\ v \in DOMAIN k.wrote
    BY <1>8, <1>17, <2>1, <2>2
  <2>3. CASE r # v \/ v \notin DOMAIN k.wrote
    <3>1. table'[r] = table[r] /\ IsVerdict(table, r)
      BY <1>7, <1>18, <2>1, <2>3 DEF IsVerdict
    <3> DEFINE z == table[r].score
    <3>2. /\ Verdicts \subseteq DOMAIN table[r] /\ table[r].at \notin Runners
          /\ lost = {} /\ table[r].status = "verified" => TwoReport(table, r, z)
      BY <1>4, <3>1 DEF VerdictsStand
    <3>3. TwoReport(table, r, z) => TwoReport(tt, r, z)
      <4>1. ReportsStay(table, tt)
        BY <1>2
      <4>. HIDE DEF z, tt
      <4>. QED
        BY <4>1, TwoReportKept
    <3>. QED
      BY <1>15, <3>1, <3>2, <3>3
  <2>. QED
    BY <2>2, <2>3
<1>19. VerdictsStand'
  BY <1>18 DEF VerdictsStand
<1>. QED
  BY <1>13, <1>19 DEF VerdictInv

LEMMA VerdictInvInit ==
  ASSUME Init
  PROVE  VerdictInv
<1>1. PICK script \in Scripts : session = [s \in Sessions |-> Opened(script[s])]
  BY DEF Init, Start
<1>2. table = OpeningTable
  BY DEF Init
<1>3. ASSUME NEW v, IsVerdict(table, v)
      PROVE  /\ Verdicts \subseteq DOMAIN table[v] /\ table[v].at \notin Runners
             /\ table[v].status = "verified" => TwoReport(table, v, table[v].score)
  <2>. HIDE DEF OpeningTable
  <2>1. v \in Rows /\ v[1] = "verification" /\ OpeningTable[v] # Absent
    BY <1>2, <1>3 DEF IsVerdict
  <2>2. Runners \subseteq Sessions
    BY DEF Runners
  <2>. QED
    BY <1>2, <2>1, <2>2, OpeningVerifications
<1>4. ASSUME NEW s \in Sessions
      PROVE  Informed(table, Runners, s, session[s], session[s].pc)
  <2> DEFINE m == session[s]
             R == Runners
             t == table
  <2>1. m.wrote = <<>> /\ m.read = <<>> /\ m.pc = "start"
    BY <1>1, OpenedIs
  <2>. HIDE DEF m, R, t
  <2>2. Informed(t, R, s, m, m.pc)
    BY <2>1, InformedEnded
  <2>. QED
    BY <2>2 DEF m, R, t
<1>5. VerdictsStand
  BY <1>3 DEF VerdictsStand
<1>6. ComparisonsInv
  BY <1>4 DEF ComparisonsInv
<1>. QED
  BY <1>5, <1>6 DEF VerdictInv

LEMMA VerdictInvNext ==
  ASSUME SessionsInv, SolvencyInv, VerdictInv, [Next]_vars
  PROVE  VerdictInv'
<1>1. ASSUME NEW s \in Sessions, NEW how \in Closings, End(s, how) PROVE VerdictInv'
  BY <1>1, VerdictByClosing DEF End
<1>2. ASSUME NEW s \in Sessions, Refuse(s) PROVE VerdictInv'
  BY <1>1, <1>2 DEF Refuse, Closings
<1>3. ASSUME NEW s \in Sessions, Step(s) PROVE VerdictInv'
  <2>1. Sure(s)
    BY <1>3, SureIs DEF SolvencyInv
  <2>2. CASE session[s].req.op = "ingest"
    <3>1. Compares(s)
      BY <1>3, <2>1, <2>2, IngestCompares
    <3>2. s \in Runners
      BY <1>3, <2>2 DEF Step, Ended, Runners, Closings
    <3>3. ASSUME NEW k, NEW pc, IsSession(k), Query(s, k, pc),
                 Informed(table, Runners, s, k, pc)
          PROVE  VerdictInv'
      <4> DEFINE m == [Flushed(k) EXCEPT !.pc = pc]
                 R == Runners
                 t == table
      <4>1. End(s, "refused") \/ (Keep(s, m) /\ UNCHANGED store)
        BY <3>3 DEF Query
      <4>2. m = [[k EXCEPT !.held = @ \cup Touched(k)] EXCEPT !.pc = pc]
        BY DEF Flushed
      <4>3. m.pc = pc /\ m.req = k.req /\ m.read = k.read /\ m.wrote = k.wrote /\ m.old = k.old
        BY <3>3, <4>2 DEF IsSession
      <4>4. ReportsStay(t, t) /\ Informed(t, R, s, k, pc)
        BY <3>3 DEF ReportsStay
      <4>. HIDE DEF m, R, t
      <4>5. Tells(t, R, k) => Tells(t, R, m)
        BY <4>3, TellsKept
      <4>6. Informed(t, R, s, m, m.pc)
        BY <4>3, <4>4, <4>5, InformedKept
      <4>7. Informed(table, Runners, s, m, m.pc)
        BY <4>6 DEF t, R
      <4>. QED
        BY <1>1, <3>2, <4>1, <4>7, VerdictByTurn DEF Closings
    <3>4. ASSUME NEW k, Good(s, k), Commit(s, k), k.req = session[s].req, Decided(s, k)
          PROVE  VerdictInv'
      <4>1. End(s, "refused") \/ Committed(s, k, "done")
        BY <3>4, CommitIs DEF Commit
      <4>. QED
        BY <1>1, <2>2, <3>2, <3>4, <4>1, VerdictByIngest DEF Closings
    <3>. QED
      BY <1>2, <3>1, <3>3, <3>4 DEF Compares
  <2>3. CASE session[s].req.op # "ingest"
    <3>1. \A k : Firm(s, k) => k.req.op # "ingest"
      BY <2>3 DEF Firm, SameRequest
    <3>2. ASSUME NEW k, NEW pc, Good(s, k), CommitThen(s, k, pc) PROVE VerdictInv'
      <4>1. k.req.op # "ingest"
        BY <3>1, <3>2 DEF Good
      <4>2. End(s, "refused") \/ Committed(s, k, pc)
        BY <3>2, CommitIs
      <4>. QED
        BY <1>1, <3>2, <4>1, <4>2, VerdictByOthers DEF Closings
    <3>3. ASSUME NEW k, Firm(s, k), Keep(s, k), UNCHANGED store PROVE VerdictInv'
      BY <3>1, <3>3, VerdictByTurn
    <3>4. Moves(s)
      BY <1>3, <2>1, StepMoves
    <3>. QED
      BY <1>1, <3>2, <3>3, <3>4 DEF Moves
  <2>. QED
    BY <2>2, <2>3
<1>4. ASSUME NEW s \in Sessions, SessionLost(s) PROVE VerdictInv'
  BY <1>4, VerdictByClosing DEF SessionLost, Closings
<1>5. CASE UNCHANGED vars
  <2>1. table' = table /\ session' = session /\ lost' = lost
    BY <1>5 DEF vars
  <2>2. Runners' = Runners
    BY <2>1 DEF Runners
  <2>3. VerdictsStand' /\ ComparisonsInv'
    BY <2>1, <2>2 DEF VerdictInv, VerdictsStand, ComparisonsInv
  <2>. QED
    BY <2>3 DEF VerdictInv
<1>. QED
  BY <1>3, <1>4, <1>5 DEF Next

LEMMA StandingAreByTwo ==
  ASSUME VerdictsStand
  PROVE  VerifiedByTwo
<1>1. ASSUME lost = {}, NEW v \in OfKind("verification"), table[v].status = "verified"
      PROVE  Cardinality({r[2][2] : r \in {x \in OfKind("observation") :
                 x[2][1] = v[2] /\ table[x].score = table[v].score}}) >= 2
  <2> DEFINE S == {x \in OfKind("observation") : x[2][1] = v[2] /\ table[x].score = table[v].score}
             P == {r[2][2] : r \in S}
             f == [r \in S |-> r[2][2]]
             c == table[v].score
  <2>1. TwoReport(table, v, c)
    <3>1. IsVerdict(table, v)
      BY OfKindIs DEF IsVerdict
    <3>. QED
      BY <1>1, <3>1 DEF VerdictsStand
  <2>2. PICK a \in Rows, b \in Rows :
          /\ \A r \in {a, b} : r[1] = "observation" /\ r[2][1] = v[2]
                               /\ table[r] # Absent /\ table[r].score = c
          /\ a[2][2] # b[2][2]
    BY <2>1 DEF TwoReport
  <2>3. \A r \in {a, b} : r \in S
    BY <2>2 DEF OfKind, KindIn, RowsOfKind
  <2>4. IsFiniteSet(S)
    <3>1. S \subseteq Rows
      BY OfKindIs
    <3>. QED
      BY <3>1, FiniteRows, FS_Subset
  <2>5. f \in Surjection(S, P)
    BY DEF Surjection
  <2>6. IsFiniteSet(P)
    <3>. HIDE DEF S, P, f
    <3>. QED
      BY <2>4, <2>5, FS_Surjection
  <2>7. a[2][2] \in P /\ b[2][2] \in P
    BY <2>3
  <2> DEFINE p == a[2][2]
             q == b[2][2]
  <2>8. Cardinality({p, q}) = 2
    <3>1. IsFiniteSet({p}) /\ Cardinality({p}) = 1
      BY FS_Singleton
    <3>2. q \notin {p} /\ {p, q} = {p} \cup {q}
      BY <2>2
    <3>. HIDE DEF p, q
    <3>. QED
      BY <3>1, <3>2, FS_AddElement
  <2>9. Cardinality({p, q}) <= Cardinality(P)
    <3>1. {p, q} \subseteq P
      BY <2>7
    <3>. HIDE DEF P, p, q
    <3>. QED
      BY <2>6, <3>1, FS_Subset
  <2>10. Cardinality(P) \in Nat
    BY <2>6, FS_CardinalityType
  <2>11. Cardinality(P) >= 2
    <3>. HIDE DEF P, p, q
    <3>. QED
      BY <2>8, <2>9, <2>10
  <2>. QED
    BY <2>11
<1>. QED
  BY <1>1 DEF VerifiedByTwo

(* VerifiedByTwo, for any providers, matches and requests: a comparison    *)
(* that calls a score verified has two reports of it, which it leaves in   *)
(* the table and nobody changes; and a verdict that was changed since it   *)
(* was read has another time, so that a comparison at the same time either *)
(* leaves it whole or writes over the time of the other.                   *)
THEOREM VerifiedByTwoAlways == Spec => []VerifiedByTwo
<1>1. Spec => []VerdictInv
  BY VerdictInvInit, VerdictInvNext, SessionsInvAlways, SolvencyInvAlways, PTL DEF Spec
<1>2. VerdictInv => VerifiedByTwo
  BY StandingAreByTwo DEF VerdictInv
<1>. QED
  BY <1>1, <1>2, PTL
=============================================================================
