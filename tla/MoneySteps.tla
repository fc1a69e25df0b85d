---------------------------- MODULE MoneySteps ----------------------------
(***************************************************************************)
(* What the steps of the wallets, offers, bridges, the treasury, the       *)
(* stakes, the validators, the rewards and the other earnings make of a    *)
(* session: what it has loaded and is about to write is of the right kind, *)
(* and a step that takes money away has looked at the copy it takes it     *)
(* from.  MoneySolvency has the steps that touch no balance.               *)
(***************************************************************************)
EXTENDS MoneyFinality, FiniteSetTheorems

(* Rows that are never deleted.                                            *)
Lasting(r) == Standing(r) /\ r[1] \in Tracked \ {"validator"}

(* Who writes to the tables that other rows are counted on.                *)
Entitled(q, r, x) ==
    /\ r[1] \in {"subchain", "subblock"} => q.op = "produce"
    /\ r[1] \in {"observation", "verification"} => q.op = "ingest"
    /\ r[1] = "consensus" =>
         q.op \in Settlers \/ ("status" \in DOMAIN x => x.status # "settled")
    /\ r[1] = "stake" =>
         \/ /\ q.op = "stake_on" /\ q.match \notin KickedOff
            /\ "match" \in DOMAIN x => x.match = q.match
         \/ /\ q.op \in Settlers /\ DOMAIN x \subseteq {"status", "payout"}
            /\ "status" \in DOMAIN x => x.status # "active"

(* Rows of these are only inserted.                                        *)
MustBeNew(q, r) ==
    \/ r[1] \in {"reference", "referral", "observation", "subblock"}
    \/ r[1] = "stake" /\ q.op = "stake_on"

(* The copies and the changes of a session are of the right kind.          *)
Reads(k) ==
    \A r \in Rows \cap DOMAIN k.read : r[1] \in Tracked /\ k.read[r] # Absent =>
        RowFits(r, k.read[r]) /\ RowFull(r, k.read[r])
Writes(k) ==
    \A r \in DOMAIN k.wrote : r[1] \in Tracked =>
        /\ r \in DOMAIN k.read /\ RowFits(r, k.wrote[r])
        /\ k.read[r] = Absent => RowFull(r, k.wrote[r])
Stands(k) == \A r \in DOMAIN k.read : Lasting(r) => Exists(k, r)
Framed(k) ==
    \A r \in DOMAIN k.wrote :
        /\ Entitled(k.req, r, k.wrote[r])
        /\ MustBeNew(k.req, r) => r \in DOMAIN k.read /\ k.read[r] = Absent

Solid(k) == Reads(k) /\ Writes(k) /\ Stands(k) /\ Framed(k)

Founded(t) ==
    /\ \A r \in Rows : r[1] \in Tracked /\ t[r] # Absent =>
          IsRow(t[r]) /\ RowFits(r, t[r]) /\ RowFull(r, t[r])
    /\ \A r \in Rows : Lasting(r) => t[r] # Absent

----------------------------------------------------------------------------
(* What each handler has loaded when it comes to a statement               *)

Payee(k) == W(Copy(k, k.req.row).user)

WalletCarried(k, pc) == LET a == k.req has == DOMAIN k.read IN
    /\ a.op = "send" => /\ pc \in {"to", "debit"} => W(a.user) \in has
                        /\ pc \in {"debit", "credit"} => W(a.to) \in has
    /\ pc = "loaded" => W(a.user) \in has
    /\ a.op = "withdraw_vault" =>
         /\ pc \in {"vault", "wallet"} => a.row \in has
         /\ pc = "wallet" => Exists(k, a.row) /\ W(a.user) \in has
    /\ a.op \in {"approve", "reject", "webhook"} => (pc \in {"request", "tx", "wallet"} => a.row \in has)
    /\ a.op \in {"reject", "webhook"} /\ pc = "wallet" =>
         Exists(k, a.row) /\ Payee(k) \in has
    /\ a.op = "verify" => /\ pc \in {"tx", "settle"} => W(a.user) \in has
                          /\ pc = "settle" => a.row \in has
    /\ a.op = "fail" /\ pc = "tx" => a.row \in Known(k)
    /\ a.op = "reward" /\ pc = "credit" => W(a.user) \in has
    /\ a.op = "open" /\ pc = "bonus" => W(a.user) \in Known(k)
    /\ a.op = "refer" => /\ pc = "first" => W(a.to) \in has
                         /\ pc = "second" => W(a.user) \in has

ExchangeCarried(k, pc) == LET a == k.req has == DOMAIN k.read IN
    a.op # "create_offer" =>
      /\ pc \in {"row", "wallet", "taker"} => a.row \in Known(k)
      /\ a.op = "cancel_offer" /\ pc = "wallet" => Payee(k) \in has
      /\ a.op = "release" /\ pc = "wallet" => W(Copy(k, a.row).buyer) \in has
      /\ pc = "taker" => W(a.user) \in has /\ a.amount <= Copy(k, a.row).available

BridgeCarried(k, pc) == LET a == k.req has == DOMAIN k.read IN
    /\ pc = "locked" => W(a.user) \in has
    /\ a.op = "initiate" =>
         /\ pc \in {"pool", "wallet", "lock_pool"} => a.pool \in has
         /\ pc = "wallet" => W(a.user) \in has
         /\ pc \in {"wallet", "lock_pool"} => a.amount <= Copy(k, a.pool).liquidity
    /\ a.op = "relay" =>
         /\ pc \in {"tx", "pool", "wallet"} => a.row \in Known(k)
         /\ pc = "wallet" => Payee(k) \in has

TreasuryCarried(k, pc) == LET a == k.req has == DOMAIN k.read IN
    /\ pc \in {"target", "pool", "executed"} => a.row \in has
    /\ a.op = "execute_grant" /\ pc = "pool" => Copy(k, a.row).pool \in has
    /\ a.op = "revenue" /\ pc = "deposit" => a.to \in has
    /\ a.op = "epoch" /\ pc \in {"start", "pools"} => \A r \in has : r[1] = "pool" /\ r \in Rows

PredictionCarried(k, pc) == LET a == k.req has == DOMAIN k.read IN
    /\ a.op = "stake_on" /\ pc = "wallet" => W(a.user) \in has /\ a.match \notin KickedOff
    /\ pc \in {"apply", "refund"} => W(a.user) \in has
    /\ a.op \in ProfileRequests /\ pc \in {"profile", "refund"} => Validator(a.user) \in Known(k)
    /\ pc \in {"insert", "results", "stakes", "pay", "grade"} => a.op \in Settlers
    /\ pc = "refund" => a.op \in {"slash", "reject_validator", "leave"}
    /\ a.op \in Settlers =>
         /\ pc \in {"stakes", "pay"} => \A r \in has : r[1] = "stake" => r \in Rows /\ k.read[r] # Absent
         /\ pc = "pay" => \A r \in has : r[1] = "stake" => W(k.read[r].user) \in has
         /\ pc \in {"start", "insert", "results", "consensus"} => \A r \in has : r[1] # "stake"
         /\ \A r \in has : r[1] = "forecast" => pc = "grade" /\ Validator(r[2][2]) \in Known(k)
    /\ a.op = "review_appeal" =>
         /\ pc = "review" => a.row \in has
         /\ pc \in {"restore", "restake"} => a.row \in Known(k)
         /\ pc = "restore" => Validator(Copy(k, a.row).user) \in has
         /\ pc = "restake" => Payee(k) \in has

RewardCarried(k, pc) == LET a == k.req has == DOMAIN k.read IN
    pc = "award" => W(a.user) \in has

EarningCarriedIn(t, k, pc) == LET a == k.req has == DOMAIN k.read IN
    /\ a.op \in {"verify_node", "claim_node", "issue_challenge"} /\ pc \in {"row", "claim"} =>
         a.row \in Known(k)
    /\ pc \in {"claim", "grant"} => W(a.user) \in has
    /\ pc = "grant" => a.op \in {"complete", "claim"}
    /\ a.op = "respond" =>
         /\ pc \in {"proof", "reward"} => a.row[2] \in has
         /\ pc = "reward" => W(Copy(k, a.row[2]).user) \in has
    /\ a.op = "activate" /\ pc = "commission" =>
         /\ t[<<"referral", a.user>>] # Absent
         /\ W(t[<<"referral", a.user>>].referrer) \in has
    /\ pc = "wallet" => W(a.user) \in has
    /\ a.op = "strategy" /\ pc = "debit" => W(a.user) \in has

EarningCarried(k, pc) == EarningCarriedIn(table, k, pc)

RecordsCarried(k, pc) == LET a == k.req has == DOMAIN k.read IN
    /\ a.op \in {"settle_results", "settle_pending"} /\ pc \in {"next", "award", "score", "created", "clv"} =>
         \A r \in a.left : r \in Rows /\ r[1] = "prediction"
    /\ pc = "advance" => W(a.user) \in has
    /\ a.op = "execute_upgrade" /\ pc \in {"found", "contract"} => a.row \in Known(k)

ResultRequests == {"ingest", "update_result", "settle_results"}
MeritRequests == {"merit", "decay", "settle_pending"}
RegistryRequests ==
    {"produce", "relay_message", "confirm_message", "call", "upgrade", "execute_upgrade",
     "record_task"}

CarriedIn(t, k, pc) ==
    /\ k.req.op \in WalletRequests => WalletCarried(k, pc)
    /\ k.req.op \in ExchangeRequests => ExchangeCarried(k, pc)
    /\ k.req.op \in BridgeRequests => BridgeCarried(k, pc)
    /\ k.req.op \in TreasuryRequests => TreasuryCarried(k, pc)
    /\ k.req.op \in PredictionRequests => PredictionCarried(k, pc)
    /\ k.req.op \in RewardRequests => RewardCarried(k, pc)
    /\ k.req.op \in EarningRequests => EarningCarriedIn(t, k, pc)
    /\ k.req.op \in ResultRequests \cup MeritRequests \cup RegistryRequests => RecordsCarried(k, pc)

Carried(k, pc) == CarriedIn(table, k, pc)

SolidInv == Founded(table) /\ \A s \in Sessions : WellFormed(session[s].req) /\ Solid(session[s])
CarriedInv == \A s \in Sessions : Carried(session[s], session[s].pc)

----------------------------------------------------------------------------
(* The operations on a session                                             *)

Firm(s, k) ==
    /\ IsSession(k) /\ SameRequest(session[s].req, k.req)
    /\ DOMAIN session[s].req \subseteq DOMAIN k.req
    /\ Founded(table) /\ Solid(k)
    /\ \A r \in k.gone : r[1] \in {"validator", "forecast"}

(* No copy is given up, and no row that is there is found missing.         *)
Grows(s, k) ==
    /\ DOMAIN session[s].read \subseteq DOMAIN k.read
    /\ \A r \in Known(session[s]) : r[1] # "merit" => r \in Known(k)

Good(s, k) == Firm(s, k) /\ Grows(s, k)

LEMMA GoodByLoadAll ==
  ASSUME NEW s, NEW k, Good(s, k), NEW S
  PROVE  Good(s, LoadAll(k, S))
<1> DEFINE m == LoadAll(k, S)
<1>0. IsSession(k) /\ Founded(table) /\ Solid(k)
  BY DEF Good, Firm
<1>1. /\ IsSession(m)
      /\ m.req = k.req /\ m.wrote = k.wrote /\ m.gone = k.gone
      /\ DOMAIN m.read = (S \ Known(k)) \cup DOMAIN k.read
      /\ \A r \in S \ Known(k) : m.read[r] = table[r]
      /\ \A r \in DOMAIN k.read : r \notin S \ Known(k) => m.read[r] = k.read[r]
  BY <1>0, LoadedFields
<1>. HIDE DEF m
<1>2. ASSUME NEW r \in DOMAIN k.read, r \in DOMAIN k.wrote
      PROVE  r \in DOMAIN m.read /\ m.read[r] = k.read[r]
  BY <1>1, <1>2 DEF Known, Exists
<1>3. ASSUME NEW r \in Known(k) PROVE r \in Known(m)
  BY <1>1, <1>3 DEF Known, Exists
<1>4. Reads(m)
  BY <1>0, <1>1 DEF Reads, Solid, Founded
<1>5. Writes(m)
  BY <1>0, <1>1, <1>2 DEF Writes, Solid
<1>6. Stands(m)
  <2>1. SUFFICES ASSUME NEW r \in DOMAIN m.read, Lasting(r) PROVE Exists(m, r)
    BY DEF Stands
  <2>2. CASE r \in S \ Known(k)
    BY <1>0, <1>1, <2>1, <2>2 DEF Founded, Lasting, Standing, Exists
  <2>3. CASE r \notin S \ Known(k)
    BY <1>0, <1>1, <2>1, <2>3 DEF Stands, Solid, Exists
  <2>. QED
    BY <2>2, <2>3
<1>7. Framed(m)
  BY <1>0, <1>1, <1>2 DEF Framed, Solid
<1>8. Grows(s, m)
  BY <1>1, <1>3 DEF Good, Grows
<1>. QED
  BY <1>1, <1>4, <1>5, <1>6, <1>7, <1>8 DEF Good, Firm, Solid, m

LEMMA GoodByLoad ==
  ASSUME NEW s, NEW k, Good(s, k), NEW r
  PROVE  Good(s, Load(k, r))
BY GoodByLoadAll DEF Load

(* What is found of the rows loaded, and of those that were known.         *)
LEMMA LoadAllSees ==
  ASSUME NEW k, IsSession(k), NEW S
  PROVE  /\ LoadAll(k, S).req = k.req
         /\ DOMAIN LoadAll(k, S).read = S \cup DOMAIN k.read
         /\ \A r \in S : table[r] # Absent => r \in Known(LoadAll(k, S))
         /\ \A r \in Known(k) : /\ r \in Known(LoadAll(k, S))
                                 /\ Copy(LoadAll(k, S), r) = Copy(k, r)
                                 /\ LoadAll(k, S).read[r] = k.read[r]
         /\ \A r \in DOMAIN k.read : r \notin S => LoadAll(k, S).read[r] = k.read[r]
<1> DEFINE m == LoadAll(k, S)
<1>1. /\ m.req = k.req /\ m.wrote = k.wrote
      /\ DOMAIN m.read = (S \ Known(k)) \cup DOMAIN k.read
      /\ \A r \in S \ Known(k) : m.read[r] = table[r]
      /\ \A r \in DOMAIN k.read : r \notin S \ Known(k) => m.read[r] = k.read[r]
  BY LoadedFields
<1>. HIDE DEF m
<1>2. DOMAIN m.read = S \cup DOMAIN k.read
  BY <1>1 DEF Known
<1>3. \A r \in Known(k) : r \in Known(m) /\ Copy(m, r) = Copy(k, r) /\ m.read[r] = k.read[r]
  BY <1>1 DEF Known, Exists, Copy
<1>4. \A r \in S : table[r] # Absent => r \in Known(m)
  <2>1. SUFFICES ASSUME NEW r \in S, table[r] # Absent, r \notin Known(k) PROVE r \in Known(m)
    BY <1>3
  <2>. QED
    BY <1>1, <2>1 DEF Known, Exists
<1>. QED
  BY <1>1, <1>2, <1>3, <1>4 DEF m

LEMMA LoadSees ==
  ASSUME NEW s, NEW k, Good(s, k), NEW r
  PROVE  /\ Load(k, r).req = k.req
         /\ DOMAIN Load(k, r).read = {r} \cup DOMAIN k.read
         /\ table[r] # Absent => r \in Known(Load(k, r))
         /\ \A q \in Known(k) : q \in Known(Load(k, r)) /\ Copy(Load(k, r), q) = Copy(k, q)
<1>1. IsSession(k)
  BY DEF Good, Firm
<1> DEFINE S == {r}
<1>2. Load(k, r) = LoadAll(k, S) /\ r \in S
  BY DEF Load
<1>. HIDE DEF S
<1>3. /\ LoadAll(k, S).req = k.req
      /\ DOMAIN LoadAll(k, S).read = S \cup DOMAIN k.read
      /\ \A q \in S : table[q] # Absent => q \in Known(LoadAll(k, S))
      /\ \A q \in Known(k) : /\ q \in Known(LoadAll(k, S))
                              /\ Copy(LoadAll(k, S), q) = Copy(k, q)
                              /\ LoadAll(k, S).read[q] = k.read[q]
      /\ \A q \in DOMAIN k.read : q \notin S => LoadAll(k, S).read[q] = k.read[q]
  BY <1>1, LoadAllSees
<1>. QED
  BY <1>2, <1>3 DEF S

(* The changes that keep a session so.                                     *)
May(k, r, x) ==
    /\ r[1] \in Tracked =>
         r \in DOMAIN k.read /\ RowFits(r, x) /\ (Exists(k, r) \/ RowFull(r, x))
    /\ Entitled(k.req, r, x)
    /\ MustBeNew(k.req, r) => r \in DOMAIN k.read /\ k.read[r] = Absent

Part(x, y) == DOMAIN x \subseteq DOMAIN y /\ \A c \in DOMAIN x : x[c] = y[c]

(* Every column of z is as in x or as in w.                                *)
Mix(z, x, w) ==
    \A c \in DOMAIN z :
        (c \in DOMAIN x /\ z[c] = x[c]) \/ (c \in DOMAIN w /\ z[c] = w[c])

LEMMA OverMixes ==
  ASSUME NEW x, NEW y, Part(y, x), NEW w
  PROVE  Mix(Over(y, w), x, w)
<1>1. /\ DOMAIN Over(y, w) = DOMAIN y \cup DOMAIN w
      /\ \A c \in DOMAIN y : Over(y, w)[c] = y[c]
      /\ \A c \in DOMAIN w : c \notin DOMAIN y => Over(y, w)[c] = w[c]
  BY OverIs
<1>. QED
  BY <1>1 DEF Mix, Part

LEMMA EntitledMix ==
  ASSUME NEW q, NEW r, NEW x, Entitled(q, r, x), NEW w, DOMAIN w = {} \/ Entitled(q, r, w),
         NEW z, Mix(z, x, w)
  PROVE  Entitled(q, r, z)
<1>1. "status" \in DOMAIN z =>
        \/ "status" \in DOMAIN x /\ z.status = x.status
        \/ "status" \in DOMAIN w /\ z.status = w.status
  BY DEF Mix
<1>2. "match" \in DOMAIN z =>
        \/ "match" \in DOMAIN x /\ z.match = x.match
        \/ "match" \in DOMAIN w /\ z.match = w.match
  BY DEF Mix
<1>3. r[1] = "consensus" =>
        q.op \in Settlers \/ ("status" \in DOMAIN z => z.status # "settled")
  BY <1>1 DEF Entitled
<1>4. r[1] = "stake" =>
         \/ /\ q.op = "stake_on" /\ q.match \notin KickedOff
            /\ "match" \in DOMAIN z => z.match = q.match
         \/ /\ q.op \in Settlers /\ DOMAIN z \subseteq {"status", "payout"}
            /\ "status" \in DOMAIN z => z.status # "active"
  BY <1>1, <1>2 DEF Entitled, Settlers, Mix
<1>. QED
  BY <1>3, <1>4 DEF Entitled

LEMMA FitsMix ==
  ASSUME NEW r, NEW x, RowFits(r, x), NEW w, RowFits(r, w), NEW z, Mix(z, x, w)
  PROVE  RowFits(r, z)
BY DEF RowFits, Mix

LEMMA ChangesPart ==
  ASSUME NEW x, NEW y
  PROVE  /\ Part(Changes(x, y), y)
         /\ DOMAIN x = {} => Part(y, Changes(x, y))
BY DEF Part, Changes

LEMMA GoodByEach ==
  ASSUME NEW s, NEW k, Good(s, k), NEW f, \A r \in DOMAIN f : May(k, r, f[r])
  PROVE  Good(s, SetEach(k, f))
<1> DEFINE m == SetEach(k, f)
<1>0. IsSession(k) /\ Founded(table) /\ Solid(k)
  BY DEF Good, Firm
<1>1. /\ IsSession(m)
      /\ m.req = k.req /\ m.pc = k.pc /\ m.read = k.read /\ m.gone = k.gone
      /\ m.held = k.held /\ m.old = k.old /\ m.pays = k.pays
      /\ DOMAIN m.wrote = ChangedBy(k, f) \cup DOMAIN k.wrote
      /\ \A r \in ChangedBy(k, f) :
           m.wrote[r] = Over(Changes(Copy(k, r), f[r]), Written(k, r))
      /\ \A r \in DOMAIN k.wrote :
           r \notin ChangedBy(k, f) => m.wrote[r] = k.wrote[r]
  BY <1>0, SetFields
<1>. HIDE DEF m
<1>2. ASSUME NEW r \in ChangedBy(k, f)
      PROVE  /\ r[1] \in Tracked =>
                  /\ r \in DOMAIN k.read /\ RowFits(r, m.wrote[r])
                  /\ k.read[r] = Absent => RowFull(r, m.wrote[r])
             /\ Entitled(k.req, r, m.wrote[r])
             /\ MustBeNew(k.req, r) => r \in DOMAIN k.read /\ k.read[r] = Absent
  <2> DEFINE c == Copy(k, r)
             x == f[r]
             y == Changes(c, x)
             w == Written(k, r)
  <2>1. m.wrote[r] = Over(y, w) /\ May(k, r, x)
    BY <1>1 DEF ChangedBy
  <2>2. Part(y, x) /\ (DOMAIN c = {} => Part(x, y))
    <3>. HIDE DEF c, x
    <3>. QED
      BY ChangesPart
  <2>3. DOMAIN w = {} \/ Entitled(k.req, r, w)
    BY <1>0 DEF Written, Solid, Framed
  <2>4. Entitled(k.req, r, x)
    BY <2>1 DEF May
  <2>5. r[1] \in Tracked => RowFits(r, x) /\ RowFits(r, w)
    BY <1>0, <2>1 DEF May, Written, Solid, Writes, RowFits
  <2>6. r[1] \in Tracked /\ k.read[r] = Absent =>
          \/ RowFull(r, w)
          \/ DOMAIN c = {} /\ RowFull(r, x)
    BY <1>0, <2>1 DEF May, Written, Solid, Writes, Exists, Copy, Absent
  <2>7. MustBeNew(k.req, r) => r \in DOMAIN k.read /\ k.read[r] = Absent
    BY <2>1 DEF May
  <2>8. r[1] \in Tracked => r \in DOMAIN k.read
    BY <2>1 DEF May
  <2>. HIDE DEF c, x, y, w
  <2>9. Entitled(k.req, r, Over(y, w))
    BY <2>2, <2>3, <2>4, OverMixes, EntitledMix
  <2>10. r[1] \in Tracked => RowFits(r, Over(y, w))
    BY <2>2, <2>5, OverMixes, FitsMix
  <2>11. DOMAIN Over(y, w) = DOMAIN y \cup DOMAIN w
    BY OverIs
  <2>12. r[1] \in Tracked /\ k.read[r] = Absent => RowFull(r, Over(y, w))
    BY <2>2, <2>6, <2>11 DEF RowFull, Part
  <2>. QED
    BY <2>1, <2>7, <2>8, <2>9, <2>10, <2>12
<1>3. Writes(m)
  BY <1>0, <1>1, <1>2 DEF Writes, Solid
<1>4. Framed(m)
  BY <1>0, <1>1, <1>2 DEF Framed, Solid
<1>5. Reads(m) /\ Stands(m)
  BY <1>0, <1>1 DEF Reads, Stands, Solid, Exists
<1>6. Grows(s, m)
  BY <1>1 DEF Good, Grows, Known, Exists
<1>. QED
  BY <1>1, <1>3, <1>4, <1>5, <1>6 DEF Good, Firm, Solid, m

LEMMA GoodBySet ==
  ASSUME NEW s, NEW k, Good(s, k), NEW r, NEW x, May(k, r, x)
  PROVE  Good(s, Set(k, r, x))
<1>1. DOMAIN Only(r, x) = {r} /\ Only(r, x)[r] = x
  BY OnlyIs
<1>. QED
  BY <1>1, GoodByEach DEF Set

LEMMA InsertFields ==
  ASSUME NEW k, IsSession(k), NEW r, NEW x, DOMAIN x # {}
  PROVE  LET m == Insert(k, r, x) IN
         /\ IsSession(m)
         /\ m.req = k.req /\ m.pc = k.pc /\ m.gone = k.gone
         /\ m.held = k.held /\ m.old = k.old /\ m.pays = k.pays
         /\ DOMAIN m.read = {r} \cup DOMAIN k.read /\ m.read[r] = Absent
         /\ \A z \in DOMAIN k.read : z # r => m.read[z] = k.read[z]
         /\ DOMAIN m.wrote = {r} \cup DOMAIN k.wrote
         /\ \A z \in DOMAIN k.wrote : z # r => m.wrote[z] = k.wrote[z]
         /\ Part(x, m.wrote[r]) /\ Mix(m.wrote[r], x, Written(k, r))
<1> DEFINE g == Only(r, Absent)
           y == k.read
           h == [k EXCEPT !.read = Over(g, @)]
           f == Only(r, x)
           m == SetEach(h, f)
           w == Written(k, r)
           d == Changes(Copy(h, r), x)
<1>1. DOMAIN g = {r} /\ g[r] = Absent /\ DOMAIN f = {r} /\ f[r] = x
  BY OnlyIs
<1>2. h = [k EXCEPT !.read = Over(g, @)]
  OBVIOUS
<1>3. m = Insert(k, r, x)
  BY DEF Insert, Set
<1>. HIDE DEF g, h, f
<1>4. /\ IsSession(h) /\ h.read = Over(g, y) /\ h.req = k.req /\ h.pc = k.pc
      /\ h.gone = k.gone /\ h.held = k.held /\ h.old = k.old /\ h.pays = k.pays
      /\ h.wrote = k.wrote
  BY <1>2 DEF IsSession
<1>5. /\ IsSession(m)
      /\ m.req = h.req /\ m.pc = h.pc /\ m.read = h.read /\ m.gone = h.gone
      /\ m.held = h.held /\ m.old = h.old /\ m.pays = h.pays
      /\ DOMAIN m.wrote = ChangedBy(h, f) \cup DOMAIN h.wrote
      /\ \A z \in ChangedBy(h, f) :
           m.wrote[z] = Over(Changes(Copy(h, z), f[z]), Written(h, z))
      /\ \A z \in DOMAIN h.wrote :
           z \notin ChangedBy(h, f) => m.wrote[z] = h.wrote[z]
  BY <1>4, SetFields
<1>. HIDE DEF y, m
<1>6. /\ DOMAIN Over(g, y) = DOMAIN g \cup DOMAIN y
      /\ \A z \in DOMAIN g : Over(g, y)[z] = g[z]
      /\ \A z \in DOMAIN y : z \notin DOMAIN g => Over(g, y)[z] = y[z]
  BY OverIs
<1>7. /\ DOMAIN m.read = {r} \cup DOMAIN k.read /\ m.read[r] = Absent
      /\ \A z \in DOMAIN k.read : z # r => m.read[z] = k.read[z]
  BY <1>1, <1>4, <1>5, <1>6 DEF y
<1>8. ChangedBy(h, f) = IF DOMAIN d # {} THEN {r} ELSE {}
  BY <1>1 DEF ChangedBy
<1>9. Written(h, r) = w
  BY <1>4 DEF Written
<1>10. h.read[r] = Absent
  BY <1>5, <1>7
<1>11. DOMAIN Copy(h, r) = DOMAIN w /\ \A c \in DOMAIN w : Copy(h, r)[c] = w[c]
  <2>1. CASE r \in DOMAIN k.wrote
    <3>1. Copy(h, r) = Over(w, Absent)
      BY <1>4, <1>10, <2>1 DEF Copy, Written
    <3>. HIDE DEF w
    <3>2. /\ DOMAIN Over(w, Absent) = DOMAIN w \cup DOMAIN Absent
          /\ \A c \in DOMAIN w : Over(w, Absent)[c] = w[c]
      BY OverIs
    <3>. QED
      BY <3>1, <3>2 DEF Absent
  <2>2. CASE r \notin DOMAIN k.wrote
    BY <1>4, <1>10, <2>2 DEF Copy, Written, Absent
  <2>. QED
    BY <2>1, <2>2
<1>12. Part(d, x) /\ \A c \in DOMAIN x : c \notin DOMAIN d => c \in DOMAIN w /\ w[c] = x[c]
  <2> DEFINE c0 == Copy(h, r)
  <2>1. /\ DOMAIN d = {c \in DOMAIN x : c \notin DOMAIN c0 \/ c0[c] # x[c]}
        /\ \A c \in DOMAIN d : d[c] = x[c]
    <3>1. d = Changes(c0, x)
      OBVIOUS
    <3>. HIDE DEF c0, d
    <3>2. /\ DOMAIN Changes(c0, x) =
               {c \in DOMAIN x : c \notin DOMAIN c0 \/ c0[c] # x[c]}
          /\ \A c \in DOMAIN Changes(c0, x) : Changes(c0, x)[c] = x[c]
      BY DEF Changes
    <3>. QED
      BY <3>1, <3>2
  <2>. QED
    BY <1>11, <2>1 DEF Part
<1>. HIDE DEF d
<1>13. CASE DOMAIN d # {}
  <2>1. m.wrote[r] = Over(d, w)
    BY <1>1, <1>5, <1>8, <1>9, <1>13 DEF d
  <2>. HIDE DEF w
  <2>2. /\ DOMAIN Over(d, w) = DOMAIN d \cup DOMAIN w
        /\ \A c \in DOMAIN d : Over(d, w)[c] = d[c]
        /\ \A c \in DOMAIN w : c \notin DOMAIN d => Over(d, w)[c] = w[c]
    BY OverIs
  <2>3. Part(x, m.wrote[r])
    BY <1>12, <2>1, <2>2 DEF Part
  <2>4. Mix(m.wrote[r], x, w)
    BY <1>12, <2>1, OverMixes
  <2>5. /\ DOMAIN m.wrote = {r} \cup DOMAIN k.wrote
        /\ \A z \in DOMAIN k.wrote : z # r => m.wrote[z] = k.wrote[z]
    BY <1>4, <1>5, <1>8, <1>13
  <2>. QED
    BY <1>3, <1>4, <1>5, <1>7, <2>3, <2>4, <2>5 DEF w
<1>14. CASE DOMAIN d = {}
  <2>1. r \in DOMAIN k.wrote
    BY <1>12, <1>14 DEF Written
  <2>2. m.wrote[r] = w
    BY <1>4, <1>5, <1>8, <1>14, <2>1 DEF Written
  <2>3. Part(x, m.wrote[r]) /\ Mix(m.wrote[r], x, w)
    BY <1>12, <1>14, <2>2 DEF Part, Mix
  <2>5. /\ DOMAIN m.wrote = {r} \cup DOMAIN k.wrote
        /\ \A z \in DOMAIN k.wrote : z # r => m.wrote[z] = k.wrote[z]
    BY <1>4, <1>5, <1>8, <1>14, <2>1
  <2>. QED
    BY <1>3, <1>4, <1>5, <1>7, <2>3, <2>5
<1>. QED
  BY <1>13, <1>14

MayInsert(k, r, x) ==
    /\ DOMAIN x # {}
    /\ r[1] \in Tracked => RowFits(r, x) /\ RowFull(r, x)
    /\ Entitled(k.req, r, x)

LEMMA GoodByInsert ==
  ASSUME NEW s, NEW k, Good(s, k), NEW r, NEW x, MayInsert(k, r, x)
  PROVE  Good(s, Insert(k, r, x))
<1> DEFINE m == Insert(k, r, x)
           w == Written(k, r)
<1>0. IsSession(k) /\ Founded(table) /\ Solid(k) /\ DOMAIN x # {}
  BY DEF Good, Firm, MayInsert
<1>1. /\ IsSession(m)
      /\ m.req = k.req /\ m.pc = k.pc /\ m.gone = k.gone
      /\ m.held = k.held /\ m.old = k.old /\ m.pays = k.pays
      /\ DOMAIN m.read = {r} \cup DOMAIN k.read /\ m.read[r] = Absent
      /\ \A z \in DOMAIN k.read : z # r => m.read[z] = k.read[z]
      /\ DOMAIN m.wrote = {r} \cup DOMAIN k.wrote
      /\ \A z \in DOMAIN k.wrote : z # r => m.wrote[z] = k.wrote[z]
      /\ Part(x, m.wrote[r]) /\ Mix(m.wrote[r], x, w)
  BY <1>0, InsertFields
<1>. HIDE DEF m
<1>2. DOMAIN w = {} \/ Entitled(k.req, r, w)
  BY <1>0 DEF Written, Solid, Framed
<1>3. r[1] \in Tracked => RowFits(r, w)
  BY <1>0 DEF Written, Solid, Writes, RowFits
<1>. HIDE DEF w
<1>4. Entitled(k.req, r, m.wrote[r])
  BY <1>1, <1>2, EntitledMix DEF MayInsert
<1>5. r[1] \in Tracked => RowFits(r, m.wrote[r])
  BY <1>1, <1>3, FitsMix DEF MayInsert
<1>6. r[1] \in Tracked => RowFull(r, m.wrote[r])
  BY <1>1 DEF MayInsert, RowFull, Part
<1>7. Writes(m)
  BY <1>0, <1>1, <1>5, <1>6 DEF Writes, Solid
<1>8. Framed(m)
  BY <1>0, <1>1, <1>4 DEF Framed, Solid
<1>9. Reads(m)
  BY <1>0, <1>1 DEF Reads, Solid
<1>10. Stands(m)
  BY <1>0, <1>1 DEF Stands, Solid, Exists
<1>11. Grows(s, m)
  BY <1>1 DEF Good, Grows, Known, Exists
<1>. QED
  BY <1>1, <1>7, <1>8, <1>9, <1>10, <1>11 DEF Good, Firm, Solid, m

LEMMA InsertSees ==
  ASSUME NEW s, NEW k, Good(s, k), NEW r, NEW x, DOMAIN x # {}
  PROVE  /\ Insert(k, r, x).req = k.req
         /\ DOMAIN Insert(k, r, x).read = {r} \cup DOMAIN k.read
         /\ r \in Known(Insert(k, r, x))
         /\ \A q \in DOMAIN k.read : q # r => Copy(Insert(k, r, x), q) = Copy(k, q)
<1> DEFINE m == Insert(k, r, x)
<1>0. IsSession(k)
  BY DEF Good, Firm
<1>1. /\ IsSession(m)
      /\ m.req = k.req /\ m.pc = k.pc /\ m.gone = k.gone
      /\ m.held = k.held /\ m.old = k.old /\ m.pays = k.pays
      /\ DOMAIN m.read = {r} \cup DOMAIN k.read /\ m.read[r] = Absent
      /\ \A z \in DOMAIN k.read : z # r => m.read[z] = k.read[z]
      /\ DOMAIN m.wrote = {r} \cup DOMAIN k.wrote
      /\ \A z \in DOMAIN k.wrote : z # r => m.wrote[z] = k.wrote[z]
      /\ Part(x, m.wrote[r]) /\ Mix(m.wrote[r], x, Written(k, r))
  BY <1>0, InsertFields
<1>. HIDE DEF m
<1>2. r \in Known(m)
  BY <1>1 DEF Known, Exists
<1>3. \A q \in DOMAIN k.read : q # r => Copy(m, q) = Copy(k, q)
  BY <1>1 DEF Copy
<1>. QED
  BY <1>1, <1>2, <1>3 DEF m

LEMMA EachSees ==
  ASSUME NEW s, NEW k, Good(s, k), NEW f
  PROVE  /\ SetEach(k, f).req = k.req /\ SetEach(k, f).read = k.read
         /\ Known(k) \subseteq Known(SetEach(k, f))
<1> DEFINE m == SetEach(k, f)
<1>0. IsSession(k)
  BY DEF Good, Firm
<1>1. /\ IsSession(m)
      /\ m.req = k.req /\ m.pc = k.pc /\ m.read = k.read /\ m.gone = k.gone
      /\ m.held = k.held /\ m.old = k.old /\ m.pays = k.pays
      /\ DOMAIN m.wrote = ChangedBy(k, f) \cup DOMAIN k.wrote
      /\ \A r \in ChangedBy(k, f) :
           m.wrote[r] = Over(Changes(Copy(k, r), f[r]), Written(k, r))
      /\ \A r \in DOMAIN k.wrote :
           r \notin ChangedBy(k, f) => m.wrote[r] = k.wrote[r]
  BY <1>0, SetFields
<1>. HIDE DEF m
<1>. QED
  BY <1>1 DEF Known, Exists, m

(* m is k with the columns x of row r.                                     *)
IsSet(m, k, r, x) ==
    /\ m.req = k.req /\ m.read = k.read
    /\ Known(k) \subseteq Known(m)
    /\ \A q \in DOMAIN k.read : q # r => Copy(m, q) = Copy(k, q)
    /\ DOMAIN Copy(m, r) = DOMAIN x \cup DOMAIN Copy(k, r)
    /\ \A c \in DOMAIN x : Copy(m, r)[c] = x[c]
    /\ \A c \in DOMAIN Copy(k, r) :
           c \notin DOMAIN x => Copy(m, r)[c] = Copy(k, r)[c]

LEMMA SetIs ==
  ASSUME NEW s, NEW k, Good(s, k), NEW r, NEW x
  PROVE  IsSet(Set(k, r, x), k, r, x)
<1> DEFINE f == Only(r, x)
           m == SetEach(k, f)
           e == Copy(k, r)
           w == Written(k, r)
           d == Changes(e, x)
           y == k.read[r]
<1>0. IsSession(k)
  BY DEF Good, Firm
<1>1. DOMAIN f = {r} /\ f[r] = x
  BY OnlyIs
<1>2. m = Set(k, r, x)
  BY DEF Set
<1>3. m.req = k.req /\ m.read = k.read /\ Known(k) \subseteq Known(m)
  <2>. HIDE DEF f
  <2>. QED
    BY EachSees
<1>. HIDE DEF f
<1>4. /\ IsSession(m)
      /\ m.req = k.req /\ m.pc = k.pc /\ m.read = k.read /\ m.gone = k.gone
      /\ m.held = k.held /\ m.old = k.old /\ m.pays = k.pays
      /\ DOMAIN m.wrote = ChangedBy(k, f) \cup DOMAIN k.wrote
      /\ \A z \in ChangedBy(k, f) :
           m.wrote[z] = Over(Changes(Copy(k, z), f[z]), Written(k, z))
      /\ \A z \in DOMAIN k.wrote :
           z \notin ChangedBy(k, f) => m.wrote[z] = k.wrote[z]
  BY <1>0, SetFields
<1>. HIDE DEF m
<1>5. ChangedBy(k, f) = IF DOMAIN d # {} THEN {r} ELSE {}
  BY <1>1 DEF ChangedBy
<1>6. \A q \in DOMAIN k.read : q # r => Copy(m, q) = Copy(k, q)
  BY <1>4, <1>5 DEF Copy
<1>7. /\ DOMAIN d = {c \in DOMAIN x : c \notin DOMAIN e \/ e[c] # x[c]}
      /\ \A c \in DOMAIN d : d[c] = x[c]
  BY DEF Changes
<1>8. CASE DOMAIN d = {}
  <2>1. Copy(m, r) = e
    BY <1>4, <1>5, <1>8 DEF Copy
  <2>. HIDE DEF e, d
  <2>. QED
    BY <1>2, <1>3, <1>6, <1>7, <1>8, <2>1 DEF e, IsSet
<1>9. CASE DOMAIN d # {}
  <2>1. r \in DOMAIN m.wrote /\ m.wrote[r] = Over(d, w)
    BY <1>1, <1>4, <1>5, <1>9
  <2>2. Copy(m, r) = Over(Over(d, w), y)
    BY <1>4, <2>1 DEF Copy
  <2>3. e = IF r \in DOMAIN k.wrote THEN Over(w, y) ELSE y
    BY DEF Copy, Written
  <2>4. r \notin DOMAIN k.wrote => DOMAIN w = {}
    BY DEF Written
  <2>. HIDE DEF d, w, y, e
  <2> DEFINE o == Over(d, w)
  <2>5. /\ DOMAIN o = DOMAIN d \cup DOMAIN w
        /\ \A c \in DOMAIN d : o[c] = d[c]
        /\ \A c \in DOMAIN w : c \notin DOMAIN d => o[c] = w[c]
    BY OverIs
  <2>6. /\ DOMAIN Over(w, y) = DOMAIN w \cup DOMAIN y
        /\ \A c \in DOMAIN w : Over(w, y)[c] = w[c]
        /\ \A c \in DOMAIN y : c \notin DOMAIN w => Over(w, y)[c] = y[c]
    BY OverIs
  <2>. HIDE DEF o
  <2>7. /\ DOMAIN Over(o, y) = DOMAIN o \cup DOMAIN y
        /\ \A c \in DOMAIN o : Over(o, y)[c] = o[c]
        /\ \A c \in DOMAIN y : c \notin DOMAIN o => Over(o, y)[c] = y[c]
    BY OverIs
  <2>8. DOMAIN e = DOMAIN w \cup DOMAIN y
    BY <2>3, <2>4, <2>6
  <2>9. \A c \in DOMAIN w : e[c] = w[c]
    BY <2>3, <2>4, <2>6
  <2>10. \A c \in DOMAIN y : c \notin DOMAIN w => e[c] = y[c]
    BY <2>3, <2>6
  <2>11. Copy(m, r) = Over(o, y)
    BY <2>2 DEF o
  <2>12. DOMAIN Copy(m, r) = DOMAIN x \cup DOMAIN e
    BY <1>7, <2>5, <2>7, <2>8, <2>11
  <2>13. \A c \in DOMAIN x : Copy(m, r)[c] = x[c]
    BY <1>7, <2>5, <2>7, <2>8, <2>9, <2>10, <2>11
  <2>14. \A c \in DOMAIN e : c \notin DOMAIN x => Copy(m, r)[c] = e[c]
    BY <1>7, <2>5, <2>7, <2>8, <2>9, <2>10, <2>11
  <2>. QED
    BY <1>2, <1>3, <1>6, <2>12, <2>13, <2>14 DEF e, IsSet
<1>. QED
  BY <1>8, <1>9

LEMMA SetSees ==
  ASSUME NEW s, NEW k, Good(s, k), NEW r, NEW x
  PROVE  /\ Set(k, r, x).req = k.req /\ Set(k, r, x).read = k.read
         /\ Known(k) \subseteq Known(Set(k, r, x))
         /\ \A q \in DOMAIN k.read : q # r => Copy(Set(k, r, x), q) = Copy(k, q)
<1>1. IsSet(Set(k, r, x), k, r, x)
  BY SetIs
<1>. QED
  BY <1>1 DEF IsSet

LEMMA SetCopy ==
  ASSUME NEW s, NEW k, Good(s, k), NEW r, NEW x
  PROVE  /\ DOMAIN Copy(Set(k, r, x), r) = DOMAIN x \cup DOMAIN Copy(k, r)
         /\ \A c \in DOMAIN x : Copy(Set(k, r, x), r)[c] = x[c]
         /\ \A c \in DOMAIN Copy(k, r) :
              c \notin DOMAIN x => Copy(Set(k, r, x), r)[c] = Copy(k, r)[c]
<1>1. IsSet(Set(k, r, x), k, r, x)
  BY SetIs
<1>. QED
  BY <1>1 DEF IsSet

LEMMA AddSees ==
  ASSUME NEW s, NEW k, Good(s, k), NEW r, NEW column, NEW n
  PROVE  /\ Add(k, r, column, n).req = k.req
         /\ DOMAIN Add(k, r, column, n).read = DOMAIN k.read
         /\ Known(k) \subseteq Known(Add(k, r, column, n))
         /\ \A q \in DOMAIN k.read : q # r => Copy(Add(k, r, column, n), q) = Copy(k, q)
         /\ \A c \in DOMAIN Copy(k, r) :
              c # column => Copy(Add(k, r, column, n), r)[c] = Copy(k, r)[c]
<1> DEFINE x == Only(column, Copy(k, r)[column] + n)
<1>1. Add(k, r, column, n) = Set(k, r, x)
  BY AddIs
<1>2. DOMAIN x = {column}
  BY OnlyIs
<1>. HIDE DEF x
<1> DEFINE m == Set(k, r, x)
<1>3. /\ m.req = k.req /\ m.read = k.read
      /\ Known(k) \subseteq Known(m)
      /\ \A q \in DOMAIN k.read : q # r => Copy(m, q) = Copy(k, q)
  BY SetSees
<1>4. /\ DOMAIN Copy(m, r) = DOMAIN x \cup DOMAIN Copy(k, r)
      /\ \A c \in DOMAIN x : Copy(m, r)[c] = x[c]
      /\ \A c \in DOMAIN Copy(k, r) :
           c \notin DOMAIN x => Copy(m, r)[c] = Copy(k, r)[c]
  BY SetCopy
<1>. HIDE DEF m
<1>. QED
  BY <1>1, <1>2, <1>3, <1>4 DEF m

(* The columns of a copy are of their kind.                                *)
LEMMA TypedCopy ==
  ASSUME NEW s, NEW k, Good(s, k), NEW r \in Rows, r \in Known(k), r[1] \in Tracked
  PROVE  RowFits(r, Copy(k, r)) /\ RowFull(r, Copy(k, r))
<1>0. Solid(k) /\ r \in DOMAIN k.read /\ Exists(k, r)
  BY DEF Good, Firm, Known
<1> DEFINE w == k.wrote[r]
           y == k.read[r]
<1>1. CASE r \in DOMAIN k.wrote
  <2>1. Copy(k, r) = Over(w, y)
    BY <1>1 DEF Copy
  <2>2. RowFits(r, w) /\ RowFits(r, y) /\ (RowFull(r, w) \/ RowFull(r, y))
    BY <1>0, <1>1 DEF Solid, Writes, Reads, RowFits, Absent
  <2>. HIDE DEF w, y
  <2>3. /\ DOMAIN Over(w, y) = DOMAIN w \cup DOMAIN y
        /\ \A c \in DOMAIN w : Over(w, y)[c] = w[c]
        /\ \A c \in DOMAIN y : c \notin DOMAIN w => Over(w, y)[c] = y[c]
    BY OverIs
  <2>. QED
    BY <2>1, <2>2, <2>3 DEF RowFits, RowFull
<1>2. CASE r \notin DOMAIN k.wrote
  BY <1>0, <1>2 DEF Copy, Exists, Solid, Reads
<1>. QED
  BY <1>1, <1>2

LEMMA CopyColumn ==
  ASSUME NEW s, NEW k, Good(s, k), NEW r \in Rows, r \in Known(k), NEW c, <<r[1], c>> \in Typed
  PROVE  c \in DOMAIN Copy(k, r) /\ Fits(r[1], c, Copy(k, r)[c])
<1>1. r[1] \in Tracked
  BY DEF Tracked
<1>. QED
  BY <1>1, TypedCopy DEF RowFits, RowFull

LEMMA CopyCounted ==
  ASSUME NEW s, NEW k, Good(s, k), NEW r \in Rows, r \in Known(k), NEW c, <<r[1], c>> \in Counted
  PROVE  c \in DOMAIN Copy(k, r) /\ Copy(k, r)[c] \in Nat
BY CopyColumn DEF Fits, Typed

LEMMA CopyPersonal ==
  ASSUME NEW s, NEW k, Good(s, k), NEW r \in Rows, r \in Known(k), NEW c, <<r[1], c>> \in Personal
  PROVE  c \in DOMAIN Copy(k, r) /\ HasWallet(Copy(k, r)[c])
BY CopyColumn DEF Fits, Typed

(* A wallet that has been loaded is there.                                 *)
LEMMA WalletKnown ==
  ASSUME NEW s, NEW k, Good(s, k), NEW u, HasWallet(u), W(u) \in DOMAIN k.read
  PROVE  /\ W(u) \in Rows /\ W(u) \in Known(k) /\ W(u)[1] = "wallet"
         /\ \A c \in WalletColumns : c \in DOMAIN Copy(k, W(u)) /\ Copy(k, W(u))[c] \in Nat
<1>1. W(u)[1] = "wallet" /\ W(u) \in Rows
  BY DEF W, HasWallet, Standing
<1>2. "wallet" \in Tracked \ {"validator"} /\ \A c \in WalletColumns : <<"wallet", c>> \in Counted
  <2>1. <<"wallet", "vit">> \in Typed /\ <<"wallet", "vit">>[1] = "wallet"
    BY DEF Typed, Counted
  <2>2. "wallet" \in Tracked
    BY <2>1 DEF Tracked
  <2>. QED
    BY <2>2 DEF WalletColumns, Counted
<1>3. Lasting(W(u))
  BY <1>1, <1>2 DEF Lasting, HasWallet
<1>4. W(u) \in Known(k)
  BY <1>3 DEF Good, Firm, Solid, Stands, Known
<1>5. \A c \in WalletColumns : c \in DOMAIN Copy(k, W(u)) /\ Copy(k, W(u))[c] \in Nat
  BY <1>1, <1>2, <1>4, CopyCounted
<1>. QED
  BY <1>1, <1>4, <1>5

(* What a session that is good for s has kept of it.                       *)
LEMMA Stays ==
  ASSUME NEW s, NEW k, Good(s, k)
  PROVE  /\ IsSession(k) /\ k.req.op = session[s].req.op
         /\ session[s].req.op \notin {"settle_results", "settle_pending"} => k.req = session[s].req
         /\ \A r \in DOMAIN session[s].read : r \in DOMAIN k.read
         /\ \A r \in Known(session[s]) : r[1] # "merit" => r \in Known(k)
BY DEF Good, Firm, Grows, SameRequest

(* Rows of these tables are written in their own ways.                     *)
Reserved ==
    {"subchain", "subblock", "observation", "verification", "consensus", "stake",
     "referral", "reference"}

LEMMA Unguarded ==
  ASSUME NEW q, NEW r, r[1] \notin Reserved, NEW x
  PROVE  Entitled(q, r, x) /\ ~MustBeNew(q, r)
BY DEF Entitled, MustBeNew, Reserved

(* Columns of no kind.                                                     *)
Untyped(r, x) == r[1] # "wallet" /\ \A c \in DOMAIN x : <<r[1], c>> \notin Typed

LEMMA GoodByMark ==
  ASSUME NEW s, NEW k, Good(s, k), NEW r, r \in Known(k), r[1] \notin Reserved,
         NEW x, Untyped(r, x)
  PROVE  Good(s, Set(k, r, x))
<1>1. RowFits(r, x)
  <2>1. ASSUME NEW c \in DOMAIN x PROVE Fits(r[1], c, x[c])
    BY <2>1 DEF Untyped, Fits, Typed, Counted, Linked
  <2>. QED
    BY <2>1 DEF RowFits
<1>2. May(k, r, x)
  BY <1>1, Unguarded DEF May, Known
<1>. QED
  BY <1>2, GoodBySet

(* Rows that no money depends on.                                          *)
Free(r) == r[1] \notin Tracked /\ r[1] \notin Reserved

LEMMA GoodByFree ==
  ASSUME NEW s, NEW k, Good(s, k), NEW r, Free(r), NEW x
  PROVE  Good(s, Set(k, r, x))
<1>1. May(k, r, x)
  BY Unguarded DEF May, Free
<1>. QED
  BY <1>1, GoodBySet

LEMMA GoodByFreeInsert ==
  ASSUME NEW s, NEW k, Good(s, k), NEW r, Free(r), NEW x, DOMAIN x # {}
  PROVE  Good(s, Insert(k, r, x))
<1>1. MayInsert(k, r, x)
  BY Unguarded DEF MayInsert, Free
<1>. QED
  BY <1>1, GoodByInsert

LEMMA Kind ==
  ASSUME NEW c, NEW d, <<c, d>> \in Typed
  PROVE  c \in Tracked
BY DEF Tracked

(* The tables that money depends on.                                       *)
LEMMA TrackedIs ==
  Tracked = {"wallet", "offer", "order", "vault", "withdrawal", "deposit", "bridge_tx",
             "bridge_pool", "pool", "grant", "stake", "validator", "node", "referral",
             "appeal", "proof", "upgrade"}
BY DEF Tracked, Typed, Counted, Personal, Priced, Linked

LEMMA GoodByReferenceOf ==
  ASSUME NEW s, NEW k, Good(s, k), NEW name, NEW x, DOMAIN x # {}
  PROVE  Good(s, Insert(k, Ref(name), x))
<1>1. Ref(name)[1] = "reference"
  BY DEF Ref
<1>2. MayInsert(k, Ref(name), x)
  BY <1>1, TrackedIs DEF MayInsert, Entitled
<1>. QED
  BY <1>2, GoodByInsert

LEMMA GoodByReference ==
  ASSUME NEW s, NEW k, Good(s, k), NEW name, NEW n
  PROVE  Good(s, Reference(k, name, n))
BY GoodByReferenceOf DEF Reference

LEMMA GoodByFreeAdd ==
  ASSUME NEW s, NEW k, Good(s, k), NEW r, Free(r), NEW c, NEW n
  PROVE  Good(s, Add(k, r, c, n))
BY GoodByFree, AddIs

(* An amount that stays one.                                               *)
LEMMA GoodByAdd ==
  ASSUME NEW s, NEW k, Good(s, k), NEW r, r \in Known(k), r[1] \notin Reserved,
         NEW c, <<r[1], c>> \in Counted, NEW n, Copy(k, r)[c] + n \in Nat
  PROVE  Good(s, Add(k, r, c, n))
<1> DEFINE v == Copy(k, r)[c] + n
           x == Only(c, v)
<1>1. Add(k, r, c, n) = Set(k, r, x)
  BY AddIs
<1>2. DOMAIN x = {c} /\ x[c] = v
  BY OnlyIs
<1>. HIDE DEF x, v
<1>3. Fits(r[1], c, v)
  BY DEF Fits, v, Counted, Personal, Priced, WalletColumns, Reserved
<1>4. RowFits(r, x)
  BY <1>2, <1>3 DEF RowFits
<1>5. May(k, r, x)
  BY <1>4, Unguarded DEF May, Known
<1>. QED
  BY <1>1, <1>5, GoodBySet

LEMMA GoodByCredit ==
  ASSUME NEW s, NEW k, Good(s, k), NEW u, HasWallet(u), W(u) \in DOMAIN k.read,
         NEW c \in WalletColumns, NEW n \in Nat
  PROVE  Good(s, Add(k, W(u), c, n))
<1>1. /\ W(u) \in Known(k) /\ W(u)[1] = "wallet"
      /\ \A z \in WalletColumns : z \in DOMAIN Copy(k, W(u)) /\ Copy(k, W(u))[z] \in Nat
  BY WalletKnown
<1>2. Copy(k, W(u))[c] + n \in Nat
  BY <1>1
<1>3. W(u)[1] \notin Reserved /\ <<W(u)[1], c>> \in Counted
  BY <1>1 DEF Reserved, Counted, WalletColumns
<1>. QED
  BY <1>1, <1>2, <1>3, GoodByAdd

LEMMA GoodByDebit ==
  ASSUME NEW s, NEW k, Good(s, k), NEW u, HasWallet(u), W(u) \in DOMAIN k.read,
         NEW c \in WalletColumns, NEW n \in Nat, ~(Copy(k, W(u))[c] < n)
  PROVE  Good(s, Add(k, W(u), c, -n))
<1>1. /\ W(u) \in Known(k) /\ W(u)[1] = "wallet"
      /\ \A z \in WalletColumns : z \in DOMAIN Copy(k, W(u)) /\ Copy(k, W(u))[z] \in Nat
  BY WalletKnown
<1>2. Copy(k, W(u))[c] + (-n) \in Nat
  BY <1>1
<1>3. W(u)[1] \notin Reserved /\ <<W(u)[1], c>> \in Counted
  BY <1>1 DEF Reserved, Counted, WalletColumns
<1>. QED
  BY <1>1, <1>2, <1>3, GoodByAdd

(* Fields that the conditions do not look at.                              *)
LEMMA GoodByRest ==
  ASSUME NEW s, NEW k, Good(s, k), NEW m, IsSession(m),
         m.read = k.read, m.wrote = k.wrote, m.gone = k.gone, m.req = k.req
  PROVE  Good(s, m)
BY DEF Good, Firm, Grows, Solid, Reads, Writes, Stands, Framed, Known, Exists

LEMMA GoodByPay ==
  ASSUME NEW s, NEW k, Good(s, k), NEW cause
  PROVE  Good(s, Pay(k, cause))
<1> DEFINE m == Pay(k, cause)
<1>1. m = [k EXCEPT !.pays = @ \cup {cause}]
  BY DEF Pay
<1>. HIDE DEF m
<1>2. /\ IsSession(m) /\ m.req = k.req /\ m.wrote = k.wrote /\ m.gone = k.gone
      /\ m.read = k.read
  BY <1>1 DEF Good, Firm, IsSession
<1>. QED
  BY <1>2, GoodByRest DEF m

LEMMA GoodByHold ==
  ASSUME NEW s, NEW k, Good(s, k), NEW r
  PROVE  Good(s, [k EXCEPT !.held = @ \cup {r}])
<1> DEFINE m == [k EXCEPT !.held = @ \cup {r}]
<1>1. m = [k EXCEPT !.held = @ \cup {r}]
  OBVIOUS
<1>. HIDE DEF m
<1>2. /\ IsSession(m) /\ m.req = k.req /\ m.wrote = k.wrote /\ m.gone = k.gone
      /\ m.read = k.read
  BY <1>1 DEF Good, Firm, IsSession
<1>. QED
  BY <1>2, GoodByRest DEF m

LEMMA GoodByDelete ==
  ASSUME NEW s, NEW k, Good(s, k), NEW S, \A r \in S : r[1] \in {"validator", "forecast"}
  PROVE  Good(s, Delete(k, S))
<1> DEFINE l == LoadAll(k, S)
           m == [l EXCEPT !.gone = @ \cup S]
<1>1. Good(s, l)
  BY GoodByLoadAll
<1>2. m = [l EXCEPT !.gone = @ \cup S] /\ Delete(k, S) = m
  BY DEF Delete
<1>. HIDE DEF m, l
<1>3. /\ IsSession(m) /\ m.req = l.req /\ m.wrote = l.wrote /\ m.gone = l.gone \cup S
      /\ m.read = l.read
  BY <1>1, <1>2 DEF Good, Firm, IsSession
<1>. QED
  BY <1>1, <1>2, <1>3
     DEF Good, Firm, Grows, Solid, Reads, Writes, Stands, Framed, Known, Exists

----------------------------------------------------------------------------
(* What a step makes of a session                                          *)

Sure(s) ==
    /\ Good(s, session[s]) /\ Carried(session[s], session[s].pc)
    /\ WellFormed(session[s].req) /\ Proper(session[s].req)

Covered(k) == DOMAIN k.wrote \subseteq k.held

Moves(s) ==
    \/ \E k : /\ Firm(s, k) /\ Carried(k, k.pc) /\ (Covered(session[s]) => Covered(k))
              /\ Keep(s, k) /\ UNCHANGED <<store, faults>>
    \/ \E k, pc : /\ Good(s, k) /\ CommitThen(s, k, pc)
                  /\ pc = "done" \/ Carried(Continued(k), pc)
    \/ \E how \in Closings : End(s, how)

LEMMA CarriedAlike ==
  ASSUME NEW k, NEW m, m.req = k.req, m.read = k.read, m.wrote = k.wrote,
         NEW pc, Carried(k, pc)
  PROVE  Carried(m, pc)
<1>1. \A r : Copy(m, r) = Copy(k, r) /\ (Exists(m, r) <=> Exists(k, r))
  BY DEF Copy, Exists
<1>2. Known(m) = Known(k)
  BY <1>1 DEF Known
<1>3. Payee(m) = Payee(k)
  BY <1>1 DEF Payee
<1>4. /\ WalletCarried(k, pc) => WalletCarried(m, pc)
      /\ ExchangeCarried(k, pc) => ExchangeCarried(m, pc)
      /\ BridgeCarried(k, pc) => BridgeCarried(m, pc)
  BY <1>1, <1>2, <1>3 DEF WalletCarried, ExchangeCarried, BridgeCarried
<1>5. /\ TreasuryCarried(k, pc) => TreasuryCarried(m, pc)
      /\ RewardCarried(k, pc) => RewardCarried(m, pc)
      /\ RecordsCarried(k, pc) => RecordsCarried(m, pc)
  BY <1>1, <1>2, <1>3 DEF TreasuryCarried, RewardCarried, RecordsCarried
<1>6. PredictionCarried(k, pc) => PredictionCarried(m, pc)
  BY <1>1, <1>2, <1>3 DEF PredictionCarried
<1>7. EarningCarried(k, pc) => EarningCarried(m, pc)
  BY <1>1, <1>2, <1>3 DEF EarningCarried, EarningCarriedIn
<1>. QED
  BY <1>4, <1>5, <1>6, <1>7 DEF Carried, CarriedIn, EarningCarried

LEMMA MoveEnd ==
  ASSUME NEW s, NEW how \in Closings, End(s, how)
  PROVE  Moves(s)
BY DEF Moves

LEMMA MoveRefuse ==
  ASSUME NEW s, Refuse(s)
  PROVE  Moves(s)
BY MoveEnd DEF Refuse, Closings

LEMMA MoveQuery ==
  ASSUME NEW s, NEW k, Good(s, k), NEW pc, Carried(k, pc), Query(s, k, pc)
  PROVE  Moves(s)
<1>1. CASE End(s, "refused")
  BY <1>1, MoveRefuse DEF Refuse
<1>2. CASE ~End(s, "refused")
  <2> DEFINE m == [Flushed(k) EXCEPT !.pc = pc]
  <2>1. m = [[k EXCEPT !.held = @ \cup Touched(k)] EXCEPT !.pc = pc]
    BY DEF Flushed
  <2>2. Keep(s, m) /\ UNCHANGED <<store, faults>>
    BY <1>2 DEF Query
  <2>. HIDE DEF m
  <2>3. /\ IsSession(m)
        /\ m.req = k.req /\ m.wrote = k.wrote /\ m.gone = k.gone
        /\ m.read = k.read /\ m.pc = pc /\ m.held = k.held \cup Touched(k)
    BY <2>1 DEF Good, Firm, IsSession
  <2>4. Good(s, m)
    BY <2>3, GoodByRest
  <2>5. Carried(m, pc)
    BY <2>3, CarriedAlike
  <2>. QED
    BY <2>2, <2>3, <2>4, <2>5 DEF Moves, Good, Covered, Touched
<1>. QED
  BY <1>1, <1>2

LEMMA MoveQueryForUpdate ==
  ASSUME NEW s, NEW k, Good(s, k), NEW r, NEW pc, Carried(Load(k, r), pc),
         QueryForUpdate(s, k, r, pc)
  PROVE  Moves(s)
<1> DEFINE l == Load(k, r)
           m == [l EXCEPT !.held = @ \cup {r}]
<1>1. Good(s, l) /\ Good(s, m)
  BY GoodByLoad, GoodByHold
<1>2. m = [l EXCEPT !.held = @ \cup {r}]
  OBVIOUS
<1>3. Query(s, m, pc) /\ Carried(l, pc)
  BY DEF QueryForUpdate
<1>. HIDE DEF l, m
<1>4. m.req = l.req /\ m.read = l.read /\ m.wrote = l.wrote
  BY <1>1, <1>2 DEF Good, Firm, IsSession
<1>5. Carried(m, pc)
  BY <1>3, <1>4, CarriedAlike
<1>. QED
  BY <1>1, <1>3, <1>5, MoveQuery

LEMMA MoveCommit ==
  ASSUME NEW s, NEW k, Good(s, k), Commit(s, k)
  PROVE  Moves(s)
BY DEF Moves, Commit

LEMMA MoveCommitThen ==
  ASSUME NEW s, NEW k, Good(s, k), NEW pc, Carried(Continued(k), pc), CommitThen(s, k, pc)
  PROVE  Moves(s)
BY DEF Moves

(* What a session has loaded when it comes to a statement, by its request. *)
LEMMA CarriedByGroup ==
  ASSUME NEW k, NEW pc
  PROVE  /\ k.req.op \in WalletRequests => (Carried(k, pc) <=> WalletCarried(k, pc))
         /\ k.req.op \in ExchangeRequests \ {"create_offer"} => (Carried(k, pc) <=> ExchangeCarried(k, pc))
         /\ k.req.op \in BridgeRequests => (Carried(k, pc) <=> BridgeCarried(k, pc))
         /\ k.req.op \in TreasuryRequests => (Carried(k, pc) <=> TreasuryCarried(k, pc))
         /\ k.req.op \in PredictionRequests => (Carried(k, pc) <=> PredictionCarried(k, pc))
         /\ k.req.op \in RewardRequests => (Carried(k, pc) <=> RewardCarried(k, pc))
         /\ k.req.op \in EarningRequests => (Carried(k, pc) <=> EarningCarried(k, pc))
         /\ k.req.op \in ResultRequests \cup MeritRequests \cup RegistryRequests =>
              (Carried(k, pc) <=> RecordsCarried(k, pc))
<1>1. /\ k.req.op \in WalletRequests =>
           /\ k.req.op \notin BridgeRequests \cup TreasuryRequests \cup PredictionRequests
                 \cup RewardRequests \cup EarningRequests
                 \cup ResultRequests \cup MeritRequests \cup RegistryRequests
           /\ k.req.op \in ExchangeRequests => k.req.op = "create_offer"
      /\ k.req.op \in ExchangeRequests \ {"create_offer"} =>
           k.req.op \notin WalletRequests \cup BridgeRequests \cup TreasuryRequests
              \cup PredictionRequests \cup RewardRequests \cup EarningRequests
              \cup ResultRequests \cup MeritRequests \cup RegistryRequests
  BY DEF WalletRequests, ExchangeRequests, BridgeRequests, TreasuryRequests,
         PredictionRequests, RewardRequests, EarningRequests, ResultRequests,
         MeritRequests, RegistryRequests
<1>2. /\ k.req.op \in BridgeRequests =>
           k.req.op \notin WalletRequests \cup ExchangeRequests \cup TreasuryRequests
              \cup PredictionRequests \cup RewardRequests \cup EarningRequests
              \cup ResultRequests \cup MeritRequests \cup RegistryRequests
      /\ k.req.op \in TreasuryRequests =>
           k.req.op \notin WalletRequests \cup ExchangeRequests \cup BridgeRequests
              \cup PredictionRequests \cup RewardRequests \cup EarningRequests
              \cup ResultRequests \cup MeritRequests \cup RegistryRequests
      /\ k.req.op \in PredictionRequests =>
           k.req.op \notin WalletRequests \cup ExchangeRequests \cup BridgeRequests
              \cup TreasuryRequests \cup RewardRequests \cup EarningRequests
              \cup ResultRequests \cup MeritRequests \cup RegistryRequests
  BY DEF WalletRequests, ExchangeRequests, BridgeRequests, TreasuryRequests,
         PredictionRequests, RewardRequests, EarningRequests, ResultRequests,
         MeritRequests, RegistryRequests
<1>3. /\ k.req.op \in RewardRequests =>
           k.req.op \notin WalletRequests \cup ExchangeRequests \cup BridgeRequests
              \cup TreasuryRequests \cup PredictionRequests \cup EarningRequests
              \cup ResultRequests \cup MeritRequests \cup RegistryRequests
      /\ k.req.op \in EarningRequests =>
           k.req.op \notin WalletRequests \cup ExchangeRequests \cup BridgeRequests
              \cup TreasuryRequests \cup PredictionRequests \cup RewardRequests
              \cup ResultRequests \cup MeritRequests \cup RegistryRequests
      /\ k.req.op \in ResultRequests \cup MeritRequests \cup RegistryRequests =>
           k.req.op \notin WalletRequests \cup ExchangeRequests \cup BridgeRequests
              \cup TreasuryRequests \cup PredictionRequests \cup RewardRequests
              \cup EarningRequests
  BY DEF WalletRequests, ExchangeRequests, BridgeRequests, TreasuryRequests,
         PredictionRequests, RewardRequests, EarningRequests, ResultRequests,
         MeritRequests, RegistryRequests
<1>4. k.req.op = "create_offer" => ExchangeCarried(k, pc)
  BY DEF ExchangeCarried
<1>. QED
  BY <1>1, <1>2, <1>3, <1>4 DEF Carried, CarriedIn, EarningCarried

(* A row loaded, beside what was there.                                    *)
HasLoaded(l, k, r) ==
    /\ l.req = k.req /\ r \in DOMAIN l.read
    /\ table[r] # Absent => r \in Known(l)
    /\ \A q \in DOMAIN k.read : q \in DOMAIN l.read
    /\ \A q \in Known(k) : q \in Known(l) /\ Copy(l, q) = Copy(k, q)

LEMMA RowIsLoaded ==
  ASSUME NEW s, NEW k, Good(s, k), NEW r
  PROVE  Good(s, Load(k, r)) /\ HasLoaded(Load(k, r), k, r)
<1>1. Good(s, Load(k, r))
  BY GoodByLoad
<1> DEFINE l == Load(k, r)
<1>2. /\ l.req = k.req
      /\ DOMAIN l.read = {r} \cup DOMAIN k.read
      /\ table[r] # Absent => r \in Known(l)
      /\ \A q \in Known(k) : q \in Known(l) /\ Copy(l, q) = Copy(k, q)
  BY LoadSees
<1>. HIDE DEF l
<1>. QED
  BY <1>1, <1>2 DEF HasLoaded, l

(* A handler of the wallet.                                                *)
LEMMA InWallet ==
  ASSUME NEW s, Sure(s), session[s].req.op \in WalletRequests
  PROVE  /\ Good(s, session[s]) /\ WellFormed(session[s].req)
         /\ WalletCarried(session[s], session[s].pc)
BY CarriedByGroup DEF Sure

LEMMA ToWallet ==
  ASSUME NEW k, k.req.op \in WalletRequests, NEW pc, WalletCarried(k, pc)
  PROVE  Carried(k, pc)
BY CarriedByGroup

LEMMA TransferLoadMoves ==
  ASSUME NEW s, Sure(s), TransferLoad(s)
  PROVE  Moves(s)
<1> DEFINE k == session[s]
           l == Load(k, W(k.req.user))
           m == Load(k, W(k.req.to))
<1>1. k.req.op = "send" /\ k.req.op \in WalletRequests
  BY DEF TransferLoad, At, WalletRequests
<1>2. Good(s, k) /\ WalletCarried(k, k.pc)
  BY <1>1, InWallet
<1>3. CASE k.pc = "start" /\ Query(s, l, "to")
  <2>1. Good(s, l) /\ HasLoaded(l, k, W(k.req.user))
    BY <1>2, RowIsLoaded
  <2>. HIDE DEF l
  <2>2. WalletCarried(l, "to") /\ l.req.op \in WalletRequests
    BY <1>1, <2>1 DEF WalletCarried, HasLoaded
  <2>. QED
    BY <1>3, <2>1, <2>2, ToWallet, MoveQuery
<1>4. CASE k.pc = "to" /\ Query(s, m, "debit")
  <2>1. Good(s, m) /\ HasLoaded(m, k, W(k.req.to))
    BY <1>2, RowIsLoaded
  <2>. HIDE DEF m
  <2>2. WalletCarried(m, "debit") /\ m.req.op \in WalletRequests
    BY <1>1, <1>2, <1>4, <2>1 DEF WalletCarried, HasLoaded
  <2>. QED
    BY <1>4, <2>1, <2>2, ToWallet, MoveQuery
<1>. QED
  BY <1>3, <1>4 DEF TransferLoad, At, Args

LEMMA DebitMoves ==
  ASSUME NEW s, Sure(s), Debit(s)
  PROVE  Moves(s)
<1> DEFINE k == session[s]
           w == W(k.req.user)
           l == Add(k, w, k.req.column, -k.req.amount)
<1>1. k.req.op = "send" /\ k.req.op \in WalletRequests /\ k.pc = "debit"
  BY DEF Debit, At, WalletRequests
<1>2. Good(s, k) /\ WalletCarried(k, k.pc) /\ WellFormed(k.req)
  BY <1>1, InWallet
<1>3. /\ HasWallet(k.req.user) /\ k.req.amount \in Nat /\ k.req.column \in WalletColumns
      /\ w \in DOMAIN k.read /\ W(k.req.to) \in DOMAIN k.read
  BY <1>1, <1>2 DEF WellFormed, WalletCarried, UserRequests, AmountRequests, Currencies, WalletColumns
<1>4. CASE ~(Copy(k, w)[k.req.column] < k.req.amount) /\ Query(s, l, "credit")
  <2>1. Good(s, l)
    BY <1>2, <1>3, <1>4, GoodByDebit
  <2>. HIDE DEF l
  <2>2. l.req = k.req /\ W(k.req.to) \in DOMAIN l.read
    BY <1>1, <1>3, <2>1, Stays
  <2>3. WalletCarried(l, "credit") /\ l.req.op \in WalletRequests
    BY <1>1, <2>2 DEF WalletCarried
  <2>. QED
    BY <1>4, <2>1, <2>3, ToWallet, MoveQuery
<1>. QED
  BY <1>4, MoveRefuse DEF Debit, At, Args, Balance, Wallet

LEMMA CreditMoves ==
  ASSUME NEW s, Sure(s), Credit(s)
  PROVE  Moves(s)
<1> DEFINE k == session[s]
<1>1. k.req.op = "send" /\ k.req.op \in WalletRequests /\ k.pc = "credit"
  BY DEF Credit, At, WalletRequests
<1>2. Good(s, k) /\ WalletCarried(k, k.pc) /\ WellFormed(k.req)
  BY <1>1, InWallet
<1>3. /\ HasWallet(k.req.to) /\ k.req.amount \in Nat /\ k.req.column \in WalletColumns
      /\ W(k.req.to) \in DOMAIN k.read
  BY <1>1, <1>2 DEF WellFormed, WalletCarried, AmountRequests, Currencies, WalletColumns
<1>. QED
  BY <1>2, <1>3, GoodByCredit, MoveCommit DEF Credit, Args

(* The requests on the own wallet.                                         *)
OwnRequests == {"stake", "unstake", "exchange", "subscribe", "create_vault",
                "withdraw", "deposit", "create_offer"}

LEMMA LoadOwnMoves ==
  ASSUME NEW s, Sure(s), LoadOwn(s)
  PROVE  Moves(s)
<1> DEFINE k == session[s]
           l == Load(k, W(k.req.user))
<1>1. k.req.op \in OwnRequests /\ Query(s, l, "loaded") /\ k.req.op \in WalletRequests
  BY DEF LoadOwn, Args, OwnRequests, WalletRequests
<1>2. Good(s, k)
  BY <1>1, InWallet
<1>3. Good(s, l) /\ HasLoaded(l, k, W(k.req.user))
  BY <1>2, RowIsLoaded
<1>. HIDE DEF l
<1>4. WalletCarried(l, "loaded") /\ l.req.op \in WalletRequests
  BY <1>1, <1>3 DEF WalletCarried, HasLoaded, OwnRequests
<1>. QED
  BY <1>1, <1>3, <1>4, ToWallet, MoveQuery

LEMMA OwnIs ==
  ASSUME NEW s, Sure(s), session[s].req.op \in OwnRequests, session[s].pc = "loaded"
  PROVE  LET k == session[s] IN
         /\ Good(s, k) /\ HasWallet(k.req.user) /\ k.req.amount \in Nat
         /\ Wallet(s) = W(k.req.user) /\ W(k.req.user) \in DOMAIN k.read
         /\ W(k.req.user) \in Known(k)
         /\ k.req.op \in {"subscribe", "create_vault", "withdraw", "deposit"} =>
              k.req.column \in Currencies
         /\ k.req.op = "exchange" => k.req.from \in Currencies /\ k.req.to \in Currencies
<1> DEFINE k == session[s]
<1>1. k.req.op \in WalletRequests
  BY DEF OwnRequests, WalletRequests
<1>2. Good(s, k) /\ WellFormed(k.req) /\ WalletCarried(k, k.pc)
  BY <1>1, InWallet
<1>3. HasWallet(k.req.user) /\ W(k.req.user) \in DOMAIN k.read
  BY <1>1, <1>2 DEF WalletCarried, WellFormed, UserRequests, OwnRequests
<1>4. W(k.req.user) \in Known(k)
  BY <1>2, <1>3, WalletKnown
<1>5. k.req.amount \in Nat
  BY <1>2 DEF WellFormed, AmountRequests, OwnRequests
<1>6. /\ k.req.op \in {"subscribe", "create_vault", "withdraw", "deposit"} =>
              k.req.column \in Currencies
      /\ k.req.op = "exchange" => k.req.from \in Currencies /\ k.req.to \in Currencies
  BY <1>2 DEF WellFormed
<1>. QED
  BY <1>2, <1>3, <1>4, <1>5, <1>6 DEF Wallet, Args

LEMMA StakeMoves ==
  ASSUME NEW s, Sure(s), Stake(s)
  PROVE  Moves(s)
<1> DEFINE k == session[s]
           w == W(k.req.user)
           n == k.req.amount
           l == Add(k, w, "vit", -n)
<1>1. k.req.op \in OwnRequests /\ k.pc = "loaded"
  BY DEF Stake, At, OwnRequests
<1>2. Good(s, k) /\ HasWallet(k.req.user) /\ n \in Nat /\ w \in DOMAIN k.read
  BY <1>1, OwnIs
<1>3. CASE ~(Copy(k, w).vit < n) /\ Commit(s, Add(l, w, "staked", n))
  <2>1. Good(s, l)
    BY <1>2, <1>3, GoodByDebit DEF WalletColumns
  <2>2. w \in DOMAIN l.read
    BY <1>2, <2>1, Stays
  <2>3. Good(s, Add(l, w, "staked", n))
    BY <1>2, <2>1, <2>2, GoodByCredit DEF WalletColumns
  <2>. QED
    BY <1>3, <2>3, MoveCommit
<1>. QED
  BY <1>3, MoveRefuse DEF Stake, Args, Balance, Wallet

LEMMA UnstakeMoves ==
  ASSUME NEW s, Sure(s), Unstake(s)
  PROVE  Moves(s)
<1> DEFINE k == session[s]
           w == W(k.req.user)
           n == k.req.amount
           l == Add(k, w, "staked", -n)
<1>1. k.req.op \in OwnRequests /\ k.pc = "loaded"
  BY DEF Unstake, At, OwnRequests
<1>2. Good(s, k) /\ HasWallet(k.req.user) /\ n \in Nat /\ w \in DOMAIN k.read
  BY <1>1, OwnIs
<1>3. CASE ~(Copy(k, w).staked < n) /\ Commit(s, Add(l, w, "vit", n))
  <2>1. Good(s, l)
    BY <1>2, <1>3, GoodByDebit DEF WalletColumns
  <2>2. w \in DOMAIN l.read
    BY <1>2, <2>1, Stays
  <2>3. Good(s, Add(l, w, "vit", n))
    BY <1>2, <2>1, <2>2, GoodByCredit DEF WalletColumns
  <2>. QED
    BY <1>3, <2>3, MoveCommit
<1>. QED
  BY <1>3, MoveRefuse DEF Unstake, Args, Balance, Wallet

(* The row that a request names is of the table its route names.           *)
LEMMA RowIs ==
  ASSUME NEW s, Sure(s), session[s].req.op \in DOMAIN TableOf
  PROVE  /\ session[s].req.row \in Rows
         /\ session[s].req.row[1] = TableOf[session[s].req.op]
BY DEF Sure, WellFormed, Proper

LEMMA BuyOrSellMoves ==
  ASSUME NEW s, Sure(s), BuyOrSell(s)
  PROVE  Moves(s)
<1> DEFINE k == session[s]
           a == k.req
           w == W(a.user)
           n == a.amount
           l == Add(k, w, a.from, -n)
           m == Add(l, w, a.to, n)
           x == [from |-> a.from, to |-> a.to, amount |-> n]
<1>1. a.op = "exchange" /\ a.op \in OwnRequests /\ k.pc = "loaded"
  BY DEF BuyOrSell, At, OwnRequests
<1>2. /\ Good(s, k) /\ HasWallet(a.user) /\ n \in Nat /\ w \in DOMAIN k.read
      /\ a.from \in WalletColumns /\ a.to \in WalletColumns
  BY <1>1, OwnIs DEF Currencies, WalletColumns
<1>3. Free(a.row)
  BY <1>1, RowIs, TrackedIs DEF TableOf, Free, Reserved
<1>4. CASE ~(Copy(k, w)[a.from] < n) /\ Commit(s, Insert(m, a.row, x))
  <2>1. Good(s, l)
    BY <1>2, <1>4, GoodByDebit
  <2>2. w \in DOMAIN l.read
    BY <1>2, <2>1, Stays
  <2>3. Good(s, m)
    BY <1>2, <2>1, <2>2, GoodByCredit
  <2>4. DOMAIN x # {}
    OBVIOUS
  <2>. HIDE DEF l, m, x
  <2>5. Good(s, Insert(m, a.row, x))
    BY <1>3, <2>3, <2>4, GoodByFreeInsert
  <2>. QED
    BY <1>4, <2>5, MoveCommit
<1>. QED
  BY <1>4, MoveRefuse DEF BuyOrSell, Args, Balance, Wallet

LEMMA SubscribeMoves ==
  ASSUME NEW s, Sure(s), Subscribe(s)
  PROVE  Moves(s)
<1> DEFINE k == session[s]
           a == k.req
           w == W(a.user)
           n == a.amount
           l == Add(k, w, a.column, -n)
           x == [user |-> a.user, column |-> a.column, amount |-> n]
<1>1. a.op = "subscribe" /\ a.op \in OwnRequests /\ k.pc = "loaded"
  BY DEF Subscribe, At, OwnRequests
<1>2. /\ Good(s, k) /\ HasWallet(a.user) /\ n \in Nat /\ w \in DOMAIN k.read
      /\ a.column \in WalletColumns
  BY <1>1, OwnIs DEF Currencies, WalletColumns
<1>3. Free(a.row)
  BY <1>1, RowIs, TrackedIs DEF TableOf, Free, Reserved
<1>4. CASE ~(Copy(k, w)[a.column] < n) /\ Commit(s, Insert(l, a.row, x))
  <2>1. Good(s, l)
    BY <1>2, <1>4, GoodByDebit
  <2>4. DOMAIN x # {}
    OBVIOUS
  <2>. HIDE DEF l, x
  <2>5. Good(s, Insert(l, a.row, x))
    BY <1>3, <2>1, <2>4, GoodByFreeInsert
  <2>. QED
    BY <1>4, <2>5, MoveCommit
<1>. QED
  BY <1>4, MoveRefuse DEF Subscribe, Args, Balance, Wallet

LEMMA CreateVaultMoves ==
  ASSUME NEW s, Sure(s), CreateVault(s)
  PROVE  Moves(s)
<1> DEFINE k == session[s]
           a == k.req
           r == a.row
           w == W(a.user)
           n == a.amount
           l == Add(k, w, a.column, -n)
           x == [user |-> a.user, column |-> a.column, balance |-> n,
                 locked |-> TRUE, active |-> TRUE]
<1>1. a.op = "create_vault" /\ a.op \in OwnRequests /\ k.pc = "loaded"
  BY DEF CreateVault, At, OwnRequests
<1>2. /\ Good(s, k) /\ HasWallet(a.user) /\ n \in Nat /\ w \in DOMAIN k.read
      /\ a.column \in Currencies
  BY <1>1, OwnIs
<1>3. r[1] = "vault"
  BY <1>1, RowIs DEF TableOf
<1>4. CASE ~(Copy(k, w)[a.column] < n) /\ Commit(s, Insert(l, r, x))
  <2>1. Good(s, l)
    BY <1>2, <1>4, GoodByDebit DEF Currencies, WalletColumns
  <2>2. MayInsert(l, r, x)
    <3>1. RowFits(r, x) /\ RowFull(r, x)
      BY <1>2, <1>3 DEF RowFits, RowFull, Fits, Typed, Counted, Personal, Priced, Linked
    <3>. HIDE DEF l
    <3>2. Entitled(l.req, r, x)
      BY <1>3, Unguarded DEF Reserved
    <3>. QED
      BY <3>1, <3>2 DEF MayInsert
  <2>. HIDE DEF l, x
  <2>3. Good(s, Insert(l, r, x))
    BY <2>1, <2>2, GoodByInsert
  <2>. QED
    BY <1>4, <2>3, MoveCommit
<1>. QED
  BY <1>4, MoveRefuse DEF CreateVault, Args, Balance, Wallet

LEMMA WithdrawRequestMoves ==
  ASSUME NEW s, Sure(s), WithdrawRequest(s)
  PROVE  Moves(s)
<1> DEFINE k == session[s]
           a == k.req
           r == a.row
           w == W(a.user)
           n == a.amount
           l == Add(k, w, a.column, -n)
           x == [user |-> a.user, column |-> a.column, amount |-> n, status |-> "pending"]
<1>1. a.op = "withdraw" /\ a.op \in OwnRequests /\ k.pc = "loaded"
  BY DEF WithdrawRequest, At, OwnRequests
<1>2. /\ Good(s, k) /\ HasWallet(a.user) /\ n \in Nat /\ w \in DOMAIN k.read
      /\ a.column \in Currencies
  BY <1>1, OwnIs
<1>3. r[1] = "withdrawal"
  BY <1>1, RowIs DEF TableOf
<1>4. CASE ~(Copy(k, w)[a.column] < n) /\ Commit(s, Insert(l, r, x))
  <2>1. Good(s, l)
    BY <1>2, <1>4, GoodByDebit DEF Currencies, WalletColumns
  <2>2. MayInsert(l, r, x)
    <3>1. RowFits(r, x) /\ RowFull(r, x)
      BY <1>2, <1>3 DEF RowFits, RowFull, Fits, Typed, Counted, Personal, Priced, Linked
    <3>. HIDE DEF l
    <3>2. Entitled(l.req, r, x)
      BY <1>3, Unguarded DEF Reserved
    <3>. QED
      BY <3>1, <3>2 DEF MayInsert
  <2>. HIDE DEF l, x
  <2>3. Good(s, Insert(l, r, x))
    BY <2>1, <2>2, GoodByInsert
  <2>. QED
    BY <1>4, <2>3, MoveCommit
<1>. QED
  BY <1>4, MoveRefuse DEF WithdrawRequest, Args, Balance, Wallet

LEMMA InitiateDepositMoves ==
  ASSUME NEW s, Sure(s), InitiateDeposit(s)
  PROVE  Moves(s)
<1> DEFINE k == session[s]
           a == k.req
           r == a.row
           x == [user |-> a.user, column |-> a.column, amount |-> a.amount,
                 status |-> "pending"]
<1>1. a.op = "deposit" /\ a.op \in OwnRequests /\ k.pc = "loaded"
  BY DEF InitiateDeposit, At, OwnRequests
<1>2. Good(s, k) /\ HasWallet(a.user) /\ a.amount \in Nat /\ a.column \in Currencies
  BY <1>1, OwnIs
<1>3. r[1] = "deposit"
  BY <1>1, RowIs DEF TableOf
<1>4. Commit(s, Insert(k, r, x))
  BY DEF InitiateDeposit, Args
<1>5. MayInsert(k, r, x)
  <2>1. RowFits(r, x) /\ RowFull(r, x)
    BY <1>2, <1>3 DEF RowFits, RowFull, Fits, Typed, Counted, Personal, Priced, Linked
  <2>2. Entitled(k.req, r, x)
    BY <1>3, Unguarded DEF Reserved
  <2>. QED
    BY <2>1, <2>2 DEF MayInsert
<1>. HIDE DEF x
<1>6. Good(s, Insert(k, r, x))
  BY <1>2, <1>5, GoodByInsert
<1>. QED
  BY <1>4, <1>6, MoveCommit

LEMMA CopyThere ==
  ASSUME NEW k, NEW r, Copy(k, r) # Absent
  PROVE  Exists(k, r)
BY DEF Copy, Exists

LEMMA WithdrawVaultLoadMoves ==
  ASSUME NEW s, Sure(s), WithdrawVaultLoad(s)
  PROVE  Moves(s)
<1> DEFINE k == session[s]
           r == k.req.row
           l == Load(k, r)
           m == Load(k, W(k.req.user))
<1>1. k.req.op = "withdraw_vault" /\ k.req.op \in WalletRequests
  BY DEF WithdrawVaultLoad, At, WalletRequests
<1>2. Good(s, k) /\ WalletCarried(k, k.pc)
  BY <1>1, InWallet
<1>3. CASE Query(s, l, "vault")
  <2>1. Good(s, l) /\ HasLoaded(l, k, r)
    BY <1>2, RowIsLoaded
  <2>. HIDE DEF l
  <2>2. WalletCarried(l, "vault") /\ l.req.op \in WalletRequests
    BY <1>1, <2>1 DEF WalletCarried, HasLoaded
  <2>. QED
    BY <1>3, <2>1, <2>2, ToWallet, MoveQuery
<1>4. CASE k.pc = "vault" /\ Copy(k, r) # Absent /\ Query(s, m, "wallet")
  <2>1. Good(s, m) /\ HasLoaded(m, k, W(k.req.user))
    BY <1>2, RowIsLoaded
  <2>2. r \in Known(k)
    BY <1>1, <1>2, <1>4, CopyThere DEF WalletCarried, Known
  <2>. HIDE DEF m
  <2>3. WalletCarried(m, "wallet") /\ m.req.op \in WalletRequests
    BY <1>1, <2>1, <2>2 DEF WalletCarried, HasLoaded, Known
  <2>. QED
    BY <1>4, <2>1, <2>3, ToWallet, MoveQuery
<1>. QED
  BY <1>3, <1>4, MoveRefuse DEF WithdrawVaultLoad, At, Args, Row

LEMMA WithdrawVaultMoves ==
  ASSUME NEW s, Sure(s), WithdrawVault(s)
  PROVE  Moves(s)
<1> DEFINE k == session[s]
           r == k.req.row
           w == W(k.req.user)
           v == Copy(k, r)
           l == Add(k, w, v.column, v.balance + Yield)
           x == [active |-> FALSE]
           m == Set(l, r, x)
<1>1. k.req.op = "withdraw_vault" /\ k.req.op \in WalletRequests /\ k.pc = "wallet"
  BY DEF WithdrawVault, At, WalletRequests
<1>2. Good(s, k) /\ WalletCarried(k, k.pc) /\ WellFormed(k.req)
  BY <1>1, InWallet
<1>3. /\ r \in Rows /\ r[1] = "vault" /\ HasWallet(k.req.user)
      /\ r \in Known(k) /\ w \in DOMAIN k.read
  BY <1>1, <1>2, RowIs DEF WellFormed, TableOf, UserRequests, WalletCarried, Known
<1>4. v.column \in Currencies /\ v.balance \in Nat
  BY <1>2, <1>3, CopyColumn, CopyCounted DEF Typed, Priced, Counted, Fits
<1>5. Good(s, l)
  <2>1. v.column \in WalletColumns /\ v.balance + Yield \in Nat
    BY <1>4, WalletAmounts DEF Currencies, WalletColumns
  <2>. HIDE DEF v
  <2>. QED
    BY <1>2, <1>3, <2>1, GoodByCredit
<1>6. Untyped(r, x) /\ r[1] \notin Reserved
  BY <1>3 DEF Untyped, Typed, Counted, Personal, Priced, Linked, Reserved
<1>7. Commit(s, Pay(m, r))
  BY DEF WithdrawVault, Row, Args
<1>. HIDE DEF l, x
<1>8. r \in Known(l)
  BY <1>3, <1>5, Stays
<1>9. Good(s, m)
  BY <1>5, <1>6, <1>8, GoodByMark
<1>. HIDE DEF m
<1>. QED
  BY <1>7, <1>9, GoodByPay, MoveCommit

LEMMA ApproveMoves ==
  ASSUME NEW s, Sure(s), Approve(s)
  PROVE  Moves(s)
<1> DEFINE k == session[s]
           r == k.req.row
           l == Load(k, r)
           x == [status |-> "approved"]
<1>1. k.req.op = "approve" /\ k.req.op \in WalletRequests
  BY DEF Approve, At, WalletRequests
<1>2. Good(s, k) /\ WalletCarried(k, k.pc)
  BY <1>1, InWallet
<1>3. CASE Query(s, l, "request")
  <2>1. Good(s, l) /\ HasLoaded(l, k, r)
    BY <1>2, RowIsLoaded
  <2>. HIDE DEF l
  <2>2. WalletCarried(l, "request") /\ l.req.op \in WalletRequests
    BY <1>1, <2>1 DEF WalletCarried, HasLoaded
  <2>. QED
    BY <1>3, <2>1, <2>2, ToWallet, MoveQuery
<1>4. CASE k.pc = "request" /\ Copy(k, r) # Absent /\ Commit(s, Set(k, r, x))
  <2>1. r \in Known(k)
    BY <1>1, <1>2, <1>4, CopyThere DEF WalletCarried, Known
  <2>2. Untyped(r, x) /\ r[1] \notin Reserved
    BY <1>1, RowIs DEF TableOf, Untyped, Typed, Counted, Personal, Priced, Linked, Reserved
  <2>. HIDE DEF x
  <2>3. Good(s, Set(k, r, x))
    BY <1>2, <2>1, <2>2, GoodByMark
  <2>. QED
    BY <1>4, <2>3, MoveCommit
<1>. QED
  BY <1>3, <1>4, MoveRefuse DEF Approve, At, Args, Row

LEMMA GatekeepMoves ==
  ASSUME NEW s, Sure(s), Gatekeep(s)
  PROVE  Moves(s)
<1> DEFINE k == session[s]
           S == {r \in Rows : /\ r[1] = "withdrawal"
                              /\ table[r] # Absent /\ table[r].status = "pending"}
           T == {r \in Known(k) : r[1] = "withdrawal"}
           l == LoadAll(k, S)
           f(v) == [r \in T |-> [status |-> v[r]]]
<1>1. k.req.op = "gatekeeper" /\ k.req.op \in WalletRequests
  BY DEF Gatekeep, At, WalletRequests
<1>2. Good(s, k)
  BY <1>1, InWallet
<1>3. CASE Query(s, l, "requests")
  <2>1. Good(s, l)
    BY <1>2, GoodByLoadAll
  <2>. HIDE DEF l
  <2>2. l.req = k.req
    BY <1>1, <2>1, Stays
  <2>3. WalletCarried(l, "requests") /\ l.req.op \in WalletRequests
    BY <1>1, <2>2 DEF WalletCarried
  <2>. QED
    BY <1>3, <2>1, <2>3, ToWallet, MoveQuery
<1>4. ASSUME NEW v, Commit(s, SetEach(k, f(v))) PROVE Moves(s)
  <2>1. ASSUME NEW r \in DOMAIN f(v) PROVE May(k, r, f(v)[r])
    <3>1. r \in Known(k) /\ r[1] = "withdrawal"
      BY <2>1
    <3> DEFINE x == [status |-> v[r]]
    <3>2. f(v)[r] = x
      BY <2>1
    <3>3. RowFits(r, x)
      BY <3>1 DEF RowFits, Fits, Counted, Personal, Priced, Linked
    <3>. HIDE DEF x, f
    <3>4. Entitled(k.req, r, x) /\ ~MustBeNew(k.req, r)
      BY <3>1, Unguarded DEF Reserved
    <3>. QED
      BY <3>1, <3>2, <3>3, <3>4 DEF May, Known
  <2> DEFINE g == f(v)
  <2>2. \A r \in DOMAIN g : May(k, r, g[r])
    BY <2>1
  <2>3. Commit(s, SetEach(k, g))
    BY <1>4
  <2>. HIDE DEF g
  <2>. QED
    BY <1>2, <2>2, <2>3, GoodByEach, MoveCommit
<1>. QED
  <2>1. \/ Query(s, l, "requests")
        \/ \E v \in [T -> {"processed", "manual_review"}] : Commit(s, SetEach(k, f(v)))
    BY DEF Gatekeep
  <2>. HIDE DEF f, l
  <2>. QED
    BY <1>3, <1>4, <2>1

LEMMA RejectMoves ==
  ASSUME NEW s, Sure(s), Reject(s)
  PROVE  Moves(s)
<1> DEFINE k == session[s]
           r == k.req.row
           l == Load(k, r)
           x == [status |-> "rejected"]
           m == Set(k, r, x)
           w == W(Copy(k, r).user)
           n == Load(m, w)
<1>1. k.req.op = "reject" /\ k.req.op \in WalletRequests
  BY DEF Reject, At, WalletRequests
<1>2. Good(s, k) /\ WalletCarried(k, k.pc)
  BY <1>1, InWallet
<1>3. CASE Query(s, l, "request")
  <2>1. Good(s, l) /\ HasLoaded(l, k, r)
    BY <1>2, RowIsLoaded
  <2>. HIDE DEF l
  <2>2. WalletCarried(l, "request") /\ l.req.op \in WalletRequests
    BY <1>1, <2>1 DEF WalletCarried, HasLoaded
  <2>. QED
    BY <1>3, <2>1, <2>2, ToWallet, MoveQuery
<1>4. CASE k.pc = "request" /\ Copy(k, r) # Absent /\ Query(s, n, "wallet")
  <2>1. r \in Known(k) /\ r \in Rows /\ r[1] = "withdrawal"
    BY <1>1, <1>2, <1>4, RowIs, CopyThere DEF WalletCarried, Known, TableOf
  <2>2. Untyped(r, x) /\ r[1] \notin Reserved /\ DOMAIN x = {"status"}
    BY <2>1 DEF Untyped, Typed, Counted, Personal, Priced, Linked, Reserved
  <2>3. "user" \in DOMAIN Copy(k, r)
    BY <1>2, <2>1, CopyPersonal DEF Personal
  <2>. HIDE DEF x
  <2>4. Good(s, m)
    BY <1>2, <2>1, <2>2, GoodByMark
  <2>5. IsSet(m, k, r, x)
    BY <1>2, SetIs
  <2>6. r \in Known(m)
    BY <2>1, <2>4, Stays
  <2>7. m.req = k.req
    BY <1>1, <2>4, Stays
  <2>. HIDE DEF m
  <2>8. Good(s, n) /\ HasLoaded(n, m, w)
    BY <2>4, RowIsLoaded
  <2>. HIDE DEF n
  <2>9. Payee(n) = w
    BY <2>2, <2>3, <2>5, <2>6, <2>7, <2>8 DEF Payee, HasLoaded, IsSet
  <2>10. WalletCarried(n, "wallet") /\ n.req.op \in WalletRequests
    BY <1>1, <2>6, <2>7, <2>8, <2>9 DEF WalletCarried, HasLoaded, Known
  <2>. QED
    BY <1>4, <2>8, <2>10, ToWallet, MoveQuery
<1>. QED
  BY <1>3, <1>4, MoveRefuse DEF Reject, At, Args, Row

LEMMA RefundMoves ==
  ASSUME NEW s, Sure(s), Refund(s)
  PROVE  Moves(s)
<1> DEFINE k == session[s]
           r == k.req.row
           v == Copy(k, r)
           l == Add(k, W(v.user), "vit", v.amount)
<1>1. k.req.op = "reject" /\ k.req.op \in WalletRequests /\ k.pc = "wallet"
  BY DEF Refund, At, WalletRequests
<1>2. Good(s, k) /\ WalletCarried(k, k.pc)
  BY <1>1, InWallet
<1>3. r \in Rows /\ r[1] = "withdrawal" /\ r \in Known(k) /\ W(v.user) \in DOMAIN k.read
  BY <1>1, <1>2, RowIs DEF TableOf, WalletCarried, Known, Payee
<1>4. HasWallet(v.user) /\ v.amount \in Nat
  BY <1>2, <1>3, CopyPersonal, CopyCounted DEF Personal, Counted
<1>5. Commit(s, Pay(l, r))
  BY DEF Refund, Row, Args
<1>. HIDE DEF v
<1>6. Good(s, l)
  BY <1>2, <1>3, <1>4, GoodByCredit DEF WalletColumns
<1>. HIDE DEF l
<1>. QED
  BY <1>5, <1>6, GoodByPay, MoveCommit

LEMMA VerifyLoadMoves ==
  ASSUME NEW s, Sure(s), VerifyLoad(s)
  PROVE  Moves(s)
<1> DEFINE k == session[s]
           r == k.req.row
           w == W(k.req.user)
           l == Load(k, w)
           m == Load(k, r)
<1>1. k.req.op = "verify" /\ k.req.op \in WalletRequests
  BY DEF VerifyLoad, At, WalletRequests
<1>2. Good(s, k) /\ WalletCarried(k, k.pc)
  BY <1>1, InWallet
<1>3. CASE Query(s, l, "tx")
  <2>1. Good(s, l) /\ HasLoaded(l, k, w)
    BY <1>2, RowIsLoaded
  <2>. HIDE DEF l
  <2>2. WalletCarried(l, "tx") /\ l.req.op \in WalletRequests
    BY <1>1, <2>1 DEF WalletCarried, HasLoaded
  <2>. QED
    BY <1>3, <2>1, <2>2, ToWallet, MoveQuery
<1>4. CASE k.pc = "tx" /\ Query(s, m, "settle")
  <2>1. Good(s, m) /\ HasLoaded(m, k, r)
    BY <1>2, RowIsLoaded
  <2>. HIDE DEF m
  <2>2. WalletCarried(m, "settle") /\ m.req.op \in WalletRequests
    BY <1>1, <1>2, <1>4, <2>1 DEF WalletCarried, HasLoaded
  <2>. QED
    BY <1>4, <2>1, <2>2, ToWallet, MoveQuery
<1>. QED
  BY <1>3, <1>4 DEF VerifyLoad, At, Args, Row

LEMMA GoodByDeposit ==
  ASSUME NEW s, NEW k, Good(s, k), NEW a, a.row \in DOMAIN k.read, a.row[1] = "deposit",
         HasWallet(a.user), a.amount \in Nat, a.column \in Currencies
  PROVE  Good(s, Deposit(k, a))
<1> DEFINE r == a.row
           x == [status |-> "confirmed", amount |-> a.amount]
           y == [user |-> a.user, column |-> a.column, amount |-> a.amount,
                 status |-> "confirmed"]
<1>1. RowFits(r, x) /\ RowFits(r, y) /\ RowFull(r, y)
  BY DEF RowFits, RowFull, Fits, Typed, Counted, Personal, Priced, Linked
<1>2. DOMAIN y # {}
  OBVIOUS
<1>. HIDE DEF x, y
<1>3. Entitled(k.req, r, x) /\ Entitled(k.req, r, y) /\ ~MustBeNew(k.req, r)
  BY Unguarded DEF Reserved
<1>4. Exists(k, r) => Good(s, Set(k, r, x))
  BY <1>1, <1>3, GoodBySet DEF May
<1>5. Good(s, Insert(k, r, y))
  BY <1>1, <1>2, <1>3, GoodByInsert DEF MayInsert
<1>. QED
  BY <1>4, <1>5 DEF Deposit, x, y

LEMMA SettleMoves ==
  ASSUME NEW s, Sure(s), Settle(s)
  PROVE  Moves(s)
<1> DEFINE k == session[s]
           a == k.req
           l == Deposit(k, a)
           m == Add(l, W(a.user), a.column, a.amount)
           n == Reference(m, <<"CREDIT", a.row>>, 0)
<1>1. a.op = "verify" /\ a.op \in WalletRequests /\ k.pc = "settle"
  BY DEF Settle, At, WalletRequests
<1>2. Good(s, k) /\ WalletCarried(k, k.pc) /\ WellFormed(a)
  BY <1>1, InWallet
<1>3. /\ a.row \in DOMAIN k.read /\ a.row[1] = "deposit" /\ W(a.user) \in DOMAIN k.read
      /\ HasWallet(a.user) /\ a.amount \in Nat /\ a.column \in Currencies
  BY <1>1, <1>2, RowIs
     DEF TableOf, WalletCarried, WellFormed, UserRequests, AmountRequests
<1>4. CASE Commit(s, Pay(n, a.row))
  <2>1. Good(s, l)
    BY <1>2, <1>3, GoodByDeposit
  <2>2. W(a.user) \in DOMAIN l.read
    BY <1>3, <2>1, Stays
  <2>3. Good(s, m)
    BY <1>3, <2>1, <2>2, GoodByCredit DEF Currencies, WalletColumns
  <2>. HIDE DEF m
  <2>4. Good(s, n)
    BY <2>3, GoodByReference
  <2>. HIDE DEF n
  <2>. QED
    BY <1>4, <2>4, GoodByPay, MoveCommit
<1>. QED
  BY <1>4, MoveEnd DEF Settle, Args, Closings

LEMMA WebhookLoadMoves ==
  ASSUME NEW s, Sure(s), WebhookLoad(s)
  PROVE  Moves(s)
<1> DEFINE k == session[s]
           r == k.req.row
           w == W(Copy(k, r).user)
           l == Load(k, r)
           m == Load(k, w)
<1>1. k.req.op = "webhook" /\ k.req.op \in WalletRequests
  BY DEF WebhookLoad, At, WalletRequests
<1>2. Good(s, k) /\ WalletCarried(k, k.pc)
  BY <1>1, InWallet
<1>3. CASE Query(s, l, "tx")
  <2>1. Good(s, l) /\ HasLoaded(l, k, r)
    BY <1>2, RowIsLoaded
  <2>. HIDE DEF l
  <2>2. WalletCarried(l, "tx") /\ l.req.op \in WalletRequests
    BY <1>1, <2>1 DEF WalletCarried, HasLoaded
  <2>. QED
    BY <1>3, <2>1, <2>2, ToWallet, MoveQuery
<1>4. CASE k.pc = "tx" /\ Copy(k, r) # Absent /\ Query(s, m, "wallet")
  <2>1. r \in Known(k)
    BY <1>1, <1>2, <1>4, CopyThere DEF WalletCarried, Known
  <2>2. Good(s, m) /\ HasLoaded(m, k, w)
    BY <1>2, RowIsLoaded
  <2>. HIDE DEF m
  <2>3. WalletCarried(m, "wallet") /\ m.req.op \in WalletRequests
    BY <1>1, <2>1, <2>2 DEF WalletCarried, HasLoaded, Known, Payee
  <2>. QED
    BY <1>4, <2>2, <2>3, ToWallet, MoveQuery
<1>. QED
  BY <1>3, <1>4, MoveRefuse DEF WebhookLoad, At, Args, Row

LEMMA WebhookCreditMoves ==
  ASSUME NEW s, Sure(s), WebhookCredit(s)
  PROVE  Moves(s)
<1> DEFINE k == session[s]
           r == k.req.row
           v == Copy(k, r)
           l == Add(k, W(v.user), v.column, v.amount)
           x == [status |-> "confirmed"]
           m == Set(l, r, x)
<1>1. k.req.op = "webhook" /\ k.req.op \in WalletRequests /\ k.pc = "wallet"
  BY DEF WebhookCredit, At, WalletRequests
<1>2. Good(s, k) /\ WalletCarried(k, k.pc)
  BY <1>1, InWallet
<1>3. r \in Rows /\ r[1] = "deposit" /\ r \in Known(k) /\ W(v.user) \in DOMAIN k.read
  BY <1>1, <1>2, RowIs DEF TableOf, WalletCarried, Known, Payee
<1>4. HasWallet(v.user) /\ v.amount \in Nat
  BY <1>2, <1>3, CopyPersonal, CopyCounted DEF Personal, Counted
<1>5. v.column \in WalletColumns
  <2>1. <<r[1], "column">> \in Typed /\ <<r[1], "column">> \in Priced
    BY <1>3 DEF Typed, Priced
  <2>2. Fits(r[1], "column", v.column)
    BY <1>2, <1>3, <2>1, CopyColumn
  <2>. QED
    BY <2>1, <2>2 DEF Fits, Currencies, WalletColumns
<1>6. Commit(s, Pay(m, r))
  BY DEF WebhookCredit, Row, Args
<1>7. Untyped(r, x) /\ r[1] \notin Reserved
  BY <1>3 DEF Untyped, Typed, Counted, Personal, Priced, Linked, Reserved
<1>. HIDE DEF v, x
<1>8. Good(s, l)
  BY <1>2, <1>3, <1>4, <1>5, GoodByCredit
<1>. HIDE DEF l
<1>9. r \in Known(l)
  BY <1>3, <1>8, Stays
<1>10. Good(s, m)
  BY <1>7, <1>8, <1>9, GoodByMark
<1>. HIDE DEF m
<1>. QED
  BY <1>6, <1>10, GoodByPay, MoveCommit

LEMMA FailPendingMoves ==
  ASSUME NEW s, Sure(s), FailPending(s)
  PROVE  Moves(s)
<1> DEFINE k == session[s]
           r == k.req.row
           l == Load(k, r)
           x == [status |-> "failed"]
<1>1. k.req.op = "fail" /\ k.req.op \in WalletRequests
  BY DEF FailPending, At, WalletRequests
<1>2. Good(s, k) /\ WalletCarried(k, k.pc)
  BY <1>1, InWallet
<1>3. CASE table[r] # Absent /\ Query(s, l, "tx")
  <2>1. Good(s, l) /\ HasLoaded(l, k, r)
    BY <1>2, RowIsLoaded
  <2>. HIDE DEF l
  <2>2. WalletCarried(l, "tx") /\ l.req.op \in WalletRequests
    BY <1>1, <1>3, <2>1 DEF WalletCarried, HasLoaded
  <2>. QED
    BY <1>3, <2>1, <2>2, ToWallet, MoveQuery
<1>4. CASE k.pc = "tx" /\ Commit(s, Set(k, r, x))
  <2>1. r \in Known(k)
    BY <1>1, <1>2, <1>4 DEF WalletCarried
  <2>2. Untyped(r, x) /\ r[1] \notin Reserved
    BY <1>1, RowIs DEF TableOf, Untyped, Typed, Counted, Personal, Priced, Linked, Reserved
  <2>. HIDE DEF x
  <2>3. Good(s, Set(k, r, x))
    BY <1>2, <2>1, <2>2, GoodByMark
  <2>. QED
    BY <1>4, <2>3, MoveCommit
<1>. QED
  BY <1>3, <1>4, MoveRefuse DEF FailPending, At, Args, Row

LEMMA RewardLoadMoves ==
  ASSUME NEW s, Sure(s), RewardLoad(s)
  PROVE  Moves(s)
<1> DEFINE k == session[s]
           w == W(k.req.user)
           l == Load(k, w)
<1>1. k.req.op = "reward" /\ k.req.op \in WalletRequests
  BY DEF RewardLoad, At, WalletRequests
<1>2. Good(s, k)
  BY <1>1, InWallet
<1>3. CASE Query(s, k, "wallet")
  <2>1. WalletCarried(k, "wallet")
    BY <1>1 DEF WalletCarried
  <2>. QED
    BY <1>1, <1>2, <1>3, <2>1, ToWallet, MoveQuery
<1>4. CASE Query(s, l, "credit")
  <2>1. Good(s, l) /\ HasLoaded(l, k, w)
    BY <1>2, RowIsLoaded
  <2>. HIDE DEF l
  <2>2. WalletCarried(l, "credit") /\ l.req.op \in WalletRequests
    BY <1>1, <2>1 DEF WalletCarried, HasLoaded
  <2>. QED
    BY <1>4, <2>1, <2>2, ToWallet, MoveQuery
<1>. QED
  BY <1>3, <1>4, MoveEnd DEF RewardLoad, At, Args, Closings

LEMMA RewardMoves ==
  ASSUME NEW s, Sure(s), Reward(s)
  PROVE  Moves(s)
<1> DEFINE k == session[s]
           a == k.req
           l == Add(k, W(a.user), "vit", a.amount)
           m == Reference(l, a.key, a.amount)
<1>1. a.op = "reward" /\ a.op \in WalletRequests /\ k.pc = "credit"
  BY DEF Reward, At, WalletRequests
<1>2. Good(s, k) /\ WalletCarried(k, k.pc) /\ WellFormed(a)
  BY <1>1, InWallet
<1>3. W(a.user) \in DOMAIN k.read /\ HasWallet(a.user) /\ a.amount \in Nat
  BY <1>1, <1>2 DEF WalletCarried, WellFormed, UserRequests, AmountRequests
<1>4. Commit(s, Pay(m, Ref(a.key)))
  BY DEF Reward, Args
<1>5. Good(s, l)
  BY <1>2, <1>3, GoodByCredit DEF WalletColumns
<1>. HIDE DEF l
<1>6. Good(s, m)
  BY <1>5, GoodByReference
<1>. HIDE DEF m
<1>. QED
  BY <1>4, <1>6, GoodByPay, MoveCommit

LEMMA OpenWalletMoves ==
  ASSUME NEW s, Sure(s), OpenWallet(s)
  PROVE  Moves(s)
<1> DEFINE k == session[s]
           w == W(k.req.user)
           i == Insert(k, w, NewWallet)
           h == Load(k, w)
           l == Closed(k, "bonus")
           x == Only(w, table[w])
           m == [l EXCEPT !.read = x]
<1>1. k.req.op = "open" /\ k.req.op \in WalletRequests
  BY DEF OpenWallet, At, WalletRequests
<1>2. Good(s, k) /\ WellFormed(k.req) /\ IsSession(k)
  BY <1>1, InWallet DEF Good, Firm
<1>3. CASE table[w] # Absent /\ Keep(s, m) /\ UNCHANGED <<store, faults>>
  <2>1. /\ IsSession(l) /\ l.req = k.req /\ l.wrote = <<>> /\ l.old = {}
        /\ l.gone = {} /\ l.pc = "bonus"
    BY ClosedIs
  <2>2. DOMAIN x = {w} /\ x[w] = table[w]
    BY OnlyIs
  <2>3. m = [l EXCEPT !.read = x]
    OBVIOUS
  <2>. HIDE DEF l, x, m
  <2>4. /\ IsSession(m) /\ m.req = k.req /\ m.wrote = <<>> /\ m.gone = {} /\ m.read = x
        /\ m.pc = "bonus"
    BY <2>1, <2>3 DEF IsSession
  <2>5. DOMAIN m.wrote = {} /\ Founded(table)
    BY <1>2, <2>4 DEF Good, Firm
  <2>6. Reads(m)
    BY <2>2, <2>4, <2>5 DEF Reads, Founded
  <2>7. Stands(m)
    BY <1>3, <2>2, <2>4 DEF Stands, Exists
  <2>8. Writes(m) /\ Framed(m)
    BY <2>5 DEF Writes, Framed
  <2>9. Firm(s, m)
    BY <2>4, <2>5, <2>6, <2>7, <2>8 DEF Firm, Solid, SameRequest
  <2>10. w \in Known(m)
    BY <1>3, <2>2, <2>4 DEF Known, Exists
  <2>11. WalletCarried(m, "bonus") /\ m.req.op \in WalletRequests
    BY <1>1, <2>4, <2>10 DEF WalletCarried
  <2>. QED
    BY <1>3, <2>4, <2>5, <2>9, <2>11, ToWallet DEF Moves, Covered
<1>4. CASE Query(s, i, "bonus")
  <2>1. MayInsert(k, w, NewWallet)
    <3>1. w[1] = "wallet"
      BY DEF W
    <3>. HIDE DEF w
    <3>2. RowFits(w, NewWallet) /\ RowFull(w, NewWallet) /\ DOMAIN NewWallet # {}
      BY <3>1 DEF RowFits, RowFull, Fits, Typed, Counted, Personal, Priced, Linked,
                  NewWallet, WalletColumns
    <3>3. Entitled(k.req, w, NewWallet)
      BY <3>1, Unguarded DEF Reserved
    <3>. QED
      BY <3>2, <3>3 DEF MayInsert
  <2>2. Good(s, i)
    BY <1>2, <2>1, GoodByInsert
  <2>3. i.req = k.req
    BY <1>1, <2>2, Stays
  <2>4. w \in Known(i)
    BY <1>2, <2>1, InsertSees DEF MayInsert
  <2>. HIDE DEF i
  <2>5. WalletCarried(i, "bonus") /\ i.req.op \in WalletRequests
    BY <1>1, <2>3, <2>4 DEF WalletCarried
  <2>. QED
    BY <1>4, <2>2, <2>5, ToWallet, MoveQuery
<1>5. CASE Query(s, h, "load")
  <2>1. Good(s, h) /\ HasLoaded(h, k, w)
    BY <1>2, RowIsLoaded
  <2>. HIDE DEF h
  <2>2. WalletCarried(h, "load") /\ h.req.op \in WalletRequests
    BY <1>1, <2>1 DEF WalletCarried, HasLoaded
  <2>. QED
    BY <1>5, <2>1, <2>2, ToWallet, MoveQuery
<1>. QED
  BY <1>3, <1>4, <1>5, MoveEnd DEF OpenWallet, At, Args, Closings

LEMMA WelcomeBonusMoves ==
  ASSUME NEW s, Sure(s), WelcomeBonus(s)
  PROVE  Moves(s)
<1> DEFINE k == session[s]
           u == k.req.user
           w == W(u)
           l == Add(k, w, "vit", Bonus)
           m == Reference(l, <<"welcome", u>>, Bonus)
<1>1. k.req.op = "open" /\ k.req.op \in WalletRequests /\ k.pc = "bonus"
  BY DEF WelcomeBonus, At, WalletRequests
<1>2. Good(s, k) /\ WellFormed(k.req) /\ WalletCarried(k, k.pc)
  BY <1>1, InWallet
<1>3. w \in Rows /\ w \in Known(k) /\ w[1] = "wallet"
  BY <1>1, <1>2 DEF WellFormed, WalletCarried, W
<1>4. CASE Commit(s, Pay(m, Ref(<<"welcome", u>>)))
  <2>. HIDE DEF w
  <2>1. Copy(k, w).vit \in Nat
    BY <1>2, <1>3, CopyCounted DEF Counted
  <2>2. Copy(k, w).vit + Bonus \in Nat
    BY <2>1, WalletAmounts
  <2>3. Good(s, l)
    BY <1>2, <1>3, <2>2, GoodByAdd DEF Reserved, Counted
  <2>. HIDE DEF l
  <2>4. Good(s, m)
    BY <2>3, GoodByReference
  <2>. HIDE DEF m
  <2>. QED
    BY <1>4, <2>4, GoodByPay, MoveCommit
<1>. QED
  BY <1>4, MoveEnd DEF WelcomeBonus, Args, Closings

LEMMA ReferMoves ==
  ASSUME NEW s, Sure(s), Refer(s)
  PROVE  Moves(s)
<1> DEFINE k == session[s]
           a == k.req
           r == <<"referral", a.user>>
           x == [referrer |-> a.to]
           i == Insert(k, r, x)
           l == Load(i, W(a.to))
           m == Add(k, W(a.to), "vit", ReferralBonus)
           n == Load(m, W(a.user))
           o == Add(k, W(a.user), "vit", ReferralBonus)
<1>1. a.op = "refer" /\ a.op \in WalletRequests
  BY DEF Refer, At, WalletRequests
<1>2. Good(s, k) /\ WellFormed(a) /\ WalletCarried(k, k.pc)
  BY <1>1, InWallet
<1>3. HasWallet(a.user) /\ HasWallet(a.to)
  BY <1>1, <1>2 DEF WellFormed, UserRequests
<1>4. CASE Query(s, k, "code")
  <2>1. WalletCarried(k, "code")
    BY <1>1 DEF WalletCarried
  <2>. QED
    BY <1>1, <1>2, <1>4, <2>1, ToWallet, MoveQuery
<1>5. CASE Query(s, l, "first")
  <2>1. r[1] = "referral"
    OBVIOUS
  <2>. HIDE DEF r
  <2>2. MayInsert(k, r, x)
    BY <1>3, <2>1 DEF MayInsert, Entitled, RowFits, RowFull, Fits, Typed, Counted, Personal,
                      Priced, Linked
  <2>3. Good(s, i)
    BY <1>2, <2>2, GoodByInsert
  <2>4. i.req = a
    BY <1>1, <2>3, Stays
  <2>. HIDE DEF i
  <2>5. Good(s, l) /\ HasLoaded(l, i, W(a.to))
    BY <2>3, RowIsLoaded
  <2>. HIDE DEF l
  <2>6. WalletCarried(l, "first") /\ l.req.op \in WalletRequests
    BY <1>1, <2>4, <2>5 DEF WalletCarried, HasLoaded
  <2>. QED
    BY <1>5, <2>5, <2>6, ToWallet, MoveQuery
<1>6. CASE k.pc = "first" /\ Query(s, n, "second")
  <2>1. Good(s, m)
    BY <1>1, <1>2, <1>3, <1>6, WalletAmounts, GoodByCredit DEF WalletCarried, WalletColumns
  <2>2. m.req = a
    BY <1>1, <2>1, Stays
  <2>. HIDE DEF m
  <2>3. Good(s, n) /\ HasLoaded(n, m, W(a.user))
    BY <2>1, RowIsLoaded
  <2>. HIDE DEF n
  <2>4. WalletCarried(n, "second") /\ n.req.op \in WalletRequests
    BY <1>1, <2>2, <2>3 DEF WalletCarried, HasLoaded
  <2>. QED
    BY <1>6, <2>3, <2>4, ToWallet, MoveQuery
<1>7. CASE k.pc = "second" /\ Commit(s, Pay(o, r))
  <2>1. Good(s, o)
    BY <1>1, <1>2, <1>3, <1>7, WalletAmounts, GoodByCredit DEF WalletCarried, WalletColumns
  <2>. HIDE DEF o
  <2>. QED
    BY <1>7, <2>1, GoodByPay, MoveCommit
<1>. QED
  BY <1>4, <1>5, <1>6, <1>7, MoveRefuse DEF Refer, At, Args

LEMMA WalletStepMoves ==
  ASSUME NEW s, Sure(s), WalletStep(s)
  PROVE  Moves(s)
BY TransferLoadMoves, DebitMoves, CreditMoves, LoadOwnMoves, StakeMoves, UnstakeMoves,
   BuyOrSellMoves, SubscribeMoves, CreateVaultMoves, WithdrawVaultLoadMoves,
   WithdrawVaultMoves, WithdrawRequestMoves, ApproveMoves, RejectMoves, RefundMoves,
   GatekeepMoves, InitiateDepositMoves, VerifyLoadMoves, SettleMoves, WebhookLoadMoves,
   WebhookCreditMoves, FailPendingMoves, RewardLoadMoves, RewardMoves, OpenWalletMoves,
   WelcomeBonusMoves, ReferMoves
   DEF WalletStep

LEMMA InExchange ==
  ASSUME NEW s, Sure(s), session[s].req.op \in ExchangeRequests \ {"create_offer"}
  PROVE  /\ Good(s, session[s]) /\ WellFormed(session[s].req)
         /\ ExchangeCarried(session[s], session[s].pc)
         /\ session[s].req.row \in Rows
         /\ session[s].req.row[1] = TableOf[session[s].req.op]
BY CarriedByGroup, RowIs DEF Sure, ExchangeRequests, TableOf

LEMMA ToExchange ==
  ASSUME NEW k, k.req.op \in ExchangeRequests \ {"create_offer"},
         NEW pc, ExchangeCarried(k, pc)
  PROVE  Carried(k, pc)
BY CarriedByGroup

LEMMA LoadRowMoves ==
  ASSUME NEW s, Sure(s), LoadRow(s)
  PROVE  Moves(s)
<1> DEFINE k == session[s]
           r == k.req.row
           l == Load(k, r)
<1>1. k.req.op \in ExchangeRequests \ {"create_offer"}
  BY DEF LoadRow, Args, ExchangeRequests
<1>2. Good(s, k)
  BY <1>1, InExchange
<1>3. CASE table[r] # Absent /\ Query(s, l, "row")
  <2>1. Good(s, l) /\ HasLoaded(l, k, r)
    BY <1>2, RowIsLoaded
  <2>. HIDE DEF l
  <2>2. ExchangeCarried(l, "row") /\ l.req = k.req
    BY <1>1, <1>3, <2>1 DEF ExchangeCarried, HasLoaded
  <2>. QED
    BY <1>1, <1>3, <2>1, <2>2, ToExchange, MoveQuery
<1>. QED
  BY <1>3, MoveRefuse DEF LoadRow, Args, Row

LEMMA CreateOfferMoves ==
  ASSUME NEW s, Sure(s), CreateOffer(s)
  PROVE  Moves(s)
<1> DEFINE k == session[s]
           a == k.req
           r == a.row
           w == W(a.user)
           n == a.amount
           e == IF a.type = "sell" THEN n ELSE 0
           l == Add(k, w, "vit", -n)
           x == [user |-> a.user, type |-> a.type, status |-> "active",
                 total |-> n, available |-> n, escrowed |-> e]
<1>1. a.op = "create_offer" /\ a.op \in OwnRequests /\ k.pc = "loaded"
  BY DEF CreateOffer, At, OwnRequests
<1>2. Good(s, k) /\ HasWallet(a.user) /\ n \in Nat /\ w \in DOMAIN k.read
  BY <1>1, OwnIs
<1>3. r[1] = "offer"
  BY <1>1, RowIs DEF TableOf
<1>4. e \in Nat
  BY <1>2
<1>5. RowFits(r, x) /\ RowFull(r, x) /\ DOMAIN x # {}
  <2>. HIDE DEF e
  <2>. QED
    BY <1>2, <1>3, <1>4 DEF RowFits, RowFull, Fits, Typed, Counted, Personal, Priced, Linked
<1>6. CASE Commit(s, Insert(k, r, x))
  <2>. HIDE DEF x
  <2>1. MayInsert(k, r, x)
    BY <1>3, <1>5, Unguarded DEF MayInsert, Reserved
  <2>2. Good(s, Insert(k, r, x))
    BY <1>2, <2>1, GoodByInsert
  <2>. QED
    BY <1>6, <2>2, MoveCommit
<1>7. CASE ~(Copy(k, w).vit < n) /\ Commit(s, Insert(l, r, x))
  <2>. HIDE DEF x
  <2>1. Good(s, l)
    BY <1>2, <1>7, GoodByDebit DEF WalletColumns
  <2>. HIDE DEF l
  <2>2. MayInsert(l, r, x)
    BY <1>3, <1>5, Unguarded DEF MayInsert, Reserved
  <2>3. Good(s, Insert(l, r, x))
    BY <2>1, <2>2, GoodByInsert
  <2>. QED
    BY <1>7, <2>3, MoveCommit
<1>. QED
  BY <1>6, <1>7, MoveRefuse DEF CreateOffer, Args, Balance, Wallet

LEMMA CancelOfferMoves ==
  ASSUME NEW s, Sure(s), CancelOffer(s)
  PROVE  Moves(s)
<1> DEFINE k == session[s]
           r == k.req.row
           x == [status |-> "cancelled"]
           m == Set(k, r, x)
           w == W(Copy(k, r).user)
           n == Load(m, w)
<1>1. k.req.op = "cancel_offer" /\ k.req.op \in ExchangeRequests \ {"create_offer"} /\ k.pc = "row"
  BY DEF CancelOffer, At, ExchangeRequests
<1>2. /\ Good(s, k) /\ r \in Known(k) /\ r \in Rows /\ r[1] = "offer"
  BY <1>1, InExchange DEF ExchangeCarried, TableOf
<1>3. Untyped(r, x) /\ r[1] \notin Reserved /\ DOMAIN x = {"status"}
  BY <1>2 DEF Untyped, Typed, Counted, Personal, Priced, Linked, Reserved
<1>4. "user" \in DOMAIN Copy(k, r)
  BY <1>2, CopyPersonal DEF Personal
<1>5. Query(s, n, "wallet") \/ Commit(s, m) \/ Refuse(s)
  BY DEF CancelOffer, Own, Row, Args
<1>. HIDE DEF x
<1>6. Good(s, m)
  BY <1>2, <1>3, GoodByMark
<1>7. IsSet(m, k, r, x)
  BY <1>2, SetIs
<1>8. r \in Known(m) /\ m.req = k.req
  BY <1>1, <1>2, <1>6, Stays
<1>. HIDE DEF m
<1>9. CASE Query(s, n, "wallet")
  <2>1. Good(s, n) /\ HasLoaded(n, m, w)
    BY <1>6, RowIsLoaded
  <2>. HIDE DEF n
  <2>2. Payee(n) = w /\ n.req = k.req /\ r \in Known(n) /\ w \in DOMAIN n.read
    BY <1>3, <1>4, <1>7, <1>8, <2>1 DEF Payee, HasLoaded, IsSet
  <2>3. ExchangeCarried(n, "wallet")
    BY <1>1, <2>2 DEF ExchangeCarried
  <2>. QED
    BY <1>1, <1>9, <2>1, <2>2, <2>3, ToExchange, MoveQuery
<1>. QED
  BY <1>5, <1>6, <1>9, MoveCommit, MoveRefuse

LEMMA RefundEscrowMoves ==
  ASSUME NEW s, Sure(s), RefundEscrow(s)
  PROVE  Moves(s)
<1> DEFINE k == session[s]
           r == k.req.row
           v == Copy(k, r)
           l == Add(k, W(v.user), "vit", v.escrowed)
           x == [escrowed |-> 0]
           m == Set(l, r, x)
<1>1. k.req.op = "cancel_offer" /\ k.req.op \in ExchangeRequests \ {"create_offer"} /\ k.pc = "wallet"
  BY DEF RefundEscrow, At, ExchangeRequests
<1>2. /\ Good(s, k) /\ r \in Known(k) /\ r \in Rows /\ r[1] = "offer"
      /\ W(v.user) \in DOMAIN k.read
  BY <1>1, InExchange DEF ExchangeCarried, TableOf, Payee
<1>3. HasWallet(v.user) /\ v.escrowed \in Nat
  BY <1>2, CopyPersonal, CopyCounted DEF Personal, Counted
<1>4. Commit(s, Pay(m, r))
  BY DEF RefundEscrow, Own, Row, Args
<1>5. RowFits(r, x)
  BY <1>2 DEF RowFits, Fits, Personal, Priced
<1>. HIDE DEF x, v
<1>6. Good(s, l)
  BY <1>2, <1>3, GoodByCredit DEF WalletColumns
<1>. HIDE DEF l
<1>7. r \in Known(l)
  BY <1>2, <1>6, Stays
<1>8. May(l, r, x)
  BY <1>2, <1>5, <1>7, Unguarded DEF May, Reserved, Known
<1>9. Good(s, m)
  BY <1>6, <1>8, GoodBySet
<1>. HIDE DEF m
<1>. QED
  BY <1>4, <1>9, GoodByPay, MoveCommit

(* An order is taken from what is available.                               *)
LEMMA OrderedMoves ==
  ASSUME NEW s, Sure(s), session[s].req.op = "create_order", session[s].pc \in {"row", "taker"},
         NEW k, Good(s, k), Copy(k, Row(s)).available = Copy(session[s], Row(s)).available,
         session[s].req.amount <= Copy(session[s], Row(s)).available,
         Ordered(s, k)
  PROVE  Moves(s)
<1> DEFINE a == session[s].req
           r == a.row
           o == a.order
           n == a.amount
           v == Copy(session[s], r)
           l == Add(k, r, "available", -n)
           x == NewOrder(s, n)
<1>1. a.op \in ExchangeRequests \ {"create_offer"}
  BY DEF ExchangeRequests
<1>2. /\ Good(s, session[s]) /\ r \in Known(session[s]) /\ r \in Rows /\ r[1] = "offer"
      /\ WellFormed(a)
  BY <1>1, InExchange DEF ExchangeCarried, TableOf
<1>3. HasWallet(a.user) /\ n \in Nat /\ o[1] = "order"
  BY <1>2 DEF WellFormed, UserRequests, AmountRequests
<1>4. HasWallet(v.user) /\ v.available \in Nat
  BY <1>2, CopyPersonal, CopyCounted DEF Personal, Counted
<1>5. Commit(s, Insert(l, o, x))
  BY DEF Ordered, Row, Args
<1>6. x.amount = n /\ HasWallet(x.buyer) /\ {"amount", "buyer"} \subseteq DOMAIN x
  BY <1>3, <1>4 DEF NewOrder, Args, Own, Row
<1>. HIDE DEF x, v
<1>7. RowFits(o, x) /\ RowFull(o, x)
  BY <1>3, <1>6 DEF RowFits, RowFull, Fits, Typed, Counted, Personal, Priced, Linked
<1>8. Good(s, l)
  <2>1. Copy(k, r).available + (-n) \in Nat
    BY <1>3, <1>4 DEF v, Row, Args
  <2>2. r \in Known(k)
    BY <1>2, Stays
  <2>. QED
    BY <1>2, <2>1, <2>2, GoodByAdd DEF Reserved, Counted
<1>. HIDE DEF l
<1>9. MayInsert(l, o, x)
  BY <1>3, <1>6, <1>7, Unguarded DEF MayInsert, Reserved
<1>. HIDE DEF o
<1>10. Good(s, Insert(l, o, x))
  BY <1>8, <1>9, GoodByInsert
<1>. QED
  BY <1>5, <1>10, MoveCommit

LEMMA CreateOrderMoves ==
  ASSUME NEW s, Sure(s), CreateOrder(s)
  PROVE  Moves(s)
<1> DEFINE k == session[s]
           a == k.req
           r == a.row
           w == W(a.user)
           l == Load(k, w)
           m == Add(k, w, "vit", -a.amount)
<1>1. a.op = "create_order" /\ a.op \in ExchangeRequests \ {"create_offer"}
  BY DEF CreateOrder, At, ExchangeRequests
<1>2. /\ Good(s, k) /\ r \in Rows /\ r[1] = "offer" /\ WellFormed(a)
      /\ ExchangeCarried(k, k.pc)
  BY <1>1, InExchange DEF TableOf
<1>3. HasWallet(a.user) /\ a.amount \in Nat
  BY <1>1, <1>2 DEF WellFormed, UserRequests, AmountRequests
<1>4. k.pc \in {"row", "taker"} => r \in Known(k)
  BY <1>1, <1>2 DEF ExchangeCarried
<1>5. k.pc \in {"row", "taker"} => Copy(k, r).available \in Nat
  BY <1>2, <1>4, CopyCounted DEF Counted
<1>6. CASE k.pc = "row" /\ ~(a.amount > Copy(k, r).available) /\ Ordered(s, k)
  BY <1>1, <1>2, <1>3, <1>5, <1>6, OrderedMoves DEF Row, Args
<1>7. CASE k.pc = "row" /\ ~(a.amount > Copy(k, r).available) /\ Query(s, l, "taker")
  <2>1. Good(s, l) /\ HasLoaded(l, k, w)
    BY <1>2, RowIsLoaded
  <2>. HIDE DEF l
  <2>2. /\ r \in Known(l) /\ Copy(l, r) = Copy(k, r) /\ l.req = a
        /\ w \in DOMAIN l.read /\ a.amount <= Copy(k, r).available
    BY <1>3, <1>4, <1>5, <1>7, <2>1 DEF HasLoaded
  <2>3. ExchangeCarried(l, "taker")
    BY <1>1, <2>2 DEF ExchangeCarried
  <2>. QED
    BY <1>1, <1>7, <2>1, <2>2, <2>3, ToExchange, MoveQuery
<1>8. CASE k.pc = "taker" /\ ~(Copy(k, w).vit < a.amount) /\ Ordered(s, m)
  <2>1. w \in DOMAIN k.read /\ a.amount <= Copy(k, r).available
    BY <1>1, <1>2, <1>8 DEF ExchangeCarried
  <2>2. Good(s, m)
    BY <1>2, <1>3, <1>8, <2>1, GoodByDebit DEF WalletColumns
  <2>3. Copy(m, r) = Copy(k, r)
    <3>1. r # w /\ r \in DOMAIN k.read
      BY <1>2, <1>4, <1>8 DEF W, Known
    <3>. HIDE DEF w, r
    <3>. QED
      BY <1>2, <3>1, AddSees
  <2>. HIDE DEF m
  <2>. QED
    BY <1>1, <1>8, <2>1, <2>2, <2>3, OrderedMoves DEF Row, Args
<1>. QED
  BY <1>6, <1>7, <1>8, MoveRefuse DEF CreateOrder, At, Own, Row, Args, Balance, Wallet

LEMMA ConfirmPaymentMoves ==
  ASSUME NEW s, Sure(s), ConfirmPayment(s)
  PROVE  Moves(s)
<1> DEFINE k == session[s]
           r == k.req.row
           x == [status |-> "payment_sent"]
<1>1. k.req.op = "confirm" /\ k.req.op \in ExchangeRequests \ {"create_offer"} /\ k.pc = "row"
  BY DEF ConfirmPayment, At, ExchangeRequests
<1>2. Good(s, k) /\ r \in Known(k) /\ r[1] = "order"
  BY <1>1, InExchange DEF ExchangeCarried, TableOf
<1>3. Untyped(r, x) /\ r[1] \notin Reserved
  BY <1>2 DEF Untyped, Typed, Counted, Personal, Priced, Linked, Reserved
<1>4. Commit(s, Set(k, r, x)) \/ Refuse(s)
  BY DEF ConfirmPayment, Row, Args
<1>. HIDE DEF x
<1>. QED
  BY <1>2, <1>3, <1>4, GoodByMark, MoveCommit, MoveRefuse

LEMMA DisputeMoves ==
  ASSUME NEW s, Sure(s), Dispute(s)
  PROVE  Moves(s)
<1> DEFINE k == session[s]
           r == k.req.row
           x == [status |-> "disputed"]
<1>1. k.req.op = "dispute" /\ k.req.op \in ExchangeRequests \ {"create_offer"} /\ k.pc = "row"
  BY DEF Dispute, At, ExchangeRequests
<1>2. Good(s, k) /\ r \in Known(k) /\ r[1] = "order"
  BY <1>1, InExchange DEF ExchangeCarried, TableOf
<1>3. Untyped(r, x) /\ r[1] \notin Reserved
  BY <1>2 DEF Untyped, Typed, Counted, Personal, Priced, Linked, Reserved
<1>4. Commit(s, Set(k, r, x)) \/ Refuse(s)
  BY DEF Dispute, Row, Args
<1>. HIDE DEF x
<1>. QED
  BY <1>2, <1>3, <1>4, GoodByMark, MoveCommit, MoveRefuse

LEMMA ReleaseLoadMoves ==
  ASSUME NEW s, Sure(s), ReleaseLoad(s)
  PROVE  Moves(s)
<1> DEFINE k == session[s]
           r == k.req.row
           w == W(Copy(k, r).buyer)
           l == Load(k, w)
<1>1. k.req.op = "release" /\ k.req.op \in ExchangeRequests \ {"create_offer"} /\ k.pc = "row"
  BY DEF ReleaseLoad, At, ExchangeRequests
<1>2. Good(s, k) /\ r \in Known(k)
  BY <1>1, InExchange DEF ExchangeCarried
<1>3. Query(s, l, "wallet") \/ Refuse(s)
  BY DEF ReleaseLoad, Row, Args, Own
<1>4. Good(s, l) /\ HasLoaded(l, k, w)
  BY <1>2, RowIsLoaded
<1>. HIDE DEF l
<1>5. ExchangeCarried(l, "wallet") /\ l.req = k.req
  BY <1>1, <1>2, <1>4 DEF ExchangeCarried, HasLoaded
<1>. QED
  BY <1>1, <1>3, <1>4, <1>5, ToExchange, MoveQuery, MoveRefuse

LEMMA ReleaseMoves ==
  ASSUME NEW s, Sure(s), Release(s)
  PROVE  Moves(s)
<1> DEFINE k == session[s]
           r == k.req.row
           v == Copy(k, r)
           l == Add(k, W(v.buyer), "vit", v.amount)
           x == [status |-> "completed"]
           m == Set(l, r, x)
<1>1. k.req.op = "release" /\ k.req.op \in ExchangeRequests \ {"create_offer"} /\ k.pc = "wallet"
  BY DEF Release, At, ExchangeRequests
<1>2. /\ Good(s, k) /\ r \in Known(k) /\ r \in Rows /\ r[1] = "order"
      /\ W(v.buyer) \in DOMAIN k.read
  BY <1>1, InExchange DEF ExchangeCarried, TableOf
<1>3. HasWallet(v.buyer) /\ v.amount \in Nat
  BY <1>2, CopyPersonal, CopyCounted DEF Personal, Counted
<1>4. Commit(s, Pay(m, r))
  BY DEF Release, Own, Row, Args
<1>5. Untyped(r, x) /\ r[1] \notin Reserved
  BY <1>2 DEF Untyped, Typed, Counted, Personal, Priced, Linked, Reserved
<1>. HIDE DEF x, v
<1>6. Good(s, l)
  BY <1>2, <1>3, GoodByCredit DEF WalletColumns
<1>. HIDE DEF l
<1>7. r \in Known(l)
  BY <1>2, <1>6, Stays
<1>8. Good(s, m)
  BY <1>5, <1>6, <1>7, GoodByMark
<1>. HIDE DEF m
<1>. QED
  BY <1>4, <1>8, GoodByPay, MoveCommit

LEMMA ExchangeStepMoves ==
  ASSUME NEW s, Sure(s), ExchangeStep(s)
  PROVE  Moves(s)
BY LoadRowMoves, CreateOfferMoves, CancelOfferMoves, RefundEscrowMoves, CreateOrderMoves,
   ConfirmPaymentMoves, ReleaseLoadMoves, ReleaseMoves, DisputeMoves
   DEF ExchangeStep

LEMMA InBridge ==
  ASSUME NEW s, Sure(s), session[s].req.op \in BridgeRequests
  PROVE  /\ Good(s, session[s]) /\ WellFormed(session[s].req)
         /\ BridgeCarried(session[s], session[s].pc)
         /\ Wallet(s) = W(session[s].req.user)
         /\ session[s].req.op # "relay" =>
              HasWallet(session[s].req.user) /\ session[s].req.amount \in Nat
<1>1. /\ session[s].req.op # "relay" =>
           HasWallet(session[s].req.user) /\ session[s].req.amount \in Nat
  BY DEF Sure, WellFormed, BridgeRequests, UserRequests, AmountRequests
<1>. QED
  BY <1>1, CarriedByGroup DEF Sure, Wallet, Args

LEMMA ToBridge ==
  ASSUME NEW k, k.req.op \in BridgeRequests, NEW pc, BridgeCarried(k, pc)
  PROVE  Carried(k, pc)
BY CarriedByGroup

LEMMA BridgeOutCheckMoves ==
  ASSUME NEW s, Sure(s), BridgeOutCheck(s)
  PROVE  Moves(s)
<1> DEFINE k == session[s]
<1>1. k.req.op = "wallet_to_chain" /\ k.req.op \in BridgeRequests
  BY DEF BridgeOutCheck, At, BridgeRequests
<1>2. Good(s, k) /\ BridgeCarried(k, "lock")
  BY <1>1, InBridge DEF BridgeCarried
<1>. QED
  BY <1>1, <1>2, ToBridge, MoveQuery, MoveEnd DEF BridgeOutCheck, Closings

LEMMA BridgeInCheckMoves ==
  ASSUME NEW s, Sure(s), BridgeInCheck(s)
  PROVE  Moves(s)
<1> DEFINE k == session[s]
<1>1. k.req.op = "chain_to_wallet" /\ k.req.op \in BridgeRequests
  BY DEF BridgeInCheck, At, BridgeRequests
<1>2. Good(s, k) /\ BridgeCarried(k, "lock")
  BY <1>1, InBridge DEF BridgeCarried
<1>. QED
  BY <1>1, <1>2, ToBridge, MoveQuery, MoveEnd DEF BridgeInCheck, Closings

LEMMA BridgeLockMoves ==
  ASSUME NEW s, Sure(s), session[s].req.op \in BridgeRequests, BridgeLock(s)
  PROVE  Moves(s)
<1> DEFINE k == session[s]
           w == Wallet(s)
           l == Load(k, w)
<1>1. Good(s, k) /\ w = W(k.req.user)
  BY InBridge
<1>2. QueryForUpdate(s, k, w, "locked") /\ k.pc = "lock"
  BY DEF BridgeLock
<1>. HIDE DEF w
<1>3. Good(s, l) /\ HasLoaded(l, k, w)
  BY <1>1, RowIsLoaded
<1>. HIDE DEF l
<1>4. BridgeCarried(l, "locked") /\ l.req.op \in BridgeRequests
  BY <1>1, <1>3 DEF BridgeCarried, HasLoaded
<1>5. Carried(l, "locked")
  BY <1>4, ToBridge
<1>. QED
  BY <1>1, <1>2, <1>5, MoveQueryForUpdate DEF l

LEMMA BridgeDebitMoves ==
  ASSUME NEW s, Sure(s), BridgeDebit(s)
  PROVE  Moves(s)
<1> DEFINE k == session[s]
           a == k.req
           w == W(a.user)
           l == Add(k, w, "vit", -a.amount)
<1>1. a.op = "wallet_to_chain" /\ a.op \in BridgeRequests /\ k.pc = "locked"
  BY DEF BridgeDebit, At, BridgeRequests
<1>2. /\ Good(s, k) /\ HasWallet(a.user) /\ a.amount \in Nat /\ w \in DOMAIN k.read
      /\ Wallet(s) = w
  BY <1>1, InBridge DEF BridgeCarried
<1>3. CASE ~(Copy(k, w).vit < a.amount) /\ Query(s, l, "submit")
  <2>1. Good(s, l)
    BY <1>2, <1>3, GoodByDebit DEF WalletColumns
  <2>2. l.req = a
    BY <1>1, <2>1, Stays
  <2>. HIDE DEF l
  <2>3. BridgeCarried(l, "submit")
    BY <1>1, <2>2 DEF BridgeCarried
  <2>. QED
    BY <1>1, <1>3, <2>1, <2>2, <2>3, ToBridge, MoveQuery
<1>. QED
  BY <1>2, <1>3, MoveRefuse DEF BridgeDebit, Args, Balance

LEMMA BridgeSubmitMoves ==
  ASSUME NEW s, Sure(s), BridgeSubmit(s)
  PROVE  Moves(s)
<1> DEFINE k == session[s]
           m == [k EXCEPT !.pc = "record"]
<1>1. k.req.op = "wallet_to_chain" /\ k.req.op \in BridgeRequests
  BY DEF BridgeSubmit, At, BridgeRequests
<1>2. Good(s, k)
  BY <1>1, InBridge
<1>3. m = [k EXCEPT !.pc = "record"]
  OBVIOUS
<1>4. (Keep(s, m) /\ UNCHANGED <<store, faults>>) \/ Refuse(s)
  BY DEF BridgeSubmit
<1>. HIDE DEF m
<1>5. /\ IsSession(m) /\ m.req = k.req /\ m.wrote = k.wrote /\ m.gone = k.gone
      /\ m.read = k.read /\ m.pc = "record" /\ m.held = k.held
  BY <1>2, <1>3 DEF Good, Firm, IsSession
<1>6. Good(s, m)
  BY <1>2, <1>5, GoodByRest
<1>7. BridgeCarried(m, "record")
  BY <1>1, <1>5 DEF BridgeCarried
<1>8. Carried(m, m.pc)
  BY <1>1, <1>5, <1>7, ToBridge
<1>9. Covered(k) => Covered(m)
  BY <1>5 DEF Covered
<1>. QED
  BY <1>4, <1>6, <1>8, <1>9, MoveRefuse DEF Moves, Good

LEMMA BridgeRecordMoves ==
  ASSUME NEW s, Sure(s), BridgeRecord(s)
  PROVE  Moves(s)
<1>1. session[s].req.op \in BridgeRequests
  BY DEF BridgeRecord, At, BridgeRequests
<1> DEFINE x == [amount |-> -Args(s).amount, user |-> Args(s).user, hash |-> s]
           m == Insert(session[s], OutRef(s), x)
<1>2. DOMAIN x # {} /\ Commit(s, m)
  BY DEF BridgeRecord
<1>. HIDE DEF x
<1>3. Good(s, m)
  BY <1>1, <1>2, InBridge, GoodByReferenceOf DEF OutRef
<1>. HIDE DEF m
<1>. QED
  BY <1>2, <1>3, MoveCommit

LEMMA BridgeCreditMoves ==
  ASSUME NEW s, Sure(s), BridgeCredit(s)
  PROVE  Moves(s)
<1> DEFINE k == session[s]
           a == k.req
           w == W(a.user)
           l == Add(k, w, "vit", a.amount)
           m == Reference(l, <<"BRIDGE-IN", a.key>>, a.amount)
<1>1. a.op = "chain_to_wallet" /\ a.op \in BridgeRequests /\ k.pc = "locked"
  BY DEF BridgeCredit, At, BridgeRequests
<1>2. /\ Good(s, k) /\ HasWallet(a.user) /\ a.amount \in Nat /\ w \in DOMAIN k.read
      /\ Wallet(s) = w
  BY <1>1, InBridge DEF BridgeCarried
<1>3. Commit(s, Pay(m, InRef(s)))
  BY <1>2 DEF BridgeCredit, Args
<1>4. Good(s, l)
  BY <1>2, GoodByCredit DEF WalletColumns
<1>. HIDE DEF l
<1>5. Good(s, m)
  BY <1>4, GoodByReference
<1>. HIDE DEF m
<1>. QED
  BY <1>3, <1>5, GoodByPay, MoveCommit

(* The pools of the bridge are there from the beginning.                   *)
LEMMA PoolIs ==
  ASSUME NEW s, Sure(s), session[s].req.op = "initiate",
         NEW k, Good(s, k), session[s].req.pool \in DOMAIN k.read
  PROVE  LET p == session[s].req.pool IN
         /\ p \in Rows /\ p[1] = "bridge_pool" /\ p \in Known(k)
         /\ Copy(k, p).liquidity \in Nat
<1> DEFINE p == session[s].req.pool
<1>1. Standing(p) /\ p[1] = "bridge_pool"
  BY DEF Sure, WellFormed
<1>2. Lasting(p)
  BY <1>1, TrackedIs DEF Lasting
<1>3. p \in Known(k)
  BY <1>2 DEF Good, Firm, Solid, Stands, Known
<1>4. p \in Rows
  BY <1>1 DEF Standing
<1>5. Copy(k, p).liquidity \in Nat
  BY <1>1, <1>3, <1>4, CopyCounted DEF Counted
<1>. QED
  BY <1>1, <1>3, <1>4, <1>5

LEMMA InitiateLoadMoves ==
  ASSUME NEW s, Sure(s), InitiateLoad(s)
  PROVE  Moves(s)
<1> DEFINE k == session[s]
           a == k.req
           p == a.pool
           w == W(a.user)
           l == Load(k, p)
           m == Load(k, w)
           n == Add(k, w, "vit", -a.amount)
<1>1. a.op = "initiate" /\ a.op \in BridgeRequests
  BY DEF InitiateLoad, At, BridgeRequests
<1>2. /\ Good(s, k) /\ HasWallet(a.user) /\ a.amount \in Nat /\ Wallet(s) = w
      /\ BridgeCarried(k, k.pc)
  BY <1>1, InBridge
<1>3. CASE Query(s, l, "pool")
  <2>1. Good(s, l) /\ HasLoaded(l, k, p)
    BY <1>2, RowIsLoaded
  <2>. HIDE DEF l
  <2>2. BridgeCarried(l, "pool") /\ l.req = a
    BY <1>1, <2>1 DEF BridgeCarried, HasLoaded
  <2>. QED
    BY <1>1, <1>3, <2>1, <2>2, ToBridge, MoveQuery
<1>4. CASE k.pc = "pool" /\ ~(Copy(k, p).liquidity < a.amount) /\ Query(s, m, "wallet")
  <2>1. Good(s, m) /\ HasLoaded(m, k, w)
    BY <1>2, RowIsLoaded
  <2>2. p \in DOMAIN k.read
    BY <1>1, <1>2, <1>4 DEF BridgeCarried
  <2>3. p \in Known(k) /\ Copy(k, p).liquidity \in Nat
    BY <1>1, <1>2, <2>2, PoolIs
  <2>. HIDE DEF m
  <2>4. a.amount <= Copy(k, p).liquidity
    BY <1>2, <1>4, <2>3
  <2>5. BridgeCarried(m, "wallet") /\ m.req = a
    BY <1>1, <2>1, <2>2, <2>3, <2>4 DEF BridgeCarried, HasLoaded
  <2>. QED
    BY <1>1, <1>4, <2>1, <2>5, ToBridge, MoveQuery
<1>5. CASE k.pc = "wallet" /\ ~(Copy(k, w).vit < a.amount) /\ Query(s, n, "lock_pool")
  <2>1. w \in DOMAIN k.read /\ p \in DOMAIN k.read /\ a.amount <= Copy(k, p).liquidity
    BY <1>1, <1>2, <1>5 DEF BridgeCarried
  <2>2. Good(s, n)
    BY <1>2, <1>5, <2>1, GoodByDebit DEF WalletColumns
  <2>3. p # w
    BY <1>1, <1>2, <2>1, PoolIs DEF W
  <2>4. n.req = a /\ p \in DOMAIN n.read
    BY <1>1, <2>1, <2>2, Stays
  <2>5. Copy(n, p) = Copy(k, p)
    <3>. HIDE DEF w, p
    <3>. QED
      BY <1>2, <2>1, <2>3, AddSees
  <2>. HIDE DEF n
  <2>6. BridgeCarried(n, "lock_pool")
    BY <1>1, <2>1, <2>4, <2>5 DEF BridgeCarried
  <2>. QED
    BY <1>1, <1>5, <2>2, <2>4, <2>6, ToBridge, MoveQuery
<1>. QED
  BY <1>2, <1>3, <1>4, <1>5, MoveRefuse DEF InitiateLoad, At, Pool, Args, Balance

LEMMA InitiateMoves ==
  ASSUME NEW s, Sure(s), Initiate(s)
  PROVE  Moves(s)
<1> DEFINE k == session[s]
           a == k.req
           r == a.row
           p == a.pool
           n == a.amount
           l == Add(k, p, "liquidity", -n)
           x == [user |-> a.user, pool |-> a.pool, amount |-> n,
                 outbound |-> Pool(s).outbound, status |-> "locked"]
<1>1. a.op = "initiate" /\ a.op \in BridgeRequests /\ k.pc \in {"pool", "lock_pool"}
  BY DEF Initiate, At, BridgeRequests
<1>2. /\ Good(s, k) /\ HasWallet(a.user) /\ n \in Nat /\ p \in DOMAIN k.read
      /\ BridgeCarried(k, k.pc)
  BY <1>1, InBridge DEF BridgeCarried
<1>3. /\ p \in Rows /\ p[1] = "bridge_pool" /\ p \in Known(k)
      /\ Copy(k, p).liquidity \in Nat
  BY <1>1, <1>2, PoolIs
<1>4. Copy(k, p).liquidity + (-n) \in Nat
  <2>1. n <= Copy(k, p).liquidity \/ Copy(k, p).liquidity >= n
    BY <1>1, <1>2 DEF Initiate, At, BridgeCarried, Pool, Args
  <2>. QED
    BY <1>2, <1>3, <2>1
<1>5. r[1] = "bridge_tx"
  BY <1>1, RowIs DEF TableOf
<1>6. Commit(s, Insert(l, r, x))
  BY DEF Initiate, Args
<1>7. Good(s, l)
  BY <1>2, <1>3, <1>4, GoodByAdd DEF Reserved, Counted
<1>. HIDE DEF l
<1>8. MayInsert(l, r, x)
  <2>1. RowFits(r, x) /\ RowFull(r, x)
    BY <1>2, <1>5 DEF RowFits, RowFull, Fits, Typed, Counted, Personal, Priced, Linked
  <2>2. Entitled(l.req, r, x)
    BY <1>5, Unguarded DEF Reserved
  <2>. QED
    BY <2>1, <2>2 DEF MayInsert
<1>. HIDE DEF x
<1>9. Good(s, Insert(l, r, x))
  BY <1>7, <1>8, GoodByInsert
<1>. QED
  BY <1>6, <1>9, MoveCommit

LEMMA ConfirmBridgeMoves ==
  ASSUME NEW s, Sure(s), ConfirmBridge(s)
  PROVE  Moves(s)
<1> DEFINE k == session[s]
           r == k.req.row
           x == [status |-> "completed"]
           l == Load(k, r)
           m == Set(k, r, x)
           p == Copy(k, r).pool
           n == Load(m, p)
<1>1. k.req.op = "relay" /\ k.req.op \in BridgeRequests
  BY DEF ConfirmBridge, At, BridgeRequests
<1>2. Good(s, k) /\ BridgeCarried(k, k.pc) /\ r \in Rows /\ r[1] = "bridge_tx"
  BY <1>1, InBridge, RowIs DEF TableOf
<1>3. CASE table[r] # Absent /\ Query(s, l, "tx")
  <2>1. Good(s, l) /\ HasLoaded(l, k, r)
    BY <1>2, RowIsLoaded
  <2>. HIDE DEF l
  <2>2. BridgeCarried(l, "tx") /\ l.req = k.req
    BY <1>1, <1>3, <2>1 DEF BridgeCarried, HasLoaded
  <2>. QED
    BY <1>1, <1>3, <2>1, <2>2, ToBridge, MoveQuery
<1>4. CASE k.pc = "tx" /\ Query(s, n, "pool")
  <2>1. r \in Known(k)
    BY <1>1, <1>2, <1>4 DEF BridgeCarried
  <2>2. Untyped(r, x) /\ r[1] \notin Reserved
    BY <1>2 DEF Untyped, Typed, Counted, Personal, Priced, Linked, Reserved
  <2>. HIDE DEF x, p
  <2>3. Good(s, m)
    BY <1>2, <2>1, <2>2, GoodByMark
  <2>4. m.req = k.req
    BY <1>1, <2>3, Stays
  <2>10. r \in Known(m)
    BY <1>2, <2>1, <2>3, Stays
  <2>. HIDE DEF m
  <2>5. Good(s, n) /\ HasLoaded(n, m, p)
    BY <2>3, RowIsLoaded
  <2>. HIDE DEF n
  <2>6. BridgeCarried(n, "pool") /\ n.req = k.req
    BY <1>1, <2>4, <2>5, <2>10 DEF BridgeCarried, HasLoaded
  <2>. QED
    BY <1>1, <1>4, <2>5, <2>6, ToBridge, MoveQuery
<1>. QED
  BY <1>3, <1>4, MoveRefuse DEF ConfirmBridge, At, Args, Row

LEMMA RelayedMoves ==
  ASSUME NEW s, Sure(s), Relayed(s)
  PROVE  Moves(s)
<1> DEFINE k == session[s]
           r == k.req.row
           v == Copy(k, r)
           w == W(v.user)
           l == Load(k, w)
           m == Add(k, w, "vit", v.amount)
<1>1. k.req.op = "relay" /\ k.req.op \in BridgeRequests /\ k.pc \in {"pool", "wallet"}
  BY DEF Relayed, At, BridgeRequests
<1>2. /\ Good(s, k) /\ BridgeCarried(k, k.pc) /\ r \in Rows /\ r[1] = "bridge_tx"
      /\ r \in Known(k)
  BY <1>1, InBridge, RowIs DEF TableOf, BridgeCarried
<1>3. HasWallet(v.user) /\ v.amount \in Nat
  BY <1>2, CopyPersonal, CopyCounted DEF Personal, Counted
<1>4. CASE Commit(s, k)
  BY <1>2, <1>4, MoveCommit
<1>5. CASE Query(s, l, "wallet")
  <2>1. Good(s, l) /\ HasLoaded(l, k, w)
    BY <1>2, RowIsLoaded
  <2>. HIDE DEF l
  <2>2. BridgeCarried(l, "wallet") /\ l.req = k.req
    BY <1>1, <1>2, <2>1 DEF BridgeCarried, HasLoaded, Payee
  <2>. QED
    BY <1>1, <1>5, <2>1, <2>2, ToBridge, MoveQuery
<1>6. CASE k.pc = "wallet" /\ Commit(s, Pay(m, r))
  <2>1. w \in DOMAIN k.read
    BY <1>1, <1>2, <1>6 DEF BridgeCarried, Payee
  <2>. HIDE DEF v
  <2>2. Good(s, m)
    BY <1>2, <1>3, <2>1, GoodByCredit DEF WalletColumns
  <2>. HIDE DEF m
  <2>. QED
    BY <1>6, <2>2, GoodByPay, MoveCommit
<1>. QED
  BY <1>4, <1>5, <1>6 DEF Relayed, At, Args, Row

LEMMA BridgeStepMoves ==
  ASSUME NEW s, Sure(s), BridgeStep(s)
  PROVE  Moves(s)
BY BridgeOutCheckMoves, BridgeInCheckMoves, BridgeLockMoves, BridgeDebitMoves,
   BridgeSubmitMoves, BridgeRecordMoves, BridgeCreditMoves, InitiateLoadMoves,
   InitiateMoves, ConfirmBridgeMoves, RelayedMoves
   DEF BridgeStep, Args

LEMMA InTreasury ==
  ASSUME NEW s, Sure(s), session[s].req.op \in TreasuryRequests
  PROVE  /\ Good(s, session[s]) /\ WellFormed(session[s].req)
         /\ TreasuryCarried(session[s], session[s].pc)
         /\ session[s].req.op # "epoch" =>
              /\ session[s].req.row[1] = TableOf[session[s].req.op]
              /\ Target(s) = session[s].req.row
         /\ session[s].req.op \in {"pool_deposit", "pool_spend", "revenue", "epoch"} =>
              session[s].req.amount \in Nat
<1>1. session[s].req.op \in {"pool_deposit", "pool_spend", "revenue", "epoch"} =>
        session[s].req.amount \in Nat
  BY DEF Sure, WellFormed, AmountRequests
<1>2. session[s].req.op # "epoch" => session[s].req.row[1] = TableOf[session[s].req.op]
  BY RowIs DEF TreasuryRequests, TableOf
<1>. QED
  BY <1>1, <1>2, CarriedByGroup DEF Sure, Target, Args

LEMMA ToTreasury ==
  ASSUME NEW k, k.req.op \in TreasuryRequests, NEW pc, TreasuryCarried(k, pc)
  PROVE  Carried(k, pc)
BY CarriedByGroup

(* A copy of a row that was there from the beginning.                      *)
LEMMA StandingKnown ==
  ASSUME NEW s, NEW k, Good(s, k), NEW r, Standing(r), r[1] \in Tracked \ {"validator"},
         r \in DOMAIN k.read
  PROVE  r \in Known(k) /\ r \in Rows
<1>1. Lasting(r)
  BY DEF Lasting
<1>. QED
  BY <1>1 DEF Good, Firm, Solid, Stands, Known, Standing

LEMMA PoolKnown ==
  ASSUME NEW s, NEW k, Good(s, k), NEW r, IsPool(r), r \in DOMAIN k.read
  PROVE  r \in Known(k) /\ r \in Rows /\ r[1] = "pool"
<1>1. Standing(r) /\ r[1] = "pool" /\ r[1] \in Tracked \ {"validator"}
  BY TrackedIs DEF IsPool
<1>. QED
  BY <1>1, StandingKnown

LEMMA GoodByDeposited ==
  ASSUME NEW s, NEW k, Good(s, k), NEW r \in Rows, r \in Known(k), r[1] = "pool", NEW n \in Nat
  PROVE  Good(s, Deposited(k, r, n))
<1> DEFINE p == Copy(k, r)
           b == p.balance + n
           d == p.deposited + n
           x == [balance |-> b, deposited |-> d]
<1>1. p.balance \in Nat
  BY CopyCounted DEF Counted
<1>2. b \in Nat
  BY <1>1
<1>. HIDE DEF b, d
<1>3. RowFits(r, x)
  BY <1>2 DEF RowFits, Fits, Counted, Personal, Priced
<1>. HIDE DEF x
<1>5. May(k, r, x)
  BY <1>3, Unguarded DEF May, Known, Reserved
<1>4. Good(s, Set(k, r, x))
  BY <1>5, GoodBySet
<1>. QED
  BY <1>4 DEF Deposited, x, b, d

LEMMA GoodBySpent ==
  ASSUME NEW s, NEW k, Good(s, k), NEW r \in Rows, r \in Known(k), r[1] = "pool", NEW n \in Nat,
         Affordable(k, r, n)
  PROVE  Good(s, Spent(k, r, n))
<1> DEFINE p == Copy(k, r)
           b == p.balance - n
           d == p.spent + n
           x == [balance |-> b, spent |-> d]
<1>1. p.balance \in Nat
  BY CopyCounted DEF Counted
<1>2. b \in Nat
  BY <1>1 DEF Affordable
<1>. HIDE DEF b, d
<1>3. RowFits(r, x)
  BY <1>2 DEF RowFits, Fits, Counted, Personal, Priced
<1>. HIDE DEF x
<1>5. May(k, r, x)
  BY <1>3, Unguarded DEF May, Known, Reserved
<1>4. Good(s, Set(k, r, x))
  BY <1>5, GoodBySet
<1>. QED
  BY <1>4 DEF Spent, x, b, d

LEMMA ContinuedHas ==
  ASSUME NEW s, NEW k, Good(s, k)
  PROVE  /\ Continued(k).req = k.req /\ DOMAIN Continued(k).read = DOMAIN k.read
         /\ \A r \in DOMAIN k.read : Continued(k).read[r] = Copy(k, r)
         /\ DOMAIN Continued(k).wrote = {}
<1> DEFINE c == [r \in DOMAIN k.read |-> Copy(k, r)]
           d == k.old \ Cells(k)
           o == Opened(k.req)
           m == [[o EXCEPT !.read = c] EXCEPT !.old = d]
<1>1. m = Continued(k)
  BY DEF Continued, Opened
<1>2. IsSession(o) /\ o.req = k.req /\ o.wrote = <<>>
  BY DEF Opened, IsSession
<1>3. DOMAIN c = DOMAIN k.read /\ \A r \in DOMAIN k.read : c[r] = Copy(k, r)
  OBVIOUS
<1>. HIDE DEF o, c, d
<1>4. m.req = k.req /\ m.read = c /\ m.wrote = <<>>
  BY <1>2 DEF IsSession
<1>5. DOMAIN m.wrote = {}
  BY <1>4
<1>. HIDE DEF m
<1>. QED
  BY <1>1, <1>3, <1>4, <1>5

LEMMA LoadTargetMoves ==
  ASSUME NEW s, Sure(s), session[s].req.op \in TreasuryRequests, LoadTarget(s)
  PROVE  Moves(s)
<1> DEFINE k == session[s]
           r == k.req.row
           l == Load(k, r)
<1>1. Good(s, k) /\ Query(s, l, "target")
  BY InTreasury DEF LoadTarget, Target, Args
<1>2. k.req.op # "epoch"
  BY DEF LoadTarget, Args
<1>3. Good(s, l) /\ HasLoaded(l, k, r)
  BY <1>1, RowIsLoaded
<1>. HIDE DEF l
<1>4. TreasuryCarried(l, "target") /\ l.req.op \in TreasuryRequests
  BY <1>2, <1>3 DEF TreasuryCarried, HasLoaded
<1>. QED
  BY <1>1, <1>3, <1>4, ToTreasury, MoveQuery

(* The pool or the grant of a request.                                     *)
LEMMA TargetKnown ==
  ASSUME NEW s, Sure(s),
         session[s].req.op \in {"pool_deposit", "pool_spend", "revenue", "execute_grant", "review_grant"},
         session[s].pc \in {"target", "pool", "executed"}
  PROVE  LET k == session[s] r == k.req.row IN
         /\ Good(s, k) /\ r \in Known(k) /\ r \in Rows /\ Target(s) = r
         /\ r[1] = IF k.req.op \in {"execute_grant", "review_grant"} THEN "grant" ELSE "pool"
<1> DEFINE k == session[s]
           r == k.req.row
<1>1. k.req.op \in TreasuryRequests
  BY DEF TreasuryRequests
<1>2. /\ Good(s, k) /\ Standing(r) /\ r \in DOMAIN k.read /\ Target(s) = r
      /\ r[1] = TableOf[k.req.op]
  BY <1>1, InTreasury DEF TreasuryCarried, WellFormed
<1>3. r[1] = IF k.req.op \in {"execute_grant", "review_grant"} THEN "grant" ELSE "pool"
  BY <1>2 DEF TableOf
<1>4. r \in Known(k) /\ r \in Rows
  BY <1>2, <1>3, TrackedIs, StandingKnown
<1>. QED
  BY <1>2, <1>3, <1>4

LEMMA PoolDepositMoves ==
  ASSUME NEW s, Sure(s), PoolDeposit(s)
  PROVE  Moves(s)
<1> DEFINE k == session[s]
           r == k.req.row
<1>1. k.req.op = "pool_deposit" /\ k.pc = "target" /\ k.req.op \in TreasuryRequests
  BY DEF PoolDeposit, At, TreasuryRequests
<1>2. /\ Good(s, k) /\ r \in Known(k) /\ r \in Rows /\ r[1] = "pool" /\ Target(s) = r
  BY <1>1, TargetKnown
<1>3. k.req.amount \in Nat
  BY <1>1, InTreasury
<1>4. Good(s, Deposited(k, r, k.req.amount))
  BY <1>2, <1>3, GoodByDeposited
<1>. QED
  BY <1>2, <1>4, MoveCommit DEF PoolDeposit, Args

LEMMA PoolSpendMoves ==
  ASSUME NEW s, Sure(s), PoolSpend(s)
  PROVE  Moves(s)
<1> DEFINE k == session[s]
           r == k.req.row
           n == k.req.amount
<1>1. k.req.op = "pool_spend" /\ k.pc = "target" /\ k.req.op \in TreasuryRequests
  BY DEF PoolSpend, At, TreasuryRequests
<1>2. /\ Good(s, k) /\ r \in Known(k) /\ r \in Rows /\ r[1] = "pool" /\ Target(s) = r
  BY <1>1, TargetKnown
<1>3. n \in Nat
  BY <1>1, InTreasury
<1>4. CASE Affordable(k, r, n) /\ Commit(s, Spent(k, r, n))
  <2>1. Good(s, Spent(k, r, n))
    BY <1>2, <1>3, <1>4, GoodBySpent
  <2>. QED
    BY <1>4, <2>1, MoveCommit
<1>. QED
  BY <1>2, <1>4, MoveRefuse DEF PoolSpend, Args

LEMMA ReviewGrantMoves ==
  ASSUME NEW s, Sure(s), ReviewGrant(s)
  PROVE  Moves(s)
<1> DEFINE k == session[s]
           r == k.req.row
<1>1. k.req.op = "review_grant" /\ k.pc = "target"
  BY DEF ReviewGrant, At
<1>2. Good(s, k) /\ r \in Known(k) /\ r[1] = "grant" /\ Target(s) = r
  BY <1>1, TargetKnown
<1>3. PICK verdict : Commit(s, Set(k, r, [status |-> verdict]))
  BY <1>2 DEF ReviewGrant
<1> DEFINE x == [status |-> verdict]
<1>4. Untyped(r, x) /\ r[1] \notin Reserved
  BY <1>2 DEF Untyped, Typed, Counted, Personal, Priced, Linked, Reserved
<1>5. Commit(s, Set(k, r, x))
  BY <1>3
<1>. HIDE DEF x
<1>. QED
  BY <1>2, <1>4, <1>5, GoodByMark, MoveCommit

LEMMA ExecuteGrantMoves ==
  ASSUME NEW s, Sure(s), ExecuteGrant(s)
  PROVE  Moves(s)
<1> DEFINE k == session[s]
           r == k.req.row
           g == Copy(k, r)
           p == g.pool
           l == Load(k, p)
           m == Spent(k, p, g.amount)
           n == Pay(m, r)
           x == [status |-> "executed"]
<1>1. k.req.op = "execute_grant" /\ k.pc \in {"target", "pool", "executed"} /\ k.req.op \in TreasuryRequests
  BY DEF ExecuteGrant, At, TreasuryRequests
<1>2. /\ Good(s, k) /\ r \in Known(k) /\ r \in Rows /\ r[1] = "grant" /\ Target(s) = r
  BY <1>1, TargetKnown
<1>3. g.amount \in Nat /\ IsPool(p)
  <2>1. <<r[1], "pool">> \in Typed
    BY <1>2 DEF Typed, Linked
  <2>2. Fits(r[1], "pool", p)
    BY <1>2, <2>1, CopyColumn
  <2>. HIDE DEF p
  <2>3. IsPool(p)
    BY <1>2, <2>2 DEF Fits
  <2>. QED
    BY <1>2, <2>3, CopyCounted DEF Counted
<1>4. CASE k.pc = "target" /\ Query(s, l, "pool")
  <2>1. Good(s, l) /\ HasLoaded(l, k, p)
    BY <1>2, RowIsLoaded
  <2>. HIDE DEF l
  <2>2. TreasuryCarried(l, "pool") /\ l.req = k.req
    BY <1>1, <1>2, <2>1 DEF TreasuryCarried, HasLoaded, Known
  <2>. QED
    BY <1>1, <1>4, <2>1, <2>2, ToTreasury, MoveQuery
<1>5. CASE k.pc = "pool" /\ Affordable(k, p, g.amount) /\ CommitThen(s, n, "executed")
  <2>1. p \in DOMAIN k.read
    BY <1>1, <1>5, InTreasury DEF TreasuryCarried
  <2>2. p \in Known(k) /\ p \in Rows /\ p[1] = "pool"
    BY <1>2, <1>3, <2>1, PoolKnown
  <2>3. Good(s, m)
    <3>. HIDE DEF p, g
    <3>. QED
      BY <1>2, <1>3, <1>5, <2>2, GoodBySpent
  <2>. HIDE DEF m
  <2>4. Good(s, n)
    BY <2>3, GoodByPay
  <2>. HIDE DEF n
  <2>5. n.req = k.req
    BY <1>1, <2>4, Stays
  <2>6. r \in DOMAIN n.read
    BY <1>2, <2>4, Stays DEF Known
  <2> DEFINE c == Continued(n)
  <2>7. c.req = n.req /\ DOMAIN c.read = DOMAIN n.read
    BY <2>4, ContinuedHas
  <2>. HIDE DEF c
  <2>8. TreasuryCarried(c, "executed") /\ c.req.op \in TreasuryRequests
    BY <1>1, <2>5, <2>6, <2>7 DEF TreasuryCarried
  <2>. QED
    BY <1>5, <2>4, <2>8, ToTreasury, MoveCommitThen DEF c
<1>6. CASE Commit(s, Set(k, r, x))
  <2>1. Untyped(r, x) /\ r[1] \notin Reserved
    BY <1>2 DEF Untyped, Typed, Counted, Personal, Priced, Linked, Reserved
  <2>. HIDE DEF x
  <2>. QED
    BY <1>2, <1>6, <2>1, GoodByMark, MoveCommit
<1>. QED
  BY <1>2, <1>4, <1>5, <1>6, MoveRefuse DEF ExecuteGrant, At

LEMMA RevenueMoves ==
  ASSUME NEW s, Sure(s), Revenue(s)
  PROVE  Moves(s)
<1> DEFINE k == session[s]
           a == k.req
           r == a.row
           l == Spent(k, r, a.amount)
           m == Load(k, a.to)
<1>1. a.op = "revenue" /\ a.op \in TreasuryRequests
  BY DEF Revenue, At, TreasuryRequests
<1>2. /\ Good(s, k) /\ a.amount \in Nat /\ Target(s) = r /\ IsPool(a.to)
      /\ TreasuryCarried(k, k.pc)
  BY <1>1, InTreasury DEF WellFormed
<1>3. CASE k.pc = "target" /\ Affordable(k, r, a.amount) /\ CommitThen(s, l, "community")
  <2>1. r \in Known(k) /\ r \in Rows /\ r[1] = "pool"
    BY <1>1, <1>3, TargetKnown
  <2>2. Good(s, l)
    BY <1>2, <1>3, <2>1, GoodBySpent
  <2>3. l.req = a
    BY <1>1, <2>2, Stays
  <2>. HIDE DEF l
  <2> DEFINE c == Continued(l)
  <2>4. c.req = l.req
    BY <2>2, ContinuedHas
  <2>. HIDE DEF c
  <2>5. TreasuryCarried(c, "community") /\ c.req.op \in TreasuryRequests
    BY <1>1, <2>3, <2>4 DEF TreasuryCarried
  <2>. QED
    BY <1>3, <2>2, <2>5, ToTreasury, MoveCommitThen DEF c
<1>4. CASE Query(s, m, "deposit")
  <2>1. Good(s, m) /\ HasLoaded(m, k, a.to)
    BY <1>2, RowIsLoaded
  <2>. HIDE DEF m
  <2>2. TreasuryCarried(m, "deposit") /\ m.req = a
    BY <1>1, <2>1 DEF TreasuryCarried, HasLoaded
  <2>. QED
    BY <1>1, <1>4, <2>1, <2>2, ToTreasury, MoveQuery
<1>5. CASE k.pc = "deposit" /\ Commit(s, Deposited(k, a.to, a.amount))
  <2>1. a.to \in DOMAIN k.read
    BY <1>1, <1>2, <1>5 DEF TreasuryCarried
  <2>2. a.to \in Known(k) /\ a.to \in Rows /\ a.to[1] = "pool"
    BY <1>2, <2>1, PoolKnown
  <2>. QED
    BY <1>2, <1>5, <2>2, GoodByDeposited, MoveCommit
<1>. QED
  BY <1>2, <1>3, <1>4, <1>5, MoveRefuse DEF Revenue, At, Args

LEMMA EpochRewardsMoves ==
  ASSUME NEW s, Sure(s), EpochRewards(s)
  PROVE  Moves(s)
<1> DEFINE k == session[s]
           n == k.req.amount
           l == LoadAll(k, Pools)
           x(r) == [balance |-> Copy(k, r).balance + n, deposited |-> Copy(k, r).deposited + n]
           f == [r \in Known(k) |-> x(r)]
<1>1. k.req.op = "epoch" /\ k.req.op \in TreasuryRequests
  BY DEF EpochRewards, At, TreasuryRequests
<1>2. Good(s, k) /\ n \in Nat /\ TreasuryCarried(k, k.pc)
  BY <1>1, InTreasury
<1>3. CASE k.pc = "start" /\ Query(s, l, "pools")
  <2>1. Good(s, l)
    BY <1>2, GoodByLoadAll
  <2>2. l.req = k.req
    BY <1>1, <2>1, Stays
  <2>3. DOMAIN l.read = Pools \cup DOMAIN k.read
    BY <1>2, LoadAllSees DEF Good, Firm
  <2>. HIDE DEF l
  <2>4. TreasuryCarried(l, "pools")
    BY <1>1, <1>2, <1>3, <2>2, <2>3 DEF TreasuryCarried, Pools
  <2>. QED
    BY <1>1, <1>3, <2>1, <2>2, <2>4, ToTreasury, MoveQuery
<1>4. CASE k.pc = "pools" /\ Commit(s, SetEach(k, f))
  <2>1. ASSUME NEW r \in Known(k) PROVE May(k, r, x(r))
    <3> DEFINE b == Copy(k, r).balance + n
               d == Copy(k, r).deposited + n
    <3>1. r[1] = "pool" /\ r \in Rows
      BY <1>1, <1>2, <1>4, <2>1 DEF TreasuryCarried, Known
    <3>2. Copy(k, r).balance \in Nat
      BY <1>2, <2>1, <3>1, CopyCounted DEF Counted
    <3>3. b \in Nat
      BY <1>2, <3>2
    <3>4. x(r) = [balance |-> b, deposited |-> d]
      OBVIOUS
    <3>. HIDE DEF b, d, x
    <3>5. RowFits(r, x(r))
      BY <3>1, <3>3, <3>4 DEF RowFits, Fits, Counted, Personal, Priced
    <3>. QED
      BY <2>1, <3>1, <3>5, Unguarded DEF May, Known, Reserved
  <2>. HIDE DEF x
  <2>2. \A r \in DOMAIN f : May(k, r, f[r])
    BY <2>1
  <2>. HIDE DEF f
  <2>. QED
    BY <1>2, <1>4, <2>2, GoodByEach, MoveCommit
<1>. QED
  BY <1>3, <1>4 DEF EpochRewards, At, Args

LEMMA ProposalFree ==
  ASSUME NEW s, Sure(s), session[s].req.op \in {"vote", "close", "agent_close", "execute"}
  PROVE  LET k == session[s] IN
         Good(s, k) /\ Free(k.req.row) /\ Target(s) = k.req.row /\ k.req.op \in TreasuryRequests
<1>1. session[s].req.op \in TreasuryRequests
  BY DEF TreasuryRequests
<1>. QED
  BY <1>1, InTreasury, TrackedIs DEF TableOf, Free, Reserved

LEMMA CastVoteMoves ==
  ASSUME NEW s, Sure(s), CastVote(s)
  PROVE  Moves(s)
<1> DEFINE k == session[s]
           a == k.req
           r == a.row
           v == VoteKey(s)
           x == [choice |-> a.choice, power |-> a.power]
           l == Insert(k, v, x)
           y == Only(a.choice, Copy(k, r)[a.choice] + a.power)
           m == Set(l, r, y)
           n == Set(k, r, [status |-> Verdict(Copy(k, r))])
<1>1. a.op = "vote" /\ Good(s, k) /\ Free(r) /\ Target(s) = r /\ a.op \in TreasuryRequests
  BY ProposalFree DEF CastVote, At
<1>2. CASE Query(s, k, "power")
  <2>1. TreasuryCarried(k, "power")
    BY <1>1 DEF TreasuryCarried
  <2>. QED
    BY <1>1, <1>2, <2>1, ToTreasury, MoveQuery
<1>3. CASE CommitThen(s, m, "voted")
  <2>1. Free(v)
    BY TrackedIs DEF VoteKey, Free, Reserved
  <2>2. DOMAIN x # {}
    OBVIOUS
  <2>. HIDE DEF x, y, v
  <2>3. Good(s, l)
    BY <1>1, <2>1, <2>2, GoodByFreeInsert
  <2>. HIDE DEF l
  <2>4. Good(s, m)
    BY <1>1, <2>3, GoodByFree
  <2>5. m.req = a
    BY <1>1, <2>4, Stays
  <2>. HIDE DEF m
  <2> DEFINE c == Continued(m)
  <2>6. c.req = m.req
    BY <2>4, ContinuedHas
  <2>. HIDE DEF c
  <2>7. TreasuryCarried(c, "voted") /\ c.req.op \in TreasuryRequests
    BY <1>1, <2>5, <2>6 DEF TreasuryCarried
  <2>. QED
    BY <1>3, <2>4, <2>7, ToTreasury, MoveCommitThen DEF c
<1>4. CASE Commit(s, n)
  BY <1>1, <1>4, GoodByFree, MoveCommit
<1>. QED
  BY <1>1, <1>2, <1>3, <1>4, MoveEnd, MoveRefuse DEF CastVote, Args, Closings

LEMMA CloseProposalMoves ==
  ASSUME NEW s, Sure(s), CloseProposal(s)
  PROVE  Moves(s)
<1> DEFINE k == session[s]
           r == k.req.row
<1>1. Good(s, k) /\ Free(r) /\ Target(s) = r
  BY ProposalFree DEF CloseProposal, Args
<1>. QED
  BY <1>1, GoodByFree, MoveCommit, MoveRefuse DEF CloseProposal

LEMMA ExecuteProposalMoves ==
  ASSUME NEW s, Sure(s), ExecuteProposal(s)
  PROVE  Moves(s)
<1> DEFINE k == session[s]
           a == k.req
           r == a.row
           l == Load(k, a.config)
           x == [value |-> a.value]
           y == [status |-> "executed"]
           m == Set(k, a.config, x)
           n == Set(m, r, y)
<1>1. a.op = "execute" /\ Good(s, k) /\ Free(r) /\ Target(s) = r /\ a.op \in TreasuryRequests
  BY ProposalFree DEF ExecuteProposal, At
<1>2. CASE Query(s, l, "config")
  <2>1. Good(s, l)
    BY <1>1, GoodByLoad
  <2>2. l.req = a
    BY <1>1, <2>1, Stays
  <2>. HIDE DEF l
  <2>3. TreasuryCarried(l, "config")
    BY <1>1, <2>2 DEF TreasuryCarried
  <2>. QED
    BY <1>1, <1>2, <2>1, <2>2, <2>3, ToTreasury, MoveQuery
<1>3. CASE Commit(s, n)
  <2>1. a.config[1] = "config"
    BY <1>1 DEF Sure, Proper
  <2>2. Free(a.config)
    BY <2>1, TrackedIs DEF Free, Reserved
  <2>. HIDE DEF x, y
  <2>3. Good(s, m)
    BY <1>1, <2>2, GoodByFree
  <2>. HIDE DEF m
  <2>. QED
    BY <1>1, <1>3, <2>3, GoodByFree, MoveCommit
<1>. QED
  BY <1>1, <1>2, <1>3, MoveRefuse DEF ExecuteProposal, Args

LEMMA TreasuryStepMoves ==
  ASSUME NEW s, Sure(s), TreasuryStep(s)
  PROVE  Moves(s)
BY LoadTargetMoves, PoolDepositMoves, PoolSpendMoves, ReviewGrantMoves, ExecuteGrantMoves,
   RevenueMoves, EpochRewardsMoves, CastVoteMoves, CloseProposalMoves, ExecuteProposalMoves
   DEF TreasuryStep, Args

----------------------------------------------------------------------------
(* What a sum over a set of rows computes                                  *)

SumStep(f, g, c, T) ==
    IF T = {} THEN 0 ELSE LET x == CHOOSE x \in T : TRUE IN g[x][c] + f[T \ {x}]

(* f solves the equation that the sum of column c over g is defined by.    *)
Sums(f, g, c, D) == f = [T \in D |-> SumStep(f, g, c, T)]

SumOf(g, c, S) == (CHOOSE f : Sums(f, g, c, SUBSET S))[S]

LEMMA SumStepIs ==
  ASSUME NEW f, NEW g, NEW c, NEW T, T # {}
  PROVE  \E x \in T : SumStep(f, g, c, T) = g[x][c] + f[T \ {x}]
<1> DEFINE x == CHOOSE x \in T : TRUE
<1>1. x \in T
  OBVIOUS
<1>2. SumStep(f, g, c, T) = g[x][c] + f[T \ {x}]
  BY Zenon DEF SumStep
<1>. HIDE DEF x
<1>. QED
  BY <1>1, <1>2

(* The step looks at f only for the set without the element chosen.        *)
LEMMA SumStepAgree ==
  ASSUME NEW f, NEW h, NEW g, NEW c, NEW T, \A x \in T : f[T \ {x}] = h[T \ {x}]
  PROVE  SumStep(f, g, c, T) = SumStep(h, g, c, T)
<1>1. CASE T = {}
  BY <1>1 DEF SumStep
<1>2. CASE T # {}
  <2> DEFINE x == CHOOSE x \in T : TRUE
  <2>1. x \in T
    BY <1>2
  <2>2. /\ SumStep(f, g, c, T) = g[x][c] + f[T \ {x}]
        /\ SumStep(h, g, c, T) = g[x][c] + h[T \ {x}]
    BY <1>2, Zenon DEF SumStep
  <2>. HIDE DEF x
  <2>. QED
    BY <2>1, <2>2
<1>. QED
  BY <1>1, <1>2

LEMMA Smaller ==
  ASSUME NEW S, IsFiniteSet(S), NEW T \in SUBSET S, NEW x \in T
  PROVE  /\ T \ {x} \in SUBSET S /\ Cardinality(T) \in Nat \ {0}
         /\ Cardinality(T \ {x}) = Cardinality(T) - 1
<1>1. IsFiniteSet(T)
  BY FS_Subset
<1>2. Cardinality(T) \in Nat
  BY <1>1, FS_CardinalityType
<1>3. Cardinality(T) # 0
  BY <1>1, FS_EmptySet
<1>4. Cardinality(T \ {x}) = Cardinality(T) - 1
  BY <1>1, FS_RemoveElement
<1>. QED
  BY <1>2, <1>3, <1>4

UpTo(S, n) == {T \in SUBSET S : Cardinality(T) <= n}

LEMMA SumsNext ==
  ASSUME NEW S, IsFiniteSet(S), NEW g, NEW c, NEW n \in Nat, NEW f, Sums(f, g, c, UpTo(S, n))
  PROVE  \E h : Sums(h, g, c, UpTo(S, n + 1))
<1> DEFINE D == UpTo(S, n)
           E == UpTo(S, n + 1)
           h == [T \in E |-> SumStep(f, g, c, T)]
<1>1. \A T \in D : f[T] = SumStep(f, g, c, T)
  <2>. HIDE DEF D
  <2>1. f = [T \in D |-> SumStep(f, g, c, T)]
    BY Zenon DEF Sums, D
  <2>. QED
    BY Zenon, <2>1
<1>2. \A T \in E : h[T] = SumStep(f, g, c, T)
  OBVIOUS
<1>3. \A T \in D : T \in E
  <2>1. SUFFICES ASSUME NEW T \in D PROVE T \in E
    OBVIOUS
  <2>2. IsFiniteSet(T)
    BY FS_Subset DEF UpTo
  <2>3. Cardinality(T) \in Nat /\ Cardinality(T) <= n
    BY <2>2, FS_CardinalityType DEF UpTo
  <2>. QED
    BY <2>3 DEF UpTo
<1>4. ASSUME NEW T \in E PROVE SumStep(f, g, c, T) = SumStep(h, g, c, T)
  <2>1. ASSUME NEW x \in T PROVE f[T \ {x}] = h[T \ {x}]
    <3>1. /\ T \in SUBSET S /\ Cardinality(T) <= n + 1
      BY DEF UpTo
    <3>2. /\ T \ {x} \in SUBSET S /\ Cardinality(T) \in Nat \ {0}
          /\ Cardinality(T \ {x}) = Cardinality(T) - 1
      BY <3>1, Smaller
    <3>3. T \ {x} \in D
      BY <3>1, <3>2 DEF UpTo
    <3>. HIDE DEF D, E, h
    <3>. QED
      BY <1>1, <1>2, <1>3, <3>3
  <2>. HIDE DEF h
  <2>. QED
    BY <2>1, SumStepAgree
<1>5. h = [T \in E |-> SumStep(h, g, c, T)]
  <2> DEFINE F(T) == SumStep(f, g, c, T)
             G(T) == SumStep(h, g, c, T)
  <2>1. h = [T \in E |-> F(T)] /\ \A T \in E : F(T) = G(T)
    <3>. HIDE DEF E
    <3>. QED
      BY <1>4
  <2>. HIDE DEF F, G, h, E
  <2>2. h = [T \in E |-> G(T)]
    BY <2>1
  <2>. QED
    BY <2>2 DEF G
<1>. QED
  BY Zenon, <1>5 DEF Sums

LEMMA SumsExist ==
  ASSUME NEW S, IsFiniteSet(S), NEW g, NEW c
  PROVE  \E f : Sums(f, g, c, SUBSET S)
<1> DEFINE Bad == {n \in Nat : ~\E f : Sums(f, g, c, UpTo(S, n))}
<1>1. ASSUME Bad # {} PROVE FALSE
  <2>1. PICK n \in Bad : \A j \in Bad : n <= j
    <3>1. Bad \in SUBSET Nat
      OBVIOUS
    <3>. HIDE DEF Bad
    <3>. QED
      BY <1>1, <3>1, Least
  <2>2. CASE n = 0
    <3> DEFINE f == [T \in UpTo(S, 0) |-> 0]
    <3>1. \A T \in UpTo(S, 0) : T = {}
      <4>1. SUFFICES ASSUME NEW T \in UpTo(S, 0) PROVE T = {}
        OBVIOUS
      <4>2. IsFiniteSet(T) /\ Cardinality(T) <= 0
        BY FS_Subset DEF UpTo
      <4>3. Cardinality(T) = 0
        BY <4>2, FS_CardinalityType
      <4>. QED
        BY <4>2, <4>3, FS_EmptySet
    <3>2. \A T \in UpTo(S, 0) : SumStep(f, g, c, T) = 0
      BY <3>1 DEF SumStep
    <3>3. f = [T \in UpTo(S, 0) |-> SumStep(f, g, c, T)]
      <4> DEFINE D == UpTo(S, 0)
                 G(T) == SumStep(f, g, c, T)
      <4>1. f = [T \in D |-> 0] /\ \A T \in D : G(T) = 0
        BY <3>2
      <4>. HIDE DEF G, f, D
      <4>2. f = [T \in D |-> G(T)]
        BY <4>1
      <4>. QED
        BY <4>2 DEF G, D
    <3>. QED
      BY <2>1, <2>2, <3>3, Zenon DEF Sums
  <2>3. CASE n # 0
    <3>1. n - 1 \in Nat /\ n - 1 \notin Bad /\ (n - 1) + 1 = n
      BY <2>1, <2>3
    <3>2. PICK f : Sums(f, g, c, UpTo(S, n - 1))
      BY <3>1
    <3>3. \E h : Sums(h, g, c, UpTo(S, (n - 1) + 1))
      BY <3>1, <3>2, SumsNext
    <3>. QED
      BY <2>1, <3>1, <3>3
  <2>. QED
    BY <2>2, <2>3
<1>2. Cardinality(S) \in Nat
  BY FS_CardinalityType
<1>3. PICK f : Sums(f, g, c, UpTo(S, Cardinality(S)))
  BY <1>1, <1>2
<1>4. UpTo(S, Cardinality(S)) = SUBSET S
  <2>1. \A T \in SUBSET S : Cardinality(T) <= Cardinality(S)
    BY FS_Subset
  <2>. QED
    BY <2>1 DEF UpTo
<1>. QED
  BY <1>3, <1>4

(* A sum of naturals is one, and no less than any of them.                 *)
LEMMA SumsAre ==
  ASSUME NEW S, IsFiniteSet(S), NEW g, NEW c, \A x \in S : g[x][c] \in Nat,
         NEW f, Sums(f, g, c, SUBSET S)
  PROVE  \A T \in SUBSET S : f[T] \in Nat /\ \A x \in T : g[x][c] <= f[T]
<1> DEFINE Fine(T) == f[T] \in Nat /\ \A x \in T : g[x][c] <= f[T]
           Bad == {Cardinality(T) : T \in {T \in SUBSET S : ~Fine(T)}}
<1>0. \A T \in SUBSET S : f[T] = SumStep(f, g, c, T)
  <2>1. f = [T \in SUBSET S |-> SumStep(f, g, c, T)]
    BY Zenon DEF Sums
  <2>. QED
    BY Zenon, <2>1
<1>1. ASSUME Bad # {} PROVE FALSE
  <2>1. Bad \in SUBSET Nat
    <3>1. \A T \in SUBSET S : Cardinality(T) \in Nat
      BY FS_Subset, FS_CardinalityType
    <3>. HIDE DEF Fine
    <3>. QED
      BY <3>1
  <2>2. PICK n \in Bad : \A j \in Bad : n <= j
    <3>. HIDE DEF Bad
    <3>. QED
      BY <1>1, <2>1, Least
  <2>3. PICK T \in SUBSET S : ~Fine(T) /\ n = Cardinality(T)
    BY <2>2
  <2>4. CASE T = {}
    <3>1. f[T] = 0
      BY <1>0, <2>4 DEF SumStep
    <3>. QED
      BY <2>3, <2>4, <3>1
  <2>5. CASE T # {}
    <3>1. PICK x \in T : f[T] = g[x][c] + f[T \ {x}]
      <4>1. \E x \in T : SumStep(f, g, c, T) = g[x][c] + f[T \ {x}]
        BY <2>5, SumStepIs
      <4>. QED
        BY <1>0, <4>1
    <3>2. /\ T \ {x} \in SUBSET S /\ Cardinality(T) \in Nat \ {0}
          /\ Cardinality(T \ {x}) = Cardinality(T) - 1
      BY Smaller
    <3>3. Fine(T \ {x})
      <4>1. SUFFICES ASSUME ~Fine(T \ {x}) PROVE FALSE
        OBVIOUS
      <4>2. Cardinality(T \ {x}) \in Bad
        BY <3>2, <4>1
      <4>3. n <= Cardinality(T \ {x})
        BY <2>2, <4>2
      <4>. QED
        BY <2>3, <3>2, <4>3
    <3>4. f[T \ {x}] \in Nat /\ g[x][c] \in Nat /\ \A y \in T \ {x} : g[y][c] <= f[T \ {x}]
      BY <3>3
    <3>5. f[T] \in Nat /\ g[x][c] <= f[T]
      BY <3>1, <3>4
    <3>6. ASSUME NEW y \in T, y # x PROVE g[y][c] <= f[T]
      <4>1. g[y][c] \in Nat /\ g[y][c] <= f[T \ {x}]
        BY <3>4, <3>6
      <4>. QED
        BY <3>1, <3>4, <4>1
    <3>7. Fine(T)
      BY <3>5, <3>6
    <3>. QED
      BY <2>3, <3>7
  <2>. QED
    BY <2>4, <2>5
<1>. QED
  <2>1. \A T \in SUBSET S : Fine(T)
    <3>. HIDE DEF Fine
    <3>. QED
      BY <1>1
  <2>. QED
    BY <2>1

LEMMA SumIs ==
  ASSUME NEW S, IsFiniteSet(S), NEW g, NEW c, \A x \in S : g[x][c] \in Nat
  PROVE  SumOf(g, c, S) \in Nat /\ \A x \in S : g[x][c] <= SumOf(g, c, S)
<1> DEFINE f == CHOOSE f : Sums(f, g, c, SUBSET S)
<1>1. Sums(f, g, c, SUBSET S)
  BY SumsExist
<1>2. SumOf(g, c, S) = f[S]
  BY Zenon DEF SumOf
<1>. HIDE DEF f
<1>. QED
  BY <1>1, <1>2, SumsAre

(* What the stakes with these picks amount to.                             *)
LEMMA AmountsIs ==
  ASSUME NEW s, NEW picks
  PROVE  Amounts(s, picks) =
           SumOf(session[s].read, "amount",
                 {r \in Stakes(s) : session[s].read[r].pick \in picks})
BY Zenon DEF Amounts, MapThenSumSet, MapThenFoldSet, SumOf, Sums, SumStep

LEMMA InPredictions ==
  ASSUME NEW s, Sure(s), session[s].req.op \in PredictionRequests
  PROVE  /\ Good(s, session[s]) /\ WellFormed(session[s].req)
         /\ PredictionCarried(session[s], session[s].pc)
BY CarriedByGroup DEF Sure

LEMMA ToPredictions ==
  ASSUME NEW k, k.req.op \in PredictionRequests, NEW pc, PredictionCarried(k, pc)
  PROVE  Carried(k, pc)
BY CarriedByGroup

LEMMA GoodByOpenConsensus ==
  ASSUME NEW s, NEW k, Good(s, k), NEW m
  PROVE  LET l == OpenConsensus(k, <<"consensus", m>>) IN
         /\ Good(s, l) /\ l.req = k.req
         /\ DOMAIN l.read = {<<"consensus", m>>} \cup DOMAIN k.read
<1> DEFINE r == <<"consensus", m>>
           x == [status |-> "open"]
           l == Load(k, r)
           n == Insert(k, r, x)
<1>1. Good(s, l) /\ l.req = k.req /\ DOMAIN l.read = {r} \cup DOMAIN k.read
  BY GoodByLoad, LoadSees
<1>2. MayInsert(k, r, x)
  BY TrackedIs DEF MayInsert, Entitled
<1>3. DOMAIN x # {}
  OBVIOUS
<1>. HIDE DEF x, r
<1>4. Good(s, n) /\ n.req = k.req /\ DOMAIN n.read = {r} \cup DOMAIN k.read
  BY <1>2, <1>3, GoodByInsert, InsertSees
<1>. QED
  BY <1>1, <1>4 DEF OpenConsensus, x, r

LEMMA StakeLoadMoves ==
  ASSUME NEW s, Sure(s), StakeLoad(s)
  PROVE  Moves(s)
<1> DEFINE k == session[s]
           c == <<"consensus", k.req.match>>
           l == Load(k, c)
           m == OpenConsensus(k, c)
           w == W(k.req.user)
           n == Load(k, w)
<1>1. k.req.op = "stake_on" /\ k.req.op \in PredictionRequests
  BY DEF StakeLoad, At, PredictionRequests
<1>2. Good(s, k)
  BY <1>1, InPredictions
<1>3. CASE Query(s, l, "consensus")
  <2>1. Good(s, l) /\ HasLoaded(l, k, c)
    BY <1>2, RowIsLoaded
  <2>. HIDE DEF l
  <2>2. PredictionCarried(l, "consensus") /\ l.req = k.req
    BY <1>1, <2>1 DEF PredictionCarried, HasLoaded, Settlers, ProfileRequests
  <2>. QED
    BY <1>1, <1>3, <2>1, <2>2, ToPredictions, MoveQuery
<1>4. CASE Query(s, m, "open")
  <2>1. Good(s, m) /\ m.req = k.req
    BY <1>2, GoodByOpenConsensus
  <2>. HIDE DEF m
  <2>2. PredictionCarried(m, "open")
    BY <1>1, <2>1 DEF PredictionCarried, Settlers, ProfileRequests
  <2>. QED
    BY <1>1, <1>4, <2>1, <2>2, ToPredictions, MoveQuery
<1>5. CASE k.req.match \notin KickedOff /\ QueryForUpdate(s, k, w, "wallet")
  <2>1. HasLoaded(n, k, w)
    BY <1>2, RowIsLoaded
  <2>. HIDE DEF n
  <2>2. PredictionCarried(n, "wallet") /\ n.req = k.req
    BY <1>1, <1>5, <2>1 DEF PredictionCarried, HasLoaded, Settlers, ProfileRequests
  <2>3. Carried(n, "wallet")
    BY <1>1, <2>2, ToPredictions
  <2>. QED
    BY <1>2, <1>5, <2>3, MoveQueryForUpdate DEF n
<1>. QED
  BY <1>3, <1>4, <1>5, MoveRefuse DEF StakeLoad, At, Args, Cp

(* The rows of the requests that stake, apply or are about a profile.      *)
LEMMA StakeOnMoves ==
  ASSUME NEW s, Sure(s), StakeOn(s)
  PROVE  Moves(s)
<1> DEFINE k == session[s]
           a == k.req
           w == W(a.user)
           l == Add(k, w, "vit", -a.amount)
           x == [user |-> a.user, match |-> a.match, pick |-> a.pick,
                 amount |-> a.amount, payout |-> 0, status |-> "active"]
<1>1. a.op = "stake_on" /\ k.pc = "wallet" /\ a.op \in PredictionRequests
  BY DEF StakeOn, At, PredictionRequests
<1>2. Good(s, k) /\ WellFormed(a) /\ PredictionCarried(k, "wallet")
  BY <1>1, InPredictions
<1>3. /\ HasWallet(a.user) /\ a.amount \in Nat /\ a.amount # 0
      /\ w \in DOMAIN k.read /\ a.match \notin KickedOff
  BY <1>1, <1>2 DEF WellFormed, PredictionCarried, UserRequests, AmountRequests
<1>4. a.row[1] = "stake"
  BY <1>1, RowIs DEF TableOf
<1>5. CASE ~(Copy(k, w).vit < a.amount) /\ Commit(s, Insert(l, a.row, x))
  <2>1. Good(s, l)
    BY <1>2, <1>3, <1>5, GoodByDebit DEF WalletColumns
  <2>2. l.req = a
    BY <1>1, <2>1, Stays
  <2>. HIDE DEF l
  <2>3. RowFits(a.row, x) /\ RowFull(a.row, x)
    BY <1>3, <1>4 DEF RowFits, RowFull, Fits, Typed, Counted, Personal, Priced, Linked, StakeStatuses
  <2>4. Entitled(a, a.row, x)
    BY <1>1, <1>3, <1>4 DEF Entitled
  <2>5. MayInsert(l, a.row, x)
    BY <2>2, <2>3, <2>4 DEF MayInsert
  <2>. HIDE DEF x
  <2>6. Good(s, Insert(l, a.row, x))
    BY <2>1, <2>5, GoodByInsert
  <2>. QED
    BY <1>5, <2>6, MoveCommit
<1>. QED
  BY <1>5, MoveRefuse DEF StakeOn, At, Args, Balance, Wallet

----------------------------------------------------------------------------
(* The requests that settle a match                                        *)

LEMMA InSettling ==
  ASSUME NEW s, Sure(s), session[s].req.op \in PredictionRequests,
         session[s].pc \in {"insert", "results", "stakes", "pay", "grade"}
  PROVE  /\ session[s].req.op \in Settlers
         /\ Good(s, session[s]) /\ PredictionCarried(session[s], session[s].pc)
BY InPredictions DEF PredictionCarried

(* Neither stakes nor forecasts.                                           *)
Blank(S) == \A r \in S : r[1] \notin {"stake", "forecast"}

LEMMA BlankCarried ==
  ASSUME NEW k, k.req.op \in Settlers, Blank(DOMAIN k.read),
         NEW pc \in {"start", "insert", "results", "consensus"}
  PROVE  Carried(k, pc)
<1>1. k.req.op \in PredictionRequests
  BY DEF Settlers, PredictionRequests
<1>2. PredictionCarried(k, pc)
  BY DEF Settlers, PredictionCarried, Blank, ProfileRequests
<1>. QED
  BY <1>1, <1>2, ToPredictions

LEMMA IsBlank ==
  ASSUME NEW s, Sure(s), session[s].req.op \in Settlers,
         session[s].pc \in {"start", "insert", "results", "consensus"}
  PROVE  Blank(DOMAIN session[s].read) /\ Good(s, session[s])
<1>1. session[s].req.op \in PredictionRequests
  BY DEF Settlers, PredictionRequests
<1>. QED
  BY <1>1, InPredictions DEF PredictionCarried, Blank

LEMMA MoveByLoading ==
  ASSUME NEW s, NEW k, Good(s, k), k.req.op \in Settlers, Blank(DOMAIN k.read),
         NEW S, Blank(S), NEW pc \in {"insert", "results", "consensus"},
         Query(s, LoadAll(k, S), pc)
  PROVE  Moves(s)
<1> DEFINE l == LoadAll(k, S)
<1>1. Good(s, l)
  BY GoodByLoadAll
<1>2. l.req = k.req /\ DOMAIN l.read = S \cup DOMAIN k.read
  BY LoadAllSees DEF Good, Firm
<1>. HIDE DEF l
<1>3. Blank(DOMAIN l.read) /\ l.req.op \in Settlers
  BY <1>2 DEF Blank
<1>4. Carried(l, pc)
  BY <1>3, BlankCarried
<1>. QED
  BY <1>1, <1>4, MoveQuery DEF l

LEMMA SubmitResultMoves ==
  ASSUME NEW s, Sure(s), session[s].req.op \in PredictionRequests, SubmitResult(s)
  PROVE  Moves(s)
<1> DEFINE k == session[s]
           seen == Found(ResultsOf(k.req.match))
           o == OracleKey(s)
           x == [result |-> k.req.result, accepted |-> FALSE, disputed |-> FALSE]
           l == Insert(k, o, x)
<1>1. Blank(seen)
  BY DEF Blank, Found, ResultsOf
<1>2. CASE Refuse(s)
  BY <1>2, MoveRefuse
<1>3. CASE /\ k.pc = "start" /\ k.req.op \in {"oracle", "agent", "resolve"}
           /\ Query(s, k, "insert") \/ Query(s, LoadAll(k, seen), "results")
  <2>1. k.req.op \in Settlers
    BY <1>3 DEF Settlers
  <2>2. Good(s, k) /\ Blank(DOMAIN k.read)
    BY <1>3, <2>1, IsBlank
  <2>3. CASE Query(s, k, "insert")
    BY <2>1, <2>2, <2>3, BlankCarried, MoveQuery
  <2>4. CASE Query(s, LoadAll(k, seen), "results")
    <3>. HIDE DEF seen
    <3>. QED
      BY <1>1, <2>1, <2>2, <2>4, MoveByLoading
  <2>. QED
    BY <1>3, <2>3, <2>4
<1>4. CASE k.pc = "insert" /\ Query(s, LoadAll(l, seen), "results")
  <2>1. k.req.op \in Settlers
    BY <1>4, InSettling
  <2>2. Good(s, k) /\ Blank(DOMAIN k.read)
    BY <1>4, <2>1, IsBlank
  <2>3. Free(o) /\ o[1] = "oracle"
    BY TrackedIs DEF Free, Reserved, OracleKey
  <2>4. DOMAIN x # {}
    OBVIOUS
  <2>. HIDE DEF x, o, seen
  <2>5. Good(s, l) /\ l.req = k.req /\ DOMAIN l.read = {o} \cup DOMAIN k.read
    BY <2>2, <2>3, <2>4, GoodByFreeInsert, InsertSees
  <2>. HIDE DEF l
  <2>6. Blank(DOMAIN l.read) /\ l.req.op \in Settlers
    BY <2>1, <2>2, <2>3, <2>5 DEF Blank
  <2>. QED
    BY <1>1, <1>4, <2>5, <2>6, MoveByLoading
<1>. QED
  BY <1>2, <1>3, <1>4 DEF SubmitResult, At, Args

LEMMA CheckResultsMoves ==
  ASSUME NEW s, Sure(s), session[s].req.op \in PredictionRequests, CheckResults(s)
  PROVE  Moves(s)
<1> DEFINE k == session[s]
           g == [r \in Results(s) |-> [disputed |-> TRUE]]
<1>1. k.pc = "results" /\ k.req.op \in Settlers
  BY InSettling DEF CheckResults
<1>2. Good(s, k) /\ Blank(DOMAIN k.read)
  BY <1>1, IsBlank
<1>3. ASSUME NEW r \in Results(s), NEW x PROVE May(k, r, x)
  <2>1. Free(r)
    BY TrackedIs DEF Results, ResultsOf, Free, Reserved
  <2>. QED
    BY <2>1, Unguarded DEF May, Free
<1>4. ASSUME NEW outcome, Query(s, Load(Accept(s, outcome), Cp(s)), "consensus")
      PROVE  Moves(s)
  <2> DEFINE f == [r \in Results(s) |->
                   LET accepted == Copy(k, r).result = outcome IN
                   IF Args(s).op = "agent" THEN [accepted |-> accepted]
                   ELSE [accepted |-> accepted, disputed |-> FALSE]]
             l == SetEach(k, f)
             c == {Cp(s)}
  <2>1. \A r \in DOMAIN f : May(k, r, f[r])
    BY <1>3
  <2>2. l = Accept(s, outcome)
    BY DEF Accept
  <2>. HIDE DEF f
  <2>3. Good(s, l) /\ l.req = k.req /\ l.read = k.read
    BY <1>2, <2>1, GoodByEach, EachSees
  <2>4. Blank(c)
    BY DEF Blank, Cp
  <2>. HIDE DEF l
  <2>5. Query(s, LoadAll(l, c), "consensus")
    BY <1>4, <2>2 DEF Load
  <2>. HIDE DEF c
  <2>. QED
    BY <1>1, <1>2, <2>3, <2>4, <2>5, MoveByLoading
<1>5. CASE Commit(s, k)
  BY <1>2, <1>5, MoveCommit
<1>6. CASE Commit(s, SetEach(k, g))
  <2>1. \A r \in DOMAIN g : May(k, r, g[r])
    BY <1>3
  <2>. HIDE DEF g
  <2>. QED
    BY <1>2, <1>6, <2>1, GoodByEach, MoveCommit
<1>. QED
  BY <1>4, <1>5, <1>6, MoveRefuse DEF CheckResults

(* The stakes that a settler finds.                                        *)
LEMMA StakesFound ==
  ASSUME NEW s, NEW k, Good(s, k), k.req.op \in Settlers, Blank(DOMAIN k.read), NEW m
  PROVE  LET l == LoadAll(k, StakesOf(m)) IN Good(s, l) /\ l.req = k.req /\ Carried(l, "stakes")
<1> DEFINE S == StakesOf(m)
           l == LoadAll(k, S)
<1>1. \A r \in S : r \in Rows /\ r[1] = "stake" /\ table[r] # Absent
  BY DEF StakesOf
<1>. HIDE DEF S
<1>2. Good(s, l) /\ IsSession(k)
  BY GoodByLoadAll DEF Good, Firm
<1>3. /\ l.req = k.req
      /\ DOMAIN l.read = (S \ Known(k)) \cup DOMAIN k.read
      /\ \A r \in S \ Known(k) : l.read[r] = table[r]
  BY <1>2, LoadedFields
<1>. HIDE DEF l
<1>4. ASSUME NEW r \in DOMAIN l.read, r[1] = "stake" PROVE r \in Rows /\ l.read[r] # Absent
  BY <1>1, <1>3, <1>4 DEF Blank
<1>5. \A r \in DOMAIN l.read : r[1] # "forecast"
  BY <1>1, <1>3 DEF Blank
<1>6. PredictionCarried(l, "stakes") /\ l.req.op \in PredictionRequests
  BY <1>3, <1>4, <1>5 DEF PredictionCarried, Settlers, PredictionRequests, ProfileRequests
<1>. QED
  BY <1>2, <1>3, <1>6, ToPredictions DEF l, S

LEMMA LoadStakesMoves ==
  ASSUME NEW s, Sure(s), LoadStakes(s)
  PROVE  Moves(s)
<1> DEFINE k == session[s]
           S == StakesOf(k.req.match)
           m == OpenConsensus(k, Cp(s))
<1>1. k.pc = "consensus" /\ k.req.op \in Settlers
  BY DEF LoadStakes, Args, Settlers
<1>2. Good(s, k) /\ Blank(DOMAIN k.read)
  BY <1>1, IsBlank
<1>3. CASE Query(s, LoadAll(k, S), "stakes")
  BY <1>1, <1>2, <1>3, StakesFound, MoveQuery
<1>4. CASE Query(s, LoadAll(m, S), "stakes")
  <2>1. Good(s, m) /\ m.req = k.req /\ DOMAIN m.read = {Cp(s)} \cup DOMAIN k.read
    BY <1>2, GoodByOpenConsensus DEF Cp
  <2>. HIDE DEF m
  <2>2. Blank(DOMAIN m.read)
    BY <1>2, <2>1 DEF Blank, Cp
  <2>. QED
    BY <1>1, <1>4, <2>1, <2>2, StakesFound, MoveQuery
<1>. QED
  BY <1>2, <1>3, <1>4, MoveRefuse, MoveCommit DEF LoadStakes, Args

LEMMA LoadWalletsMoves ==
  ASSUME NEW s, Sure(s), session[s].req.op \in PredictionRequests, LoadWallets(s)
  PROVE  Moves(s)
<1> DEFINE k == session[s]
           S == {W(k.read[r].user) : r \in Stakes(s)}
           l == LoadAll(k, S)
<1>1. k.pc = "stakes" /\ Query(s, l, "pay")
  BY DEF LoadWallets
<1>2. k.req.op \in Settlers /\ Good(s, k) /\ PredictionCarried(k, "stakes")
  BY <1>1, InSettling
<1>3. \A r \in S : r[1] = "wallet"
  BY DEF W
<1>4. \A r \in DOMAIN k.read : r[1] = "stake" => r \in Rows /\ k.read[r] # Absent
  BY <1>2 DEF PredictionCarried
<1>5. \A r \in DOMAIN k.read : r[1] = "stake" => W(k.read[r].user) \in S
  BY <1>4 DEF Stakes, Known, Exists
<1>. HIDE DEF S
<1>6. Good(s, l)
  BY <1>2, GoodByLoadAll
<1>7. /\ l.req = k.req
      /\ DOMAIN l.read = S \cup DOMAIN k.read
      /\ \A r \in DOMAIN k.read : r \notin S => l.read[r] = k.read[r]
  BY <1>2, LoadAllSees DEF Good, Firm
<1>. HIDE DEF l
<1>8. \A r \in DOMAIN l.read : r[1] = "stake" =>
        r \in Rows /\ l.read[r] # Absent /\ W(l.read[r].user) \in DOMAIN l.read
  BY <1>3, <1>4, <1>5, <1>7
<1>9. \A r \in DOMAIN l.read : r[1] # "forecast"
  BY <1>2, <1>3, <1>7 DEF PredictionCarried
<1>10. PredictionCarried(l, "pay") /\ l.req.op \in PredictionRequests
  BY <1>2, <1>7, <1>8, <1>9 DEF PredictionCarried, Settlers, PredictionRequests, ProfileRequests
<1>. QED
  BY <1>1, <1>6, <1>10, ToPredictions, MoveQuery

LEMMA StakeIs ==
  ASSUME NEW s, Sure(s), session[s].req.op \in PredictionRequests, session[s].pc = "pay",
         NEW r \in Stakes(s)
  PROVE  LET k == session[s] x == k.read[r] IN
         /\ k.req.op \in Settlers /\ Good(s, k)
         /\ r \in Rows /\ r[1] = "stake" /\ r \in Known(k)
         /\ x.amount \in Nat \ {0} /\ HasWallet(x.user) /\ W(x.user) \in DOMAIN k.read
<1> DEFINE k == session[s]
           x == k.read[r]
<1>1. k.req.op \in Settlers /\ Good(s, k) /\ PredictionCarried(k, "pay")
  BY InSettling
<1>2. r[1] = "stake" /\ r \in Known(k) /\ r \in DOMAIN k.read
  BY DEF Stakes, Known
<1>3. r \in Rows /\ x # Absent /\ W(x.user) \in DOMAIN k.read
  BY <1>1, <1>2 DEF PredictionCarried
<1>4. RowFits(r, x) /\ RowFull(r, x)
  BY <1>1, <1>2, <1>3, TrackedIs DEF Good, Firm, Solid, Reads
<1>5. <<r[1], "amount">> \in Typed /\ <<r[1], "user">> \in Typed
  BY <1>2 DEF Typed, Counted, Personal
<1>6. "amount" \in DOMAIN x /\ "user" \in DOMAIN x
  BY <1>2, <1>4, <1>5 DEF RowFull
<1>7. x.amount \in Nat /\ x.amount # 0 /\ HasWallet(x.user)
  BY <1>2, <1>4, <1>6 DEF RowFits, Fits, Counted, Personal
<1>. QED
  BY <1>1, <1>2, <1>3, <1>7

LEMMA DueIs ==
  ASSUME NEW s, Sure(s), session[s].req.op \in PredictionRequests, session[s].pc = "pay",
         Due(s) # {}
  PROVE  NextDue(s) \in Due(s)
<1> DEFINE T == {r[2] : r \in Due(s)}
<1>1. \A r \in Due(s) : r \in Stakes(s)
  BY DEF Due
<1>2. \A r \in Due(s) : r[2] \in Nat
  BY <1>1, StakeIs, StakeIds
<1>3. T \in SUBSET Nat /\ T # {}
  BY <1>2
<1>4. PICK n \in T : \A y \in T : n <= y
  <2>. HIDE DEF T
  <2>. QED
    BY <1>3, Least
<1>5. \E r \in Due(s) : \A x \in Due(s) : r[2] <= x[2]
  BY <1>4
<1>. QED
  BY <1>5 DEF NextDue

LEMMA AmountsAre ==
  ASSUME NEW s, Sure(s), session[s].req.op \in PredictionRequests, session[s].pc = "pay",
         NEW picks
  PROVE  /\ Amounts(s, picks) \in Nat
         /\ \A r \in Stakes(s) : session[s].read[r].pick \in picks =>
              session[s].read[r].amount <= Amounts(s, picks)
<1> DEFINE g == session[s].read
           S == {r \in Stakes(s) : g[r].pick \in picks}
           c == "amount"
<1>1. \A r \in S : r \in Rows /\ g[r].amount \in Nat
  BY StakeIs
<1>2. IsFiniteSet(S)
  BY <1>1, FiniteRows, FS_Subset
<1>3. Amounts(s, picks) = SumOf(g, c, S)
  BY AmountsIs
<1>4. \A r \in S : g[r][c] \in Nat
  BY <1>1
<1>. HIDE DEF S, g, c
<1>5. SumOf(g, c, S) \in Nat /\ \A x \in S : g[x][c] <= SumOf(g, c, S)
  BY <1>2, <1>4, SumIs
<1>. QED
  BY <1>3, <1>5 DEF S, g, c

LEMMA FeeIs ==
  ASSUME NEW n \in Nat
  PROVE  n - Fee(n) \in Nat
BY DEF Fee

LEMMA ShareIs ==
  ASSUME NEW a \in Nat, NEW b \in Nat, NEW d \in Nat \ {0}
  PROVE  (a * b) \div d \in Nat
<1>1. \A c \in Nat : c \div d \in Nat
  OBVIOUS
<1>2. a * b \in Nat
  OBVIOUS
<1>. QED
  BY <1>1, <1>2

LEMMA PayoutIs ==
  ASSUME NEW s, Sure(s), session[s].req.op \in PredictionRequests, session[s].pc = "pay",
         NEW r \in Due(s)
  PROVE  Payout(s, r) \in Nat
<1> DEFINE x == session[s].read[r]
           pool == Amounts(s, Outcomes)
           won == Amounts(s, {Outcome(s)})
<1>1. r \in Stakes(s) /\ x.pick \notin Outcomes \ {Outcome(s)}
  BY DEF Due
<1>2. x.amount \in Nat \ {0}
  BY <1>1, StakeIs
<1>3. pool \in Nat /\ won \in Nat /\ (x.pick \in {Outcome(s)} => x.amount <= won)
  BY <1>1, AmountsAre
<1>4. CASE x.pick \notin Outcomes
  BY <1>2, <1>4 DEF Payout
<1>5. CASE x.pick \in Outcomes
  <2>1. x.amount <= won
    BY <1>1, <1>3, <1>5
  <2>2. won \in Nat \ {0}
    BY <1>2, <1>3, <2>1
  <2>3. pool - Fee(pool) \in Nat
    BY <1>3, FeeIs
  <2>4. Payout(s, r) = (x.amount * (pool - Fee(pool))) \div won
    BY <1>5 DEF Payout
  <2>. HIDE DEF x, pool, won
  <2>. QED
    BY <1>2, <2>2, <2>3, <2>4, ShareIs
<1>. QED
  BY <1>4, <1>5

(* What a settlement writes to a stake.                                    *)
LEMMA StakeSettles ==
  ASSUME NEW s, NEW k, Good(s, k), k.req.op \in Settlers, NEW r, r[1] = "stake", r \in Known(k),
         NEW x, DOMAIN x \subseteq {"status", "payout"},
         "status" \in DOMAIN x => x.status \in StakeStatuses \ {"active"}
  PROVE  May(k, r, x)
<1>1. RowFits(r, x)
  BY DEF RowFits, Fits, Counted, Personal, Priced
<1>2. Entitled(k.req, r, x)
  BY DEF Entitled
<1>3. ~MustBeNew(k.req, r)
  BY DEF MustBeNew, Settlers
<1>. QED
  BY <1>1, <1>2, <1>3 DEF May, Known

LEMMA GoodByLosersMarked ==
  ASSUME NEW s, Sure(s), session[s].req.op \in PredictionRequests, session[s].pc = "pay"
  PROVE  /\ Good(s, LosersMarked(s)) /\ LosersMarked(s).req = session[s].req
         /\ LosersMarked(s).read = session[s].read
         /\ Known(session[s]) \subseteq Known(LosersMarked(s))
<1> DEFINE k == session[s]
           f == [r \in {x \in Stakes(s) : k.read[x].pick \in Outcomes \ {Outcome(s)}}
                   |-> [status |-> "lost"]]
<1>1. LosersMarked(s) = SetEach(k, f)
  BY DEF LosersMarked
<1>2. Good(s, k) /\ k.req.op \in Settlers
  BY InSettling
<1>3. ASSUME NEW r \in DOMAIN f PROVE May(k, r, f[r])
  <2>1. r \in Stakes(s) /\ DOMAIN f[r] = {"status"} /\ f[r].status \in StakeStatuses \ {"active"}
    BY DEF StakeStatuses
  <2>. HIDE DEF f
  <2>. QED
    BY <1>2, <2>1, StakeSettles, StakeIs
<1>. HIDE DEF f
<1>. QED
  BY <1>1, <1>2, <1>3, GoodByEach, EachSees

LEMMA PayNextMoves ==
  ASSUME NEW s, Sure(s), session[s].req.op \in PredictionRequests, PayNext(s)
  PROVE  Moves(s)
<1> DEFINE k == session[s]
           r == NextDue(s)
           x == k.read[r]
           status == IF x.pick \in Outcomes THEN "won" ELSE "refunded"
           n == Payout(s, r)
           y == [status |-> status, payout |-> n]
           l == LosersMarked(s)
           m == Set(l, r, y)
           o == Add(m, W(x.user), "vit", n)
           p == Reference(o, <<"stake", r[2]>>, 0)
           q == Pay(p, <<"stake", r[2]>>)
<1>1. k.pc = "pay" /\ Due(s) # {} /\ Query(s, q, "pay")
  BY DEF PayNext
<1>2. r \in Due(s) /\ r \in Stakes(s)
  BY <1>1, DueIs DEF Due
<1>3. n \in Nat
  BY <1>1, <1>2, PayoutIs
<1>4. /\ k.req.op \in Settlers /\ Good(s, k)
      /\ r[1] = "stake" /\ r \in Known(k)
      /\ HasWallet(x.user) /\ W(x.user) \in DOMAIN k.read
  BY <1>1, <1>2, StakeIs
<1>5. Good(s, l) /\ l.req = k.req /\ l.read = k.read /\ r \in Known(l)
  BY <1>1, <1>4, GoodByLosersMarked
<1>6. DOMAIN y \subseteq {"status", "payout"} /\ y.status \in StakeStatuses \ {"active"}
  BY DEF StakeStatuses
<1>. HIDE DEF y, n, l, r
<1>7. May(l, r, y)
  BY <1>4, <1>5, <1>6, StakeSettles
<1>8. Good(s, m) /\ m.req = k.req /\ m.read = k.read
  BY <1>5, <1>7, GoodBySet, SetSees
<1>. HIDE DEF m
<1>9. Good(s, o)
  BY <1>3, <1>4, <1>8, GoodByCredit DEF WalletColumns
<1>10. o.req = k.req /\ o.read = k.read
  <2> DEFINE z == Only("vit", Copy(m, W(x.user)).vit + n)
  <2>1. o = Set(m, W(x.user), z)
    BY AddIs
  <2>. HIDE DEF z, o
  <2>. QED
    BY <1>8, <2>1, SetSees
<1>. HIDE DEF o
<1> DEFINE u == Ref(<<"stake", r[2]>>)
<1>11. /\ Good(s, p) /\ p.req = k.req
       /\ DOMAIN p.read = {u} \cup DOMAIN k.read
       /\ \A z \in DOMAIN k.read : z # u => p.read[z] = k.read[z]
  <2> DEFINE v == [amount |-> 0]
             name == <<"stake", r[2]>>
  <2>1. p = Insert(o, u, v) /\ DOMAIN v # {}
    BY DEF Reference
  <2>2. Good(s, p)
    <3>. HIDE DEF name
    <3>. QED
      BY <1>9, GoodByReference
  <2>. HIDE DEF p, v, u, name
  <2>3. IsSession(o)
    BY <1>9 DEF Good, Firm
  <2> DEFINE i == Insert(o, u, v)
  <2>4. /\ IsSession(i)
        /\ i.req = o.req /\ i.pc = o.pc /\ i.gone = o.gone
        /\ i.held = o.held /\ i.old = o.old /\ i.pays = o.pays
        /\ DOMAIN i.read = {u} \cup DOMAIN o.read /\ i.read[u] = Absent
        /\ \A z \in DOMAIN o.read : z # u => i.read[z] = o.read[z]
        /\ DOMAIN i.wrote = {u} \cup DOMAIN o.wrote
        /\ \A z \in DOMAIN o.wrote : z # u => i.wrote[z] = o.wrote[z]
        /\ Part(v, i.wrote[u]) /\ Mix(i.wrote[u], v, Written(o, u))
    BY <2>1, <2>3, InsertFields
  <2>. HIDE DEF i
  <2>. QED
    BY <1>10, <2>1, <2>2, <2>4 DEF i
<1>12. u[1] = "reference"
  BY DEF Ref
<1>. HIDE DEF p, u
<1>13. Good(s, q) /\ q.req = p.req /\ q.read = p.read
  <2>1. IsSession(p)
    BY <1>11 DEF Good, Firm
  <2>. QED
    BY <1>11, <2>1, GoodByPay DEF Pay, IsSession
<1>. HIDE DEF q
<1>14. PredictionCarried(k, "pay")
  BY <1>1, InSettling
<1>15. \A z \in DOMAIN q.read : z[1] = "stake" =>
         z \in Rows /\ q.read[z] # Absent /\ W(q.read[z].user) \in DOMAIN q.read
  BY <1>4, <1>11, <1>12, <1>13, <1>14 DEF PredictionCarried
<1>16. \A z \in DOMAIN q.read : z[1] # "forecast"
  BY <1>4, <1>11, <1>12, <1>13, <1>14 DEF PredictionCarried
<1>17. PredictionCarried(q, "pay") /\ q.req.op \in PredictionRequests
  BY <1>4, <1>11, <1>13, <1>15, <1>16
     DEF PredictionCarried, Settlers, PredictionRequests, ProfileRequests
<1>. QED
  BY <1>1, <1>13, <1>17, ToPredictions, MoveQuery

LEMMA RecordSettlementMoves ==
  ASSUME NEW s, Sure(s), session[s].req.op \in PredictionRequests, RecordSettlement(s)
  PROVE  Moves(s)
<1> DEFINE k == session[s]
           F == {r \in Found(ForecastsOf(k.req.match)) : table[Validator(r[2][2])] # Absent}
           S == F \cup {Validator(r[2][2]) : r \in F}
           c == Cp(s)
           x == [status |-> "settled"]
           e == <<"settlement", k.req.match>>
           y == [pool |-> Amounts(s, Outcomes), winning |-> Amounts(s, {Outcome(s)})]
           l == LosersMarked(s)
           m == Set(l, c, x)
           n == Insert(m, e, y)
           o == LoadAll(n, S)
<1>1. k.pc = "pay" /\ Query(s, o, "grade")
  BY DEF RecordSettlement, Args
<1>2. k.req.op \in Settlers /\ PredictionCarried(k, "pay")
  BY <1>1, InSettling
<1>3. Good(s, l) /\ l.req = k.req /\ l.read = k.read
  BY <1>1, GoodByLosersMarked
<1>. HIDE DEF l
<1>4. May(l, c, x)
  BY <1>2, <1>3, TrackedIs DEF May, Entitled, MustBeNew, Cp
<1>. HIDE DEF x, c
<1>5. Good(s, m) /\ m.req = k.req /\ m.read = k.read
  BY <1>3, <1>4, GoodBySet, SetSees
<1>. HIDE DEF m
<1>6. Free(e) /\ e[1] = "settlement" /\ DOMAIN y # {}
  BY TrackedIs DEF Free, Reserved
<1>. HIDE DEF e, y
<1>7. Good(s, n) /\ n.req = k.req /\ DOMAIN n.read = {e} \cup DOMAIN k.read
  BY <1>5, <1>6, GoodByFreeInsert, InsertSees
<1>. HIDE DEF n
<1>8. \A r \in F : r[1] = "forecast" /\ Validator(r[2][2]) \in S /\ table[Validator(r[2][2])] # Absent
  BY DEF Found, ForecastsOf
<1>. HIDE DEF F
<1>9. \A r \in S : r \in F \/ r[1] = "validator"
  BY DEF Validator
<1>. HIDE DEF S
<1>10. Good(s, o)
  BY <1>7, GoodByLoadAll
<1>11. /\ o.req = k.req
       /\ DOMAIN o.read = S \cup DOMAIN n.read
       /\ \A r \in S : table[r] # Absent => r \in Known(o)
  BY <1>7, LoadAllSees DEF Good, Firm
<1>. HIDE DEF o
<1>12. \A r \in DOMAIN k.read : r[1] # "forecast"
  BY <1>2 DEF PredictionCarried
<1>13. ASSUME NEW r \in DOMAIN o.read, r[1] = "forecast" PROVE Validator(r[2][2]) \in Known(o)
  BY <1>6, <1>7, <1>8, <1>9, <1>11, <1>12, <1>13
<1>14. PredictionCarried(o, "grade") /\ o.req.op \in PredictionRequests
  BY <1>2, <1>11, <1>13 DEF PredictionCarried, Settlers, PredictionRequests, ProfileRequests
<1>. QED
  BY <1>1, <1>10, <1>14, ToPredictions, MoveQuery

(* The last statement of a settlement changes forecasts and validators.    *)
LEMMA ForecastsGraded ==
  ASSUME NEW s, Sure(s), session[s].req.op \in PredictionRequests, GradeForecasts(s)
  PROVE  \E f, h : /\ Good(s, SetEach(SetEach(session[s], f), h))
                   /\ Commit(s, SetEach(SetEach(session[s], f), h))
                   /\ \A r \in DOMAIN f : r[1] = "forecast"
                   /\ \A r \in DOMAIN h : r[1] = "validator"
<1> DEFINE k == session[s]
           F == Known(k) \cap ForecastsOf(k.req.match)
           f == [r \in F |-> [grade |-> IF k.read[r].pick = Outcome(s) THEN "accurate"
                                  ELSE "inaccurate"]]
           V == {Validator(r[2][2]) : r \in F}
           h == [v \in V |-> [graded |-> k.read[v].graded + 1]]
           l == SetEach(k, f)
<1>1. k.pc = "grade" /\ Commit(s, SetEach(l, h))
  BY DEF GradeForecasts, Args
<1>2. Good(s, k) /\ k.req.op \in Settlers /\ PredictionCarried(k, "grade")
  BY <1>1, InSettling
<1>3. ASSUME NEW r \in F, NEW x PROVE May(k, r, x)
  <2>1. Free(r)
    BY TrackedIs DEF ForecastsOf, Free, Reserved
  <2>. QED
    BY <2>1, Unguarded DEF May, Free
<1>4. \A r \in DOMAIN f : May(k, r, f[r])
  BY <1>3
<1>5. \A v \in V : v[1] = "validator" /\ v \in Known(k)
  <2>1. ASSUME NEW r \in F PROVE Validator(r[2][2]) \in Known(k)
    BY <1>2 DEF PredictionCarried, Known, ForecastsOf
  <2>. QED
    BY <2>1 DEF Validator
<1>9. \A r \in DOMAIN f : r[1] = "forecast"
  BY DEF ForecastsOf
<1>. HIDE DEF f, F
<1>6. Good(s, l) /\ Known(k) \subseteq Known(l)
  BY <1>2, <1>4, GoodByEach, EachSees
<1>10. \A v \in DOMAIN h : v[1] = "validator"
  BY <1>5
<1>. HIDE DEF V, l
<1>7. ASSUME NEW v \in V, NEW z PROVE May(l, v, [graded |-> z])
  <2>1. v[1] = "validator" /\ v \in Known(l)
    BY <1>5, <1>6
  <2> DEFINE x == [graded |-> z]
  <2>2. DOMAIN x = {"graded"}
    OBVIOUS
  <2>. HIDE DEF x
  <2>3. RowFits(v, x)
    BY <2>1, <2>2 DEF RowFits, Fits, Counted, Personal, Priced
  <2>4. May(l, v, x)
    BY <2>1, <2>3, Unguarded DEF May, Known, Reserved
  <2>. QED
    BY <2>4 DEF x
<1>8. \A v \in DOMAIN h : May(l, v, h[v])
  BY <1>7
<1>. HIDE DEF h
<1>11. Good(s, SetEach(l, h))
  BY <1>6, <1>8, GoodByEach
<1>. QED
  BY <1>1, <1>9, <1>10, <1>11 DEF l

LEMMA GradeForecastsMoves ==
  ASSUME NEW s, Sure(s), session[s].req.op \in PredictionRequests, GradeForecasts(s)
  PROVE  Moves(s)
BY ForecastsGraded, MoveCommit

----------------------------------------------------------------------------
(* Validators and appeals                                                  *)

ProfileOps == ProfileRequests \cup {"apply"}

LEMMA NotSettling ==
  ASSUME NEW k, k.req.op \in ProfileOps \cup {"review_appeal"}
  PROVE  /\ k.req.op \in PredictionRequests /\ k.req.op \notin Settlers /\ k.req.op # "stake_on"
         /\ k.req.op \in ProfileOps <=> k.req.op # "review_appeal"
BY DEF ProfileOps, ProfileRequests, PredictionRequests, Settlers

LEMMA ProfileKnown ==
  ASSUME NEW s, Sure(s), session[s].req.op \in ProfileRequests, session[s].pc \in {"profile", "refund"}
  PROVE  LET k == session[s] IN
         /\ Good(s, k) /\ Profile(s) = Validator(k.req.user)
         /\ Profile(s) \in Known(k) /\ Profile(s) \in Rows /\ Profile(s)[1] = "validator"
         /\ Profile(s)[1] \notin Reserved
<1> DEFINE k == session[s]
<1>1. k.req.op \in PredictionRequests
  BY NotSettling DEF ProfileOps
<1>2. Good(s, k) /\ WellFormed(k.req) /\ PredictionCarried(k, k.pc)
  BY <1>1, InPredictions
<1>3. Profile(s) = Validator(k.req.user) /\ Profile(s)[1] = "validator"
  BY DEF Profile, Args, Validator
<1>4. Profile(s) \in Rows
  BY <1>2, <1>3 DEF WellFormed
<1>5. Profile(s) \in Known(k)
  BY <1>2, <1>3 DEF PredictionCarried
<1>. QED
  BY <1>2, <1>3, <1>4, <1>5 DEF Reserved

LEMMA LoadProfileMoves ==
  ASSUME NEW s, Sure(s), LoadProfile(s)
  PROVE  Moves(s)
<1> DEFINE k == session[s]
           r == Profile(s)
           l == Load(k, r)
           w == W(k.req.user)
           m == Load(k, w)
<1>1. k.req.op \in ProfileOps
  BY DEF LoadProfile, Args, ProfileOps, ProfileRequests
<1>2. k.req.op \in PredictionRequests /\ k.req.op \notin Settlers
  BY <1>1, NotSettling
<1>3. Good(s, k)
  BY <1>2, InPredictions
<1>4. CASE table[r] # Absent /\ Query(s, l, "profile")
  <2>1. r = Validator(k.req.user)
    BY DEF Profile, Args
  <2>2. Good(s, l) /\ HasLoaded(l, k, r)
    BY <1>3, RowIsLoaded
  <2>. HIDE DEF l, r
  <2>3. l.req = k.req /\ r \in Known(l)
    BY <1>4, <2>2 DEF HasLoaded
  <2>4. PredictionCarried(l, "profile")
    BY <1>1, <1>2, <2>1, <2>3 DEF PredictionCarried, ProfileOps, ProfileRequests
  <2>. QED
    BY <1>2, <1>4, <2>2, <2>3, <2>4, ToPredictions, MoveQuery
<1>5. CASE k.req.op = "apply" /\ QueryForUpdate(s, k, w, "apply")
  <2>1. HasLoaded(m, k, w)
    BY <1>3, RowIsLoaded
  <2>. HIDE DEF m
  <2>2. PredictionCarried(m, "apply") /\ m.req = k.req
    BY <1>5, <2>1 DEF PredictionCarried, HasLoaded, Settlers, ProfileRequests
  <2>3. Carried(m, "apply")
    BY <1>2, <2>2, ToPredictions
  <2>. QED
    BY <1>3, <1>5, <2>3, MoveQueryForUpdate DEF m
<1>. QED
  BY <1>4, <1>5, MoveRefuse DEF LoadProfile, Args

LEMMA ApplyMoves ==
  ASSUME NEW s, Sure(s), Apply(s)
  PROVE  Moves(s)
<1> DEFINE k == session[s]
           a == k.req
           w == W(a.user)
           l == Add(k, w, "vit", -a.amount)
           x == [stake |-> a.amount, status |-> "pending", graded |-> 0]
           r == Profile(s)
<1>1. a.op = "apply" /\ k.pc = "apply" /\ a.op \in PredictionRequests
  BY DEF Apply, At, PredictionRequests
<1>2. Good(s, k) /\ WellFormed(a) /\ PredictionCarried(k, "apply")
  BY <1>1, InPredictions
<1>3. HasWallet(a.user) /\ a.amount \in Nat /\ w \in DOMAIN k.read
  BY <1>1, <1>2 DEF WellFormed, PredictionCarried, UserRequests, AmountRequests
<1>4. r[1] = "validator"
  BY DEF Profile, Validator
<1>5. CASE ~(Copy(k, w).vit < a.amount) /\ Commit(s, Insert(l, r, x))
  <2>1. Good(s, l)
    BY <1>2, <1>3, <1>5, GoodByDebit DEF WalletColumns
  <2>2. l.req = a
    BY <1>1, <2>1, Stays
  <2>. HIDE DEF l, r
  <2>3. RowFits(r, x) /\ RowFull(r, x)
    BY <1>3, <1>4 DEF RowFits, RowFull, Fits, Typed, Counted, Personal, Priced, Linked
  <2>4. MayInsert(l, r, x)
    BY <1>4, <2>2, <2>3, Unguarded DEF MayInsert, Reserved
  <2>. HIDE DEF x
  <2>5. Good(s, Insert(l, r, x))
    BY <2>1, <2>4, GoodByInsert
  <2>. QED
    BY <1>5, <2>5, MoveCommit
<1>. QED
  BY <1>5, MoveRefuse DEF Apply, At, Args, Balance, Wallet

LEMMA DecideMoves ==
  ASSUME NEW s, Sure(s), session[s].req.op \in PredictionRequests, Decide(s)
  PROVE  Moves(s)
<1> DEFINE k == session[s]
           r == Profile(s)
           w == W(k.req.user)
           l == Load(k, w)
<1>1. k.pc = "profile" /\ k.req.op \in ProfileRequests
  BY DEF Decide, Args, ProfileRequests
<1>2. /\ Good(s, k) /\ r = Validator(k.req.user)
      /\ r \in Known(k) /\ r[1] = "validator" /\ r[1] \notin Reserved
  BY <1>1, ProfileKnown
<1>3. k.req.op \notin Settlers /\ k.req.op # "stake_on" /\ k.req.op # "review_appeal" /\ k.req.op # "apply"
  BY <1>1 DEF ProfileRequests, Settlers
<1>. HIDE DEF r
<1>4. ASSUME NEW status, Commit(s, Set(k, r, [status |-> status])) PROVE Moves(s)
  <2> DEFINE x == [status |-> status]
  <2>1. Untyped(r, x)
    BY <1>2 DEF Untyped, Typed, Counted, Personal, Priced, Linked
  <2>. HIDE DEF x
  <2>2. Good(s, Set(k, r, x))
    BY <1>2, <2>1, GoodByMark
  <2>. QED
    BY <1>4, <2>2, MoveCommit DEF x
<1>5. CASE /\ k.req.op \in {"slash", "reject_validator", "leave"}
           /\ QueryForUpdate(s, k, w, "refund")
  <2>1. HasLoaded(l, k, w)
    BY <1>2, RowIsLoaded
  <2>. HIDE DEF l
  <2>2. l.req = k.req /\ w \in DOMAIN l.read /\ r \in Known(l)
    BY <1>2, <2>1 DEF HasLoaded
  <2>3. PredictionCarried(l, "refund")
    BY <1>2, <1>3, <1>5, <2>2 DEF PredictionCarried
  <2>4. Carried(l, "refund")
    BY <2>2, <2>3, ToPredictions
  <2>. QED
    BY <1>2, <1>5, <2>4, MoveQueryForUpdate DEF l
<1>6. ASSUME NEW pc \in {"forecast", "appeal"}, Query(s, k, pc) PROVE Moves(s)
  <2>1. PredictionCarried(k, pc)
    BY <1>1, <1>3, <1>6 DEF PredictionCarried
  <2>. QED
    BY <1>2, <1>6, <2>1, ToPredictions, MoveQuery
<1>. QED
  BY <1>4, <1>5, <1>6, MoveRefuse DEF Decide, Args, r

(* A refund is of an amount.                                               *)
LEMMA GoodByRefunded ==
  ASSUME NEW s, Sure(s), session[s].req.op \in {"slash", "reject_validator", "leave"},
         session[s].pc = "refund", NEW n \in Nat
  PROVE  /\ Good(s, Refunded(s, n)) /\ Profile(s) \in Known(Refunded(s, n))
<1> DEFINE k == session[s]
           w == W(k.req.user)
           l == Add(k, w, "vit", n)
           name == <<k.req.op, k.req.user>>
           m == Reference(l, name, 0)
           q == Pay(m, Profile(s))
<1>1. k.req.op \in ProfileRequests /\ k.req.op \in PredictionRequests
  BY DEF ProfileRequests, PredictionRequests
<1>2. Good(s, k) /\ Profile(s) \in Known(k)
  BY <1>1, ProfileKnown
<1>3. HasWallet(k.req.user) /\ w \in DOMAIN k.read
  BY <1>1, InPredictions DEF WellFormed, UserRequests, PredictionCarried
<1>4. Good(s, l)
  BY <1>2, <1>3, GoodByCredit DEF WalletColumns
<1>. HIDE DEF l, name
<1>5. Good(s, m)
  BY <1>4, GoodByReference
<1>. HIDE DEF m
<1>6. Good(s, q)
  BY <1>5, GoodByPay
<1>7. Good(s, Refunded(s, n))
  BY <1>2, <1>6 DEF Refunded, Args, m, l, name
<1>. HIDE DEF q
<1>8. Profile(s)[1] # "merit"
  BY DEF Profile, Validator
<1>. QED
  BY <1>2, <1>7, <1>8, Stays

LEMMA ProfileStake ==
  ASSUME NEW s, Sure(s), session[s].req.op \in ProfileRequests, session[s].pc \in {"profile", "refund"}
  PROVE  Copy(session[s], Profile(s)).stake \in Nat
BY ProfileKnown, CopyCounted DEF Counted

LEMMA EndProfileMoves ==
  ASSUME NEW s, Sure(s), EndProfile(s)
  PROVE  Moves(s)
<1> DEFINE n == Copy(session[s], Profile(s)).stake
           k == Refunded(s, n)
           S == {Profile(s)} \cup Found({r \in Rows : r[1] = "forecast"
                                                  /\ r[2][2] = Args(s).user})
<1>1. /\ session[s].req.op \in {"slash", "reject_validator", "leave"}
      /\ session[s].pc = "refund" /\ Commit(s, Delete(k, S))
  BY DEF EndProfile, Args
<1>2. n \in Nat
  BY <1>1, ProfileStake DEF ProfileRequests
<1>3. \A r \in S : r[1] \in {"validator", "forecast"}
  BY DEF Found, Profile, Validator
<1>. HIDE DEF n, S
<1>4. Good(s, k)
  BY <1>1, <1>2, GoodByRefunded
<1>. HIDE DEF k
<1>. QED
  BY <1>1, <1>3, <1>4, GoodByDelete, MoveCommit

LEMMA SlashMoves ==
  ASSUME NEW s, Sure(s), Slash(s)
  PROVE  Moves(s)
<1> DEFINE r == Profile(s)
           stake == Copy(session[s], r).stake
           burn == IF Args(s).all THEN stake ELSE stake \div 2
           n == stake - burn
           k == Refunded(s, n)
           name == <<"slash-burn", Args(s).user>>
           l == IF burn = 0 THEN k ELSE Reference(k, name, -burn)
           x == [stake |-> 0, status |-> "slashed"]
<1>1. /\ session[s].req.op \in {"slash", "reject_validator", "leave"}
      /\ session[s].pc = "refund" /\ Commit(s, Set(l, r, x))
  BY DEF Slash, At
<1>2. stake \in Nat
  BY <1>1, ProfileStake DEF ProfileRequests
<1>3. n \in Nat
  <2>. HIDE DEF stake
  <2>. QED
    BY <1>2
<1>4. r[1] = "validator"
  BY DEF Profile, Validator
<1>. HIDE DEF n
<1>5. Good(s, k) /\ r \in Known(k)
  BY <1>1, <1>3, GoodByRefunded
<1>. HIDE DEF k, r, name, burn
<1>6. Good(s, l) /\ r \in Known(l)
  <2>1. Good(s, Reference(k, name, -burn))
    BY <1>5, GoodByReference
  <2>2. r \in Known(Reference(k, name, -burn))
    <3> DEFINE u == Ref(name)
               v == [amount |-> -burn]
               i == Insert(k, u, v)
    <3>1. i = Reference(k, name, -burn) /\ DOMAIN v # {} /\ u[1] = "reference"
      BY DEF Reference, Ref
    <3>. HIDE DEF u, v, i
    <3>2. IsSession(k)
      BY <1>5 DEF Good, Firm
    <3> DEFINE j == Insert(k, u, v)
    <3>3. /\ IsSession(j)
          /\ j.req = k.req /\ j.pc = k.pc /\ j.gone = k.gone
          /\ j.held = k.held /\ j.old = k.old /\ j.pays = k.pays
          /\ DOMAIN j.read = {u} \cup DOMAIN k.read /\ j.read[u] = Absent
          /\ \A z \in DOMAIN k.read : z # u => j.read[z] = k.read[z]
          /\ DOMAIN j.wrote = {u} \cup DOMAIN k.wrote
          /\ \A z \in DOMAIN k.wrote : z # u => j.wrote[z] = k.wrote[z]
          /\ Part(v, j.wrote[u]) /\ Mix(j.wrote[u], v, Written(k, u))
      BY <3>1, <3>2, InsertFields
    <3>. HIDE DEF j
    <3>4. r # u
      BY <1>4, <3>1
    <3>5. r \in Known(j)
      BY <1>5, <3>3, <3>4 DEF Known, Exists
    <3>. QED
      BY <3>1, <3>5 DEF i, j
  <2>. QED
    BY <1>5, <2>1, <2>2
<1>. HIDE DEF l
<1>7. RowFits(r, x)
  BY <1>4 DEF RowFits, Fits, Counted, Personal, Priced
<1>. HIDE DEF x
<1>8. May(l, r, x)
  BY <1>4, <1>6, <1>7, Unguarded DEF May, Known, Reserved
<1>. QED
  BY <1>1, <1>6, <1>8, GoodBySet, MoveCommit

LEMMA SubmitForecastMoves ==
  ASSUME NEW s, Sure(s), SubmitForecast(s)
  PROVE  Moves(s)
<1> DEFINE k == session[s]
           f == ForecastKey(s)
           x == [pick |-> k.req.pick, grade |-> "pending"]
           l == Insert(k, f, x)
<1>1. k.req.op \in PredictionRequests
  BY DEF SubmitForecast, At, PredictionRequests
<1>2. Good(s, k)
  BY <1>1, InPredictions
<1>3. CASE Commit(s, OpenConsensus(l, Cp(s)))
  <2>1. Free(f) /\ DOMAIN x # {}
    BY TrackedIs DEF Free, Reserved, ForecastKey
  <2>. HIDE DEF f, x
  <2>2. Good(s, l)
    BY <1>2, <2>1, GoodByFreeInsert
  <2>. HIDE DEF l
  <2>3. Good(s, OpenConsensus(l, Cp(s)))
    BY <2>2, GoodByOpenConsensus DEF Cp
  <2>. QED
    BY <1>3, <2>3, MoveCommit
<1>. QED
  BY <1>3, MoveRefuse DEF SubmitForecast, Args

LEMMA SubmitAppealMoves ==
  ASSUME NEW s, Sure(s), SubmitAppeal(s)
  PROVE  Moves(s)
<1> DEFINE k == session[s]
           r == k.req.row
           x == [user |-> k.req.user, status |-> "pending"]
<1>1. k.req.op = "appeal" /\ k.req.op \in PredictionRequests /\ Commit(s, Insert(k, r, x))
  BY DEF SubmitAppeal, At, PredictionRequests, Row, Args
<1>2. Good(s, k) /\ HasWallet(k.req.user)
  BY <1>1, InPredictions DEF WellFormed, UserRequests
<1>3. r[1] = "appeal"
  BY <1>1, RowIs DEF TableOf
<1>4. RowFits(r, x) /\ RowFull(r, x)
  BY <1>2, <1>3 DEF RowFits, RowFull, Fits, Typed, Counted, Personal, Priced, Linked
<1>5. MayInsert(k, r, x)
  BY <1>3, <1>4, Unguarded DEF MayInsert, Reserved
<1>. HIDE DEF x
<1>. QED
  BY <1>1, <1>2, <1>5, GoodByInsert, MoveCommit

LEMMA ReviewAppealMoves ==
  ASSUME NEW s, Sure(s), ReviewAppeal(s)
  PROVE  Moves(s)
<1> DEFINE k == session[s]
           a == k.req
           r == a.row
           e == Copy(k, r)
           l == Load(k, r)
           x(verdict) == [status |-> verdict]
           v == Validator(e.user)
           m(verdict) == Set(k, r, x(verdict))
           n(verdict) == Load(m(verdict), v)
           y == [status |-> "suspended"]
           o == Set(k, v, y)
           w == W(e.user)
           p == Load(o, w)
           i == Add(k, w, "vit", a.amount)
           j == Reference(i, <<"restake", r>>, a.amount)
           q == Pay(j, r)
<1>1. a.op = "review_appeal" /\ a.op \in PredictionRequests
  BY DEF ReviewAppeal, At, PredictionRequests
<1>2. Good(s, k) /\ WellFormed(a) /\ PredictionCarried(k, k.pc) /\ a.amount \in Nat
  BY <1>1, InPredictions DEF WellFormed, AmountRequests
<1>3. r[1] = "appeal" /\ r \in Rows
  BY <1>1, <1>2, RowIs DEF TableOf, WellFormed
<1>4. a.op \notin Settlers /\ a.op # "stake_on" /\ a.op \notin ProfileRequests
  BY <1>1 DEF ProfileRequests, Settlers
<1>5. CASE Query(s, l, "review")
  <2>1. Good(s, l) /\ HasLoaded(l, k, r)
    BY <1>2, RowIsLoaded
  <2>. HIDE DEF l
  <2>2. PredictionCarried(l, "review") /\ l.req = k.req
    BY <1>1, <1>4, <2>1 DEF PredictionCarried, HasLoaded
  <2>. QED
    BY <1>1, <1>5, <2>1, <2>2, ToPredictions, MoveQuery
<1>6. k.pc = "review" /\ e # Absent => r \in Known(k)
  BY <1>1, <1>2 DEF PredictionCarried, Known, Exists, Copy
<1>7. r \in Known(k) => "user" \in DOMAIN e /\ HasWallet(e.user)
  BY <1>2, <1>3, CopyPersonal DEF Personal
<1>8. ASSUME NEW verdict, r \in Known(k)
      PROVE  /\ Good(s, m(verdict)) /\ m(verdict).req = k.req
             /\ r \in Known(m(verdict)) /\ Copy(m(verdict), r).user = e.user
  <2> DEFINE z == x(verdict)
  <2>1. Untyped(r, z) /\ DOMAIN z = {"status"} /\ r[1] \notin Reserved
    BY <1>3 DEF Untyped, Typed, Counted, Personal, Priced, Linked, Reserved
  <2>. HIDE DEF z
  <2> DEFINE c == Set(k, r, z)
  <2>2. Good(s, c)
    BY <1>2, <1>8, <2>1, GoodByMark
  <2>3. IsSet(c, k, r, z)
    BY <1>2, SetIs
  <2>. HIDE DEF c
  <2>4. c.req = k.req /\ r \in Known(c) /\ Copy(c, r).user = e.user
    BY <1>7, <1>8, <2>1, <2>3 DEF IsSet
  <2>. QED
    BY <2>2, <2>4 DEF c, z
<1>9. ASSUME NEW verdict, k.pc = "review", e # Absent, Commit(s, m(verdict)) PROVE Moves(s)
  <2>1. Good(s, m(verdict))
    BY <1>6, <1>8, <1>9
  <2>. HIDE DEF m
  <2>. QED
    BY <1>9, <2>1, MoveCommit
<1>10. ASSUME NEW verdict, k.pc = "review", e # Absent, Query(s, n(verdict), "restore") PROVE Moves(s)
  <2> DEFINE c == m(verdict)
             d == Load(c, v)
  <2>1. Good(s, c) /\ c.req = k.req /\ r \in Known(c) /\ Copy(c, r).user = e.user
    BY <1>6, <1>8, <1>10
  <2>. HIDE DEF c, e
  <2>2. Good(s, d) /\ HasLoaded(d, c, v)
    BY <2>1, RowIsLoaded
  <2>3. Query(s, d, "restore")
    BY <1>10 DEF c
  <2>. HIDE DEF d, m, n
  <2>4. d.req = k.req /\ r \in Known(d) /\ Copy(d, r).user = e.user /\ v \in DOMAIN d.read
    BY <2>1, <2>2 DEF HasLoaded
  <2>5. PredictionCarried(d, "restore")
    BY <1>1, <1>4, <2>4 DEF PredictionCarried
  <2>. QED
    BY <1>1, <2>2, <2>3, <2>4, <2>5, ToPredictions, MoveQuery
<1>11. CASE k.pc = "restore" /\ Exists(k, v) /\ Query(s, p, "restake")
  <2>1. r \in Known(k) /\ v \in DOMAIN k.read
    BY <1>1, <1>2, <1>11 DEF PredictionCarried
  <2>2. v \in Known(k) /\ v[1] = "validator" /\ v # r
    BY <1>3, <1>11, <2>1 DEF Known, Validator
  <2>3. Untyped(v, y) /\ v[1] \notin Reserved
    BY <2>2 DEF Untyped, Typed, Counted, Personal, Priced, Linked, Reserved
  <2>. HIDE DEF y, v, e
  <2>4. Good(s, o)
    BY <1>2, <2>2, <2>3, GoodByMark
  <2>5. IsSet(o, k, v, y)
    BY <1>2, SetIs
  <2>. HIDE DEF o
  <2>6. o.req = k.req /\ r \in Known(o) /\ Copy(o, r) = e
    BY <2>1, <2>2, <2>5 DEF IsSet, Known, e
  <2>7. Good(s, p) /\ HasLoaded(p, o, w)
    BY <2>4, RowIsLoaded
  <2>. HIDE DEF p, w
  <2>8. p.req = k.req /\ r \in Known(p) /\ Copy(p, r) = e /\ w \in DOMAIN p.read
    BY <2>6, <2>7 DEF HasLoaded
  <2>9. PredictionCarried(p, "restake")
    BY <1>1, <1>4, <2>8 DEF PredictionCarried, Payee, w
  <2>. QED
    BY <1>1, <1>11, <2>7, <2>8, <2>9, ToPredictions, MoveQuery
<1>12. CASE k.pc = "restake" /\ Commit(s, q)
  <2>1. r \in Known(k) /\ w \in DOMAIN k.read
    BY <1>1, <1>2, <1>12 DEF PredictionCarried, Payee
  <2>2. HasWallet(e.user)
    BY <1>7, <2>1
  <2>. HIDE DEF e
  <2>3. Good(s, i)
    BY <1>2, <2>1, <2>2, GoodByCredit DEF WalletColumns
  <2>. HIDE DEF i
  <2>4. Good(s, j)
    <3> DEFINE name == <<"restake", r>>
    <3>. HIDE DEF name
    <3>1. Good(s, Reference(i, name, a.amount))
      BY <2>3, GoodByReference
    <3>. QED
      BY <3>1 DEF name
  <2>. HIDE DEF j
  <2>. QED
    BY <1>12, <2>4, GoodByPay, MoveCommit
<1>13. CASE k.pc = "restore" /\ Commit(s, IF Exists(k, v) THEN o ELSE k)
  <2> DEFINE c == IF Exists(k, v) THEN o ELSE k
  <2>1. v \in DOMAIN k.read
    BY <1>1, <1>2, <1>13 DEF PredictionCarried
  <2>2. ASSUME Exists(k, v) PROVE Good(s, o)
    <3>1. v \in Known(k) /\ v[1] = "validator"
      BY <2>1, <2>2 DEF Known, Validator
    <3>2. Untyped(v, y) /\ v[1] \notin Reserved
      BY <3>1 DEF Untyped, Typed, Counted, Personal, Priced, Linked, Reserved
    <3>. HIDE DEF y, v
    <3>. QED
      BY <1>2, <3>1, <3>2, GoodByMark
  <2>3. Good(s, c)
    BY <1>2, <2>2
  <2>4. Commit(s, c)
    BY <1>13
  <2>. HIDE DEF c
  <2>. QED
    BY <2>3, <2>4, MoveCommit
<1>. QED
  BY <1>5, <1>9, <1>10, <1>11, <1>12, <1>13, MoveRefuse DEF ReviewAppeal, At, Args, Row

LEMMA ForbiddenMoves ==
  ASSUME NEW s, Forbidden(s)
  PROVE  Moves(s)
BY MoveRefuse DEF Forbidden

LEMMA PredictionStepMoves ==
  ASSUME NEW s, Sure(s), PredictionStep(s)
  PROVE  Moves(s)
BY StakeLoadMoves, StakeOnMoves, SubmitResultMoves, CheckResultsMoves, LoadStakesMoves,
   LoadWalletsMoves, PayNextMoves, RecordSettlementMoves, GradeForecastsMoves,
   LoadProfileMoves, ApplyMoves, DecideMoves, ForbiddenMoves, EndProfileMoves, SlashMoves,
   SubmitForecastMoves, SubmitAppealMoves, ReviewAppealMoves
   DEF PredictionStep, Args

----------------------------------------------------------------------------
(* Rewards                                                                 *)

LEMMA InRewards ==
  ASSUME NEW s, Sure(s), session[s].req.op \in RewardRequests
  PROVE  /\ Good(s, session[s]) /\ WellFormed(session[s].req)
         /\ RewardCarried(session[s], session[s].pc)
BY CarriedByGroup DEF Sure

LEMMA ToRewards ==
  ASSUME NEW k, k.req.op \in RewardRequests, NEW pc, RewardCarried(k, pc)
  PROVE  Carried(k, pc)
BY CarriedByGroup

LEMMA CompletionFree ==
  ASSUME NEW s, Sure(s), session[s].req.op = "progress"
  PROVE  Free(Completion(s)) /\ Free(session[s].req.row) /\ Free(User(s))
<1>1. session[s].req.row[1] = "completion"
  BY RowIs DEF TableOf
<1>2. Completion(s)[1] = "completion"
  <2> DEFINE found == {r \in Known(session[s]) : r[1] = "completion"}
  <2>1. CASE found = {}
    BY <1>1, <2>1 DEF Completion, Args
  <2>2. CASE found # {}
    <3>1. (CHOOSE r \in found : TRUE) \in found
      BY <2>2
    <3>2. Completion(s) = CHOOSE r \in found : TRUE
      BY <2>2 DEF Completion
    <3>. QED
      BY <3>1, <3>2
  <2>. QED
    BY <2>1, <2>2
<1>3. User(s)[1] = "user"
  BY DEF User
<1>. QED
  BY <1>1, <1>2, <1>3, TrackedIs DEF Free, Reserved

(* Statements at which nothing has to have been loaded.                    *)
LEMMA RewardQuery ==
  ASSUME NEW s, session[s].req.op \in RewardRequests, NEW k, Good(s, k),
         NEW pc, pc # "award", Query(s, k, pc)
  PROVE  Moves(s)
<1>1. k.req.op \in RewardRequests
  BY Stays
<1>2. RewardCarried(k, pc)
  BY DEF RewardCarried
<1>. QED
  BY <1>1, <1>2, ToRewards, MoveQuery

LEMMA ProgressLoadMoves ==
  ASSUME NEW s, Sure(s), ProgressLoad(s)
  PROVE  Moves(s)
<1> DEFINE k == session[s]
           n == NewCompletion(s)
<1>1. k.req.op = "progress" /\ k.req.op \in RewardRequests
  BY DEF ProgressLoad, At, RewardRequests
<1>2. Good(s, k) /\ Free(k.req.row)
  BY <1>1, InRewards, CompletionFree
<1>3. DOMAIN n # {}
  BY DEF NewCompletion
<1>. HIDE DEF n
<1>4. Good(s, Insert(k, k.req.row, n))
  BY <1>2, <1>3, GoodByFreeInsert
<1>5. \A r : Good(s, Load(k, r))
  BY <1>2, GoodByLoad
<1>6. \A S : Good(s, LoadAll(k, S))
  BY <1>2, GoodByLoadAll
<1>7. CASE Query(s, Load(k, User(s)), "find")
  BY <1>1, <1>5, <1>7, RewardQuery
<1>8. CASE Query(s, LoadAll(k, Completions(s)), "found")
  BY <1>1, <1>6, <1>8, RewardQuery
<1>9. CASE Query(s, Insert(k, k.req.row, n), "found")
  BY <1>1, <1>4, <1>9, RewardQuery
<1>. QED
  BY <1>7, <1>8, <1>9, MoveRefuse DEF ProgressLoad, Args, n

LEMMA AddProgressMoves ==
  ASSUME NEW s, Sure(s), AddProgress(s)
  PROVE  Moves(s)
<1> DEFINE k == session[s]
           x == [progress |-> Progress(s)]
           m == Set(k, Completion(s), x)
<1>1. k.req.op = "progress" /\ k.req.op \in RewardRequests
  BY DEF AddProgress, At, RewardRequests
<1>2. Good(s, k) /\ Free(Completion(s))
  BY <1>1, InRewards, CompletionFree
<1>. HIDE DEF x
<1>3. Good(s, m)
  BY <1>2, GoodByFree
<1>4. Query(s, m, "complete") \/ Commit(s, m)
  BY DEF AddProgress, x
<1>. HIDE DEF m
<1>. QED
  BY <1>1, <1>3, <1>4, RewardQuery, MoveCommit

LEMMA GoodByCompleted ==
  ASSUME NEW s, Sure(s), session[s].req.op = "progress"
  PROVE  Good(s, Completed(s))
<1> DEFINE x == Copy(session[s], Completion(s))
           y == [completed |-> ~Args(s).recurring, times |-> x.times + 1,
                  progress |-> IF Args(s).recurring THEN 0 ELSE x.progress]
           k == Set(session[s], Completion(s), y)
           z == [xp |-> Copy(k, User(s)).xp + Experience]
<1>1. Completed(s) = Set(k, User(s), z)
  BY DEF Completed
<1>2. Good(s, session[s]) /\ Free(Completion(s)) /\ Free(User(s))
  BY InRewards, CompletionFree DEF RewardRequests
<1>. HIDE DEF y, z
<1>3. Good(s, k)
  BY <1>2, GoodByFree
<1>. HIDE DEF k
<1>. QED
  BY <1>1, <1>2, <1>3, GoodByFree

LEMMA CompleteTaskMoves ==
  ASSUME NEW s, Sure(s), CompleteTask(s)
  PROVE  Moves(s)
<1> DEFINE k == session[s]
           w == W(k.req.user)
           l == Load(k, w)
           c == Completed(s)
           n == k.req.amount
           m == Add(c, w, "vit", n)
           o == Reference(m, TaskKey(s), n)
           p == Pay(o, Ref(TaskKey(s)))
<1>1. k.req.op = "progress" /\ k.req.op \in RewardRequests
  BY DEF CompleteTask, At, RewardRequests
<1>2. Good(s, k) /\ HasWallet(k.req.user) /\ n \in Nat
  BY <1>1, InRewards DEF WellFormed, UserRequests, AmountRequests
<1>3. Good(s, c)
  BY <1>1, GoodByCompleted
<1>4. CASE Query(s, l, "award")
  <2>1. Good(s, l) /\ HasLoaded(l, k, w)
    BY <1>2, RowIsLoaded
  <2>. HIDE DEF l
  <2>2. RewardCarried(l, "award") /\ l.req = k.req
    BY <2>1 DEF RewardCarried, HasLoaded
  <2>. QED
    BY <1>1, <1>4, <2>1, <2>2, ToRewards, MoveQuery
<1>5. CASE k.pc = "award" /\ Commit(s, p)
  <2>1. w \in DOMAIN k.read
    BY <1>1, <1>5, InRewards DEF RewardCarried
  <2>2. w \in DOMAIN c.read
    BY <1>3, <2>1, Stays
  <2>. HIDE DEF c
  <2>3. Good(s, m)
    BY <1>2, <1>3, <2>2, GoodByCredit DEF WalletColumns
  <2>. HIDE DEF m
  <2>4. Good(s, o)
    BY <2>3, GoodByReference
  <2>. HIDE DEF o
  <2>. QED
    BY <1>5, <2>4, GoodByPay, MoveCommit
<1>. QED
  BY <1>3, <1>4, <1>5, MoveCommit DEF CompleteTask, At, Args

LEMMA PostbackMoves ==
  ASSUME NEW s, Sure(s), Postback(s)
  PROVE  Moves(s)
<1> DEFINE k == session[s]
           a == k.req
           r == a.row
           w == W(a.user)
           x == [status |-> "pending", amount |-> a.amount]
           l == Insert(k, r, x)
           m == Load(k, w)
           y == [status |-> "paid"]
           c == Set(k, r, y)
           n == a.amount
           d == Add(c, w, "vit", n)
           name == <<"offer", r>>
           o == Reference(d, name, n)
           p == Pay(o, r)
<1>1. k.req.op = "postback" /\ k.req.op \in RewardRequests
  BY DEF Postback, At, RewardRequests, Args
<1>2. Good(s, k) /\ HasWallet(a.user) /\ n \in Nat
  BY <1>1, InRewards DEF WellFormed, UserRequests, AmountRequests
<1>3. Free(r)
  BY <1>1, RowIs, TrackedIs DEF TableOf, Free, Reserved
<1>4. CASE End(s, "done")
  BY <1>4, MoveEnd DEF Closings
<1>5. CASE Query(s, k, "event")
  BY <1>1, <1>2, <1>5, RewardQuery
<1>6. CASE Query(s, l, "reward")
  <2>1. DOMAIN x # {}
    OBVIOUS
  <2>. HIDE DEF x
  <2>2. Good(s, l)
    BY <1>2, <1>3, <2>1, GoodByFreeInsert
  <2>. HIDE DEF l
  <2>. QED
    BY <1>1, <1>6, <2>2, RewardQuery
<1>7. CASE Query(s, m, "award")
  <2>1. Good(s, m) /\ HasLoaded(m, k, w)
    BY <1>2, RowIsLoaded
  <2>. HIDE DEF m
  <2>2. RewardCarried(m, "award") /\ m.req = k.req
    BY <2>1 DEF RewardCarried, HasLoaded
  <2>. QED
    BY <1>1, <1>7, <2>1, <2>2, ToRewards, MoveQuery
<1>8. CASE k.pc = "award" /\ Commit(s, p)
  <2>1. w \in DOMAIN k.read
    BY <1>1, <1>8, InRewards DEF RewardCarried
  <2>. HIDE DEF y, name
  <2>2. Good(s, c)
    BY <1>2, <1>3, GoodByFree
  <2>3. w \in DOMAIN c.read
    BY <2>1, <2>2, Stays
  <2>. HIDE DEF c
  <2>4. Good(s, d)
    BY <1>2, <2>2, <2>3, GoodByCredit DEF WalletColumns
  <2>. HIDE DEF d
  <2>5. Good(s, o)
    BY <2>4, GoodByReference
  <2>. HIDE DEF o
  <2>. QED
    BY <1>8, <2>5, GoodByPay, MoveCommit
<1>. QED
  BY <1>4, <1>5, <1>6, <1>7, <1>8 DEF Postback, At, Args

LEMMA RewardStepMoves ==
  ASSUME NEW s, Sure(s), RewardStep(s)
  PROVE  Moves(s)
BY ProgressLoadMoves, AddProgressMoves, CompleteTaskMoves, PostbackMoves DEF RewardStep

----------------------------------------------------------------------------
(* Other earnings                                                          *)

LEMMA InEarnings ==
  ASSUME NEW s, Sure(s), session[s].req.op \in EarningRequests
  PROVE  /\ Good(s, session[s]) /\ WellFormed(session[s].req)
         /\ EarningCarried(session[s], session[s].pc)
BY CarriedByGroup DEF Sure

LEMMA ToEarnings ==
  ASSUME NEW k, k.req.op \in EarningRequests, NEW pc, EarningCarried(k, pc)
  PROVE  Carried(k, pc)
BY CarriedByGroup

(* Statements at which nothing has to have been loaded.                    *)
LEMMA EarningQuery ==
  ASSUME NEW s, session[s].req.op \in EarningRequests, NEW k, Good(s, k),
         NEW pc \in {"node", "chain", "user", "upgrade", "listing", "position"}, Query(s, k, pc)
  PROVE  Moves(s)
<1>1. k.req.op \in EarningRequests
  BY Stays
<1>2. EarningCarried(k, pc)
  BY DEF EarningCarried, EarningCarriedIn
<1>. QED
  BY <1>1, <1>2, ToEarnings, MoveQuery

(* A wallet that is loaded for what comes next.                            *)
LEMMA WalletQuery ==
  ASSUME NEW s, session[s].req.op \in EarningRequests \ {"respond", "activate"},
         NEW k, Good(s, k), k.req = session[s].req,
         NEW pc \in {"wallet", "debit", "grant", "claim"},
         pc = "grant" => k.req.op \in {"complete", "claim"},
         pc = "claim" => k.req.row \in Known(k),
         Query(s, Load(k, W(k.req.user)), pc)
  PROVE  Moves(s)
<1> DEFINE w == W(k.req.user)
           l == Load(k, w)
<1>1. Good(s, l) /\ HasLoaded(l, k, w)
  BY RowIsLoaded
<1>. HIDE DEF l
<1>2. EarningCarried(l, pc) /\ l.req = k.req
  BY <1>1 DEF EarningCarried, EarningCarriedIn, HasLoaded
<1>. QED
  BY <1>1, <1>2, ToEarnings, MoveQuery DEF l

LEMMA LoadFirstMoves ==
  ASSUME NEW s, Sure(s), LoadFirst(s)
  PROVE  Moves(s)
<1> DEFINE k == session[s]
           r == k.req.row
           l == Load(k, r)
<1>1. k.req.op \in EarningRequests /\ k.req.op \notin {"activate", "complete", "claim"}
  BY DEF LoadFirst, Args, EarningRequests
<1>2. Good(s, k)
  BY <1>1, InEarnings
<1>3. CASE table[r] # Absent /\ Query(s, l, "row")
  <2>1. Good(s, l) /\ HasLoaded(l, k, r)
    BY <1>2, RowIsLoaded
  <2>. HIDE DEF l
  <2>2. EarningCarried(l, "row") /\ l.req = k.req
    BY <1>3, <2>1 DEF EarningCarried, EarningCarriedIn, HasLoaded
  <2>. QED
    BY <1>1, <1>3, <2>1, <2>2, ToEarnings, MoveQuery
<1>. QED
  BY <1>3, MoveRefuse DEF LoadFirst, Row, Args

(* The row of a node or a proof.                                           *)
LEMMA LoadedIs ==
  ASSUME NEW s, Sure(s), session[s].req.op \in {"verify_node", "claim_node", "issue_challenge"},
         session[s].pc \in {"row", "claim"}
  PROVE  LET k == session[s] r == k.req.row IN
         /\ Good(s, k) /\ Row(s) = r /\ Loaded(s) = Copy(k, r)
         /\ r \in Known(k) /\ r \in Rows /\ r[1] \notin Reserved
         /\ r[1] = IF k.req.op = "issue_challenge" THEN "proof" ELSE "node"
         /\ r[1] = "node" => Copy(k, r).pending \in Nat
<1> DEFINE k == session[s]
           r == k.req.row
<1>1. k.req.op \in EarningRequests
  BY DEF EarningRequests
<1>2. Good(s, k) /\ WellFormed(k.req) /\ EarningCarried(k, k.pc)
  BY <1>1, InEarnings
<1>3. /\ r[1] = IF k.req.op = "issue_challenge" THEN "proof" ELSE "node"
      /\ r \in Rows
  BY <1>2, RowIs DEF TableOf, WellFormed
<1>4. r \in Known(k)
  BY <1>2 DEF EarningCarried, EarningCarriedIn
<1>5. r[1] = "node" => Copy(k, r).pending \in Nat
  BY <1>2, <1>3, <1>4, CopyCounted DEF Counted
<1>. QED
  BY <1>2, <1>3, <1>4, <1>5 DEF Row, Loaded, Args, Reserved

LEMMA NodeMay ==
  ASSUME NEW s, NEW k, Good(s, k), NEW r, r \in Known(k), r[1] = "node",
         NEW x, "pending" \in DOMAIN x => x.pending \in Nat
  PROVE  May(k, r, x)
<1>1. RowFits(r, x)
  BY DEF RowFits, Fits, Counted, Personal, Priced
<1>. QED
  BY <1>1, Unguarded DEF May, Known, Reserved

LEMMA VerifyNodeMoves ==
  ASSUME NEW s, Sure(s), VerifyNode(s)
  PROVE  Moves(s)
<1> DEFINE k == session[s]
           r == k.req.row
           n == Copy(k, r)
           p == n.pending + Prize
           x == [recent |-> TRUE, status |-> "active", passes |-> n.passes + 1, pending |-> p]
           y == [recent |-> TRUE, status |-> "offline"]
<1>1. k.req.op = "verify_node" /\ k.pc = "row"
  BY DEF VerifyNode, At
<1>2. /\ Good(s, k) /\ Row(s) = r /\ Loaded(s) = n
      /\ r \in Known(k) /\ r[1] = "node" /\ n.pending \in Nat
  BY <1>1, LoadedIs
<1>3. p \in Nat
  BY <1>2, PrizeAmount
<1>. HIDE DEF p
<1>4. May(k, r, x) /\ May(k, r, y)
  BY <1>2, <1>3, NodeMay
<1>5. Refuse(s) \/ Commit(s, Set(k, r, x)) \/ Commit(s, Set(k, r, y))
  BY <1>2 DEF VerifyNode, p
<1>. HIDE DEF x, y
<1>. QED
  BY <1>2, <1>4, <1>5, GoodBySet, MoveCommit, MoveRefuse

LEMMA GoodByNodeClaimed ==
  ASSUME NEW s, NEW k, Good(s, k), NEW r, r \in Known(k), r[1] = "node"
  PROVE  Good(s, Claimed(k, r))
<1> DEFINE e == Copy(k, r).earned + Copy(k, r).pending
           x == [earned |-> e, pending |-> 0]
<1>. HIDE DEF e
<1>1. May(k, r, x)
  BY NodeMay
<1>2. Claimed(k, r) = Set(k, r, x)
  BY DEF Claimed, e
<1>. HIDE DEF x
<1>. QED
  BY <1>1, <1>2, GoodBySet

LEMMA ClaimEarningsMoves ==
  ASSUME NEW s, Sure(s), ClaimEarnings(s)
  PROVE  Moves(s)
<1> DEFINE k == session[s]
           r == k.req.row
           n == Copy(k, r).pending
           w == W(k.req.user)
           c == Claimed(k, r)
           d == Add(c, w, "vit", n)
           o == Reference(d, ClaimKey(s), n)
           p == Pay(o, Ref(ClaimKey(s)))
<1>1. k.req.op = "claim_node" /\ k.pc \in {"row", "claim"} /\ k.req.op \in EarningRequests
  BY DEF ClaimEarnings, At, EarningRequests
<1>2. /\ Good(s, k) /\ Row(s) = r /\ Loaded(s) = Copy(k, r)
      /\ r \in Known(k) /\ r[1] = "node" /\ n \in Nat
  BY <1>1, LoadedIs
<1>3. HasWallet(k.req.user) /\ EarningCarried(k, k.pc) /\ Wallet(s) = w
  BY <1>1, InEarnings DEF WellFormed, UserRequests, Wallet, Args
<1>4. Good(s, c)
  BY <1>2, GoodByNodeClaimed
<1>. HIDE DEF n
<1>5. CASE Query(s, Load(k, w), "claim")
  BY <1>1, <1>2, <1>5, WalletQuery
<1>6. CASE k.pc = "claim" /\ Commit(s, p)
  <2>1. w \in DOMAIN k.read
    BY <1>3, <1>6 DEF EarningCarried, EarningCarriedIn
  <2>2. w \in DOMAIN c.read
    BY <1>4, <2>1, Stays
  <2>. HIDE DEF c
  <2>3. Good(s, d)
    BY <1>2, <1>3, <1>4, <2>2, GoodByCredit DEF WalletColumns
  <2>. HIDE DEF d
  <2>4. Good(s, o)
    BY <2>3, GoodByReference
  <2>. HIDE DEF o
  <2>. QED
    BY <1>6, <2>4, GoodByPay, MoveCommit
<1>. QED
  BY <1>2, <1>3, <1>4, <1>5, <1>6, MoveRefuse, MoveCommit DEF ClaimEarnings, At, n

LEMMA IssueChallengeMoves ==
  ASSUME NEW s, Sure(s), IssueChallenge(s)
  PROVE  Moves(s)
<1> DEFINE k == session[s]
           r == k.req.row
           c == Challenge(r)
           x == [status |-> "open"]
           y == [status |-> "challenged"]
           l == Insert(k, c, x)
           m == Set(l, r, y)
<1>1. k.req.op = "issue_challenge" /\ k.pc = "row"
  BY DEF IssueChallenge, At
<1>2. /\ Good(s, k) /\ Row(s) = r /\ r \in Known(k) /\ r[1] = "proof" /\ r[1] \notin Reserved
  BY <1>1, LoadedIs
<1>3. CASE Commit(s, m)
  <2>1. Free(c) /\ DOMAIN x # {}
    BY TrackedIs DEF Free, Reserved, Challenge
  <2>2. Untyped(r, y)
    BY <1>2 DEF Untyped, Typed, Counted, Personal, Priced, Linked
  <2>. HIDE DEF c, x, y
  <2>3. Good(s, l)
    BY <1>2, <2>1, GoodByFreeInsert
  <2>. HIDE DEF l
  <2>6. r \in Known(l)
    <3>1. r[1] # "merit" /\ session[s] = k
      BY <1>2
    <3>. QED
      BY <1>2, <2>3, <3>1, Stays
  <2>4. Good(s, m)
    BY <1>2, <2>2, <2>3, <2>6, GoodByMark
  <2>. HIDE DEF m
  <2>. QED
    BY <1>3, <2>4, MoveCommit
<1>. QED
  BY <1>2, <1>3, MoveRefuse, MoveEnd DEF IssueChallenge, Closings

(* A challenge that is answered.                                           *)
LEMMA Answering ==
  ASSUME NEW s, Sure(s), session[s].req.op = "respond"
  PROVE  LET k == session[s] r == k.req.row p == r[2] IN
         /\ k.req.op \in EarningRequests /\ Good(s, k) /\ EarningCarried(k, k.pc)
         /\ Row(s) = r /\ Proof(s) = p /\ Free(r)
         /\ Standing(p) /\ p[1] = "proof" /\ p[1] \in Tracked \ {"validator"}
         /\ p[1] \notin Reserved /\ p # r
         /\ p \in DOMAIN k.read => p \in Known(k) /\ p \in Rows
         /\ p \in Known(k) => "user" \in DOMAIN Copy(k, p) /\ HasWallet(Copy(k, p).user)
<1> DEFINE k == session[s]
           r == k.req.row
           p == r[2]
<1>1. k.req.op \in EarningRequests
  BY DEF EarningRequests
<1>2. Good(s, k) /\ WellFormed(k.req) /\ EarningCarried(k, k.pc)
  BY <1>1, InEarnings
<1>3. r[1] = "challenge" /\ p[1] = "proof"
  BY RowIs DEF TableOf, Sure, Proper
<1>4. Standing(p)
  BY <1>2 DEF WellFormed
<1>5. p[1] \in Tracked \ {"validator"} /\ Free(r) /\ p[1] \notin Reserved /\ p # r
  BY <1>3, TrackedIs DEF Free, Reserved
<1>. HIDE DEF p
<1>6. p \in DOMAIN k.read => p \in Known(k)
  BY <1>2, <1>4, <1>5, StandingKnown
<1>7. p \in Rows
  BY <1>4 DEF Standing
<1>8. p \in Known(k) => "user" \in DOMAIN Copy(k, p) /\ HasWallet(Copy(k, p).user)
  BY <1>2, <1>3, <1>7, CopyPersonal DEF Personal
<1>. QED
  BY <1>1, <1>2, <1>3, <1>4, <1>5, <1>6, <1>7, <1>8 DEF Row, Proof, Args, p

LEMMA AnswerMoves ==
  ASSUME NEW s, Sure(s), Answer(s)
  PROVE  Moves(s)
<1> DEFINE k == session[s]
           r == k.req.row
           p == r[2]
           x == [status |-> "expired"]
           y == [status |-> k.req.answer]
           l == Set(k, r, y)
           m == Load(l, p)
<1>1. k.req.op = "respond"
  BY DEF Answer, At
<1>2. /\ k.req.op \in EarningRequests /\ Good(s, k)
      /\ Row(s) = r /\ Proof(s) = p /\ Free(r)
  BY <1>1, Answering
<1>3. CASE Commit(s, Set(k, r, x))
  <2>. HIDE DEF x
  <2>. QED
    BY <1>2, <1>3, GoodByFree, MoveCommit
<1>4. CASE Query(s, m, "proof")
  <2>. HIDE DEF y
  <2>1. Good(s, l)
    BY <1>2, GoodByFree
  <2>2. l.req = k.req
    BY <1>1, <2>1, Stays
  <2>. HIDE DEF l, p
  <2>3. Good(s, m) /\ HasLoaded(m, l, p)
    BY <2>1, RowIsLoaded
  <2>. HIDE DEF m
  <2>4. m.req = k.req /\ p \in DOMAIN m.read
    BY <2>2, <2>3 DEF HasLoaded
  <2>5. EarningCarried(m, "proof")
    BY <1>1, <2>4 DEF EarningCarried, EarningCarriedIn, p
  <2>. QED
    BY <1>2, <1>4, <2>3, <2>4, <2>5, ToEarnings, MoveQuery
<1>. QED
  BY <1>2, <1>3, <1>4, MoveRefuse DEF Answer, Args

LEMMA ResolveMoves ==
  ASSUME NEW s, Sure(s), Resolve(s)
  PROVE  Moves(s)
<1> DEFINE k == session[s]
           p == k.req.row[2]
           e == Copy(k, p)
           w == W(e.user)
           x(status) == [status |-> status]
           c(status) == Set(k, p, x(status))
           S == ActiveNodes(Prover(s))
           d == Add(k, w, "vit", Prize)
           o == Reference(d, ProofKey(s), Prize)
           q == Pay(o, Ref(ProofKey(s)))
           nodes == {r \in Known(k) : r[1] = "node"}
           y(r) == [earned |-> Copy(k, r).earned + Prize, passes |-> Copy(k, r).passes + 1]
           f == [r \in nodes |-> y(r)]
<1>1. k.req.op = "respond" /\ k.pc \in {"proof", "reward", "node"}
  BY DEF Resolve, At
<1>2. /\ k.req.op \in EarningRequests /\ Good(s, k) /\ EarningCarried(k, k.pc)
      /\ Proof(s) = p /\ p[1] = "proof" /\ p[1] \notin Reserved
      /\ p \in DOMAIN k.read => p \in Known(k) /\ p \in Rows
      /\ p \in Known(k) => "user" \in DOMAIN e /\ HasWallet(e.user)
  BY <1>1, Answering
<1>3. k.pc \in {"proof", "reward"} => p \in Known(k) /\ HasWallet(e.user) /\ "user" \in DOMAIN e
  BY <1>1, <1>2 DEF EarningCarried, EarningCarriedIn
<1>4. Prover(s) = e.user
  BY <1>2 DEF Prover
<1>5. ASSUME NEW status, k.pc = "proof"
      PROVE  /\ Good(s, c(status)) /\ c(status).req = k.req
             /\ p \in Known(c(status)) /\ Copy(c(status), p).user = e.user
  <2> DEFINE z == x(status)
  <2>1. Untyped(p, z) /\ DOMAIN z = {"status"}
    BY <1>2 DEF Untyped, Typed, Counted, Personal, Priced, Linked
  <2>. HIDE DEF z, p
  <2> DEFINE g == Set(k, p, z)
  <2>2. Good(s, g)
    BY <1>2, <1>3, <1>5, <2>1, GoodByMark
  <2>3. IsSet(g, k, p, z)
    BY <1>2, SetIs
  <2>. HIDE DEF g
  <2>4. g.req = k.req /\ p \in Known(g) /\ Copy(g, p).user = e.user
    BY <1>3, <1>5, <2>1, <2>3 DEF IsSet
  <2>. QED
    BY <2>2, <2>4 DEF g, z
<1>6. ASSUME NEW status, k.pc = "proof", Query(s, LoadAll(c(status), S), "node") PROVE Moves(s)
  <2>1. Good(s, c(status))
    BY <1>5, <1>6
  <2>. HIDE DEF c, S
  <2>2. Good(s, LoadAll(c(status), S))
    BY <2>1, GoodByLoadAll
  <2>. QED
    BY <1>2, <1>6, <2>2, EarningQuery
<1>7. ASSUME NEW status, k.pc = "proof", Query(s, Load(c(status), w), "reward") PROVE Moves(s)
  <2> DEFINE g == c(status)
             l == Load(g, w)
  <2>1. Good(s, g) /\ g.req = k.req /\ p \in Known(g) /\ Copy(g, p).user = e.user
    BY <1>5, <1>7
  <2>2. Query(s, l, "reward")
    BY <1>7
  <2>. HIDE DEF g, e
  <2>3. Good(s, l) /\ HasLoaded(l, g, w)
    BY <2>1, RowIsLoaded
  <2>. HIDE DEF l, c, p
  <2>4. l.req = k.req /\ p \in Known(l) /\ Copy(l, p).user = e.user /\ w \in DOMAIN l.read
    BY <2>1, <2>3 DEF HasLoaded
  <2>5. p \in DOMAIN l.read /\ W(Copy(l, p).user) \in DOMAIN l.read
    BY <2>4 DEF Known
  <2>6. EarningCarried(l, "reward")
    BY <1>1, <2>4, <2>5 DEF EarningCarried, EarningCarriedIn, p
  <2>. QED
    BY <1>2, <2>2, <2>3, <2>4, <2>6, ToEarnings, MoveQuery
<1>8. CASE k.pc = "reward" /\ Query(s, LoadAll(q, S), "node")
  <2>1. w \in DOMAIN k.read
    BY <1>1, <1>2, <1>8 DEF EarningCarried, EarningCarriedIn
  <2>2. Good(s, d)
    <3>1. HasWallet(e.user)
      BY <1>3, <1>8
    <3>. HIDE DEF e
    <3>. QED
      BY <1>2, <2>1, <3>1, PrizeAmount, GoodByCredit DEF WalletColumns
  <2>. HIDE DEF d
  <2>3. Good(s, o)
    BY <2>2, GoodByReference
  <2>. HIDE DEF o
  <2>4. Good(s, q)
    BY <2>3, GoodByPay
  <2>. HIDE DEF q, S
  <2>5. Good(s, LoadAll(q, S))
    BY <2>4, GoodByLoadAll
  <2>. QED
    BY <1>2, <1>8, <2>5, EarningQuery
<1>9. CASE Commit(s, SetEach(k, f))
  <2>1. ASSUME NEW r \in nodes PROVE May(k, r, y(r))
    BY <1>2, <2>1, NodeMay
  <2>. HIDE DEF y
  <2>2. \A r \in DOMAIN f : May(k, r, f[r])
    BY <2>1
  <2>. HIDE DEF f
  <2>. QED
    BY <1>2, <1>9, <2>2, GoodByEach, MoveCommit
<1>10. CASE Commit(s, k)
  BY <1>2, <1>10, MoveCommit
<1>11. CASE k.pc = "proof"
  <2>1. \/ Query(s, LoadAll(c("failed"), S), "node")
        \/ Query(s, LoadAll(c("verified"), S), "node")
        \/ Query(s, Load(c("verified"), w), "reward")
    BY <1>1, <1>2, <1>4, <1>11 DEF Resolve, At, Args
  <2>. HIDE DEF c, S, w
  <2>. QED
    BY <1>6, <1>7, <1>11, <2>1
<1>. QED
  BY <1>1, <1>2, <1>4, <1>8, <1>9, <1>10, <1>11 DEF Resolve, At, Args

(* A reward with a reference.                                              *)
LEMMA GoodByRewarded ==
  ASSUME NEW s, NEW k, Good(s, k), NEW u, HasWallet(u), W(u) \in DOMAIN k.read,
         NEW n \in Nat, NEW name, NEW cause
  PROVE  Good(s, Pay(Reference(Add(k, W(u), "vit", n), name, n), cause))
<1> DEFINE d == Add(k, W(u), "vit", n)
           o == Reference(d, name, n)
<1>1. Good(s, d)
  BY GoodByCredit DEF WalletColumns
<1>. HIDE DEF d
<1>2. Good(s, o)
  BY <1>1, GoodByReference
<1>. HIDE DEF o
<1>. QED
  BY <1>2, GoodByPay DEF o, d

(* The rows of the prophecy chain are free.                                *)
LEMMA ProphecyFree ==
  ASSUME NEW s
  PROVE  Free(Prophecy(s)) /\ Free(User(s))
BY TrackedIs DEF Free, Reserved, Prophecy, ProgressOf, User

LEMMA GoodByExperienced ==
  ASSUME NEW s, NEW k, Good(s, k)
  PROVE  Good(s, Experienced(k, s))
BY ProphecyFree, GoodByFree DEF Experienced

LEMMA GoodByAdvanced ==
  ASSUME NEW s, NEW k, Good(s, k), NEW n
  PROVE  Good(s, Advanced(k, s, n))
BY ProphecyFree, GoodByFree DEF Advanced

LEMMA GoodByEvaluated ==
  ASSUME NEW s, NEW k, Good(s, k)
  PROVE  Good(s, Evaluated(k, s))
BY ProphecyFree, GoodByFree DEF Evaluated

LEMMA GoodByGranted ==
  ASSUME NEW s, NEW k, Good(s, k)
  PROVE  Good(s, Granted(k, s))
<1>1. Good(s, Experienced(k, s))
  BY GoodByExperienced
<1>. QED
  BY <1>1, ProphecyFree, GoodByFree DEF Granted

LEMMA ProphecyLoadMoves ==
  ASSUME NEW s, Sure(s), ProphecyLoad(s)
  PROVE  Moves(s)
<1> DEFINE k == session[s]
           S == {Prophecy(s), User(s)}
           l == LoadAll(k, S)
<1>1. k.req.op \in EarningRequests /\ Query(s, l, "chain")
  BY DEF ProphecyLoad, At, EarningRequests
<1>2. Good(s, k)
  BY <1>1, InEarnings
<1>. HIDE DEF S
<1>3. Good(s, l)
  BY <1>2, GoodByLoadAll
<1>. HIDE DEF l
<1>. QED
  BY <1>1, <1>3, EarningQuery

LEMMA GrantMoves ==
  ASSUME NEW s, Sure(s), session[s].req.op \in {"complete", "claim"},
         NEW k, Good(s, k), Grant(s, k)
  PROVE  Moves(s)
<1>1. session[s].req.op \in EarningRequests
  BY DEF EarningRequests
<1>2. k.req = session[s].req
  BY Stays
<1>3. Good(s, Granted(k, s))
  BY GoodByGranted
<1>4. CASE Query(s, Load(k, Wallet(s)), "grant")
  <2>1. Wallet(s) = W(k.req.user)
    BY <1>2 DEF Wallet, Args
  <2>2. /\ session[s].req.op \in EarningRequests \ {"respond", "activate"}
        /\ k.req.op \in {"complete", "claim"}
    BY <1>1, <1>2
  <2>. QED
    BY <1>2, <1>4, <2>1, <2>2, WalletQuery
<1>. QED
  BY <1>3, <1>4, MoveCommit DEF Grant

LEMMA CompleteChapterMoves ==
  ASSUME NEW s, Sure(s), CompleteChapter(s)
  PROVE  Moves(s)
<1> DEFINE k == session[s]
           n == k.req.chapter
           l == Advanced(k, s, n)
           m == Evaluated(l, s)
<1>1. k.req.op = "complete" /\ k.req.op \in EarningRequests
  BY DEF CompleteChapter, At, EarningRequests
<1>2. Good(s, k)
  BY <1>1, InEarnings
<1>3. Good(s, l)
  BY <1>2, GoodByAdvanced
<1>4. CASE Grant(s, m)
  <2>. HIDE DEF l
  <2>1. Good(s, m)
    BY <1>3, GoodByEvaluated
  <2>. HIDE DEF m
  <2>. QED
    BY <1>1, <1>4, <2>1, GrantMoves
<1>. QED
  BY <1>4, MoveRefuse, MoveEnd DEF CompleteChapter, Args, Closings

LEMMA ClaimRewardsMoves ==
  ASSUME NEW s, Sure(s), ClaimRewards(s)
  PROVE  Moves(s)
<1>1. session[s].req.op = "claim" /\ session[s].req.op \in EarningRequests
  BY DEF ClaimRewards, At, EarningRequests
<1>2. Good(s, session[s])
  BY <1>1, InEarnings
<1>. QED
  BY <1>1, <1>2, GrantMoves, MoveRefuse, MoveEnd DEF ClaimRewards, Closings

LEMMA GrantChapterMoves ==
  ASSUME NEW s, Sure(s), session[s].req.op \in EarningRequests, GrantChapter(s)
  PROVE  Moves(s)
<1> DEFINE k == session[s]
           u == k.req.user
           g == Granted(k, s)
           name == ChapterKey(s)
           p == Pay(Reference(Add(g, W(u), "vit", Prize), name, Prize), Ref(name))
<1>1. k.pc = "grant" /\ Commit(s, p)
  BY DEF GrantChapter, Wallet, Args
<1>2. /\ Good(s, k) /\ EarningCarried(k, k.pc) /\ WellFormed(k.req)
  BY InEarnings
<1>3. W(u) \in DOMAIN k.read /\ HasWallet(u)
  BY <1>1, <1>2 DEF EarningCarried, EarningCarriedIn, WellFormed, UserRequests
<1>4. Good(s, g)
  BY <1>2, GoodByGranted
<1>. HIDE DEF g, name
<1>5. W(u) \in DOMAIN g.read
  BY <1>3, <1>4, Stays
<1>6. Good(s, p)
  BY <1>3, <1>4, <1>5, PrizeAmount, GoodByRewarded
<1>. HIDE DEF p
<1>. QED
  BY <1>1, <1>6, MoveCommit

(* The referrer of a user has a wallet.                                    *)
LEMMA ReferrerIs ==
  ASSUME NEW s, Sure(s), NEW u, <<"referral", u>> \in Rows, table[<<"referral", u>>] # Absent
  PROVE  HasWallet(table[<<"referral", u>>].referrer)
<1> DEFINE r == <<"referral", u>>
<1>1. r[1] = "referral" /\ r[1] \in Tracked /\ <<r[1], "referrer">> \in Personal
  BY TrackedIs DEF Personal
<1>2. Founded(table) /\ r \in Rows
  BY DEF Sure, Good, Firm
<1>3. table[r] # Absent
  OBVIOUS
<1>. HIDE DEF r
<1>4. RowFits(r, table[r]) /\ RowFull(r, table[r])
  BY <1>1, <1>2, <1>3 DEF Founded
<1>5. "referrer" \in DOMAIN table[r]
  BY <1>1, <1>4 DEF RowFull, Typed
<1>6. HasWallet(table[r].referrer)
  BY <1>1, <1>4, <1>5 DEF RowFits, Fits
<1>. QED
  BY <1>6 DEF r

LEMMA ActivateMoves ==
  ASSUME NEW s, Sure(s), Activate(s)
  PROVE  Moves(s)
<1> DEFINE k == session[s]
           u == k.req.user
           q == User(s)
           f == <<"referral", u>>
           v == table[f].referrer
           x == [tier |-> "pro"]
           l == Load(k, q)
           m == Set(k, q, x)
           n == Load(k, W(v))
           d == Add(k, W(v), "vit", Prize)
<1>1. k.req.op = "activate" /\ k.req.op \in EarningRequests
  BY DEF Activate, At, EarningRequests
<1>2. Good(s, k) /\ WellFormed(k.req) /\ EarningCarried(k, k.pc)
  BY <1>1, InEarnings
<1>3. f \in Rows
  BY <1>1, <1>2 DEF WellFormed
<1>4. CASE Query(s, l, "user")
  <2>1. Good(s, l)
    BY <1>2, GoodByLoad
  <2>. HIDE DEF l
  <2>. QED
    BY <1>1, <1>4, <2>1, EarningQuery
<1>5. CASE Query(s, m, "upgrade")
  <2>. HIDE DEF x
  <2>1. Good(s, m)
    BY <1>2, ProphecyFree, GoodByFree
  <2>. HIDE DEF m
  <2>. QED
    BY <1>1, <1>5, <2>1, EarningQuery
<1>6. CASE CommitThen(s, k, "upgraded")
  <2>1. Continued(k).req = k.req
    BY <1>2, ContinuedHas
  <2> DEFINE c == Continued(k)
  <2>. HIDE DEF c
  <2>2. EarningCarried(c, "upgraded")
    BY DEF EarningCarried, EarningCarriedIn
  <2>3. c.req.op \in EarningRequests
    BY <1>1, <2>1 DEF c
  <2>4. Carried(Continued(k), "upgraded")
    BY <2>2, <2>3, ToEarnings DEF c
  <2>. QED
    BY <1>2, <1>6, <2>4, MoveCommitThen
<1>7. CASE table[f] # Absent /\ Query(s, n, "commission")
  <2>1. Good(s, n) /\ HasLoaded(n, k, W(v))
    BY <1>2, RowIsLoaded
  <2>. HIDE DEF n
  <2>2. n.req = k.req /\ W(v) \in DOMAIN n.read
    BY <2>1 DEF HasLoaded
  <2>3. EarningCarried(n, "commission")
    BY <1>1, <1>7, <2>2 DEF EarningCarried, EarningCarriedIn
  <2>. QED
    BY <1>1, <1>7, <2>1, <2>2, <2>3, ToEarnings, MoveQuery
<1>8. CASE k.pc = "commission" /\ Commit(s, Pay(d, User(s)))
  <2>1. table[f] # Absent /\ W(v) \in DOMAIN k.read
    BY <1>1, <1>2, <1>8 DEF EarningCarried, EarningCarriedIn
  <2>2. HasWallet(v)
    BY <1>3, <2>1, ReferrerIs
  <2>. HIDE DEF v
  <2>3. Good(s, d)
    BY <1>2, <2>1, <2>2, PrizeAmount, GoodByCredit DEF WalletColumns
  <2>. HIDE DEF d
  <2>. QED
    BY <1>8, <2>3, GoodByPay, MoveCommit
<1>9. CASE End(s, "done")
  BY <1>9, MoveEnd DEF Closings
<1>. QED
  BY <1>4, <1>5, <1>6, <1>7, <1>8, <1>9 DEF Activate, Args, At

LEMMA LoadWalletMoves ==
  ASSUME NEW s, Sure(s), LoadWallet(s)
  PROVE  Moves(s)
<1> DEFINE k == session[s]
<1>1. /\ k.req.op \in EarningRequests \ {"respond", "activate"}
      /\ Query(s, Load(k, W(k.req.user)), "wallet")
  BY DEF LoadWallet, Args, EarningRequests, Wallet
<1>2. Good(s, k)
  BY <1>1, InEarnings
<1>. QED
  BY <1>1, <1>2, WalletQuery

(* A wallet that is about to change.                                       *)
WalletReady(k, n) ==
    /\ HasWallet(k.req.user) /\ W(k.req.user) \in DOMAIN k.read
    /\ Copy(k, W(k.req.user)).vit \in Nat /\ n \in Nat

LEMMA WalletReadyIs ==
  ASSUME NEW s, Sure(s),
         session[s].req.op \in {"manual_credit", "manual_debit", "reset", "remit", "stars",
                                "list_model", "strategy"},
         session[s].pc = IF session[s].req.op = "strategy" THEN "debit" ELSE "wallet"
  PROVE  LET k == session[s] IN
         /\ k.req.op \in EarningRequests /\ Good(s, k) /\ Wallet(s) = W(k.req.user)
         /\ WalletReady(k, IF k.req.op = "reset" THEN 0 ELSE k.req.amount)
         /\ Balance(s, "vit") = Copy(k, W(k.req.user)).vit
<1> DEFINE k == session[s]
<1>1. k.req.op \in EarningRequests
  BY DEF EarningRequests
<1>2. Good(s, k) /\ WellFormed(k.req) /\ EarningCarried(k, k.pc)
  BY <1>1, InEarnings
<1>3. HasWallet(k.req.user) /\ W(k.req.user) \in DOMAIN k.read
  BY <1>2 DEF EarningCarried, EarningCarriedIn, WellFormed, UserRequests
<1>4. Copy(k, W(k.req.user)).vit \in Nat
  BY <1>2, <1>3, WalletKnown DEF WalletColumns
<1>5. k.req.op # "reset" => k.req.amount \in Nat
  BY <1>2 DEF WellFormed, AmountRequests
<1>. QED
  BY <1>1, <1>2, <1>3, <1>4, <1>5 DEF WalletReady, Wallet, Args, Balance

LEMMA AdjustMoves ==
  ASSUME NEW s, Sure(s), session[s].req.op \in {"manual_credit", "manual_debit", "reset"},
         NEW n, Good(s, Add(session[s], Wallet(s), "vit", n)), Adjust(s, n)
  PROVE  Moves(s)
<1> DEFINE k == session[s]
           d == Add(k, Wallet(s), "vit", n)
           r == k.req.row
           x == [amount |-> n]
           l == Insert(d, r, x)
<1>1. Free(r)
  BY RowIs, TrackedIs DEF TableOf, Free, Reserved
<1>2. Good(s, d) /\ Commit(s, l) /\ DOMAIN x # {}
  BY DEF Adjust, Row, Args
<1>. HIDE DEF d, x, r
<1>3. Good(s, l)
  BY <1>1, <1>2, GoodByFreeInsert
<1>. HIDE DEF l
<1>. QED
  BY <1>2, <1>3, MoveCommit

LEMMA CorrectMoves ==
  ASSUME NEW s, Sure(s), Correct(s)
  PROVE  Moves(s)
<1> DEFINE k == session[s]
           a == k.req
           b == Copy(k, W(a.user)).vit
<1>1. k.req.op \in {"manual_credit", "manual_debit", "reset"} /\ k.pc = "wallet"
  BY DEF Correct, At
<1>2. /\ Good(s, k) /\ Wallet(s) = W(a.user) /\ Balance(s, "vit") = b
      /\ WalletReady(k, IF k.req.op = "reset" THEN 0 ELSE k.req.amount)
  BY <1>1, WalletReadyIs
<1>3. HasWallet(a.user) /\ W(a.user) \in DOMAIN k.read /\ b \in Nat
  BY <1>2 DEF WalletReady
<1>4. a.op # "reset" => a.amount \in Nat
  BY <1>2 DEF WalletReady
<1>5. CASE a.op # "reset" /\ Adjust(s, a.amount)
  <2>1. Good(s, Add(k, W(a.user), "vit", a.amount))
    BY <1>2, <1>3, <1>4, <1>5, GoodByCredit DEF WalletColumns
  <2>. QED
    BY <1>1, <1>2, <1>5, <2>1, AdjustMoves
<1>6. CASE a.op # "reset" /\ ~(b < a.amount) /\ Adjust(s, -a.amount)
  <2>1. Good(s, Add(k, W(a.user), "vit", -a.amount))
    BY <1>2, <1>3, <1>4, <1>6, GoodByDebit DEF WalletColumns
  <2>. QED
    BY <1>1, <1>2, <1>6, <2>1, AdjustMoves
<1>7. CASE Adjust(s, -b)
  <2>1. Good(s, Add(k, W(a.user), "vit", -b))
    BY <1>2, <1>3, GoodByDebit DEF WalletColumns
  <2>. QED
    BY <1>1, <1>2, <1>7, <2>1, AdjustMoves
<1>. QED
  BY <1>2, <1>5, <1>6, <1>7, MoveRefuse, MoveEnd DEF Correct, At, Args, Closings

LEMMA StarsMoves ==
  ASSUME NEW s, Sure(s), Stars(s)
  PROVE  Moves(s)
<1> DEFINE k == session[s]
           u == k.req.user
           n == k.req.amount
           name == <<"stars", k.req.key>>
           p == Pay(Reference(Add(k, W(u), "vit", n), name, n), Ref(name))
<1>1. k.req.op = "stars" /\ k.pc = "wallet" /\ Commit(s, p)
  BY DEF Stars, At, Args, Wallet
<1>2. Good(s, k) /\ WalletReady(k, n)
  BY <1>1, WalletReadyIs
<1>. HIDE DEF name
<1>3. Good(s, p)
  BY <1>2, GoodByRewarded DEF WalletReady
<1>. HIDE DEF p
<1>. QED
  BY <1>1, <1>3, MoveCommit

LEMMA RemitMoves ==
  ASSUME NEW s, Sure(s), Remit(s)
  PROVE  Moves(s)
<1> DEFINE k == session[s]
           u == k.req.user
           n == k.req.amount
           name == <<"remit", k.req.to>>
           d == Add(k, W(u), "vit", -n)
           o == Reference(d, name, -n)
<1>1. k.req.op = "remit" /\ k.pc = "wallet"
  BY DEF Remit, At
<1>2. Good(s, k) /\ WalletReady(k, n) /\ Balance(s, "vit") = Copy(k, W(u)).vit
  BY <1>1, WalletReadyIs
<1>3. CASE ~(Copy(k, W(u)).vit < n) /\ Commit(s, o)
  <2>1. Good(s, d)
    BY <1>2, <1>3, GoodByDebit DEF WalletReady, WalletColumns
  <2>. HIDE DEF d, name
  <2>2. Good(s, o)
    BY <2>1, GoodByReference
  <2>. HIDE DEF o
  <2>. QED
    BY <1>3, <2>2, MoveCommit
<1>. QED
  BY <1>2, <1>3, MoveRefuse DEF Remit, Args, Wallet

LEMMA ListModelMoves ==
  ASSUME NEW s, Sure(s), ListModel(s)
  PROVE  Moves(s)
<1> DEFINE k == session[s]
           u == k.req.user
           r == k.req.row
           n == k.req.amount
           d == Add(k, W(u), "vit", -n)
           x == [status |-> "pending", fee |-> n]
           l == Insert(k, r, x)
<1>1. k.req.op = "list_model" /\ k.req.op \in EarningRequests
  BY DEF ListModel, At, EarningRequests
<1>2. Good(s, k)
  BY <1>1, InEarnings
<1>3. CASE /\ k.pc = "wallet" /\ ~(Balance(s, "vit") < n)
           /\ Query(s, Add(k, Wallet(s), "vit", -n), "listing")
  <2>1. /\ WalletReady(k, n) /\ Wallet(s) = W(u)
        /\ Balance(s, "vit") = Copy(k, W(u)).vit
    BY <1>1, <1>3, WalletReadyIs
  <2>2. Good(s, d)
    BY <1>2, <1>3, <2>1, GoodByDebit DEF WalletReady, WalletColumns
  <2>3. Query(s, d, "listing")
    BY <1>3, <2>1
  <2>. HIDE DEF d
  <2>. QED
    BY <1>1, <2>2, <2>3, EarningQuery
<1>4. CASE Commit(s, l)
  <2>1. Free(r) /\ DOMAIN x # {}
    BY <1>1, RowIs, TrackedIs DEF TableOf, Free, Reserved
  <2>. HIDE DEF r, x
  <2>2. Good(s, l)
    BY <1>2, <2>1, GoodByFreeInsert
  <2>. HIDE DEF l
  <2>. QED
    BY <1>4, <2>2, MoveCommit
<1>. QED
  BY <1>3, <1>4, MoveRefuse DEF ListModel, At, Args, Row

(* What a position in a vault is, staked in or new.                        *)
LEMMA GoodByStaked ==
  ASSUME NEW s, NEW k, Good(s, k), NEW r, Free(r), NEW n
  PROVE  Good(s, IF Exists(k, r) THEN Add(k, r, "staked", n)
                 ELSE Insert(k, r, [staked |-> n]))
<1> DEFINE x == [staked |-> n]
<1>1. DOMAIN x # {}
  OBVIOUS
<1>. HIDE DEF x
<1>2. Good(s, Insert(k, r, x)) /\ Good(s, Add(k, r, "staked", n))
  BY <1>1, GoodByFreeInsert, GoodByFreeAdd
<1>. QED
  BY <1>2 DEF x

LEMMA StakeInVaultMoves ==
  ASSUME NEW s, Sure(s), StakeInVault(s)
  PROVE  Moves(s)
<1> DEFINE k == session[s]
           a == k.req
           u == a.user
           n == a.amount
           position == <<"position", <<a.row, u>>>>
           d == Add(k, W(u), "vit", -n)
           o == Reference(d, <<"strategy", a.row>>, 0)
           l == Load(o, position)
           m == IF Exists(k, position) THEN Add(k, position, "staked", n)
                ELSE Insert(k, position, [staked |-> n])
           t == Add(m, a.row, "total", n)
<1>1. k.req.op = "strategy" /\ k.req.op \in EarningRequests
  BY DEF StakeInVault, At, EarningRequests
<1>2. Good(s, k)
  BY <1>1, InEarnings
<1>3. CASE Query(s, Load(k, W(u)), "debit")
  BY <1>1, <1>2, <1>3, WalletQuery
<1>4. CASE k.pc = "debit" /\ ~(Balance(s, "vit") < n) /\ Query(s, l, "position")
  <2>1. /\ WalletReady(k, n) /\ Balance(s, "vit") = Copy(k, W(u)).vit
    BY <1>1, <1>4, WalletReadyIs
  <2>2. Good(s, d)
    BY <1>2, <1>4, <2>1, GoodByDebit DEF WalletReady, WalletColumns
  <2>. HIDE DEF d
  <2>3. Good(s, o)
    BY <2>2, GoodByReference
  <2>. HIDE DEF o, position
  <2>4. Good(s, l)
    BY <2>3, GoodByLoad
  <2>. HIDE DEF l
  <2>. QED
    BY <1>1, <1>4, <2>4, EarningQuery
<1>5. CASE Commit(s, t)
  <2>1. Free(a.row) /\ Free(position)
    BY <1>1, RowIs, TrackedIs DEF TableOf, Free, Reserved
  <2>. HIDE DEF position
  <2>2. Good(s, m)
    BY <1>2, <2>1, GoodByStaked
  <2>. HIDE DEF m
  <2>3. Good(s, t)
    BY <2>1, <2>2, GoodByFreeAdd
  <2>. HIDE DEF t
  <2>. QED
    BY <1>5, <2>3, MoveCommit
<1>6. Wallet(s) = W(u) /\ Args(s) = a
  BY DEF Wallet, Args
<1>. QED
  BY <1>3, <1>4, <1>5, <1>6, MoveRefuse DEF StakeInVault, At

LEMMA EarningStepMoves ==
  ASSUME NEW s, Sure(s), EarningStep(s)
  PROVE  Moves(s)
<1>1. session[s].req.op \in EarningRequests
  BY DEF EarningStep, Args
<1>. QED
  BY <1>1, LoadFirstMoves, VerifyNodeMoves, ClaimEarningsMoves, IssueChallengeMoves,
     AnswerMoves, ResolveMoves, ProphecyLoadMoves, CompleteChapterMoves, ClaimRewardsMoves,
     GrantChapterMoves, ActivateMoves, LoadWalletMoves, CorrectMoves, StarsMoves,
     RemitMoves, ListModelMoves, StakeInVaultMoves
     DEF EarningStep
=============================================================================
