----------------------------- MODULE MoneyFlows -----------------------------
(***************************************************************************)
(* The handlers that move money, side by side on one database: wallet,     *)
(* exchange, bridges, treasury and votes, the prediction market, the       *)
(* rewards, the results and other earnings; and the records kept beside    *)
(* it: merit, sub-chains, contracts, agents.                               *)
(***************************************************************************)
EXTENDS P2PExchange, Bridges, Treasury, Merit, Registries

CONSTANTS Scripts,      \* the requests made at once, one function of Sessions
                        \* to requests per behaviour
          Opening       \* the rows there are at first

(* The table that the row of a request is in: each route names it.         *)
TableOf ==
    [exchange |-> "exchange", subscribe |-> "subscription", create_vault |-> "vault",
     withdraw_vault |-> "vault", withdraw |-> "withdrawal", approve |-> "withdrawal",
     reject |-> "withdrawal", deposit |-> "deposit", verify |-> "deposit",
     webhook |-> "deposit", fail |-> "deposit", create_offer |-> "offer",
     cancel_offer |-> "offer", create_order |-> "offer", confirm |-> "order",
     release |-> "order", dispute |-> "order", initiate |-> "bridge_tx",
     relay |-> "bridge_tx", pool_deposit |-> "pool", pool_spend |-> "pool",
     revenue |-> "pool", review_grant |-> "grant", execute_grant |-> "grant",
     vote |-> "proposal", close |-> "proposal", agent_close |-> "proposal",
     execute |-> "proposal", stake_on |-> "stake", appeal |-> "appeal",
     review_appeal |-> "appeal", progress |-> "completion",
     postback |-> "offer_completion", verify_node |-> "node", claim_node |-> "node",
     issue_challenge |-> "proof", respond |-> "challenge",
     manual_credit |-> "adjustment", manual_debit |-> "adjustment",
     reset |-> "adjustment", list_model |-> "listing", strategy |-> "strategy",
     ingest |-> "observation", produce |-> "subchain", relay_message |-> "message",
     confirm_message |-> "message", call |-> "contract", upgrade |-> "contract",
     execute_upgrade |-> "upgrade", record_task |-> "agent"]

(* A record of columns.                                                    *)
IsRow(x) == x = [c \in DOMAIN x |-> x[c]]

(* The rows of the instance include those of a transfer to the chain, a    *)
(* challenge is of a proof, a vote is one of three, and what a proposal    *)
(* sets is a row of the configuration.                                     *)
Proper(req) ==
    /\ IsRow(req) /\ "op" \in DOMAIN req
    /\ req.op \in DOMAIN TableOf => req.row[1] = TableOf[req.op]
    /\ req.op = "respond" => req.row[2][1] = "proof"
    /\ req.op = "execute" => req.config[1] = "config"
    /\ req.op = "vote" => req.choice \in {"for", "against", "abstain"}
    /\ req.op = "wallet_to_chain" =>
         {W(req.user), Ref(<<"BRIDGE-OUT", req.key>>)} \subseteq Rows

ASSUME Requests == \A script \in Scripts : \A s \in Sessions : Proper(script[s])

(* The stakes are numbered, and paid in the order of their numbers.        *)
ASSUME StakeIds == \A r \in Rows : r[1] = "stake" => r[2] \in Nat

OpeningTable == [r \in Rows |-> IF r \in DOMAIN Opening THEN Opening[r] ELSE Absent]

(* The columns of the rows that money depends on: amounts that are never   *)
(* negative, users who have a wallet, currencies, references to rows of    *)
(* one table, and the status of a stake; the other columns of these tables *)
(* are free.                                                               *)
Counted ==
    {<<"wallet", "vit">>, <<"wallet", "staked">>, <<"wallet", "ngn">>,
     <<"offer", "available">>, <<"offer", "escrowed">>, <<"order", "amount">>,
     <<"vault", "balance">>, <<"withdrawal", "amount">>, <<"deposit", "amount">>,
     <<"bridge_tx", "amount">>, <<"bridge_pool", "liquidity">>, <<"pool", "balance">>,
     <<"grant", "amount">>, <<"stake", "amount">>, <<"validator", "stake">>,
     <<"node", "pending">>}
Personal ==
    {<<"offer", "user">>, <<"order", "buyer">>, <<"withdrawal", "user">>,
     <<"deposit", "user">>, <<"bridge_tx", "user">>, <<"stake", "user">>,
     <<"referral", "referrer">>, <<"appeal", "user">>, <<"proof", "user">>}
Priced == {<<"vault", "column">>, <<"deposit", "column">>}
Linked == {<<"grant", "pool">>, <<"upgrade", "contract">>, <<"stake", "match">>,
           <<"stake", "status">>}

Typed == Counted \cup Personal \cup Priced \cup Linked
Tracked == {x[1] : x \in Typed}

Currencies == {"vit", "ngn"}
WalletColumns == {"vit", "staked", "ngn"}
StakeStatuses == {"active", "won", "lost", "refunded"}

(* The rows there are from the beginning.                                  *)
Standing(r) == r \in Rows /\ OpeningTable[r] # Absent
HasWallet(user) == Standing(W(user))
IsPool(r) == Standing(r) /\ r[1] = "pool"

(* Such a column has a value of its kind, a stake is of something, and a   *)
(* wallet has no other columns.                                            *)
Fits(kind, c, value) ==
    /\ <<kind, c>> \in Counted => value \in Nat
    /\ <<kind, c>> \in Personal => HasWallet(value)
    /\ <<kind, c>> \in Priced => value \in Currencies
    /\ kind = "stake" /\ c = "amount" => value # 0
    /\ kind = "stake" /\ c = "status" => value \in StakeStatuses
    /\ kind = "grant" /\ c = "pool" => IsPool(value)
    /\ kind = "upgrade" /\ c = "contract" => value[1] = "contract"
    /\ kind = "wallet" => c \in WalletColumns

RowFits(r, x) == \A c \in DOMAIN x : Fits(r[1], c, x[c])
RowFull(r, x) == \A p \in Typed : p[1] = r[1] => p[2] \in DOMAIN x

ASSUME OpeningRows ==
    \A r \in Rows : OpeningTable[r] # Absent =>
        /\ IsRow(OpeningTable[r])
        /\ r[1] \in Tracked => RowFits(r, OpeningTable[r]) /\ RowFull(r, OpeningTable[r])

(* What the routes check of a request and of whom it comes from: a user    *)
(* who has a wallet (it is made on the first visit), an amount that is not *)
(* negative, a currency, and rows that the route or the row names.         *)
UserRequests ==
    {"send", "refer", "stake", "unstake", "exchange", "subscribe", "create_vault",
     "withdraw_vault", "withdraw", "deposit", "verify", "create_offer", "reward",
     "create_order", "wallet_to_chain", "chain_to_wallet", "initiate", "stake_on",
     "apply", "slash", "reject_validator", "leave", "appeal", "progress", "postback",
     "claim_node", "complete", "claim", "update_result", "manual_credit",
     "manual_debit", "reset", "remit", "stars", "list_model", "strategy"}
AmountRequests ==
    {"send", "stake", "unstake", "exchange", "subscribe", "create_vault",
     "withdraw", "deposit", "verify", "create_offer", "reward", "create_order",
     "wallet_to_chain", "chain_to_wallet", "initiate", "stake_on", "apply",
     "review_appeal", "progress", "postback", "manual_credit", "manual_debit",
     "remit", "stars", "list_model", "strategy", "pool_deposit", "pool_spend",
     "revenue", "epoch"}
ProfileRequests ==
    {"approve_validator", "suspend", "reactivate", "slash", "reject_validator",
     "leave", "forecast", "appeal"}

WellFormed(req) ==
    /\ req.op \in DOMAIN TableOf => req.row \in Rows
    /\ req.op \in UserRequests => HasWallet(req.user)
    /\ req.op \in {"send", "refer"} => HasWallet(req.to)
    /\ req.op \in AmountRequests => req.amount \in Nat
    /\ req.op \in {"send", "subscribe", "create_vault", "withdraw", "deposit", "verify"} =>
         req.column \in Currencies
    /\ req.op = "exchange" => req.from \in Currencies /\ req.to \in Currencies
    /\ req.op = "stake_on" => req.amount # 0
    /\ req.op = "produce" => req.amount \in Int
    /\ req.op = "ingest" =>
         <<"verification", req.match>> \in Rows /\ req.row[2][1] = req.match
    /\ req.op = "create_order" => req.order[1] = "order"
    /\ req.op = "upgrade" => req.upgrade[1] = "upgrade"
    /\ req.op = "initiate" => Standing(req.pool) /\ req.pool[1] = "bridge_pool"
    /\ req.op \in {"pool_deposit", "pool_spend", "revenue", "execute_grant", "review_grant"} =>
         Standing(req.row)
    /\ req.op = "revenue" => IsPool(req.to)
    /\ req.op = "respond" => Standing(req.row[2])
    /\ req.op = "activate" => <<"referral", req.user>> \in Rows
    /\ req.op \in ProfileRequests => Validator(req.user) \in Rows
    /\ req.op = "open" => W(req.user) \in Rows
    /\ req.op \in {"settle_results", "settle_pending"} => "left" \in DOMAIN req

ASSUME WellFormedRequests ==
    \A script \in Scripts : \A s \in Sessions : WellFormed(script[s])

(* No match is closed with a stake on it left.                             *)
ASSUME OpeningMatches ==
    \A c, r \in Rows :
      /\ c[1] = "consensus" /\ OpeningTable[c] # Absent
      /\ "status" \in DOMAIN OpeningTable[c] /\ OpeningTable[c].status = "settled"
      /\ r[1] = "stake" /\ OpeningTable[r] # Absent /\ OpeningTable[r].match = c[2]
      => OpeningTable[r].status # "active"

(* Two providers have reported the score x of the match of v.              *)
TwoReport(t, v, x) == \E a, b \in Rows :
    /\ \A r \in {a, b} : /\ r[1] = "observation" /\ r[2][1] = v[2]
                         /\ t[r] # Absent /\ t[r].score = x
    /\ a[2][2] # b[2][2]

(* A verification has its columns, one that is called verified was         *)
(* reported by two, and none was made by a session under way.              *)
Verdicts == {"status", "score", "at"}
ASSUME OpeningVerifications ==
    /\ "never" \notin Sessions
    /\ \A v \in Rows : v[1] = "verification" /\ OpeningTable[v] # Absent =>
         /\ Verdicts \subseteq DOMAIN OpeningTable[v]
         /\ OpeningTable[v].at \notin Sessions
         /\ OpeningTable[v].status = "verified" =>
              TwoReport(OpeningTable, v, OpeningTable[v].score)

(* The predictions are numbered, and settled in the order of their numbers.*)
ASSUME BetIds == \A r \in Rows : r[1] = "prediction" => r[2][2] \in Nat

ASSUME FiniteRows == IsFiniteSet(Rows)

(* A row is a pair of its table and its key.                               *)
ASSUME RowsAreKeyed == \A r \in Rows : r = <<r[1], r[2]>>

(* The rows of a table of the database t.                                  *)
RowsOfKind == [kind \in {r[1] : r \in Rows} |-> {r \in Rows : r[1] = kind}]
KindIn(t, kind) ==
    IF kind \in DOMAIN RowsOfKind THEN {r \in RowsOfKind[kind] : t[r] # Absent} ELSE {}

(* The blocks of sub-chain c are one chain from its genesis to the hash it *)
(* calls its latest, without a gap and without a second block at a height, *)
(* and its count of transactions is theirs.                                *)
BlocksIn(t, c) == {r \in KindIn(t, "subblock") : r[2][1] = c[2]}
HashIn(t, c, n) == IF n = 0 THEN "genesis" ELSE t[Block(c, n)].hash

Chained(t, c) ==
    /\ t[c].height \in Nat
    /\ BlocksIn(t, c) = {Block(c, n) : n \in 1 .. t[c].height}
    /\ \A n \in 1 .. t[c].height : t[Block(c, n)].parent = HashIn(t, c, n - 1)
    /\ t[c].latest = HashIn(t, c, t[c].height)
    /\ t[c].txns = MapThenSumSet(LAMBDA b : t[b].txns, BlocksIn(t, c))

(* The sub-chains there are at first are chains.                           *)
ChainColumns == {"height", "latest", "txns"}
ASSUME OpeningChains ==
    \A c \in Rows : c[1] = "subchain" /\ OpeningTable[c] # Absent =>
        /\ ChainColumns \subseteq DOMAIN OpeningTable[c]
        /\ Chained(OpeningTable, c)
        /\ \A b \in BlocksIn(OpeningTable, c) : OpeningTable[b].txns \in Int

----------------------------------------------------------------------------

vars == <<table, session, lost, paid, faults, submitted>>

Init ==
    /\ table = OpeningTable
    /\ \E script \in Scripts : Start(script)
    /\ lost = {} /\ paid = <<>> /\ faults = 0 /\ submitted = {}

\* Mutant: the waits of transfers and referrals are not noticed.
PredictionWaits(s) == PredictionWants(s)

(* The rows a request wants while it holds others.                         *)
Wants(s) == WalletWants(s) \cup PredictionWants(s)

Waits(s, u) == u # s /\ Wants(s) \cap session[u].held # {}

(* Requests in a circle wait for each other: the database ends one.        *)
Deadlock(s) ==
    /\ \E C \in SUBSET Sessions :
         s \in C /\ \A u \in C : \E w \in C : Waits(u, w)
    /\ Refuse(s)
    /\ UNCHANGED submitted

Step(s) ==
    /\ ~Ended(s)
    /\ \/ /\ \/ WalletStep(s) \/ ExchangeStep(s) \/ TreasuryStep(s)
             \/ PredictionStep(s) \/ RewardStep(s) \/ EarningStep(s)
             \/ ResultStep(s) \/ MeritStep(s) \/ RegistryStep(s)
          /\ UNCHANGED submitted
       \/ BridgeStep(s)
       \/ Deadlock(s)

Next ==
    \E s \in Sessions : Step(s) \/ (SessionLost(s) /\ UNCHANGED submitted)

(* The server goes on as long as some request can: a request that waits    *)
(* for a lock is not forgotten once the lock is free.                      *)
Fairness == WF_vars(\E s \in Sessions : Step(s))

Spec == Init /\ [][Next]_vars /\ Fairness

----------------------------------------------------------------------------
(* Properties                                                              *)

OfKind(kind) == KindIn(table, kind)

LocksExclude ==
    \A s, u \in Sessions :
      s # u => session[s].held \cap session[u].held = {}

TypeOK ==
    /\ \A r \in OfKind("wallet") :
         table[r] \in [vit : Int, staked : Int, ngn : Int]
    /\ \A r \in OfKind("offer") : table[r].available \in Int /\ table[r].escrowed \in Int
    /\ \A s \in Sessions :
         \A r \in DOMAIN session[s].wrote :
           r \in DOMAIN session[s].read \/ r \in session[s].held
    /\ LocksExclude
    /\ submitted \subseteq Sessions /\ faults \in 0 .. MaxFaults

(* No interleaving takes a balance, an escrow, the rest of an offer or the *)
(* liquidity of a pool below zero: each write was checked against the copy *)
(* it was computed from, even if that copy was out of date.                *)
NoNegativeBalance ==
    /\ \A r \in OfKind("wallet") : \A c \in DOMAIN table[r] : table[r][c] >= 0
    /\ \A r \in OfKind("offer") : table[r].available >= 0 /\ table[r].escrowed >= 0
    /\ \A r \in OfKind("bridge_pool") : table[r].liquidity >= 0
    /\ \A r \in OfKind("pool") : table[r].balance >= 0

(* A vault, an order, a rejected withdrawal, a deposit, an offer's escrow, *)
(* a transfer of a pool or a validator's stake is paid out a second time   *)
(* only by a session that wrote over the state another one had given to    *)
(* its row.  What is paid under a unique reference, a stake on a match, an *)
(* appeal or the completion of an offer is paid once, however requests     *)
(* overlap.                                                                *)
(* (A grant can be paid twice: see ReviewGrant and ExecuteGrant.  The      *)
(* engine pays a chapter without a reference: again if the user's progress *)
(* is written over or the user has taken an earlier chapter, passed over   *)
(* before, at the route, which can pay for the chapter once more too.  The *)
(* experience and the merit for a prediction are given again only if the   *)
(* result of its match was written over, and a user is punished again for  *)
(* one time of inactivity only if the merit was.)                          *)
RowOf(cause) ==
    CASE cause[1] = "chapter" -> ProgressOf(cause[2][1])
      [] cause[1] = "prediction" -> <<"match", cause[2][1]>>
      [] cause[1] = "merit" -> <<"match", cause[2][2][1]>>
      [] cause[1] = "decay" -> Merit(cause[2])
      [] OTHER -> cause

KeyOf(cause) ==
    CASE cause[1] = "stake" -> Ref(<<"stake", cause[2]>>)
      [] cause[1] = "offer_completion" -> Ref(<<"offer", cause>>)
      [] cause[1] = "appeal" -> Ref(<<"restake", cause>>)
      [] OTHER -> cause

(* What is paid with a row inserted under a key of its own.                *)
Keyed == {"reference", "referral", "stake", "offer_completion", "appeal"}

KeyedOnce ==
    \A c \in DOMAIN paid : c[1] \in Keyed /\ KeyOf(c) \in Rows => paid[c] = 1

(* What is paid as its row reaches its last status: an escrow released or  *)
(* given back, a withdrawal refunded, a deposit or a transfer credited, an *)
(* upgrade of a contract carried out.                                      *)
Concluded == {"order", "offer", "withdrawal", "deposit", "bridge_tx", "upgrade"}

ConcludedOnce ==
    \A c \in DOMAIN paid : c[1] \in Concluded /\ c \in Rows /\ paid[c] > 1 =>
        \E x \in lost : x[2] = c /\ x[3] = "status"

(* The route takes any chapter and goes back to the one after it, and the  *)
(* engine pays for the current one.                                        *)
TakenBack(cause) ==
    cause[1] = "chapter" /\ \E n \in 1 .. cause[2][2] - 2 :
                               table[Ref(<<"chapter", <<cause[2][1], n>>>>)] # Absent

PaidOnce ==
    /\ KeyedOnce
    /\ ConcludedOnce
    /\ \A c \in DOMAIN paid :
         c[1] \notin Keyed \cup Concluded \cup {"grant"} /\ paid[c] > 1 =>
             (\E x \in lost : x[2] = RowOf(c)) \/ TakenBack(c)

(* The chain bridge, the stakes on a match and the validators' handlers    *)
(* lock the wallet before they read it, so they never write a balance over *)
(* a change they have not seen.                                            *)
LockedReadsAreFresh ==
    \A x \in lost :
      x[1] \in {"wallet_to_chain", "chain_to_wallet", "stake_on", "apply", "slash",
                "reject_validator", "leave"} => x[2][1] # "wallet"

(* What a row stands for in the books of a currency: what it holds, less   *)
(* what was paid in from outside on its account, plus what left.  The two  *)
(* leaks of the code are entries of their own: an order on a sell offer is *)
(* paid on top of the offer's escrow, and a rejected withdrawal is         *)
(* refunded in VITCoin whatever was reserved.  Of a settled pool the fee   *)
(* stays, or all of it if nobody has won.                                  *)
Entry(x, r, column) ==
    LET In(c, n) == IF c = column THEN n ELSE 0 IN
    CASE x = Absent -> 0
      [] r[1] = "wallet" -> x[column] + In("vit", x.staked)
      [] r[1] = "offer" -> In("vit", x.escrowed)
      [] r[1] = "order" -> In("vit", x.escrowed)
             - (IF x.status = "completed" THEN In("vit", x.amount) ELSE 0)
      [] r[1] = "listing" -> In("vit", x.fee)
      [] r[1] = "vault" -> In(x.column, IF x.active THEN x.balance ELSE -Yield)
      [] r[1] = "exchange" -> In(x.from, x.amount) - In(x.to, x.amount)
      [] r[1] = "subscription" -> In(x.column, x.amount)
      [] r[1] = "referral" -> In("vit", -(2 * ReferralBonus))
      [] r[1] = "withdrawal" -> In(x.column, x.amount)
             - (IF x.status = "rejected" THEN In("vit", x.amount) ELSE 0)
      [] r[1] = "deposit" -> IF x.status = "confirmed" THEN In(x.column, -x.amount) ELSE 0
      [] r[1] = "bridge_tx" -> IF x.outbound THEN In("vit", x.amount)
             ELSE IF x.status = "completed" THEN In("vit", -x.amount) ELSE 0
      [] r[1] = "stake" -> IF x.status = "active" THEN In("vit", x.amount) ELSE 0
      [] r[1] = "settlement" -> In("vit", IF x.winning = 0 THEN x.pool ELSE Fee(x.pool))
      [] r[1] = "validator" -> In("vit", x.stake)
      [] r[1] \in {"reference", "adjustment"} -> In("vit", -x.amount)
      [] r[1] = "position" -> In("vit", x.staked)
      [] OTHER -> 0

(* What has been booked in a currency since the beginning, on these rows.  *)
Booked(changed, column) ==
    LET change(r) == Entry(table[r], r, column) - Entry(OpeningTable[r], r, column)
    IN MapThenSumSet(change, changed)

(* Commissions, and chapters paid by the engine, leave no row.             *)
Paid(kinds) ==
    LET times(c) == paid[c]
    IN MapThenSumSet(times, {c \in DOMAIN paid : c[1] \in kinds})

Unbooked(column) ==
    IF column = "vit" THEN Prize * Paid({"user", "chapter"}) ELSE 0

(* As long as no write was lost, the books of either currency balance      *)
(* after any sequence of requests, whatever was interrupted.               *)
MoneyConserved ==
    lost = {} =>
      \E changed \in {{r \in Rows : table[r] # OpeningTable[r]}} :
        \A column \in {"vit", "ngn"} : Booked(changed, column) = Unbooked(column)

(* Under the same condition the totals kept in a row agree with the rows   *)
(* they summarise: what is left of an offer with its orders, a pool's      *)
(* balance with its deposits and spendings, a proposal's tally with the    *)
(* votes, a validator's count with the forecasts graded, a user's          *)
(* experience with the tasks completed, the chapters paid for and the      *)
(* predictions settled, what a storage node has earned with its proofs, a  *)
(* strategy vault with its positions, the chapters claimed with their      *)
(* references, a merit score with its events, an agent's counts with its   *)
(* records, and a contract's calls with those that succeeded and the       *)
(* supply of its token with the balances, each of which is what it was at  *)
(* first, with what was minted for it and less what was burned: a transfer *)
(* that is recorded as a success moves nothing.                            *)
OrdersOf(o) == {r \in OfKind("order") : table[r].offer = o}
VotesOf(p, choice) == {r \in OfKind("vote") : r[2][1] = p /\ table[r].choice = choice}
GradedOf(user) ==
    {r \in OfKind("forecast") : r[2][2] = user /\ table[r].grade # "pending"}
CompletionsOf(user) == {r \in OfKind("completion") : table[r].user = user}
EventsOf(user) == {r \in OfKind("merit_event") : table[r].user = user}
RecordsOf(agent, S) ==
    {r \in OfKind("agent_record") : table[r].agent = agent /\ table[r].success \in S}
CallsOf(contract) ==
    {r \in OfKind("contract_call") :
        table[r].contract = contract /\ table[r].status = "success"}
TokensOf(contract, method, user) ==
    MapThenSumSet(LAMBDA r : table[r].amount,
                  {r \in CallsOf(contract) : /\ table[r].method = method
                                             /\ table[r].user = user})
PositionsIn(vault) == {r \in OfKind("position") : r[2][1] = vault}
ChapterRef(user, n) == Ref(<<"chapter", <<user, n>>>>)
ChaptersPaid(user) ==
    LET times(c) == paid[c]
        chapters == {<<"chapter", <<user, n>>>> : n \in 1 .. LastChapter}
    IN MapThenSumSet(times, DOMAIN paid \cap (chapters \cup {Ref(c) : c \in chapters}))

BetsPaid(user) ==
    LET times(c) == paid[c]
    IN MapThenSumSet(times, {c \in DOMAIN paid :
                               c[1] = "prediction" /\ table[c].user = user})

CachedTotals ==
    lost = {} =>
      /\ \A o \in OfKind("offer") : table[o].available =
            table[o].total - MapThenSumSet(LAMBDA r : table[r].amount, OrdersOf(o))
      /\ \A p \in OfKind("pool") :
            table[p].balance = table[p].deposited - table[p].spent
      /\ \A p \in OfKind("proposal") : \A choice \in {"for", "against", "abstain"} :
            table[p][choice] =
              MapThenSumSet(LAMBDA r : table[r].power, VotesOf(p, choice))
      /\ \A v \in OfKind("validator") : table[v].graded = Cardinality(GradedOf(v[2]))
      /\ \A u \in OfKind("user") : table[u].xp = Experience *
            (MapThenSumSet(LAMBDA r : table[r].times, CompletionsOf(u[2]))
             + ChaptersPaid(u[2]) + BetsPaid(u[2]))
      /\ \A n \in OfKind("node") :
            table[n].earned + table[n].pending = Prize * table[n].passes
      /\ \A v \in OfKind("strategy") : table[v].total =
            MapThenSumSet(LAMBDA r : table[r].staked, PositionsIn(v))
      /\ \A p \in OfKind("progress") :
            table[p].claimed = {n \in 1 .. LastChapter : table[ChapterRef(p[2], n)] # Absent}
      /\ \A m \in OfKind("merit") :
            LET x == table[m] IN
            /\ x.earned - x.taken = MapThenSumSet(LAMBDA r : table[r].points, EventsOf(m[2]))
            /\ x.earned - x.taken <= x.score /\ x.score <= x.peak /\ x.peak <= x.earned
      /\ \A a \in OfKind("agent") :
            /\ table[a].good = Cardinality(RecordsOf(a, {TRUE}))
            /\ table[a].bad = Cardinality(RecordsOf(a, {FALSE}))
            /\ table[a].tasks = Cardinality(RecordsOf(a, BOOLEAN))
      /\ \A c \in OfKind("contract") :
            LET state == table[c].state IN
            /\ table[c].calls = Cardinality(CallsOf(c))
            /\ state.supply = MapThenSumSet(LAMBDA u : state.balances[u],
                                           DOMAIN state.balances)
            /\ \A u \in DOMAIN state.balances :
                 state.balances[u] = OpeningTable[c].state.balances[u]
                                     + TokensOf(c, "mint", u) - TokensOf(c, "burn", u)

(* However many producers overlap, the blocks of a sub-chain are one chain *)
(* from its genesis to the hash it calls its latest, without a gap and     *)
(* without a second block at a height, and its count of transactions is    *)
(* theirs.                                                                 *)
SubchainIsLinked == \A c \in OfKind("subchain") : Chained(table, c)

(* No result is called verified on the word of one provider: two of them   *)
(* have reported the score.  (Two comparisons at once, one of which writes *)
(* the status and the other the score, can make a verdict of their halves: *)
(* then both have written the time of the comparison.)                     *)
VerifiedByTwo ==
    lost = {} => \A v \in OfKind("verification") :
      table[v].status = "verified" =>
        Cardinality({r[2][2] : r \in {x \in OfKind("observation") :
            x[2][1] = v[2] /\ table[x].score = table[v].score}}) >= 2

(* A transfer that is in the mempool has a debit of its own: its session   *)
(* is about to record it, or has committed it and it is never taken back,  *)
(* unless the session was lost or found its key taken when it recorded the *)
(* debit.  (The check for the key comes before the wallet is locked and    *)
(* looks at the user's own transactions: of two deliveries of one key, and *)
(* of two users' with the same key, the later transfer is in the mempool   *)
(* and nothing is debited for it.)                                         *)
SubmittedIsDebited ==
    \A s \in submitted :
      \/ session[s].pc \in {"record", "lost"}
      \/ /\ table[OutRef(s)] # Absent
         /\ table[OutRef(s)].hash = s \/ session[s].pc = "refused"

TerminalStates ==
    [order |-> {"completed", "cancelled"}, offer |-> {"cancelled"},
     withdrawal |-> {"approved", "rejected", "processed"}, deposit |-> {"confirmed"},
     bridge_tx |-> {"completed"}, proposal |-> {"rejected", "failed", "executed"},
     consensus |-> {"settled"}, stake |-> {"won", "lost", "refunded"},
     appeal |-> {"approved", "rejected"}, challenge |-> {"valid", "invalid", "expired"},
     message |-> {"confirmed"}, upgrade |-> {"executed"}]

Final(r) ==
    /\ r[1] \in DOMAIN TerminalStates /\ "status" \in DOMAIN table[r]
    /\ table[r].status \in TerminalStates[r[1]]

(* A match that has begun and is settled has no stake left: no stake comes *)
(* in behind the settlement, which looks for the stakes before it pays and *)
(* closes the pool at the end, and none is passed over by it.              *)
StakesAreSettled ==
    \A c \in OfKind("consensus") : c[2] \in KickedOff /\ Final(c) =>
      \A r \in OfKind("stake") : table[r].match = c[2] => table[r].status # "active"

(* The status a row has reached at the end is changed only by a session    *)
(* that had loaded the row before: late approvals, disputes, webhooks,     *)
(* results, closings and reviews do not undo one another.                  *)
TerminalIsFinal ==
    [][\A r \in Rows :
         /\ Final(r)
         /\ table'[r] = Absent \/ table'[r].status # table[r].status
         => \E s \in Sessions : <<r, "status">> \in session[s].old]_vars

(* Every request ends, also when transfers block each other.               *)
EveryRequestEnds == <>(\A s \in Sessions : Ended(s))
=============================================================================
