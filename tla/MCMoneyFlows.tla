---------------------------- MODULE MCMoneyFlows ----------------------------
(* Two or three requests at once, from one of the menus below.             *)
EXTENDS MoneyFlows, SequencesExt

P == <<"proposal", "p">>
O == <<"offer", "o">>
Order1 == <<"order", "1">>
Order2 == <<"order", "2">>
Order3 == <<"order", "3">>
Order4 == <<"order", "4">>
Order5 == <<"order", "5">>
Wanted == <<"offer", "wanted">>
V == <<"vault", "v">>
D == <<"deposit", "d">>
N == <<"deposit", "n">>
WR == <<"withdrawal", "w">>
BP == <<"bridge_pool", "in">>
BQ == <<"bridge_pool", "out">>
BT == <<"bridge_tx", "t">>
Reserve == <<"pool", "reserve">>
Community == <<"pool", "community">>
G == <<"grant", "g">>
Q == <<"proposal", "q">>
Config == <<"config", "parameter">>
Bet(n) == <<"stake", n>>
Repeated == <<"completion", "4">>
Progressed == <<"completion", "1">>
Appeal(id) == <<"appeal", id>>

Node(n) == <<"node", n>>
Stored(n) == <<"proof", n>>
Strategy == <<"strategy", "kelly">>
Chain == <<"subchain", "oracle">>
Message == <<"message", "1">>
Token == <<"contract", "token">>
Larger2 == <<"upgrade", "1">>
Larger3 == <<"upgrade", "2">>
Agent == <<"agent", "tracker">>

Balance0(vit, staked, ngn) == [vit |-> vit, staked |-> staked, ngn |-> ngn]

(* Alice offers two coins, of which Bob is taking one, and wants two, of   *)
(* which Bob has put one into escrow.  She has a matured vault, a deposit  *)
(* that is pending, and a withdrawal of NGN.  The match m has begun: Alice *)
(* and Bob have 25 each on it, Bob and Eve one more on what nothing        *)
(* decides, and one source has reported a draw.  Alice validates, Bob has  *)
(* applied, Eve and Frank have been slashed.  Alice is one step from the   *)
(* end of two tasks, one of which she has done before; her storage node    *)
(* has earned one coin, and her proof is challenged.  The token has two    *)
(* coins of three, and an upgrade to four is proposed.                     *)
MCOpening ==
    (<<"consensus", "m">> :> [status |-> "open"]) @@
    (Bet(1) :> [user |-> "alice", match |-> "m", pick |-> "home", amount |-> 25,
                payout |-> 0, status |-> "active"]) @@
    (Bet(2) :> [user |-> "bob", match |-> "m", pick |-> "away", amount |-> 25,
                payout |-> 0, status |-> "active"]) @@
    (Bet(3) :> [user |-> "bob", match |-> "m", pick |-> "handicap", amount |-> 1,
                payout |-> 0, status |-> "active"]) @@
    (Bet(7) :> [user |-> "eve", match |-> "m", pick |-> "handicap", amount |-> 1,
                payout |-> 0, status |-> "active"]) @@
    (<<"validator", "eve">> :> [stake |-> 0, status |-> "slashed", graded |-> 0]) @@
    (<<"forecast", <<"m", "eve">>>> :> [pick |-> "away", grade |-> "pending"]) @@
    (Appeal("eve") :> [user |-> "eve", status |-> "pending"]) @@
    (Appeal("carol") :> [user |-> "carol", status |-> "pending"]) @@
    (<<"validator", "frank">> :> [stake |-> 0, status |-> "slashed", graded |-> 0]) @@
    (W("eve") :> Balance0(0, 0, 0)) @@ (W("frank") :> Balance0(0, 0, 0)) @@
    (<<"oracle", <<"m", "c">>>> :> [result |-> "draw", accepted |-> FALSE,
                                    disputed |-> FALSE]) @@
    (<<"validator", "alice">> :> [stake |-> 2, status |-> "active", graded |-> 0]) @@
    (<<"validator", "bob">> :> [stake |-> 1, status |-> "pending", graded |-> 0]) @@
    (<<"forecast", <<"m", "alice">>>> :> [pick |-> "home", grade |-> "pending"]) @@
    (Progressed :> [user |-> "alice", task |-> "t", progress |-> 1, completed |-> FALSE,
                    times |-> 0]) @@
    (Repeated :> [user |-> "alice", task |-> "r", progress |-> 1, completed |-> FALSE,
                  times |-> 1]) @@
    (Ref(<<"task-completion", Repeated>>) :> [amount |-> 1]) @@
    (<<"user", "alice">> :> [xp |-> 1, tier |-> "pro"]) @@
    (<<"user", "bob">> :> [xp |-> 0, tier |-> "free"]) @@
    (<<"user", "eve">> :> [xp |-> 0, tier |-> "free"]) @@
    (<<"referral", "eve">> :> [referrer |-> "bob"]) @@
    (Node(1) :> [user |-> "alice", sound |-> TRUE, status |-> "active", recent |-> FALSE,
                 passes |-> 1, pending |-> 1, earned |-> 0]) @@
    (Node(2) :> [user |-> "bob", sound |-> FALSE, status |-> "pending", recent |-> FALSE,
                 passes |-> 0, pending |-> 0, earned |-> 0]) @@
    (Stored(1) :> [user |-> "alice", status |-> "challenged"]) @@
    (Stored(2) :> [user |-> "bob", status |-> "anchored"]) @@
    (Challenge(Stored(1)) :> [status |-> "open"]) @@
    (ProgressOf("alice") :> [completed |-> {}, claimed |-> {}, current |-> 1,
                             evaluated |-> 0]) @@
    (<<"match", "x">> :> [status |-> "scheduled", outcome |-> "none"]) @@
    (<<"match", "y">> :> [status |-> "scheduled", outcome |-> "none"]) @@
    (<<"prediction", <<"x", 1>>>> :> [user |-> "alice", pick |-> "home",
                                      likely |-> "away", grade |-> "open", clv |-> FALSE]) @@
    (<<"prediction", <<"x", 2>>>> :> [user |-> "", pick |-> "away", likely |-> "home",
                                      grade |-> "open", clv |-> TRUE]) @@
    (<<"observation", <<"x", "a", 1>>>> :> [score |-> "home", version |-> 1]) @@
    (<<"verification", "x">> :> [status |-> "unverified", score |-> "home",
                                 at |-> "before"]) @@
    (Strategy :> [total |-> 0, cap |-> 2]) @@
    (Merit("alice") :> [score |-> 5, peak |-> 5, earned |-> 5, taken |-> 0,
                        recent |-> FALSE]) @@
    (<<"merit_event", <<"before", 0>>>> :> [user |-> "alice", points |-> 5]) @@
    (Chain :> [height |-> 0, latest |-> "genesis", txns |-> 0]) @@
    (Message :> [status |-> "queued"]) @@
    (Token :> [state |-> [supply |-> 2, balances |-> ("alice" :> 1 @@ "bob" :> 1)],
               calls |-> 0, max |-> 3, numeric |-> FALSE, version |-> 1]) @@
    (Larger2 :> [contract |-> Token, max |-> 4, numeric |-> TRUE, version |-> 2,
                 status |-> "proposed"]) @@
    (Agent :> [tasks |-> 0, good |-> 0, bad |-> 0]) @@
    (Config :> [value |-> 0]) @@
    (Q :> ("status" :> "passed" @@ "for" :> 0 @@ "against" :> 0 @@ "abstain" :> 0
           @@ "quorum" :> 0)) @@
    (W("alice") :> Balance0(2, 1, 0)) @@ (W("bob") :> Balance0(1, 0, 1)) @@
    (W("carol") :> Balance0(1, 0, 0)) @@
    (O :> [user |-> "alice", type |-> "sell", status |-> "active", total |-> 2,
           available |-> 1, escrowed |-> 2]) @@
    (Order1 :> [offer |-> O, amount |-> 1, status |-> "payment_sent",
                buyer |-> "bob", seller |-> "alice", escrowed |-> 0]) @@
    (Wanted :> [user |-> "alice", type |-> "buy", status |-> "active", total |-> 2,
                available |-> 1, escrowed |-> 0]) @@
    (Order4 :> [offer |-> Wanted, amount |-> 1, status |-> "payment_sent",
                buyer |-> "alice", seller |-> "bob", escrowed |-> 1]) @@
    (V :> [user |-> "alice", column |-> "vit", balance |-> 2, locked |-> FALSE,
           active |-> TRUE]) @@
    (D :> [user |-> "alice", column |-> "ngn", amount |-> 2, status |-> "pending"]) @@
    (WR :> [user |-> "alice", column |-> "ngn", amount |-> 2, status |-> "pending"]) @@
    (BP :> [outbound |-> FALSE, liquidity |-> 2, active |-> TRUE]) @@
    (BQ :> [outbound |-> TRUE, liquidity |-> 2, active |-> TRUE]) @@
    (BT :> [user |-> "alice", pool |-> BP, amount |-> 1, outbound |-> FALSE,
            status |-> "locked"]) @@
    (Reserve :> [balance |-> 3, deposited |-> 3, spent |-> 0]) @@
    (Community :> [balance |-> 0, deposited |-> 0, spent |-> 0]) @@
    (G :> [status |-> "approved", pool |-> Reserve, amount |-> 2]) @@
    (P :> ("status" :> "active" @@ "for" :> 0 @@ "against" :> 0 @@ "abstain" :> 0
           @@ "quorum" :> 2))

Send(from, to, n) == Request("send", [user |-> from, to |-> to, column |-> "vit", amount |-> n])
Adjusting(op, n) == Request(op, [user |-> "bob", amount |-> n, row |-> <<"adjustment", op>>])
Own1(op, user, n) == Request(op, [user |-> user, amount |-> n])
On(op, user, row) == Request(op, [user |-> user, row |-> row])

Circles == {Send("alice", "bob", 2), Send("bob", "alice", 1), Send("bob", "carol", 1),
            Send("carol", "alice", 1), Own1("stake", "alice", 1)}

Transfers == Circles \cup {Own1("unstake", "alice", 1), Request("open", [user |-> "dave"])}

Account ==
    {Request("exchange", [user |-> "alice", from |-> "vit", to |-> "ngn", amount |-> 1,
                          row |-> <<"exchange", "sell">>]),
     Request("exchange", [user |-> "bob", from |-> "ngn", to |-> "vit", amount |-> 1,
                          row |-> <<"exchange", "buy">>]),
     Request("subscribe", [user |-> "alice", column |-> "vit", amount |-> 2,
                           row |-> <<"subscription", "s">>]),
     Request("refer", [user |-> "alice", to |-> "bob"]),
     Request("refer", [user |-> "bob", to |-> "alice"]),
     Request("refer", [user |-> "bob", to |-> "carol"])}

Savings ==
    {Request("create_vault", [user |-> "bob", column |-> "vit", amount |-> 1,
                              row |-> <<"vault", "new">>]),
     On("withdraw_vault", "alice", V), On("withdraw_vault", "bob", <<"vault", "new">>),
     Request("withdraw", [user |-> "bob", column |-> "ngn", amount |-> 1,
                          row |-> <<"withdrawal", "new">>]),
     On("approve", "admin", WR), On("reject", "admin", WR), Request("gatekeeper", <<>>),
     On("reject", "admin", <<"withdrawal", "new">>)}

Payments ==
    {Request("verify", [user |-> "alice", row |-> D, column |-> "ngn", amount |-> 2]),
     Request("verify", [user |-> "bob", row |-> N, column |-> "ngn", amount |-> 1]),
     Request("deposit", [user |-> "bob", row |-> N, column |-> "ngn", amount |-> 1]),
     On("webhook", "", D), On("fail", "", D), On("webhook", "", N),
     Request("reward", [user |-> "alice", key |-> <<"reward", "1">>, amount |-> 1])}

Exchange ==
    {Request("create_offer", [user |-> "bob", type |-> "sell", amount |-> 1,
                              row |-> <<"offer", "sell">>]),
     Request("create_offer", [user |-> "bob", type |-> "buy", amount |-> 1,
                              row |-> <<"offer", "buy">>]),
     On("cancel_offer", "alice", O), On("cancel_offer", "bob", <<"offer", "buy">>),
     Request("create_order", [user |-> "bob", row |-> O, order |-> Order2, amount |-> 1]),
     Request("create_order", [user |-> "carol", row |-> O, order |-> Order3, amount |-> 1]),
     Request("create_order", [user |-> "bob", row |-> Wanted, order |-> Order5,
                              amount |-> 1]),
     On("release", "bob", Order4), On("cancel_offer", "alice", Wanted),
     On("confirm", "bob", Order2), On("release", "alice", Order1),
     On("release", "alice", Order2), On("dispute", "bob", Order1)}

Bridging ==
    {Request("wallet_to_chain", [user |-> "alice", key |-> "k", amount |-> 1]),
     Request("wallet_to_chain", [user |-> "bob", key |-> "k", amount |-> 1]),
     Request("wallet_to_chain", [user |-> "alice", key |-> "l", amount |-> 2]),
     Request("chain_to_wallet", [user |-> "alice", key |-> "h", amount |-> 1]),
     Request("initiate", [user |-> "bob", pool |-> BP, amount |-> 1,
                          row |-> <<"bridge_tx", "1">>]),
     Request("initiate", [user |-> "alice", pool |-> BQ, amount |-> 2,
                          row |-> <<"bridge_tx", "2">>]),
     On("relay", "", BT), On("relay", "", <<"bridge_tx", "2">>)}

Public ==
    {Request("pool_deposit", [row |-> Reserve, amount |-> 1]),
     Request("pool_spend", [row |-> Reserve, amount |-> 2]), Request("epoch", [amount |-> 1]),
     Request("execute_grant", [row |-> G]), Request("review_grant", [row |-> G]),
     Request("revenue", [row |-> Reserve, to |-> Community, amount |-> 2]),
     Request("vote", [user |-> "alice", row |-> P, choice |-> "for", power |-> 1]),
     Request("vote", [user |-> "bob", row |-> P, choice |-> "for", power |-> 2])}

Voting ==
    {Request("vote", [user |-> "alice", row |-> P, choice |-> "for", power |-> 1]),
     Request("vote", [user |-> "bob", row |-> P, choice |-> "abstain", power |-> 1]),
     Request("close", [row |-> P]), Request("agent_close", [row |-> P]),
     Request("execute", [row |-> P, config |-> Config, value |-> 2])}

Governing == Voting \cup
    {Request("vote", [user |-> "bob", row |-> Q, choice |-> "for", power |-> 1]),
     Request("execute", [row |-> Q, config |-> Config, value |-> 1])}

Result(op, source, result) ==
    Request(op, [match |-> "m", source |-> source, result |-> result])

Settling ==
    {Result("oracle", "a", "home"), Result("oracle", "b", "away"),
     Result("oracle", "a", "draw"), Result("agent", "agent", "home"),
     Result("resolve", "", "away"), Result("resolve", "", "home"),
     Send("bob", "alice", 1), Own1("stake", "alice", 1), On("leave", "alice", ""),
     Request("review_appeal", [row |-> Appeal("eve"), amount |-> 1]),
     Request("stake_on", [user |-> "bob", match |-> "m", pick |-> "home", amount |-> 1,
                          row |-> Bet(4)])}

(* On the match n nobody has staked, and it has not begun.                 *)
Staking ==
    {Request("stake_on", [user |-> "bob", match |-> "n", pick |-> "home", amount |-> 1,
                          row |-> Bet(5)]),
     Request("stake_on", [user |-> "alice", match |-> "n", pick |-> "away", amount |-> 2,
                          row |-> Bet(6)]),
     Request("forecast", [user |-> "alice", match |-> "n", pick |-> "home"]),
     Request("agent", [match |-> "n", source |-> "agent", result |-> "home"]),
     Request("resolve", [match |-> "n", source |-> "", result |-> "home"]),
     Send("alice", "bob", 1)}

Validating ==
    {On("approve_validator", "bob", ""), On("suspend", "bob", ""),
     On("reactivate", "bob", ""), On("reject_validator", "bob", ""),
     On("leave", "bob", ""), Request("slash", [user |-> "alice", all |-> TRUE]),
     Request("slash", [user |-> "bob", all |-> FALSE]), Send("bob", "alice", 1),
     Request("forecast", [user |-> "alice", match |-> "n", pick |-> "home"]),
     Own1("apply", "carol", 1), On("leave", "alice", ""),
     Request("review_appeal", [row |-> Appeal("carol"), amount |-> 0])}

Appealing ==
    {Request("appeal", [user |-> "frank", row |-> Appeal("1")]),
     Request("appeal", [user |-> "frank", row |-> Appeal("2")]),
     Request("review_appeal", [row |-> Appeal("1"), amount |-> 1]),
     Request("review_appeal", [row |-> Appeal("2"), amount |-> 1]),
     Request("review_appeal", [row |-> Appeal("carol"), amount |-> 1]),
     On("reactivate", "frank", ""), On("approve_validator", "frank", "")}

Tasks ==
    {Request("progress", [user |-> "alice", task |-> "t", amount |-> 2, row |-> Progressed,
                          recurring |-> FALSE]),
     Request("progress", [user |-> "bob", task |-> "r", amount |-> 1, recurring |-> TRUE,
                          row |-> <<"completion", "2">>]),
     Request("progress", [user |-> "bob", task |-> "r", amount |-> 1, recurring |-> TRUE,
                          row |-> <<"completion", "3">>]),
     Request("progress", [user |-> "alice", task |-> "r", amount |-> 1, row |-> Repeated,
                          recurring |-> TRUE]),
     Request("postback", [user |-> "alice", amount |-> 1,
                          row |-> <<"offer_completion", "1">>]),
     Send("alice", "bob", 1)}

Storing ==
    {On("verify_node", "alice", Node(1)), On("verify_node", "bob", Node(2)),
     On("claim_node", "alice", Node(1)),
     On("issue_challenge", "", Stored(2)), On("issue_challenge", "", Stored(1))}
    \cup {Request("respond", [row |-> Challenge(Stored(1)), answer |-> answer]) :
             answer \in {"valid", "invalid", "late"}}

Scored(op, result) ==
    Request(op, [user |-> "alice", match |-> "x", result |-> result, left |-> {}])

Pending(m, result) ==
    Request("settle_pending", [match |-> m, result |-> result, left |-> {}, bet |-> <<>>])

Judged(op, user, points) ==
    Request(op, [user |-> user, points |-> points, left |-> {}])

Reported(provider, n, m, result) ==
    Request("ingest", [match |-> m, provider |-> provider, result |-> result,
                       row |-> <<"observation", <<m, provider, n>>>>])

(* One provider has reported a win of the home side in the match x.        *)
Scoring ==
    {Reported("a", 2, "x", "away"), Reported("b", 1, "x", "home"),
     Reported("c", 1, "x", "away"), Reported("b", 2, "x", "unavailable"),
     Reported("a", 3, "x", "home"), Scored("update_result", "away"),
     Scored("settle_results", "home"),
     Request("progress", [user |-> "alice", task |-> "r", amount |-> 1, row |-> Repeated,
                          recurring |-> TRUE]),
     Reported("a", 1, "y", "home"), Reported("b", 1, "y", "pending"),
     Pending("x", "home"), Pending("x", "away"), Pending("y", "home")}

(* A slash takes more than there is.                                       *)
Esteem ==
    {Judged("merit", "alice", 3), Judged("merit", "alice", -50), Judged("merit", "carol", 5),
     Judged("decay", "alice", -1), Judged("decay", "carol", -1), Pending("x", "home")}

Calling(method, user, n) ==
    Request("call", [row |-> Token, method |-> method, user |-> user, to |-> "alice",
                     amount |-> n])

Registering ==
    {Request("produce", [row |-> Chain, amount |-> 1]),
     Request("produce", [row |-> Chain, amount |-> 2]),
     On("relay_message", "", Message), On("confirm_message", "", Message),
     Calling("mint", "bob", 1), Calling("burn", "alice", 1), Calling("transfer", "bob", 1),
     Calling("transfer", "bob", 2),
     Request("upgrade", [row |-> Token, upgrade |-> Larger3, amount |-> 5, version |-> 3,
                         numeric |-> FALSE]),
     On("execute_upgrade", "", Larger2), On("execute_upgrade", "", Larger3),
     Request("record_task", [row |-> Agent, success |-> TRUE]),
     Request("record_task", [row |-> Agent, success |-> FALSE])}

(* A transfer of the token is a success once the upgrade is carried out.   *)
Minting == {On("execute_upgrade", "", Larger2), Calling("transfer", "bob", 1),
            Calling("mint", "bob", 1)}

Chapter(op, n) == Request(op, [user |-> "alice", chapter |-> n])

Prophesying ==
    {Chapter("complete", 1), Chapter("complete", 2), Chapter("claim", 1),
     Scored("update_result", "home"), Send("alice", "bob", 1)}

Correcting ==
    {Request("activate", [user |-> "eve"]), Request("activate", [user |-> "alice"]),
     Request("stars", [user |-> "bob", key |-> "1", amount |-> 1]),
     Request("remit", [user |-> "bob", to |-> "abroad", amount |-> 1]),
     Request("list_model", [user |-> "bob", row |-> <<"listing", "l">>, amount |-> 1]),
     Request("strategy", [user |-> "bob", row |-> Strategy, amount |-> 1]),
     Request("strategy", [user |-> "alice", row |-> Strategy, amount |-> 2]),
     Adjusting("manual_credit", 1), Adjusting("manual_debit", 1), Adjusting("reset", 0)}

(* Circles of waits, late votes and upgrades need three requests.          *)
Triples == {Circles, Voting, Minting}
Pairs ==
    {Transfers, Governing, Public, Account, Savings, Payments, Exchange,
     Bridging, Settling, Staking, Validating, Appealing, Tasks, Storing,
     Prophesying, Correcting, Scoring, Esteem, Registering}

(* A request that inserts a row with a key of its own is made once.        *)
Inserts == {"exchange", "subscribe", "create_vault", "withdraw", "deposit",
            "create_offer", "create_order", "initiate", "stake_on", "appeal",
            "manual_credit", "manual_debit", "reset", "list_model", "ingest", "upgrade"}

(* Sessions are interchangeable: one order of the requests will do.        *)
Order == SetToSeq(Sessions)
Script(f) == [s \in Sessions |-> f[CHOOSE i \in DOMAIN Order : Order[i] = s]]

(* Two requests of the menu, or one that is made twice.                    *)
Two(menu) ==
    {<<a, a, Nobody>> : a \in {x \in menu : x.op \notin Inserts}}
      \cup {SetToSeq(S) \o <<Nobody>> : S \in kSubset(2, menu)}

Three(menu) ==
    {SetToSeq(S) : S \in kSubset(3, menu)}
      \cup {<<a, a, b>> : a \in {x \in menu : x.op \notin Inserts}, b \in menu}

MCScripts ==
    {Script(f) : f \in UNION {Three(menu) : menu \in Triples}
                         \cup UNION {Two(menu) : menu \in Pairs}}

Keys ==
    DOMAIN MCOpening \cup {W("dave"), N, Order2, Order3, Order5, <<"vault", "new">>,
        <<"withdrawal", "new">>, <<"offer", "sell">>, <<"offer", "buy">>, <<"listing", "l">>,
        <<"bridge_tx", "1">>, <<"bridge_tx", "2">>,
        Ref(<<"CREDIT", D>>), Ref(<<"CREDIT", N>>), Ref(<<"reward", "1">>),
        Ref(<<"welcome", "dave">>), Ref(<<"BRIDGE-OUT", "k">>),
        Ref(<<"BRIDGE-OUT", "l">>), Ref(<<"BRIDGE-IN", "h">>)}
      \cup {<<"subscription", "s">>, <<"exchange", "sell">>, <<"exchange", "buy">>,
              <<"referral", "alice">>, <<"referral", "bob">>}
      \cup {<<"vote", <<p, user>>>> : p \in {P, Q}, user \in {"alice", "bob"}}
      \cup {Bet(n) : n \in 4 .. 6}
      \cup {<<"oracle", <<"m", source>>>> : source \in {"a", "b", "agent"}}
      \cup {<<"oracle", <<"n", "agent">>>>, <<"consensus", "n">>,
              <<"forecast", <<"n", "alice">>>>, <<"validator", "carol">>,
              <<"completion", "2">>, <<"completion", "3">>, <<"offer_completion", "1">>,
              Ref(<<"offer", <<"offer_completion", "1">>>>)}
      \cup {Appeal(id) : id \in {"1", "2"}}
      \cup {Ref(<<"restake", Appeal(id)>>) : id \in {"eve", "carol", "1", "2"}}
      \cup {<<"settlement", m>> : m \in {"m", "n"}}
      \cup {Ref(<<"stake", n>>) : n \in 1 .. 7}
      \cup {Ref(<<op, user>>) : op \in {"slash", "slash-burn", "reject_validator", "leave"},
                               user \in {"alice", "bob"}}
      \cup {Ref(<<"task-completion", <<"completion", id>>>>) : id \in {"1", "2", "3"}}
      \cup {Ref(<<"tsc_claim", Node(1)>>), Ref(<<"storage_proof", Stored(1)>>),
              Challenge(Stored(2)), Ref(<<"stars", "1">>), Ref(<<"remit", "abroad">>),
              Ref(<<"strategy", Strategy>>)}
      \cup {<<"position", <<Strategy, user>>>> : user \in {"alice", "bob"}}
      \cup {r.row : r \in {x \in Scoring : x.op = "ingest"}}
      \cup {<<"verification", "y">>, Merit("carol"), Larger3}
      \cup {<<"merit_event", <<s, n>>>> : s \in Sessions, n \in 0 .. 1}
      \cup {<<kind, s>> : kind \in {"contract_call", "agent_record"}, s \in Sessions}
      \cup {Block(Chain, n) : n \in 1 .. 2}
      \cup {ChapterRef("alice", n) : n \in 1 .. 2}
      \cup {<<"adjustment", op>> : op \in {"manual_credit", "manual_debit", "reset"}}
(* TLC enumerates a set of this form once.                                 *)
MCRows == {r : r \in Keys}
=============================================================================
