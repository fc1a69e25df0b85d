---------------------------- MODULE Predictions ----------------------------
(***************************************************************************)
(* The prediction market: stakes on the outcome of a match, the results    *)
(* that oracles submit, the settlement they trigger, and the validators.   *)
(*                                                                         *)
(* <<"consensus", m>> is the consensus row of match m, which is what       *)
(* staking opens and settlement closes.  A stake on another market than    *)
(* the three outcomes is one that the score decides no more: the handicap  *)
(* lands on the line, or the score is missing.                             *)
(***************************************************************************)
EXTENDS WalletOps, FiniteSetsExt

CONSTANT KickedOff      \* the matches that have begun

Outcomes == {"home", "draw", "away"}

Cp(s) == <<"consensus", Args(s).match>>

----------------------------------------------------------------------------
(* stake_on_prediction: the consensus row is made by the first stake; the  *)
(* wallet is locked before it is read.                                     *)

OpenConsensus(k, r) ==
    IF Exists(Load(k, r), r) THEN Load(k, r)
    ELSE Insert(k, r, [status |-> "open"])

\* Mutant: stakes are taken after the match has begun.
StakeLoadAnytime(s) ==
    \/ /\ At(s, "stake_on", "start")
       /\ Query(s, Load(session[s], Cp(s)), "consensus")
    \/ /\ At(s, "stake_on", "consensus")
       /\ Query(s, OpenConsensus(session[s], Cp(s)), "open")
    \/ /\ At(s, "stake_on", "open")
       /\ IF Copy(session[s], Cp(s)).status # "open"
          THEN Refuse(s)
          ELSE QueryForUpdate(s, session[s], W(Args(s).user), "wallet")

StakeLoad(s) ==
    \/ /\ At(s, "stake_on", "start")
       /\ Query(s, Load(session[s], Cp(s)), "consensus")
    \/ /\ At(s, "stake_on", "consensus")
       /\ Query(s, OpenConsensus(session[s], Cp(s)), "open")
    \/ /\ At(s, "stake_on", "open")
       /\ IF Copy(session[s], Cp(s)).status # "open" \/ Args(s).match \in KickedOff
          THEN Refuse(s)
          ELSE QueryForUpdate(s, session[s], W(Args(s).user), "wallet")

StakeOn(s) ==
    /\ At(s, "stake_on", "wallet")
    /\ LET a == Args(s) IN
       IF Balance(s, "vit") < a.amount
       THEN Refuse(s)
       ELSE Commit(s, Insert(Add(session[s], W(a.user), "vit", -a.amount), a.row,
                 [user |-> a.user, match |-> a.match, pick |-> a.pick,
                  amount |-> a.amount, payout |-> 0, status |-> "active"]))

----------------------------------------------------------------------------
(* Results.  One per source and match.  "oracle" is the API of a source,   *)
(* "agent" the oracle node of the application, "resolve" an admin.         *)

OracleKey(s) == <<"oracle", <<Args(s).match, Args(s).source>>>>
ResultsOf(m) == {r \in Rows : r[1] = "oracle" /\ r[2][1] = m}
Results(s) == ResultsOf(Args(s).match) \cap Known(session[s])

Found(S) == {r \in S : table[r] # Absent}

(* The results seen include the one the session has just inserted, and no  *)
(* other that is not committed.                                            *)
SubmitResult(s) ==
    LET seen == Found(ResultsOf(Args(s).match)) IN
    \/ /\ session[s].pc = "start" /\ Args(s).op \in {"oracle", "agent"}
       /\ IF table[OracleKey(s)] = Absent
          THEN Query(s, session[s], "insert")
          ELSE /\ Args(s).op = "agent"
               /\ Query(s, LoadAll(session[s], seen), "results")
    \/ /\ At(s, "oracle", "start") /\ table[OracleKey(s)] # Absent
       /\ Refuse(s)
    \/ /\ session[s].pc = "insert"
       /\ Query(s, LoadAll(Insert(session[s], OracleKey(s),
                      [result |-> Args(s).result, accepted |-> FALSE,
                       disputed |-> FALSE]), seen), "results")
    \/ /\ At(s, "resolve", "start")
       /\ Query(s, LoadAll(session[s], seen), "results")

Tally(s, outcome) ==
    Cardinality({r \in Results(s) : Copy(session[s], r).result = outcome})

(* check_and_settle wants two thirds of the results it sees, the agent one *)
(* result, the admin none.                                                 *)
Agreed(s, outcome) ==
    CASE Args(s).op = "oracle" ->
           100 * Tally(s, outcome) >= 67 * Cardinality(Results(s))
      [] Args(s).op = "agent" -> Tally(s, outcome) >= 1
      [] Args(s).op = "resolve" -> outcome = Args(s).result

Accept(s, outcome) ==
    SetEach(session[s],
        [r \in Results(s) |->
            LET accepted == Copy(session[s], r).result = outcome IN
            IF Args(s).op = "agent" THEN [accepted |-> accepted]
            ELSE [accepted |-> accepted, disputed |-> FALSE]])

CheckResults(s) ==
    /\ session[s].pc = "results"
    /\ \/ /\ Results(s) = {}
          /\ Refuse(s)
       \/ /\ Results(s) # {}
          /\ \E outcome \in Outcomes :
               /\ Agreed(s, outcome)
               /\ Query(s, Load(Accept(s, outcome), Cp(s)), "consensus")
       \/ /\ \A outcome \in Outcomes : ~Agreed(s, outcome)
          /\ Commit(s, IF Cardinality(Results(s)) < 3 THEN session[s]
                       ELSE SetEach(session[s],
                                [r \in Results(s) |-> [disputed |-> TRUE]]))

----------------------------------------------------------------------------
(* settle_match.  The stakes and then the wallets are loaded; each payment *)
(* is flushed, so the wallets are locked one after the other.              *)

StakesOf(m) == {r \in Rows : r[1] = "stake" /\ table[r] # Absent
                               /\ table[r].match = m /\ table[r].status = "active"}

(* The agent makes the consensus row that is missing.                      *)
LoadStakes(s) ==
    /\ Args(s).op \in {"oracle", "agent", "resolve"} /\ session[s].pc = "consensus"
    /\ LET k == session[s]
           active == StakesOf(Args(s).match)
       IN IF Exists(k, Cp(s))
          THEN IF Copy(k, Cp(s)).status = "settled"
               THEN Commit(s, k)
               ELSE Query(s, LoadAll(k, active), "stakes")
          ELSE IF Args(s).op = "agent"
               THEN Query(s, LoadAll(OpenConsensus(k, Cp(s)), active), "stakes")
               ELSE Refuse(s)

Stakes(s) == {r \in Known(session[s]) : r[1] = "stake"}

LoadWallets(s) ==
    /\ session[s].pc = "stakes"
    /\ Query(s, LoadAll(session[s],
                    {W(session[s].read[r].user) : r \in Stakes(s)}), "pay")

(* The outcome the session has settled on: its accepted results have it.   *)
Outcome(s) ==
    IF Args(s).op = "resolve" THEN Args(s).result
    ELSE Copy(session[s], CHOOSE r \in Results(s) :
                            Copy(session[s], r).accepted).result

Amounts(s, picks) ==
    LET Of(r) == session[s].read[r].amount IN
    MapThenSumSet(Of, {r \in Stakes(s) : session[s].read[r].pick \in picks})

Fee(pool) == (2 * pool) \div 100

Payout(s, r) ==
    LET x == session[s].read[r] IN
    IF x.pick \notin Outcomes THEN x.amount
    ELSE (x.amount * (Amounts(s, Outcomes) - Fee(Amounts(s, Outcomes))))
           \div Amounts(s, {Outcome(s)})

(* Still to be paid: the winners and the stakes to refund.                 *)
Due(s) == {r \in Stakes(s) : /\ Copy(session[s], r).status = "active"
                              /\ session[s].read[r].pick \notin Outcomes \ {Outcome(s)}}

NextDue(s) == CHOOSE r \in Due(s) : \A x \in Due(s) : r[2] <= x[2]

LosersMarked(s) ==
    SetEach(session[s],
        [r \in {x \in Stakes(s) :
                 session[s].read[x].pick \in Outcomes \ {Outcome(s)}}
           |-> [status |-> "lost"]])

PayNext(s) ==
    /\ session[s].pc = "pay" /\ Due(s) # {}
    /\ LET r == NextDue(s)
           x == session[s].read[r]
           status == IF x.pick \in Outcomes THEN "won" ELSE "refunded"
           k == Set(LosersMarked(s), r, [status |-> status, payout |-> Payout(s, r)])
       IN Query(s, Pay(Reference(Add(k, W(x.user), "vit", Payout(s, r)),
                                 <<"stake", r[2]>>, 0), <<"stake", r[2]>>), "pay")

(* The settlement row is unique per match.  The validators' share is       *)
(* recorded in it and paid to nobody: no forecast is graded yet.           *)
ForecastsOf(m) == {r \in Rows : r[1] = "forecast" /\ r[2][1] = m}
Validator(user) == <<"validator", user>>

RecordSettlement(s) ==
    /\ session[s].pc = "pay" /\ Due(s) = {}
    /\ LET forecasts == {r \in Found(ForecastsOf(Args(s).match)) :
                            table[Validator(r[2][2])] # Absent}
           k == Insert(Set(LosersMarked(s), Cp(s), [status |-> "settled"]),
                    <<"settlement", Args(s).match>>,
                    [pool |-> Amounts(s, Outcomes),
                     winning |-> Amounts(s, {Outcome(s)})])
       IN Query(s, LoadAll(k, forecasts \cup {Validator(r[2][2]) : r \in forecasts}),
                "grade")

(* update_trust_scores: every forecast of the match is graded and counted. *)
(* It is accurate if it gave the outcome more than 0.85: that is its pick. *)
GradeForecasts(s) ==
    /\ session[s].pc = "grade"
    /\ LET k == session[s]
           forecasts == Known(k) \cap ForecastsOf(Args(s).match)
           graded == SetEach(k, [r \in forecasts |->
                       [grade |-> IF k.read[r].pick = Outcome(s) THEN "accurate"
                                  ELSE "inaccurate"]])
       IN Commit(s, SetEach(graded, [v \in {Validator(r[2][2]) : r \in forecasts} |->
                       [graded |-> k.read[v].graded + 1]]))

----------------------------------------------------------------------------
(* Validators.  A user has one profile, with a stake paid from the wallet; *)
(* the key stands for one profile, so nobody applies again here.           *)

Profile(s) == Validator(Args(s).user)
ForecastKey(s) == <<"forecast", <<Args(s).match, Args(s).user>>>>

LoadProfile(s) ==
    /\ session[s].pc = "start"
    /\ \/ /\ Args(s).op \in {"approve_validator", "suspend", "reactivate", "slash",
                             "reject_validator", "leave", "forecast", "appeal"}
          /\ IF table[Profile(s)] = Absent
             THEN Refuse(s)
             ELSE Query(s, Load(session[s], Profile(s)), "profile")
       \/ /\ Args(s).op = "apply"
          /\ IF table[Profile(s)] # Absent
             THEN Refuse(s)
             ELSE QueryForUpdate(s, session[s], W(Args(s).user), "apply")

Apply(s) ==
    /\ At(s, "apply", "apply")
    /\ LET a == Args(s) IN
       IF Balance(s, "vit") < a.amount
       THEN Refuse(s)
       ELSE Commit(s, Insert(Add(session[s], W(a.user), "vit", -a.amount),
                 Profile(s), [stake |-> a.amount, status |-> "pending", graded |-> 0]))

(* The status an admin's decision needs and the one it gives.              *)
Allowed(op) ==
    CASE op = "approve_validator" -> {"pending", "suspended"}
      [] op = "suspend" -> {"pending", "active", "suspended"}
      [] op = "reactivate" -> {"suspended"}
      [] op = "reject_validator" -> {"pending"}
      [] op \in {"slash", "leave"} -> {"pending", "active", "suspended"}
      [] op = "forecast" -> {"active"}
      [] op = "appeal" -> {"slashed"}

Decide(s) ==
    /\ session[s].pc = "profile"
    /\ Copy(session[s], Profile(s)).status \in Allowed(Args(s).op)
    /\ \/ /\ Args(s).op \in {"approve_validator", "suspend", "reactivate"}
          /\ Commit(s, Set(session[s], Profile(s),
                 [status |-> IF Args(s).op = "suspend" THEN "suspended" ELSE "active"]))
       \/ /\ Args(s).op \in {"slash", "reject_validator", "leave"}
          /\ QueryForUpdate(s, session[s], W(Args(s).user), "refund")
       \/ /\ Args(s).op = "forecast"
          /\ IF table[ForecastKey(s)] # Absent
             THEN Refuse(s)
             ELSE Query(s, session[s], "forecast")
       \/ /\ Args(s).op = "appeal"
          /\ IF \E r \in Rows : /\ r[1] = "appeal" /\ table[r] # Absent
                                /\ table[r].user = Args(s).user
                                /\ table[r].status = "pending"
             THEN Refuse(s)
             ELSE Query(s, session[s], "appeal")

Forbidden(s) ==
    /\ session[s].pc = "profile"
    /\ Copy(session[s], Profile(s)).status \notin Allowed(Args(s).op)
    /\ Refuse(s)

(* The refund of the stake, under a reference of each operation's own.     *)
Refunded(s, n) ==
    LET user == Args(s).user IN
    IF n = 0 THEN session[s]
    ELSE Pay(Reference(Add(session[s], W(user), "vit", n),
                       <<Args(s).op, user>>, 0), Profile(s))

(* reject and withdraw: the stake that was loaded before the wallet was    *)
(* locked is refunded, and the profile deleted with its forecasts.         *)
EndProfile(s) ==
    /\ session[s].pc = "refund" /\ Args(s).op \in {"reject_validator", "leave"}
    /\ Commit(s, Delete(Refunded(s, Copy(session[s], Profile(s)).stake),
            {Profile(s)} \cup Found({r \in Rows : r[1] = "forecast"
                                                  /\ r[2][2] = Args(s).user})))

(* slash: a part of the stake is burned and the rest refunded.             *)
Slash(s) ==
    /\ At(s, "slash", "refund")
    /\ LET stake == Copy(session[s], Profile(s)).stake
           burn == IF Args(s).all THEN stake ELSE stake \div 2
           k == Refunded(s, stake - burn)
       IN Commit(s, Set(IF burn = 0 THEN k
                        ELSE Reference(k, <<"slash-burn", Args(s).user>>, -burn),
                        Profile(s), [stake |-> 0, status |-> "slashed"]))

(* submit_validator_prediction refers to the profile, which must exist.    *)
SubmitForecast(s) ==
    /\ At(s, "forecast", "forecast")
    /\ IF table[Profile(s)] = Absent
       THEN Refuse(s)
       ELSE Commit(s, OpenConsensus(Insert(session[s], ForecastKey(s),
                 [pick |-> Args(s).pick, grade |-> "pending"]), Cp(s)))

(* Appeals.  Nothing but the check keeps a user from having two pending.   *)
SubmitAppeal(s) ==
    /\ At(s, "appeal", "appeal")
    /\ Commit(s, Insert(session[s], Row(s), [user |-> Args(s).user, status |-> "pending"]))

(* An appeal that is granted suspends the validator, whatever its status   *)
(* is by then, and pays the amount the admin chooses, if any.  If there is *)
(* one to pay and the profile is gone, the handler fails: the message      *)
(* names an amount that was never set.                                     *)
ReviewAppeal(s) ==
    LET appeal == Copy(session[s], Row(s))
        profile == Validator(appeal.user)
        suspended == Set(session[s], profile, [status |-> "suspended"])
    IN
    \/ /\ At(s, "review_appeal", "start")
       /\ Query(s, Load(session[s], Row(s)), "review")
    \/ /\ At(s, "review_appeal", "review")
       /\ IF appeal = Absent \/ appeal.status # "pending"
          THEN Refuse(s)
          ELSE \E verdict \in {"approved", "rejected"} :
                 IF verdict = "rejected"
                 THEN Commit(s, Set(session[s], Row(s), [status |-> verdict]))
                 ELSE Query(s, Load(Set(session[s], Row(s), [status |-> verdict]), profile),
                            "restore")
    \/ /\ At(s, "review_appeal", "restore")
       /\ IF Args(s).amount = 0
          THEN Commit(s, IF Exists(session[s], profile) THEN suspended ELSE session[s])
          ELSE IF Exists(session[s], profile)
               THEN Query(s, Load(suspended, W(appeal.user)), "restake")
               ELSE Refuse(s)
    \/ /\ At(s, "review_appeal", "restake")
       /\ Commit(s, Pay(Reference(Add(session[s], W(appeal.user), "vit", Args(s).amount),
                                  <<"restake", Row(s)>>, Args(s).amount), Row(s)))

(* The rows a request wants while it holds wallets or a validator's row.   *)
PredictionWants(s) ==
    CASE session[s].pc = "pay" /\ Due(s) # {} ->
           {W(session[s].read[NextDue(s)].user)}
      [] session[s].pc = "grade" -> {r \in Known(session[s]) : r[1] = "validator"}
      [] session[s].pc = "refund" -> {Profile(s)}
      [] session[s].pc = "restake" -> {W(Copy(session[s], Row(s)).user)}
      [] OTHER -> {}

PredictionRequests ==
    {"stake_on", "oracle", "resolve", "apply", "slash", "forecast",
     "appeal", "review_appeal", "agent", "approve_validator", "suspend",
     "reactivate", "reject_validator", "leave"}

PredictionStep(s) ==
    /\ Args(s).op \in PredictionRequests
    /\ \/ StakeLoad(s) \/ StakeOn(s) \/ SubmitResult(s) \/ CheckResults(s)
       \/ LoadStakes(s) \/ LoadWallets(s) \/ PayNext(s) \/ RecordSettlement(s)
       \/ GradeForecasts(s) \/ LoadProfile(s) \/ Apply(s) \/ Decide(s) \/ Forbidden(s)
       \/ EndProfile(s) \/ Slash(s) \/ SubmitForecast(s) \/ SubmitAppeal(s)
       \/ ReviewAppeal(s)
=============================================================================
