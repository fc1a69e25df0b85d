------------------------------ MODULE Results ------------------------------
(***************************************************************************)
(* The results of matches and what the predictions on them are worth.      *)
(* Three handlers write a result: one records what a provider reports and  *)
(* compares the providers, one takes it from an administrator, and one     *)
(* settles the finished matches when a webhook says so.                    *)
(*                                                                         *)
(* A score is known by its outcome.  A prediction has the side its user    *)
(* has bet on (pick) and the one the model holds for likely.               *)
(***************************************************************************)
EXTENDS Earnings, Predictions

MatchOf(s) == <<"match", Args(s).match>>
OfMatch(kind, m) == Found({r \in Rows : r[1] = kind /\ r[2][1] = m})
KnownOf(k, kind) == {r \in Known(k) : r[1] = kind}

WithResult(k, s, outcome) ==
    Set(k, MatchOf(s), [status |-> "completed", outcome |-> outcome])

Graded(k, S, column, outcome) ==
    SetEach(k, [r \in S |->
        [grade |-> IF Copy(k, r)[column] = outcome THEN "correct" ELSE "wrong"]])

----------------------------------------------------------------------------
(* ingest_and_verify_match_result.  A report is a score, or says that the  *)
(* match is not over ("pending") or will not be ("unavailable").  The row  *)
(* of an observation is <<match, provider, id>>.                           *)

Verification(s) == <<"verification", Args(s).match>>
Report(k, r) == Copy(k, r).score

(* The observations of a provider that may come first in the order of      *)
(* their versions: nothing keeps two of them from having the same.         *)
Newest(k, provider) ==
    LET own == {r \in KnownOf(k, "observation") : r[2][2] = provider} IN
    {r \in own : \A x \in own : Copy(k, x).version <= Copy(k, r).version}

RecordObservation(s) ==
    LET a == Args(s) k == session[s] newest == Newest(k, a.provider) IN
    \/ /\ At(s, "ingest", "start")
       /\ Query(s, LoadAll(k, {r \in OfMatch("observation", a.match) :
                                 r[2][2] = a.provider}), "versions")
    \/ /\ At(s, "ingest", "versions")
       /\ \/ /\ \E r \in newest : Report(k, r) = a.result
             /\ Query(s, Load(k, MatchOf(s)), "match")
          \/ \E version \in IF newest = {} THEN {1}
                            ELSE {Copy(k, r).version + 1 :
                                    r \in {x \in newest : Report(k, x) # a.result}} :
               Query(s, Load(Insert(k, Row(s), [score |-> a.result, version |-> version]),
                             MatchOf(s)), "match")
    \/ /\ At(s, "ingest", "match")
       /\ Query(s, LoadAll(k, OfMatch("observation", a.match)), "observations")
    \/ /\ At(s, "ingest", "observations")
       /\ Query(s, Load(k, Verification(s)), "compare")

(* One newest observation of each provider.                                *)
Latest(k) ==
    LET providers == {r[2][2] : r \in KnownOf(k, "observation")} IN
    {S \in SUBSET UNION {Newest(k, p) : p \in providers} :
        \A p \in providers : Cardinality({r \in S : r[2][2] = p}) = 1}

Scores(k, latest) == {Report(k, r) : r \in latest} \cap Outcomes

\* Mutant: one provider is enough.
VerifiedByAny(k, latest) ==
    CASE Cardinality(Scores(k, latest)) = 1 -> "verified"
      [] Cardinality(Scores(k, latest)) > 1 -> "needs_review"
      [] OTHER -> "pending"

VerdictOn(k, latest) ==
    LET scored == {r \in latest : Report(k, r) \in Outcomes} IN
    CASE Cardinality(scored) = 1 -> "unverified"
      [] Cardinality(Scores(k, latest)) = 1 /\ Cardinality(scored) > 1 -> "verified"
      [] Cardinality(Scores(k, latest)) > 1 -> "needs_review"
      [] \E r \in latest : Report(k, r) = "unavailable" -> "unavailable"
      [] OTHER -> "pending"

(* The score changes unless the providers differ; at stands for the time   *)
(* of the last comparison of scores.                                       *)
Compared(s, latest) ==
    LET k == session[s]
        verdict == VerdictOn(k, latest)
        before == IF Exists(k, Verification(s)) THEN Copy(k, Verification(s))
                  ELSE [status |-> "pending", score |-> "none", at |-> "never"]
        score == IF verdict \in {"unverified", "verified"}
                 THEN CHOOSE x \in Scores(k, latest) : TRUE ELSE before.score
        corrected == before.status = "verified" /\ score # before.score
        after == [status |-> IF corrected THEN "corrected" ELSE verdict,
                  score |-> score,
                  at |-> IF verdict \in {"pending", "unavailable"} THEN before.at ELSE s]
    IN IF Exists(k, Verification(s)) THEN Set(k, Verification(s), after)
       ELSE Insert(k, Verification(s), after)

(* The match takes a score that is verified, and the predictions on it are *)
(* graded by what the model held for likely.                               *)
VerifyResult(s) ==
    \/ /\ At(s, "ingest", "compare")
       /\ \E latest \in Latest(session[s]) :
            LET k == Compared(s, latest) score == Copy(k, Verification(s)).score IN
            IF VerdictOn(session[s], latest) # "verified"
            THEN Commit(s, k)
            ELSE IF Copy(k, Verification(s)).status # "verified"
            THEN Commit(s, WithResult(k, s, score))
            ELSE Query(s, LoadAll(WithResult(k, s, score),
                                  OfMatch("prediction", Args(s).match)), "evaluate")
    \/ /\ At(s, "ingest", "evaluate")
       /\ Commit(s, Graded(session[s], KnownOf(session[s], "prediction"), "likely",
                           Copy(session[s], Verification(s)).score))

----------------------------------------------------------------------------
(* update_result: the administrator's word, over whatever there was.  When *)
(* it is committed the progress of the user is evaluated (see Evaluate).   *)

UpdateResult(s) ==
    LET a == Args(s) k == session[s] IN
    \/ /\ At(s, "update_result", "start")
       /\ Query(s, Load(k, MatchOf(s)), "match")
    \/ /\ At(s, "update_result", "match")
       /\ Query(s, LoadAll(WithResult(k, s, a.result), OfMatch("prediction", a.match)),
                "predictions")
    \/ /\ At(s, "update_result", "predictions")
       /\ CommitThen(s, Graded(k, KnownOf(k, "prediction"), "pick", a.result), "graded")

----------------------------------------------------------------------------
(* settle_results, of one finished match.  The predictions are settled one *)
(* after the other and each is committed, with the experience its user     *)
(* gets, when the bankroll is saved.  left: those it has not come to.      *)

Left(k, S) == [k EXCEPT !.req = [@ EXCEPT !.left = S]]

\* Mutant: it settles a match that is completed.
SettleLoadAnyway(s) ==
    LET k == session[s] bets == OfMatch("prediction", Args(s).match) IN
    \/ /\ At(s, "settle_results", "start")
       /\ Query(s, Load(k, MatchOf(s)), "match")
    \/ /\ At(s, "settle_results", "match")
       /\ Query(s, Left(LoadAll(WithResult(k, s, Args(s).result), bets), bets), "next")

(* A match that has a result is not settled again.  The platform may want  *)
(* the oracles to agree first: then only the result is recorded.           *)
SettleLoad(s) ==
    LET k == session[s] bets == OfMatch("prediction", Args(s).match) IN
    \/ /\ At(s, "settle_results", "start")
       /\ Query(s, Load(k, MatchOf(s)), "match")
    \/ /\ At(s, "settle_results", "match")
       /\ IF Copy(k, MatchOf(s)).status = "completed" \/ Copy(k, MatchOf(s)).outcome # "none"
          THEN End(s, "done")
          ELSE \/ Commit(s, WithResult(k, s, Args(s).result))
               \/ Query(s, Left(LoadAll(WithResult(k, s, Args(s).result), bets), bets),
                        "next")

NextBet(s) == CHOOSE r \in Args(s).left : \A x \in Args(s).left : r[2][2] <= x[2][2]
Bettor(s) == <<"user", Copy(session[s], NextBet(s)).user>>

SettleNext(s) ==
    LET left == Args(s).left IN
    \/ /\ At(s, "settle_results", "next") /\ left = {}
       /\ Commit(s, session[s])
    \/ /\ At(s, "settle_results", "next") /\ left # {}
       /\ LET k == Graded(session[s], {NextBet(s)}, "pick", Args(s).result) IN
          IF Copy(k, NextBet(s)).user = ""
          THEN CommitThen(s, Left(k, left \ {NextBet(s)}), "next")
          ELSE Query(s, Load(k, Bettor(s)), "award")
    \/ /\ At(s, "settle_results", "award")
       /\ LET k == Set(session[s], Bettor(s),
                       [xp |-> Copy(session[s], Bettor(s)).xp + Experience])
          IN CommitThen(s, Left(Pay(k, <<"prediction", NextBet(s)[2]>>),
                                left \ {NextBet(s)}), "next")

ResultStep(s) ==
    /\ Args(s).op \in {"ingest", "update_result", "settle_results"}
    /\ \/ RecordObservation(s) \/ VerifyResult(s) \/ UpdateResult(s)
       \/ SettleLoad(s) \/ SettleNext(s) \/ Evaluate(s)
=============================================================================
