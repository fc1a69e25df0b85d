------------------------------- MODULE Merit -------------------------------
(***************************************************************************)
(* The merit of a user, which follows the results: the settlement service  *)
(* grades the predictions on a finished match and awards merit for each.   *)
(* Tiers follow the score and are left out.                                *)
(***************************************************************************)
EXTENDS Results

Merit(user) == <<"merit", user>>

NewMerit == [score |-> 0, peak |-> 0, earned |-> 0, taken |-> 0, recent |-> FALSE]

Larger(a, b) == IF a > b THEN a ELSE b

(* Whose merit is concerned, and by how much: of the prediction that is    *)
(* being settled, or of the request.                                       *)
Subject(s) ==
    IF Args(s).op = "settle_pending" THEN Copy(session[s], Args(s).bet).user
    ELSE Args(s).user

Points(s) ==
    IF Args(s).op # "settle_pending" THEN Args(s).points
    ELSE IF Copy(session[s], Args(s).bet).grade = "correct" THEN 10 ELSE -3

(* An event has an id of its own.                                          *)
Event(s) == <<"merit_event", <<s, Cardinality(Args(s).left)>>>>

Awarded(s) ==
    LET k == session[s]
        r == Merit(Subject(s))
        x == Copy(k, r)
        score == Larger(0, x.score + Points(s))
    IN Set(Insert(k, Event(s), [user |-> Subject(s), points |-> Points(s)]), r,
           [score |-> score, peak |-> Larger(x.peak, score), recent |-> TRUE,
            earned |-> x.earned + Larger(0, Points(s)),
            taken |-> x.taken + Larger(0, -Points(s))])

Caused(s) ==
    CASE Args(s).op = "settle_pending" -> Pay(Awarded(s), <<"merit", Args(s).bet>>)
      [] Args(s).op = "decay" -> Pay(Awarded(s), <<"decay", Subject(s)>>)
      [] OTHER -> Awarded(s)

(* A row the session has just inserted is read again.                      *)
Refreshed(k, r) ==
    [k EXCEPT !.read = Over(Only(r, table[r]), @), !.old = {x \in @ : x[1] # r}]

(* record_merit_event commits, and with it what its caller has changed.    *)
RecordMerit(s) ==
    LET r == Merit(Subject(s)) IN
    \/ /\ At(s, "merit", "start")
       /\ Query(s, Load(session[s], r), "score")
    \/ /\ session[s].pc = "score" /\ ~Exists(session[s], r)
       /\ CommitThen(s, Insert(session[s], r, NewMerit), "created")
    \/ /\ session[s].pc = "created"
       /\ Query(s, Refreshed(session[s], r), "score")
    \/ /\ session[s].pc = "score" /\ Exists(session[s], r)
       /\ CommitThen(s, Caused(s), IF Args(s).op = "settle_pending" THEN "clv" ELSE "done")

(* apply_inactivity_decay, of a user who has not been active for a time.   *)
Decay(s) ==
    LET r == Merit(Args(s).user) IN
    \/ /\ At(s, "decay", "start")
       /\ Query(s, Load(session[s], r), "inactive")
    \/ /\ At(s, "decay", "inactive")
       /\ IF ~Exists(session[s], r)
          THEN Refuse(s)
          ELSE IF Copy(session[s], r).score = 0 \/ Copy(session[s], r).recent
          THEN End(s, "done")
          ELSE Query(s, session[s], "score")

----------------------------------------------------------------------------
(* settle_pending_predictions, of one match that should be over and has no *)
(* result yet.  The predictions come in any order (bet: the one it is at,  *)
(* left: those to come).  One that has an entry of closing odds (clv)      *)
(* cannot be settled: the service has no odds to close it with and fails.  *)

Turn(k, left, bet) == [k EXCEPT !.req = [@ EXCEPT !.left = left, !.bet = bet]]

\* Mutant: it does not look for a result.
PendingMatchAnyway(s) ==
    LET k == session[s] bets == OfMatch("prediction", Args(s).match) IN
    \/ /\ At(s, "settle_pending", "start")
       /\ Query(s, Load(k, MatchOf(s)), "match")
    \/ /\ At(s, "settle_pending", "match")
       /\ Query(s, Left(LoadAll(WithResult(k, s, Args(s).result), bets), bets), "next")

PendingMatch(s) ==
    LET k == session[s] bets == OfMatch("prediction", Args(s).match) IN
    \/ /\ At(s, "settle_pending", "start")
       /\ Query(s, Load(k, MatchOf(s)), "match")
    \/ /\ At(s, "settle_pending", "match")
       /\ IF Copy(k, MatchOf(s)).outcome # "none"
          THEN End(s, "done")
          ELSE Query(s, Left(LoadAll(WithResult(k, s, Args(s).result), bets), bets), "next")

PendingNext(s) ==
    LET left == Args(s).left IN
    \/ /\ At(s, "settle_pending", "next") /\ left = {}
       /\ Commit(s, session[s])
    \/ /\ At(s, "settle_pending", "next")
       /\ \E bet \in left :
            LET k == Turn(Graded(session[s], {bet}, "pick", Args(s).result),
                          left \ {bet}, bet)
                user == Copy(k, bet).user
            IN IF user = "" THEN Query(s, k, "clv")
               ELSE Query(s, Load(k, Merit(user)), "score")
    \/ /\ At(s, "settle_pending", "clv")
       /\ IF Copy(session[s], Args(s).bet).clv
          THEN Refuse(s)
          ELSE Query(s, session[s], "next")

MeritStep(s) ==
    /\ Args(s).op \in {"merit", "decay", "settle_pending"}
    /\ \/ RecordMerit(s) \/ Decay(s) \/ PendingMatch(s) \/ PendingNext(s)
=============================================================================
