------------------------------ MODULE Treasury ------------------------------
(***************************************************************************)
(* The treasury's pools and grants, and the governance's proposals: voted  *)
(* on, closed and executed.                                                *)
(* Every service function commits for itself, so the execution of a grant  *)
(* and the distribution of revenue commit twice.                           *)
(***************************************************************************)
EXTENDS DbSessions

Target(s) == Args(s).row

(* balance, total_deposited and total_spent of a pool.                     *)
Deposited(k, r, n) ==
    LET p == Copy(k, r) IN
    Set(k, r, [balance |-> p.balance + n, deposited |-> p.deposited + n])

Spent(k, r, n) ==
    LET p == Copy(k, r) IN
    Set(k, r, [balance |-> p.balance - n, spent |-> p.spent + n])

LoadTarget(s) ==
    /\ session[s].pc = "start"
    /\ Args(s).op \in {"pool_deposit", "pool_spend", "execute_grant",
                       "review_grant", "revenue", "vote", "close", "agent_close",
                       "execute"}
    /\ Query(s, Load(session[s], Target(s)), "target")

PoolDeposit(s) ==
    /\ At(s, "pool_deposit", "target")
    /\ Commit(s, Deposited(session[s], Target(s), Args(s).amount))

Affordable(k, r, n) == Copy(k, r).balance >= n

PoolSpend(s) ==
    /\ At(s, "pool_spend", "target")
    /\ IF ~Affordable(session[s], Target(s), Args(s).amount)
       THEN Refuse(s)
       ELSE Commit(s, Spent(session[s], Target(s), Args(s).amount))

(* review_grant looks at no status: a grant can be approved again.         *)
ReviewGrant(s) ==
    /\ At(s, "review_grant", "target")
    /\ \E verdict \in {"approved", "rejected"} :
         Commit(s, Set(session[s], Target(s), [status |-> verdict]))

(* execute_grant: the allocation is committed first, the status after it.  *)
ExecuteGrant(s) ==
    \/ /\ At(s, "execute_grant", "target")
       /\ LET g == Copy(session[s], Target(s)) IN
          IF g.status # "approved"
          THEN Refuse(s)
          ELSE Query(s, Load(session[s], g.pool), "pool")
    \/ /\ At(s, "execute_grant", "pool")
       /\ LET g == Copy(session[s], Target(s)) IN
          IF ~Affordable(session[s], g.pool, g.amount)
          THEN Refuse(s)
          ELSE CommitThen(s, Pay(Spent(session[s], g.pool, g.amount), Target(s)),
                          "executed")
    \/ /\ At(s, "execute_grant", "executed")
       /\ Commit(s, Set(session[s], Target(s), [status |-> "executed"]))

(* distribute_platform_revenue: from one pool (the reserve) to another.    *)
Revenue(s) ==
    \/ /\ At(s, "revenue", "target")
       /\ IF ~Affordable(session[s], Target(s), Args(s).amount)
          THEN Refuse(s)
          ELSE CommitThen(s, Spent(session[s], Target(s), Args(s).amount), "community")
    \/ /\ At(s, "revenue", "community")
       /\ Query(s, Load(session[s], Args(s).to), "deposit")
    \/ /\ At(s, "revenue", "deposit")
       /\ Commit(s, Deposited(session[s], Args(s).to, Args(s).amount))

(* distribute_epoch_rewards: to all pools, here in equal shares.           *)
Pools == {r \in Rows : r[1] = "pool" /\ table[r] # Absent}

EpochRewards(s) ==
    \/ /\ At(s, "epoch", "start")
       /\ Query(s, LoadAll(session[s], Pools), "pools")
    \/ /\ At(s, "epoch", "pools")
       /\ LET n == Args(s).amount
              Shared(r) == [balance |-> Copy(session[s], r).balance + n,
                            deposited |-> Copy(session[s], r).deposited + n]
          IN Commit(s, SetEach(session[s], [r \in Known(session[s]) |-> Shared(r)]))

----------------------------------------------------------------------------
(* cast_vote: a voter's row is unique per proposal and the tally is cached *)
(* in the proposal.  A proposal is closed by whoever finds that its voting *)
(* period has ended: an admin or the refresh of all proposals ("close"),   *)
(* the executor agent ("agent_close"), or a vote that was under way, which *)
(* decides on the copy it has.                                             *)

VoteKey(s) == <<"vote", <<Target(s), Args(s).user>>>>

(* The period ends with the first request that closes the proposal.        *)
PeriodEnded(p) ==
    \E u \in Sessions : /\ Args(u).op \in {"close", "agent_close"} /\ Args(u).row = p
                        /\ session[u].pc # "start"

(* _auto_close_if_needed and the agent disagree on abstentions and names.  *)
Verdict(p) ==
    IF p["for"] + p.against + p.abstain >= p.quorum /\ p["for"] > p.against
    THEN "passed" ELSE "rejected"

AgentVerdict(p) ==
    IF p["for"] + p.against >= p.quorum /\ p["for"] > p.against
    THEN "passed" ELSE "failed"

CastVote(s) ==
    \/ /\ At(s, "vote", "target")
       /\ IF \/ Copy(session[s], Target(s)).status # "active"
             \/ PeriodEnded(Target(s)) \/ table[VoteKey(s)] # Absent
          THEN Refuse(s)
          ELSE Query(s, session[s], "power")
    \/ /\ At(s, "vote", "power")
       /\ LET a == Args(s) p == Copy(session[s], a.row) IN
          CommitThen(s, Set(Insert(session[s], VoteKey(s),
                                         [choice |-> a.choice, power |-> a.power]),
                            a.row, Only(a.choice, p[a.choice] + a.power)), "voted")
    \/ /\ At(s, "vote", "voted")
       /\ LET p == Copy(session[s], Target(s)) IN
          IF PeriodEnded(Target(s))
          THEN Commit(s, Set(session[s], Target(s), [status |-> Verdict(p)]))
          ELSE End(s, "done")

CloseProposal(s) ==
    /\ session[s].pc = "target" /\ Args(s).op \in {"close", "agent_close"}
    /\ LET p == Copy(session[s], Target(s)) IN
       IF p.status # "active"
       THEN Refuse(s)
       ELSE Commit(s, Set(session[s], Target(s),
                [status |-> IF Args(s).op = "close" THEN Verdict(p)
                            ELSE AgentVerdict(p)]))

(* execute_proposal, once the timelock has run out: one parameter is set.  *)
ExecuteProposal(s) ==
    \/ /\ At(s, "execute", "target")
       /\ IF Copy(session[s], Target(s)).status # "passed"
          THEN Refuse(s)
          ELSE Query(s, Load(session[s], Args(s).config), "config")
    \/ /\ At(s, "execute", "config")
       /\ Commit(s, Set(Set(session[s], Args(s).config, [value |-> Args(s).value]),
                        Target(s), [status |-> "executed"]))

TreasuryRequests ==
    {"pool_deposit", "pool_spend", "review_grant", "execute_grant",
     "revenue", "epoch", "vote", "execute", "close", "agent_close"}

TreasuryStep(s) ==
    /\ Args(s).op \in TreasuryRequests
    /\ \/ LoadTarget(s) \/ PoolDeposit(s) \/ PoolSpend(s) \/ ReviewGrant(s)
       \/ ExecuteGrant(s) \/ Revenue(s) \/ EpochRewards(s) \/ CastVote(s) \/ CloseProposal(s)
       \/ ExecuteProposal(s)
=============================================================================
