------------------------------ MODULE Earnings ------------------------------
(***************************************************************************)
(* What else pays a user or takes from one: storage nodes and their        *)
(* challenges, the chapters of the prophecy chain, commissions, purchases, *)
(* remittances, listings, strategy vaults and the admins' corrections.     *)
(***************************************************************************)
EXTENDS Rewards

CONSTANTS Prize,        \* what a storage proof, a chapter or an upgrade pays
          MinClaim,     \* the least that a storage node's owner can claim
          LastChapter   \* the chapters are 1 .. LastChapter

ASSUME PrizeAmount == Prize \in Nat

----------------------------------------------------------------------------
(* A storage node earns by verifications, at most one in half an hour      *)
(* (recent), and its owner claims what is pending.                         *)

LoadFirst(s) ==
    /\ session[s].pc = "start"
    /\ Args(s).op \in {"verify_node", "claim_node", "issue_challenge", "respond",
                       "strategy"}
    /\ IF table[Row(s)] = Absent
       THEN Refuse(s)
       ELSE Query(s, Load(session[s], Row(s)), "row")

Loaded(s) == Copy(session[s], Row(s))

VerifyNode(s) ==
    /\ At(s, "verify_node", "row")
    /\ LET n == Loaded(s) IN
       IF n.recent
       THEN Refuse(s)
       ELSE Commit(s, Set(session[s], Row(s),
                IF n.sound /\ n.status \in {"active", "connected", "pending"}
                THEN [recent |-> TRUE, status |-> "active", passes |-> n.passes + 1,
                      pending |-> n.pending + Prize]
                ELSE [recent |-> TRUE, status |-> "offline"]))

Claimed(k, r) ==
    LET n == Copy(k, r) IN Set(k, r, [earned |-> n.earned + n.pending, pending |-> 0])

(* deposit_vitcoin makes the reference from the node alone: every claim    *)
(* but the first finds the transaction of the first, and credits nothing.  *)
ClaimKey(s) == <<"tsc_claim", Row(s)>>

ClaimEarnings(s) ==
    \/ /\ At(s, "claim_node", "row")
       /\ IF Loaded(s).pending < MinClaim
          THEN Refuse(s)
          ELSE IF table[Ref(ClaimKey(s))] # Absent
          THEN Commit(s, Claimed(session[s], Row(s)))
          ELSE Query(s, Load(session[s], Wallet(s)), "claim")
    \/ /\ At(s, "claim_node", "claim")
       /\ LET n == Loaded(s).pending IN
          Commit(s, Pay(Reference(Add(Claimed(session[s], Row(s)), Wallet(s), "vit", n),
                                  ClaimKey(s), n), Ref(ClaimKey(s))))

----------------------------------------------------------------------------
(* A proof of storage is challenged at most once, so a challenge is known  *)
(* by its proof.  The answer is valid, invalid or late.                    *)

Challenge(proof) == <<"challenge", proof>>
Proof(s) == Row(s)[2]

IssueChallenge(s) ==
    /\ At(s, "issue_challenge", "row")
    /\ IF table[Challenge(Row(s))] # Absent
       THEN End(s, "done")
       ELSE IF Loaded(s).status = "challenged"
       THEN Refuse(s)
       ELSE Commit(s, Set(Insert(session[s], Challenge(Row(s)),
                                 [status |-> "open"]),
                          Row(s), [status |-> "challenged"]))

Answer(s) ==
    /\ At(s, "respond", "row")
    /\ IF Loaded(s).status # "open"
       THEN Refuse(s)
       ELSE IF Args(s).answer = "late"
       THEN Commit(s, Set(session[s], Row(s), [status |-> "expired"]))
       ELSE Query(s, Load(Set(session[s], Row(s), [status |-> Args(s).answer]),
                          Proof(s)), "proof")

Prover(s) == Copy(session[s], Proof(s)).user
ProofKey(s) == <<"storage_proof", Proof(s)>>

(* The prover's node that is active, if there is one.                      *)
ActiveNodes(user) ==
    {r \in Rows : /\ r[1] = "node" /\ table[r] # Absent
                  /\ table[r].user = user /\ table[r].status = "active"}

Resolve(s) ==
    \/ /\ At(s, "respond", "proof")
       /\ LET Judged(status) == Set(session[s], Proof(s), [status |-> status]) IN
          IF Args(s).answer = "invalid"
          THEN Query(s, LoadAll(Judged("failed"), ActiveNodes(Prover(s))), "node")
          ELSE IF table[Ref(ProofKey(s))] # Absent
          THEN Query(s, LoadAll(Judged("verified"), ActiveNodes(Prover(s))), "node")
          ELSE Query(s, Load(Judged("verified"), W(Prover(s))), "reward")
    \/ /\ At(s, "respond", "reward")
       /\ Query(s, LoadAll(Pay(Reference(Add(session[s], W(Prover(s)), "vit", Prize),
                                         ProofKey(s), Prize), Ref(ProofKey(s))),
                           ActiveNodes(Prover(s))), "node")
    \/ /\ At(s, "respond", "node")
       /\ LET nodes == {r \in Known(session[s]) : r[1] = "node"}
              Credited(r) == [earned |-> Copy(session[s], r).earned + Prize,
                              passes |-> Copy(session[s], r).passes + 1]
          IN Commit(s, IF Args(s).answer = "valid"
                       THEN SetEach(session[s], [r \in nodes |-> Credited(r)])
                       ELSE session[s])

----------------------------------------------------------------------------
(* The prophecy chain.  A user's progress is one row, in which the lists   *)
(* of the chapters completed and claimed are JSON columns, written whole.  *)
(* The user has enrolled.                                                  *)

ProgressOf(user) == <<"progress", user>>
Prophecy(s) == ProgressOf(Args(s).user)
NextChapter(n) == IF n < LastChapter THEN n + 1 ELSE 0
ChapterKey(s) == <<"chapter", <<Args(s).user, Args(s).chapter>>>>

ProphecyLoad(s) ==
    /\ At(s, "complete", "start") \/ At(s, "claim", "start")
    /\ Query(s, LoadAll(session[s], {Prophecy(s), User(s)}), "chain")

Experienced(k, s) ==
    Set(k, User(s), [xp |-> Copy(k, User(s)).xp + Experience])

Advanced(k, s, n) ==
    Set(k, Prophecy(s), [completed |-> Copy(k, Prophecy(s)).completed \cup {n},
                         current |-> NextChapter(n)])

Evaluated(k, s) ==
    Set(k, Prophecy(s), [evaluated |-> Copy(k, Prophecy(s)).evaluated + 1])

Granted(k, s) ==
    Set(Experienced(k, s), Prophecy(s),
        [claimed |-> Copy(k, Prophecy(s)).claimed \cup {Args(s).chapter}])

(* The chapter is granted: with its reference, unless that is there.       *)
Grant(s, k) ==
    IF table[Ref(ChapterKey(s))] # Absent
    THEN Commit(s, Granted(k, s))
    ELSE Query(s, Load(k, Wallet(s)), "grant")

(* The requirements of the chapter are met or not.                         *)
CompleteChapter(s) ==
    /\ At(s, "complete", "chain")
    /\ LET p == Copy(session[s], Prophecy(s)) n == Args(s).chapter IN
       IF n \in p.completed
       THEN End(s, "done")
       ELSE \/ Refuse(s)
            \/ Grant(s, Evaluated(Advanced(session[s], s, n), s))

ClaimRewards(s) ==
    /\ At(s, "claim", "chain")
    /\ LET p == Copy(session[s], Prophecy(s)) n == Args(s).chapter IN
       IF n \notin p.completed
       THEN Refuse(s)
       ELSE IF n \in p.claimed THEN End(s, "done")
       ELSE Grant(s, session[s])

GrantChapter(s) ==
    /\ session[s].pc = "grant"
    /\ Commit(s, Pay(Reference(Add(Granted(session[s], s), Wallet(s), "vit", Prize),
                               ChapterKey(s), Prize), Ref(ChapterKey(s))))

(* evaluate_user_progress, after an administrator has entered a result     *)
(* (UpdateResult of module Results), for the user who predicted the match: *)
(* it pays for the current chapter without a transaction row, and claims   *)
(* nothing.                                                                *)
Evaluate(s) ==
    \/ /\ At(s, "update_result", "graded")
       /\ Query(s, Load(session[s], Prophecy(s)), "chain")
    \/ /\ At(s, "update_result", "chain")
       /\ Query(s, Evaluated(session[s], s), "evaluated")
    \/ /\ At(s, "update_result", "evaluated")
       /\ \/ Commit(s, session[s])
          \/ /\ Copy(session[s], Prophecy(s)).current # 0
             /\ Query(s, LoadAll(session[s], {User(s), Wallet(s)}), "advance")
    \/ /\ At(s, "update_result", "advance")
       /\ LET n == Copy(session[s], Prophecy(s)).current IN
          Commit(s, Pay(Advanced(Add(Experienced(session[s], s), Wallet(s), "vit", Prize),
                                 s, n),
                        <<"chapter", <<Args(s).user, n>>>>))

----------------------------------------------------------------------------
(* _activate_subscription, in a webhook: the tier is committed first, then *)
(* the referrer of a user who had none is paid, without a transaction row. *)

Activate(s) ==
    LET referral == <<"referral", Args(s).user>> IN
    \/ /\ At(s, "activate", "start")
       /\ Query(s, Load(session[s], User(s)), "user")
    \/ /\ At(s, "activate", "user")
       /\ IF Copy(session[s], User(s)).tier = "free"
          THEN Query(s, Set(session[s], User(s), [tier |-> "pro"]), "upgrade")
          ELSE End(s, "done")
    \/ /\ At(s, "activate", "upgrade")
       /\ CommitThen(s, session[s], "upgraded")
    \/ /\ At(s, "activate", "upgraded")
       /\ IF table[referral] = Absent
          THEN End(s, "done")
          ELSE Query(s, Load(session[s], W(table[referral].referrer)), "commission")
    \/ /\ At(s, "activate", "commission")
       /\ Commit(s, Pay(Add(session[s], W(table[referral].referrer), "vit", Prize),
                        User(s)))

----------------------------------------------------------------------------
(* Requests that load a wallet and change it.                              *)

LoadWallet(s) ==
    /\ session[s].pc = "start"
    /\ Args(s).op \in {"manual_credit", "manual_debit", "reset", "remit", "stars",
                       "list_model"}
    /\ Query(s, Load(session[s], Wallet(s)), "wallet")

(* A correction by an admin: a transaction row without a reference.        *)
Adjust(s, n) ==
    Commit(s, Insert(Add(session[s], Wallet(s), "vit", n), Row(s), [amount |-> n]))

Correct(s) ==
    \/ At(s, "manual_credit", "wallet") /\ Adjust(s, Args(s).amount)
    \/ /\ At(s, "manual_debit", "wallet")
       /\ IF Balance(s, "vit") < Args(s).amount
          THEN Refuse(s)
          ELSE Adjust(s, -Args(s).amount)
    \/ /\ At(s, "reset", "wallet")
       /\ IF Balance(s, "vit") = 0 THEN End(s, "done") ELSE Adjust(s, -Balance(s, "vit"))

(* A purchase with Telegram Stars: its reference is the number of the      *)
(* message.                                                                *)
Stars(s) ==
    /\ At(s, "stars", "wallet")
    /\ LET key == <<"stars", Args(s).key>> n == Args(s).amount IN
       Commit(s, Pay(Reference(Add(session[s], Wallet(s), "vit", n), key, n), Ref(key)))

(* The reference of a remittance is its recipient.                         *)
Remit(s) ==
    /\ At(s, "remit", "wallet")
    /\ LET n == Args(s).amount IN
       IF Balance(s, "vit") < n
       THEN Refuse(s)
       ELSE Commit(s, Reference(Add(session[s], Wallet(s), "vit", -n),
                                <<"remit", Args(s).to>>, -n))

(* create_listing: the fee for a model on the marketplace is debited and   *)
(* flushed, and committed with the listing.                                *)
ListModel(s) ==
    \/ /\ At(s, "list_model", "wallet")
       /\ IF Balance(s, "vit") < Args(s).amount
          THEN Refuse(s)
          ELSE Query(s, Add(session[s], Wallet(s), "vit", -Args(s).amount), "listing")
    \/ /\ At(s, "list_model", "listing")
       /\ Commit(s, Insert(session[s], Row(s), [status |-> "pending", fee |-> Args(s).amount]))

(* stake_in_vault: the reference of the debit is the vault, so a vault is  *)
(* staked in once.                                                         *)
StakeInVault(s) ==
    LET a == Args(s)
        position == <<"position", <<a.row, a.user>>>>
    IN \/ /\ At(s, "strategy", "row")
          /\ IF Loaded(s).total + a.amount > Loaded(s).cap
             THEN Refuse(s)
             ELSE Query(s, Load(session[s], Wallet(s)), "debit")
       \/ /\ At(s, "strategy", "debit")
          /\ IF Balance(s, "vit") < a.amount
             THEN Refuse(s)
             ELSE Query(s, Load(Reference(Add(session[s], Wallet(s), "vit", -a.amount),
                                          <<"strategy", a.row>>, 0), position), "position")
       \/ /\ At(s, "strategy", "position")
          /\ Commit(s, Add(IF Exists(session[s], position)
                           THEN Add(session[s], position, "staked", a.amount)
                           ELSE Insert(session[s], position, [staked |-> a.amount]),
                           a.row, "total", a.amount))

EarningRequests ==
    {"verify_node", "claim_node", "issue_challenge", "respond",
     "complete", "claim", "activate", "manual_credit",
     "manual_debit", "reset", "stars", "remit", "list_model", "strategy"}

EarningStep(s) ==
    /\ Args(s).op \in EarningRequests
    /\ \/ LoadFirst(s) \/ VerifyNode(s) \/ ClaimEarnings(s) \/ IssueChallenge(s)
       \/ Answer(s) \/ Resolve(s) \/ ProphecyLoad(s) \/ CompleteChapter(s)
       \/ ClaimRewards(s) \/ GrantChapter(s) \/ Activate(s)
       \/ LoadWallet(s) \/ Correct(s) \/ Stars(s) \/ Remit(s)
       \/ ListModel(s) \/ StakeInVault(s)
=============================================================================
