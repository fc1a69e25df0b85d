----------------------------- MODULE WalletOps -----------------------------
(***************************************************************************)
(* The wallet: transfers, staking, savings vaults, deposits, withdrawals,  *)
(* rewards and the opening of a wallet, one action per step of a request   *)
(* between two statements that another session can see or be seen by.      *)
(* Amounts are whole numbers and the currencies are VITCoin (column vit)   *)
(* and one other (column ngn).                                             *)
(***************************************************************************)
EXTENDS DbSessions

CONSTANTS Yield,            \* what a matured vault pays on top of its balance
          Bonus,            \* the welcome bonus
          ReferralBonus     \* what either side of a referral gets

ASSUME WalletAmounts == Yield \in Nat /\ Bonus \in Nat /\ ReferralBonus \in Nat

W(user) == <<"wallet", user>>
Ref(name) == <<"reference", name>>
Row(s) == Args(s).row
Wallet(s) == W(Args(s).user)

NewWallet == [vit |-> 0, staked |-> 0, ngn |-> 0]

(* A wallet transaction with a unique reference; amount is what it brings  *)
(* into the wallets from outside, negative for what leaves and 0 for what  *)
(* is booked on another row.                                               *)
Reference(k, name, amount) == Insert(k, Ref(name), [amount |-> amount])

Add(k, r, column, n) ==
    With(LAMBDA x : Set(x, r, Only(column, Copy(x, r)[column] + n)), k)

Balance(s, column) == Copy(session[s], Wallet(s))[column]

----------------------------------------------------------------------------
(* WalletService.transfer: both wallets are loaded, then the sender's is   *)
(* debited and flushed before the recipient's is credited.                 *)

TransferLoad(s) ==
    \/ At(s, "send", "start") /\ Query(s, Load(session[s], W(Args(s).user)), "to")
    \/ At(s, "send", "to") /\ Query(s, Load(session[s], W(Args(s).to)), "debit")

\* Mutant: no balance check.
DebitAnyway(s) ==
    /\ At(s, "send", "debit")
    /\ LET a == Args(s) IN
       Query(s, Add(session[s], W(a.user), a.column, -a.amount), "credit")

Debit(s) ==
    /\ At(s, "send", "debit")
    /\ LET a == Args(s) IN
       IF Balance(s, a.column) < a.amount
       THEN Refuse(s)
       ELSE Query(s, Add(session[s], W(a.user), a.column, -a.amount), "credit")

Credit(s) ==
    /\ At(s, "send", "credit")
    /\ LET a == Args(s) IN
       Commit(s, Add(session[s], W(a.to), a.column, a.amount))

(* The wallets a request wants while it holds one.  No other handler of    *)
(* this module holds a wallet it has written while it waits for a row that *)
(* a holder of wallets may hold.                                           *)
WalletWants(s) ==
    CASE At(s, "send", "credit") -> {W(Args(s).to)}
      [] At(s, "refer", "second") -> {W(Args(s).user)}
      [] OTHER -> {}

----------------------------------------------------------------------------
(* Requests on the own wallet: it is loaded, then checked and changed      *)

LoadOwn(s) ==
    /\ session[s].pc = "start"
    /\ Args(s).op \in {"stake", "unstake", "exchange", "subscribe", "create_vault",
                       "withdraw", "deposit", "create_offer"}
    /\ Query(s, Load(session[s], W(Args(s).user)), "loaded")

Stake(s) ==
    /\ At(s, "stake", "loaded")
    /\ LET a == Args(s) w == W(a.user) IN
       IF Balance(s, "vit") < a.amount
       THEN Refuse(s)
       ELSE Commit(s, Add(Add(session[s], w, "vit", -a.amount), w, "staked", a.amount))

Unstake(s) ==
    /\ At(s, "unstake", "loaded")
    /\ LET a == Args(s) w == W(a.user) IN
       IF Balance(s, "staked") < a.amount
       THEN Refuse(s)
       ELSE Commit(s, Add(Add(session[s], w, "staked", -a.amount), w, "vit", a.amount))

(* vitcoin/buy and vitcoin/sell, at a rate of one and without a fee; the   *)
(* row stands for the two wallet transactions, debit and credit.           *)
BuyOrSell(s) ==
    /\ At(s, "exchange", "loaded")
    /\ LET a == Args(s) w == W(a.user) IN
       IF Balance(s, a.from) < a.amount
       THEN Refuse(s)
       ELSE Commit(s, Insert(Add(Add(session[s], w, a.from, -a.amount),
                                 w, a.to, a.amount),
                   a.row, [from |-> a.from, to |-> a.to, amount |-> a.amount]))

Subscribe(s) ==
    /\ At(s, "subscribe", "loaded")
    /\ LET a == Args(s) IN
       IF Balance(s, a.column) < a.amount
       THEN Refuse(s)
       ELSE Commit(s, Insert(Add(session[s], W(a.user), a.column, -a.amount), a.row,
                   [user |-> a.user, column |-> a.column, amount |-> a.amount]))

CreateVault(s) ==
    /\ At(s, "create_vault", "loaded")
    /\ LET a == Args(s) IN
       IF Balance(s, a.column) < a.amount
       THEN Refuse(s)
       ELSE Commit(s, Insert(Add(session[s], W(a.user), a.column, -a.amount), a.row,
                   [user |-> a.user, column |-> a.column, balance |-> a.amount,
                    locked |-> TRUE, active |-> TRUE]))

(* A new vault is locked for 30 days or more; the ones it can be withdrawn *)
(* from are older than the requests under way.                             *)
WithdrawVaultLoad(s) ==
    \/ /\ At(s, "withdraw_vault", "start")
       /\ Query(s, Load(session[s], Row(s)), "vault")
    \/ /\ At(s, "withdraw_vault", "vault")
       /\ LET v == Copy(session[s], Row(s)) IN
          IF v = Absent \/ ~v.active \/ v.locked
          THEN Refuse(s)
          ELSE Query(s, Load(session[s], W(Args(s).user)), "wallet")

WithdrawVault(s) ==
    /\ At(s, "withdraw_vault", "wallet")
    /\ LET v == Copy(session[s], Row(s)) IN
       Commit(s, Pay(Set(Add(session[s], W(Args(s).user), v.column,
                             v.balance + Yield),
                         Row(s), [active |-> FALSE]), Row(s)))

----------------------------------------------------------------------------
(* Withdrawals: the request reserves the amount, an admin decides          *)

WithdrawRequest(s) ==
    /\ At(s, "withdraw", "loaded")
    /\ LET a == Args(s) IN
       IF Balance(s, a.column) < a.amount
       THEN Refuse(s)
       ELSE Commit(s, Insert(Add(session[s], W(a.user), a.column, -a.amount), a.row,
                   [user |-> a.user, column |-> a.column, amount |-> a.amount,
                    status |-> "pending"]))

Approve(s) ==
    \/ /\ At(s, "approve", "start")
       /\ Query(s, Load(session[s], Row(s)), "request")
    \/ /\ At(s, "approve", "request")
       /\ LET r == Copy(session[s], Row(s)) IN
          IF r = Absent \/ r.status # "pending"
          THEN Refuse(s)
          ELSE Commit(s, Set(session[s], Row(s), [status |-> "approved"]))

(* The agent that looks at the pending withdrawals, all of them in one     *)
(* session: it lets one go or leaves it to an administrator, who can then  *)
(* neither approve nor reject it.                                          *)
Gatekeep(s) ==
    LET requests == {r \in Known(session[s]) : r[1] = "withdrawal"} IN
    \/ /\ At(s, "gatekeeper", "start")
       /\ Query(s, LoadAll(session[s], {r \in Rows : /\ r[1] = "withdrawal"
                                /\ table[r] # Absent /\ table[r].status = "pending"}),
                "requests")
    \/ /\ At(s, "gatekeeper", "requests")
       /\ \E verdict \in [requests -> {"processed", "manual_review"}] :
            Commit(s, SetEach(session[s], [r \in requests |-> [status |-> verdict[r]]]))

(* The new status is flushed by the query for the wallet.  The amount goes *)
(* to the VITCoin balance whatever its currency was.                       *)
Reject(s) ==
    \/ /\ At(s, "reject", "start")
       /\ Query(s, Load(session[s], Row(s)), "request")
    \/ /\ At(s, "reject", "request")
       /\ LET r == Copy(session[s], Row(s)) IN
          IF r = Absent \/ r.status # "pending"
          THEN Refuse(s)
          ELSE Query(s, Load(Set(session[s], Row(s), [status |-> "rejected"]),
                             W(r.user)), "wallet")

Refund(s) ==
    /\ At(s, "reject", "wallet")
    /\ LET r == Copy(session[s], Row(s)) IN
       Commit(s, Pay(Add(session[s], W(r.user), "vit", r.amount), Row(s)))

----------------------------------------------------------------------------
(* Deposits: the transaction row is pending until the provider's answer    *)
(* arrives, at the user's request, in a webhook, or both                   *)

InitiateDeposit(s) ==
    /\ At(s, "deposit", "loaded")
    /\ LET a == Args(s) IN
       Commit(s, Insert(session[s], a.row,
                 [user |-> a.user, column |-> a.column, amount |-> a.amount,
                  status |-> "pending"]))

VerifyLoad(s) ==
    \/ /\ At(s, "verify", "start")
       /\ Query(s, Load(session[s], W(Args(s).user)), "tx")
    \/ /\ At(s, "verify", "tx")
       /\ Query(s, Load(session[s], Row(s)), "settle")

Deposit(k, a) ==
    IF Exists(k, a.row)
    THEN Set(k, a.row, [status |-> "confirmed", amount |-> a.amount])
    ELSE Insert(k, a.row,
             [user |-> a.user, column |-> a.column, amount |-> a.amount,
              status |-> "confirmed"])

\* Mutant: a confirmed deposit is settled again, with a reference of its own.
SettleAgain(s) ==
    /\ At(s, "verify", "settle")
    /\ LET a == Args(s) IN
       Commit(s, Pay(Add(Deposit(session[s], a), W(a.user), a.column, a.amount), a.row))

Settle(s) ==
    /\ At(s, "verify", "settle")
    /\ LET a == Args(s)
           tx == Copy(session[s], a.row)
       IN IF tx # Absent /\ tx.status = "confirmed"
          THEN End(s, "done")
          ELSE Commit(s, Pay(Reference(
                   Add(Deposit(session[s], a), W(a.user), a.column, a.amount),
                   <<"CREDIT", a.row>>, 0), a.row))

(* _credit_wallet_by_reference: without a reference of its own, and also   *)
(* for a transaction that has failed.                                      *)
WebhookLoad(s) ==
    \/ /\ At(s, "webhook", "start")
       /\ Query(s, Load(session[s], Row(s)), "tx")
    \/ /\ At(s, "webhook", "tx")
       /\ LET tx == Copy(session[s], Row(s)) IN
          IF tx = Absent \/ tx.status = "confirmed"
          THEN Refuse(s)
          ELSE Query(s, Load(session[s], W(tx.user)), "wallet")

WebhookCredit(s) ==
    /\ At(s, "webhook", "wallet")
    /\ LET tx == Copy(session[s], Row(s)) IN
       Commit(s, Pay(Set(Add(session[s], W(tx.user), tx.column, tx.amount),
                         Row(s), [status |-> "confirmed"]), Row(s)))

(* _fail_pending_transaction selects pending rows only.                    *)
FailPending(s) ==
    \/ /\ At(s, "fail", "start")
       /\ IF table[Row(s)] = Absent \/ table[Row(s)].status # "pending"
          THEN Refuse(s)
          ELSE Query(s, Load(session[s], Row(s)), "tx")
    \/ /\ At(s, "fail", "tx")
       /\ Commit(s, Set(session[s], Row(s), [status |-> "failed"]))

----------------------------------------------------------------------------
(* WalletService.deposit_vitcoin: rewards, once per reference              *)

RewardLoad(s) ==
    \/ /\ At(s, "reward", "start")
       /\ IF table[Ref(Args(s).key)] # Absent
          THEN End(s, "done")
          ELSE Query(s, session[s], "wallet")
    \/ /\ At(s, "reward", "wallet")
       /\ Query(s, Load(session[s], W(Args(s).user)), "credit")

Reward(s) ==
    /\ At(s, "reward", "credit")
    /\ LET a == Args(s) IN
       Commit(s, Pay(Reference(Add(session[s], W(a.user), "vit", a.amount), a.key, a.amount),
                     Ref(a.key)))

(* get_or_create_wallet for a user without one.  The insert of a second    *)
(* request waits for the first; when that one is committed it fails, the   *)
(* session is rolled back and loads the wallet the first one has made.     *)
OpenWallet(s) ==
    \/ /\ At(s, "open", "start")
       /\ Query(s, Load(session[s], W(Args(s).user)), "load")
    \/ /\ At(s, "open", "load")
       /\ LET w == W(Args(s).user)
              k == Insert(session[s], w, NewWallet)
          IN /\ Unlocked(s, k)
             /\ IF Exists(session[s], w)
                THEN End(s, "done")
                ELSE IF table[w] # Absent
                THEN /\ Keep(s, [Closed(session[s], "bonus") EXCEPT
                                    !.read = Only(w, table[w])])
                     /\ UNCHANGED <<store, faults>>
                ELSE Query(s, k, "bonus")

WelcomeBonus(s) ==
    /\ At(s, "open", "bonus")
    /\ LET u == Args(s).user IN
       IF table[Ref(<<"welcome", u>>)] # Absent
       THEN End(s, "done")
       ELSE Commit(s, Pay(Reference(Add(session[s], W(u), "vit", Bonus),
                                    <<"welcome", u>>, Bonus), Ref(<<"welcome", u>>)))

(* apply_referral_bonus: a user is referred once.  The referrer's wallet   *)
(* is credited and flushed before the own one is loaded.                   *)
Refer(s) ==
    LET a == Args(s)
        referral == <<"referral", a.user>>
    IN \/ /\ At(s, "refer", "start")
          /\ IF table[referral] # Absent
             THEN Refuse(s)
             ELSE Query(s, session[s], "code")
       \/ /\ At(s, "refer", "code")
          /\ Query(s, Load(Insert(session[s], referral, [referrer |-> a.to]),
                           W(a.to)), "first")
       \/ /\ At(s, "refer", "first")
          /\ Query(s, Load(Add(session[s], W(a.to), "vit", ReferralBonus), W(a.user)),
                   "second")
       \/ /\ At(s, "refer", "second")
          /\ Commit(s, Pay(Add(session[s], W(a.user), "vit", ReferralBonus), referral))

WalletRequests ==
    {"send", "refer", "stake", "unstake", "exchange", "subscribe",
     "create_vault", "withdraw_vault", "withdraw", "approve", "reject", "gatekeeper",
     "deposit", "verify", "webhook", "fail", "reward", "open",
     "create_offer"}

WalletStep(s) ==
    /\ Args(s).op \in WalletRequests
    /\ \/ TransferLoad(s) \/ Debit(s) \/ Credit(s)
       \/ LoadOwn(s) \/ Stake(s) \/ Unstake(s) \/ BuyOrSell(s) \/ Subscribe(s)
       \/ CreateVault(s) \/ WithdrawVaultLoad(s) \/ WithdrawVault(s)
       \/ WithdrawRequest(s) \/ Approve(s) \/ Reject(s) \/ Refund(s) \/ Gatekeep(s)
       \/ InitiateDeposit(s) \/ VerifyLoad(s) \/ Settle(s) \/ WebhookLoad(s) \/ WebhookCredit(s)
       \/ FailPending(s) \/ RewardLoad(s) \/ Reward(s)
       \/ OpenWallet(s) \/ WelcomeBonus(s) \/ Refer(s)
=============================================================================
