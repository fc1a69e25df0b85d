------------------------------ MODULE Bridges ------------------------------
(***************************************************************************)
(* The two bridges: WalletChainBridge between a wallet and the VIT chain,  *)
(* which locks the wallet's row, and the pools of the bridge service.      *)
(* The chain bridge is called with a session of its own, in which nothing  *)
(* has been loaded.                                                        *)
(***************************************************************************)
EXTENDS WalletOps

VARIABLE submitted      \* the transfers handed to the chain's mempool

OutRef(s) == Ref(<<"BRIDGE-OUT", Args(s).key>>)
InRef(s) == Ref(<<"BRIDGE-IN", Args(s).key>>)

(* The idempotency check of either direction: a key that the same user has *)
(* used before.                                                            *)
BridgeOutCheck(s) ==
    /\ At(s, "wallet_to_chain", "start")
    /\ IF table[OutRef(s)] # Absent /\ table[OutRef(s)].user = Args(s).user
       THEN End(s, "done")
       ELSE Query(s, session[s], "lock")

BridgeInCheck(s) ==
    /\ At(s, "chain_to_wallet", "start")
    /\ IF table[InRef(s)] # Absent
       THEN End(s, "done")
       ELSE Query(s, session[s], "lock")

\* Mutant: the wallet is read without FOR UPDATE.
BridgeReadOnly(s) ==
    /\ session[s].pc = "lock"
    /\ Query(s, Load(session[s], Wallet(s)), "locked")

BridgeLock(s) ==
    /\ session[s].pc = "lock"
    /\ QueryForUpdate(s, session[s], Wallet(s), "locked")

(* The wallet is debited; the query for the nonce flushes the debit.       *)
BridgeDebit(s) ==
    /\ At(s, "wallet_to_chain", "locked")
    /\ IF Balance(s, "vit") < Args(s).amount
       THEN Refuse(s)
       ELSE Query(s, Add(session[s], Wallet(s), "vit", -Args(s).amount), "submit")

(* The transfer enters the mempool of the process, unless that is full,    *)
(* before the debit is committed.                                          *)
BridgeSubmit(s) ==
    /\ At(s, "wallet_to_chain", "submit")
    /\ \/ /\ submitted' = submitted \cup {s}
          /\ Keep(s, [session[s] EXCEPT !.pc = "record"])
          /\ UNCHANGED <<store, faults>>
       \/ Refuse(s) /\ UNCHANGED submitted

\* Mutant: the debit is not recorded under the key.
BridgeRecordNothing(s) ==
    /\ At(s, "wallet_to_chain", "record")
    /\ Commit(s, session[s])

(* The reference is unique among all users' transactions: a second debit   *)
(* under one key fails here, and its transfer stays in the mempool.        *)
BridgeRecord(s) ==
    /\ At(s, "wallet_to_chain", "record")
    /\ Commit(s, Insert(session[s], OutRef(s),
                        [amount |-> -Args(s).amount, user |-> Args(s).user, hash |-> s]))

BridgeCredit(s) ==
    /\ At(s, "chain_to_wallet", "locked")
    /\ Commit(s, Pay(Reference(Add(session[s], Wallet(s), "vit", Args(s).amount),
                               <<"BRIDGE-IN", Args(s).key>>, Args(s).amount),
                     InRef(s)))

----------------------------------------------------------------------------
(* The bridge service.  A pool is a row [outbound, liquidity, active]; the *)
(* exchange rate is one and there is no fee.                               *)

Pool(s) == Copy(session[s], Args(s).pool)

(* The pool's liquidity is checked when it is loaded.  The debit is        *)
(* flushed before the pool is changed.                                     *)
InitiateLoad(s) ==
    \/ /\ At(s, "initiate", "start")
       /\ Query(s, Load(session[s], Args(s).pool), "pool")
    \/ /\ At(s, "initiate", "pool")
       /\ IF ~Pool(s).active \/ Pool(s).liquidity < Args(s).amount
          THEN Refuse(s)
          ELSE /\ Pool(s).outbound
               /\ Query(s, Load(session[s], Wallet(s)), "wallet")
    \/ /\ At(s, "initiate", "wallet")
       /\ IF Balance(s, "vit") < Args(s).amount
          THEN Refuse(s)
          ELSE Query(s, Add(session[s], Wallet(s), "vit", -Args(s).amount), "lock_pool")

(* Nothing is taken from the user of an inbound transfer: the source chain *)
(* is outside.                                                             *)
Initiate(s) ==
    /\ \/ At(s, "initiate", "lock_pool")
       \/ At(s, "initiate", "pool") /\ ~Pool(s).outbound
             /\ Pool(s).active /\ Pool(s).liquidity >= Args(s).amount
    /\ LET a == Args(s) IN
       Commit(s, Insert(Add(session[s], a.pool, "liquidity", -a.amount), a.row,
                 [user |-> a.user, pool |-> a.pool, amount |-> a.amount,
                  outbound |-> Pool(s).outbound, status |-> "locked"]))

(* confirm_bridge: the new status is flushed by the query for the pool.    *)
ConfirmBridge(s) ==
    \/ /\ At(s, "relay", "start")
       /\ IF table[Row(s)] = Absent
          THEN Refuse(s)
          ELSE Query(s, Load(session[s], Row(s)), "tx")
    \/ /\ At(s, "relay", "tx")
       /\ LET tx == Copy(session[s], Row(s)) IN
          IF tx.status \notin {"locked", "pending"}
          THEN Refuse(s)
          ELSE Query(s, Load(Set(session[s], Row(s), [status |-> "completed"]), tx.pool),
                     "pool")

Relayed(s) ==
    \/ /\ At(s, "relay", "pool")
       /\ LET tx == Copy(session[s], Row(s)) IN
          IF tx.outbound
          THEN Commit(s, session[s])
          ELSE Query(s, Load(session[s], W(tx.user)), "wallet")
    \/ /\ At(s, "relay", "wallet")
       /\ LET tx == Copy(session[s], Row(s)) IN
          Commit(s, Pay(Add(session[s], W(tx.user), "vit", tx.amount), Row(s)))

BridgeRequests ==
    {"wallet_to_chain", "chain_to_wallet", "initiate", "relay"}

BridgeStep(s) ==
    /\ Args(s).op \in BridgeRequests
    /\ \/ BridgeSubmit(s)
       \/ /\ \/ BridgeOutCheck(s) \/ BridgeInCheck(s) \/ BridgeLock(s)
             \/ BridgeDebit(s) \/ BridgeRecord(s) \/ BridgeCredit(s)
             \/ InitiateLoad(s) \/ Initiate(s) \/ ConfirmBridge(s) \/ Relayed(s)
          /\ UNCHANGED submitted
=============================================================================
