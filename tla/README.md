# VIT: models, model checks and proofs

This directory verifies parts of the VIT node and backend. It holds TLA+ modules
translated from the Python source, TLC configurations that check them on small
instances, and theorems that TLAPS proves for every instance. `PROJECT.json`
ties each definition to the lines it stands for, lists the runs, the hazards of the
code and the properties that watch them, and the theorems.

Contents: [what the system is](#the-system), [what is modelled](#modules),
[the coordinator](#the-bft-coordinator), [the ledger](#the-ledger-of-scheduled-runs),
[the chain of a node](#the-chain-of-a-node),
[the application's handlers](#the-applications-handlers),
[runs and bounds](#runs-and-bounds), [proofs](#proofs), [findings](#findings),
[what is not modelled](#not-modelled), [how to run](#running-the-checks).

## The system

VIT is a blockchain node (`vit_chain/`, with its daemon in `backend/vit_node/`) and a
FastAPI application (`backend/app/`) for predictions, wallets, governance and agents
that uses it. Everything is asyncio on one process per node, over SQLAlchemy
sessions; the application runs in several processes over one PostgreSQL database.
Paths below are relative to `src/`; `app/` stands for `backend/app/`.

### Inventory

| Component | State it keeps | Operations | Interacts with | What is hard | What makes it correct |
|---|---|---|---|---|---|
| BFT coordinator (`vit_chain/consensus/coordinator.py`, `protocol.py`) | vote buckets, pending blocks, locks, current round and finality per height, in memory and as `ConsensusState` rows | proposal, vote, certificate and timeout handlers, `finalize`, `_restore_state` | P2P transport (broadcasts), `VITChain.add_block`, database | awaits inside every handler, failed commits, crash and recovery, lost and repeated messages | one block per height; no contradicting votes; what is on the wire is on disk; a round left behind cannot decide |
| Scheduled run ledger (`app/services/scheduled_job_runs.py`) | `scheduled_job_runs`, `scheduled_job_attempts` | enqueue, `claim_run`, `claim_next_run`, `finish_run` | HTTP routes, a cron workflow, PostgreSQL row locks | concurrent requests, expiring leases, lost answers and retries, deadlock of row locks | one owner at a time, bounded attempts, one outcome, truthful answers, both tables in step |
| Node daemon and transport (`backend/vit_node/`, `vit_chain/p2p/router.py`, `connection.py`) | peer sockets, one receive loop per client or peer | receive, dispatch, broadcast, reconnect | coordinator, gossip | one handler at a time (client) or one per peer (router); sends are dropped when not connected | every message is handled by the code its type names; a loss is tolerated above |
| Chain, state and mempool (`vit_chain/core/`, `storage/indexer.py`) | `IoTEvent` rows, wallets, `ChainBlock` and `ChainAccount` rows, pending transactions | `add_block`, `apply_transaction`, `index_block`, `process_new_block`, mempool add and expiry | database, coordinator, gossip, RPC | sessions of several connections overlap on one tip; two ledgers of one balance; the caller commits last | the rows are the chain, each block is paid once, both ledgers agree, nothing pending is lost |
| Gossip and synchronisation (`vit_chain/p2p/gossip.py`, `sync.py`) | seen cache, peer heights, syncing flag | new block, new transaction, batch response | chain, transport | blocks ahead of their parents, seen before accepted, a node that is behind | what arrives late, twice or out of order does no harm; a node that is behind catches up |
| Storage consensus, slashing, reputation (`vit_chain/consensus/engine.py` and others) | epoch counter, stake, jail, missed slots | epoch loop, produce, validate, slash, appeal | chain, registry | local failures that look like a fault of the validator | slashed only for what it did, once |
| Wallet and exchange (`app/modules/wallet/`) | balances per currency, transactions, references, vaults, offers, orders, withdrawals, deposits | transfer, stake, exchange, subscribe, withdraw, deposit, webhooks, offers and orders, chain bridge, corrections | every money module | read-modify-write of copies without row locks, duplicate deliveries, long requests | conservation, no negative balance, one credit per event, a decision stays |
| Treasury and governance (`app/modules/treasury/`, `governance/`) | pools, grants; proposals, tallies, votes | deposit, spend, grants, revenue, epoch rewards; vote, three ways to close, execute | wallet | two commits per pay-out, tallies read and written back | a pool's balance is what was paid in less what was spent; a closed vote stays closed |
| Bridge and remittance (`app/modules/bridge/`, `remittance/`) | bridge transactions and pools | initiate, confirm, send | wallet, chain | two confirmations at once, the mempool filled before the commit | one release per lock; what is submitted is debited, once per key |
| Prediction market (`app/modules/blockchain/`, `services/oracle_settlement_bridge.py`) | stakes, oracle results, settlements, validators, forecasts, appeals | stake, submit, resolve, settle, apply, approve, suspend, slash, leave, appeal | wallet, oracles | a status checked long before it is written | a match is settled once and completely; a stake goes out once |
| Results and grading (`app/services/result*`, `settlement_service.py`) | observations, verifications, outcomes, grades, merit | ingest, verify, update, settle | providers, wallet, merit | read sets that are out of date; commits in the middle of a loop | no score is verified on one provider's word; a prediction is graded once |
| Rewards, tasks, referrals | completions, experience | progress, complete, postback, referral | wallet | duplicate triggers | one reward per completion |
| Storage nodes, prophecy chapters, strategy vaults, subscriptions | proofs, challenges, progress lists, positions | verify, challenge, respond, complete, claim, stake, activate | wallet, merit | references that are the same at every claim, JSON lists written back | an earning is paid once; totals agree with their rows |
| Merit, sub-chains, contracts, agent registry | scores and events, blocks and messages, contract state, records | award, decay, produce, relay, confirm, call, upgrade, record | results | heights and counters read and written back; state changed in place | a sub-chain is linked; scores and counters are those of their rows |
| Kernel, life cycle, plug-ins, event bus (`app/core/`) | registered subsystems, subscriptions, history of events | boot, shutdown, publish, replay | everything | start and stop order, handlers that fail | dependants stop first |
| Agents, swarm, tachyon, AI and sports models, API, frontend, SDK, Solidity, migrations | | | | outside the protocols above | see [Not modelled](#not-modelled) |

## Modules

| Module | What it is | Extends / instantiates |
|---|---|---|
| `Finality` | abstract: nodes finalize one of the proposed blocks, once, the same | |
| `Coordinator` | the BFT coordinator at one height, with network, disk, crashes | instantiates `Finality` |
| `LeasedJob` | abstract: jobs taken under leases, with a budget of tries | |
| `ScheduledRuns` | the ledger of scheduled runs, statement by statement | instantiates `LeasedJob` |
| `ChainNode` | one node's chain, index, gossip memory and mempool, and the wallets it shares with the application | |
| `DbSessions` | what a request handler sees and changes between two awaits | |
| `WalletOps` | wallet: transfers, stakes, vaults, deposits, withdrawals, exchange rate, referrals | `DbSessions` |
| `P2PExchange` | offers, orders and escrow | `WalletOps` |
| `Bridges` | chain bridge and bridge pools | `WalletOps` |
| `Treasury` | pools, grants, proposals | `DbSessions` |
| `Predictions` | stakes, oracle results, settlement, validators | `WalletOps` |
| `Rewards` | tasks and offer postbacks | `WalletOps` |
| `Earnings` | storage nodes, chapters, subscriptions, remittances, listings, strategy vaults, corrections | `Rewards` |
| `Results` | observations, verification, outcomes of matches, grading | `Earnings`, `Predictions` |
| `Merit` | merit scores and the settlement service | `Results` |
| `Registries` | sub-chains, contracts, upgrades, agent records | `WalletOps` |
| `MoneyFlows` | all of these side by side on one database | the ten above |
| `MCCoordinator`, `MCScheduledRuns`, `MCChainNode`, `MCMoneyFlows` | instances for TLC | the module of that name |
| `CoordinatorProofs` | types, certificates, votes, locks and finality of the coordinator | `Coordinator` |
| `ScheduledRunsProofs` | theorems about the ledger | `ScheduledRuns` |
| `Folding` | what `FoldLeft` of a sequence is, by induction | - |
| `ChainNodeProofs` | rows, mempool and solvency of a node; index, accounts and wallets as replays of the chain | `ChainNode`, `Folding` |
| `MoneyProofs` | rows held, payments under a key, transfers to the chain, reads under a lock | `MoneyFlows` |
| `MoneyFinality` | a last status stays, and pays once | `MoneyProofs` |
| `MoneySteps` | what the steps of wallets, offers, bridges, treasury, stakes, validators, rewards and other earnings read and write | `MoneyFinality` |
| `MoneySolvency` | the remaining steps; no balance below zero, transfers to the chain debited, types, settlements that close every stake, sub-chains that stay linked, results verified by two | `MoneySteps` |

Definitions whose comment starts with `Mutant:` are wrong on purpose. Each states a
plausible mistake in the definition that follows it; substituting it makes the property
named in `PROJECT.json` (`mutants`) fail, which shows that the property depends on
that piece of code. Nothing else refers to them.

## The BFT coordinator

### Correspondence

One action is the code of a handler between two suspensions (`await` of the
database or of `_vote_lock`); between them asyncio runs nothing else on that node.

| Model | Code |
|---|---|
| `votes`, `pending`, `locked`, `currentRound` | `self.votes`, `pending_blocks`, `locked_rounds` + `locked_block_hashes`, `current_rounds` (lines 39-48) |
| `savedVotes`, `savedPending`, `savedLocks`, `savedRound` | committed `ConsensusState` rows by state: vote, proposal, `prevote_lock`, `round_advanced` |
| `finalized` | `self.finalized` and the chain's block at the height, set together in `CommitFinal` |
| `task[n][l]` | where the handler in lane `l` of node `n` is suspended, and its locals |
| `proposals`, `sentVotes`, `certificates` | what was ever broadcast; messages are never removed, so they may be lost, late, reordered or repeated |
| `ReceiveProposal`, `ReadTip`, `CommitProposal` | `receive_proposal` 162-235 |
| `ReceiveVote`, `AcquireVoteLock`, `RecordVote`, `CommitPrevote`, `CommitLock`, `CommitTimeout`, `CommitAdvance`, `CommitPrecommit` | `receive_vote` 261-334 with `_cast_vote` and `_advance_round` nested in it |
| `OnRoundTimeout` | `on_round_timeout` 382-395 |
| `ReceiveCertificate`, `BeginFinalize`, `CommitFinal` | `receive_certificate`, `finalize` |
| `CommitRaises`, `CommitCaught` | a commit that fails: the exception leaves the handler, or `_advance_round` catches it. Memory keeps what was assigned before the commit |
| `Restart` | crash, then `_restore_state` 81-160 |
| `Propose` | the driver: `proposal_message` when the node is the round's proposer |

A node's own votes are broadcast by `_cast_vote` only after the `receive_vote` it calls
has returned; that is why a task carries `sends` and `Return` puts them on the wire
together.

Lanes. `backend/vit_node/network/client.py:53-60` awaits each message before it reads
the next, so a daemon with one upstream connection has one lane. `vit_chain/p2p/router.py`
serves each peer in a coroutine of its own (90-94) and a round timer would be another, so several
handlers may be suspended at once: two lanes.

### Abstractions

- One height. Every dictionary is keyed by height; heights share only the chain tip,
  which is here the guard "not finalized yet".
- Signatures are ideal: a vote is its signer's. Validators are correct but may crash.
  Invalid blocks are rejected before any state changes and are not sent.
- The 30-second limit on a vote's age only drops messages; dropping is always possible.
- Prevotes and precommits for the empty hash never occur (the docstring at line 383 says a
  timeout casts a nil prevote; the code casts `round_timeout`), so `Vote` has none.
- A `vote_recovery_blocked` row is only written for rows of older versions; not modelled.
- Failures inside `_restore_state` are not modelled; the node is down until it succeeds.
- A block that reaches the chain through gossip, bypassing finality, is the subject of
  `ChainNode`, which takes the certified blocks as given.
- No production code calls `on_round_timeout` or `proposal_message`: the driver is the
  environment, constrained only by `Builds` and `TimeoutRounds`.
- `CHECK_DEADLOCK FALSE`: a height that is decided, or stuck in a split round, has no next
  step.

### Properties

`Agreement`, `NoQuorumLeftBehind`, `PrevoteOrTimeout`, `OneVotePerSlot`, `SentIsSaved`,
`PrecommitKeepsLock`, `CertificateIsSaved`, the refinement `ImplementsFinality`, and the
liveness property `ProposalIsFinalized`. Each is stated in English above its definition.

Liveness is checked under `HealthySpec`: no fault, no timeout, weak fairness of each node's
`Run`. asyncio resumes a coroutine whose database call has finished, and the
receive loop reads the next message of its socket; a node can therefore always take its next
step, and no more is assumed. In this specification a message is taken once by a node
that still has use for it. Under faults or timeouts the code does not
promise progress: a broadcast is never repeated and a node that has prevoted cannot
give the round up (both listed as hazards without a property).

## The ledger of scheduled runs

### Correspondence

One action is one SQL statement of one request; what its transaction wrote becomes visible
in the action that commits. The database is PostgreSQL at READ COMMITTED:
a statement sees what is committed when it starts, an `UPDATE` locks the rows it
changes until its transaction ends, and one that meets a locked row waits and then evaluates its
`WHERE` again on the new row.

| Model | Code |
|---|---|
| `runs[r]`, `attempts[r][k]` | committed rows of the two tables (`app/db/models.py` 639-689) |
| `tasks[q]` | request `q` in flight: the statement it is at, its parameters, its reading of the clock |
| `passed` | the deadlines (`lease_expires_at`, `next_attempt_at`) that lie in the past. A request keeps the snapshot it took: `_utcnow()` is called once per service call |
| `Enqueue`, `InsertRun` | `enqueue_daily_service_health` |
| `Claim`, `ClaimRun`, `ClaimAttempts`, `Reread`, `RereadAttempt`, `ExhaustRun`, `ExhaustAttempts` | `claim_run` |
| `ClaimNext`, `FindActive`, `SweepRuns`, `SweepAttempts`, `ListCandidates`, `TryNext` | `claim_next_run` |
| `Finish`, `ReadAttempt`, `FinishAttempt`, `FinishRun` | `finish_run` |
| `LocksOf`, `RunFree`, `AttemptFree`, `CanExpire` | row locks (the database, external) |
| `Abort`, `Victim` | a request that dies; the database's choice in a deadlock (external) |
| `Script`, `Arrive` | the requests of `scripts/run_staging_scheduled_health.py`, and of the API |

### Abstractions

- `current_attempt` is `attempt_count` (or `NULL` for 0), `claimed_by` belongs to the current
  attempt, and the lease and retry times are set anew with every attempt: they are derived,
  not variables. Deadlines are named by run and attempt number.
- Result payloads, error codes, and the validation of request bodies are left out. `finish_run`'s replay
  and conflict answers change nothing and are left out once the run is not running.
- All runs have the same `max_attempts`, and the limit of ten candidates is not reached.
- A run's place in the order of creation is its number.
- The sweep's single `UPDATE` waits for all rows it wants before it proceeds; PostgreSQL takes them one
  by one, which allows more deadlocks but no other committed result, since each row is evaluated
  again when its lock is granted.
- A runner reports on a run only if some attempt of it once had its token; it may report late and again.
- `CHECK_DEADLOCK FALSE`: a ledger whose runs have ended may be idle for ever.

### Properties

`RowsAgree`, `HistoryIsAppendOnly`, `AnswerIsTrue`, the refinement `ImplementsLeasedJob`,
the inductive invariant `LedgerInv`, and the liveness property `RunEnds`.

`RunEnds` is checked under `HealthySpec`. Strong fairness of each request's `Statement`:
a waiting statement is one that is enabled again and again, and the database queues waiters for a
row lock. Weak fairness of `Victim`: the deadlock detector runs after a second of
waiting. `SF(Poll)`: the workflow `.github/workflows/staging-scheduled-health.yml` runs daily and its
script calls claim-next. Weak fairness of time. `<>[][~Reports]`: a runner retries a report a
bounded number of times. Nothing obliges a runner to report at all: the property shows that leases,
takeovers and the sweep end every run by themselves.

## The chain of a node

`ChainNode` models what one node stores: `add_block` runs in a database session per
connection, so several calls overlap, and each of its database round trips is one
action.

### Correspondence

| Model | Code |
|---|---|
| `rows` | committed `IoTEvent` rows in the order of their ids, each named by its height |
| `index`, `account` | committed `ChainBlock` and `ChainAccount` rows |
| `wallet` | committed wallets: balance and nonce |
| `task[t]` | a coroutine in `add_block`: where it waits, the heights still to add, and `mine`, what its session has written (`own`: rows changed, `dirty`: those not flushed yet; a flushed row is locked); `save` is the savepoint |
| `seen`, `mempool` | `GossipHandler.seen_messages_*`, `Mempool` |
| `ApplicationMoves`, `app` | a `debit` or `credit` of the application (`wallet/services.py`) between two statements of the chain's sessions; what the application has put into each wallet, the opening balance included, and which wallets it changed while a session was about to write over them |
| `NewBlock`, `BlocksResponse`, `NewTransaction` | `_handle_new_block`, `_handle_blocks_response`, `_handle_new_tx` (`p2p/gossip.py`) |
| `ProcessNewBlock`, `Added` | `BlockchainManager.process_new_block`: its lock is released before the caller commits |
| `ReadTip` | `get_latest_block` and `validate_block` |
| `ApplyMint`, `ReadSender`, `ApplyTransfer`, `ApplyReward` | `StateManager.apply_transaction`, `apply_block_reward` |
| `CheckIndex`, `InsertIndex` | `ChainIndexer.index_block`: a height that is indexed is skipped, an insert of the same key waits and fails |
| `Commit` | the caller's commit; the rows get their place by id, and ids were drawn at the flush |
| `StatementFails`, `Deadlock`, `SessionLost`, `Restart` | a statement that raises, the database's victim, a lost connection, a crash |

`raced` is a history variable: a session has committed a block although another one had
changed the tip it read. `validate_block` compares with a tip that nobody locks, so the code does
not exclude this. The properties say exactly what survives it: the index and the accounts always
are the replay of the blocks indexed (`IndexIsReplay`, thanks to the primary key of
`ChainBlock`), and no wallet is overdrawn by blocks whose amounts and rewards are not negative (`NoWalletOverdrawn`). What needs the absence of such a race is stated under
`~raced`: `RowsAreTheChain`, `WalletMatchesIndex`.

The wallets are the application's (`wallets.vitcoin_balance`): registration, debits, credits and the bridges had changed them before the
first block and go on changing them. So a wallet is not the replay of the chain alone, and `WalletMatchesIndex` says that it holds
what its `ChainAccount` holds and what the application has put in. `state.py` reads a balance and writes the result at the next flush without a
lock; what the application commits in between is lost, in the code and in the model, and `app.crossed` names the
wallets this has happened to, which the property leaves out.

### Abstractions

- The blocks are those consensus has certified, one per height; the peers may send any of
  them at any time. That is an assumption on the peers: `gossip.py:141,169` and `manager.py:117` pass no validator set,
  so `validate_block` does not refuse a block that somebody else has signed.
- `add_block` verifies no transaction. Amounts, fees and rewards are integers of either sign here: the mempool alone looks at an
  amount (`transaction.py:86`), nothing at a fee, and a negative fee or reward lowers a wallet (`Owing` among the workloads).
- Of the application the model keeps that it commits a balance it may commit; the handlers are in `MoneyFlows`. A wallet is
  read where `state.py` loads it, so a session meets whatever the application has committed by then.
- The database is PostgreSQL at READ COMMITTED, as for the ledger. A session keeps the copy it has
  loaded of a wallet.
- Validators are addresses; stakes, uptime and the other columns of a row are left out. A genesis
  mint makes the recipient's wallet, everything else needs one.
- Forwarding to peers, caches, events and metrics change no chain state.
- Synchronisation is not modelled: only tests instantiate `ChainSyncer`, and the router answers a handshake with height 0
  (`router.py:84`). A peer's height is set from its `HANDSHAKE_ACK` (`connection.py:64`) and from a block of its that was added
  (`gossip.py:145`), and read by `check_sync_needed` only.

## The application's handlers

The handlers that move money, decide what is paid, or keep totals share one database.
`DbSessions` models the sessions (`app/db/database.py`, SQLAlchemy) and the other modules
the handlers, one action per stretch of Python between two statements that another
session can see or be seen by. A request is a record in `session[s].req`; what it
has done so far is `session[s].pc`.

### Sessions

| Model | Meaning |
|---|---|
| `table[r]` | the committed row `r = <<table, key>>`, a record of columns; `Absent` if there is none |
| `session[s].read` | the identity map: a row that was loaded once is not loaded again, however old the copy is |
| `session[s].wrote`, `gone` | changed columns, deleted rows. Only columns whose value differs from the copy are written, with values computed from the copy |
| `session[s].held` | rows locked: flushed by autoflush before the next statement, or by `SELECT ... FOR UPDATE` |
| `Fails` | an insert whose key was taken meanwhile, or an update of a deleted row: the request ends and is rolled back |
| `CommitThen` | a commit that more code follows; `expire_on_commit=False`, so the copies stay |
| `lost` | history: `<<operation, row, column>>` of a commit that wrote over a change committed after the copy was loaded |
| `paid` | history: how often each cause was paid |
| `SessionLost` | the connection of a request breaks, between any two statements |

No table of these modules has a version column and only a few handlers lock what they read, so updates
can be lost. `lost` makes this precise: a conservation law that is false once an update was
lost is stated under `lost = {}`, which says that a lost update is the only way to
break it; what the code ensures in spite of them (non-negative balances, unique references, final states,
fresh reads under locks) is stated without that condition.

### Which module stands for which code

| Module | Code | Operations (`req.op`) |
|---|---|---|
| `WalletOps` | `app/modules/wallet/services.py`, `routes.py`, `admin_routes.py`, `webhooks.py`, `app/modules/referral/routes.py`, `app/agents/withdrawal_gatekeeper_agent.py` | send, stake, unstake, open, exchange, subscribe, create_vault, withdraw_vault, withdraw, approve, reject, gatekeeper, deposit, verify, webhook, fail, reward, refer |
| `P2PExchange` | `app/modules/wallet/p2p_routes.py`, which is mounted instead of the older handlers in `wallet/routes.py` | create_offer, cancel_offer, create_order, confirm, release, dispute |
| `Bridges` | `app/modules/wallet/chain_bridge.py`, `app/modules/bridge/service.py` | wallet_to_chain, chain_to_wallet, initiate, relay |
| `Treasury` | `app/modules/treasury/service.py`, `app/modules/governance/service.py`, `routes.py`, `app/agents/governance_executor_agent.py` | pool_deposit, pool_spend, epoch, execute_grant, review_grant, revenue, vote, close, agent_close, execute |
| `Predictions` | `app/modules/blockchain/routes.py`, `oracle.py`, `settlement.py`, `consensus.py`, `app/services/oracle_settlement_bridge.py`, `app/agents/oracle_node_agent.py` | stake_on, oracle, agent, resolve, apply, approve_validator, suspend, reactivate, reject_validator, slash, leave, forecast, appeal, review_appeal |
| `Rewards` | `app/modules/tasks/service.py`, `routes.py`, `app/modules/rewards/service.py` | progress, postback |
| `Earnings` | `app/api/routes/storage_nodes.py`, `admin_ops.py`, `app/modules/storage_verification/service.py`, `prophecy_chain/`, `quant/service.py`, `remittance/routes.py`, `marketplace/service.py`, `wallet/webhooks.py`, `wallet/admin_routes.py`, `app/services/telegram_service.py` | verify_node, claim_node, issue_challenge, respond, complete, claim, activate, stars, remit, list_model, strategy, manual_credit, manual_debit, reset |
| `Results` | `app/services/result_verification_service.py`, `results_settler.py`, `prediction_evaluation_service.py`, `app/api/routes/result.py`, `results_verification.py` | ingest, update_result, settle_results |
| `Merit` | `app/modules/merit/service.py`, `app/services/settlement_service.py` | merit, decay, settle_pending |
| `Registries` | `app/modules/subchain/service.py`, `smart_contracts/service.py`, `executor.py`, `agent_registry/service.py` | produce, relay_message, confirm_message, call, upgrade, execute_upgrade, record_task |

### Abstractions

- Amounts are whole numbers, the currencies are VITCoin (`vit`) and one other (`ngn`); fees that
  only scale an amount are left out, the constants `Yield`, `Bonus`, `ReferralBonus`, `Experience`, `Prize`
  and `MinClaim` stand for the amounts the code pays. A score is known by its outcome.
- A column that is a sum of others, a timestamp no guard reads, a description and a
  notification are left out. Input validation is the choice of the requests in the menus.
- The offers and orders of `p2p_routes.py` and the chain bridge open `async with db.begin()`. In
  the routes the dependency `get_current_user` (`app/auth/dependencies.py:58`) has already selected on
  that session, which has begun a transaction, so `begin()` raises and the handler never starts; the
  bridge's caller `on_chain_transfer.py` gets its session from the same place. The models show what
  the handlers do with a session in which nothing has begun, as their text intends (`result.py`
  authenticates by an API key and does run).
- Idempotency caches of the routes are left out: they answer a repeated request without
  running it. (The one of `p2p_routes.py` stores its answer before the commit.)
- One match, chain, token, agent, grant, pool of each kind, with the users alice, bob and a few others.

### Fairness

`EveryRequestEnds` is checked under weak fairness of `\E s : Step(s)`: the server
goes on as long as any request can. A coroutine whose statement has returned is
resumed, PostgreSQL hands a lock to a waiter when it is free, and its deadlock
detector ends one request of a circle (`Deadlock`). No request is assumed to be
served before another.

## Runs and bounds

| Run | Shows | Instance and why it suffices |
|---|---|---|
| `serial_faults` | all safety properties of serial nodes, the refinement of `Finality`, and `SerialInv` | 2 validators (quorum 2), rounds 0-1, either block in either round, 2 faults: enough for a lock in round 0, a second round with another block, and a crash or failed commit in each |
| `serial_three` | agreement with a third node that sees nothing or everything | 3 validators (quorum 3), one block per round, no faults (`serial_faults` has them) |
| `interleaved` | the vote lock with two handlers of a node in flight | 2 validators, 2 lanes, two proposals in round 0 and a timeout |
| `healthy_liveness` | one proposal is finalized by all | 3 validators, 1 round |
| `interleaved_agreement` | (violation) agreement with two lanes | 2 validators, 2 lanes |
| `replaced_proposal` | (violation) a second proposal replaces the first | 2 validators, 1 round |
| `ledger_races` | tables, history, answers and `LedgerInv` under races | 1 run, 2 tokens, 3 requests in flight, 2 attempts: a holder, a rival and a late report, on the first and on the last attempt |
| `ledger_two_runs` | the ledger implements `LeasedJob` | 2 runs, 1 token, 2 requests, 2 attempts: claim-next moves on to the next candidate, a sweep takes several runs |
| `ledger_ends` | every enqueued run ends | 1 run, 1 token, 2 requests, 3 attempts |
| `claim_next_retry` | (violation) one token holds two runs | the script as the only client; 2 runs, 1 token, 2 requests |
| `chain_races` | rows, index, both ledgers, mempool of one node | four chains of 2-3 blocks (`Swap`: a payment, and blocks of a validator without a wallet, the last of which touches no wallet, so that only the key of the index keeps two sessions apart; `Self`: a payment to oneself; `Poor`: a second transaction that must be refused and take the first back; `Owing`: a negative fee), each with the kinds of messages that may meet, and `Poor` also with the application, which puts in 2 or takes 1 at any moment; a wallet opens with 0, the other with 1; 2 coroutines, at most 4 rows, a seen cache of 2 and a mempool of 1 (both overflow), 1 fault |
| `money_races` | the application's handlers in pairs and triples | see below |

`money_races` starts each behaviour with requests from one menu (`Circles`, `Savings`, `Exchange`,
`Settling`, ... in `MCMoneyFlows`): every two requests of a menu, every request twice
where it may be repeated, and every three of `Circles` (transfers that wait in a circle), `Voting`
(a close between two late votes) and `Minting` (a transfer of the token before and after the upgrade that lets it succeed).
The menu `Bridging` has two users with one key, and each request twice. A menu groups the requests that touch the same rows; requests of
different menus meet in wallets only, which most menus also change. `Opening` puts the rows where races matter:
balances of one or two coins, an offer partly sold, a match with one report, a user one step
from the end of a task. One connection may be lost (`MaxFaults`). `Required = 2` (steps of a task) and
`LastChapter = 2` let a row be reached half way, the other amounts are 1. The properties are about
pairs of sessions and one row's columns, and a lost update needs two sessions; what needs a third is in the
triples. `CHECK_DEADLOCK FALSE` there: when the requests have ended nothing is left to do. That they do
end is `EveryRequestEnds`.

With N = 2 and N = 3 the quorum `2N/3 + 1` is every validator. That two quorums of a larger
set intersect in enough validators is what the proof adds: it holds for every N. Bounds on rounds
(`MaxRound`), rows (`MaxRows`), changes by the application (`MaxMoves`) and faults (`MaxFaults`) are in guards and are parameters of the theorems; the heights of
sub-chains are bounded by the rows there are for blocks (`Produce`).
Symmetry is used only where the permuted values are interchangeable in
the specification and only with safety properties.

## Proofs

All theorems are proved for every value of the constants, from the named assumptions on them
(`NAssumption`, `NilAssumption`, ... in `Coordinator`; `RunsAssumption`, `NoneAssumption`,
`MaxAttemptsAssumption` in `ScheduledRuns`; `Bounds`, `Certified` and `Genesis` in `ChainNode`;
`Requests`, `StakeIds`, `WellFormedRequests`, `OpeningRows` and the others listed below in `MoneyFlows`), which TLC evaluates in
the runs.

### Coordinator

- `TypeCorrect`: `Spec => []TypeOK`, for any number of lanes.
- `SerialInvariant`, `SerialAgreement`, `SerialNoQuorumLeftBehind`, `SerialPrevoteOrTimeout`,
  `SerialCertificateIsSaved` assume `SerialLanes` (one handler at a time per node). With two lanes
  agreement is false, as `interleaved_agreement` shows; the assumption is what the
  proof needs and what the daemon's receive loop gives.

The argument. `Agreement` is not inductive. `SerialInv` adds: what is in another node's
memory or on the wire is durable at its signer (`SeenIsDurable`); a node's round only
moves to `r + 1` when a quorum has given `r` up, each of them durably and without a prevote
there (`RoundsGivenUp`, `GivenUp`); and what is finalized in `r` has a quorum of durable prevotes,
save perhaps the proposer's own whose commit may have failed (`Backed`). If a round left behind were also
decided, a quorum of leavers and a quorum of backers less one would share a validator
that prevoted and gave up the same round, which `PrevoteOrTimeout` excludes. So
everything is finalized in one round, on the certificate of one proposer, whose own
finality record is never overwritten. `HandlersOK` carries what a
suspended handler has checked across its await; this is the part that fails with
more than one lane.

The second part of `CoordinatorProofs` is about what is signed, locked and finalized, in three steps. The first holds for any number of lanes. `SignInv`: the buckets hold one vote per
validator, type and round; a row is a vote that was taken in; a vote on the wire is a row of its
signer, and a precommit in its signer's bucket has its lock on disk. From it follow
`VoteOncePerSlot` and `WireIsSaved`. The vote lock is what makes it
inductive: between the check of the bucket and the vote's entry no other handler of the node runs.

In the second, `LockInv` (serial lanes, at least two validators) says that a precommit in its signer's memory has a
lock at least as late, in a round somebody has reached. A lock can only move to a later round because a quorum of
prevotes is of the latest round any node has come to (`NoQuorumLeftBehind`); `SerialPrecommitKeepsLock` adds
that a restart restores it.

The third is `FinalizedWasProposed` (any lanes) and, with agreement,
`SerialImplementsFinality`, the full refinement of `Finality`: initial states and every step.

### Ledger

- `LedgerInvariant`, and from it `TypeCorrect`, `TablesAgree`, `HistoryKept`, `AnswersTrue`, and
  `RefinesLeasedJob`, which is the full refinement: initial states and every step.

`RowsAgree` is not inductive: a request between two statements writes what an earlier one justified. `LedgerInv`
adds `Fits` (what each suspended request relies on still holds: the run it locked is still claimable
or exhausted, the attempt it updated is still running, its clock reading is in the past),
`LocksExclude` (no row is locked by two transactions), and `PassedWereSet` (a fresh attempt's
lease cannot have run out before it was taken). Two lemmas carry the induction: `QuietStep` for
statements that commit nothing, and `CommitStep` for commits, which disturb nobody as
long as the rows they change are locked by nobody else. `StepChangesRow` then reduces every
step to four ways in which a run's rows may change, from which history and refinement follow run by run.

### Chain of a node

- `PendingKept`, `RowsFollow`: `PendingLeavesForAReason` and `RowsAreTheChain` for any certified chain, any workload, mempool and number of sessions, with
  faults and restarts.

`RowsAreTheChain` is about committed rows; `ChainInv` adds what the sessions hold. A session whose base is
still the end of the table has added consecutive heights from there, and indexed
each of them but the one it is inserting (`InOrder`), in what it may commit and in what it may roll back
to. The base of a session is never beyond the table; a commit that adds rows makes
the table longer than every other session's base, which is why nothing has to be known of the sessions it overtakes: when one of them
commits, `raced` becomes true. The lemmas on updates (`BasedIs`, `AppliedIs`, ...) say what each
assignment of a coroutine keeps; `Goes` then covers all statements that touch wallets only.

`NeverOverdrawn`: `NoWalletOverdrawn` holds also when sessions overlap with each other and with the application and
one writes over the balance of another. It is about chains whose amounts and rewards are not negative (`Gives`). `SolvencyInv` extends the property to what the sessions hold: the
balance a transfer has been checked against, and the wallets a session may commit or roll back to
(`TaskSolvent`). A session writes the sender's balance it checked, less what it took, so a lost update can
make or destroy money but not an overdraft (`MoveSolvent`, which includes payments to oneself).

The second part of `ChainNodeProofs` compares the index and the wallets with folds over the chain. What a fold does one step at a time
comes from `Folding`: `FoldPrefix` (a fold over one more element is the operation applied to the fold so far, for the
recursive function the community modules define it by) and `FoldInvariant` (what every step keeps, the fold has). Neither can be
proved with the library's induction theorems, which take an operator as parameter; both are proved by taking the least
length at which the claim fails.

- `IndexAlwaysReplays`: `IndexIsReplay`, with races, faults and restarts. `ReplayInv` says that the index is `0 .. n - 1` for
  some n, the accounts are the replay of those n blocks, and every session stands on them:
  what it holds in memory is the replay of the indexed blocks and of its own (`TaskReplay`). At most one session has
  blocks to add: `ChainBlock`'s key refuses the second. That is why an overtaken session may
  keep its accounts: it can no longer commit them.
- `WalletsMatch`: `WalletMatchesIndex` under `Genesis` (block 0 of a certified chain mints and
  transfers nothing, which `genesis.py` writes and the model's workloads follow). It is for any opening balances and any
  changes by the application, and leaves out the wallets it has crossed. `AgreeInv` relates, in each session whose tip nobody
  replaced, the wallets it would commit to the accounts it will have indexed, transaction by transaction
  (`Partial`). A zero address holds no wallet row, so a mint has no sender to take from.
- `TypesKept`: the whole of `TypeOK`. The accounts are typed as what the folds produce, the balances by `NeverOverdrawn`,
  the caches and the mempool by what their eviction leaves.

### Money

`MoneyProofs` covers all of `MoneyFlows`: about a hundred handlers, any number of sessions, any rows, any requests that
satisfy `Requests`: a request that names a row names one of the table its handler queries (`TableOf`), the rows of a
transfer to the chain are rows of the instance, an answer is to the challenge of a proof, a proposal sets a row of the
configuration, and a vote is one of the three choices.

The handlers are written with a handful of operations on a session (`Load`, `LockRow`, `Set`, `Add`, `Insert`, `Pay`, ...) and end
a statement with `Query` or `CommitThen`. The proofs use that. For an invariant of sessions a first group of lemmas says when each operation keeps it; each handler is then one
leaf; and one lemma says what `Query` and a commit make of all sessions (`AfterCommit`).

- `SessionsInvAlways`, `LocksExcludeAlways`, `KeyedOnceAlways`: `Kept(s, k)` is what a handler may make of its session: changes are to rows,
  what is paid under a key has its row inserted in the same transaction (`Recorded`), only a
  row nobody holds is locked. `Prepared` adds what an earlier step of a referral has inserted (`Referring`). So no two sessions lock
  a row, and what is paid under a key (the references of the wallet, of the task board and of referrals) is paid once: the `Keyed` half of
  `PaidOnce`, whatever overlaps.
- `LockedReadsAreFreshAlways`: `LockedReadsAreFresh`. The handlers of `LockingOps` read a wallet only together with its lock (`Guarded`), so
  nobody commits that row before they are done, `FreshInv`.
- `BridgeInvAlways`: whoever has given a transfer to the chain is about to record it, has recorded it, was lost, or was refused because the
  reference of its key is there. `wallet_to_chain` holds the user's wallet from its lock to its commit and its copy
  is the row itself (`Debiting`), so nothing else can refuse it (`Handed`).

`MoneyFinality` proves `TerminalIsFinal`, the action property `money_races` checks, for all handlers at once
(`TerminalIsFinalAlways`). The property alone says nothing of what a handler knows, and a handler reads a row in one statement and
writes it in a later one. `FinalityInv` has two halves:

- `Civil`, for every operation on a session: a row is given a status only if the session has read it in one that
  is not final, or inserts it (`Honest`); what it has read is what the table has, or another session has changed it
  since and `old` says so (`Coherent`); no row that has a last status is deleted (`Sparing`); and no copy is dropped
  before the session ends (`Grew`). A commit then overwrites a final status only with such a change in `old`.
- `Ready`, for the handlers that give a status in another statement than the one that checks it: what each of them knows
  between the two. A handler of one row has read it, and found it open (`RowRead`, `RowOpen`); a settlement has
  read its match and its stakes, and pays only those still active, in the order of their numbers
  (`RequestsOpen`, `StakesOpen`). `StakeIds` says that they have numbers: the next stake to be paid is the least one, which exists because
  `<` on numbers is well founded.

A lemma per operation says when it keeps the first half, a lemma per handler that each of its statements keeps both, and
one about `Query`, commits and refusals that the other sessions keep theirs.

`ConcludedOnceAlways`: of `PaidOnce`, what is paid by the commit that gives a row its last status (`Concluded`: orders, offers, withdrawals,
deposits, bridged amounts, upgrades). Whoever pays for such a row gives it that status in the same commit, and has read it without;
so a second payment is one that writes over the first one's status, which the model records as `lost` (`ConcludedInv`).

`MoneySteps` and `MoneySolvency` prove that nothing goes below zero (`NoNegativeBalanceAlways`) and that every row keeps its type
(`TypeOKAlways`). A handler checks a balance in one statement and takes from it in a later one, from its copy, and the
copy may be out of date; what is true is that what it writes was computed from a copy it has checked. That is not inductive by
itself: the amount it takes may come from a row (an order, a stake, a withdrawal), the wallet from another row (whose order it
is), and the next commit makes of what was written what the next handler reads. `SolvencyInv` says it of all of them at once:

- `Founded`: each row of a kind that money depends on (`Tracked`) has all of its columns (`RowFull`), with numbers that are not
  negative, users who have a wallet, currencies, and references to rows of one table (`RowFits`). The rows that nobody deletes (all but the
  validators' and the forecasts) stand.
- `Solid`: the copies a session has read fit in the same way, so do the changes it is about to write (`Writes`), and an insertion has all
  columns. `Framed` adds who writes to the tables other rows are counted on: the settlers to a settled consensus, the
  stakes to a match that has not begun, one handler each to sub-chains, observations and verifications.
- `Carried`: what each handler has loaded when it comes to a statement, one clause for each group of handlers. Without it a
  statement could take from the copy of a row that was never read.
- `Covered`: what a session changes, it holds.

`Good(s, k)` is what a handler may make of its session on the way; a lemma per operation (`GoodBySet`, `GoodByCredit`, `GoodByDebit`, ...) says
when it keeps that, `...Moves` says of each handler that it ends in a session of this kind (`Moves`), and
`SolvencyByCommit` what a commit makes of the table and of all sessions. What is taken from an offer is a sum over its
orders (`SumOf`: a sum over a finite set of rows is a number that is not negative, by induction over the set), and what a request adds
in a loop is taken over the rows left.

`SubmittedIsDebitedAlways`: `SubmittedIsDebited`, for any users and keys. `BridgeInvAlways` says where each transfer can stand. References are
inserted and never written again (`ReferencesFixed`, from what `SolvencyInv` knows of the changes a session is about to make), and a request that has
ended does not move (`EndedStays`), so the row a session has committed under its key stays its own (`OwnInv`).

`StakesAreSettledAlways`: `StakesAreSettled`, for any matches, stakes and requests. `SettlementInv` says what a settlement knows on
its way (`Thorough`): it has loaded every active stake of its match in one statement, and once the match has begun no other can
come (`stake_on` only inserts stakes on matches that have not, `Entitled`); it marks the losers
and pays the others one by one, so that when it records the settlement none of its copies is active (`StakesEnded`); and the pool it closes is its own (`ClosesOwn`).
`PoolsClosedKept` draws the conclusion at a commit: a pool is closed by a settlement's last commit alone, and a stake that were
still active after it would have been there before (`PendingBefore`), among those the settlement has ended. Two
settlements of one match at once do not matter: each has ended what it had loaded.

`SubchainIsLinkedAlways`: `SubchainIsLinked`, for any sub-chains and producers. `ChainInv` adds to the chains being whole (`ChainsWhole`) what a
producer holds between the statement that reads its sub-chain and its commit (`ProducersInv`): nothing is changed yet, and its copy is
`Behind`: the row was no higher when it was read, and if it is as high now, its latest hash and its count are still those. So
when the commit of a producer is not refused its copy is the row as it is, for otherwise the block it would insert is there already (`ChainGrows`); the
chain grows by one block on top (`WholeGrown`), and every other producer of it is behind from then on (`ProducingBehind`). That the
count stays the sum of the blocks needs that a sum over a finite set may be taken in any order (`SumsTake`), by induction on
the least size at which it could fail.

`VerifiedByTwoAlways`: `VerifiedByTwo`, for any providers and matches. Observations are inserted and never changed, so what a comparison has counted
stays (`ReportsStay`). What may go wrong is the verdict: a comparison writes the columns that differ from the copy
it read, so two at once could leave the status of one with the score of the other. `VerdictInv` has two parts:

- `VerdictsStand`: every verdict has its columns, none is dated by a comparison that is still running (`Runners`), and while nothing has
  been lost one that is called verified has two reports of its score.
- `ComparisonsInv`: what a comparison knows at each statement (`Informed`). Its reports are in the table, or are those it is about to insert (`HasReports`);
  the verdict it read is as it was, or has another time, and then the session has it among what changed under it (`Tells`); and it writes either
  all of a verdict or the time with whatever else differs, and verified only with two copies of the score (`Weighed`).

So a commit that loses nothing writes over the verdict it read, and what it leaves of that is as good as what it compared (`WeighedLands`); one that follows another
comparison's writes over its time, and is counted as lost.

The assumptions, besides `Requests` and `StakeIds`, are what the routes check before the handlers run and what the migrations put in the
tables. `WellFormedRequests`: the user of a request has a wallet (each route makes it on the first visit), an amount is not
negative, a currency is one of two, a stake on a match is of something, what a route names is a row, and an ingest names an observation of its match. `OpeningRows`: the
rows there are first fit. `OpeningMatches`: no match is closed at first with an active stake on it. `OpeningChains`: the
sub-chains there are first are chains. `OpeningVerifications`: the verifications there are first have their columns, two reports if they are verified, and
the time of no session. `RowsAreKeyed`: a row is its table and its key. `BetIds`: predictions are numbered. `FiniteRows`; `FaultsBounded`, `WalletAmounts`, `PrizeAmount`: the settings are
numbers. TLC evaluates them all for `money_races`.

### Only model-checked

Liveness (`ProposalIsFinalized`, `RunEnds`, `EveryRequestEnds`) and anything under fairness is beyond TLAPS. Of `MoneyFlows`, the rest of
`PaidOnce` (vaults, validators' stakes, predictions, chapters, completions of tasks, which none of `KeyedOnceAlways` and `ConcludedOnceAlways` covers), `MoneyConserved` and `CachedTotals` are checked and not proved: sums over rows and the guards of single handlers, which hold for the requests of the
run. Some of them are true only without certain overlaps, which the properties state by what a session read before
(`old`).

## Findings

Three runs expect a violation, of what a document or a test of the repository states:

1. `coordinator.py:190`: a proposal handler suspended at its tip read, and the round timer
   of the same node, can sign both the prevote and the timeout vote of a round; two nodes then finalize
   different blocks (`interleaved_agreement`). Needs two handlers in flight on one node.
2. `coordinator.py:228`: a second proposal for the same height and round replaces the first,
   where `WAVE4_PRODUCTION_READINESS.md:38` says that it is discarded (`replaced_proposal`).
   Agreement is not affected.
3. `scheduled_job_runs.py:272`: a claim-next repeated while the first is still being served may
   claim a second run for the same token, where the test of that retry expects the same run
   (`claim_next_retry`). The spare run is taken over when its lease expires.

What follows was met while translating the code. It is part of the models unless a remark says otherwise, and explains
why a property is stated under a condition or leaves a case out.

The chain:

- `core/chain.py:105`, `storage/indexer.py:17`: two sessions on one tip both succeed. The second skips the index (the
  height is there), so the block has two `IoTEvent` rows, its transactions are paid twice in the wallets and once
  in `ChainAccount`. A row that is committed late has a higher id, so `get_latest_block` may return a lower block.
- A validator without a wallet loses reward and fees in the wallets while `ChainAccount` has them.
- `manager.py:122`: the block's transactions leave the mempool before the caller commits.
  A block added by gossip does not remove them at all.
- `state.py:121-166`, `transaction.py:86`: nothing checks a fee or a reward, and `add_block` no transaction; a negative one takes a
  committed wallet below zero. A block is refused neither for its signer (`gossip.py:141,169`, `manager.py:117`).
- `state.py:141`: the balances are the application's, read and written back without a lock: what a handler commits in between is
  overwritten.
- `gossip.py:195` reads the key `hash`, which `to_dict` does not produce (not modelled: nothing calls it).

Wallet, exchange and bridges:

- Balances are read without a lock and written from copies: a concurrent update of the same column is lost.
  Opposite transfers, referrals and settlements can deadlock.
- `wallet/admin_routes.py`: a rejected withdrawal is refunded in VITCoin whatever its currency. A withdrawal
  the gatekeeper marks `manual_review` cannot be decided any more, since approve and reject ask for `pending`.
- `p2p_routes.py`: releasing an order on a sell offer pays the buyer on top of the offer's escrow, and cancelling
  the offer refunds the whole escrow with open orders on it.
- The webhook credits a deposit that has been marked failed.
- `chain_bridge.py:156`: the transfer is in the mempool before the debit is committed, so a lost session leaves it there undebited; two
  pending transfers get the same nonce. The check for the key (75-95) comes before the wallet is locked and looks at the user's own
  transactions, while the reference is unique among all: of two deliveries of one key at once, or of two users' with the same key,
  the later one fails at its insertion, and its transfer stays in the mempool with its debit rolled back. The module's docstring (4-6) and
  the class's (43-49) promise the opposite. `SubmittedIsDebited` says that there are no other ways.
- `storage_nodes.py:334`: the reference of a claim is a hash of the user, the type and the metadata (`services.py:195-208`), which are the
  same at every claim of a node, so every claim after the first pays nothing while the pending amount is cleared. Strategy
  vaults: the reference is the vault's name alone, so a second stake in a vault, by anyone, fails.

Treasury and votes:

- `execute_grant` and `review_grant` pay and mark the grant in two commits: a grant can be paid twice.
  Revenue is distributed in two commits.
- Three closers count differently (the service counts abstentions, the agent does not), and write
  "rejected" or "failed". A vote that read the proposal before a close writes its tally over it. A proposal can be
  executed twice.

Prediction market and results:

- `oracle_settlement_bridge.py:48-63`: agreement is a share of the results received, so the first alone settles
  the match, although `oracle.py:3-4` asks for two of three.
- `settlement.py:286-295` pays validators whose forecast is already graded, which only happens
  afterwards: the validators' share is never paid. A validator that leaves between load and grade makes the settlement fail.
- A validator's stake is refunded twice by two of reject, leave and slash on copies (`lost`).
- Results: a verdict is made of columns two ingests wrote (`lost`); the second of two first observations
  fails on the verification's unique key and is lost; an interrupted `settle_results` is never resumed; two webhooks
  award experience twice; `settlement_service.py:80` commits in the middle of its loop, after which a failure
  leaves the rest ungraded for ever, and `update_closing_by_prediction` compares a missing number as soon as there
  is an entry.

The rest:

- `UserTaskCompletion` has no unique key on user and task: two first calls make two rows, both are rewarded and later
  calls raise. `reset_expired_tasks` never finds a task.
- The prophecy engine pays without a reference, so a chapter it completed can be claimed again, and the route goes back to the
  chapter after any earlier one (`prophecy_chain/routes.py:147-158`), which lets the engine pay a chapter twice; two activations of one
  subscription both pay the commission.
- `executor.py:132`: a transfer of the token compares its amount with `min_transfer`, which `bootstrap` stores as a string
  (`service.py:53`), before anything is caught: it raises, and no call is recorded. Only an upgrade with numeric rules lets a transfer through.
- `smart_contracts/service.py:127`: the state is copied one level deep and changed in place, so such a transfer is
  recorded as a success and not stored; mint and burn are stored because the supply changes.
- Two upgrades of a contract executed at once: the last one wins.

## Not modelled

- **Storage consensus engine, slashing, reputation, producer** (`vit_chain/consensus/engine.py`, `slashing.py`, ..., `core/blockchain.py`).
  Only tests start them. The epoch loop asks for votes through an interface nothing implements
  and never adds a block, the facade always reports height 0. Two things a user of them should know: every
  `finalize_block` that returns `False` slashes the block's validator, also for a local failure
  (`engine.py:168`), and the missed-slot counter is not reset after a slash (`slashing.py:164`).
- **Synchronisation** (`vit_chain/p2p/sync.py`): only tests start it, see above. Connections (`connection.py`), the heights of peers, forwarding and the peer
  registry change no chain state.
- **Dead or failing code** of the application: conversion (`convert_currency` does not exist), the claim of a referral
  (its model does not exist), `auto_relay_pending`, `settle_completed_db_matches`, calls of marketplace models (wrong
  arguments), gigs (a currency that does not exist), verification of academy resources (wrong signature), slashing of
  listings, `ValidatorSlashEngine`, `ValidatorRewardDistributor`, campus rewards, performance of strategy vaults.
- **Handlers that insert or set one row** without reading another session's: registration, deployment of
  contracts, credentials, notifications, approvals of listings, KYC, developer and creator modules, delegation.
- **Multi-signature and freezes** (`app/modules/security/service.py`): a wallet's freeze is never consulted.
- **Elections** are polls and forecasts only, **closing odds**, the **bankroll** and the grading of the sports models are numerical.
- **Kernel, life cycle, plug-ins, event bus, cache**: start-up order and publication inside one process.
- **Agents and the swarm orchestrator**: scheduling around model providers; the agents that decide
  withdrawals, submit results and close votes are modelled with what they change.
- **Tachyon**: upload, erasure coding and retrieval, mostly input and output.
- **Cryptography** is taken as ideal. **HTTP API, authentication, middleware, RPC queries, sports data, AI, frontends, SDKs, Solidity
  packages, migrations** have no protocol of their own, are numerical, or are separate programs.

What would come next: the event bus and life cycle as a module of their own, and the marketplace if its
calls are repaired.

## Running the checks

    tlc -workers 2 -config SerialFaults.cfg MCCoordinator
    tlc -workers 2 -config LedgerRaces.cfg MCScheduledRuns
    tlc -workers 2 -config ChainRaces.cfg MCChainNode
    tlc -workers 2 -config MoneyRaces.cfg MCMoneyFlows
    tlapm CoordinatorProofs.tla
    tlapm ScheduledRunsProofs.tla
    tlapm ChainNodeProofs.tla
    tlapm Folding.tla
    tlapm MoneyProofs.tla
    tlapm MoneyFinality.tla
    tlapm MoneySteps.tla
    tlapm MoneySolvency.tla

The largest runs take about two minutes on two cores; the proofs take up to about twenty minutes each from nothing.
